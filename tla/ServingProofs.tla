--------------------------- MODULE ServingProofs ---------------------------
(* Proofs about the way of a request to a model and of its answer to the   *)
(* client and the speaker: ProviderFailover, ApiExecution, VoiceStreaming, *)
(* VoiceSession.                                                           *)
EXTENDS ProviderFailover, ApiExecution, VoiceStreaming, VoiceSession, Integers, TLAPS

-----------------------------------------------------------------------------
(* Providers: for any number of providers and requests, any cooldown and   *)
(* any number of attempts.                                                 *)

Busy == {"routed", "calling", "backoff"}

(* A request keeps a call in hand for every candidate it has left, and a   *)
(* local one has only local candidates left.                               *)
Dutiful(r) ==
  /\ \A p \in Providers : called[r][p] <= request[r].attempt
  /\ \A p \in request[r].left : called[r][p] < request[r].attempt
  /\ request[r].local =>
       /\ request[r].left \subseteq Local
       /\ \A p \in Providers \ Local : called[r][p] = 0
  /\ request[r].phase = "new" => request[r] = Fresh
  /\ request[r].phase = "routed" => request[r].attempt = 0
  /\ request[r].phase = "backoff" => request[r].attempt < MaxAttempts
  /\ request[r].phase \in Busy => request[r].primary \in Providers
  /\ request[r].phase = "calling" => request[r].at \in Providers

(* A cached status without a timer is of a provider that does not cool     *)
(* down, and one that writes a usable provider off has a timer.            *)
Timed(p, s, until) ==
  /\ s.seen /\ s.until = 0 => until <= now
  /\ s.seen /\ ~s.available /\ p \in Usable => s.until > 0

ProviderInv ==
  /\ TypeOK
  /\ \A r \in Requests : Dutiful(r)
  /\ \A p \in Providers : Timed(p, status[p], cooldowns[p])

Untils == 0..(Horizon + Cooldown)

(* What is called does not cool down.                                      *)
CallsWarm ==
  \A r \in Requests, p \in Providers :
    called'[r][p] > called[r][p] => cooldowns'[p] <= now

(* Looking at a provider, and what the loop concludes when it is available. *)
LEMMA PruneSafe ==
  ASSUME now \in 0..Horizon, NEW u \in Untils
  PROVE  Pruned(u) \in Untils /\ (Pruned(u) # 0 => Pruned(u) = u)
BY ProviderAssumption DEF Pruned, Untils

LEMMA LookSafe ==
  ASSUME NEW p \in Providers, NEW st \in [Providers -> Status],
         NEW cd \in [Providers -> Untils], now \in 0..Horizon,
         Timed(p, st[p], cd[p])
  PROVE  /\ Look(p, st, cd) \in Status /\ LookDown(p, st, cd) \in Untils
         /\ Timed(p, Look(p, st, cd), LookDown(p, st, cd))
         /\ Look(p, st, cd).available => LookDown(p, st, cd) <= now
<1>1. cd[p] \in Untils /\ st[p] \in Status /\ now \in Nat  OBVIOUS
<1>2. CASE st[p].seen /\ st[p].until = 0
  <2>1. Look(p, st, cd) = st[p] /\ LookDown(p, st, cd) = cd[p]
    BY <1>2 DEF Look, LookDown
  <2> QED  BY <1>1, <1>2, <2>1 DEF Timed
<1>3. CASE ~(st[p].seen /\ st[p].until = 0)
  <2>1. PICK u \in Untils : u = Pruned(cd[p])  BY <1>1, PruneSafe
  <2>2. PICK b \in BOOLEAN : b <=> p \in Usable /\ u = 0  OBVIOUS
  <2>3. b = (p \in Usable /\ u = 0)  BY <2>2
  <2>4. Look(p, st, cd) = [seen |-> TRUE, available |-> b, until |-> u]
        /\ LookDown(p, st, cd) = u
    BY <1>3, <2>1, <2>3, Zenon DEF Look, LookDown, Check
  <2>5. u \in Nat  BY <2>1, ProviderAssumption DEF Untils
  <2>6. PICK y \in Status : y = [seen |-> TRUE, available |-> b, until |-> u]
    BY <2>1, <2>2 DEF Status, Untils
  <2>7. y.seen = TRUE /\ y.available = b /\ y.until = u  BY <2>6
  <2>8. Timed(p, y, u)  BY <1>1, <2>2, <2>5, <2>7 DEF Timed
  <2>9. b => u <= now  BY <1>1, <2>2
  <2> QED  BY <2>1, <2>4, <2>6, <2>7, <2>8, <2>9
<1> QED  BY <1>2, <1>3

(* The loop over the candidates.                                           *)
LEMMA ProceedSafe ==
  ASSUME TypeOK, NEW r \in Requests, NEW req \in Request,
         NEW left \in SUBSET Providers, NEW st \in [Providers -> Status],
         NEW cd \in [Providers -> Untils],
         Proceed(r, req, left, st, cd), now' = now,
         \A p \in Providers : Timed(p, st[p], cd[p]),
         \A p \in Providers : called[r][p] <= req.attempt,
         \A p \in left : called[r][p] < req.attempt, req.primary \in Providers,
         req.local => left \subseteq Local
                      /\ \A p \in Providers \ Local : called[r][p] = 0,
         \A q \in Requests \ {r} : Dutiful(q)
  PROVE  ProviderInv' /\ CallsWarm
<1> DEFINE open   == {p \in left : Look(p, st, cd).available}
           first  == {p \in open : \A q \in open \ {p} : Before(r, p, q)}
           looked == {p \in left : \A q \in first : p = q \/ Before(r, p, q)}
<1>1. /\ status' = [p \in Providers |->
                      IF p \in looked THEN Look(p, st, cd) ELSE st[p]]
      /\ cooldowns' = [p \in Providers |->
                        IF p \in looked THEN LookDown(p, st, cd) ELSE cd[p]]
  BY Zenon DEF Proceed
<1>2. now \in 0..Horizon  BY DEF TypeOK
<1>3. ASSUME NEW p \in Providers
      PROVE  /\ status'[p] \in Status /\ cooldowns'[p] \in Untils
             /\ Timed(p, status'[p], cooldowns'[p])
  <2> HIDE DEF looked
  <2>1. CASE p \in looked
    <3>1. status'[p] = Look(p, st, cd) /\ cooldowns'[p] = LookDown(p, st, cd)
      BY <1>1, <2>1
    <3> QED  BY <3>1, <1>2, LookSafe
  <2>2. CASE p \notin looked
    <3>1. status'[p] = st[p] /\ cooldowns'[p] = cd[p]  BY <1>1, <2>2
    <3> QED  BY <3>1
  <2> QED  BY <2>1, <2>2
<1>4. status' \in [Providers -> Status] /\ cooldowns' \in [Providers -> Untils]
  <2> HIDE DEF looked
  <2> QED  BY <1>1, <1>3
<1>5. \A p \in Providers : Timed(p, status[p], cooldowns[p])'
  BY <1>3 DEF Timed
<1>6. first \subseteq looked /\ first \subseteq open /\ open \subseteq left
  OBVIOUS
<1>7. request' \in [Requests -> Request] /\ called' \in [Requests -> [Providers -> Nat]]
      /\ Dutiful(r)' /\ (\A q \in Requests \ {r} : Dutiful(q)') /\ CallsWarm
  <2>1. CASE first = {}
    <3>1. PICK ph \in {"backoff", "failed"} :
            /\ ph = "backoff" => req.attempt < MaxAttempts
            /\ request' = [request EXCEPT ![r] =
                 [req EXCEPT !.phase = ph, !.at = NoProvider, !.left = {}]]
      BY <2>1 DEF Proceed, MayRetry
    <3>2. called' = called  BY <2>1 DEF Proceed
    <3>3. PICK x \in Request : x = [req EXCEPT !.phase = ph, !.at = NoProvider, !.left = {}]
      BY DEF Request
    <3>4. request' = [request EXCEPT ![r] = x]  BY <3>1, <3>3
    <3>5. x.attempt = req.attempt /\ x.local = req.local /\ x.left = {} /\ x.phase = ph
          /\ x.primary = req.primary
      BY <3>3 DEF Request
    <3>6. request'[r] = x /\ \A q \in Requests \ {r} : request'[q] = request[q]
      BY <3>4 DEF TypeOK
    <3>7. Dutiful(r)'  BY <3>1, <3>2, <3>5, <3>6 DEF Dutiful, Busy
    <3>8. \A q \in Requests \ {r} : Dutiful(q)'  BY <3>2, <3>6 DEF Dutiful
    <3>9. CallsWarm  BY <3>2 DEF CallsWarm, TypeOK
    <3>10. request' \in [Requests -> Request]  BY <3>4 DEF TypeOK
    <3> QED  BY <3>2, <3>7, <3>8, <3>9, <3>10 DEF TypeOK
  <2>2. CASE first # {}
    <3>1. PICK p \in first :
            /\ request' = [request EXCEPT ![r] =
                 [req EXCEPT !.phase = "calling", !.at = p, !.left = left \ looked]]
            /\ called' = [called EXCEPT ![r][p] = @ + 1]
      BY <2>2 DEF Proceed
    <3>2. p \in looked /\ p \in left /\ Look(p, st, cd).available /\ p \in Providers
      BY <1>6
    <3> HIDE DEF looked, first, open
    <3>3. PICK x \in Request :
            x = [req EXCEPT !.phase = "calling", !.at = p, !.left = left \ looked]
      BY <3>2 DEF Request
    <3>4. request' = [request EXCEPT ![r] = x]  BY <3>1, <3>3
    <3>5. x.attempt = req.attempt /\ x.local = req.local /\ x.left = left \ looked
          /\ x.phase = "calling" /\ x.primary = req.primary /\ x.at = p
      BY <3>3 DEF Request
    <3>6. request'[r] = x /\ \A q \in Requests \ {r} : request'[q] = request[q]
      BY <3>4 DEF TypeOK
    <3>7. /\ called'[r][p] = called[r][p] + 1
          /\ \A q \in Providers \ {p} : called'[r][q] = called[r][q]
          /\ \A q \in Requests \ {r} : called'[q] = called[q]
      BY <3>1, <3>2 DEF TypeOK
    <3>8. called \in [Requests -> [Providers -> Nat]] /\ req.attempt \in Nat
      BY DEF TypeOK, Request
    <3>9. Dutiful(r)'
      <4>1. \A q \in Providers : called'[r][q] <= req.attempt
        BY <3>2, <3>7, <3>8
      <4>2. \A q \in left \ looked : called'[r][q] < req.attempt
        BY <3>2, <3>7
      <4>3. req.local => \A q \in Providers \ Local : called'[r][q] = 0
        BY <3>2, <3>7
      <4>4. req.local => left \ looked \subseteq Local  OBVIOUS
      <4> QED  BY <4>1, <4>2, <4>3, <4>4, <3>2, <3>5, <3>6 DEF Dutiful, Busy
    <3>10. \A q \in Requests \ {r} : Dutiful(q)'  BY <3>6, <3>7 DEF Dutiful
    <3>11. CallsWarm
      <4>1. cooldowns'[p] = LookDown(p, st, cd)  BY <1>1, <3>2
      <4>2. cooldowns'[p] <= now  BY <1>2, <3>2, <4>1, LookSafe
      <4> QED  BY <3>7, <3>8, <4>2 DEF CallsWarm
    <3>12. request' \in [Requests -> Request]  BY <3>4 DEF TypeOK
    <3>13. called' \in [Requests -> [Providers -> Nat]]
      <4>1. [called[r] EXCEPT ![p] = @ + 1] \in [Providers -> Nat]
        BY <3>2, <3>8
      <4>2. called' = [called EXCEPT ![r] = [called[r] EXCEPT ![p] = @ + 1]]
        BY <3>1
      <4> QED  BY <3>8, <4>1, <4>2
    <3> QED  BY <3>9, <3>10, <3>11, <3>12, <3>13
  <2> QED  BY <2>1, <2>2
<1>8. TypeOK'
  BY <1>2, <1>4, <1>7 DEF TypeOK, Untils
<1>9. \A q \in Requests : Dutiful(q)'  BY <1>7
<1> QED  BY <1>5, <1>7, <1>8, <1>9 DEF ProviderInv

LEMMA RefreshSafe ==
  ASSUME TypeOK, NEW p \in Providers, Timed(p, status[p], cooldowns[p])
  PROVE  /\ Refresh(p) \in Status /\ RefreshDown(p) \in Untils
         /\ Timed(p, Refresh(p), RefreshDown(p))
<1>1. /\ cooldowns[p] \in Untils /\ status[p] \in Status
      /\ now \in 0..Horizon /\ now \in Nat /\ 0 \in Untils
  BY ProviderAssumption DEF TypeOK, Untils
<1>2. CASE status[p].seen /\ status[p].until # 0 /\ status[p].until <= now
  <2>1. PICK b \in BOOLEAN : b <=> p \in Usable  OBVIOUS
  <2>2. Refresh(p) = [status[p] EXCEPT !.available = b, !.until = 0]
        /\ RefreshDown(p) = 0
    BY <1>2, <2>1 DEF Refresh, RefreshDown
  <2>3. PICK y \in Status : y = [status[p] EXCEPT !.available = b, !.until = 0]
    BY <1>1, ProviderAssumption DEF Status, Untils
  <2>4. y.until = 0 /\ y.available = b  BY <1>1, <2>3 DEF Status
  <2> QED  BY <1>1, <2>1, <2>2, <2>3, <2>4 DEF Timed
<1>3. CASE ~(status[p].seen /\ status[p].until # 0 /\ status[p].until <= now)
  <2>1. Refresh(p) = status[p]  BY <1>3 DEF Refresh
  <2>2. CASE status[p].seen
    <3>1. RefreshDown(p) = cooldowns[p]  BY <1>3, <2>2 DEF RefreshDown
    <3> QED  BY <1>1, <2>1, <3>1
  <2>3. CASE ~status[p].seen
    <3>1. RefreshDown(p) = Pruned(cooldowns[p])  BY <2>3 DEF RefreshDown
    <3> QED  BY <1>1, <2>1, <2>3, <3>1, PruneSafe DEF Timed
  <2> QED  BY <2>2, <2>3
<1> QED  BY <1>2, <1>3

(* A step that changes one request at most, and calls nobody.              *)
LEMMA CallsNobody ==
  ASSUME ProviderInv, NEW r \in Requests, NEW x \in Request, called' = called,
         request' = [request EXCEPT ![r] = x],
         x.attempt = request[r].attempt, x.left \subseteq request[r].left,
         x.local => request[r].local \/ (request[r] = Fresh /\ x.left = {}),
         x.phase \in Busy => x.primary \in Providers,
         x.phase \notin {"new", "backoff", "calling"},
         x.phase = "routed" => x.attempt = 0
  PROVE  /\ request' \in [Requests -> Request] /\ called' \in [Requests -> [Providers -> Nat]]
         /\ (\A q \in Requests : Dutiful(q)') /\ CallsWarm
<1>1. request'[r] = x /\ \A q \in Requests \ {r} : request'[q] = request[q]
  BY DEF ProviderInv, TypeOK
<1>2. Dutiful(r) /\ called[r] \in [Providers -> Nat]  BY DEF ProviderInv, TypeOK
<1>3. request[r] = Fresh => \A p \in Providers : called[r][p] = 0
  BY <1>2 DEF Dutiful, Fresh
<1>4. Dutiful(r)'  BY <1>1, <1>2, <1>3 DEF Dutiful
<1>5. \A q \in Requests \ {r} : Dutiful(q)'
  BY <1>1 DEF ProviderInv, Dutiful
<1>6. CallsWarm  BY DEF ProviderInv, TypeOK, CallsWarm
<1> QED  BY <1>4, <1>5, <1>6 DEF ProviderInv, TypeOK

LEMMA RouteSafe ==
  ASSUME ProviderInv, NEW r \in Requests, NEW local \in BOOLEAN, Route(r, local)
  PROVE  ProviderInv' /\ CallsWarm
<1> DEFINE cands == {p \in Providers : local => p \in Local}
<1>1. /\ status' = [p \in Providers |-> IF p \in cands THEN Refresh(p) ELSE status[p]]
      /\ cooldowns' = [p \in Providers |->
                         IF p \in cands THEN RefreshDown(p) ELSE cooldowns[p]]
      /\ now' = now /\ called' = called /\ request[r].phase = "new"
  BY DEF Route
<1>2. \A p \in Providers :
        /\ status'[p] \in Status /\ cooldowns'[p] \in Untils
        /\ Timed(p, status'[p], cooldowns'[p])
  <2> HIDE DEF cands
  <2> TAKE p \in Providers
  <2>1. TypeOK /\ Timed(p, status[p], cooldowns[p])
        /\ status[p] \in Status /\ cooldowns[p] \in Untils
    BY DEF ProviderInv, TypeOK, Untils
  <2>2. CASE p \in cands
    <3>1. status'[p] = Refresh(p) /\ cooldowns'[p] = RefreshDown(p)  BY <1>1, <2>2
    <3> QED  BY <2>1, <3>1, RefreshSafe
  <2>3. CASE p \notin cands
    <3>1. status'[p] = status[p] /\ cooldowns'[p] = cooldowns[p]  BY <1>1, <2>3
    <3> QED  BY <2>1, <3>1
  <2> QED  BY <2>2, <2>3
<1>3. status' \in [Providers -> Status] /\ cooldowns' \in [Providers -> Untils]
  <2> HIDE DEF cands
  <2> QED  BY <1>1, <1>2
<1>4. request[r] = Fresh /\ request[r] \in Request
  BY <1>1 DEF ProviderInv, Dutiful, TypeOK
<1>7. request[r].attempt = 0 /\ request[r].left = {}  BY <1>4 DEF Fresh
<1>5. PICK x \in Request :
        /\ request' = [request EXCEPT ![r] = x]
        /\ x.attempt = 0 /\ x.left = {}
        /\ x.phase = "failed" \/ (x.phase = "routed" /\ x.primary \in Providers)
  <2>1. CASE request' = [request EXCEPT ![r].phase = "failed"]
    <3>1. PICK x \in Request : x = [Fresh EXCEPT !.phase = "failed"]
      BY <1>4 DEF Request
    <3>2. x.attempt = 0 /\ x.left = {} /\ x.phase = "failed"  BY <3>1 DEF Fresh
    <3>3. request' = [request EXCEPT ![r] = x]  BY <1>4, <2>1, <3>1
    <3> QED  BY <3>2, <3>3
  <2>2. ASSUME NEW p \in cands,
               request' = [request EXCEPT ![r] =
                 [Fresh EXCEPT !.phase = "routed", !.local = local, !.primary = p]]
        PROVE  \E x \in Request :
                 /\ request' = [request EXCEPT ![r] = x]
                 /\ x.attempt = 0 /\ x.left = {}
                 /\ x.phase = "failed" \/ (x.phase = "routed" /\ x.primary \in Providers)
    <3>1. PICK x \in Request :
            x = [Fresh EXCEPT !.phase = "routed", !.local = local, !.primary = p]
      BY <1>4 DEF Request
    <3>2. x.attempt = 0 /\ x.left = {} /\ x.phase = "routed" /\ x.primary = p  BY <3>1 DEF Fresh
    <3> QED  BY <2>2, <3>1, <3>2
  <2> QED  BY <2>1, <2>2 DEF Route
<1>6. /\ request' \in [Requests -> Request]
      /\ called' \in [Requests -> [Providers -> Nat]]
      /\ (\A q \in Requests : Dutiful(q)') /\ CallsWarm
  BY <1>1, <1>4, <1>5, <1>7, CallsNobody DEF Busy
<1> QED  BY <1>1, <1>2, <1>3, <1>6 DEF ProviderInv, TypeOK, Untils, Timed

LEMMA AttemptSafe ==
  ASSUME ProviderInv, NEW r \in Requests, Attempt(r)
  PROVE  ProviderInv' /\ CallsWarm
<1>1. TypeOK /\ Dutiful(r) /\ request[r] \in Request /\ called[r] \in [Providers -> Nat]
  BY DEF ProviderInv, TypeOK
<1>2. request[r].attempt < MaxAttempts /\ request[r].attempt \in Nat
  BY <1>1, ProviderAssumption DEF Attempt, Dutiful, Request
<1>3. PICK req \in Request : req = [request[r] EXCEPT !.attempt = @ + 1]
  <2>1. request[r].attempt + 1 \in 0..MaxAttempts  BY <1>2, ProviderAssumption
  <2> QED  BY <1>1, <2>1 DEF Request
<1>4. req.attempt = request[r].attempt + 1 /\ req.local = request[r].local
  BY <1>1, <1>3 DEF Request
<1>5. PICK cd \in [Providers -> Untils] :
        /\ cd = IF req.attempt > 1 THEN [cooldowns EXCEPT ![req.primary] = 0]
                ELSE cooldowns
        /\ \A p \in Providers : cd[p] = cooldowns[p] \/ cd[p] = 0
  <2>1. 0 \in Untils /\ cooldowns \in [Providers -> Untils]
    BY <1>1, ProviderAssumption DEF TypeOK, Untils
  <2> DEFINE c == IF req.attempt > 1 THEN [cooldowns EXCEPT ![req.primary] = 0]
                  ELSE cooldowns
  <2>2. c \in [Providers -> Untils]  BY <2>1
  <2>3. \A p \in Providers : c[p] = cooldowns[p] \/ c[p] = 0  BY <2>1
  <2> QED  BY <2>2, <2>3
<1>6. Proceed(r, req, Candidates(r), status, cd) /\ now' = now
  BY <1>3, <1>5 DEF Attempt
<1>7. Candidates(r) \in SUBSET Providers
      /\ (request[r].local => Candidates(r) \subseteq Local)
  <2>1. CASE Fallback  BY <2>1 DEF Candidates
  <2>2. CASE ~Fallback
    <3>1. request[r].primary \in Providers  BY <1>1 DEF Attempt, Dutiful, Busy
    <3> QED  BY <2>2, <3>1 DEF Candidates
  <2> QED  BY <2>1, <2>2
<1>8. \A p \in Providers : Timed(p, status[p], cd[p])
  BY <1>1, <1>5 DEF ProviderInv, Timed, TypeOK
<1>9. /\ \A p \in Providers : called[r][p] < req.attempt /\ called[r][p] <= req.attempt
      /\ req.local => \A p \in Providers \ Local : called[r][p] = 0
  BY <1>1, <1>2, <1>4 DEF Dutiful
<1>11. req.primary \in Providers
  BY <1>1, <1>3 DEF Attempt, Dutiful, Busy, Request
<1>10. status \in [Providers -> Status] /\ \A q \in Requests \ {r} : Dutiful(q)
  BY DEF ProviderInv, TypeOK
<1> QED
  BY <1>1, <1>4, <1>6, <1>7, <1>8, <1>9, <1>10, <1>11, ProceedSafe

LEMMA EndSafe ==
  ASSUME ProviderInv, NEW r \in Requests, CancelBackoff(r) \/ Succeeds(r)
  PROVE  ProviderInv' /\ CallsWarm
<1>1. request[r] \in Request  BY DEF ProviderInv, TypeOK
<1>2. PICK x \in Request :
        /\ request' = [request EXCEPT ![r] = x] /\ x.phase \in {"failed", "done"}
        /\ x.attempt = request[r].attempt /\ x.left = request[r].left
        /\ x.local = request[r].local
  <2>1. CASE CancelBackoff(r)
    <3>1. PICK x \in Request : x = [request[r] EXCEPT !.phase = "failed"]
      BY <1>1 DEF Request
    <3>2. x.phase = "failed" /\ x.attempt = request[r].attempt
          /\ x.left = request[r].left /\ x.local = request[r].local
      BY <1>1, <3>1 DEF Request
    <3> QED  BY <2>1, <3>1, <3>2 DEF CancelBackoff
  <2>2. CASE Succeeds(r)
    <3>1. PICK x \in Request : x = [request[r] EXCEPT !.phase = "done", !.at = NoProvider]
      BY <1>1 DEF Request
    <3>2. x.phase = "done" /\ x.attempt = request[r].attempt
          /\ x.left = request[r].left /\ x.local = request[r].local
      BY <1>1, <3>1 DEF Request
    <3>3. request' = [request EXCEPT ![r] = x]  BY <2>2, <3>1 DEF Succeeds
    <3> QED  BY <3>2, <3>3
  <2> QED  BY <2>1, <2>2
<1>3. UNCHANGED <<now, cooldowns, status, called>>
  BY DEF CancelBackoff, Succeeds
<1>4. /\ request' \in [Requests -> Request] /\ called' \in [Requests -> [Providers -> Nat]]
      /\ (\A q \in Requests : Dutiful(q)') /\ CallsWarm
  BY <1>2, <1>3, CallsNobody DEF Busy
<1> QED  BY <1>3, <1>4 DEF ProviderInv, TypeOK, Timed

(* A call that failed goes on with what is left, or with nobody.           *)
LEMMA GoesOn ==
  ASSUME ProviderInv, NEW r \in Requests, Calling(r),
         NEW left \in SUBSET request[r].left,
         NEW st \in [Providers -> Status], NEW cd \in [Providers -> Untils],
         \A p \in Providers : Timed(p, st[p], cd[p]),
         Proceed(r, request[r], left, st, cd), now' = now
  PROVE  ProviderInv' /\ CallsWarm
<1>1. TypeOK /\ Dutiful(r) /\ request[r] \in Request  BY DEF ProviderInv, TypeOK
<1>2. request[r].primary \in Providers /\ request[r].left \in SUBSET Providers
  BY <1>1 DEF Calling, Dutiful, Busy, Request
<1>3. /\ \A p \in Providers : called[r][p] <= request[r].attempt
      /\ \A p \in left : called[r][p] < request[r].attempt
      /\ request[r].local => left \subseteq Local
                             /\ \A p \in Providers \ Local : called[r][p] = 0
  BY <1>1 DEF Dutiful
<1>4. left \in SUBSET Providers /\ \A q \in Requests \ {r} : Dutiful(q)
  BY <1>2 DEF ProviderInv
<1> QED  BY <1>1, <1>2, <1>3, <1>4, ProceedSafe

LEMMA FailSafe ==
  ASSUME ProviderInv, NEW r \in Requests,
         Fails(r) \/ FailsForModel(r) \/ FailsOutright(r)
  PROVE  ProviderInv' /\ CallsWarm
<1> DEFINE rest == IF Fallback THEN request[r].left ELSE {}
<1>1. /\ status \in [Providers -> Status] /\ cooldowns \in [Providers -> Untils]
      /\ now \in 0..Horizon /\ rest \in SUBSET request[r].left
      /\ \A p \in Providers : Timed(p, status[p], cooldowns[p])
  BY DEF ProviderInv, TypeOK, Untils
<1>2. CASE Fails(r)
  <2>1. PICK p \in Providers : p = request[r].at
    BY <1>2 DEF Fails, Calling, ProviderInv, Dutiful
  <2>2. now + Cooldown \in Untils /\ now + Cooldown > 0 /\ now + Cooldown > now
    BY <1>1, ProviderAssumption DEF Untils
  <2>3. MarkedDown(p, cooldowns) \in [Providers -> Untils]
        /\ MarkedDown(p, cooldowns)[p] = now + Cooldown
        /\ \A q \in Providers \ {p} : MarkedDown(p, cooldowns)[q] = cooldowns[q]
    BY <1>1, <2>2 DEF MarkedDown
  <2>4. PICK y \in Status :
          /\ y = IF status[p].seen
                 THEN [status[p] EXCEPT !.available = FALSE, !.until = now + Cooldown]
                 ELSE status[p]
          /\ y.seen => y.until = now + Cooldown
    <3>1. CASE status[p].seen
      <4>1. PICK y \in Status :
              y = [status[p] EXCEPT !.available = FALSE, !.until = now + Cooldown]
        BY <1>1, <2>2 DEF Status, Untils
      <4>2. y.until = now + Cooldown  BY <1>1, <4>1 DEF Status
      <4> QED  BY <3>1, <4>1, <4>2
    <3>2. CASE ~status[p].seen  BY <1>1, <3>2
    <3> QED  BY <3>1, <3>2
  <2>5. Marked(p, status) = [status EXCEPT ![p] = y]
    BY <1>1, <2>4 DEF Marked
  <2>6. Marked(p, status) \in [Providers -> Status]
        /\ Marked(p, status)[p] = y
        /\ \A q \in Providers \ {p} : Marked(p, status)[q] = status[q]
    BY <1>1, <2>5
  <2>7. \A q \in Providers : Timed(q, Marked(p, status)[q], MarkedDown(p, cooldowns)[q])
    <3> TAKE q \in Providers
    <3>1. CASE q = p
      <4>1. Timed(p, y, now + Cooldown)  BY <2>2, <2>4 DEF Timed
      <4> QED  BY <2>3, <2>6, <3>1, <4>1
    <3>2. CASE q # p  BY <1>1, <2>3, <2>6, <3>2
    <3> QED  BY <3>1, <3>2
  <2>8. Proceed(r, request[r], rest, Marked(p, status), MarkedDown(p, cooldowns))
        /\ now' = now /\ Calling(r)
    BY <1>2, <2>1, Zenon DEF Fails
  <2> HIDE DEF rest
  <2> QED  BY <1>1, <2>3, <2>6, <2>7, <2>8, GoesOn
<1>3. CASE FailsForModel(r)
  <2>1. Proceed(r, request[r], rest, status, cooldowns) /\ now' = now /\ Calling(r)
    BY <1>3, Zenon DEF FailsForModel
  <2> HIDE DEF rest
  <2> QED  BY <1>1, <2>1, GoesOn
<1>4. CASE FailsOutright(r)
  <2>1. Proceed(r, request[r], {}, status, cooldowns) /\ now' = now /\ Calling(r)
    BY <1>4, Zenon DEF FailsOutright
  <2>2. {} \in SUBSET request[r].left  OBVIOUS
  <2> QED  BY <1>1, <2>1, <2>2, GoesOn
<1> QED  BY <1>2, <1>3, <1>4

LEMMA InspectSafe ==
  ASSUME ProviderInv, Inspect
  PROVE  ProviderInv' /\ CallsWarm
<1>1. TypeOK /\ cooldowns \in [Providers -> Untils]  BY DEF ProviderInv, TypeOK, Untils
<1>2. UNCHANGED <<now, request, called>>  BY DEF Inspect
<1>3. ASSUME NEW p \in Providers
      PROVE  /\ status'[p] \in Status /\ cooldowns'[p] \in Untils
             /\ Timed(p, status'[p], cooldowns'[p])
  <2>1. /\ status'[p] = Look(p, status, cooldowns)
        /\ cooldowns'[p] = Pruned(cooldowns[p])
    BY DEF Inspect
  <2>2. /\ status'[p] \in Status
        /\ Timed(p, status'[p], LookDown(p, status, cooldowns))
        /\ LookDown(p, status, cooldowns) \in Untils
    BY <1>1, <2>1, LookSafe DEF ProviderInv, TypeOK
  <2>3. cooldowns'[p] \in Untils /\ cooldowns'[p] <= LookDown(p, status, cooldowns)
    BY <1>1, <2>1, ProviderAssumption DEF TypeOK, Untils, Pruned, LookDown
  <2>4. now \in Nat /\ LookDown(p, status, cooldowns) \in Nat /\ cooldowns'[p] \in Nat
    BY <1>1, <2>2, <2>3, ProviderAssumption DEF TypeOK, Untils
  <2> QED  BY <2>2, <2>3, <2>4 DEF Timed
<1>4. status' \in [Providers -> Status] /\ cooldowns' \in [Providers -> Untils]
  BY <1>3 DEF Inspect
<1>5. TypeOK'  BY <1>1, <1>2, <1>4 DEF TypeOK, Untils
<1>6. \A r \in Requests : Dutiful(r)'  BY <1>2 DEF ProviderInv, Dutiful
<1>7. CallsWarm  BY <1>1, <1>2 DEF CallsWarm, TypeOK
<1> QED  BY <1>2, <1>3, <1>5, <1>6, <1>7 DEF ProviderInv, Timed

LEMMA ProviderStep ==
  ASSUME ProviderInv, [Next]_vars
  PROVE  ProviderInv' /\ CallsWarm
<1>1. ASSUME NEW r \in Requests, NEW local \in BOOLEAN, Route(r, local)
      PROVE  ProviderInv' /\ CallsWarm
  BY <1>1, RouteSafe
<1>2. ASSUME NEW r \in Requests, Attempt(r)
      PROVE  ProviderInv' /\ CallsWarm
  BY <1>2, AttemptSafe
<1>3. ASSUME NEW r \in Requests, CancelBackoff(r) \/ Succeeds(r)
      PROVE  ProviderInv' /\ CallsWarm
  BY <1>3, EndSafe
<1>4. ASSUME NEW r \in Requests, Fails(r) \/ FailsForModel(r) \/ FailsOutright(r)
      PROVE  ProviderInv' /\ CallsWarm
  BY <1>4, FailSafe
<1>5. CASE Inspect  BY <1>5, InspectSafe
<1>6. CASE Tick
  <2>1. now' = now + 1 /\ now' \in 0..Horizon /\ now \in 0..Horizon
        /\ UNCHANGED <<cooldowns, status, request, called>>
    BY <1>6, ProviderAssumption DEF Tick, ProviderInv, TypeOK
  <2>2. TypeOK'  BY <2>1 DEF ProviderInv, TypeOK
  <2>3. \A p \in Providers : Timed(p, status[p], cooldowns[p])'
    <3>1. \A p \in Providers : cooldowns[p] \in Nat
      BY ProviderAssumption DEF ProviderInv, TypeOK
    <3> QED  BY <2>1, <3>1 DEF ProviderInv, Timed
  <2>4. \A r \in Requests : Dutiful(r)'  BY <2>1 DEF ProviderInv, Dutiful
  <2>5. CallsWarm  BY <2>1 DEF CallsWarm, ProviderInv, TypeOK
  <2> QED  BY <2>2, <2>3, <2>4, <2>5 DEF ProviderInv
<1>7. CASE UNCHANGED vars
  BY <1>7 DEF vars, ProviderInv, TypeOK, Timed, Dutiful, CallsWarm
<1> QED  BY <1>1, <1>2, <1>3, <1>4, <1>5, <1>6, <1>7 DEF Next

LEMMA ProviderBegins == Init => ProviderInv
<1> SUFFICES ASSUME Init PROVE ProviderInv  OBVIOUS
<1>1. Fresh \in Request /\ Unseen \in Status /\ 0 \in Untils
  BY ProviderAssumption DEF Fresh, Request, Unseen, Status, Untils
<1>2. TypeOK  BY <1>1, ProviderAssumption DEF Init, TypeOK, Untils
<1>3. \A r \in Requests : Dutiful(r)
  <2> TAKE r \in Requests
  <2>1. request[r] = Fresh /\ \A p \in Providers : called[r][p] = 0  BY DEF Init
  <2> QED  BY <2>1 DEF Fresh, Dutiful, Busy
<1>4. \A p \in Providers : Timed(p, status[p], cooldowns[p])
  BY DEF Init, Timed, Unseen
<1> QED  BY <1>2, <1>3, <1>4 DEF ProviderInv

(* The invariant behind ProviderSafe: what is left of an attempt has a     *)
(* call in hand, and a cached status without a timer means no cooldown.    *)
THEOREM ProviderInvariance == Spec => []ProviderInv
<1>1. ProviderInv /\ [Next]_vars => ProviderInv'  BY ProviderStep
<1> QED  BY <1>1, ProviderBegins, PTL DEF Spec

(* Whatever fails, and however retries and fallback meet: no provider is   *)
(* called while it cools down, none more often than there were attempts,   *)
(* none outside the machine for a request that must stay on it, and none   *)
(* is written off for good (manager.py, health.py, RetryPolicy).           *)
THEOREM ProviderIsSafe == Spec => ProviderSafe
<1>1. ProviderInv => TypeOK /\ RetriesNotMultiplied /\ LocalStaysLocal /\ NeverWrittenOff
  <2> SUFFICES ASSUME ProviderInv
               PROVE  RetriesNotMultiplied /\ LocalStaysLocal /\ NeverWrittenOff
    BY DEF ProviderInv
  <2>1. Usable \subseteq Providers  BY ProviderAssumption
  <2> QED  BY <2>1 DEF ProviderInv, Dutiful, Timed, RetriesNotMultiplied,
                       LocalStaysLocal, NeverWrittenOff
<1>2. ProviderInv /\ [Next]_vars =>
        [\A r \in Requests, p \in Providers :
           called'[r][p] > called[r][p] => cooldowns'[p] <= now]_vars
  BY ProviderStep DEF CallsWarm
<1> QED
  BY <1>1, <1>2, ProviderInvariance, PTL DEF Spec, ProviderSafe, NeverCallsCooling

-----------------------------------------------------------------------------
(* The API: for any number of calls and any limit, window and clock.       *)

Replies == {"none", "refused", "dropped", "500", "200", "paused", "504", "499",
            "completed", "ended", "failed"}
CallRecords ==
  [at: {"none", "waiting", "polling", "sending", "expiring", "leaving", "replied"},
   late: BOOLEAN, cursor: Nat, upto: Nat, reply: Replies]

ExecStates == Terminal \cup {"none", "running", "awaiting"}
WaitStates == {"waits", "returned", "cancelled"}
Finals == {"200", "500", "504", "499", "completed", "failed"}

(* Only a handler that waits for the task it stopped leaves one at work    *)
(* for an execution that is over: e, w, n and k stand for the execution    *)
(* of a call, whether its task works, its events, and its handler.         *)
Fine(e, w, n, k) ==
  /\ k.upto <= n /\ k.cursor <= k.upto
  /\ k.at = "none" => e = "none" /\ ~w
  /\ k.at # "replied" => k.reply = "none"
  /\ w => e = "running" \/ (e \in Terminal /\ k.at = "expiring")
  /\ k.reply \in Finals => e \in Terminal /\ ~w

Handled(c) == Fine(exec[c], working[c], published[c], call[c])

(* The limiter's count is what the latest window has let in.               *)
Counts ==
  /\ slot.count = admitted[slot.start] /\ slot.start <= WindowStart
  /\ \A w \in Starts : w > slot.start => admitted[w] = 0

ApiInv ==
  /\ ApiTypeOK /\ call \in [Calls -> CallRecords]
  /\ LimitIsHonest /\ Counts
  /\ \A c \in Calls : Handled(c)

VerdictsStand == \A c \in Calls : exec[c] \in Terminal => exec'[c] = exec[c]

LEMMA DivMod ==
  ASSUME NEW a \in Nat, NEW w \in Nat \ {0}
  PROVE  /\ a \div w \in Nat /\ a % w \in 0..(w-1)
         /\ a = w * (a \div w) + (a % w)
<1>1. a \div w \in Nat  OBVIOUS
<1>2. a % w \in 0..(w-1)  OBVIOUS
<1>3. a = w * (a \div w) + (a % w)  OBVIOUS
<1> QED  BY <1>1, <1>2, <1>3

LEMMA MultipleIs ==
  ASSUME NEW a \in Nat, NEW w \in Nat \ {0}
  PROVE  (w * a) % w = 0
OBVIOUS

(* Windows start at multiples of their length, and do not go back.         *)
LEMMA WindowIs ==
  ASSUME clock \in 0..MaxTime
  PROVE  /\ WindowStart \in Starts /\ WindowStart \in Nat
         /\ WindowStart <= clock /\ clock < WindowStart + Window
<1>1. Window \in Nat \ {0} /\ clock \in Nat /\ MaxTime \in Nat  BY ApiAssumption
<1>2. clock \div Window \in Nat  BY <1>1, DivMod
<1>3. clock % Window \in 0..(Window - 1)  BY <1>1, DivMod
<1>4. clock = Window * (clock \div Window) + (clock % Window)  BY <1>1, DivMod
<1>5. Window * (clock \div Window) \in Nat  BY <1>1, <1>2
<1>6. WindowStart = Window * (clock \div Window)
  BY <1>1, <1>3, <1>4, <1>5 DEF WindowStart
<1>7. WindowStart % Window = 0  BY <1>1, <1>2, <1>6, MultipleIs
<1>8. WindowStart \in Nat /\ WindowStart <= clock /\ clock < WindowStart + Window
  BY <1>1, <1>3, <1>5, <1>6 DEF WindowStart
<1>9. WindowStart \in 0..MaxTime  BY <1>1, <1>8
<1> QED  BY <1>7, <1>8, <1>9 DEF Starts

LEMMA WindowGrows ==
  ASSUME NEW a \in Nat, NEW b \in Nat, a <= b, NEW w \in Nat \ {0}
  PROVE  a - (a % w) <= b - (b % w)
OBVIOUS

(* A Retry-After reaches past the window, by a second at most.             *)
LEMMA RetryIsLong ==
  ASSUME clock \in 0..MaxTime
  PROVE  LET until == clock + RetryAfter * Second
         IN  until \in 0..(MaxTime + Window + Second) /\ until >= WindowStart + Window
<1> DEFINE left == WindowStart + Window - clock
<1>1. /\ Window \in Nat \ {0} /\ Second \in Nat \ {0} /\ clock \in Nat
      /\ MaxTime \in Nat /\ clock <= MaxTime
  BY ApiAssumption
<1>2. left \in Nat /\ left <= Window /\ clock + left = WindowStart + Window
  BY <1>1, WindowIs
<1> DEFINE d == left \div Second
<1>3. d \in Nat /\ left % Second \in 0..(Second - 1)
      /\ left = Second * d + (left % Second)
  <2> HIDE DEF left
  <2> QED  BY <1>1, <1>2, DivMod
<1>4. RetryAfter = d + 1  BY <1>3 DEF RetryAfter
<1> HIDE DEF d, left
<1>5. Second * d \in Nat /\ (d + 1) * Second = Second * d + Second
  BY <1>1, <1>3
<1>6. /\ clock + (d + 1) * Second >= clock + left
      /\ clock + (d + 1) * Second \in Nat
      /\ clock + (d + 1) * Second <= MaxTime + Window + Second
  BY <1>1, <1>2, <1>3, <1>5
<1> QED  BY <1>1, <1>2, <1>4, <1>6

(* The limiter *)

LEMMA CurrentIs ==
  ASSUME ApiInv
  PROVE  /\ Current.start = WindowStart /\ Current.count = admitted[WindowStart]
         /\ Current \in [start: Starts, count: 0..Limit]
         /\ \A w \in Starts : w > WindowStart => admitted[w] = 0
         /\ WindowStart \in Starts /\ WindowStart \in Nat
<1>1. /\ slot \in [start: Starts, count: 0..Limit] /\ Limit \in Nat
      /\ slot.start <= WindowStart /\ clock \in 0..MaxTime
  BY ApiAssumption DEF ApiInv, ApiTypeOK, Counts
<1>2. WindowStart \in Starts /\ WindowStart \in Nat  BY <1>1, WindowIs
<1>3. (\A w \in Starts : w \in Nat) /\ slot.start \in Starts /\ slot.start \in Nat
  <2>1. slot.start \in Starts  BY <1>1
  <2> QED  BY <2>1 DEF Starts
<1>4. \A w \in Starts : w > WindowStart => admitted[w] = 0
  BY <1>1, <1>2, <1>3 DEF ApiInv, Counts
<1>5. CASE slot.start = WindowStart
  <2>1. Current = slot  BY <1>5 DEF Current
  <2> QED  BY <1>1, <1>2, <1>4, <1>5, <2>1 DEF ApiInv, Counts
<1>6. CASE slot.start # WindowStart
  <2>1. Current = [start |-> WindowStart, count |-> 0]  BY <1>6 DEF Current
  <2>2. WindowStart > slot.start  BY <1>1, <1>2, <1>3, <1>6
  <2>3. admitted[WindowStart] = 0  BY <1>2, <2>2 DEF ApiInv, Counts
  <2> QED  BY <1>1, <1>2, <1>4, <2>1, <2>3
<1> QED  BY <1>5, <1>6

LimiterOK ==
  /\ clock \in 0..MaxTime /\ slot \in [start : Starts, count : 0..Limit]
  /\ admitted \in [Starts -> Nat]
  /\ refusal \in [start : Starts, until : 0..(MaxTime + Window + Second)] \cup {Unrefused}
  /\ LimitIsHonest /\ Counts

LEMMA LimiterKept ==
  ASSUME ApiInv, UNCHANGED limiterVars
  PROVE  LimiterOK'
BY DEF ApiInv, ApiTypeOK, limiterVars, LimiterOK, LimitIsHonest, Counts, WindowStart

LEMMA RefusesLimited ==
  ASSUME ApiInv, NEW c \in Calls, Refuses(c)
  PROVE  LimiterOK'
<1>1. UNCHANGED <<clock, slot, admitted>>
      /\ refusal' = [start |-> WindowStart, until |-> clock + RetryAfter * Second]
      /\ ~HasRoom
  BY DEF Refuses
<1>2. clock \in 0..MaxTime /\ Limit \in Nat \ {0} /\ admitted \in [Starts -> Nat]
  BY ApiAssumption DEF ApiInv, ApiTypeOK
<1>3. PICK u \in 0..(MaxTime + Window + Second) :
        u = clock + RetryAfter * Second /\ u >= WindowStart + Window
  BY <1>2, RetryIsLong
<1>4. WindowStart \in Starts /\ admitted[WindowStart] <= Limit
      /\ admitted[WindowStart] = Current.count
  BY CurrentIs DEF ApiInv, LimitIsHonest
<1>5. admitted[WindowStart] = Limit
  BY <1>1, <1>2, <1>4 DEF HasRoom
<1>6. refusal' = [start |-> WindowStart, until |-> u]  BY <1>1, <1>3
<1>7. refusal'.start = WindowStart /\ refusal'.until = u  BY <1>6
<1>8. LimitIsHonest'
  BY <1>1, <1>3, <1>5, <1>7 DEF ApiInv, LimitIsHonest
<1>9. Counts'  BY <1>1 DEF ApiInv, Counts, WindowStart
<1>10. refusal' \in [start : Starts, until : 0..(MaxTime + Window + Second)]
  BY <1>3, <1>4, <1>6
<1> QED  BY <1>1, <1>8, <1>9, <1>10 DEF ApiInv, ApiTypeOK, LimiterOK

LEMMA AdmitsLimited ==
  ASSUME ApiInv, NEW c \in Calls, Admits(c)
  PROVE  LimiterOK'
<1>1. /\ HasRoom /\ UNCHANGED <<clock, refusal>>
      /\ slot' = [Current EXCEPT !.count = @ + 1]
      /\ admitted' = [admitted EXCEPT ![WindowStart] = @ + 1]
  BY DEF Admits
<1>2. clock \in 0..MaxTime /\ Limit \in Nat \ {0} /\ admitted \in [Starts -> Nat]
  BY ApiAssumption DEF ApiInv, ApiTypeOK
<1>3. /\ Current.start = WindowStart /\ Current.count = admitted[WindowStart]
      /\ Current \in [start: Starts, count: 0..Limit]
      /\ \A w \in Starts : w > WindowStart => admitted[w] = 0
      /\ WindowStart \in Starts /\ WindowStart \in Nat
  BY CurrentIs
<1>4. admitted[WindowStart] < Limit  BY <1>1, <1>3 DEF HasRoom
<1>5. /\ admitted' \in [Starts -> Nat]
      /\ admitted'[WindowStart] = admitted[WindowStart] + 1
      /\ \A w \in Starts \ {WindowStart} : admitted'[w] = admitted[w]
  BY <1>1, <1>2, <1>3
<1>6. /\ slot' \in [start: Starts, count: 0..Limit]
      /\ slot'.start = WindowStart /\ slot'.count = admitted[WindowStart] + 1
  BY <1>1, <1>2, <1>3, <1>4
<1>7. WindowStart' = WindowStart  BY <1>1 DEF WindowStart
<1>8. Counts'  BY <1>3, <1>5, <1>6, <1>7 DEF Counts
<1>9. LimitIsHonest'
  <2>1. \A w \in Starts : admitted'[w] <= Limit
    BY <1>2, <1>3, <1>4, <1>5 DEF ApiInv, LimitIsHonest
  <2>2. refusal # Unrefused =>
          refusal.start \in Starts /\ admitted[refusal.start] = Limit
    BY DEF ApiInv, ApiTypeOK, LimitIsHonest
  <2>3. refusal # Unrefused => refusal.start # WindowStart  BY <1>2, <1>4, <2>2
  <2> QED  BY <1>1, <1>5, <2>1, <2>2, <2>3 DEF ApiInv, LimitIsHonest
<1> QED  BY <1>1, <1>5, <1>6, <1>8, <1>9 DEF ApiInv, ApiTypeOK, LimiterOK

LEMMA TickLimited ==
  ASSUME ApiInv, ApiTick
  PROVE  LimiterOK'
<1>1. /\ clock \in 0..MaxTime /\ clock' = clock + 1 /\ clock' \in 0..MaxTime
      /\ UNCHANGED <<slot, admitted, refusal>>
      /\ Window \in Nat \ {0}
  BY ApiAssumption DEF ApiTick, ApiInv, ApiTypeOK
<1>2. WindowStart <= WindowStart'
  <2>1. clock \in Nat /\ clock' \in Nat /\ clock <= clock'  BY <1>1
  <2>2. clock - (clock % Window) <= clock' - (clock' % Window)
    BY <1>1, <2>1, WindowGrows
  <2> QED  BY <2>2 DEF WindowStart
<1>3. WindowStart \in Nat /\ WindowStart' \in Nat
  <2>1. clock % Window \in 0..(Window - 1) /\ clock' % Window \in 0..(Window - 1)
    BY <1>1, DivMod
  <2>2. WindowStart \in Int /\ WindowStart' \in Int  BY <1>1, <2>1 DEF WindowStart
  <2> QED  BY <1>1, <1>2, <2>2, WindowIs
<1>4. slot.start \in Nat /\ slot.start <= WindowStart
  BY <1>1 DEF ApiInv, ApiTypeOK, Counts, Starts
<1>5. Counts'  BY <1>1, <1>2, <1>3, <1>4 DEF ApiInv, Counts
<1>6. LimitIsHonest'  BY <1>1 DEF ApiInv, LimitIsHonest
<1> QED  BY <1>1, <1>5, <1>6 DEF ApiInv, ApiTypeOK, LimiterOK

(* The calls: each action's effect on one call. *)

CallsOK ==
  /\ exec \in [Calls -> ExecStates] /\ working \in [Calls -> BOOLEAN]
  /\ waiter \in [Calls -> WaitStates] /\ published \in [Calls -> 0..MaxPublished]
  /\ call \in [Calls -> CallRecords]

(* What is enough to say of the call that a step is about: that the others *)
(* are as they were, and that it is fine.                                  *)
Elsewhere(c) ==
  \A x \in Calls \ {c} :
    /\ exec'[x] = exec[x] /\ working'[x] = working[x]
    /\ published'[x] = published[x] /\ call'[x] = call[x]

Goes(c) ==
  /\ CallsOK' /\ Elsewhere(c) /\ Handled(c)'
  /\ exec[c] \in Terminal => exec'[c] = exec[c]

LEMMA Parts == ApiInv => LimiterOK /\ CallsOK /\ \A c \in Calls : Handled(c)
BY DEF ApiInv, ApiTypeOK, LimiterOK, CallsOK, ExecStates, WaitStates

LEMMA Whole == LimiterOK /\ CallsOK /\ (\A c \in Calls : Handled(c)) => ApiInv
BY DEF ApiInv, ApiTypeOK, LimiterOK, CallsOK, ExecStates, WaitStates, Handled, Fine

LEMMA GoesSafe ==
  ASSUME ApiInv, NEW c \in Calls, Goes(c), LimiterOK'
  PROVE  LimiterOK' /\ CallsOK' /\ (\A x \in Calls : Handled(x)') /\ VerdictsStand
<1>1. \A x \in Calls : Handled(x)  BY Parts
<1>2. \A x \in Calls : Handled(x)'  BY <1>1 DEF Goes, Elsewhere, Handled
<1>3. VerdictsStand  BY DEF Goes, Elsewhere, VerdictsStand
<1> QED  BY <1>2, <1>3 DEF Goes

(* A step that gives one call new values, each of them typed.              *)
Sets(c, e, w, v, n, k) ==
  /\ e \in ExecStates /\ w \in BOOLEAN /\ v \in WaitStates
  /\ n \in 0..MaxPublished /\ k \in CallRecords
  /\ exec' = [exec EXCEPT ![c] = e] /\ working' = [working EXCEPT ![c] = w]
  /\ waiter' = [waiter EXCEPT ![c] = v] /\ published' = [published EXCEPT ![c] = n]
  /\ call' = [call EXCEPT ![c] = k]

LEMMA SetsGoes ==
  ASSUME CallsOK, NEW c \in Calls, NEW e, NEW w, NEW v, NEW n, NEW k,
         Sets(c, e, w, v, n, k), Fine(e, w, n, k), exec[c] \in Terminal => e = exec[c]
  PROVE  Goes(c)
<1>1. CallsOK'  BY DEF CallsOK, Sets
<1>2. Elsewhere(c)  BY DEF CallsOK, Sets, Elsewhere
<1>3. /\ exec'[c] = e /\ working'[c] = w /\ published'[c] = n /\ call'[c] = k
  BY DEF CallsOK, Sets
<1> QED  BY <1>1, <1>2, <1>3 DEF Goes, Handled

LEMMA AsIs ==
  ASSUME ApiInv, NEW c \in Calls
  PROVE  /\ CallsOK /\ Fine(exec[c], working[c], published[c], call[c])
         /\ exec[c] \in ExecStates /\ working[c] \in BOOLEAN
         /\ waiter[c] \in WaitStates /\ published[c] \in 0..MaxPublished
         /\ published[c] \in Nat /\ call[c] \in CallRecords
         /\ exec = [exec EXCEPT ![c] = exec[c]]
         /\ working = [working EXCEPT ![c] = working[c]]
         /\ waiter = [waiter EXCEPT ![c] = waiter[c]]
         /\ published = [published EXCEPT ![c] = published[c]]
         /\ call = [call EXCEPT ![c] = call[c]]
BY Parts, ApiAssumption DEF CallsOK, Handled

(* A handler that moves on, or answers.                                    *)
LEMMA MovesTo ==
  ASSUME ApiInv, NEW c \in Calls,
         NEW at \in {"waiting", "polling", "sending", "expiring", "leaving", "replied"},
         Moves(c, at)
  PROVE  \E k \in CallRecords :
           /\ call' = [call EXCEPT ![c] = k] /\ k.at = at /\ k.reply = call[c].reply
           /\ k.cursor = call[c].cursor /\ k.upto = call[c].upto
<1>1. call[c] \in CallRecords  BY AsIs
<1>2. PICK k \in CallRecords : k = [call[c] EXCEPT !.at = at]
  BY <1>1 DEF CallRecords
<1>3. k.at = at /\ k.reply = call[c].reply /\ k.cursor = call[c].cursor
      /\ k.upto = call[c].upto
  BY <1>1, <1>2 DEF CallRecords
<1> QED  BY <1>2, <1>3 DEF Moves

LEMMA AnswersWith ==
  ASSUME ApiInv, NEW c \in Calls, NEW reply \in Replies, Answers(c, reply)
  PROVE  \E k \in CallRecords :
           /\ call' = [call EXCEPT ![c] = k] /\ k.at = "replied" /\ k.reply = reply
           /\ k.cursor = call[c].cursor /\ k.upto = call[c].upto
<1>1. call[c] \in CallRecords  BY AsIs
<1>2. PICK k \in CallRecords : k = [call[c] EXCEPT !.at = "replied", !.reply = reply]
  BY <1>1 DEF CallRecords
<1>3. k.at = "replied" /\ k.reply = reply /\ k.cursor = call[c].cursor
      /\ k.upto = call[c].upto
  BY <1>1, <1>2 DEF CallRecords
<1>4. call' = [call EXCEPT ![c] = k]  BY <1>2 DEF Answers
<1> QED  BY <1>3, <1>4

LEMMA AdmitsGoes ==
  ASSUME ApiInv, NEW c \in Calls, Admits(c)
  PROVE  Goes(c)
<1>1. call[c].at = "none" /\ UNCHANGED <<waiter, published>>  BY DEF Admits
<1>2. CASE exec' = [exec EXCEPT ![c] = "running"]
           /\ working' = [working EXCEPT ![c] = TRUE]
           /\ Moves(c, IF c \in Streams THEN "polling" ELSE "waiting")
  <2>1. PICK k \in CallRecords :
          /\ call' = [call EXCEPT ![c] = k] /\ k.at \in {"polling", "waiting"}
          /\ k.reply = call[c].reply /\ k.cursor = call[c].cursor
          /\ k.upto = call[c].upto
    BY <1>2, MovesTo
  <2>2. Sets(c, "running", TRUE, waiter[c], published[c], k)
    BY <1>1, <1>2, <2>1, AsIs DEF Sets, ExecStates
  <2>3. Fine("running", TRUE, published[c], k)
    BY <1>1, <2>1, AsIs DEF Fine, Finals
  <2>4. exec[c] \notin Terminal  BY <1>1, AsIs DEF Fine, Terminal
  <2> QED  BY <2>2, <2>3, <2>4, AsIs, SetsGoes
<1>3. CASE Answers(c, "refused") /\ UNCHANGED <<exec, working>>
  <2>1. PICK k \in CallRecords :
          /\ call' = [call EXCEPT ![c] = k] /\ k.at = "replied" /\ k.reply = "refused"
          /\ k.cursor = call[c].cursor /\ k.upto = call[c].upto
    BY <1>3, AnswersWith DEF Replies
  <2>2. Sets(c, exec[c], working[c], waiter[c], published[c], k)
    BY <1>1, <1>3, <2>1, AsIs DEF Sets
  <2>3. Fine(exec[c], working[c], published[c], k)
    BY <1>1, <2>1, AsIs DEF Fine, Finals
  <2> QED  BY <2>2, <2>3, AsIs, SetsGoes
<1> QED  BY <1>2, <1>3 DEF Admits

(* The coordinator's side: a task that ends, or is paused and answered.    *)
LEMMA TaskGoes ==
  ASSUME ApiInv, NEW c \in Calls, NEW e \in ExecStates, NEW w \in BOOLEAN,
         NEW v \in WaitStates,
         exec' = [exec EXCEPT ![c] = e], working' = [working EXCEPT ![c] = w],
         waiter' = [waiter EXCEPT ![c] = v], Publish(c), call' = call,
         w => e = "running", exec[c] \in Terminal => e = exec[c] /\ ~w,
         exec[c] # "none", e # "none"
  PROVE  Goes(c)
<1>1. PICK n \in 0..MaxPublished :
        n >= published[c] /\ published' = [published EXCEPT ![c] = n]
  <2>1. CASE published[c] < MaxPublished
    <3>1. published[c] + 1 \in 0..MaxPublished /\ published[c] + 1 >= published[c]
      BY <2>1, AsIs, ApiAssumption
    <3>2. published' = [published EXCEPT ![c] = published[c] + 1]
      BY <2>1 DEF Publish
    <3> QED  BY <3>1, <3>2
  <2>2. CASE ~(published[c] < MaxPublished)
    <3>1. published[c] \in 0..MaxPublished /\ published[c] >= published[c]  BY AsIs
    <3>2. published' = [published EXCEPT ![c] = published[c]]
      BY <2>2 DEF Publish
    <3> QED  BY <3>1, <3>2
  <2> QED  BY <2>1, <2>2
<1>2. Sets(c, e, w, v, n, call[c])  BY <1>1, AsIs DEF Sets
<1>3. call[c].upto \in Nat  BY AsIs DEF CallRecords
<1>4. Fine(e, w, n, call[c])
  BY <1>1, <1>3, AsIs DEF Fine, ExecStates
<1> QED  BY <1>2, <1>4, AsIs, SetsGoes

LEMMA TasksGo ==
  ASSUME ApiInv, NEW c \in Calls,
         \/ Publishes(c) \/ TaskCancelled(c) \/ CancelsPaused(c)
         \/ \E s \in {"completed", "failed", "raised", "awaiting"} : Settles(c, s)
         \/ \E s \in {"running", "denied"} : ApprovalAnswered(c, s)
  PROVE  Goes(c)
<1>1. CASE Publishes(c)
  <2>1. UNCHANGED <<exec, working, waiter, call>> /\ published[c] < MaxPublished
        /\ Publish(c)
    BY <1>1 DEF Publishes
  <2>2. PICK n \in 0..MaxPublished : n = published[c] + 1
    BY <2>1, AsIs, ApiAssumption
  <2>3. published' = [published EXCEPT ![c] = n]  BY <2>1, <2>2 DEF Publish
  <2>4. Sets(c, exec[c], working[c], waiter[c], n, call[c])
    BY <2>1, <2>3, AsIs DEF Sets
  <2>5. call[c].upto \in Nat  BY AsIs DEF CallRecords
  <2>6. Fine(exec[c], working[c], n, call[c])  BY <2>2, <2>5, AsIs DEF Fine
  <2> QED  BY <2>4, <2>6, AsIs, SetsGoes
<1>2. ASSUME NEW e \in ExecStates, NEW seen \in WaitStates, TaskEnds(c, seen),
             exec' = [exec EXCEPT ![c] = e], exec[c] \in Terminal => e = exec[c],
             e # "none"
      PROVE  Goes(c)
  <2>1. working[c] /\ working' = [working EXCEPT ![c] = FALSE] /\ Publish(c)
        /\ call' = call
    BY <1>2 DEF TaskEnds, limiterVars
  <2>2. PICK v \in WaitStates : waiter' = [waiter EXCEPT ![c] = v]
    BY <1>2, AsIs DEF TaskEnds
  <2>3. exec[c] # "none"  BY <2>1, AsIs DEF Fine, Terminal
  <2> QED  BY <1>2, <2>1, <2>2, <2>3, TaskGoes
<1>3. CASE TaskCancelled(c)
  <2>1. PICK e \in ExecStates :
          e = IF exec[c] \in Terminal THEN exec[c] ELSE "cancelled"
    BY AsIs DEF ExecStates, Terminal
  <2>2. exec' = [exec EXCEPT ![c] = e] /\ TaskEnds(c, "cancelled")
    BY <1>3, <2>1 DEF TaskCancelled
  <2>3. e # "none" /\ "cancelled" \in WaitStates /\ (exec[c] \in Terminal => e = exec[c])
    BY <2>1 DEF WaitStates, Terminal
  <2> QED  BY <1>2, <2>2, <2>3
<1>4. ASSUME NEW s \in {"completed", "failed", "raised", "awaiting"}, Settles(c, s)
      PROVE  Goes(c)
  <2>1. call[c].at # "expiring" /\ exec' = [exec EXCEPT ![c] = s]
        /\ TaskEnds(c, "returned") /\ working[c]
    BY <1>4 DEF Settles, TaskEnds
  <2>2. exec[c] \notin Terminal  BY <2>1, AsIs DEF Fine, Terminal
  <2>3. s \in ExecStates /\ s # "none" /\ "returned" \in WaitStates
    BY DEF ExecStates, Terminal, WaitStates
  <2> QED  BY <1>2, <2>1, <2>2, <2>3
<1>5. CASE CancelsPaused(c)
  <2>1. /\ exec[c] = "awaiting" /\ exec' = [exec EXCEPT ![c] = "cancelled"]
        /\ Publish(c) /\ UNCHANGED <<working, waiter, call>>
    BY <1>5 DEF CancelsPaused
  <2>2. ~working[c] /\ exec[c] \notin Terminal  BY <2>1, AsIs DEF Fine, Terminal
  <2>3. "cancelled" \in ExecStates  BY DEF ExecStates, Terminal
  <2>4. working' = [working EXCEPT ![c] = working[c]]
        /\ waiter' = [waiter EXCEPT ![c] = waiter[c]]
        /\ working[c] \in BOOLEAN /\ waiter[c] \in WaitStates
    BY <2>1, AsIs
  <2> QED  BY <2>1, <2>2, <2>3, <2>4, TaskGoes
<1>6. ASSUME NEW s \in {"running", "denied"}, ApprovalAnswered(c, s)
      PROVE  Goes(c)
  <2>1. PICK w \in BOOLEAN : w <=> s = "running"  OBVIOUS
  <2>2. /\ exec[c] = "awaiting" /\ exec' = [exec EXCEPT ![c] = s]
        /\ working' = [working EXCEPT ![c] = w]
        /\ Publish(c) /\ UNCHANGED <<waiter, call>>
    <3>1. w = (s = "running")  BY <2>1
    <3> QED  BY <1>6, <3>1 DEF ApprovalAnswered
  <2>3. exec[c] \notin Terminal /\ s \in ExecStates
    BY <2>2 DEF Terminal, ExecStates
  <2>4. waiter' = [waiter EXCEPT ![c] = waiter[c]] /\ waiter[c] \in WaitStates
    BY <2>2, AsIs
  <2> QED  BY <2>1, <2>2, <2>3, <2>4, TaskGoes
<1> QED  BY <1>1, <1>3, <1>4, <1>5, <1>6

(* The handlers: each sets the call, and two of them the execution.        *)
LEMMA HandlerGoes ==
  ASSUME ApiInv, NEW c \in Calls, NEW e \in ExecStates, NEW k \in CallRecords,
         exec' = [exec EXCEPT ![c] = e], call' = [call EXCEPT ![c] = k],
         UNCHANGED <<working, waiter, published>>,
         exec[c] \in Terminal => e = exec[c],
         Fine(e, working[c], published[c], k)
  PROVE  Goes(c)
<1>1. Sets(c, e, working[c], waiter[c], published[c], k)
  BY AsIs DEF Sets
<1> QED  BY <1>1, AsIs, SetsGoes

LEMMA WaitGoes ==
  ASSUME ApiInv, NEW c \in Calls, WaitReturns(c)
  PROVE  Goes(c)
<1> DEFINE reply == IF waiter[c] = "cancelled" THEN "dropped"
                    ELSE IF exec[c] = "raised" THEN "500"
                    ELSE IF exec[c] \in Terminal THEN "200" ELSE "paused"
<1>1. /\ call[c].at = "waiting" /\ Answers(c, reply)
      /\ UNCHANGED <<exec, working, waiter, published>>
  BY DEF WaitReturns
<1>2. reply \in Replies /\ (reply \in Finals => exec[c] \in Terminal)
  BY DEF Replies, Finals, Terminal
<1> HIDE DEF reply
<1>3. PICK k \in CallRecords :
        /\ call' = [call EXCEPT ![c] = k] /\ k.at = "replied" /\ k.reply = reply
        /\ k.cursor = call[c].cursor /\ k.upto = call[c].upto
  BY <1>1, <1>2, AnswersWith
<1>4. exec[c] \in Terminal => ~working[c]  BY <1>1, AsIs DEF Fine, Terminal
<1>5. Fine(exec[c], working[c], published[c], k)
  BY <1>1, <1>2, <1>3, <1>4, AsIs DEF Fine
<1>6. exec' = [exec EXCEPT ![c] = exec[c]] /\ exec[c] \in ExecStates
  BY <1>1, AsIs
<1> QED  BY <1>1, <1>3, <1>5, <1>6, HandlerGoes

LEMMA DeadlineGoes ==
  ASSUME ApiInv, NEW c \in Calls,
         DeadlinePasses(c) \/ LosesClient(c) \/ StreamDropped(c) \/ StreamSends(c)
  PROVE  Goes(c)
<1>1. UNCHANGED <<exec, working, waiter, published>>
  BY DEF DeadlinePasses, LosesClient, StreamDropped, StreamSends
<1>2. exec' = [exec EXCEPT ![c] = exec[c]] /\ exec[c] \in ExecStates
  BY <1>1, AsIs
<1>3. call[c] \in CallRecords /\ call[c].upto \in Nat /\ call[c].cursor \in Nat
  BY AsIs DEF CallRecords
<1>4. CASE DeadlinePasses(c)
  <2>1. PICK k \in CallRecords : k = [call[c] EXCEPT !.late = TRUE]
    BY <1>3 DEF CallRecords
  <2>2. /\ k.at = call[c].at /\ k.reply = call[c].reply
        /\ k.cursor = call[c].cursor /\ k.upto = call[c].upto
    BY <1>3, <2>1 DEF CallRecords
  <2>3. call' = [call EXCEPT ![c] = k]  BY <1>4, <2>1 DEF DeadlinePasses
  <2>4. Fine(exec[c], working[c], published[c], k)  BY <2>2, AsIs DEF Fine
  <2> QED  BY <1>1, <1>2, <2>3, <2>4, HandlerGoes
<1>5. CASE LosesClient(c)
  <2>1. call[c].at \in {"waiting", "polling"} /\ Moves(c, "leaving")
    BY <1>5 DEF LosesClient
  <2>2. PICK k \in CallRecords :
          /\ call' = [call EXCEPT ![c] = k] /\ k.at = "leaving"
          /\ k.reply = call[c].reply /\ k.cursor = call[c].cursor
          /\ k.upto = call[c].upto
    BY <2>1, MovesTo
  <2>3. Fine(exec[c], working[c], published[c], k)
    BY <2>1, <2>2, AsIs DEF Fine, Finals
  <2> QED  BY <1>1, <1>2, <2>2, <2>3, HandlerGoes
<1>6. CASE StreamDropped(c)
  <2>1. call[c].at = "sending" /\ Answers(c, "dropped")
    BY <1>6 DEF StreamDropped
  <2>2. PICK k \in CallRecords :
          /\ call' = [call EXCEPT ![c] = k] /\ k.at = "replied"
          /\ k.reply = "dropped" /\ k.cursor = call[c].cursor
          /\ k.upto = call[c].upto
    BY <2>1, AnswersWith DEF Replies
  <2>3. Fine(exec[c], working[c], published[c], k)
    BY <2>1, <2>2, AsIs DEF Fine, Finals
  <2> QED  BY <1>1, <1>2, <2>2, <2>3, HandlerGoes
<1>7. CASE StreamSends(c)
  <2>1. call[c].at = "sending" /\ call[c].cursor < call[c].upto
        /\ call' = [call EXCEPT ![c].cursor = @ + 1]
    BY <1>7 DEF StreamSends
  <2>2. PICK k \in CallRecords : k = [call[c] EXCEPT !.cursor = call[c].cursor + 1]
    <3>1. PICK m \in Nat : m = call[c].cursor + 1  BY <1>3
    <3>2. [call[c] EXCEPT !.cursor = m] \in CallRecords  BY <1>3 DEF CallRecords
    <3> QED  BY <3>1, <3>2
  <2>3. /\ k.at = call[c].at /\ k.reply = call[c].reply
        /\ k.cursor = call[c].cursor + 1 /\ k.upto = call[c].upto
    BY <1>3, <2>2 DEF CallRecords
  <2>4. call' = [call EXCEPT ![c] = k]  BY <2>1, <2>2
  <2>5. Fine(exec[c], working[c], published[c], k)
    BY <1>3, <2>1, <2>3, AsIs DEF Fine
  <2> QED  BY <1>1, <1>2, <2>4, <2>5, HandlerGoes
<1> QED  BY <1>4, <1>5, <1>6, <1>7

(* What a turn of the stream's loop, and a stopped one, send next.         *)
LEMMA SendsTo ==
  ASSUME ApiInv, NEW c \in Calls,
         call' = [call EXCEPT ![c].at = "sending", ![c].upto = published[c]]
  PROVE  \E k \in CallRecords :
           /\ call' = [call EXCEPT ![c] = k] /\ k.at = "sending"
           /\ k.reply = call[c].reply /\ k.upto <= published[c] /\ k.cursor <= k.upto
<1>1. /\ call[c] \in CallRecords /\ call[c].upto \in Nat /\ call[c].cursor \in Nat
      /\ published[c] \in Nat /\ call[c].cursor <= published[c]
  BY AsIs DEF CallRecords, Fine
<1>2. PICK k \in CallRecords : k = [call[c] EXCEPT !.at = "sending", !.upto = published[c]]
  BY <1>1 DEF CallRecords
<1>3. k.at = "sending" /\ k.reply = call[c].reply /\ k.upto = published[c]
      /\ k.cursor = call[c].cursor
  BY <1>1, <1>2 DEF CallRecords
<1>4. call' = [call EXCEPT ![c] = k]  BY <1>2
<1>5. k.upto <= published[c] /\ k.cursor <= k.upto  BY <1>1, <1>3
<1> QED  BY <1>3, <1>4, <1>5

LEMMA StopsGo ==
  ASSUME ApiInv, NEW c \in Calls, GivesUp(c) \/ Stopped(c) \/ StreamTurns(c)
  PROVE  Goes(c)
<1>1. UNCHANGED <<working, waiter, published>>
  BY DEF GivesUp, Stopped, StreamTurns
<1>2. exec[c] \in ExecStates  BY AsIs
<1>3. ASSUME NEW s \in {"timed_out", "cancelled"}
      PROVE  LET e == IF exec[c] \in Terminal THEN exec[c] ELSE s
             IN  e \in ExecStates /\ e \in Terminal /\ e # "none"
                 /\ (exec[c] \in Terminal => e = exec[c])
  BY <1>2 DEF ExecStates, Terminal
<1>4. CASE GivesUp(c)
  <2>1. PICK e \in ExecStates :
          /\ e = IF exec[c] \in Terminal THEN exec[c] ELSE "timed_out"
          /\ e \in Terminal /\ (exec[c] \in Terminal => e = exec[c])
    BY <1>3
  <2>2. call[c].at = "waiting" /\ Moves(c, "expiring")
        /\ exec' = [exec EXCEPT ![c] = e]
    BY <1>4, <2>1 DEF GivesUp
  <2>3. PICK k \in CallRecords :
          /\ call' = [call EXCEPT ![c] = k] /\ k.at = "expiring"
          /\ k.reply = call[c].reply /\ k.cursor = call[c].cursor
          /\ k.upto = call[c].upto
    BY <2>2, MovesTo
  <2>4. Fine(e, working[c], published[c], k)
    BY <2>1, <2>2, <2>3, AsIs DEF Fine, Finals
  <2> QED  BY <1>1, <2>1, <2>2, <2>3, <2>4, HandlerGoes
<1>5. CASE Stopped(c)
  <2>1. PICK e \in ExecStates :
          /\ e = IF exec[c] \in Terminal THEN exec[c] ELSE "cancelled"
          /\ e \in Terminal /\ (exec[c] \in Terminal => e = exec[c])
    BY <1>3
  <2>2. /\ call[c].at \in {"expiring", "leaving"} /\ ~working[c]
        /\ exec' = [exec EXCEPT ![c] = e]
    BY <1>5, <2>1 DEF Stopped
  <2>3. CASE call[c].at = "expiring" /\ c \in Streams
    <3>1. call' = [call EXCEPT ![c].at = "sending", ![c].upto = published[c]]
      BY <1>5, <2>3 DEF Stopped
    <3>2. PICK k \in CallRecords :
            /\ call' = [call EXCEPT ![c] = k] /\ k.at = "sending"
            /\ k.reply = call[c].reply /\ k.upto <= published[c]
            /\ k.cursor <= k.upto
      BY <3>1, SendsTo
    <3>3. Fine(e, working[c], published[c], k)
      BY <2>1, <2>2, <3>2, AsIs DEF Fine, Finals
    <3> QED  BY <1>1, <2>1, <2>2, <3>2, <3>3, HandlerGoes
  <2>4. CASE ~(call[c].at = "expiring" /\ c \in Streams)
    <3>1. PICK reply \in {"504", "499"} : Answers(c, reply)
      BY <1>5, <2>4 DEF Stopped
    <3>2. reply \in Replies  BY DEF Replies
    <3>3. PICK k \in CallRecords :
            /\ call' = [call EXCEPT ![c] = k] /\ k.at = "replied"
            /\ k.reply = reply /\ k.cursor = call[c].cursor
            /\ k.upto = call[c].upto
      BY <3>1, <3>2, AnswersWith
    <3>4. Fine(e, working[c], published[c], k)
      BY <2>1, <2>2, <3>3, AsIs DEF Fine
    <3> QED  BY <1>1, <2>1, <2>2, <3>3, <3>4, HandlerGoes
  <2> QED  BY <2>3, <2>4
<1>6. CASE StreamTurns(c)
  <2>1. call[c].at = "polling"  BY <1>6 DEF StreamTurns
  <2>2. CASE call[c].late /\ exec[c] \notin Terminal
    <3>1. exec' = [exec EXCEPT ![c] = "timed_out"] /\ Moves(c, "expiring")
      BY <1>6, <2>2 DEF StreamTurns
    <3>2. PICK k \in CallRecords :
            /\ call' = [call EXCEPT ![c] = k] /\ k.at = "expiring"
            /\ k.reply = call[c].reply /\ k.cursor = call[c].cursor
            /\ k.upto = call[c].upto
      BY <3>1, MovesTo
    <3>3. "timed_out" \in ExecStates /\ "timed_out" \in Terminal
      BY DEF ExecStates, Terminal
    <3>4. Fine("timed_out", working[c], published[c], k)
      BY <2>1, <3>2, <3>3, AsIs DEF Fine, Finals
    <3> QED  BY <1>1, <2>2, <3>1, <3>2, <3>3, <3>4, HandlerGoes
  <2>3. CASE ~(call[c].late /\ exec[c] \notin Terminal)
    <3>1. /\ call' = [call EXCEPT ![c].at = "sending", ![c].upto = published[c]]
          /\ UNCHANGED exec
      BY <1>6, <2>3 DEF StreamTurns
    <3>2. PICK k \in CallRecords :
            /\ call' = [call EXCEPT ![c] = k] /\ k.at = "sending"
            /\ k.reply = call[c].reply /\ k.upto <= published[c]
            /\ k.cursor <= k.upto
      BY <3>1, SendsTo
    <3>3. Fine(exec[c], working[c], published[c], k)
      BY <2>1, <3>2, AsIs DEF Fine, Finals
    <3>4. exec' = [exec EXCEPT ![c] = exec[c]]  BY <3>1, AsIs
    <3> QED  BY <1>1, <1>2, <3>2, <3>3, <3>4, HandlerGoes
  <2> QED  BY <2>2, <2>3
<1> QED  BY <1>4, <1>5, <1>6

LEMMA ReadsGo ==
  ASSUME ApiInv, NEW c \in Calls, StreamReads(c)
  PROVE  Goes(c)
<1>1. /\ call[c].at = "sending" /\ UNCHANGED <<exec, working, waiter, published>>
  BY DEF StreamReads
<1>2. exec' = [exec EXCEPT ![c] = exec[c]] /\ exec[c] \in ExecStates
  BY <1>1, AsIs
<1>3. exec[c] \in Terminal => ~working[c]  BY <1>1, AsIs DEF Fine, Terminal
<1>4. ASSUME NEW reply \in {"completed", "ended", "failed"}, Answers(c, reply),
             reply # "ended" => exec[c] \in Terminal
      PROVE  Goes(c)
  <2>1. reply \in Replies /\ (reply \in Finals => reply # "ended")
    BY DEF Replies, Finals
  <2>2. PICK k \in CallRecords :
          /\ call' = [call EXCEPT ![c] = k] /\ k.at = "replied" /\ k.reply = reply
          /\ k.cursor = call[c].cursor /\ k.upto = call[c].upto
    BY <1>4, <2>1, AnswersWith
  <2>3. Fine(exec[c], working[c], published[c], k)
    BY <1>1, <1>3, <1>4, <2>1, <2>2, AsIs DEF Fine
  <2> QED  BY <1>1, <1>2, <2>2, <2>3, HandlerGoes
<1>5. CASE Moves(c, "polling")
  <2>1. PICK k \in CallRecords :
          /\ call' = [call EXCEPT ![c] = k] /\ k.at = "polling"
          /\ k.reply = call[c].reply /\ k.cursor = call[c].cursor
          /\ k.upto = call[c].upto
    BY <1>5, MovesTo
  <2>2. Fine(exec[c], working[c], published[c], k)
    BY <1>1, <2>1, AsIs DEF Fine, Finals
  <2> QED  BY <1>1, <1>2, <2>1, <2>2, HandlerGoes
<1>6. \/ exec[c] \in Terminal /\ (Answers(c, "completed") \/ Answers(c, "failed"))
      \/ Answers(c, "ended") \/ Moves(c, "polling")
  BY DEF StreamReads, Terminal
<1> QED  BY <1>4, <1>5, <1>6

LEMMA RefusesGoes ==
  ASSUME ApiInv, UNCHANGED <<exec, working, waiter, published, call>>
  PROVE  CallsOK' /\ (\A x \in Calls : Handled(x)') /\ VerdictsStand
<1>1. CallsOK /\ \A x \in Calls : Handled(x)  BY Parts
<1> QED  BY <1>1 DEF CallsOK, Handled, VerdictsStand

LEMMA ApiStep ==
  ASSUME ApiInv, [ApiNext]_apiVars
  PROVE  ApiInv' /\ VerdictsStand
<1>1. SUFFICES LimiterOK' /\ CallsOK' /\ (\A x \in Calls : Handled(x)') /\ VerdictsStand
  BY DEF ApiInv, ApiTypeOK, LimiterOK, CallsOK, ExecStates, WaitStates, Handled, Fine
<1>2. CASE ApiTick
  BY <1>2, TickLimited, RefusesGoes DEF ApiTick
<1>3. ASSUME NEW c \in Calls, Admits(c)
      PROVE  LimiterOK' /\ CallsOK' /\ (\A x \in Calls : Handled(x)') /\ VerdictsStand
  BY <1>3, AdmitsLimited, AdmitsGoes, GoesSafe
<1>4. ASSUME NEW c \in Calls, Refuses(c)
      PROVE  LimiterOK' /\ CallsOK' /\ (\A x \in Calls : Handled(x)') /\ VerdictsStand
  BY <1>4, RefusesLimited, RefusesGoes DEF Refuses
<1>5. ASSUME NEW c \in Calls,
             \/ Publishes(c) \/ TaskCancelled(c) \/ CancelsPaused(c)
             \/ \E s \in {"completed", "failed", "raised", "awaiting"} : Settles(c, s)
             \/ \E s \in {"running", "denied"} : ApprovalAnswered(c, s)
      PROVE  LimiterOK' /\ CallsOK' /\ (\A x \in Calls : Handled(x)') /\ VerdictsStand
  <2>1. UNCHANGED limiterVars
    BY <1>5 DEF Publishes, TaskCancelled, CancelsPaused, Settles, ApprovalAnswered,
                TaskEnds
  <2>2. Goes(c)  BY <1>5, TasksGo
  <2> QED  BY <2>1, <2>2, LimiterKept, GoesSafe
<1>6. ASSUME NEW c \in Calls,
             Handler(c) \/ DeadlinePasses(c) \/ LosesClient(c) \/ StreamDropped(c)
      PROVE  LimiterOK' /\ CallsOK' /\ (\A x \in Calls : Handled(x)') /\ VerdictsStand
  <2>1. UNCHANGED limiterVars
    BY <1>6 DEF Handler, DeadlinePasses, LosesClient, StreamDropped, WaitReturns,
                GivesUp, Stopped, StreamTurns, StreamSends, StreamReads
  <2>2. Goes(c)
    BY <1>6, WaitGoes, DeadlineGoes, StopsGo, ReadsGo DEF Handler
  <2> QED  BY <2>1, <2>2, LimiterKept, GoesSafe
<1>7. CASE UNCHANGED apiVars
  BY <1>7, LimiterKept, RefusesGoes DEF apiVars, limiterVars
<1> QED  BY <1>2, <1>3, <1>4, <1>5, <1>6, <1>7 DEF ApiNext

LEMMA ApiBegins == ApiInit => ApiInv
<1> SUFFICES ASSUME ApiInit PROVE ApiInv  OBVIOUS
<1>1. /\ Window \in Nat \ {0} /\ MaxTime \in Nat /\ MaxPublished \in Nat
      /\ Limit \in Nat \ {0}
  BY ApiAssumption
<1>2. 0 \in Starts  BY <1>1 DEF Starts
<1>3. NoCall \in CallRecords  BY DEF NoCall, CallRecords, Replies
<1>4. CallsOK  BY <1>1, <1>3 DEF ApiInit, CallsOK, ExecStates, WaitStates
<1>5. \A c \in Calls : Handled(c)
  BY DEF ApiInit, Handled, Fine, NoCall, Finals
<1>6. WindowStart \in Nat  BY <1>1, WindowIs DEF ApiInit
<1>7. LimiterOK
  BY <1>1, <1>2, <1>6 DEF ApiInit, LimiterOK, LimitIsHonest, Counts
<1> QED  BY <1>4, <1>5, <1>7, Whole

(* The invariant behind ApiSafe: the limiter's count is what the latest    *)
(* window let in, and only a handler that waits for the task it stopped    *)
(* leaves one at work for an execution that is over.                       *)
THEOREM ApiInvariance == ApiInit /\ [][ApiNext]_apiVars => []ApiInv
<1>1. ApiInv /\ [ApiNext]_apiVars => ApiInv'  BY ApiStep
<1> QED  BY <1>1, ApiBegins, PTL

(* However deadlines, lost clients, late results and cancels interleave:   *)
(* nothing works for a request answered with an end, no verdict changes,   *)
(* no window takes more than the limit and a 429 tells a wait that is      *)
(* long enough (api/server.py, RateLimiter).                               *)
THEOREM ApiIsSafe == ApiInit /\ [][ApiNext]_apiVars => ApiSafe
<1>1. ApiInv => ApiTypeOK /\ AnsweredIsOver /\ LimitIsHonest
  BY DEF ApiInv, Handled, Fine, Finals, AnsweredIsOver
<1>2. ApiInv /\ [ApiNext]_apiVars =>
        [\A c \in Calls : exec[c] \in Terminal => exec'[c] = exec[c]]_apiVars
  BY ApiStep DEF VerdictsStand
<1> QED  BY <1>1, <1>2, ApiInvariance, PTL DEF ApiSafe, VerdictStands

-----------------------------------------------------------------------------
(* Voice: for any length of an answer and any limit of the queue.          *)

(* After a barge-in the end is the next thing the consumer gets; where no  *)
(* answer streams there is no consumer.                                    *)
Silenced ==
  /\ queue \in Seq(0..MaxChunks) /\ chunk \in 0..MaxChunks
  /\ consumer \in {"getting", "speaking", "ended", "failed"}
  /\ producer \in {"idle", "draining"} => consumer = "ended"
  /\ barged /\ consumer \in {"getting", "speaking"} =>
        queue # <<>> /\ Head(queue) = END

StaysSilent ==
  barged /\ barged' /\ consumer # "speaking" => consumer' # "speaking"

LEMMA HeadAppend ==
  ASSUME NEW S, NEW q \in Seq(S), NEW x \in S
  PROVE  /\ Append(q, x) \in Seq(S) /\ Append(q, x) # <<>>
         /\ (q # <<>> => Head(Append(q, x)) = Head(q))
<1>1. Append(q, x) \in Seq(S) /\ Len(Append(q, x)) = Len(q) + 1 /\ Len(q) \in Nat
  OBVIOUS
<1>2. Append(q, x) # <<>>  BY <1>1
<1>3. ASSUME q # <<>> PROVE Head(Append(q, x)) = Head(q)
  <2>1. Len(q) >= 1  BY <1>3
  <2>2. Append(q, x)[1] = q[1]  BY <2>1
  <2> QED  BY <1>2, <2>2
<1> QED  BY <1>1, <1>2, <1>3

LEMMA StreamStep ==
  ASSUME Silenced, [StreamNext]_streamVars
  PROVE  Silenced' /\ StaysSilent
<1> USE DEF StaysSilent
<1>1. MaxChunks \in Nat /\ END \in 0..MaxChunks  BY StreamingAssumption DEF END
<1>2. /\ <<END>> \in Seq(0..MaxChunks) /\ <<END>> # <<>> /\ Head(<<END>>) = END
      /\ <<>> \in Seq(0..MaxChunks)
  BY <1>1
<1>3. ASSUME NEW x \in 0..MaxChunks, queue' = Append(queue, x),
             UNCHANGED <<chunk, consumer, barged>>,
             producer' \notin {"idle", "draining"}
      PROVE  Silenced' /\ StaysSilent
  BY <1>3, HeadAppend DEF Silenced
<1>4. CASE HearsUtterance  BY <1>1, <1>2, <1>4 DEF HearsUtterance, Silenced
<1>5. CASE StreamRaises
  BY <1>2, <1>5 DEF StreamRaises, Cancelled, Silenced
<1>6. CASE Generates  BY <1>1, <1>5, <1>6 DEF Generates, Silenced
<1>7. CASE Puts  BY <1>3, <1>7 DEF Puts, Silenced
<1>8. CASE Closes  BY <1>8 DEF Closes, Silenced
<1>9. CASE PutsEnd  BY <1>1, <1>3, <1>9 DEF PutsEnd, Silenced
<1>10. CASE Joins  BY <1>5, <1>10 DEF Joins, Drains, Silenced
<1>11. CASE Drained  BY <1>11 DEF Drained, Silenced
<1>12. CASE Gets
  <2>1. Tail(queue) \in Seq(0..MaxChunks)  BY <1>12 DEF Gets, Silenced
  <2> QED  BY <1>12, <2>1 DEF Gets, Silenced
<1>13. CASE Speaks \/ SpeechFails  BY <1>13 DEF Speaks, SpeechFails, Silenced
<1>14. CASE Plays \/ Played \/ PlaybackFails
  BY <1>14 DEF Plays, Played, PlaybackFails, Silenced
<1>15. CASE BargesIn
  <2>1. CASE producer = "draining"
    <3>1. UNCHANGED <<queue, chunk, consumer, producer>> /\ consumer = "ended"
      BY <1>15, <2>1 DEF BargesIn, Silenced
    <3> QED  BY <2>1, <3>1 DEF Silenced
  <2>2. CASE producer # "draining"
    <3>1. /\ queue' = <<END>> /\ UNCHANGED <<chunk, consumer, producer>>
          /\ producer # "idle"
      BY <1>15, <2>2 DEF BargesIn, Cancelled
    <3> QED  BY <1>2, <2>2, <3>1 DEF Silenced
  <2> QED  BY <2>1, <2>2
<1>16. CASE UNCHANGED streamVars  BY <1>16 DEF streamVars, Silenced
<1> QED
  BY <1>4, <1>5, <1>6, <1>7, <1>8, <1>9, <1>10, <1>11, <1>12, <1>13, <1>14, <1>15,
     <1>16 DEF StreamNext, Streaming, RuntimeRaises, Speaking, Playing

(* Once the user has cut in, nothing queued or still to come is begun,     *)
(* whatever the order in which the queue is cancelled, filled, closed and  *)
(* read (SpeechChunkQueue.cancel, VoiceManager._monitor_barge_in).         *)
THEOREM SilenceHolds == StreamInit /\ [][StreamNext]_streamVars => SilentAfterBargeIn
<1>1. StreamInit => Silenced
  BY StreamingAssumption DEF StreamInit, Silenced
<1>2. Silenced /\ [StreamNext]_streamVars => Silenced'  BY StreamStep
<1>3. Silenced /\ [StreamNext]_streamVars =>
        [barged /\ barged' /\ consumer # "speaking" => consumer' # "speaking"]_streamVars
  BY StreamStep DEF StaysSilent
<1> QED  BY <1>1, <1>2, <1>3, PTL DEF SilentAfterBargeIn

-----------------------------------------------------------------------------
(* The voice session: for any number of managers, pauses and answers.      *)

(* While no start overlapped another start or a stop: who starts is the    *)
(* session's manager and nobody stops, nobody stops while the session      *)
(* speaks, and what listens is the speaking session's or being stopped.    *)
Attended ==
  /\ starting # {} => starting = {manager} /\ ~speaking /\ stopping = {}
  /\ speaking => stopping = {}
  /\ listening \subseteq (IF speaking THEN {manager} ELSE {}) \cup stopping

VoiceInv ==
  /\ VoiceTypeOK /\ manager <= managers /\ DOMAIN waitsOn = PausedTasks
  /\ speaking \in BOOLEAN /\ hasty \in BOOLEAN
  /\ hasty \/ Attended
  /\ allowed \subseteq consented
  /\ result = "allow" => pending \in consented

(* The life of the managers, the approvals as they are.                    *)
LEMMA LifeStep ==
  ASSUME VoiceInv, UNCHANGED approvalVars,
         \/ StartVoice \/ ToggleOff \/ StopVoice
         \/ \E m \in 1..MaxManagers : VoiceStarted(m) \/ StartVoiceFails(m) \/ VoiceStopped(m)
  PROVE  VoiceInv'
<1>0. /\ MaxManagers \in Nat /\ manager \in Nat /\ managers \in Nat
      /\ manager <= managers /\ managers <= MaxManagers
      /\ starting \subseteq 1..managers /\ stopping \subseteq 1..managers
      /\ listening \subseteq 1..managers
  BY VoiceAssumption DEF VoiceInv, VoiceTypeOK
<1>a. ASSUME /\ manager' \in Nat /\ managers' \in Nat
             /\ manager' <= managers' /\ managers' <= MaxManagers
             /\ starting' \subseteq 1..managers' /\ stopping' \subseteq 1..managers'
             /\ listening' \subseteq 1..managers'
             /\ speaking' \in BOOLEAN /\ hasty' \in BOOLEAN /\ (hasty' \/ Attended')
      PROVE  VoiceInv'
  BY <1>0, <1>a DEF VoiceInv, VoiceTypeOK, approvalVars
<1>1. CASE StartVoice
  <2>1. /\ managers' = managers + 1 /\ manager' = managers + 1 /\ ~speaking
        /\ starting' = starting \cup {managers + 1} /\ managers < MaxManagers
        /\ hasty' = (hasty \/ starting \cup stopping # {})
        /\ UNCHANGED <<speaking, stopping, listening>>
    BY <1>1 DEF StartVoice
  <2>2. PICK h \in BOOLEAN : h <=> hasty \/ starting \cup stopping # {}  OBVIOUS
  <2>3. hasty' = h
    <3>1. h = (hasty \/ starting \cup stopping # {})  BY <2>2 DEF VoiceInv
    <3> QED  BY <2>1, <3>1
  <2>4. hasty' \/ Attended'
    BY <2>1, <2>2, <2>3 DEF VoiceInv, Attended
  <2>5. starting' \subseteq 1..managers' /\ stopping' \subseteq 1..managers'
        /\ listening' \subseteq 1..managers'
    BY <1>0, <2>1
  <2>6. speaking' \in BOOLEAN  BY <2>1 DEF VoiceInv
  <2> QED  BY <1>0, <1>a, <2>1, <2>3, <2>4, <2>5, <2>6
<1>2. CASE ToggleOff
  <2>1. /\ speaking /\ speaking' = FALSE /\ manager' = 0
        /\ stopping' = stopping \cup ({manager} \ {0})
        /\ UNCHANGED <<managers, starting, listening, hasty>>
    BY <1>2 DEF ToggleOff
  <2>2. hasty' \/ Attended'  BY <1>0, <2>1 DEF VoiceInv, Attended
  <2>3. stopping' \subseteq 1..managers'  BY <1>0, <2>1
  <2>4. hasty' \in BOOLEAN  BY <2>1 DEF VoiceInv
  <2>5. manager' \in Nat /\ manager' <= managers'  BY <1>0, <2>1
  <2>6. speaking' \in BOOLEAN  BY <2>1
  <2> QED  BY <1>0, <1>a, <2>1, <2>2, <2>3, <2>4, <2>5, <2>6
<1>3. CASE StopVoice
  <2>1. /\ speaking /\ speaking' = FALSE
        /\ stopping' = stopping \cup ({manager} \ {0})
        /\ UNCHANGED <<manager, managers, starting, listening, hasty>>
    BY <1>3 DEF StopVoice
  <2>2. hasty' \/ Attended'  BY <1>0, <2>1 DEF VoiceInv, Attended
  <2>3. stopping' \subseteq 1..managers'  BY <1>0, <2>1
  <2> QED  BY <1>0, <1>a, <2>1, <2>2, <2>3 DEF VoiceInv
<1>4. ASSUME NEW m \in 1..MaxManagers, VoiceStarted(m)
      PROVE  VoiceInv'
  <2>1. /\ m \in starting /\ starting' = starting \ {m}
        /\ listening' = listening \cup {m} /\ speaking' = TRUE
        /\ UNCHANGED <<manager, managers, stopping, hasty>>
    BY <1>4 DEF VoiceStarted
  <2>2. hasty' \/ Attended'  BY <2>1 DEF VoiceInv, Attended
  <2>3. starting' \subseteq 1..managers' /\ listening' \subseteq 1..managers'
    BY <1>0, <2>1
  <2> QED  BY <1>0, <1>a, <2>1, <2>2, <2>3 DEF VoiceInv
<1>5. ASSUME NEW m \in 1..MaxManagers, StartVoiceFails(m)
      PROVE  VoiceInv'
  <2>1. /\ m \in starting /\ starting' = starting \ {m}
        /\ UNCHANGED <<manager, managers, speaking, stopping, listening, hasty>>
    BY <1>5 DEF StartVoiceFails
  <2>2. hasty' \/ Attended'  BY <2>1 DEF VoiceInv, Attended
  <2>3. starting' \subseteq 1..managers'  BY <1>0, <2>1
  <2> QED  BY <1>0, <1>a, <2>1, <2>2, <2>3 DEF VoiceInv
<1>6. ASSUME NEW m \in 1..MaxManagers, VoiceStopped(m)
      PROVE  VoiceInv'
  <2>1. /\ m \in stopping /\ stopping' = stopping \ {m} /\ listening' = listening \ {m}
        /\ UNCHANGED <<managers, speaking, starting, hasty>>
        /\ manager' \in {0, manager}
    BY <1>6 DEF VoiceStopped
  <2>2. hasty' \/ Attended'  BY <2>1 DEF VoiceInv, Attended
  <2>3. stopping' \subseteq 1..managers' /\ listening' \subseteq 1..managers'
    BY <1>0, <2>1
  <2> QED  BY <1>0, <1>a, <2>1, <2>2, <2>3 DEF VoiceInv
<1> QED  BY <1>1, <1>2, <1>3, <1>4, <1>5, <1>6

(* The approvals, the life of the managers as it is.                       *)
LEMMA ApprovalStep ==
  ASSUME VoiceInv, UNCHANGED lifeVars,
         \/ \E t \in PausedTasks : \/ PauseRequested(t) \/ AsksAloud(t) \/ WaitsForAnswer(t)
                                   \/ ResumesPending(t) \/ GivesUpWaiting(t) \/ ClearsPending(t)
         \/ \E a \in {"yes", "no"} : HearsAnswer(a) \/ AppliesAnswer(a)
  PROVE  VoiceInv'
<1> DEFINE States == {"none", "created", "asking", "waiting", "late", "resuming", "done"}
<1>a. ASSUME /\ pending' \in PausedTasks \cup {NoTask}
             /\ event' \in PausedTasks \cup {NoTask}
             /\ handler' \in [PausedTasks -> States] /\ DOMAIN waitsOn' = PausedTasks
             /\ result' \in {"none", "allow", "deny", "timeout"}
             /\ hearings' \subseteq {"yes", "no"}
             /\ \A t \in PausedTasks : handler'[t] = "waiting" => waitsOn'[t] # NoTask
             /\ allowed' \subseteq consented'
             /\ result' = "allow" => pending' \in consented'
      PROVE  VoiceInv'
  BY <1>a DEF VoiceInv, VoiceTypeOK, Attended, lifeVars
<1>0. /\ pending \in PausedTasks \cup {NoTask}
      /\ event \in PausedTasks \cup {NoTask}
      /\ handler \in [PausedTasks -> States] /\ DOMAIN waitsOn = PausedTasks
      /\ result \in {"none", "allow", "deny", "timeout"}
      /\ hearings \subseteq {"yes", "no"}
      /\ \A t \in PausedTasks : handler[t] = "waiting" => waitsOn[t] # NoTask
      /\ allowed \subseteq consented
      /\ result = "allow" => pending \in consented
  BY DEF VoiceInv, VoiceTypeOK
<1>1. ASSUME NEW t \in PausedTasks, NEW s \in States \ {"waiting"},
             handler' = [handler EXCEPT ![t] = s], waitsOn' = waitsOn
      PROVE  /\ handler' \in [PausedTasks -> States] /\ DOMAIN waitsOn' = PausedTasks
             /\ \A u \in PausedTasks : handler'[u] = "waiting" => waitsOn'[u] # NoTask
  BY <1>0, <1>1
<1>2. ASSUME NEW t \in PausedTasks, PauseRequested(t) PROVE VoiceInv'
  BY <1>0, <1>1, <1>a, <1>2 DEF PauseRequested
<1>3. ASSUME NEW t \in PausedTasks, AsksAloud(t) PROVE VoiceInv'
  BY <1>0, <1>1, <1>a, <1>3 DEF AsksAloud
<1>4. ASSUME NEW t \in PausedTasks, WaitsForAnswer(t) PROVE VoiceInv'
  <2>1. UNCHANGED <<pending, event, fired, result, hearings, consented, allowed>>
    BY <1>4 DEF WaitsForAnswer
  <2>2. /\ handler' = [handler EXCEPT ![t] = IF event = NoTask THEN "done" ELSE "waiting"]
        /\ waitsOn' = [waitsOn EXCEPT ![t] = event]
    BY <1>4 DEF WaitsForAnswer
  <2>3. handler' \in [PausedTasks -> States] /\ DOMAIN waitsOn' = PausedTasks
    BY <1>0, <2>2
  <2>4. \A u \in PausedTasks : handler'[u] = "waiting" => waitsOn'[u] # NoTask
    BY <1>0, <2>2
  <2> QED  BY <1>0, <1>a, <2>1, <2>3, <2>4
<1>5. ASSUME NEW t \in PausedTasks, ResumesPending(t) PROVE VoiceInv'
  BY <1>0, <1>1, <1>a, <1>5 DEF ResumesPending
<1>6. ASSUME NEW t \in PausedTasks, GivesUpWaiting(t) PROVE VoiceInv'
  BY <1>0, <1>1, <1>a, <1>6 DEF GivesUpWaiting
<1>7. ASSUME NEW t \in PausedTasks, ClearsPending(t) PROVE VoiceInv'
  BY <1>0, <1>1, <1>a, <1>7 DEF ClearsPending
<1>8. ASSUME NEW a \in {"yes", "no"}, HearsAnswer(a) PROVE VoiceInv'
  BY <1>0, <1>a, <1>8 DEF HearsAnswer
<1>9. ASSUME NEW a \in {"yes", "no"}, AppliesAnswer(a) PROVE VoiceInv'
  BY <1>0, <1>a, <1>9 DEF AppliesAnswer
<1> QED  BY <1>2, <1>3, <1>4, <1>5, <1>6, <1>7, <1>8, <1>9

(* The voice session keeps its invariant (voice/session.py).               *)
THEOREM VoiceInvariance == VoiceInit /\ [][VoiceNext]_voiceVars => []VoiceInv
<1>1. VoiceInit => VoiceInv
  <2> SUFFICES ASSUME VoiceInit PROVE VoiceInv  OBVIOUS
  <2>1. /\ handler = [t \in PausedTasks |-> "none"]
        /\ waitsOn = [t \in PausedTasks |-> NoTask]
    BY DEF VoiceInit
  <2>2. DOMAIN waitsOn = PausedTasks /\ DOMAIN handler = PausedTasks
        /\ \A t \in PausedTasks : handler[t] = "none"
    BY <2>1
  <2>3. VoiceTypeOK
    <3>1. handler \in [PausedTasks -> {"none", "created", "asking", "waiting", "late",
                                       "resuming", "done"}]
      BY <2>1
    <3> QED  BY <2>2, <3>1, VoiceAssumption DEF VoiceInit, VoiceTypeOK
  <2>4. Attended  BY DEF VoiceInit, Attended
  <2>5. speaking \in BOOLEAN /\ hasty \in BOOLEAN  BY DEF VoiceInit
  <2> QED  BY <2>2, <2>3, <2>4, <2>5 DEF VoiceInit, VoiceInv
<1>2. VoiceInv /\ [VoiceNext]_voiceVars => VoiceInv'
  <2> SUFFICES ASSUME VoiceInv, [VoiceNext]_voiceVars PROVE VoiceInv'
    OBVIOUS
  <2>1. CASE \/ StartVoice \/ ToggleOff \/ StopVoice
             \/ \E m \in 1..MaxManagers :
                  VoiceStarted(m) \/ StartVoiceFails(m) \/ VoiceStopped(m)
    <3>1. UNCHANGED approvalVars
      BY <2>1 DEF StartVoice, ToggleOff, StopVoice, VoiceStarted, StartVoiceFails,
                  VoiceStopped
    <3> QED  BY <2>1, <3>1, LifeStep
  <2>2. CASE \/ \E t \in PausedTasks :
                  \/ PauseRequested(t) \/ AsksAloud(t) \/ WaitsForAnswer(t)
                  \/ ResumesPending(t) \/ GivesUpWaiting(t) \/ ClearsPending(t)
             \/ \E a \in {"yes", "no"} : HearsAnswer(a) \/ AppliesAnswer(a)
    <3>1. UNCHANGED lifeVars
      BY <2>2 DEF PauseRequested, AsksAloud, WaitsForAnswer, ResumesPending,
                  GivesUpWaiting, ClearsPending, HearsAnswer, AppliesAnswer
    <3> QED  BY <2>2, <3>1, ApprovalStep
  <2>3. CASE UNCHANGED voiceVars
    BY <2>3 DEF voiceVars, lifeVars, approvalVars, VoiceInv, VoiceTypeOK, Attended
  <2> QED  BY <2>1, <2>2, <2>3 DEF VoiceNext
<1> QED  BY <1>1, <1>2, PTL

(* However starts, stops and toggles overlap and pauses, answers and       *)
(* timeouts interleave: no open microphone that nobody can close, as long  *)
(* as no start overlapped, and only what the user agreed to is allowed     *)
(* (VoiceSession.toggle, handle_approval_pause, resume_after_approval).    *)
THEOREM VoiceIsSafe == VoiceInit /\ [][VoiceNext]_voiceVars => []VoiceSafe
<1>1. VoiceInv => VoiceSafe
  BY DEF VoiceInv, VoiceSafe, NoOrphanMicrophone, AllowedByConsent, Attended
<1> QED  BY <1>1, VoiceInvariance, PTL
=============================================================================

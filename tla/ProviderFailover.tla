-------------------------- MODULE ProviderFailover --------------------------
(***************************************************************************)
(* How a prompt reaches a model: ModelRouter.route picks a provider,       *)
(* RuntimeEngine.run retries, ProviderManager falls back over the other    *)
(* providers, and ProviderHealthChecker is what they share.  Everything    *)
(* runs on one event loop and suspends only while a provider answers, so a *)
(* step reaches from one answer to the next call.                          *)
(***************************************************************************)
EXTENDS Naturals, FiniteSets

CONSTANTS
  Providers,    \* numbered in the order of the registry
  Local,        \* those with execution_location LOCAL
  Usable,       \* those enabled and configured
  Requests,
  Fallback,     \* fallback_enabled
  Cooldown,     \* cooldown_seconds, in ticks
  MaxAttempts,  \* RetryPolicy.max_attempts
  Horizon       \* bound on the clock

ASSUME ProviderAssumption ==
  /\ IsFiniteSet(Providers) /\ Providers \subseteq Nat \ {0}
  /\ Local \subseteq Providers /\ Usable \subseteq Providers
  /\ Fallback \in BOOLEAN
  /\ Cooldown \in Nat \ {0} /\ MaxAttempts \in Nat \ {0} /\ Horizon \in Nat

VARIABLES
  now,
  cooldowns,  \* ProviderHealthChecker._cooldowns; 0: no entry
  status,     \* _status_cache: seen, available, and cooldown_until
  request,    \* what each request is doing
  called      \* how often a request has called a provider in this execution

vars == <<now, cooldowns, status, request, called>>

NoProvider == 0
Unseen == [seen |-> FALSE, available |-> FALSE, until |-> 0]
Status == [seen: BOOLEAN, available: BOOLEAN, until: 0..(Horizon + Cooldown)]

(* local: requires_local_model; at: the provider whose answer is awaited;  *)
(* left: the candidates this attempt has not come to.                      *)
Fresh == [phase |-> "new", local |-> FALSE, primary |-> NoProvider,
          left |-> {}, at |-> NoProvider, attempt |-> 0]
Request ==
  [phase: {"new", "routed", "calling", "backoff", "done", "failed"},
   local: BOOLEAN, primary: Providers \cup {NoProvider},
   left: SUBSET Providers, at: Providers \cup {NoProvider},
   attempt: 0..MaxAttempts]

TypeOK ==
  /\ now \in 0..Horizon
  /\ cooldowns \in [Providers -> 0..(Horizon + Cooldown)]
  /\ status \in [Providers -> Status]
  /\ request \in [Requests -> Request]
  /\ called \in [Requests -> [Providers -> Nat]]

Init ==
  /\ now = 0
  /\ cooldowns = [p \in Providers |-> 0]
  /\ status = [p \in Providers |-> Unseen]
  /\ request = [r \in Requests |-> Fresh]
  /\ called = [r \in Requests |-> [p \in Providers |-> 0]]

-----------------------------------------------------------------------------
(* ProviderHealthChecker *)

(* is_in_cooldown drops an entry that has expired.                         *)
Pruned(until) == IF until <= now THEN 0 ELSE until

(* check                                                                   *)
Check(p, cd) ==
  [seen |-> TRUE, available |-> p \in Usable /\ Pruned(cd[p]) = 0,
   until |-> Pruned(cd[p])]

(* ProviderManager.get_provider_status trusts a cached status that is not  *)
(* in cooldown.                                                            *)
Look(p, st, cd) ==
  IF st[p].seen /\ st[p].until = 0 THEN st[p] ELSE Check(p, cd)
LookDown(p, st, cd) ==
  IF st[p].seen /\ st[p].until = 0 THEN cd[p] ELSE Pruned(cd[p])

(* Mutant: the status forgets the timer and keeps the verdict.             *)
RefreshTimerOnly(p) ==
  IF status[p].seen /\ status[p].until # 0 /\ status[p].until <= now
  THEN [status[p] EXCEPT !.until = 0] ELSE status[p]

(* is_available, for the router: a cached status whose cooldown is over    *)
(* becomes available again.                                                *)
Refresh(p) ==
  IF status[p].seen /\ status[p].until # 0 /\ status[p].until <= now
  THEN [status[p] EXCEPT !.available = p \in Usable, !.until = 0]
  ELSE status[p]
RefreshDown(p) ==
  IF status[p].seen
  THEN IF status[p].until # 0 /\ status[p].until <= now THEN 0 ELSE cooldowns[p]
  ELSE Pruned(cooldowns[p])
IsAvailable(p) ==
  IF status[p].seen THEN Refresh(p).available
  ELSE p \in Usable /\ Pruned(cooldowns[p]) = 0

(* mark_cooldown                                                           *)
MarkedDown(p, cd) == [cd EXCEPT ![p] = now + Cooldown]
(* Mutant: a provider seen before keeps its cached status.                 *)
MarkedTimerOnly(p, st) == st
Marked(p, st) ==
  IF st[p].seen
  THEN [st EXCEPT ![p].available = FALSE, ![p].until = now + Cooldown]
  ELSE st

-----------------------------------------------------------------------------
(* The candidates of an attempt *)

(* Mutant: the fallback ignores the local-only constraint.                 *)
AllCandidates(r) ==
  IF Fallback THEN Providers ELSE {request[r].primary}

Candidates(r) ==
  {p \in IF Fallback THEN Providers ELSE {request[r].primary} :
     request[r].local => p \in Local}

Before(r, p, q) ==
  \/ p = request[r].primary /\ q # p
  \/ p < q /\ q # request[r].primary

(* Mutant: one attempt too many.                                           *)
RetryOnceMore(req) == req.attempt <= MaxAttempts

(* RetryPolicy.allows; whether the failure is of a retryable type is left  *)
(* open.                                                                   *)
MayRetry(req) == req.attempt < MaxAttempts

(* The loop over the candidates in left from the health entries st and cd: *)
(* it looks at each in turn up to the first that is available and calls    *)
(* it; when there is none the attempt has failed.                          *)
Proceed(r, req, left, st, cd) ==
  LET open   == {p \in left : Look(p, st, cd).available}
      first  == {p \in open : \A q \in open \ {p} : Before(r, p, q)}
      looked == {p \in left : \A q \in first : p = q \/ Before(r, p, q)}
  IN  /\ status' = [p \in Providers |->
                      IF p \in looked THEN Look(p, st, cd) ELSE st[p]]
      /\ cooldowns' = [p \in Providers |->
                        IF p \in looked THEN LookDown(p, st, cd) ELSE cd[p]]
      /\ IF first = {}
         THEN /\ \/ /\ MayRetry(req)
                    /\ request' = [request EXCEPT ![r] =
                         [req EXCEPT !.phase = "backoff", !.at = NoProvider,
                            !.left = {}]]
                 \/ /\ request' = [request EXCEPT ![r] =
                         [req EXCEPT !.phase = "failed", !.at = NoProvider,
                            !.left = {}]]
              /\ UNCHANGED called
         ELSE \E p \in first :
                /\ request' = [request EXCEPT ![r] =
                     [req EXCEPT !.phase = "calling", !.at = p,
                        !.left = left \ looked]]
                /\ called' = [called EXCEPT ![r][p] = @ + 1]

-----------------------------------------------------------------------------
(* A request *)

(* ModelRouter.route: the scores decide among the available candidates.    *)
Route(r, local) ==
  LET cands == {p \in Providers : local => p \in Local}
      up    == {p \in cands : IsAvailable(p)}
  IN  /\ request[r].phase = "new"
      /\ status' = [p \in Providers |->
                      IF p \in cands THEN Refresh(p) ELSE status[p]]
      /\ cooldowns' = [p \in Providers |->
                        IF p \in cands THEN RefreshDown(p) ELSE cooldowns[p]]
      /\ \/ /\ up = {}
            /\ request' = [request EXCEPT ![r].phase = "failed"]
         \/ \E p \in up :
              request' = [request EXCEPT ![r] =
                [Fresh EXCEPT !.phase = "routed", !.local = local,
                   !.primary = p]]
      /\ UNCHANGED <<now, called>>

(* Mutant: nothing follows a backoff.                                      *)
AttemptOnce(r) ==
  /\ request[r].phase = "routed"
  /\ Proceed(r, [request[r] EXCEPT !.attempt = @ + 1], Candidates(r),
             status, cooldowns)
  /\ UNCHANGED now

(* RuntimeEngine.run starts an attempt; from the second on                 *)
(* prepare_semantic_retry drops the primary's cooldown, though not the     *)
(* cached status.                                                          *)
Attempt(r) ==
  LET req == [request[r] EXCEPT !.attempt = @ + 1]
      cd  == IF req.attempt > 1
             THEN [cooldowns EXCEPT ![req.primary] = 0] ELSE cooldowns
  IN  /\ request[r].phase \in {"routed", "backoff"}
      /\ Proceed(r, req, Candidates(r), status, cd)
      /\ UNCHANGED now

(* cancel_requested is seen after the backoff.                             *)
CancelBackoff(r) ==
  /\ request[r].phase = "backoff"
  /\ request' = [request EXCEPT ![r].phase = "failed"]
  /\ UNCHANGED <<now, cooldowns, status, called>>

Calling(r) == request[r].phase = "calling"

Succeeds(r) ==
  /\ Calling(r)
  /\ request' = [request EXCEPT ![r].phase = "done", ![r].at = NoProvider]
  /\ UNCHANGED <<now, cooldowns, status, called>>

(* A rate limit, a timeout, a server or connection error: the provider     *)
(* cools down and the next candidate is tried.                             *)
Fails(r) ==
  LET p == request[r].at
  IN  /\ Calling(r)
      /\ Proceed(r, request[r], IF Fallback THEN request[r].left ELSE {},
                 Marked(p, status), MarkedDown(p, cooldowns))
      /\ UNCHANGED now

(* Mutant: the provider that failed stays in the list.                     *)
FailsForModelInPlace(r) ==
  /\ Calling(r)
  /\ Proceed(r, request[r], request[r].left \cup {request[r].at},
             status, cooldowns)
  /\ UNCHANGED now

(* A model-specific or authentication error cools nothing down.            *)
FailsForModel(r) ==
  /\ Calling(r)
  /\ Proceed(r, request[r], IF Fallback THEN request[r].left ELSE {},
             status, cooldowns)
  /\ UNCHANGED now

(* The context window is exceeded, or execute (not a stream) raised: no    *)
(* fallback.                                                               *)
FailsOutright(r) ==
  /\ Calling(r)
  /\ Proceed(r, request[r], {}, status, cooldowns)
  /\ UNCHANGED now

(* list_provider_status and cooldown_providers, from diagnostics.          *)
Inspect ==
  /\ status' = [p \in Providers |-> Look(p, status, cooldowns)]
  /\ cooldowns' = [p \in Providers |-> Pruned(cooldowns[p])]
  /\ UNCHANGED <<now, request, called>>

Tick == now < Horizon /\ now' = now + 1
        /\ UNCHANGED <<cooldowns, status, request, called>>

Next ==
  \/ \E r \in Requests :
       \/ \E local \in BOOLEAN : Route(r, local)
       \/ Attempt(r) \/ CancelBackoff(r) \/ Succeeds(r)
       \/ Fails(r) \/ FailsForModel(r) \/ FailsOutright(r)
  \/ Inspect \/ Tick

Spec == Init /\ [][Next]_vars

Fairness ==
  \A r \in Requests :
    /\ WF_vars(Attempt(r))
    /\ WF_vars(Succeeds(r) \/ Fails(r) \/ FailsForModel(r) \/ FailsOutright(r))

-----------------------------------------------------------------------------
(* Properties *)

(* Cooldown is a hard gate: no request calls a provider whose cooldown     *)
(* runs, whichever request caused it and whatever its cached status says.  *)
NeverCallsCooling ==
  [][\A r \in Requests, p \in Providers :
       called'[r][p] > called[r][p] => cooldowns'[p] <= now]_vars

(* Fallback and retry do not multiply: an execution calls a provider at    *)
(* most once in an attempt and makes at most MaxAttempts of them.          *)
RetriesNotMultiplied ==
  \A r \in Requests, p \in Providers :
    called[r][p] <= request[r].attempt

(* A request that requires a local model never reaches a cloud provider,   *)
(* neither as the routed one nor through fallback or retry.                *)
LocalStaysLocal ==
  \A r \in Requests : request[r].local =>
    \A p \in Providers \ Local : called[r][p] = 0

(* A usable provider is written off only for the length of a cooldown: a   *)
(* cached "unavailable" always carries the timer that ends it.             *)
NeverWrittenOff ==
  \A p \in Usable : status[p].seen /\ ~status[p].available => status[p].until > 0

(* Every routed request is answered or fails: neither the fallback loop    *)
(* nor the retries go on for ever.                                         *)
EveryRequestEnds ==
  \A r \in Requests :
    request[r].phase = "routed" ~> request[r].phase \in {"done", "failed"}

(* Fallback under retry calls each provider as often as it may and no      *)
(* more, never one in its cooldown, never a hosted one for a local         *)
(* request, and gives each its turn again.                                 *)
ProviderSafe ==
  /\ [](/\ TypeOK /\ RetriesNotMultiplied /\ LocalStaysLocal
        /\ NeverWrittenOff)
  /\ NeverCallsCooling
=============================================================================

--------------------------- MODULE Correspondence ---------------------------
(***************************************************************************)
(* Outgoing messages: the communication manager (approval, validation,     *)
(* delivery attempts, audit history) and the communication tools, whose    *)
(* email goes through the SMTP integration in a worker thread.             *)
(*                                                                         *)
(* What a server does with a submission is external: it takes the message  *)
(* for some of the addressees and either says so or the connection is lost *)
(* first.  Texts, addresses and headers are left out.  The operators that  *)
(* no action uses are the mutants of the ones that follow them.            *)
(***************************************************************************)
EXTENDS Integers, Sequences, FiniteSets

CONSTANTS Letters,       \* messages to send
          People,        \* the addressees
          MaxAttempts,   \* RetryPolicy.max_attempts
          MaxEntries,    \* CommunicationHistory._max_entries
          MaxStarts      \* bound: restarts of the process

\* RetryPolicy.attempts is at least one, whatever the policy says.
ASSUME OutboxAssumption ==
  /\ IsFiniteSet(Letters)
  /\ MaxAttempts \in Nat \ {0} /\ MaxEntries \in Nat /\ MaxStarts \in Nat

VARIABLES
  letters,    \* per message: its road, what has become of it
  arrived,    \* per message and person: the copies the server took
  entries,    \* CommunicationHistory._entries with their _row_ids
  rowseq,     \* CommunicationHistory._seq
  auditRows,  \* the durable rows: number -> message
  starts,     \* restarts so far
  rowFault    \* whether a row was not written or not removed

outboxVars == <<letters, arrived, entries, rowseq, auditRows, starts, rowFault>>

Stages == {"new", "sending", "abandoned", "over"}

(* What the caller is told.                                                *)
Verdicts == {"none", "refused", "failed", "pending", "sent", "unavailable",
             "invalid", "accepted", "unknown", "drafted", "simulated", "lost"}

(* The registered providers, those without an implementation as one.       *)
Channels == {"smtp", "stub", "desktop"}

NewLetter ==
  [stage |-> "new", road |-> "none", provider |-> "none", agreed |-> FALSE,
   to |-> {}, ready |-> FALSE, attempts |-> 0, sure |-> 0, doubtful |-> 0,
   verdict |-> "none"]

OutboxInit ==
  /\ letters = [l \in Letters |-> NewLetter]
  /\ arrived = [l \in Letters |-> [p \in People |-> 0]]
  /\ entries = <<>> /\ rowseq = 0 /\ auditRows = <<>>
  /\ starts = 0 /\ rowFault = FALSE

---------------------------------------------------------------------------
(* The audit history.                                                      *)

(* The oldest entry is dropped, and its row with it.                       *)
Pruned(kept) == IF Len(kept) > MaxEntries THEN Tail(kept) ELSE kept
PrunedLastRow(kept) == IF Len(kept) > MaxEntries THEN {kept[Len(kept)].row} ELSE {}
PrunedRow(kept) == IF Len(kept) > MaxEntries THEN {Head(kept).row} ELSE {}

(* add_entry: the row, then the entry, then the pruning; what the database *)
(* refuses is logged and forgotten.                                        *)
Records(l) ==
  LET row  == rowseq + 1
      kept == Append(entries, [row |-> row, letter |-> l])
  IN  /\ rowseq' = row
      /\ entries' = Pruned(kept)
      /\ \E wrote, deleted \in BOOLEAN :
           LET written == IF wrote
                            THEN [r \in DOMAIN auditRows \cup {row} |->
                                    IF r = row THEN l ELSE auditRows[r]]
                            ELSE auditRows
               gone == IF deleted THEN PrunedRow(kept) ELSE {}
           IN  /\ deleted \/ PrunedRow(kept) # {}
               /\ auditRows' = [r \in DOMAIN written \ gone |-> written[r]]
               /\ rowFault' = (rowFault \/ ~wrote \/ ~deleted)

(* The rows in the order of their names, cut to the bound in memory only.  *)
RowAt(n) ==
  CHOOSE r \in DOMAIN auditRows : Cardinality({q \in DOMAIN auditRows : q < r}) = n - 1
Restored ==
  LET all  == Cardinality(DOMAIN auditRows)
      lost == IF all > MaxEntries THEN all - MaxEntries ELSE 0
  IN  [i \in 1..(all - lost) |->
         [row |-> RowAt(lost + i), letter |-> auditRows[RowAt(lost + i)]]]

HistoryClears ==
  /\ entries # <<>>
  /\ entries' = <<>>
  /\ \E cleared \in BOOLEAN :
       /\ auditRows' = IF cleared THEN <<>> ELSE auditRows
       /\ rowFault' = (rowFault \/ ~cleared)
  /\ UNCHANGED <<letters, arrived, rowseq, starts>>

---------------------------------------------------------------------------
(* What a server may do with one submission: the people it takes the       *)
(* message for, and whether its answer reaches the client.                 *)
ServerOutcomes(to) == [took : SUBSET to, answered : BOOLEAN]

(* A refused addressee is an error of the whole submission, as is a lost   *)
(* answer.                                                                 *)
AcceptedForSome(o, to) == o.answered /\ o.took # {}
Accepted(o, to) == o.answered /\ o.took = to

NoSubmission == [took |-> {}, answered |-> FALSE]

(* The attempt counts, and whether it can have left a copy behind.         *)
Tried(d, o) ==
  [d EXCEPT !.attempts = @ + 1,
            !.sure = @ + (IF Accepted(o, d.to) THEN 1 ELSE 0),
            !.doubtful = @ + (IF o.took # {} /\ ~Accepted(o, d.to) THEN 1 ELSE 0)]

Took(l, people) ==
  arrived' = [arrived EXCEPT ![l] =
                [p \in People |-> @[p] + IF p \in people THEN 1 ELSE 0]]

(* The communication manager.                                              *)

Configured(d) == d.ready

(* SMTPProvider.send: nothing leaves an unconfigured client.               *)
SmtpOutcomes(d) ==
  IF Configured(d) THEN ServerOutcomes(d.to) ELSE {NoSubmission}
SmtpStatus(d, o) == IF Accepted(o, d.to) THEN "sent" ELSE "failed"

StubStatus == "pending"      \* the providers without an implementation
DesktopStatus == "sent"      \* says so without showing anything

ResentUntilDelivered(status) == status \in {"failed", "sent"}
Resent(status) == status = "failed"
MayTryOnceMore(d) == d.attempts < MaxAttempts
MayTryAgain(d) == d.attempts + 1 < MaxAttempts

Over(d, v) == [d EXCEPT !.stage = "over", !.verdict = v]

(* Without the approval it needs, a provider or an addressee, a request    *)
(* ends at once.                                                           *)
RefusedUnasked(needs, approved, provider, valid) ==
  provider \notin Channels \/ ~valid
Refused(needs, approved, provider, valid) ==
  (needs /\ ~approved) \/ provider \notin Channels \/ ~valid

ManagerSends(l) ==
  /\ letters[l].stage = "new"
  /\ \E provider \in Channels \cup {"unknown"},
        needs, approved, valid, ready \in BOOLEAN, person \in People :
       LET d == [letters[l] EXCEPT !.road = "manager", !.provider = provider,
                   !.agreed = ~needs \/ approved, !.ready = ready, !.to = {person}]
       IN  IF Refused(needs, approved, provider, valid)
             THEN letters' = [letters EXCEPT ![l] = Over(d, "refused")] /\ Records(l)
             ELSE /\ letters' = [letters EXCEPT ![l] = [d EXCEPT !.stage = "sending"]]
                  /\ UNCHANGED <<entries, rowseq, auditRows, rowFault>>
  /\ UNCHANGED <<arrived, starts>>

(* One delivery attempt; between two attempts the loop may sleep.          *)
Attempts(l) ==
  LET d == letters[l] IN
  /\ d.stage = "sending" /\ d.road = "manager"
  /\ \E o \in (IF d.provider = "smtp" THEN SmtpOutcomes(d)
               ELSE {NoSubmission}) :
       LET status == CASE d.provider = "smtp" -> SmtpStatus(d, o)
                       [] d.provider = "stub" -> StubStatus
                       [] OTHER -> DesktopStatus
           after == Tried(d, o)
       IN  /\ Took(l, o.took)
           /\ IF Resent(status) /\ MayTryAgain(d)
                THEN /\ letters' = [letters EXCEPT ![l] = after]
                     /\ UNCHANGED <<entries, rowseq, auditRows, rowFault>>
                ELSE /\ letters' = [letters EXCEPT ![l] = Over(after, status)]
                     /\ Records(l)
  /\ UNCHANGED starts

---------------------------------------------------------------------------
(* The tools.                                                              *)

IsReady(switchedOn, verified) == switchedOn /\ verified
Valid(to, body) == to # {} /\ body

EmailSends(l) ==
  /\ letters[l].stage = "new"
  /\ \E switchedOn, verified, body \in BOOLEAN, to \in SUBSET People :
       LET d == [letters[l] EXCEPT !.road = "email", !.provider = "smtp",
                   !.agreed = TRUE, !.ready = IsReady(switchedOn, verified), !.to = to]
       IN  letters' = [letters EXCEPT ![l] =
             CASE ~d.ready        -> Over(d, "unavailable")
               [] ~Valid(to, body) -> Over(d, "invalid")
               [] OTHER            -> [d EXCEPT !.stage = "sending"]]
  /\ UNCHANGED <<arrived, entries, rowseq, auditRows, starts, rowFault>>

(* The worker thread runs to its end whether or not it is awaited.         *)
Delivers(l) ==
  LET d == letters[l] IN
  /\ d.stage \in {"sending", "abandoned"} /\ d.road = "email" /\ d.attempts = 0
  /\ \E o \in ServerOutcomes(d.to) :
       /\ Took(l, o.took)
       /\ letters' = [letters EXCEPT ![l] =
            IF d.stage = "abandoned" THEN Tried(d, o)
            ELSE Over(Tried(d, o),
                      IF Accepted(o, d.to) THEN "accepted" ELSE "unknown")]
  /\ UNCHANGED <<entries, rowseq, auditRows, starts, rowFault>>

AbandonsUnsent(l) ==
  /\ letters[l].stage = "sending" /\ letters[l].road = "email"
  /\ letters' = [letters EXCEPT ![l].stage = "abandoned", ![l].verdict = "unavailable"]
  /\ UNCHANGED <<arrived, entries, rowseq, auditRows, starts, rowFault>>

(* The tool executor stops waiting.                                        *)
Abandons(l) ==
  /\ letters[l].stage = "sending" /\ letters[l].road = "email"
  /\ letters' = [letters EXCEPT ![l].stage = "abandoned", ![l].verdict = "failed"]
  /\ UNCHANGED <<arrived, entries, rowseq, auditRows, starts, rowFault>>

(* Drafts, and the tools that only say they simulate.                      *)
Drafts(l) ==
  /\ letters[l].stage = "new"
  /\ letters' = [letters EXCEPT ![l] = Over([@ EXCEPT !.road = "local"], "drafted")]
  /\ UNCHANGED <<arrived, entries, rowseq, auditRows, starts, rowFault>>

Messages(l) ==
  /\ letters[l].stage = "new"
  /\ letters' = [letters EXCEPT ![l] = Over([@ EXCEPT !.road = "local"], "simulated")]
  /\ UNCHANGED <<arrived, entries, rowseq, auditRows, starts, rowFault>>

Notifies(l) ==
  /\ letters[l].stage = "new"
  /\ letters' = [letters EXCEPT ![l] = Over([@ EXCEPT !.road = "local"], "sent")]
  /\ UNCHANGED <<arrived, entries, rowseq, auditRows, starts, rowFault>>

---------------------------------------------------------------------------
(* The process ends; the numbering of the rows starts over.                *)
Restarts ==
  /\ starts < MaxStarts
  /\ starts' = starts + 1
  /\ letters' = [l \in Letters |->
       IF letters[l].stage \in {"sending", "abandoned"}
         THEN Over(letters[l], "lost") ELSE letters[l]]
  /\ entries' = Restored
  /\ rowseq' = 0
  /\ UNCHANGED <<arrived, auditRows, rowFault>>

OutboxNext ==
  \/ Restarts
  \/ HistoryClears
  \/ \E l \in Letters : \/ ManagerSends(l) \/ Attempts(l) \/ EmailSends(l)
                        \/ Delivers(l) \/ Abandons(l) \/ Drafts(l)
                        \/ Messages(l) \/ Notifies(l)

---------------------------------------------------------------------------
(* The outgoing messages, their copies and the history have their shape.   *)
OutboxTypeOK ==
  /\ \A l \in Letters : /\ letters[l].stage \in Stages
                        /\ letters[l].verdict \in Verdicts
                        /\ letters[l].to \subseteq People
                        /\ letters[l].attempts \in 0..MaxAttempts
  /\ arrived \in [Letters -> [People -> 0..MaxAttempts]]
  /\ \A i \in DOMAIN entries : entries[i].letter \in Letters
  /\ Len(entries) <= MaxEntries
  /\ rowseq \in 0..Cardinality(Letters)

(* Whoever is told that a message was refused, is a draft, is simulated or *)
(* was never submitted can rely on it: no copy has arrived and none will,  *)
(* however the attempts, the worker threads and restarts fall.             *)
UnsubmittedNeverArrives ==
  \A l \in Letters :
    letters[l].verdict \in {"refused", "pending", "unavailable", "invalid",
                           "drafted", "simulated"}
      => \A p \in People : arrived[l][p] = 0

(* No copy leaves without the approval the request needs, and only to the  *)
(* people it was addressed to.                                             *)
OnlyAgreedArrives ==
  \A l \in Letters, p \in People :
    arrived[l][p] > 0 => letters[l].agreed /\ p \in letters[l].to

(* "Sent" by SMTP and "accepted" mean accepted for every addressee.        *)
AcceptedReachesAll ==
  \A l \in Letters :
    (letters[l].provider = "smtp" /\ letters[l].verdict \in {"sent", "accepted"})
      => \A p \in letters[l].to : arrived[l][p] >= 1

(* A second copy has an excuse: each copy but the confirmed one belongs to *)
(* an attempt of which the client could not know that the server took it.  *)
(* The email tool never sends a second one.                                *)
CopiesAreExcused ==
  \A l \in Letters, p \in People :
    /\ letters[l].sure <= 1
    /\ arrived[l][p] <= letters[l].doubtful + letters[l].sure
    /\ letters[l].road = "email" => arrived[l][p] <= 1

(* While one process runs, every outcome of the manager is in the history  *)
(* once, and while no row write fails the rows are the entries.            *)
TrailIsComplete ==
  starts = 0 =>
    /\ rowseq = Cardinality({l \in Letters :
                   letters[l].road = "manager" /\ letters[l].stage = "over"})
    /\ \A i, j \in DOMAIN entries : i # j => entries[i].letter # entries[j].letter
    /\ ~rowFault =>
         /\ DOMAIN auditRows = {entries[i].row : i \in DOMAIN entries}
         /\ \A i \in DOMAIN entries : auditRows[entries[i].row] = entries[i].letter

(* What arrives was submitted and agreed to, a message reported as         *)
(* accepted reaches all of its recipients, copies come only from an        *)
(* attempt with an unknown outcome, and the history tells it all.          *)
OutboxSafe ==
  /\ OutboxTypeOK /\ UnsubmittedNeverArrives /\ OnlyAgreedArrives
  /\ AcceptedReachesAll /\ CopiesAreExcused /\ TrailIsComplete
=============================================================================

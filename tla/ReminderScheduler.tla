-------------------------- MODULE ReminderScheduler --------------------------
(***************************************************************************)
(* ReminderScheduler and ReminderTool (app/tools/reminder.py) over one     *)
(* SQLite table.  Everything runs on one event loop and check_due suspends *)
(* only while it awaits a callback, so a step is what happens between two  *)
(* such points: a tool call, the start of a pass up to its first callback, *)
(* the end of a callback up to the start of the next.                      *)
(***************************************************************************)
EXTENDS Naturals, FiniteSets

CONSTANTS
  MaxReminders,  \* bound on the reminders ever created
  Polls,         \* tasks that may be in check_due (production: the one loop)
  Horizon,       \* bound on the clock
  Period,        \* distance of two occurrences of a repeating reminder
  SnoozeTime,    \* how far a snooze reaches
  KeepCompleted, \* keep_completed
  MaxEdits,      \* bound on update, snooze and complete calls
  MaxStops       \* bound on stops and crashes

ASSUME ReminderAssumption ==
  /\ MaxReminders \in Nat \ {0} /\ Horizon \in Nat
  /\ Period \in Nat \ {0} /\ SnoozeTime \in Nat \ {0}
  /\ KeepCompleted \in Nat /\ MaxEdits \in Nat /\ MaxStops \in Nat
  /\ IsFiniteSet(Polls) /\ Polls # {}

VARIABLES
  now,        \* the clock
  phase,      \* of the process: running, stopped (loop cancelled) or dead
  created,    \* reminders are named by the order of their creation
  reminders,  \* self._reminders
  rows,       \* the reminders table
  poll,       \* of each task in check_due: what is left of due, the reminder
              \* whose callback it awaits, and whether the callback has notified
  notified,   \* one-shot notifications of each reminder since it was last set
  edits, stops

vars == <<now, phase, created, reminders, rows, poll, notified, edits, stops>>

Ids   == 1..MaxReminders
NoId  == 0
Never == Horizon + 1        \* no due_at, or one beyond the clock's bound
Idle  == [left |-> {}, at |-> NoId, sent |-> FALSE]

(* naive: due_at carries no time zone, as the goal parser's always does.   *)
Reminder ==
  [due: 0..Never, snoozed: 0..(Horizon + SnoozeTime), completed: BOOLEAN,
   repeats: BOOLEAN, naive: BOOLEAN]

TypeOK ==
  /\ now \in 0..Horizon /\ phase \in {"running", "stopped", "dead"}
  /\ created \in 0..MaxReminders
  /\ \A f \in {reminders, rows} :
       /\ DOMAIN f \subseteq 1..created
       /\ \A i \in DOMAIN f : f[i] \in Reminder
  /\ poll \in [Polls -> [left: SUBSET (1..created), at: 0..created,
                         sent: BOOLEAN]]
  /\ notified \in [Ids -> Nat]
  /\ edits \in 0..MaxEdits /\ stops \in 0..MaxStops

Init ==
  /\ now = 0 /\ phase = "stopped" /\ created = 0
  /\ reminders = [i \in {} |-> {}] /\ rows = [i \in {} |-> {}]
  /\ poll = [p \in Polls |-> Idle]
  /\ notified = [i \in Ids |-> 0]
  /\ edits = 0 /\ stops = 0

-----------------------------------------------------------------------------
(* The store *)

Put(f, i, r)  == [j \in DOMAIN f \cup {i} |-> IF j = i THEN r ELSE f[j]]
Drop(f, S)    == [j \in DOMAIN f \ S |-> f[j]]

(* The completed reminders older than the newest KeepCompleted.            *)
Pruned(f) ==
  LET done == {i \in DOMAIN f : f[i].completed}
  IN  {i \in done : Cardinality({j \in done : j > i}) >= KeepCompleted}

SaveReminder(i, r) ==
  LET saved == Put(reminders, i, r)
  IN  /\ reminders' = Drop(saved, Pruned(saved))
      /\ rows' = Drop(Put(rows, i, r), Pruned(saved))

-----------------------------------------------------------------------------
(* The tool's operations, by the reminder's owner *)

(* uuid4 gives a name no reminder has had.                                 *)
Create(due, repeats, naive) ==
  /\ phase # "dead" /\ created < MaxReminders
  /\ created' = created + 1
  /\ LET r == [due |-> due, snoozed |-> 0, completed |-> FALSE,
               repeats |-> repeats, naive |-> naive]
     IN  /\ reminders' = Put(reminders, created', r)
         /\ rows' = Put(rows, created', r)
  /\ UNCHANGED <<now, phase, poll, notified, edits, stops>>

Cancel(i) ==
  /\ phase # "dead" /\ i \in DOMAIN reminders
  /\ reminders' = Drop(reminders, {i}) /\ rows' = Drop(rows, {i})
  /\ UNCHANGED <<now, phase, created, poll, notified, edits, stops>>

(* A tool call that changes the reminder it finds and saves it.            *)
Edit(i, r) ==
  /\ phase # "dead" /\ edits < MaxEdits
  /\ SaveReminder(i, r)
  /\ edits' = edits + 1
  /\ UNCHANGED <<now, phase, created, poll, stops>>

Update(i, due, repeats, naive) ==
  /\ i \in DOMAIN reminders
  /\ Edit(i, [reminders[i] EXCEPT !.due = due, !.repeats = repeats,
                                  !.naive = naive])
  /\ notified' = [notified EXCEPT ![i] = 0]

Snooze(i) ==
  /\ i \in DOMAIN reminders
  /\ Edit(i, [reminders[i] EXCEPT !.snoozed = now + SnoozeTime])
  /\ UNCHANGED notified

Complete(i) ==
  /\ i \in DOMAIN reminders
  /\ Edit(i, [reminders[i] EXCEPT !.completed = TRUE])
  /\ UNCHANGED notified

-----------------------------------------------------------------------------
(* check_due *)

(* Mutant: a snooze that is never over. *)
DueUnlessSnoozed(i) ==
  ~reminders[i].completed /\ reminders[i].due <= now /\ reminders[i].snoozed = 0

(* One reminder's test in get_due_reminders. *)
Due(i) ==
  /\ ~reminders[i].completed
  /\ reminders[i].due <= now
  /\ reminders[i].snoozed <= now

(* get_due_reminders compares every due_at that is not completed with an   *)
(* aware clock: one naive due_at raises, for all of them.                  *)
Comparable ==
  \A i \in DOMAIN reminders : ~reminders[i].completed => ~reminders[i].naive

(* Mutant: check_due without _firing. *)
FiringNone == {}

(* self._firing, as the callbacks in flight leave it.                      *)
Firing == {poll[p].at : p \in Polls} \ {NoId}

(* The loop of check_due goes on to the next reminder of its list that     *)
(* nobody is firing, passing over the others before it.  The list is not   *)
(* looked at again.  Its order is the dict's: creation, or the random ids  *)
(* after a restart.                                                        *)
GoOn(p, left, firing) ==
  LET open == left \ firing
  IN  \/ /\ open = {}
         /\ poll' = [poll EXCEPT ![p] = Idle]
      \/ \E i \in open, later \in SUBSET (left \cap firing) :
           poll' = [poll EXCEPT ![p] =
                      [left |-> (open \ {i}) \cup later, at |-> i, sent |-> FALSE]]

(* A pass begins; one that raises or finds nothing changes nothing.        *)
CheckDue(p) ==
  /\ phase = "running" /\ poll[p] = Idle
  /\ Comparable
  /\ LET due == {i \in DOMAIN reminders : Due(i)}
     IN  due # {} /\ GoOn(p, due, Firing)
  /\ UNCHANGED <<now, phase, created, reminders, rows, notified, edits, stops>>

(* The callback's notification reaches the desktop.                        *)
Notify(p) ==
  /\ poll[p].at # NoId /\ ~poll[p].sent
  /\ poll' = [poll EXCEPT ![p].sent = TRUE]
  /\ LET i == poll[p].at
     IN  notified' = [notified EXCEPT ![i] =
           IF i \in DOMAIN reminders /\ ~reminders[i].repeats THEN @ + 1 ELSE @]
  /\ UNCHANGED <<now, phase, created, reminders, rows, edits, stops>>

(* Mutant: a next occurrence is computed from no due_at at all. *)
LaterAlways(due) == due + Period

Later(due) == IF due + Period > Horizon THEN Never ELSE due + Period

(* Mutant: check_due without its identity test after the callback. *)
SettleBlindly(i) ==
  LET r == IF i \in DOMAIN reminders THEN reminders[i]
           ELSE [due |-> 0, snoozed |-> 0, completed |-> FALSE,
                 repeats |-> FALSE, naive |-> FALSE]
  IN  IF r.repeats THEN SaveReminder(i, [r EXCEPT !.due = Later(@)])
      ELSE SaveReminder(i, [r EXCEPT !.completed = TRUE])

(* Mutant: a repeating reminder moved on in memory only. *)
SettleUnsaved(i) ==
  \/ i \notin DOMAIN reminders /\ UNCHANGED <<reminders, rows>>
  \/ /\ i \in DOMAIN reminders /\ ~reminders[i].repeats
     /\ SaveReminder(i, [reminders[i] EXCEPT !.completed = TRUE])
  \/ /\ i \in DOMAIN reminders /\ reminders[i].repeats
     /\ reminders' = Put(reminders, i, [reminders[i] EXCEPT !.due = Later(@)])
     /\ UNCHANGED rows

(* Mutant: a one-shot reminder left open after its callback. *)
SettleOpen(i) ==
  \/ /\ (i \in DOMAIN reminders => ~reminders[i].repeats)
     /\ UNCHANGED <<reminders, rows>>
  \/ /\ i \in DOMAIN reminders /\ reminders[i].repeats
     /\ SaveReminder(i, [reminders[i] EXCEPT !.due = Later(@)])

(* After the callback: a reminder cancelled meanwhile stays away, a one-   *)
(* shot one is completed, a repeating one moves to its next occurrence.    *)
Settle(i) ==
  \/ /\ i \notin DOMAIN reminders
     /\ UNCHANGED <<reminders, rows>>
  \/ /\ i \in DOMAIN reminders /\ ~reminders[i].repeats
     /\ SaveReminder(i, [reminders[i] EXCEPT !.completed = TRUE])
  \/ /\ i \in DOMAIN reminders /\ reminders[i].repeats
     /\ SaveReminder(i, [reminders[i] EXCEPT !.due = Later(@)])

(* The callback returns: it has notified, or the notification was denied,  *)
(* failed or raised, which _fire records and forgets.                      *)
Return(p) ==
  /\ poll[p].at # NoId
  /\ Settle(poll[p].at)
  /\ GoOn(p, poll[p].left, Firing \ {poll[p].at})
  /\ UNCHANGED <<now, phase, created, notified, edits, stops>>

-----------------------------------------------------------------------------
(* The process *)

Tick ==
  /\ now < Horizon /\ now' = now + 1
  /\ UNCHANGED <<phase, created, reminders, rows, poll, notified, edits, stops>>

(* start, or a new process: _rebuild and _prune_if_over_cap come first.    *)
Start ==
  /\ phase # "running" /\ phase' = "running"
  /\ IF phase = "dead"
     THEN /\ reminders' = Drop(rows, Pruned(rows))
          /\ rows' = Drop(rows, Pruned(rows))
     ELSE UNCHANGED <<reminders, rows>>
  /\ UNCHANGED <<now, created, poll, notified, edits, stops>>

(* stop cancels the loop inside its callback; finally clears _firing.      *)
Stop ==
  /\ phase = "running" /\ stops < MaxStops
  /\ phase' = "stopped" /\ poll' = [p \in Polls |-> Idle]
  /\ stops' = stops + 1
  /\ UNCHANGED <<now, created, reminders, rows, notified, edits>>

Crash ==
  /\ phase # "dead" /\ stops < MaxStops
  /\ phase' = "dead" /\ poll' = [p \in Polls |-> Idle]
  /\ reminders' = [i \in {} |-> {}]
  /\ stops' = stops + 1
  /\ UNCHANGED <<now, created, rows, notified, edits>>

Next ==
  \/ \E due \in 0..Never, repeats, naive \in BOOLEAN : Create(due, repeats, naive)
  \/ \E i \in Ids, due \in 0..Never, repeats, naive \in BOOLEAN :
       Update(i, due, repeats, naive)
  \/ \E i \in Ids : Cancel(i) \/ Snooze(i) \/ Complete(i)
  \/ \E p \in Polls : CheckDue(p) \/ Notify(p) \/ Return(p)
  \/ Tick \/ Start \/ Stop \/ Crash

Spec == Init /\ [][Next]_vars

(* The poll loop comes round, and a callback returns: every tool call has  *)
(* a timeout.  Clock, user and process owe nothing.                        *)
Fairness == \A p \in Polls : WF_vars(CheckDue(p)) /\ WF_vars(Return(p))
FairSpec == Spec /\ Fairness

-----------------------------------------------------------------------------
(* Properties *)

InFlight(i) == \E p \in Polls : poll[p].at = i

(* However tool calls, passes and callbacks interleave, between two steps  *)
(* the table holds exactly what the memory does (storage.py: "persists     *)
(* every mutation immediately"), so a crash loses no change that was made. *)
RowsMatch == phase # "dead" => rows = reminders

(* Two tasks in check_due at once never await callbacks of one reminder    *)
(* (_firing).                                                              *)
NoOverlap ==
  \A p, q \in Polls : p # q /\ poll[p].at # NoId => poll[p].at # poll[q].at

(* A one-shot reminder is notified once by each task in check_due, and     *)
(* once more only after a stop or crash in the middle of a callback: stale *)
(* lists, snoozes and pruning cannot make it ring again.                   *)
NotifiedOnce ==
  \A i \in DOMAIN reminders :
    ~reminders[i].repeats => notified[i] <= Cardinality(Polls) * (1 + stops)

(* A cancelled or pruned reminder never comes back, in memory or in the    *)
(* table: not from a callback that was in flight (check_due: "never        *)
(* resurrect a cancelled reminder"), nor from a restart.                   *)
GoneStaysGone ==
  [][\A i \in 1..created :
       /\ i \notin DOMAIN rows => i \notin DOMAIN rows'
       /\ i \notin DOMAIN rows => i \notin DOMAIN reminders']_vars

(* An occurrence that is due now: neither completed, snoozed nor naive.    *)
Ripe(i) ==
  /\ i \in DOMAIN reminders
  /\ LET r == reminders[i]
     IN  ~r.completed /\ ~r.naive /\ r.due <= now /\ r.snoozed <= now

(* While the loop runs, a reminder that is due gets its callback, unless   *)
(* it is put off or ended first, or a naive due_at makes every pass raise. *)
DueIsServed ==
  \A i \in Ids : Ripe(i) ~> (~Ripe(i) \/ InFlight(i) \/ phase # "running"
                             \/ ~Comparable)

(* The same without the exception, as the class says of itself: "The loop  *)
(* polls for due reminders and fires registered callbacks."                *)
LoopFires ==
  \A i \in Ids : Ripe(i) ~> (~Ripe(i) \/ InFlight(i) \/ phase # "running")

(* No callback starts for a reminder that has been cancelled (the test     *)
(* test_cancelled_reminder_cannot_fire).                                   *)
CancelledCannotFire ==
  [][\A p \in Polls :
       LET i == poll'[p].at
       IN  i # NoId /\ poll[p].at # i => i \in DOMAIN reminders]_vars

(* Table and memory agree whenever the loop runs, no two passes await the  *)
(* same reminder, and no late callback or restart brings a reminder back.  *)
ReminderSafe ==
  /\ [](/\ TypeOK /\ RowsMatch /\ NoOverlap)
  /\ GoneStaysGone
=============================================================================

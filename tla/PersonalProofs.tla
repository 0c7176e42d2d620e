-------------------------- MODULE PersonalProofs ---------------------------
(* What no interleaving of passes, callbacks, tool calls, stops and crashes *)
(* does to the reminder store, for any number of reminders and callers, and *)
(* what no failed save does to the notes, tasks, contacts and events.       *)
EXTENDS ReminderScheduler, PersonalStores, FiniteSetTheorems, TLAPS

(* A process that does not run its loop awaits no callback.                 *)
LoopOnly == phase # "running" => poll = [p \in Polls |-> Idle]

(* A dead process, too, remembers nothing the table does not hold.          *)
Within == DOMAIN reminders \subseteq DOMAIN rows

Inv == TypeOK /\ RowsMatch /\ Within /\ LoopOnly /\ NoOverlap

Calls(n) == [left: SUBSET (1..n), at: 0..n, sent: BOOLEAN]

StoreOK == /\ DOMAIN reminders \subseteq 1..created
           /\ DOMAIN rows \subseteq 1..created
           /\ \A i \in DOMAIN reminders : reminders[i] \in Reminder
           /\ \A i \in DOMAIN rows : rows[i] \in Reminder

-----------------------------------------------------------------------------
(* The store *)

LEMMA StoreTyped == TypeOK => StoreOK
<1> USE DEF TypeOK, StoreOK
<1> QED  OBVIOUS

LEMMA StoreTypes ==
  ASSUME StoreOK
  PROVE  \A f \in {reminders, rows} :
           /\ DOMAIN f \subseteq 1..created
           /\ \A i \in DOMAIN f : f[i] \in Reminder
BY DEF StoreOK

(* Saving a well-typed reminder leaves a well-typed store with nothing in   *)
(* it that was not there, and keeps memory and table equal.                 *)
LEMMA SaveTypes ==
  ASSUME StoreOK, UNCHANGED created, NEW i \in 1..created,
         NEW r \in Reminder, SaveReminder(i, r)
  PROVE  StoreOK'
<1>1. /\ DOMAIN reminders' \subseteq DOMAIN reminders \cup {i}
      /\ \A j \in DOMAIN reminders' :
           reminders'[j] = r \/ (j \in DOMAIN reminders /\ reminders'[j] = reminders[j])
  BY DEF SaveReminder, Put, Drop
<1>2. /\ DOMAIN rows' \subseteq DOMAIN rows \cup {i}
      /\ \A j \in DOMAIN rows' :
           rows'[j] = r \/ (j \in DOMAIN rows /\ rows'[j] = rows[j])
  BY DEF SaveReminder, Put, Drop
<1> QED  BY <1>1, <1>2 DEF StoreOK

LEMMA SaveKeepsMatch ==
  ASSUME NEW i, NEW r, rows = reminders, SaveReminder(i, r)
  PROVE  /\ rows' = reminders'
         /\ DOMAIN rows' \subseteq DOMAIN rows \cup {i}
<1>1. rows' = reminders'  BY DEF SaveReminder
<1>2. DOMAIN reminders' \subseteq DOMAIN reminders \cup {i}
  BY DEF SaveReminder, Put, Drop
<1> QED  BY <1>1, <1>2

LEMMA LaterTypes == \A due \in 0..Never : Later(due) \in 0..Never
BY ReminderAssumption DEF Later, Never

LEMMA SettleTypes ==
  ASSUME StoreOK, UNCHANGED created, NEW i, Settle(i)
  PROVE  StoreOK'
<1>1. CASE UNCHANGED <<reminders, rows>>
  BY <1>1 DEF StoreOK
<1>2. CASE i \in DOMAIN reminders
           /\ SaveReminder(i, [reminders[i] EXCEPT !.completed = TRUE])
  <2>1. i \in 1..created /\ reminders[i] \in Reminder
    BY <1>2 DEF StoreOK
  <2>2. [reminders[i] EXCEPT !.completed = TRUE] \in Reminder
    BY <2>1 DEF Reminder
  <2> QED  BY <1>2, <2>1, <2>2, SaveTypes
<1>3. CASE i \in DOMAIN reminders
           /\ SaveReminder(i, [reminders[i] EXCEPT !.due = Later(@)])
  <2>1. i \in 1..created /\ reminders[i] \in Reminder
    BY <1>3 DEF StoreOK
  <2>2. reminders[i].due \in 0..Never  BY <2>1 DEF Reminder
  <2>3. Later(reminders[i].due) \in 0..Never  BY <2>2, LaterTypes
  <2>4. [reminders[i] EXCEPT !.due = Later(@)] \in Reminder
    BY <2>1, <2>3 DEF Reminder
  <2> QED  BY <1>3, <2>1, <2>4, SaveTypes
<1> QED  BY <1>1, <1>2, <1>3 DEF Settle

(* The code after a callback stores nothing that is not there any more.     *)
LEMMA SettleKeepsMatch ==
  ASSUME NEW i, rows = reminders, Settle(i)
  PROVE  rows' = reminders' /\ DOMAIN rows' \subseteq DOMAIN rows
<1>1. CASE UNCHANGED <<reminders, rows>>  BY <1>1
<1>2. CASE i \in DOMAIN reminders
           /\ SaveReminder(i, [reminders[i] EXCEPT !.completed = TRUE])
  BY <1>2, SaveKeepsMatch
<1>3. CASE i \in DOMAIN reminders
           /\ SaveReminder(i, [reminders[i] EXCEPT !.due = Later(@)])
  BY <1>3, SaveKeepsMatch
<1> QED  BY <1>1, <1>2, <1>3 DEF Settle

-----------------------------------------------------------------------------
(* The callers of check_due *)

(* Going on, a caller takes a reminder of its list that nobody is firing.   *)
LEMMA GoOnTypes ==
  ASSUME created \in Nat, poll \in [Polls -> Calls(created)], NEW p \in Polls,
         NEW left \in SUBSET (1..created), NEW firing, GoOn(p, left, firing)
  PROVE  /\ poll' \in [Polls -> Calls(created)]
         /\ \A q \in Polls \ {p} : poll'[q] = poll[q]
         /\ poll'[p].at \notin firing \/ poll'[p].at = NoId
<1>1. CASE poll' = [poll EXCEPT ![p] = Idle]
  <2>1. Idle \in Calls(created)  BY DEF Idle, Calls, NoId
  <2>2. Idle.at = NoId  BY DEF Idle
  <2> QED  BY <1>1, <2>1, <2>2
<1>2. CASE \E i \in left \ firing, later \in SUBSET (left \cap firing) :
             poll' = [poll EXCEPT ![p] =
                        [left |-> ((left \ firing) \ {i}) \cup later,
                         at |-> i, sent |-> FALSE]]
  <2>1. PICK i \in left \ firing, later \in SUBSET (left \cap firing) :
             poll' = [poll EXCEPT ![p] =
                        [left |-> ((left \ firing) \ {i}) \cup later,
                         at |-> i, sent |-> FALSE]]
    BY <1>2
  <2>2. i \in 0..created /\ i \notin firing  BY <2>1
  <2>3. ((left \ firing) \ {i}) \cup later \in SUBSET (1..created)  BY <2>1
  <2>4. [left |-> ((left \ firing) \ {i}) \cup later, at |-> i, sent |-> FALSE]
          \in Calls(created)
    BY <2>2, <2>3 DEF Calls
  <2> QED  BY <2>1, <2>2, <2>4
<1> QED  BY <1>1, <1>2 DEF GoOn

(* So if the others' reminders are all in firing, no two share one.         *)
LEMMA GoOnKeepsApart ==
  ASSUME created \in Nat, poll \in [Polls -> Calls(created)], NoOverlap,
         NEW p \in Polls, NEW left \in SUBSET (1..created), NEW firing,
         GoOn(p, left, firing),
         \A q \in Polls \ {p} : poll[q].at # NoId => poll[q].at \in firing
  PROVE  NoOverlap'
<1> SUFFICES ASSUME NEW q \in Polls, NEW r \in Polls, q # r,
                    poll'[q].at # NoId, poll'[q].at = poll'[r].at
             PROVE  FALSE
  BY DEF NoOverlap
<1>1. /\ \A s \in Polls \ {p} : poll'[s] = poll[s]
      /\ poll'[p].at \notin firing \/ poll'[p].at = NoId
  BY GoOnTypes
<1>2. CASE q = p  BY <1>1, <1>2
<1>3. CASE r = p  BY <1>1, <1>3
<1>4. CASE q # p /\ r # p  BY <1>1, <1>4 DEF NoOverlap
<1> QED  BY <1>2, <1>3, <1>4

-----------------------------------------------------------------------------
(* One step *)

Scalars ==
  /\ now \in 0..Horizon /\ phase \in {"running", "stopped", "dead"}
  /\ created \in 0..MaxReminders /\ notified \in [Ids -> Nat]
  /\ edits \in 0..MaxEdits /\ stops \in 0..MaxStops

(* No name in use comes back to a store that had dropped it.                *)
NothingBack ==
  \A i \in 1..created :
    /\ i \notin DOMAIN rows => i \notin DOMAIN rows'
    /\ i \notin DOMAIN rows => i \notin DOMAIN reminders'

LEMMA TypeParts ==
  TypeOK <=> Scalars /\ StoreOK /\ poll \in [Polls -> Calls(created)]
<1>1. StoreOK <=> \A f \in {reminders, rows} :
                   /\ DOMAIN f \subseteq 1..created
                   /\ \A i \in DOMAIN f : f[i] \in Reminder
  BY DEF StoreOK
<1> QED  BY <1>1 DEF TypeOK, Scalars, Calls

LEMMA TypePartsNext ==
  Scalars' /\ StoreOK' /\ poll' \in [Polls -> Calls(created')] => TypeOK'
<1>1. StoreOK' => \A f \in {reminders', rows'} :
                   /\ DOMAIN f \subseteq 1..created'
                   /\ \A i \in DOMAIN f : f[i] \in Reminder
  BY DEF StoreOK
<1> QED  BY <1>1 DEF TypeOK, Scalars, Calls

(* A caller that awaits a callback belongs to a running loop.               *)
LEMMA AwaitsWhileRunning ==
  ASSUME Inv, NEW p \in Polls, poll[p].at # NoId
  PROVE  phase = "running" /\ rows = reminders
<1>1. phase = "running"  BY DEF Inv, LoopOnly, Idle
<1> QED  BY <1>1 DEF Inv, RowsMatch, Within

LEMMA EditStep ==
  ASSUME Inv, NEW i \in DOMAIN reminders, NEW r \in Reminder, Edit(i, r),
         notified' \in [Ids -> Nat]
  PROVE  Inv' /\ NothingBack
<1>1. Scalars /\ StoreOK /\ poll \in [Polls -> Calls(created)]
  BY TypeParts DEF Inv
<1>2. rows = reminders  BY DEF Inv, RowsMatch, Edit
<1>3. StoreOK'  BY <1>1, SaveTypes DEF Edit, StoreOK
<1>4. Scalars'  BY <1>1, ReminderAssumption DEF Scalars, Edit
<1>5. TypeOK'  BY <1>1, <1>3, <1>4, TypePartsNext DEF Edit
<1>6. rows' = reminders' /\ DOMAIN rows' \subseteq DOMAIN rows
  BY <1>2, SaveKeepsMatch DEF Edit
<1>7. LoopOnly' /\ NoOverlap'  BY DEF Inv, LoopOnly, NoOverlap, Edit
<1> QED  BY <1>5, <1>6, <1>7 DEF Inv, RowsMatch, Within, NothingBack

LEMMA UpdateStep ==
  ASSUME Inv, NEW i \in Ids, NEW due \in 0..Never, NEW repeats \in BOOLEAN,
         NEW naive \in BOOLEAN, Update(i, due, repeats, naive)
  PROVE  Inv' /\ NothingBack
<1>1. i \in DOMAIN reminders /\ reminders[i] \in Reminder
  BY StoreTyped DEF Inv, Update, StoreOK
<1>2. [reminders[i] EXCEPT !.due = due, !.repeats = repeats, !.naive = naive]
        \in Reminder
  BY <1>1 DEF Reminder
<1>3. notified' \in [Ids -> Nat]  BY DEF Inv, TypeOK, Update
<1> QED  BY <1>1, <1>2, <1>3, EditStep DEF Update

LEMMA SnoozeStep ==
  ASSUME Inv, NEW i \in Ids, Snooze(i)
  PROVE  Inv' /\ NothingBack
<1>1. i \in DOMAIN reminders /\ reminders[i] \in Reminder
  BY StoreTyped DEF Inv, Snooze, StoreOK
<1>2. now + SnoozeTime \in 0..(Horizon + SnoozeTime)
  BY ReminderAssumption DEF Inv, TypeOK
<1>3. [reminders[i] EXCEPT !.snoozed = now + SnoozeTime] \in Reminder
  BY <1>1, <1>2 DEF Reminder
<1>4. notified' \in [Ids -> Nat]  BY DEF Inv, TypeOK, Snooze
<1> QED  BY <1>1, <1>3, <1>4, EditStep DEF Snooze

LEMMA CompleteStep ==
  ASSUME Inv, NEW i \in Ids, Complete(i)
  PROVE  Inv' /\ NothingBack
<1>1. i \in DOMAIN reminders /\ reminders[i] \in Reminder
  BY StoreTyped DEF Inv, Complete, StoreOK
<1>2. [reminders[i] EXCEPT !.completed = TRUE] \in Reminder
  BY <1>1 DEF Reminder
<1>3. notified' \in [Ids -> Nat]  BY DEF Inv, TypeOK, Complete
<1> QED  BY <1>1, <1>2, <1>3, EditStep DEF Complete

LEMMA CancelStep ==
  ASSUME Inv, NEW i \in Ids, Cancel(i)
  PROVE  Inv' /\ NothingBack
<1>1. Scalars /\ StoreOK /\ poll \in [Polls -> Calls(created)]
  BY TypeParts DEF Inv
<1>2. rows = reminders  BY DEF Inv, RowsMatch, Cancel
<1>3. rows' = reminders' /\ DOMAIN rows' \subseteq DOMAIN rows
  BY <1>2 DEF Cancel, Drop
<1>4. StoreOK'  BY <1>1 DEF StoreOK, Cancel, Drop
<1>5. TypeOK'  BY <1>1, <1>4, TypePartsNext DEF Cancel, Scalars
<1>6. LoopOnly' /\ NoOverlap'  BY DEF Inv, LoopOnly, NoOverlap, Cancel
<1> QED  BY <1>3, <1>5, <1>6 DEF Inv, RowsMatch, Within, NothingBack

LEMMA CreateStep ==
  ASSUME Inv, NEW due \in 0..Never, NEW repeats \in BOOLEAN,
         NEW naive \in BOOLEAN, Create(due, repeats, naive)
  PROVE  Inv' /\ NothingBack
<1>1. Scalars /\ StoreOK /\ poll \in [Polls -> Calls(created)]
  BY TypeParts DEF Inv
<1>2. rows = reminders  BY DEF Inv, RowsMatch, Create
<1>3. created \in Nat /\ created' = created + 1 /\ created' \in 0..MaxReminders
  BY <1>1, ReminderAssumption DEF Scalars, Create
<1>4. PICK r \in Reminder : reminders' = Put(reminders, created', r)
                            /\ rows' = Put(rows, created', r)
  <2>1. 0 \in 0..(Horizon + SnoozeTime)  BY ReminderAssumption
  <2>2. [due |-> due, snoozed |-> 0, completed |-> FALSE,
         repeats |-> repeats, naive |-> naive] \in Reminder
    BY <2>1 DEF Reminder
  <2> QED  BY <2>2 DEF Create
<1>5. /\ rows' = reminders' /\ DOMAIN rows' = DOMAIN rows \cup {created'}
      /\ DOMAIN reminders' = DOMAIN reminders \cup {created'}
  BY <1>2, <1>4 DEF Put
<1>6. StoreOK'
  <2>1. \A j \in DOMAIN rows' :
          rows'[j] = r \/ (j \in DOMAIN rows /\ rows'[j] = rows[j])
    BY <1>4 DEF Put
  <2>2. DOMAIN rows' \subseteq 1..created'
    BY <1>1, <1>3, <1>5 DEF StoreOK
  <2> QED  BY <1>1, <1>4, <1>5, <2>1, <2>2 DEF StoreOK
<1>7. poll' \in [Polls -> Calls(created')]
  <2>1. Calls(created) \subseteq Calls(created')
    BY <1>3 DEF Calls
  <2> QED  BY <1>1, <2>1 DEF Create
<1>8. Scalars'  BY <1>1, <1>3 DEF Scalars, Create
<1>9. LoopOnly' /\ NoOverlap'  BY DEF Inv, LoopOnly, NoOverlap, Create
<1>10. NothingBack  BY <1>3, <1>5 DEF NothingBack
<1> QED  BY <1>5, <1>6, <1>7, <1>8, <1>9, <1>10, TypePartsNext DEF Inv, RowsMatch, Within

LEMMA CheckDueStep ==
  ASSUME Inv, NEW p \in Polls, CheckDue(p)
  PROVE  Inv' /\ NothingBack
<1>1. Scalars /\ StoreOK /\ poll \in [Polls -> Calls(created)]
  BY TypeParts DEF Inv
<1>2. created \in Nat  BY <1>1, ReminderAssumption DEF Scalars
<1>3. PICK due \in SUBSET (1..created) : GoOn(p, due, Firing)
  BY <1>1 DEF CheckDue, StoreOK
<1>4. poll' \in [Polls -> Calls(created)]  BY <1>1, <1>2, <1>3, GoOnTypes
<1>5. NoOverlap'
  <2>1. \A q \in Polls \ {p} : poll[q].at # NoId => poll[q].at \in Firing
    BY DEF Firing
  <2> QED  BY <1>1, <1>2, <1>3, <2>1, GoOnKeepsApart DEF Inv
<1>6. TypeOK'
  BY <1>1, <1>4, TypePartsNext DEF Scalars, StoreOK, CheckDue
<1>7. LoopOnly'  BY DEF LoopOnly, CheckDue
<1> QED  BY <1>5, <1>6, <1>7 DEF Inv, RowsMatch, Within, NothingBack, CheckDue

LEMMA NotifyStep ==
  ASSUME Inv, NEW p \in Polls, Notify(p)
  PROVE  Inv' /\ NothingBack
<1>1. Scalars /\ StoreOK /\ poll \in [Polls -> Calls(created)]
  BY TypeParts DEF Inv
<1>2. poll[p] \in Calls(created)
      /\ poll' = [poll EXCEPT ![p] = [poll[p] EXCEPT !.sent = TRUE]]
  BY <1>1 DEF Notify
<1>3. [poll[p] EXCEPT !.sent = TRUE] \in Calls(created)
      /\ [poll[p] EXCEPT !.sent = TRUE].at = poll[p].at
  BY <1>2 DEF Calls
<1>4. poll' \in [Polls -> Calls(created)]
      /\ \A q \in Polls : poll'[q].at = poll[q].at
  BY <1>1, <1>2, <1>3
<1>5. notified' \in [Ids -> Nat]
  <2>1. notified \in [Ids -> Nat] /\ \A i \in Ids : notified[i] + 1 \in Nat
    BY <1>1 DEF Scalars
  <2> QED  BY <2>1 DEF Notify
<1>6. TypeOK'
  BY <1>1, <1>4, <1>5, TypePartsNext DEF Scalars, StoreOK, Notify
<1>7. NoOverlap'  BY <1>4 DEF Inv, NoOverlap
<1>8. phase = "running"  BY AwaitsWhileRunning DEF Notify
<1> QED  BY <1>6, <1>7, <1>8 DEF Inv, RowsMatch, Within, LoopOnly, NothingBack, Notify

LEMMA ReturnStep ==
  ASSUME Inv, NEW p \in Polls, Return(p)
  PROVE  Inv' /\ NothingBack
<1>1. Scalars /\ StoreOK /\ poll \in [Polls -> Calls(created)]
  BY TypeParts DEF Inv
<1>2. created \in Nat  BY <1>1, ReminderAssumption DEF Scalars
<1>3. phase = "running" /\ rows = reminders
  BY AwaitsWhileRunning DEF Return
<1>4. rows' = reminders' /\ DOMAIN rows' \subseteq DOMAIN rows
  BY <1>3, SettleKeepsMatch DEF Return
<1>5. StoreOK'  BY <1>1, SettleTypes DEF Return
<1>6. poll[p].left \in SUBSET (1..created)  BY <1>1 DEF Calls
<1>7. poll' \in [Polls -> Calls(created)]
  BY <1>1, <1>2, <1>6, GoOnTypes DEF Return
<1>8. NoOverlap'
  <2>1. \A q \in Polls \ {p} :
          poll[q].at # NoId => poll[q].at \in Firing \ {poll[p].at}
    BY DEF Inv, NoOverlap, Firing, Return
  <2> QED  BY <1>1, <1>2, <1>6, <2>1, GoOnKeepsApart DEF Inv, Return
<1>9. TypeOK'
  BY <1>1, <1>5, <1>7, TypePartsNext DEF Scalars, Return
<1>10. LoopOnly'  BY <1>3 DEF LoopOnly, Return
<1> QED  BY <1>4, <1>8, <1>9, <1>10 DEF Inv, RowsMatch, Within, NothingBack

LEMMA StartStep ==
  ASSUME Inv, Start
  PROVE  Inv' /\ NothingBack
<1>1. Scalars /\ StoreOK /\ poll \in [Polls -> Calls(created)]
  BY TypeParts DEF Inv
<1>2. StoreOK' /\ rows' = reminders' /\ DOMAIN rows' \subseteq DOMAIN rows
  <2>1. CASE phase = "dead"
    BY <1>1, <2>1 DEF Start, StoreOK, Drop
  <2>2. CASE phase # "dead"
    BY <1>1, <2>2 DEF Start, StoreOK, Inv, RowsMatch
  <2> QED  BY <2>1, <2>2
<1>3. Scalars' /\ LoopOnly' /\ NoOverlap'
  BY <1>1 DEF Scalars, Inv, LoopOnly, NoOverlap, Start
<1>4. TypeOK'  BY <1>1, <1>2, <1>3, TypePartsNext DEF Start
<1> QED  BY <1>2, <1>3, <1>4 DEF Inv, RowsMatch, Within, NothingBack

LEMMA StopStep ==
  ASSUME Inv, Stop \/ Crash
  PROVE  Inv' /\ NothingBack
<1>1. Scalars /\ StoreOK /\ poll \in [Polls -> Calls(created)]
  BY TypeParts DEF Inv
<1>2. created \in Nat /\ created' = created /\ rows' = rows
  BY <1>1, ReminderAssumption DEF Scalars, Stop, Crash
<1>3. Idle \in Calls(created)  BY <1>2 DEF Idle, Calls, NoId
<1>4. poll' = [p \in Polls |-> Idle]  BY DEF Stop, Crash
<1>5. StoreOK'
  <2>1. CASE Stop  BY <1>1, <2>1 DEF StoreOK, Stop
  <2>2. CASE Crash
    <3>1. DOMAIN reminders' = {}  BY <2>2 DEF Crash
    <3> QED  BY <1>1, <1>2, <3>1 DEF StoreOK
  <2> QED  BY <2>1, <2>2
<1>6. Scalars'  BY <1>1, ReminderAssumption DEF Scalars, Stop, Crash
<1>7. TypeOK'  BY <1>2, <1>3, <1>4, <1>5, <1>6, TypePartsNext
<1>8. LoopOnly' /\ NoOverlap'  BY <1>4 DEF LoopOnly, NoOverlap, Idle
<1>9. RowsMatch'
  <2>1. CASE Stop  BY <2>1 DEF Inv, RowsMatch, Stop
  <2>2. CASE Crash  BY <2>2 DEF RowsMatch, Crash
  <2> QED  BY <2>1, <2>2
<1>10. NothingBack
  <2>1. CASE Stop  BY <2>1 DEF NothingBack, Inv, RowsMatch, Stop
  <2>2. CASE Crash
    <3>1. DOMAIN reminders' = {}  BY <2>2 DEF Crash
    <3> QED  BY <1>2, <3>1 DEF NothingBack
  <2> QED  BY <2>1, <2>2
<1>11. Within'  BY DEF Inv, Within, Stop, Crash
<1> QED  BY <1>7, <1>8, <1>9, <1>10, <1>11 DEF Inv

LEMMA IdleStep ==
  ASSUME Inv, Tick \/ UNCHANGED vars
  PROVE  Inv' /\ NothingBack
<1>1. Scalars /\ StoreOK /\ poll \in [Polls -> Calls(created)]
  BY TypeParts DEF Inv
<1>2. UNCHANGED <<phase, created, reminders, rows, poll, notified, edits, stops>>
  BY DEF Tick, vars
<1>3. now' \in 0..Horizon
  BY <1>1, ReminderAssumption DEF Scalars, Tick, vars
<1>4. TypeOK'  BY <1>1, <1>2, <1>3, TypePartsNext DEF Scalars, StoreOK
<1> QED  BY <1>2, <1>4 DEF Inv, RowsMatch, Within, LoopOnly, NoOverlap, NothingBack

LEMMA NextStep ==
  ASSUME Inv, [Next]_vars
  PROVE  Inv' /\ NothingBack
<1>1. CASE \E due \in 0..Never, repeats, naive \in BOOLEAN :
             Create(due, repeats, naive)
  BY <1>1, CreateStep
<1>2. CASE \E i \in Ids, due \in 0..Never, repeats, naive \in BOOLEAN :
             Update(i, due, repeats, naive)
  BY <1>2, UpdateStep
<1>3. CASE \E i \in Ids : Cancel(i) \/ Snooze(i) \/ Complete(i)
  BY <1>3, CancelStep, SnoozeStep, CompleteStep
<1>4. CASE \E p \in Polls : CheckDue(p) \/ Notify(p) \/ Return(p)
  BY <1>4, CheckDueStep, NotifyStep, ReturnStep
<1>5. CASE Start  BY <1>5, StartStep
<1>6. CASE Stop \/ Crash  BY <1>6, StopStep
<1>7. CASE Tick \/ UNCHANGED vars  BY <1>7, IdleStep
<1> QED  BY <1>1, <1>2, <1>3, <1>4, <1>5, <1>6, <1>7 DEF Next

-----------------------------------------------------------------------------
(* The theorems *)

LEMMA InitInv == Init => Inv
<1> SUFFICES ASSUME Init PROVE Inv  OBVIOUS
<1>1. DOMAIN reminders = {} /\ DOMAIN rows = {} /\ rows = reminders
  BY DEF Init
<1>2. StoreOK  BY <1>1 DEF StoreOK
<1>3. Scalars  BY ReminderAssumption DEF Init, Scalars
<1>4. Idle \in Calls(created)  BY ReminderAssumption DEF Init, Idle, Calls, NoId
<1>5. TypeOK  BY <1>2, <1>3, <1>4, TypeParts DEF Init
<1>6. LoopOnly /\ NoOverlap  BY DEF Init, LoopOnly, NoOverlap, Idle
<1> QED  BY <1>1, <1>5, <1>6 DEF Inv, RowsMatch, Within

(* The invariant behind the theorems below is inductive: every state of     *)
(* every run of the scheduler satisfies it.                                 *)
THEOREM Invariance == Spec => []Inv
<1>1. Inv /\ [Next]_vars => Inv'  BY NextStep
<1> QED  BY InitInv, <1>1, PTL DEF Spec

(* Every reachable state is well typed: in particular a repeating reminder  *)
(* keeps a due time and no list names a reminder that was never created.    *)
THEOREM TypeCorrect == Spec => []TypeOK
<1>1. Inv => TypeOK  BY DEF Inv
<1> QED  BY <1>1, Invariance, PTL

(* Between two steps the table holds what the memory does, whatever tool    *)
(* calls came in while callbacks were awaited (save_reminder after every    *)
(* change, also after the await of check_due).                              *)
THEOREM TableIsCurrent == Spec => []RowsMatch
<1>1. Inv => RowsMatch  BY DEF Inv
<1> QED  BY <1>1, Invariance, PTL

(* _firing keeps any number of overlapping calls of check_due from awaiting *)
(* callbacks of one reminder at once.                                       *)
THEOREM FiringExcludes == Spec => []NoOverlap
<1>1. Inv => NoOverlap  BY DEF Inv
<1> QED  BY <1>1, Invariance, PTL

(* A reminder that was cancelled or pruned is never stored again: the test  *)
(* after the callback ("never resurrect a cancelled reminder") suffices.    *)
THEOREM NeverResurrected == Spec => GoneStaysGone
<1>1. Inv /\ [Next]_vars =>
        [\A i \in 1..created :
           /\ i \notin DOMAIN rows => i \notin DOMAIN rows'
           /\ i \notin DOMAIN rows => i \notin DOMAIN reminders']_vars
  BY NextStep DEF NothingBack
<1> QED  BY <1>1, Invariance, PTL DEF Spec, GoneStaysGone

(* Table, memory, overlapping passes and reminders that have gone: all of    *)
(* it, for any number of reminders, callers, stops and crashes.              *)
THEOREM ReminderIsSafe == Spec => ReminderSafe
BY TypeCorrect, TableIsCurrent, FiringExcludes, NeverResurrected, PTL
   DEF ReminderSafe

-----------------------------------------------------------------------------
(* How often a one-shot reminder rings                                       *)

(* A stop or crash can cost each caller of check_due one notification: it    *)
(* forgets the callback whose notification has already been shown.           *)
Budget == Cardinality(Polls) * stops

(* The callers that may still notify i, and those whose callback for i has.  *)
Pending(i) ==
  {p \in Polls : i \in poll[p].left \/ (poll[p].at = i /\ ~poll[p].sent)}
Sent(i) == {p \in Polls : poll[p].at = i /\ poll[p].sent}

(* What has been notified is paid for by callers that cannot notify again;   *)
(* a reminder that can still become due has none beyond the callback that    *)
(* is about to complete it.                                                  *)
Rationed(i) ==
  /\ notified[i] <= Budget + Cardinality(Polls \ Pending(i))
  /\ ~rows[i].completed => notified[i] <= Budget + Cardinality(Sent(i))

Counted ==
  /\ \A i \in DOMAIN rows : ~rows[i].repeats => Rationed(i)
  /\ \A i \in Ids : i > created => notified[i] = 0
  /\ \A p \in Polls : poll[p].at \notin poll[p].left

LEMMA Callers ==
  ASSUME NEW S \in SUBSET Polls
  PROVE  /\ IsFiniteSet(S) /\ Cardinality(S) \in Nat
         /\ Cardinality(S) <= Cardinality(Polls)
BY ReminderAssumption, FS_Subset, FS_CardinalityType

LEMMA FewerCallers ==
  ASSUME NEW S \in SUBSET Polls, NEW T \in SUBSET S
  PROVE  Cardinality(T) <= Cardinality(S)
<1>1. IsFiniteSet(S)  BY Callers
<1> QED  BY <1>1, FS_Subset

LEMMA OneMoreCaller ==
  ASSUME NEW S \in SUBSET Polls, NEW p \in Polls \ S
  PROVE  Cardinality(S \cup {p}) = Cardinality(S) + 1
<1>1. IsFiniteSet(S)  BY Callers
<1> QED  BY <1>1, FS_AddElement

LEMMA BudgetTypes ==
  ASSUME Scalars
  PROVE  /\ Cardinality(Polls) \in Nat /\ Budget \in Nat
         /\ stops' = stops => Budget' = Budget
         /\ stops' = stops + 1 => Budget' = Budget + Cardinality(Polls)
<1>1. Cardinality(Polls) \in Nat  BY Callers
<1>2. stops \in Nat  BY ReminderAssumption DEF Scalars
<1>3. ASSUME NEW n \in Nat, NEW k \in Nat
      PROVE  n * k \in Nat /\ n * (k + 1) = n * k + n
  OBVIOUS
<1>4. Budget \in Nat  BY <1>1, <1>2, <1>3 DEF Budget
<1>5. stops' = stops => Budget' = Budget  BY DEF Budget
<1>6. ASSUME stops' = stops + 1  PROVE Budget' = Budget + Cardinality(Polls)
  <2>1. Budget' = Cardinality(Polls) * (stops + 1)  BY <1>6 DEF Budget
  <2> QED  BY <1>1, <1>2, <1>3, <2>1 DEF Budget
<1> QED  BY <1>1, <1>4, <1>5, <1>6

(* A caller about to notify i is not one whose callback has done so.         *)
LEMMA PendingNotSent ==
  ASSUME Counted, NEW i
  PROVE  /\ Pending(i) \in SUBSET Polls /\ Sent(i) \in SUBSET Polls
         /\ Sent(i) \subseteq Polls \ Pending(i)
BY DEF Counted, Pending, Sent

LEMMA NotifiedTypes ==
  ASSUME Inv, NEW i \in DOMAIN rows
  PROVE  i \in Ids /\ i \in 1..created /\ notified[i] \in Nat
         /\ rows[i] \in Reminder
BY TypeParts, ReminderAssumption DEF Inv, Scalars, StoreOK, Ids

(* The steps that notify nobody and make nobody about to.                    *)
LEMMA QuietStep ==
  ASSUME Inv, Counted, UNCHANGED <<stops, created, notified>>,
         DOMAIN rows' \subseteq DOMAIN rows,
         \A i \in DOMAIN rows' : ~rows'[i].repeats =>
           /\ ~rows[i].repeats
           /\ Pending(i)' \subseteq Pending(i)
           /\ ~rows'[i].completed =>
                ~rows[i].completed /\ Sent(i) \subseteq Sent(i)',
         \A p \in Polls : poll'[p].at \notin poll'[p].left
  PROVE  Counted'
<1>1. Budget \in Nat /\ Budget' = Budget
  BY TypeParts, BudgetTypes DEF Inv
<1>2. ASSUME NEW i \in DOMAIN rows', ~rows'[i].repeats  PROVE Rationed(i)'
  <2>1. i \in DOMAIN rows /\ ~rows[i].repeats /\ Rationed(i)
    BY <1>2 DEF Counted
  <2>2. notified[i] \in Nat /\ notified'[i] = notified[i]
    BY <2>1, NotifiedTypes
  <2>3. notified'[i] <= Budget' + Cardinality(Polls \ Pending(i)')
    <3>1. Polls \ Pending(i) \in SUBSET (Polls \ Pending(i)')
      BY <1>2
    <3>2. Cardinality(Polls \ Pending(i)) <= Cardinality(Polls \ Pending(i)')
      BY <3>1, FewerCallers
    <3>3. Cardinality(Polls \ Pending(i)) \in Nat
          /\ Cardinality(Polls \ Pending(i)') \in Nat
      BY Callers
    <3>4. notified[i] <= Budget + Cardinality(Polls \ Pending(i))
      BY <2>1 DEF Rationed
    <3> QED  BY <1>1, <2>2, <3>2, <3>3, <3>4
  <2>4. ASSUME ~rows'[i].completed
        PROVE  notified'[i] <= Budget' + Cardinality(Sent(i)')
    <3>1. ~rows[i].completed /\ Sent(i) \in SUBSET Sent(i)'  BY <1>2, <2>4
    <3>2. Sent(i) \in SUBSET Polls /\ Sent(i)' \in SUBSET Polls  BY DEF Sent
    <3>3. Cardinality(Sent(i)) <= Cardinality(Sent(i)')
      BY <3>1, <3>2, FewerCallers
    <3>4. Cardinality(Sent(i)) \in Nat /\ Cardinality(Sent(i)') \in Nat
      BY <3>2, Callers
    <3>5. notified[i] <= Budget + Cardinality(Sent(i))
      BY <2>1, <3>1 DEF Rationed
    <3> QED  BY <1>1, <2>2, <3>3, <3>4, <3>5
  <2> QED  BY <2>3, <2>4 DEF Rationed
<1>3. \A i \in Ids : i > created' => notified'[i] = 0  BY DEF Counted
<1> QED  BY <1>2, <1>3 DEF Counted

(* What saving leaves of the rows that are still there.                      *)
LEMMA SaveRows ==
  ASSUME NEW i \in DOMAIN rows, NEW r, SaveReminder(i, r)
  PROVE  /\ DOMAIN rows' \subseteq DOMAIN rows
         /\ \A j \in DOMAIN rows' : rows'[j] = IF j = i THEN r ELSE rows[j]
BY DEF SaveReminder, Put, Drop

(* Going on, a caller drops what it takes from its list.                     *)
LEMMA GoOnList ==
  ASSUME NEW n, poll \in [Polls -> Calls(n)], NEW p \in Polls,
         NEW left, NoId \notin left, NEW firing, GoOn(p, left, firing)
  PROVE  /\ \A q \in Polls \ {p} : poll'[q] = poll[q]
         /\ poll'[p].left \subseteq left
         /\ poll'[p].at \in left \cup {NoId}
         /\ poll'[p].at \notin poll'[p].left /\ ~poll'[p].sent
<1>1. CASE poll' = [poll EXCEPT ![p] = Idle]
  BY <1>1 DEF Idle
<1>2. CASE \E i \in left \ firing, later \in SUBSET (left \cap firing) :
             poll' = [poll EXCEPT ![p] =
                        [left |-> ((left \ firing) \ {i}) \cup later,
                         at |-> i, sent |-> FALSE]]
  BY <1>2
<1> QED  BY <1>1, <1>2 DEF GoOn

LEMMA CancelCounts ==
  ASSUME Inv, Counted, NEW i \in Ids, Cancel(i)
  PROVE  Counted'
<1>1. /\ DOMAIN rows' \subseteq DOMAIN rows
      /\ \A j \in DOMAIN rows' : rows'[j] = rows[j]
  BY DEF Cancel, Drop
<1>2. UNCHANGED <<poll, stops, created, notified>>  BY DEF Cancel
<1>3. \A j : Pending(j)' = Pending(j) /\ Sent(j)' = Sent(j)
  BY <1>2 DEF Pending, Sent
<1> QED  BY <1>1, <1>2, <1>3, QuietStep DEF Counted

LEMMA SnoozeOrCompleteCounts ==
  ASSUME Inv, Counted, NEW i \in Ids, Snooze(i) \/ Complete(i)
  PROVE  Counted'
<1>1. rows = reminders /\ i \in DOMAIN rows
  BY DEF Inv, RowsMatch, Snooze, Complete, Edit
<1>2. PICK r : /\ SaveReminder(i, r)
               /\ r.repeats = rows[i].repeats
               /\ ~r.completed => ~rows[i].completed
  <2>1. rows[i] \in Reminder  BY <1>1, NotifiedTypes
  <2>2. CASE Snooze(i)
    <3> DEFINE r == [rows[i] EXCEPT !.snoozed = now + SnoozeTime]
    <3>1. SaveReminder(i, r)  BY <1>1, <2>2 DEF Snooze, Edit
    <3>2. r.repeats = rows[i].repeats /\ r.completed = rows[i].completed
      BY <2>1 DEF Reminder
    <3> QED  BY <3>1, <3>2
  <2>3. CASE Complete(i)
    <3> DEFINE r == [rows[i] EXCEPT !.completed = TRUE]
    <3>1. SaveReminder(i, r)  BY <1>1, <2>3 DEF Complete, Edit
    <3>2. r.repeats = rows[i].repeats /\ r.completed = TRUE
      BY <2>1 DEF Reminder
    <3> QED  BY <3>1, <3>2
  <2> QED  BY <2>2, <2>3
<1>3. /\ DOMAIN rows' \subseteq DOMAIN rows
      /\ \A j \in DOMAIN rows' : rows'[j] = IF j = i THEN r ELSE rows[j]
  BY <1>1, <1>2, SaveRows
<1>4. UNCHANGED <<poll, stops, created, notified>>
  BY DEF Snooze, Complete, Edit
<1>5. \A j : Pending(j)' = Pending(j) /\ Sent(j)' = Sent(j)
  BY <1>4 DEF Pending, Sent
<1>6. \A j \in DOMAIN rows' : ~rows'[j].repeats =>
        /\ ~rows[j].repeats
        /\ ~rows'[j].completed => ~rows[j].completed
  BY <1>2, <1>3
<1> QED  BY <1>3, <1>4, <1>5, <1>6, QuietStep DEF Counted

(* An updated reminder starts counting again.                                *)
LEMMA UpdateCounts ==
  ASSUME Inv, Counted, NEW i \in Ids, NEW due \in 0..Never,
         NEW repeats \in BOOLEAN, NEW naive \in BOOLEAN,
         Update(i, due, repeats, naive)
  PROVE  Counted'
<1>1. rows = reminders /\ i \in DOMAIN rows
  BY DEF Inv, RowsMatch, Update, Edit
<1>2. PICK r : SaveReminder(i, r)  BY DEF Update, Edit
<1>3. /\ DOMAIN rows' \subseteq DOMAIN rows
      /\ \A j \in DOMAIN rows' : j # i => rows'[j] = rows[j]
  BY <1>1, <1>2, SaveRows
<1>4. UNCHANGED <<poll, stops, created>>  BY DEF Update, Edit
<1>5. \A j : /\ Pending(j)' = Pending(j) /\ Sent(j)' = Sent(j)
             /\ Pending(j) \subseteq Polls /\ Sent(j) \subseteq Polls
  BY <1>4 DEF Pending, Sent
<1>6. Scalars  BY TypeParts DEF Inv
<1>7. Budget \in Nat /\ Budget' = Budget  BY <1>4, <1>6, BudgetTypes
<1>8. /\ notified'[i] = 0
      /\ \A j \in Ids : j # i => notified'[j] = notified[j]
  BY <1>6 DEF Scalars, Update
<1>9. ASSUME NEW j \in DOMAIN rows', ~rows'[j].repeats  PROVE Rationed(j)'
  <2>1. j \in Ids  BY <1>3, NotifiedTypes
  <2>2. CASE j = i
    <3>1. Cardinality(Polls \ Pending(j)') \in Nat  BY Callers
    <3>2. Cardinality(Sent(j)') \in Nat  BY <1>5, Callers
    <3> QED  BY <1>7, <1>8, <2>2, <3>1, <3>2 DEF Rationed
  <2>3. CASE j # i
    <3>1. Rationed(j)  BY <1>3, <1>9, <2>3 DEF Counted
    <3>2. rows'[j] = rows[j] /\ notified'[j] = notified[j]
      BY <1>3, <1>8, <2>1, <2>3
    <3> QED  BY <1>5, <1>7, <3>1, <3>2 DEF Rationed
  <2> QED  BY <2>2, <2>3
<1>10. \A j \in Ids : j > created' => notified'[j] = 0
  BY <1>4, <1>8 DEF Counted
<1>11. \A p \in Polls : poll'[p].at \notin poll'[p].left
  BY <1>4 DEF Counted
<1> QED  BY <1>9, <1>10, <1>11 DEF Counted

(* A new reminder has never been notified.                                   *)
LEMMA CreateCounts ==
  ASSUME Inv, Counted, NEW due \in 0..Never, NEW repeats \in BOOLEAN,
         NEW naive \in BOOLEAN, Create(due, repeats, naive)
  PROVE  Counted'
<1>1. Scalars  BY TypeParts DEF Inv
<1>2. created \in Nat /\ created' = created + 1 /\ created' \in Ids
  BY <1>1, ReminderAssumption DEF Scalars, Create, Ids
<1>3. UNCHANGED <<poll, stops, notified>>  BY DEF Create
<1>4. \A j : Pending(j)' = Pending(j) /\ Sent(j)' = Sent(j)
             /\ Sent(j) \subseteq Polls
  BY <1>3 DEF Pending, Sent
<1>5. Budget \in Nat /\ Budget' = Budget  BY <1>1, <1>3, BudgetTypes
<1>6. /\ DOMAIN rows' = DOMAIN rows \cup {created'}
      /\ \A j \in DOMAIN rows' : j # created' => rows'[j] = rows[j]
  BY DEF Create, Put
<1>7. ASSUME NEW j \in DOMAIN rows', ~rows'[j].repeats  PROVE Rationed(j)'
  <2>1. CASE j = created'
    <3>1. notified'[j] = 0  BY <1>2, <1>3, <2>1 DEF Counted
    <3>2. Cardinality(Polls \ Pending(j)') \in Nat  BY Callers
    <3>3. Cardinality(Sent(j)') \in Nat  BY <1>4, Callers
    <3> QED  BY <1>5, <3>1, <3>2, <3>3 DEF Rationed
  <2>2. CASE j # created'
    <3>1. rows'[j] = rows[j] /\ Rationed(j)
      BY <1>6, <1>7, <2>2 DEF Counted
    <3> QED  BY <1>3, <1>4, <1>5, <3>1 DEF Rationed
  <2> QED  BY <2>1, <2>2
<1>8. \A j \in Ids : j > created' => notified'[j] = 0
  <2>1. \A j \in Ids : j \in Nat  BY DEF Ids
  <2> QED  BY <1>2, <1>3, <2>1 DEF Counted
<1>9. \A p \in Polls : poll'[p].at \notin poll'[p].left
  BY <1>3 DEF Counted
<1> QED  BY <1>7, <1>8, <1>9 DEF Counted

(* A pass that begins lists reminders that are not completed: what these     *)
(* have been notified is paid for without it.                                *)
LEMMA CheckDueCounts ==
  ASSUME Inv, Counted, NEW p \in Polls, CheckDue(p)
  PROVE  Counted'
<1>1. Scalars /\ StoreOK /\ poll \in [Polls -> Calls(created)]
  BY TypeParts DEF Inv
<1>2. rows = reminders /\ poll[p] = Idle
  BY DEF Inv, RowsMatch, CheckDue
<1>3. UNCHANGED <<rows, stops, created, notified>>  BY DEF CheckDue
<1>4. PICK due : /\ due \subseteq DOMAIN rows
                 /\ \A i \in due : ~rows[i].completed
                 /\ GoOn(p, due, Firing)
  BY <1>2 DEF CheckDue, Due
<1>5. NoId \notin due  BY <1>1, <1>4, ReminderAssumption DEF StoreOK, NoId, Scalars
<1>6. /\ \A q \in Polls \ {p} : poll'[q] = poll[q]
      /\ poll'[p].left \subseteq due /\ poll'[p].at \in due \cup {NoId}
      /\ poll'[p].at \notin poll'[p].left /\ ~poll'[p].sent
  BY <1>1, <1>4, <1>5, GoOnList
<1>7. Budget \in Nat /\ Budget' = Budget  BY <1>1, <1>3, BudgetTypes
<1>8. Counted'
  <2>1. ASSUME NEW i \in DOMAIN rows', ~rows'[i].repeats  PROVE Rationed(i)'
    <3>1. /\ i \in DOMAIN rows /\ i # NoId /\ notified[i] \in Nat
          /\ Rationed(i) /\ rows'[i] = rows[i] /\ notified'[i] = notified[i]
      BY <1>3, <2>1, NotifiedTypes, ReminderAssumption
         DEF Counted, NoId, Scalars
    <3>2. Sent(i)' = Sent(i)  BY <1>2, <1>6 DEF Sent, Idle
    <3>3. Sent(i)' \in SUBSET Polls /\ Pending(i) \in SUBSET Polls
          /\ Cardinality(Sent(i)') \in Nat
          /\ Cardinality(Polls \ Pending(i)') \in Nat
      <4>1. Sent(i)' \in SUBSET Polls /\ Pending(i) \in SUBSET Polls
        BY DEF Sent, Pending
      <4> QED  BY <4>1, Callers
    <3>4. notified'[i] <= Budget' + Cardinality(Polls \ Pending(i)')
      <4>1. CASE i \in due
        <5>1. notified[i] <= Budget + Cardinality(Sent(i))
          BY <1>4, <3>1, <4>1 DEF Rationed
        <5>2. Sent(i)' \in SUBSET (Polls \ Pending(i)')
          BY <1>6, <3>1, <3>2 DEF Counted, Sent, Pending
        <5>3. Cardinality(Sent(i)') <= Cardinality(Polls \ Pending(i)')
          BY <5>2, FewerCallers
        <5> QED  BY <1>7, <3>1, <3>2, <3>3, <5>1, <5>3
      <4>2. CASE i \notin due
        <5>1. Pending(i)' = Pending(i)
          BY <1>2, <1>6, <3>1, <4>2 DEF Pending, Idle
        <5> QED  BY <1>7, <3>1, <5>1 DEF Rationed
      <4> QED  BY <4>1, <4>2
    <3> QED  BY <1>7, <3>1, <3>2, <3>4 DEF Rationed
  <2>2. \A i \in Ids : i > created' => notified'[i] = 0
    BY <1>3 DEF Counted
  <2>3. \A q \in Polls : poll'[q].at \notin poll'[q].left
    BY <1>6 DEF Counted
  <2> QED  BY <2>1, <2>2, <2>3 DEF Counted
<1> QED  BY <1>8

(* The caller that notifies pays: it is not pending any more.                *)
LEMMA NotifyCounts ==
  ASSUME Inv, Counted, NEW p \in Polls, Notify(p)
  PROVE  Counted'
<1>1. Scalars /\ StoreOK /\ poll \in [Polls -> Calls(created)]
  BY TypeParts DEF Inv
<1>2. rows = reminders  BY AwaitsWhileRunning DEF Notify
<1>3. UNCHANGED <<rows, stops, created>>  BY DEF Notify
<1>4. /\ \A q \in Polls \ {p} : poll'[q] = poll[q]
      /\ poll'[p].left = poll[p].left /\ poll'[p].at = poll[p].at
      /\ poll'[p].sent /\ ~poll[p].sent
  BY <1>1 DEF Notify, Calls
<1>5. Budget \in Nat /\ Budget' = Budget  BY <1>1, <1>3, BudgetTypes
<1>6. PICK at : at = poll[p].at  OBVIOUS
<1>7. \A i : /\ Pending(i) \subseteq Polls /\ Sent(i) \subseteq Polls
             /\ Sent(i)' \subseteq Polls
  BY DEF Pending, Sent
<1>8. p \in Pending(at) /\ p \notin Sent(at)
  BY <1>4, <1>6 DEF Pending, Sent
<1>9. Pending(at)' = Pending(at) \ {p} /\ Sent(at)' = Sent(at) \cup {p}
  BY <1>4, <1>6 DEF Counted, Pending, Sent
<1>10. \A i : i # at => Pending(i)' = Pending(i) /\ Sent(i)' = Sent(i)
  BY <1>4, <1>6 DEF Pending, Sent
<1>11. \A i \in DOMAIN rows : ~rows[i].repeats =>
         notified'[i] = IF i = at THEN notified[i] + 1 ELSE notified[i]
  <2>1. \A i \in DOMAIN rows : i \in DOMAIN notified
    BY <1>1, NotifiedTypes DEF Scalars
  <2> QED  BY <1>2, <1>6, <2>1 DEF Notify
<1>12. ASSUME NEW i \in DOMAIN rows', ~rows'[i].repeats  PROVE Rationed(i)'
  <2>1. i \in DOMAIN rows /\ notified[i] \in Nat /\ Rationed(i)
        /\ rows'[i] = rows[i]
    BY <1>3, <1>12, NotifiedTypes DEF Counted
  <2>2. CASE i = at
    <3>1. notified'[i] = notified[i] + 1  BY <1>11, <1>12, <2>1, <2>2
    <3>2. Cardinality(Polls \ Pending(i)') = Cardinality(Polls \ Pending(i)) + 1
      <4>1. p \in Polls \ (Polls \ Pending(i))  BY <1>8, <2>2
      <4>2. Polls \ Pending(i)' = (Polls \ Pending(i)) \cup {p}
        BY <1>9, <2>2
      <4> QED  BY <4>1, <4>2, OneMoreCaller
    <3>3. Cardinality(Sent(i)') = Cardinality(Sent(i)) + 1
      BY <1>7, <1>8, <1>9, <2>2, OneMoreCaller
    <3>4. Cardinality(Polls \ Pending(i)) \in Nat /\ Cardinality(Sent(i)) \in Nat
      BY <1>7, Callers
    <3>5. notified'[i] <= Budget' + Cardinality(Polls \ Pending(i)')
      BY <1>5, <2>1, <3>1, <3>2, <3>4 DEF Rationed
    <3>6. ~rows'[i].completed =>
            notified'[i] <= Budget' + Cardinality(Sent(i)')
      BY <1>5, <2>1, <3>1, <3>3, <3>4 DEF Rationed
    <3> QED  BY <3>5, <3>6 DEF Rationed
  <2>3. CASE i # at
    <3>1. notified'[i] = notified[i]  BY <1>11, <1>12, <2>1, <2>3
    <3> QED  BY <1>5, <1>10, <2>1, <2>3, <3>1 DEF Rationed
  <2> QED  BY <2>2, <2>3
<1>13. \A i \in Ids : i > created' => notified'[i] = 0
  <2>1. at \in 0..created  BY <1>1, <1>6 DEF Calls
  <2>2. \A i \in Ids : i > created => i # at
    BY <1>1, <2>1, ReminderAssumption DEF Ids, Scalars
  <2>3. \A i \in Ids : i # at => notified'[i] = notified[i]
    BY <1>1, <1>6 DEF Notify, Scalars
  <2> QED  BY <1>3, <2>2, <2>3 DEF Counted
<1>14. \A q \in Polls : poll'[q].at \notin poll'[q].left
  BY <1>4 DEF Counted
<1> QED  BY <1>12, <1>13, <1>14 DEF Counted

(* A callback that returns completes its one-shot reminder, and the caller   *)
(* goes on with reminders it could notify before.                            *)
LEMMA ReturnCounts ==
  ASSUME Inv, Counted, NEW p \in Polls, Return(p)
  PROVE  Counted'
<1>1. Scalars /\ StoreOK /\ poll \in [Polls -> Calls(created)]
  BY TypeParts DEF Inv
<1>2. rows = reminders  BY AwaitsWhileRunning DEF Return
<1>3. UNCHANGED <<stops, created, notified>>  BY DEF Return
<1>4. PICK at : at = poll[p].at  OBVIOUS
<1>5. NoId \notin poll[p].left
  BY <1>1, ReminderAssumption DEF Calls, NoId, Scalars
<1>6. /\ \A q \in Polls \ {p} : poll'[q] = poll[q]
      /\ poll'[p].left \subseteq poll[p].left
      /\ poll'[p].at \in poll[p].left \cup {NoId}
      /\ poll'[p].at \notin poll'[p].left /\ ~poll'[p].sent
  BY <1>1, <1>5, GoOnList DEF Return
<1>7. /\ DOMAIN rows' \subseteq DOMAIN rows
      /\ \A i \in DOMAIN rows' : i # at => rows'[i] = rows[i]
      /\ at \in DOMAIN rows' /\ ~rows'[at].repeats =>
           ~rows[at].repeats /\ rows'[at].completed
  <2>1. CASE UNCHANGED <<reminders, rows>> /\ at \notin DOMAIN rows
    BY <2>1
  <2>2. CASE at \in DOMAIN rows /\ ~rows[at].repeats
             /\ SaveReminder(at, [rows[at] EXCEPT !.completed = TRUE])
    <3>1. rows[at] \in Reminder  BY <2>2, NotifiedTypes
    <3>2. [rows[at] EXCEPT !.completed = TRUE].completed = TRUE
      BY <3>1 DEF Reminder
    <3> QED  BY <2>2, <3>2, SaveRows
  <2>3. CASE at \in DOMAIN rows /\ rows[at].repeats
             /\ SaveReminder(at, [rows[at] EXCEPT !.due = Later(@)])
    <3>1. rows[at] \in Reminder  BY <2>3, NotifiedTypes
    <3>2. [rows[at] EXCEPT !.due = Later(@)].repeats = rows[at].repeats
      BY <3>1 DEF Reminder
    <3> QED  BY <2>3, <3>2, SaveRows
  <2> QED  BY <1>2, <1>4, <2>1, <2>2, <2>3 DEF Return, Settle
<1>8. ASSUME NEW i \in DOMAIN rows', ~rows'[i].repeats
      PROVE  /\ ~rows[i].repeats
             /\ Pending(i)' \subseteq Pending(i)
             /\ ~rows'[i].completed =>
                  ~rows[i].completed /\ Sent(i) \subseteq Sent(i)'
  <2>1. i # NoId
    BY <1>1, <1>7, ReminderAssumption DEF StoreOK, NoId, Scalars
  <2>2. ~rows[i].repeats  BY <1>7, <1>8
  <2>3. Pending(i)' \subseteq Pending(i)
    BY <1>6, <2>1 DEF Pending
  <2>4. ASSUME ~rows'[i].completed
        PROVE  ~rows[i].completed /\ Sent(i) \subseteq Sent(i)'
    <3>1. i # at /\ rows'[i] = rows[i]  BY <1>7, <1>8, <2>4
    <3> QED  BY <1>4, <1>6, <2>4, <3>1 DEF Sent
  <2> QED  BY <2>2, <2>3, <2>4
<1>9. \A q \in Polls : poll'[q].at \notin poll'[q].left
  BY <1>6 DEF Counted
<1> QED  BY <1>3, <1>7, <1>8, <1>9, QuietStep

LEMMA StartCounts ==
  ASSUME Inv, Counted, Start
  PROVE  Counted'
<1>1. /\ DOMAIN rows' \subseteq DOMAIN rows
      /\ \A j \in DOMAIN rows' : rows'[j] = rows[j]
  BY DEF Start, Drop
<1>2. UNCHANGED <<poll, stops, created, notified>>  BY DEF Start
<1>3. \A j : Pending(j)' = Pending(j) /\ Sent(j)' = Sent(j)
  BY <1>2 DEF Pending, Sent
<1> QED  BY <1>1, <1>2, <1>3, QuietStep DEF Counted

LEMMA IdleCounts ==
  ASSUME Inv, Counted, Tick \/ UNCHANGED vars
  PROVE  Counted'
<1>1. UNCHANGED <<rows, poll, stops, created, notified>>
  BY DEF Tick, vars
<1>2. \A j : Pending(j)' = Pending(j) /\ Sent(j)' = Sent(j)
  BY <1>1 DEF Pending, Sent
<1> QED  BY <1>1, <1>2, QuietStep DEF Counted

(* A stop takes every caller out of its callback, and pays with its budget.  *)
LEMMA StopCounts ==
  ASSUME Inv, Counted, Stop \/ Crash
  PROVE  Counted'
<1>1. Scalars  BY TypeParts DEF Inv
<1>2. /\ stops' = stops + 1 /\ UNCHANGED <<rows, created, notified>>
      /\ poll' = [p \in Polls |-> Idle]
  BY DEF Stop, Crash
<1>3. /\ Cardinality(Polls) \in Nat /\ Budget \in Nat
      /\ Budget' = Budget + Cardinality(Polls)
  BY <1>1, <1>2, BudgetTypes
<1>4. ASSUME NEW i \in DOMAIN rows', ~rows'[i].repeats  PROVE Rationed(i)'
  <2>1. /\ i \in DOMAIN rows /\ notified[i] \in Nat /\ Rationed(i)
        /\ notified'[i] = notified[i]
    BY <1>2, <1>4, NotifiedTypes DEF Counted
  <2>2. Cardinality(Polls \ Pending(i)) \in Nat
        /\ Cardinality(Polls \ Pending(i)) <= Cardinality(Polls)
    BY Callers
  <2>3. notified'[i] <= Budget'  BY <1>3, <2>1, <2>2 DEF Rationed
  <2>4. Cardinality(Polls \ Pending(i)') \in Nat  BY Callers
  <2>5. Cardinality(Sent(i)') \in Nat
    <3>1. Sent(i)' \in SUBSET Polls  BY DEF Sent
    <3> QED  BY <3>1, Callers
  <2>6. Budget' \in Nat /\ notified'[i] \in Nat  BY <1>3, <2>1
  <2> QED  BY <2>3, <2>4, <2>5, <2>6 DEF Rationed
<1>5. \A i \in Ids : i > created' => notified'[i] = 0
  BY <1>2 DEF Counted
<1>6. \A p \in Polls : poll'[p].at \notin poll'[p].left
  BY <1>2 DEF Idle
<1> QED  BY <1>4, <1>5, <1>6 DEF Counted

LEMMA NextCounts ==
  ASSUME Inv, Counted, [Next]_vars
  PROVE  Counted'
<1>1. CASE \E due \in 0..Never, repeats, naive \in BOOLEAN :
             Create(due, repeats, naive)
  BY <1>1, CreateCounts
<1>2. CASE \E i \in Ids, due \in 0..Never, repeats, naive \in BOOLEAN :
             Update(i, due, repeats, naive)
  BY <1>2, UpdateCounts
<1>3. CASE \E i \in Ids : Cancel(i) \/ Snooze(i) \/ Complete(i)
  BY <1>3, CancelCounts, SnoozeOrCompleteCounts
<1>4. CASE \E p \in Polls : CheckDue(p) \/ Notify(p) \/ Return(p)
  BY <1>4, CheckDueCounts, NotifyCounts, ReturnCounts
<1>5. CASE Start  BY <1>5, StartCounts
<1>6. CASE Stop \/ Crash  BY <1>6, StopCounts
<1>7. CASE Tick \/ UNCHANGED vars  BY <1>7, IdleCounts
<1> QED  BY <1>1, <1>2, <1>3, <1>4, <1>5, <1>6, <1>7 DEF Next

(* A dead process remembers no reminder.                                     *)
Forgotten == phase = "dead" => DOMAIN reminders = {}

LEMMA StaysForgotten ==
  ASSUME Inv, Forgotten, [Next]_vars
  PROVE  Forgotten'
<1>1. CASE Crash  BY <1>1 DEF Forgotten, Crash
<1>2. CASE Start \/ Stop  BY <1>2 DEF Forgotten, Start, Stop
<1>3. CASE Tick \/ UNCHANGED vars  BY <1>3 DEF Forgotten, Tick, vars
<1>4. CASE \E due \in 0..Never, repeats, naive \in BOOLEAN :
             Create(due, repeats, naive)
  BY <1>4 DEF Forgotten, Create
<1>5. CASE \E i \in Ids, due \in 0..Never, repeats, naive \in BOOLEAN :
             Update(i, due, repeats, naive)
  BY <1>5 DEF Forgotten, Update, Edit
<1>6. CASE \E i \in Ids : Cancel(i) \/ Snooze(i) \/ Complete(i)
  BY <1>6 DEF Forgotten, Cancel, Snooze, Complete, Edit
<1>7. CASE \E p \in Polls : CheckDue(p) \/ Notify(p) \/ Return(p)
  BY <1>7, AwaitsWhileRunning DEF Forgotten, CheckDue, Notify, Return
<1> QED  BY <1>1, <1>2, <1>3, <1>4, <1>5, <1>6, <1>7 DEF Next

(* A one-shot reminder is notified once by each caller of check_due, and     *)
(* once more only for a stop or crash in the middle of its callback: stale   *)
(* lists, snoozes, updates and pruning do not make it ring again, for any    *)
(* number of callers, reminders and stops.                                   *)
THEOREM RingsOnce == Spec => []NotifiedOnce
<1>1. Init => Counted
  <2> SUFFICES ASSUME Init PROVE Counted  OBVIOUS
  <2>1. DOMAIN rows = {}  BY DEF Init
  <2>2. \A p \in Polls : poll[p].at \notin poll[p].left  BY DEF Init, Idle
  <2> QED  BY <2>1, <2>2 DEF Init, Counted
<1>2. Inv /\ Counted /\ [Next]_vars => Counted'  BY NextCounts
<1>3. Inv /\ Counted /\ Forgotten => NotifiedOnce
  <2> SUFFICES ASSUME Inv, Counted, Forgotten, NEW i \in DOMAIN reminders,
                      ~reminders[i].repeats
               PROVE  notified[i] <= Cardinality(Polls) * (1 + stops)
    BY DEF NotifiedOnce
  <2>1. i \in DOMAIN rows /\ rows = reminders
    <3>1. phase # "dead" => rows = reminders  BY DEF Inv, RowsMatch
    <3>2. CASE phase # "dead"  BY <3>1, <3>2
    <3>3. CASE phase = "dead"  BY <3>3 DEF Forgotten
    <3> QED  BY <3>2, <3>3
  <2>2. Scalars  BY TypeParts DEF Inv
  <2>3. notified[i] \in Nat /\ Rationed(i)
    BY <2>1, NotifiedTypes DEF Counted
  <2>4. Cardinality(Polls \ Pending(i)) \in Nat
        /\ Cardinality(Polls \ Pending(i)) <= Cardinality(Polls)
        /\ Cardinality(Polls) \in Nat /\ Budget \in Nat
    BY <2>2, Callers, BudgetTypes
  <2>5. notified[i] <= Budget + Cardinality(Polls)
    BY <2>3, <2>4 DEF Rationed
  <2>6. stops \in Nat  BY <2>2, ReminderAssumption DEF Scalars
  <2>7. Budget + Cardinality(Polls) = Cardinality(Polls) * (1 + stops)
    BY <2>4, <2>6 DEF Budget
  <2> QED  BY <2>5, <2>7
<1>4. Init => Forgotten  BY DEF Init, Forgotten
<1>5. Inv /\ Forgotten /\ [Next]_vars => Forgotten'  BY StaysForgotten
<1> QED  BY <1>1, <1>2, <1>3, <1>4, <1>5, Invariance, PTL DEF Spec

-----------------------------------------------------------------------------
(* The personal stores: for any number of items and changes.               *)

Stored == {e \in Entities : ~e.text}

(* One item: h in the dictionary, r its row, a what was acknowledged, n    *)
(* the changes so far.  The row is the dictionary's or an older state of   *)
(* it; where only the row is left, a delete has failed.                    *)
ItemOK(h, r, a, n, gone, left) ==
  /\ h # NoItem => h.version <= n
  /\ r # NoItem => r.version = a /\ a <= n
  /\ a # 0 => r # NoItem
  /\ h # NoItem /\ r # NoItem => h.version >= r.version /\ h.zone = r.zone
  /\ r # NoItem /\ h = NoItem => left
  /\ gone => h = NoItem /\ r = NoItem

ItemKept(i) ==
  ItemOK(held[i], itemRows[i], acks[i], changes, i \in erased, i \in leftover)

PersonalInv == PersonalTypeOK /\ OneZone /\ \A i \in Items : ItemKept(i)

LEMMA NoItemIsNone == NoItem \notin Entities
BY PersonalAssumption DEF Entities

LEMMA ItemTypes ==
  ASSUME PersonalTypeOK, NEW i \in Items
  PROVE  /\ held[i] # NoItem => held[i] \in Entities
         /\ itemRows[i] # NoItem => itemRows[i] \in Stored
         /\ acks[i] \in Nat /\ changes \in Nat
BY PersonalAssumption DEF PersonalTypeOK, Stored

(* A step that is about item i only.                                       *)
LEMMA OthersKept ==
  ASSUME PersonalInv, NEW i \in Items, NEW x \in Items \ {i},
         held'[x] = held[x], itemRows'[x] = itemRows[x], acks'[x] = acks[x],
         changes' \in {changes, changes + 1},
         x \in erased' <=> x \in erased, x \in leftover' <=> x \in leftover
  PROVE  ItemKept(x)'
<1>1. /\ held[x] # NoItem => held[x].version \in Nat
      /\ acks[x] \in Nat /\ changes \in Nat
  BY ItemTypes, PersonalAssumption DEF PersonalInv, Entities
<1> QED  BY <1>1 DEF PersonalInv, ItemKept, ItemOK

(* A new state e of item i, of the next version, in the dictionary and     *)
(* perhaps in the row; its zone is what it was.                            *)
LEMMA WritesKeep ==
  ASSUME PersonalInv, NEW i \in Items, NEW e \in Entities, Changes,
         e.version = changes',
         held' = [held EXCEPT ![i] = e], Persists(i, e) \/ NotPersisted,
         UNCHANGED <<erased, leftover>>, i \notin erased,
         held[i] # NoItem => e.zone = held[i].zone,
         held[i] = NoItem => itemRows[i] = NoItem
  PROVE  PersonalTypeOK' /\ \A x \in Items : ItemKept(x)'
<1>1. changes \in Nat /\ changes' = changes + 1 /\ changes' \in 0..MaxChanges
      /\ MaxChanges \in Nat
  BY PersonalAssumption DEF Changes, PersonalInv, PersonalTypeOK
<1>2. e # NoItem  BY NoItemIsNone
<1>3. held' \in [Items -> Entities \cup {NoItem}] /\ held'[i] = e
      /\ \A x \in Items \ {i} : held'[x] = held[x]
  BY DEF PersonalInv, PersonalTypeOK
<1>4. CASE Persists(i, e)
  <2>1. e \in Stored  BY <1>4 DEF Persists, Serialises, Stored
  <2>2. /\ itemRows' \in [Items -> Stored \cup {NoItem}] /\ itemRows'[i] = e
        /\ \A x \in Items \ {i} : itemRows'[x] = itemRows[x]
    BY <1>4, <2>1 DEF Persists, PersonalInv, PersonalTypeOK, Stored
  <2>3. /\ acks' \in [Items -> 0..MaxChanges] /\ acks'[i] = changes'
        /\ \A x \in Items \ {i} : acks'[x] = acks[x]
    BY <1>1, <1>4 DEF Persists, PersonalInv, PersonalTypeOK
  <2>4. PersonalTypeOK'
    BY <1>1, <1>3, <2>2, <2>3 DEF PersonalInv, PersonalTypeOK, Stored
  <2>5. ItemKept(i)'  BY <1>1, <1>2, <1>3, <2>2, <2>3 DEF ItemKept, ItemOK
  <2>6. \A x \in Items \ {i} : ItemKept(x)'
    BY <1>1, <1>3, <2>2, <2>3, OthersKept
  <2> QED  BY <2>4, <2>5, <2>6
<1>5. CASE NotPersisted
  <2>1. UNCHANGED <<itemRows, acks>>  BY <1>5 DEF NotPersisted
  <2>2. PersonalTypeOK'  BY <1>1, <1>3, <2>1 DEF PersonalInv, PersonalTypeOK
  <2>3. ItemKept(i)'
    <3>1. acks[i] \in Nat  BY ItemTypes DEF PersonalInv
    <3> QED  BY <1>1, <1>2, <1>3, <2>1, <3>1 DEF PersonalInv, ItemKept, ItemOK
  <2>4. \A x \in Items \ {i} : ItemKept(x)'  BY <1>1, <1>3, <2>1, OthersKept
  <2> QED  BY <2>2, <2>3, <2>4
<1> QED  BY <1>4, <1>5

LEMMA CreateKeeps ==
  ASSUME PersonalInv, NEW i \in Items, NEW zone \in BOOLEAN, CreateItem(i, zone)
  PROVE  PersonalInv'
<1>1. changes' \in 1..MaxChanges
  BY PersonalAssumption DEF CreateItem, Changes, PersonalInv, PersonalTypeOK
<1>2. PICK e \in Entities : e = [version |-> changes', zone |-> zone, text |-> FALSE]
  BY <1>1 DEF Entities
<1>3. e.version = changes' /\ e.zone = zone  BY <1>2
<1>4. /\ held' = [held EXCEPT ![i] = e] /\ (Persists(i, e) \/ NotPersisted)
      /\ UNCHANGED <<erased, leftover>> /\ i \notin erased /\ Changes
      /\ held[i] = NoItem /\ itemRows[i] = NoItem /\ ~Incomparable(i, zone)
  BY <1>2 DEF CreateItem, Known
<1>5. PersonalTypeOK' /\ \A x \in Items : ItemKept(x)'
  BY <1>3, <1>4, WritesKeep
<1>6. OneZone'
  <2>1. held'[i] = e /\ \A x \in Items \ {i} : held'[x] = held[x]
    BY <1>4 DEF PersonalInv, PersonalTypeOK
  <2>2. KindOf[i] = "event" =>
          \A x \in Items \ {i} :
             KindOf[x] = "event" /\ Known(x) => held[x].zone = zone
    BY <1>4 DEF Incomparable
  <2> QED  BY <1>3, <1>4, <2>1, <2>2 DEF PersonalInv, OneZone, Known
<1> QED  BY <1>5, <1>6 DEF PersonalInv

LEMMA ChangeKeeps ==
  ASSUME PersonalInv, NEW i \in Items, UpdateItem(i) \/ UpdateItemDate(i) \/ CompleteTask(i)
  PROVE  PersonalInv'
<1>1. changes' \in 1..MaxChanges /\ Changes /\ held[i] # NoItem
  BY PersonalAssumption
  DEF UpdateItem, UpdateItemDate, CompleteTask, Changes, Known, PersonalInv, PersonalTypeOK
<1>2. held[i] \in Entities  BY <1>1, ItemTypes DEF PersonalInv
<1>3. PICK e \in Entities :
        e.version = changes' /\ e.zone = held[i].zone /\ ChangeItem(i, e)
  <2>1. CASE UpdateItem(i) \/ CompleteTask(i)
    <3>1. PICK e \in Entities : e = [held[i] EXCEPT !.version = changes']
      BY <1>1, <1>2 DEF Entities
    <3>2. e.version = changes' /\ e.zone = held[i].zone  BY <1>2, <3>1 DEF Entities
    <3> QED  BY <2>1, <3>1, <3>2 DEF UpdateItem, CompleteTask
  <2>2. CASE UpdateItemDate(i)
    <3>1. PICK e \in Entities :
            e = [held[i] EXCEPT !.version = changes', !.text = TRUE]
      BY <1>1, <1>2 DEF Entities
    <3>2. e.version = changes' /\ e.zone = held[i].zone  BY <1>2, <3>1 DEF Entities
    <3> QED  BY <2>2, <3>1, <3>2 DEF UpdateItemDate
  <2> QED  BY <2>1, <2>2
<1>4. /\ held' = [held EXCEPT ![i] = e] /\ (Persists(i, e) \/ NotPersisted)
      /\ UNCHANGED <<erased, leftover>>
  BY <1>3 DEF ChangeItem
<1>5. i \notin erased  BY <1>1 DEF PersonalInv, ItemKept, ItemOK
<1>6. PersonalTypeOK' /\ \A x \in Items : ItemKept(x)'
  BY <1>1, <1>3, <1>4, <1>5, WritesKeep
<1>7. OneZone'
  <2>1. held'[i] = e /\ \A x \in Items \ {i} : held'[x] = held[x]
    BY <1>4 DEF PersonalInv, PersonalTypeOK
  <2> QED  BY <1>1, <1>3, <1>4, <2>1 DEF PersonalInv, OneZone, Known
<1> QED  BY <1>6, <1>7 DEF PersonalInv

LEMMA DeleteKeeps ==
  ASSUME PersonalInv, NEW i \in Items, Deletes(i)
  PROVE  PersonalInv'
<1>1. /\ held[i] # NoItem /\ held' = [held EXCEPT ![i] = NoItem] /\ changes' = changes
  BY DEF Deletes, DeleteItem, DeleteItemFails, Known
<1>2. /\ held' \in [Items -> Entities \cup {NoItem}] /\ held'[i] = NoItem
      /\ \A x \in Items \ {i} : held'[x] = held[x]
  BY <1>1 DEF PersonalInv, PersonalTypeOK
<1>3. CASE DeleteItem(i)
  <2>1. /\ itemRows' = [itemRows EXCEPT ![i] = NoItem]
        /\ erased' = erased \cup {i} /\ acks' = [acks EXCEPT ![i] = 0]
        /\ leftover' = leftover \ {i}
    BY <1>3 DEF DeleteItem
  <2>2. PersonalTypeOK' /\ itemRows'[i] = NoItem /\ acks'[i] = 0
    BY <1>1, <1>2, <2>1, PersonalAssumption DEF PersonalInv, PersonalTypeOK
  <2>3. \A x \in Items \ {i} : ItemKept(x)'
    <3>1. \A x \in Items \ {i} : itemRows'[x] = itemRows[x] /\ acks'[x] = acks[x]
      BY <2>1 DEF PersonalInv, PersonalTypeOK
    <3> QED  BY <1>1, <1>2, <2>1, <3>1, OthersKept
  <2>4. ItemKept(i)'  BY <1>2, <2>2 DEF ItemKept, ItemOK
  <2>5. OneZone'
    BY <1>2, <2>1 DEF PersonalInv, OneZone, Known
  <2> QED  BY <2>2, <2>3, <2>4, <2>5 DEF PersonalInv
<1>4. CASE DeleteItemFails(i)
  <2>1. UNCHANGED <<itemRows, acks, erased>> /\ leftover' = leftover \cup {i}
    BY <1>4 DEF DeleteItemFails
  <2>2. PersonalTypeOK'
    BY <1>1, <1>2, <2>1, PersonalAssumption DEF PersonalInv, PersonalTypeOK
  <2>3. \A x \in Items \ {i} : ItemKept(x)'  BY <1>1, <1>2, <2>1, OthersKept
  <2>4. ItemKept(i)'
    BY <1>1, <1>2, <2>1 DEF PersonalInv, ItemKept, ItemOK
  <2>5. OneZone'
    BY <1>2, <2>1 DEF PersonalInv, OneZone, Known
  <2> QED  BY <2>2, <2>3, <2>4, <2>5 DEF PersonalInv
<1> QED  BY <1>3, <1>4 DEF Deletes

(* A restart: what comes back was there, but for what a delete left over.  *)
LEMMA RebuildKeeps ==
  ASSUME PersonalInv, Rebuild
  PROVE  PersonalInv'
<1>1. held' = itemRows /\ UNCHANGED <<itemRows, changes, acks, erased, leftover>>
  BY DEF Rebuild
<1>2. PersonalTypeOK'  BY <1>1 DEF PersonalInv, PersonalTypeOK
<1>3. \A i \in Items : itemRows[i] # NoItem => itemRows[i].version \in Nat
  BY ItemTypes DEF PersonalInv, Stored, Entities
<1>4. \A i \in Items : ItemKept(i)'
  BY <1>1, <1>3 DEF PersonalInv, ItemKept, ItemOK
<1>5. \A i \in Items \ leftover : itemRows[i] # NoItem =>
         held[i] # NoItem /\ held[i].zone = itemRows[i].zone
  BY DEF PersonalInv, ItemKept, ItemOK
<1>6. OneZone'  BY <1>1, <1>5 DEF PersonalInv, OneZone, Known
<1> QED  BY <1>2, <1>4, <1>6 DEF PersonalInv

LEMMA PersonalStep == PersonalInv /\ [PersonalNext]_personalVars => PersonalInv'
<1> SUFFICES ASSUME PersonalInv, [PersonalNext]_personalVars PROVE PersonalInv'
  OBVIOUS
<1>1. ASSUME NEW i \in Items,
             NotesTool(i) \/ ContactsTool(i) \/ TasksTool(i) \/ CalendarTool(i)
      PROVE  PersonalInv'
  <2>1. \/ \E zone \in BOOLEAN : CreateItem(i, zone)
        \/ UpdateItem(i) \/ UpdateItemDate(i) \/ CompleteTask(i) \/ Deletes(i)
    BY <1>1 DEF NotesTool, ContactsTool, TasksTool, CalendarTool
  <2> QED  BY <2>1, CreateKeeps, ChangeKeeps, DeleteKeeps
<1>2. CASE Rebuild  BY <1>2, RebuildKeeps
<1>3. CASE UNCHANGED personalVars
  BY <1>3 DEF personalVars, PersonalInv, PersonalTypeOK, OneZone, Known, ItemKept
<1> QED  BY <1>1, <1>2, <1>3 DEF PersonalNext

(* The invariant behind PersonalSafe: a row is its entity or an older      *)
(* state of it in the same zone, the one last acknowledged; a row alone is *)
(* what a failed delete has left over.                                     *)
THEOREM PersonalInvariance ==
  PersonalInit /\ [][PersonalNext]_personalVars => []PersonalInv
<1>1. PersonalInit => PersonalInv
  BY PersonalAssumption DEF PersonalInit, PersonalInv, PersonalTypeOK, OneZone, Known,
     ItemKept, ItemOK
<1> QED  BY <1>1, PersonalStep, PTL

(* Whatever writes and deletes fail, and whenever the program restarts:    *)
(* what the four stores acknowledged is there, what they reported deleted  *)
(* is not, and the events they hold can be compared (tools/storage.py).    *)
THEOREM PersonalIsSafe ==
  PersonalInit /\ [][PersonalNext]_personalVars => []PersonalSafe
<1>1. PersonalInv => PersonalSafe
  <2> SUFFICES ASSUME PersonalInv PROVE AckedSurvives /\ ErasedStaysErased
    BY DEF PersonalInv, PersonalSafe
  <2>1. \A i \in Items : acks[i] \in Nat  BY ItemTypes DEF PersonalInv
  <2>2. AckedSurvives
    BY <2>1 DEF PersonalInv, AckedSurvives, ItemKept, ItemOK, Known
  <2>3. ErasedStaysErased
    BY DEF PersonalInv, PersonalTypeOK, ErasedStaysErased, ItemKept, ItemOK, Known
  <2> QED  BY <2>2, <2>3
<1> QED  BY <1>1, PersonalInvariance, PTL
=============================================================================

----------------------------- MODULE MCPersonal -----------------------------
(* The user's own data: the reminders, and the notes, tasks, contacts and    *)
(* events.  The stores share no state, so a behaviour runs one of them.      *)
EXTENDS ReminderScheduler, PersonalStores

CONSTANTS loop, other,           \* who polls for due reminders
          n1, d1, c1, v1, v2     \* a note, a task, a contact and two events

VARIABLE part   \* the component that runs

allVars == <<part, vars, personalVars>>

MCKindOf ==
  [i \in {n1, d1, c1, v1, v2} |->
     CASE i = n1 -> "note" [] i = d1 -> "task" [] i = c1 -> "contact" [] OTHER -> "event"]

UserDataInit == Init /\ PersonalInit /\ part \in {"reminders", "items"}

UserDataNext ==
  \/ part = "reminders" /\ Next /\ UNCHANGED <<part, personalVars>>
  \/ part = "items" /\ PersonalNext /\ UNCHANGED <<part, vars>>

(* Nothing of the scheduler's fairness is enabled before it runs.          *)
UserDataSpec == UserDataInit /\ [][UserDataNext]_allVars /\ Fairness
=============================================================================

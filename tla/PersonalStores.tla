---------------------------- MODULE PersonalStores ----------------------------
(***************************************************************************)
(* The stores behind the notes, tasks, contacts and calendar tools: a      *)
(* dictionary that is the working copy, a table of JSON itemRows written at    *)
(* every change, and a rebuild from the itemRows at start.  A tool call runs   *)
(* on the event loop without awaiting, so calls do not interleave; what    *)
(* can go wrong is a write that fails after the dictionary changed, an     *)
(* argument that cannot be turned into JSON, and a comparison of dates     *)
(* with and without a zone.                                                *)
(* An entity is the number of the last change in it, whether its dates     *)
(* carry a zone, and whether an update put a text in place of a date.      *)
(***************************************************************************)
EXTENDS Naturals, FiniteSets

CONSTANTS Items, KindOf, NoItem, MaxChanges

Kinds == {"note", "task", "contact", "event"}

ASSUME PersonalAssumption ==
  /\ KindOf \in [Items -> Kinds] /\ MaxChanges \in Nat
  /\ NoItem \notin [version : Nat, zone : BOOLEAN, text : BOOLEAN]

VARIABLES held, itemRows, changes, acks, erased, leftover
personalVars == <<held, itemRows, changes, acks, erased, leftover>>

Entities == [version : 1..MaxChanges, zone : BOOLEAN, text : BOOLEAN]

PersonalTypeOK ==
  /\ held \in [Items -> Entities \cup {NoItem}]
  /\ itemRows   \in [Items -> {e \in Entities : ~e.text} \cup {NoItem}]
  /\ changes \in 0..MaxChanges
  /\ acks \in [Items -> 0..MaxChanges]
  /\ erased \subseteq Items /\ leftover \subseteq Items

PersonalInit ==
  /\ held = [i \in Items |-> NoItem] /\ itemRows = [i \in Items |-> NoItem]
  /\ changes = 0 /\ acks = [i \in Items |-> 0] /\ erased = {}
  /\ leftover = {}

-----------------------------------------------------------------------------
Changes == changes < MaxChanges /\ changes' = changes + 1
Known(i) == held[i] # NoItem

(* storage.save: to_dict calls isoformat on every date, then put upserts.  *)
Serialises(e) == ~e.text

(* Mutant: a text date is stored as it is.                                 *)
PersistsText(i, e) ==
  /\ itemRows' = [itemRows EXCEPT ![i] = e]
  /\ acks' = [acks EXCEPT ![i] = e.version]

Persists(i, e) ==
  /\ Serialises(e)
  /\ itemRows' = [itemRows EXCEPT ![i] = e]
  /\ acks' = [acks EXCEPT ![i] = e.version]
(* The row is not written: the table is locked or the disk is full, or the *)
(* entity has no JSON form.  The call raises.                              *)
NotPersisted == UNCHANGED <<itemRows, acks>>

(* Mutant: the new event is not compared with the stored ones.             *)
ComparesNothing(i, zone) == FALSE

(* CalendarStore.find_conflicts orders the new event against every stored  *)
(* one; Python does not order a date with a zone and one without.  (An     *)
(* event with a text in it raises too, unless its dates settle the matter.)*)
Incomparable(i, zone) ==
  /\ KindOf[i] = "event"
  /\ \E e \in Items \ {i} : /\ KindOf[e] = "event" /\ Known(e)
                            /\ zone # held[e].zone

(* The store's create, after the tool has parsed the dates; ids are never  *)
(* used twice.                                                             *)
CreateItem(i, zone) ==
  /\ ~Known(i) /\ itemRows[i] = NoItem /\ i \notin erased
  /\ ~Incomparable(i, zone) /\ Changes
  /\ LET e == [version |-> changes', zone |-> zone, text |-> FALSE]
     IN  held' = [held EXCEPT ![i] = e] /\ (Persists(i, e) \/ NotPersisted)
  /\ UNCHANGED <<erased, leftover>>

(* Mutant: the change is written before it is made.                        *)
ChangeItemEarly(i, e) ==
  /\ itemRows' = [itemRows EXCEPT ![i] = held[i]]
  /\ acks' = [acks EXCEPT ![i] = e.version]
  /\ held' = [held EXCEPT ![i] = e] /\ UNCHANGED <<erased, leftover>>

(* The store's update and save: the entity in the dictionary is changed in *)
(* place, then written.                                                    *)
ChangeItem(i, e) ==
  /\ held' = [held EXCEPT ![i] = e] /\ (Persists(i, e) \/ NotPersisted)
  /\ UNCHANGED <<erased, leftover>>

(* _update_*: the arguments are set as attributes, a date as the text it   *)
(* came in.  _complete_task sets the status and saves.                     *)
UpdateItem(i) ==
  /\ Known(i) /\ Changes /\ ChangeItem(i, [held[i] EXCEPT !.version = changes'])
UpdateItemDate(i) ==
  /\ Known(i) /\ Changes
  /\ ChangeItem(i, [held[i] EXCEPT !.version = changes', !.text = TRUE])
CompleteTask(i) ==
  /\ Known(i) /\ Changes
  /\ ChangeItem(i, [held[i] EXCEPT !.version = changes'])

(* Mutant: only the working copy forgets the entity.                       *)
DeleteItemRowKept(i) ==
  /\ Known(i) /\ held' = [held EXCEPT ![i] = NoItem]
  /\ erased' = erased \cup {i} /\ acks' = [acks EXCEPT ![i] = 0]
  /\ UNCHANGED <<itemRows, changes, leftover>>

DeleteItem(i) ==
  /\ Known(i) /\ held' = [held EXCEPT ![i] = NoItem]
  /\ itemRows' = [itemRows EXCEPT ![i] = NoItem]
  /\ erased' = erased \cup {i} /\ acks' = [acks EXCEPT ![i] = 0]
  /\ leftover' = leftover \ {i} /\ UNCHANGED changes
(* The row stays: the call raises, the dictionary has forgotten.           *)
DeleteItemFails(i) ==
  /\ Known(i) /\ held' = [held EXCEPT ![i] = NoItem]
  /\ leftover' = leftover \cup {i}
  /\ UNCHANGED <<itemRows, changes, acks, erased>>

(* storage.rebuild                                                         *)
Rebuild == held' = itemRows /\ UNCHANGED <<itemRows, changes, acks, erased, leftover>>

(* What each tool does with an entity of its own; reading, searching and   *)
(* listing change nothing.                                                 *)
Deletes(i) == DeleteItem(i) \/ DeleteItemFails(i)
NotesTool(i) ==
  KindOf[i] = "note" /\ (CreateItem(i, TRUE) \/ UpdateItem(i) \/ Deletes(i))
ContactsTool(i) ==
  KindOf[i] = "contact" /\ (CreateItem(i, TRUE) \/ UpdateItem(i) \/ Deletes(i))
TasksTool(i) ==
  /\ KindOf[i] = "task"
  /\ \/ \E zone \in BOOLEAN : CreateItem(i, zone)
     \/ UpdateItem(i) \/ UpdateItemDate(i) \/ CompleteTask(i) \/ Deletes(i)
CalendarTool(i) ==
  /\ KindOf[i] = "event"
  /\ \/ \E zone \in BOOLEAN : CreateItem(i, zone)
     \/ UpdateItem(i) \/ UpdateItemDate(i) \/ Deletes(i)

PersonalNext ==
  \/ \E i \in Items : NotesTool(i) \/ ContactsTool(i) \/ TasksTool(i) \/ CalendarTool(i)
  \/ Rebuild

-----------------------------------------------------------------------------
(* What a tool call reported as stored is in the table, or something newer *)
(* of the same entity, until a delete was reported: a restart loses no     *)
(* acknowledged note, task, contact or event, whatever writes failed.      *)
AckedSurvives ==
  \A i \in Items : acks[i] # 0 =>
     /\ itemRows[i] # NoItem
     /\ itemRows[i].version >= acks[i]
     /\ Known(i) => held[i].version >= itemRows[i].version

(* An entity whose delete was reported is in neither copy and no failed    *)
(* write, later change or restart brings it back.                          *)
ErasedStaysErased ==
  \A i \in erased : ~Known(i) /\ itemRows[i] = NoItem

(* The calendar never holds events with and without a zone side by side,   *)
(* through restarts, failed writes and updates with texts, except for one  *)
(* whose delete failed: find_conflicts would raise for every later event.  *)
OneZone ==
  \A e, f \in {i \in Items \ leftover : KindOf[i] = "event" /\ Known(i)} :
     held[e].zone = held[f].zone

(* What the four stores acknowledged is there after a restart, what they   *)
(* deleted is not, and the events they hold can be compared.               *)
PersonalSafe ==
  /\ PersonalTypeOK /\ AckedSurvives /\ ErasedStaysErased /\ OneZone
=============================================================================

----------------------------- MODULE MachineProofs -----------------------------
(* Proofs about what the assistant does to its machine: the checkpoint       *)
(* store, the processes of its commands, starting processes with their lock  *)
(* and key, the setup, the documents it writes and reads, and what it asks   *)
(* of the internet.                                                          *)
EXTENDS CheckpointStore, ShellCommands, ProcessStart, ProductSetup, Documents,
        InternetAccess, Integers, FiniteSetTheorems, WellFoundedInduction, TLAPS

(* What the checkpoint store keeps of its acknowledged saves, for any number *)
(* of ids, generations, executions per id and crashes, with writes that fail *)
(* and old copies of files that come back.                                   *)

(* Memory and index never fall behind what was acknowledged: the index is    *)
(* what the next process will believe.                                       *)
Ahead(e) ==
  /\ index.entries[e].gen >= acked[e].gen
  /\ proc = "up" => anchor[e].gen >= acked[e].gen
  /\ cache[e] # None => cache[e].gen >= acked[e].gen

(* No record is of an execution that has not been started, ...               *)
Started(e) ==
  /\ acked[e].run <= runs[e] /\ client[e].run <= runs[e] /\ file[e].run <= runs[e]
  /\ \A c \in written[e] : c.run <= runs[e]

(* ... and a record is at the generation of its latest acknowledged save or  *)
(* past it.                                                                  *)
Onward(e) ==
  client[e] # None /\ acked[e].run = client[e].run => acked[e].gen <= client[e].gen

(* A record whose latest save was acknowledged is in file and index, on disk *)
(* and in memory.                                                            *)
Settled(e) ==
  proc = "up" /\ client[e] # None /\ client[e] = acked[e] =>
    anchor[e] = acked[e] /\ index.entries[e] = acked[e] /\ file[e] = acked[e]

Sane(e) == Ahead(e) /\ Started(e) /\ Onward(e) /\ Settled(e)

StoreInv == TypeOK /\ \A e \in Ids : Sane(e)

(* What a step does to the files, as AckedNotOverwritten has it.             *)
NewerOnly ==
  \A e \in Ids \ rolled' : file'[e] # file[e] => file'[e].gen > acked[e].gen

-----------------------------------------------------------------------------
(* Checkpoints *)

LEMMA MaybeParts ==
  ASSUME NEW c \in Maybe
  PROVE  /\ c.gen \in Nat /\ c.run \in Nat
         /\ c \in Checkpoint <=> c # None
         /\ c # None => c.gen >= 1 /\ c.run >= 1
BY StoreAssumption DEF Maybe, Checkpoint, None

LEMMA NoneParts == None \in Maybe /\ None.gen = 0 /\ None.run = 0
BY DEF Maybe, None

(* Every id after a pruning holds what it held, or nothing.                  *)
LEMMA PruningEffect ==
  ASSUME NEW c \in [Ids -> Maybe], NEW spare, NEW d \in Prunings(c, spare)
  PROVE  /\ d \in [Ids -> Maybe]
         /\ \A e \in Ids : d[e] = c[e] \/ d[e] = None
BY NoneParts DEF Prunings

(* The checkpoint a record builds next is of a new execution, or of the same *)
(* one and a generation later: never the one acknowledged last.              *)
LEMMA BuildsNew ==
  ASSUME TypeOK, NEW e \in Ids, Sane(e), NEW c \in Builds(e), c \in Checkpoint
  PROVE  /\ c \in Maybe /\ c # None /\ c # acked[e]
         /\ c.run <= runs[e] + 1 /\ c.run \in Nat
         /\ acked[e].run = c.run => acked[e].gen <= c.gen
<1>1. client[e] \in Maybe /\ acked[e] \in Maybe /\ runs[e] \in Nat
  BY StoreAssumption DEF TypeOK
<1>2. c \in Maybe /\ c # None /\ c.run \in Nat /\ c.gen \in Nat
  BY MaybeParts DEF Maybe
<1>3. CASE client[e] = None
  <2>1. c.run = runs[e] + 1  BY <1>3 DEF Builds
  <2>2. acked[e].run <= runs[e]  BY DEF Sane, Started
  <2> QED  BY <1>1, <1>2, <2>1, <2>2, MaybeParts
<1>4. CASE client[e] # None
  <2>1. client[e] \in Checkpoint  BY <1>1, <1>4, MaybeParts
  <2>2. c.run = client[e].run /\ c.gen = client[e].gen + 1
    BY <1>4, <2>1 DEF Builds, Checkpoint
  <2>3. /\ client[e].run <= runs[e]
        /\ acked[e].run = client[e].run => acked[e].gen <= client[e].gen
    BY <1>4 DEF Sane, Started, Onward
  <2> QED  BY <1>1, <1>2, <2>2, <2>3, MaybeParts
<1> QED  BY <1>3, <1>4
-----------------------------------------------------------------------------
(* What the parts of a step keep *)

(* A record of which nothing is touched stays sane, whatever is pruned from  *)
(* the cache and whichever of index and entries is written.                  *)
LEMMA OthersStaySane ==
  ASSUME TypeOK, NEW x \in Ids, Sane(x), proc = "up", proc' = "up",
         client'[x] = client[x], acked'[x] = acked[x], file'[x] = file[x],
         written'[x] = written[x], anchor'[x] = anchor[x], runs'[x] = runs[x],
         cache'[x] = cache[x] \/ cache'[x] = None,
         index'.entries[x] = index.entries[x] \/ index'.entries[x] = anchor[x]
  PROVE  Sane(x)'
<1>1. Ahead(x)'  BY DEF Sane, Ahead
<1>2. Started(x)'  BY DEF Sane, Started
<1>3. Onward(x)'  BY DEF Sane, Onward
<1>4. Settled(x)'  BY DEF Sane, Settled
<1> QED  BY <1>1, <1>2, <1>3, <1>4 DEF Sane

(* An attempt at a save gives the record a checkpoint that is not            *)
(* acknowledged yet and starts at most one execution.                        *)
LEMMA AttemptTypes ==
  ASSUME TypeOK, NEW e \in Ids, NEW c, Attempts(e, c)
  PROVE  /\ client' \in [Ids -> Maybe] /\ runs' \in [Ids -> 0..MaxRuns]
         /\ client'[e] = c /\ c.run <= runs'[e] /\ runs[e] <= runs'[e]
         /\ \A x \in Ids \ {e} : client'[x] = client[x] /\ runs'[x] = runs[x]
<1>1. c \in Maybe /\ c.run \in 1..MaxRuns  BY DEF Attempts, Maybe, Checkpoint
<1>2. runs[e] \in 0..MaxRuns /\ runs \in [Ids -> 0..MaxRuns]  BY DEF TypeOK
<1>3. runs' = [runs EXCEPT ![e] = IF c.run > @ THEN c.run ELSE @]  BY DEF Attempts
<1>4. runs' \in [Ids -> 0..MaxRuns] /\ c.run <= runs'[e] /\ runs[e] <= runs'[e]
  BY <1>1, <1>2, <1>3, StoreAssumption
<1>5. client' \in [Ids -> Maybe] /\ client'[e] = c
  BY <1>1 DEF Attempts, TypeOK
<1>6. \A x \in Ids \ {e} : client'[x] = client[x] /\ runs'[x] = runs[x]
  BY DEF Attempts, TypeOK
<1> QED  BY <1>4, <1>5, <1>6

(* Replacing a file changes that file only, and its content is on record.    *)
LEMMA ReplaceTypes ==
  ASSUME TypeOK, NEW e \in Ids, NEW c \in Checkpoint, Replaces(e, c)
  PROVE  /\ file' \in [Ids -> Maybe] /\ written' \in [Ids -> SUBSET Checkpoint]
         /\ rolled' \subseteq Ids
         /\ file'[e] = c /\ written'[e] = written[e] \cup {c}
         /\ \A x \in Ids \ {e} : file'[x] = file[x] /\ written'[x] = written[x]
BY DEF Replaces, TypeOK, Maybe

(* Attempted, and not acknowledged: the record is sane when index, entries   *)
(* and cache are at least as new as the last acknowledged save.              *)
LEMMA AttemptStaysSane ==
  ASSUME TypeOK, NEW e \in Ids, Sane(e), NEW c \in Builds(e), Attempts(e, c),
         acked'[e] = acked[e],
         \/ file'[e] = file[e] /\ written'[e] = written[e]
         \/ file'[e] = c /\ written'[e] = written[e] \cup {c},
         Ahead(e)'
  PROVE  Sane(e)'
<1>1. c \in Checkpoint  BY DEF Attempts
<1>2. /\ c \in Maybe /\ c # None /\ c # acked[e] /\ c.run \in Nat
      /\ acked[e].run = c.run => acked[e].gen <= c.gen
  BY <1>1, BuildsNew
<1>3. client'[e] = c /\ c.run <= runs'[e] /\ runs[e] <= runs'[e]
  BY AttemptTypes
<1>4. runs[e] \in Nat /\ runs'[e] \in Nat
  BY AttemptTypes, StoreAssumption DEF TypeOK
<1>5. Onward(e)' /\ Settled(e)'  BY <1>2, <1>3 DEF Onward, Settled
<1>6. Started(e)'
  <2>1. acked[e].run \in Nat /\ file[e].run \in Nat
    BY MaybeParts DEF TypeOK
  <2>2. \A d \in written[e] : d.run \in Nat
    BY MaybeParts DEF TypeOK, Maybe
  <2>3. acked[e].run <= runs[e] /\ file[e].run <= runs[e]
        /\ \A d \in written[e] : d.run <= runs[e]
    BY DEF Sane, Started
  <2>4. acked'[e].run <= runs'[e] /\ client'[e].run <= runs'[e]
    BY <1>3, <1>4, <2>1, <2>3
  <2>5. file'[e].run <= runs'[e]  BY <1>3, <1>4, <2>1, <2>3
  <2>6. \A d \in written'[e] : d.run <= runs'[e]
    BY <1>3, <1>4, <2>2, <2>3
  <2> QED  BY <2>4, <2>5, <2>6 DEF Started
<1> QED  BY <1>5, <1>6 DEF Sane

(* A save that is not stale is newer than what was acknowledged.             *)
LEMMA FreshIsNewer ==
  ASSUME TypeOK, NEW e \in Ids, Ahead(e), proc = "up",
         NEW c \in Checkpoint, ~Stale(e, c)
  PROVE  c.gen > acked[e].gen /\ c.gen \in Nat /\ acked[e].gen \in Nat
<1>1. c.gen \in Nat /\ acked[e].gen \in Nat /\ anchor[e].gen \in Nat
      /\ cache[e].gen \in Nat
  BY MaybeParts DEF TypeOK, Maybe
<1>2. c.gen > anchor[e].gen  BY <1>1 DEF Stale
<1>3. anchor[e].gen >= acked[e].gen  BY DEF Ahead
<1> QED  BY <1>1, <1>2, <1>3

-----------------------------------------------------------------------------
(* Every action keeps the invariant and writes only newer files              *)

LEMMA SaveKeeps ==
  ASSUME StoreInv, NEW e \in Ids, Save(e)
  PROVE  StoreInv' /\ NewerOnly
<1> USE DEF StoreInv
<1>1. PICK c \in Builds(e) :
        /\ Attempts(e, c) /\ ~Stale(e, c)
        /\ cache' \in Prunings(Cached(e, c), {e})
        /\ Replaces(e, c)
        /\ anchor' = Anchored(e, c)
        /\ index' = [exists |-> TRUE, entries |-> anchor']
        /\ acked' = [acked EXCEPT ![e] = c]
        /\ UNCHANGED <<proc, crashes>>
  BY DEF Save
<1>2. c \in Checkpoint /\ proc = "up" /\ proc' = "up"  BY <1>1 DEF Attempts
<1>3. c \in Maybe  BY <1>2 DEF Maybe
<1>4. c.gen > acked[e].gen /\ c.gen \in Nat  BY <1>1, <1>2, FreshIsNewer DEF Sane
<1>5. /\ anchor' \in [Ids -> Maybe] /\ anchor'[e] = c
      /\ \A x \in Ids \ {e} : anchor'[x] = anchor[x]
  BY <1>1, <1>3 DEF Anchored, TypeOK
<1>6. /\ acked' \in [Ids -> Maybe] /\ acked'[e] = c
      /\ \A x \in Ids \ {e} : acked'[x] = acked[x]
  BY <1>1, <1>3 DEF TypeOK
<1>7. index' \in [exists: BOOLEAN, entries: [Ids -> Maybe]]
      /\ index'.entries = anchor'
  BY <1>1, <1>5
<1>8. /\ Cached(e, c) \in [Ids -> Maybe] /\ Cached(e, c)[e] = c
      /\ \A x \in Ids \ {e} : Cached(e, c)[x] = cache[x]
  BY <1>3 DEF Cached, TypeOK
<1>9. /\ cache' \in [Ids -> Maybe]
      /\ cache'[e] = c \/ cache'[e] = None
      /\ \A x \in Ids \ {e} : cache'[x] = cache[x] \/ cache'[x] = None
  <2>1. /\ cache' \in [Ids -> Maybe]
        /\ \A x \in Ids : cache'[x] = Cached(e, c)[x] \/ cache'[x] = None
    BY <1>1, <1>8, PruningEffect
  <2> QED  BY <1>8, <2>1
<1>10. /\ client' \in [Ids -> Maybe] /\ runs' \in [Ids -> 0..MaxRuns]
       /\ client'[e] = c /\ c.run <= runs'[e] /\ runs[e] <= runs'[e]
       /\ \A x \in Ids \ {e} : client'[x] = client[x] /\ runs'[x] = runs[x]
  BY <1>1, AttemptTypes
<1>11. /\ file' \in [Ids -> Maybe] /\ written' \in [Ids -> SUBSET Checkpoint]
       /\ rolled' \subseteq Ids
       /\ file'[e] = c /\ written'[e] = written[e] \cup {c}
       /\ \A x \in Ids \ {e} : file'[x] = file[x] /\ written'[x] = written[x]
  BY <1>1, <1>2, ReplaceTypes
<1>12. TypeOK'
  BY <1>1, <1>5, <1>6, <1>7, <1>9, <1>10, <1>11 DEF TypeOK
<1>13. ASSUME NEW x \in Ids \ {e}  PROVE Sane(x)'
  <2>1. index'.entries[x] = anchor[x]  BY <1>5, <1>7
  <2> QED  BY <1>2, <1>5, <1>6, <1>9, <1>10, <1>11, <2>1, OthersStaySane
<1>14. Sane(e)'
  <2>1. Ahead(e)'  BY <1>4, <1>5, <1>6, <1>7, <1>9 DEF Ahead
  <2>2. Onward(e)' /\ Settled(e)'
    BY <1>4, <1>5, <1>6, <1>7, <1>10, <1>11 DEF Onward, Settled
  <2>3. Started(e)'
    <3>1. \A d \in written[e] : d.run \in Nat /\ d.run <= runs[e]
      BY MaybeParts DEF TypeOK, Maybe, Sane, Started
    <3>2. runs[e] \in Nat /\ runs'[e] \in Nat
      BY <1>10, StoreAssumption DEF TypeOK
    <3>3. \A d \in written'[e] : d.run <= runs'[e]
      BY <1>10, <1>11, <3>1, <3>2
    <3> QED  BY <1>6, <1>10, <1>11, <3>3 DEF Started
  <2> QED  BY <2>1, <2>2, <2>3 DEF Sane
<1>15. NewerOnly  BY <1>4, <1>11 DEF NewerOnly
<1> QED  BY <1>12, <1>13, <1>14, <1>15

LEMMA SaveRefusedKeeps ==
  ASSUME StoreInv, NEW e \in Ids, SaveRefused(e)
  PROVE  StoreInv' /\ NewerOnly
<1> USE DEF StoreInv
<1>1. PICK c \in Builds(e) :
        Attempts(e, c) /\ UNCHANGED <<proc, cache, anchor, disks, acked, crashes>>
  BY DEF SaveRefused
<1>2. proc = "up" /\ proc' = "up"  BY <1>1 DEF Attempts
<1>3. /\ client' \in [Ids -> Maybe] /\ runs' \in [Ids -> 0..MaxRuns]
      /\ \A x \in Ids \ {e} : client'[x] = client[x] /\ runs'[x] = runs[x]
  BY <1>1, AttemptTypes
<1>4. TypeOK'  BY <1>1, <1>3 DEF TypeOK, disks
<1>5. ASSUME NEW x \in Ids \ {e}  PROVE Sane(x)'
  BY <1>1, <1>2, <1>3, OthersStaySane DEF disks
<1>6. Sane(e)'
  <2>1. Ahead(e)'  BY <1>1 DEF Sane, Ahead, disks
  <2>2. TypeOK /\ Sane(e) /\ Attempts(e, c)  BY <1>1
  <2>3. /\ acked'[e] = acked[e]
        /\ file'[e] = file[e] /\ written'[e] = written[e]
    BY <1>1 DEF disks
  <2> QED  BY <2>1, <2>2, <2>3, AttemptStaysSane
<1>7. NewerOnly  BY <1>1 DEF NewerOnly, disks
<1> QED  BY <1>4, <1>5, <1>6, <1>7

LEMMA FileWriteFailsKeeps ==
  ASSUME StoreInv, NEW e \in Ids, FileWriteFails(e)
  PROVE  StoreInv' /\ NewerOnly
<1> USE DEF StoreInv
<1>1. PICK c \in Builds(e) :
        /\ Attempts(e, c) /\ ~Stale(e, c) /\ cache' = Cached(e, c)
        /\ UNCHANGED <<proc, anchor, disks, acked, crashes>>
  BY DEF FileWriteFails
<1>2. c \in Checkpoint /\ c \in Maybe /\ proc = "up" /\ proc' = "up"
  BY <1>1 DEF Attempts, Maybe
<1>3. /\ client' \in [Ids -> Maybe] /\ runs' \in [Ids -> 0..MaxRuns]
      /\ \A x \in Ids \ {e} : client'[x] = client[x] /\ runs'[x] = runs[x]
  BY <1>1, AttemptTypes
<1>4. /\ cache' \in [Ids -> Maybe] /\ cache'[e] = c
      /\ \A x \in Ids \ {e} : cache'[x] = cache[x]
  BY <1>1, <1>2 DEF Cached, TypeOK
<1>5. TypeOK'  BY <1>1, <1>3, <1>4 DEF TypeOK, disks
<1>6. ASSUME NEW x \in Ids \ {e}  PROVE Sane(x)'
  BY <1>1, <1>2, <1>3, <1>4, OthersStaySane DEF disks
<1>7. Sane(e)'
  <2>1. c.gen > acked[e].gen /\ c.gen \in Nat /\ acked[e].gen \in Nat
    BY <1>1, <1>2, FreshIsNewer DEF Sane
  <2>2. Ahead(e)'  BY <1>1, <1>4, <2>1 DEF Sane, Ahead, disks
  <2>3. TypeOK /\ Sane(e) /\ Attempts(e, c)  BY <1>1
  <2>4. /\ acked'[e] = acked[e]
        /\ file'[e] = file[e] /\ written'[e] = written[e]
    BY <1>1 DEF disks
  <2> QED  BY <2>2, <2>3, <2>4, AttemptStaysSane
<1>8. NewerOnly  BY <1>1 DEF NewerOnly, disks
<1> QED  BY <1>5, <1>6, <1>7, <1>8

LEMMA IndexWriteFailsKeeps ==
  ASSUME StoreInv, NEW e \in Ids, IndexWriteFails(e)
  PROVE  StoreInv' /\ NewerOnly
<1> USE DEF StoreInv
<1>1. PICK c \in Builds(e) :
        /\ Attempts(e, c) /\ ~Stale(e, c)
        /\ cache' = Cached(e, c)
        /\ Replaces(e, c)
        /\ anchor' = Anchored(e, c)
        /\ index' \in {index, [exists |-> TRUE, entries |-> anchor']}
        /\ UNCHANGED <<proc, acked, crashes>>
  BY DEF IndexWriteFails
<1>2. c \in Checkpoint /\ c \in Maybe /\ proc = "up" /\ proc' = "up"
  BY <1>1 DEF Attempts, Maybe
<1>3. /\ client' \in [Ids -> Maybe] /\ runs' \in [Ids -> 0..MaxRuns]
      /\ \A x \in Ids \ {e} : client'[x] = client[x] /\ runs'[x] = runs[x]
  BY <1>1, AttemptTypes
<1>4. /\ cache' \in [Ids -> Maybe] /\ cache'[e] = c
      /\ \A x \in Ids \ {e} : cache'[x] = cache[x]
  BY <1>1, <1>2 DEF Cached, TypeOK
<1>5. /\ anchor' \in [Ids -> Maybe] /\ anchor'[e] = c
      /\ \A x \in Ids \ {e} : anchor'[x] = anchor[x]
  BY <1>1, <1>2 DEF Anchored, TypeOK
<1>6. /\ file' \in [Ids -> Maybe] /\ written' \in [Ids -> SUBSET Checkpoint]
      /\ rolled' \subseteq Ids
      /\ file'[e] = c /\ written'[e] = written[e] \cup {c}
      /\ \A x \in Ids \ {e} : file'[x] = file[x] /\ written'[x] = written[x]
  BY <1>1, <1>2, ReplaceTypes
<1>7. /\ index' \in [exists: BOOLEAN, entries: [Ids -> Maybe]]
      /\ index' = index \/ index'.entries = anchor'
  <2>1. CASE index' = index  BY <2>1 DEF TypeOK
  <2>2. CASE index' = [exists |-> TRUE, entries |-> anchor']  BY <1>5, <2>2
  <2> QED  BY <1>1, <2>1, <2>2
<1>8. TypeOK'  BY <1>1, <1>3, <1>4, <1>5, <1>6, <1>7 DEF TypeOK
<1>9. c.gen > acked[e].gen /\ c.gen \in Nat /\ acked[e].gen \in Nat
  BY <1>1, <1>2, FreshIsNewer DEF Sane
<1>10. ASSUME NEW x \in Ids \ {e}  PROVE Sane(x)'
  <2>1. index'.entries[x] = index.entries[x] \/ index'.entries[x] = anchor[x]
    BY <1>5, <1>7
  <2> QED  BY <1>1, <1>2, <1>3, <1>4, <1>5, <1>6, <2>1, OthersStaySane
<1>11. Sane(e)'
  <2>1. Ahead(e)'
    <3>1. index'.entries[e] = index.entries[e] \/ index'.entries[e] = c
      BY <1>5, <1>7
    <3> QED  BY <1>1, <1>4, <1>5, <1>9, <3>1 DEF Sane, Ahead
  <2> QED  BY <1>1, <1>6, <2>1, AttemptStaysSane
<1>12. NewerOnly  BY <1>6, <1>9 DEF NewerOnly
<1> QED  BY <1>8, <1>10, <1>11, <1>12

LEMMA ReconcileKeeps ==
  ASSUME StoreInv, Reconcile
  PROVE  StoreInv' /\ NewerOnly
<1> USE DEF StoreInv
<1> DEFINE loads == [e \in Ids |-> IF Accepts(anchor, e) THEN file[e] ELSE cache[e]]
<1>1. /\ proc = "up" /\ proc' = "up" /\ cache' \in Prunings(loads, {})
      /\ UNCHANGED <<proc, client, runs, anchor, disks, acked, crashes>>
  BY DEF Reconcile
<1>2. loads \in [Ids -> Maybe]  BY DEF TypeOK
<1>3. /\ cache' \in [Ids -> Maybe]
      /\ \A x \in Ids : cache'[x] = loads[x] \/ cache'[x] = None
  BY <1>1, <1>2, PruningEffect
<1>4. TypeOK'  BY <1>1, <1>3 DEF TypeOK, disks
<1>5. ASSUME NEW x \in Ids  PROVE Sane(x)'
  <2>1. loads[x] = anchor[x] \/ loads[x] = cache[x]  BY DEF Accepts
  <2>2. Ahead(x)'  BY <1>1, <1>3, <2>1 DEF Sane, Ahead, disks
  <2>3. Started(x)' /\ Onward(x)' /\ Settled(x)'
    BY <1>1 DEF Sane, Started, Onward, Settled, disks
  <2> QED  BY <2>2, <2>3 DEF Sane
<1>6. NewerOnly  BY <1>1 DEF NewerOnly, disks
<1> QED  BY <1>4, <1>5, <1>6

LEMMA ForgetKeeps ==
  ASSUME StoreInv, NEW e \in Ids, Forget(e)
  PROVE  StoreInv' /\ NewerOnly
<1> USE DEF StoreInv
<1>1. /\ proc = "up" /\ client' = [client EXCEPT ![e] = None]
      /\ UNCHANGED <<proc, runs, cache, anchor, disks, acked, crashes>>
  BY DEF Forget
<1>2. /\ client' \in [Ids -> Maybe] /\ client'[e] = None
      /\ \A x \in Ids \ {e} : client'[x] = client[x]
  BY <1>1, NoneParts DEF TypeOK
<1>3. TypeOK'  BY <1>1, <1>2 DEF TypeOK, disks
<1>4. ASSUME NEW x \in Ids \ {e}  PROVE Sane(x)'
  BY <1>1, <1>2, OthersStaySane DEF disks
<1>5. Sane(e)'
  <2>1. Ahead(e)'  BY <1>1 DEF Sane, Ahead, disks
  <2>2. runs[e] \in Nat  BY StoreAssumption DEF TypeOK
  <2>3. Started(e)'  BY <1>1, <1>2, <2>2, NoneParts DEF Sane, Started, disks
  <2> QED  BY <1>2, <2>1, <2>3 DEF Sane, Onward, Settled
<1>6. NewerOnly  BY <1>1 DEF NewerOnly, disks
<1> QED  BY <1>3, <1>4, <1>5, <1>6

(* A process that dies takes memory with it; index and acknowledgements stay. *)
LEMMA DeadIsSane ==
  ASSUME StoreInv, Dies, NEW x \in Ids, acked' = acked, index' = index,
         runs'[x] \in Nat, runs[x] <= runs'[x],
         file'[x].run <= runs'[x], \A d \in written'[x] : d.run <= runs'[x]
  PROVE  Sane(x)'
<1>1. proc' = "down" /\ cache'[x] = None /\ client'[x] = None  BY DEF Dies
<1>2. Ahead(x)'  BY <1>1 DEF StoreInv, Sane, Ahead
<1>3. Started(x)'
  <2>1. acked[x].run \in Nat /\ runs[x] \in Nat /\ acked[x].run <= runs[x]
    BY MaybeParts, StoreAssumption DEF StoreInv, TypeOK, Sane, Started
  <2> QED  BY <1>1, <2>1, NoneParts DEF Started
<1> QED  BY <1>1, <1>2, <1>3 DEF Sane, Onward, Settled

LEMMA DeathTypes ==
  ASSUME TypeOK, Dies
  PROVE  /\ proc' \in {"up", "down", "refused"} /\ crashes' \in 0..MaxCrashes
         /\ cache' \in [Ids -> Maybe] /\ anchor' \in [Ids -> Maybe]
         /\ client' \in [Ids -> Maybe]
BY NoneParts, StoreAssumption DEF TypeOK, Dies

LEMMA CrashKeeps ==
  ASSUME StoreInv, Crash
  PROVE  StoreInv' /\ NewerOnly
<1>1. Dies /\ UNCHANGED <<runs, file, index, written, rolled, acked>>
  BY DEF Crash, disks
<1>2. TypeOK'  BY <1>1, DeathTypes DEF StoreInv, TypeOK
<1>3. ASSUME NEW x \in Ids  PROVE Sane(x)'
  <2>1. runs[x] \in Nat  BY StoreAssumption DEF StoreInv, TypeOK
  <2>2. file[x].run <= runs[x] /\ \A d \in written[x] : d.run <= runs[x]
    BY DEF StoreInv, Sane, Started
  <2> QED  BY <1>1, <2>1, <2>2, DeadIsSane
<1>4. NewerOnly  BY <1>1 DEF NewerOnly
<1> QED  BY <1>2, <1>3, <1>4 DEF StoreInv

LEMMA CrashInSaveKeeps ==
  ASSUME StoreInv, NEW e \in Ids, CrashInSave(e)
  PROVE  StoreInv' /\ NewerOnly
<1>1. PICK c \in Builds(e) :
        /\ c \in Checkpoint /\ ~Stale(e, c) /\ Dies /\ Replaces(e, c)
        /\ runs' = [runs EXCEPT ![e] = IF c.run > @ THEN c.run ELSE @]
        /\ UNCHANGED <<index, acked>>
  BY DEF CrashInSave
<1>2. /\ file' \in [Ids -> Maybe] /\ written' \in [Ids -> SUBSET Checkpoint]
      /\ rolled' \subseteq Ids
      /\ file'[e] = c /\ written'[e] = written[e] \cup {c}
      /\ \A x \in Ids \ {e} : file'[x] = file[x] /\ written'[x] = written[x]
  BY <1>1, ReplaceTypes DEF StoreInv
<1>3. /\ runs' \in [Ids -> 0..MaxRuns] /\ c.run <= runs'[e] /\ runs[e] <= runs'[e]
      /\ \A x \in Ids \ {e} : runs'[x] = runs[x]
  <2>1. c.run \in 1..MaxRuns  BY <1>1 DEF Checkpoint
  <2>2. runs \in [Ids -> 0..MaxRuns] /\ runs[e] \in 0..MaxRuns
    BY DEF StoreInv, TypeOK
  <2> QED  BY <1>1, <2>1, <2>2, StoreAssumption
<1>4. TypeOK'  BY <1>1, <1>2, <1>3, DeathTypes DEF StoreInv, TypeOK
<1>5. ASSUME NEW x \in Ids  PROVE Sane(x)'
  <2>1. runs[x] \in Nat /\ runs'[x] \in Nat
    BY <1>3, StoreAssumption DEF StoreInv, TypeOK
  <2>2. /\ file[x].run <= runs[x] /\ file[x].run \in Nat
        /\ \A d \in written[x] : d.run <= runs[x] /\ d.run \in Nat
    BY MaybeParts DEF StoreInv, TypeOK, Maybe, Sane, Started
  <2>3. runs[x] <= runs'[x] /\ file'[x].run <= runs'[x]
        /\ \A d \in written'[x] : d.run <= runs'[x]
    BY <1>2, <1>3, <2>1, <2>2
  <2> QED  BY <1>1, <2>1, <2>3, DeadIsSane
<1>6. NewerOnly
  <2>1. proc = "up"  BY <1>1 DEF Dies
  <2>2. c.gen > acked[e].gen  BY <1>1, <2>1, FreshIsNewer DEF StoreInv, Sane
  <2> QED  BY <1>2, <2>2 DEF NewerOnly
<1> QED  BY <1>4, <1>5, <1>6 DEF StoreInv

LEMMA OldFileReturnsKeeps ==
  ASSUME StoreInv, NEW e \in Ids, OldFileReturns(e)
  PROVE  StoreInv' /\ NewerOnly
<1>1. PICK c \in written[e] : file' = [file EXCEPT ![e] = c]
  BY DEF OldFileReturns
<1>2. /\ proc = "down" /\ rolled' = rolled \cup {e}
      /\ UNCHANGED <<proc, client, runs, cache, anchor, index, written, acked,
                     crashes>>
  BY DEF OldFileReturns
<1>3. c \in Maybe  BY DEF StoreInv, TypeOK, Maybe
<1>4. /\ file' \in [Ids -> Maybe] /\ file'[e] = c
      /\ \A x \in Ids \ {e} : file'[x] = file[x]
  BY <1>1, <1>3 DEF StoreInv, TypeOK
<1>5. TypeOK'  BY <1>2, <1>4 DEF StoreInv, TypeOK
<1>6. ASSUME NEW x \in Ids  PROVE Sane(x)'
  <2>1. Ahead(x)' /\ Onward(x)' /\ Settled(x)'
    BY <1>2 DEF StoreInv, Sane, Ahead, Onward, Settled
  <2>2. Started(x)'  BY <1>2, <1>4 DEF StoreInv, Sane, Started
  <2> QED  BY <2>1, <2>2 DEF Sane
<1>7. NewerOnly  BY <1>2, <1>4 DEF NewerOnly
<1> QED  BY <1>5, <1>6, <1>7 DEF StoreInv

LEMMA RefuseToStartKeeps ==
  ASSUME StoreInv, RefuseToStart
  PROVE  StoreInv' /\ NewerOnly
<1>1. /\ proc' = "refused"
      /\ UNCHANGED <<client, runs, cache, anchor, file, index, written, rolled,
                     acked, crashes>>
  BY DEF RefuseToStart, disks
<1>2. TypeOK'  BY <1>1 DEF StoreInv, TypeOK
<1>3. ASSUME NEW x \in Ids  PROVE Sane(x)'
  BY <1>1 DEF StoreInv, Sane, Ahead, Started, Onward, Settled
<1>4. NewerOnly  BY <1>1 DEF NewerOnly
<1> QED  BY <1>2, <1>3, <1>4 DEF StoreInv

(* The next process believes the index: what it restores is what the index   *)
(* vouches for, and nothing it restores is older than what was acknowledged. *)
LEMMA RestartKeeps ==
  ASSUME StoreInv, Restart
  PROVE  StoreInv' /\ NewerOnly
<1>1. /\ proc' = "up" /\ anchor' = index.entries
      /\ client' = [x \in Ids |-> IF Accepts(index.entries, x) THEN file[x]
                                  ELSE None]
      /\ cache' \in Prunings(client', {})
      /\ UNCHANGED <<runs, file, index, written, rolled, acked, crashes>>
  BY DEF Restart, disks
<1>2. client' \in [Ids -> Maybe]  BY <1>1, NoneParts DEF StoreInv, TypeOK
<1>3. /\ cache' \in [Ids -> Maybe]
      /\ \A x \in Ids : cache'[x] = client'[x] \/ cache'[x] = None
  BY <1>1, <1>2, PruningEffect
<1>4. TypeOK'  BY <1>1, <1>2, <1>3 DEF StoreInv, TypeOK
<1>5. ASSUME NEW x \in Ids  PROVE Sane(x)'
  <2>1. \/ client'[x] = None
        \/ client'[x] = file[x] /\ file[x] = index.entries[x]
    <3>1. client'[x] = IF Accepts(index.entries, x) THEN file[x] ELSE None
      BY <1>1
    <3> QED  BY <3>1 DEF Accepts
  <2>2. index.entries[x].gen >= acked[x].gen  BY DEF StoreInv, Sane, Ahead
  <2>3. Ahead(x)'  BY <1>1, <1>3, <2>1, <2>2 DEF Ahead
  <2>4. Started(x)'
    <3>1. runs[x] \in Nat  BY StoreAssumption DEF StoreInv, TypeOK
    <3> QED  BY <1>1, <2>1, <3>1, NoneParts DEF StoreInv, Sane, Started
  <2>5. Onward(x)'
    <3>1. index.entries[x].gen \in Nat /\ acked[x].gen \in Nat
      BY MaybeParts DEF StoreInv, TypeOK
    <3> QED  BY <1>1, <2>1, <2>2, <3>1 DEF Onward
  <2>6. Settled(x)'  BY <1>1, <2>1 DEF Settled
  <2> QED  BY <2>3, <2>4, <2>5, <2>6 DEF Sane
<1>6. NewerOnly  BY <1>1 DEF NewerOnly
<1> QED  BY <1>4, <1>5, <1>6 DEF StoreInv

LEMMA NextKeeps ==
  ASSUME StoreInv, [Next]_vars
  PROVE  StoreInv' /\ NewerOnly
<1>1. CASE UNCHANGED vars
  <2>1. UNCHANGED <<proc, client, runs, cache, anchor, file, index, written,
                    rolled, acked, crashes>>
    BY <1>1 DEF vars
  <2>2. TypeOK'  BY <2>1 DEF StoreInv, TypeOK
  <2>3. ASSUME NEW x \in Ids  PROVE Sane(x)'
    BY <2>1 DEF StoreInv, Sane, Ahead, Started, Onward, Settled
  <2>4. NewerOnly  BY <2>1 DEF NewerOnly
  <2> QED  BY <2>2, <2>3, <2>4 DEF StoreInv
<1>2. ASSUME NEW e \in Ids, Save(e)  PROVE StoreInv' /\ NewerOnly
  BY <1>2, SaveKeeps
<1>3. ASSUME NEW e \in Ids, SaveRefused(e)  PROVE StoreInv' /\ NewerOnly
  BY <1>3, SaveRefusedKeeps
<1>4. ASSUME NEW e \in Ids, FileWriteFails(e)  PROVE StoreInv' /\ NewerOnly
  BY <1>4, FileWriteFailsKeeps
<1>5. ASSUME NEW e \in Ids, IndexWriteFails(e)  PROVE StoreInv' /\ NewerOnly
  BY <1>5, IndexWriteFailsKeeps
<1>6. ASSUME NEW e \in Ids, CrashInSave(e)  PROVE StoreInv' /\ NewerOnly
  BY <1>6, CrashInSaveKeeps
<1>7. ASSUME NEW e \in Ids, Forget(e)  PROVE StoreInv' /\ NewerOnly
  BY <1>7, ForgetKeeps
<1>8. ASSUME NEW e \in Ids, OldFileReturns(e)  PROVE StoreInv' /\ NewerOnly
  BY <1>8, OldFileReturnsKeeps
<1>9. CASE Reconcile  BY <1>9, ReconcileKeeps
<1>10. CASE Crash  BY <1>10, CrashKeeps
<1>11. CASE RefuseToStart  BY <1>11, RefuseToStartKeeps
<1>12. CASE Restart  BY <1>12, RestartKeeps
<1> QED
  BY <1>1, <1>2, <1>3, <1>4, <1>5, <1>6, <1>7, <1>8, <1>9, <1>10, <1>11, <1>12
  DEF Next

-----------------------------------------------------------------------------
(* Theorems *)

(* The index and the entries in memory never fall behind an acknowledged     *)
(* save, and a settled record is durable: the inductive invariant of         *)
(* save_checkpoint, reconcile and the constructor, crashes included.         *)
THEOREM StoreInvariance == Spec => []StoreInv
<1>1. Init => StoreInv
  <2> SUFFICES ASSUME Init PROVE StoreInv  OBVIOUS
  <2>1. TypeOK  BY NoneParts, StoreAssumption DEF Init, TypeOK
  <2>2. ASSUME NEW x \in Ids  PROVE Sane(x)
    BY NoneParts DEF Init, Sane, Ahead, Started, Onward, Settled
  <2> QED  BY <2>1, <2>2 DEF StoreInv
<1>2. StoreInv /\ [Next]_vars => StoreInv'  BY NextKeeps
<1> QED  BY <1>1, <1>2, PTL DEF Spec

(* What a save acknowledged is neither lost, nor served older, nor           *)
(* overwritten: load_checkpoint, the constructor and the two staleness       *)
(* checks of save_checkpoint, for every number of ids and crashes.           *)
THEOREM CheckpointIsSafe == Spec => CheckpointSafe
<1>1. StoreInv => TypeOK /\ NeverServesOlder /\ AckedIsDurable
  <2> SUFFICES ASSUME StoreInv PROVE NeverServesOlder /\ AckedIsDurable
    BY DEF StoreInv
  <2>1. NeverServesOlder  BY DEF StoreInv, Sane, Ahead, NeverServesOlder
  <2>2. AckedIsDurable
    BY DEF StoreInv, Sane, Settled, AckedIsDurable, Accepts
  <2> QED  BY <2>1, <2>2
<1>2. StoreInv /\ [Next]_vars =>
        [\A e \in Ids \ rolled' :
           file'[e] # file[e] => file'[e].gen > acked[e].gen]_vars
  BY NextKeeps DEF NewerOnly
<1>3. Spec => []StoreInv  BY StoreInvariance
<1>4. Spec => [](TypeOK /\ NeverServesOlder /\ AckedIsDurable)
  BY <1>1, <1>3, PTL
<1>5. Spec => AckedNotOverwritten
  BY <1>2, <1>3, PTL DEF Spec, AckedNotOverwritten
<1> QED  BY <1>4, <1>5, PTL DEF CheckpointSafe

-----------------------------------------------------------------------------
(* What a command's answer says of its process and its output, proved for  *)
(* every limit, pipe and amount of output.                                 *)

Counted ==
  /\ ShellTypeOK
  /\ tool \in {"shell", "windows"} /\ kept \in Nat /\ commands \in 0..MaxCommands

(* A call that has not been answered has no result; before the first call   *)
(* there is no process.                                                     *)
Unanswered ==
  /\ stage # "answered" => result = "none"
  /\ stage = "idle" => process = "none"

(* A reader stops at the end of the output or over the limit, never before. *)
StopsForReason ==
  stage = "running" /\ ~reads => (pipe = 0 /\ ~Alive) \/ kept > Limit

(* A reader that goes on has not passed the limit.                          *)
ReadsWithin == reads => stage = "running" /\ (tool = "shell" => kept <= Limit)

ShellInv ==
  /\ Counted /\ Unanswered /\ StopsForReason /\ ReadsWithin
  /\ AnswerEndsProcess /\ OutputBounded /\ OkIsWhole

LEMMA ShellBegins == ShellInit => ShellInv
BY ShellAssumption
   DEF ShellInit, ShellInv, Counted, Unanswered, StopsForReason, ReadsWithin,
       AnswerEndsProcess, OutputBounded, OkIsWhole, ShellTypeOK, Alive

(* One step per action; every part of the invariant is about one command.   *)
LEMMA ShellStep == ShellInv /\ [ShellNext]_shellVars => ShellInv'
<1> SUFFICES ASSUME ShellInv, [ShellNext]_shellVars PROVE ShellInv'
  OBVIOUS
<1> USE ShellAssumption
    DEF ShellInv, Counted, Unanswered, StopsForReason, ReadsWithin,
        AnswerEndsProcess, OutputBounded, OkIsWhole, ShellTypeOK, Alive
<1>1. ASSUME NEW t \in {"shell", "windows"}, NEW c \in Checks, Starts(t, c)
      PROVE  ShellInv'
  BY <1>1 DEF Starts
<1>2. CASE ProcessWrites  BY <1>2 DEF ProcessWrites
<1>3. CASE ProcessExits   BY <1>3 DEF ProcessExits
<1>4. CASE ChildExits     BY <1>4 DEF ChildExits
<1>5. CASE ReadsChunk
  <2>1. CASE pipe > 0 /\ pipe' = pipe - 1 /\ kept' = kept + 1
             /\ reads' = ~StopsAt(kept + 1)
    <3>1. reads' <=> ~StopsAt(kept + 1)  BY <2>1, Zenon
    <3>2. reads' <=> ~(tool = "shell" /\ kept + 1 > Limit)
      BY <3>1 DEF StopsAt
    <3>3. kept' = kept + 1 /\ pipe' = pipe - 1 /\ pipe > 0  BY <2>1
    <3> QED  BY <1>5, <3>2, <3>3 DEF ReadsChunk
  <2>2. CASE Eof /\ reads' = FALSE /\ UNCHANGED <<pipe, kept>>
    BY <1>5, <2>2 DEF ReadsChunk, Eof
  <2> QED  BY <1>5, <2>1, <2>2 DEF ReadsChunk
<1>6. CASE Completes      BY <1>6 DEF Completes, Done
<1>7. CASE TimesOut       BY <1>7 DEF TimesOut, Expires
<1>8. CASE Terminates     BY <1>8 DEF Terminates, Killed
<1>9. CASE Cancelled      BY <1>9 DEF Cancelled
<1>10. CASE UNCHANGED shellVars  BY <1>10 DEF shellVars
<1> QED
  BY <1>1, <1>2, <1>3, <1>4, <1>5, <1>6, <1>7, <1>8, <1>9, <1>10 DEF ShellNext

(* The invariant holds of every command, however often it is interrupted.   *)
THEOREM ShellInvariance == ShellSpec => []ShellInv
BY ShellBegins, ShellStep, PTL DEF ShellSpec

(* Whatever ShellTool answers by itself, the process it started no longer   *)
(* runs; it has kept at most one chunk over max_stdout; and an "ok" is of a *)
(* process that ended well and was read to its end, unless it wrote more    *)
(* than the limit.                                                          *)
THEOREM ShellIsSafe == ShellSpec => []ShellSafe
<1>1. ShellInv => ShellSafe  BY DEF ShellInv, Counted, ShellSafe
<1> QED  BY <1>1, ShellInvariance, PTL

-----------------------------------------------------------------------------
(* Starting: for any number of processes, starts and personalities.        *)

ProcShapes == [at : Steps, cmd : Commands, user : Users, lock : BOOLEAN,
               created : BOOLEAN, key : 0 .. MaxStarts + 1,
               active : Profiles \cup {NoProfile}, saving : Profiles \cup {NoProfile}]
KeyShapes == [there : BOOLEAN, id : 0 .. MaxStarts + 1,
              acl : {"private", "inherited", "broken"}, linked : BOOLEAN]
BootShapes == [ready : BOOLEAN, file : {"none", "torn", "old", "current"}]

(* The steps that touch the key, and what one process (r) may count on at  *)
(* the place w with the key file k and the bootstrap state b.              *)
KeySteps == {"create", "write", "harden", "read", "settle", "up"}
Holds(w, k, b, r) ==
  /\ r.lock <=> r.at \notin {"off", "guard", "choose"}
  /\ r.at = "guard" => RequiresLock(r.cmd)
  /\ ~w.windows => r.user = "owner"
  /\ w.windows /\ w.canonical /\ r.at \in KeySteps => r.user = "owner"
  /\ r.created => r.at \in {"write", "harden", "read", "settle", "up"} /\ k.there
  /\ r.at \in {"write", "harden"} => r.created /\ ~k.linked
  /\ r.at = "write" => k.id = 0
  /\ r.created /\ r.at \in {"read", "settle"} => k.acl = "private"
  /\ r.at \in {"settle", "up"} /\ r.key # 0 => r.key = k.id
  /\ r.at = "up" => r.key # 0 /\ r.active \in Profiles /\ k.acl = "private"
  /\ r.at \in {"save", "saving"} => b.ready

(* Two processes past the guard are of two Windows users, and only one     *)
(* writes a key.                                                           *)
Excludes(w, r, s) ==
  /\ r.lock /\ s.lock => w.windows /\ r.user # s.user
  /\ ~(r.at = "write" /\ s.at = "write")

Absent(k) == ~k.there => k.id = 0 /\ ~k.linked

StartInv ==
  /\ place \in [windows : BOOLEAN, canonical : BOOLEAN, generic : BOOLEAN]
  /\ procs \in [Procs -> ProcShapes]
  /\ keyFile \in KeyShapes /\ Absent(keyFile)
  /\ boot \in BootShapes /\ CurrentMeansReady
  /\ selection \in Profiles \cup {NoProfile, "torn"} /\ chosen \in BOOLEAN
  /\ SelectionSurvives
  /\ starts \in 0 .. MaxStarts
  /\ \A p \in Procs : Holds(place, keyFile, boot, procs[p])
  /\ \A p, q \in Procs : p # q => Excludes(place, procs[p], procs[q])

(* What no step undoes.                                                    *)
KeyGrows(k, l) ==
  k.there => /\ l.there /\ l.linked = k.linked
             /\ k.id # 0 => l.id = k.id
             /\ k.acl = "private" => l.acl = "private"

LEMMA OtherHolds ==
  ASSUME NEW w, NEW k \in KeyShapes, NEW l \in KeyShapes, NEW b \in BootShapes,
         NEW c \in BootShapes, NEW s \in ProcShapes,
         Absent(k), KeyGrows(k, l), b.ready => c.ready, Holds(w, k, b, s),
         s.at = "write" => l.id = k.id
  PROVE  Holds(w, l, c, s)
<1>1. k.id # 0 => k.there  BY DEF Absent
<1>2. s.at = "up" => k.id # 0  BY DEF Holds
<1> QED  BY <1>1, <1>2 DEF KeyGrows, Holds

(* One process moves on, with what it changes on disk.                     *)
LEMMA OneMoves ==
  ASSUME StartInv, NEW p \in Procs, NEW r \in ProcShapes,
         procs' = [procs EXCEPT ![p] = r], place' = place,
         keyFile' \in KeyShapes, Absent(keyFile'), KeyGrows(keyFile, keyFile'),
         keyFile'.id = keyFile.id \/ procs[p].at = "write" \/ ~keyFile.there,
         boot' \in BootShapes, boot.ready => boot'.ready,
         boot'.file = "current" => boot'.ready,
         selection' \in Profiles \cup {NoProfile, "torn"}, chosen' \in BOOLEAN,
         chosen' => selection' \in Profiles, starts' \in 0 .. MaxStarts,
         Holds(place, keyFile', boot', r),
         \A q \in Procs \ {p} : Excludes(place, r, procs[q])
  PROVE  StartInv'
<1>1. procs' \in [Procs -> ProcShapes]  BY DEF StartInv
<1>2. ASSUME NEW q \in Procs
      PROVE  Holds(place, keyFile', boot', procs'[q])
  <2>1. CASE q = p  BY <2>1 DEF StartInv
  <2>2. CASE q # p
    <3>1. procs'[q] = procs[q] /\ procs[q] \in ProcShapes  BY <2>2 DEF StartInv
    <3>2. procs[q].at = "write" => keyFile'.id = keyFile.id
      <4>1. procs[q].at = "write" => keyFile.there
        BY DEF StartInv, Holds
      <4>2. procs[q].at = "write" => procs[p].at # "write"
        BY <2>2 DEF StartInv, Excludes
      <4> QED  BY <4>1, <4>2
    <3>3. Holds(place, keyFile, boot, procs[q])  BY DEF StartInv
    <3>4. keyFile \in KeyShapes /\ boot \in BootShapes /\ Absent(keyFile)
      BY DEF StartInv
    <3> QED  BY <3>1, <3>2, <3>3, <3>4, OtherHolds
  <2> QED  BY <2>1, <2>2
<1>3. ASSUME NEW q \in Procs, NEW s \in Procs, q # s
      PROVE  Excludes(place, procs'[q], procs'[s])
  <2>1. procs'[p] = r /\ \A t \in Procs \ {p} : procs'[t] = procs[t]  BY DEF StartInv
  <2>2. CASE q = p  BY <1>3, <2>1, <2>2
  <2>3. CASE s = p
    <3>1. Excludes(place, r, procs[q])  BY <1>3, <2>3
    <3> QED  BY <1>3, <2>1, <2>3, <3>1 DEF Excludes
  <2>4. CASE q # p /\ s # p  BY <1>3, <2>1, <2>4 DEF StartInv
  <2> QED  BY <2>2, <2>3, <2>4
<1> QED  BY <1>1, <1>2, <1>3 DEF StartInv, CurrentMeansReady, SelectionSurvives

(* A process that neither takes the lock nor begins to write excludes as   *)
(* it did.                                                                 *)
LEMMA StillExcludes ==
  ASSUME StartInv, NEW p \in Procs, NEW r \in ProcShapes, r.at # "write",
         r.lock => procs[p].lock /\ r.user = procs[p].user
  PROVE  \A q \in Procs \ {p} : Excludes(place, r, procs[q])
<1> TAKE q \in Procs \ {p}
<1>1. Excludes(place, procs[p], procs[q])  BY DEF StartInv
<1> QED  BY <1>1 DEF Excludes

(* Nothing on disk changes but what is said.                               *)
LEMMA ProcMoves ==
  ASSUME StartInv, NEW p \in Procs, NEW r \in ProcShapes,
         procs' = [procs EXCEPT ![p] = r], place' = place, starts' \in 0 .. MaxStarts,
         UNCHANGED <<keyFile, boot, selection, chosen>>,
         Holds(place, keyFile, boot, r),
         \A q \in Procs \ {p} : Excludes(place, r, procs[q])
  PROVE  StartInv'
<1>1. /\ keyFile' \in KeyShapes /\ Absent(keyFile') /\ boot' \in BootShapes
      /\ selection' \in Profiles \cup {NoProfile, "torn"} /\ chosen' \in BOOLEAN
  BY DEF StartInv
<1>2. KeyGrows(keyFile, keyFile')  BY DEF KeyGrows
<1>3. /\ boot'.file = "current" => boot'.ready
      /\ chosen' => selection' \in Profiles
  BY DEF StartInv, CurrentMeansReady, SelectionSurvives
<1> QED  BY <1>1, <1>2, <1>3, OneMoves

LEMMA ProcIs ==
  ASSUME StartInv, NEW p \in Procs
  PROVE  /\ procs[p] \in ProcShapes /\ Holds(place, keyFile, boot, procs[p])
         /\ procs[p].user \in Users /\ MaxStarts \in Nat /\ starts \in 0 .. MaxStarts
BY StartAssumption DEF StartInv, ProcShapes

LEMMA OffIs ==
  ASSUME StartInv
  PROVE  /\ Off \in ProcShapes /\ Holds(place, keyFile, boot, Off)
         /\ \A p \in Procs : \A q \in Procs \ {p} : Excludes(place, Off, procs[q])
<1>1. MaxStarts \in Nat  BY StartAssumption
<1> QED  BY <1>1 DEF Off, ProcShapes, Steps, Commands, Builders, Users, Holds, Excludes

LEMMA EndKeeps ==
  ASSUME StartInv, NEW p \in Procs, Ends(p), place' = place, starts' = starts,
         UNCHANGED <<keyFile, boot, selection, chosen>>
  PROVE  StartInv'
<1>1. procs' = [procs EXCEPT ![p] = Off]  BY DEF Ends, Becomes
<1>2. starts' \in 0 .. MaxStarts  BY DEF StartInv
<1> QED  BY <1>1, <1>2, OffIs, ProcMoves

(* A process takes a step that changes neither the disk nor its lock.      *)
LEMMA GoKeeps ==
  ASSUME StartInv, NEW p \in Procs, NEW s \in Steps, KeyGoesTo(p, s),
         place' = place, starts' = starts,
         UNCHANGED <<keyFile, boot, selection, chosen>>, s # "write",
         Holds(place, keyFile, boot, [procs[p] EXCEPT !.at = s])
  PROVE  StartInv'
<1> DEFINE r == [procs[p] EXCEPT !.at = s]
<1>1. procs' = [procs EXCEPT ![p] = r]  BY DEF KeyGoesTo, Becomes
<1>2. r \in ProcShapes /\ r.at # "write" /\ r.lock = procs[p].lock /\ r.user = procs[p].user
  BY ProcIs DEF ProcShapes
<1>3. \A q \in Procs \ {p} : Excludes(place, r, procs[q])
  BY <1>2, StillExcludes
<1>4. starts' \in 0 .. MaxStarts  BY DEF StartInv
<1> HIDE DEF r
<1> QED  BY <1>1, <1>2, <1>3, <1>4, ProcMoves DEF r

LEMMA LaunchKeeps ==
  ASSUME StartInv, NEW p \in Procs, Launches(p)
  PROVE  StartInv'
<1>1. PICK c \in Commands, u \in IF place.windows THEN Users ELSE {"owner"} :
        Becomes(p, IF RequiresLock(c)
                     THEN [Off EXCEPT !.at = "guard", !.cmd = c, !.user = u]
                   ELSE IF BodyOf(c) = "off" THEN Off
                   ELSE [Off EXCEPT !.at = BodyOf(c), !.cmd = c, !.user = u])
  BY DEF Launches
<1>2. /\ starts' = starts + 1 /\ starts < MaxStarts /\ procs[p].at = "off"
      /\ UNCHANGED <<keyFile, boot, selection, chosen>> /\ place' = place
  BY DEF Launches, DiskSame
<1>3. starts' \in 0 .. MaxStarts /\ MaxStarts \in Nat
  BY <1>2, ProcIs
<1>4. u \in Users /\ (~place.windows => u = "owner")  BY <1>1 DEF Users
<1>5. ASSUME NEW s \in {"guard", "choose"}, s = "guard" => RequiresLock(c),
             Becomes(p, [Off EXCEPT !.at = s, !.cmd = c, !.user = u])
      PROVE  StartInv'
  <2> DEFINE r == [Off EXCEPT !.at = s, !.cmd = c, !.user = u]
  <2>1. /\ r \in ProcShapes /\ r.at = s /\ r.cmd = c /\ r.user = u
        /\ r.lock = FALSE /\ r.created = FALSE
    <3>1. Off \in ProcShapes /\ Off.lock = FALSE /\ Off.created = FALSE
      BY OffIs DEF Off
    <3> QED  BY <1>4, <3>1 DEF ProcShapes, Steps
  <2>2. procs' = [procs EXCEPT ![p] = r]  BY <1>5 DEF Becomes
  <2> HIDE DEF r
  <2>3. Holds(place, keyFile, boot, r)  BY <1>4, <1>5, <2>1 DEF Holds, KeySteps
  <2>4. \A q \in Procs \ {p} : Excludes(place, r, procs[q])
    BY <1>5, <2>1 DEF Excludes
  <2> QED  BY <1>2, <1>3, <2>1, <2>2, <2>3, <2>4, ProcMoves
<1>6. CASE RequiresLock(c)  BY <1>1, <1>5, <1>6
<1>7. CASE ~RequiresLock(c) /\ BodyOf(c) = "off"
  <2>1. procs' = [procs EXCEPT ![p] = Off]  BY <1>1, <1>7 DEF Becomes
  <2> QED  BY <1>2, <1>3, <2>1, OffIs, ProcMoves
<1>8. CASE ~RequiresLock(c) /\ BodyOf(c) # "off"
  <2>1. BodyOf(c) = "choose"
    BY <1>8 DEF RequiresLock, BodyOf, Commands, Builders
  <2> QED  BY <1>1, <1>5, <1>8, <2>1
<1> QED  BY <1>6, <1>7, <1>8

LEMMA AcquireKeeps ==
  ASSUME StartInv, NEW p \in Procs, AcquiresLock(p)
  PROVE  StartInv'
<1>1. /\ procs[p].at = "guard" /\ place' = place /\ starts' = starts
      /\ UNCHANGED <<keyFile, boot, selection, chosen>>
  BY DEF AcquiresLock, DiskSame
<1>2. CASE Ends(p)  BY <1>1, <1>2, EndKeeps
<1>3. CASE /\ ~LockHeld(p)
           /\ Becomes(p, [procs[p] EXCEPT !.lock = TRUE, !.at = BodyOf(procs[p].cmd)])
  <2> DEFINE r == [procs[p] EXCEPT !.lock = TRUE, !.at = BodyOf(procs[p].cmd)]
  <2>1. BodyOf(procs[p].cmd) \in {"identity", "bootstrap"}
    BY <1>1, ProcIs DEF Holds, RequiresLock, BodyOf, ProcShapes, Commands, Builders
  <2>2. /\ r \in ProcShapes /\ r.at \in {"identity", "bootstrap"} /\ r.lock = TRUE
        /\ r.user = procs[p].user /\ r.created = procs[p].created
    BY <2>1, ProcIs DEF ProcShapes, Steps
  <2>3. procs' = [procs EXCEPT ![p] = r] /\ starts' \in 0 .. MaxStarts
    BY <1>1, <1>3, ProcIs DEF Becomes
  <2> HIDE DEF r
  <2>4. Holds(place, keyFile, boot, r)
    BY <1>1, <2>2, ProcIs DEF Holds, KeySteps
  <2>5. \A q \in Procs \ {p} : Excludes(place, r, procs[q])
    BY <1>3, <2>2 DEF LockHeld, Excludes
  <2> QED  BY <1>1, <2>2, <2>3, <2>4, <2>5, ProcMoves
<1> QED  BY <1>2, <1>3 DEF AcquiresLock

LEMMA IdentifyKeeps ==
  ASSUME StartInv, NEW p \in Procs, Identifies(p)
  PROVE  StartInv'
<1>1. /\ procs[p].at = "identity" /\ place' = place /\ starts' = starts
      /\ UNCHANGED <<keyFile, boot, selection, chosen>>
  BY DEF Identifies, KeyOnly
<1>2. CASE GenericOwner \/ Mismatch(p)
  BY <1>1, <1>2, EndKeeps DEF Identifies
<1>3. CASE ~(GenericOwner \/ Mismatch(p))
  <2>1. PICK s \in {"read", "create"} : KeyGoesTo(p, s)
    BY <1>3 DEF Identifies
  <2>2. Holds(place, keyFile, boot, [procs[p] EXCEPT !.at = s])
    <3>1. s \in KeySteps /\ s \notin {"off", "guard", "choose"}  BY DEF KeySteps
    <3> QED  BY <1>1, <1>3, <3>1, ProcIs DEF Mismatch, Holds, Users, ProcShapes
  <2> QED  BY <1>1, <2>1, <2>2, GoKeeps DEF Steps
<1> QED  BY <1>2, <1>3

LEMMA CreateKeeps ==
  ASSUME StartInv, NEW p \in Procs, Creates(p)
  PROVE  StartInv'
<1>1. /\ procs[p].at = "create" /\ place' = place /\ starts' = starts
      /\ UNCHANGED <<boot, selection, chosen>>
  BY DEF Creates, KeyOnly
<1>2. CASE keyFile.there
  <2>1. KeyGoesTo(p, "read") /\ keyFile' = keyFile  BY <1>2 DEF Creates
  <2>2. Holds(place, keyFile, boot, [procs[p] EXCEPT !.at = "read"])
    BY <1>1, ProcIs DEF Holds, KeySteps, ProcShapes
  <2> QED  BY <1>1, <2>1, <2>2, GoKeeps DEF Steps
<1>3. CASE ~keyFile.there
  <2> DEFINE r == [procs[p] EXCEPT !.at = "write", !.created = TRUE]
  <2>1. /\ r \in ProcShapes /\ r.at = "write" /\ r.lock = procs[p].lock
        /\ r.user = procs[p].user /\ r.created = TRUE
    BY ProcIs DEF ProcShapes, Steps
  <2>2. /\ procs' = [procs EXCEPT ![p] = r] /\ keyFile' \in KeyShapes
        /\ keyFile'.there /\ keyFile'.id = 0 /\ keyFile'.linked = FALSE
    <3>1. keyFile' = [there |-> TRUE, id |-> 0, linked |-> FALSE,
                      acl |-> IF place.windows THEN "inherited" ELSE "private"]
      BY <1>3 DEF Creates
    <3>2. keyFile' \in KeyShapes  BY <3>1, ProcIs DEF KeyShapes
    <3> QED  BY <1>3, <3>1, <3>2 DEF Creates, Becomes
  <2> HIDE DEF r
  <2>3. Absent(keyFile') /\ KeyGrows(keyFile, keyFile')
    BY <1>3, <2>2 DEF Absent, KeyGrows
  <2>4. Holds(place, keyFile', boot', r)
    BY <1>1, <2>1, <2>2, ProcIs DEF Holds, KeySteps
  <2>5. \A q \in Procs \ {p} : Excludes(place, r, procs[q])
    <3> TAKE q \in Procs \ {p}
    <3>1. Excludes(place, procs[p], procs[q]) /\ procs[q].at # "write"
      BY <1>3, ProcIs DEF StartInv, Holds
    <3> QED  BY <2>1, <3>1 DEF Excludes
  <2>6. /\ boot' \in BootShapes /\ (boot'.file = "current" => boot'.ready)
        /\ selection' \in Profiles \cup {NoProfile, "torn"} /\ chosen' \in BOOLEAN
        /\ (chosen' => selection' \in Profiles) /\ starts' \in 0 .. MaxStarts
    BY <1>1 DEF StartInv, CurrentMeansReady, SelectionSurvives
  <2> QED  BY <1>1, <1>3, <2>1, <2>2, <2>3, <2>4, <2>5, <2>6, OneMoves
<1> QED  BY <1>2, <1>3

LEMMA KeyMoves ==
  ASSUME StartInv, NEW p \in Procs, NEW r \in ProcShapes,
         procs' = [procs EXCEPT ![p] = r], place' = place,
         UNCHANGED <<boot, selection, chosen, starts>>,
         keyFile' \in KeyShapes, Absent(keyFile'), KeyGrows(keyFile, keyFile'),
         keyFile'.id = keyFile.id \/ procs[p].at = "write",
         Holds(place, keyFile', boot, r), r.at # "write",
         r.lock = procs[p].lock, r.user = procs[p].user
  PROVE  StartInv'
<1>1. \A q \in Procs \ {p} : Excludes(place, r, procs[q])  BY StillExcludes
<1>2. /\ boot' \in BootShapes /\ (boot'.file = "current" => boot'.ready)
      /\ selection' \in Profiles \cup {NoProfile, "torn"} /\ chosen' \in BOOLEAN
      /\ (chosen' => selection' \in Profiles) /\ starts' \in 0 .. MaxStarts
      /\ boot' = boot
  BY DEF StartInv, CurrentMeansReady, SelectionSurvives
<1> QED  BY <1>1, <1>2, OneMoves

LEMMA KeyIs ==
  ASSUME StartInv
  PROVE  keyFile \in KeyShapes /\ Absent(keyFile)
BY DEF StartInv

LEMMA WriteKeeps ==
  ASSUME StartInv, NEW p \in Procs, WritesKey(p)
  PROVE  StartInv'
<1>1. /\ procs[p].at = "write" /\ place' = place /\ starts' = starts
      /\ UNCHANGED <<boot, selection, chosen>>
  BY DEF WritesKey, KeyOnly
<1>2. CASE keyFile' = [keyFile EXCEPT !.id = starts + 1] /\ KeyGoesTo(p, "harden")
  <2> DEFINE r == [procs[p] EXCEPT !.at = "harden"]
  <2>1. /\ r \in ProcShapes /\ r.at = "harden" /\ r.lock = procs[p].lock
        /\ r.user = procs[p].user /\ r.created = procs[p].created
    BY ProcIs DEF ProcShapes, Steps
  <2>2. procs' = [procs EXCEPT ![p] = r]  BY <1>2 DEF KeyGoesTo, Becomes
  <2> HIDE DEF r
  <2>3. /\ keyFile' \in KeyShapes /\ keyFile'.there = keyFile.there
        /\ keyFile'.linked = keyFile.linked /\ keyFile'.acl = keyFile.acl
    BY <1>2, KeyIs, ProcIs DEF KeyShapes
  <2>4. keyFile.there /\ keyFile.id = 0 /\ ~keyFile.linked  BY <1>1, ProcIs DEF Holds
  <2>5. Absent(keyFile') /\ KeyGrows(keyFile, keyFile')
    BY <2>3, <2>4 DEF Absent, KeyGrows
  <2>6. Holds(place, keyFile', boot, r)
    BY <1>1, <2>1, <2>3, <2>4, ProcIs DEF Holds, KeySteps
  <2> QED  BY <1>1, <2>1, <2>2, <2>3, <2>5, <2>6, KeyMoves
<1>3. CASE UNCHANGED keyFile /\ Ends(p)  BY <1>1, <1>3, EndKeeps
<1> QED  BY <1>2, <1>3 DEF WritesKey

LEMMA HardenKeeps ==
  ASSUME StartInv, NEW p \in Procs, Hardens(p)
  PROVE  StartInv'
<1>1. /\ procs[p].at = "harden" /\ place' = place /\ starts' = starts
      /\ UNCHANGED <<boot, selection, chosen>>
  BY DEF Hardens, KeyOnly
<1>2. CASE keyFile' = [keyFile EXCEPT !.acl = "private"] /\ KeyGoesTo(p, "read")
  <2> DEFINE r == [procs[p] EXCEPT !.at = "read"]
  <2>1. /\ r \in ProcShapes /\ r.at = "read" /\ r.lock = procs[p].lock
        /\ r.user = procs[p].user /\ r.created = procs[p].created
    BY ProcIs DEF ProcShapes, Steps
  <2>2. procs' = [procs EXCEPT ![p] = r]  BY <1>2 DEF KeyGoesTo, Becomes
  <2> HIDE DEF r
  <2>3. /\ keyFile' \in KeyShapes /\ keyFile'.there = keyFile.there
        /\ keyFile'.linked = keyFile.linked /\ keyFile'.acl = "private"
        /\ keyFile'.id = keyFile.id
    BY <1>2, KeyIs DEF KeyShapes
  <2>4. Absent(keyFile') /\ KeyGrows(keyFile, keyFile')
    BY <2>3, KeyIs DEF Absent, KeyGrows
  <2>5. Holds(place, keyFile', boot, r)
    BY <1>1, <2>1, <2>3, ProcIs DEF Holds, KeySteps
  <2> QED  BY <1>1, <2>1, <2>2, <2>3, <2>4, <2>5, KeyMoves
<1>3. CASE UNCHANGED keyFile /\ Ends(p)  BY <1>1, <1>3, EndKeeps
<1> QED  BY <1>2, <1>3 DEF Hardens

(* The ACL as it is, or made private.                                      *)
LEMMA RepairedKey ==
  ASSUME StartInv, keyFile' \in {keyFile, [keyFile EXCEPT !.acl = "private"]}
  PROVE  /\ keyFile' \in KeyShapes /\ keyFile'.there = keyFile.there
         /\ keyFile'.linked = keyFile.linked /\ keyFile'.id = keyFile.id
         /\ keyFile'.acl = keyFile.acl \/ keyFile'.acl = "private"
         /\ Absent(keyFile') /\ KeyGrows(keyFile, keyFile')
<1>1. /\ keyFile' \in KeyShapes /\ keyFile'.there = keyFile.there
      /\ keyFile'.linked = keyFile.linked /\ keyFile'.id = keyFile.id
      /\ keyFile'.acl = keyFile.acl \/ keyFile'.acl = "private"
  <2>1. CASE keyFile' = keyFile  BY <2>1, KeyIs
  <2>2. CASE keyFile' = [keyFile EXCEPT !.acl = "private"]
    BY <2>2, KeyIs DEF KeyShapes
  <2> QED  BY <2>1, <2>2
<1> QED  BY <1>1, KeyIs DEF Absent, KeyGrows

LEMMA ReadKeeps ==
  ASSUME StartInv, NEW p \in Procs, Reads(p)
  PROVE  StartInv'
<1> DEFINE r == [procs[p] EXCEPT !.at = "settle", !.key = keyFile.id]
<1>1. /\ procs[p].at = "read" /\ place' = place /\ starts' = starts
      /\ UNCHANGED <<boot, selection, chosen>>
      /\ \/ keyFile' = keyFile /\ Ends(p)
         \/ /\ keyFile' \in {keyFile, [keyFile EXCEPT !.acl = "private"]}
            /\ procs' = [procs EXCEPT ![p] = r]
  BY DEF Reads, KeyOnly, Becomes
<1>2. /\ r \in ProcShapes /\ r.at = "settle" /\ r.lock = procs[p].lock
      /\ r.user = procs[p].user /\ r.created = procs[p].created /\ r.key = keyFile.id
  BY ProcIs, KeyIs DEF ProcShapes, KeyShapes, Steps
<1> HIDE DEF r
<1>3. CASE keyFile' = keyFile /\ Ends(p)  BY <1>1, <1>3, EndKeeps
<1>4. CASE /\ keyFile' \in {keyFile, [keyFile EXCEPT !.acl = "private"]}
           /\ procs' = [procs EXCEPT ![p] = r]
  <2>1. Holds(place, keyFile', boot, r)
    BY <1>1, <1>2, <1>4, ProcIs, RepairedKey DEF Holds, KeySteps
  <2> QED  BY <1>1, <1>2, <1>4, <2>1, RepairedKey, KeyMoves
<1> QED  BY <1>1, <1>3, <1>4

LEMMA SettleKeeps ==
  ASSUME StartInv, NEW p \in Procs, Settles(p)
  PROVE  StartInv'
<1> DEFINE r == [procs[p] EXCEPT !.at = "up", !.active = LoadedProfile]
<1>1. /\ procs[p].at = "settle" /\ place' = place /\ starts' = starts
      /\ UNCHANGED <<boot, selection, chosen>>
  BY DEF Settles, KeyOnly
<1>2. LoadedProfile \in Profiles  BY StartAssumption DEF LoadedProfile
<1>3. /\ r \in ProcShapes /\ r.at = "up" /\ r.lock = procs[p].lock
      /\ r.user = procs[p].user /\ r.created = procs[p].created
      /\ r.key = procs[p].key /\ r.active \in Profiles
  BY <1>2, ProcIs DEF ProcShapes, Steps
<1>4. CASE keyFile' = keyFile /\ Ends(p)  BY <1>1, <1>4, EndKeeps
<1>5. CASE /\ procs[p].key # 0 /\ procs' = [procs EXCEPT ![p] = r]
           /\ keyFile' = [keyFile EXCEPT !.acl = IF procs[p].created THEN @ ELSE "private"]
  <2> HIDE DEF r
  <2>1. keyFile' \in {keyFile, [keyFile EXCEPT !.acl = "private"]}
    <3>1. [keyFile EXCEPT !.acl = @] = keyFile  BY KeyIs DEF KeyShapes
    <3> QED  BY <1>5, <3>1
  <2>2. procs[p].created \/ keyFile'.acl = "private"
    BY <1>5, KeyIs DEF KeyShapes
  <2>3. Holds(place, keyFile', boot, r)
    BY <1>1, <1>3, <1>5, <2>1, <2>2, ProcIs, RepairedKey DEF Holds, KeySteps
  <2> QED  BY <1>1, <1>3, <1>5, <2>1, <2>3, RepairedKey, KeyMoves
<1> QED  BY <1>4, <1>5 DEF Settles, Becomes

LEMMA LoseKeeps ==
  ASSUME StartInv, LosesAcl
  PROVE  StartInv'
<1>1. /\ keyFile' = [keyFile EXCEPT !.acl = "broken"] /\ procs' = procs
      /\ UNCHANGED <<place, boot, selection, chosen, starts>>
      /\ \A p \in Procs : procs[p].at = "off"
  BY DEF LosesAcl, KeyOnly
<1>2. /\ keyFile' \in KeyShapes /\ keyFile'.there = keyFile.there
      /\ keyFile'.linked = keyFile.linked /\ keyFile'.id = keyFile.id
  BY <1>1, KeyIs DEF KeyShapes
<1>3. Absent(keyFile')  BY <1>2, KeyIs DEF Absent
<1>4. \A p \in Procs : Holds(place, keyFile', boot, procs[p])
  BY <1>1, <1>2, ProcIs DEF Holds, KeySteps
<1> QED  BY <1>1, <1>2, <1>3, <1>4 DEF StartInv, CurrentMeansReady, SelectionSurvives

(* The bootstrap state changes, and the key does not.                      *)
LEMMA BootMoves ==
  ASSUME StartInv, NEW p \in Procs, NEW s \in Steps \ {"write"}, KeyGoesTo(p, s), BootOnly,
         boot' \in BootShapes, boot.ready => boot'.ready,
         boot'.file = "current" => boot'.ready,
         Holds(place, keyFile, boot', [procs[p] EXCEPT !.at = s])
  PROVE  StartInv'
<1> DEFINE r == [procs[p] EXCEPT !.at = s]
<1>1. procs' = [procs EXCEPT ![p] = r]  BY DEF KeyGoesTo, Becomes
<1>2. r \in ProcShapes /\ r.at # "write" /\ r.lock = procs[p].lock /\ r.user = procs[p].user
  BY ProcIs DEF ProcShapes
<1>3. \A q \in Procs \ {p} : Excludes(place, r, procs[q])
  BY <1>2, StillExcludes
<1>4. /\ place' = place /\ keyFile' = keyFile /\ selection' = selection
      /\ chosen' = chosen /\ starts' = starts
  BY DEF BootOnly
<1>5. /\ keyFile' \in KeyShapes /\ Absent(keyFile') /\ KeyGrows(keyFile, keyFile')
      /\ selection' \in Profiles \cup {NoProfile, "torn"} /\ chosen' \in BOOLEAN
      /\ (chosen' => selection' \in Profiles) /\ starts' \in 0 .. MaxStarts
  BY <1>4 DEF StartInv, SelectionSurvives, KeyGrows
<1>6. Holds(place, keyFile', boot', r)  BY <1>4
<1> HIDE DEF r
<1> QED  BY <1>1, <1>2, <1>3, <1>4, <1>5, <1>6, OneMoves

LEMMA BootIs ==
  ASSUME StartInv
  PROVE  boot \in BootShapes /\ (boot.file = "current" => boot.ready)
BY DEF StartInv, CurrentMeansReady

LEMMA BootstrapKeeps ==
  ASSUME StartInv, NEW p \in Procs, Bootstraps(p)
  PROVE  StartInv'
<1>1. procs[p].at = "bootstrap" /\ boot' = boot /\ BootOnly
  BY DEF Bootstraps
<1>2. CASE Ends(p)  BY <1>1, <1>2, EndKeeps DEF BootOnly
<1>3. CASE KeyGoesTo(p, "stores")
  <2>1. Holds(place, keyFile, boot', [procs[p] EXCEPT !.at = "stores"])
    BY <1>1, ProcIs DEF Holds, KeySteps, ProcShapes
  <2> QED  BY <1>1, <1>3, <2>1, BootIs, BootMoves DEF Steps
<1> QED  BY <1>2, <1>3 DEF Bootstraps

LEMMA StoresKeep ==
  ASSUME StartInv, NEW p \in Procs, InitializesStores(p)
  PROVE  StartInv'
<1>1. procs[p].at = "stores" /\ BootOnly  BY DEF InitializesStores
<1>2. CASE boot' = boot /\ Ends(p)  BY <1>1, <1>2, EndKeeps DEF BootOnly
<1>3. CASE boot' = [boot EXCEPT !.ready = TRUE] /\ KeyGoesTo(p, "save")
  <2>1. boot' \in BootShapes /\ boot'.ready = TRUE
    BY <1>3, BootIs DEF BootShapes
  <2>2. Holds(place, keyFile, boot', [procs[p] EXCEPT !.at = "save"])
    BY <1>1, <2>1, ProcIs DEF Holds, KeySteps, ProcShapes
  <2> QED  BY <1>1, <1>3, <2>1, <2>2, BootMoves DEF Steps
<1> QED  BY <1>2, <1>3 DEF InitializesStores

LEMMA SaveStateKeeps ==
  ASSUME StartInv, NEW p \in Procs, SavesState(p)
  PROVE  StartInv'
<1>1. BootOnly  BY DEF SavesState
<1>2. CASE /\ procs[p].at = "save" /\ boot' = [boot EXCEPT !.file = "torn"]
           /\ KeyGoesTo(p, "saving")
  <2>1. boot' \in BootShapes /\ boot'.ready = boot.ready /\ boot'.file = "torn"
    BY <1>2, BootIs DEF BootShapes
  <2>2. Holds(place, keyFile, boot', [procs[p] EXCEPT !.at = "saving"])
    BY <1>2, <2>1, ProcIs DEF Holds, KeySteps, ProcShapes
  <2> QED  BY <1>1, <1>2, <2>1, <2>2, BootMoves DEF Steps
<1>3. CASE /\ procs[p].at = "saving" /\ boot' = [boot EXCEPT !.file = "current"]
           /\ Ends(p)
  <2>1. boot' \in BootShapes /\ boot'.ready = boot.ready /\ boot.ready
    BY <1>3, BootIs, ProcIs DEF BootShapes, Holds
  <2>2. /\ keyFile' \in KeyShapes /\ Absent(keyFile') /\ KeyGrows(keyFile, keyFile')
        /\ selection' \in Profiles \cup {NoProfile, "torn"} /\ chosen' \in BOOLEAN
        /\ (chosen' => selection' \in Profiles) /\ starts' \in 0 .. MaxStarts
        /\ keyFile' = keyFile /\ place' = place
    BY <1>1 DEF BootOnly, StartInv, SelectionSurvives, KeyGrows
  <2>3. procs' = [procs EXCEPT ![p] = Off]  BY <1>3 DEF Ends, Becomes
  <2>4. Holds(place, keyFile', boot', Off)
    BY <2>2, OffIs DEF Holds, Off
  <2> QED  BY <2>1, <2>2, <2>3, <2>4, OffIs, OneMoves
<1> QED  BY <1>2, <1>3 DEF SavesState

LEMMA ChooseKeeps ==
  ASSUME StartInv, NEW p \in Procs, NEW f \in Profiles, Chooses(p, f)
  PROVE  StartInv'
<1> DEFINE r == [procs[p] EXCEPT !.active = f, !.saving = f]
<1>1. /\ procs[p].at \in {"up", "choose"} /\ place' = place /\ starts' = starts
      /\ UNCHANGED <<keyFile, boot, selection, chosen>>
      /\ procs' = [procs EXCEPT ![p] = r]
  BY DEF Chooses, PersonalityOnly, Becomes
<1>2. /\ r \in ProcShapes /\ r.at = procs[p].at /\ r.lock = procs[p].lock
      /\ r.user = procs[p].user /\ r.created = procs[p].created
      /\ r.key = procs[p].key /\ r.active = f
  BY ProcIs DEF ProcShapes
<1> HIDE DEF r
<1>3. Holds(place, keyFile, boot, r)
  BY <1>1, <1>2, ProcIs DEF Holds, KeySteps
<1>4. \A q \in Procs \ {p} : Excludes(place, r, procs[q])
  BY <1>1, <1>2, StillExcludes
<1>5. starts' \in 0 .. MaxStarts  BY <1>1, ProcIs
<1> QED  BY <1>1, <1>2, <1>3, <1>4, <1>5, ProcMoves

(* The selection is what a process saved, or what it was.                  *)
LEMMA ProfileMoves ==
  ASSUME StartInv, NEW p \in Procs, NEW r \in ProcShapes,
         procs' = [procs EXCEPT ![p] = r], procs[p].saving # NoProfile,
         \/ selection' = procs[p].saving /\ chosen' = TRUE
         \/ selection' = selection /\ chosen' = chosen,
         place' = place, starts' = starts, keyFile' = keyFile, boot' = boot,
         Holds(place, keyFile, boot, r),
         \A q \in Procs \ {p} : Excludes(place, r, procs[q])
  PROVE  StartInv'
<1>1. procs[p].saving \in Profiles  BY ProcIs DEF ProcShapes
<1>2. /\ keyFile' \in KeyShapes /\ Absent(keyFile') /\ KeyGrows(keyFile, keyFile')
      /\ boot' \in BootShapes /\ (boot'.file = "current" => boot'.ready)
      /\ starts' \in 0 .. MaxStarts
  BY DEF StartInv, CurrentMeansReady, KeyGrows
<1>3. /\ selection' \in Profiles \cup {NoProfile, "torn"} /\ chosen' \in BOOLEAN
      /\ (chosen' => selection' \in Profiles)
  <2>1. CASE selection' = procs[p].saving /\ chosen' = TRUE  BY <1>1, <2>1
  <2>2. CASE selection' = selection /\ chosen' = chosen
    BY <2>2 DEF StartInv, SelectionSurvives
  <2> QED  BY <2>1, <2>2
<1> QED  BY <1>2, <1>3, OneMoves

LEMMA ReplaceKeeps ==
  ASSUME StartInv, NEW p \in Procs, ReplacesProfile(p)
  PROVE  StartInv'
<1> DEFINE r == AfterSave(p)
<1>1. /\ procs[p].saving # NoProfile /\ procs' = [procs EXCEPT ![p] = r]
      /\ \/ selection' = procs[p].saving /\ chosen' = TRUE
         \/ selection' = selection /\ chosen' = chosen
      /\ place' = place /\ starts' = starts /\ keyFile' = keyFile /\ boot' = boot
  BY DEF ReplacesProfile, PersonalityOnly, Becomes
<1>2. CASE procs[p].at = "choose"
  <2>1. r = Off  BY <1>2 DEF AfterSave
  <2>2. r \in ProcShapes /\ Holds(place, keyFile, boot, r)
        /\ \A q \in Procs \ {p} : Excludes(place, r, procs[q])
    BY <2>1, OffIs
  <2> HIDE DEF r
  <2> QED  BY <1>1, <2>2, ProfileMoves
<1>3. CASE procs[p].at # "choose"
  <2>1. r = [procs[p] EXCEPT !.saving = NoProfile]  BY <1>3 DEF AfterSave
  <2>2. /\ r \in ProcShapes /\ r.at = procs[p].at /\ r.lock = procs[p].lock
        /\ r.user = procs[p].user /\ r.created = procs[p].created
        /\ r.key = procs[p].key /\ r.active = procs[p].active /\ r.cmd = procs[p].cmd
    BY <2>1, ProcIs DEF ProcShapes
  <2> HIDE DEF r
  <2>3. Holds(place, keyFile, boot, r)  BY <2>2, ProcIs DEF Holds, KeySteps
  <2>4. \A q \in Procs \ {p} : Excludes(place, r, procs[q])
    BY <2>2 DEF StartInv, Excludes
  <2> QED  BY <1>1, <2>2, <2>3, <2>4, ProfileMoves
<1> QED  BY <1>2, <1>3

(* Which step may touch the key, and how.                                  *)
KeyActs ==
  /\ (place.windows /\ place.canonical) =>
       /\ \A p \in Procs : procs[p].user = "stranger" /\ procs'[p] # procs[p] =>
                             keyFile' = keyFile
       /\ (keyFile.linked => keyFile'.acl \in {keyFile.acl, "broken"})
  /\ keyFile.there /\ keyFile.id # 0 => keyFile'.there /\ keyFile'.id = keyFile.id

LEMMA OnlyOwnersAct ==
  ASSUME StartInv, NEW p \in Procs, procs[p].at \in KeySteps,
         \E r : procs' = [procs EXCEPT ![p] = r],
         keyFile.there /\ keyFile.id # 0 => keyFile'.there /\ keyFile'.id = keyFile.id,
         (place.windows /\ place.canonical /\ keyFile.linked) =>
            keyFile'.acl \in {keyFile.acl, "broken"}
  PROVE  KeyActs
<1>1. place.windows /\ place.canonical => procs[p].user # "stranger"
  BY ProcIs DEF Holds
<1>2. \A q \in Procs : q # p => procs'[q] = procs[q]  BY DEF StartInv
<1> QED  BY <1>1, <1>2 DEF KeyActs

LEMMA KeyActsAlways ==
  ASSUME StartInv, [StartNext]_startVars
  PROVE  KeyActs
<1>1. CASE keyFile' = keyFile  BY <1>1 DEF KeyActs
<1>2. ASSUME NEW p \in Procs, Creates(p) \/ WritesKey(p) \/ Hardens(p) \/ Reads(p) \/ Settles(p)
      PROVE  KeyActs
  <2>1. procs[p].at \in KeySteps /\ \E r : procs' = [procs EXCEPT ![p] = r]
    BY <1>2 DEF Creates, WritesKey, Hardens, Reads, Settles, Becomes, Ends, KeyGoesTo, KeySteps
  <2>2. CASE Creates(p)
    <3>1. keyFile' = keyFile \/ ~keyFile.there  BY <2>2 DEF Creates
    <3> QED  BY <1>1, <2>1, <3>1, KeyIs, OnlyOwnersAct DEF Absent
  <2>3. CASE WritesKey(p)
    <3>1. keyFile' = keyFile \/ keyFile' = [keyFile EXCEPT !.id = starts + 1]
      BY <2>3 DEF WritesKey
    <3>2. keyFile.id = 0  BY <2>3, ProcIs DEF WritesKey, Holds
    <3>3. keyFile'.acl = keyFile.acl  BY <3>1, KeyIs DEF KeyShapes
    <3> QED  BY <2>1, <3>2, <3>3, OnlyOwnersAct
  <2>4. ASSUME keyFile' \in {keyFile, [keyFile EXCEPT !.acl = "private"]},
               place.windows /\ place.canonical /\ keyFile.linked => keyFile' = keyFile
                                                                  \/ keyFile'.acl = keyFile.acl
        PROVE  KeyActs
    BY <2>1, <2>4, RepairedKey, OnlyOwnersAct
  <2>5. CASE Hardens(p)
    <3>1. ~keyFile.linked  BY <2>5, ProcIs DEF Hardens, Holds
    <3>2. keyFile' \in {keyFile, [keyFile EXCEPT !.acl = "private"]}  BY <2>5 DEF Hardens
    <3> QED  BY <2>4, <3>1, <3>2
  <2>6. CASE Reads(p)
    <3>1. keyFile' \in {keyFile, [keyFile EXCEPT !.acl = "private"]}  BY <2>6 DEF Reads
    <3>2. keyFile' = keyFile \/ ~keyFile.linked  BY <2>6 DEF Reads, TrustedTarget
    <3> QED  BY <2>4, <3>1, <3>2
  <2>7. CASE Settles(p)
    <3>1. [keyFile EXCEPT !.acl = @] = keyFile  BY KeyIs DEF KeyShapes
    <3>2. keyFile' \in {keyFile, [keyFile EXCEPT !.acl = "private"]}
      BY <2>7, <3>1 DEF Settles
    <3>3. place.windows /\ place.canonical /\ keyFile.linked => keyFile' = keyFile
      BY <2>7, <3>1 DEF Settles, TrustedTarget
    <3> QED  BY <2>4, <3>2, <3>3
  <2> QED  BY <1>2, <2>2, <2>3, <2>5, <2>6, <2>7
<1>3. CASE LosesAcl
  <2>1. keyFile' = [keyFile EXCEPT !.acl = "broken"] /\ procs' = procs
    BY <1>3 DEF LosesAcl
  <2>2. keyFile'.there = keyFile.there /\ keyFile'.id = keyFile.id /\ keyFile'.acl = "broken"
    BY <2>1, KeyIs DEF KeyShapes
  <2> QED  BY <2>1, <2>2 DEF KeyActs
<1>4. ASSUME NEW p \in Procs,
             \/ Launches(p) \/ AcquiresLock(p) \/ Stops(p) \/ Identifies(p)
             \/ Bootstraps(p) \/ InitializesStores(p) \/ SavesState(p)
             \/ (\E f \in Profiles : Chooses(p, f)) \/ ReplacesProfile(p)
      PROVE  keyFile' = keyFile
  BY <1>4 DEF Launches, AcquiresLock, Stops, Identifies, Bootstraps, InitializesStores,
              SavesState, Chooses, ReplacesProfile, DiskSame, BootOnly, PersonalityOnly
<1>5. CASE UNCHANGED startVars  BY <1>1, <1>5 DEF startVars
<1> QED  BY <1>1, <1>2, <1>3, <1>4, <1>5 DEF StartNext

LEMMA StartStep ==
  ASSUME StartInv, [StartNext]_startVars
  PROVE  StartInv'
<1>1. ASSUME NEW p \in Procs, Stops(p) PROVE StartInv'
  BY <1>1, EndKeeps DEF Stops, DiskSame
<1>2. CASE UNCHANGED startVars
  BY <1>2 DEF startVars, StartInv, CurrentMeansReady, SelectionSurvives
<1> QED
  BY <1>1, <1>2, LaunchKeeps, AcquireKeeps, IdentifyKeeps, CreateKeeps, WriteKeeps,
     HardenKeeps, ReadKeeps, SettleKeeps, BootstrapKeeps, StoresKeep, SaveStateKeeps,
     ChooseKeeps, ReplaceKeeps, LoseKeeps DEF StartNext

LEMMA StartBegins == StartInit => StartInv
<1> SUFFICES ASSUME StartInit PROVE StartInv  OBVIOUS
<1>1. MaxStarts \in Nat  BY StartAssumption
<1>2. procs = [p \in Procs |-> Off] /\ Off \in ProcShapes
  BY <1>1 DEF StartInit, Off, ProcShapes, Steps, Commands, Builders, Users
<1>3. keyFile \in KeyShapes /\ Absent(keyFile)
  <2>1. CASE keyFile = [there |-> FALSE, id |-> 0, acl |-> "inherited", linked |-> FALSE]
    BY <1>1, <2>1 DEF KeyShapes, Absent
  <2>2. ASSUME NEW a \in {"private", "broken"}, NEW l \in BOOLEAN,
               keyFile = [there |-> TRUE, id |-> 1, acl |-> a, linked |-> l]
        PROVE  keyFile \in KeyShapes /\ Absent(keyFile)
    BY <1>1, <2>2 DEF KeyShapes, Absent
  <2> QED  BY <2>1, <2>2 DEF StartInit
<1>4. boot \in BootShapes /\ CurrentMeansReady
  <2>1. CASE boot = [ready |-> FALSE, file |-> "none"]
    BY <2>1 DEF BootShapes, CurrentMeansReady
  <2>2. CASE boot = [ready |-> FALSE, file |-> "old"]
    BY <2>2 DEF BootShapes, CurrentMeansReady
  <2> QED  BY <2>1, <2>2 DEF StartInit
<1>5. \A p \in Procs : Holds(place, keyFile, boot, procs[p])
  BY <1>2 DEF Holds, Off, KeySteps
<1>6. \A p, q \in Procs : Excludes(place, procs[p], procs[q])
  BY <1>2 DEF Excludes, Off
<1>7. procs \in [Procs -> ProcShapes]  BY <1>2
<1>8. chosen \in BOOLEAN /\ SelectionSurvives  BY DEF StartInit, SelectionSurvives
<1>9. selection \in Profiles \cup {NoProfile, "torn"} /\ starts \in 0 .. MaxStarts
  BY <1>1 DEF StartInit
<1> QED  BY <1>3, <1>4, <1>5, <1>6, <1>7, <1>8, <1>9 DEF StartInit, StartInv

(* Starting processes keep their invariant: the lock, the key file and the *)
(* bootstrap state (runtime/safety.py, core/app.py, bootstrap.py).         *)
THEOREM StartInvariance == StartInit /\ [][StartNext]_startVars => []StartInv
BY StartBegins, StartStep, PTL

LEMMA StartImplies ==
  ASSUME StartInv
  PROVE  /\ StartTypeOK /\ OneMutator /\ OneKeyForAll /\ KeyIsPrivate
         /\ CurrentMeansReady /\ SelectionSurvives
<1>1. StartTypeOK
  BY DEF StartInv, StartTypeOK, ProcShapes, KeyShapes, BootShapes, Holds
<1>2. OneMutator
  <2> SUFFICES ASSUME NEW p \in Procs, NEW q \in Procs, p # q, Mutating(p), Mutating(q)
               PROVE  /\ place.windows /\ procs[p].user # procs[q].user
                      /\ place.canonical => ~(procs[p].at = "up" /\ procs[q].at = "up")
    BY DEF OneMutator
  <2>1. procs[p].lock /\ procs[q].lock  BY ProcIs DEF Mutating, Holds
  <2>2. place.windows /\ procs[p].user # procs[q].user
    BY <2>1 DEF StartInv, Excludes
  <2>3. ASSUME place.canonical, procs[p].at = "up", procs[q].at = "up" PROVE FALSE
    BY <2>2, <2>3, ProcIs DEF Holds, KeySteps
  <2> QED  BY <2>2, <2>3
<1>3. OneKeyForAll  BY ProcIs DEF OneKeyForAll, Holds
<1>4. KeyIsPrivate  BY ProcIs DEF KeyIsPrivate, Holds
<1> QED  BY <1>1, <1>2, <1>3, <1>4 DEF StartInv

(* However processes start, crash and overlap: one of them mutates, all    *)
(* use the one whole and private key, which no step replaces and no        *)
(* stranger touches, and a bootstrap or an activation on record has been   *)
(* done.                                                                   *)
THEOREM StartIsSafe == StartInit /\ [][StartNext]_startVars => StartSafe
<1>1. StartInv => /\ StartTypeOK /\ OneMutator /\ OneKeyForAll /\ KeyIsPrivate
                  /\ CurrentMeansReady /\ SelectionSurvives
  BY StartImplies
<1>2. StartInv /\ [StartNext]_startVars =>
        [(place.windows /\ place.canonical) =>
          /\ \A p \in Procs : procs[p].user = "stranger" /\ procs'[p] # procs[p] =>
                                keyFile' = keyFile
          /\ (keyFile.linked => keyFile'.acl \in {keyFile.acl, "broken"})]_startVars
  BY KeyActsAlways DEF KeyActs
<1>3. StartInv /\ [StartNext]_startVars =>
        [keyFile.there /\ keyFile.id # 0 =>
           keyFile'.there /\ keyFile'.id = keyFile.id]_startVars
  BY KeyActsAlways DEF KeyActs
<1> QED  BY <1>1, <1>2, <1>3, StartInvariance, PTL
         DEF StartSafe, StrangersChangeNothing, KeyKept

-----------------------------------------------------------------------------
(* The setup: for any providers, servers and secrets, and any number of    *)
(* edits, tests, commits, failed writes and rollbacks.                     *)

Kept == Secrets \cup {NoSecret}
Drafts ==
  [primary : Hosted \cup {"later"}, offline : BOOLEAN, key : Kept,
   dropKey : BOOLEAN, verified : BOOLEAN, smtp : BOOLEAN,
   server : Servers \cup {"none", Preset}, password : Kept,
   dropPassword : BOOLEAN, authVerified : BOOLEAN]
Entries == [Hosted -> [ref : BOOLEAN, verified : BOOLEAN]]
Relays == [on : BOOLEAN, server : Servers \cup {"none", Preset}, ref : BOOLEAN,
           verified : BOOLEAN, accepted : BOOLEAN]
SavedBy(primaries) ==
  [present : {TRUE}, readable : {TRUE}, completed : BOOLEAN, primary : primaries,
   providers : Entries, smtp : Relays]
Saved == SavedBy(Hosted \cup {"later"})
Vaults == [CredentialIds -> Kept]
CredentialWrites == CredentialIds \X Kept

(* The commit is under way, and was when the base was what is installed.   *)
Committing == step \in {"credentials", "validating", "saving", "readiness",
                        "rollback", "unwinding", "failed"}
BaseSettings == IF Committing THEN before.settings ELSE settings
BaseVault == IF Committing THEN before.vault ELSE vault

(* What a settings file is merged to, and the secrets a draft stands for.  *)
LoadedOf(s) == IF s.present THEN s ELSE DefaultDocument
KeyWith(d, v) == IF d.dropKey THEN NoSecret
                 ELSE IF d.key # NoSecret THEN d.key
                 ELSE IF d.primary \in Hosted THEN v[d.primary] ELSE NoSecret
PasswordWith(d, v) == IF d.dropPassword THEN NoSecret
                      ELSE IF d.password # NoSecret THEN d.password ELSE v["smtp"]

(* The credentials when all of a draft's writes are done.                  *)
After(d, v) ==
  [i \in CredentialIds |->
     IF i = "smtp"
       THEN IF d.dropPassword THEN NoSecret
            ELSE IF d.smtp /\ d.password # NoSecret THEN d.password ELSE v[i]
       ELSE IF d.dropKey /\ i = d.primary THEN NoSecret
            ELSE IF i = Primary(d) /\ d.key # NoSecret THEN d.key ELSE v[i]]

(* What a document says of its provider and its server is true of these    *)
(* credentials.                                                            *)
InstallOK(doc, v) ==
  /\ doc.primary \in Hosted /\ doc.providers[doc.primary].verified
       => <<doc.primary, v[doc.primary]>> \in tested
  /\ ~doc.smtp.ref => v["smtp"] = NoSecret
  /\ carried \/ (doc.smtp.verified => <<doc.smtp.server, v["smtp"]>> \in tested)
  /\ doc.smtp.accepted => <<doc.smtp.server, v["smtp"]>> \in accepted
Ready(doc) ==
  doc.completed /\ doc.primary \in Hosted =>
    doc.providers[doc.primary].ref /\ doc.providers[doc.primary].verified

(* A verification in the wizard is of what the controller holds, and the   *)
(* fields have not moved away from it since.                               *)
ProviderProven(v) ==
  values.verified =>
    /\ held.primary \in Hosted /\ <<held.primary, KeyWith(held, v)>> \in tested
    /\ ProviderPart(Captured(held, values)) = ProviderPart(held)
ServerProven(v) ==
  carried \/ (values.authVerified =>
    /\ <<held.server, PasswordWith(held, v)>> \in tested
    /\ SmtpPart(Captured(held, values)) = SmtpPart(held))

(* A document counts as complete only as the validator found it ready.     *)
Stripped(doc) == [doc EXCEPT !.smtp.accepted = FALSE]
Checked(s) ==
  s.present /\ s.readable /\ s.completed =>
    \E d \in checked : Stripped(s) = Stripped(d)

SetupShape ==
  /\ settings \in {NoFile, Malformed} \cup Saved
  /\ vault \in Vaults /\ edits \in 0..MaxEdits
  /\ torn \in BOOLEAN /\ carried \in BOOLEAN
  /\ changes \in Seq(CredentialWrites) /\ Len(changes) <= 2
  /\ todo \in Seq(CredentialWrites) /\ Len(todo) <= 2
  /\ step \in {"closed", "wizard", "finished", "credentials", "validating", "saving",
               "readiness", "rollback", "unwinding", "failed"}
  /\ step # "closed" => values \in Drafts /\ held \in Drafts /\ settings # Malformed
  /\ Committing => /\ document \in Saved /\ oldSettings = before.settings
                   /\ before.settings \in {NoFile} \cup Saved
                   /\ before.vault \in Vaults

(* How far the commit is: what was written is noted, and what is noted or  *)
(* untouched can be put back.                                              *)
Noted ==
  /\ \A n \in DOMAIN changes : changes[n][2] = before.vault[changes[n][1]]
  /\ \A i \in CredentialIds :
       vault[i] = before.vault[i] \/ \E n \in DOMAIN changes : changes[n][1] = i
ToDo ==
  /\ Len(changes) + Len(todo) <= 2
  /\ \A n \in DOMAIN todo : todo[n][2] = After(held, before.vault)[todo[n][1]]
  /\ \A m, n \in DOMAIN todo : todo[m][1] = todo[n][1] => m = n
  /\ \A m \in DOMAIN changes, n \in DOMAIN todo : changes[m][1] # todo[n][1]
  /\ \A i \in CredentialIds :
       \/ vault[i] = After(held, before.vault)[i]
       \/ \E n \in DOMAIN todo : todo[n][1] = i
CommitOK ==
  Committing =>
    /\ Noted
    /\ step = "credentials" => ToDo /\ ~document.completed
    /\ step \in {"validating", "saving", "readiness"}
         => vault = After(held, before.vault)
    /\ step = "validating" => settings = document
    /\ step \in {"saving", "readiness"} => Ready(document) /\ Checked(document)
    /\ step = "readiness" => settings = document
    /\ step \in {"unwinding", "failed"} => settings = before.settings
    /\ step = "failed" => changes = <<>>
    /\ Checked(before.settings)

(* As long as no commit ended half way.                                    *)
Sound ==
  /\ BaseSettings \in {NoFile} \cup Saved
  /\ InstallOK(LoadedOf(BaseSettings), BaseVault) /\ Ready(LoadedOf(BaseSettings))
  /\ Committing => InstallOK(document, After(held, before.vault))
  /\ step \notin {"closed", "finished"} => ProviderProven(BaseVault) /\ ServerProven(BaseVault)

SetupInv == SetupShape /\ CommitOK /\ Checked(settings) /\ (torn \/ Sound)

-----------------------------------------------------------------------------
(* Drafts.                                                                 *)

(* The parts of a draft as the wizard captures it.                         *)
LEMMA CapturedParts ==
  ASSUME NEW h \in Drafts, NEW w \in Drafts
  PROVE  LET c == Captured(h, w) IN
         /\ c \in Drafts
         /\ c.primary = w.primary /\ c.offline = w.offline /\ c.dropKey = w.dropKey
         /\ c.smtp = w.smtp /\ c.server = w.server /\ c.dropPassword = w.dropPassword
         /\ c.key = IF w.dropKey THEN NoSecret
                    ELSE IF w.key = NoSecret THEN h.key ELSE w.key
         /\ c.password = IF w.dropPassword THEN NoSecret
                         ELSE IF w.password = NoSecret THEN h.password ELSE w.password
         /\ c.verified => w.verified /\ ProviderPart(h) = ProviderPart(c)
         /\ c.authVerified => w.authVerified /\ SmtpPart(h) = SmtpPart(c)
<1> DEFINE key == IF w.dropKey THEN NoSecret
                  ELSE IF w.key = NoSecret THEN h.key ELSE w.key
           password == IF w.dropPassword THEN NoSecret
                       ELSE IF w.password = NoSecret THEN h.password ELSE w.password
           r == [w EXCEPT !.key = key, !.password = password]
           y == (r.verified /\ ProviderPart(h) = ProviderPart(r))
           z == (r.authVerified /\ SmtpPart(h) = SmtpPart(r))
<1>1. key \in Kept /\ password \in Kept  BY DEF Drafts, Kept
<1> HIDE DEF key, password
<1>2. r \in Drafts /\ r.primary = w.primary /\ r.offline = w.offline
      /\ r.dropKey = w.dropKey /\ r.smtp = w.smtp /\ r.server = w.server
      /\ r.dropPassword = w.dropPassword /\ r.key = key /\ r.password = password
      /\ r.verified = w.verified /\ r.authVerified = w.authVerified
  BY <1>1 DEF Drafts
<1>3. r = CapturedAll(h, w)  BY DEF CapturedAll, key, password
<1> HIDE DEF r
<1>4. Captured(h, w) = [r EXCEPT !.verified = y, !.authVerified = z]
  <2>1. Captured(h, w) = [r EXCEPT !.verified = @ /\ ProviderPart(h) = ProviderPart(r),
                                   !.authVerified = @ /\ SmtpPart(h) = SmtpPart(r)]
    BY <1>3 DEF Captured
  <2> QED  BY <2>1, <1>2 DEF Drafts
<1>5. PICK a \in BOOLEAN : a = y  OBVIOUS
<1>6. PICK b \in BOOLEAN : b = z  OBVIOUS
<1> DEFINE c == [r EXCEPT !.verified = a, !.authVerified = b]
<1>7. Captured(h, w) = c  BY <1>4, <1>5, <1>6
<1>8. /\ c \in Drafts
      /\ c.primary = r.primary /\ c.offline = r.offline /\ c.dropKey = r.dropKey
      /\ c.smtp = r.smtp /\ c.server = r.server /\ c.dropPassword = r.dropPassword
      /\ c.key = r.key /\ c.password = r.password
      /\ c.verified = a /\ c.authVerified = b
  BY <1>2 DEF Drafts
<1>9. ProviderPart(c) = ProviderPart(r) /\ SmtpPart(c) = SmtpPart(r)
  BY <1>8 DEF ProviderPart, SmtpPart
<1> HIDE DEF c
<1>10. c.verified => w.verified /\ ProviderPart(h) = ProviderPart(c)
  BY <1>2, <1>5, <1>8, <1>9
<1>11. c.authVerified => w.authVerified /\ SmtpPart(h) = SmtpPart(c)
  BY <1>2, <1>6, <1>8, <1>9
<1> QED  BY <1>2, <1>7, <1>8, <1>10, <1>11 DEF key, password

(* A capture sees only these parts of the fields, and a second one adds    *)
(* nothing.                                                                *)
LEMMA CapturedAgain ==
  ASSUME NEW h \in Drafts, NEW w \in Drafts
  PROVE  LET c == Captured(h, w) IN
         /\ ProviderPart(Captured(c, w)) = ProviderPart(c)
         /\ SmtpPart(Captured(c, w)) = SmtpPart(c)
         /\ \A u \in Drafts :
              /\ ProviderPart(u) = ProviderPart(w)
                   => ProviderPart(Captured(h, u)) = ProviderPart(c)
              /\ SmtpPart(u) = SmtpPart(w) => SmtpPart(Captured(h, u)) = SmtpPart(c)
<1> DEFINE c == Captured(h, w)
<1>1. /\ c \in Drafts /\ c.primary = w.primary /\ c.dropKey = w.dropKey
      /\ c.server = w.server /\ c.dropPassword = w.dropPassword
      /\ c.key = IF w.dropKey THEN NoSecret
                 ELSE IF w.key = NoSecret THEN h.key ELSE w.key
      /\ c.password = IF w.dropPassword THEN NoSecret
                      ELSE IF w.password = NoSecret THEN h.password ELSE w.password
  BY CapturedParts
<1> HIDE DEF c
<1>2. ProviderPart(Captured(c, w)) = ProviderPart(c)
      /\ SmtpPart(Captured(c, w)) = SmtpPart(c)
  BY <1>1, CapturedParts DEF ProviderPart, SmtpPart
<1>3. ASSUME NEW u \in Drafts
      PROVE  /\ ProviderPart(u) = ProviderPart(w)
                  => ProviderPart(Captured(h, u)) = ProviderPart(c)
             /\ SmtpPart(u) = SmtpPart(w) => SmtpPart(Captured(h, u)) = SmtpPart(c)
  <2> DEFINE e == Captured(h, u)
  <2>1. /\ e.primary = u.primary /\ e.dropKey = u.dropKey
        /\ e.server = u.server /\ e.dropPassword = u.dropPassword
        /\ e.key = IF u.dropKey THEN NoSecret
                   ELSE IF u.key = NoSecret THEN h.key ELSE u.key
        /\ e.password = IF u.dropPassword THEN NoSecret
                        ELSE IF u.password = NoSecret THEN h.password ELSE u.password
    BY CapturedParts
  <2> HIDE DEF e
  <2>2. ProviderPart(u) = ProviderPart(w) => ProviderPart(e) = ProviderPart(c)
    BY <1>1, <2>1 DEF ProviderPart
  <2>3. SmtpPart(u) = SmtpPart(w) => SmtpPart(e) = SmtpPart(c)
    BY <1>1, <2>1 DEF SmtpPart
  <2> QED  BY <2>2, <2>3 DEF e
<1> QED  BY <1>2, <1>3 DEF c

LEMMA SameParts ==
  ASSUME NEW c \in Drafts, NEW d \in Drafts, NEW v
  PROVE  /\ ProviderPart(c) = ProviderPart(d)
              => c.primary = d.primary /\ KeyWith(c, v) = KeyWith(d, v)
         /\ SmtpPart(c) = SmtpPart(d)
              => c.server = d.server /\ PasswordWith(c, v) = PasswordWith(d, v)
BY DEF ProviderPart, SmtpPart, KeyWith, PasswordWith

(* The fields change, or a test succeeds; nothing is installed.            *)
LEMMA WizardKeeps ==
  ASSUME SetupInv, step = "wizard", step' = "wizard", edits' \in 0..MaxEdits,
         values' \in Drafts, held' \in Drafts,
         tested \subseteq tested', accepted' = accepted, checked' = checked,
         carried => carried', carried' \in BOOLEAN,
         UNCHANGED <<changes, todo, settings, vault, torn>>,
         torn \/ (ProviderProven(vault) /\ ServerProven(vault))'
  PROVE  SetupInv'
<1>1. ~Committing /\ ~Committing'  BY DEF Committing
<1>2. SetupShape'  BY <1>1 DEF SetupInv, SetupShape
<1>3. CommitOK'  BY <1>1 DEF CommitOK
<1>4. Checked(settings)'  BY DEF SetupInv, Checked
<1>5. torn' \/ Sound'
  <2>1. CASE torn  BY <2>1
  <2>2. CASE ~torn
    <3>1. /\ settings \in {NoFile} \cup Saved /\ InstallOK(LoadedOf(settings), vault)
          /\ Ready(LoadedOf(settings))
      BY <2>2, <1>1 DEF SetupInv, Sound, BaseSettings, BaseVault
    <3>2. InstallOK(LoadedOf(settings), vault)'  BY <3>1 DEF InstallOK, LoadedOf
    <3>3. (ProviderProven(vault) /\ ServerProven(vault))'  BY <2>2
    <3> QED
      BY <1>1, <3>1, <3>2, <3>3 DEF Sound, BaseSettings, BaseVault, LoadedOf, Ready
  <2> QED  BY <2>1, <2>2 DEF SetupInv, SetupShape
<1> QED  BY <1>2, <1>3, <1>4, <1>5 DEF SetupInv

(* In the wizard the secrets are those a verification was about.           *)
LEMMA WizardIs ==
  ASSUME SetupInv, step = "wizard"
  PROVE  /\ values \in Drafts /\ held \in Drafts /\ Built \in Drafts
         /\ torn \/ (ProviderProven(vault) /\ ServerProven(vault))
         /\ torn \in BOOLEAN /\ carried \in BOOLEAN /\ vault \in Vaults
         /\ edits < MaxEdits => edits + 1 \in 0..MaxEdits
<1>1. values \in Drafts /\ held \in Drafts  BY DEF SetupInv, SetupShape
<1>2. Built \in Drafts  BY <1>1, CapturedParts DEF Built
<1>3. torn \/ (ProviderProven(vault) /\ ServerProven(vault))
  BY DEF SetupInv, Sound, BaseVault, Committing
<1>4. edits < MaxEdits => edits + 1 \in 0..MaxEdits
  BY SetupAssumption DEF SetupInv, SetupShape
<1> QED  BY <1>1, <1>2, <1>3, <1>4 DEF SetupInv, SetupShape

(* Secrets at work are the same for a draft built from proven fields.      *)
LEMMA BuiltIsProven ==
  ASSUME values \in Drafts, held \in Drafts, NEW v
  PROVE  /\ ProviderProven(v) /\ values.verified =>
              /\ Built.primary \in Hosted
              /\ <<Built.primary, KeyWith(Built, v)>> \in tested
         /\ ServerProven(v) /\ ~carried /\ values.authVerified =>
              <<Built.server, PasswordWith(Built, v)>> \in tested
<1>1. Built \in Drafts  BY CapturedParts DEF Built
<1>2. ProviderPart(Built) = ProviderPart(held)
        => Built.primary = held.primary /\ KeyWith(Built, v) = KeyWith(held, v)
  BY <1>1, SameParts
<1>3. SmtpPart(Built) = SmtpPart(held)
        => Built.server = held.server /\ PasswordWith(Built, v) = PasswordWith(held, v)
  BY <1>1, SameParts
<1> QED  BY <1>2, <1>3 DEF ProviderProven, ServerProven, Built

(* The controller takes over the fields: what was proven stays proven.     *)
LEMMA HoldsBuilt ==
  ASSUME values \in Drafts, held \in Drafts, NEW v,
         held' = Built, values' \in Drafts,
         ProviderPart(values') = ProviderPart(values),
         SmtpPart(values') = SmtpPart(values),
         tested \subseteq tested', carried => carried'
  PROVE  /\ ProviderProven(v) /\ (values'.verified => values.verified)
              => ProviderProven(v)'
         /\ ServerProven(v) /\ (values'.authVerified => values.authVerified)
              => ServerProven(v)'
         /\ /\ values'.verified => /\ Built.primary \in Hosted
                                   /\ <<Built.primary, KeyWith(Built, v)>> \in tested'
            => ProviderProven(v)'
         /\ /\ values'.authVerified => <<Built.server, PasswordWith(Built, v)>> \in tested'
            => ServerProven(v)'
<1>1. Built \in Drafts  BY CapturedParts DEF Built
<1>2. /\ ProviderPart(Captured(Built, values)) = ProviderPart(Built)
      /\ SmtpPart(Captured(Built, values)) = SmtpPart(Built)
  BY CapturedAgain DEF Built
<1>3. /\ ProviderPart(Captured(Built, values')) = ProviderPart(Built)
      /\ SmtpPart(Captured(Built, values')) = SmtpPart(Built)
  BY <1>1, <1>2, CapturedAgain
<1>4. /\ ProviderPart(Captured(held', values')) = ProviderPart(held')
      /\ SmtpPart(Captured(held', values')) = SmtpPart(held')
  BY <1>3
<1>5. ASSUME values'.verified => /\ Built.primary \in Hosted
                                 /\ <<Built.primary, KeyWith(Built, v)>> \in tested'
      PROVE  ProviderProven(v)'
  BY <1>4, <1>5 DEF ProviderProven, KeyWith
<1>6. ASSUME values'.authVerified => <<Built.server, PasswordWith(Built, v)>> \in tested'
      PROVE  ServerProven(v)'
  BY <1>4, <1>6 DEF ServerProven, PasswordWith
<1>7. ASSUME ServerProven(v), values'.authVerified => values.authVerified
      PROVE  ServerProven(v)'
  <2>1. CASE carried  BY <2>1 DEF ServerProven
  <2>2. CASE ~carried  BY <2>2, <1>6, <1>7, BuiltIsProven
  <2> QED  BY <2>1, <2>2
<1>8. ASSUME ProviderProven(v), values'.verified => values.verified
      PROVE  ProviderProven(v)'
  BY <1>5, <1>8, BuiltIsProven
<1> QED  BY <1>5, <1>6, <1>7, <1>8

-----------------------------------------------------------------------------
(* The wizard.                                                             *)

LEMMA EditedIs ==
  ASSUME values \in Drafts, NEW e \in Edited
  PROVE  e \in Drafts /\ e.verified = values.verified
         /\ e.authVerified = values.authVerified
<1>1. CASE \E p \in Hosted \cup {"later"} : e = [values EXCEPT !.primary = p]
  BY <1>1 DEF Drafts
<1>2. CASE \E k \in Secrets : e = [values EXCEPT !.key = k]
  BY <1>2 DEF Drafts, Kept
<1>3. CASE e = [values EXCEPT !.dropKey = ~@]  BY <1>3 DEF Drafts
<1>4. CASE e = [values EXCEPT !.smtp = ~@]  BY <1>4 DEF Drafts
<1>5. CASE \E s \in Servers : e = [values EXCEPT !.server = s]  BY <1>5 DEF Drafts
<1>6. CASE \E k \in Secrets : e = [values EXCEPT !.password = k]
  BY <1>6 DEF Drafts, Kept
<1>7. CASE e = [values EXCEPT !.dropPassword = ~@]  BY <1>7 DEF Drafts
<1> QED  BY <1>1, <1>2, <1>3, <1>4, <1>5, <1>6, <1>7 DEF Edited

LEMMA EditsKeeps == ASSUME SetupInv, Edits PROVE SetupInv'
<1>0. /\ step = "wizard" /\ step' = "wizard" /\ edits < MaxEdits /\ edits' = edits + 1
      /\ UNCHANGED <<held, changes, todo, settings, vault, tested, accepted, checked,
                     torn, carried>>
  BY DEF Edits, Acts
<1>1. PICK e \in Edited : values' = Captured(values, e)  BY DEF Edits
<1>2. /\ values \in Drafts /\ held \in Drafts /\ carried \in BOOLEAN
      /\ torn \/ (ProviderProven(vault) /\ ServerProven(vault))
      /\ edits' \in 0..MaxEdits
  BY <1>0, WizardIs
<1>3. e \in Drafts /\ e.verified = values.verified
      /\ e.authVerified = values.authVerified
  BY <1>2, EditedIs
<1>4. /\ values' \in Drafts
      /\ values'.verified => values.verified /\ ProviderPart(values) = ProviderPart(values')
      /\ values'.authVerified => values.authVerified /\ SmtpPart(values) = SmtpPart(values')
  BY <1>1, <1>2, <1>3, CapturedParts
<1>5. /\ ProviderPart(values') = ProviderPart(values)
           => ProviderPart(Captured(held, values')) = ProviderPart(Captured(held, values))
      /\ SmtpPart(values') = SmtpPart(values)
           => SmtpPart(Captured(held, values')) = SmtpPart(Captured(held, values))
  BY <1>2, <1>4, CapturedAgain
<1>6. ProviderProven(vault) => ProviderProven(vault)'
  BY <1>0, <1>4, <1>5 DEF ProviderProven, KeyWith
<1>7. ServerProven(vault) => ServerProven(vault)'
  BY <1>0, <1>4, <1>5 DEF ServerProven, PasswordWith
<1> QED  BY <1>0, <1>2, <1>4, <1>6, <1>7, WizardKeeps

LEMMA PresetKeeps == ASSUME SetupInv, AppliesPreset PROVE SetupInv'
<1>0. /\ step = "wizard" /\ step' = "wizard" /\ edits < MaxEdits /\ edits' = edits + 1
      /\ UNCHANGED <<held, changes, todo, settings, vault, tested, accepted, checked,
                     torn>>
      /\ values' = [values EXCEPT !.server = Preset]
  BY DEF AppliesPreset, Acts
<1>a. carried' = TRUE  BY DEF AppliesPreset
<1>1. /\ values \in Drafts /\ held \in Drafts
      /\ torn \/ ProviderProven(vault)
      /\ edits' \in 0..MaxEdits
  BY <1>0, WizardIs
<1>2. /\ values' \in Drafts /\ values'.verified = values.verified
      /\ values'.primary = values.primary /\ values'.key = values.key
      /\ values'.dropKey = values.dropKey
  BY <1>0, <1>1 DEF Drafts
<1>3. ProviderPart(Captured(held, values')) = ProviderPart(Captured(held, values))
  <2>1. ProviderPart(values') = ProviderPart(values)  BY <1>2 DEF ProviderPart
  <2> QED  BY <1>1, <1>2, <2>1, CapturedAgain
<1>4. ProviderProven(vault) => ProviderProven(vault)'
  BY <1>0, <1>2, <1>3 DEF ProviderProven, KeyWith
<1>5. ServerProven(vault)'  BY <1>a DEF ServerProven
<1> QED  BY <1>0, <1>a, <1>1, <1>2, <1>4, <1>5, WizardKeeps

(* A passed test proves what it was of; the other verification stands.     *)
LEMMA TestsProviderKeeps == ASSUME SetupInv, TestsProvider PROVE SetupInv'
<1>0. /\ step = "wizard" /\ step' = "wizard" /\ edits < MaxEdits /\ edits' = edits + 1
      /\ UNCHANGED <<changes, todo, settings, vault, accepted, checked, torn, carried>>
      /\ held' = Built
  BY DEF TestsProvider, Acts
<1>1. PICK passes \in BOOLEAN :
        /\ passes => ~Offline(Built) /\ KeyOf(Built) # NoSecret
        /\ values' = [values EXCEPT !.verified = passes]
        /\ tested' = IF passes THEN tested \cup {<<Built.primary, KeyOf(Built)>>}
                     ELSE tested
  BY DEF TestsProvider
<1>2. /\ values \in Drafts /\ held \in Drafts /\ Built \in Drafts /\ carried \in BOOLEAN
      /\ torn \/ ServerProven(vault)
      /\ edits' \in 0..MaxEdits
  BY <1>0, WizardIs
<1>3. /\ values' \in Drafts /\ values'.authVerified = values.authVerified
      /\ values'.verified = passes
      /\ ProviderPart(values') = ProviderPart(values)
      /\ SmtpPart(values') = SmtpPart(values)
  BY <1>1, <1>2 DEF Drafts, ProviderPart, SmtpPart
<1>4. tested \subseteq tested'  BY <1>1
<1>5. values'.verified => /\ Built.primary \in Hosted
                          /\ <<Built.primary, KeyWith(Built, vault)>> \in tested'
  <2>1. Built.primary \in Hosted \cup {"later"}  BY <1>2 DEF Drafts
  <2>2. KeyOf(Built) = KeyWith(Built, vault)  BY DEF KeyOf, KeyWith
  <2> QED  BY <1>1, <1>3, <2>1, <2>2 DEF Offline
<1>6. PICK v : v = vault /\ v = vault'  BY <1>0
<1>7. ProviderProven(v)'
  BY <1>0, <1>2, <1>3, <1>4, <1>5, <1>6, HoldsBuilt
<1>8. ServerProven(v) => ServerProven(v)'
  BY <1>0, <1>2, <1>3, <1>4, HoldsBuilt
<1>9. (ProviderProven(v) <=> ProviderProven(vault))'
      /\ (ServerProven(v) <=> ServerProven(vault))'
      /\ (ServerProven(v) <=> ServerProven(vault))
  BY <1>6 DEF ProviderProven, ServerProven
<1> QED
  BY <1>0, <1>2, <1>3, <1>4, <1>7, <1>8, <1>9, WizardKeeps

LEMMA TestsSmtpKeeps == ASSUME SetupInv, TestsSmtp PROVE SetupInv'
<1>0. /\ step = "wizard" /\ step' = "wizard" /\ edits < MaxEdits /\ edits' = edits + 1
      /\ UNCHANGED <<changes, todo, settings, vault, accepted, checked, torn, carried>>
      /\ held' = Built
  BY DEF TestsSmtp, Acts
<1>1. PICK passes \in BOOLEAN :
        /\ values' = [values EXCEPT !.authVerified = passes]
        /\ tested' = IF passes THEN tested \cup {<<Built.server, PasswordOf(Built)>>}
                     ELSE tested
  BY DEF TestsSmtp
<1>2. /\ values \in Drafts /\ held \in Drafts /\ Built \in Drafts /\ carried \in BOOLEAN
      /\ torn \/ ProviderProven(vault)
      /\ edits' \in 0..MaxEdits
  BY <1>0, WizardIs
<1>3. /\ values' \in Drafts /\ values'.verified = values.verified
      /\ values'.authVerified = passes
      /\ ProviderPart(values') = ProviderPart(values)
      /\ SmtpPart(values') = SmtpPart(values)
  BY <1>1, <1>2 DEF Drafts, ProviderPart, SmtpPart
<1>4. tested \subseteq tested'  BY <1>1
<1>5. values'.authVerified => <<Built.server, PasswordWith(Built, vault)>> \in tested'
  <2>1. PasswordOf(Built) = PasswordWith(Built, vault)
    BY DEF PasswordOf, PasswordWith
  <2> QED  BY <1>1, <1>3, <2>1
<1>6. PICK v : v = vault /\ v = vault'  BY <1>0
<1>7. ServerProven(v)'
  BY <1>0, <1>2, <1>3, <1>4, <1>5, <1>6, HoldsBuilt
<1>8. ProviderProven(v) => ProviderProven(v)'
  BY <1>0, <1>2, <1>3, <1>4, HoldsBuilt
<1>9. (ProviderProven(v) <=> ProviderProven(vault))'
      /\ (ServerProven(v) <=> ServerProven(vault))'
      /\ (ProviderProven(v) <=> ProviderProven(vault))
  BY <1>6 DEF ProviderProven, ServerProven
<1> QED
  BY <1>0, <1>2, <1>3, <1>4, <1>7, <1>8, <1>9, WizardKeeps

(* The same with nothing new proven, in the wizard or into a commit.       *)
LEMMA StaysProven ==
  ASSUME SetupInv, step = "wizard", held' = Built, values' = values,
         vault' = vault, tested' = tested, carried => carried'
  PROVE  torn \/ (ProviderProven(vault) /\ ServerProven(vault))'
<1>1. /\ values \in Drafts /\ held \in Drafts
      /\ torn \/ (ProviderProven(vault) /\ ServerProven(vault))
  BY WizardIs
<1>2. PICK v : v = vault /\ v = vault'  OBVIOUS
<1>3. /\ ProviderProven(v) => ProviderProven(v)'
      /\ ServerProven(v) => ServerProven(v)'
  BY <1>1, HoldsBuilt
<1> QED  BY <1>1, <1>2, <1>3 DEF ProviderProven, ServerProven

LEMMA ValidationKeeps == ASSUME SetupInv, ShowsValidation PROVE SetupInv'
<1>1. /\ step = "wizard" /\ step' = "wizard" /\ edits < MaxEdits /\ edits' = edits + 1
      /\ UNCHANGED <<values, changes, todo, settings, vault, tested, accepted, checked,
                     torn, carried>>
      /\ held' = Built
  BY DEF ShowsValidation, Acts
<1>2. /\ values' \in Drafts /\ held' \in Drafts /\ carried' \in BOOLEAN
      /\ edits' \in 0..MaxEdits
  BY <1>1, WizardIs
<1>3. torn \/ (ProviderProven(vault) /\ ServerProven(vault))'
  BY <1>1, StaysProven
<1> QED  BY <1>1, <1>2, <1>3, WizardKeeps

-----------------------------------------------------------------------------
(* The commit.                                                             *)

LEMMA Joined ==
  ASSUME NEW S, NEW x \in S, NEW y \in S
  PROVE  /\ <<>> \o <<>> = <<>> /\ <<>> \o <<x>> = <<x>> /\ <<x>> \o <<>> = <<x>>
         /\ <<x>> \o <<y>> = <<x, y>>
         /\ <<x, y>> \o <<>> = <<x, y>>
<1>1. <<>> \in Seq(S) /\ <<x>> \in Seq(S) /\ <<x, y>> \in Seq(S)  OBVIOUS
<1>2. \A q \in Seq(S) : <<>> \o q = q /\ q \o <<>> = q  OBVIOUS
<1> DEFINE q == <<x>> \o <<y>>
           r == <<x, y>>
<1>3. q \in Seq(S) /\ Len(q) = 2 /\ q[1] = x /\ q[2] = y  OBVIOUS
<1>4. r \in Seq(S) /\ Len(r) = 2 /\ r[1] = x /\ r[2] = y  OBVIOUS
<1> HIDE DEF q, r
<1>5. q \in [1..2 -> S] /\ r \in [1..2 -> S]  BY <1>3, <1>4
<1>6. \A i \in 1..2 : i = 1 \/ i = 2  OBVIOUS
<1>7. q = r  BY <1>3, <1>4, <1>5, <1>6
<1> QED  BY <1>1, <1>2, <1>7 DEF q, r

(* What a commit has to write: one secret of the provider at most, and one *)
(* of the mail server.                                                     *)
LEMMA WritesAre ==
  ASSUME NEW d \in Drafts, NEW v \in Vaults
  PROVE  \E x, y \in CredentialWrites, p, m \in BOOLEAN :
           /\ x[1] \in Hosted /\ y[1] = "smtp"
           /\ p => x[2] = After(d, v)[x[1]]
           /\ \A i \in Hosted : After(d, v)[i] = v[i] \/ (p /\ i = x[1])
           /\ m => y[2] = After(d, v)["smtp"]
           /\ m \/ After(d, v)["smtp"] = v["smtp"]
           /\ p /\ m => Writes(d) \in {<<x, y>>, <<y, x>>}
           /\ p /\ ~m => Writes(d) = <<x>>
           /\ ~p /\ m => Writes(d) = <<y>>
           /\ ~p /\ ~m => Writes(d) = <<>>
<1> DEFINE one(yes, i, k) == IF yes THEN <<<<i, k>>>> ELSE <<>>
           A == d.dropKey /\ d.primary \in Hosted
           B == d.dropPassword
           C == Primary(d) \in Hosted /\ d.key # NoSecret
           D == d.smtp /\ d.password # NoSecret /\ ~d.dropPassword
           a == one(A, d.primary, NoSecret)
           b == one(B, "smtp", NoSecret)
           c == one(C, Primary(d), d.key)
           e == one(D, "smtp", d.password)
<1>1. Writes(d) = a \o b \o c \o e  BY DEF Writes
<1>a. \A i \in Hosted : i # "smtp"  BY SetupAssumption
<1>b. After(d, v)["smtp"] = IF d.dropPassword THEN NoSecret
        ELSE IF d.smtp /\ d.password # NoSecret THEN d.password ELSE v["smtp"]
  BY DEF After, CredentialIds
<1>2. A => ~C  BY SetupAssumption DEF Primary
<1>3. B => ~D  OBVIOUS
<1>4. PICK x \in CredentialWrites :
        /\ x[1] \in Hosted
        /\ \/ a = <<x>> /\ c = <<>> /\ (A \/ C)
           \/ a = <<>> /\ c = <<x>> /\ (A \/ C)
           \/ a = <<>> /\ c = <<>> /\ ~(A \/ C)
        /\ A \/ C => x[2] = After(d, v)[x[1]]
        /\ \A i \in Hosted : After(d, v)[i] = v[i] \/ ((A \/ C) /\ i = x[1])
  <2>1. CASE A
    <3>1. <<d.primary, NoSecret>> \in CredentialWrites
      BY <2>1 DEF CredentialWrites, CredentialIds, Kept
    <3>2. a = <<<<d.primary, NoSecret>>>> /\ c = <<>>  BY <2>1, <1>2
    <3>3. /\ After(d, v)[d.primary] = NoSecret
          /\ \A i \in Hosted : After(d, v)[i] = v[i] \/ i = d.primary
      BY <2>1, <1>2, <1>a DEF After, CredentialIds
    <3> QED  BY <2>1, <3>1, <3>2, <3>3
  <2>2. CASE C
    <3>1. d.key \in Kept  BY DEF Drafts
    <3>2. <<Primary(d), d.key>> \in CredentialWrites
      BY <2>2, <3>1 DEF CredentialWrites, CredentialIds
    <3>3. c = <<<<Primary(d), d.key>>>> /\ a = <<>>  BY <2>2, <1>2
    <3>4. /\ After(d, v)[Primary(d)] = d.key
          /\ \A i \in Hosted : After(d, v)[i] = v[i] \/ i = Primary(d)
      BY <2>2, <1>2, <1>a DEF After, CredentialIds
    <3> QED  BY <2>2, <3>2, <3>3, <3>4
  <2>3. CASE ~A /\ ~C
    <3>1. a = <<>> /\ c = <<>>  BY <2>3
    <3>2. PICK p \in Hosted : TRUE  BY SetupAssumption
    <3>3. <<p, NoSecret>> \in CredentialWrites
      BY DEF CredentialWrites, CredentialIds, Kept
    <3>4. \A i \in Hosted : After(d, v)[i] = v[i]
      BY <2>3, <1>a DEF After, CredentialIds
    <3> QED  BY <2>3, <3>1, <3>3, <3>4
  <2> QED  BY <2>1, <2>2, <2>3
<1>5. PICK y \in CredentialWrites :
        /\ y[1] = "smtp"
        /\ \/ b = <<y>> /\ e = <<>> /\ (B \/ D)
           \/ b = <<>> /\ e = <<y>> /\ (B \/ D)
           \/ b = <<>> /\ e = <<>> /\ ~(B \/ D)
        /\ B \/ D => y[2] = After(d, v)["smtp"]
        /\ (B \/ D) \/ After(d, v)["smtp"] = v["smtp"]
  <2>1. <<"smtp", NoSecret>> \in CredentialWrites
    BY DEF CredentialWrites, CredentialIds, Kept
  <2>2. CASE D
    <3>1. d.password \in Kept  BY DEF Drafts
    <3>2. <<"smtp", d.password>> \in CredentialWrites
      BY <3>1 DEF CredentialWrites, CredentialIds
    <3>3. e = <<<<"smtp", d.password>>>> /\ b = <<>>  BY <2>2, <1>3
    <3> QED  BY <2>2, <3>2, <3>3, <1>b
  <2>3. CASE B
    <3>1. e = <<>> /\ b = <<<<"smtp", NoSecret>>>>  BY <2>3, <1>3
    <3> QED  BY <2>1, <2>3, <3>1, <1>b
  <2>4. CASE ~B /\ ~D
    <3>1. e = <<>> /\ b = <<>>  BY <2>4
    <3> QED  BY <2>1, <2>4, <3>1, <1>b
  <2> QED  BY <2>2, <2>3, <2>4
<1> HIDE DEF a, b, c, e
<1>6. /\ <<>> \o <<>> = <<>> /\ <<>> \o <<x>> = <<x>> /\ <<x>> \o <<>> = <<x>>
      /\ <<x>> \o <<y>> = <<x, y>> /\ <<x, y>> \o <<>> = <<x, y>>
      /\ <<>> \o <<y>> = <<y>> /\ <<y>> \o <<>> = <<y>>
      /\ <<y>> \o <<x>> = <<y, x>> /\ <<y, x>> \o <<>> = <<y, x>>
  BY Joined
<1>7. PICK p \in BOOLEAN : p <=> A \/ C  OBVIOUS
<1>8. PICK m \in BOOLEAN : m <=> B \/ D  OBVIOUS
<1> HIDE DEF A, B, C, D
<1>9. CASE ~p
  <2>1. a = <<>> /\ c = <<>>  BY <1>4, <1>7, <1>9
  <2>2. CASE ~m  BY <1>1, <1>4, <1>5, <1>6, <1>7, <1>8, <1>9, <2>1, <2>2
  <2>3. CASE m
    <3>1. Writes(d) = <<y>>  BY <1>1, <1>5, <1>6, <1>8, <2>1, <2>3
    <3> QED  BY <1>4, <1>5, <1>7, <1>8, <1>9, <2>3, <3>1
  <2> QED  BY <2>2, <2>3
<1>10. CASE p
  <2>1. (a = <<x>> /\ c = <<>>) \/ (a = <<>> /\ c = <<x>>)  BY <1>4, <1>7, <1>10
  <2>2. CASE ~m
    <3>1. b = <<>> /\ e = <<>>  BY <1>5, <1>8, <2>2
    <3>2. Writes(d) = <<x>>  BY <1>1, <1>6, <2>1, <3>1
    <3> QED  BY <1>4, <1>5, <1>7, <1>8, <1>10, <2>2, <3>2
  <2>3. CASE m
    <3>1. (b = <<y>> /\ e = <<>>) \/ (b = <<>> /\ e = <<y>>)  BY <1>5, <1>8, <2>3
    <3>2. Writes(d) \in {<<x, y>>, <<y, x>>}  BY <1>1, <1>6, <2>1, <3>1
    <3> QED  BY <1>4, <1>5, <1>7, <1>8, <1>10, <2>3, <3>2
  <2> QED  BY <2>2, <2>3
<1> QED  BY <1>9, <1>10

(* They are all there is to do.                                            *)
LEMMA WritesReach ==
  ASSUME NEW d \in Drafts, NEW v \in Vaults
  PROVE  LET q == Writes(d) IN
         /\ q \in Seq(CredentialWrites) /\ Len(q) <= 2
         /\ \A n \in DOMAIN q : q[n][2] = After(d, v)[q[n][1]]
         /\ \A n, k \in DOMAIN q : q[n][1] = q[k][1] => n = k
         /\ \A i \in CredentialIds :
              v[i] = After(d, v)[i] \/ \E n \in DOMAIN q : q[n][1] = i
<1>1. PICK x, y \in CredentialWrites, p, m \in BOOLEAN :
           /\ x[1] \in Hosted /\ y[1] = "smtp"
           /\ p => x[2] = After(d, v)[x[1]]
           /\ \A i \in Hosted : After(d, v)[i] = v[i] \/ (p /\ i = x[1])
           /\ m => y[2] = After(d, v)["smtp"]
           /\ m \/ After(d, v)["smtp"] = v["smtp"]
           /\ p /\ m => Writes(d) \in {<<x, y>>, <<y, x>>}
           /\ p /\ ~m => Writes(d) = <<x>>
           /\ ~p /\ m => Writes(d) = <<y>>
           /\ ~p /\ ~m => Writes(d) = <<>>
  BY WritesAre
<1> DEFINE q == Writes(d)
<1>2. x[1] # y[1]  BY <1>1, SetupAssumption
<1>3. \A i \in CredentialIds : i \in Hosted \/ i = "smtp"  BY DEF CredentialIds
<1> HIDE DEF q
<1>4. CASE p /\ m
  <2>1. PICK a, b \in CredentialWrites : q = <<a, b>> /\ {a, b} = {x, y} /\ a[1] # b[1]
    <3>1. q \in {<<x, y>>, <<y, x>>}  BY <1>1, <1>4 DEF q
    <3> QED  BY <3>1, <1>2
  <2>2. q \in Seq(CredentialWrites) /\ Len(q) = 2 /\ DOMAIN q = {1, 2}
        /\ q[1] = a /\ q[2] = b
    BY <2>1
  <2>3. a[2] = After(d, v)[a[1]] /\ b[2] = After(d, v)[b[1]]  BY <1>1, <1>4, <2>1
  <2>4. \A i \in CredentialIds :
          v[i] = After(d, v)[i] \/ \E n \in DOMAIN q : q[n][1] = i
    BY <1>1, <1>3, <2>1, <2>2
  <2> QED  BY <2>1, <2>2, <2>3, <2>4 DEF q
<1>5. CASE p # m
  <2>1. PICK a \in CredentialWrites : q = <<a>> /\ ((p /\ a = x) \/ (m /\ a = y))
    BY <1>1, <1>5 DEF q
  <2>2. q \in Seq(CredentialWrites) /\ Len(q) = 1 /\ DOMAIN q = {1} /\ q[1] = a
    BY <2>1
  <2>3. a[2] = After(d, v)[a[1]]  BY <1>1, <2>1
  <2>4. \A i \in CredentialIds :
          v[i] = After(d, v)[i] \/ \E n \in DOMAIN q : q[n][1] = i
    BY <1>1, <1>3, <1>5, <2>1, <2>2
  <2> QED  BY <2>1, <2>2, <2>3, <2>4 DEF q
<1>6. CASE ~p /\ ~m
  <2>1. q = <<>>  BY <1>1, <1>6 DEF q
  <2>2. q \in Seq(CredentialWrites) /\ Len(q) = 0 /\ DOMAIN q = {}  BY <2>1
  <2>3. \A i \in CredentialIds : v[i] = After(d, v)[i]  BY <1>1, <1>3, <1>6
  <2> QED  BY <2>1, <2>2, <2>3 DEF q
<1> QED  BY <1>4, <1>5, <1>6

(* Settings as they are read: a file's, or the defaults.                   *)
LEMMA LoadedIs ==
  ASSUME NEW s \in {NoFile} \cup Saved
  PROVE  /\ LoadedOf(s) \in SavedBy(Hosted \cup {"none", "later"})
         /\ s.present => LoadedOf(s) = s
<1>1. CASE s = NoFile
  <2>1. LoadedOf(s) = DefaultDocument /\ ~s.present  BY <1>1 DEF LoadedOf, NoFile
  <2>2. DefaultDocument \in SavedBy(Hosted \cup {"none", "later"})
    BY DEF DefaultDocument, SavedBy, Entries, Relays
  <2> QED  BY <2>1, <2>2
<1>2. CASE s \in Saved
  <2>1. s.present  BY <1>2 DEF Saved, SavedBy
  <2> QED  BY <1>2, <2>1 DEF LoadedOf, Saved, SavedBy
<1> QED  BY <1>1, <1>2

(* The document of a draft, part by part.                                  *)
LEMMA DocumentIs ==
  ASSUME NEW d \in Drafts, settings \in {NoFile} \cup Saved
  PROVE  LET doc == DocumentFor(d)
             old == LoadedOf(settings)
         IN
         /\ doc \in Saved /\ ~doc.completed /\ doc.primary = Primary(d)
         /\ Primary(d) \in Hosted =>
              /\ Primary(d) = d.primary /\ ~d.dropKey
              /\ doc.providers[Primary(d)].verified => d.verified
         /\ doc.smtp.server = d.server
         /\ ~doc.smtp.ref =>
              d.dropPassword \/ (~old.smtp.ref /\ ~(d.smtp /\ d.password # NoSecret))
         /\ doc.smtp.verified => d.authVerified /\ ~d.dropPassword
         /\ doc.smtp.accepted =>
              /\ old.smtp.accepted /\ d.password = NoSecret /\ ~d.dropPassword
              /\ old.smtp.server = d.server
<1> DEFINE old == LoadedOf(settings)
<1>1. old \in SavedBy(Hosted \cup {"none", "later"}) /\ old = Loaded
  BY LoadedIs DEF LoadedOf, Loaded
<1> HIDE DEF old
<1>2. Primary(d) \in Hosted \cup {"later"}
      /\ (Primary(d) \in Hosted => Primary(d) = d.primary /\ ~d.dropKey)
  BY SetupAssumption DEF Primary, Drafts
<1>3. ProvidersFor(d) \in Entries
  <2>1. \A p \in Hosted : old.providers[p] \in [ref : BOOLEAN, verified : BOOLEAN]
    BY <1>1 DEF SavedBy, Entries
  <2> SUFFICES ASSUME NEW p \in Hosted
               PROVE  ProvidersFor(d)[p] \in [ref : BOOLEAN, verified : BOOLEAN]
    BY DEF ProvidersFor, Entries
  <2>2. CASE d.dropKey /\ p = d.primary
    <3>1. p # Primary(d)  BY <1>2, <2>2
    <3>2. ProvidersFor(d)[p] = [ref |-> FALSE, verified |-> FALSE]
      BY <2>2, <3>1 DEF ProvidersFor
    <3> QED  BY <3>2
  <2>3. CASE ~(d.dropKey /\ p = d.primary) /\ p = Primary(d)
    <3>1. ProvidersFor(d)[p] = [ref |-> old.providers[p].ref \/ d.key # NoSecret,
                                verified |-> d.verified]
      BY <1>1, <2>3 DEF ProvidersFor
    <3>2. d.verified \in BOOLEAN  BY DEF Drafts
    <3>3. PICK r \in BOOLEAN : r = (old.providers[p].ref \/ d.key # NoSecret)  OBVIOUS
    <3> QED  BY <3>1, <3>2, <3>3
  <2>4. CASE ~(d.dropKey /\ p = d.primary) /\ p # Primary(d)
    BY <1>1, <2>1, <2>4 DEF ProvidersFor
  <2> QED  BY <2>2, <2>3, <2>4
<1>4. SmtpFor(d) \in Relays
  <2>1. PICK r \in BOOLEAN :
          r = ((old.smtp.ref \/ (d.smtp /\ d.password # NoSecret)) /\ ~d.dropPassword)
    OBVIOUS
  <2>2. PICK y \in BOOLEAN : y = (d.authVerified /\ ~d.dropPassword)  OBVIOUS
  <2>3. PICK z \in BOOLEAN : z = (old.smtp.accepted /\ ~SmtpChanged(d))  OBVIOUS
  <2>4. SmtpFor(d) = [on |-> d.smtp, server |-> d.server, ref |-> r, verified |-> y,
                      accepted |-> z]
    BY <1>1, <2>1, <2>2, <2>3 DEF SmtpFor
  <2>5. d.smtp \in BOOLEAN /\ d.server \in Servers \cup {"none", Preset}  BY DEF Drafts
  <2> QED  BY <2>4, <2>5 DEF Relays
<1>5. /\ DocumentFor(d) \in Saved /\ ~DocumentFor(d).completed
      /\ DocumentFor(d).primary = Primary(d)
      /\ DocumentFor(d).providers = ProvidersFor(d) /\ DocumentFor(d).smtp = SmtpFor(d)
  BY <1>1, <1>2, <1>3, <1>4 DEF DocumentFor, Saved, SavedBy
<1>6. ASSUME Primary(d) \in Hosted
      PROVE  ProvidersFor(d)[Primary(d)].verified => d.verified
  BY <1>2, <1>6 DEF ProvidersFor
<1>7. /\ SmtpFor(d).server = d.server
      /\ SmtpFor(d).ref <=>
           (old.smtp.ref \/ (d.smtp /\ d.password # NoSecret)) /\ ~d.dropPassword
      /\ SmtpFor(d).verified => d.authVerified /\ ~d.dropPassword
      /\ SmtpFor(d).accepted => old.smtp.accepted /\ ~SmtpChanged(d)
  BY <1>1 DEF SmtpFor
<1>8. ~SmtpChanged(d) => d.password = NoSecret /\ ~d.dropPassword
                         /\ old.smtp.server = d.server
  BY <1>1 DEF SmtpChanged
<1> QED  BY <1>2, <1>5, <1>6, <1>7, <1>8 DEF old

(* What a draft says of its provider and server is true once its writes    *)
(* are done.                                                               *)
LEMMA DocumentProven ==
  ASSUME NEW d \in Drafts, NEW v \in Vaults, settings \in {NoFile} \cup Saved,
         InstallOK(LoadedOf(settings), v),
         d.verified => d.primary \in Hosted /\ <<d.primary, KeyWith(d, v)>> \in tested,
         carried \/ (d.authVerified => <<d.server, PasswordWith(d, v)>> \in tested)
  PROVE  LET doc == DocumentFor(d)
             w == After(d, v)
         IN
         /\ doc.primary \in Hosted /\ doc.providers[doc.primary].verified
              => <<doc.primary, w[doc.primary]>> \in tested
         /\ ~doc.smtp.ref => w["smtp"] = NoSecret
         /\ \/ carried \/ (d.password # NoSecret /\ ~d.smtp)
            \/ doc.smtp.verified => <<doc.smtp.server, w["smtp"]>> \in tested
         /\ doc.smtp.accepted => <<doc.smtp.server, w["smtp"]>> \in accepted
<1> DEFINE doc == DocumentFor(d)
           w == After(d, v)
           old == LoadedOf(settings)
<1>1. /\ doc.primary = Primary(d)
      /\ Primary(d) \in Hosted =>
           /\ Primary(d) = d.primary /\ ~d.dropKey
           /\ doc.providers[Primary(d)].verified => d.verified
      /\ doc.smtp.server = d.server
      /\ ~doc.smtp.ref =>
           d.dropPassword \/ (~old.smtp.ref /\ ~(d.smtp /\ d.password # NoSecret))
      /\ doc.smtp.verified => d.authVerified /\ ~d.dropPassword
      /\ doc.smtp.accepted =>
           /\ old.smtp.accepted /\ d.password = NoSecret /\ ~d.dropPassword
           /\ old.smtp.server = d.server
  BY DocumentIs
<1>2. w["smtp"] = IF d.dropPassword THEN NoSecret
                  ELSE IF d.smtp /\ d.password # NoSecret THEN d.password ELSE v["smtp"]
  BY DEF After, CredentialIds
<1>3. Primary(d) \in Hosted => w[Primary(d)] = KeyWith(d, v)
  <2> SUFFICES ASSUME Primary(d) \in Hosted PROVE w[Primary(d)] = KeyWith(d, v)
    OBVIOUS
  <2>1. Primary(d) \in CredentialIds /\ Primary(d) # "smtp"
    BY SetupAssumption DEF CredentialIds
  <2>2. w[Primary(d)] = IF d.key # NoSecret THEN d.key ELSE v[Primary(d)]
    BY <1>1, <2>1 DEF After
  <2> QED  BY <1>1, <2>2 DEF KeyWith
<1>4. /\ ~old.smtp.ref => v["smtp"] = NoSecret
      /\ old.smtp.accepted => <<old.smtp.server, v["smtp"]>> \in accepted
  BY DEF InstallOK
<1> HIDE DEF doc, w, old
<1>5. doc.primary \in Hosted /\ doc.providers[doc.primary].verified
        => <<doc.primary, w[doc.primary]>> \in tested
  BY <1>1, <1>3
<1>6. ~doc.smtp.ref => w["smtp"] = NoSecret  BY <1>1, <1>2, <1>4
<1>7. \/ carried \/ (d.password # NoSecret /\ ~d.smtp)
      \/ doc.smtp.verified => <<doc.smtp.server, w["smtp"]>> \in tested
  BY <1>1, <1>2 DEF PasswordWith
<1>8. doc.smtp.accepted => <<doc.smtp.server, w["smtp"]>> \in accepted
  BY <1>1, <1>2, <1>4
<1> QED  BY <1>5, <1>6, <1>7, <1>8 DEF doc, w

LEMMA WellFormed == \A s \in {NoFile} \cup Saved : s # Malformed
<1>1. NoFile # Malformed
  <2>1. NoFile.present = FALSE /\ Malformed.present = TRUE  BY DEF NoFile, Malformed
  <2> QED  BY <2>1
<1>2. ASSUME NEW s \in Saved PROVE s # Malformed
  <2>1. s.readable = TRUE /\ Malformed.readable = FALSE
    BY DEF Saved, SavedBy, Malformed
  <2> QED  BY <2>1
<1> QED  BY <1>1, <1>2

LEMMA FinishesKeeps == ASSUME SetupInv, Finishes PROVE SetupInv'
<1>0. /\ step = "wizard" /\ edits < MaxEdits /\ edits' = edits + 1 /\ held' = Built
      /\ UNCHANGED <<values, settings, vault, readiness, tested, accepted, checked, torn>>
  BY DEF Finishes, Acts
<1>1. /\ values \in Drafts /\ held \in Drafts /\ Built \in Drafts
      /\ torn \in BOOLEAN /\ carried \in BOOLEAN /\ vault \in Vaults
      /\ edits' \in 0..MaxEdits
      /\ torn \/ (ProviderProven(vault) /\ ServerProven(vault))
  BY <1>0, WizardIs
<1>2. CASE UNCHANGED <<step, document, todo, oldSettings, changes, before, carried>>
  <2>1. torn \/ (ProviderProven(vault) /\ ServerProven(vault))'
    BY <1>0, <1>2, StaysProven
  <2> QED  BY <1>0, <1>1, <1>2, <2>1, WizardKeeps
<1>3. CASE /\ step' = "credentials"
           /\ document' = DocumentFor(Built) /\ todo' = Writes(Built)
           /\ oldSettings' = settings /\ changes' = <<>>
           /\ before' = [settings |-> settings, vault |-> vault]
           /\ carried' = (carried \/ (Built.password # NoSecret /\ ~Built.smtp))
  <2>1. settings \in {NoFile} \cup Saved /\ Checked(settings) /\ settings # Malformed
    BY <1>0 DEF SetupInv, SetupShape
  <2>2. PICK d \in Drafts : d = Built  BY <1>1
  <2>3. PICK v \in Vaults : v = vault  BY <1>1
  <2>4. DocumentFor(d) \in Saved /\ ~DocumentFor(d).completed  BY <2>1, DocumentIs
  <2>5. PICK doc \in Saved : doc = DocumentFor(d) /\ ~doc.completed  BY <2>4
  <2>6. PICK s \in {NoFile} \cup Saved : s = settings  BY <2>1
  <2>7. /\ step' = "credentials" /\ document' = doc /\ held' = d /\ vault' = v
        /\ settings' = s /\ oldSettings' = s /\ todo' = Writes(d) /\ changes' = <<>>
        /\ before' = [settings |-> s, vault |-> v]
    BY <1>0, <1>3, <2>2, <2>3, <2>5, <2>6
  <2>8. before'.settings = s /\ before'.vault = v  BY <2>7
  <2>9. changes' \in Seq(CredentialWrites) /\ Len(changes') = 0 /\ DOMAIN changes' = {}
    BY <2>7
  <2>10. /\ todo' \in Seq(CredentialWrites) /\ Len(todo') <= 2
         /\ \A n \in DOMAIN todo' : todo'[n][2] = After(d, v)[todo'[n][1]]
         /\ \A m, n \in DOMAIN todo' : todo'[m][1] = todo'[n][1] => m = n
         /\ \A i \in CredentialIds :
              v[i] = After(d, v)[i] \/ \E n \in DOMAIN todo' : todo'[n][1] = i
    BY <2>7, WritesReach
  <2>11. carried' \in BOOLEAN  BY <1>1, <1>3
  <2>12. SetupShape'
    <3>1. step' \in {"credentials"}  BY <2>7
    <3>2. settings' \in {NoFile, Malformed} \cup Saved /\ settings' # Malformed
      BY <2>7, <2>1, <2>6
    <3>3. vault' \in Vaults /\ held' \in Drafts /\ values' \in Drafts
          /\ torn' \in BOOLEAN
      BY <1>0, <1>1, <2>7
    <3>4. /\ document' \in Saved /\ oldSettings' = before'.settings
          /\ before'.settings \in {NoFile} \cup Saved /\ before'.vault \in Vaults
      BY <2>7, <2>8
    <3>5. Len(changes') <= 2  BY <2>9
    <3> QED
      BY <1>1, <2>9, <2>10, <2>11, <3>1, <3>2, <3>3, <3>4, <3>5 DEF SetupShape
  <2>13. CommitOK'
    <3>1. Noted'  BY <2>7, <2>8, <2>9 DEF Noted
    <3>2. ToDo'
      <4>1. Len(todo') \in Nat  BY <2>10
      <4>2. Len(changes') + Len(todo') <= 2  BY <4>1, <2>9, <2>10
      <4>3. After(held', before'.vault) = After(d, v)  BY <2>7, <2>8
      <4>4. After(held, before.vault)' = After(d, v)  BY <4>3 DEF After, Primary
      <4> QED  BY <4>2, <4>4, <2>7, <2>9, <2>10 DEF ToDo
    <3>3. Checked(before.settings)'  BY <2>1, <2>6, <2>8, <1>0 DEF Checked
    <3>4. ~document'.completed  BY <2>5, <2>7
    <3> QED  BY <3>1, <3>2, <3>3, <3>4, <2>7 DEF CommitOK
  <2>14. Checked(settings)'  BY <2>1, <1>0 DEF Checked
  <2>15. torn' \/ Sound'
    <3>1. CASE torn  BY <3>1, <1>0
    <3>2. CASE ~torn
      <4>1. InstallOK(LoadedOf(settings), vault) /\ Ready(LoadedOf(settings))
        BY <3>2, <1>0 DEF SetupInv, Sound, BaseSettings, BaseVault, Committing
      <4>2. /\ values.verified =>
                 d.primary \in Hosted /\ <<d.primary, KeyWith(d, v)>> \in tested
            /\ carried \/ (values.authVerified =>
                 <<d.server, PasswordWith(d, v)>> \in tested)
        BY <3>2, <1>1, <2>2, <2>3, BuiltIsProven
      <4>3. (d.verified => values.verified) /\ (d.authVerified => values.authVerified)
        BY <1>1, <2>2, CapturedParts DEF Built
      <4>4. InstallOK(doc, After(d, v))'
        <5> DEFINE w == After(d, v)
        <5>1. /\ doc.primary \in Hosted /\ doc.providers[doc.primary].verified
                   => <<doc.primary, w[doc.primary]>> \in tested
              /\ ~doc.smtp.ref => w["smtp"] = NoSecret
              /\ \/ carried \/ (d.password # NoSecret /\ ~d.smtp)
                 \/ doc.smtp.verified => <<doc.smtp.server, w["smtp"]>> \in tested
              /\ doc.smtp.accepted => <<doc.smtp.server, w["smtp"]>> \in accepted
          BY <2>1, <2>3, <2>5, <4>1, <4>2, <4>3, DocumentProven
        <5>2. carried' = (carried \/ (d.password # NoSecret /\ ~d.smtp))
          BY <1>3, <2>2
        <5> HIDE DEF w
        <5>3. tested' = tested /\ accepted' = accepted  BY <1>0
        <5>4. carried' \/ (doc.smtp.verified => <<doc.smtp.server, w["smtp"]>> \in tested')
          BY <5>1, <5>2, <5>3
        <5>5. InstallOK(doc, w)'  BY <5>1, <5>3, <5>4 DEF InstallOK
        <5> QED  BY <5>5 DEF w
      <4>5. InstallOK(document, After(held, before.vault))'
        BY <4>4, <2>7, <2>8 DEF InstallOK, After, Primary
      <4>6. BaseSettings' = s /\ BaseVault' = v
        BY <2>7, <2>8 DEF BaseSettings, BaseVault, Committing
      <4>7. (InstallOK(LoadedOf(s), v) /\ Ready(LoadedOf(s)))'
        <5>1. InstallOK(LoadedOf(s), v) /\ Ready(LoadedOf(s))  BY <4>1, <2>3, <2>6
        <5> QED
          BY <5>1, <1>0, <1>3 DEF InstallOK, Ready, LoadedOf
      <4>8. (InstallOK(LoadedOf(BaseSettings), BaseVault) /\ Ready(LoadedOf(BaseSettings)))'
        BY <4>6, <4>7 DEF InstallOK, Ready, LoadedOf
      <4>9. (ProviderProven(vault) /\ ServerProven(vault))'
        BY <3>2, <1>0, <1>3, StaysProven
      <4>10. (ProviderProven(BaseVault) /\ ServerProven(BaseVault))'
        BY <4>6, <4>9, <2>7 DEF ProviderProven, ServerProven
      <4> QED  BY <4>5, <4>6, <4>8, <4>10 DEF Sound
    <3> QED  BY <3>1, <3>2, <1>1
  <2> QED  BY <2>12, <2>13, <2>14, <2>15 DEF SetupInv
<1> QED  BY <1>2, <1>3 DEF Finishes

LEMMA AppendAt ==
  ASSUME NEW S, NEW q \in Seq(S), NEW t \in S
  PROVE  /\ Append(q, t) \in Seq(S) /\ Len(Append(q, t)) = Len(q) + 1 /\ Len(q) \in Nat
         /\ DOMAIN q = 1..Len(q) /\ DOMAIN Append(q, t) = 1..(Len(q) + 1)
         /\ \A n \in 1..Len(q) : Append(q, t)[n] = q[n]
         /\ Append(q, t)[Len(q) + 1] = t
OBVIOUS

LEMMA TailAt ==
  ASSUME NEW S, NEW q \in Seq(S), q # <<>>
  PROVE  /\ Tail(q) \in Seq(S) /\ Len(q) \in Nat \ {0} /\ Len(Tail(q)) = Len(q) - 1
         /\ DOMAIN q = 1..Len(q) /\ DOMAIN Tail(q) = 1..(Len(q) - 1)
         /\ \A n \in 1..(Len(q) - 1) : Tail(q)[n] = q[n + 1]
         /\ Head(q) = q[1] /\ q[1] \in S
OBVIOUS

LEMMA FrontAt ==
  ASSUME NEW S, NEW q \in Seq(S), q # <<>>
  PROVE  LET f == SubSeq(q, 1, Len(q) - 1) IN
         /\ f \in Seq(S) /\ Len(q) \in Nat \ {0} /\ Len(f) = Len(q) - 1
         /\ DOMAIN q = 1..Len(q) /\ DOMAIN f = 1..(Len(q) - 1)
         /\ \A n \in 1..(Len(q) - 1) : f[n] = q[n]
         /\ q[Len(q)] \in S
<1>1. Len(q) \in Nat /\ Len(q) # 0 /\ DOMAIN q = 1..Len(q)  OBVIOUS
<1>2. \A n \in 1..Len(q) : q[n] \in S  OBVIOUS
<1>3. PICK m \in Nat : m = Len(q) /\ m # 0  BY <1>1
<1>4. PICK k \in Nat : k = m - 1  BY <1>3
<1> DEFINE f == SubSeq(q, 1, k)
<1>5. f = [i \in 1..k |-> q[i]]  BY <1>1, <1>3, <1>4
<1>6. [i \in 1..k |-> q[i]] \in [1..k -> S]  BY <1>2, <1>3, <1>4
<1>7. \A T : \A g \in [1..k -> T] : g \in Seq(T) /\ Len(g) = k  OBVIOUS
<1>8. f \in Seq(S) /\ Len(f) = k /\ DOMAIN f = 1..k /\ \A n \in 1..k : f[n] = q[n]
  BY <1>5, <1>6, <1>7
<1>9. q[m] \in S  BY <1>2, <1>3
<1>10. k = Len(q) - 1  BY <1>3, <1>4
<1> HIDE DEF f
<1>11. f = SubSeq(q, 1, Len(q) - 1)  BY <1>10 DEF f
<1>12. Len(q) \in Nat \ {0} /\ Len(f) = Len(q) - 1 /\ DOMAIN f = 1..(Len(q) - 1)
       /\ (\A n \in 1..(Len(q) - 1) : f[n] = q[n]) /\ q[Len(q)] \in S
  BY <1>3, <1>8, <1>9, <1>10
<1> QED  BY <1>1, <1>8, <1>11, <1>12

(* A step inside a commit leaves what was installed before it, and what it *)
(* is about, as they are.                                                  *)
LEMMA CommitMoves ==
  ASSUME SetupInv, Committing, Committing',
         UNCHANGED <<values, held, oldSettings, before, edits, tested, accepted, torn,
                     carried>>,
         checked \subseteq checked',
         document' \in Saved, document'.primary = document.primary,
         document'.providers = document.providers, document'.smtp = document.smtp,
         settings' \in {NoFile} \cup Saved, vault' \in Vaults,
         changes' \in Seq(CredentialWrites), Len(changes') <= 2,
         todo' \in Seq(CredentialWrites), Len(todo') <= 2,
         CommitOK', Checked(settings)'
  PROVE  SetupInv'
<1>1. step' \in {"closed", "wizard", "finished", "credentials", "validating", "saving",
                 "readiness", "rollback", "unwinding", "failed"}
  BY DEF Committing
<1>2. settings' # Malformed /\ settings' \in {NoFile, Malformed} \cup Saved
  BY WellFormed
<1>3. step \notin {"closed", "wizard", "finished"} /\ step' \notin {"closed", "wizard", "finished"}
  BY DEF Committing
<1>4. SetupShape'  BY <1>1, <1>2, <1>3 DEF SetupInv, SetupShape
<1>5. torn' \/ Sound'
  <2>1. CASE torn  BY <2>1
  <2>2. CASE ~torn
    <3>1. Sound  BY <2>2 DEF SetupInv
    <3>2. PICK s, v : s = before.settings /\ v = before.vault  OBVIOUS
    <3>3. BaseSettings = s /\ BaseVault = v /\ BaseSettings' = s /\ BaseVault' = v
      BY <3>2 DEF BaseSettings, BaseVault
    <3>4. (InstallOK(LoadedOf(BaseSettings), BaseVault) /\ Ready(LoadedOf(BaseSettings)))'
      BY <3>1, <3>3 DEF Sound, InstallOK, Ready, LoadedOf
    <3>5. (ProviderProven(BaseVault) /\ ServerProven(BaseVault))'
      BY <3>1, <3>3, <1>3
      DEF Sound, ProviderProven, ServerProven, KeyWith, PasswordWith
    <3>6. InstallOK(document, After(held, before.vault))'
      <4>1. InstallOK(document, After(held, before.vault))  BY <3>1 DEF Sound
      <4>2. PICK w : w = After(held, before.vault) /\ w = After(held', before'.vault)
        OBVIOUS
      <4>3. InstallOK(document, w)  BY <4>1, <4>2
      <4>4. InstallOK(document, w)'  BY <4>3 DEF InstallOK
      <4> QED  BY <4>2, <4>4 DEF InstallOK, After, Primary
    <3> QED  BY <3>1, <3>3, <3>4, <3>5, <3>6 DEF Sound
  <2> QED  BY <2>1, <2>2 DEF SetupInv, SetupShape
<1> QED  BY <1>4, <1>5 DEF SetupInv

(* Where a commit is, in terms of what it has noted.                       *)
LEMMA CommitIs ==
  ASSUME SetupInv, Committing
  PROVE  /\ Noted /\ Checked(before.settings) /\ Checked(settings)
         /\ settings \in {NoFile} \cup Saved /\ vault \in Vaults
         /\ document \in Saved /\ before.vault \in Vaults
         /\ before.settings \in {NoFile} \cup Saved /\ oldSettings = before.settings
         /\ changes \in Seq(CredentialWrites) /\ Len(changes) <= 2
         /\ todo \in Seq(CredentialWrites) /\ Len(todo) <= 2
         /\ After(held, before.vault) \in [CredentialIds -> Kept]
         /\ held \in Drafts /\ values \in Drafts
<1>1. step # "closed"  BY DEF Committing
<1>2. settings \in {NoFile} \cup Saved  BY <1>1 DEF SetupInv, SetupShape
<1>3. /\ held \in Drafts /\ values \in Drafts /\ before.vault \in Vaults
  BY <1>1 DEF SetupInv, SetupShape
<1>4. After(held, before.vault) \in [CredentialIds -> Kept]
  <2>1. /\ held.key \in Kept /\ held.password \in Kept /\ NoSecret \in Kept
        /\ \A i \in CredentialIds : before.vault[i] \in Kept
    BY <1>3 DEF Drafts, Kept, Vaults
  <2> QED  BY <2>1 DEF After
<1> QED
  BY <1>1, <1>2, <1>3, <1>4 DEF SetupInv, SetupShape, CommitOK

LEMMA WritesKeeps == ASSUME SetupInv, WritesCredential PROVE SetupInv'
<1> DEFINE i == Head(todo)[1]
           k == Head(todo)[2]
           w == <<i, vault[i]>>
<1>0. /\ step = "credentials" /\ todo # <<>>
      /\ changes' = Append(changes, w) /\ todo' = Tail(todo)
      /\ \/ vault' = [vault EXCEPT ![i] = k] /\ step' = step
         \/ step' = "rollback" /\ vault' = vault
      /\ UNCHANGED <<values, held, document, settings, oldSettings, readiness,
                     edits, tested, accepted, checked, torn, carried, before>>
  BY DEF WritesCredential
<1>1. Committing /\ Committing'  BY <1>0 DEF Committing
<1>2. /\ Noted /\ Checked(before.settings) /\ Checked(settings)
      /\ settings \in {NoFile} \cup Saved /\ vault \in Vaults
      /\ document \in Saved /\ before.vault \in Vaults
      /\ changes \in Seq(CredentialWrites) /\ todo \in Seq(CredentialWrites)
      /\ Len(todo) <= 2
  BY <1>1, CommitIs
<1>3. ToDo /\ ~document.completed  BY <1>0, <1>1 DEF SetupInv, CommitOK
<1>4. PICK m \in Nat : m = Len(todo) /\ m # 0  BY <1>0, <1>2, TailAt
<1>5. PICK l \in Nat : l = Len(changes)  BY <1>2
<1>6. /\ todo' \in Seq(CredentialWrites) /\ Len(todo') = m - 1
      /\ DOMAIN todo = 1..m /\ DOMAIN todo' = 1..(m - 1)
      /\ \A n \in 1..(m - 1) : todo'[n] = todo[n + 1]
      /\ Head(todo) = todo[1] /\ todo[1] \in CredentialWrites
  BY <1>0, <1>2, <1>4, TailAt
<1>7. /\ i \in CredentialIds /\ k \in Kept /\ i = todo[1][1] /\ k = todo[1][2]
  BY <1>6 DEF CredentialWrites
<1>8. w \in CredentialWrites /\ w[1] = i /\ w[2] = vault[i]
  BY <1>2, <1>7 DEF CredentialWrites, Vaults
<1>9. /\ changes' \in Seq(CredentialWrites) /\ Len(changes') = l + 1
      /\ DOMAIN changes = 1..l /\ DOMAIN changes' = 1..(l + 1)
      /\ \A n \in 1..l : changes'[n] = changes[n]
      /\ changes'[l + 1] = w
  BY <1>0, <1>2, <1>5, <1>8, AppendAt
<1>10. vault' \in Vaults  BY <1>0, <1>2, <1>7 DEF Vaults
<1>11. vault[i] = before.vault[i]
  <2>1. \A n \in DOMAIN changes : changes[n][1] # todo[1][1]
    BY <1>3, <1>4, <1>6 DEF ToDo
  <2> QED  BY <1>2, <1>7, <2>1 DEF Noted
<1> HIDE DEF i, k, w
<1>12. l + m <= 2 /\ l + 1 <= 2 /\ m - 1 <= 2
  BY <1>3, <1>4, <1>5 DEF ToDo
<1>13. \A j \in CredentialIds : j # i => vault'[j] = vault[j]
  BY <1>0, <1>2 DEF Vaults
<1>14. Noted'
  <2>1. \A n \in DOMAIN changes' : changes'[n][2] = before.vault[changes'[n][1]]
    <3> SUFFICES ASSUME NEW n \in 1..(l + 1)
                 PROVE  changes'[n][2] = before.vault[changes'[n][1]]
      BY <1>9
    <3>1. CASE n = l + 1  BY <3>1, <1>8, <1>9, <1>11
    <3>2. CASE n # l + 1
      <4>1. n \in 1..l  BY <3>2
      <4> QED  BY <4>1, <1>2, <1>9 DEF Noted
    <3> QED  BY <3>1, <3>2
  <2>2. ASSUME NEW j \in CredentialIds
        PROVE  vault'[j] = before.vault[j] \/ \E n \in DOMAIN changes' : changes'[n][1] = j
    <3>1. CASE j = i
      <4>1. l + 1 \in DOMAIN changes'  BY <1>9
      <4> QED  BY <4>1, <3>1, <1>8, <1>9
    <3>2. CASE j # i
      <4>1. CASE vault[j] = before.vault[j]  BY <4>1, <3>2, <1>13
      <4>2. CASE \E n \in DOMAIN changes : changes[n][1] = j
        <5>1. PICK n \in 1..l : changes[n][1] = j  BY <4>2, <1>9
        <5>2. n \in DOMAIN changes'  BY <1>9
        <5> QED  BY <5>1, <5>2, <1>9
      <4> QED  BY <4>1, <4>2, <1>2 DEF Noted
    <3> QED  BY <3>1, <3>2
  <2>3. before' = before  BY <1>0
  <2> QED  BY <2>1, <2>2, <2>3 DEF Noted
<1>15. ASSUME step' = step, vault' = [vault EXCEPT ![i] = k]
       PROVE  ToDo'
  <2> DEFINE A == After(held, before.vault)
  <2>1. PICK f : f = A /\ f = A'  BY <1>0 DEF After, Primary
  <2> HIDE DEF A
  <2>2. /\ \A n \in 1..m : todo[n][2] = f[todo[n][1]]
        /\ \A a, b \in 1..m : todo[a][1] = todo[b][1] => a = b
        /\ \A a \in 1..l, b \in 1..m : changes[a][1] # todo[b][1]
        /\ \A j \in CredentialIds : vault[j] = f[j] \/ \E n \in 1..m : todo[n][1] = j
    BY <1>3, <1>6, <1>9, <2>1 DEF ToDo, A
  <2>3. Len(changes') + Len(todo') <= 2  BY <1>4, <1>5, <1>6, <1>9, <1>12
  <2>4. \A n \in 1..(m - 1) : n + 1 \in 1..m /\ n + 1 # 1  BY <1>4
  <2>5. \A n \in 1..(m - 1) : todo'[n][2] = f[todo'[n][1]]  BY <1>6, <2>2, <2>4
  <2>6. \A a, b \in 1..(m - 1) : todo'[a][1] = todo'[b][1] => a = b
    <3> SUFFICES ASSUME NEW a \in 1..(m - 1), NEW b \in 1..(m - 1),
                        todo'[a][1] = todo'[b][1]
                 PROVE  a = b
      OBVIOUS
    <3>1. a + 1 = b + 1  BY <1>6, <2>2, <2>4
    <3> QED  BY <3>1
  <2>7. \A a \in 1..(l + 1), b \in 1..(m - 1) : changes'[a][1] # todo'[b][1]
    <3> SUFFICES ASSUME NEW a \in 1..(l + 1), NEW b \in 1..(m - 1)
                 PROVE  changes'[a][1] # todo'[b][1]
      OBVIOUS
    <3>1. CASE a = l + 1
      <4>1. changes'[a][1] = todo[1][1]  BY <3>1, <1>7, <1>8, <1>9
      <4>2. 1 \in 1..m  BY <1>4
      <4> QED  BY <4>1, <4>2, <1>6, <2>2, <2>4
    <3>2. CASE a # l + 1
      <4>1. a \in 1..l  BY <3>2
      <4> QED  BY <4>1, <1>6, <1>9, <2>2, <2>4
    <3> QED  BY <3>1, <3>2
  <2>8. ASSUME NEW j \in CredentialIds
        PROVE  vault'[j] = f[j] \/ \E n \in 1..(m - 1) : todo'[n][1] = j
    <3>1. CASE j = i
      <4>1. 1 \in 1..m  BY <1>4
      <4>2. k = f[i]  BY <4>1, <1>7, <2>2
      <4> QED  BY <4>2, <3>1, <1>2, <1>7, <1>15 DEF Vaults
    <3>2. CASE j # i
      <4>1. CASE vault[j] = f[j]  BY <4>1, <3>2, <1>13
      <4>2. CASE \E n \in 1..m : todo[n][1] = j
        <5>1. PICK n \in 1..m : todo[n][1] = j  BY <4>2
        <5>2. n # 1  BY <5>1, <3>2, <1>7
        <5>3. n - 1 \in 1..(m - 1) /\ (n - 1) + 1 = n  BY <5>2, <1>4
        <5>4. todo'[n - 1] = todo[n]  BY <5>3, <1>6
        <5> QED  BY <5>1, <5>3, <5>4
      <4> QED  BY <4>1, <4>2, <2>2
    <3> QED  BY <3>1, <3>2
  <2> QED
    BY <1>6, <1>9, <2>1, <2>3, <2>5, <2>6, <2>7, <2>8 DEF ToDo, A
<1>16. CommitOK'
  <2>1. step' \in {"credentials", "rollback"}  BY <1>0
  <2>2. Checked(before.settings)'  BY <1>0, <1>2 DEF Checked
  <2>3. step' = "credentials" => ToDo' /\ ~document'.completed  BY <1>0, <1>3, <1>15
  <2> QED  BY <1>14, <2>1, <2>2, <2>3 DEF CommitOK
<1>17. Checked(settings)'  BY <1>0, <1>2 DEF Checked
<1>18. Len(changes') <= 2 /\ Len(todo') <= 2  BY <1>6, <1>9, <1>12
<1> QED
  BY <1>0, <1>1, <1>2, <1>6, <1>9, <1>10, <1>16, <1>17, <1>18, CommitMoves

(* An error in a commit starts the rollback.                               *)
LEMMA GivesUp ==
  ASSUME SetupInv, Committing, step' = "rollback",
         UNCHANGED <<values, held, document, changes, todo, settings, oldSettings,
                     vault, edits, tested, accepted, checked, torn, carried, before>>
  PROVE  SetupInv'
<1>1. Committing'  BY DEF Committing
<1>2. /\ Noted /\ Checked(before.settings) /\ Checked(settings)
      /\ settings \in {NoFile} \cup Saved /\ vault \in Vaults /\ document \in Saved
      /\ changes \in Seq(CredentialWrites) /\ Len(changes) <= 2
      /\ todo \in Seq(CredentialWrites) /\ Len(todo) <= 2
  BY CommitIs
<1>3. CommitOK'
  <2>1. Noted'  BY <1>2 DEF Noted
  <2>2. Checked(before.settings)'  BY <1>2 DEF Checked
  <2> QED  BY <2>1, <2>2 DEF CommitOK
<1>4. Checked(settings)'  BY <1>2 DEF Checked
<1> QED  BY <1>1, <1>2, <1>3, <1>4, CommitMoves

(* The credential writes are done when there is none to do.                *)
LEMMA AllWritten ==
  ASSUME SetupInv, step = "credentials", todo = <<>>
  PROVE  vault = After(held, before.vault)
<1>1. Committing  BY DEF Committing
<1>2. ToDo  BY <1>1 DEF SetupInv, CommitOK
<1>3. DOMAIN todo = {}  OBVIOUS
<1>4. \A i \in CredentialIds : vault[i] = After(held, before.vault)[i]
  BY <1>2, <1>3 DEF ToDo
<1>5. vault \in [CredentialIds -> Kept]
      /\ After(held, before.vault) \in [CredentialIds -> Kept]
  BY <1>1, CommitIs DEF Vaults
<1> QED  BY <1>4, <1>5

LEMMA SavesDraftKeeps == ASSUME SetupInv, SavesDraft PROVE SetupInv'
<1>0. /\ step = "credentials" /\ todo = <<>>
      /\ UNCHANGED <<values, held, document, changes, todo, oldSettings, vault,
                     readiness, edits, tested, accepted, checked, torn, carried, before>>
  BY DEF SavesDraft
<1>1. Committing  BY <1>0 DEF Committing
<1>2. /\ Noted /\ Checked(before.settings)
      /\ vault \in Vaults /\ document \in Saved
      /\ changes \in Seq(CredentialWrites) /\ Len(changes) <= 2
      /\ todo \in Seq(CredentialWrites) /\ Len(todo) <= 2
  BY <1>1, CommitIs
<1>3. CASE settings' = document /\ step' = "validating"
  <2>1. Committing'  BY <1>3 DEF Committing
  <2>2. PICK f : f = After(held, before.vault) /\ f = After(held', before'.vault)
    BY <1>0
  <2>3. vault' = f  BY <1>0, <2>2, AllWritten
  <2>4. (vault = After(held, before.vault))'
    BY <2>2, <2>3 DEF After, Primary
  <2>5. ~document.completed  BY <1>0, <1>1 DEF SetupInv, CommitOK
  <2>6. CommitOK'
    <3>1. Noted'  BY <1>0, <1>2 DEF Noted
    <3>2. Checked(before.settings)'  BY <1>0, <1>2 DEF Checked
    <3>3. settings' = document'  BY <1>0, <1>3
    <3> QED  BY <1>3, <2>4, <3>1, <3>2, <3>3 DEF CommitOK
  <2>7. Checked(settings)'  BY <1>3, <2>5 DEF Checked
  <2> QED  BY <1>0, <1>1, <1>2, <1>3, <2>1, <2>6, <2>7, CommitMoves
<1>4. CASE step' = "rollback" /\ settings' = settings
  BY <1>0, <1>1, <1>4, GivesUp
<1> QED  BY <1>3, <1>4 DEF SavesDraft

LEMMA ValidatesKeeps == ASSUME SetupInv, Validates PROVE SetupInv'
<1>0. /\ step = "validating"
      /\ UNCHANGED <<values, held, changes, todo, settings, oldSettings, vault,
                     readiness, edits, tested, accepted, torn, carried, before>>
  BY DEF Validates
<1>1. Committing  BY <1>0 DEF Committing
<1>2. /\ Noted /\ Checked(before.settings) /\ Checked(settings)
      /\ vault \in Vaults /\ document \in Saved
      /\ changes \in Seq(CredentialWrites) /\ Len(changes) <= 2
      /\ todo \in Seq(CredentialWrites) /\ Len(todo) <= 2
  BY <1>1, CommitIs
<1>3. CASE /\ MinimumReady(settings)
           /\ step' = "saving"
           /\ document' = [document EXCEPT !.completed = TRUE]
           /\ checked' = checked \cup {[settings EXCEPT !.completed = TRUE]}
  <2>1. Committing'  BY <1>3 DEF Committing
  <2>2. settings = document /\ vault = After(held, before.vault)
    BY <1>0, <1>1 DEF SetupInv, CommitOK
  <2>3. PICK f : f = After(held, before.vault) /\ f = After(held', before'.vault)
    BY <1>0
  <2>4. (vault = After(held, before.vault))'
    BY <1>0, <2>2, <2>3 DEF After, Primary
  <2>5. /\ document' \in Saved /\ document'.primary = document.primary
        /\ document'.providers = document.providers /\ document'.smtp = document.smtp
    BY <1>2, <1>3 DEF Saved, SavedBy
  <2>6. Ready(document')
    <3>1. document.primary \in Hosted => document.primary # "later"
      BY SetupAssumption
    <3> QED  BY <1>3, <2>2, <2>5, <3>1 DEF Ready, MinimumReady, ProviderPasses
  <2>7. Checked(document)'
    <3>1. document' \in checked'  BY <1>3, <2>2
    <3> QED  BY <3>1 DEF Checked
  <2>8. checked \subseteq checked'  BY <1>3
  <2>9. CommitOK'
    <3>1. Noted'  BY <1>0, <1>2 DEF Noted
    <3>2. Checked(before.settings)'  BY <1>0, <1>2, <2>8 DEF Checked
    <3>3. Ready(document)'  BY <2>6 DEF Ready
    <3> QED  BY <1>3, <2>4, <2>7, <3>1, <3>2, <3>3 DEF CommitOK
  <2>10. Checked(settings)'  BY <1>0, <1>2, <2>8 DEF Checked
  <2>11. settings' \in {NoFile} \cup Saved  BY <1>0, <1>2, <2>2
  <2> QED  BY <1>0, <1>1, <1>2, <2>1, <2>5, <2>8, <2>9, <2>10, <2>11, CommitMoves
<1>4. CASE step' = "rollback" /\ UNCHANGED <<document, checked>>
  BY <1>0, <1>1, <1>4, GivesUp
<1> QED  BY <1>3, <1>4 DEF Validates

LEMMA SavesCompletedKeeps == ASSUME SetupInv, SavesCompleted PROVE SetupInv'
<1>0. /\ step = "saving"
      /\ UNCHANGED <<values, held, document, changes, todo, oldSettings, vault,
                     readiness, edits, tested, accepted, checked, torn, carried, before>>
  BY DEF SavesCompleted
<1>1. Committing  BY <1>0 DEF Committing
<1>2. /\ Noted /\ Checked(before.settings)
      /\ vault \in Vaults /\ document \in Saved
      /\ changes \in Seq(CredentialWrites) /\ Len(changes) <= 2
      /\ todo \in Seq(CredentialWrites) /\ Len(todo) <= 2
  BY <1>1, CommitIs
<1>3. CASE settings' = document /\ step' = "readiness"
  <2>1. Committing'  BY <1>3 DEF Committing
  <2>2. /\ vault = After(held, before.vault) /\ Ready(document) /\ Checked(document)
    BY <1>0, <1>1 DEF SetupInv, CommitOK
  <2>3. PICK f : f = After(held, before.vault) /\ f = After(held', before'.vault)
    BY <1>0
  <2>4. (vault = After(held, before.vault))'
    BY <1>0, <2>2, <2>3 DEF After, Primary
  <2>5. CommitOK'
    <3>1. Noted'  BY <1>0, <1>2 DEF Noted
    <3>2. Checked(before.settings)'  BY <1>0, <1>2 DEF Checked
    <3>3. Ready(document)'  BY <1>0, <2>2 DEF Ready
    <3>4. Checked(document)'  BY <1>0, <2>2 DEF Checked
    <3>5. settings' = document'  BY <1>0, <1>3
    <3> QED  BY <1>3, <2>4, <3>1, <3>2, <3>3, <3>4, <3>5 DEF CommitOK
  <2>6. Checked(settings)'  BY <1>0, <1>3, <2>2 DEF Checked
  <2> QED  BY <1>0, <1>1, <1>2, <1>3, <2>1, <2>5, <2>6, CommitMoves
<1>4. CASE step' = "rollback" /\ settings' = settings
  BY <1>0, <1>1, <1>4, GivesUp
<1> QED  BY <1>3, <1>4 DEF SavesCompleted

(* A commit that succeeds installs what its document says.                 *)
LEMMA SavesReadinessKeeps == ASSUME SetupInv, SavesReadiness PROVE SetupInv'
<1>0. /\ step = "readiness"
      /\ UNCHANGED <<values, held, document, changes, todo, settings, oldSettings,
                     vault, edits, tested, accepted, checked, torn, carried, before>>
  BY DEF SavesReadiness
<1>1. Committing  BY <1>0 DEF Committing
<1>2. CASE step' = "finished"
  <2>1. ~Committing'  BY <1>2 DEF Committing
  <2>2. /\ vault = After(held, before.vault) /\ Ready(document)
        /\ settings = document /\ Checked(settings)
    BY <1>0, <1>1 DEF SetupInv, CommitOK
  <2>3. document \in Saved  BY <1>1, CommitIs
  <2>4. LoadedOf(settings) = settings  BY <2>2, <2>3, LoadedIs DEF Saved, SavedBy
  <2>5. SetupShape'  BY <1>0, <1>2, <2>1 DEF SetupInv, SetupShape
  <2>6. CommitOK'  BY <2>1 DEF CommitOK
  <2>7. Checked(settings)'  BY <1>0, <2>2 DEF Checked
  <2>8. torn' \/ Sound'
    <3>1. CASE torn  BY <1>0, <3>1
    <3>2. CASE ~torn
      <4>1. InstallOK(document, After(held, before.vault))
        BY <1>1, <3>2 DEF SetupInv, Sound
      <4>2. PICK w : w = vault /\ w = After(held, before.vault)  BY <2>2
      <4>3. PICK s : s = settings /\ s = document  BY <2>2
      <4>4. InstallOK(s, w) /\ Ready(s) /\ LoadedOf(s) = s
        BY <2>2, <2>4, <4>1, <4>2, <4>3
      <4>5. BaseSettings' = s /\ BaseVault' = w
        BY <1>0, <2>1, <4>2, <4>3 DEF BaseSettings, BaseVault
      <4>6. (LoadedOf(BaseSettings))' = s  BY <4>4, <4>5 DEF LoadedOf
      <4>7. (InstallOK(LoadedOf(BaseSettings), BaseVault) /\ Ready(LoadedOf(BaseSettings)))'
        BY <1>0, <4>4, <4>5, <4>6 DEF InstallOK, Ready
      <4> QED  BY <1>2, <2>1, <2>3, <4>3, <4>5, <4>7 DEF Sound
    <3> QED  BY <3>1, <3>2 DEF SetupInv, SetupShape
  <2> QED  BY <2>5, <2>6, <2>7, <2>8 DEF SetupInv
<1>3. CASE step' = "rollback"
  BY <1>0, <1>1, <1>3, GivesUp
<1> QED  BY <1>2, <1>3 DEF SavesReadiness

-----------------------------------------------------------------------------
(* The rollback, and the ways out.                                         *)

(* A rollback that fails ends the commit half way.                         *)
LEMMA GoesTorn ==
  ASSUME SetupInv, Committing, step' = "wizard", torn' = TRUE,
         UNCHANGED <<values, held, todo, settings, edits, checked, carried>>,
         vault' \in Vaults, changes' \in Seq(CredentialWrites), Len(changes') <= 2
  PROVE  SetupInv'
<1>1. ~Committing'  BY DEF Committing
<1>2. step # "closed"  BY DEF Committing
<1>3. SetupShape'  BY <1>1, <1>2 DEF SetupInv, SetupShape
<1>4. CommitOK'  BY <1>1 DEF CommitOK
<1>5. Checked(settings)'  BY DEF SetupInv, Checked
<1> QED  BY <1>3, <1>4, <1>5 DEF SetupInv

LEMMA RollsSettingsKeeps == ASSUME SetupInv, RollsBackSettings PROVE SetupInv'
<1>0. /\ step = "rollback"
      /\ UNCHANGED <<values, held, document, changes, todo, oldSettings, vault,
                     readiness, edits, tested, accepted, checked, carried, before>>
  BY DEF RollsBackSettings
<1>1. Committing  BY <1>0 DEF Committing
<1>2. /\ Noted /\ Checked(before.settings)
      /\ vault \in Vaults /\ document \in Saved
      /\ before.settings \in {NoFile} \cup Saved /\ oldSettings = before.settings
      /\ changes \in Seq(CredentialWrites) /\ Len(changes) <= 2
      /\ todo \in Seq(CredentialWrites) /\ Len(todo) <= 2
  BY <1>1, CommitIs
<1>3. CASE settings' = oldSettings /\ step' = "unwinding" /\ torn' = torn
  <2>1. Committing'  BY <1>3 DEF Committing
  <2>2. CommitOK'
    <3>1. Noted'  BY <1>0, <1>2 DEF Noted
    <3>2. Checked(before.settings)'  BY <1>0, <1>2 DEF Checked
    <3>3. settings' = before'.settings  BY <1>0, <1>2, <1>3
    <3> QED  BY <1>3, <3>1, <3>2, <3>3 DEF CommitOK
  <2>3. Checked(settings)'  BY <1>0, <1>2, <1>3 DEF Checked
  <2> QED  BY <1>0, <1>1, <1>2, <1>3, <2>1, <2>2, <2>3, CommitMoves
<1>4. CASE step' = "wizard" /\ torn' = TRUE /\ settings' = settings
  BY <1>0, <1>1, <1>2, <1>4, GoesTorn
<1> QED  BY <1>3, <1>4 DEF RollsBackSettings

LEMMA RollsCredentialKeeps == ASSUME SetupInv, RollsBackCredential PROVE SetupInv'
<1>0. /\ step = "unwinding"
      /\ UNCHANGED <<values, held, document, todo, settings, oldSettings,
                     readiness, edits, tested, accepted, checked, carried, before>>
  BY DEF RollsBackCredential
<1>1. Committing  BY <1>0 DEF Committing
<1>2. /\ Noted /\ Checked(before.settings) /\ Checked(settings)
      /\ vault \in Vaults /\ document \in Saved /\ before.vault \in Vaults
      /\ settings \in {NoFile} \cup Saved
      /\ changes \in Seq(CredentialWrites) /\ Len(changes) <= 2
      /\ todo \in Seq(CredentialWrites) /\ Len(todo) <= 2
  BY <1>1, CommitIs
<1>3. settings = before.settings  BY <1>0, <1>1 DEF SetupInv, CommitOK
<1>4. Checked(settings)' /\ Checked(before.settings)'  BY <1>0, <1>2 DEF Checked
<1>5. CASE changes = <<>>
  <2>1. step' = "failed" /\ UNCHANGED <<vault, torn, changes>>
    BY <1>5 DEF RollsBackCredential
  <2>2. Committing'  BY <2>1 DEF Committing
  <2>3. Noted'  BY <1>0, <1>2, <2>1 DEF Noted
  <2>4. CommitOK'  BY <1>0, <1>3, <1>4, <1>5, <2>1, <2>3 DEF CommitOK
  <2> QED  BY <1>0, <1>1, <1>2, <1>4, <2>1, <2>2, <2>4, CommitMoves
<1>6. CASE changes # <<>>
  <2> DEFINE c == changes[Len(changes)]
  <2>1. /\ changes' = SubSeq(changes, 1, Len(changes) - 1)
        /\ \/ vault' = [vault EXCEPT ![c[1]] = c[2]] /\ UNCHANGED <<step, torn>>
           \/ step' = "wizard" /\ torn' = TRUE /\ vault' = vault
    BY <1>6 DEF RollsBackCredential
  <2>2. PICK m \in Nat : m = Len(changes) /\ m # 0  BY <1>2, <1>6, FrontAt
  <2>3. /\ changes' \in Seq(CredentialWrites) /\ Len(changes') = m - 1
        /\ DOMAIN changes = 1..m /\ DOMAIN changes' = 1..(m - 1)
        /\ \A n \in 1..(m - 1) : changes'[n] = changes[n]
        /\ c = changes[m] /\ c \in CredentialWrites
    BY <1>2, <1>6, <2>1, <2>2, FrontAt
  <2>4. c[1] \in CredentialIds /\ c[2] \in Kept  BY <2>3 DEF CredentialWrites
  <2> HIDE DEF c
  <2>5. vault' \in Vaults  BY <1>2, <2>1, <2>4 DEF Vaults
  <2>6. Len(changes') <= 2  BY <1>2, <2>2, <2>3
  <2>7. m \in 1..m  BY <2>2
  <2>8. c[2] = before.vault[c[1]]  BY <1>2, <2>3, <2>7 DEF Noted
  <2>9. CASE vault' = [vault EXCEPT ![c[1]] = c[2]] /\ UNCHANGED <<step, torn>>
    <3>1. Committing'  BY <1>1, <2>9 DEF Committing
    <3>2. \A n \in 1..(m - 1) : n \in 1..m  BY <2>2
    <3>3. \A n \in DOMAIN changes' : changes'[n][2] = before.vault[changes'[n][1]]
      BY <1>2, <2>3, <3>2 DEF Noted
    <3>4. ASSUME NEW j \in CredentialIds
          PROVE  \/ vault'[j] = before.vault[j]
                 \/ \E n \in DOMAIN changes' : changes'[n][1] = j
      <4>1. CASE j = c[1]  BY <4>1, <1>2, <2>8, <2>9 DEF Vaults
      <4>2. CASE j # c[1]
        <5>1. vault'[j] = vault[j]  BY <4>2, <1>2, <2>9 DEF Vaults
        <5>2. CASE vault[j] = before.vault[j]  BY <5>1, <5>2
        <5>3. CASE \E n \in 1..m : changes[n][1] = j
          <6>1. PICK n \in 1..m : changes[n][1] = j  BY <5>3
          <6>2. n # m  BY <6>1, <4>2, <2>3
          <6>3. n \in 1..(m - 1)  BY <6>2, <2>2
          <6> QED  BY <6>1, <6>3, <2>3
        <5> QED  BY <5>2, <5>3, <1>2, <2>3 DEF Noted
      <4> QED  BY <4>1, <4>2
    <3>5. Noted'  BY <1>0, <3>3, <3>4 DEF Noted
    <3>6. CommitOK'  BY <1>0, <1>3, <1>4, <2>9, <3>5 DEF CommitOK
    <3> QED
      BY <1>0, <1>1, <1>2, <1>4, <2>3, <2>5, <2>6, <2>9, <3>1, <3>6, CommitMoves
  <2>10. CASE step' = "wizard" /\ torn' = TRUE
    BY <1>0, <1>1, <2>3, <2>5, <2>6, <2>10, GoesTorn
  <2> QED  BY <2>1, <2>9, <2>10
<1> QED  BY <1>5, <1>6

(* A commit that was undone leaves the vault it found.                     *)
LEMMA AllUndone ==
  ASSUME SetupInv, step = "failed"
  PROVE  settings = before.settings /\ vault = before.vault
<1>1. Committing  BY DEF Committing
<1>2. settings = before.settings /\ changes = <<>> /\ Noted
  BY <1>1 DEF SetupInv, CommitOK
<1>3. vault \in Vaults /\ before.vault \in Vaults  BY <1>1, CommitIs
<1>4. \A i \in CredentialIds : vault[i] = before.vault[i]
  <2>1. DOMAIN changes = {}  BY <1>2
  <2> QED  BY <1>2, <2>1 DEF Noted
<1>5. vault = before.vault  BY <1>3, <1>4 DEF Vaults
<1> QED  BY <1>2, <1>5

LEMMA ReturnsKeeps == ASSUME SetupInv, Returns PROVE SetupInv'
<1>0. /\ step = "failed" /\ step' = "wizard"
      /\ UNCHANGED <<values, held, document, changes, todo, settings, oldSettings,
                     vault, readiness, edits, tested, accepted, checked, torn,
                     carried, before>>
  BY DEF Returns
<1>1. Committing /\ ~Committing'  BY <1>0 DEF Committing
<1>2. SetupShape'  BY <1>0, <1>1 DEF SetupInv, SetupShape
<1>3. CommitOK'  BY <1>1 DEF CommitOK
<1>4. Checked(settings)'  BY <1>0 DEF SetupInv, Checked
<1>5. torn' \/ Sound'
  <2>1. CASE torn  BY <1>0, <2>1
  <2>2. CASE ~torn
    <3>1. Sound  BY <2>2 DEF SetupInv
    <3>2. PICK s, v : s = settings /\ v = vault  OBVIOUS
    <3>3. BaseSettings = s /\ BaseVault = v /\ BaseSettings' = s /\ BaseVault' = v
      BY <1>0, <1>1, <3>2, AllUndone DEF BaseSettings, BaseVault
    <3>4. (InstallOK(LoadedOf(BaseSettings), BaseVault) /\ Ready(LoadedOf(BaseSettings)))'
      BY <1>0, <3>1, <3>3 DEF Sound, InstallOK, Ready, LoadedOf
    <3>5. (ProviderProven(BaseVault) /\ ServerProven(BaseVault))'
      BY <1>0, <3>1, <3>3
      DEF Sound, ProviderProven, ServerProven, KeyWith, PasswordWith
    <3> QED  BY <1>1, <3>1, <3>3, <3>4, <3>5 DEF Sound
  <2> QED  BY <2>1, <2>2 DEF SetupInv, SetupShape
<1> QED  BY <1>2, <1>3, <1>4, <1>5 DEF SetupInv

LEMMA ClosesKeeps == ASSUME SetupInv, Closes PROVE SetupInv'
<1>0. /\ step \in {"wizard", "finished"} /\ step' = "closed" /\ changes' = <<>>
      /\ UNCHANGED <<todo, settings, vault, edits, tested, accepted, checked, torn,
                     carried>>
  BY DEF Closes
<1>1. ~Committing /\ ~Committing'  BY <1>0 DEF Committing
<1>2. changes' \in Seq(CredentialWrites) /\ Len(changes') <= 2  BY <1>0
<1>3. SetupShape'  BY <1>0, <1>1, <1>2 DEF SetupInv, SetupShape
<1>4. CommitOK'  BY <1>1 DEF CommitOK
<1>5. Checked(settings)'  BY <1>0 DEF SetupInv, Checked
<1>6. torn' \/ Sound'
  <2>1. CASE torn  BY <1>0, <2>1
  <2>2. CASE ~torn
    <3>1. Sound  BY <2>2 DEF SetupInv
    <3>2. PICK s, v : s = settings /\ v = vault  OBVIOUS
    <3>3. BaseSettings = s /\ BaseVault = v /\ BaseSettings' = s /\ BaseVault' = v
      BY <1>0, <1>1, <3>2 DEF BaseSettings, BaseVault
    <3>4. (InstallOK(LoadedOf(BaseSettings), BaseVault) /\ Ready(LoadedOf(BaseSettings)))'
      BY <1>0, <3>1, <3>3 DEF Sound, InstallOK, Ready, LoadedOf
    <3> QED  BY <1>0, <1>1, <3>1, <3>3, <3>4 DEF Sound
  <2> QED  BY <2>1, <2>2 DEF SetupInv, SetupShape
<1> QED  BY <1>3, <1>4, <1>5, <1>6 DEF SetupInv

LEMMA CrashesKeeps == ASSUME SetupInv, Crashes PROVE SetupInv'
<1>0. /\ step' = "closed" /\ torn' = TRUE /\ changes' = <<>> /\ todo' = <<>>
      /\ UNCHANGED <<vault, edits, tested, accepted, checked, carried>>
      /\ step \notin {"closed", "wizard", "finished"}
      /\ settings' = settings \/ settings' = Malformed
  BY DEF Crashes
<1>1. ~Committing'  BY <1>0 DEF Committing
<1>2. /\ changes' \in Seq(CredentialWrites) /\ Len(changes') <= 2
      /\ todo' \in Seq(CredentialWrites) /\ Len(todo') <= 2
  BY <1>0
<1>3. SetupShape'  BY <1>0, <1>1, <1>2 DEF SetupInv, SetupShape
<1>4. CommitOK'  BY <1>1 DEF CommitOK
<1>5. Checked(settings)'
  <2>1. CASE settings' = settings  BY <1>0, <2>1 DEF SetupInv, Checked
  <2>2. CASE settings' = Malformed  BY <2>2 DEF Checked, Malformed
  <2> QED  BY <1>0, <2>1, <2>2
<1> QED  BY <1>0, <1>3, <1>4, <1>5 DEF SetupInv

(* A setup that is complete reads a file of its own.                       *)
LEMMA CompleteIs ==
  ASSUME settings \in {NoFile, Malformed} \cup Saved, IsSetupComplete
  PROVE  /\ settings \in Saved /\ settings.completed /\ settings.present
         /\ settings.readable /\ Loaded = settings
<1>1. CASE settings = NoFile
  <2>1. ~settings.present  BY <1>1 DEF NoFile
  <2>2. ~Loaded.completed  BY <2>1 DEF Loaded, DefaultDocument
  <2> QED  BY <2>2 DEF IsSetupComplete
<1>2. CASE settings = Malformed  BY <1>2 DEF IsSetupComplete, Readable, Malformed
<1>3. CASE settings \in Saved
  <2>1. settings.present /\ settings.readable  BY <1>3 DEF Saved, SavedBy
  <2> QED  BY <1>3, <2>1 DEF Loaded, IsSetupComplete
<1> QED  BY <1>1, <1>2, <1>3

(* An accepted test email is of the server and password in use.            *)
LEMMA SendsKeeps == ASSUME SetupInv, SendsTest PROVE SetupInv'
<1>0. /\ step = "finished" /\ step' = "finished" /\ IsSetupComplete
      /\ SmtpPassword # NoSecret
      /\ accepted' = accepted \cup {<<settings.smtp.server, SmtpPassword>>}
      /\ UNCHANGED <<values, held, document, changes, todo, vault, edits, tested,
                     checked, torn, carried, before>>
  BY DEF SendsTest
<1>1. /\ settings \in Saved /\ settings.completed /\ settings.present
      /\ settings.readable /\ Loaded = settings
  BY <1>0, CompleteIs DEF SetupInv, SetupShape
<1>2. ~Committing /\ ~Committing'  BY <1>0 DEF Committing
<1>3. PICK saved : saved = [settings EXCEPT !.smtp.accepted = TRUE]  OBVIOUS
<1>4. /\ saved \in Saved /\ saved.present /\ saved.readable
      /\ saved.primary = settings.primary /\ saved.providers = settings.providers
      /\ saved.completed = settings.completed
      /\ saved.smtp.server = settings.smtp.server
      /\ saved.smtp.ref = settings.smtp.ref
      /\ saved.smtp.verified = settings.smtp.verified
      /\ Stripped(saved) = Stripped(settings)
  BY <1>1, <1>3 DEF Saved, SavedBy, Relays, Stripped
<1>5. PICK s \in Saved :
        /\ settings' = s /\ s.present /\ s.readable /\ Stripped(s) = Stripped(settings)
        /\ s.primary = settings.primary /\ s.providers = settings.providers
        /\ s.completed = settings.completed
        /\ s.smtp.server = settings.smtp.server /\ s.smtp.ref = settings.smtp.ref
        /\ s.smtp.verified = settings.smtp.verified
  <2>1. settings' = saved \/ settings' = settings  BY <1>3 DEF SendsTest
  <2>2. CASE settings' = saved  BY <1>4, <2>2
  <2>3. CASE settings' = settings  BY <1>1, <2>3
  <2> QED  BY <2>1, <2>2, <2>3
<1>6. settings' \in {NoFile} \cup Saved /\ settings' # Malformed
  BY <1>5, WellFormed
<1>7. SetupShape'  BY <1>0, <1>2, <1>6 DEF SetupInv, SetupShape
<1>8. CommitOK'  BY <1>2 DEF CommitOK
<1>9. Checked(settings)'
  <2>1. \E d \in checked : Stripped(settings) = Stripped(d)
    BY <1>1 DEF SetupInv, Checked
  <2>2. PICK d \in checked : Stripped(settings) = Stripped(d)  BY <2>1
  <2>3. d \in checked' /\ Stripped(settings') = Stripped(d)  BY <1>0, <1>5, <2>2
  <2> QED  BY <2>3 DEF Checked, Stripped
<1>10. torn' \/ Sound'
  <2>1. CASE torn  BY <1>0, <2>1
  <2>2. CASE ~torn
    <3>1. PICK v : v = vault  OBVIOUS
    <3>2. InstallOK(settings, v) /\ Ready(settings)
      BY <1>1, <1>2, <2>2, <3>1 DEF SetupInv, Sound, BaseSettings, BaseVault, LoadedOf
    <3>3. <<settings.smtp.server, v["smtp"]>> \in accepted'
      BY <1>0, <3>1 DEF SmtpPassword
    <3>4. (InstallOK(s, v) /\ Ready(s))'
      BY <1>0, <1>5, <3>2, <3>3 DEF InstallOK, Ready
    <3>5. BaseSettings' = s /\ BaseVault' = v
      BY <1>0, <1>2, <1>5, <3>1 DEF BaseSettings, BaseVault
    <3>6. (LoadedOf(BaseSettings))' = s  BY <1>5, <3>5 DEF LoadedOf
    <3>7. (InstallOK(LoadedOf(BaseSettings), BaseVault) /\ Ready(LoadedOf(BaseSettings)))'
      BY <3>4, <3>5, <3>6 DEF InstallOK, Ready
    <3> QED  BY <1>0, <1>2, <1>5, <3>5, <3>7 DEF Sound
  <2> QED  BY <2>1, <2>2 DEF SetupInv, SetupShape
<1> QED  BY <1>7, <1>8, <1>9, <1>10 DEF SetupInv

(* A new draft claims what the installation has proven.                    *)
LEMMA OpensKeeps == ASSUME SetupInv, Opens PROVE SetupInv'
<1>0. /\ step = "closed" /\ step' = "wizard" /\ Readable
      /\ values' = NewDraft /\ held' = NewDraft
      /\ UNCHANGED <<changes, todo, settings, vault, edits, tested, accepted, checked,
                     torn, carried>>
  BY DEF Opens
<1>1. settings \in {NoFile} \cup Saved
  BY <1>0 DEF SetupInv, SetupShape, Readable, Malformed
<1>2. settings # Malformed  BY <1>1, WellFormed
<1>3. ~Committing /\ ~Committing'  BY <1>0 DEF Committing
<1>4. PICK old \in SavedBy(Hosted \cup {"none", "later"}) :
        old = Loaded /\ old = LoadedOf(settings)
  BY <1>1, LoadedIs DEF LoadedOf, Loaded
<1>5. PICK h \in Drafts :
        /\ h = NewDraft /\ h.key = NoSecret /\ h.dropKey = FALSE
        /\ h.password = NoSecret /\ h.dropPassword = FALSE
        /\ h.server = old.smtp.server
        /\ h.authVerified => old.smtp.verified
        /\ h.verified => /\ old.primary \in Hosted /\ old.providers[old.primary].verified
                         /\ h.primary = old.primary
  <2>1. PICK p \in Hosted : p = CHOOSE q \in Hosted : TRUE  BY SetupAssumption
  <2>2. PICK r \in Hosted \cup {"later"} :
          r = IF old.primary = "none" THEN CHOOSE q \in Hosted : TRUE ELSE old.primary
    BY <2>1 DEF SavedBy
  <2>3. PICK y \in BOOLEAN :
          y = (old.primary \in Hosted /\ old.providers[old.primary].verified)
    OBVIOUS
  <2>4. PICK z \in BOOLEAN : z = (old.primary = "later")  OBVIOUS
  <2> DEFINE h == [primary |-> r, offline |-> z, key |-> NoSecret, dropKey |-> FALSE,
                   verified |-> y, smtp |-> old.smtp.on, server |-> old.smtp.server,
                   password |-> NoSecret, dropPassword |-> FALSE,
                   authVerified |-> old.smtp.verified]
  <2>5. h = NewDraft  BY <1>4, <2>2, <2>3, <2>4 DEF NewDraft
  <2>6. h \in Drafts  BY DEF Drafts, Kept, SavedBy, Relays
  <2>7. old.primary \in Hosted => old.primary # "none"  BY SetupAssumption
  <2> QED  BY <2>2, <2>3, <2>5, <2>6, <2>7
<1>6. ProviderPart(Captured(h, h)) = ProviderPart(h)
      /\ SmtpPart(Captured(h, h)) = SmtpPart(h)
  BY <1>5, CapturedParts DEF ProviderPart, SmtpPart
<1>7. values' = h /\ held' = h  BY <1>0, <1>5
<1>8. SetupShape'  BY <1>0, <1>2, <1>3, <1>7 DEF SetupInv, SetupShape
<1>9. CommitOK'  BY <1>3 DEF CommitOK
<1>10. Checked(settings)'  BY <1>0 DEF SetupInv, Checked
<1>11. torn' \/ Sound'
  <2>1. CASE torn  BY <1>0, <2>1
  <2>2. CASE ~torn
    <3>1. PICK v : v = vault /\ v = vault'  BY <1>0
    <3>2. InstallOK(old, v) /\ Ready(old)
      BY <1>3, <1>4, <2>2, <3>1 DEF SetupInv, Sound, BaseSettings, BaseVault
    <3>3. BaseSettings' = settings /\ BaseVault' = v
      BY <1>0, <1>3, <3>1 DEF BaseSettings, BaseVault
    <3>4. (LoadedOf(BaseSettings))' = old  BY <1>0, <1>4, <3>3 DEF LoadedOf
    <3>5. (InstallOK(LoadedOf(BaseSettings), BaseVault) /\ Ready(LoadedOf(BaseSettings)))'
      BY <1>0, <3>2, <3>3, <3>4 DEF InstallOK, Ready
    <3>6. ProviderProven(v)'
      <4>1. h.verified => h.primary \in Hosted /\ <<h.primary, KeyWith(h, v)>> \in tested
        BY <1>5, <3>2 DEF InstallOK, KeyWith
      <4> QED  BY <1>0, <1>6, <1>7, <4>1 DEF ProviderProven, KeyWith
    <3>7. ServerProven(v)'
      <4>1. carried \/ (h.authVerified => <<h.server, PasswordWith(h, v)>> \in tested)
        BY <1>5, <3>2 DEF InstallOK, PasswordWith
      <4> QED  BY <1>0, <1>6, <1>7, <4>1 DEF ServerProven, PasswordWith
    <3>8. (ProviderProven(BaseVault) /\ ServerProven(BaseVault))'
      BY <3>3, <3>6, <3>7 DEF ProviderProven, ServerProven
    <3> QED  BY <1>0, <1>1, <1>3, <3>3, <3>5, <3>8 DEF Sound
  <2> QED  BY <2>1, <2>2 DEF SetupInv, SetupShape
<1> QED  BY <1>8, <1>9, <1>10, <1>11 DEF SetupInv

-----------------------------------------------------------------------------
(* The whole.                                                              *)

LEMMA SetUpIs ==
  ASSUME NEW p \in Hosted, NEW r \in Servers, NEW k \in Secrets
  PROVE  LET s == SetUp(p, r, k) IN
         /\ s \in Saved /\ s.present /\ s.readable /\ s.completed /\ s.primary = p
         /\ s.providers[p] = [ref |-> TRUE, verified |-> TRUE]
         /\ s.smtp = [on |-> TRUE, server |-> r, ref |-> TRUE, verified |-> TRUE,
                      accepted |-> TRUE]
<1> DEFINE t == [ref |-> TRUE, verified |-> TRUE]
           m == [on |-> TRUE, server |-> r, ref |-> TRUE, verified |-> TRUE,
                 accepted |-> TRUE]
<1>a. PICK none : none = [q \in Hosted |-> [ref |-> FALSE, verified |-> FALSE]]
  OBVIOUS
<1>b. PICK y : y = [on |-> FALSE, server |-> "none", ref |-> FALSE,
                    verified |-> FALSE, accepted |-> FALSE]
  OBVIOUS
<1> DEFINE e == [none EXCEPT ![p] = t]
           s == [present |-> TRUE, readable |-> TRUE, completed |-> TRUE,
                 primary |-> p, providers |-> e, smtp |-> m]
           u == [present |-> TRUE, readable |-> TRUE, completed |-> FALSE,
                 primary |-> "none", providers |-> none, smtp |-> y]
<1>1. SetUp(p, r, k) = s
  <2>1. DefaultDocument = u  BY <1>a, <1>b DEF DefaultDocument
  <2>2. SetUp(p, r, k) =
          [u EXCEPT !.completed = TRUE, !.primary = p, !.providers[p] = t, !.smtp = m]
    BY <2>1 DEF SetUp
  <2> QED  BY <2>2
<1>2. e \in Entries /\ e[p] = t  BY <1>a DEF Entries
<1>3. m \in Relays  BY DEF Relays
<1> HIDE DEF e, m
<1>4. s \in Saved  BY <1>2, <1>3 DEF Saved, SavedBy
<1> QED  BY <1>1, <1>2, <1>4 DEF m

LEMMA SetupStarts == SetupInit => SetupInv
<1> SUFFICES ASSUME SetupInit PROVE SetupInv
  OBVIOUS
<1>1. /\ step = "closed" /\ changes = <<>> /\ todo = <<>> /\ edits = 0
      /\ torn = FALSE /\ carried = FALSE
  BY DEF SetupInit
<1>2. ~Committing  BY <1>1 DEF Committing
<1>3. /\ changes \in Seq(CredentialWrites) /\ Len(changes) <= 2
      /\ todo \in Seq(CredentialWrites) /\ Len(todo) <= 2
      /\ edits \in 0..MaxEdits
  BY <1>1, SetupAssumption
<1>4. SUFFICES /\ settings \in {NoFile} \cup Saved /\ vault \in Vaults
               /\ InstallOK(LoadedOf(settings), vault) /\ Ready(LoadedOf(settings))
               /\ Checked(settings)
  BY <1>1, <1>2, <1>3
  DEF SetupInv, SetupShape, CommitOK, Sound, BaseSettings, BaseVault
<1>5. CASE settings = NoFile /\ vault = [i \in CredentialIds |-> NoSecret]
  <2>1. ~settings.present  BY <1>5 DEF NoFile
  <2>2. LoadedOf(settings) = DefaultDocument  BY <2>1 DEF LoadedOf
  <2>3. vault \in Vaults /\ vault["smtp"] = NoSecret
    BY <1>5 DEF Vaults, Kept, CredentialIds
  <2>4. /\ DefaultDocument.primary \notin Hosted /\ ~DefaultDocument.completed
        /\ ~DefaultDocument.smtp.verified /\ ~DefaultDocument.smtp.accepted
    BY SetupAssumption DEF DefaultDocument
  <2>5. InstallOK(DefaultDocument, vault) /\ Ready(DefaultDocument)
    BY <2>3, <2>4 DEF InstallOK, Ready
  <2> QED  BY <1>5, <2>1, <2>2, <2>3, <2>5 DEF Checked
<1>6. ASSUME NEW p \in Hosted, NEW r \in Servers, NEW k \in Secrets,
             settings = SetUp(p, r, k),
             vault = [i \in CredentialIds |-> IF i \in {p, "smtp"} THEN k ELSE NoSecret],
             tested = {<<p, k>>, <<r, k>>}, accepted = {<<r, k>>},
             checked = {settings}
      PROVE  /\ settings \in {NoFile} \cup Saved /\ vault \in Vaults
             /\ InstallOK(LoadedOf(settings), vault) /\ Ready(LoadedOf(settings))
             /\ Checked(settings)
  <2>1. /\ settings \in Saved /\ settings.present /\ settings.readable
        /\ settings.completed /\ settings.primary = p
        /\ settings.providers[p] = [ref |-> TRUE, verified |-> TRUE]
        /\ settings.smtp = [on |-> TRUE, server |-> r, ref |-> TRUE, verified |-> TRUE,
                            accepted |-> TRUE]
    BY <1>6, SetUpIs
  <2>2. vault \in Vaults /\ vault[p] = k /\ vault["smtp"] = k
    BY <1>6 DEF Vaults, Kept, CredentialIds
  <2>3. LoadedOf(settings) = settings  BY <2>1 DEF LoadedOf
  <2>4. InstallOK(settings, vault) /\ Ready(settings)
    BY <1>6, <2>1, <2>2 DEF InstallOK, Ready
  <2>5. Checked(settings)  BY <1>6 DEF Checked
  <2> QED  BY <2>1, <2>2, <2>3, <2>4, <2>5
<1> QED  BY <1>5, <1>6 DEF SetupInit

LEMMA SetupStep == SetupInv /\ [SetupNext]_setupVars => SetupInv'
<1> SUFFICES ASSUME SetupInv, [SetupNext]_setupVars PROVE SetupInv'
  OBVIOUS
<1>1. CASE UNCHANGED setupVars
  <2>1. UNCHANGED <<values, held, step, document, changes, todo, settings, oldSettings,
                    vault, edits, tested, accepted, checked, torn, carried, before>>
    BY <1>1 DEF setupVars
  <2>2. SetupShape'  BY <2>1 DEF SetupInv, SetupShape, Committing
  <2>3. Checked(settings)'  BY <2>1 DEF SetupInv, Checked
  <2>4. CommitOK'
    <3>1. CASE ~Committing  BY <2>1, <3>1 DEF CommitOK, Committing
    <3>2. CASE Committing
      <4>1. PICK f : f = After(held, before.vault) /\ f = After(held', before'.vault)
        BY <2>1
      <4>2. (After(held, before.vault))' = f  BY <4>1 DEF After, Primary
      <4>3. CommitOK  BY DEF SetupInv
      <4>4. Noted'  BY <2>1, <3>2, <4>3 DEF CommitOK, Noted
      <4>5. ToDo => ToDo'  BY <2>1, <4>1, <4>2 DEF ToDo
      <4>6. Ready(document) => Ready(document)'  BY <2>1 DEF Ready
      <4>7. Checked(document) => Checked(document)'  BY <2>1 DEF Checked
      <4>8. Checked(before.settings) => Checked(before.settings)'
        BY <2>1 DEF Checked
      <4> QED
        BY <2>1, <3>2, <4>1, <4>2, <4>3, <4>4, <4>5, <4>6, <4>7, <4>8 DEF CommitOK
    <3> QED  BY <3>1, <3>2
  <2>5. torn' \/ Sound'
    <3>1. CASE torn  BY <2>1, <3>1
    <3>2. CASE ~torn
      <4>1. Sound  BY <3>2 DEF SetupInv
      <4>2. PICK s, v : s = BaseSettings /\ v = BaseVault  OBVIOUS
      <4>3. BaseSettings' = s /\ BaseVault' = v
        BY <2>1, <4>2 DEF BaseSettings, BaseVault, Committing
      <4>4. (InstallOK(LoadedOf(BaseSettings), BaseVault)
             /\ Ready(LoadedOf(BaseSettings)))'
        BY <2>1, <4>1, <4>2, <4>3 DEF Sound, InstallOK, Ready, LoadedOf
      <4>5. (step \notin {"closed", "finished"}
              => ProviderProven(BaseVault) /\ ServerProven(BaseVault))'
        BY <2>1, <4>1, <4>2, <4>3
        DEF Sound, ProviderProven, ServerProven, KeyWith, PasswordWith
      <4>6. (Committing => InstallOK(document, After(held, before.vault)))'
        BY <2>1, <4>1 DEF Sound, InstallOK, After, Primary, Committing
      <4> QED  BY <4>1, <4>2, <4>3, <4>4, <4>5, <4>6 DEF Sound
    <3> QED  BY <3>1, <3>2 DEF SetupInv, SetupShape
  <2> QED  BY <2>2, <2>3, <2>4, <2>5 DEF SetupInv
<1>2. CASE Opens  BY <1>2, OpensKeeps
<1>3. CASE Edits  BY <1>3, EditsKeeps
<1>4. CASE AppliesPreset  BY <1>4, PresetKeeps
<1>5. CASE TestsProvider  BY <1>5, TestsProviderKeeps
<1>6. CASE TestsSmtp  BY <1>6, TestsSmtpKeeps
<1>7. CASE ShowsValidation  BY <1>7, ValidationKeeps
<1>8. CASE Finishes  BY <1>8, FinishesKeeps
<1>9. CASE WritesCredential  BY <1>9, WritesKeeps
<1>10. CASE SavesDraft  BY <1>10, SavesDraftKeeps
<1>11. CASE Validates  BY <1>11, ValidatesKeeps
<1>12. CASE SavesCompleted  BY <1>12, SavesCompletedKeeps
<1>13. CASE SavesReadiness  BY <1>13, SavesReadinessKeeps
<1>14. CASE RollsBackSettings  BY <1>14, RollsSettingsKeeps
<1>15. CASE RollsBackCredential  BY <1>15, RollsCredentialKeeps
<1>16. CASE Returns  BY <1>16, ReturnsKeeps
<1>17. CASE SendsTest  BY <1>17, SendsKeeps
<1>18. CASE Closes  BY <1>18, ClosesKeeps
<1>19. CASE Crashes  BY <1>19, CrashesKeeps
<1> QED
  BY <1>1, <1>2, <1>3, <1>4, <1>5, <1>6, <1>7, <1>8, <1>9, <1>10, <1>11, <1>12, <1>13,
     <1>14, <1>15, <1>16, <1>17, <1>18, <1>19 DEF SetupNext

(* What is claimed of a completed setup follows from the document's being  *)
(* true of the credentials.                                                *)
LEMMA SetupClaims == SetupInv => SetupSafe
<1> SUFFICES ASSUME SetupInv PROVE SetupSafe
  OBVIOUS
<1>0. SetupShape /\ CommitOK /\ Checked(settings) /\ (torn \/ Sound)  BY DEF SetupInv
<1>1. SetupTypeOK
  <2>1. vault \in [CredentialIds -> Secrets \cup {NoSecret}]
    BY <1>0 DEF SetupShape, Vaults, Kept
  <2>2. settings.present /\ settings.readable =>
          settings.completed \in BOOLEAN /\ settings.primary \in Hosted \cup {"later"}
    <3>1. CASE settings = NoFile  BY <3>1 DEF NoFile
    <3>2. CASE settings = Malformed  BY <3>2 DEF Malformed
    <3>3. CASE settings \in Saved  BY <3>3 DEF Saved, SavedBy
    <3> QED  BY <1>0, <3>1, <3>2, <3>3 DEF SetupShape
  <2> QED  BY <1>0, <2>1, <2>2 DEF SetupTypeOK, SetupShape
<1>2. CompletedWasChecked
  <2> SUFFICES ASSUME IsSetupComplete
               PROVE  [settings EXCEPT !.smtp.accepted = FALSE] \in
                        {[d EXCEPT !.smtp.accepted = FALSE] : d \in checked}
    BY DEF CompletedWasChecked
  <2>1. settings.present /\ settings.readable /\ settings.completed
    BY <1>0, CompleteIs DEF SetupShape
  <2>2. PICK d \in checked : Stripped(settings) = Stripped(d)
    BY <1>0, <2>1 DEF Checked
  <2> QED  BY <2>2 DEF Stripped
<1>3. FailureUndoesAll  BY AllUndone DEF FailureUndoesAll
<1>4. ASSUME Quiet, ~torn, IsSetupComplete
      PROVE  /\ settings.primary \in Hosted
                  => <<settings.primary, ProviderKey>> \in tested
             /\ settings.smtp.verified /\ ~carried
                  => <<settings.smtp.server, SmtpPassword>> \in tested
             /\ settings.smtp.accepted
                  => <<settings.smtp.server, SmtpPassword>> \in accepted
             /\ Loaded = settings
  <2>1. ~Committing  BY <1>4 DEF Quiet, Committing
  <2>2. settings \in Saved /\ settings.completed /\ settings.present
        /\ Loaded = settings
    BY <1>0, <1>4, CompleteIs DEF SetupShape
  <2>3. LoadedOf(settings) = settings  BY <2>2 DEF LoadedOf
  <2>4. InstallOK(settings, vault) /\ Ready(settings)
    BY <1>0, <1>4, <2>1, <2>3 DEF Sound, BaseSettings, BaseVault
  <2>5. settings.primary \in Hosted => <<settings.primary, ProviderKey>> \in tested
    BY <2>2, <2>4 DEF InstallOK, Ready, ProviderKey
  <2>6. SmtpPassword = vault["smtp"]  BY <2>2, <2>4 DEF InstallOK, SmtpPassword
  <2> QED  BY <2>2, <2>4, <2>5, <2>6 DEF InstallOK
<1>5. ProviderWasTested  BY <1>4 DEF ProviderWasTested
<1>6. ServerWasTested  BY <1>4 DEF ServerWasTested
<1>7. AcceptanceIsCurrent  BY <1>4 DEF AcceptanceIsCurrent
<1> QED  BY <1>1, <1>2, <1>3, <1>5, <1>6, <1>7 DEF SetupSafe

(* Every reachable state of the wizard, a commit or a rollback satisfies   *)
(* the invariant: what was written is noted, and what a verification is    *)
(* about has not changed under it.                                         *)
THEOREM SetupInvariance == SetupInit /\ [][SetupNext]_setupVars => []SetupInv
BY SetupStarts, SetupStep, PTL

(* A setup that says it is complete was checked as it stands, its provider *)
(* and its server answered a test with the very secrets that are stored,   *)
(* and a commit that failed left everything as it was.                     *)
THEOREM SetupIsSafe == SetupInit /\ [][SetupNext]_setupVars => []SetupSafe
BY SetupInvariance, SetupClaims, PTL

---------------------------------------------------------------------------
(* The documents.  The blocks of a text are read one after the other, each   *)
(* from a line beyond the last one's: what holds of the blocks from a line   *)
(* on follows from what holds of those from the next block on.               *)

(* A set of numbers that is not empty has a least one.                       *)
LEMMA LeastNumber ==
  ASSUME NEW S \in SUBSET Nat, S # {}
  PROVE  \E n \in S : \A m \in S : n <= m
<1>1. IsWellFoundedOn(OpToRel(<, Nat), Nat)  BY NatLessThanWellFounded
<1>2. PICK n \in S : \A m \in S : <<m, n>> \notin OpToRel(<, Nat)
  BY <1>1, WFMin
<1>3. \A m \in S : ~(m < n)  BY <1>2 DEF OpToRel
<1> QED  BY <1>3

(* The search for a line ends at or behind its start, past the end at most.  *)
LEMMA FirstFromIs ==
  ASSUME NEW s \in Seq(Kinds), NEW i \in Nat, 1 <= i, i <= Len(s) + 1, NEW T
  PROVE  FirstFrom(s, i, T) \in i..(Len(s) + 1)
<1> DEFINE Found == {j \in i..Len(s) : s[j] \in T}
<1>1. Len(s) \in Nat  OBVIOUS
<1>2. CASE Found = {}
  BY <1>1, <1>2 DEF FirstFrom
<1>3. CASE Found # {}
  <2>1. Found \in SUBSET Nat  BY <1>1
  <2>2. \E n \in Found : \A m \in Found : n <= m
    <3> HIDE DEF Found
    <3> QED  BY <1>3, <2>1, LeastNumber
  <2>3. (CHOOSE j \in Found : \A n \in Found : j <= n) \in Found
    <3> HIDE DEF Found
    <3> QED  BY <2>2
  <2>4. FirstFrom(s, i, T) \in Found  BY <1>3, <2>3 DEF FirstFrom
  <2> QED  BY <1>1, <2>4
<1> QED  BY <1>2, <1>3

(* A block of the text from line i on: it ends before the next one begins,   *)
(* and every line with text in between is one of its own.                    *)
Texts == {"text", "heading", "deep", "bullet", "pipe"}
ReadsBlock(s, i, b) ==
  /\ b.next \in (i + 1)..(Len(s) + 2)
  /\ \A j \in b.lines : j \in i..(b.next - 1)
  /\ \A j \in i..(b.next - 1) :
       (j <= Len(s) /\ s[j] \in Texts) => j \in b.lines /\ b.kind \notin {"none", "rule"}

LEMMA BlockReads ==
  ASSUME NEW s \in Seq(Kinds), NEW i \in 1..Len(s)
  PROVE  ReadsBlock(s, i, BlockAt(s, i))
<1>1. PICK N \in Nat : N = Len(s)  OBVIOUS
<1>2. PICK b : b = BlockAt(s, i)  OBVIOUS
<1>3. s[i] \in Kinds /\ i \in Nat /\ 1 <= i /\ i <= N  BY <1>1
<1>4. CASE s[i] = "fence"
  <2>1. PICK f : f = FirstFrom(s, i + 1, {"fence"})  OBVIOUS
  <2>2. f \in (i + 1)..(N + 1)  BY <1>1, <1>3, <2>1, FirstFromIs
  <2>3. b = [kind |-> "code", lines |-> (i + 1)..(f - 1), next |-> f + 1]
    <3>1. s[i] \notin {"heading", "rule", "bullet"} /\ s[i] \notin StartsTable /\ s[i] # "blank"
      BY <1>4 DEF StartsTable
    <3> QED  BY <1>2, <1>4, <2>1, <3>1 DEF BlockAt, BlockOf
  <2>4. b.kind = "code" /\ b.lines = (i + 1)..(f - 1) /\ b.next = f + 1  BY <2>3
  <2>5. \A j \in i..f : (j <= N /\ s[j] \in Texts) => j \in (i + 1)..(f - 1)
    <3>1. "fence" \notin Texts  BY DEF Texts
    <3>2. f <= N => s[f] = "fence"
      <4>1. f <= N => f \in {j \in (i + 1)..Len(s) : s[j] \in {"fence"}}
        <5> DEFINE Found == {j \in (i + 1)..Len(s) : s[j] \in {"fence"}}
        <5>1. CASE Found = {}
          BY <1>1, <2>1, <2>2, <5>1 DEF FirstFrom
        <5>2. CASE Found # {}
          <6>1. Found \in SUBSET Nat  BY <1>1, <1>3
          <6>2. \E n \in Found : \A m \in Found : n <= m
            <7> HIDE DEF Found
            <7> QED  BY <5>2, <6>1, LeastNumber
          <6>3. (CHOOSE j \in Found : \A n \in Found : j <= n) \in Found
            <7> HIDE DEF Found
            <7> QED  BY <6>2
          <6> QED  BY <2>1, <5>2, <6>3 DEF FirstFrom
        <5> QED  BY <5>1, <5>2
      <4> QED  BY <4>1
    <3> QED  BY <1>3, <1>4, <2>2, <3>1, <3>2
  <2> QED  BY <1>1, <1>2, <1>3, <2>2, <2>4, <2>5 DEF ReadsBlock
<1>5. CASE s[i] \in {"heading", "rule", "bullet"}
  <2>1. b = [kind |-> s[i], lines |-> {i}, next |-> i + 1]
    <3>1. s[i] # "fence" /\ s[i] \notin StartsTable /\ s[i] # "blank"  BY <1>5 DEF StartsTable
    <3> QED  BY <1>2, <1>5, <3>1 DEF BlockAt, BlockOf
  <2>2. b.kind = s[i] /\ b.lines = {i} /\ b.next = i + 1  BY <2>1
  <2> QED  BY <1>1, <1>2, <1>3, <1>5, <2>2 DEF ReadsBlock, Texts
<1>6. CASE s[i] \in StartsTable /\ i < Len(s) /\ s[i + 1] = "sep"
  <2>1. PICK r : r = FirstFrom(s, i + 2, Kinds \ StartsTable)  OBVIOUS
  <2>2. r \in (i + 2)..(N + 1)  BY <1>1, <1>3, <1>6, <2>1, FirstFromIs
  <2>3. b = [kind |-> "table", lines |-> {i} \cup ((i + 2)..(r - 1)), next |-> r]
    <3>1. s[i] # "fence" /\ s[i] \notin {"heading", "rule", "bullet"} /\ s[i] # "blank"
      BY <1>6 DEF StartsTable
    <3> QED  BY <1>2, <1>6, <2>1, <3>1 DEF BlockAt, BlockOf
  <2>4. b.kind = "table" /\ b.lines = {i} \cup ((i + 2)..(r - 1)) /\ b.next = r  BY <2>3
  <2>5. s[i + 1] \notin Texts  BY <1>6 DEF Texts
  <2> QED  BY <1>1, <1>2, <1>3, <2>2, <2>4, <2>5 DEF ReadsBlock
<1>7. CASE s[i] = "blank"
  <2>1. b = [kind |-> "none", lines |-> {}, next |-> i + 1]
    <3>1. s[i] # "fence" /\ s[i] \notin {"heading", "rule", "bullet"} /\ s[i] \notin StartsTable
      BY <1>7 DEF StartsTable
    <3> QED  BY <1>2, <1>7, <3>1 DEF BlockAt, BlockOf
  <2>2. b.kind = "none" /\ b.lines = {} /\ b.next = i + 1  BY <2>1
  <2> QED  BY <1>1, <1>2, <1>3, <1>7, <2>2 DEF ReadsBlock, Texts
<1>8. CASE /\ s[i] # "fence" /\ s[i] \notin {"heading", "rule", "bullet"} /\ s[i] # "blank"
           /\ ~(s[i] \in StartsTable /\ i < Len(s) /\ s[i + 1] = "sep")
  <2>1. PICK p : p = FirstFrom(s, i + 1, StartsBlock)  OBVIOUS
  <2>2. p \in (i + 1)..(N + 1)  BY <1>1, <1>3, <2>1, FirstFromIs
  <2>3. b = [kind |-> "paragraph", lines |-> i..(p - 1), next |-> p]
    BY <1>2, <1>8, <2>1 DEF BlockAt, BlockOf
  <2>4. b.kind = "paragraph" /\ b.lines = i..(p - 1) /\ b.next = p  BY <2>3
  <2> QED  BY <1>1, <1>2, <1>3, <2>2, <2>4 DEF ReadsBlock
<1> QED  BY <1>4, <1>5, <1>6, <1>7, <1>8

(* What the blocks from line i on, B, have to be: without overlap, and with  *)
(* every line of text in one that is written.                                *)
Covers(s, i, B) ==
  /\ \A b \in B : \A j \in b.lines : j \in Nat /\ i <= j
  /\ \A b, c \in B : b # c => b.lines \cap c.lines = {}
  /\ \A j \in i..Len(s) :
       s[j] \in Texts => \E b \in B : j \in b.lines /\ b.kind \notin {"none", "rule"}

LEMMA OneMoreBlock ==
  ASSUME NEW s \in Seq(Kinds), NEW i \in 1..Len(s), NEW b, ReadsBlock(s, i, b),
         NEW B, Covers(s, b.next, B)
  PROVE  Covers(s, i, {b} \cup B)
<1>1. PICK N \in Nat : N = Len(s)  OBVIOUS
<1>2. PICK n : n = b.next  OBVIOUS
<1>3. n \in Nat /\ i \in Nat /\ i < n  BY <1>1, <1>2 DEF ReadsBlock
<1>4. \A j \in b.lines : j \in Nat /\ i <= j /\ j < n  BY <1>2, <1>3 DEF ReadsBlock
<1>5. \A c \in B : \A j \in c.lines : j \in Nat /\ n <= j  BY <1>2 DEF Covers
<1>6. \A c \in {b} \cup B : \A j \in c.lines : j \in Nat /\ i <= j
  BY <1>3, <1>4, <1>5
<1>7. ASSUME NEW c \in {b} \cup B, NEW d \in {b} \cup B, c # d
      PROVE  c.lines \cap d.lines = {}
  <2>1. CASE c \in B /\ d \in B  BY <1>7, <2>1 DEF Covers
  <2>2. CASE c = b /\ d \in B
    <3>1. \A j \in c.lines : j \notin d.lines
      <4>1. \A j \in c.lines : j \in Nat /\ j < n  BY <1>4, <2>2
      <4>2. \A j \in d.lines : j \in Nat /\ n <= j  BY <1>5, <2>2
      <4>3. \A j \in Nat : ~(j < n /\ n <= j)  BY <1>3
      <4> QED  BY <4>1, <4>2, <4>3
    <3> QED  BY <3>1
  <2>3. CASE c \in B /\ d = b
    <3>1. \A j \in d.lines : j \notin c.lines
      <4>1. \A j \in d.lines : j \in Nat /\ j < n  BY <1>4, <2>3
      <4>2. \A j \in c.lines : j \in Nat /\ n <= j  BY <1>5, <2>3
      <4>3. \A j \in Nat : ~(j < n /\ n <= j)  BY <1>3
      <4> QED  BY <4>1, <4>2, <4>3
    <3> QED  BY <3>1
  <2> QED  BY <1>7, <2>1, <2>2, <2>3
<1>8. ASSUME NEW j \in i..Len(s), s[j] \in Texts
      PROVE  \E c \in {b} \cup B : j \in c.lines /\ c.kind \notin {"none", "rule"}
  <2>1. CASE j < n
    <3>1. j \in i..(b.next - 1) /\ j <= Len(s)  BY <1>1, <1>2, <1>3, <2>1
    <3>2. j \in b.lines /\ b.kind \notin {"none", "rule"}  BY <1>8, <3>1 DEF ReadsBlock
    <3> QED  BY <3>2
  <2>2. CASE n <= j
    <3>1. j \in b.next..Len(s)  BY <1>1, <1>2, <1>3, <2>2
    <3>2. PICK c \in B : j \in c.lines /\ c.kind \notin {"none", "rule"}
      BY <1>8, <3>1 DEF Covers
    <3> QED  BY <3>2
  <2> QED  BY <1>1, <1>3, <2>1, <2>2
<1> QED  BY <1>6, <1>7, <1>8 DEF Covers

(* What follows from line i on, of the blocks f that follow each line.       *)
Following(s, i, f) ==
  IF i > Len(s) THEN {} ELSE LET b == BlockAt(s, i) IN {b} \cup f[b.next]

(* A statement about every line up to N holds, by the last one where it      *)
(* would not, if it holds at N and of a line whenever it does of the later.  *)
LEMMA DownTheLines ==
  ASSUME NEW N \in Nat, NEW S,
         \A m \in 1..N : (\A k \in (m + 1)..N : k \in S) => m \in S
  PROVE  \A m \in 1..N : m \in S
<1>1. ASSUME NEW m \in 1..N, m \notin S PROVE FALSE
  <2> DEFINE Bad == {d \in Nat : d < N /\ N - d \notin S}
  <2>1. N - m \in Nat /\ N - m < N /\ N - (N - m) = m  BY <1>1
  <2>2. N - m \in Bad  BY <1>1, <2>1
  <2>3. PICK d \in Bad : \A e \in Bad : d <= e
    <3>1. Bad \in SUBSET Nat  OBVIOUS
    <3> HIDE DEF Bad
    <3> QED  BY <2>2, <3>1, LeastNumber
  <2>4. d \in Nat /\ d < N /\ N - d \notin S  BY <2>3
  <2>5. ASSUME NEW k \in ((N - d) + 1)..N PROVE k \in S
    <3>1. N - k \in Nat /\ N - k < N /\ N - (N - k) = k /\ ~(d <= N - k)  BY <2>4, <2>5
    <3>2. N - k \notin Bad
      <4> HIDE DEF Bad
      <4> QED  BY <2>3, <3>1
    <3> QED  BY <3>1, <3>2
  <2>6. N - d \in 1..N  BY <2>4
  <2> QED  BY <2>4, <2>5, <2>6
<1> QED  BY <1>1

LEMMA FollowingAgrees ==
  ASSUME NEW s \in Seq(Kinds), NEW j \in 1..(Len(s) + 2), NEW f, NEW g,
         \A n \in (j + 1)..(Len(s) + 2) : f[n] = g[n]
  PROVE  Following(s, j, f) = Following(s, j, g)
<1>1. CASE j > Len(s)  BY <1>1 DEF Following
<1>2. CASE ~(j > Len(s))
  <2>1. j \in 1..Len(s)  BY <1>2
  <2>2. PICK b : b = BlockAt(s, j)  OBVIOUS
  <2>3. b.next \in (j + 1)..(Len(s) + 2)  BY <2>1, <2>2, BlockReads DEF ReadsBlock
  <2>4. f[b.next] = g[b.next]  BY <2>3
  <2> QED  BY <1>2, <2>2, <2>4 DEF Following
<1> QED  BY <1>1, <1>2

(* The recursion of the block parser ends: there is a function as it is      *)
(* written, from the last line up.                                           *)
LEMMA BlocksFollow ==
  ASSUME NEW s \in Seq(Kinds)
  PROVE  \E f : f = [i \in 1..(Len(s) + 2) |-> Following(s, i, f)]
<1>1. PICK N \in Nat : N = Len(s) + 2  OBVIOUS
<1>2. N >= 2 /\ Len(s) = N - 2 /\ N \in 1..N /\ 1 \in 1..N  BY <1>1
<1> DEFINE Good == {m \in 1..N : \E f : f = [j \in m..N |-> Following(s, j, f)]}
<1>3. ASSUME NEW m \in 1..N, \A k \in (m + 1)..N : k \in Good PROVE m \in Good
  <2>1. CASE m = N
    <3>1. PICK f : f = [j \in m..N |-> {}]  OBVIOUS
    <3>2. \A j \in m..N : Following(s, j, f) = {}
      <4>1. \A j \in m..N : j > Len(s)  BY <1>2, <2>1
      <4> QED  BY <4>1 DEF Following
    <3>3. f = [j \in m..N |-> Following(s, j, f)]  BY <3>1, <3>2
    <3> QED  BY <3>3
  <2>2. CASE m # N
    <3>1. m + 1 \in (m + 1)..N  BY <2>2
    <3>2. PICK f : f = [j \in (m + 1)..N |-> Following(s, j, f)]  BY <1>3, <3>1
    <3>3. PICK g : g = [j \in m..N |-> IF j = m THEN Following(s, m, f) ELSE f[j]]  OBVIOUS
    <3>4. \A n \in (m + 1)..N : n \in m..N /\ n # m  OBVIOUS
    <3>5. \A n \in (m + 1)..N : f[n] = g[n]  BY <3>3, <3>4
    <3>6. ASSUME NEW j \in m..N PROVE g[j] = Following(s, j, g)
      <4>1. j \in 1..(Len(s) + 2) /\ m \in Nat  BY <1>1, <3>6
      <4>2. \A n \in (j + 1)..(Len(s) + 2) : n \in (m + 1)..N  BY <1>1, <3>6
      <4>3. Following(s, j, f) = Following(s, j, g)
        BY <3>5, <4>1, <4>2, FollowingAgrees
      <4>4. CASE j = m  BY <3>3, <4>3, <4>4
      <4>5. CASE j # m
        <5>1. j \in (m + 1)..N  BY <3>6, <4>5
        <5>2. f[j] = Following(s, j, f)  BY <3>2, <5>1, Zenon
        <5> QED  BY <3>5, <4>3, <5>1, <5>2
      <4> QED  BY <4>4, <4>5
    <3>7. g = [j \in m..N |-> Following(s, j, g)]
      <4>1. g = [j \in m..N |-> g[j]]  BY <3>3
      <4> QED  BY <3>6, <4>1
    <3> QED  BY <3>7
  <2> QED  BY <2>1, <2>2
<1>4. 1 \in Good
  <2> HIDE DEF Good
  <2> QED  BY <1>2, <1>3, DownTheLines
<1> QED  BY <1>1, <1>4

LEMMA BlocksAre ==
  ASSUME NEW s \in Seq(Kinds)
  PROVE  \E f : /\ f = [i \in 1..(Len(s) + 2) |-> Following(s, i, f)]
                /\ Blocks(s) = {b \in f[1] : b.kind # "none"}
<1>1. \E f : f = [i \in 1..(Len(s) + 2) |->
                    IF i > Len(s) THEN {} ELSE {BlockAt(s, i)} \cup f[BlockAt(s, i).next]]
  BY BlocksFollow, Zenon DEF Following
<1>2. \E f : /\ f = [i \in 1..(Len(s) + 2) |->
                    IF i > Len(s) THEN {} ELSE {BlockAt(s, i)} \cup f[BlockAt(s, i).next]]
             /\ Blocks(s) = {b \in f[1] : b.kind # "none"}
  BY <1>1, Zenon DEF Blocks
<1> QED  BY <1>2, Zenon DEF Following

(* Every text: its blocks do not overlap, and every line of text is in one   *)
(* that is written.                                                          *)
LEMMA BlocksCover ==
  ASSUME NEW s \in Seq(Kinds)
  PROVE  Covers(s, 1, Blocks(s))
<1>1. PICK N \in Nat : N = Len(s) + 2  OBVIOUS
<1>2. PICK f : /\ f = [i \in 1..(Len(s) + 2) |-> Following(s, i, f)]
               /\ Blocks(s) = {b \in f[1] : b.kind # "none"}
  BY BlocksAre
<1>3. \A i \in 1..N : f[i] = Following(s, i, f)  BY <1>1, <1>2, Zenon
<1> DEFINE Good == {m \in 1..N : Covers(s, m, f[m])}
<1>4. ASSUME NEW m \in 1..N, \A k \in (m + 1)..N : k \in Good PROVE m \in Good
  <2>1. CASE m > Len(s)
    <3>1. f[m] = {}  BY <1>3, <2>1 DEF Following
    <3>2. m..Len(s) = {}  BY <1>1, <2>1
    <3>3. Covers(s, m, {})  BY <3>2 DEF Covers
    <3> QED  BY <3>1, <3>3
  <2>2. CASE ~(m > Len(s))
    <3>1. m \in 1..Len(s)  BY <1>1, <2>2
    <3>2. PICK b : b = BlockAt(s, m)  OBVIOUS
    <3>3. ReadsBlock(s, m, b)  BY <3>1, <3>2, BlockReads
    <3>4. b.next \in (m + 1)..N  BY <1>1, <3>3 DEF ReadsBlock
    <3>5. Covers(s, b.next, f[b.next])  BY <1>4, <3>4
    <3>6. f[m] = {b} \cup f[b.next]  BY <1>3, <2>2, <3>2 DEF Following
    <3>7. Covers(s, m, {b} \cup f[b.next])
      <4>1. PICK B : B = f[b.next]  OBVIOUS
      <4> QED  BY <3>1, <3>3, <3>5, <4>1, OneMoreBlock
    <3> QED  BY <3>6, <3>7
  <2> QED  BY <2>1, <2>2
<1>5. 1 \in Good
  <2>1. 1 \in 1..N  BY <1>1
  <2> HIDE DEF Good
  <2> QED  BY <1>4, <2>1, DownTheLines
<1>6. PICK B : B = f[1]  OBVIOUS
<1>7. Covers(s, 1, B)  BY <1>5, <1>6
<1>8. Covers(s, 1, {x \in B : x.kind # "none"})
  <2>1. \A b \in {x \in B : x.kind # "none"} : b \in B  OBVIOUS
  <2>2. \A j \in 1..Len(s) : s[j] \in Texts =>
          \E b \in {x \in B : x.kind # "none"} : j \in b.lines /\ b.kind \notin {"none", "rule"}
    <3>1. ASSUME NEW j \in 1..Len(s), s[j] \in Texts
          PROVE \E b \in {x \in B : x.kind # "none"} : j \in b.lines /\ b.kind \notin {"none", "rule"}
      <4>1. PICK b \in B : j \in b.lines /\ b.kind \notin {"none", "rule"}
        BY <1>7, <3>1 DEF Covers
      <4> QED  BY <4>1
    <3> QED  BY <3>1
  <2> QED  BY <1>7, <2>1, <2>2 DEF Covers
<1> QED  BY <1>2, <1>6, <1>8

(* Whatever text: it is read back from every format, and no line of it is    *)
(* written twice.                                                            *)
LEMMA EveryTextIsReadBack ==
  ASSUME page \in Seq(Kinds)
  PROVE  WrittenIsReadBack /\ BlocksDisjoint
<1>1. PICK s \in Seq(Kinds) : s = page  OBVIOUS
<1>2. PICK N \in Nat : N = Len(s)  OBVIOUS
<1>3. PICK B : B = Blocks(s)  OBVIOUS
<1>4. Covers(s, 1, B)
  <2>1. Covers(s, 1, Blocks(s))  BY BlocksCover
  <2> QED  BY <1>3, <2>1
<1>5. Carries(page) = {i \in 1..Len(s) : s[i] \in Texts}  BY <1>1 DEF Carries, Texts
<1>6. Carries(page) \subseteq InDocx(page)
  <2>1. ASSUME NEW j \in 1..Len(s), s[j] \in Texts PROVE j \in InDocx(page)
    <3>1. PICK b \in B : j \in b.lines /\ b.kind \notin {"none", "rule"}
      BY <1>4, <2>1 DEF Covers
    <3>2. b \in {c \in Blocks(page) : c.kind # "rule"}  BY <1>1, <1>3, <3>1
    <3> QED  BY <3>1, <3>2 DEF InDocx, LinesOf
  <2> QED  BY <1>5, <2>1
<1>7. /\ Carries(page) \subseteq InPdf(page) /\ Carries(page) \subseteq InText(page)
      /\ Tables(page) = {} => Carries(page) \subseteq InSheet(page)
  BY <1>1, <1>5 DEF Texts, InPdf, InText, InSheet
<1>8. BlocksDisjoint  BY <1>1, <1>3, <1>4 DEF Covers, BlocksDisjoint
<1> QED  BY <1>6, <1>7, <1>8 DEF WrittenIsReadBack

(* The reader: where a reading stands, which parsers it has behind it, and   *)
(* what the cache holds of versions that are there.                          *)
Readings ==
  [at : 1..5, engine : 0..3, since : 1..MaxVersions, of : 0..MaxVersions,
   failed : SUBSET {"pymupdf", "pdfplumber", "ocr", "docling"}]
Behind(r) == r.failed = {Parsers[k] : k \in 1..(r.at - 1)}
ReadsOn(r) ==
  /\ r \in Readings /\ Behind(r)
  /\ r.engine # 0 => r.at = 3
  /\ r.of # 0 => r.engine \in 1..2

DocumentsInv ==
  /\ page \in Seq(Kinds) /\ Len(page) <= MaxLines
  /\ version \in 1..MaxVersions
  /\ reading = <<>> \/ ReadsOn(reading)
  /\ ocrCache \in [1..MaxVersions -> 0..MaxVersions]
  /\ \A v \in 1..MaxVersions : v > version => ocrCache[v] = 0
  /\ ServedIsOwn
  /\ ~verdict.ok => verdict = Nothing \/ verdict.of = 4

LEMMA ParsersBehind ==
  /\ {Parsers[k] : k \in 1..0} = {}
  /\ {Parsers[k] : k \in 1..4} = {"pymupdf", "pdfplumber", "ocr", "docling"}
  /\ \A n \in 1..4 : {Parsers[k] : k \in 1..n} = {Parsers[k] : k \in 1..(n - 1)} \cup {Parsers[n]}
  /\ \A n \in 1..4 : Parsers[n] \in {"pymupdf", "pdfplumber", "ocr", "docling"}
  /\ \A n \in 1..4 : Parsers[n] = "ocr" <=> n = 3
  /\ Len(Parsers) = 4 /\ Len(Engines) = 2
<1>1. /\ Parsers[1] = "pymupdf" /\ Parsers[2] = "pdfplumber" /\ Parsers[3] = "ocr"
      /\ Parsers[4] = "docling" /\ Len(Parsers) = 4 /\ Len(Engines) = 2
  BY DEF Parsers, Engines
<1>2. 1..0 = {} /\ 1..4 = {1, 2, 3, 4}  OBVIOUS
<1>3. {Parsers[k] : k \in 1..0} = {}  BY <1>2
<1>4. {Parsers[k] : k \in 1..4} = {"pymupdf", "pdfplumber", "ocr", "docling"}
  BY <1>1, <1>2
<1>5. ASSUME NEW n \in 1..4
      PROVE {Parsers[k] : k \in 1..n} = {Parsers[k] : k \in 1..(n - 1)} \cup {Parsers[n]}
  <2>1. 1..n = (1..(n - 1)) \cup {n}  OBVIOUS
  <2> QED  BY <2>1
<1>6. \A n \in 1..4 : Parsers[n] \in {"pymupdf", "pdfplumber", "ocr", "docling"}
  BY <1>1, <1>2
<1>7. \A n \in 1..4 : Parsers[n] = "ocr" <=> n = 3  BY <1>1, <1>2
<1> QED  BY <1>1, <1>3, <1>4, <1>5, <1>6, <1>7

LEMMA FourParsers == Cardinality({"pymupdf", "pdfplumber", "ocr", "docling"}) = 4
<1>1. Cardinality({}) = 0 /\ IsFiniteSet({})  BY FS_EmptySet
<1>2. IsFiniteSet({"pymupdf"}) /\ Cardinality({"pymupdf"}) = 1
  BY FS_Singleton
<1>3. IsFiniteSet({"pymupdf", "pdfplumber"}) /\ Cardinality({"pymupdf", "pdfplumber"}) = 2
  <2>1. {"pymupdf"} \cup {"pdfplumber"} = {"pymupdf", "pdfplumber"}  OBVIOUS
  <2>2. "pdfplumber" \notin {"pymupdf"}  OBVIOUS
  <2>3. /\ IsFiniteSet({"pymupdf"} \cup {"pdfplumber"})
        /\ Cardinality({"pymupdf"} \cup {"pdfplumber"}) = 1 + 1
    BY <1>2, <2>2, FS_AddElement
  <2> QED  BY <2>1, <2>3
<1>4. /\ IsFiniteSet({"pymupdf", "pdfplumber", "ocr"})
      /\ Cardinality({"pymupdf", "pdfplumber", "ocr"}) = 3
  <2>1. {"pymupdf", "pdfplumber"} \cup {"ocr"} = {"pymupdf", "pdfplumber", "ocr"}  OBVIOUS
  <2>2. "ocr" \notin {"pymupdf", "pdfplumber"}  OBVIOUS
  <2>3. /\ IsFiniteSet({"pymupdf", "pdfplumber"} \cup {"ocr"})
        /\ Cardinality({"pymupdf", "pdfplumber"} \cup {"ocr"}) = 2 + 1
    BY <1>3, <2>2, FS_AddElement
  <2> QED  BY <2>1, <2>3
<1> DEFINE Three == {"pymupdf", "pdfplumber", "ocr"}
<1>5. Three \cup {"docling"} = {"pymupdf", "pdfplumber", "ocr", "docling"}  OBVIOUS
<1>6. "docling" \notin Three  OBVIOUS
<1>7. Cardinality(Three \cup {"docling"}) = 3 + 1
  <2>1. IsFiniteSet(Three) /\ Cardinality(Three) = 3  BY <1>4
  <2> HIDE DEF Three
  <2> QED  BY <1>6, <2>1, FS_AddElement
<1> QED  BY <1>5, <1>7

LEMMA DocumentsStart == DocumentsInit => DocumentsInv
<1> SUFFICES ASSUME DocumentsInit PROVE DocumentsInv
  OBVIOUS
<1>1. page = <<>> /\ version = 1 /\ reading = <<>> /\ verdict = Nothing
  BY DEF DocumentsInit
<1>2. ocrCache = [v \in 1..MaxVersions |-> 0] /\ 1 \in 1..MaxVersions /\ MaxVersions \in Nat
  BY DocumentsAssumption DEF DocumentsInit
<1>3. page \in Seq(Kinds) /\ Len(page) <= MaxLines  BY <1>1, DocumentsAssumption
<1>4. ServedIsOwn  BY <1>2 DEF ServedIsOwn, CacheSlot
<1>5. ~verdict.ok => verdict = Nothing \/ verdict.of = 4  BY <1>1
<1> QED  BY <1>1, <1>2, <1>3, <1>4, <1>5 DEF DocumentsInv

(* The next parser: one more is behind the reading.                          *)
LEMMA ReadsOnward ==
  ASSUME NEW r \in Readings, Behind(r), NEW v, r.at \in 1..4, r.of = 0,
         v = [r EXCEPT !.at = @ + 1, !.engine = 0, !.failed = @ \cup {Parsers[r.at]}]
  PROVE  ReadsOn(v)
<1>1. v \in Readings
  <2>1. r.at + 1 \in 1..5  OBVIOUS
  <2>2. Parsers[r.at] \in {"pymupdf", "pdfplumber", "ocr", "docling"}  BY ParsersBehind
  <2>3. /\ r.since \in 1..MaxVersions /\ r.of \in 0..MaxVersions
        /\ r.failed \in SUBSET {"pymupdf", "pdfplumber", "ocr", "docling"}
    BY DEF Readings
  <2>4. v = [at |-> r.at + 1, engine |-> 0, since |-> r.since, of |-> r.of,
             failed |-> r.failed \cup {Parsers[r.at]}]
    BY DEF Readings
  <2>5. 0 \in 0..3  OBVIOUS
  <2> QED  BY <2>1, <2>2, <2>3, <2>4, <2>5 DEF Readings
<1>2. v.at = r.at + 1 /\ v.engine = 0 /\ v.of = 0 /\ v.failed = r.failed \cup {Parsers[r.at]}
  BY DEF Readings
<1>3. Behind(v)
  <2>1. PICK n \in 1..4 : n = r.at  OBVIOUS
  <2>2. {Parsers[k] : k \in 1..n} = {Parsers[k] : k \in 1..(n - 1)} \cup {Parsers[n]}
    BY ParsersBehind
  <2>3. (n + 1) - 1 = n  OBVIOUS
  <2> QED  BY <1>2, <2>1, <2>2, <2>3 DEF Behind
<1> QED  BY <1>1, <1>2, <1>3 DEF ReadsOn

LEMMA DocumentsKept ==
  ASSUME DocumentsInv, [WriterNext \/ ReaderNext]_documentVars
  PROVE  DocumentsInv'
<1> USE DEF WriterNext, ReaderNext
<1>1. /\ page \in Seq(Kinds) /\ Len(page) <= MaxLines /\ version \in 1..MaxVersions
      /\ MaxLines \in Nat /\ MaxVersions \in Nat
  BY DocumentsAssumption DEF DocumentsInv
<1>2. /\ ocrCache \in [1..MaxVersions -> 0..MaxVersions]
      /\ \A v \in 1..MaxVersions : v > version => ocrCache[v] = 0
  BY DEF DocumentsInv
<1>3. /\ reading = <<>> \/ ReadsOn(reading)
      /\ ServedIsOwn
      /\ ~verdict.ok => verdict = Nothing \/ verdict.of = 4
  BY DEF DocumentsInv
<1>4. Len(Parsers) = 4 /\ Len(Engines) = 2  BY ParsersBehind
<1>5. ASSUME UNCHANGED <<version, ocrCache, strayed>> PROVE ServedIsOwn'
  BY <1>3, <1>5 DEF ServedIsOwn, CacheSlot
<1>6. ASSUME NEW v, Delivers(v)
      PROVE  /\ reading' = <<>> \/ ReadsOn(reading')
             /\ ~verdict'.ok => verdict' = Nothing \/ verdict'.of = 4
  BY <1>6 DEF Delivers
<1>7. CASE AddsLine
  <2>1. PICK k \in Kinds : page' = Append(page, k)  BY <1>7 DEF AddsLine
  <2>2. page' \in Seq(Kinds) /\ Len(page') = Len(page) + 1 /\ Len(page) < MaxLines
    BY <1>1, <1>7, <2>1 DEF AddsLine
  <2>3. Len(page') <= MaxLines  BY <1>1, <2>2
  <2>4. UNCHANGED <<version, reading, ocrCache, verdict, strayed>>
    BY <1>7 DEF AddsLine, readerVars
  <2> QED  BY <1>1, <1>2, <1>3, <1>5, <2>2, <2>3, <2>4 DEF DocumentsInv
<1>8. CASE StartsReading
  <2>1. PICK v \in Nat : v = version /\ v \in 1..MaxVersions  BY <1>1
  <2>2. /\ reading' = [at |-> 1, engine |-> 0, since |-> v, of |-> 0, failed |-> {}]
        /\ verdict' = Nothing /\ UNCHANGED <<page, version, ocrCache, strayed>>
    BY <1>8, <2>1 DEF StartsReading
  <2>3. ReadsOn(reading')
    <3>1. PICK r : r = [at |-> 1, engine |-> 0, since |-> v, of |-> 0, failed |-> {}]  OBVIOUS
    <3>2. r \in Readings /\ r.at - 1 = 0 /\ r.failed = {} /\ r.engine = 0 /\ r.of = 0
      BY <1>1, <2>1, <3>1 DEF Readings
    <3>3. Behind(r)  BY <3>2, ParsersBehind DEF Behind
    <3>4. ReadsOn(r)  BY <3>2, <3>3 DEF ReadsOn
    <3> QED  BY <2>2, <3>1, <3>4
  <2> QED  BY <1>1, <1>2, <1>5, <2>2, <2>3 DEF DocumentsInv
<1>9. CASE TriesParser
  <2>1. /\ reading # <<>> /\ ReadsOn(reading) /\ reading.at <= 4 /\ Parsers[reading.at] # "ocr"
        /\ UNCHANGED <<page, version, ocrCache, strayed>>
    BY <1>3, <1>4, <1>9 DEF TriesParser
  <2>2. Delivers(version) \/ (reading' = NextParser /\ UNCHANGED verdict)
    BY <1>9 DEF TriesParser
  <2>3. ASSUME reading' = NextParser PROVE ReadsOn(reading')
    <3>1. PICK r \in Readings : r = reading /\ Behind(r)  BY <2>1 DEF ReadsOn
    <3>2. r.at \in 1..4 /\ r.at # 3
      <4>1. r.at \in 1..4  BY <2>1, <3>1 DEF Readings
      <4> QED  BY <2>1, <3>1, <4>1, ParsersBehind
    <3>3. r.engine = 0 /\ r.of = 0  BY <2>1, <3>1, <3>2 DEF ReadsOn, Readings
    <3>4. PICK v : v = [r EXCEPT !.at = @ + 1, !.engine = 0, !.failed = @ \cup {Parsers[r.at]}]
      OBVIOUS
    <3>5. ReadsOn(v)  BY <3>1, <3>2, <3>3, <3>4, ReadsOnward
    <3> QED  BY <2>3, <3>1, <3>4, <3>5 DEF NextParser
  <2> QED  BY <1>1, <1>2, <1>3, <1>5, <1>6, <2>1, <2>2, <2>3 DEF DocumentsInv
<1>10. CASE AsksCache
  <2>1. /\ reading # <<>> /\ ReadsOn(reading) /\ reading.at <= 4 /\ Parsers[reading.at] = "ocr"
        /\ reading.engine = 0 /\ UNCHANGED <<page, version, ocrCache, strayed>>
    BY <1>3, <1>4, <1>10 DEF AsksCache
  <2>2. \/ Delivers(ocrCache[CacheSlot(version)])
        \/ reading' = [reading EXCEPT !.engine = 1] /\ UNCHANGED verdict
    BY <1>10 DEF AsksCache
  <2>3. ASSUME reading' = [reading EXCEPT !.engine = 1] PROVE ReadsOn(reading')
    <3>1. PICK r \in Readings : r = reading /\ ReadsOn(r)  BY <2>1 DEF ReadsOn
    <3>2. r.at = 3
      <4>1. r.at \in 1..4  BY <2>1, <3>1 DEF Readings
      <4> QED  BY <2>1, <3>1, <4>1, ParsersBehind
    <3>3. r.of = 0  BY <2>1, <3>1 DEF ReadsOn, Readings
    <3>4. PICK w : w = [r EXCEPT !.engine = 1]  OBVIOUS
    <3>5. /\ w \in Readings /\ w.at = 3 /\ w.engine = 1 /\ w.of = 0
          /\ w.failed = r.failed
      BY <3>2, <3>3, <3>4 DEF Readings
    <3>6. ReadsOn(w)  BY <3>1, <3>2, <3>5 DEF ReadsOn, Behind
    <3> QED  BY <2>3, <3>1, <3>4, <3>6
  <2> QED  BY <1>1, <1>2, <1>3, <1>5, <1>6, <2>1, <2>2, <2>3 DEF DocumentsInv
<1>11. CASE StartsEngine
  <2>1. /\ reading # <<>> /\ ReadsOn(reading) /\ reading.engine \in 1..2 /\ reading.of = 0
        /\ UNCHANGED <<page, version, ocrCache, verdict, strayed>>
    BY <1>3, <1>4, <1>11 DEF StartsEngine
  <2>2. \/ reading' = [reading EXCEPT !.of = version]
        \/ reading' = [reading EXCEPT !.engine = @ + 1]
    BY <1>11 DEF StartsEngine
  <2>3. ReadsOn(reading')
    <3>1. PICK r \in Readings : r = reading /\ ReadsOn(r)  BY <2>1 DEF ReadsOn
    <3>2. r.engine \in 1..2 /\ r.of = 0 /\ r.at = 3  BY <2>1, <3>1 DEF ReadsOn
    <3>3. PICK v \in 1..MaxVersions : v = version  BY <1>1
    <3>4. ReadsOn([r EXCEPT !.of = v])
      <4>1. PICK w : w = [r EXCEPT !.of = v]  OBVIOUS
      <4>2. /\ w \in Readings /\ w.at = 3 /\ w.engine = r.engine /\ w.failed = r.failed
        BY <1>1, <3>2, <3>3, <4>1 DEF Readings
      <4> QED  BY <3>1, <3>2, <4>1, <4>2 DEF ReadsOn, Behind
    <3>5. ReadsOn([r EXCEPT !.engine = @ + 1])
      <4>1. PICK w : w = [r EXCEPT !.engine = @ + 1]  OBVIOUS
      <4>2. /\ w \in Readings /\ w.at = 3 /\ w.of = 0 /\ w.failed = r.failed
        BY <3>2, <4>1 DEF Readings
      <4> QED  BY <3>1, <3>2, <4>1, <4>2 DEF ReadsOn, Behind
    <3> QED  BY <2>2, <3>1, <3>3, <3>4, <3>5
  <2> QED  BY <1>1, <1>2, <1>3, <1>5, <2>1, <2>3 DEF DocumentsInv
<1>12. CASE EndsEngine
  <2>1. PICK r \in Readings : r = reading /\ ReadsOn(r)
    BY <1>3, <1>12 DEF EndsEngine, ReadsOn
  <2>2. PICK v \in 1..MaxVersions : v = version  BY <1>1
  <2>3. r.of # 0 /\ r.engine \in 1..2 /\ r.at = 3 /\ r.of \in 1..MaxVersions
    BY <1>1, <1>12, <2>1 DEF EndsEngine, ReadsOn, Readings
  <2>4. UNCHANGED <<page, version>>  BY <1>12 DEF EndsEngine
  <2>5. CASE /\ Delivers(r.of) /\ ocrCache' = [ocrCache EXCEPT ![v] = r.of]
             /\ strayed' = IF r.of = v THEN strayed \ {v} ELSE strayed \cup {v}
    <3>1. ocrCache' \in [1..MaxVersions -> 0..MaxVersions]  BY <1>2, <2>3, <2>5
    <3>2. \A w \in 1..MaxVersions : w > v => ocrCache'[w] = 0  BY <1>1, <1>2, <2>2, <2>5
    <3>3. ServedIsOwn'
      <4>1. ASSUME NEW w \in 1..MaxVersions, ocrCache'[w] # 0, w \notin strayed', w <= v
            PROVE  ocrCache'[w] = w
        <5>1. CASE w = v
          <6>1. r.of = v  BY <2>5, <4>1, <5>1
          <6> QED  BY <1>2, <2>5, <5>1, <6>1
        <5>2. CASE w # v
          <6>1. ocrCache'[w] = ocrCache[w] /\ w \notin strayed  BY <1>2, <2>5, <4>1, <5>2
          <6> QED  BY <1>3, <2>2, <4>1, <6>1 DEF ServedIsOwn, CacheSlot
        <5> QED  BY <5>1, <5>2
      <4>2. version' = v  BY <2>2, <2>4
      <4> QED  BY <4>1, <4>2 DEF ServedIsOwn, CacheSlot
    <3> QED  BY <1>1, <1>6, <2>2, <2>4, <2>5, <3>1, <3>2, <3>3 DEF DocumentsInv
  <2>6. CASE /\ reading' = [r EXCEPT !.of = 0, !.engine = @ + 1]
             /\ UNCHANGED <<ocrCache, verdict, strayed>>
    <3>1. PICK w : w = [r EXCEPT !.of = 0, !.engine = @ + 1]  OBVIOUS
    <3>2. w \in Readings /\ w.at = 3 /\ w.of = 0 /\ w.failed = r.failed
      <4>1. w = [at |-> 3, engine |-> r.engine + 1, since |-> r.since, of |-> 0,
                 failed |-> r.failed]
        BY <2>3, <3>1 DEF Readings
      <4>2. r.engine + 1 \in 0..3 /\ 0 \in 0..MaxVersions  BY <1>1, <2>3
      <4>3. /\ r.since \in 1..MaxVersions
            /\ r.failed \in SUBSET {"pymupdf", "pdfplumber", "ocr", "docling"}
        BY DEF Readings
      <4> QED  BY <4>1, <4>2, <4>3 DEF Readings
    <3>3. ReadsOn(w)  BY <2>1, <2>3, <3>2 DEF ReadsOn, Behind
    <3>4. ReadsOn(reading')  BY <2>6, <3>1, <3>3
    <3> QED  BY <1>1, <1>2, <1>3, <1>5, <2>4, <2>6, <3>4 DEF DocumentsInv
  <2> QED  BY <1>12, <2>1, <2>2, <2>5, <2>6 DEF EndsEngine, CacheSlot
<1>13. CASE EnginesExhausted
  <2>1. /\ reading # <<>> /\ reading.engine > 2 /\ reading' = NextParser
        /\ UNCHANGED <<page, version, ocrCache, verdict, strayed>>
    BY <1>4, <1>13 DEF EnginesExhausted
  <2>2. PICK r \in Readings : r = reading /\ ReadsOn(r)  BY <1>3, <2>1 DEF ReadsOn
  <2>3. r.at = 3 /\ r.at \in 1..4  BY <2>1, <2>2 DEF ReadsOn
  <2>4. r.of = 0
    <3>1. r.engine \notin 1..2  BY <2>1, <2>2
    <3> QED  BY <2>2, <3>1 DEF ReadsOn
  <2>5. PICK v : v = [r EXCEPT !.at = @ + 1, !.engine = 0, !.failed = @ \cup {Parsers[r.at]}]
    OBVIOUS
  <2>6. Behind(r)  BY <2>2 DEF ReadsOn
  <2>7. ReadsOn(v)  BY <2>3, <2>4, <2>5, <2>6, ReadsOnward
  <2>8. ReadsOn(reading')  BY <2>1, <2>2, <2>5, <2>7 DEF NextParser
  <2> QED  BY <1>1, <1>2, <1>3, <1>5, <2>1, <2>8 DEF DocumentsInv
<1>14. CASE ChainExhausted
  <2>1. /\ reading # <<>> /\ reading.at > 4 /\ reading' = <<>>
        /\ verdict' = [ok |-> FALSE, of |-> Cardinality(reading.failed)]
        /\ UNCHANGED <<page, version, ocrCache, strayed>>
    BY <1>4, <1>14 DEF ChainExhausted
  <2>2. PICK r \in Readings : r = reading /\ Behind(r)  BY <1>3, <2>1 DEF ReadsOn
  <2>3. r.at - 1 = 4  BY <2>1, <2>2 DEF Readings
  <2>4. Cardinality(r.failed) = 4  BY <2>2, <2>3, ParsersBehind, FourParsers DEF Behind
  <2>5. verdict'.of = 4  BY <2>1, <2>2, <2>4
  <2> QED  BY <1>1, <1>2, <1>5, <2>1, <2>5 DEF DocumentsInv
<1>15. CASE FileChanges
  <2>1. /\ version' = version + 1 /\ version < MaxVersions
        /\ UNCHANGED <<page, reading, ocrCache, verdict, strayed>>
    BY <1>15 DEF FileChanges
  <2>2. version' \in 1..MaxVersions  BY <1>1, <2>1
  <2>3. \A v \in 1..MaxVersions : v > version' => ocrCache'[v] = 0  BY <1>1, <1>2, <2>1
  <2>4. ServedIsOwn'
    <3>1. ASSUME NEW w \in 1..MaxVersions, ocrCache[w] # 0, w \notin strayed
          PROVE  ocrCache[w] = w
      <4>1. w <= version  BY <1>1, <1>2, <3>1
      <4> QED  BY <1>3, <3>1, <4>1 DEF ServedIsOwn, CacheSlot
    <3> QED  BY <2>1, <3>1 DEF ServedIsOwn, CacheSlot
  <2> QED  BY <1>1, <1>2, <1>3, <2>1, <2>2, <2>3, <2>4 DEF DocumentsInv
<1>16. CASE UNCHANGED documentVars
  <2>1. UNCHANGED <<page, version, reading, ocrCache, verdict, strayed>>
    BY <1>16 DEF documentVars
  <2> QED  BY <1>1, <1>2, <1>3, <1>5, <2>1 DEF DocumentsInv
<1> QED
  BY <1>7, <1>8, <1>9, <1>10, <1>11, <1>12, <1>13, <1>14, <1>15, <1>16

LEMMA DocumentsInvSuffices == DocumentsInv => DocumentsSafe
<1> SUFFICES ASSUME DocumentsInv PROVE DocumentsSafe
  OBVIOUS
<1>1. Len(Parsers) = 4 /\ Len(Engines) = 2  BY ParsersBehind
<1>2. DocumentsTypeOK
  <2>1. ReadsOn(reading) => reading.at \in 1..5 /\ reading.engine \in 0..3
    BY DEF ReadsOn, Readings
  <2> QED  BY <1>1, <2>1 DEF DocumentsInv, DocumentsTypeOK
<1>3. WrittenIsReadBack /\ BlocksDisjoint  BY EveryTextIsReadBack DEF DocumentsInv
<1>4. FailsLast  BY <1>1 DEF DocumentsInv, FailsLast
<1> QED  BY <1>2, <1>3, <1>4 DEF DocumentsInv, DocumentsSafe

DocumentsSpec == DocumentsInit /\ [][WriterNext \/ ReaderNext]_documentVars

(* The inductive invariant of the documents holds in every behaviour.        *)
THEOREM DocumentsInvariance == DocumentsSpec => []DocumentsInv
<1>1. DocumentsInit => DocumentsInv  BY DocumentsStart
<1>2. DocumentsInv /\ [WriterNext \/ ReaderNext]_documentVars => DocumentsInv'
  BY DocumentsKept
<1> QED  BY <1>1, <1>2, PTL DEF DocumentsSpec

(* Whatever text is written, in however many lines, every line that carries  *)
(* text is read back from every format and none is written twice; whatever   *)
(* versions a file goes through, the OCR cache serves each its own text, and *)
(* a reading fails only after the last parser (writer.py: _iter_blocks;      *)
(* factory.py: DocumentParserChain.parse; ocr_parser.py: OCRParser).         *)
THEOREM DocumentsAreSafe == DocumentsSpec => []DocumentsSafe
<1>1. DocumentsInv => DocumentsSafe  BY DocumentsInvSuffices
<1> QED  BY <1>1, DocumentsInvariance, PTL

-----------------------------------------------------------------------------
(* The internet tool: searches that overlap, their cache and their retries,  *)
(* what the ranking keeps of an answer of any length, and the redirects of a *)
(* fetch, for any number of searches, results, hosts and addresses.          *)

(* What holds at first and from one step to the next holds at every step.    *)
LEMMA UpTheSteps ==
  ASSUME NEW N \in Nat, NEW T, 0 \in T, \A n \in 1..N : n - 1 \in T => n \in T
  PROVE  \A n \in 0..N : n \in T
<1>1. ASSUME NEW n \in 0..N, n \notin T PROVE FALSE
  <2> DEFINE Bad == {m \in 0..N : m \notin T}
  <2>1. PICK b \in Bad : \A m \in Bad : b <= m
    <3>1. Bad \in SUBSET Nat /\ n \in Bad  BY <1>1
    <3> HIDE DEF Bad
    <3> QED  BY <3>1, LeastNumber
  <2>2. b \in 0..N /\ b \notin T  BY <2>1
  <2>3. b # 0  BY <2>2
  <2>4. b \in 1..N /\ b - 1 \in 0..N /\ ~(b <= b - 1)  BY <2>2, <2>3
  <2>5. b - 1 \notin Bad
    <3> HIDE DEF Bad
    <3> QED  BY <2>1, <2>4
  <2>6. b - 1 \in T  BY <2>4, <2>5
  <2> QED  BY <2>2, <2>4, <2>6
<1> QED  BY <1>1

(* A recursion over the steps from 0 to N has a value at every one of them.  *)
HasRun(N, S, a, e) ==
  \E u \in [0..N -> S] : u[0] = a /\ \A n \in 1..N : u[n] = e[<<u[n - 1], n>>]

LEMMA RunsThrough ==
  ASSUME NEW N \in Nat, NEW S, NEW a \in S, NEW e \in [S \X (1..N) -> S]
  PROVE  HasRun(N, S, a, e)
<1> DEFINE Runs(m, u) == u[0] = a /\ \A n \in 1..m : u[n] = e[<<u[n - 1], n>>]
           T == {m \in 0..N : \E u \in [0..m -> S] : Runs(m, u)}
<1>1. 0 \in T
  <2>1. PICK u : u = [n \in 0..0 |-> a]  OBVIOUS
  <2>2. u \in [0..0 -> S] /\ u[0] = a /\ 1..0 = {}  BY <2>1
  <2> QED  BY <2>2
<1>2. ASSUME NEW m \in 1..N, m - 1 \in T PROVE m \in T
  <2>1. PICK u \in [0..(m - 1) -> S] : Runs(m - 1, u)  BY <1>2
  <2>2. m - 1 \in 0..(m - 1) /\ m \in 1..N  OBVIOUS
  <2>3. PICK x \in S : x = e[<<u[m - 1], m>>]  BY <2>1, <2>2
  <2>4. PICK v : v = [n \in 0..m |-> IF n = m THEN x ELSE u[n]]  OBVIOUS
  <2>5. v \in [0..m -> S] /\ v[0] = a
    <3>1. 0 \in 0..(m - 1) /\ 0 \in 0..m /\ 0 # m  OBVIOUS
    <3>2. \A n \in 0..m : n # m => n \in 0..(m - 1)  OBVIOUS
    <3> QED  BY <2>1, <2>3, <2>4, <3>1, <3>2
  <2>6. ASSUME NEW n \in 1..m PROVE v[n] = e[<<v[n - 1], n>>]
    <3>1. n \in 0..m /\ n - 1 \in 0..m /\ n - 1 # m  OBVIOUS
    <3>2. v[n - 1] = u[n - 1]  BY <2>4, <3>1
    <3>3. CASE n = m  BY <2>3, <2>4, <3>1, <3>2, <3>3
    <3>4. CASE n # m
      <4>1. n \in 1..(m - 1) /\ v[n] = u[n]  BY <2>4, <3>1, <3>4
      <4> QED  BY <2>1, <3>2, <4>1
    <3> QED  BY <3>3, <3>4
  <2> QED  BY <2>5, <2>6
<1>3. N \in T
  <2> HIDE DEF T
  <2>1. N \in 0..N  OBVIOUS
  <2> QED  BY <1>1, <1>2, <2>1, UpTheSteps
<1> QED  BY <1>3 DEF HasRun

(* The first result that another one duplicates.                             *)
LEMMA FirstDuplicateIs ==
  ASSUME NEW s \in Seq(Results), NEW p
  PROVE  \/ FirstDuplicate(s, p) = 0
         \/ /\ FirstDuplicate(s, p) \in 1..Len(s)
            /\ SameResult(s[FirstDuplicate(s, p)], p)
<1> DEFINE Found == {i \in 1..Len(s) : SameResult(s[i], p)}
<1>1. CASE Found = {}  BY <1>1 DEF FirstDuplicate
<1>2. CASE Found # {}
  <2>1. Found \in SUBSET Nat  OBVIOUS
  <2>2. \E i \in Found : \A j \in Found : i <= j
    <3> HIDE DEF Found
    <3> QED  BY <1>2, <2>1, LeastNumber
  <2>3. (CHOOSE i \in Found : \A j \in Found : i <= j) \in Found
    <3> HIDE DEF Found
    <3> QED  BY <2>2
  <2>4. FirstDuplicate(s, p) \in Found  BY <1>2, <2>3 DEF FirstDuplicate
  <2> QED  BY <2>4
<1> QED  BY <1>1, <1>2

(* What becomes of a list of results with one more of them.                  *)
LEMMA CollapsedIs ==
  ASSUME NEW s \in Seq(Results), NEW p \in Results
  PROVE  \/ Collapsed(s, p) = Append(s, p)
         \/ \E i \in 1..Len(s) :
              /\ SameResult(s[i], p)
              /\ \/ p.score > s[i].score /\ Collapsed(s, p) = [s EXCEPT ![i] = p]
                 \/ ~(p.score > s[i].score) /\ Collapsed(s, p) = s
<1>1. PICK i : i = FirstDuplicate(s, p)  OBVIOUS
<1>2. i = 0 \/ (i \in 1..Len(s) /\ SameResult(s[i], p))  BY <1>1, FirstDuplicateIs
<1>3. CASE i = 0
  <2>1. Collapsed(s, p) = Append(s, p)  BY <1>1, <1>3 DEF Collapsed
  <2> QED  BY <2>1
<1>4. CASE i # 0 /\ p.score > s[i].score
  <2>1. Collapsed(s, p) = [s EXCEPT ![i] = p]  BY <1>1, <1>4 DEF Collapsed
  <2> QED  BY <1>2, <1>4, <2>1
<1>5. CASE i # 0 /\ ~(p.score > s[i].score)
  <2>1. Collapsed(s, p) = s  BY <1>1, <1>5 DEF Collapsed
  <2> QED  BY <1>2, <1>5, <2>1
<1> QED  BY <1>3, <1>4, <1>5

LEMMA CollapsedType ==
  ASSUME NEW s \in Seq(Results), NEW p \in Results
  PROVE  Collapsed(s, p) \in Seq(Results)
BY CollapsedIs

(* A result is a duplicate of itself, and what duplicates one of its         *)
(* duplicates is one too.                                                    *)
LEMMA TogetherWith ==
  ASSUME NEW raw, NEW p \in ToSet(raw)
  PROVE  /\ p \in Together(raw, p)
         /\ \A q \in Together(raw, p), x \in ToSet(raw) :
              SameResult(q, x) \/ SameResult(x, q) => x \in Together(raw, p)
<1>1. p \in Together(raw, p)  BY DEF Together
<1>2. ASSUME NEW q \in Together(raw, p), NEW x \in ToSet(raw),
             SameResult(q, x) \/ SameResult(x, q)
      PROVE  x \in Together(raw, p)
  <2>1. SameResult(q, x)  BY <1>2 DEF SameResult
  <2>2. ASSUME NEW S \in SUBSET ToSet(raw), p \in S,
               \A y \in S, z \in ToSet(raw) : SameResult(y, z) => z \in S
        PROVE  x \in S
    <3>1. q \in S  BY <2>2 DEF Together
    <3> QED  BY <2>1, <2>2, <3>1
  <2> QED  BY <2>2 DEF Together
<1> QED  BY <1>1, <1>2

LEMMA ResultsAre ==
  ASSUME NEW s \in Seq(Results)
  PROVE  \A i \in 1..Len(s) : s[i] \in Results /\ s[i].score \in Int /\ s[i].url \in Nat
<1>1. ASSUME NEW i \in 1..Len(s)
      PROVE  s[i] \in Results /\ s[i].score \in Int /\ s[i].url \in Nat
  <2>1. PICK p \in Results : p = s[i]  OBVIOUS
  <2>2. p.score \in Int /\ p.url \in Nat  BY DEF Results
  <2> QED  BY <2>1, <2>2
<1> QED  BY <1>1

(* What the collapse has made of the first n results.                        *)
Keeps(raw, n, s) ==
  /\ s \in Seq(Results)
  /\ \A i \in 1..Len(s) : s[i] \in ToSet(raw)
  /\ n > 0 => s # <<>>
  /\ \A j \in 1..n : \E i \in 1..Len(s) :
       s[i] \in Together(raw, raw[j]) /\ s[i].score >= raw[j].score

LEMMA CollapseKeeps ==
  ASSUME NEW raw \in Seq(Results), NEW n \in 1..Len(raw), NEW s, Keeps(raw, n - 1, s)
  PROVE  Keeps(raw, n, Collapsed(s, raw[n]))
<1>1. PICK p \in Results : p = raw[n]  OBVIOUS
<1>2. p \in ToSet(raw) /\ \A j \in 1..n : raw[j] \in ToSet(raw) /\ raw[j] \in Results
  <2>1. DOMAIN raw = 1..Len(raw)  OBVIOUS
  <2>2. \A j \in 1..n : j \in 1..Len(raw)  OBVIOUS
  <2> QED  BY <1>1, <2>1, <2>2 DEF ToSet
<1>3. s \in Seq(Results) /\ \A i \in 1..Len(s) : s[i] \in ToSet(raw) /\ s[i] \in Results
  BY DEF Keeps
<1>4. PICK m \in Nat : m = Len(s)  BY <1>3
<1>5. \A j \in 1..n : j \in 1..(n - 1) \/ j = n  OBVIOUS
<1>6. PICK t : t = Collapsed(s, p)  OBVIOUS
<1>7. CASE t = Append(s, p)
  <2>1. /\ t \in Seq(Results) /\ Len(t) = m + 1 /\ t[m + 1] = p
        /\ \A i \in 1..m : t[i] = s[i]
    BY <1>3, <1>4, <1>7
  <2>2. \A i \in 1..(m + 1) : t[i] \in ToSet(raw)
    <3>1. \A i \in 1..(m + 1) : i \in 1..m \/ i = m + 1  BY <1>4
    <3> QED  BY <1>2, <1>3, <1>4, <2>1, <3>1
  <2>3. ASSUME NEW j \in 1..n
        PROVE  \E i \in 1..(m + 1) : t[i] \in Together(raw, raw[j]) /\ t[i].score >= raw[j].score
    <3>1. CASE j = n
      <4>1. p \in Together(raw, p) /\ p.score >= p.score
        <5>1. p.score \in Int  BY DEF Results
        <5> QED  BY <1>2, <5>1, TogetherWith
      <4>2. m + 1 \in 1..(m + 1)  BY <1>4
      <4> QED  BY <1>1, <2>1, <3>1, <4>1, <4>2
    <3>2. CASE j \in 1..(n - 1)
      <4>1. PICK i \in 1..m : s[i] \in Together(raw, raw[j]) /\ s[i].score >= raw[j].score
        BY <1>4, <3>2 DEF Keeps
      <4>2. i \in 1..(m + 1) /\ t[i] = s[i]  BY <1>4, <2>1
      <4> QED  BY <4>1, <4>2
    <3> QED  BY <1>5, <2>3, <3>1, <3>2
  <2>4. t # <<>>  BY <1>4, <2>1
  <2> QED  BY <1>1, <1>6, <2>1, <2>2, <2>3, <2>4 DEF Keeps
<1>8. ASSUME NEW i \in 1..m, SameResult(s[i], p)
      PROVE  \A j \in 1..n : s[i] \in Together(raw, raw[j]) <=> p \in Together(raw, raw[j])
  <2>1. s[i] \in ToSet(raw) /\ p \in ToSet(raw)  BY <1>2, <1>3, <1>4
  <2>2. ASSUME NEW j \in 1..n
        PROVE  s[i] \in Together(raw, raw[j]) <=> p \in Together(raw, raw[j])
    <3>1. PICK q \in ToSet(raw) : q = raw[j]  BY <1>2
    <3> QED  BY <1>8, <2>1, <3>1, TogetherWith
  <2> QED  BY <2>2
<1>9. CASE \E i \in 1..m : SameResult(s[i], p) /\ p.score > s[i].score /\ t = [s EXCEPT ![i] = p]
  <2>1. PICK i \in 1..m : SameResult(s[i], p) /\ p.score > s[i].score /\ t = [s EXCEPT ![i] = p]
    BY <1>9
  <2>2. /\ t \in Seq(Results) /\ Len(t) = m /\ t[i] = p
        /\ \A k \in 1..m : k # i => t[k] = s[k]
    BY <1>3, <1>4, <2>1
  <2>3. \A k \in 1..m : t[k] \in ToSet(raw)  BY <1>2, <1>3, <1>4, <2>2
  <2>4. ASSUME NEW j \in 1..n
        PROVE  \E k \in 1..m : t[k] \in Together(raw, raw[j]) /\ t[k].score >= raw[j].score
    <3>1. p.score \in Int /\ s[i].score \in Int /\ raw[j].score \in Int
      BY <1>2, <1>3, <1>4 DEF Results
    <3>2. CASE j = n
      <4>1. p \in Together(raw, p)  BY <1>2, TogetherWith
      <4> QED  BY <1>1, <2>2, <3>1, <3>2, <4>1
    <3>3. CASE j \in 1..(n - 1)
      <4>1. PICK k \in 1..m : s[k] \in Together(raw, raw[j]) /\ s[k].score >= raw[j].score
        BY <1>4, <3>3 DEF Keeps
      <4>2. CASE k = i
        <5>1. p \in Together(raw, raw[j])  BY <1>8, <2>1, <4>1, <4>2
        <5>2. p.score >= raw[j].score  BY <2>1, <3>1, <4>1, <4>2
        <5> QED  BY <2>2, <5>1, <5>2
      <4>3. CASE k # i  BY <2>2, <4>1, <4>3
      <4> QED  BY <4>2, <4>3
    <3> QED  BY <1>5, <3>2, <3>3
  <2>5. t # <<>>  BY <1>4, <2>2
  <2> QED  BY <1>1, <1>6, <2>2, <2>3, <2>4, <2>5 DEF Keeps
<1>10. CASE \E i \in 1..m : SameResult(s[i], p) /\ ~(p.score > s[i].score) /\ t = s
  <2>1. PICK i \in 1..m : SameResult(s[i], p) /\ ~(p.score > s[i].score) /\ t = s
    BY <1>10
  <2>2. ASSUME NEW j \in 1..n
        PROVE  \E k \in 1..m : s[k] \in Together(raw, raw[j]) /\ s[k].score >= raw[j].score
    <3>1. p.score \in Int /\ s[i].score \in Int  BY <1>3, <1>4 DEF Results
    <3>2. CASE j = n
      <4>1. p \in Together(raw, p)  BY <1>2, TogetherWith
      <4>2. s[i] \in Together(raw, p)  BY <1>1, <1>8, <2>1, <3>2, <4>1
      <4> QED  BY <1>1, <2>1, <3>1, <3>2, <4>2
    <3>3. CASE j \in 1..(n - 1)  BY <1>4, <3>3 DEF Keeps
    <3> QED  BY <1>5, <3>2, <3>3
  <2>3. s # <<>>  BY <1>3, <1>4, <2>1
  <2> QED  BY <1>1, <1>3, <1>4, <1>6, <2>1, <2>2, <2>3 DEF Keeps
<1>11. \/ t = Append(s, p)
       \/ \E i \in 1..m : SameResult(s[i], p) /\ p.score > s[i].score /\ t = [s EXCEPT ![i] = p]
       \/ \E i \in 1..m : SameResult(s[i], p) /\ ~(p.score > s[i].score) /\ t = s
  <2>1. \/ Collapsed(s, p) = Append(s, p)
        \/ \E i \in 1..Len(s) :
             /\ SameResult(s[i], p)
             /\ \/ p.score > s[i].score /\ Collapsed(s, p) = [s EXCEPT ![i] = p]
                \/ ~(p.score > s[i].score) /\ Collapsed(s, p) = s
    BY <1>3, CollapsedIs
  <2> QED  BY <1>4, <1>6, <2>1
<1> QED  BY <1>7, <1>9, <1>10, <1>11

(* Of a list of any length the collapse keeps what Keeps says of all of it.  *)
LEMMA SelectedKeeps ==
  ASSUME NEW raw \in Seq(Results)
  PROVE  Keeps(raw, Len(raw), CollapsedAll(raw))
<1>1. PICK N \in Nat : N = Len(raw)  OBVIOUS
<1>2. PICK S : S = Seq(Results)  OBVIOUS
<1>3. PICK e : e = [x \in S \X (1..N) |-> Collapsed(x[1], raw[x[2]])]  OBVIOUS
<1>4. e \in [S \X (1..N) -> S] /\ \A s \in S, n \in 1..N : e[<<s, n>>] = Collapsed(s, raw[n])
  <2>1. ASSUME NEW x \in S \X (1..N) PROVE Collapsed(x[1], raw[x[2]]) \in S
    <3>1. x[1] \in Seq(Results) /\ raw[x[2]] \in Results  BY <1>1, <1>2
    <3> QED  BY <1>2, <3>1, CollapsedType
  <2>2. ASSUME NEW s \in S, NEW n \in 1..N PROVE e[<<s, n>>] = Collapsed(s, raw[n])
    <3>1. <<s, n>> \in S \X (1..N) /\ <<s, n>>[1] = s /\ <<s, n>>[2] = n  OBVIOUS
    <3> QED  BY <1>3, <3>1
  <2> QED  BY <1>3, <2>1, <2>2
<1>5. \E u \in [0..N -> S] : u[0] = <<>> /\ \A n \in 1..N : u[n] = e[<<u[n - 1], n>>]
  <2>1. <<>> \in S  BY <1>2
  <2>2. e \in [S \X (1..N) -> S]  BY <1>4
  <2>3. HasRun(N, S, <<>>, e)  BY <2>1, <2>2, RunsThrough
  <2> QED  BY <2>3 DEF HasRun
<1>6. \E u : u = [n \in 0..Len(raw) |-> IF n = 0 THEN <<>> ELSE Collapsed(u[n - 1], raw[n])]
  <2>1. PICK u \in [0..N -> S] : u[0] = <<>> /\ \A n \in 1..N : u[n] = e[<<u[n - 1], n>>]
    BY <1>5
  <2>2. ASSUME NEW n \in 0..N
        PROVE  u[n] = IF n = 0 THEN <<>> ELSE Collapsed(u[n - 1], raw[n])
    <3>1. CASE n = 0  BY <2>1, <3>1
    <3>2. CASE n # 0
      <4>1. n \in 1..N /\ n - 1 \in 0..N  BY <3>2
      <4>2. u[n - 1] \in S  BY <4>1
      <4> QED  BY <1>4, <2>1, <3>2, <4>1, <4>2
    <3> QED  BY <3>1, <3>2
  <2>3. u = [n \in 0..N |-> u[n]]  OBVIOUS
  <2>4. u = [n \in 0..N |-> IF n = 0 THEN <<>> ELSE Collapsed(u[n - 1], raw[n])]
    BY <2>2, <2>3
  <2> QED  BY <1>1, <2>4
<1>7. \E u : /\ u = [n \in 0..Len(raw) |-> IF n = 0 THEN <<>> ELSE Collapsed(u[n - 1], raw[n])]
             /\ CollapsedAll(raw) = u[Len(raw)]
  BY <1>6, Zenon DEF CollapsedAll
<1>8. PICK u : /\ u = [n \in 0..N |-> IF n = 0 THEN <<>> ELSE Collapsed(u[n - 1], raw[n])]
               /\ CollapsedAll(raw) = u[N]
  BY <1>1, <1>7
<1>9. \A n \in 0..N : u[n] = IF n = 0 THEN <<>> ELSE Collapsed(u[n - 1], raw[n])
  BY <1>8, Zenon
<1> DEFINE T == {n \in 0..N : Keeps(raw, n, u[n])}
<1>10. 0 \in T
  <2>1. 0 \in 0..N /\ u[0] = <<>>  BY <1>9
  <2>2. Keeps(raw, 0, <<>>)  BY DEF Keeps
  <2> QED  BY <2>1, <2>2
<1>11. ASSUME NEW n \in 1..N, n - 1 \in T PROVE n \in T
  <2>1. n \in 0..N /\ n # 0 /\ n \in 1..Len(raw)  BY <1>1
  <2>2. u[n] = Collapsed(u[n - 1], raw[n])  BY <1>9, <2>1
  <2>3. PICK s : s = u[n - 1]  OBVIOUS
  <2>4. Keeps(raw, n - 1, s)  BY <1>11, <2>3
  <2>5. Keeps(raw, n, Collapsed(s, raw[n]))  BY <2>1, <2>4, CollapseKeeps
  <2> QED  BY <2>1, <2>2, <2>3, <2>5
<1>12. N \in T
  <2> HIDE DEF T
  <2>1. N \in 0..N  OBVIOUS
  <2> QED  BY <1>10, <1>11, <2>1, UpTheSteps
<1> QED  BY <1>1, <1>8, <1>12

(* The places of a list: every result has one of its own, every place is     *)
(* taken, and one that comes before another has the earlier place.           *)
LEMMA PlacesOf ==
  ASSUME NEW s \in Seq(Results)
  PROVE  /\ \A i \in 1..Len(s) : Place(s, i) \in 1..Len(s)
         /\ \A n \in 1..Len(s) : \E i \in 1..Len(s) : Place(s, i) = n
         /\ \A i, j \in 1..Len(s) : Before(s, i, j) => Place(s, i) < Place(s, j)
         /\ \A i, j \in 1..Len(s) : Place(s, i) = Place(s, j) => i = j
         /\ \A i, j \in 1..Len(s) : i # j => Before(s, i, j) \/ Before(s, j, i)
<1>1. PICK N \in Nat : N = Len(s)  OBVIOUS
<1>2. \A i \in 1..N : s[i].score \in Int /\ s[i].url \in Nat /\ i \in Nat
  BY <1>1, ResultsAre
<1> DEFINE D == 1..N
           InFront(i) == {j \in D : Before(s, j, i)}
<1>3. IsFiniteSet(D) /\ Cardinality(D) = N
  <2>1. /\ IsFiniteSet(1..N)
        /\ Cardinality(1..N) = IF 1 > N THEN 0 ELSE N - 1 + 1
    BY FS_Interval
  <2> QED  BY <2>1
<1>4. \A i \in D : Place(s, i) = Cardinality(InFront(i)) + 1
  <2>1. DOMAIN s = D  BY <1>1
  <2> QED  BY <2>1 DEF Place
<1>5. \A i \in D : ~Before(s, i, i)  BY <1>2 DEF Before
<1>6. \A i, j, k \in D : Before(s, i, j) /\ Before(s, j, k) => Before(s, i, k)
  <2> SUFFICES ASSUME NEW i \in D, NEW j \in D, NEW k \in D,
                      Before(s, i, j), Before(s, j, k)
               PROVE  Before(s, i, k)
    OBVIOUS
  <2>1. /\ s[i].score \in Int /\ s[j].score \in Int /\ s[k].score \in Int
        /\ s[i].url \in Nat /\ s[j].url \in Nat /\ s[k].url \in Nat
        /\ i \in Nat /\ j \in Nat /\ k \in Nat
    BY <1>2
  <2> QED  BY <2>1 DEF Before
<1>7. \A i, j \in D : i # j => Before(s, i, j) \/ Before(s, j, i)
  <2> SUFFICES ASSUME NEW i \in D, NEW j \in D, i # j
               PROVE  Before(s, i, j) \/ Before(s, j, i)
    OBVIOUS
  <2>1. /\ s[i].score \in Int /\ s[j].score \in Int
        /\ s[i].url \in Nat /\ s[j].url \in Nat /\ i \in Nat /\ j \in Nat
    BY <1>2
  <2> QED  BY <2>1 DEF Before
<1>8. ASSUME NEW i \in D
      PROVE  /\ IsFiniteSet(InFront(i)) /\ Cardinality(InFront(i)) \in Nat
             /\ Cardinality(InFront(i)) + 1 \in 1..N
  <2>1. IsFiniteSet(D \ {i}) /\ Cardinality(D \ {i}) = N - 1
    BY <1>3, FS_RemoveElement
  <2>2. InFront(i) \in SUBSET (D \ {i})  BY <1>5
  <2>3. IsFiniteSet(InFront(i)) /\ Cardinality(InFront(i)) <= N - 1
    BY <2>1, <2>2, FS_Subset
  <2>4. Cardinality(InFront(i)) \in Nat  BY <2>3, FS_CardinalityType
  <2> QED  BY <1>1, <2>3, <2>4
<1>9. ASSUME NEW i \in D, NEW j \in D, Before(s, i, j)
      PROVE  Cardinality(InFront(i)) < Cardinality(InFront(j))
  <2>1. i \in InFront(j)  BY <1>9
  <2>2. InFront(i) \in SUBSET (InFront(j) \ {i})  BY <1>5, <1>6, <1>9
  <2>3. IsFiniteSet(InFront(j) \ {i}) /\ Cardinality(InFront(j) \ {i}) = Cardinality(InFront(j)) - 1
    BY <1>8, <2>1, FS_RemoveElement
  <2>4. Cardinality(InFront(i)) <= Cardinality(InFront(j)) - 1  BY <2>2, <2>3, FS_Subset
  <2>5. Cardinality(InFront(i)) \in Nat /\ Cardinality(InFront(j)) \in Nat  BY <1>8
  <2> HIDE DEF InFront
  <2> QED  BY <2>4, <2>5
<1> HIDE DEF InFront
<1>10. \A i, j \in D : Before(s, i, j) => Place(s, i) < Place(s, j)
  BY <1>4, <1>8, <1>9
<1>11. \A i \in D : Place(s, i) \in 1..N  BY <1>4, <1>8
<1>12. \A i, j \in D : Place(s, i) = Place(s, j) => i = j
  <2> SUFFICES ASSUME NEW i \in D, NEW j \in D, i # j PROVE Place(s, i) # Place(s, j)
    OBVIOUS
  <2>1. Place(s, i) \in Int /\ Place(s, j) \in Int  BY <1>11
  <2>2. Place(s, i) < Place(s, j) \/ Place(s, j) < Place(s, i)  BY <1>7, <1>10
  <2> QED  BY <2>1, <2>2
<1>13. \A n \in 1..N : \E i \in D : Place(s, i) = n
  <2>1. PICK f : f = [i \in D |-> Place(s, i)]  OBVIOUS
  <2>2. f \in Injection(D, 1..N)  BY <1>11, <1>12, <2>1 DEF Injection, IsInjective
  <2>3. f \in Surjection(D, 1..N)  BY <1>3, <2>2, FS_Injection
  <2> QED  BY <2>1, <2>3 DEF Surjection
<1> QED  BY <1>1, <1>7, <1>10, <1>11, <1>12, <1>13

(* What ranking a list gives: results of it, at least one, and for each of   *)
(* them itself or a full list of results that score no less.                 *)
RanksOf(s, r) ==
  /\ r \in Seq(Results) /\ Len(r) = Least(Len(s), MaxResults)
  /\ \A n \in 1..Len(r) : \E i \in 1..Len(s) : r[n] = s[i]
  /\ \A i \in 1..Len(s) :
       \/ \E n \in 1..Len(r) : r[n] = s[i]
       \/ Len(r) = MaxResults /\ \A n \in 1..Len(r) : r[n].score >= s[i].score

LEMMA RankedIs ==
  ASSUME NEW raw \in Seq(Results)
  PROVE  RanksOf(CollapsedAll(raw), Ranked(raw))
<1>1. PICK s \in Seq(Results) : s = CollapsedAll(raw)
  BY SelectedKeeps DEF Keeps
<1>2. PICK N \in Nat : N = Len(s)  OBVIOUS
<1>3. PICK L \in Nat : /\ L = Least(Len(s), MaxResults) /\ L <= N
                       /\ L = N \/ L = MaxResults
  BY <1>2, InternetAssumption DEF Least
<1> DEFINE At(n) == CHOOSE i \in 1..N : Place(s, i) = n
<1>4. \A n \in 1..N : At(n) \in 1..N /\ Place(s, At(n)) = n
  <2>1. \A n \in 1..N : \E i \in 1..N : Place(s, i) = n  BY <1>2, PlacesOf
  <2> QED  BY <2>1
<1>5. PICK r : r = Ranked(raw)  OBVIOUS
<1>6. r = [n \in 1..L |-> s[At(n)]]
  <2>1. DOMAIN s = 1..N  BY <1>2
  <2> QED  BY <1>1, <1>3, <1>5, <2>1 DEF Ranked
<1> HIDE DEF At
<1>7. \A n \in 1..L : n \in 1..N  BY <1>2, <1>3
<1>8. r \in Seq(Results) /\ Len(r) = L /\ \A n \in 1..L : r[n] = s[At(n)]
  <2>1. \A n \in 1..L : s[At(n)] \in Results  BY <1>2, <1>4, <1>7
  <2> QED  BY <1>6, <2>1
<1>9. \A n \in 1..L : \E i \in 1..N : r[n] = s[i]  BY <1>4, <1>7, <1>8
<1>10. ASSUME NEW i \in 1..N
       PROVE  \/ \E n \in 1..L : r[n] = s[i]
              \/ L = MaxResults /\ \A n \in 1..L : r[n].score >= s[i].score
  <2>1. PICK p \in 1..N : p = Place(s, i)  BY <1>2, PlacesOf
  <2>2. CASE p <= L
    <3>1. p \in 1..L  BY <1>3, <2>1, <2>2
    <3>2. At(p) = i
      <4>1. At(p) \in 1..N /\ Place(s, At(p)) = p  BY <1>4
      <4> QED  BY <1>2, <2>1, <4>1, PlacesOf
    <3> QED  BY <1>8, <3>1, <3>2
  <2>3. CASE ~(p <= L)
    <3>1. L = MaxResults  BY <1>2, <1>3, <2>1, <2>3
    <3>2. ASSUME NEW n \in 1..L PROVE r[n].score >= s[i].score
      <4>1. PICK k \in 1..N : k = At(n) /\ Place(s, k) = n  BY <1>4, <1>7
      <4>2. n < p  BY <1>3, <2>1, <2>3
      <4>3. ~Before(s, i, k) /\ k # i
        <5>1. Before(s, i, k) => Place(s, i) < Place(s, k)  BY <1>2, PlacesOf
        <5> QED  BY <2>1, <4>1, <4>2, <5>1
      <4>4. Before(s, k, i)  BY <1>2, <4>3, PlacesOf
      <4>5. s[k].score \in Int /\ s[i].score \in Int  BY <1>2, ResultsAre
      <4> QED  BY <1>8, <4>1, <4>4, <4>5 DEF Before
    <3> QED  BY <3>1, <3>2
  <2> QED  BY <2>2, <2>3
<1> QED  BY <1>1, <1>2, <1>3, <1>5, <1>8, <1>9, <1>10 DEF RanksOf

(* What is given of an answer: results of it, some, and the best of each     *)
(* group of duplicates, whatever its length.                                 *)
BestOf(raw, r) ==
  \A p \in ToSet(raw) :
    \/ \E q \in ToSet(r) \cap Together(raw, p) : q.score >= p.score
    \/ /\ Len(r) = MaxResults
       /\ \A q \in ToSet(r) : q.score >= p.score
Gives(raw, r) ==
  /\ r \in Seq(Results) /\ r # <<>> /\ ToSet(r) \subseteq ToSet(raw)
  /\ BestOf(raw, r)

LEMMA RankedGives ==
  ASSUME NEW raw \in Seq(Results), raw # <<>>
  PROVE  Gives(raw, Ranked(raw))
<1>1. PICK s : s = CollapsedAll(raw)  OBVIOUS
<1>2. PICK r : r = Ranked(raw)  OBVIOUS
<1>3. Keeps(raw, Len(raw), s)  BY <1>1, SelectedKeeps
<1>4. RanksOf(s, r)  BY <1>1, <1>2, RankedIs
<1>5. PICK N \in Nat : N = Len(raw) /\ N > 0  OBVIOUS
<1>6. s \in Seq(Results) /\ s # <<>> /\ \A i \in 1..Len(s) : s[i] \in ToSet(raw)
  BY <1>3, <1>5 DEF Keeps
<1>7. r \in Seq(Results) /\ \A n \in 1..Len(r) : \E i \in 1..Len(s) : r[n] = s[i]
  BY <1>4 DEF RanksOf
<1>8. r # <<>>
  <2>1. Len(s) \in Nat /\ Len(s) > 0  BY <1>6
  <2>2. Len(r) > 0  BY <1>4, <2>1, InternetAssumption DEF RanksOf, Least
  <2> QED  BY <2>2
<1>9. ToSet(r) = {r[n] : n \in 1..Len(r)} /\ ToSet(raw) = {raw[j] : j \in 1..N}
  BY <1>5, <1>7 DEF ToSet
<1>10. ToSet(r) \subseteq ToSet(raw)  BY <1>6, <1>7, <1>9
<1>11. ASSUME NEW p \in ToSet(raw)
       PROVE  \/ \E q \in ToSet(r) \cap Together(raw, p) : q.score >= p.score
              \/ Len(r) = MaxResults /\ \A q \in ToSet(r) : q.score >= p.score
  <2>1. PICK j \in 1..N : p = raw[j]  BY <1>9
  <2>2. PICK i \in 1..Len(s) : s[i] \in Together(raw, p) /\ s[i].score >= p.score
    BY <1>3, <1>5, <2>1 DEF Keeps
  <2>3. p.score \in Int /\ s[i].score \in Int  BY <1>5, <1>6, <2>1, ResultsAre
  <2>4. CASE \E n \in 1..Len(r) : r[n] = s[i]
    <3>1. s[i] \in ToSet(r)  BY <1>9, <2>4
    <3> QED  BY <2>2, <3>1
  <2>5. CASE Len(r) = MaxResults /\ \A n \in 1..Len(r) : r[n].score >= s[i].score
    <3>1. ASSUME NEW q \in ToSet(r) PROVE q.score >= p.score
      <4>1. PICK n \in 1..Len(r) : q = r[n]  BY <1>9
      <4>2. q.score \in Int  BY <1>7, <4>1, ResultsAre
      <4> QED  BY <2>2, <2>3, <2>5, <4>1, <4>2
    <3> QED  BY <2>5, <3>1
  <2>6. \/ \E n \in 1..Len(r) : r[n] = s[i]
        \/ Len(r) = MaxResults /\ \A n \in 1..Len(r) : r[n].score >= s[i].score
    BY <1>4 DEF RanksOf
  <2> QED  BY <2>4, <2>5, <2>6
<1> QED  BY <1>2, <1>7, <1>8, <1>10, <1>11 DEF Gives, BestOf

(* High confidence in a list: two domains that say the same, one of them an  *)
(* authority.                                                                *)
Corroborated(r) ==
  \E p, q \in ToSet(r) : p.title = q.title /\ p.domain # q.domain /\ p.domain \in Authoritative

LEMMA HighMeans ==
  ASSUME NEW r \in Seq(Results), r # <<>>, Confidence(r) = "high"
  PROVE  Corroborated(r)
<1>1. PICK N \in Nat : N = Len(r)  OBVIOUS
<1>2. PICK d : d = Dominant(r)  OBVIOUS
<1>3. Agreeing(r) >= 2 /\ \E i \in d : r[i].domain \in Authoritative
  <2>1. CASE Len(r) = 1
    <3>1. ~(Len(r) > 1)  BY <2>1
    <3>2. Confidence(r) = "low"  BY <2>1, <3>1 DEF Confidence
    <3> QED  BY <3>2
  <2>2. CASE /\ Len(r) > 1 /\ Agreeing(r) >= 2
             /\ 10 * Cardinality(Dominant(r)) >= 6 * Len(r)
             /\ \E i \in Dominant(r) : r[i].domain \in Authoritative
    BY <1>2, <2>2
  <2>3. CASE /\ Len(r) # 1
             /\ ~(/\ Len(r) > 1 /\ Agreeing(r) >= 2
                  /\ 10 * Cardinality(Dominant(r)) >= 6 * Len(r)
                  /\ \E i \in Dominant(r) : r[i].domain \in Authoritative)
    <3>1. Confidence(r) = IF Cardinality(Dominant(r)) < Len(r) THEN "low" ELSE "medium"
      BY <2>3 DEF Confidence
    <3>2. Confidence(r) \in {"low", "medium"}  BY <3>1
    <3> QED  BY <3>2
  <2> QED  BY <2>1, <2>2, <2>3
<1>4. \E i : d = {j \in 1..N : r[j].title = r[i].title}
  BY <1>1, <1>2 DEF Dominant, Claim
<1>5. PICK k : d = {j \in 1..N : r[j].title = r[k].title}  BY <1>4
<1>6. PICK i \in d : r[i].domain \in Authoritative  BY <1>3
<1>7. \E j \in d : r[j].domain # r[i].domain
  <2> SUFFICES ASSUME \A j \in d : r[j].domain = r[i].domain PROVE FALSE
    OBVIOUS
  <2>1. {r[j].domain : j \in d} = {r[i].domain}  BY <1>6
  <2>2. Agreeing(r) = Cardinality({r[i].domain})  BY <1>2, <2>1 DEF Agreeing
  <2>3. Cardinality({r[i].domain}) = 1  BY FS_Singleton
  <2> QED  BY <1>3, <2>2, <2>3
<1>8. PICK j \in d : r[j].domain # r[i].domain  BY <1>7
<1>9. i \in 1..N /\ j \in 1..N /\ r[i].title = r[j].title  BY <1>5, <1>6, <1>8
<1>10. r[i] \in ToSet(r) /\ r[j] \in ToSet(r)
  <2>1. DOMAIN r = 1..N  BY <1>1
  <2> QED  BY <1>9, <2>1 DEF ToSet
<1> QED  BY <1>6, <1>8, <1>9, <1>10 DEF Corroborated

(* What an adapter makes of a reply is a list of results.                    *)
LEMMA LinkingIs ==
  ASSUME NEW raw \in Seq(Results), NEW links
  PROVE  Linking(raw, links) \in Seq(Results)
<1>1. PICK N \in Nat : N = Len(raw)  OBVIOUS
<1>2. PICK S : S = Seq(Results)  OBVIOUS
<1>3. PICK e : e = [x \in S \X (1..N) |-> WithLink(x[1], raw[x[2]], links)]  OBVIOUS
<1>4. /\ e \in [S \X (1..N) -> S]
      /\ \A s \in S, n \in 1..N : e[<<s, n>>] = WithLink(s, raw[n], links)
  <2>1. ASSUME NEW x \in S \X (1..N) PROVE WithLink(x[1], raw[x[2]], links) \in S
    <3>1. x[1] \in Seq(Results) /\ raw[x[2]] \in Results  BY <1>1, <1>2
    <3>2. Append(x[1], raw[x[2]]) \in Seq(Results)  BY <3>1
    <3> QED  BY <1>2, <3>1, <3>2 DEF WithLink
  <2>2. ASSUME NEW s \in S, NEW n \in 1..N
        PROVE  e[<<s, n>>] = WithLink(s, raw[n], links)
    <3>1. <<s, n>> \in S \X (1..N) /\ <<s, n>>[1] = s /\ <<s, n>>[2] = n  OBVIOUS
    <3> QED  BY <1>3, <3>1
  <2> QED  BY <1>3, <2>1, <2>2
<1>5. HasRun(N, S, <<>>, e)
  <2>1. <<>> \in S  BY <1>2
  <2>2. e \in [S \X (1..N) -> S]  BY <1>4
  <2> QED  BY <2>1, <2>2, RunsThrough
<1>6. \E u : u = [n \in 0..Len(raw) |->
                    IF n = 0 THEN <<>> ELSE WithLink(u[n - 1], raw[n], links)]
  <2>1. PICK u \in [0..N -> S] : u[0] = <<>> /\ \A n \in 1..N : u[n] = e[<<u[n - 1], n>>]
    BY <1>5 DEF HasRun
  <2>2. ASSUME NEW n \in 0..N
        PROVE  u[n] = IF n = 0 THEN <<>> ELSE WithLink(u[n - 1], raw[n], links)
    <3>1. CASE n = 0  BY <2>1, <3>1
    <3>2. CASE n # 0
      <4>1. n \in 1..N /\ n - 1 \in 0..N  BY <3>2
      <4>2. u[n - 1] \in S  BY <4>1
      <4> QED  BY <1>4, <2>1, <3>2, <4>1, <4>2
    <3> QED  BY <3>1, <3>2
  <2>3. u = [n \in 0..N |-> u[n]]  OBVIOUS
  <2>4. u = [n \in 0..N |-> IF n = 0 THEN <<>> ELSE WithLink(u[n - 1], raw[n], links)]
    BY <2>2, <2>3
  <2> QED  BY <1>1, <2>4
<1>7. \E u : /\ u = [n \in 0..Len(raw) |->
                       IF n = 0 THEN <<>> ELSE WithLink(u[n - 1], raw[n], links)]
             /\ Linking(raw, links) = u[Len(raw)]
  BY <1>6, Zenon DEF Linking
<1>8. PICK u : /\ u = [n \in 0..N |-> IF n = 0 THEN <<>> ELSE WithLink(u[n - 1], raw[n], links)]
               /\ Linking(raw, links) = u[N]
  BY <1>1, <1>7
<1>9. \A n \in 0..N : u[n] = IF n = 0 THEN <<>> ELSE WithLink(u[n - 1], raw[n], links)
  BY <1>8, Zenon
<1> DEFINE T == {n \in 0..N : u[n] \in Seq(Results)}
<1>10. 0 \in T
  <2>1. 0 \in 0..N /\ u[0] = <<>>  BY <1>9
  <2>2. <<>> \in Seq(Results)  OBVIOUS
  <2>3. u[0] \in Seq(Results)  BY <2>1, <2>2, Zenon
  <2> QED  BY <2>1, <2>3, Zenon
<1>11. ASSUME NEW n \in 1..N, n - 1 \in T PROVE n \in T
  <2>1. n \in 0..N /\ n # 0 /\ raw[n] \in Results  BY <1>1
  <2>2. PICK s \in Seq(Results) : s = u[n - 1]  BY <1>11
  <2>3. u[n] = WithLink(s, raw[n], links)  BY <1>9, <2>1, <2>2
  <2>4. Append(s, raw[n]) \in Seq(Results)  BY <2>1
  <2> QED  BY <2>1, <2>3, <2>4 DEF WithLink
<1>12. N \in T
  <2> HIDE DEF T
  <2>1. N \in 0..N  OBVIOUS
  <2> QED  BY <1>10, <1>11, <2>1, UpTheSteps
<1> QED  BY <1>8, <1>12

LEMMA NormalisedIs == \A raw \in RawAnswers : Normalised(raw) \in Seq(Results)
<1> SUFFICES ASSUME NEW raw \in RawAnswers PROVE Normalised(raw) \in Seq(Results)
  OBVIOUS
<1>1. raw \in Seq(Results)  BY InternetAssumption
<1>2. BraveResults(raw) \in Seq(Results)  BY <1>1, LinkingIs DEF BraveResults
<1>3. SearxngResults(raw) \in Seq(Results)
  <2>1. PICK u \in Seq(Results) : u = Linking(raw, {"http"})  BY <1>1, LinkingIs
  <2>2. PICK m \in Nat : m = Least(Len(u), Most) /\ m <= Len(u)
    BY InternetAssumption DEF Least
  <2>3. SubSeq(u, 1, m) \in Seq(Results)
    <3>1. \A i \in 1..m : u[i] \in Results  BY <2>2
    <3>2. SubSeq(u, 1, m) = [i \in 1..m |-> u[i]]  BY <2>2
    <3> QED  BY <3>1, <3>2
  <2> QED  BY <2>1, <2>2, <2>3 DEF SearxngResults
<1>4. \/ Normalised(raw) = SearxngResults(raw)
      \/ Normalised(raw) = BraveResults(raw)
  BY DEF Normalised, DdgsResults
<1> QED  BY <1>2, <1>3, <1>4

(* The invariant: what a search has asked and how often, that an entry of    *)
(* the cache is of its key and expires when its category says, that what was *)
(* given last is as it should be, and where a fetch is with its headers,     *)
(* redirects and requests.                                                   *)
SearchOK(r) ==
  /\ r \in [at : {"idle", "asking", "backing off", "done", "failed"},
            category : Categories \cup {"none"}, key : Keys \cup {"none"},
            attempt : Nat, failure : FailureKinds]
  /\ r.attempt <= IF adapter = "ddgs" THEN 0 ELSE MaxRetries
  /\ r.at \in {"asking", "backing off"} => r.category \in Categories /\ r.key \in Keys
  /\ r.failure = "rate_limit" /\ adapter # "ddgs" => r.attempt = MaxRetries

EntryOK(k, v, today) ==
  /\ k \in Categories \X Keys /\ v.of = k
  /\ v.stored \in Nat /\ v.stored <= today /\ v.expires = v.stored + Ttl[k[1]]
  /\ v.results \in Seq(Results) /\ v.results # <<>>

Serves(v) ==
  /\ v.category # "none" =>
       /\ v.from = <<v.category, v.key>>
       /\ v.age <= Ttl[v.category] /\ v.ranked # <<>>
  /\ BestOf(v.raw, v.ranked)
  /\ v.verdict = "high" => Corroborated(v.raw)

Permitted(a) ==
  a \subseteq ((IF AllowLocalhost THEN {"loopback"} ELSE {})
               \cup (IF AllowPrivate THEN {"private"} ELSE {}) \cup {"v6"})
FetchOK(f) ==
  /\ f \in [at : {"idle", "resolving", "sent", "ok", "failed"},
            home : Hosts \cup {NoHost}, host : Hosts \cup {NoHost}, headers : BOOLEAN,
            redirects : 0..(MaxRedirects + 1), address : Addresses \cup {NoHost},
            carried : BOOLEAN, sent : 0..(MaxRedirects + 1), body : 0..(MaxBody + 1)]
  /\ f.headers => f.host = f.home
  /\ f.at = "sent" /\ f.carried => f.host = f.home
  /\ f.address # NoHost => Permitted(f.address)
  /\ f.at = "resolving" => f.redirects <= MaxRedirects /\ f.sent = f.redirects
  /\ f.at = "sent" => f.redirects <= MaxRedirects /\ f.sent = f.redirects + 1

InternetInv ==
  /\ day \in 0..MaxDay /\ adapter \in Adapters
  /\ DOMAIN search = Searches /\ search = [s \in Searches |-> search[s]]
  /\ \A s \in Searches : SearchOK(search[s])
  /\ \A k \in DOMAIN answers : EntryOK(k, answers[k], day)
  /\ Serves(served) /\ FetchOK(fetch)

LEMMA InternetStart == InternetInit => InternetInv
<1> SUFFICES ASSUME InternetInit PROVE InternetInv
  OBVIOUS
<1>1. day \in 0..MaxDay /\ adapter \in Adapters
  BY InternetAssumption DEF InternetInit
<1>2. \A s \in Searches : SearchOK(search[s])
  <2>1. PICK r : r = [at |-> "idle", category |-> "none", key |-> "none",
                      attempt |-> 0, failure |-> "none"]
    OBVIOUS
  <2>2. r \in [at : {"idle", "asking", "backing off", "done", "failed"},
               category : Categories \cup {"none"}, key : Keys \cup {"none"},
               attempt : Nat, failure : FailureKinds]
    BY <2>1 DEF FailureKinds
  <2>3. SearchOK(r)  BY <2>1, <2>2, InternetAssumption DEF SearchOK
  <2> QED  BY <2>1, <2>3 DEF InternetInit
<1>3. DOMAIN search = Searches /\ search = [s \in Searches |-> search[s]]
  BY DEF InternetInit
<1>4. \A k \in DOMAIN answers : EntryOK(k, answers[k], day)
  BY DEF InternetInit
<1>5. Serves(served)
  <2>1. served.raw = <<>> /\ served.category = "none" /\ served.verdict = "unknown"
    BY DEF InternetInit, NothingServed
  <2>2. ToSet(<<>>) = {}  BY DEF ToSet
  <2> QED  BY <2>1, <2>2 DEF Serves, BestOf
<1>6. FetchOK(fetch)
  BY InternetAssumption DEF InternetInit, NoFetch, FetchOK
<1> QED  BY <1>1, <1>2, <1>3, <1>4, <1>5, <1>6 DEF InternetInv

(* An answer that ranks a list of results, of the query asked and not too    *)
(* old, is as it should be.                                                  *)
LEMMA RankedServes ==
  ASSUME NEW raw \in Seq(Results), raw # <<>>, NEW c, NEW k, NEW age, age <= Ttl[c]
  PROVE  Serves([category |-> c, key |-> k, from |-> <<c, k>>, raw |-> raw,
                 ranked |-> Ranked(raw), verdict |-> Confidence(Ranked(raw)), age |-> age])
<1>1. PICK r : r = Ranked(raw)  OBVIOUS
<1>2. Gives(raw, r)  BY <1>1, RankedGives
<1>3. Confidence(r) = "high" => Corroborated(raw)
  <2> SUFFICES ASSUME Confidence(r) = "high" PROVE Corroborated(raw)
    OBVIOUS
  <2>1. Corroborated(r)  BY <1>2, HighMeans DEF Gives
  <2> QED  BY <1>2, <2>1 DEF Gives, Corroborated
<1>4. PICK v : v = [category |-> c, key |-> k, from |-> <<c, k>>, raw |-> raw,
                    ranked |-> r, verdict |-> Confidence(r), age |-> age]
  OBVIOUS
<1>5. /\ v.category = c /\ v.key = k /\ v.from = <<c, k>> /\ v.raw = raw
      /\ v.ranked = r /\ v.verdict = Confidence(r) /\ v.age = age
  BY <1>4
<1>6. Serves(v)  BY <1>2, <1>3, <1>5 DEF Serves, Gives
<1> QED  BY <1>1, <1>4, <1>6

(* A search is changed, to one that is as it should be.                      *)
LEMMA SearchMoves ==
  ASSUME InternetInv, UNCHANGED adapter, NEW s \in Searches, NEW r, SearchOK(r),
         search' = [search EXCEPT ![s] = r]
  PROVE  /\ DOMAIN search' = Searches /\ search' = [t \in Searches |-> search'[t]]
         /\ \A t \in Searches : SearchOK(search[t])'
<1>1. /\ DOMAIN search = Searches /\ search = [t \in Searches |-> search[t]]
      /\ \A t \in Searches : SearchOK(search[t])
  BY DEF InternetInv
<1>2. \A t \in Searches : search'[t] = IF t = s THEN r ELSE search[t]  BY <1>1
<1>3. DOMAIN search' = Searches /\ search' = [t \in Searches |-> search'[t]]
  BY <1>1
<1>4. ASSUME NEW t \in Searches PROVE SearchOK(search[t])'
  BY <1>1, <1>2 DEF SearchOK
<1> QED  BY <1>3, <1>4

LEMMA SearchesStay ==
  ASSUME InternetInv, UNCHANGED <<adapter, search>>
  PROVE  /\ DOMAIN search' = Searches /\ search' = [t \in Searches |-> search'[t]]
         /\ \A t \in Searches : SearchOK(search[t])'
BY DEF InternetInv, SearchOK

(* Most failures are told whatever was tried; a throttled service only       *)
(* after the last retry.                                                     *)
LEMMA FailuresAre ==
  ASSUME NEW reply \in Replies
  PROVE  /\ Failure(reply) \in FailureKinds
         /\ Failure(reply) = "rate_limit" => reply = "429"
<1>1. /\ SearxngFailure(reply) \in FailureKinds
      /\ SearxngFailure(reply) = "rate_limit" => reply = "429"
  BY DEF SearxngFailure, Replies, FailureKinds
<1>2. /\ BraveFailure(reply) \in FailureKinds
      /\ BraveFailure(reply) = "rate_limit" => reply = "429"
  BY <1>1 DEF BraveFailure, FailureKinds
<1>3. /\ DdgsMapped(reply) \in FailureKinds
      /\ DdgsMapped(reply) = "rate_limit" => reply = "429"
  BY <1>1 DEF DdgsMapped, FailureKinds
<1>4. /\ DdgsFailure(reply) \in FailureKinds
      /\ DdgsFailure(reply) = "rate_limit" => reply = "429"
  BY <1>3 DEF DdgsFailure, FailureKinds
<1> QED  BY <1>1, <1>2, <1>4 DEF Failure

LEMMA SearchKeeps ==
  ASSUME InternetInv, SearchNext
  PROVE  InternetInv'
<1>1. /\ day \in 0..MaxDay /\ day \in Nat /\ adapter \in Adapters
      /\ MaxDay \in Nat /\ MaxRetries \in Nat
      /\ adapter \in {"searxng", "brave", "ddgs"}
  BY InternetAssumption DEF InternetInv
<1>2. /\ \A s \in Searches : SearchOK(search[s])
      /\ \A k \in DOMAIN answers : EntryOK(k, answers[k], day)
      /\ Serves(served) /\ FetchOK(fetch)
  BY DEF InternetInv
<1>3. ASSUME UNCHANGED fetch PROVE FetchOK(fetch)'
  BY <1>2, <1>3 DEF FetchOK, Permitted
<1>4. ASSUME UNCHANGED served PROVE Serves(served)'
  BY <1>2, <1>4 DEF Serves, BestOf, Together, SameResult, Corroborated
<1>5. ASSUME UNCHANGED <<answers, day>>
      PROVE  \A k \in DOMAIN answers' : EntryOK(k, answers[k], day)'
  BY <1>2, <1>5 DEF EntryOK
<1>6. ASSUME NEW s \in Searches, NEW c \in Categories, NEW k \in Keys, SearchHits(s, c, k)
      PROVE  InternetInv'
  <2>1. PICK a : a = answers[<<c, k>>]  OBVIOUS
  <2>2. /\ <<c, k>> \in DOMAIN answers /\ day <= a.expires
        /\ UNCHANGED <<day, adapter, answers, fetch>>
        /\ served' = [category |-> c, key |-> k, from |-> a.of, raw |-> a.results,
                      ranked |-> Ranked(a.results), verdict |-> Confidence(Ranked(a.results)),
                      age |-> day - a.stored]
        /\ search' = [search EXCEPT ![s] = [at |-> "done", category |-> c, key |-> k,
                                            attempt |-> 0, failure |-> "none"]]
    BY <1>6, <2>1 DEF SearchHits, CacheKey, Live
  <2>3. EntryOK(<<c, k>>, a, day)  BY <1>2, <2>1, <2>2
  <2>4. /\ a.of = <<c, k>> /\ a.results \in Seq(Results) /\ a.results # <<>>
        /\ a.stored \in Nat /\ a.expires = a.stored + Ttl[c]
    BY <2>3 DEF EntryOK
  <2>5. Ttl[c] \in Nat  BY InternetAssumption
  <2>6. day - a.stored <= Ttl[c]  BY <1>1, <2>2, <2>4, <2>5
  <2>7. Serves(served')
    <3>1. PICK raw \in Seq(Results) : raw = a.results /\ raw # <<>>  BY <2>4
    <3>2. PICK age : age = day - a.stored /\ age <= Ttl[c]  BY <2>6
    <3>3. Serves([category |-> c, key |-> k, from |-> <<c, k>>, raw |-> raw,
                  ranked |-> Ranked(raw), verdict |-> Confidence(Ranked(raw)), age |-> age])
      BY <3>1, <3>2, RankedServes
    <3> QED  BY <2>2, <2>4, <3>1, <3>2, <3>3
  <2>8. PICK r : r = [at |-> "done", category |-> c, key |-> k, attempt |-> 0, failure |-> "none"]
    OBVIOUS
  <2>9. SearchOK(r)
    <3>1. r \in [at : {"idle", "asking", "backing off", "done", "failed"},
                 category : Categories \cup {"none"}, key : Keys \cup {"none"},
                 attempt : Nat, failure : FailureKinds]
      BY <2>8 DEF FailureKinds
    <3> QED  BY <1>1, <2>8, <3>1 DEF SearchOK
  <2>10. search' = [search EXCEPT ![s] = r] /\ UNCHANGED adapter  BY <2>2, <2>8
  <2>11. /\ DOMAIN search' = Searches /\ search' = [t \in Searches |-> search'[t]]
         /\ \A t \in Searches : SearchOK(search[t])'
    BY <2>9, <2>10, SearchMoves
  <2>12. Serves(served)'
    BY <2>7 DEF Serves, BestOf, Together, SameResult, Corroborated
  <2> QED  BY <1>1, <1>3, <1>5, <2>2, <2>11, <2>12 DEF InternetInv
<1>7. ASSUME NEW s \in Searches, NEW c \in Categories, NEW k \in Keys, SearchMisses(s, c, k)
      PROVE  InternetInv'
  <2>1. /\ UNCHANGED <<day, adapter, served, fetch>>
        /\ answers' = [x \in DOMAIN answers \ {<<c, k>>} |-> answers[x]]
        /\ search' = [search EXCEPT ![s] = [at |-> "asking", category |-> c, key |-> k,
                                            attempt |-> 0, failure |-> "none"]]
    BY <1>7 DEF SearchMisses, CacheKey, Dropped
  <2>2. PICK r : r = [at |-> "asking", category |-> c, key |-> k, attempt |-> 0, failure |-> "none"]
    OBVIOUS
  <2>3. SearchOK(r)
    <3>1. r \in [at : {"idle", "asking", "backing off", "done", "failed"},
                 category : Categories \cup {"none"}, key : Keys \cup {"none"},
                 attempt : Nat, failure : FailureKinds]
      BY <2>2 DEF FailureKinds
    <3> QED  BY <1>1, <2>2, <3>1 DEF SearchOK
  <2>4. search' = [search EXCEPT ![s] = r] /\ UNCHANGED adapter  BY <2>1, <2>2
  <2>5. /\ DOMAIN search' = Searches /\ search' = [t \in Searches |-> search'[t]]
        /\ \A t \in Searches : SearchOK(search[t])'
    BY <2>3, <2>4, SearchMoves
  <2>6. \A x \in DOMAIN answers' : EntryOK(x, answers[x], day)'
    <3>1. \A x \in DOMAIN answers' : x \in DOMAIN answers /\ answers'[x] = answers[x]
      BY <2>1
    <3> QED  BY <1>2, <2>1, <3>1 DEF EntryOK
  <2> QED  BY <1>1, <1>3, <1>4, <2>1, <2>5, <2>6 DEF InternetInv
<1>8. ASSUME NEW s \in Searches, NEW found \in RawAnswers, Answered(s, found)
      PROVE  InternetInv'
  <2>1. PICK r : r = search[s] /\ SearchOK(r)  BY <1>2
  <2>2. PICK raw : raw = Normalised(found)  OBVIOUS
  <2>3. r.at = "asking" /\ raw # <<>>  BY <1>8, <2>1, <2>2 DEF Answered
  <2>4. raw \in Seq(Results)  BY <2>2, NormalisedIs
  <2>5. PICK c \in Categories, k \in Keys : c = r.category /\ k = r.key
    BY <2>1, <2>3 DEF SearchOK
  <2>6. /\ UNCHANGED <<day, adapter, fetch>>
        /\ search' = [search EXCEPT ![s].at = "done"]
        /\ answers' = [x \in DOMAIN answers \cup {<<c, k>>} |->
                         IF x = <<c, k>>
                           THEN [stored |-> day, results |-> Ranked(raw), of |-> <<c, k>>,
                                 expires |-> day + Ttl[<<c, k>>[1]]]
                           ELSE answers[x]]
        /\ served' = [category |-> c, key |-> k, from |-> <<c, k>>, raw |-> raw,
                      ranked |-> Ranked(raw), verdict |-> Confidence(Ranked(raw)), age |-> 0]
    BY <1>8, <2>1, <2>2, <2>5 DEF Answered, CacheKey, Moves, Stored
  <2>7. Ttl[c] \in Nat  BY InternetAssumption
  <2>8. Serves(served')
    <3>1. PICK age : age = 0 /\ age <= Ttl[c]  BY <2>7
    <3>2. Serves([category |-> c, key |-> k, from |-> <<c, k>>, raw |-> raw,
                  ranked |-> Ranked(raw), verdict |-> Confidence(Ranked(raw)), age |-> age])
      BY <2>3, <2>4, <3>1, RankedServes
    <3> QED  BY <2>6, <3>1, <3>2
  <2>9. Serves(served)'
    BY <2>8 DEF Serves, BestOf, Together, SameResult, Corroborated
  <2>10. \A x \in DOMAIN answers' : EntryOK(x, answers[x], day)'
    <3>1. Gives(raw, Ranked(raw))  BY <2>3, <2>4, RankedGives
    <3>2. PICK v : v = [stored |-> day, results |-> Ranked(raw), of |-> <<c, k>>,
                        expires |-> day + Ttl[c]]
      OBVIOUS
    <3>3. EntryOK(<<c, k>>, v, day)
      <4>1. /\ v.stored = day /\ v.results = Ranked(raw) /\ v.of = <<c, k>>
            /\ v.expires = day + Ttl[c]
        BY <3>2
      <4>2. <<c, k>> \in Categories \X Keys /\ <<c, k>>[1] = c  OBVIOUS
      <4> QED  BY <1>1, <3>1, <4>1, <4>2 DEF EntryOK, Gives
    <3>4. ASSUME NEW x \in DOMAIN answers' PROVE EntryOK(x, answers'[x], day)
      <4>1. CASE x = <<c, k>>
        <5>1. answers'[x] = v  BY <2>6, <3>2, <3>4, <4>1
        <5> QED  BY <3>3, <4>1, <5>1
      <4>2. CASE x # <<c, k>>
        <5>1. x \in DOMAIN answers /\ answers'[x] = answers[x]  BY <2>6, <3>4, <4>2
        <5> QED  BY <1>2, <5>1
      <4> QED  BY <4>1, <4>2
    <3> QED  BY <2>6, <3>4 DEF EntryOK
  <2>11. PICK w : w = [r EXCEPT !.at = "done"]  OBVIOUS
  <2>12. SearchOK(w)
    <3>1. /\ w.attempt = r.attempt /\ w.failure = r.failure /\ w.at = "done"
          /\ w \in [at : {"idle", "asking", "backing off", "done", "failed"},
                    category : Categories \cup {"none"}, key : Keys \cup {"none"},
                    attempt : Nat, failure : FailureKinds]
      BY <2>1, <2>11 DEF SearchOK
    <3> QED  BY <2>1, <3>1 DEF SearchOK
  <2>13. search' = [search EXCEPT ![s] = w] /\ UNCHANGED adapter  BY <2>1, <2>6, <2>11
  <2>14. /\ DOMAIN search' = Searches /\ search' = [t \in Searches |-> search'[t]]
         /\ \A t \in Searches : SearchOK(search[t])'
    BY <2>12, <2>13, SearchMoves
  <2> QED  BY <1>1, <1>3, <2>6, <2>9, <2>10, <2>14 DEF InternetInv
<1>9. ASSUME NEW s \in Searches, NEW reply \in Replies, SearchFails(s, reply)
      PROVE  InternetInv'
  <2>1. PICK r : r = search[s] /\ SearchOK(r)  BY <1>2
  <2>2. PICK f : f = Failure(reply)  OBVIOUS
  <2>3. /\ r.at = "asking" /\ ~(Retryable(reply) /\ r.attempt < MaxRetries)
        /\ search' = [search EXCEPT ![s].at = "failed", ![s].failure = f]
        /\ UNCHANGED <<day, adapter, answers, served, fetch>>
    BY <1>9, <2>1, <2>2 DEF SearchFails, Retries
  <2>4. PICK w : w = [r EXCEPT !.at = "failed", !.failure = f]  OBVIOUS
  <2>5. SearchOK(w)
    <3>1. f \in FailureKinds /\ (f = "rate_limit" => reply = "429")  BY <2>2, FailuresAre
    <3>2. /\ w.attempt = r.attempt /\ w.failure = f /\ w.at = "failed"
          /\ w \in [at : {"idle", "asking", "backing off", "done", "failed"},
                    category : Categories \cup {"none"}, key : Keys \cup {"none"},
                    attempt : Nat, failure : FailureKinds]
      BY <2>1, <2>4, <3>1 DEF SearchOK
    <3>3. r.attempt \in Nat /\ r.attempt <= (IF adapter = "ddgs" THEN 0 ELSE MaxRetries)
      BY <2>1 DEF SearchOK
    <3>4. f = "rate_limit" /\ adapter # "ddgs" => r.attempt = MaxRetries
      BY <1>1, <2>3, <3>1, <3>3 DEF Retryable
    <3> QED  BY <3>2, <3>3, <3>4 DEF SearchOK
  <2>6. search' = [search EXCEPT ![s] = w] /\ UNCHANGED adapter
    <3>1. DOMAIN search = Searches /\ search = [t \in Searches |-> search[t]]
      BY DEF InternetInv
    <3> QED  BY <2>1, <2>3, <2>4, <3>1
  <2>7. /\ DOMAIN search' = Searches /\ search' = [t \in Searches |-> search'[t]]
        /\ \A t \in Searches : SearchOK(search[t])'
    BY <2>5, <2>6, SearchMoves
  <2> QED  BY <1>1, <1>3, <1>4, <1>5, <2>3, <2>7 DEF InternetInv
<1>10. ASSUME NEW s \in Searches, NEW reply \in Replies, Throttled(s, reply)
       PROVE  InternetInv'
  <2>1. PICK r : r = search[s] /\ SearchOK(r)  BY <1>2
  <2>2. /\ r.at = "asking" /\ Retryable(reply) /\ r.attempt < MaxRetries
        /\ search' = [search EXCEPT ![s].at = "backing off", ![s].attempt = @ + 1]
        /\ UNCHANGED <<day, adapter, answers, served, fetch>>
    BY <1>10, <2>1 DEF Throttled, Retries
  <2>3. PICK w : w = [r EXCEPT !.at = "backing off", !.attempt = @ + 1]  OBVIOUS
  <2>4. SearchOK(w)
    <3>1. /\ r \in [at : {"idle", "asking", "backing off", "done", "failed"},
                    category : Categories \cup {"none"}, key : Keys \cup {"none"},
                    attempt : Nat, failure : FailureKinds]
          /\ r.category \in Categories /\ r.key \in Keys
          /\ r.failure = "rate_limit" /\ adapter # "ddgs" => r.attempt = MaxRetries
      BY <2>1, <2>2 DEF SearchOK
    <3>2. PICK n \in Nat, c \in Categories, k \in Keys, f \in FailureKinds :
            n = r.attempt /\ c = r.category /\ k = r.key /\ f = r.failure
      BY <3>1
    <3>3. adapter # "ddgs"  BY <2>2 DEF Retryable
    <3>4. n < MaxRetries  BY <2>2, <3>2
    <3>5. n # MaxRetries /\ n + 1 <= MaxRetries /\ n + 1 \in Nat  BY <1>1, <3>4
    <3>6. f # "rate_limit"  BY <3>1, <3>2, <3>3, <3>5
    <3>7. PICK z : z = [at |-> "backing off", category |-> c, key |-> k, attempt |-> n + 1,
                        failure |-> f]
      OBVIOUS
    <3>8. w = z
      <4>1. PICK x : r = [at |-> x, category |-> c, key |-> k, attempt |-> n, failure |-> f]
        <5>1. r = [at |-> r.at, category |-> c, key |-> k, attempt |-> n, failure |-> f]
          BY <2>1, <3>2 DEF SearchOK
        <5> QED  BY <5>1
      <4>2. PICK v : v = [r EXCEPT !.at = "backing off"]  OBVIOUS
      <4>3. v = [at |-> "backing off", category |-> c, key |-> k, attempt |-> n,
                 failure |-> f]
        BY <4>1, <4>2
      <4>4. w = [v EXCEPT !.attempt = n + 1]
        <5>1. r.attempt = n  BY <4>1
        <5> QED  BY <2>3, <4>2, <5>1
      <4>5. PICK m : m = n + 1  OBVIOUS
      <4>6. w = [at |-> "backing off", category |-> c, key |-> k, attempt |-> m,
                 failure |-> f]
        BY <4>3, <4>4, <4>5
      <4> QED  BY <3>7, <4>5, <4>6
    <3>9. SearchOK(z)
      <4>1. z \in [at : {"idle", "asking", "backing off", "done", "failed"},
                    category : Categories \cup {"none"}, key : Keys \cup {"none"},
                    attempt : Nat, failure : FailureKinds]
        BY <3>5, <3>7
      <4>2. z.attempt = n + 1 /\ z.failure = f /\ z.category = c /\ z.key = k  BY <3>7
      <4> QED  BY <3>3, <3>5, <3>6, <4>1, <4>2 DEF SearchOK
    <3> QED  BY <3>8, <3>9
  <2>5. search' = [search EXCEPT ![s] = w] /\ UNCHANGED adapter
    <3>1. DOMAIN search = Searches /\ search = [t \in Searches |-> search[t]]
      BY DEF InternetInv
    <3> QED  BY <2>1, <2>2, <2>3, <3>1
  <2>6. /\ DOMAIN search' = Searches /\ search' = [t \in Searches |-> search'[t]]
        /\ \A t \in Searches : SearchOK(search[t])'
    BY <2>4, <2>5, SearchMoves
  <2> QED  BY <1>1, <1>3, <1>4, <1>5, <2>2, <2>6 DEF InternetInv
<1>11. ASSUME NEW s \in Searches, AsksAgain(s) PROVE InternetInv'
  <2>1. PICK r : r = search[s] /\ SearchOK(r)  BY <1>2
  <2>2. /\ r.at = "backing off" /\ search' = [search EXCEPT ![s].at = "asking"]
        /\ UNCHANGED <<day, adapter, answers, served, fetch>>
    BY <1>11, <2>1 DEF AsksAgain, Moves
  <2>3. PICK w : w = [r EXCEPT !.at = "asking"]  OBVIOUS
  <2>4. SearchOK(w)
    <3>1. /\ w.attempt = r.attempt /\ w.failure = r.failure /\ w.at = "asking"
          /\ w.category = r.category /\ w.key = r.key
          /\ w \in [at : {"idle", "asking", "backing off", "done", "failed"},
                    category : Categories \cup {"none"}, key : Keys \cup {"none"},
                    attempt : Nat, failure : FailureKinds]
      BY <2>1, <2>3 DEF SearchOK
    <3> QED  BY <2>1, <2>2, <3>1 DEF SearchOK
  <2>5. search' = [search EXCEPT ![s] = w] /\ UNCHANGED adapter  BY <2>1, <2>2, <2>3
  <2>6. /\ DOMAIN search' = Searches /\ search' = [t \in Searches |-> search'[t]]
        /\ \A t \in Searches : SearchOK(search[t])'
    BY <2>4, <2>5, SearchMoves
  <2> QED  BY <1>1, <1>3, <1>4, <1>5, <2>2, <2>6 DEF InternetInv
<1>12. CASE DayPasses
  <2>1. /\ day' = day + 1 /\ day < MaxDay
        /\ UNCHANGED <<adapter, search, answers, served, fetch>>
    BY <1>12 DEF DayPasses, searchVars
  <2>2. \A k \in DOMAIN answers' : EntryOK(k, answers[k], day)'
    <3>1. ASSUME NEW k \in DOMAIN answers PROVE EntryOK(k, answers[k], day + 1)
      BY <1>1, <1>2 DEF EntryOK
    <3> QED  BY <2>1, <3>1 DEF EntryOK
  <2>3. /\ DOMAIN search' = Searches /\ search' = [t \in Searches |-> search'[t]]
        /\ \A t \in Searches : SearchOK(search[t])'
    BY <2>1, SearchesStay
  <2> QED  BY <1>1, <1>3, <1>4, <2>1, <2>2, <2>3 DEF InternetInv
<1> QED  BY <1>6, <1>7, <1>8, <1>9, <1>10, <1>11, <1>12 DEF SearchNext

(* The address a request goes to is one of those resolved, and each of them  *)
(* was allowed.                                                              *)
LEMMA AllowedIsPermitted ==
  ASSUME NEW found \in Resolutions, ResolvesAllowed(found)
  PROVE  \E to \in Addresses : to = found[1] /\ Permitted(to)
<1>1. PICK n \in 1..2 : found \in [1..n -> Addresses]
  BY DEF Resolutions, ResolvesAllowed
<1>2. Len(found) = n  BY <1>1
<1>3. 1 \in 1..n  BY <1>1
<1>4. found[1] \in Addresses /\ AddressAllowed(found[1])
  BY <1>1, <1>2, <1>3 DEF ResolvesAllowed
<1>5. Permitted(found[1])
  <2> SUFFICES ASSUME NEW x \in found[1]
               PROVE  x \in (IF AllowLocalhost THEN {"loopback"} ELSE {})
                            \cup (IF AllowPrivate THEN {"private"} ELSE {}) \cup {"v6"}
    BY DEF Permitted
  <2>1. x \in {"loopback", "private", "v6"}  BY <1>4 DEF AddressAllowed
  <2> QED  BY <1>4, <2>1 DEF AddressAllowed
<1> QED  BY <1>4, <1>5

(* The fetcher resolves before every hop, and the headers and the counts go  *)
(* with the hop; nothing of the searches changes.                            *)
LEMMA FetchKeeps ==
  ASSUME InternetInv, FetchNext
  PROVE  InternetInv'
<1>1. /\ MaxRedirects \in Nat /\ MaxBody \in Nat
      /\ \A x \in Addresses : x # NoHost => x \subseteq Attributes
  BY InternetAssumption
<1>2. /\ \A s \in Searches : SearchOK(search[s])
      /\ \A k \in DOMAIN answers : EntryOK(k, answers[k], day)
      /\ Serves(served) /\ FetchOK(fetch)
  BY DEF InternetInv
<1>3. ASSUME UNCHANGED <<day, searchVars>>, FetchOK(fetch') PROVE InternetInv'
  <2>1. UNCHANGED <<day, adapter, search, answers, served>>  BY <1>3 DEF searchVars
  <2>2. FetchOK(fetch)'  BY <1>3 DEF FetchOK, Permitted
  <2>3. Serves(served)'
    BY <1>2, <2>1 DEF Serves, BestOf, Together, SameResult, Corroborated
  <2>4. \A k \in DOMAIN answers' : EntryOK(k, answers[k], day)'  BY <1>2, <2>1 DEF EntryOK
  <2>5. /\ DOMAIN search' = Searches /\ search' = [t \in Searches |-> search'[t]]
        /\ \A t \in Searches : SearchOK(search[t])'
    BY <2>1, SearchesStay
  <2>6. day' \in 0..MaxDay /\ adapter' \in Adapters  BY <2>1 DEF InternetInv
  <2> QED  BY <2>2, <2>3, <2>4, <2>5, <2>6 DEF InternetInv
<1>4. PICK f : f = fetch /\ FetchOK(f)  BY <1>2
<1>5. PICK a, home, host, headers, redirects, address, borne, sent, body :
        f = [at |-> a, home |-> home, host |-> host, headers |-> headers,
             redirects |-> redirects, address |-> address, carried |-> borne,
             sent |-> sent, body |-> body]
  <2>1. f = [at |-> f.at, home |-> f.home, host |-> f.host, headers |-> f.headers,
             redirects |-> f.redirects, address |-> f.address, carried |-> f.carried,
             sent |-> f.sent, body |-> f.body]
    BY <1>4 DEF FetchOK
  <2> QED  BY <2>1
<1>6. /\ home \in Hosts \cup {NoHost} /\ host \in Hosts \cup {NoHost} /\ headers \in BOOLEAN
      /\ redirects \in 0..(MaxRedirects + 1) /\ address \in Addresses \cup {NoHost}
      /\ borne \in BOOLEAN /\ sent \in 0..(MaxRedirects + 1) /\ body \in 0..(MaxBody + 1)
      /\ headers => host = home
      /\ address # NoHost => Permitted(address)
      /\ a = "resolving" => redirects <= MaxRedirects /\ sent = redirects
      /\ a = "sent" => redirects <= MaxRedirects /\ sent = redirects + 1
      /\ a = "sent" /\ borne => host = home
  BY <1>4, <1>5 DEF FetchOK
<1>7. ASSUME NEW h \in Hosts, NEW theirs \in BOOLEAN, NEW url, NEW found \in Resolutions,
             Fetches(h, theirs, url, found)
      PROVE  InternetInv'
  <2>1. PICK g : g = [at |-> "resolving", home |-> h, host |-> h, headers |-> theirs,
                      redirects |-> 0, address |-> NoHost, carried |-> FALSE, sent |-> 0,
                      body |-> 0]
    OBVIOUS
  <2>2. fetch' = g /\ UNCHANGED <<day, searchVars>>
    <3>0. PICK no, ok : no = FALSE /\ ok = theirs  OBVIOUS
    <3>1. PICK f1 : f1 = [NoFetch EXCEPT !.at = "resolving"]  OBVIOUS
    <3>2. PICK f2 : f2 = [f1 EXCEPT !.home = h]  OBVIOUS
    <3>3. PICK f3 : f3 = [f2 EXCEPT !.host = h]  OBVIOUS
    <3>4. fetch' = [f3 EXCEPT !.headers = ok] /\ UNCHANGED <<day, searchVars>>
      BY <1>7, <3>0, <3>1, <3>2, <3>3 DEF Fetches
    <3>5. f1 = [at |-> "resolving", home |-> NoHost, host |-> NoHost, headers |-> no,
                redirects |-> 0, address |-> NoHost, carried |-> FALSE, sent |-> 0,
                body |-> 0]
      BY <3>0, <3>1 DEF NoFetch
    <3>6. f2 = [at |-> "resolving", home |-> h, host |-> NoHost, headers |-> no,
                redirects |-> 0, address |-> NoHost, carried |-> FALSE, sent |-> 0,
                body |-> 0]
      BY <3>2, <3>5
    <3>7. f3 = [at |-> "resolving", home |-> h, host |-> h, headers |-> no,
                redirects |-> 0, address |-> NoHost, carried |-> FALSE, sent |-> 0,
                body |-> 0]
      BY <3>3, <3>6
    <3>8. fetch' = [at |-> "resolving", home |-> h, host |-> h, headers |-> ok,
                    redirects |-> 0, address |-> NoHost, carried |-> FALSE, sent |-> 0,
                    body |-> 0]
      BY <3>4, <3>7
    <3> QED  BY <2>1, <3>0, <3>4, <3>8
  <2>3. FetchOK(g)  BY <1>1, <2>1 DEF FetchOK
  <2> QED  BY <1>3, <2>2, <2>3
<1>8. ASSUME NEW found \in Resolutions, Connects(found) PROVE InternetInv'
  <2>1. /\ f.at = "resolving" /\ UNCHANGED <<day, searchVars>>
        /\ fetch' = IF ResolvesAllowed(found)
                    THEN [f EXCEPT !.at = "sent", !.address = found[1], !.carried = f.headers,
                                   !.sent = @ + 1]
                    ELSE [f EXCEPT !.at = "failed"]
    BY <1>4, <1>8 DEF Connects
  <2>2. /\ a = "resolving" /\ f.headers = headers /\ f.sent = sent  BY <1>5, <2>1
  <2>3. CASE ResolvesAllowed(found)
    <3>1. PICK to \in Addresses : to = found[1] /\ Permitted(to)
      BY <2>3, AllowedIsPermitted
    <3>2. PICK g : g = [at |-> "sent", home |-> home, host |-> host, headers |-> headers,
                        redirects |-> redirects, address |-> to, carried |-> headers,
                        sent |-> sent + 1, body |-> body]
      OBVIOUS
    <3>3. fetch' = g
      <4>1. fetch' = [f EXCEPT !.at = "sent", !.address = to, !.carried = headers,
                               !.sent = sent + 1]
        BY <2>1, <2>2, <2>3, <3>1
      <4>2. PICK f1 : f1 = [f EXCEPT !.at = "sent"]  OBVIOUS
      <4>3. PICK f2 : f2 = [f1 EXCEPT !.address = to]  OBVIOUS
      <4>4. PICK f3 : f3 = [f2 EXCEPT !.carried = headers]  OBVIOUS
      <4>5. fetch' = [f3 EXCEPT !.sent = sent + 1]  BY <4>1, <4>2, <4>3, <4>4
      <4>6. f1 = [at |-> "sent", home |-> home, host |-> host, headers |-> headers,
                  redirects |-> redirects, address |-> address, carried |-> borne,
                  sent |-> sent, body |-> body]
        BY <4>2, <1>5
      <4>7. f2 = [at |-> "sent", home |-> home, host |-> host, headers |-> headers,
                  redirects |-> redirects, address |-> to, carried |-> borne,
                  sent |-> sent, body |-> body]
        BY <4>3, <4>6
      <4>8. f3 = [at |-> "sent", home |-> home, host |-> host, headers |-> headers,
                  redirects |-> redirects, address |-> to, carried |-> headers,
                  sent |-> sent, body |-> body]
        BY <4>4, <4>7
      <4> QED  BY <3>2, <4>5, <4>8
    <3>4. sent + 1 \in 0..(MaxRedirects + 1) /\ redirects <= MaxRedirects /\ sent = redirects
      BY <1>1, <1>6, <2>2
    <3>5. FetchOK(g)  BY <1>6, <3>1, <3>2, <3>4 DEF FetchOK
    <3> QED  BY <1>3, <2>1, <3>3, <3>5
  <2>4. CASE ~ResolvesAllowed(found)
    <3>1. PICK g : g = [at |-> "failed", home |-> home, host |-> host, headers |-> headers,
                        redirects |-> redirects, address |-> address, carried |-> borne,
                        sent |-> sent, body |-> body]
      OBVIOUS
    <3>2. fetch' = g  BY <1>5, <2>1, <2>4, <3>1
    <3>3. FetchOK(g)  BY <1>6, <3>1 DEF FetchOK
    <3> QED  BY <1>3, <2>1, <3>2, <3>3
  <2> QED  BY <2>3, <2>4
<1>9. ASSUME NEW next \in Hosts, NEW valid \in BOOLEAN, NEW found \in Resolutions,
             Redirected(next, valid, found)
      PROVE  InternetInv'
  <2>1. PICK on \in BOOLEAN, back \in BOOLEAN :
          /\ on <=> (~TooMany /\ valid /\ ResolvesAllowed(found))
          /\ back <=> HeadersFor(next)
    OBVIOUS
  <2>2. /\ f.at = "sent" /\ UNCHANGED <<day, searchVars>>
        /\ fetch' = IF on
                    THEN [f EXCEPT !.at = "resolving", !.host = next, !.redirects = @ + 1,
                                   !.headers = HeadersFor(next)]
                    ELSE [f EXCEPT !.at = "failed", !.redirects = @ + 1]
    BY <1>4, <1>9, <2>1 DEF Redirected
  <2>3. /\ a = "sent" /\ f.redirects = redirects /\ f.headers = headers /\ f.home = home
    BY <1>5, <2>2
  <2>4. CASE on
    <3>1. redirects + 1 <= MaxRedirects /\ redirects \in Nat
      BY <1>1, <1>4, <1>6, <2>1, <2>3, <2>4 DEF TooMany
    <3>2. HeadersFor(next) = (headers /\ next = home)  BY <1>4, <2>3 DEF HeadersFor
    <3>3. PICK g : g = [at |-> "resolving", home |-> home, host |-> next,
                        headers |-> (headers /\ next = home), redirects |-> redirects + 1,
                        address |-> address, carried |-> borne, sent |-> sent, body |-> body]
      OBVIOUS
    <3>4. fetch' = g
      <4>1. fetch' = [f EXCEPT !.at = "resolving", !.host = next, !.redirects = redirects + 1,
                               !.headers = (headers /\ next = home)]
        BY <2>2, <2>3, <2>4, <3>2
      <4>2. PICK f1 : f1 = [f EXCEPT !.at = "resolving"]  OBVIOUS
      <4>3. PICK f2 : f2 = [f1 EXCEPT !.host = next]  OBVIOUS
      <4>4. PICK f3 : f3 = [f2 EXCEPT !.redirects = redirects + 1]  OBVIOUS
      <4>5. fetch' = [f3 EXCEPT !.headers = (headers /\ next = home)]  BY <4>1, <4>2, <4>3, <4>4
      <4>6. f1 = [at |-> "resolving", home |-> home, host |-> host,
                  headers |-> headers, redirects |-> redirects, address |-> address,
                  carried |-> borne, sent |-> sent, body |-> body]
        BY <4>2, <1>5
      <4>7. f2 = [at |-> "resolving", home |-> home, host |-> next,
                  headers |-> headers, redirects |-> redirects, address |-> address,
                  carried |-> borne, sent |-> sent, body |-> body]
        BY <4>3, <4>6
      <4>8. f3 = [at |-> "resolving", home |-> home, host |-> next,
                  headers |-> headers, redirects |-> redirects + 1,
                  address |-> address, carried |-> borne, sent |-> sent,
                  body |-> body]
        BY <4>4, <4>7
      <4> QED  BY <3>3, <4>5, <4>8
    <3>5. /\ sent = redirects + 1 /\ redirects + 1 \in 0..(MaxRedirects + 1)
      BY <1>1, <1>6, <2>3, <3>1
    <3>6. FetchOK(g)  BY <1>6, <3>1, <3>3, <3>5 DEF FetchOK
    <3> QED  BY <1>3, <2>2, <3>4, <3>6
  <2>5. CASE ~on
    <3>1. PICK g : g = [at |-> "failed", home |-> home, host |-> host, headers |-> headers,
                        redirects |-> redirects + 1, address |-> address, carried |-> borne,
                        sent |-> sent, body |-> body]
      OBVIOUS
    <3>2. fetch' = g
      <4>1. fetch' = [f EXCEPT !.at = "failed", !.redirects = redirects + 1]
        BY <2>2, <2>3, <2>5
      <4>2. PICK f1 : f1 = [f EXCEPT !.at = "failed"]  OBVIOUS
      <4>3. fetch' = [f1 EXCEPT !.redirects = redirects + 1]  BY <4>1, <4>2
      <4>4. f1 = [at |-> "failed", home |-> home, host |-> host, headers |-> headers,
                  redirects |-> redirects, address |-> address, carried |-> borne,
                  sent |-> sent, body |-> body]
        BY <4>2, <1>5
      <4> QED  BY <3>1, <4>3, <4>4
    <3>3. redirects + 1 \in 0..(MaxRedirects + 1)  BY <1>1, <1>6, <2>3
    <3>4. FetchOK(g)  BY <1>6, <3>1, <3>3 DEF FetchOK
    <3> QED  BY <1>3, <2>2, <3>2, <3>4
  <2> QED  BY <2>4, <2>5
<1>10. ASSUME NEW size \in 0..MaxBody + 2, NEW supported \in BOOLEAN, Arrives(size, supported)
       PROVE  InternetInv'
  <2>1. PICK n : n = ReadBounded(size) /\ n \in 0..(MaxBody + 1)
    BY <1>1 DEF ReadBounded
  <2>2. PICK z : z = (IF supported THEN "ok" ELSE "failed")  OBVIOUS
  <2>3. PICK g : g = [at |-> z, home |-> home, host |-> host, headers |-> headers,
                      redirects |-> redirects, address |-> address, carried |-> borne,
                      sent |-> sent, body |-> n]
    OBVIOUS
  <2>4. /\ fetch' = [f EXCEPT !.at = z, !.body = n] /\ UNCHANGED <<day, searchVars>>
    BY <1>4, <1>10, <2>1, <2>2 DEF Arrives
  <2>5. fetch' = g
    <3>1. PICK f1 : f1 = [f EXCEPT !.at = z]  OBVIOUS
    <3>2. fetch' = [f1 EXCEPT !.body = n]  BY <2>4, <3>1
    <3>3. f1 = [at |-> z, home |-> home, host |-> host, headers |-> headers,
                redirects |-> redirects, address |-> address, carried |-> borne,
                sent |-> sent, body |-> body]
      BY <1>5, <3>1
    <3> QED  BY <2>3, <3>2, <3>3
  <2>6. z \in {"ok", "failed"} /\ z # "resolving" /\ z # "sent"  BY <2>2
  <2>7. FetchOK(g)  BY <1>6, <2>1, <2>3, <2>6 DEF FetchOK
  <2> QED  BY <1>3, <2>4, <2>5, <2>7
<1>11. CASE FetchFails
  <2>1. PICK g : g = [at |-> "failed", home |-> home, host |-> host, headers |-> headers,
                      redirects |-> redirects, address |-> address, carried |-> borne,
                      sent |-> sent, body |-> body]
    OBVIOUS
  <2>2. /\ fetch' = [f EXCEPT !.at = "failed"] /\ UNCHANGED <<day, searchVars>>
    BY <1>4, <1>11 DEF FetchFails
  <2>3. fetch' = g  BY <1>5, <2>1, <2>2
  <2>4. FetchOK(g)  BY <1>6, <2>1 DEF FetchOK
  <2> QED  BY <1>3, <2>2, <2>3, <2>4
<1> QED  BY <1>7, <1>8, <1>9, <1>10, <1>11 DEF FetchNext

(* The invariant holds what the run checks.                                  *)
LEMMA InternetIsEnough == InternetInv => InternetSafe
<1> SUFFICES ASSUME InternetInv PROVE InternetSafe
  OBVIOUS
<1>1. /\ \A s \in Searches : SearchOK(search[s])
      /\ \A k \in DOMAIN answers : EntryOK(k, answers[k], day)
      /\ Serves(served) /\ FetchOK(fetch) /\ day \in 0..MaxDay
  BY DEF InternetInv
<1>2. ASSUME NEW s \in Searches
      PROVE  /\ search[s].at \in {"idle", "asking", "backing off", "done", "failed"}
             /\ search[s].attempt \in 0..(IF adapter = "ddgs" THEN 0 ELSE MaxRetries)
             /\ search[s].failure \in FailureKinds
             /\ search[s].failure = "rate_limit" /\ adapter # "ddgs"
                  => search[s].attempt = MaxRetries
  <2>1. PICK r : r = search[s] /\ SearchOK(r)  BY <1>1
  <2>2. PICK most \in Nat : most = IF adapter = "ddgs" THEN 0 ELSE MaxRetries
    BY InternetAssumption
  <2>3. /\ r.at \in {"idle", "asking", "backing off", "done", "failed"}
        /\ r.attempt \in Nat /\ r.attempt <= most /\ r.failure \in FailureKinds
        /\ r.failure = "rate_limit" /\ adapter # "ddgs" => r.attempt = MaxRetries
    BY <2>1, <2>2 DEF SearchOK
  <2>4. r.attempt \in 0..most
    <3>1. PICK n \in Nat : n = r.attempt /\ n <= most  BY <2>3
    <3>2. n \in 0..most  BY <3>1
    <3> QED  BY <3>1, <3>2
  <2> QED  BY <2>1, <2>2, <2>3, <2>4
<1>3. ASSUME NEW k \in DOMAIN answers
      PROVE  answers[k].expires >= answers[k].stored /\ answers[k].results # <<>>
  <2>1. EntryOK(k, answers[k], day)  BY <1>1
  <2>2. PICK v : v = answers[k]  OBVIOUS
  <2>3. k[1] \in Categories  BY <2>1 DEF EntryOK
  <2>4. Ttl[k[1]] \in Nat  BY <2>3, InternetAssumption
  <2>5. v.stored \in Nat /\ v.expires = v.stored + Ttl[k[1]] /\ v.results # <<>>
    BY <2>1, <2>2 DEF EntryOK
  <2>6. v.expires >= v.stored  BY <2>4, <2>5
  <2> QED  BY <2>2, <2>5, <2>6
<1>4. /\ fetch.at \in {"idle", "resolving", "sent", "ok", "failed"}
      /\ fetch.redirects \in 0..MaxRedirects + 1 /\ fetch.body \in 0..MaxBody + 1
      /\ fetch.sent <= MaxRedirects + 1
  BY <1>1, InternetAssumption DEF FetchOK
<1>5. InternetTypeOK  BY <1>1, <1>2, <1>3, <1>4 DEF InternetTypeOK
<1>6. StaysOutside  BY <1>1 DEF FetchOK, Permitted, StaysOutside
<1>7. HeadersStayHome  BY <1>1 DEF FetchOK, HeadersStayHome
<1>8. RedirectsBounded  BY <1>4 DEF RedirectsBounded
<1>9. ServedIsCurrent  BY <1>1 DEF Serves, ServedIsCurrent
<1>10. BestSurvive  BY <1>1 DEF Serves, BestOf, BestSurvive
<1>11. HighIsCorroborated  BY <1>1 DEF Serves, Corroborated, HighIsCorroborated
<1>12. GivesUpLast  BY <1>2 DEF GivesUpLast
<1> QED  BY <1>5, <1>6, <1>7, <1>8, <1>9, <1>10, <1>11, <1>12 DEF InternetSafe

InternetSpec == InternetInit /\ [][SearchNext \/ FetchNext]_internetVars

(* Whatever the providers and the name service answer, and however the       *)
(* searches and the fetch overlap, every entry of the answer cache           *)
(* (SearchCache.put) is of its own key and expires when its category says,   *)
(* every answer given is the ranking of what it was made from                *)
(* (ResultRanker.rank), and a fetch (ContentFetcher.fetch) has sent one      *)
(* request for every hop, to a permitted address.                            *)
THEOREM InternetInvariance == InternetSpec => []InternetInv
<1>1. InternetInit => InternetInv
  BY InternetStart
<1>2. InternetInv /\ [SearchNext \/ FetchNext]_internetVars => InternetInv'
  <2> SUFFICES ASSUME InternetInv, [SearchNext \/ FetchNext]_internetVars PROVE InternetInv'
    OBVIOUS
  <2>1. CASE SearchNext  BY <2>1, SearchKeeps
  <2>2. CASE FetchNext  BY <2>2, FetchKeeps
  <2>3. CASE UNCHANGED internetVars
    <3>1. UNCHANGED <<day, adapter, search, answers, served, fetch>>
      BY <2>3 DEF internetVars, searchVars
    <3>2. FetchOK(fetch)'  BY <3>1 DEF InternetInv, FetchOK, Permitted
    <3>3. Serves(served)'
      BY <3>1 DEF InternetInv, Serves, BestOf, Together, SameResult, Corroborated
    <3>4. \A k \in DOMAIN answers' : EntryOK(k, answers[k], day)'
      BY <3>1 DEF InternetInv, EntryOK
    <3>5. /\ DOMAIN search' = Searches /\ search' = [t \in Searches |-> search'[t]]
          /\ \A t \in Searches : SearchOK(search[t])'
      BY <3>1, SearchesStay
    <3>6. day' \in 0..MaxDay /\ adapter' \in Adapters  BY <3>1 DEF InternetInv
    <3> QED  BY <3>2, <3>3, <3>4, <3>5, <3>6 DEF InternetInv
  <2> QED  BY <2>1, <2>2, <2>3
<1> QED  BY <1>1, <1>2, PTL DEF InternetSpec

(* A fetch never reaches an inner address nor carries the caller's headers   *)
(* to another host (ContentFetcher._resolve_public_address, fetch), a search *)
(* gives up last (the adapters' search), and what is served is current, the  *)
(* best of its duplicates and as corroborated as it claims                   *)
(* (SearchVerifier.verify), for any answers, policy and limits.              *)
THEOREM InternetIsSafe == InternetSpec => []InternetSafe
BY InternetInvariance, InternetIsEnough, PTL
==============================================================================

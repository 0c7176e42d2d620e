----------------------------- MODULE MCMachine ------------------------------
(* What the program keeps on the machine it runs on: its checkpoints, the   *)
(* start of its processes, its setup, the files it manages and the          *)
(* documents it writes and reads.  They share no state, so a behaviour runs *)
(* one of them.                                                             *)
EXTENDS CheckpointStore, ProcessStart, ProductSetup, LocalFiles, Documents, TLC

CONSTANTS e1, e2,   \* executions with a checkpoint
          p1, p2,   \* processes
          k1, k2    \* secrets

Symmetry == Permutations(Ids)   \* only the checkpoints know of them

VARIABLE part   \* the component that runs

allVars == <<part, vars, startVars, setupVars, filesVars, documentVars>>

(* A workspace with a place for a file or a directory, one that may hold   *)
(* a name like that of a protected key, a directory with that key in it,   *)
(* and what lies outside and a link may point to.                          *)
MCRoot == <<"ws">>
MCProtected == {<<"ws", "d", "k">>}
MCLinkTargets == {<<"out">>, <<"out", "x">>}
MCTree ==
  {MCRoot, <<"ws", "a">>, <<"ws", "a", "x">>, <<"ws", "a", "k">>,
           <<"ws", "d">>, <<"ws", "d", "x">>} \cup MCProtected \cup MCLinkTargets

(* Only d may hold more than MaxFiles at first.                             *)
StartsSmall == files[<<"ws", "a", "x">>] = Absent \/ files[<<"ws", "a", "k">>] = Absent

(* A component that does not run has one initial state.                    *)
NoFilesYet == [p \in Tree |-> IF ~InScope(p) THEN OutsideNode(p) ELSE IF p = Root THEN Dir ELSE Absent]
MachineInit ==
  /\ part \in {"checkpoints", "start", "setup", "files", "writer", "reader"}
  /\ Init /\ DocumentsInit
  /\ StartInit
  /\ part # "start" => /\ place = [windows |-> FALSE, canonical |-> TRUE, generic |-> TRUE]
                       /\ ~keyFile.there /\ boot.file = "none"
  /\ SetupInit
  /\ part # "setup" => settings = NoFile
  /\ IF part = "files" THEN FilesInit /\ StartsSmall
     ELSE files = NoFilesYet /\ prior = files /\ op = NoOp /\ said = Unseen

MachineNext ==
  \/ /\ part = "checkpoints" /\ Next
     /\ UNCHANGED <<part, startVars, setupVars, filesVars, documentVars>>
  \/ /\ part = "start" /\ StartNext
     /\ UNCHANGED <<part, vars, setupVars, filesVars, documentVars>>
  \/ /\ part = "setup" /\ SetupNext
     /\ UNCHANGED <<part, vars, startVars, filesVars, documentVars>>
  \/ /\ part = "files" /\ FilesNext
     /\ UNCHANGED <<part, vars, startVars, setupVars, documentVars>>
  \/ /\ part = "writer" /\ WriterNext
     /\ UNCHANGED <<part, vars, startVars, setupVars, filesVars>>
  \/ /\ part = "reader" /\ ReaderNext
     /\ UNCHANGED <<part, vars, startVars, setupVars, filesVars>>

MachineSpec == MachineInit /\ [][MachineNext]_allVars
=============================================================================

----------------------------- MODULE LocalFiles -----------------------------
(***************************************************************************)
(* The file tools: what ToolSecurityEnforcer lets a path-bearing tool      *)
(* touch, and what FileSystemTool then does to the tree.                   *)
(*                                                                         *)
(* A path is a sequence of names; a node is a file with a text, a          *)
(* directory or a link.  FileSystemTool.run checks and acts without        *)
(* yielding, so an operation is one step, taken from any tree a user may   *)
(* have, the trees that earlier operations left included.                  *)
(***************************************************************************)
EXTENDS Integers, SequencesExt, FiniteSetsExt

CONSTANTS Tree,         \* the paths that exist in this world, prefix closed
          Root,         \* the allowed root
          Protected,    \* protected_paths
          LinkTargets,  \* where a link may point
          Texts,        \* texts of readable size
          Big,          \* a text over max_read_bytes
          OutsideText,  \* what the file outside the root says
          Torn,         \* what a failed write leaves
          MaxFiles      \* max_files_per_operation

VARIABLES files,    \* the tree
          prior,    \* the tree before the last operation
          op,       \* the last operation and its arguments
          said      \* the text a read returned

filesVars == <<files, prior, op, said>>

Absent == [kind |-> "none"]
Dir == [kind |-> "dir"]
File(t) == [kind |-> "file", text |-> t]
Link(p) == [kind |-> "link", to |-> p]

AllTexts == Texts \cup {Big, OutsideText, Torn}
Node(p) == IF p \in Tree THEN files[p] ELSE Absent
Is(p, kind) == Node(p).kind = kind
Exists(p) == ~Is(p, "none")
Ancestors(p) == {SubSeq(p, 1, n) : n \in 1..(Len(p) - 1)}
Under(p) == {q \in Tree : IsPrefix(p, q) /\ Exists(q)}
Below(p) == Under(p) \ {p}
Unseen == "nothing"
InScope(p) == IsPrefix(Root, p)

(* What exists hangs together; the links that matter lead out of the root  *)
(* (one that stays within it is a second name of a path open to the user   *)
(* anyway), and the text outside is recognised wherever it is seen.        *)
ASSUME FilesAssumption ==
  /\ Tree \subseteq Seq(STRING) \ {<<>>} /\ Root \in Tree /\ Protected \subseteq Seq(STRING)
  /\ \A p \in Tree : Ancestors(p) \subseteq Tree
  /\ LinkTargets \subseteq {p \in Tree : ~InScope(p)}
  /\ OutsideText \notin Texts \cup {Big, Torn, Unseen}

(* _canonical: every component that is a link is followed.                 *)
Canonical(p) ==
  LET entered[n \in 0..Len(p)] ==
        IF n = 0 THEN <<>>
        ELSE LET r == Append(entered[n - 1], p[n])
             IN  IF Is(r, "link") THEN Node(r).to ELSE r
  IN  entered[Len(p)]

IsProtected(p) == \E q \in Protected : IsPrefix(q, p)
PermittedScope(p) == InScope(Canonical(p))
Permitted(p) == InScope(Canonical(p)) /\ ~IsProtected(Canonical(p))

WithoutParents(f, p) == f
WithParents(f, p) == [q \in Tree |-> IF q \in Ancestors(p) /\ f[q] = Absent THEN Dir ELSE f[q]]
CanHold(p) == \A q \in Ancestors(p) : Is(q, "dir") \/ Is(q, "none")

UserNodes == {Absent, Dir} \cup {File(t) : t \in Texts \cup {Big}} \cup {Link(q) : q \in LinkTargets}
OutsideNode(p) == IF Len(p) = 1 THEN Dir ELSE File(OutsideText)
WellFormed(f) ==
  \A p \in Tree : f[p] # Absent => \A q \in Ancestors(p) : f[q] = Dir
NoOp == [do |-> "none", target |-> <<>>, dest |-> <<>>, overwrite |-> FALSE]

FilesInit ==
  /\ \E mine \in [{p \in Tree : InScope(p) /\ p # Root} -> UserNodes] :
       files = [p \in Tree |-> IF p = Root THEN Dir
                               ELSE IF InScope(p) THEN mine[p] ELSE OutsideNode(p)]
  /\ WellFormed(files)
  /\ prior = files /\ op = NoOp /\ said = Unseen

---------------------------------------------------------------------------
(* The enforcer.                                                           *)

(* _validate_filesystem for one path, by kind of action.                   *)
MayTouch(do, p) ==
  /\ Permitted(p)
  /\ do \in {"delete", "move"} => Canonical(p) # Root
  /\ do = "read" => Node(Canonical(p)) # File(Big)

(* An existing target or destination needs the caller's overwrite.         *)
MayReplaceFile(p, overwrite) == Is(Canonical(p), "file") => overwrite
MayReplace(p, overwrite) == Exists(Canonical(p)) => overwrite

(* _enforce_tree_limit: nothing in the tree is too large, too much, or a   *)
(* way out of the permitted scope.                                         *)
TreeOKShallow(p) ==
  IF Is(p, "dir") THEN Cardinality(Below(p)) <= MaxFiles
  ELSE Node(p) # File(Big)
TreeOK(p) ==
  IF Is(p, "dir")
    THEN /\ Cardinality(Below(p)) <= MaxFiles
         /\ \A q \in Below(p) : Permitted(q) /\ Node(q) # File(Big)
    ELSE Node(p) # File(Big)

---------------------------------------------------------------------------
(* FileSystemTool.                                                         *)

Did(do, p, d, overwrite) ==
  /\ op = NoOp /\ prior' = files /\ UNCHANGED said
  /\ op' = [do |-> do, target |-> Canonical(p),
            dest |-> IF d = <<>> THEN <<>> ELSE Canonical(d), overwrite |-> overwrite]

WritesFile(p, t, overwrite) ==
  LET target == Canonical(p) IN
  /\ op = NoOp
  /\ MayTouch("write", p) /\ MayReplace(p, overwrite)
  /\ t # Big
  /\ target \in Tree /\ ~Is(target, "dir") /\ CanHold(target)
  /\ \E put \in {t, Torn} :
       files' = [WithParents(files, target) EXCEPT ![target] = File(put)]
  /\ Did("write", p, <<>>, overwrite)

MakesDir(p) ==
  LET target == Canonical(p) IN
  /\ op = NoOp
  /\ MayTouch("mkdir", p) /\ target \in Tree /\ CanHold(target)
  /\ ~Exists(target)
  /\ files' = [WithParents(files, target) EXCEPT ![target] = Dir]
  /\ Did("mkdir", p, <<>>, FALSE)

Deletes(p) ==
  LET target == Canonical(p) IN
  /\ op = NoOp
  /\ MayTouch("delete", p) /\ Exists(target) /\ TreeOK(target)
  /\ files' = [q \in Tree |-> IF IsPrefix(target, q) THEN Absent ELSE files[q]]
  /\ Did("delete", p, <<>>, FALSE)

(* Where a copy of source's node q lands.  A file copied to a directory    *)
(* goes into it.  (Left out: a copy over a directory that itself holds     *)
(* links, and a copy of a directory into itself.)                          *)
Moved(q, source, dest) == dest \o SubSeq(q, Len(source) + 1, Len(q))
Landing(source, dest) ==
  IF Is(source, "file") /\ Is(dest, "dir") THEN Append(dest, Last(source)) ELSE dest
CopiedTo(q, source, landing) == {s \in Under(source) : Moved(s, source, landing) = q}
Taken(s) == IF Is(s, "link") THEN files[Canonical(s)] ELSE files[s]
Copied(source, landing) ==
  [q \in Tree |-> IF CopiedTo(q, source, landing) = {} THEN WithParents(files, landing)[q]
                  ELSE Taken(CHOOSE s \in CopiedTo(q, source, landing) : TRUE)]

Copies(p, d, overwrite) ==
  LET source == Canonical(p)
      dest == Canonical(d)
      landing == Landing(source, dest) IN
  /\ op = NoOp /\ Exists(source)
  /\ MayTouch("copy", p) /\ MayTouch("write", d) /\ MayReplace(d, overwrite)
  /\ TreeOK(source)
  /\ ~IsPrefix(source, dest) /\ ~IsPrefix(landing, source)
  /\ CanHold(dest) /\ {Moved(q, source, landing) : q \in Under(source)} \subseteq Tree
  /\ \A q \in Under(source) :
       LET r == Moved(q, source, landing)
       IN  Exists(r) => ~Is(r, "link") /\ (Is(q, "dir") <=> Is(r, "dir"))
  /\ files' = Copied(source, landing)
  /\ Did("copy", p, d, overwrite)

(* move: with overwrite the destination goes first, whatever it holds; the *)
(* rename then fails when the source went with it or leads into itself.    *)
Moves(p, d, overwrite) ==
  LET source == Canonical(p)
      dest == Canonical(d)
      cleared == [q \in Tree |-> IF IsPrefix(dest, q) THEN Absent ELSE files[q]]
      made == WithParents(cleared, dest)
      possible == made[source] # Absent /\ ~IsPrefix(source, dest)
  IN
  /\ op = NoOp /\ Exists(source)
  /\ MayTouch("move", p) /\ MayTouch("write", d) /\ MayReplace(d, overwrite)
  /\ TreeOK(source) /\ CanHold(dest)
  /\ possible => {Moved(q, source, dest) : q \in Under(source)} \subseteq Tree
  /\ files' =
       IF possible
         THEN [q \in Tree |->
                 IF IsPrefix(dest, q) /\ Moved(q, dest, source) \in Tree
                   THEN made[Moved(q, dest, source)]
                 ELSE IF IsPrefix(source, q) THEN Absent ELSE made[q]]
         ELSE made
  /\ Did("move", p, d, overwrite)

ReadsFile(p) ==
  LET target == Canonical(p) IN
  /\ MayTouch("read", p) /\ Is(target, "file")
  /\ op = NoOp /\ op' = [NoOp EXCEPT !.do = "read", !.target = target]
  /\ said' = Node(target).text
  /\ UNCHANGED <<files, prior>>

(* The next operation finds the tree as this one left it.                  *)
Answers ==
  /\ op # NoOp
  /\ op' = NoOp /\ prior' = files /\ said' = Unseen
  /\ UNCHANGED files

FilesNext ==
  \/ \E p \in Tree :
       \/ MakesDir(p) \/ Deletes(p) \/ ReadsFile(p)
       \/ \E overwrite \in BOOLEAN :
            \/ \E t \in Texts : WritesFile(p, t, overwrite)
            \/ \E d \in Tree : Copies(p, d, overwrite) \/ Moves(p, d, overwrite)
  \/ Answers

---------------------------------------------------------------------------
(* The tree is a tree, and the root is still there unless something was    *)
(* moved onto it.                                                          *)
FilesTypeOK ==
  /\ WellFormed(files)
  /\ said \in AllTexts \cup {Unseen}

(* What lies outside the root is neither changed nor read, nor copied in:  *)
(* not through a link, at the end of a path or inside a copied tree.       *)
OutsideStaysOutside ==
  /\ said # OutsideText
  /\ \A p \in Tree : IF InScope(p) THEN Node(p) # File(OutsideText)
                     ELSE Node(p) = OutsideNode(p)

(* A text disappears only where the caller asked for it: below the path    *)
(* that is deleted, or below the one whose overwriting was agreed to.  A   *)
(* move keeps all that it moves, unless its destination holds its source.  *)
Holds(f, t) == \E p \in Tree : f[p] = File(t)
AskedFor(p) ==
  \/ op.do = "delete" /\ IsPrefix(op.target, p)
  \/ op.overwrite /\ op.do = "write" /\ p = op.target
  \/ op.overwrite /\ op.do \in {"copy", "move"} /\ IsPrefix(op.dest, p)
LostOnlyIfAsked ==
  \A p \in Tree : prior[p].kind = "file" =>
    \/ Holds(files, prior[p].text) \/ AskedFor(p)

(* A protected path is changed by nobody but the user, and a tree that     *)
(* holds one is not deleted or moved away either; only what arrives at a   *)
(* directory above it, by a copy or a move, does not look: it may make the *)
(* path, and with overwrite agreed to it may replace or remove it.         *)
ProtectedKept ==
  \A p \in Tree : IsProtected(p) =>
    \/ files[p] = prior[p]
    \/ /\ op.do \in {"copy", "move"} /\ IsPrefix(op.dest, p)
       /\ (prior[p] = Absent \/ op.overwrite)

(* No operation of the file tool reaches outside the workspace, through a  *)
(* link either, or loses what it was not asked to lose.                    *)
FilesSafe ==
  /\ FilesTypeOK /\ OutsideStaysOutside /\ LostOnlyIfAsked /\ ProtectedKept
=============================================================================

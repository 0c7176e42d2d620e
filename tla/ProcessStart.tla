---------------------------- MODULE ProcessStart ----------------------------
(* Starting Samaktha: the single-instance guard (runtime/safety.py), the      *)
(* commands it guards (cli.py), the durable permit-signing key that every     *)
(* composition loads or creates (core/app.py), the first-run bootstrap        *)
(* (bootstrap.py) and the persisted personality (personality/lifecycle.py).   *)
(*                                                                           *)
(* Several processes start, crash and exit in any order.  The guard is an     *)
(* operating-system lock: a named mutex per user on Windows, a lock file of   *)
(* the configuration root elsewhere; both vanish with the process.  The key   *)
(* file, the bootstrap state and the selection are what survives.             *)
EXTENDS Naturals, FiniteSets

CONSTANTS Procs,        \* processes of this machine
          Profiles,     \* registered personalities
          DefaultProfile,
          MaxStarts     \* bound on the number of process starts

ASSUME StartAssumption == DefaultProfile \in Profiles /\ MaxStarts \in Nat

NoProfile == "none"
Builders == {"tui", "backend", "setup", "validate"}   \* build an orchestrator
Commands == Builders \cup {"bootstrap", "status", "doctor", "version", "personality"}
Users == {"owner", "stranger"}

VARIABLES place,      \* [windows, canonical, generic]: where the state lives
          procs,      \* the processes
          keyFile,    \* [there, id, acl, linked]; id 0: fewer than 32 bytes
          boot,       \* [ready, file]: the stores and bootstrap_state.json
          selection,  \* the persisted personality
          chosen,     \* history: some activation was acknowledged
          starts      \* processes started so far (bounded)

startVars == <<place, procs, keyFile, boot, selection, chosen, starts>>

Off == [at |-> "off", cmd |-> "version", user |-> "owner", lock |-> FALSE,
        created |-> FALSE, key |-> 0, active |-> NoProfile, saving |-> NoProfile]

Steps == {"off", "guard", "identity", "create", "write", "harden", "read", "settle",
          "up", "bootstrap", "stores", "save", "saving", "choose", "replace"}

StartTypeOK ==
    /\ place \in [windows : BOOLEAN, canonical : BOOLEAN, generic : BOOLEAN]
    /\ procs \in [Procs -> [at : Steps, cmd : Commands, user : Users, lock : BOOLEAN,
                            created : BOOLEAN, key : 0 .. MaxStarts + 1,
                            active : Profiles \cup {NoProfile},
                            saving : Profiles \cup {NoProfile}]]
    /\ \A p \in Procs : procs[p].at = "up" => procs[p].active \in Profiles
    /\ keyFile \in [there : BOOLEAN, id : 0 .. MaxStarts + 1,
                    acl : {"private", "inherited", "broken"}, linked : BOOLEAN]
    /\ boot \in [ready : BOOLEAN, file : {"none", "torn", "old", "current"}]
    /\ selection \in Profiles \cup {NoProfile, "torn"}
    /\ chosen \in BOOLEAN
    /\ starts \in 0 .. MaxStarts

\* An installation before the first start, or one an earlier version left: its
\* key may have lost its DACL or have been replaced by a link to a key.
StartInit ==
    /\ place \in [windows : BOOLEAN, canonical : BOOLEAN, generic : BOOLEAN]
    /\ procs = [p \in Procs |-> Off]
    /\ \/ keyFile = [there |-> FALSE, id |-> 0, acl |-> "inherited", linked |-> FALSE]
       \/ \E a \in {"private", "broken"}, l \in BOOLEAN :
            keyFile = [there |-> TRUE, id |-> 1, acl |-> a, linked |-> l]
    /\ boot \in {[ready |-> FALSE, file |-> "none"], [ready |-> FALSE, file |-> "old"]}
    /\ selection = NoProfile
    /\ chosen = FALSE
    /\ starts = 0

-----------------------------------------------------------------------------
(* The guard.                                                                *)

\* command_requires_lock: "status" is bootstrap --status; a personality command
\* also writes, yet counts as read-only.
RequiresLock(c) == c \notin {"version", "status", "doctor", "personality"}

\* Where the command function begins.
BodyOf(c) == CASE c \in Builders -> "identity"
               [] c = "bootstrap" -> "bootstrap"
               [] c = "personality" -> "choose"
               [] OTHER -> "off"

\* A lock per command would let two of them run.
LockHeldPerCommand(p) == \E q \in Procs \ {p} :
                  /\ procs[q].lock /\ procs[q].cmd = procs[p].cmd
                  /\ place.windows => procs[q].user = procs[p].user

\* Whether the lock of p's user is held: the mutex name holds the user's name,
\* the lock file belongs to the configuration root.
LockHeld(p) == \E q \in Procs \ {p} :
                  procs[q].lock /\ (place.windows => procs[q].user = procs[p].user)

Becomes(p, r) == procs' = [procs EXCEPT ![p] = r]
DiskSame == UNCHANGED <<keyFile, boot, selection, chosen>>
Ends(p) == Becomes(p, Off)

\* main parses the command and calls run_with_instance_guard.
Launches(p) ==
    /\ procs[p].at = "off" /\ starts < MaxStarts
    /\ starts' = starts + 1
    /\ \E c \in Commands, u \in IF place.windows THEN Users ELSE {"owner"} :
         Becomes(p, IF RequiresLock(c)
                      THEN [Off EXCEPT !.at = "guard", !.cmd = c, !.user = u]
                    ELSE IF BodyOf(c) = "off" THEN Off
                    ELSE [Off EXCEPT !.at = BodyOf(c), !.cmd = c, !.user = u])
    /\ DiskSame /\ UNCHANGED place

\* acquire(blocking=False).  A held lock refuses (exit 1); so does a lock file
\* that cannot be opened.  When the mutex API itself fails on Windows the file
\* fallback raises, because fcntl is imported only elsewhere: no start either.
AcquiresLock(p) ==
    /\ procs[p].at = "guard"
    /\ \/ Ends(p)
       \/ /\ ~LockHeld(p)
          /\ Becomes(p, [procs[p] EXCEPT !.lock = TRUE, !.at = BodyOf(procs[p].cmd)])
    /\ DiskSame /\ UNCHANGED <<place, starts>>

\* The finally of run_with_instance_guard, or the operating system after a
\* crash: the lock goes, what was written stays.
Stops(p) ==
    /\ procs[p].at # "off"
    /\ Ends(p)
    /\ DiskSame /\ UNCHANGED <<place, starts>>

-----------------------------------------------------------------------------
(* The signing key.                                                          *)

KeyGoesTo(p, s) == Becomes(p, [procs[p] EXCEPT !.at = s])
KeyOnly == UNCHANGED <<place, boot, selection, chosen, starts>>

\* The owner of the nearest inspectable ancestor is not one person's account.
GenericOwner == place.windows /\ place.generic

\* _raise_signing_key_identity_mismatch: the canonical key is only touched by
\* the user the installation belongs to.
MismatchOfExisting(p) ==
    place.windows /\ place.canonical /\ procs[p].user # "owner" /\ keyFile.there
Mismatch(p) == place.windows /\ place.canonical /\ procs[p].user # "owner"

\* _resolve_signing_key_identity, then the existence test; a key that cannot be
\* inspected counts as existing.
Identifies(p) ==
    /\ procs[p].at = "identity"
    /\ IF GenericOwner \/ Mismatch(p) THEN Ends(p)
       ELSE KeyGoesTo(p, IF keyFile.there THEN "read" ELSE "create")
    /\ UNCHANGED keyFile /\ KeyOnly

\* Without O_EXCL the file another process created is truncated and reused.
CreatesOver(p) ==
    /\ procs[p].at = "create"
    /\ Becomes(p, [procs[p] EXCEPT !.at = "write", !.created = TRUE])
    /\ keyFile' = [there |-> TRUE, id |-> 0, linked |-> FALSE,
                   acl |-> IF place.windows THEN "inherited" ELSE "private"]
    /\ KeyOnly

\* open(O_CREAT | O_EXCL, 0o600): a file that appeared meanwhile is loaded.
Creates(p) ==
    /\ procs[p].at = "create"
    /\ IF keyFile.there
         THEN KeyGoesTo(p, "read") /\ UNCHANGED keyFile
         ELSE /\ Becomes(p, [procs[p] EXCEPT !.at = "write", !.created = TRUE])
              /\ keyFile' = [there |-> TRUE, id |-> 0, linked |-> FALSE,
                             acl |-> IF place.windows THEN "inherited" ELSE "private"]
    /\ KeyOnly

WritesKeyUnhardened(p) ==
    /\ procs[p].at = "write"
    /\ keyFile' = [keyFile EXCEPT !.id = starts + 1]
    /\ KeyGoesTo(p, "read")
    /\ KeyOnly

\* write + flush + fsync of 32 fresh bytes; a full disk leaves the short file.
WritesKey(p) ==
    /\ procs[p].at = "write"
    /\ \/ /\ keyFile' = [keyFile EXCEPT !.id = starts + 1]
          /\ KeyGoesTo(p, "harden")
       \/ UNCHANGED keyFile /\ Ends(p)
    /\ KeyOnly

\* _harden_private_file_permissions of a new key, before its first read.
Hardens(p) ==
    /\ procs[p].at = "harden"
    /\ \/ keyFile' = [keyFile EXCEPT !.acl = "private"] /\ KeyGoesTo(p, "read")
       \/ place.windows /\ UNCHANGED keyFile /\ Ends(p)
    /\ KeyOnly

\* _is_trusted_signing_key_repair_target
TrustedTarget == place.windows /\ place.canonical /\ ~keyFile.linked

\* read_bytes, with the one bounded repair of an unreadable canonical key.
Reads(p) ==
    /\ procs[p].at = "read"
    /\ LET got == [procs[p] EXCEPT !.at = "settle", !.key = keyFile.id] IN
       \/ keyFile.acl # "broken" /\ Becomes(p, got) /\ UNCHANGED keyFile
       \/ /\ keyFile.acl = "broken" /\ ~procs[p].created /\ TrustedTarget
          /\ keyFile' = [keyFile EXCEPT !.acl = "private"]
          /\ Becomes(p, got)
       \/ keyFile.acl = "broken" /\ Ends(p) /\ UNCHANGED keyFile
    /\ KeyOnly

\* The length check, the ACL of an existing key reasserted (a linked canonical
\* key is refused), the parent hardened at best effort; then the key is in use
\* and the composition completes, the persisted personality active.
LoadedProfileRaw == selection
LoadedProfile == IF selection \in Profiles THEN selection ELSE DefaultProfile

\* Without the length check.
SettlesShort(p) ==
    /\ procs[p].at = "settle"
    /\ \/ /\ procs[p].created
             \/ ((place.windows /\ place.canonical) => TrustedTarget)
          /\ keyFile' = [keyFile EXCEPT !.acl = IF procs[p].created THEN @ ELSE "private"]
          /\ Becomes(p, [procs[p] EXCEPT !.at = "up", !.active = LoadedProfile])
       \/ /\ ~procs[p].created
          /\ Ends(p) /\ UNCHANGED keyFile
    /\ KeyOnly

Settles(p) ==
    /\ procs[p].at = "settle"
    /\ \/ /\ procs[p].key # 0
          /\ procs[p].created
             \/ ((place.windows /\ place.canonical) => TrustedTarget)
          /\ keyFile' = [keyFile EXCEPT !.acl = IF procs[p].created THEN @ ELSE "private"]
          /\ Becomes(p, [procs[p] EXCEPT !.at = "up", !.active = LoadedProfile])
       \/ /\ procs[p].key = 0 \/ ~procs[p].created
          /\ Ends(p) /\ UNCHANGED keyFile
    /\ KeyOnly

\* An upgrade or a restore between runs resets the key's DACL.
LosesAcl ==
    /\ keyFile.there /\ keyFile.acl = "private" /\ place.windows
    /\ \A p \in Procs : procs[p].at = "off"
    /\ keyFile' = [keyFile EXCEPT !.acl = "broken"]
    /\ UNCHANGED procs /\ KeyOnly

-----------------------------------------------------------------------------
(* bootstrap.                                                                *)

BootOnly == UNCHANGED <<place, keyFile, selection, chosen, starts>>

\* is_bootstrap_current: a missing or torn file, another schema or another
\* application version all mean that bootstrap has to run.
IsCurrent == boot.file = "current"

\* run_bootstrap: nothing to do when the state is current and not forced;
\* otherwise directories and databases first.
Bootstraps(p) ==
    /\ procs[p].at = "bootstrap"
    /\ \/ IsCurrent /\ Ends(p)
       \/ KeyGoesTo(p, "stores")
    /\ UNCHANGED boot /\ BootOnly

\* A store that cannot be opened is passed over.
InitializesStoresAnyway(p) ==
    /\ procs[p].at = "stores"
    /\ \/ boot' = [boot EXCEPT !.ready = TRUE]
       \/ UNCHANGED boot
    /\ KeyGoesTo(p, "save")
    /\ BootOnly

InitializesStores(p) ==
    /\ procs[p].at = "stores"
    /\ \/ boot' = [boot EXCEPT !.ready = TRUE] /\ KeyGoesTo(p, "save")
       \/ UNCHANGED boot /\ Ends(p)
    /\ BootOnly

\* save_bootstrap_state truncates the file and then writes it; a reader of the
\* torn file sees no bootstrap state at all.
SavesState(p) ==
    /\ \/ procs[p].at = "save" /\ boot' = [boot EXCEPT !.file = "torn"]
          /\ KeyGoesTo(p, "saving")
       \/ procs[p].at = "saving" /\ boot' = [boot EXCEPT !.file = "current"]
          /\ Ends(p)
    /\ BootOnly

-----------------------------------------------------------------------------
(* The active personality.                                                   *)

PersonalityOnly == UNCHANGED <<place, keyFile, boot, starts>>

ChoosesInPlace(p, f) ==
    /\ procs[p].at \in {"up", "choose"} /\ procs[p].saving = NoProfile
    /\ Becomes(p, [procs[p] EXCEPT !.active = f, !.saving = f])
    /\ selection' = "torn"
    /\ UNCHANGED chosen /\ PersonalityOnly

\* PersonalityLifecycleManager.activate: the profile is active in this process
\* before it is saved; save writes a temporary file beside the real one.
Chooses(p, f) ==
    /\ procs[p].at \in {"up", "choose"} /\ procs[p].saving = NoProfile
    /\ Becomes(p, [procs[p] EXCEPT !.active = f, !.saving = f])
    /\ UNCHANGED <<selection, chosen>> /\ PersonalityOnly

AfterSave(p) == IF procs[p].at = "choose" THEN Off ELSE [procs[p] EXCEPT !.saving = NoProfile]

\* os.replace; or the save failed, and the process keeps what it activated.
ReplacesProfile(p) ==
    /\ procs[p].saving # NoProfile
    /\ \/ selection' = procs[p].saving /\ chosen' = TRUE
       \/ UNCHANGED <<selection, chosen>>
    /\ Becomes(p, AfterSave(p))
    /\ PersonalityOnly

-----------------------------------------------------------------------------
StartNext ==
    \/ \E p \in Procs :
         \/ Launches(p) \/ AcquiresLock(p) \/ Stops(p)
         \/ Identifies(p) \/ Creates(p) \/ WritesKey(p) \/ Hardens(p)
         \/ Reads(p) \/ Settles(p)
         \/ Bootstraps(p) \/ InitializesStores(p) \/ SavesState(p)
         \/ \E f \in Profiles : Chooses(p, f)
         \/ ReplacesProfile(p)
    \/ LosesAcl

-----------------------------------------------------------------------------
(* Properties.                                                               *)

Mutating(p) == procs[p].at \notin {"off", "guard", "choose"}

\* "Per-user application instance lock to prevent concurrent normal runs": of
\* the processes that run a guarded command only one is past the guard, whatever
\* the two commands are and however the earlier ones ended; another Windows
\* user has a lock of its own, but never brings up the canonical installation.
OneMutator ==
    \A p, q \in Procs :
        p # q /\ Mutating(p) /\ Mutating(q) =>
            /\ place.windows /\ procs[p].user # procs[q].user
            /\ place.canonical => ~(procs[p].at = "up" /\ procs[q].at = "up")

\* Every running process signs and verifies with the whole key that is on disk,
\* so permits, reminders and checkpoints written by one start verify in the
\* next: racing creators, a crash in the middle of a creation and an ACL repair
\* never leave a process with a key of its own.
OneKeyForAll ==
    \A p \in Procs : procs[p].at = "up" => procs[p].key # 0 /\ procs[p].key = keyFile.id

\* "no broad inherited DACL exists during the first read": a key that is read
\* after this process created it, or that is in use, grants nobody else access.
KeyIsPrivate ==
    \A p \in Procs :
        (procs[p].at = "up" \/ (procs[p].at = "read" /\ procs[p].created)) =>
            keyFile.acl = "private"

\* "The key was preserved and no ACL was changed": under an identity that the
\* canonical installation does not belong to, no step of a process changes the
\* key file, nor creates it.  A key reached through a link keeps its ACL too.
StrangersChangeNothing ==
    [][ (place.windows /\ place.canonical) =>
          /\ \A p \in Procs : procs[p].user = "stranger" /\ procs'[p] # procs[p] =>
                                keyFile' = keyFile
          /\ (keyFile.linked => keyFile'.acl \in {keyFile.acl, "broken"}) ]_startVars

\* A whole key is never replaced: not by a creator that lost the race, not by
\* the repair of its ACL, not by a start under another identity.
KeyKept == [][ keyFile.there /\ keyFile.id # 0 =>
                 keyFile'.there /\ keyFile'.id = keyFile.id ]_startVars

\* A bootstrap state that says "current" stands for initialized stores: a crash
\* before, between or inside the steps, or a store that cannot be opened, leaves
\* a state that makes the next bootstrap run again.
CurrentMeansReady == boot.file = "current" => boot.ready

\* "a crash mid-write never corrupts the selection": once an activation was
\* acknowledged, a starting process finds a registered personality, not the
\* default it falls back to when the file cannot be read.
SelectionSurvives == chosen => selection \in Profiles

(* However processes start, crash and overlap: one of them mutates, all    *)
(* use the one whole and private key, which is never replaced nor touched  *)
(* by a stranger, and what is recorded as done has been done.              *)
StartSafe ==
  /\ [](/\ StartTypeOK /\ OneMutator /\ OneKeyForAll /\ KeyIsPrivate
        /\ CurrentMeansReady /\ SelectionSurvives)
  /\ StrangersChangeNothing
  /\ KeyKept
=============================================================================

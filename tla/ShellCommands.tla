---------------------------- MODULE ShellCommands ----------------------------
(***************************************************************************)
(* ShellTool and WindowsTool: a command is checked, started as a process,  *)
(* read through a pipe up to a limit, waited for, and ended by its own     *)
(* timeout or by the dispatcher that cancels the call.                     *)
(*                                                                         *)
(* Output is counted in chunks.  The process may leave a child behind that *)
(* holds the pipe open.  The process list of WindowsTool runs the same     *)
(* way, but with communicate and without a limit or an end of its process. *)
(***************************************************************************)
EXTENDS Integers

CONSTANTS Limit,        \* max_stdout, in chunks
          PipeRoom,     \* what the pipe holds, in chunks
          MaxOutput,    \* bound: chunks a process writes
          MaxCommands   \* bound: commands, in all

ASSUME ShellAssumption ==
  /\ Limit \in Nat /\ PipeRoom \in Nat \ {0}
  /\ MaxOutput \in Nat /\ MaxCommands \in Nat

VARIABLES tool,      \* whose command it is
          stage,     \* idle, running, terminating, answered
          result,    \* the ToolResult
          process,   \* none, running, exited, failed or killed
          child,     \* a child of the process is alive
          produced,  \* chunks written by the process
          pipe,      \* chunks in the pipe
          kept,      \* chunks read and kept
          reads,     \* the reader has not stopped
          commands

shellVars == <<tool, stage, result, process, child, produced, pipe, kept, reads,
               commands>>

Alive == process = "running"
Eof == pipe = 0 /\ ~Alive /\ ~child

ShellInit ==
  /\ tool = "shell" /\ stage = "idle" /\ result = "none" /\ process = "none"
  /\ child = FALSE /\ produced = 0 /\ pipe = 0 /\ kept = 0 /\ reads = FALSE
  /\ commands = 0

(* _validate_shell: the executable, the directory and the environment are  *)
(* each within the policy, or nothing is started.                          *)
Checks == [executable : BOOLEAN, cwd : BOOLEAN, env : BOOLEAN]
Passes(c) == c.executable /\ c.cwd /\ c.env

Starts(t, c) ==
  /\ stage \in {"idle", "answered"} /\ commands < MaxCommands
  /\ commands' = commands + 1 /\ tool' = t
  /\ produced' = 0 /\ pipe' = 0 /\ kept' = 0
  /\ \/ /\ t = "shell" /\ ~Passes(c)
        /\ stage' = "answered" /\ result' = "denied"
        /\ process' = "none" /\ child' = FALSE /\ reads' = FALSE
     \/ /\ Passes(c)
        /\ \/ /\ stage' = "running" /\ result' = "none"
              /\ process' = "running" /\ child' \in BOOLEAN /\ reads' = TRUE
           \/ /\ stage' = "answered" /\ result' = "error"
              /\ process' = "none" /\ child' = FALSE /\ reads' = FALSE

(* The process: it blocks when the pipe is full.                           *)
ProcessWritesOn ==
  /\ Alive /\ produced < MaxOutput
  /\ produced' = produced + 1 /\ pipe' = pipe + 1
  /\ UNCHANGED <<tool, stage, result, process, child, kept, reads, commands>>
ProcessWrites ==
  /\ Alive /\ produced < MaxOutput /\ pipe < PipeRoom
  /\ produced' = produced + 1 /\ pipe' = pipe + 1
  /\ UNCHANGED <<tool, stage, result, process, child, kept, reads, commands>>

ProcessExits ==
  /\ Alive /\ process' \in {"exited", "failed"}
  /\ UNCHANGED <<tool, stage, result, child, produced, pipe, kept, reads, commands>>

ChildExits ==
  /\ child /\ child' = FALSE
  /\ UNCHANGED <<tool, stage, result, process, produced, pipe, kept, reads, commands>>

(* _read_stream: over the limit it stops reading, and leaves the pipe.     *)
StopsAtNever(n) == FALSE
StopsAt(n) == tool = "shell" /\ n > Limit

ReadsChunk ==
  /\ stage = "running" /\ reads
  /\ \/ /\ pipe > 0 /\ pipe' = pipe - 1 /\ kept' = kept + 1
        /\ reads' = ~StopsAt(kept + 1)
     \/ Eof /\ reads' = FALSE /\ UNCHANGED <<pipe, kept>>
  /\ UNCHANGED <<tool, stage, result, process, child, produced, commands>>

(* The gather: both readers and process.wait().                            *)
DoneOnExit == process \in {"exited", "failed"}
Done == process \in {"exited", "failed"} /\ ~reads

Completes ==
  /\ stage = "running" /\ Done
  /\ stage' = "answered"
  /\ result' = IF process = "exited" THEN "ok" ELSE "error"
  /\ UNCHANGED <<tool, process, child, produced, pipe, kept, reads, commands>>

(* wait_for(..., timeout_s): cancels the gather.                           *)
ExpiresIfReading == stage = "running" /\ reads
Expires == stage = "running"
TimesOut ==
  /\ Expires
  /\ reads' = FALSE
  /\ IF tool = "shell"
       THEN stage' = "terminating" /\ UNCHANGED result
       ELSE stage' = "answered" /\ result' = "timeout"
  /\ UNCHANGED <<tool, process, child, produced, pipe, kept, commands>>

(* _terminate_process_tree: the whole tree, or only the process.           *)
KilledNot == UNCHANGED <<process, child>>
Killed ==
  /\ process' = IF Alive THEN "killed" ELSE process
  /\ IF Alive THEN child' \in {child, FALSE} ELSE UNCHANGED child
Terminates ==
  /\ stage = "terminating"
  /\ Killed
  /\ stage' = "answered" /\ result' = "timeout"
  /\ UNCHANGED <<tool, produced, pipe, kept, reads, commands>>

(* The dispatcher's timeout, or a cancellation, ends the call at an await: *)
(* nothing ends the process.                                               *)
Cancelled ==
  /\ stage \in {"running", "terminating"}
  /\ stage' = "answered" /\ result' = "cancelled" /\ reads' = FALSE
  /\ UNCHANGED <<tool, process, child, produced, pipe, kept, commands>>

ShellNext ==
  \/ \E t \in {"shell", "windows"}, c \in Checks : Starts(t, c)
  \/ ProcessWrites \/ ProcessExits \/ ChildExits \/ ReadsChunk \/ Completes
  \/ TimesOut \/ Terminates \/ Cancelled

ShellSpec == ShellInit /\ [][ShellNext]_shellVars

(* The timers and the event loop run; the process need not end.            *)
ShellFairness == WF_shellVars(TimesOut) /\ WF_shellVars(Terminates)

---------------------------------------------------------------------------
(* The counters stay in their bounds: a pipe is never overfull.            *)
ShellTypeOK ==
  /\ stage \in {"idle", "running", "terminating", "answered"}
  /\ result \in {"none", "ok", "error", "timeout", "cancelled", "denied"}
  /\ process \in {"none", "running", "exited", "failed", "killed"}
  /\ pipe \in 0..PipeRoom /\ produced \in 0..MaxOutput
  /\ kept + pipe = produced

(* An answer of ShellTool's own leaves no process of it running: neither a *)
(* timeout nor a process blocked on a full pipe does.  (Only a call that   *)
(* is cancelled from outside leaves it.)                                   *)
AnswerEndsProcess ==
  (stage = "answered" /\ tool = "shell" /\ result # "cancelled") => ~Alive

(* However much a command writes, no more than the limit and one chunk is  *)
(* kept.                                                                   *)
OutputBounded == tool = "shell" => kept <= Limit + 1

(* "ok" means that the process ended well and that all it wrote was read,  *)
(* unless it wrote more than the limit.                                    *)
OkIsWhole ==
  result = "ok" => process = "exited" /\ (kept = produced \/ kept > Limit)

(* Every command is answered, one that never ends and one that blocks on   *)
(* its output too.                                                         *)
EveryCommandAnswered == (stage = "running") ~> (stage = "answered")

(* An answer of ShellTool leaves no process behind, keeps a bounded        *)
(* output, and says ok only of a command whose output it has whole.        *)
ShellSafe ==
  /\ ShellTypeOK /\ AnswerEndsProcess /\ OutputBounded /\ OkIsWhole
=============================================================================

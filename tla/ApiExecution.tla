----------------------------- MODULE ApiExecution -----------------------------
(***************************************************************************)
(* The HTTP front of the execution coordinator: the rate limiter every     *)
(* request passes, POST /execute, which waits for one execution with a     *)
(* deadline and a poll for a lost client, and POST /execute/stream, which  *)
(* polls the execution's events and state.  The waiter is shielded from    *)
(* the execution: giving up waiting does not stop the work, the handler    *)
(* must.  The coordinator itself is the subject of ExecutionCoordinator;   *)
(* here an execution is its status and whether a task works for it.        *)
(***************************************************************************)
EXTENDS Naturals, FiniteSets

CONSTANTS
  Calls, Streams,       \* requests; those of /execute/stream
  Limit, Window,        \* requests per window; ticks per window
  Second,               \* ticks per second
  MaxTime, MaxPublished \* bounds on the clock and on an execution's events

ASSUME ApiAssumption ==
  /\ Streams \subseteq Calls /\ Limit \in Nat \ {0}
  /\ Window \in Nat \ {0} /\ Second \in Nat \ {0}
  /\ MaxTime \in Nat /\ MaxPublished \in Nat

VARIABLES
  clock, slot,          \* the time; the limiter's window: its start and count
  admitted, refusal,    \* history: calls let in per window; what the last 429 said
  exec, working,        \* per call: the execution's status; its task runs
  waiter,               \* how the first task ended, as the waiter sees it
  published, call       \* per call: events in the history; the handler
apiVars ==
  <<clock, slot, admitted, refusal, exec, working, waiter, published, call>>
limiterVars == <<clock, slot, admitted, refusal>>

Terminal == {"completed", "failed", "raised", "cancelled", "timed_out", "denied"}
NoCall == [at |-> "none", late |-> FALSE, cursor |-> 0, upto |-> 0, reply |-> "none"]
Unrefused == [start |-> 0, until |-> 0]
Starts == {w \in 0..MaxTime : w % Window = 0}

ApiTypeOK ==
  /\ clock \in 0..MaxTime
  /\ slot \in [start : Starts, count : 0..Limit]
  /\ admitted \in [Starts -> Nat]
  /\ refusal \in [start : Starts, until : 0..(MaxTime + Window + Second)] \cup {Unrefused}
  /\ exec \in [Calls -> Terminal \cup {"none", "running", "awaiting"}]
  /\ working \in [Calls -> BOOLEAN]
  /\ waiter \in [Calls -> {"waits", "returned", "cancelled"}]
  /\ published \in [Calls -> 0..MaxPublished]
  /\ \A c \in Calls : call[c].upto <= published[c] /\ call[c].cursor <= call[c].upto

ApiInit ==
  /\ clock = 0 /\ slot = [start |-> 0, count |-> 0]
  /\ admitted = [w \in Starts |-> 0] /\ refusal = Unrefused
  /\ exec = [c \in Calls |-> "none"] /\ working = [c \in Calls |-> FALSE]
  /\ waiter = [c \in Calls |-> "waits"]
  /\ published = [c \in Calls |-> 0] /\ call = [c \in Calls |-> NoCall]

Answers(c, reply) == call' = [call EXCEPT ![c].at = "replied", ![c].reply = reply]
Moves(c, at) == call' = [call EXCEPT ![c].at = at]

-----------------------------------------------------------------------------
(* RateLimiter.allow                                                       *)
WindowStart == clock - (clock % Window)
Current == IF slot.start = WindowStart THEN slot
           ELSE [start |-> WindowStart, count |-> 0]
(* Mutant: one request more than the limit.                                *)
HasRoomOver == Current.count <= Limit
HasRoom == Current.count < Limit
(* Mutant: the seconds left, rounded down.                                 *)
RetryAfterRounded == LET left == (WindowStart + Window - clock) \div Second
                     IN  IF left < 1 THEN 1 ELSE left
RetryAfter == LET left == (WindowStart + Window - clock) \div Second + 1
              IN  IF left < 1 THEN 1 ELSE left

Refuses(c) ==
  /\ call[c].at = "none" /\ ~HasRoom
  /\ refusal' = [start |-> WindowStart, until |-> clock + RetryAfter * Second]
  /\ UNCHANGED <<clock, slot, admitted, exec, working, waiter, published, call>>

(* The limiter lets the request in and start_execution(wait=False) has     *)
(* created the task; a refused start is answered at once.                  *)
Admits(c) ==
  /\ call[c].at = "none" /\ HasRoom
  /\ slot' = [Current EXCEPT !.count = @ + 1]
  /\ admitted' = [admitted EXCEPT ![WindowStart] = @ + 1]
  /\ \/ /\ exec' = [exec EXCEPT ![c] = "running"]
        /\ working' = [working EXCEPT ![c] = TRUE]
        /\ Moves(c, IF c \in Streams THEN "polling" ELSE "waiting")
     \/ Answers(c, "refused") /\ UNCHANGED <<exec, working>>
  /\ UNCHANGED <<clock, refusal, waiter, published>>

ApiTick ==
  /\ clock < MaxTime /\ clock' = clock + 1
  /\ UNCHANGED <<slot, admitted, refusal, exec, working, waiter, published, call>>

-----------------------------------------------------------------------------
(* What the coordinator does meanwhile.                                    *)
Publish(c) ==
  /\ published' = [published EXCEPT ![c] = IF @ < MaxPublished THEN @ + 1 ELSE @]
Publishes(c) ==
  /\ working[c] /\ published[c] < MaxPublished /\ Publish(c)
  /\ UNCHANGED <<limiterVars, exec, working, waiter, call>>

(* The task ends; the wait of the first one is over.                       *)
TaskEnds(c, seen) ==
  /\ working[c] /\ working' = [working EXCEPT ![c] = FALSE]
  /\ waiter' = [waiter EXCEPT ![c] = IF @ = "waits" THEN seen ELSE @]
  /\ Publish(c) /\ UNCHANGED <<limiterVars, call>>

(* Mutant: a pipeline ends as if nobody had cancelled its task.            *)
SettlesLate(c, s) == exec' = [exec EXCEPT ![c] = s] /\ TaskEnds(c, "returned")

(* _run_initial, _run_resume and _settle_pipeline.  task.cancel() reaches  *)
(* the task at its next step, before it can settle.                        *)
Settles(c, s) ==
  /\ call[c].at \notin {"expiring", "leaving"}
  /\ exec' = [exec EXCEPT ![c] = s] /\ TaskEnds(c, "returned")
TaskCancelled(c) ==
  /\ exec' = [exec EXCEPT ![c] = IF @ \in Terminal THEN @ ELSE "cancelled"]
  /\ TaskEnds(c, "cancelled")
(* POST .../cancel and .../approval while nothing works.                   *)
CancelsPaused(c) ==
  /\ exec[c] = "awaiting" /\ exec' = [exec EXCEPT ![c] = "cancelled"]
  /\ Publish(c) /\ UNCHANGED <<limiterVars, working, waiter, call>>
ApprovalAnswered(c, s) ==
  /\ exec[c] = "awaiting" /\ s \in {"running", "denied"}
  /\ exec' = [exec EXCEPT ![c] = s]
  /\ working' = [working EXCEPT ![c] = s = "running"]
  /\ Publish(c) /\ UNCHANGED <<limiterVars, waiter, call>>

-----------------------------------------------------------------------------
(* execute_request and _await_with_limits.  wait_execution hands on the    *)
(* end of the first task: a cancelled one cancels the waiter too, and that *)
(* leaves the handler without a reply.                                     *)
WaitReturns(c) ==
  /\ call[c].at = "waiting" /\ waiter[c] # "waits"
  /\ Answers(c, IF waiter[c] = "cancelled" THEN "dropped"
                ELSE IF exec[c] = "raised" THEN "500"
                ELSE IF exec[c] \in Terminal THEN "200" ELSE "paused")
  /\ UNCHANGED <<limiterVars, exec, working, waiter, published>>
DeadlinePasses(c) ==
  /\ call[c].at \in {"waiting", "polling", "sending"} /\ ~call[c].late
  /\ call' = [call EXCEPT ![c].late = TRUE]
  /\ UNCHANGED <<limiterVars, exec, working, waiter, published>>

(* Mutant: the waiter is given up and the execution left alone.            *)
GivesUpWaiter(c) ==
  /\ call[c].at = "waiting" /\ call[c].late /\ Answers(c, "504")
  /\ UNCHANGED <<limiterVars, exec, working, waiter, published>>

(* timeout_execution gives the verdict and then waits for the task.        *)
GivesUp(c) ==
  /\ call[c].at = "waiting" /\ call[c].late /\ Moves(c, "expiring")
  /\ exec' = [exec EXCEPT ![c] = IF @ \in Terminal THEN @ ELSE "timed_out"]
  /\ UNCHANGED <<limiterVars, working, waiter, published>>
(* cancel_execution waits for the task and then gives the verdict.         *)
LosesClient(c) ==
  /\ call[c].at \in {"waiting", "polling"} /\ Moves(c, "leaving")
  /\ UNCHANGED <<limiterVars, exec, working, waiter, published>>
Stopped(c) ==
  /\ call[c].at \in {"expiring", "leaving"} /\ ~working[c]
  /\ exec' = [exec EXCEPT ![c] = IF @ \in Terminal THEN @ ELSE "cancelled"]
  /\ IF call[c].at = "expiring" /\ c \in Streams
     THEN call' = [call EXCEPT ![c].at = "sending", ![c].upto = published[c]]
     ELSE Answers(c, IF call[c].at = "expiring" THEN "504" ELSE "499")
  /\ UNCHANGED <<limiterVars, working, waiter, published>>

-----------------------------------------------------------------------------
(* execute_stream's event_source: one turn of its loop looks for the       *)
(* client and the deadline, takes the events after the cursor, yields them *)
(* one by one and only then reads the state.                               *)
(* Mutant: the deadline is not looked at.                                  *)
StreamTurnsNoDeadline(c) ==
  /\ call[c].at = "polling"
  /\ call' = [call EXCEPT ![c].at = "sending", ![c].upto = published[c]]
  /\ UNCHANGED <<limiterVars, exec, working, waiter, published>>

StreamTurns(c) ==
  /\ call[c].at = "polling"
  /\ IF call[c].late /\ exec[c] \notin Terminal
     THEN exec' = [exec EXCEPT ![c] = "timed_out"] /\ Moves(c, "expiring")
     ELSE /\ call' = [call EXCEPT ![c].at = "sending", ![c].upto = published[c]]
          /\ UNCHANGED exec
  /\ UNCHANGED <<limiterVars, working, waiter, published>>
StreamSends(c) ==
  /\ call[c].at = "sending" /\ call[c].cursor < call[c].upto
  /\ call' = [call EXCEPT ![c].cursor = @ + 1]
  /\ UNCHANGED <<limiterVars, exec, working, waiter, published>>
StreamReads(c) ==
  /\ call[c].at = "sending" /\ call[c].cursor = call[c].upto
  /\ \/ exec[c] = "completed" /\ Answers(c, "completed")
     \/ exec[c] \in {"denied", "awaiting"} /\ Answers(c, "ended")
     \/ exec[c] \in Terminal \ {"completed", "denied"} /\ Answers(c, "failed")
     \/ exec[c] \notin Terminal \cup {"awaiting"} /\ Moves(c, "polling")
  /\ UNCHANGED <<limiterVars, exec, working, waiter, published>>
(* The server stops the generator of a closed connection at a yield.       *)
StreamDropped(c) ==
  /\ call[c].at = "sending" /\ Answers(c, "dropped")
  /\ UNCHANGED <<limiterVars, exec, working, waiter, published>>

-----------------------------------------------------------------------------
Handler(c) ==
  WaitReturns(c) \/ GivesUp(c) \/ Stopped(c) \/ StreamTurns(c) \/ StreamSends(c)
    \/ StreamReads(c)
ApiNext ==
  \/ ApiTick
  \/ \E c \in Calls : Admits(c) \/ Refuses(c) \/ Publishes(c)
  \/ \E c \in Calls, s \in {"completed", "failed", "raised", "awaiting"} : Settles(c, s)
  \/ \E c \in Calls, s \in {"running", "denied"} : ApprovalAnswered(c, s)
  \/ \E c \in Calls : TaskCancelled(c) \/ CancelsPaused(c)
  \/ \E c \in Calls : Handler(c) \/ DeadlinePasses(c) \/ LosesClient(c) \/ StreamDropped(c)

(* The event loop runs the handlers, deadlines pass and a task that was    *)
(* cancelled, or whose execution is over, ends; a pipeline may hang.       *)
ApiFairness ==
  \A c \in Calls :
    /\ WF_apiVars(Handler(c)) /\ WF_apiVars(DeadlinePasses(c))
    /\ WF_apiVars(call[c].at \in {"expiring", "leaving"} /\ TaskCancelled(c))

-----------------------------------------------------------------------------
(* Nothing works for a request that was answered with an end: after a 504, *)
(* a 499, an error, a result or a last stream event the execution is over  *)
(* and has no task, although the waiter is shielded from it.  A pause, and *)
(* a connection that was dropped, leave the execution to others.           *)
AnsweredIsOver ==
  \A c \in Calls :
     call[c].reply \in {"200", "500", "504", "499", "completed", "failed"} =>
        exec[c] \in Terminal /\ ~working[c]

(* The last event of a stream, and the status of a 200, stay true: no task *)
(* that ends late and no cancel or timeout changes what the client was     *)
(* told.                                                                   *)
VerdictStands ==
  [][\A c \in Calls : exec[c] \in Terminal => exec'[c] = exec[c]]_apiVars

(* A window never takes more than the limit, it refuses only when it is    *)
(* full, and a client that waits for the Retry-After of its 429 comes back *)
(* after the window that refused it.                                       *)
LimitIsHonest ==
  /\ \A w \in Starts : admitted[w] <= Limit
  /\ refusal # Unrefused => /\ admitted[refusal.start] = Limit
                            /\ refusal.until >= refusal.start + Window

(* Every request that was let in is answered, whatever the pipeline does:  *)
(* a hung one meets the deadline.                                          *)
EveryCallAnswered ==
  \A c \in Calls : call[c].at \notin {"none", "replied"} ~> call[c].at = "replied"

(* A reply is about an execution that is over, or says so; no deadline,    *)
(* cancel or stream changes a verdict; and the limiter refuses only when   *)
(* it is full.                                                             *)
ApiSafe ==
  /\ [](/\ ApiTypeOK /\ AnsweredIsOver /\ LimitIsHonest)
  /\ VerdictStands
=============================================================================

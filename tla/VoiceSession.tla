---------------------------- MODULE VoiceSession ----------------------------
(***************************************************************************)
(* VoiceSession: the voice managers it starts, stops and toggles, and the  *)
(* approval pauses it announces and has answered by voice.  One event      *)
(* loop: a handler runs from one await to the next, and everything the     *)
(* session keeps about the pending approval is shared by all handlers.     *)
(***************************************************************************)
EXTENDS Naturals, FiniteSets

CONSTANTS
  PausedTasks,   \* tasks that pause for approval
  NoTask,
  MaxManagers,   \* bound on the managers ever created
  MaxAnswers     \* bound on the answers heard

ASSUME VoiceAssumption ==
  NoTask \notin PausedTasks /\ MaxManagers \in Nat /\ MaxAnswers \in Nat

VARIABLES
  manager,    \* _voice_manager, 0 for None
  managers,   \* how many were created
  speaking,   \* _running
  starting,   \* managers whose start() is awaited
  stopping,   \* managers whose stop() is awaited
  listening,  \* managers whose microphone is open
  hasty,      \* ghost: a start overlapped a start or a stop
  handler,    \* _handle_approval of each task
  pending,    \* _pending_task_id
  event,      \* _approval_event, named by the pause that created it
  fired,      \* the events that are set
  waitsOn,    \* the event each handler waits for
  result,     \* _approval_result
  hearings,   \* answers heard and not yet applied
  answered,   \* bound on them
  consented,  \* ghost: tasks that were pending when a yes was applied
  allowed     \* tasks resumed with allow

lifeVars == <<manager, managers, speaking, starting, stopping, listening, hasty>>
approvalVars == <<handler, pending, event, fired, waitsOn, result, hearings, answered,
                  consented, allowed>>
voiceVars == <<lifeVars, approvalVars>>

VoiceTypeOK ==
  /\ manager \in 0..MaxManagers /\ managers \in 0..MaxManagers
  /\ starting \cup stopping \cup listening \subseteq 1..managers
  /\ pending \in PausedTasks \cup {NoTask} /\ event \in PausedTasks \cup {NoTask}
  /\ handler \in [PausedTasks -> {"none", "created", "asking", "waiting", "late",
                                  "resuming", "done"}]
  /\ result \in {"none", "allow", "deny", "timeout"}
  /\ hearings \subseteq {"yes", "no"}
  /\ \A t \in PausedTasks : handler[t] = "waiting" => waitsOn[t] # NoTask

VoiceInit ==
  /\ manager = 0 /\ managers = 0 /\ speaking = FALSE
  /\ starting = {} /\ stopping = {} /\ listening = {} /\ hasty = FALSE
  /\ handler = [t \in PausedTasks |-> "none"] /\ pending = NoTask /\ event = NoTask
  /\ fired = {} /\ waitsOn = [t \in PausedTasks |-> NoTask] /\ result = "none"
  /\ hearings = {} /\ answered = 0 /\ consented = {} /\ allowed = {}

-----------------------------------------------------------------------------
(* start, from toggle or from its caller, up to the await of the manager.  *)
StartVoice ==
  /\ ~speaking /\ managers < MaxManagers
  /\ managers' = managers + 1 /\ manager' = managers + 1
  /\ starting' = starting \cup {managers + 1}
  /\ hasty' = (hasty \/ starting \cup stopping # {})
  /\ UNCHANGED <<speaking, stopping, listening, approvalVars>>
VoiceStarted(m) ==
  /\ m \in starting /\ starting' = starting \ {m}
  /\ listening' = listening \cup {m} /\ speaking' = TRUE
  /\ UNCHANGED <<manager, managers, stopping, hasty, approvalVars>>

(* VoiceManager.start shuts down what it opened, and raises.               *)
StartVoiceFails(m) ==
  /\ m \in starting /\ starting' = starting \ {m}
  /\ UNCHANGED <<manager, managers, speaking, stopping, listening, hasty, approvalVars>>

(* Mutant: toggling off forgets the manager.                               *)
ToggleOffForgets ==
  /\ speaking /\ speaking' = FALSE /\ manager' = 0
  /\ UNCHANGED <<managers, starting, stopping, listening, hasty, approvalVars>>

(* toggle of a running session hands its manager's stop to a task.         *)
ToggleOff ==
  /\ speaking /\ speaking' = FALSE
  /\ stopping' = stopping \cup ({manager} \ {0}) /\ manager' = 0
  /\ UNCHANGED <<managers, starting, listening, hasty, approvalVars>>

(* stop awaits its manager's stop and then lets go of whatever manager the *)
(* session has by then.                                                    *)
StopVoice ==
  /\ speaking /\ speaking' = FALSE
  /\ stopping' = stopping \cup ({manager} \ {0})
  /\ UNCHANGED <<manager, managers, starting, listening, hasty, approvalVars>>
VoiceStopped(m) ==
  /\ m \in stopping /\ stopping' = stopping \ {m}
  /\ listening' = listening \ {m}
  /\ manager' \in (IF manager = 0 THEN {0} ELSE IF manager = m THEN {0} ELSE {manager, 0})
  /\ UNCHANGED <<managers, speaking, starting, hasty, approvalVars>>

-----------------------------------------------------------------------------
(* The runtime's pause_requested makes a task for _handle_approval.        *)
PauseRequested(t) ==
  /\ handler[t] = "none" /\ handler' = [handler EXCEPT ![t] = "created"]
  /\ UNCHANGED <<lifeVars, pending, event, fired, waitsOn, result, hearings, answered,
                 consented, allowed>>

(* Mutant: the answer to an earlier pause is still there.                  *)
AsksAloudWithResult(t) ==
  /\ handler[t] = "created" /\ handler' = [handler EXCEPT ![t] = "asking"]
  /\ pending' = t /\ event' = t
  /\ UNCHANGED <<lifeVars, fired, waitsOn, result, hearings, answered, consented, allowed>>

(* handle_approval_pause until it speaks, and from there to its wait: the  *)
(* event it waits for is the one the session has by then; with none the    *)
(* handler dies.                                                           *)
AsksAloud(t) ==
  /\ handler[t] = "created" /\ handler' = [handler EXCEPT ![t] = "asking"]
  /\ pending' = t /\ event' = t /\ result' = "none"
  /\ UNCHANGED <<lifeVars, fired, waitsOn, hearings, answered, consented, allowed>>

(* Mutant: a handler waits for whatever there is, nothing included.        *)
WaitsForNothing(t) ==
  /\ handler[t] = "asking" /\ handler' = [handler EXCEPT ![t] = "waiting"]
  /\ waitsOn' = [waitsOn EXCEPT ![t] = event]
  /\ UNCHANGED <<lifeVars, pending, event, fired, result, hearings, answered, consented,
                 allowed>>
WaitsForAnswer(t) ==
  /\ handler[t] = "asking"
  /\ handler' = [handler EXCEPT ![t] = IF event = NoTask THEN "done" ELSE "waiting"]
  /\ waitsOn' = [waitsOn EXCEPT ![t] = event]
  /\ UNCHANGED <<lifeVars, pending, event, fired, result, hearings, answered, consented,
                 allowed>>

(* VOICE_TRANSCRIBED while has_pending_approval: a task is made for the    *)
(* answer; when it runs, submit_approval answers what is pending then.     *)
HearsAnswer(a) ==
  /\ pending # NoTask /\ event # NoTask /\ event \notin fired
  /\ answered < MaxAnswers /\ answered' = answered + 1
  /\ a \notin hearings /\ hearings' = hearings \cup {a}
  /\ UNCHANGED <<lifeVars, handler, pending, event, fired, waitsOn, result, consented, allowed>>
AppliesAnswer(a) ==
  /\ a \in hearings /\ hearings' = hearings \ {a}
  /\ result' = IF a = "yes" THEN "allow" ELSE "deny"
  /\ fired' = fired \cup ({event} \ {NoTask})
  /\ consented' = IF a = "yes" THEN consented \cup {pending} ELSE consented
  /\ UNCHANGED <<lifeVars, handler, pending, event, waitsOn, answered, allowed>>

(* The wait is over: resume_after_approval resumes the task that is        *)
(* pending now, with the result there is now, "deny" when it is gone.      *)
ResumesPending(t) ==
  /\ handler[t] = "waiting" /\ waitsOn[t] \in fired /\ result # "timeout"
  /\ IF pending = NoTask THEN handler' = [handler EXCEPT ![t] = "done"] /\ UNCHANGED allowed
     ELSE /\ handler' = [handler EXCEPT ![t] = "resuming"]
          /\ allowed' = IF result = "allow" THEN allowed \cup {pending} ELSE allowed
  /\ UNCHANGED <<lifeVars, pending, event, fired, waitsOn, result, hearings, answered, consented>>

(* wait_for gives up; the timeout is spoken, then the state is cleared.    *)
GivesUpWaiting(t) ==
  /\ handler[t] = "waiting" /\ waitsOn[t] \notin fired
  /\ handler' = [handler EXCEPT ![t] = "late"] /\ result' = "timeout"
  /\ UNCHANGED <<lifeVars, pending, event, fired, waitsOn, hearings, answered, consented, allowed>>

(* The resume has returned, the timeout was spoken, or another handler's   *)
(* timeout is the result.                                                  *)
ClearsPending(t) ==
  /\ \/ handler[t] \in {"late", "resuming"}
     \/ handler[t] = "waiting" /\ waitsOn[t] \in fired /\ result = "timeout"
  /\ handler' = [handler EXCEPT ![t] = "done"]
  /\ pending' = NoTask /\ event' = NoTask /\ result' = "none"
  /\ UNCHANGED <<lifeVars, fired, waitsOn, hearings, answered, consented, allowed>>

VoiceNext ==
  \/ StartVoice \/ ToggleOff \/ StopVoice
  \/ \E m \in 1..MaxManagers : VoiceStarted(m) \/ StartVoiceFails(m) \/ VoiceStopped(m)
  \/ \E t \in PausedTasks : \/ PauseRequested(t) \/ AsksAloud(t) \/ WaitsForAnswer(t)
                            \/ ResumesPending(t) \/ GivesUpWaiting(t) \/ ClearsPending(t)
  \/ \E a \in {"yes", "no"} : HearsAnswer(a) \/ AppliesAnswer(a)

-----------------------------------------------------------------------------
(* A microphone that is open belongs to the session's manager or to one    *)
(* being started or stopped, unless a start overlapped a start or a stop.  *)
NoOrphanMicrophone ==
  hasty \/ listening \subseteq {manager} \cup starting \cup stopping

(* However pauses, answers and timeouts interleave, a task is allowed only *)
(* by a yes that was applied while that task was the pending one.          *)
AllowedByConsent == allowed \subseteq consented

(* Overlapping starts, stops and toggles leave no microphone open that     *)
(* nobody can close, and only a task the user agreed to is allowed.        *)
VoiceSafe ==
  /\ VoiceTypeOK /\ NoOrphanMicrophone /\ AllowedByConsent
=============================================================================

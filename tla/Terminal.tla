------------------------------- MODULE Terminal -------------------------------
(***************************************************************************)
(* The terminal interface: MainScreen, which sends what the user types to  *)
(* the runtime or to CommandRouter, shows the answers as they stream in    *)
(* and offers the approvals they end with; and CommandRouter's sessions.   *)
(*                                                                         *)
(* Everything runs on one event loop.  A submitted line becomes a task,    *)
(* and tasks start in the order they were made; a handler is one step, an  *)
(* answer one step for each item of its stream.  An exchange is known by   *)
(* its number, which also names the execution and the approval it waits    *)
(* for.  Texts, message counters, panels and notices are left out.         *)
(***************************************************************************)
EXTENDS Naturals, Sequences

CONSTANTS Sessions,     \* session ids
          Nobody,       \* no session
          Initial,      \* the session made at startup
          Earlier,      \* sessions of earlier runs
          MaxInputs,    \* bound: messages, commands and buttons, in all
          MaxItems,     \* bound: items of one stream
          MaxTasks      \* bound: tasks not yet started

ASSUME SessionsAssumption ==
  /\ Nobody \notin Sessions /\ Initial \in Sessions
  /\ Earlier \subseteq Sessions \ {Initial}
  /\ MaxInputs \in Nat /\ MaxItems \in Nat /\ MaxTasks \in Nat

VARIABLES screen,     \* "open" or "closed"
          active,     \* MainScreen._active_session_id
          stored,     \* sessions in the store
          recalled,   \* sessions with conversation memories
          asked,      \* MainScreen._pending_delete
          toDelete,   \* CommandRouter._pending_delete
          enabled,    \* the input bar takes a line
          tasks,      \* tasks made and not yet started
          streams,    \* answers being consumed
          current,    \* the exchange whose message the panel appends to, or 0
          latest,     \* _session_executions
          waiting,    \* executions that wait for their approval
          offered,    \* approvals shown with their buttons
          clicks,     \* what the user pressed: <<approval, decision>>
          answers,    \* what executions were answered
          deleted,    \* sessions deleted
          excused,    \* of those, deleted in mid-answer or with a failed step
          nudged,     \* a key or button was used while an answer ran, or a
                      \* line sent before the task ahead of it started
          strayed,    \* exchanges that lost a token to another message
          exchanges, lines

terminalVars == <<screen, active, stored, recalled, asked, toDelete, enabled,
                  tasks, streams, current, latest, waiting, offered, clicks,
                  answers, deleted, excused, nudged, strayed, exchanges, lines>>
storeVars == <<active, stored, recalled, deleted, excused>>
panelVars == <<streams, current, strayed, nudged>>
approvalVars == <<latest, waiting, offered, clicks, answers>>

Exchanges == 1..MaxInputs
ShellLines == [does : {"show", "new", "exit", "clear"}, of : {Nobody}]
                \cup [does : {"switch", "delete"}, of : Sessions]
Openers == {"say", "allow", "deny"}  \* tasks that begin an answer
Busy == streams # {} \/ tasks # <<>>
MoreInput == exchanges + lines < MaxInputs /\ Len(tasks) < MaxTasks
Fresh == Sessions \ (stored \cup deleted)

(* on_mount: the session of this run, next to those of earlier ones.       *)
TerminalInit ==
  /\ screen = "open"
  /\ active = Initial /\ stored = {Initial} \cup Earlier /\ recalled = Earlier
  /\ asked = Nobody /\ toDelete = Nobody /\ enabled = TRUE /\ tasks = <<>>
  /\ streams = {} /\ current = 0 /\ strayed = {} /\ nudged = FALSE
  /\ latest = [s \in Sessions |-> 0] /\ waiting = {} /\ offered = {}
  /\ clicks = {} /\ answers = {} /\ deleted = {} /\ excused = {}
  /\ exchanges = 0 /\ lines = 0

(***************************************************************************)
(* Typed lines                                                             *)
(***************************************************************************)
(* _handle_user_input: a message turns the input bar off.                  *)
StaysOn == enabled' = enabled
TurnsOff == enabled' = FALSE

Says ==
  /\ screen = "open" /\ enabled /\ asked = Nobody
  /\ MoreInput
  /\ exchanges' = exchanges + 1 /\ TurnsOff
  /\ tasks' = Append(tasks, [does |-> "say", of |-> Nobody, id |-> exchanges + 1])
  /\ nudged' = (nudged \/ tasks # <<>>)
  /\ UNCHANGED <<screen, asked, toDelete, lines, streams, current, strayed>>
  /\ UNCHANGED storeVars /\ UNCHANGED approvalVars

(* _handle_slash, also while a deletion waits for its answer.              *)
Slash(c) ==
  /\ MoreInput /\ lines' = lines + 1
  /\ asked' = Nobody
  /\ tasks' = Append(tasks, [does |-> c.does, of |-> c.of, id |-> 0])

Types(c) ==
  /\ screen = "open" /\ enabled /\ Slash(c)
  /\ nudged' = (nudged \/ tasks # <<>>)
  /\ UNCHANGED <<screen, toDelete, enabled, exchanges, streams, current, strayed>>
  /\ UNCHANGED storeVars /\ UNCHANGED approvalVars

(* F1 submits "/help" whether the input bar is on or off.                  *)
PressesHelp ==
  /\ screen = "open" /\ Slash([does |-> "show", of |-> Nobody])
  /\ nudged' = (nudged \/ Busy)
  /\ UNCHANGED <<screen, toDelete, enabled, exchanges, streams, current, strayed>>
  /\ UNCHANGED storeVars /\ UNCHANGED approvalVars

(* Ctrl+L.                                                                 *)
ClearsPanel == offered' = {}

PressesClear ==
  /\ screen = "open" /\ offered # {} /\ ClearsPanel
  /\ UNCHANGED <<screen, asked, toDelete, enabled, tasks, exchanges, lines,
                 latest, waiting, clicks, answers>>
  /\ UNCHANGED storeVars /\ UNCHANGED panelVars

(* The interface ends, and with it what it holds in memory.                *)
Closes ==
  /\ screen' = "closed" /\ enabled' = FALSE /\ asked' = Nobody /\ toDelete' = Nobody
  /\ tasks' = <<>> /\ streams' = {} /\ current' = 0 /\ offered' = {}
  /\ latest' = [s \in Sessions |-> 0] /\ waiting' = {}

(* Ctrl+Q.                                                                 *)
PressesQuit ==
  /\ screen = "open" /\ Closes
  /\ UNCHANGED <<exchanges, lines, strayed, nudged, clicks, answers>>
  /\ UNCHANGED storeVars

(***************************************************************************)
(* CommandRouter                                                           *)
(***************************************************************************)
(* A new session becomes the active one, with nothing to recall.           *)
CreatesAside(s) == s \in Fresh /\ active' = Nobody
Creates(s) == s \in Fresh /\ active' = s

(* _cmd_switch.                                                            *)
SwitchedToAny(s) == s
SwitchedTo(s) == IF s \in stored THEN s ELSE active

(* _cmd_delete_session and _approve_delete: nothing is deleted without an  *)
(* answer, since deleting always requires approval and no permission for   *)
(* it is ever remembered; an engine that fails refuses.                    *)
AsksFirst(s) ==
  /\ s \in stored /\ asked' = s
  /\ toDelete' = IF toDelete = Nobody THEN s ELSE toDelete

ApproveDelete == {"ask_user", "deny"}

Asks(s) ==
  IF s \in stored
    THEN \E d \in ApproveDelete :
           IF d = "ask_user" THEN asked' = s /\ toDelete' = s
                             ELSE UNCHANGED <<asked, toDelete>>
    ELSE UNCHANGED <<asked, toDelete>>

(* The diagnostics, repository, review, help and other commands that only  *)
(* print.                                                                  *)
ShowsOnly == UNCHANGED <<asked, toDelete, active, stored, offered>>

(* _run_command and _apply_command_result: the input bar is turned off and *)
(* on again around the command.                                            *)
Command(c) ==
  \/ c.does = "show" /\ ShowsOnly
  \/ /\ c.does = "clear" /\ ClearsPanel
     /\ UNCHANGED <<asked, toDelete, active, stored>>
  \/ /\ c.does = "new"
     /\ \/ \E s \in Fresh : Creates(s) /\ stored' = stored \cup {s}
        \/ Fresh = {} /\ UNCHANGED <<active, stored>>  \* bound on ids
     /\ UNCHANGED <<asked, toDelete, offered>>
  \/ /\ c.does = "switch" /\ active' = SwitchedTo(c.of)
     /\ UNCHANGED <<asked, toDelete, stored, offered>>
  \/ c.does = "delete" /\ Asks(c.of) /\ UNCHANGED <<active, stored, offered>>

RunsCommand ==
  /\ screen = "open" /\ tasks # <<>> /\ Head(tasks).does \notin Openers
  /\ \/ /\ Head(tasks).does = "exit" /\ Closes
        /\ UNCHANGED <<active, stored>>
     \/ /\ Command(Head(tasks)) /\ tasks' = Tail(tasks) /\ enabled' = TRUE
        /\ UNCHANGED <<screen, streams, current, latest, waiting>>
  /\ UNCHANGED <<recalled, deleted, excused, strayed, nudged, clicks, answers,
                 exchanges, lines>>

(* _delete_conversation_memories: one that cannot be deleted is passed     *)
(* over.                                                                   *)
ForgetsNothing(s, fails) == recalled' = recalled
Forgets(s, fails) == recalled' = IF fails THEN recalled ELSE recalled \ {s}

(* _finish_delete: the memories, then the files; deleting the session on   *)
(* the screen starts another.  Files that cannot be removed end the        *)
(* interface with the memories gone.                                       *)
FinishDelete(s, fails) ==
  /\ Forgets(s, fails)
  /\ \/ /\ deleted' = deleted \cup {s}
        /\ excused' = IF fails \/ Busy THEN excused \cup {s} ELSE excused
        /\ IF active = s
             THEN \E n \in Fresh : Creates(n) /\ stored' = (stored \ {s}) \cup {n}
             ELSE UNCHANGED active /\ stored' = stored \ {s}
        /\ asked' = Nobody /\ toDelete' = Nobody
        /\ UNCHANGED <<screen, tasks, streams, current, enabled, offered, latest,
                       waiting>>
     \/ /\ Closes /\ UNCHANGED <<active, stored, deleted, excused>>

(* _handle_pending_delete and confirm_delete.                              *)
Confirms ==
  /\ screen = "open" /\ enabled /\ asked # Nobody
  /\ \/ /\ toDelete \in stored
        /\ \E fails \in BOOLEAN : FinishDelete(toDelete, fails)
     \/ /\ toDelete \notin stored /\ asked' = Nobody /\ toDelete' = Nobody
        /\ UNCHANGED <<screen, enabled, tasks, streams, current, offered, latest,
                       waiting>>
        /\ UNCHANGED storeVars
  /\ UNCHANGED <<exchanges, lines, strayed, nudged, clicks, answers>>

Declines ==
  /\ screen = "open" /\ enabled /\ asked # Nobody
  /\ asked' = Nobody /\ toDelete' = Nobody
  /\ UNCHANGED <<screen, enabled, tasks, exchanges, lines>>
  /\ UNCHANGED storeVars /\ UNCHANGED panelVars /\ UNCHANGED approvalVars

(***************************************************************************)
(* Answers                                                                 *)
(***************************************************************************)
(* _stream_response: the session is the one on the screen by now.          *)
StartsMessage ==
  /\ screen = "open" /\ tasks # <<>> /\ Head(tasks).does = "say"
  /\ tasks' = Tail(tasks)
  /\ streams' = streams \cup {[id |-> Head(tasks).id, session |-> active,
                               started |-> FALSE, items |-> 0, resumes |-> FALSE]}
  /\ UNCHANGED <<screen, asked, toDelete, enabled, exchanges, lines, current,
                 strayed, nudged>>
  /\ UNCHANGED storeVars /\ UNCHANGED approvalVars

(* on_button_pressed: the buttons go away.                                 *)
PressesButton(n, d) ==
  /\ screen = "open" /\ n \in offered
  /\ MoreInput
  /\ exchanges' = exchanges + 1 /\ offered' = offered \ {n}
  /\ clicks' = clicks \cup {<<n, d>>}
  /\ tasks' = Append(tasks, [does |-> d, of |-> n, id |-> exchanges + 1])
  /\ nudged' = (nudged \/ Busy)
  /\ UNCHANGED <<screen, asked, toDelete, enabled, lines, streams, current,
                 strayed, latest, waiting, answers>>
  /\ UNCHANGED storeVars

(* _submit_resume: the approval is submitted for the session on the screen *)
(* by now.  Only an execution that waits for this very approval takes it.  *)
TakesAny(n) == latest[active] \in waiting
Takes(n) == latest[active] = n /\ n \in waiting

StartsResume ==
  /\ screen = "open" /\ tasks # <<>> /\ Head(tasks).does \in {"allow", "deny"}
  /\ tasks' = Tail(tasks) /\ enabled' = FALSE
  /\ IF Takes(Head(tasks).of)
       THEN /\ answers' = answers \cup {<<latest[active], Head(tasks).does>>}
            /\ waiting' = waiting \ {latest[active]}
       ELSE UNCHANGED <<answers, waiting>>
  /\ streams' = streams \cup {[id |-> Head(tasks).id, session |-> active,
                               started |-> FALSE, items |-> 0, resumes |-> TRUE]}
  /\ UNCHANGED <<screen, asked, toDelete, exchanges, lines, latest, offered,
                 clicks, current, strayed, nudged>>
  /\ UNCHANGED storeVars

(* _consume_runtime_stream: the first token opens a message; a token goes  *)
(* to the message the panel has open, and to none when there is none.      *)
Token(x) ==
  /\ current' = IF x.started THEN current ELSE x.id
  /\ strayed' = IF current' = x.id THEN strayed ELSE strayed \cup {x.id}
  /\ streams' = (streams \ {x})
                  \cup {[x EXCEPT !.started = TRUE, !.items = @ + 1]}

(* A tool's output or an error is a message of its own.                    *)
OtherItem(x) ==
  /\ streams' = (streams \ {x}) \cup {[x EXCEPT !.items = @ + 1]}
  /\ UNCHANGED <<current, strayed>>

Consumes(x) ==
  /\ x.items < MaxItems
  /\ Token(x) \/ OtherItem(x)
  /\ UNCHANGED <<screen, asked, toDelete, enabled, tasks, exchanges, lines, nudged>>
  /\ UNCHANGED storeVars /\ UNCHANGED approvalVars

(* The end of the stream, or an exception of it, ends the message the      *)
(* panel has open and gives the input bar back.                            *)
RestoresIfStarted(x) == enabled' = (enabled \/ x.started)
Restores(x) == enabled' = TRUE

(* The turn is written to its session, which is made again if it is gone;  *)
(* a message that paused offers its approval, a resumed one does not.      *)
EndsStream(x) ==
  /\ streams' = streams \ {x} /\ current' = 0 /\ Restores(x)
  /\ stored' = stored \cup {x.session} /\ recalled' = recalled \cup {x.session}
  /\ IF x.resumes
       THEN UNCHANGED <<latest, waiting, offered>>
       ELSE /\ latest' = [latest EXCEPT ![x.session] = x.id]
            /\ \/ waiting' = waiting \cup {x.id} /\ offered' = offered \cup {x.id}
               \/ UNCHANGED <<waiting, offered>>
  /\ UNCHANGED <<screen, active, asked, toDelete, tasks, exchanges, lines, deleted,
                 excused, strayed, nudged, clicks, answers>>

TerminalNext ==
  \/ Says \/ PressesHelp \/ PressesClear \/ PressesQuit \/ Confirms \/ Declines
  \/ RunsCommand \/ StartsMessage \/ StartsResume
  \/ \E c \in ShellLines : Types(c)
  \/ \E n \in offered, d \in {"allow", "deny"} : PressesButton(n, d)
  \/ \E x \in streams : Consumes(x) \/ EndsStream(x)

(* The event loop runs every task that is ready, and the coordinator ends  *)
(* every execution, so every stream ends.                                  *)
TerminalFairness ==
  /\ WF_terminalVars(RunsCommand \/ StartsMessage \/ StartsResume)
  /\ \A n \in Exchanges :
       WF_terminalVars(\E x \in streams : x.id = n /\ EndsStream(x))

------------------------------------------------------------------------------
StreamRecords == [id : Exchanges, session : Sessions, started : BOOLEAN,
                  items : 0..MaxItems, resumes : BOOLEAN]

(* Every variable stays in its domain.                                     *)
TerminalTypeOK ==
  /\ screen \in {"open", "closed"} /\ active \in Sessions
  /\ stored \subseteq Sessions /\ recalled \subseteq Sessions
  /\ asked \in Sessions \cup {Nobody} /\ toDelete \in Sessions \cup {Nobody}
  /\ enabled \in BOOLEAN /\ nudged \in BOOLEAN
  /\ \A i \in DOMAIN tasks : tasks[i].id \in Exchanges \cup {0}
  /\ streams \subseteq StreamRecords /\ current \in Exchanges \cup {0}
  /\ latest \in [Sessions -> Exchanges \cup {0}]
  /\ waiting \subseteq Exchanges /\ offered \subseteq Exchanges
  /\ clicks \subseteq Exchanges \X {"allow", "deny"}
  /\ answers \subseteq Exchanges \X {"allow", "deny"}
  /\ deleted \subseteq Sessions /\ excused \subseteq deleted
  /\ strayed \subseteq Exchanges
  /\ exchanges \in 0..MaxInputs /\ lines \in 0..MaxInputs

(* The session on the screen is in the store, whatever was deleted,        *)
(* switched to or started while answers were running.                      *)
ActiveIsStored == screen = "open" => active \in stored

(* An execution is answered only with a button of its own approval, and    *)
(* with the decision on that button, though the submission names the       *)
(* session on the screen and not the execution that asked.                 *)
AnsweredAsPressed == answers \subseteq clicks

(* As long as no key or button was used while an answer ran, and no line   *)
(* was sent before the one ahead of it was taken up, every token is shown  *)
(* in the message of its own answer: no line typed in between starts a     *)
(* second answer beside the first.                                         *)
TokensStayTogether == strayed # {} => nudged

(* A deleted session leaves neither files nor conversation memories        *)
(* behind, unless an answer was running or a step of the deletion failed.  *)
DeletedIsGone == (deleted \cap (stored \cup recalled)) \subseteq excused

(* A session is removed only in answer to a question that named it and     *)
(* that no later command has superseded, although screen and router each   *)
(* remember the question on their own.                                     *)
DeletesOnlyTheAsked == [][\A s \in stored \ stored' : asked = s]_terminalVars

(* The input bar always comes back: no answer, error or command leaves the *)
(* user with a screen that takes no line.                                  *)
InputComesBack == ~enabled ~> (enabled \/ screen = "closed")

(* What the screen shows and does is about the session the user means: the *)
(* active session exists, an answer goes where it was pressed, tokens stay *)
(* with their answer, and only the session asked about is deleted, wholly. *)
TerminalSafe ==
  /\ [](/\ TerminalTypeOK /\ ActiveIsStored /\ AnsweredAsPressed
        /\ TokensStayTogether /\ DeletedIsGone)
  /\ DeletesOnlyTheAsked
==============================================================================

-------------------------- MODULE RequestPipeline --------------------------
(***************************************************************************)
(* SamakthaOrchestrator.run_pipeline and resume_pipeline, from the request *)
(* to the text its user reads, with the per-session working memory of the  *)
(* ConversationStateManager they read and write.  Up to the workflow and   *)
(* after it a request runs without giving up the event loop; while a       *)
(* workflow runs, or waits for an approval, other requests of the same     *)
(* session come and go.                                                    *)
(***************************************************************************)
EXTENDS Naturals, Sequences, FiniteSets

CONSTANTS
  Requests,
  Talks,       \* the conversation sessions
  Principals,
  NoRequest,
  Phrases,     \* the references in play, of those the resolver knows
  Resources,   \* the kinds of resource in play, document and code file
  MaxTalks     \* ConversationStateManager.max_sessions

(* The phrases of the ReferenceResolver; "literal" is a request with none, *)
(* or one that must not be rewritten.                                      *)
KnownPhrases ==
  {"literal", "continue", "elaborate", "results", "above", "document", "save", "run", "it"}

ASSUME PipelineAssumption ==
  /\ NoRequest \notin Requests
  /\ Phrases \subseteq KnownPhrases
  /\ Resources \subseteq {"document", "code"}
  /\ MaxTalks \in Nat \ {0}

VARIABLES
  req,      \* each request: where it is, whose it is, and what became of it
  talk,     \* ConversationState of each session
  recency,  \* the sessions that hold a state, the longest untouched first
  outcome   \* what the request that ended last showed and left to memory

pipelineVars == <<req, talk, recency, outcome>>

Fields == {"document", "code", "resource", "text", "tool", "results", "command"}

(* The fields of a fresh ConversationState name no request.  A resource,   *)
(* a text or a result is known by the request that brought it.             *)
FreshTalk ==
  [f \in Fields \cup {"pending", "intent"} |-> NoRequest]

NoText == "none"
Classes == {"plain", "sensitive", "credential"}
Idle ==
  [stage |-> "new", talk |-> NoRequest, owner |-> NoRequest, answers |-> NoRequest,
   target |-> NoRequest]

PipelineTypeOK ==
  /\ \A r \in Requests :
       /\ req[r].stage \in {"new", "running", "paused", "resumed", "ended"}
       /\ req[r].talk \in Talks \cup {NoRequest}
       /\ req[r].answers \in Requests \cup {NoRequest}
  /\ outcome.shown \in Classes \cup {NoText, "withheld", "redacted"}
  /\ outcome.stored \in Classes \cup {NoText, "withheld"}
  /\ talk \in [Talks -> [Fields \cup {"pending", "intent"} -> Requests \cup {NoRequest}]]
  /\ Len(recency) <= MaxTalks
  /\ \A i, j \in 1..Len(recency) : recency[i] = recency[j] => i = j
  /\ \A s \in Talks : (\A i \in 1..Len(recency) : recency[i] # s) => talk[s] = FreshTalk

PipelineInit ==
  /\ req = [r \in Requests |-> Idle]
  /\ talk = [s \in Talks |-> FreshTalk]
  /\ recency = <<>>
  /\ outcome = [shown |-> NoText, stored |-> NoText]

-----------------------------------------------------------------------------
(* ConversationStateManager                                                *)
Held == {recency[i] : i \in 1..Len(recency)}
Others(s) ==
  IF s \notin Held THEN recency
  ELSE LET place == CHOOSE i \in 1..Len(recency) : recency[i] = s
       IN  [i \in 1..(Len(recency) - 1) |->
              IF i < place THEN recency[i] ELSE recency[i + 1]]

(* Mutant: inserting a state does not bound the registry.                  *)
TouchedUnbounded(s) == Append(Others(s), s)

(* get_state inserts what is missing and evicts the longest untouched;     *)
(* every recording touches the state.                                      *)
Touched(s) ==
  LET q == Append(Others(s), s)
  IN  IF Len(q) > MaxTalks THEN Tail(q) ELSE q
Evicted(s) == Held \ {Touched(s)[i] : i \in 1..Len(Touched(s))}
Record(s, state) ==
  /\ recency' = Touched(s)
  /\ talk' = [x \in Talks |-> IF x = s THEN state
                            ELSE IF x \in Evicted(s) THEN FreshTalk ELSE talk[x]]

(* Mutant: the references of all sessions are one.                         *)
StateOfAny(s) ==
  IF recency = <<>> THEN talk[s]
  ELSE [talk[recency[Len(recency)]] EXCEPT !.pending = talk[s].pending]

StateOf(s) == talk[s]

(* available_to: a question is for the principal it was put to; the        *)
(* session is the state's own.                                             *)
Available(c, p) == c.pending # NoRequest /\ req[c.pending].owner = p

(* Mutant: the continuation is read and left in place.                     *)
ConsumedKept(c, p) == c

(* consume_pending_clarification, once; another principal leaves it.       *)
Consumed(c, p) ==
  IF Available(c, p) THEN [c EXCEPT !.pending = NoRequest] ELSE c

(* ReferenceResolver.resolve: which fields a phrase looks at, in order.    *)
(* Project, directory and repository phrases behave as "document" does on  *)
(* fields of their own; entities behave as "results".                      *)
Preference(ref) ==
  CASE ref = "continue"  -> <<"command", "resource">>
    [] ref = "elaborate" -> <<"document", "code", "resource", "text", "command">>
    [] ref = "results"   -> <<"results">>
    [] ref = "above"     -> <<"results", "tool", "text">>
    [] ref = "document"  -> <<"document", "code">>
    [] ref = "save"      -> <<"text", "document", "code", "command", "resource">>
    [] ref = "run"       -> <<"text", "command", "document", "code", "resource">>
    [] ref = "it"        -> <<"document", "code", "text", "command", "resource">>
    [] OTHER             -> <<>>
ResolvedField(ref, c) ==
  LET fields == Preference(ref)
      found == {i \in 1..Len(fields) : c[fields[i]] # NoRequest}
  IN  IF found = {} THEN NoText
      ELSE fields[CHOOSE i \in found : \A j \in found : i <= j]

(* record_request and record_goal: a goal that reads makes its resource    *)
(* the active document or code file and forgets the other.                 *)
Goals == {"chat"} \cup Resources
Noted(c, r, goal) ==
  LET d == [c EXCEPT !.command = r]
  IN  CASE goal = "document" ->
             [d EXCEPT !.document = r, !.code = NoRequest, !.resource = r]
        [] goal = "code" ->
             [d EXCEPT !.code = r, !.document = NoRequest, !.resource = r]
        [] OTHER -> d

-----------------------------------------------------------------------------
Ended(r) == req' = [req EXCEPT ![r].stage = "ended"]

(* The security scan, or the want of a provider, ends a request before     *)
(* it touches anything.                                                    *)
Blocked(r) ==
  /\ req[r].stage = "new"
  /\ Ended(r) /\ UNCHANGED <<talk, recency, outcome>>

(* The request is merged with the question it answers, or its references   *)
(* are resolved; it is recorded, parsed and planned.                       *)
Entered(r, s, p, ref) ==
  LET c == StateOf(s)
      merges == Available(c, p)
      field == IF merges THEN NoText ELSE ResolvedField(ref, c)
  IN  [req[r] EXCEPT !.talk = s, !.owner = p,
         !.answers = IF merges THEN c.pending ELSE NoRequest,
         !.target = IF field = NoText THEN NoRequest ELSE c[field]]
AfterEntry(r, s, p, goal) == Noted(Consumed(StateOf(s), p), r, goal)

(* Missing arguments, found by the goal parser or by the planner: the      *)
(* request ends and its question waits for the next one.                   *)
Asks(r, s, p, ref, goal) ==
  /\ req[r].stage = "new"
  /\ Record(s, [AfterEntry(r, s, p, goal) EXCEPT !.pending = r])
  /\ req' = [req EXCEPT ![r] = [Entered(r, s, p, ref) EXCEPT !.stage = "ended"]]
  /\ UNCHANGED outcome

(* CAP denies the request, or no capability serves it.                     *)
Refuses(r, s, p, ref, goal) ==
  /\ req[r].stage = "new"
  /\ Record(s, AfterEntry(r, s, p, goal))
  /\ req' = [req EXCEPT ![r] = [Entered(r, s, p, ref) EXCEPT !.stage = "ended"]]
  /\ UNCHANGED outcome

(* The plan is made, its permits are attached and its workflow starts.     *)
Starts(r, s, p, ref, goal) ==
  /\ req[r].stage = "new"
  /\ Record(s, AfterEntry(r, s, p, goal))
  /\ req' = [req EXCEPT ![r] = [Entered(r, s, p, ref) EXCEPT !.stage = "running"]]
  /\ UNCHANGED outcome

(* The workflow waits for an approval; so may a resumed one.               *)
Pauses(r) ==
  /\ req[r].stage \in {"running", "resumed"}
  /\ req' = [req EXCEPT ![r].stage = "paused"]
  /\ Record(req[r].talk, StateOf(req[r].talk)) /\ UNCHANGED outcome
Resumes(r) ==
  /\ req[r].stage = "paused"
  /\ req' = [req EXCEPT ![r].stage = "resumed"]
  /\ UNCHANGED <<talk, recency, outcome>>

-----------------------------------------------------------------------------
(* record_outputs, over the raw outputs of the workflow.  A generated text *)
(* is the last one only while the session has no search result.            *)
Kinds == {"content", "tool", "search"}
Paths == {NoText} \cup Resources
Observed(c, r, kind, path) ==
  LET withPath == IF path = NoText THEN c
                  ELSE [c EXCEPT ![path] = r, !.resource = r]
  IN  CASE kind = "content" ->
             IF c.results = NoRequest THEN [withPath EXCEPT !.text = r] ELSE withPath
        [] kind = "search" ->
             [withPath EXCEPT !.results = r, !.text = r, !.intent = c.command]
        [] OTHER -> [withPath EXCEPT !.tool = r]

(* Mutant: a resumed request skips the privacy filter.                     *)
WithheldOnce(r, kind, class) ==
  IF kind = "content" /\ class = "sensitive" /\ req[r].stage = "running"
  THEN "withheld" ELSE class

(* The privacy classifier looks at provider text only.                     *)
Withheld(r, kind, class) ==
  IF kind = "content" /\ class = "sensitive" THEN "withheld" ELSE class

(* _apply_output_security: the last step, on the whole output.             *)
Filtered(kind, text) == IF text = "credential" THEN "redacted" ELSE text

(* Mutant: memory is formed from the raw output.                           *)
FormedRaw(r, kind, class) == class

(* The memory formation sees the text as it is after the privacy filter.   *)
Formed(r, kind, class) == Withheld(r, kind, class)

(* What the tails of run_pipeline and resume_pipeline do with the outputs. *)
Delivers(r, kind, class, path) ==
  /\ Record(req[r].talk, Observed(StateOf(req[r].talk), r, kind, path))
  /\ Ended(r)
  /\ outcome' = [shown  |-> Filtered(kind, Withheld(r, kind, class)),
                 stored |-> IF kind = "content" THEN Formed(r, kind, class) ELSE NoText]

Completes(r, kind, class, path) ==
  req[r].stage = "running" /\ Delivers(r, kind, class, path)
CompletesResumed(r, kind, class, path) ==
  req[r].stage = "resumed" /\ Delivers(r, kind, class, path)

(* The workflow raises, or ends without an output.                         *)
Raises(r) ==
  /\ req[r].stage \in {"running", "resumed"}
  /\ Ended(r) /\ UNCHANGED <<talk, recency, outcome>>

(* CommandRouter: a new or a deleted session starts afresh; a question     *)
(* also lapses after its ten minutes, when the next request looks at it.   *)
Forget(s) ==
  /\ s \in Held
  /\ recency' = Others(s) /\ talk' = [talk EXCEPT ![s] = FreshTalk]
  /\ UNCHANGED <<req, outcome>>
Lapse(s) ==
  /\ talk[s].pending # NoRequest
  /\ talk' = [talk EXCEPT ![s].pending = NoRequest]
  /\ UNCHANGED <<req, recency, outcome>>

PipelineNext ==
  \/ \E r \in Requests : Blocked(r) \/ Pauses(r) \/ Resumes(r) \/ Raises(r)
  \/ \E r \in Requests, s \in Talks, p \in Principals, ref \in Phrases, goal \in Goals :
       Asks(r, s, p, ref, goal) \/ Refuses(r, s, p, ref, goal) \/ Starts(r, s, p, ref, goal)
  \/ \E r \in Requests, kind \in Kinds, class \in Classes, path \in Paths :
       Completes(r, kind, class, path) \/ CompletesResumed(r, kind, class, path)
  \/ \E s \in Talks : Forget(s) \/ Lapse(s)

PipelineSpec == PipelineInit /\ [][PipelineNext]_pipelineVars

-----------------------------------------------------------------------------
(* A question is answered at most once, by the principal and in the        *)
(* session it was put to, however the requests of a session overlap.       *)
AnsweredOnceByItsOwner ==
  \A r \in Requests : req[r].answers # NoRequest =>
    /\ req[r].talk = req[req[r].answers].talk /\ req[r].owner = req[req[r].answers].owner
    /\ \A q \in Requests : req[q].answers = req[r].answers => q = r

(* A reference such as "it" resolves to nothing another session said, read *)
(* or found, whatever was evicted or forgotten in between.                 *)
ReferencesStayInSession ==
  \A r \in Requests : req[r].target # NoRequest => req[req[r].target].talk = req[r].talk

(* No path, first run or resumption, shows its user provider text CAP      *)
(* classified as sensitive, or a credential in any output.                 *)
ShownIsFiltered ==
  /\ outcome.shown # "credential"
  /\ outcome.stored # NoText => outcome.shown # "sensitive"

(* No provider text that CAP withheld from the user is formed into memory. *)
WithheldIsNotFormed == outcome.stored # "sensitive"

(* Requests of several sessions and principals in flight: references and   *)
(* questions stay with their owner, and what a filter withheld is neither  *)
(* shown nor remembered.                                                   *)
PipelineSafe ==
  /\ PipelineTypeOK /\ ReferencesStayInSession /\ AnsweredOnceByItsOwner
  /\ ShownIsFiltered /\ WithheldIsNotFormed
=============================================================================

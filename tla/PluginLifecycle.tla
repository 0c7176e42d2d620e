--------------------------- MODULE PluginLifecycle ---------------------------
(***************************************************************************)
(* PluginManager (app/plugins/manager.py) over its record registry, the    *)
(* tool registry it contributes to and the activity tracker of running     *)
(* tool calls.  The manager runs on one event loop and gives it up only    *)
(* while it awaits a plugin's start or stop hook: an operation is the      *)
(* segments between those awaits, and "turn" names the operation that is   *)
(* in the middle of a segment.                                             *)
(***************************************************************************)
EXTENDS Naturals, Sequences, FiniteSets

CONSTANTS
  Plugins,     \* plugin ids, each with one version
  Tools,       \* tool ids (a capability contribution is registered likewise)
  Operators,   \* callers of the manager; one: operations never overlap
  NoOne,
  ToolsOf,     \* plugin -> the tools it contributes, in order
  DependsOn,   \* plugin -> the plugins its manifest requires, in order
  MaxCalls     \* bound on the calls of one tool that run at a time

ASSUME PluginAssumption ==
  /\ IsFiniteSet(Plugins) /\ IsFiniteSet(Operators) /\ MaxCalls \in Nat
  /\ NoOne \notin Plugins /\ NoOne \notin Operators
  /\ ToolsOf \in [Plugins -> Seq(Tools)]
  /\ DependsOn \in [Plugins -> Seq(Plugins)]

VARIABLES
  state,          \* record.state; "absent": no record
  enabled,        \* record.enabled
  contributions,  \* record.contributions, as a set of tools
  instance,       \* record.plugin: none, or the hook that was called on it last
  registry,       \* the tool registry: tool -> the plugin of its adapter
  calls,          \* PluginActivityTracker._counts
  op,             \* the operation each operator awaits
  turn            \* the operation that runs and has not reached an await

vars == <<state, enabled, contributions, instance, registry, calls, op, turn>>

States == {"absent", "registered", "installed", "enabled", "loading", "loaded",
           "active", "unloading", "unloaded", "failed", "disabled",
           "uninstalled"}
Loaded == {"loaded", "active"}

(* An operation: todo are the plugins a load has still to load, now is the  *)
(* one whose start it awaits; old, had and kept are the snapshot a reload   *)
(* puts back.                                                               *)
NoOp == [kind |-> "none", target |-> NoOne, todo |-> {}, at |-> "idle",
         now |-> NoOne, old |-> "absent", had |-> FALSE, kept |-> {}]
Op   == [kind: {"none", "load", "unload", "reload", "activate", "deactivate"},
         target: Plugins \cup {NoOne}, todo: SUBSET Plugins,
         at: {"idle", "stop", "load", "next", "start"},
         now: Plugins \cup {NoOne}, old: States, had: BOOLEAN, kept: SUBSET Tools]

TypeOK ==
  /\ state \in [Plugins -> States]
  /\ enabled \in [Plugins -> BOOLEAN]
  /\ contributions \in [Plugins -> SUBSET Tools]
  /\ instance \in [Plugins -> {"none", "started", "stopped"}]
  /\ registry \in [Tools -> Plugins \cup {NoOne}]
  /\ calls \in [Tools -> 0..MaxCalls]
  /\ op \in [Operators -> Op]
  /\ turn \in Operators \cup {NoOne}

Init ==
  /\ state = [p \in Plugins |-> "absent"]
  /\ enabled = [p \in Plugins |-> FALSE]
  /\ contributions = [p \in Plugins |-> {}]
  /\ instance = [p \in Plugins |-> "none"]
  /\ registry = [t \in Tools |-> NoOne]
  /\ calls = [t \in Tools |-> 0]
  /\ op = [o \in Operators |-> NoOp]
  /\ turn = NoOne

-----------------------------------------------------------------------------
(* Dependencies *)

Registered == {p \in Plugins : state[p] # "absent"}
Elements(s) == {s[i] : i \in DOMAIN s}

(* _select_dependency_keys: "selected" holds one key for each record, so of *)
(* several dependencies the last is kept.                                   *)
Selected(p) ==
  IF DependsOn[p] = <<>> THEN {} ELSE {DependsOn[p][Len(DependsOn[p])]}

(* The target and what it transitively needs.                              *)
Closure ==
  [p \in Plugins |->
     {q \in Plugins : \A S \in SUBSET Plugins :
        (p \in S /\ \A x \in S : Selected(x) \subseteq S) => q \in S}]

(* Every dependency of every record is registered, and the target's chain  *)
(* ends.                                                                   *)
Resolves(p) ==
  /\ \A q \in Registered : Elements(DependsOn[q]) \subseteq Registered
  /\ \E q \in Closure[p] : Selected(q) = {}

(* Mutant: a deactivated dependent does not count.                        *)
ActiveDependents(p) ==
  {q \in Registered \ {p} : p \in Elements(DependsOn[q]) /\ state[q] = "active"}

LoadedDependents(p) ==
  {q \in Registered \ {p} : p \in Elements(DependsOn[q]) /\ state[q] \in Loaded}

-----------------------------------------------------------------------------
(* Contributions *)

(* Mutant: a taken id is overwritten.                                      *)
NeverTaken(p, reg) == {}

(* _register_contributions in the order of the list: stops at the first    *)
(* tool id that is taken, and keeps what it registered before.             *)
Taken(p, reg) == {i \in DOMAIN ToolsOf[p] : reg[ToolsOf[p][i]] # NoOne}
Added(p, reg) ==
  {ToolsOf[p][i] : i \in {j \in DOMAIN ToolsOf[p] :
                            \A k \in Taken(p, reg) : j < k}}
RegisterAll(p, reg) ==
  [t \in Tools |-> IF t \in Added(p, reg) THEN p ELSE reg[t]]
Unregister(S, reg) == [t \in Tools |-> IF t \in S THEN NoOne ELSE reg[t]]

InUse(p) == \E t \in contributions[p] : calls[t] > 0

-----------------------------------------------------------------------------
(* How an operation ends or goes on *)

MayCall(o) == turn = NoOne /\ op[o] = NoOp

Caller == \E o \in Operators : MayCall(o)

Finish(o) == op' = [op EXCEPT ![o] = NoOp] /\ turn' = NoOne

(* _rollback_reload: the old instance, which unload has stopped, becomes   *)
(* the record's plugin again.                                              *)
Rollback(o, st, reg) ==
  LET p    == op[o].target
      bare == Unregister(op[o].kept, reg)
      had  == op[o].had
      ok   == ~had \/ Taken(p, bare) = {}
  IN  /\ registry' = IF had THEN RegisterAll(p, bare) ELSE bare
      /\ state' = [st EXCEPT ![p] = IF ok THEN op[o].old ELSE "failed"]
      /\ contributions' =
           IF ok THEN [contributions EXCEPT ![p] =
                         IF had THEN Elements(ToolsOf[p]) ELSE {}]
                 ELSE contributions
      /\ instance' = IF ok THEN [instance EXCEPT ![p] =
                                   IF had THEN "stopped" ELSE "none"]
                           ELSE instance

(* A load raises: what it registered stays registered, and a reload rolls  *)
(* its target back if the error is a PluginLoadError.                      *)
Raise(o, st, reg, error) ==
  /\ IF op[o].kind = "reload" /\ error = "PluginLoadError"
     THEN Rollback(o, st, reg)
     ELSE /\ state' = st /\ registry' = reg
          /\ UNCHANGED <<contributions, instance>>
  /\ Finish(o)

-----------------------------------------------------------------------------
(* load *)

(* Up to the loop over the dependencies.                                   *)
Load(o, p, auto) ==
  /\ MayCall(o) /\ p \in Registered
  /\ enabled[p] /\ state[p] \notin Loaded \cup {"loading"}
  /\ IF /\ Resolves(p)
        /\ auto \/ \A q \in Closure[p] \ {p} : state[q] \in Loaded
     THEN /\ op' = [op EXCEPT ![o] = [NoOp EXCEPT !.kind = "load", !.target = p,
                                        !.todo = Closure[p], !.at = "next"]]
          /\ turn' = o /\ UNCHANGED state
     ELSE /\ state' = [state EXCEPT ![p] = "failed"]
          /\ UNCHANGED <<op, turn>>
  /\ UNCHANGED <<enabled, contributions, instance, registry, calls>>

(* reload has unloaded its target and calls load.                          *)
ReloadLoads(o) ==
  LET p == op[o].target
  IN  /\ turn = o /\ op[o].at = "load"
      /\ \/ /\ enabled[p] /\ Resolves(p)
            /\ op' = [op EXCEPT ![o].todo = Closure[p], ![o].at = "next"]
            /\ UNCHANGED <<state, registry, contributions, instance, turn>>
         \/ /\ ~enabled[p] /\ Raise(o, state, registry, "PluginLoadError")
         \/ /\ enabled[p] /\ ~Resolves(p)
            /\ Raise(o, [state EXCEPT ![p] = "failed"], registry,
                     "PluginLoadError")
      /\ UNCHANGED <<enabled, calls>>

(* The plugin whose dependency is no longer to be loaded comes next.       *)
NextUp(o) == {k \in op[o].todo : Selected(k) \cap op[o].todo = {}}

(* A dependency that is loaded, or that another operation is loading.      *)
SkipDependency(o) ==
  /\ turn = o /\ op[o].at = "next"
  /\ \E k \in NextUp(o) \ {op[o].target} :
       /\ \/ state[k] \in Loaded
          \/ enabled[k] /\ state[k] = "loading"
       /\ op' = [op EXCEPT ![o].todo = @ \ {k}]
  /\ UNCHANGED <<state, enabled, contributions, instance, registry, calls, turn>>

(* The nested load of a dependency is refused.                             *)
DependencyRefused(o) ==
  /\ turn = o /\ op[o].at = "next"
  /\ \E k \in NextUp(o) \ {op[o].target} :
       /\ state[k] \notin Loaded
       /\ \/ ~enabled[k] /\ Raise(o, state, registry, "PluginLoadError")
          \/ /\ enabled[k] /\ state[k] # "loading" /\ ~Resolves(k)
             /\ Raise(o, [state EXCEPT ![k] = "failed"], registry,
                      "PluginLoadError")
  /\ UNCHANGED <<enabled, calls>>

MayLoad(o, k) ==
  \/ k = op[o].target
  \/ enabled[k] /\ state[k] \notin Loaded \cup {"loading"} /\ Resolves(k)

(* _load_single up to the await of start.  The entry may fail to import or *)
(* to validate, or break a boundary (PluginIsolationError), before its     *)
(* contributions are registered.                                           *)
LoadSingle(o) ==
  /\ turn = o /\ op[o].at = "next"
  /\ \E k \in NextUp(o) :
       /\ MayLoad(o, k)
       /\ \/ \E error \in {"PluginLoadError", "PluginIsolationError"} :
               Raise(o, [state EXCEPT ![k] = "failed"], registry, error)
          \/ /\ Taken(k, registry) # {}
             /\ Raise(o, [state EXCEPT ![k] = "failed"],
                      RegisterAll(k, registry), "PluginLoadError")
          \/ /\ Taken(k, registry) = {}
             /\ state' = [state EXCEPT ![k] = "loading"]
             /\ registry' = RegisterAll(k, registry)
             /\ op' = [op EXCEPT ![o].at = "start", ![o].now = k] /\ turn' = NoOne
             /\ UNCHANGED <<contributions, instance>>
  /\ UNCHANGED <<enabled, calls>>

(* _load_single after start returned.                                      *)
LoadStarted(o) ==
  LET k == op[o].now
  IN  /\ turn = NoOne /\ op[o].kind \in {"load", "reload"} /\ op[o].at = "start"
      /\ state' = [state EXCEPT ![k] = "active"]
      /\ contributions' = [contributions EXCEPT ![k] = Elements(ToolsOf[k])]
      /\ instance' = [instance EXCEPT ![k] = "started"]
      /\ IF k = op[o].target THEN Finish(o)
         ELSE /\ op' = [op EXCEPT ![o].todo = @ \ {k}, ![o].at = "next"]
              /\ turn' = o
      /\ UNCHANGED <<enabled, registry, calls>>

(* _load_single after start raised.                                        *)
StartRaises(o) ==
  /\ turn = NoOne /\ op[o].kind \in {"load", "reload"} /\ op[o].at = "start"
  /\ Raise(o, [state EXCEPT ![op[o].now] = "failed"], registry, "PluginLoadError")
  /\ UNCHANGED <<enabled, calls>>

-----------------------------------------------------------------------------
(* unload and reload *)

(* Mutant: running calls do not hold an unload back.                       *)
MayUnloadInUse(p) ==
  /\ state[p] \notin {"absent", "unloaded", "loading"}
  /\ LoadedDependents(p) = {}

MayUnload(p) ==
  /\ state[p] \notin {"absent", "unloaded", "loading"}
  /\ LoadedDependents(p) = {} /\ ~InUse(p)

(* What unload does once stop has returned.                                *)
Unloaded(p) ==
  /\ registry' = Unregister(contributions[p], registry)
  /\ contributions' = [contributions EXCEPT ![p] = {}]
  /\ instance' = [instance EXCEPT ![p] = "none"]

(* unload, or the unload in reload, up to the await of stop; a record      *)
(* without an instance has nothing to stop.  reload returns early in       *)
(* unload for a plugin that is unloaded already.                           *)
Unload(o, p, kind) ==
  /\ MayCall(o)
  /\ op' = [op EXCEPT ![o] = [NoOp EXCEPT !.kind = kind, !.target = p,
                                !.at = "stop", !.old = state[p],
                                !.had = instance[p] # "none",
                                !.kept = contributions[p]]]
  /\ \/ /\ MayUnload(p)
        /\ state' = [state EXCEPT ![p] = "unloading"]
        /\ turn' = IF instance[p] = "none" THEN o ELSE NoOne
     \/ /\ kind = "reload" /\ state[p] = "unloaded"
        /\ LoadedDependents(p) = {}
        /\ turn' = o /\ UNCHANGED state
  /\ UNCHANGED <<enabled, contributions, instance, registry, calls>>

(* stop returned (or there was nothing to stop).                           *)
StopReturns(o) ==
  LET p == op[o].target
  IN  /\ op[o].kind \in {"unload", "reload"} /\ op[o].at = "stop"
      /\ turn \in {NoOne, o}
      /\ Unloaded(p) /\ state' = [state EXCEPT ![p] = "unloaded"]
      /\ IF op[o].kind = "unload" THEN Finish(o)
         ELSE op' = [op EXCEPT ![o].at = "load"] /\ turn' = o
      /\ UNCHANGED <<enabled, calls>>

(* stop raised: the contributions stay, and a reload ends here too.        *)
StopRaises(o) ==
  /\ op[o].kind \in {"unload", "reload"} /\ op[o].at = "stop" /\ turn = NoOne
  /\ state' = [state EXCEPT ![op[o].target] = "failed"]
  /\ Finish(o)
  /\ UNCHANGED <<enabled, contributions, instance, registry, calls>>

-----------------------------------------------------------------------------
(* activate and deactivate: the hook runs again on the record's instance.  *)
(* (activate of an unloaded or failed plugin is Load.)                     *)

Hook(o, p, kind) ==
  /\ MayCall(o)
  /\ \/ kind = "activate" /\ state[p] = "loaded"
     \/ kind = "deactivate" /\ state[p] = "active"
  /\ op' = [op EXCEPT ![o] =
             [NoOp EXCEPT !.kind = kind, !.target = p,
                !.at = IF kind = "activate" THEN "start" ELSE "stop"]]
  /\ UNCHANGED <<state, enabled, contributions, instance, registry, calls, turn>>

HookReturns(o) ==
  LET p == op[o].target
  IN  /\ op[o].kind \in {"activate", "deactivate"} /\ turn = NoOne
      /\ state' = [state EXCEPT ![p] =
                     IF op[o].kind = "activate" THEN "active" ELSE "loaded"]
      /\ instance' = [instance EXCEPT ![p] =
                        IF @ = "none" THEN @
                        ELSE IF op[o].kind = "activate" THEN "started"
                                                        ELSE "stopped"]
      /\ Finish(o)
      /\ UNCHANGED <<enabled, contributions, registry, calls>>

HookRaises(o) ==
  /\ op[o].kind \in {"activate", "deactivate"} /\ turn = NoOne
  /\ Finish(o)
  /\ UNCHANGED <<state, enabled, contributions, instance, registry, calls>>

-----------------------------------------------------------------------------
(* The operations that never await *)

(* discover registers a manifest; load_directory goes on with Load.        *)
Discover(p) ==
  /\ Caller /\ state[p] = "absent"
  /\ state' = [state EXCEPT ![p] = "registered"]
  /\ UNCHANGED <<enabled, contributions, instance, registry, calls, op, turn>>

(* load_directory_safe: asyncio is not imported at module level, so each   *)
(* discovered plugin ends in the handler of unexpected errors.             *)
LoadDirectorySafe(p) ==
  /\ Caller /\ state[p] = "absent"
  /\ state' = [state EXCEPT ![p] = "failed"]
  /\ UNCHANGED <<enabled, contributions, instance, registry, calls, op, turn>>

Install(p) ==
  /\ Caller
  /\ state[p] \notin Loaded \cup {"absent", "installed", "enabled"}
  /\ state' = [state EXCEPT ![p] = "installed"]
  /\ UNCHANGED <<enabled, contributions, instance, registry, calls, op, turn>>

Enable(p) ==
  /\ Caller
  /\ state[p] \notin {"absent", "uninstalled"} /\ ~enabled[p]
  /\ enabled' = [enabled EXCEPT ![p] = TRUE]
  /\ state' = [state EXCEPT ![p] = "enabled"]
  /\ UNCHANGED <<contributions, instance, registry, calls, op, turn>>

(* asyncio.run raises inside a running loop: disable and uninstall of a    *)
(* loaded plugin get past it only while no operation and no tool runs.     *)
LoopIdle ==
  /\ turn = NoOne /\ op = [o \in Operators |-> NoOp]
  /\ \A t \in Tools : calls[t] = 0

(* disable (flag = FALSE) and uninstall share the unload of a loaded one;  *)
(* its stop hook may raise.                                                *)
Retire(p, to, flag) ==
  /\ Caller
  /\ IF state[p] \in Loaded \cup {"loading"}
     THEN /\ LoopIdle /\ MayUnload(p) /\ Unloaded(p)
     ELSE UNCHANGED <<registry, contributions, instance>>
  /\ state' = [state EXCEPT ![p] = to]
  /\ enabled' = [enabled EXCEPT ![p] = flag]
  /\ UNCHANGED <<calls, op, turn>>

RetireStopRaises(p) ==
  /\ LoopIdle /\ state[p] \in Loaded /\ MayUnload(p)
  /\ state' = [state EXCEPT ![p] = "failed"]
  /\ UNCHANGED <<enabled, contributions, instance, registry, calls, op, turn>>

(* Mutant: disable clears the flag and leaves the plugin loaded.           *)
DisableKeepsLoaded(p) ==
  /\ Caller /\ enabled[p] /\ enabled' = [enabled EXCEPT ![p] = FALSE]
  /\ UNCHANGED <<state, contributions, instance, registry, calls, op, turn>>

Disable(p) == enabled[p] /\ Retire(p, "disabled", FALSE)

Uninstall(p) ==
  /\ state[p] # "absent" /\ Retire(p, "uninstalled", enabled[p])

-----------------------------------------------------------------------------
(* PluginToolAdapter.run: the runtime calls a registered tool *)

CallBegins(t) ==
  /\ turn = NoOne /\ registry[t] # NoOne /\ calls[t] < MaxCalls
  /\ calls' = [calls EXCEPT ![t] = @ + 1]
  /\ UNCHANGED <<state, enabled, contributions, instance, registry, op, turn>>

(* Mutant: an end without its begin counts.                                *)
EndUnmatched(t) ==
  /\ turn = NoOne /\ calls' = [calls EXCEPT ![t] = @ - 1]
  /\ UNCHANGED <<state, enabled, contributions, instance, registry, op, turn>>

CallEnds(t) ==
  /\ turn = NoOne /\ calls[t] > 0
  /\ calls' = [calls EXCEPT ![t] = @ - 1]
  /\ UNCHANGED <<state, enabled, contributions, instance, registry, op, turn>>

-----------------------------------------------------------------------------

Next ==
  \/ \E o \in Operators :
       \/ \E p \in Plugins :
            \/ \E auto \in BOOLEAN : Load(o, p, auto)
            \/ \E kind \in {"unload", "reload"} : Unload(o, p, kind)
            \/ \E kind \in {"activate", "deactivate"} : Hook(o, p, kind)
       \/ ReloadLoads(o) \/ SkipDependency(o) \/ DependencyRefused(o)
       \/ LoadSingle(o) \/ LoadStarted(o) \/ StartRaises(o)
       \/ StopReturns(o) \/ StopRaises(o) \/ HookReturns(o) \/ HookRaises(o)
  \/ \E p \in Plugins :
       \/ Discover(p) \/ LoadDirectorySafe(p) \/ Install(p) \/ Enable(p)
       \/ Disable(p) \/ Uninstall(p) \/ RetireStopRaises(p)
  \/ \E t \in Tools : CallBegins(t) \/ CallEnds(t)

Spec == Init /\ [][Next]_vars

-----------------------------------------------------------------------------
(* Properties *)

(* A loaded plugin has every dependency of its manifest loaded: load       *)
(* resolves them first and unload, reload, disable and uninstall refuse a  *)
(* plugin with loaded dependents.                                          *)
DependenciesLoaded ==
  \A p \in Plugins : state[p] \in Loaded =>
    \A q \in Elements(DependsOn[p]) : state[q] \in Loaded

(* Only an enabled plugin is loaded: load checks the flag, and disable     *)
(* unloads before it clears it (require_explicit_enable).                  *)
LoadedIsEnabled == \A p \in Plugins : state[p] \in Loaded => enabled[p]

(* A loaded plugin's record lists exactly the tools it contributes, and    *)
(* all of them are in the registry as its own; no other plugin's load,     *)
(* failed or not, displaces them.                                          *)
LoadedOwnsItsTools ==
  \A p \in Plugins : state[p] \in Loaded =>
    /\ contributions[p] = Elements(ToolsOf[p])
    /\ \A t \in contributions[p] : registry[t] = p

(* An unload takes a loaded plugin down only while no tool that the        *)
(* registry holds under its name is being called, although the check goes  *)
(* by the record's list and calls come at any time.                        *)
UnloadSparesCalls ==
  [][\A p \in Plugins :
       state[p] \in Loaded /\ state'[p] = "unloading" =>
         \A t \in Tools : registry[t] = p => calls[t] = 0]_vars

(* A loaded plugin is enabled, has its dependencies and owns the tools it  *)
(* registered, through failing loads and reloads, and none is unloaded     *)
(* under a call.                                                           *)
PluginSafe ==
  /\ [](/\ TypeOK /\ DependenciesLoaded /\ LoadedIsEnabled
        /\ LoadedOwnsItsTools)
  /\ UnloadSparesCalls
=============================================================================

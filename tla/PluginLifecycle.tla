-------------------------- MODULE PluginLifecycle ---------------------------
(***************************************************************************)
(* The plugin runtime of core/plugin-runtime with the two sensor plugins:  *)
(* the loader and the registry, the lifecycle states, and what initialize, *)
(* shutdown and health do in csi-replay and synthetic-sensor.  A plugin    *)
(* may be stopped and started again, and unregistered and registered       *)
(* again, while the producer task of an earlier start, whose abort takes   *)
(* effect only at an await, still runs.                                    *)
(*                                                                         *)
(* Of a producer only what it shares with its plugin is kept: the data     *)
(* path, the flags and the statistics.  CsiPipeline has its loop in full.  *)
(***************************************************************************)
EXTENDS Naturals, Sequences

CONSTANTS
  Plugin,         \* plugin identifiers
  Replay,         \* those of csi-replay plugins, the others are synthetic
  FactoryLists,   \* the factory lists that a loader may hold
  MaxStarts,      \* bound: producer tasks spawned
  MaxInstances    \* bound: instances created of a plugin

\* A factory announces an identifier and creates a plugin, which has another
\* identifier when the factory is wrong, or fails.
Factory == [announces : Plugin, creates : Plugin \cup {"error"}]

ASSUME PluginConfig ==
  /\ Replay \subseteq Plugin
  /\ FactoryLists \subseteq Seq(Factory)
  /\ MaxStarts \in Nat /\ MaxInstances \in Nat

VARIABLES
  loader,     \* load_into: its factories, the next of them, and what it has done
  registry,   \* the plugins registered
  states,     \* their lifecycle states, "none" for a plugin that has none
  instance,   \* the fields of each plugin's current instance
  stats,      \* the replay statistics, shared by the instances of a plugin
  tasks       \* the producer tasks spawned, in order

vars == <<loader, registry, states, instance, stats, tasks>>

\* "initialized" is never entered: start goes on to "running".
Lifecycle == {"none", "registered", "running", "stopped", "failed"}

\* A plugin's fields: which of its instances it is, its task handle (0 when
\* taken), whether it holds the data-path sender, and two shared flags.
Instance == [no : Nat, task : Nat, tx : BOOLEAN, alive : BOOLEAN, failed : BOOLEAN]

Completion == {"idle", "active", "completed", "failed", "stopped"}
Stats == [completion : Completion, has_frame : BOOLEAN]

Task == [of : Plugin, no : Nat, pc : {"check", "produce", "sleep", "close", "finish", "gone"},
         aborted : BOOLEAN, cancelled : BOOLEAN, tx : BOOLEAN, clean : BOOLEAN, sampled : BOOLEAN]

\* load_into's loop: the factory it is at, and its registry, count and result.
Loaded == [registry : SUBSET Plugin, loaded : Nat, ok : BOOLEAN]
Loader == [factories : FactoryLists, next : Nat \ {0}, built : BOOLEAN, result : Loaded]

-----------------------------------------------------------------------------
(***************************************************************************)
(* The loader                                                              *)
(***************************************************************************)

\* Mutant: a factory that errs is skipped, and the load goes on.
LoadStepLenient(result, f) ==
  IF f.creates = f.announces /\ f.creates \notin result.registry
  THEN [registry |-> result.registry \cup {f.creates}, loaded |-> result.loaded + 1, ok |-> TRUE]
  ELSE result

\* One factory's plugin is created, compared and registered, or is an error.
LoadStep(result, f) ==
  IF f.creates = f.announces /\ f.creates \notin result.registry
  THEN [registry |-> result.registry \cup {f.creates}, loaded |-> result.loaded + 1, ok |-> TRUE]
  ELSE [registry |-> result.registry, loaded |-> result.loaded, ok |-> FALSE]

\* CsiReplayPlugin::with_stats_and_frame_tx; a synthetic sensor is the same
\* without a data path.
Created(p, no) ==
  [no |-> no, task |-> 0, tx |-> p \in Replay, alive |-> FALSE, failed |-> FALSE]

NoInstance == [no |-> 0, task |-> 0, tx |-> FALSE, alive |-> FALSE, failed |-> FALSE]

\* The loader has its factories, the registry is empty, and there is no plugin
\* runtime yet.
Init ==
  /\ \E factories \in FactoryLists :
       loader = [factories |-> factories, next |-> 1, built |-> FALSE,
                 result |-> [registry |-> {}, loaded |-> 0, ok |-> TRUE]]
  /\ registry = {}
  /\ states = [p \in Plugin |-> "none"]
  /\ instance = [p \in Plugin |-> NoInstance]
  /\ stats = [p \in Plugin |-> [completion |-> "idle", has_frame |-> FALSE]]
  /\ tasks = <<>>

Loading == loader.result.ok /\ loader.next <= Len(loader.factories)

\* load_into: the first error ends the load, and what was registered before
\* it stays.
LoadNext ==
  /\ Loading
  /\ loader' = [loader EXCEPT !.result = LoadStep(loader.result, loader.factories[loader.next]),
                              !.next = loader.next + 1]
  /\ UNCHANGED <<registry, states, instance, stats, tasks>>

\* PluginRuntime::from the loaded registry; a caller whose load failed gives up.
Build ==
  /\ ~Loading /\ loader.result.ok /\ ~loader.built
  /\ loader' = [loader EXCEPT !.built = TRUE]
  /\ registry' = loader.result.registry
  /\ states' = [p \in Plugin |-> IF p \in loader.result.registry THEN "registered" ELSE "none"]
  /\ instance' = [p \in Plugin |->
                    IF p \in loader.result.registry THEN Created(p, 1) ELSE NoInstance]
  /\ UNCHANGED <<stats, tasks>>

-----------------------------------------------------------------------------
(***************************************************************************)
(* Health, as a plugin reports it                                          *)
(***************************************************************************)

TaskHealth(p) ==
  IF instance[p].task = 0 THEN "unhealthy"
  ELSE IF instance[p].alive THEN "healthy" ELSE "degraded"

ReplayHealth(p) ==
  IF instance[p].failed \/ stats[p].completion = "failed" THEN "unhealthy"
  ELSE IF stats[p].completion = "completed" THEN "healthy"
  ELSE TaskHealth(p)

SyntheticHealth(p) == IF instance[p].failed THEN "unhealthy" ELSE TaskHealth(p)

Health(p) == IF p \in Replay THEN ReplayHealth(p) ELSE SyntheticHealth(p)

-----------------------------------------------------------------------------
(***************************************************************************)
(* The plugin runtime                                                      *)
(***************************************************************************)

\* A duplicate identifier is refused and changes nothing.
Register(p) ==
  /\ instance[p].no < MaxInstances
  /\ p \notin registry
  /\ registry' = registry \cup {p}
  /\ states' = [states EXCEPT ![p] = "registered"]
  /\ instance' = [instance EXCEPT ![p] = Created(p, @.no + 1)]
  /\ UNCHANGED <<stats, tasks>>

\* Mutant: a running plugin may be unregistered.
UnregisterRunning(p) ==
  /\ states[p] # "none"
  /\ registry' = registry \ {p}
  /\ states' = [states EXCEPT ![p] = "none"]
  /\ UNCHANGED <<instance, stats, tasks>>

\* A running plugin is refused.  The instance is dropped.
Unregister(p) ==
  /\ states[p] \notin {"none", "running"}
  /\ p \in registry
  /\ registry' = registry \ {p}
  /\ states' = [states EXCEPT ![p] = "none"]
  /\ UNCHANGED <<instance, stats, tasks>>

\* The producer that initialize spawns takes the sender of the data path.
Producer(p) ==
  [of |-> p, no |-> instance[p].no, pc |-> "check", aborted |-> FALSE, cancelled |-> FALSE,
   tx |-> instance[p].tx, clean |-> FALSE, sampled |-> FALSE]

\* initialize of a csi-replay plugin whose fixture opens.
InitializeReplay(p) ==
  /\ p \in Replay
  /\ tasks' = Append(tasks, Producer(p))
  /\ instance' = [instance EXCEPT ![p].task = Len(tasks) + 1, ![p].tx = FALSE,
                                  ![p].alive = TRUE, ![p].failed = FALSE]
  /\ stats' = [stats EXCEPT ![p] = [completion |-> "active", has_frame |-> FALSE]]

InitializeSynthetic(p) ==
  /\ p \notin Replay
  /\ tasks' = Append(tasks, Producer(p))
  /\ instance' = [instance EXCEPT ![p].task = Len(tasks) + 1,
                                  ![p].alive = TRUE, ![p].failed = FALSE]
  /\ UNCHANGED stats

\* start of a registered or stopped plugin; of a running one it does nothing,
\* of a failed one it is refused.  initialize refuses a plugin that holds a
\* task handle, which OneProducer shows to be none of these.
Start(p) ==
  /\ states[p] \in {"registered", "stopped"} /\ p \in registry
  /\ instance[p].task = 0
  /\ Len(tasks) < MaxStarts
  /\ InitializeReplay(p) \/ InitializeSynthetic(p)
  /\ states' = [states EXCEPT ![p] = "running"]
  /\ UNCHANGED registry

\* initialize fails when the fixture cannot be opened.
StartFails(p) ==
  /\ p \in Replay /\ states[p] \in {"registered", "stopped"} /\ p \in registry
  /\ instance[p].task = 0
  /\ instance' = [instance EXCEPT ![p].failed = TRUE]
  /\ stats' = [stats EXCEPT ![p].completion = "failed"]
  /\ states' = [states EXCEPT ![p] = "failed"]
  /\ UNCHANGED <<registry, tasks>>

\* Mutant: the cancellation and the handle are dropped, which ends no task.
ShutdownReplayDetaches(p) ==
  /\ p \in Replay
  /\ instance' = [instance EXCEPT ![p].task = 0, ![p].alive = FALSE]
  /\ stats' = IF instance[p].failed \/ stats[p].completion = "completed" THEN stats
              ELSE [stats EXCEPT ![p].completion = "stopped"]
  /\ UNCHANGED tasks

\* shutdown of a csi-replay plugin: cancels and aborts the producer.
ShutdownReplay(p) ==
  /\ p \in Replay
  /\ tasks' = [tasks EXCEPT ![instance[p].task].cancelled = TRUE,
                            ![instance[p].task].aborted = TRUE]
  /\ instance' = [instance EXCEPT ![p].task = 0, ![p].alive = FALSE]
  /\ stats' = IF instance[p].failed \/ stats[p].completion = "completed" THEN stats
              ELSE [stats EXCEPT ![p].completion = "stopped"]

ShutdownSynthetic(p) ==
  /\ p \notin Replay
  /\ tasks' = [tasks EXCEPT ![instance[p].task].cancelled = TRUE,
                            ![instance[p].task].aborted = TRUE]
  /\ instance' = [instance EXCEPT ![p].task = 0, ![p].alive = FALSE]
  /\ UNCHANGED stats

\* stop of a running plugin; of a registered or stopped one it does nothing,
\* of a failed one it is refused.
Stop(p) ==
  /\ states[p] = "running" /\ p \in registry
  /\ ShutdownReplay(p) \/ ShutdownSynthetic(p)
  /\ states' = [states EXCEPT ![p] = "stopped"]
  /\ UNCHANGED registry

\* What the callers of the plugin runtime may do.
Client ==
  /\ loader.built
  /\ \E p \in Plugin :
       Register(p) \/ Unregister(p) \/ Start(p) \/ StartFails(p) \/ Stop(p)
  /\ UNCHANGED loader

-----------------------------------------------------------------------------
(***************************************************************************)
(* The producers.  The flags belong to the instance that spawned the task, *)
(* and outlive a stop; the statistics are those of the plugin.             *)
(***************************************************************************)

Owns(t) == instance[tasks[t].of].no = tasks[t].no

FailedFlag(t) == Owns(t) /\ instance[tasks[t].of].failed

\* The flag is that of the task's instance, which may not be the current one.
SetFailed(t) ==
  instance' = IF Owns(t) THEN [instance EXCEPT ![tasks[t].of].failed = TRUE] ELSE instance

SetCompletion(t, c) == stats' = [stats EXCEPT ![tasks[t].of].completion = c]

IsReplay(t) == tasks[t].of \in Replay

Goto(t, pc) == tasks' = [tasks EXCEPT ![t].pc = pc]

\* The cancellation is looked at, then whether there is more to produce: an
\* endless replay or sensor has, and a finite one has until its last frame.
Check(t) ==
  /\ tasks[t].pc = "check"
  /\ \/ tasks[t].cancelled /\ Goto(t, "close")
     \/ ~tasks[t].cancelled /\ Goto(t, "produce")
     \/ ~tasks[t].cancelled /\ tasks' = [tasks EXCEPT ![t].pc = "close", ![t].clean = TRUE]
  /\ UNCHANGED <<registry, states, instance, stats>>

\* A frame is published, sent on the data path when there is one, and counted.
ProduceFrame(t) ==
  /\ tasks[t].pc = "produce" /\ IsReplay(t)
  /\ Goto(t, "sleep")
  /\ stats' = [stats EXCEPT ![tasks[t].of].has_frame = TRUE]
  /\ UNCHANGED <<registry, states, instance>>

\* A malformed row, a fixture that does not open for another pass, no
\* subscriber on the bus, or a data path whose receiver is gone.
ReplayFails(t) ==
  /\ tasks[t].pc = "produce" /\ IsReplay(t)
  /\ Goto(t, "close")
  /\ SetFailed(t)
  /\ SetCompletion(t, "failed")
  /\ UNCHANGED <<registry, states>>

\* A synthetic frame is published, or nobody subscribes to the bus.
ProduceSample(t) ==
  /\ tasks[t].pc = "produce" /\ ~IsReplay(t)
  /\ \/ Goto(t, "sleep") /\ UNCHANGED instance
     \/ Goto(t, "close") /\ SetFailed(t)
  /\ UNCHANGED <<registry, states, stats>>

\* A task that was aborted is not woken by the timer any more; the cancel may
\* have woken it just before the abort.
Sleep(t) ==
  /\ tasks[t].pc = "sleep"
  /\ \/ ~tasks[t].aborted /\ Goto(t, "check")
     \/ tasks[t].cancelled /\ Goto(t, "close")
  /\ UNCHANGED <<registry, states, instance, stats>>

\* Mutant: the producer leaves without a word.
CloseSilently(t) ==
  /\ tasks[t].pc = "close"
  /\ tasks' = [tasks EXCEPT ![t].pc = "finish", ![t].sampled = tasks[t].cancelled]
  /\ UNCHANGED <<registry, states, instance, stats>>

\* The flag is cleared, then the cancellation is looked at once more.
Close(t) ==
  /\ tasks[t].pc = "close"
  /\ tasks' = [tasks EXCEPT ![t].pc = "finish", ![t].sampled = tasks[t].cancelled]
  /\ instance' = IF Owns(t) THEN [instance EXCEPT ![tasks[t].of].alive = FALSE] ELSE instance
  /\ UNCHANGED <<registry, states, stats>>

\* What a replay ended with; a failure was recorded before.  The last
\* disjunct needs a restart in between, which has cleared the flag.
FinishReplay(t) ==
  /\ tasks[t].pc = "finish" /\ IsReplay(t)
  /\ Goto(t, "gone")
  /\ \/ FailedFlag(t) /\ UNCHANGED <<instance, stats>>
     \/ /\ ~FailedFlag(t) /\ tasks[t].sampled
        /\ SetCompletion(t, "stopped") /\ UNCHANGED instance
     \/ /\ ~FailedFlag(t) /\ ~tasks[t].sampled /\ tasks[t].clean
        /\ SetCompletion(t, "completed") /\ UNCHANGED instance
     \/ /\ ~FailedFlag(t) /\ ~tasks[t].sampled /\ ~tasks[t].clean
        /\ SetFailed(t) /\ SetCompletion(t, "failed")
  /\ UNCHANGED <<registry, states>>

FinishSynthetic(t) ==
  /\ tasks[t].pc = "finish" /\ ~IsReplay(t)
  /\ Goto(t, "gone")
  /\ IF FailedFlag(t) \/ tasks[t].sampled \/ tasks[t].clean
     THEN UNCHANGED instance
     ELSE SetFailed(t)
  /\ UNCHANGED <<registry, states, stats>>

\* The abort takes effect where the task is suspended: asleep, waiting for
\* room in the data path, or not yet polled.
Aborted(t) ==
  /\ tasks[t].aborted /\ tasks[t].pc \in {"check", "produce", "sleep"}
  /\ Goto(t, "gone")
  /\ UNCHANGED <<registry, states, instance, stats>>

Run(t) ==
  /\ \/ Check(t) \/ ProduceFrame(t) \/ ReplayFails(t) \/ ProduceSample(t) \/ Sleep(t)
     \/ Close(t) \/ FinishReplay(t) \/ FinishSynthetic(t) \/ Aborted(t)
  /\ UNCHANGED loader

\* The client may leave everything as it is.
Idle == (\A t \in 1..Len(tasks) : tasks[t].pc = "gone") /\ UNCHANGED vars

Next == LoadNext \/ Build \/ Client \/ (\E t \in 1..Len(tasks) : Run(t)) \/ Idle

\* tokio polls every task that can run.
Fairness == \A t \in 1..MaxStarts : WF_vars(t \in 1..Len(tasks) /\ Run(t))

Spec == Init /\ [][Next]_vars /\ Fairness

-----------------------------------------------------------------------------
(***************************************************************************)
(* Properties                                                              *)
(***************************************************************************)

\* Every variable has its type, and the registry and the lifecycle states,
\* which are kept apart, know the same plugins.
TypeOK ==
  /\ \A p \in Plugin : p \in registry <=> states[p] # "none"
  /\ loader \in Loader
  /\ states \in [Plugin -> Lifecycle]
  /\ instance \in [Plugin -> Instance]
  /\ stats \in [Plugin -> Stats]
  /\ tasks \in Seq(Task) /\ Len(tasks) <= MaxStarts

\* A factory that fails, has the wrong identifier, or repeats one.
Errs(factories, i) ==
  \/ factories[i].creates # factories[i].announces
  \/ \E j \in 1..(i - 1) : factories[j].creates = factories[i].creates

\* load_into, once it has returned: exactly the factories before the first
\* that errs are registered, the result is an error exactly when there is such
\* a factory, and a plugin runtime is built from a registry that has them all.
LoadedIsCleanPrefix ==
  LET factories == loader.factories
      clean == {i \in 1..Len(factories) : \A j \in 1..i : ~Errs(factories, j)}
  IN  /\ ~Loading =>
           /\ loader.result.registry = {factories[i].creates : i \in clean}
           /\ loader.result.ok <=> clean = 1..Len(factories)
           /\ loader.result.ok => loader.result.loaded = Len(factories)
      /\ loader.built => clean = 1..Len(factories)

\* A producer that nobody has aborted is the one whose handle the current
\* instance of a running plugin holds, however often the plugin was stopped,
\* unregistered and started before: no producer is beyond the reach of stop.
OneProducer ==
  \A t \in 1..Len(tasks) :
    tasks[t].pc # "gone" /\ ~tasks[t].aborted =>
      LET p == tasks[t].of
      IN  states[p] = "running" /\ p \in registry /\ Owns(t) /\ instance[p].task = t

\* A running plugin that reports itself healthy, and has not completed, has a
\* producer that is not at its end, also after restarts, with an old producer
\* clearing flags behind its back; one whose producer ended before its input
\* did is unhealthy, whatever its earlier producers wrote meanwhile.
HealthIsTruthful ==
  \A p \in Plugin :
    states[p] = "running" =>
      LET task == tasks[instance[p].task]
          completed == p \in Replay /\ stats[p].completion = "completed"
      IN  /\ Health(p) = "healthy" /\ ~completed => task.pc \notin {"finish", "gone"}
          /\ task.pc = "gone" /\ ~task.clean => Health(p) = "unhealthy"

\* The producer of a plugin that was stopped ends, also an endless one, one
\* that was woken just before the abort, and when the plugin runs again.
StoppedEnds ==
  \A t \in 1..MaxStarts :
    (t \in 1..Len(tasks) /\ states[tasks[t].of] # "running")
      ~> (t \in 1..Len(tasks) /\ tasks[t].pc = "gone")

\* The constructor promises that when a data path is set, "each accepted
\* frame is sent ... without dropping": the frames that the statistics of a
\* running replay plugin count have a data path.
AcceptedFramesAreSent ==
  \A p \in Replay :
    states[p] = "running" /\ stats[p].has_frame => tasks[instance[p].task].tx
=============================================================================

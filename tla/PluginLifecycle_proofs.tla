----------------------- MODULE PluginLifecycle_proofs -----------------------
(***************************************************************************)
(* For every set of plugins, list of factories and number of restarts:     *)
(* what load_into leaves is the clean prefix of its factories, stop reaches *)
(* every producer, and health is truthful.                                 *)
(***************************************************************************)
EXTENDS PluginLifecycle, TLAPS

\* The types that the argument needs; of the registry it needs none.
Types ==
  /\ states \in [Plugin -> Lifecycle]
  /\ instance \in [Plugin -> Instance]
  /\ tasks \in Seq(Task)

\* A plugin holds a task handle exactly while it is running, one of its own.
HandleWhileRunning ==
  \A p \in Plugin :
    /\ states[p] # "running" => instance[p].task = 0
    /\ states[p] = "running" => /\ p \in registry
                                /\ instance[p].task \in 1..Len(tasks)
                                /\ tasks[instance[p].task].of = p

\* A plugin with a state is registered, so registering one replaces none.
Known == \A p \in Plugin : states[p] # "none" => p \in registry

IInv == Types /\ Known /\ HandleWhileRunning /\ OneProducer

\* No producer runs before there is a plugin runtime.
Quiet == ~loader.built => tasks = <<>>

LEMMA InitInv == Init => IInv /\ Quiet
  BY DEF Init, IInv, Types, Known, HandleWhileRunning, OneProducer, NoInstance, Lifecycle,
         Instance, Quiet

\* The plugins of the loaded registry are as Register leaves a new one.
LEMMA BuildInv ==
  ASSUME Quiet, Build
  PROVE  IInv'
<1>1. tasks' = <<>>
  BY DEF Build, Quiet
<1>2. /\ \A p \in Plugin : Created(p, 1) \in Instance /\ Created(p, 1).task = 0
      /\ NoInstance \in Instance /\ NoInstance.task = 0
  BY DEF Created, NoInstance, Instance
<1>3. Types'
  BY <1>1, <1>2 DEF Build, Types, Lifecycle
<1>4. Known' /\ HandleWhileRunning' /\ OneProducer'
  BY <1>1, <1>2 DEF Build, Known, HandleWhileRunning, OneProducer
<1> QED BY <1>3, <1>4 DEF IInv

\* The tasks of the sequence are tasks of plugins.
LEMMA TaskTypes ==
  ASSUME Types, NEW t \in 1..Len(tasks)
  PROVE  tasks[t] \in Task /\ tasks[t].of \in Plugin
<1>1. tasks[t] \in Task
  BY DEF Types
<1>2. \A task \in Task : task.of \in Plugin
  BY DEF Task
<1> QED BY <1>1, <1>2

\* Replacing one task of the sequence.
LEMMA TaskUpdate ==
  ASSUME NEW s \in Seq(Task), NEW t \in 1..Len(s), NEW task \in Task
  PROVE  LET u == [s EXCEPT ![t] = task]
         IN  /\ u \in Seq(Task) /\ Len(u) = Len(s)
             /\ u[t] = task
             /\ \A i \in 1..Len(s) : i # t => u[i] = s[i]
  OBVIOUS

\* What initialize of a synthetic sensor does to the fields.
LEMMA SpawnedInstance ==
  ASSUME NEW r \in Instance, NEW n \in Nat
  PROVE  /\ [r EXCEPT !.task = n, !.alive = TRUE, !.failed = FALSE] \in Instance
         /\ [r EXCEPT !.task = n, !.alive = TRUE, !.failed = FALSE].no = r.no
         /\ [r EXCEPT !.task = n, !.alive = TRUE, !.failed = FALSE].task = n
  BY Zenon DEF Instance

\* What one plugin's lifecycle step must do to keep the invariant: other
\* plugins, and tasks but its own, are as before.
LEMMA RegisterInv ==
  ASSUME IInv, NEW p \in Plugin, Register(p)
  PROVE  IInv'
<1> USE DEF IInv
<1>1. Types'
  BY DEF Register, Types, Created, Lifecycle, Instance
<1>2. states[p] = "none"
  BY DEF Known, Register
<1>3. Known' /\ HandleWhileRunning'
  BY <1>2 DEF Register, Types, Known, HandleWhileRunning, Created
<1>4. OneProducer'
  BY <1>2 DEF Register, Types, OneProducer, Owns, Created, Task
<1> QED BY <1>1, <1>3, <1>4

LEMMA UnregisterInv ==
  ASSUME IInv, NEW p \in Plugin, Unregister(p)
  PROVE  IInv'
<1> USE DEF IInv
<1>1. Types'
  BY DEF Unregister, Types, Lifecycle
<1>2. Known' /\ HandleWhileRunning'
  BY DEF Unregister, Types, Known, HandleWhileRunning
<1>3. OneProducer'
  BY DEF Unregister, Types, OneProducer, Owns, Task
<1> QED BY <1>1, <1>2, <1>3

LEMMA StartInv ==
  ASSUME IInv, NEW p \in Plugin, Start(p)
  PROVE  IInv'
<1> USE DEF IInv
<1>1. /\ tasks' = Append(tasks, Producer(p))
      /\ instance' \in [Plugin -> Instance]
      /\ \A q \in Plugin \ {p} : instance'[q] = instance[q]
      /\ instance'[p].no = instance[p].no /\ instance'[p].task = Len(tasks) + 1
  <2>0. Len(tasks) + 1 \in Nat /\ instance[p] \in Instance
    BY DEF Types
  <2>1. CASE InitializeReplay(p)
    <3> DEFINE r == [instance[p] EXCEPT !.task = Len(tasks) + 1, !.tx = FALSE,
                                        !.alive = TRUE, !.failed = FALSE]
    <3>1. instance' = [instance EXCEPT ![p] = r]
      BY <2>1 DEF InitializeReplay, Types
    <3>2. r \in Instance /\ r.no = instance[p].no /\ r.task = Len(tasks) + 1
      BY <2>0 DEF Instance
    <3>3. tasks' = Append(tasks, Producer(p))
      BY <2>1 DEF InitializeReplay
    <3> HIDE DEF r
    <3> QED BY <3>1, <3>2, <3>3 DEF Types
  <2>2. CASE InitializeSynthetic(p)
    <3> DEFINE r == [instance[p] EXCEPT !.task = Len(tasks) + 1, !.alive = TRUE, !.failed = FALSE]
    <3>1. instance' = [instance EXCEPT ![p] = r]
      BY <2>2 DEF InitializeSynthetic, Types
    <3>2. r \in Instance /\ r.no = instance[p].no /\ r.task = Len(tasks) + 1
      BY <2>0, SpawnedInstance, Zenon
    <3>3. tasks' = Append(tasks, Producer(p))
      BY <2>2 DEF InitializeSynthetic
    <3> HIDE DEF r
    <3> QED BY <3>1, <3>2, <3>3 DEF Types
  <2> QED BY <2>1, <2>2 DEF Start
<1>2. Producer(p) \in Task /\ Producer(p).of = p /\ Producer(p).no = instance[p].no
  BY DEF Producer, Types, Task, Instance
<1>3. Len(tasks) \in Nat /\ Len(tasks') = Len(tasks) + 1 /\ tasks' \in Seq(Task)
  BY <1>1, <1>2 DEF Types
<1>4. /\ \A t \in 1..Len(tasks) : tasks'[t] = tasks[t]
      /\ tasks'[Len(tasks) + 1] = Producer(p)
  BY <1>1, <1>2, <1>3 DEF Types
<1>5. Types'
  BY <1>1, <1>3 DEF Start, Types, Lifecycle, Instance
<1>6. Known' /\ HandleWhileRunning'
  BY <1>1, <1>2, <1>3, <1>4 DEF Start, Types, Known, HandleWhileRunning, Instance
<1>7. OneProducer'
  <2> SUFFICES ASSUME NEW t \in 1..Len(tasks'),
                      tasks'[t].pc # "gone", ~tasks'[t].aborted
               PROVE  /\ states'[tasks'[t].of] = "running" /\ tasks'[t].of \in registry'
                      /\ Owns(t)' /\ instance'[tasks'[t].of].task = t
    BY DEF OneProducer
  <2>1. CASE t = Len(tasks) + 1
    BY <1>1, <1>2, <1>3, <1>4, <2>1 DEF Start, Types, Owns, Instance
  <2>2. CASE t \in 1..Len(tasks)
    <3>1. tasks'[t] = tasks[t] /\ tasks[t].of \in Plugin
      BY <1>4, <2>2, TaskTypes
    <3>2. tasks[t].of # p
      BY <3>1, <2>2 DEF OneProducer, Start
    <3> QED BY <1>1, <2>2, <3>1, <3>2 DEF OneProducer, Start, Types, Owns, Instance
  <2> QED BY <1>3, <2>1, <2>2
<1> QED BY <1>5, <1>6, <1>7

LEMMA StartFailsInv ==
  ASSUME IInv, NEW p \in Plugin, StartFails(p)
  PROVE  IInv'
<1> USE DEF IInv
<1>1. Types'
  BY DEF StartFails, Types, Lifecycle, Instance
<1>2. Known' /\ HandleWhileRunning'
  BY DEF StartFails, Types, Known, HandleWhileRunning, Instance
<1>3. \A q \in Plugin : instance'[q].no = instance[q].no /\ instance'[q].task = instance[q].task
  BY DEF StartFails, Types, Instance
<1>4. OneProducer'
  <2> SUFFICES ASSUME NEW t \in 1..Len(tasks), tasks[t].pc # "gone", ~tasks[t].aborted
               PROVE  /\ states'[tasks[t].of] = "running" /\ tasks[t].of \in registry
                      /\ Owns(t)' /\ instance'[tasks[t].of].task = t
    BY DEF OneProducer, StartFails, Owns
  <2>1. tasks[t].of \in Plugin /\ tasks[t].of # p
    BY TaskTypes DEF OneProducer, StartFails
  <2> QED BY <1>3, <2>1 DEF OneProducer, StartFails, Types, Owns
<1> QED BY <1>1, <1>2, <1>4

LEMMA StopInv ==
  ASSUME IInv, NEW p \in Plugin, Stop(p)
  PROVE  IInv'
<1> USE DEF IInv
<1> DEFINE s == instance[p].task
<1>0. s \in 1..Len(tasks) /\ tasks[s] \in Task /\ tasks[s].of = p
  BY DEF HandleWhileRunning, Types, Stop
<1>1. /\ instance' \in [Plugin -> Instance]
      /\ \A q \in Plugin \ {p} : instance'[q] = instance[q]
      /\ instance'[p].no = instance[p].no /\ instance'[p].task = 0
  <2> DEFINE r == [instance[p] EXCEPT !.task = 0, !.alive = FALSE]
  <2>1. instance' = [instance EXCEPT ![p] = r]
    BY DEF Stop, ShutdownReplay, ShutdownSynthetic, Types
  <2>2. r \in Instance /\ r.no = instance[p].no /\ r.task = 0
    BY DEF Types, Instance
  <2> HIDE DEF r
  <2> QED BY <2>1, <2>2 DEF Types
<1>3. /\ Len(tasks') = Len(tasks) /\ tasks' \in Seq(Task)
      /\ \A t \in 1..Len(tasks) : t # s => tasks'[t] = tasks[t]
      /\ tasks'[s].of = p /\ tasks'[s].aborted
  <2> DEFINE r == [tasks[s] EXCEPT !.cancelled = TRUE, !.aborted = TRUE]
  <2>1. tasks' = [tasks EXCEPT ![s] = r]
    BY <1>0 DEF Stop, ShutdownReplay, ShutdownSynthetic, Types
  <2>2. r \in Task /\ r.of = p /\ r.aborted
    BY <1>0 DEF Task
  <2> HIDE DEF r, s
  <2> QED BY <1>0, <2>1, <2>2, TaskUpdate DEF Types
<1>4. Types'
  BY <1>1, <1>3 DEF Stop, Types, Lifecycle, Instance
<1>5. Known' /\ HandleWhileRunning'
  <2>1. /\ registry' = registry /\ states'[p] = "stopped"
        /\ \A q \in Plugin \ {p} : states'[q] = states[q]
    BY DEF Stop, Types
  <2>2. Known'
    BY <2>1 DEF Known, Stop
  <2>3. \A t \in 1..Len(tasks) : tasks'[t].of = tasks[t].of
    BY <1>0, <1>3
  <2>4. ASSUME NEW q \in Plugin \ {p}
        PROVE  /\ states'[q] # "running" => instance'[q].task = 0
               /\ states'[q] = "running" => /\ q \in registry'
                                            /\ instance'[q].task \in 1..Len(tasks')
                                            /\ tasks'[instance'[q].task].of = q
    <3>1. instance'[q] = instance[q] /\ Len(tasks') = Len(tasks)
      BY <1>1, <1>3
    <3> QED BY <2>1, <2>3, <3>1 DEF HandleWhileRunning
  <2> QED BY <1>1, <2>1, <2>2, <2>4 DEF HandleWhileRunning
<1>6. OneProducer'
  <2> SUFFICES ASSUME NEW t \in 1..Len(tasks), tasks'[t].pc # "gone", ~tasks'[t].aborted
               PROVE  /\ states'[tasks'[t].of] = "running" /\ tasks'[t].of \in registry'
                      /\ Owns(t)' /\ instance'[tasks'[t].of].task = t
    BY <1>3 DEF OneProducer
  <2>1. t # s /\ tasks'[t] = tasks[t] /\ tasks[t].of \in Plugin
    BY <1>3, TaskTypes
  <2>2. tasks[t].of # p
    BY <2>1 DEF OneProducer
  <2> QED BY <1>1, <2>1, <2>2 DEF OneProducer, Stop, Types, Owns
<1> QED BY <1>4, <1>5, <1>6

\* A step of a producer moves it and may set or clear flags: it touches no
\* handle, and revives no task.
LEMMA RunInv ==
  ASSUME IInv, NEW t \in 1..Len(tasks), Run(t)
  PROVE  IInv'
<1> USE DEF IInv
<1>1. tasks[t] \in Task /\ tasks[t].of \in Plugin
  BY TaskTypes
<1>2. /\ registry' = registry /\ states' = states
      /\ instance' \in [Plugin -> Instance]
      /\ \A p \in Plugin : /\ instance'[p].no = instance[p].no
                           /\ instance'[p].task = instance[p].task
  <2>1. CASE Check(t) \/ ProduceFrame(t) \/ Sleep(t) \/ Aborted(t)
    BY <2>1 DEF Check, ProduceFrame, Sleep, Aborted, Types
  <2> DEFINE p == tasks[t].of
  <2>2. ASSUME SetFailed(t)
        PROVE  /\ instance' \in [Plugin -> Instance]
               /\ \A q \in Plugin : /\ instance'[q].no = instance[q].no
                                    /\ instance'[q].task = instance[q].task
    <3> DEFINE r == [instance[p] EXCEPT !.failed = TRUE]
    <3>1. instance' = instance \/ instance' = [instance EXCEPT ![p] = r]
      BY <2>2 DEF SetFailed
    <3>2. r \in Instance /\ r.no = instance[p].no /\ r.task = instance[p].task
      BY <1>1 DEF Types, Instance
    <3> HIDE DEF r, p
    <3>3. p \in Plugin
      BY <1>1 DEF p
    <3> QED BY <3>1, <3>2, <3>3 DEF Types
  <2>3. CASE ReplayFails(t) \/ ProduceSample(t)
    <3>1. registry' = registry /\ states' = states /\ (instance' = instance \/ SetFailed(t))
      BY <2>3 DEF ReplayFails, ProduceSample
    <3>2. CASE instance' = instance
      BY <3>1, <3>2 DEF Types
    <3> QED BY <2>2, <3>1, <3>2
  <2>4. CASE FinishReplay(t) \/ FinishSynthetic(t)
    BY <2>2, <2>4 DEF FinishReplay, FinishSynthetic, Types
  <2>5. CASE Close(t)
    <3> DEFINE r == [instance[p] EXCEPT !.alive = FALSE]
    <3>1. /\ registry' = registry /\ states' = states
          /\ instance' = instance \/ instance' = [instance EXCEPT ![p] = r]
      BY <2>5 DEF Close
    <3>2. r \in Instance /\ r.no = instance[p].no /\ r.task = instance[p].task
      BY <1>1 DEF Types, Instance
    <3> HIDE DEF r, p
    <3>3. p \in Plugin
      BY <1>1 DEF p
    <3> QED BY <3>1, <3>2, <3>3 DEF Types
  <2> QED BY <2>1, <2>3, <2>4, <2>5 DEF Run
<1>3. /\ tasks' \in Seq(Task) /\ Len(tasks') = Len(tasks)
      /\ \A u \in 1..Len(tasks) : /\ tasks'[u].of = tasks[u].of /\ tasks'[u].no = tasks[u].no
                                  /\ tasks'[u].aborted = tasks[u].aborted
                                  /\ tasks[u].of \in Plugin
                                  /\ tasks[u].pc = "gone" => tasks'[u].pc = "gone"
  <2> DEFINE Same(task) == /\ task.of = tasks[t].of /\ task.no = tasks[t].no
                           /\ task.aborted = tasks[t].aborted
  <2>1. \E task \in Task : tasks' = [tasks EXCEPT ![t] = task] /\ Same(task)
    <3>0. /\ tasks[t].clean \in BOOLEAN /\ tasks[t].sampled \in BOOLEAN
          /\ tasks[t].cancelled \in BOOLEAN
      BY <1>1 DEF Task
    <3>1. ASSUME NEW pc \in {"check", "produce", "sleep", "close", "finish", "gone"}, Goto(t, pc)
          PROVE  \E task \in Task : tasks' = [tasks EXCEPT ![t] = task] /\ Same(task)
      <4> DEFINE r == [tasks[t] EXCEPT !.pc = pc]
      <4>1. r \in Task /\ Same(r)
        BY <1>1 DEF Task
      <4>2. tasks' = [tasks EXCEPT ![t] = r]
        BY <3>1 DEF Goto
      <4> HIDE DEF r
      <4> QED BY <4>1, <4>2
    <3>2. CASE Check(t)
      <4> DEFINE r == [tasks[t] EXCEPT !.pc = "close", !.clean = TRUE]
      <4>1. r \in Task /\ Same(r)
        BY <1>1 DEF Task
      <4>2. CASE tasks' = [tasks EXCEPT ![t].pc = "close", ![t].clean = TRUE]
        <5>1. tasks' = [tasks EXCEPT ![t] = r]
          BY <4>2 DEF Types
        <5> HIDE DEF r
        <5> QED BY <4>1, <5>1
      <4> QED BY <3>1, <3>2, <4>2 DEF Check
    <3>3. CASE Close(t)
      <4> DEFINE r == [tasks[t] EXCEPT !.pc = "finish", !.sampled = tasks[t].cancelled]
      <4>1. r \in Task /\ Same(r)
        BY <1>1, <3>0 DEF Task
      <4>2. tasks' = [tasks EXCEPT ![t] = r]
        BY <3>3 DEF Close, Types
      <4> HIDE DEF r
      <4> QED BY <4>1, <4>2
    <3> QED BY <3>1, <3>2, <3>3 DEF Run, ProduceFrame, ReplayFails, ProduceSample, Sleep,
                                  FinishReplay, FinishSynthetic, Aborted
  <2>2. tasks[t].pc # "gone"
    BY DEF Run, Check, ProduceFrame, ReplayFails, ProduceSample, Sleep, Close, FinishReplay,
           FinishSynthetic, Aborted
  <2>3. PICK task \in Task : tasks' = [tasks EXCEPT ![t] = task] /\ Same(task)
    BY <2>1
  <2> QED BY <1>1, <2>2, <2>3, TaskUpdate, TaskTypes DEF Types
<1>4. Types' /\ Known'
  BY <1>2, <1>3 DEF Types, Known
<1>5. HandleWhileRunning'
  BY <1>2, <1>3 DEF HandleWhileRunning, Types, Instance
<1>6. OneProducer'
  <2> SUFFICES ASSUME NEW u \in 1..Len(tasks), tasks'[u].pc # "gone", ~tasks'[u].aborted
               PROVE  /\ states'[tasks'[u].of] = "running" /\ tasks'[u].of \in registry'
                      /\ Owns(u)' /\ instance'[tasks'[u].of].task = u
    BY <1>3 DEF OneProducer
  <2>1. /\ states[tasks[u].of] = "running" /\ tasks[u].of \in registry
        /\ Owns(u) /\ instance[tasks[u].of].task = u
    BY <1>3 DEF OneProducer
  <2> QED BY <1>2, <1>3, <2>1 DEF Owns
<1> QED BY <1>4, <1>5, <1>6

\* Every step keeps the invariant.
LEMMA NextInv == IInv /\ Quiet /\ [Next]_vars => IInv' /\ Quiet'
<1> SUFFICES ASSUME IInv, Quiet, [Next]_vars PROVE IInv' /\ Quiet'
  OBVIOUS
<1>0. CASE LoadNext
  <2>1. UNCHANGED <<registry, states, instance, stats, tasks>> /\ loader'.built = loader.built
    BY <1>0 DEF LoadNext, IInv
  <2> QED BY <2>1 DEF IInv, Types, Known, HandleWhileRunning, OneProducer, Owns, Quiet
<1>4. CASE Build
  <2>1. loader'.built
    BY <1>4 DEF Build
  <2> QED BY <1>4, <2>1, BuildInv DEF Quiet
<1>1. CASE Client
  BY <1>1, RegisterInv, UnregisterInv, StartInv, StartFailsInv, StopInv DEF Client, Quiet
<1>2. CASE \E t \in 1..Len(tasks) : Run(t)
  <2>1. loader.built
    BY <1>2 DEF Quiet
  <2> QED BY <1>2, <2>1, RunInv DEF Run, Quiet
<1>3. CASE UNCHANGED vars
  BY <1>3 DEF vars, IInv, Types, Known, HandleWhileRunning, OneProducer, Owns, Quiet
<1> QED BY <1>0, <1>1, <1>2, <1>3, <1>4 DEF Next, Idle

\* OneProducer (PluginLifecycle.tla): whatever the clients of the plugin
\* runtime do, in any order and any number of times, a producer that has not
\* been aborted is the one that the running plugin would stop.
THEOREM StopReachesProducers == Spec => []OneProducer
<1>1. IInv => OneProducer
  BY DEF IInv
<1> QED BY <1>1, InitInv, NextInv, PTL DEF Spec

\* The statistics keep their type.
LEMMA StatsNext ==
  ASSUME IInv, stats \in [Plugin -> Stats], Next
  PROVE  stats' \in [Plugin -> Stats]
<1>1. \A r \in Stats, c \in Completion : [r EXCEPT !.completion = c] \in Stats
  BY DEF Stats
<1>2. ASSUME NEW p \in Plugin, NEW c \in Completion, stats' = [stats EXCEPT ![p].completion = c]
      PROVE  stats' \in [Plugin -> Stats]
  <2>1. [stats[p] EXCEPT !.completion = c] \in Stats
    BY <1>1
  <2> QED BY <1>2, <2>1
<1>3. CASE Client
  <2> PICK p \in Plugin : Register(p) \/ Unregister(p) \/ Start(p) \/ StartFails(p) \/ Stop(p)
    BY <1>3 DEF Client
  <2>1. CASE Register(p) \/ Unregister(p)
    BY <2>1 DEF Register, Unregister
  <2>2. CASE Start(p)
    <3>1. [completion |-> "active", has_frame |-> FALSE] \in Stats
      BY DEF Stats, Completion
    <3>2. \/ stats' = [stats EXCEPT ![p] = [completion |-> "active", has_frame |-> FALSE]]
          \/ stats' = stats
      BY <2>2 DEF Start, InitializeReplay, InitializeSynthetic
    <3> QED BY <3>1, <3>2
  <2>3. CASE StartFails(p)
    BY <2>3, <1>2 DEF StartFails, Completion
  <2>4. CASE Stop(p)
    BY <2>4, <1>2 DEF Stop, ShutdownReplay, ShutdownSynthetic, Completion
  <2> QED BY <2>1, <2>2, <2>3, <2>4
<1>4. ASSUME NEW t \in 1..Len(tasks), Run(t) PROVE stats' \in [Plugin -> Stats]
  <2>1. tasks[t].of \in Plugin
    BY TaskTypes DEF IInv
  <2>2. CASE Check(t) \/ ProduceSample(t) \/ Sleep(t) \/ Close(t) \/ FinishSynthetic(t) \/ Aborted(t)
    BY <2>2 DEF Check, ProduceSample, Sleep, Close, FinishSynthetic, Aborted
  <2>3. CASE ProduceFrame(t)
    BY <2>1, <2>3 DEF ProduceFrame, Stats
  <2>4. CASE ReplayFails(t) \/ FinishReplay(t)
    BY <1>2, <2>1, <2>4 DEF ReplayFails, FinishReplay, SetCompletion, Completion
  <2> QED BY <1>4, <2>2, <2>3, <2>4 DEF Run
<1> QED BY <1>3, <1>4 DEF Next, LoadNext, Build, Idle, vars

\* A step of load_into, and the building of the runtime, keep the loader's type.
LEMMA LoaderNext ==
  ASSUME loader \in Loader, [Next]_vars
  PROVE  loader' \in Loader
<1>1. CASE LoadNext
  <2> DEFINE f == loader.factories[loader.next]
             step == LoadStep(loader.result, f)
             next == loader.next + 1
  <2>1. f \in Factory /\ loader.result \in Loaded /\ next \in Nat \ {0}
    BY <1>1, PluginConfig DEF LoadNext, Loading, Loader
  <2>2. step \in Loaded
    <3>1. f.creates = f.announces => f.creates \in Plugin
      BY <2>1 DEF Factory
    <3> QED BY <2>1, <3>1 DEF LoadStep, Loaded
  <2>3. loader' = [loader EXCEPT !.result = step, !.next = next]
    BY <1>1 DEF LoadNext
  <2> HIDE DEF step, next
  <2> QED BY <2>1, <2>2, <2>3 DEF Loader
<1>2. CASE Build
  BY <1>2 DEF Build, Loader
<1>3. CASE UNCHANGED loader
  BY <1>3
<1> QED BY <1>1, <1>2, <1>3 DEF Next, Client, Run, Idle, vars

\* TypeOK (PluginLifecycle.tla): the registry and the lifecycle states, two
\* collections that every operation changes one after the other, always know
\* the same plugins.
THEOREM TypesAndRegistry == Spec => []TypeOK
<1>1. Init => TypeOK
  <2>1. Init => loader \in Loader
    <3> SUFFICES ASSUME NEW factories \in FactoryLists,
                        loader = [factories |-> factories, next |-> 1, built |-> FALSE,
                                  result |-> [registry |-> {}, loaded |-> 0, ok |-> TRUE]]
                 PROVE  loader \in Loader
      BY DEF Init
    <3>1. 1 \in Nat \ {0} /\ [registry |-> {}, loaded |-> 0, ok |-> TRUE] \in Loaded
      BY DEF Loaded
    <3> QED BY <3>1, Zenon DEF Loader
  <2>2. Init => /\ stats \in [Plugin -> Stats]
                /\ \A p \in Plugin : p \in registry <=> states[p] # "none"
                /\ Len(tasks) <= MaxStarts
    BY PluginConfig DEF Init, Stats, Completion
  <2> QED BY <2>1, <2>2, InitInv DEF TypeOK, IInv, Types
<1>2. IInv /\ TypeOK /\ IInv' /\ [Next]_vars => TypeOK'
  <2> SUFFICES ASSUME IInv, TypeOK, IInv', [Next]_vars PROVE TypeOK'
    OBVIOUS
  <2>0. loader' \in Loader
    BY LoaderNext DEF TypeOK
  <2>1. stats' \in [Plugin -> Stats]
    BY StatsNext DEF TypeOK, vars
  <2>2. \A p \in Plugin : p \in registry' <=> states'[p] # "none"
    <3>1. CASE Client
      BY <3>1 DEF Client, Register, Unregister, Start, StartFails, Stop, TypeOK
    <3>2. CASE \E t \in 1..Len(tasks) : Run(t)
      BY <3>2 DEF Run, Check, ProduceFrame, ReplayFails, ProduceSample, Sleep, Close,
                  FinishReplay, FinishSynthetic, Aborted, TypeOK
    <3>3. CASE LoadNext \/ Build
      BY <3>3 DEF LoadNext, Build, TypeOK
    <3> QED BY <3>1, <3>2, <3>3 DEF Next, Idle, vars, TypeOK
  <2>3. Len(tasks') <= MaxStarts
    <3>1. ASSUME NEW p \in Plugin, Start(p) PROVE Len(tasks') <= MaxStarts
      <4>1. tasks' = Append(tasks, Producer(p)) /\ Len(tasks) < MaxStarts
        BY <3>1 DEF Start, InitializeReplay, InitializeSynthetic
      <4>2. Len(tasks) \in Nat /\ Len(Append(tasks, Producer(p))) = Len(tasks) + 1
        BY DEF TypeOK
      <4> QED BY <4>1, <4>2, PluginConfig
    <3>2. ASSUME NEW p \in Plugin, Stop(p) PROVE Len(tasks') = Len(tasks)
      BY <3>2 DEF Stop, ShutdownReplay, ShutdownSynthetic, TypeOK
    <3>3. CASE Client
      BY <3>1, <3>2, <3>3 DEF Client, Register, Unregister, StartFails, TypeOK
    <3>4. ASSUME NEW t \in 1..Len(tasks), Run(t) PROVE Len(tasks') = Len(tasks)
      BY <3>4 DEF Run, Check, ProduceFrame, ReplayFails, ProduceSample, Sleep, Close,
                  FinishReplay, FinishSynthetic, Aborted, Goto, TypeOK
    <3>5. CASE LoadNext \/ Build
      BY <3>5 DEF LoadNext, Build, TypeOK
    <3> QED BY <3>3, <3>4, <3>5 DEF Next, Idle, vars, TypeOK
  <2> QED BY <2>0, <2>1, <2>2, <2>3 DEF TypeOK, IInv, Types
<1> QED BY <1>1, <1>2, InitInv, NextInv, PTL DEF Spec

-----------------------------------------------------------------------------
(***************************************************************************)
(* That the loader leaves the clean prefix of its factories.  The loop     *)
(* knows only the registry, so the invariant says what the registry tells  *)
(* of the factories the loop has passed, and where it stopped.             *)
(***************************************************************************)

LoadInv ==
  LET factories == loader.factories
      result == loader.result
      passed == IF result.ok THEN loader.next - 1 ELSE loader.next - 2
  IN  /\ loader \in Loader
      /\ passed \in 0..Len(factories)
      /\ \A i \in 1..passed : ~Errs(factories, i)
      /\ result.registry = {factories[i].creates : i \in 1..passed}
      /\ result.loaded = passed
      /\ ~result.ok => passed < Len(factories) /\ Errs(factories, passed + 1)
      /\ loader.built => ~Loading /\ result.ok

LEMMA LoadNextInv == ASSUME LoadInv, LoadNext PROVE LoadInv'
<1> DEFINE factories == loader.factories
           result == loader.result
           n == loader.next - 1
           f == factories[n + 1]
<1>1. /\ factories \in Seq(Factory) /\ n \in 0..Len(factories) /\ n < Len(factories)
      /\ result \in Loaded /\ result.ok /\ loader.next = n + 1 /\ loader.next \in Nat
      /\ loader.next + 1 \in Nat \ {0} /\ ~loader.built
      /\ \A i \in 1..n : ~Errs(factories, i)
      /\ result.registry = {factories[i].creates : i \in 1..n} /\ result.loaded = n
  BY PluginConfig DEF LoadInv, LoadNext, Loading, Loader
<1>2. f.creates \in result.registry <=> \E j \in 1..n : factories[j].creates = f.creates
  BY <1>1
<1>3. Errs(factories, n + 1) <=> f.creates # f.announces \/ f.creates \in result.registry
  BY <1>1, <1>2 DEF Errs
<1>4. /\ loader' \in Loader /\ loader'.factories = factories /\ loader'.next = n + 2
      /\ ~loader'.built
      /\ loader'.result = LoadStep(result, f)
  <2>1. f \in Factory
    BY <1>1
  <2>2. LoadStep(result, f) \in Loaded
    <3>1. f.creates = f.announces => f.creates \in Plugin
      BY <2>1 DEF Factory
    <3> QED BY <1>1, <3>1 DEF LoadStep, Loaded
  <2> DEFINE step == LoadStep(result, f)
             next == loader.next + 1
  <2>3. loader' = [loader EXCEPT !.result = step, !.next = next]
    BY <1>1 DEF LoadNext
  <2>4. step \in Loaded /\ next \in Nat \ {0} /\ next = n + 2 /\ loader \in Loader
    BY <1>1, <2>2 DEF LoadInv
  <2> HIDE DEF step, next
  <2> QED BY <1>1, <2>3, <2>4 DEF Loader, step
<1>5. CASE Errs(factories, n + 1)
  <2>1. loader'.result = [registry |-> result.registry, loaded |-> result.loaded, ok |-> FALSE]
    BY <1>3, <1>4, <1>5 DEF LoadStep
  <2> QED BY <1>1, <1>4, <1>5, <2>1 DEF LoadInv
<1>6. CASE ~Errs(factories, n + 1)
  <2>1. loader'.result = [registry |-> result.registry \cup {f.creates},
                          loaded |-> result.loaded + 1, ok |-> TRUE]
    BY <1>3, <1>4, <1>6 DEF LoadStep
  <2>2. \A i \in 1..(n + 1) : ~Errs(factories, i)
    BY <1>1, <1>6
  <2>3. result.registry \cup {f.creates} = {factories[i].creates : i \in 1..(n + 1)}
    BY <1>1
  <2>4. loader'.next - 1 = n + 1 /\ n + 1 \in 0..Len(factories)
    BY <1>1, <1>4
  <2> QED BY <1>1, <1>4, <2>1, <2>2, <2>3, <2>4 DEF LoadInv
<1> QED BY <1>5, <1>6

LEMMA LoadInvNext == LoadInv /\ [Next]_vars => LoadInv'
<1> SUFFICES ASSUME LoadInv, [Next]_vars PROVE LoadInv'
  OBVIOUS
<1>1. CASE LoadNext
  BY <1>1, LoadNextInv
<1>2. CASE Build
  <2>1. /\ loader' \in Loader /\ loader'.factories = loader.factories
        /\ loader'.next = loader.next /\ loader'.result = loader.result
    BY <1>2 DEF Build, LoadInv, Loader
  <2> QED BY <1>2, <2>1 DEF Build, LoadInv, Loading
<1>3. CASE UNCHANGED loader
  BY <1>3 DEF LoadInv, Loading
<1> QED BY <1>1, <1>2, <1>3 DEF Next, Client, Run, Idle, vars

LEMMA LoadFollows == LoadInv => LoadedIsCleanPrefix
<1> SUFFICES ASSUME LoadInv PROVE LoadedIsCleanPrefix
  OBVIOUS
<1> DEFINE factories == loader.factories
           result == loader.result
           passed == IF result.ok THEN loader.next - 1 ELSE loader.next - 2
           clean == {i \in 1..Len(factories) : \A j \in 1..i : ~Errs(factories, j)}
<1>1. /\ Len(factories) \in Nat /\ passed \in 0..Len(factories)
      /\ \A i \in 1..passed : ~Errs(factories, i)
      /\ result.registry = {factories[i].creates : i \in 1..passed}
      /\ result.loaded = passed
      /\ ~result.ok => passed < Len(factories) /\ Errs(factories, passed + 1)
      /\ loader.built => ~Loading /\ result.ok
  BY PluginConfig DEF LoadInv, Loader
<1>2. ~Loading /\ result.ok => passed = Len(factories)
  <2>1. loader.next \in Nat
    BY DEF LoadInv, Loader
  <2>2. ~Loading /\ result.ok => ~(loader.next <= Len(factories)) /\ passed = loader.next - 1
    BY DEF Loading
  <2>3. Len(factories) \in Nat /\ passed \in 0..Len(factories)
    BY <1>1
  <2> DEFINE whole == ~Loading /\ result.ok
             l == Len(factories)
  <2>4. whole => ~(loader.next <= l) /\ passed = loader.next - 1
    BY <2>2
  <2>5. l \in Nat /\ passed \in 0..l
    BY <2>3
  <2> HIDE DEF passed, whole, l
  <2>6. whole => passed = l
    BY <2>1, <2>4, <2>5
  <2> QED BY <2>6 DEF whole, l
<1>3. passed = Len(factories) \/ Errs(factories, passed + 1) => clean = 1..passed
  <2> HIDE DEF passed, factories
  <2> QED BY <1>1
<1>4. ~Loading => /\ clean = 1..passed
                  /\ result.ok <=> passed = Len(factories)
  BY <1>1, <1>2, <1>3
<1>5. clean = 1..Len(factories) /\ clean = 1..passed => passed = Len(factories)
  <2>1. \A m, n \in Nat : 1..m = 1..n => m = n
    <3> SUFFICES ASSUME NEW m \in Nat, NEW n \in Nat, 1..m = 1..n PROVE m = n
      OBVIOUS
    <3>1. \A k \in Nat \ {0} : k <= m <=> k <= n
      <4>1. \A k \in Nat \ {0} : (k <= m <=> k \in 1..m) /\ (k <= n <=> k \in 1..n)
        OBVIOUS
      <4> QED BY <4>1
    <3>2. (m # 0 => m <= n) /\ (n # 0 => n <= m)
      BY <3>1
    <3> QED BY <3>2
  <2>2. passed \in Nat /\ Len(factories) \in Nat
    BY <1>1
  <2> HIDE DEF passed, factories, clean
  <2> QED BY <2>1, <2>2
<1> HIDE DEF passed
<1> QED BY <1>1, <1>2, <1>4, <1>5 DEF LoadedIsCleanPrefix

\* LoadedIsCleanPrefix (PluginLifecycle.tla): for every list of factories, of
\* any length, load_into leaves exactly the plugins before the first factory
\* that errs, and its result says whether there is one.
THEOREM LoadIsCleanPrefix == Spec => []LoadedIsCleanPrefix
<1>1. Init => LoadInv
  BY PluginConfig DEF Init, LoadInv, Loader, Loaded, Loading
<1> QED BY <1>1, LoadInvNext, LoadFollows, PTL DEF Spec

-----------------------------------------------------------------------------
(***************************************************************************)
(* That health is truthful.  A plugin's report reads flags that any of its *)
(* producers may write: what saves it is that the current producer, which  *)
(* nobody has cancelled, writes them too, and in an order.                 *)
(***************************************************************************)

\* What ties the flags of a running plugin to the producer it holds.
Witnessed(r, k) ==
  /\ k.no = r.no
  /\ ~k.aborted /\ ~k.cancelled /\ ~k.sampled
  /\ r.alive => k.pc \notin {"finish", "gone"}
  /\ k.pc = "gone" /\ ~k.clean => r.failed

CurrentProducer ==
  \A p \in Plugin : states[p] = "running" => Witnessed(instance[p], tasks[instance[p].task])

HealthInv == IInv /\ CurrentProducer

\* A plugin whose instance and producer a step leaves alone is as before.
LEMMA UntouchedHealth ==
  ASSUME HealthInv, NEW p \in Plugin, states'[p] = states[p], instance'[p] = instance[p],
         \A t \in 1..Len(tasks) : tasks[t].of = p => tasks'[t] = tasks[t],
         states'[p] = "running"
  PROVE  Witnessed(instance'[p], tasks'[instance'[p].task])
<1>1. instance[p].task \in 1..Len(tasks) /\ tasks[instance[p].task].of = p
  BY DEF HealthInv, IInv, HandleWhileRunning
<1>2. tasks'[instance'[p].task] = tasks[instance[p].task]
  BY <1>1
<1>3. Witnessed(instance[p], tasks[instance[p].task])
  BY DEF HealthInv, CurrentProducer
<1> QED BY <1>2, <1>3

LEMMA StartHealth ==
  ASSUME HealthInv, NEW p \in Plugin, Start(p)
  PROVE  CurrentProducer'
<1>1. tasks \in Seq(Task) /\ instance \in [Plugin -> Instance] /\ states \in [Plugin -> Lifecycle]
  BY DEF HealthInv, IInv, Types
<1>2. tasks' = Append(tasks, Producer(p)) /\ states' = [states EXCEPT ![p] = "running"]
  BY DEF Start, InitializeReplay, InitializeSynthetic
<1>3. /\ instance'[p].task = Len(tasks) + 1 /\ instance'[p].no = instance[p].no
      /\ \A q \in Plugin \ {p} : instance'[q] = instance[q]
  <2>1. instance[p] \in Instance /\ p \in DOMAIN instance
    BY <1>1
  <2>2. CASE InitializeReplay(p)
    <3> DEFINE r == [instance[p] EXCEPT !.task = Len(tasks) + 1, !.tx = FALSE,
                                        !.alive = TRUE, !.failed = FALSE]
    <3>1. instance' = [instance EXCEPT ![p] = r]
      BY <2>2, <1>1 DEF InitializeReplay
    <3>2. r.no = instance[p].no /\ r.task = Len(tasks) + 1
      BY <2>1 DEF Instance
    <3> HIDE DEF r
    <3> QED BY <1>1, <3>1, <3>2
  <2>3. CASE InitializeSynthetic(p)
    <3> DEFINE r == [instance[p] EXCEPT !.task = Len(tasks) + 1, !.alive = TRUE, !.failed = FALSE]
    <3>1. instance' = [instance EXCEPT ![p] = r]
      BY <2>3, <1>1 DEF InitializeSynthetic
    <3>2. r.no = instance[p].no /\ r.task = Len(tasks) + 1
      BY <2>1 DEF Instance
    <3> HIDE DEF r
    <3> QED BY <1>1, <3>1, <3>2
  <2> QED BY <2>2, <2>3 DEF Start
<1>4. Producer(p) \in Task
  BY <1>1 DEF Producer, Task, Instance
<1>5. /\ Len(tasks) \in Nat /\ tasks'[Len(tasks) + 1] = Producer(p)
      /\ \A t \in 1..Len(tasks) : tasks'[t] = tasks[t]
  BY <1>1, <1>2, <1>4
<1>6. Witnessed(instance'[p], tasks'[instance'[p].task])
  BY <1>3, <1>5 DEF Witnessed, Producer
<1>7. ASSUME NEW q \in Plugin \ {p}, states'[q] = "running"
      PROVE  Witnessed(instance'[q], tasks'[instance'[q].task])
  <2>1. states'[q] = states[q] /\ instance'[q] = instance[q]
    BY <1>1, <1>2, <1>3
  <2> QED BY <1>5, <1>7, <2>1, UntouchedHealth
<1> QED BY <1>6, <1>7 DEF CurrentProducer

LEMMA StopHealth ==
  ASSUME HealthInv, NEW p \in Plugin, Stop(p)
  PROVE  CurrentProducer'
<1> DEFINE s == instance[p].task
<1>1. /\ tasks \in Seq(Task) /\ instance \in [Plugin -> Instance] /\ states \in [Plugin -> Lifecycle]
      /\ s \in 1..Len(tasks) /\ tasks[s].of = p
  BY DEF HealthInv, IInv, Types, HandleWhileRunning, Stop
<1>2. /\ states' = [states EXCEPT ![p] = "stopped"]
      /\ \A q \in Plugin \ {p} : instance'[q] = instance[q]
  BY <1>1 DEF Stop, ShutdownReplay, ShutdownSynthetic
<1>3. \A t \in 1..Len(tasks) : t # s => tasks'[t] = tasks[t]
  BY <1>1 DEF Stop, ShutdownReplay, ShutdownSynthetic
<1> HIDE DEF s
<1>4. ASSUME NEW q \in Plugin, states'[q] = "running"
      PROVE  Witnessed(instance'[q], tasks'[instance'[q].task])
  <2>1. q # p /\ states'[q] = states[q] /\ instance'[q] = instance[q]
    BY <1>1, <1>2, <1>4
  <2>2. \A t \in 1..Len(tasks) : tasks[t].of = q => tasks'[t] = tasks[t]
    BY <1>1, <1>3, <2>1
  <2> QED BY <1>4, <2>1, <2>2, UntouchedHealth
<1> QED BY <1>4 DEF CurrentProducer

\* Registering, unregistering and a start that fails leave a plugin that is
\* not running behind, and touch no task.
LEMMA OtherClientHealth ==
  ASSUME HealthInv, NEW p \in Plugin, Register(p) \/ Unregister(p) \/ StartFails(p)
  PROVE  CurrentProducer'
<1>1. instance \in [Plugin -> Instance] /\ states \in [Plugin -> Lifecycle]
  BY DEF HealthInv, IInv, Types
<1>2. /\ tasks' = tasks /\ states'[p] # "running"
      /\ \A q \in Plugin \ {p} : states'[q] = states[q] /\ instance'[q] = instance[q]
  BY <1>1 DEF Register, Unregister, StartFails
<1>3. ASSUME NEW q \in Plugin, states'[q] = "running"
      PROVE  Witnessed(instance'[q], tasks'[instance'[q].task])
  <2>1. states'[q] = states[q] /\ instance'[q] = instance[q]
    BY <1>2, <1>3
  <2> QED BY <1>2, <1>3, <2>1, UntouchedHealth
<1> QED BY <1>3 DEF CurrentProducer

\* A producer, old or current, clears the flag of life and sets that of
\* failure, never the other way round.
LEMMA FlagsOfRun ==
  ASSUME IInv, NEW t \in 1..Len(tasks), Run(t), NEW p \in Plugin
  PROVE  /\ instance'[p].no = instance[p].no /\ instance'[p].task = instance[p].task
         /\ instance'[p].alive => instance[p].alive
         /\ instance[p].failed => instance'[p].failed
<1>1. instance \in [Plugin -> Instance] /\ tasks[t].of \in Plugin
  BY TaskTypes DEF IInv, Types
<1>2. instance[p] \in Instance
  BY <1>1
<1>3. CASE instance' = instance
  BY <1>3
<1>4. CASE SetFailed(t)
  <2> DEFINE r == [instance[p] EXCEPT !.failed = TRUE]
  <2>1. instance'[p] = instance[p] \/ instance'[p] = r
    BY <1>1, <1>4 DEF SetFailed
  <2>2. r.no = instance[p].no /\ r.task = instance[p].task /\ r.alive = instance[p].alive /\ r.failed
    BY <1>2 DEF Instance
  <2> HIDE DEF r
  <2> QED BY <2>1, <2>2
<1>5. CASE Close(t)
  <2> DEFINE r == [instance[p] EXCEPT !.alive = FALSE]
  <2>1. instance'[p] = instance[p] \/ instance'[p] = r
    BY <1>1, <1>5 DEF Close
  <2>2. r.no = instance[p].no /\ r.task = instance[p].task /\ ~r.alive /\ r.failed = instance[p].failed
    BY <1>2 DEF Instance
  <2> HIDE DEF r
  <2> QED BY <2>1, <2>2
<1> QED BY <1>3, <1>4, <1>5 DEF Run, Check, ProduceFrame, ReplayFails, ProduceSample, Sleep,
                                FinishReplay, FinishSynthetic, Aborted

\* A step of one task leaves the others as they are.
LEMMA RunMovesOne ==
  ASSUME IInv, NEW t \in 1..Len(tasks), Run(t), NEW u \in 1..Len(tasks), u # t
  PROVE  tasks'[u] = tasks[u]
<1>1. tasks \in Seq(Task)
  BY DEF IInv, Types
<1> QED BY <1>1 DEF Run, Check, ProduceFrame, ReplayFails, ProduceSample, Sleep, Close,
                    FinishReplay, FinishSynthetic, Aborted, Goto

\* The current producer's own steps: it clears the flag of life before it
\* finishes, and when it finishes without its input's end it leaves a failure.
LEMMA CurrentRuns ==
  ASSUME HealthInv, NEW p \in Plugin, states[p] = "running", NEW t, t = instance[p].task, Run(t)
  PROVE  Witnessed(instance'[p], tasks'[t])
<1>1. /\ tasks \in Seq(Task) /\ instance \in [Plugin -> Instance]
      /\ t \in 1..Len(tasks) /\ tasks[t].of = p /\ tasks[t] \in Task /\ instance[p] \in Instance
  BY DEF HealthInv, IInv, Types, HandleWhileRunning
<1>2. Witnessed(instance[p], tasks[t])
  BY DEF HealthInv, CurrentProducer
<1>3. /\ instance'[p].no = instance[p].no
      /\ instance'[p].alive => instance[p].alive
      /\ instance[p].failed => instance'[p].failed
  BY <1>1, FlagsOfRun DEF HealthInv
<1>4. Owns(t)
  BY <1>1, <1>2 DEF Owns, Witnessed
\* What a step that only moves the task to another place does to it.
<1>5. ASSUME NEW pc \in {"check", "produce", "sleep", "close", "finish", "gone"}, Goto(t, pc)
      PROVE  /\ tasks'[t].pc = pc /\ tasks'[t].no = tasks[t].no
             /\ tasks'[t].aborted = tasks[t].aborted /\ tasks'[t].cancelled = tasks[t].cancelled
             /\ tasks'[t].sampled = tasks[t].sampled /\ tasks'[t].clean = tasks[t].clean
  <2> DEFINE k == [tasks[t] EXCEPT !.pc = pc]
  <2>1. tasks' = [tasks EXCEPT ![t] = k]
    BY <1>5 DEF Goto
  <2>2. /\ k.pc = pc /\ k.no = tasks[t].no /\ k.aborted = tasks[t].aborted
        /\ k.cancelled = tasks[t].cancelled /\ k.sampled = tasks[t].sampled /\ k.clean = tasks[t].clean
    BY <1>1 DEF Task
  <2> HIDE DEF k
  <2>3. tasks'[t] = k
    BY <1>1, <2>1
  <2> QED BY <2>2, <2>3
<1>6. ASSUME NEW pc \in {"check", "produce", "sleep", "close"}, Goto(t, pc)
      PROVE  Witnessed(instance'[p], tasks'[t])
  BY <1>2, <1>3, <1>5, <1>6 DEF Witnessed
<1>7. CASE Check(t)
  <2>1. CASE tasks' = [tasks EXCEPT ![t].pc = "close", ![t].clean = TRUE]
    <3> DEFINE k == [tasks[t] EXCEPT !.pc = "close", !.clean = TRUE]
    <3>1. tasks' = [tasks EXCEPT ![t] = k]
      BY <1>1, <2>1
    <3>2. /\ k.pc = "close" /\ k.no = tasks[t].no /\ k.aborted = tasks[t].aborted
          /\ k.cancelled = tasks[t].cancelled /\ k.sampled = tasks[t].sampled
      BY <1>1 DEF Task
    <3> HIDE DEF k
    <3>3. tasks'[t] = k
      BY <1>1, <3>1
    <3> QED BY <1>2, <1>3, <3>2, <3>3 DEF Witnessed
  <2> QED BY <1>6, <1>7, <2>1 DEF Check
<1>8. CASE ProduceFrame(t) \/ ReplayFails(t) \/ ProduceSample(t) \/ Sleep(t)
  BY <1>6, <1>8 DEF ProduceFrame, ReplayFails, ProduceSample, Sleep
<1>9. CASE Close(t)
  <2> DEFINE k == [tasks[t] EXCEPT !.pc = "finish", !.sampled = tasks[t].cancelled]
  <2>1. tasks' = [tasks EXCEPT ![t] = k]
    BY <1>1, <1>9 DEF Close
  <2>2. /\ k.pc = "finish" /\ k.no = tasks[t].no /\ k.aborted = tasks[t].aborted
        /\ k.cancelled = tasks[t].cancelled /\ k.sampled = tasks[t].cancelled
    BY <1>1 DEF Task
  <2> HIDE DEF k
  <2>3. tasks'[t] = k
    BY <1>1, <2>1
  <2>4. instance' = [instance EXCEPT ![p].alive = FALSE]
    BY <1>1, <1>4, <1>9 DEF Close
  <2>5. ~instance'[p].alive
    BY <1>1, <2>4 DEF Instance
  <2> QED BY <1>2, <1>3, <2>2, <2>3, <2>5 DEF Witnessed
<1>10. CASE FinishReplay(t) \/ FinishSynthetic(t)
  <2>1. Goto(t, "gone") /\ tasks[t].pc = "finish"
    BY <1>10 DEF FinishReplay, FinishSynthetic
  <2>2. ~instance[p].alive
    BY <1>2, <2>1 DEF Witnessed
  <2>3. ~tasks[t].clean => instance'[p].failed
    <3>1. CASE SetFailed(t)
      <4>1. instance' = [instance EXCEPT ![p].failed = TRUE]
        BY <1>1, <1>4, <3>1 DEF SetFailed
      <4> QED BY <1>1, <4>1 DEF Instance
    <3>2. CASE FailedFlag(t)
      BY <1>1, <1>3, <3>2 DEF FailedFlag
    <3>3. ~tasks[t].sampled
      BY <1>2 DEF Witnessed
    <3> QED BY <1>10, <3>1, <3>2, <3>3 DEF FinishReplay, FinishSynthetic
  <2> QED BY <1>2, <1>3, <1>5, <2>1, <2>2, <2>3 DEF Witnessed
<1>11. CASE Aborted(t)
  BY <1>2, <1>11 DEF Aborted, Witnessed
<1> QED BY <1>7, <1>8, <1>9, <1>10, <1>11 DEF Run

LEMMA RunHealth ==
  ASSUME HealthInv, NEW t \in 1..Len(tasks), Run(t)
  PROVE  CurrentProducer'
<1>1. states' = states
  BY DEF Run, Check, ProduceFrame, ReplayFails, ProduceSample, Sleep, Close, FinishReplay,
         FinishSynthetic, Aborted
<1>2. ASSUME NEW p \in Plugin, states[p] = "running"
      PROVE  Witnessed(instance'[p], tasks'[instance'[p].task])
  <2>1. /\ instance'[p].no = instance[p].no /\ instance'[p].task = instance[p].task
        /\ instance'[p].alive => instance[p].alive
        /\ instance[p].failed => instance'[p].failed
    BY FlagsOfRun DEF HealthInv
  <2>2. CASE t = instance[p].task
    BY <1>2, <2>1, <2>2, CurrentRuns
  <2>3. CASE t # instance[p].task
    <3>1. instance[p].task \in 1..Len(tasks)
      BY <1>2 DEF HealthInv, IInv, HandleWhileRunning
    <3>2. tasks'[instance[p].task] = tasks[instance[p].task]
      BY <2>3, <3>1, RunMovesOne DEF HealthInv
    <3>3. Witnessed(instance[p], tasks[instance[p].task])
      BY <1>2 DEF HealthInv, CurrentProducer
    <3> QED BY <2>1, <3>2, <3>3 DEF Witnessed
  <2> QED BY <2>2, <2>3
<1> QED BY <1>1, <1>2 DEF CurrentProducer

LEMMA HealthNext == HealthInv /\ Quiet /\ [Next]_vars => HealthInv' /\ Quiet'
<1> SUFFICES ASSUME HealthInv, Quiet, [Next]_vars PROVE CurrentProducer'
  BY NextInv DEF HealthInv
<1>0. CASE LoadNext \/ Build
  BY <1>0 DEF LoadNext, Build, HealthInv, CurrentProducer
<1>1. CASE Client
  BY <1>1, StartHealth, StopHealth, OtherClientHealth DEF Client
<1>2. CASE \E t \in 1..Len(tasks) : Run(t)
  BY <1>2, RunHealth
<1>3. CASE UNCHANGED vars
  BY <1>3 DEF vars, HealthInv, CurrentProducer
<1> QED BY <1>0, <1>1, <1>2, <1>3 DEF Next, Idle

LEMMA HealthFollows == HealthInv => HealthIsTruthful
<1> SUFFICES ASSUME HealthInv, NEW p \in Plugin, states[p] = "running"
             PROVE  LET task == tasks[instance[p].task]
                        completed == p \in Replay /\ stats[p].completion = "completed"
                    IN  /\ Health(p) = "healthy" /\ ~completed => task.pc \notin {"finish", "gone"}
                        /\ task.pc = "gone" /\ ~task.clean => Health(p) = "unhealthy"
  BY DEF HealthIsTruthful
<1>1. Witnessed(instance[p], tasks[instance[p].task])
  BY DEF HealthInv, CurrentProducer
<1>2. Health(p) = "healthy" => instance[p].alive \/ (p \in Replay /\ stats[p].completion = "completed")
  BY DEF Health, ReplayHealth, SyntheticHealth, TaskHealth
<1>3. instance[p].failed => Health(p) = "unhealthy"
  BY DEF Health, ReplayHealth, SyntheticHealth
<1> QED BY <1>1, <1>2, <1>3 DEF Witnessed

\* HealthIsTruthful (PluginLifecycle.tla): the report of a running plugin,
\* which reads its shared flags one by one, is never healthier than the
\* producer it now has, for every number of plugins, restarts and producers
\* of earlier starts that still write the same flags and statistics.
THEOREM HealthTellsTheTruth == Spec => []HealthIsTruthful
<1>1. Init => HealthInv /\ Quiet
  BY InitInv DEF Init, HealthInv, CurrentProducer
<1> QED BY <1>1, NextInv, HealthNext, HealthFollows, PTL DEF Spec
=============================================================================

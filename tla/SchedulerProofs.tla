-------------------------- MODULE SchedulerProofs ---------------------------
(* Theorems about Scheduler, for every value of its constants: any number  *)
(* of tasks, goroutines and slots, any responses.                          *)
EXTENDS Scheduler, FiniteSetTheorems, SequenceTheorems, TLAPS

-----------------------------------------------------------------------------
(* The comparison of tasks.                                                *)

LEMMA ParamsChanged ==
  ASSUME NEW a \in SNMPParams \cup {NoSNMP}, NEW b \in SNMPParams \cup {NoSNMP}
  PROVE  snmpParamsChanged(a, b) <=> a # b
  <1>1. CASE a = NoSNMP \/ b = NoSNMP
    BY <1>1 DEF snmpParamsChanged
  <1>2. CASE a # NoSNMP /\ b # NoSNMP
    <2>1. a \in SNMPParams /\ b \in SNMPParams
      BY <1>2
    <2>2. a = b <=> a.scalar = b.scalar /\ a.extraOIDs = b.extraOIDs
      BY <2>1 DEF SNMPParams
    <2>3. a.scalar \in [ParamFields -> Values] /\ b.scalar \in [ParamFields -> Values]
      BY <2>1 DEF SNMPParams
    <2>4. a.scalar = b.scalar <=> \A f \in ParamFields : a.scalar[f] = b.scalar[f]
      BY <2>3
    <2>5. ComparedFields = ParamFields
      BY DEF ComparedFields, ParamFields
    <2> QED BY <1>2, <2>2, <2>4, <2>5 DEF snmpParamsChanged
  <1> QED BY <1>1, <1>2

LEMMA TargetsChanged ==
  ASSUME NEW a \in Seq(Hosts), NEW b \in Seq(Hosts)
  PROVE  targetsChanged(a, b) <=> a # b
  BY DEF targetsChanged

\* taskChanged sees every change of a task that keeps its id, and only such a
\* change: none of the parameters of a task, SNMP block included, can be edited
\* on the server without its runner being restarted.
THEOREM TaskDiffExact ==
  ASSUME NEW old \in Task, NEW cur \in Task, old.TaskID = cur.TaskID
  PROVE  taskChanged(old, cur) <=> old # cur
  <1>1. old = cur <=>
          /\ old.IntervalSeconds = cur.IntervalSeconds /\ old.Type = cur.Type
          /\ old.SkipTLSVerify = cur.SkipTLSVerify
          /\ old.AddressFamily = cur.AddressFamily
          /\ old.Targets = cur.Targets /\ old.SNMP = cur.SNMP
    BY DEF Task
  <1>2. targetsChanged(old.Targets, cur.Targets) <=> old.Targets # cur.Targets
    BY TargetsChanged DEF Task
  <1>3. snmpParamsChanged(old.SNMP, cur.SNMP) <=> old.SNMP # cur.SNMP
    BY ParamsChanged DEF Task
  <1> QED BY <1>1, <1>2, <1>3 DEF taskChanged
-----------------------------------------------------------------------------
(* The types.                                                              *)

Runner0 == [task : Tasks \cup {NoTask}, live : BOOLEAN, phase : Phases,
            src : Sources, waiting : Int, running : Int, done : Int]

\* What the proofs need of the types; that held and the counts never go below
\* zero is part of CountInv.
Types ==
  /\ pc \in {"fetch", "swap", "restart", "remove", "start", "loop", "stopped"}
  /\ resp \in Responses \cup {NoResponse}
  /\ todo \in Seq(Tasks)
  /\ pc \in {"swap", "restart", "remove", "start"} => resp \in Responses
  /\ runners \in [TaskIDs -> Goroutines \cup {NoRunner}]
  /\ gor \in [Goroutines -> Runner0]
  /\ source \in Sources
  /\ cancelled \in BOOLEAN
  /\ \A g \in Goroutines :
       /\ gor[g].live => gor[g].phase # "ended"
       /\ gor[g].phase # "ended" => gor[g].task \in Tasks

LEMMA ResponseFacts ==
  ASSUME NEW r \in Responses
  PROVE  r.tasks \in Seq(Tasks) /\ r.source \in Sources
  <1>1. r.tasks \in Seq(Task) /\ r.source \in Sources
    BY SchedulerAssumption
  <1>2. \A i \in DOMAIN r.tasks : r.tasks[i] \in Tasks
    BY DEF Tasks
  <1>3. r.tasks \in [1 .. Len(r.tasks) -> Tasks] /\ Len(r.tasks) \in Nat
    BY <1>1, <1>2
  <1> QED BY <1>1, <1>3

LEMMA JobCountType == \A t \in Tasks : JobCount(t) \in Nat
  <1> SUFFICES ASSUME NEW t \in Tasks PROVE JobCount(t) \in Nat
    OBVIOUS
  <1>1. PICK r \in Responses : \E i \in DOMAIN r.tasks : t = r.tasks[i]
    BY DEF Tasks
  <1>2. r.tasks \in Seq(Task)
    BY SchedulerAssumption
  <1>3. Len(t.Targets) \in Nat
    BY <1>1, <1>2 DEF Task
  <1>4. IsFiniteSet(1 .. Len(t.Targets)) /\ IsFiniteSet({"", "ip4", "ip6"})
    <2>1. IsFiniteSet({""})
      BY FS_Singleton
    <2>2. IsFiniteSet({""} \cup {"ip4"})
      BY <2>1, FS_AddElement
    <2>3. IsFiniteSet({""} \cup {"ip4"} \cup {"ip6"})
      BY <2>2, FS_AddElement
    <2>4. {""} \cup {"ip4"} \cup {"ip6"} = {"", "ip4", "ip6"}
      OBVIOUS
    <2>5. IsFiniteSet(1 .. Len(t.Targets))
      BY <1>3, FS_Interval
    <2> QED BY <2>3, <2>4, <2>5
  <1>5. IsFiniteSet((1 .. Len(t.Targets)) \X {"", "ip4", "ip6"})
    BY <1>4, FS_Product
  <1>6. Jobs(t) \subseteq (1 .. Len(t.Targets)) \X {"", "ip4", "ip6"}
    BY DEF Jobs
  <1>7. Cardinality(Jobs(t)) \in Nat
    BY <1>5, <1>6, FS_Subset, FS_CardinalityType
  <1> QED BY <1>7 DEF JobCount

LEMMA LaunchedType ==
  ASSUME NEW t \in Tasks, cancelled \in BOOLEAN
  PROVE  Launched(t) \in Runner0 /\ Launched(t).task = t
         /\ Launched(t).phase # "round"
  <1> DEFINE start == IF t.Type = "snmp_poll" /\ t.IntervalSeconds > 1
                        THEN "offset" ELSE "begin"
  <1>1. Launched(t) = [task |-> t, live |-> ~cancelled, phase |-> start,
                       src |-> NoSource, waiting |-> 0, running |-> 0, done |-> 0]
    BY DEF Launched
  <1>2. (~cancelled) \in BOOLEAN /\ start \in Phases /\ start # "round"
    BY DEF Phases
  <1>3. NoSource \in Sources
    BY DEF Sources
  <1> HIDE DEF start
  <1> QED BY <1>1, <1>2, <1>3 DEF Runner0

LEMMA CancelAllType ==
  ASSUME gor \in [Goroutines -> Runner0], NEW G
  PROVE  /\ CancelAll(G) \in [Goroutines -> Runner0]
         /\ \A g \in Goroutines :
              /\ CancelAll(G)[g].task = gor[g].task
              /\ CancelAll(G)[g].phase = gor[g].phase
              /\ CancelAll(G)[g].src = gor[g].src
              /\ CancelAll(G)[g].live <=> gor[g].live /\ g \notin G
  <1>1. CancelAll(G) = [g \in Goroutines |->
             IF g \in G THEN [gor[g] EXCEPT !.live = FALSE] ELSE gor[g]]
    BY DEF CancelAll
  <1>2. ASSUME NEW g \in Goroutines
        PROVE  /\ CancelAll(G)[g] \in Runner0
               /\ CancelAll(G)[g].task = gor[g].task
               /\ CancelAll(G)[g].phase = gor[g].phase
               /\ CancelAll(G)[g].src = gor[g].src
               /\ CancelAll(G)[g].live <=> gor[g].live /\ g \notin G
    <2>1. gor[g] \in Runner0
      OBVIOUS
    <2>2. CASE g \in G
      <3>1. CancelAll(G)[g] = [gor[g] EXCEPT !.live = FALSE]
        BY <1>1, <2>2
      <3> QED BY <2>1, <2>2, <3>1 DEF Runner0
    <2>3. CASE g \notin G
      <3>1. CancelAll(G)[g] = gor[g]
        BY <1>1, <2>3
      <3> QED BY <2>1, <2>3, <3>1
    <2> QED BY <2>2, <2>3
  <1> QED BY <1>1, <1>2

-----------------------------------------------------------------------------
(* NoStaleSource is inductive only beside NoLeakedRunner: the restart after *)
(* a change of sources reaches every live runner because the map of Run     *)
(* names every live runner.                                                 *)

SchedInv == Types /\ NoLeakedRunner /\ NoStaleSource

\* Records that differ from a runner in counts, or at the end of a round.
LEMMA RecordTypes ==
  ASSUME NEW r \in Runner0, NEW w \in Int, NEW u \in Int, NEW d \in Int
  PROVE  /\ [r EXCEPT !.waiting = w, !.running = u] \in Runner0
         /\ [r EXCEPT !.running = u, !.done = d] \in Runner0
  <1>1. [r EXCEPT !.waiting = w, !.running = u] \in Runner0
    BY DEF Runner0
  <1>2. [r EXCEPT !.running = u, !.done = d] \in Runner0
    BY DEF Runner0
  <1> QED BY <1>1, <1>2

LEMMA IdleRecordType ==
  ASSUME NEW r \in Runner0
  PROVE  [r EXCEPT !.phase = "idle", !.done = 0, !.src = NoSource] \in Runner0
  <1>1. NoSource \in Sources /\ "idle" \in Phases
    BY DEF Phases, Sources
  <1>2. PICK z \in Int : z = 0
    OBVIOUS
  <1>3. [r EXCEPT !.phase = "idle", !.done = z, !.src = NoSource] \in Runner0
    BY <1>1 DEF Runner0
  <1> QED BY <1>2, <1>3

\* A step of one runner goroutine g that neither revives it nor changes its
\* task, and gives it the current source when it begins a round.
LEMMA RunnerStep ==
  ASSUME SchedInv, NEW g \in Goroutines, NEW rec \in Runner0,
         gor' = [gor EXCEPT ![g] = rec],
         rec.task = gor[g].task, rec.live <=> gor[g].live,
         gor[g].phase # "ended", rec.live => rec.phase # "ended",
         rec.phase = "round" => \/ gor[g].phase = "round" /\ rec.src = gor[g].src
                                \/ rec.src = source
                                \/ rec.task.Type = "snmp_poll",
         UNCHANGED <<pc, srv, cancelled>>
  PROVE  SchedInv'
  <1>1. /\ gor \in [Goroutines -> Runner0] /\ gor' \in [Goroutines -> Runner0]
        /\ gor'[g] = rec /\ \A h \in Goroutines : h # g => gor'[h] = gor[h]
    BY DEF SchedInv, Types
  <1>2. Types'
    BY <1>1 DEF SchedInv, Types, srv
  <1>3. NoLeakedRunner'
    BY <1>1 DEF SchedInv, NoLeakedRunner, srv
  <1>4. NoStaleSource'
    BY <1>1 DEF SchedInv, NoStaleSource, srv
  <1> QED BY <1>2, <1>3, <1>4 DEF SchedInv

LEMMA RunnerPreserves ==
  ASSUME SchedInv, NEW g \in Goroutines, Runner(g)
  PROVE  SchedInv'
  <1>1. gor[g] \in Runner0 /\ gor \in [Goroutines -> Runner0]
    BY DEF SchedInv, Types
  <1>2. CASE OffsetPasses(g)
    <2> DEFINE rec == [gor[g] EXCEPT !.phase = "begin"]
    <2>1. gor' = [gor EXCEPT ![g] = rec] /\ UNCHANGED <<pc, srv, cancelled>>
      BY <1>1, <1>2 DEF OffsetPasses
    <2>2. gor[g].phase # "ended"
      BY <1>1, <1>2 DEF OffsetPasses
    <2>3. /\ rec \in Runner0 /\ rec.task = gor[g].task
          /\ rec.live <=> gor[g].live
          /\ rec.live => rec.phase # "ended"
          /\ rec.phase # "round"
      BY <1>1 DEF Runner0, Phases
    <2> HIDE DEF rec
    <2> QED BY <2>1, <2>2, <2>3, RunnerStep
  <1>3. CASE BeginRound(g)
    <2> DEFINE s == IF gor[g].task.Type = "snmp_poll" THEN NoSource ELSE source
               rec == [gor[g] EXCEPT !.phase = "round",
                                     !.waiting = JobCount(gor[g].task), !.src = s]
    <2>1. gor' = [gor EXCEPT ![g] = rec] /\ UNCHANGED <<pc, srv, cancelled>>
      BY <1>1, <1>3 DEF BeginRound
    <2>2. gor[g].phase # "ended" /\ gor[g].task \in Tasks
      BY <1>1, <1>3 DEF BeginRound, SchedInv, Types
    <2>3. s \in Sources /\ JobCount(gor[g].task) \in Int
      <3>1. NoSource \in Sources
        BY DEF Sources
      <3> QED BY <2>2, <3>1, JobCountType DEF SchedInv, Types
    <2>4. s = source \/ gor[g].task.Type = "snmp_poll"
      OBVIOUS
    <2> HIDE DEF s
    <2>5. /\ rec \in Runner0 /\ rec.task = gor[g].task
          /\ rec.live <=> gor[g].live
          /\ rec.live => rec.phase # "ended"
          /\ rec.src = s
      BY <1>1, <2>3 DEF Runner0, Phases
    <2> HIDE DEF rec
    <2> QED BY <2>1, <2>2, <2>4, <2>5, RunnerStep
  <1>4. CASE Acquire(g)
    <2> DEFINE rec == [gor[g] EXCEPT !.waiting = @ - 1, !.running = @ + 1]
    <2>1. gor' = [gor EXCEPT ![g] = rec] /\ UNCHANGED <<pc, srv, cancelled>>
      BY <1>1, <1>4 DEF Acquire
    <2>2. gor[g].phase # "ended"
      BY <1>1, <1>4 DEF Acquire, Asking
    <2>3. /\ rec \in Runner0 /\ rec.task = gor[g].task
          /\ rec.live <=> gor[g].live
          /\ rec.live => rec.phase # "ended"
          /\ rec.phase = gor[g].phase /\ rec.src = gor[g].src
      <3>1. gor[g].waiting - 1 \in Int /\ gor[g].running + 1 \in Int
        BY <1>1 DEF Runner0
      <3>2. rec \in Runner0
        BY <1>1, <3>1, RecordTypes
      <3> QED BY <1>1, <2>2, <3>2 DEF Runner0
    <2> HIDE DEF rec
    <2> QED BY <2>1, <2>2, <2>3, RunnerStep
  <1>5. CASE GiveUp(g)
    <2> DEFINE rec == [gor[g] EXCEPT !.waiting =
                                     IF Serial(gor[g].task) THEN 0 ELSE @ - 1]
    <2>1. gor' = [gor EXCEPT ![g] = rec] /\ UNCHANGED <<pc, srv, cancelled>>
      BY <1>1, <1>5 DEF GiveUp
    <2>2. gor[g].phase # "ended"
      BY <1>1, <1>5 DEF GiveUp, Asking
    <2>3. /\ rec \in Runner0 /\ rec.task = gor[g].task
          /\ rec.live <=> gor[g].live
          /\ rec.live => rec.phase # "ended"
          /\ rec.phase = gor[g].phase /\ rec.src = gor[g].src
      BY <1>1, <2>2 DEF Runner0
    <2> HIDE DEF rec
    <2> QED BY <2>1, <2>2, <2>3, RunnerStep
  <1>6. CASE FinishJob(g)
    <2> DEFINE rec == [gor[g] EXCEPT !.running = @ - 1, !.done = @ + 1]
    <2>1. gor' = [gor EXCEPT ![g] = rec] /\ UNCHANGED <<pc, srv, cancelled>>
      BY <1>1, <1>6 DEF FinishJob
    <2>2. gor[g].phase # "ended"
      BY <1>1, <1>6 DEF FinishJob
    <2>3. /\ rec \in Runner0 /\ rec.task = gor[g].task
          /\ rec.live <=> gor[g].live
          /\ rec.live => rec.phase # "ended"
          /\ rec.phase = gor[g].phase /\ rec.src = gor[g].src
      <3>1. gor[g].running - 1 \in Int /\ gor[g].done + 1 \in Int
        BY <1>1 DEF Runner0
      <3>2. rec \in Runner0
        BY <1>1, <3>1, RecordTypes
      <3> QED BY <1>1, <2>2, <3>2 DEF Runner0
    <2> HIDE DEF rec
    <2> QED BY <2>1, <2>2, <2>3, RunnerStep
  <1>7. CASE EndRound(g)
    <2> DEFINE rec == [gor[g] EXCEPT !.phase = "idle", !.done = 0, !.src = NoSource]
    <2>1. gor' = [gor EXCEPT ![g] = rec] /\ UNCHANGED <<pc, srv, cancelled>>
      BY <1>1, <1>7 DEF EndRound
    <2>2. gor[g].phase # "ended"
      BY <1>1, <1>7 DEF EndRound
    <2>3. /\ rec \in Runner0 /\ rec.task = gor[g].task
          /\ rec.live <=> gor[g].live
          /\ rec.live => rec.phase # "ended"
          /\ rec.phase # "round"
      <3>1. rec \in Runner0
        BY <1>1, IdleRecordType
      <3> QED BY <1>1, <3>1 DEF Runner0
    <2> HIDE DEF rec
    <2> QED BY <2>1, <2>2, <2>3, RunnerStep
  <1>8. CASE EndRunner(g)
    <2> DEFINE rec == [gor[g] EXCEPT !.phase = "ended"]
    <2>1. gor' = [gor EXCEPT ![g] = rec] /\ UNCHANGED <<pc, srv, cancelled>>
      BY <1>1, <1>8 DEF EndRunner
    <2>2. gor[g].phase # "ended"
      BY <1>1, <1>8 DEF EndRunner
    <2>3. /\ rec \in Runner0 /\ rec.task = gor[g].task
          /\ rec.live <=> gor[g].live
          /\ rec.live => rec.phase # "ended"
          /\ rec.phase # "round"
      BY <1>1, <1>8 DEF Runner0, Phases, EndRunner
    <2> HIDE DEF rec
    <2> QED BY <2>1, <2>2, <2>3, RunnerStep
  <1> QED BY <1>2, <1>3, <1>4, <1>5, <1>6, <1>7, <1>8 DEF Runner

\* Dropping runners from the map cancels exactly the goroutines it named.
LEMMA DropStep ==
  ASSUME SchedInv, NEW D \in SUBSET TaskIDs, DropRunners(D)
  PROVE  /\ gor' \in [Goroutines -> Runner0]
         /\ runners' \in [TaskIDs -> Goroutines \cup {NoRunner}]
         /\ \A g \in Goroutines :
              /\ gor'[g].task = gor[g].task /\ gor'[g].phase = gor[g].phase
              /\ gor'[g].src = gor[g].src
              /\ gor'[g].live => gor[g].live
              /\ gor'[g].live => gor[g].task.TaskID \notin D
         /\ NoLeakedRunner'
  <1> DEFINE G == {runners[id] : id \in D}
  <1>1. gor \in [Goroutines -> Runner0] /\ gor' = CancelAll(G)
    BY DEF SchedInv, Types, DropRunners
  <1>2. /\ runners' = [id \in TaskIDs |-> IF id \in D THEN NoRunner ELSE runners[id]]
        /\ runners' \in [TaskIDs -> Goroutines \cup {NoRunner}]
    BY DEF SchedInv, Types, DropRunners
  <1>3. /\ gor' \in [Goroutines -> Runner0]
        /\ \A g \in Goroutines :
             /\ gor'[g].task = gor[g].task /\ gor'[g].phase = gor[g].phase
             /\ gor'[g].src = gor[g].src
             /\ gor'[g].live <=> gor[g].live /\ g \notin G
    BY <1>1, CancelAllType
  <1>4. ASSUME NEW g \in Goroutines, gor'[g].live
        PROVE  /\ gor[g].task.TaskID \notin D
               /\ runners'[gor[g].task.TaskID] = g
    <2>1. /\ gor[g].live /\ g \notin G
          /\ runners[gor[g].task.TaskID] = g /\ gor[g].task.TaskID \in TaskIDs
      BY <1>3, <1>4, SchedulerAssumption DEF SchedInv, Types, NoLeakedRunner
    <2>2. gor[g].task.TaskID \notin D
      BY <2>1
    <2> QED BY <1>2, <2>1, <2>2
  <1>5. NoLeakedRunner'
    BY <1>3, <1>4 DEF NoLeakedRunner
  <1> QED BY <1>2, <1>3, <1>4, <1>5

LEMMA RestartPreserves == SchedInv /\ RestartAll => SchedInv'
  <1> SUFFICES ASSUME SchedInv, RestartAll PROVE SchedInv'
    OBVIOUS
  <1>1. DropRunners(TaskIDs)
    BY DEF RestartAll
  <1>2. \A g \in Goroutines : ~gor'[g].live
    <2> SUFFICES ASSUME NEW g \in Goroutines, gor'[g].live PROVE FALSE
      OBVIOUS
    <2>1. gor[g].live /\ gor[g].task.TaskID \notin TaskIDs
      BY <1>1, DropStep
    <2> QED BY <2>1, SchedulerAssumption DEF SchedInv, Types
  <1>3. Types'
    <2>1. /\ gor' \in [Goroutines -> Runner0]
          /\ runners' \in [TaskIDs -> Goroutines \cup {NoRunner}]
          /\ \A g \in Goroutines :
               gor'[g].task = gor[g].task /\ gor'[g].phase = gor[g].phase
      <3>1. TaskIDs \in SUBSET TaskIDs
        OBVIOUS
      <3> QED BY <1>1, <3>1, DropStep
    <2> QED BY <1>2, <2>1 DEF RestartAll, SchedInv, Types
  <1>4. NoLeakedRunner' /\ NoStaleSource'
    BY <1>2 DEF NoLeakedRunner, NoStaleSource
  <1> QED BY <1>3, <1>4 DEF SchedInv

LEMMA RemovePreserves == SchedInv /\ RemoveUnwanted => SchedInv'
  <1> SUFFICES ASSUME SchedInv, RemoveUnwanted PROVE SchedInv'
    OBVIOUS
  <1>1. PICK D \in SUBSET TaskIDs : DropRunners(D)
    BY DEF RemoveUnwanted
  <1>2. /\ gor' \in [Goroutines -> Runner0]
        /\ runners' \in [TaskIDs -> Goroutines \cup {NoRunner}]
        /\ NoLeakedRunner'
        /\ \A g \in Goroutines :
             /\ gor'[g].task = gor[g].task /\ gor'[g].phase = gor[g].phase
             /\ gor'[g].src = gor[g].src
             /\ gor'[g].live => gor[g].live
    BY <1>1, DropStep
  <1>3. todo' \in Seq(Tasks) /\ resp \in Responses
    BY ResponseFacts DEF RemoveUnwanted, SchedInv, Types
  <1>4. pc = "remove" /\ pc' = "start" /\ UNCHANGED <<resp, source, cancelled>>
    BY DEF RemoveUnwanted
  <1>5. Types'
    <2>1. \A g \in Goroutines :
            /\ gor'[g].live => gor'[g].phase # "ended"
            /\ gor'[g].phase # "ended" => gor'[g].task \in Tasks
      BY <1>2 DEF SchedInv, Types
    <2> QED BY <1>2, <1>3, <1>4, <2>1 DEF SchedInv, Types
  <1>6. NoStaleSource'
    <2> SUFFICES ASSUME NEW g \in Goroutines, gor'[g].live, gor'[g].phase = "round"
                 PROVE  gor'[g].task.Type = "snmp_poll" \/ gor'[g].src = source'
      BY DEF NoStaleSource
    <2>1. /\ gor[g].live /\ gor[g].phase = "round" /\ gor'[g].src = gor[g].src
          /\ gor'[g].task = gor[g].task
      BY <1>2
    <2> QED BY <1>4, <2>1 DEF SchedInv, NoStaleSource
  <1> QED BY <1>2, <1>5, <1>6 DEF SchedInv

LEMMA StartPreserves == SchedInv /\ StartTask => SchedInv'
  <1> SUFFICES ASSUME SchedInv, StartTask PROVE SchedInv'
    OBVIOUS
  <1> DEFINE t   == Head(todo)
             old == runners[t.TaskID]
  <1>1. t \in Tasks /\ Tail(todo) \in Seq(Tasks) /\ t.TaskID \in TaskIDs
    BY HeadTailProperties, SchedulerAssumption DEF StartTask, SchedInv, Types
  <1>2. CASE UNCHANGED <<gor, runners>>
    <2>1. Types'
      BY <1>1, <1>2 DEF StartTask, SchedInv, Types
    <2>2. NoLeakedRunner' /\ NoStaleSource'
      BY <1>2 DEF StartTask, SchedInv, NoLeakedRunner, NoStaleSource
    <2> QED BY <2>1, <2>2 DEF SchedInv
  <1>3. ASSUME NEW g \in FreeNames,
               gor' = [CancelAll({old}) EXCEPT ![g] = Launched(t)],
               runners' = [runners EXCEPT ![t.TaskID] = g]
        PROVE  SchedInv'
    <2>1. g \in Goroutines /\ \A id \in TaskIDs : runners[id] # g
      BY DEF FreeNames
    <2>2. Launched(t) \in Runner0 /\ Launched(t).task = t /\ Launched(t).phase # "round"
      BY <1>1, LaunchedType DEF SchedInv, Types
    <2>3. Launched(t).phase # "ended"
      BY DEF Launched
    <2>4. /\ CancelAll({old}) \in [Goroutines -> Runner0]
          /\ \A h \in Goroutines :
               /\ CancelAll({old})[h].task = gor[h].task
               /\ CancelAll({old})[h].phase = gor[h].phase
               /\ CancelAll({old})[h].src = gor[h].src
               /\ CancelAll({old})[h].live <=> gor[h].live /\ h # old
      BY CancelAllType DEF SchedInv, Types
    <2>5. /\ gor' \in [Goroutines -> Runner0] /\ gor'[g] = Launched(t)
          /\ \A h \in Goroutines : h # g =>
               /\ gor'[h].task = gor[h].task /\ gor'[h].phase = gor[h].phase
               /\ gor'[h].src = gor[h].src
               /\ gor'[h].live <=> gor[h].live /\ h # old
      BY <1>3, <2>1, <2>2, <2>4
    <2>6. /\ runners' \in [TaskIDs -> Goroutines \cup {NoRunner}]
          /\ runners'[t.TaskID] = g
          /\ \A id \in TaskIDs : id # t.TaskID => runners'[id] = runners[id]
      BY <1>1, <1>3, <2>1 DEF SchedInv, Types
    <2> HIDE DEF t, old
    <2>7. Types'
      BY <1>1, <2>2, <2>3, <2>5, <2>6 DEF StartTask, SchedInv, Types, t
    <2>8. ASSUME NEW h \in Goroutines, gor'[h].live
          PROVE  runners'[gor'[h].task.TaskID] = h
      <3>1. CASE h = g
        BY <2>2, <2>5, <2>6, <3>1
      <3>2. CASE h # g
        <4>1. gor[h].live /\ h # old /\ gor'[h].task = gor[h].task
          BY <2>5, <2>8, <3>2
        <4>2. runners[gor[h].task.TaskID] = h /\ gor[h].task.TaskID \in TaskIDs
          BY <4>1, SchedulerAssumption DEF SchedInv, Types, NoLeakedRunner
        <4>3. gor[h].task.TaskID # t.TaskID
          BY <4>1, <4>2 DEF old
        <4> QED BY <2>6, <4>1, <4>2, <4>3
      <3> QED BY <3>1, <3>2
    <2>9. ASSUME NEW h \in Goroutines, gor'[h].live, gor'[h].phase = "round"
          PROVE  gor'[h].task.Type = "snmp_poll" \/ gor'[h].src = source'
      <3>1. h # g
        BY <2>2, <2>5, <2>9
      <3> QED BY <2>5, <2>9, <3>1 DEF StartTask, SchedInv, NoStaleSource
    <2> QED BY <2>7, <2>8, <2>9 DEF SchedInv, NoLeakedRunner, NoStaleSource
  <1> QED BY <1>2, <1>3 DEF StartTask

LEMMA SwapPreserves == SchedInv /\ SwapSource => SchedInv'
  <1> SUFFICES ASSUME SchedInv, SwapSource PROVE SchedInv'
    OBVIOUS
  <1>1. /\ resp \in Responses /\ resp.source \in Sources /\ source \in Sources
        /\ source' = resp.source /\ gor' = gor
    BY ResponseFacts DEF SwapSource, SchedInv, Types, runs
  <1>2. Types'
    BY <1>1 DEF SwapSource, SchedInv, Types, runs
  <1>3. CASE SourceChanged(source, resp.source)
    <2>1. pc' = "restart"
      BY <1>3 DEF SwapSource
    <2>2. NoLeakedRunner' /\ NoStaleSource'
      BY <1>1, <2>1 DEF SwapSource, SchedInv, NoLeakedRunner, NoStaleSource
    <2> QED BY <1>2, <2>2 DEF SchedInv
  <1>4. CASE ~SourceChanged(source, resp.source)
    <2>1. source[1] = resp.source[1] /\ source[2] = resp.source[2]
      BY <1>4 DEF SourceChanged
    <2>2. source = <<source[1], source[2]>>
      BY <1>1, SchedulerAssumption
    <2>3. resp.source = <<resp.source[1], resp.source[2]>>
      BY <1>1, SchedulerAssumption
    <2>4. source' = source
      BY <1>1, <2>1, <2>2, <2>3
    <2>5. NoLeakedRunner' /\ NoStaleSource'
      BY <1>1, <2>4 DEF SwapSource, SchedInv, NoLeakedRunner, NoStaleSource
    <2> QED BY <1>2, <2>5 DEF SchedInv
  <1> QED BY <1>3, <1>4

LEMMA CancelPreserves == SchedInv /\ Cancel => SchedInv'
  <1> SUFFICES ASSUME SchedInv, Cancel PROVE SchedInv'
    OBVIOUS
  <1>1. gor' = CancelAll(Goroutines) /\ gor \in [Goroutines -> Runner0]
    BY DEF Cancel, SchedInv, Types
  <1>2. /\ gor' \in [Goroutines -> Runner0]
        /\ \A g \in Goroutines :
             /\ gor'[g].task = gor[g].task /\ gor'[g].phase = gor[g].phase
             /\ ~gor'[g].live
    BY <1>1, CancelAllType
  <1>3. Types'
    BY <1>2 DEF Cancel, SchedInv, Types, srv
  <1>4. NoLeakedRunner' /\ NoStaleSource'
    BY <1>2 DEF NoLeakedRunner, NoStaleSource
  <1> QED BY <1>3, <1>4 DEF SchedInv

LEMMA SchedStep == SchedInv /\ [Next]_vars => SchedInv'
  <1> SUFFICES ASSUME SchedInv, [Next]_vars PROVE SchedInv'
    OBVIOUS
  <1>1. CASE Poll \/ FetchFails \/ EndReconcile \/ Stop \/ TakeUpdate
    BY <1>1 DEF Poll, FetchFails, EndReconcile, Stop, TakeUpdate, srv, runs,
                SchedInv, Types, NoLeakedRunner, NoStaleSource
  <1>2. ASSUME NEW r \in Responses, FetchOk(r) PROVE SchedInv'
    BY <1>2 DEF FetchOk, runs, SchedInv, Types, NoLeakedRunner, NoStaleSource
  <1>3. CASE SwapSource
    BY <1>3, SwapPreserves
  <1>4. CASE RestartAll
    BY <1>4, RestartPreserves
  <1>5. CASE RemoveUnwanted
    BY <1>5, RemovePreserves
  <1>6. CASE StartTask
    BY <1>6, StartPreserves
  <1>7. ASSUME NEW g \in Goroutines, Runner(g) PROVE SchedInv'
    BY <1>7, RunnerPreserves
  <1>8. CASE Cancel
    BY <1>8, CancelPreserves
  <1>9. CASE UNCHANGED vars
    BY <1>9 DEF vars, SchedInv, Types, NoLeakedRunner, NoStaleSource
  <1> QED BY <1>1, <1>2, <1>3, <1>4, <1>5, <1>6, <1>7, <1>8, <1>9 DEF Next, Fetch

LEMMA InitSched == Init => SchedInv
  <1> SUFFICES ASSUME Init PROVE SchedInv
    OBVIOUS
  <1>1. \A g \in Goroutines : gor[g] = Ended
    BY DEF Init
  <1>2. Ended \in Runner0 /\ Ended.live = FALSE /\ Ended.phase = "ended"
    <2>1. NoSource \in Sources
      BY DEF Sources
    <2> QED BY <2>1 DEF Ended, Runner0, Phases
  <1>3. gor \in [Goroutines -> Runner0]
    BY <1>2 DEF Init
  <1>4. Types
    <2>1. todo \in Seq(Tasks)
      BY DEF Init
    <2>2. \A g \in Goroutines :
            /\ gor[g].live => gor[g].phase # "ended"
            /\ gor[g].phase # "ended" => gor[g].task \in Tasks
      BY <1>1, <1>2
    <2>3. /\ runners \in [TaskIDs -> Goroutines \cup {NoRunner}]
          /\ source \in Sources /\ resp = NoResponse /\ pc = "fetch"
          /\ cancelled = FALSE
      BY DEF Init, Sources
    <2> QED BY <1>3, <2>1, <2>2, <2>3 DEF Types
  <1>5. NoLeakedRunner /\ NoStaleSource
    BY <1>1, <1>2 DEF NoLeakedRunner, NoStaleSource
  <1> QED BY <1>4, <1>5 DEF SchedInv

\* The types of the state: for every constant, Run's map names goroutines, and
\* every goroutine that has not ended runs a task of some response. It is part of
\* the inductive invariant.
THEOREM TypeCorrect == Spec => []Types
  <1>1. SchedInv => Types
    BY DEF SchedInv
  <1> QED BY <1>1, InitSched, SchedStep, PTL DEF Spec

\* Whatever the server answers and however rounds and reconciles interleave,
\* no live goroutine is outside the map that can cancel it, and none goes on
\* probing from a source address the server has replaced.
THEOREM RunnersCorrect == Spec => [](NoLeakedRunner /\ NoStaleSource)
  <1>1. SchedInv => NoLeakedRunner /\ NoStaleSource
    BY DEF SchedInv
  <1> QED BY <1>1, InitSched, SchedStep, PTL DEF Spec

\* The half about source addresses, as the runs check it.
THEOREM SourcesAreFresh == Spec => []NoStaleSource
  BY RunnersCorrect, PTL
-----------------------------------------------------------------------------
(* What Run's map holds while and after it is reconciled with an answer.   *)

\* A runner executes a task with the id it is kept under.
OwnTasks ==
  \A id \in TaskIDs :
    runners[id] # NoRunner =>
      gor[runners[id]].task \in Tasks /\ gor[runners[id]].task.TaskID = id

\* The map holds the task tasks[k].
Holds(tasks, k) ==
  /\ runners[tasks[k].TaskID] # NoRunner
  /\ gor[runners[tasks[k].TaskID]].task = tasks[k]

\* Of the first n tasks, k is the last one with its id.
LastOf(tasks, n, k) ==
  \A l \in 1 .. n : l > k => tasks[l].TaskID # tasks[k].TaskID

\* The first n tasks have been started or kept; of those with one id, the last.
Reached(tasks, n) ==
  \A i \in 1 .. n : \E k \in 1 .. n :
    /\ tasks[k].TaskID = tasks[i].TaskID
    /\ LastOf(tasks, n, k) /\ Holds(tasks, k)

OnlyWanted(tasks) ==
  \A id \in TaskIDs :
    runners[id] # NoRunner => \E i \in 1 .. Len(tasks) : tasks[i].TaskID = id

\* todo is what follows the first n tasks.
Following(tasks, n) ==
  /\ Len(todo) = Len(tasks) - n
  /\ \A i \in 1 .. Len(todo) : todo[i] = tasks[n + i]

MatchInv ==
  /\ OwnTasks
  /\ pc = "start" =>
       /\ OnlyWanted(resp.tasks)
       /\ \E n \in 0 .. Len(resp.tasks) :
            Following(resp.tasks, n) /\ Reached(resp.tasks, n)
  /\ pc \in {"loop", "fetch", "stopped"} /\ resp # NoResponse =>
       OnlyWanted(resp.tasks) /\ Reached(resp.tasks, Len(resp.tasks))

LEMMA TaskFacts ==
  \A t \in Tasks : t \in Task /\ t.TaskID \in TaskIDs
  <1> SUFFICES ASSUME NEW t \in Tasks PROVE t \in Task
    BY SchedulerAssumption
  <1>1. PICK r \in Responses : \E i \in DOMAIN r.tasks : t = r.tasks[i]
    BY DEF Tasks
  <1>2. r.tasks \in Seq(Task)
    BY SchedulerAssumption
  <1> QED BY <1>1, <1>2

\* A step in which the goroutines keep their tasks and the map its entries.
LEMMA MatchSame ==
  ASSUME Types, MatchInv, runners' = runners, UNCHANGED <<resp, todo>>,
         \A g \in Goroutines : gor'[g].task = gor[g].task,
         \/ pc' = pc \/ pc' \in {"swap", "restart", "remove"}
         \/ pc \in {"loop", "fetch"} /\ pc' \in {"loop", "fetch", "stopped"}
  PROVE  MatchInv'
  <1>1. \A id \in TaskIDs :
          runners[id] # NoRunner => gor'[runners[id]].task = gor[runners[id]].task
    BY DEF Types
  <1>2. OwnTasks'
    BY <1>1 DEF MatchInv, OwnTasks
  <1>3. resp \in Responses =>
          /\ OnlyWanted(resp.tasks) => OnlyWanted(resp.tasks)'
          /\ \A n \in 0 .. Len(resp.tasks) :
               /\ Following(resp.tasks, n) => Following(resp.tasks, n)'
               /\ Reached(resp.tasks, n) => Reached(resp.tasks, n)'
    <2> SUFFICES ASSUME resp \in Responses
                 PROVE  /\ OnlyWanted(resp.tasks) => OnlyWanted(resp.tasks)'
                        /\ \A n \in 0 .. Len(resp.tasks) :
                             /\ Following(resp.tasks, n) => Following(resp.tasks, n)'
                             /\ Reached(resp.tasks, n) => Reached(resp.tasks, n)'
      OBVIOUS
    <2>1. resp.tasks \in Seq(Tasks)
      BY ResponseFacts
    <2>2. \A i \in 1 .. Len(resp.tasks) : resp.tasks[i].TaskID \in TaskIDs
      BY <2>1, TaskFacts
    <2>3. \A k \in 1 .. Len(resp.tasks) : Holds(resp.tasks, k) => Holds(resp.tasks, k)'
      BY <1>1, <2>2 DEF Holds
    <2>4. \A n \in 0 .. Len(resp.tasks) : 1 .. n \subseteq 1 .. Len(resp.tasks)
      BY <2>1
    <2>5. \A n \in 0 .. Len(resp.tasks) :
            Reached(resp.tasks, n) => Reached(resp.tasks, n)'
      BY <2>3, <2>4 DEF Reached, LastOf
    <2> QED BY <2>5 DEF OnlyWanted, Following
  <1>4. pc \in {"start", "loop", "fetch", "stopped"} /\ resp # NoResponse =>
          resp \in Responses
    BY DEF Types
  <1>5. pc = "start" => resp \in Responses
    BY DEF Types
  <1>6. resp \in Responses => Len(resp.tasks) \in Nat
    BY ResponseFacts
  <1>7. pc' = "start" => /\ OnlyWanted(resp.tasks)'
                        /\ \E n \in 0 .. Len(resp.tasks) :
                             Following(resp.tasks, n)' /\ Reached(resp.tasks, n)'
    BY <1>3, <1>5 DEF MatchInv
  <1>8. pc' \in {"loop", "fetch", "stopped"} /\ resp # NoResponse =>
          OnlyWanted(resp.tasks)' /\ Reached(resp.tasks, Len(resp.tasks))'
    BY <1>3, <1>4, <1>6 DEF MatchInv
  <1> QED BY <1>2, <1>7, <1>8 DEF MatchInv

\* Run is between its answer and the start loop: the map may lack what it lacks.
LEMMA MatchDropped ==
  ASSUME Types, OwnTasks, NEW D \in SUBSET TaskIDs, DropRunners(D), SchedInv
  PROVE  /\ OwnTasks'
         /\ \A id \in TaskIDs :
              runners'[id] # NoRunner => id \notin D /\ runners[id] # NoRunner
  <1>1. runners' = [id \in TaskIDs |-> IF id \in D THEN NoRunner ELSE runners[id]]
    BY DEF DropRunners
  <1>2. \A g \in Goroutines : gor'[g].task = gor[g].task
    BY DropStep
  <1>3. \A id \in TaskIDs : runners'[id] # NoRunner =>
          id \notin D /\ runners'[id] = runners[id] /\ runners[id] \in Goroutines
    BY <1>1 DEF Types
  <1> QED BY <1>2, <1>3 DEF OwnTasks

LEMMA MatchRemove ==
  ASSUME SchedInv, MatchInv, RemoveUnwanted
  PROVE  MatchInv'
  <1> DEFINE D == TaskIDs \ Wanted(resp)
  <1>1. /\ DropRunners(D) /\ pc' = "start" /\ todo' = resp.tasks /\ resp' = resp
        /\ resp \in Responses /\ Types
    BY DEF RemoveUnwanted, SchedInv, Types
  <1>2. resp.tasks \in Seq(Tasks) /\ Len(resp.tasks) \in Nat
    BY <1>1, ResponseFacts
  <1>3. /\ OwnTasks'
        /\ \A id \in TaskIDs : runners'[id] # NoRunner => id \notin D
    BY <1>1, MatchDropped DEF MatchInv
  <1>4. OnlyWanted(resp.tasks)'
    <2> SUFFICES ASSUME NEW id \in TaskIDs, runners'[id] # NoRunner
                 PROVE  \E i \in 1 .. Len(resp.tasks) : resp.tasks[i].TaskID = id
      BY <1>1 DEF OnlyWanted
    <2>1. id \in Wanted(resp)
      BY <1>3
    <2> QED BY <1>2, <2>1 DEF Wanted
  <1>5. Following(resp.tasks, 0)' /\ Reached(resp.tasks, 0)' /\ 0 \in 0 .. Len(resp.tasks)
    BY <1>1, <1>2 DEF Following, Reached
  <1> QED BY <1>1, <1>3, <1>4, <1>5 DEF MatchInv

\* One pass of the start loop brings the map to the next task.
LEMMA ReachedNext ==
  ASSUME NEW tasks \in Seq(Tasks), NEW n \in 0 .. Len(tasks), n < Len(tasks),
         Reached(tasks, n), Holds(tasks, n + 1)',
         \A k \in 1 .. n :
           tasks[k].TaskID # tasks[n + 1].TaskID /\ Holds(tasks, k) => Holds(tasks, k)'
  PROVE  Reached(tasks, n + 1)'
  <1>1. Len(tasks) \in Nat /\ n \in Nat
    OBVIOUS
  <1>2. LastOf(tasks, n + 1, n + 1)
    BY <1>1 DEF LastOf
  <1> SUFFICES ASSUME NEW i \in 1 .. n + 1
               PROVE  \E k \in 1 .. n + 1 :
                        /\ tasks[k].TaskID = tasks[i].TaskID
                        /\ LastOf(tasks, n + 1, k) /\ Holds(tasks, k)'
    BY DEF Reached, LastOf
  <1>3. CASE tasks[i].TaskID = tasks[n + 1].TaskID
    BY <1>1, <1>2, <1>3
  <1>4. CASE tasks[i].TaskID # tasks[n + 1].TaskID
    <2>1. i \in 1 .. n
      BY <1>1, <1>4
    <2>2. PICK k \in 1 .. n : /\ tasks[k].TaskID = tasks[i].TaskID
                              /\ LastOf(tasks, n, k) /\ Holds(tasks, k)
      BY <2>1 DEF Reached
    <2>3. Holds(tasks, k)'
      BY <1>4, <2>2
    <2>4. LastOf(tasks, n + 1, k)
      BY <1>1, <1>4, <2>2 DEF LastOf
    <2>5. k \in 1 .. n + 1
      BY <1>1
    <2> QED BY <2>2, <2>3, <2>4, <2>5
  <1> QED BY <1>3, <1>4

LEMMA MatchStart ==
  ASSUME SchedInv, MatchInv, StartTask
  PROVE  MatchInv'
  <1> DEFINE t     == Head(todo)
             old   == runners[t.TaskID]
             tasks == resp.tasks
  <1>1. /\ pc = "start" /\ pc' = "start" /\ todo # <<>> /\ todo' = Tail(todo)
        /\ resp' = resp /\ resp \in Responses /\ todo \in Seq(Tasks)
        /\ gor \in [Goroutines -> Runner0]
        /\ runners \in [TaskIDs -> Goroutines \cup {NoRunner}]
    BY DEF StartTask, SchedInv, Types
  <1>2. tasks \in Seq(Tasks) /\ Len(tasks) \in Nat
    BY <1>1, ResponseFacts
  <1>3. PICK n \in 0 .. Len(tasks) : Following(tasks, n) /\ Reached(tasks, n)
    BY <1>1 DEF MatchInv
  <1>4. /\ n \in Nat /\ n < Len(tasks) /\ t = tasks[n + 1] /\ t \in Tasks
        /\ t.TaskID \in TaskIDs /\ n + 1 \in 1 .. Len(tasks)
    <2>1. Len(todo) \in Nat /\ Len(todo) > 0 /\ t = todo[1]
      BY <1>1, HeadTailProperties
    <2>2. n \in Nat /\ n < Len(tasks) /\ t = tasks[n + 1] /\ n + 1 \in 1 .. Len(tasks)
      BY <1>2, <1>3, <2>1 DEF Following
    <2>3. t \in Tasks
      BY <1>2, <2>2
    <2> QED BY <2>2, <2>3, TaskFacts
  <1>5. Following(tasks, n + 1)'
    <2>1. /\ Len(Tail(todo)) = Len(todo) - 1 /\ Len(todo) \in Nat
          /\ \A i \in 1 .. Len(Tail(todo)) : Tail(todo)[i] = todo[i + 1]
      BY <1>1, HeadTailProperties
    <2>2. \A i \in 1 .. Len(Tail(todo)) : i + 1 \in 1 .. Len(todo)
      BY <2>1
    <2>3. \A i \in 1 .. Len(Tail(todo)) : Tail(todo)[i] = tasks[(n + 1) + i]
      BY <1>2, <1>3, <1>4, <2>1, <2>2 DEF Following
    <2>4. Len(Tail(todo)) = Len(tasks) - (n + 1)
      BY <1>2, <1>3, <1>4, <2>1 DEF Following
    <2>5. Len(todo') = Len(tasks') - (n + 1)
      BY <1>1, <2>4
    <2>6. \A i \in 1 .. Len(todo') : todo'[i] = tasks'[(n + 1) + i]
      BY <1>1, <2>3
    <2> QED BY <2>5, <2>6 DEF Following
  <1> HIDE DEF t, tasks
  <1>6. CASE UNCHANGED <<gor, runners>> /\ old # NoRunner /\ ~taskChanged(gor[old].task, t)
    <2>1. gor[old].task \in Tasks /\ gor[old].task.TaskID = t.TaskID
      BY <1>4, <1>6 DEF MatchInv, OwnTasks
    <2>2. gor[old].task = t
      <3>1. gor[old].task \in Task /\ t \in Task
        BY <1>4, <2>1, TaskFacts
      <3> QED BY <1>6, <2>1, <3>1, TaskDiffExact
    <2>3. Holds(tasks, n + 1)' /\ \A k \in 1 .. n : Holds(tasks, k) => Holds(tasks, k)'
      BY <1>1, <1>4, <1>6, <2>2 DEF Holds, tasks
    <2>4. Reached(tasks, n + 1)'
      BY <1>1, <1>2, <1>3, <1>4, <2>3, ReachedNext DEF tasks
    <2>5. OwnTasks' /\ OnlyWanted(tasks)'
      BY <1>1, <1>6 DEF MatchInv, OwnTasks, OnlyWanted, tasks
    <2>6. n + 1 \in 0 .. Len(tasks)
      BY <1>2, <1>4
    <2> QED BY <1>1, <1>5, <2>4, <2>5, <2>6 DEF MatchInv, tasks
  <1>7. ASSUME NEW g \in FreeNames,
               gor' = [CancelAll({old}) EXCEPT ![g] = Launched(t)],
               runners' = [runners EXCEPT ![t.TaskID] = g]
        PROVE  MatchInv'
    <2>1. g \in Goroutines /\ g # NoRunner /\ \A id \in TaskIDs : runners[id] # g
      BY SchedulerAssumption DEF FreeNames
    <2>2. /\ CancelAll({old}) \in [Goroutines -> Runner0]
          /\ \A h \in Goroutines : CancelAll({old})[h].task = gor[h].task
      BY <1>1, CancelAllType
    <2>3. gor'[g].task = t
      <3>1. Launched(t).task = t
        BY DEF Launched
      <3> QED BY <1>7, <2>1, <2>2, <3>1
    <2>4. \A h \in Goroutines : h # g => gor'[h].task = gor[h].task
      BY <1>7, <2>2
    <2>5. /\ runners'[t.TaskID] = g
          /\ \A id \in TaskIDs : id # t.TaskID => runners'[id] = runners[id]
      BY <1>1, <1>4, <1>7
    <2>6. \A id \in TaskIDs : id # t.TaskID /\ runners[id] # NoRunner =>
            gor'[runners'[id]].task = gor[runners[id]].task
      BY <1>1, <2>1, <2>4, <2>5
    <2> HIDE DEF old
    <2>7. OwnTasks'
      BY <1>4, <2>1, <2>3, <2>5, <2>6 DEF MatchInv, OwnTasks
    <2>8. OnlyWanted(tasks)'
      BY <1>1, <1>4, <2>5 DEF MatchInv, OnlyWanted, tasks
    <2>9. Holds(tasks, n + 1)'
      BY <1>1, <1>4, <2>1, <2>3, <2>5 DEF Holds, tasks
    <2>10. \A k \in 1 .. n :
             tasks[k].TaskID # tasks[n + 1].TaskID /\ Holds(tasks, k) => Holds(tasks, k)'
      <3>1. \A k \in 1 .. n : tasks[k].TaskID \in TaskIDs
        BY <1>2, <1>4, TaskFacts
      <3> QED BY <1>1, <1>4, <2>5, <2>6, <3>1 DEF Holds, tasks
    <2>11. Reached(tasks, n + 1)'
      BY <1>1, <1>2, <1>3, <1>4, <2>9, <2>10, ReachedNext DEF tasks
    <2>12. n + 1 \in 0 .. Len(tasks)
      BY <1>2, <1>4
    <2> QED BY <1>1, <1>5, <2>7, <2>8, <2>11, <2>12 DEF MatchInv, tasks
  <1> QED BY <1>6, <1>7 DEF StartTask, t

LEMMA MatchEnd ==
  ASSUME SchedInv, MatchInv, EndReconcile
  PROVE  MatchInv'
  <1>1. /\ pc = "start" /\ pc' = "loop" /\ todo = <<>> /\ UNCHANGED <<resp, runners, gor>>
        /\ resp \in Responses
    BY DEF EndReconcile, srv, runs, SchedInv, Types
  <1>2. Len(resp.tasks) \in Nat
    BY <1>1, ResponseFacts
  <1>3. PICK n \in 0 .. Len(resp.tasks) :
          Following(resp.tasks, n) /\ Reached(resp.tasks, n)
    BY <1>1 DEF MatchInv
  <1>4. n = Len(resp.tasks)
    BY <1>1, <1>2, <1>3 DEF Following
  <1>5. OnlyWanted(resp.tasks)' /\ Reached(resp.tasks, Len(resp.tasks))'
    BY <1>1, <1>3, <1>4 DEF MatchInv, OnlyWanted, Reached, LastOf, Holds
  <1> QED BY <1>1, <1>5 DEF MatchInv, OwnTasks

LEMMA RunnerKeepsTasks ==
  ASSUME SchedInv, NEW g \in Goroutines, Runner(g)
  PROVE  /\ UNCHANGED <<pc, srv, cancelled>>
         /\ \A h \in Goroutines : gor'[h].task = gor[h].task
         /\ \A h \in Goroutines : gor'[h].live <=> gor[h].live
  <1>1. gor \in [Goroutines -> Runner0]
    BY DEF SchedInv, Types
  <1>2. PICK rec : /\ gor' = [gor EXCEPT ![g] = rec] /\ rec.task = gor[g].task
                   /\ rec.live = gor[g].live
    BY <1>1 DEF Runner0, Runner, OffsetPasses, BeginRound, Acquire, GiveUp, FinishJob,
                EndRound, EndRunner
  <1>3. UNCHANGED <<pc, srv, cancelled>>
    BY DEF Runner, OffsetPasses, BeginRound, Acquire, GiveUp, FinishJob, EndRound,
           EndRunner
  <1> QED BY <1>1, <1>2, <1>3

LEMMA MatchStep == SchedInv /\ MatchInv /\ [Next]_vars => MatchInv'
  <1> SUFFICES ASSUME SchedInv, MatchInv, [Next]_vars PROVE MatchInv'
    OBVIOUS
  <1>1. Types
    BY DEF SchedInv
  <1>2. CASE Poll \/ FetchFails \/ Stop \/ TakeUpdate
    BY <1>1, <1>2, MatchSame DEF Poll, FetchFails, Stop, TakeUpdate, srv, runs
  <1>3. ASSUME NEW r \in Responses, FetchOk(r) PROVE MatchInv'
    BY <1>3 DEF FetchOk, runs, MatchInv, OwnTasks
  <1>4. CASE SwapSource
    BY <1>1, <1>4, MatchSame DEF SwapSource, runs
  <1>5. CASE RestartAll
    <2>1. TaskIDs \in SUBSET TaskIDs /\ DropRunners(TaskIDs) /\ pc' = "remove"
      BY <1>5 DEF RestartAll
    <2>2. OwnTasks'
      BY <1>1, <2>1, MatchDropped DEF MatchInv
    <2> QED BY <2>1, <2>2 DEF MatchInv
  <1>6. CASE RemoveUnwanted
    BY <1>6, MatchRemove
  <1>7. CASE StartTask
    BY <1>7, MatchStart
  <1>8. CASE EndReconcile
    BY <1>8, MatchEnd
  <1>9. ASSUME NEW g \in Goroutines, Runner(g) PROVE MatchInv'
    BY <1>1, <1>9, RunnerKeepsTasks, MatchSame DEF srv
  <1>10. CASE Cancel
    <2>1. gor \in [Goroutines -> Runner0] /\ gor' = CancelAll(Goroutines)
      BY <1>1, <1>10 DEF Cancel, Types
    <2>2. \A g \in Goroutines : gor'[g].task = gor[g].task
      BY <2>1, CancelAllType
    <2> QED BY <1>1, <1>10, <2>2, MatchSame DEF Cancel, srv
  <1>11. CASE UNCHANGED vars
    BY <1>1, <1>11, MatchSame DEF vars
  <1> QED BY <1>2, <1>3, <1>4, <1>5, <1>6, <1>7, <1>8, <1>9, <1>10, <1>11 DEF Next, Fetch

LEMMA AlwaysMatch == Spec => [](SchedInv /\ MatchInv)
  <1>1. Init => MatchInv
    BY DEF Init, MatchInv, OwnTasks
  <1> QED BY <1>1, InitSched, SchedStep, MatchStep, PTL DEF Spec

\* For any answers of the server, with any ids more than once, and any rounds
\* and failing requests between them: whenever Run waits for its ticker, its map
\* is the server's last answer, each task with its present parameters.
THEOREM ReconcileExact == Spec => []MatchesServer
  <1>1. SchedInv /\ MatchInv => MatchesServer
    <2> SUFFICES ASSUME SchedInv, MatchInv, pc = "loop", resp # NoResponse
                 PROVE  {gor[runners[id]].task : id \in {i \in TaskIDs : runners[i] # NoRunner}}
                          = {resp.tasks[i] : i \in {k \in DOMAIN resp.tasks :
                               \A l \in DOMAIN resp.tasks :
                                 l > k => resp.tasks[l].TaskID # resp.tasks[k].TaskID}}
      BY DEF MatchesServer
    <2> DEFINE tasks == resp.tasks
               n     == Len(tasks)
    <2>1. resp \in Responses
      BY DEF SchedInv, Types
    <2>2. tasks \in Seq(Tasks) /\ n \in Nat /\ DOMAIN tasks = 1 .. n
      BY <2>1, ResponseFacts
    <2>3. OnlyWanted(tasks) /\ Reached(tasks, n) /\ OwnTasks
      BY DEF MatchInv
    <2> HIDE DEF tasks
    <2>4. ASSUME NEW id \in TaskIDs, runners[id] # NoRunner
          PROVE  \E k \in 1 .. n : LastOf(tasks, n, k) /\ gor[runners[id]].task = tasks[k]
      <3>1. PICK i \in 1 .. n : tasks[i].TaskID = id
        BY <2>3, <2>4 DEF OnlyWanted
      <3>2. PICK k \in 1 .. n : /\ tasks[k].TaskID = tasks[i].TaskID
                                /\ LastOf(tasks, n, k) /\ Holds(tasks, k)
        BY <2>3 DEF Reached
      <3> QED BY <3>1, <3>2 DEF Holds
    <2>5. ASSUME NEW k \in 1 .. n, LastOf(tasks, n, k)
          PROVE  \E id \in TaskIDs : runners[id] # NoRunner /\ gor[runners[id]].task = tasks[k]
      <3>1. PICK j \in 1 .. n : /\ tasks[j].TaskID = tasks[k].TaskID
                                /\ LastOf(tasks, n, j) /\ Holds(tasks, j)
        BY <2>3 DEF Reached
      <3>2. j = k
        BY <2>2, <2>5, <3>1 DEF LastOf
      <3>3. tasks[k].TaskID \in TaskIDs
        BY <2>2, TaskFacts
      <3> QED BY <3>1, <3>2, <3>3 DEF Holds
    <2>6. \A k \in 1 .. n : LastOf(tasks, n, k) <=>
            \A l \in DOMAIN tasks : l > k => tasks[l].TaskID # tasks[k].TaskID
      BY <2>2 DEF LastOf
    <2> HIDE DEF n
    <2>7. {gor[runners[id]].task : id \in {i \in TaskIDs : runners[i] # NoRunner}}
            = {tasks[k] : k \in {j \in 1 .. n : LastOf(tasks, n, j)}}
      BY <2>4, <2>5
    <2>8. {k \in DOMAIN tasks :
             \A l \in DOMAIN tasks : l > k => tasks[l].TaskID # tasks[k].TaskID}
            = {j \in 1 .. n : LastOf(tasks, n, j)}
      BY <2>2, <2>6 DEF n
    <2> QED BY <2>7, <2>8 DEF tasks
  <1> QED BY <1>1, AlwaysMatch, PTL
-----------------------------------------------------------------------------
(* Who cancels a runner.                                                   *)

\* The last answer has another task in the place of the runner's.
Superseded(task) ==
  \/ task \notin {resp.tasks[i] : i \in DOMAIN resp.tasks}
  \/ \E i \in DOMAIN resp.tasks :
       resp.tasks[i].TaskID = task.TaskID /\ resp.tasks[i] # task

LEMMA RemoveSupersedes ==
  ASSUME SchedInv, MatchInv, RemoveUnwanted, NEW g \in Goroutines, gor[g].live,
         ~gor'[g].live
  PROVE  Superseded(gor[g].task)
  <1>1. gor' = CancelAll({runners[id] : id \in TaskIDs \ Wanted(resp)})
    BY DEF RemoveUnwanted, DropRunners
  <1>2. PICK id \in TaskIDs \ Wanted(resp) : g = runners[id]
    BY <1>1, CancelAllType DEF SchedInv, Types
  <1>3. gor[g].task.TaskID = id
    BY <1>2, SchedulerAssumption DEF MatchInv, OwnTasks
  <1> QED BY <1>2, <1>3 DEF Superseded, Wanted

LEMMA StartSupersedes ==
  ASSUME SchedInv, MatchInv, StartTask, NEW g \in Goroutines, gor[g].live,
         ~gor'[g].live
  PROVE  Superseded(gor[g].task)
  <1> DEFINE t   == Head(todo)
             old == runners[t.TaskID]
  <1>1. /\ pc = "start" /\ todo # <<>> /\ todo \in Seq(Tasks) /\ resp \in Responses
        /\ gor \in [Goroutines -> Runner0]
    BY DEF StartTask, SchedInv, Types
  <1>2. resp.tasks \in Seq(Tasks) /\ Len(resp.tasks) \in Nat
    BY <1>1, ResponseFacts
  <1>3. \E i \in DOMAIN resp.tasks : resp.tasks[i] = t
    <2>1. PICK n \in 0 .. Len(resp.tasks) : Following(resp.tasks, n)
      BY <1>1 DEF MatchInv
    <2>2. Len(todo) \in Nat /\ Len(todo) > 0 /\ t = todo[1]
      BY <1>1, HeadTailProperties
    <2>3. t = resp.tasks[n + 1] /\ n + 1 \in 1 .. Len(resp.tasks)
      BY <1>2, <2>1, <2>2 DEF Following
    <2> QED BY <1>2, <2>3
  <1>4. t \in Tasks /\ t.TaskID \in TaskIDs
    BY <1>2, <1>3, TaskFacts
  <1> HIDE DEF t
  <1>5. PICK f \in FreeNames :
          /\ gor' = [CancelAll({old}) EXCEPT ![f] = Launched(t)]
          /\ old = NoRunner \/ taskChanged(gor[old].task, t)
    BY DEF StartTask, t
  <1>6. g # f
    BY DEF FreeNames, SchedInv, Types
  <1>7. g = old
    <2>1. /\ CancelAll({old}) \in [Goroutines -> Runner0]
          /\ CancelAll({old})[g].live <=> gor[g].live /\ g # old
      BY <1>1, CancelAllType
    <2> QED BY <1>5, <1>6, <2>1
  <1>8. gor[g].task \in Tasks /\ gor[g].task.TaskID = t.TaskID
    BY <1>4, <1>7, SchedulerAssumption DEF MatchInv, OwnTasks
  <1>9. gor[g].task # t
    <2>1. taskChanged(gor[g].task, t)
      BY <1>5, <1>7, SchedulerAssumption
    <2> QED BY <1>4, <1>8, <2>1, TaskFacts, TaskDiffExact
  <1> QED BY <1>3, <1>8, <1>9 DEF Superseded

\* For any tasks and answers, a reconcile that leaves the source addresses alone
\* cancels a runner only for a task the server has removed or changed: one whose
\* parameters stand keeps its goroutine, and with it its phase and its rounds.
THEOREM ReconcileSpares == Spec => UnchangedUndisturbed
  <1> DEFINE Spared ==
        \A g \in Goroutines :
          gor[g].live /\ ~gor'[g].live /\ ~cancelled' /\ pc # "restart"
            => Superseded(gor[g].task)
  <1>1. SchedInv /\ MatchInv /\ [Next]_vars => [Spared]_vars
    <2> SUFFICES ASSUME SchedInv, MatchInv, Next, NEW g \in Goroutines, gor[g].live,
                        ~gor'[g].live, ~cancelled', pc # "restart"
                 PROVE  Superseded(gor[g].task)
      OBVIOUS
    <2>1. CASE UNCHANGED gor
      BY <2>1
    <2>2. CASE RemoveUnwanted
      BY <2>2, RemoveSupersedes
    <2>3. CASE StartTask
      BY <2>3, StartSupersedes
    <2>4. CASE \E h \in Goroutines : Runner(h)
      BY <2>4, RunnerKeepsTasks
    <2> QED BY <2>1, <2>2, <2>3, <2>4
            DEF Next, Poll, Fetch, FetchFails, FetchOk, SwapSource, RestartAll,
                EndReconcile, Stop, Cancel, TakeUpdate, runs
  <1>2. [Spared]_vars <=>
          [\A g \in Goroutines :
             gor[g].live /\ ~gor'[g].live /\ ~cancelled' /\ pc # "restart"
               => \/ gor[g].task \notin {resp.tasks[i] : i \in DOMAIN resp.tasks}
                  \/ \E i \in DOMAIN resp.tasks :
                       /\ resp.tasks[i].TaskID = gor[g].task.TaskID
                       /\ resp.tasks[i] # gor[g].task]_vars
    BY DEF Superseded
  <1> HIDE DEF Spared
  <1> QED BY <1>1, <1>2, AlwaysMatch, PTL DEF Spec, UnchangedUndisturbed

-----------------------------------------------------------------------------
(* The jobs of the rounds and the slots they hold.                         *)

\* One goroutine: outside a round it has no job, and in the round of a live
\* one each job waits, runs or is done.
Counts(r) ==
  /\ r.waiting \in Nat /\ r.running \in Nat /\ r.done \in Nat
  /\ r.phase # "round" => r.running = 0 /\ r.done = 0
  /\ r.phase = "round" => r.waiting + r.running + r.done <= JobCount(r.task)
  /\ r.phase = "round" /\ r.live =>
       r.waiting + r.running + r.done = JobCount(r.task)

CountInv ==
  /\ \A g \in Goroutines : Counts(gor[g])
  /\ IsFiniteSet(Executing) /\ held = Cardinality(Executing)
  /\ held <= Slots

LEMMA ExecutingSame ==
  ASSUME \A g \in Goroutines : gor'[g].running = gor[g].running
  PROVE  Executing' = Executing
  BY DEF Executing

\* A step of Run: goroutines are cancelled, or start with nothing to do.
LEMMA CountSame ==
  ASSUME CountInv, UNCHANGED held,
         \A g \in Goroutines :
           Counts(gor'[g]) /\ gor'[g].running = gor[g].running
  PROVE  CountInv'
  BY ExecutingSame DEF CountInv

\* A probe begins, or ends: it is the one with the goroutine's highest number.
LEMMA ExecutingMore ==
  ASSUME NEW g \in Goroutines, gor[g].running \in Nat,
         gor'[g].running = gor[g].running + 1,
         \A h \in Goroutines : h # g => gor'[h].running = gor[h].running
  PROVE  /\ Executing' = Executing \cup {<<g, gor[g].running + 1>>}
         /\ <<g, gor[g].running + 1>> \notin Executing
  <1> DEFINE n == gor[g].running
  <1>1. n \in Nat /\ 1 .. (n + 1) = (1 .. n) \cup {n + 1} /\ n + 1 \notin 1 .. n
    OBVIOUS
  <1> HIDE DEF n
  <1>2. \A h, k : <<h, k>> \in Executing <=> h \in Goroutines /\ k \in 1 .. gor[h].running
    BY DEF Executing
  <1>3. \A h, k : <<h, k>> \in Executing' <=> h \in Goroutines /\ k \in 1 .. gor'[h].running
    BY DEF Executing
  <1>4. \A e : e \in Executing \/ e \in Executing' => \E h, k : e = <<h, k>>
    BY DEF Executing
  <1>5. <<g, n + 1>> \notin Executing
    BY <1>1, <1>2 DEF n
  <1>6. ASSUME NEW e PROVE e \in Executing' <=> e \in Executing \cup {<<g, n + 1>>}
    <2> SUFFICES ASSUME NEW h, NEW k, e = <<h, k>>
                 PROVE  <<h, k>> \in Executing' <=>
                          <<h, k>> \in Executing \/ <<h, k>> = <<g, n + 1>>
      BY <1>4
    <2>1. CASE h = g
      BY <1>1, <1>2, <1>3, <2>1 DEF n
    <2>2. CASE h # g
      BY <1>2, <1>3, <2>2
    <2> QED BY <2>1, <2>2
  <1> QED BY <1>5, <1>6 DEF n

LEMMA ExecutingLess ==
  ASSUME NEW g \in Goroutines, gor[g].running \in Nat, gor[g].running > 0,
         gor'[g].running = gor[g].running - 1,
         \A h \in Goroutines : h # g => gor'[h].running = gor[h].running
  PROVE  /\ Executing' = Executing \ {<<g, gor[g].running>>}
         /\ <<g, gor[g].running>> \in Executing
  <1> DEFINE n == gor[g].running
  <1>1. n \in Nat /\ n \in 1 .. n /\ 1 .. (n - 1) = (1 .. n) \ {n}
    OBVIOUS
  <1> HIDE DEF n
  <1>2. \A h, k : <<h, k>> \in Executing <=> h \in Goroutines /\ k \in 1 .. gor[h].running
    BY DEF Executing
  <1>3. \A h, k : <<h, k>> \in Executing' <=> h \in Goroutines /\ k \in 1 .. gor'[h].running
    BY DEF Executing
  <1>4. \A e : e \in Executing \/ e \in Executing' => \E h, k : e = <<h, k>>
    BY DEF Executing
  <1>5. <<g, n>> \in Executing
    BY <1>1, <1>2 DEF n
  <1>6. ASSUME NEW e PROVE e \in Executing' <=> e \in Executing \ {<<g, n>>}
    <2> SUFFICES ASSUME NEW h, NEW k, e = <<h, k>>
                 PROVE  <<h, k>> \in Executing' <=>
                          <<h, k>> \in Executing /\ <<h, k>> # <<g, n>>
      BY <1>4
    <2>1. CASE h = g
      BY <1>1, <1>2, <1>3, <2>1 DEF n
    <2>2. CASE h # g
      BY <1>2, <1>3, <2>2
    <2> QED BY <2>1, <2>2
  <1> QED BY <1>5, <1>6 DEF n

\* Cancelling a context changes none of the counts.
LEMMA CancelCounts ==
  ASSUME gor \in [Goroutines -> Runner0], CountInv, NEW G, NEW g \in Goroutines
  PROVE  Counts(CancelAll(G)[g]) /\ CancelAll(G)[g].running = gor[g].running
  <1>1. gor[g] \in Runner0 /\ Counts(gor[g])
    BY DEF CountInv
  <1>2. CASE CancelAll(G)[g] = gor[g]
    BY <1>1, <1>2
  <1>3. CASE CancelAll(G)[g] = [gor[g] EXCEPT !.live = FALSE]
    <2> DEFINE r == [gor[g] EXCEPT !.live = FALSE]
    <2>1. /\ r.waiting = gor[g].waiting /\ r.running = gor[g].running
          /\ r.done = gor[g].done /\ r.phase = gor[g].phase
          /\ r.task = gor[g].task /\ r.live = FALSE
      BY <1>1 DEF Runner0
    <2> HIDE DEF r
    <2>2. Counts(r)
      BY <1>1, <2>1 DEF Counts
    <2> QED BY <1>3, <2>1, <2>2 DEF r
  <1> QED BY <1>2, <1>3 DEF CancelAll

LEMMA LaunchedCounts ==
  ASSUME NEW t
  PROVE  Counts(Launched(t)) /\ Launched(t).running = 0
  <1> DEFINE start == IF t.Type = "snmp_poll" /\ t.IntervalSeconds > 1
                        THEN "offset" ELSE "begin"
  <1>1. Launched(t) = [task |-> t, live |-> ~cancelled, phase |-> start,
                       src |-> NoSource, waiting |-> 0, running |-> 0, done |-> 0]
    BY DEF Launched
  <1>2. start # "round"
    OBVIOUS
  <1> HIDE DEF start
  <1>3. /\ Launched(t).phase # "round" /\ Launched(t).waiting = 0
        /\ Launched(t).running = 0 /\ Launched(t).done = 0
    BY <1>1, <1>2
  <1> QED BY <1>3 DEF Counts

LEMMA StartCounts ==
  ASSUME SchedInv, CountInv, StartTask
  PROVE  CountInv'
  <1>1. gor \in [Goroutines -> Runner0] /\ held' = held
    BY DEF SchedInv, Types, StartTask
  <1>2. CASE gor' = gor
    BY <1>1, <1>2, CountSame DEF CountInv
  <1>3. ASSUME NEW f \in FreeNames, NEW old,
               gor' = [CancelAll({old}) EXCEPT ![f] = Launched(Head(todo))]
        PROVE  CountInv'
    <2>1. f \in Goroutines /\ gor[f].phase = "ended"
      BY DEF FreeNames
    <2>2. gor[f].running = 0
      BY <2>1 DEF CountInv, Counts
    <2>3. CancelAll({old}) \in [Goroutines -> Runner0]
      BY <1>1, CancelAllType
    <2>4. \A g \in Goroutines : gor'[g] = IF g = f THEN Launched(Head(todo))
                                                  ELSE CancelAll({old})[g]
      BY <1>3, <2>3
    <2>5. \A g \in Goroutines : Counts(gor'[g]) /\ gor'[g].running = gor[g].running
      BY <1>1, <2>2, <2>4, CancelCounts, LaunchedCounts
    <2> QED BY <1>1, <2>5, CountSame
  <1> QED BY <1>2, <1>3 DEF StartTask

\* One goroutine changes nothing of what it has running.
LEMMA CountOne ==
  ASSUME SchedInv, CountInv, NEW g \in Goroutines, NEW rec, UNCHANGED held,
         gor' = [gor EXCEPT ![g] = rec], Counts(rec), rec.running = gor[g].running
  PROVE  CountInv'
  <1>1. gor \in [Goroutines -> Runner0]
    BY DEF SchedInv, Types
  <1>2. \A h \in Goroutines : Counts(gor'[h]) /\ gor'[h].running = gor[h].running
    BY <1>1 DEF CountInv
  <1> QED BY <1>2, CountSame

LEMMA AcquireCounts ==
  ASSUME SchedInv, CountInv, NEW g \in Goroutines, Acquire(g)
  PROVE  CountInv'
  <1> DEFINE rec == [gor[g] EXCEPT !.waiting = @ - 1, !.running = @ + 1]
  <1>1. /\ gor \in [Goroutines -> Runner0] /\ gor' = [gor EXCEPT ![g] = rec]
        /\ gor[g].phase = "round" /\ gor[g].waiting > 0 /\ gor[g] \in Runner0
        /\ held < Slots /\ held' = held + 1 /\ Counts(gor[g]) /\ gor[g].task \in Tasks
    BY DEF SchedInv, Types, Acquire, Asking, CountInv
  <1>2. /\ rec.waiting = gor[g].waiting - 1 /\ rec.running = gor[g].running + 1
        /\ rec.done = gor[g].done /\ rec.phase = "round" /\ rec.task = gor[g].task
        /\ rec.live = gor[g].live
    BY <1>1 DEF Runner0
  <1> HIDE DEF rec
  <1>3. Counts(rec)
    <2>1. JobCount(gor[g].task) \in Nat
      BY <1>1, JobCountType
    <2> QED BY <1>1, <1>2, <2>1 DEF Counts
  <1>4. /\ Executing' = Executing \cup {<<g, gor[g].running + 1>>}
        /\ <<g, gor[g].running + 1>> \notin Executing
    <2>1. gor[g].running \in Nat /\ gor'[g].running = gor[g].running + 1
      BY <1>1, <1>2 DEF Counts
    <2>2. \A h \in Goroutines : h # g => gor'[h].running = gor[h].running
      BY <1>1
    <2> QED BY <2>1, <2>2, ExecutingMore
  <1>5. IsFiniteSet(Executing') /\ Cardinality(Executing') = Cardinality(Executing) + 1
    BY <1>4, FS_AddElement DEF CountInv
  <1>6. held \in Nat
    BY FS_CardinalityType DEF CountInv
  <1>7. held' = Cardinality(Executing') /\ held' <= Slots
    BY <1>1, <1>5, <1>6, SchedulerAssumption DEF CountInv
  <1>8. \A h \in Goroutines : Counts(gor'[h])
    BY <1>1, <1>3 DEF CountInv
  <1> QED BY <1>5, <1>7, <1>8 DEF CountInv

LEMMA FinishCounts ==
  ASSUME SchedInv, CountInv, NEW g \in Goroutines, FinishJob(g)
  PROVE  CountInv'
  <1> DEFINE rec == [gor[g] EXCEPT !.running = @ - 1, !.done = @ + 1]
  <1>1. /\ gor \in [Goroutines -> Runner0] /\ gor' = [gor EXCEPT ![g] = rec]
        /\ gor[g].phase = "round" /\ gor[g].running > 0 /\ gor[g] \in Runner0
        /\ held' = held - 1 /\ Counts(gor[g]) /\ gor[g].task \in Tasks
    BY DEF SchedInv, Types, FinishJob, CountInv
  <1>2. /\ rec.waiting = gor[g].waiting /\ rec.running = gor[g].running - 1
        /\ rec.done = gor[g].done + 1 /\ rec.phase = "round" /\ rec.task = gor[g].task
        /\ rec.live = gor[g].live
    BY <1>1 DEF Runner0
  <1> HIDE DEF rec
  <1>3. Counts(rec)
    <2>1. JobCount(gor[g].task) \in Nat
      BY <1>1, JobCountType
    <2>2. /\ gor[g].waiting \in Nat /\ gor[g].running \in Nat /\ gor[g].done \in Nat
          /\ gor[g].waiting + gor[g].running + gor[g].done <= JobCount(gor[g].task)
          /\ gor[g].live => gor[g].waiting + gor[g].running + gor[g].done
                              = JobCount(gor[g].task)
      BY <1>1 DEF Counts
    <2>3. /\ rec.waiting \in Nat /\ rec.running \in Nat /\ rec.done \in Nat
          /\ rec.waiting + rec.running + rec.done
               = gor[g].waiting + gor[g].running + gor[g].done
      BY <1>1, <1>2, <2>2
    <2> QED BY <1>2, <2>2, <2>3 DEF Counts
  <1>4. /\ Executing' = Executing \ {<<g, gor[g].running>>}
        /\ <<g, gor[g].running>> \in Executing
    <2>1. gor[g].running \in Nat /\ gor'[g].running = gor[g].running - 1
      BY <1>1, <1>2 DEF Counts
    <2>2. \A h \in Goroutines : h # g => gor'[h].running = gor[h].running
      BY <1>1
    <2> QED BY <1>1, <2>1, <2>2, ExecutingLess
  <1>5. IsFiniteSet(Executing') /\ Cardinality(Executing') = Cardinality(Executing) - 1
    BY <1>4, FS_RemoveElement DEF CountInv
  <1>6. held \in Nat
    BY FS_CardinalityType DEF CountInv
  <1>7. held' = Cardinality(Executing') /\ held' <= Slots
    BY <1>1, <1>5, <1>6, SchedulerAssumption DEF CountInv
  <1>8. \A h \in Goroutines : Counts(gor'[h])
    BY <1>1, <1>3 DEF CountInv
  <1> QED BY <1>5, <1>7, <1>8 DEF CountInv

\* The steps of a goroutine that take and give back no slot.
LEMMA QuietCounts ==
  ASSUME SchedInv, CountInv, NEW g \in Goroutines,
         \/ OffsetPasses(g) \/ BeginRound(g) \/ GiveUp(g) \/ EndRound(g) \/ EndRunner(g)
  PROVE  CountInv'
  <1>1. gor \in [Goroutines -> Runner0] /\ gor[g] \in Runner0 /\ Counts(gor[g])
    BY DEF SchedInv, Types, CountInv
  <1>2. gor[g].phase # "ended" => JobCount(gor[g].task) \in Nat
    BY JobCountType DEF SchedInv, Types
  <1>3. UNCHANGED held
    BY DEF OffsetPasses, BeginRound, GiveUp, EndRound, EndRunner
  <1>4. PICK rec : /\ gor' = [gor EXCEPT ![g] = rec]
                   /\ Counts(rec) /\ rec.running = gor[g].running
    <2>1. CASE OffsetPasses(g) \/ EndRunner(g)
      <3>1. PICK ph \in {"begin", "ended"} : gor' = [gor EXCEPT ![g].phase = ph]
        BY <2>1 DEF OffsetPasses, EndRunner
      <3>2. gor[g].phase # "round"
        BY <2>1 DEF OffsetPasses, EndRunner
      <3> DEFINE rec == [gor[g] EXCEPT !.phase = ph]
      <3>3. /\ rec.waiting = gor[g].waiting /\ rec.running = gor[g].running
            /\ rec.done = gor[g].done /\ rec.phase # "round"
        BY <1>1 DEF Runner0
      <3>4. gor' = [gor EXCEPT ![g] = rec]
        BY <1>1, <3>1
      <3> HIDE DEF rec
      <3>5. Counts(rec)
        BY <1>1, <3>2, <3>3 DEF Counts
      <3> QED BY <3>3, <3>4, <3>5
    <2>2. CASE BeginRound(g)
      <3> DEFINE s   == IF gor[g].task.Type = "snmp_poll" THEN NoSource ELSE source
                 rec == [gor[g] EXCEPT !.phase = "round",
                                       !.waiting = JobCount(gor[g].task), !.src = s]
      <3>1. gor' = [gor EXCEPT ![g] = rec] /\ gor[g].phase \notin {"round", "ended"}
        BY <1>1, <2>2 DEF BeginRound
      <3> HIDE DEF s
      <3>2. /\ rec.waiting = JobCount(gor[g].task) /\ rec.running = gor[g].running
            /\ rec.done = gor[g].done /\ rec.phase = "round" /\ rec.task = gor[g].task
        BY <1>1 DEF Runner0
      <3> HIDE DEF rec
      <3>3. Counts(rec)
        BY <1>1, <1>2, <3>1, <3>2 DEF Counts
      <3> QED BY <3>1, <3>2, <3>3
    <2>3. CASE GiveUp(g)
      <3> DEFINE w   == IF Serial(gor[g].task) THEN 0 ELSE gor[g].waiting - 1
                 rec == [gor[g] EXCEPT !.waiting = w]
      <3>1. /\ gor' = [gor EXCEPT ![g] = rec] /\ gor[g].phase = "round"
            /\ gor[g].waiting > 0 /\ ~gor[g].live
        BY <1>1, <2>3 DEF GiveUp, Asking
      <3>2. w \in Nat /\ w <= gor[g].waiting
        BY <1>1, <3>1 DEF Counts
      <3> HIDE DEF w
      <3>3. /\ rec.waiting = w /\ rec.running = gor[g].running
            /\ rec.done = gor[g].done /\ rec.phase = "round" /\ rec.task = gor[g].task
            /\ ~rec.live
        BY <1>1, <3>1 DEF Runner0
      <3> HIDE DEF rec
      <3>4. Counts(rec)
        BY <1>1, <1>2, <3>1, <3>2, <3>3 DEF Counts
      <3> QED BY <3>1, <3>3, <3>4
    <2>4. CASE EndRound(g)
      <3> DEFINE rec == [gor[g] EXCEPT !.phase = "idle", !.done = 0, !.src = NoSource]
      <3>1. gor' = [gor EXCEPT ![g] = rec] /\ gor[g].running = 0
        BY <1>1, <2>4 DEF EndRound
      <3>2. /\ rec.waiting = gor[g].waiting /\ rec.running = gor[g].running
            /\ rec.done = 0 /\ rec.phase = "idle"
        BY <1>1 DEF Runner0
      <3> HIDE DEF rec
      <3>3. Counts(rec)
        BY <1>1, <3>1, <3>2 DEF Counts
      <3> QED BY <3>1, <3>2, <3>3
    <2> QED BY <2>1, <2>2, <2>3, <2>4
  <1> QED BY <1>3, <1>4, CountOne

LEMMA CountStep == SchedInv /\ CountInv /\ [Next]_vars => CountInv'
  <1> SUFFICES ASSUME SchedInv, CountInv, [Next]_vars PROVE CountInv'
    OBVIOUS
  <1>1. gor \in [Goroutines -> Runner0]
    BY DEF SchedInv, Types
  <1>2. CASE UNCHANGED <<gor, held>>
    BY <1>2, CountSame DEF CountInv
  <1>3. ASSUME UNCHANGED held, NEW G, gor' = CancelAll(G) PROVE CountInv'
    BY <1>1, <1>3, CancelCounts, CountSame
  <1>4. CASE RestartAll \/ RemoveUnwanted \/ Cancel
    BY <1>3, <1>4 DEF RestartAll, RemoveUnwanted, DropRunners, Cancel
  <1>5. CASE StartTask
    BY <1>5, StartCounts
  <1>6. ASSUME NEW g \in Goroutines, Runner(g) PROVE CountInv'
    BY <1>6, AcquireCounts, FinishCounts, QuietCounts DEF Runner
  <1> QED BY <1>2, <1>4, <1>5, <1>6
          DEF Next, Poll, Fetch, FetchFails, FetchOk, SwapSource, EndReconcile, Stop,
              TakeUpdate, runs, vars

LEMMA AlwaysCount == Spec => [](SchedInv /\ CountInv)
  <1>1. Init => CountInv
    <2> SUFFICES ASSUME Init PROVE CountInv
      OBVIOUS
    <2>1. \A g \in Goroutines : gor[g] = Ended
      BY DEF Init
    <2>2. Counts(Ended) /\ Ended.running = 0
      BY DEF Ended, Counts
    <2>3. Executing = {}
      BY <2>1, <2>2 DEF Executing
    <2>4. IsFiniteSet(Executing) /\ Cardinality(Executing) = 0
      BY <2>3, FS_EmptySet
    <2> QED BY <2>1, <2>2, <2>4, SchedulerAssumption DEF Init, CountInv
  <1> QED BY <1>1, InitSched, SchedStep, CountStep, PTL DEF Spec

\* For any number of slots, goroutines and jobs: each probe in execution holds
\* one slot, each slot taken is the slot of one, and never are there more.
THEOREM SlotsCorrect == Spec => []SlotsMatchProbes
  <1>1. CountInv => SlotsMatchProbes
    BY DEF CountInv, SlotsMatchProbes
  <1> QED BY <1>1, AlwaysCount, PTL

\* For any task, the round a live runner ends has had every job of it done,
\* each target with each of its families.
THEOREM RoundsComplete == Spec => RoundComplete
  <1> DEFINE Complete ==
        \A g \in Goroutines :
          gor[g].live /\ gor[g].phase = "round" /\ gor'[g].phase = "idle"
            => gor[g].done = JobCount(gor[g].task)
  <1>1. SchedInv /\ CountInv /\ [Next]_vars => [Complete]_vars
    <2> SUFFICES ASSUME SchedInv, CountInv, Next, NEW g \in Goroutines, gor[g].live,
                        gor[g].phase = "round", gor'[g].phase = "idle"
                 PROVE  gor[g].done = JobCount(gor[g].task)
      OBVIOUS
    <2>1. gor \in [Goroutines -> Runner0] /\ Counts(gor[g])
      BY DEF SchedInv, Types, CountInv
    <2>2. EndRound(g)
      <3>1. CASE \E h \in Goroutines : Runner(h)
        <4>1. PICK h \in Goroutines : Runner(h)
          BY <3>1
        <4>2. ~(OffsetPasses(g) \/ BeginRound(g) \/ EndRunner(g))
          BY DEF OffsetPasses, BeginRound, EndRunner
        <4>3. CASE h # g
          <5>1. gor'[g] = gor[g]
            BY <2>1, <4>1, <4>3 DEF Runner, OffsetPasses, BeginRound, Acquire, GiveUp,
                                    FinishJob, EndRound, EndRunner
          <5> QED BY <5>1
        <4>4. CASE Acquire(g) \/ GiveUp(g) \/ FinishJob(g)
          <5>1. gor'[g].phase = gor[g].phase
            BY <2>1, <4>4 DEF Runner0, Acquire, GiveUp, FinishJob
          <5> QED BY <5>1
        <4> QED BY <4>1, <4>2, <4>3, <4>4 DEF Runner
      <3>2. ASSUME NEW G, gor' = CancelAll(G) PROVE FALSE
        BY <2>1, <3>2, CancelAllType
      <3>3. CASE StartTask
        <4>1. gor' # gor
          OBVIOUS
        <4>2. PICK f \in FreeNames :
                gor' = [CancelAll({runners[Head(todo).TaskID]})
                          EXCEPT ![f] = Launched(Head(todo))]
          BY <3>3, <4>1 DEF StartTask
        <4>3. f # g
          BY DEF FreeNames
        <4> QED BY <2>1, <4>2, <4>3, CancelAllType
      <3> QED BY <3>1, <3>2, <3>3
              DEF Next, Poll, Fetch, FetchFails, FetchOk, SwapSource, RestartAll,
                  RemoveUnwanted, DropRunners, EndReconcile, Stop, Cancel, TakeUpdate, runs
    <2> QED BY <2>1, <2>2 DEF EndRound, Counts
  <1> HIDE DEF Complete
  <1>2. [Complete]_vars <=>
          [\A g \in Goroutines :
             gor[g].live /\ gor[g].phase = "round" /\ gor'[g].phase = "idle"
               => gor[g].done = JobCount(gor[g].task)]_vars
    BY DEF Complete
  <1> QED BY <1>1, <1>2, AlwaysCount, PTL DEF Spec, RoundComplete
=============================================================================

----------------------------- MODULE Scheduler ------------------------------
(***************************************************************************)
(* internal/scheduler and the concurrency limiter of internal/probe: one   *)
(* goroutine, Run, polls the server and reconciles its map of runners with *)
(* the answer; every runner is a goroutine that executes its task in       *)
(* rounds, and every probe job of a round holds one slot of the limiter.   *)
(*                                                                         *)
(* Tickers are not modelled: a poll or a round may begin whenever its      *)
(* goroutine is at its select, which is all that tickers of unknown        *)
(* periods allow. The jobs of one round are interchangeable, so they are   *)
(* counted.                                                                *)
(***************************************************************************)
EXTENDS TaskDiff

CONSTANTS
  TaskIDs,     \* the ids the server uses
  Responses,   \* the bodies GET /tasks may answer with
  Goroutines,  \* bound: names for the runner goroutines alive at one time
  Slots,       \* the limiter's capacity (New's maxConcurrency, after its default)
  NoRunner, NoTask, NoSource, NoUpdate, NoResponse

VARIABLES
  pc,         \* where Run is
  resp,       \* the last decoded response
  todo,       \* the tasks of resp the start loop has not reached
  runners,    \* the map of Run: the goroutine of each task, or NoRunner
  gor,        \* the runner goroutines
  source,     \* s.sourceIPv4 and s.sourceIPv6, a pair
  held,       \* limiter slots taken
  updateCh,   \* the channel of capacity 1
  cancelled   \* the context of the agent is cancelled

vars == <<pc, resp, todo, runners, gor, source, held, updateCh, cancelled>>

Sources == {NoSource} \cup {r.source : r \in Responses}
Updates == {NoUpdate} \cup {r.update : r \in Responses}
Tasks   == UNION {{r.tasks[i] : i \in DOMAIN r.tasks} : r \in Responses}

ASSUME SchedulerAssumption ==
  /\ Slots \in Nat \ {0}
  /\ NoRunner \notin Goroutines /\ NoTask \notin Tasks
  /\ NoResponse \notin Responses
  /\ Responses \subseteq [tasks : Seq(Task), source : Sources, update : Updates]
  /\ \A t \in Tasks : t.TaskID \in TaskIDs
  /\ \A s \in Sources : s = <<s[1], s[2]>>

Concurrent == {"ping", "meshping", "tcpping", "httpcheck", "dnscheck", "mtr", "meshmtr"}

\* How many jobs one round of the task has; a type Dispatch does not know and
\* an snmp_poll without parameters have none.
JobCount(task) ==
  CASE task.Type = "snmp_poll" -> IF task.SNMP = NoSNMP THEN 0 ELSE 1
    [] task.Type \in Concurrent \cup {"traceroute"} -> Cardinality(Jobs(task))
    [] OTHER -> 0

\* A goroutine that does not run.
Ended == [task |-> NoTask, live |-> FALSE, phase |-> "ended",
          src |-> NoSource, waiting |-> 0, running |-> 0, done |-> 0]

Phases == {"offset", "begin", "round", "idle", "ended"}

Init ==
  /\ pc = "fetch"
  /\ resp = NoResponse
  /\ todo = <<>>
  /\ runners = [id \in TaskIDs |-> NoRunner]
  /\ gor = [g \in Goroutines |-> Ended]
  /\ source = NoSource
  /\ held = 0
  /\ updateCh = NoUpdate
  /\ cancelled = FALSE

-----------------------------------------------------------------------------
(* Run and reconcile                                                       *)

runs == <<gor, held>>     \* what only the runner goroutines change
srv  == <<resp, todo, runners, source, updateCh>>

\* case <-ticker.C; the first reconcile needs no tick.
Poll ==
  /\ pc = "loop"
  /\ pc' = "fetch"
  /\ UNCHANGED <<srv, runs, cancelled>>

\* The request failed, was refused, or its body did not decode.
FetchFails ==
  /\ pc = "fetch"
  /\ pc' = "loop"
  /\ UNCHANGED <<srv, runs, cancelled>>

\* A goroutine name nobody uses: its goroutine ended and no runner refers to it.
FreeNames ==
  {g \in Goroutines : /\ gor[g].phase = "ended"
                      /\ \A id \in TaskIDs : runners[id] # g}

\* Faulty: only the IPv4 source is compared.
SourceChangedV4(old, new) == old[1] # new[1]

SourceChanged(old, new) == old[1] # new[1] \/ old[2] # new[2]

\* The tasks of r that reconcile will give a new goroutine. One whose id stood
\* before it in r is compared with that.
Launches(r) ==
  {i \in DOMAIN r.tasks :
     LET old     == runners[r.tasks[i].TaskID]
         earlier == {j \in 1 .. i - 1 : r.tasks[j].TaskID = r.tasks[i].TaskID}
     IN  IF earlier # {}
           THEN \E j \in earlier : /\ \A k \in earlier : k <= j
                                  /\ taskChanged(r.tasks[j], r.tasks[i])
           ELSE \/ SourceChanged(source, r.source)
                \/ old = NoRunner
                \/ taskChanged(gor[old].task, r.tasks[i])}

\* The answer is decoded, and its update is offered to updateCh without
\* blocking. The request carries the context: once that is cancelled it fails.
FetchOk(r) ==
  /\ pc = "fetch"
  /\ ~cancelled
  /\ Cardinality(FreeNames) >= Cardinality(Launches(r))     \* bound
  /\ resp' = r
  /\ updateCh' = IF r.update # NoUpdate /\ updateCh = NoUpdate THEN r.update
                                                               ELSE updateCh
  /\ pc' = "swap"
  /\ UNCHANGED <<todo, runners, source, runs, cancelled>>

\* The sources are swapped under s.mu; the comparison is made after the unlock.
SwapSource ==
  /\ pc = "swap"
  /\ source' = resp.source
  /\ pc' = IF SourceChanged(source, resp.source) THEN "restart" ELSE "remove"
  /\ UNCHANGED <<resp, todo, runners, updateCh, runs, cancelled>>

\* The goroutines in the set G with their contexts cancelled.
CancelAll(G) == [g \in Goroutines |-> IF g \in G THEN [gor[g] EXCEPT !.live = FALSE]
                                                 ELSE gor[g]]

\* Faulty: the entries are deleted and the goroutines left running.
DropUncancelled(D) ==
  /\ runners' = [id \in TaskIDs |-> IF id \in D THEN NoRunner ELSE runners[id]]
  /\ UNCHANGED gor

\* for id, r := range runners { r.cancel(); delete(runners, id) }, over the
\* ids in the set D.
DropRunners(D) ==
  /\ gor' = CancelAll({runners[id] : id \in D})
  /\ runners' = [id \in TaskIDs |-> IF id \in D THEN NoRunner ELSE runners[id]]

RestartAll ==
  /\ pc = "restart"
  /\ DropRunners(TaskIDs)
  /\ pc' = "remove"
  /\ UNCHANGED <<resp, todo, source, updateCh, held, cancelled>>

Wanted(r) == {r.tasks[i].TaskID : i \in DOMAIN r.tasks}

RemoveUnwanted ==
  /\ pc = "remove"
  /\ DropRunners(TaskIDs \ Wanted(resp))
  /\ pc' = "start"
  /\ todo' = resp.tasks
  /\ UNCHANGED <<resp, source, updateCh, held, cancelled>>

\* The goroutine of a new runner, at go s.runTask(taskCtx, t); a context made
\* from a cancelled one is cancelled.
Launched(t) ==
  [task |-> t, live |-> ~cancelled,
   phase |-> IF t.Type = "snmp_poll" /\ t.IntervalSeconds > 1 THEN "offset"
                                                             ELSE "begin",
   src |-> NoSource, waiting |-> 0, running |-> 0, done |-> 0]

\* One pass of the start loop: the runner of a changed task is cancelled and
\* replaced, a task without a runner gets one, any other runner is left alone.
StartTask ==
  /\ pc = "start"
  /\ todo # <<>>
  /\ LET t   == Head(todo)
         old == runners[t.TaskID]
     IN  IF old # NoRunner /\ ~taskChanged(gor[old].task, t)
           THEN UNCHANGED <<gor, runners>>
           ELSE \E g \in FreeNames :
                  /\ gor' = [CancelAll({old}) EXCEPT ![g] = Launched(t)]
                  /\ runners' = [runners EXCEPT ![t.TaskID] = g]
  /\ todo' = Tail(todo)
  /\ UNCHANGED <<pc, resp, source, updateCh, held, cancelled>>

EndReconcile ==
  /\ pc = "start"
  /\ todo = <<>>
  /\ pc' = "loop"
  /\ UNCHANGED <<srv, runs, cancelled>>

\* Faulty: Run waits until it has no runner.
StopWithoutRunners ==
  /\ pc = "loop"
  /\ cancelled
  /\ \A id \in TaskIDs : runners[id] = NoRunner
  /\ pc' = "stopped"
  /\ UNCHANGED <<srv, runs, cancelled>>

\* case <-ctx.Done(); the deferred cancels find every context cancelled.
Stop ==
  /\ pc = "loop"
  /\ cancelled
  /\ pc' = "stopped"
  /\ UNCHANGED <<srv, runs, cancelled>>

-----------------------------------------------------------------------------
(* A runner goroutine: runTask, execute, Dispatch and runJobs              *)

Serial(task) == task.Type = "traceroute"

\* runTask's startup offset has passed.
OffsetPasses(g) ==
  /\ gor[g].phase = "offset"
  /\ gor' = [gor EXCEPT ![g].phase = "begin"]
  /\ UNCHANGED <<pc, srv, held, cancelled>>

\* execute: the sources are read once, before the first job. The first round
\* begins without a look at the context.
BeginRound(g) ==
  /\ gor[g].phase \in {"begin", "idle"}
  /\ gor' = [gor EXCEPT ![g].phase = "round",
                        ![g].waiting = JobCount(gor[g].task),
                        ![g].src = IF gor[g].task.Type = "snmp_poll"
                                     THEN NoSource ELSE source]
  /\ UNCHANGED <<pc, srv, held, cancelled>>

\* The next job may ask for a slot: traceroute runs its jobs one by one.
Asking(g) ==
  /\ gor[g].phase = "round"
  /\ gor[g].waiting > 0
  /\ Serial(gor[g].task) => gor[g].running = 0

\* Faulty: the limiter does not limit.
AcquireAnyway(g) ==
  /\ Asking(g)
  /\ held' = held + 1
  /\ gor' = [gor EXCEPT ![g].waiting = @ - 1, ![g].running = @ + 1]
  /\ UNCHANGED <<pc, srv, cancelled>>

\* Acquire answers true. It may do so on a cancelled context, when a job
\* reaches its select and finds both cases ready.
Acquire(g) ==
  /\ Asking(g)
  /\ held < Slots
  /\ held' = held + 1
  /\ gor' = [gor EXCEPT ![g].waiting = @ - 1, ![g].running = @ + 1]
  /\ UNCHANGED <<pc, srv, cancelled>>

\* Faulty: Acquire does not wait.
GiveUpAnyTime(g) ==
  /\ Asking(g)
  /\ gor' = [gor EXCEPT ![g].waiting = IF Serial(gor[g].task) THEN 0 ELSE @ - 1]
  /\ UNCHANGED <<pc, srv, held, cancelled>>

\* Acquire answers false: the job has no result; traceroute gives up the rest
\* of its round.
GiveUp(g) ==
  /\ Asking(g)
  /\ ~gor[g].live
  /\ gor' = [gor EXCEPT ![g].waiting = IF Serial(gor[g].task) THEN 0 ELSE @ - 1]
  /\ UNCHANGED <<pc, srv, held, cancelled>>

\* Faulty: the slot is not released.
FinishJobLeaking(g) ==
  /\ gor[g].phase = "round"
  /\ gor[g].running > 0
  /\ gor' = [gor EXCEPT ![g].running = @ - 1, ![g].done = @ + 1]
  /\ UNCHANGED <<pc, srv, held, cancelled>>

\* The probe of one job has ended (each has its own timeout), its slot is
\* released and its result collected.
FinishJob(g) ==
  /\ gor[g].phase = "round"
  /\ gor[g].running > 0
  /\ held' = held - 1
  /\ gor' = [gor EXCEPT ![g].running = @ - 1, ![g].done = @ + 1]
  /\ UNCHANGED <<pc, srv, cancelled>>

\* wg.Wait has returned; the results go to the reporter, which never blocks.
EndRound(g) ==
  /\ gor[g].phase = "round"
  /\ gor[g].waiting = 0 /\ gor[g].running = 0
  /\ gor' = [gor EXCEPT ![g].phase = "idle", ![g].done = 0, ![g].src = NoSource]
  /\ UNCHANGED <<pc, srv, held, cancelled>>

\* Faulty: only the startup offset looks at the context.
EndRunnerInOffset(g) ==
  /\ gor[g].phase = "offset"
  /\ ~gor[g].live
  /\ gor' = [gor EXCEPT ![g].phase = "ended"]
  /\ UNCHANGED <<pc, srv, held, cancelled>>

\* case <-ctx.Done() of runTask's selects. The task stays known: the map of
\* Run may still hold its taskRunner.
EndRunner(g) ==
  /\ gor[g].phase \in {"offset", "idle"}
  /\ ~gor[g].live
  /\ gor' = [gor EXCEPT ![g].phase = "ended"]
  /\ UNCHANGED <<pc, srv, held, cancelled>>

-----------------------------------------------------------------------------
\* The agent's context is cancelled, and with it every context made from it.
Cancel ==
  /\ ~cancelled
  /\ cancelled' = TRUE
  /\ gor' = CancelAll(Goroutines)
  /\ UNCHANGED <<pc, srv, held>>

\* main receives from UpdateCh.
TakeUpdate ==
  /\ updateCh # NoUpdate
  /\ updateCh' = NoUpdate
  /\ UNCHANGED <<pc, resp, todo, runners, source, runs, cancelled>>

Fetch == FetchFails \/ \E r \in Responses : FetchOk(r)

Runner(g) ==
  \/ OffsetPasses(g) \/ BeginRound(g) \/ Acquire(g) \/ GiveUp(g)
  \/ FinishJob(g) \/ EndRound(g) \/ EndRunner(g)

Next ==
  \/ Poll \/ Fetch \/ SwapSource \/ RestartAll \/ RemoveUnwanted
  \/ StartTask \/ EndReconcile \/ Stop
  \/ \E g \in Goroutines : Runner(g)
  \/ Cancel \/ TakeUpdate

Spec == Init /\ [][Next]_vars

\* The request to the server and every probe have timeouts; goroutines that
\* can go on do; a select with two ready cases, and a limiter with several
\* jobs asking, serve each of them some time.
Fairness ==
  /\ WF_vars(Fetch) /\ WF_vars(SwapSource) /\ WF_vars(RestartAll)
  /\ WF_vars(RemoveUnwanted) /\ WF_vars(StartTask) /\ WF_vars(EndReconcile)
  /\ SF_vars(Stop)
  /\ \A g \in Goroutines :
       /\ WF_vars(OffsetPasses(g)) /\ WF_vars(BeginRound(g))
       /\ SF_vars(Acquire(g)) /\ WF_vars(GiveUp(g)) /\ WF_vars(FinishJob(g))
       /\ WF_vars(EndRound(g)) /\ SF_vars(EndRunner(g))

FairSpec == Spec /\ Fairness

-----------------------------------------------------------------------------
(* Safety                                                                  *)

\* A goroutine whose context is not cancelled is the runner of its own task:
\* no reconcile, whatever it removes, restarts or replaces, leaves behind a
\* goroutine that probes for ever with nobody to cancel it.
NoLeakedRunner ==
  \A g \in Goroutines :
    gor[g].live => runners[gor[g].task.TaskID] = g

\* After a reconcile the runners are the server's tasks, parameters included; of
\* tasks with the same id it is the last one.
MatchesServer ==
  pc = "loop" /\ resp # NoResponse /\ ~cancelled =>
    {gor[runners[id]].task : id \in {i \in TaskIDs : runners[i] # NoRunner}}
      = {resp.tasks[i] : i \in {k \in DOMAIN resp.tasks :
           \A l \in DOMAIN resp.tasks :
             l > k => resp.tasks[l].TaskID # resp.tasks[k].TaskID}}

\* No round of a live runner is bound to source addresses that are no longer
\* the agent's, except while reconcile is between the swap and the restart.
NoStaleSource ==
  \A g \in Goroutines :
    gor[g].live /\ gor[g].phase = "round" /\ pc # "restart" =>
      gor[g].task.Type = "snmp_poll" \/ gor[g].src = source

\* The probes in execution: those of each goroutine, numbered.
Executing == UNION {{g} \X (1 .. gor[g].running) : g \in Goroutines}

\* The limiter holds exactly one slot per probe in execution, so at most
\* Slots probes run at once, those of cancelled runners included.
SlotsMatchProbes ==
  /\ held = Cardinality(Executing)
  /\ held <= Slots

\* A round that ends on a live runner reports one result per target and
\* family; only cancellation makes a round incomplete.
RoundComplete ==
  [][\A g \in Goroutines :
       gor[g].live /\ gor[g].phase = "round" /\ gor'[g].phase = "idle"
         => gor[g].done = JobCount(gor[g].task)]_vars

\* A task whose parameters the server does not change keeps its goroutine
\* through every reconcile that leaves the source addresses alone, unless the
\* server sends another task with its id.
UnchangedUndisturbed ==
  [][\A g \in Goroutines :
       gor[g].live /\ ~gor'[g].live /\ ~cancelled' /\ pc # "restart"
         => \/ gor[g].task \notin {resp.tasks[i] : i \in DOMAIN resp.tasks}
            \/ \E i \in DOMAIN resp.tasks :
                 /\ resp.tasks[i].TaskID = gor[g].task.TaskID
                 /\ resp.tasks[i] # gor[g].task]_vars

-----------------------------------------------------------------------------
(* Liveness                                                                *)

\* A runner that is cancelled, by a reconcile or by shutdown, ends.
CancelledRunnersEnd ==
  \A g \in Goroutines :
    gor[g].phase # "ended" /\ ~gor[g].live ~> gor[g].phase = "ended"

\* No round waits for ever for slots, whatever the other runners do.
RoundsEnd ==
  \A g \in Goroutines : gor[g].phase = "round" ~> gor[g].phase # "round"

\* After shutdown Run returns.
SchedulerReturns == cancelled ~> pc = "stopped"
=============================================================================

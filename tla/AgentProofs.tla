---------------------------- MODULE AgentProofs -----------------------------
(* Theorems about Agent, for any probes, results and grace period: the     *)
(* reporter in it is the reporter of module Reporter, and what it has sent *)
(* when main goes on.                                                      *)
EXTENDS Agent, ReporterProofs

\* What a step of the agent is to the reporter: one of its own, or none.
LEMMA AgentStepIsReporters == [AgentNext]_agentVars => [Next]_vars
  <1> SUFFICES ASSUME [AgentNext]_agentVars PROVE [Next]_vars
    OBVIOUS
  <1>1. ASSUME CancelContext PROVE [Next]_vars
    BY <1>1 DEF CancelContext, Next
  <1>2. ASSUME NEW p \in Probes, FinishProbe(p) PROVE Next
    <2>1. KindOf[p] \in Kinds
      BY AgentAssumption
    <2> QED BY <1>2, <2>1 DEF FinishProbe, Next
  <1>3. CASE Clock
    BY <1>3 DEF Clock, Next
  <1>4. CASE TakeUpdate \/ Signal
    BY <1>1, <1>4 DEF TakeUpdate, Signal
  <1>5. CASE InProcess /\ (Run \/ TickerFires)
    BY <1>5 DEF Next
  <1>6. CASE UNCHANGED agentVars
    BY <1>6 DEF agentVars
  <1> QED BY <1>2, <1>3, <1>4, <1>5, <1>6
          DEF AgentNext, StartProbe, DirectiveArrives, SchedReturns, SeeCancel, WaitDone,
              GraceOver, ApplyEnds

\* Whatever signals, updates and probes do around it, the reporter of the agent
\* takes the steps of Reporter and no others, so that everything proved of
\* Reporter holds in the agent.
THEOREM AgentKeepsReporter == AgentSpec => Spec
  <1>1. AgentInit => Init
    BY DEF AgentInit
  <1> QED BY <1>1, AgentStepIsReporters, PTL DEF AgentSpec, Spec

\* In the agent too nothing is lost in silence and results keep their order.
THEOREM AgentLosesNothing == AgentSpec => [](ArrivalOrder /\ NothingLost)
  BY AgentKeepsReporter, LineCorrect

-----------------------------------------------------------------------------
(* The way out of main.                                                    *)

Over == main \in {"returned", "apply", "replaced"}

\* main goes on, but for the ways out that wait for nobody, when both Run have
\* returned; neither comes back.
BothReturned == Over => pc = "done" /\ schedDone

LEMMA RunStaysDone == pc = "done" /\ [Next]_vars => pc' = "done"
  <1> SUFFICES ASSUME pc = "done", [Next]_vars PROVE pc' = "done"
    OBVIOUS
  <1>1. ~Run
    BY DEF Run, Recv, Drain, TickFlush, CtxDone, DrainEnd, FlushSkip, StartUpload,
           UploadReturns
  <1> QED BY <1>1 DEF Next, Enqueue, TickerFires, Elapse, Cancel, vars

LEMMA SchedStaysDone == schedDone /\ [AgentNext]_agentVars => schedDone'
  BY DEF AgentNext, StartProbe, FinishProbe, DirectiveArrives, SchedReturns, TakeUpdate,
         SeeCancel, WaitDone, GraceOver, ApplyEnds, Signal, Clock, InProcess, agentVars,
         sched

LEMMA WaysOut ==
  ASSUME [AgentNext]_agentVars, Over'
  PROVE  Over \/ (pc = "done" /\ schedDone)
  <1>1. CASE UNCHANGED main
    BY <1>1 DEF Over
  <1>2. CASE WaitDone \/ ApplyEnds
    BY <1>2 DEF WaitDone, ApplyEnds, Over
  <1>3. CASE TakeUpdate \/ SeeCancel \/ GraceOver
    BY <1>3 DEF TakeUpdate, SeeCancel, GraceOver, Over
  <1>4. CASE Signal
    BY <1>1, <1>4 DEF Signal, Over
  <1> QED BY <1>1, <1>2, <1>3, <1>4
          DEF AgentNext, StartProbe, FinishProbe, DirectiveArrives, SchedReturns, Clock,
              InProcess, own, sched, agentVars

LEMMA AlwaysBothReturned == AgentSpec => []BothReturned
  <1>1. AgentInit => BothReturned
    BY DEF AgentInit, BothReturned, Over
  <1>2. BothReturned /\ [AgentNext]_agentVars => BothReturned'
    BY WaysOut, RunStaysDone, SchedStaysDone, AgentStepIsReporters DEF BothReturned
  <1> QED BY <1>1, <1>2, PTL DEF AgentSpec

\* For any sizes, delays and grace period: when main returns, or goes on to
\* replace the binary, both Run have returned, and each result enqueued before
\* the shutdown began has left the agent or was sent once more since.
THEOREM ExitsDrained == AgentSpec => []DrainedAtExit
  <1>1. BothReturned /\ FinalAttempt => DrainedAtExit
    BY DEF BothReturned, Over, FinalAttempt, DrainedAtExit
  <1>2. AgentSpec => []FinalAttempt
    BY AgentKeepsReporter, LastAttempt
  <1> QED BY <1>1, <1>2, AlwaysBothReturned, PTL
=============================================================================

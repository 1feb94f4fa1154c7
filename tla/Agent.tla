------------------------------- MODULE Agent --------------------------------
(***************************************************************************)
(* main.go: how the parts of the running agent begin and end together. The *)
(* reporter is module Reporter in full; of the scheduler only what main    *)
(* sees is left: Run returns after the cancellation, an update may arrive, *)
(* and probes in execution deliver one result each, runners being waited   *)
(* for by nobody. Apply is module Updater and begins where main calls it.  *)
(*                                                                         *)
(* An upload may take any time; the local steps of a cancelled agent take  *)
(* none, so the grace period is spent in uploads.                          *)
(***************************************************************************)
EXTENDS Reporter, FiniteSets

CONSTANTS
  Probes,   \* bound: names for the probes in execution at one time
  KindOf,   \* [Probes -> Kinds]: where their results go
  Grace     \* cfg.Runtime.GracePeriod, in time units

ASSUME AgentAssumption == KindOf \in [Probes -> Kinds] /\ Grace \in Nat \ {0}

VARIABLES
  main,       \* select, wait, apply, or how the process ended
  pending,    \* pendingUpdate is set
  signalled,  \* the first SIGINT or SIGTERM was delivered
  graceLeft,  \* what is left of the grace period
  probing,    \* the probes in execution
  unfinished, \* history: those that are since the context was cancelled
  schedDone,  \* sched.Run has returned
  directive   \* sched.UpdateCh() holds an update

own       == <<main, pending, signalled, graceLeft>>
sched     == <<probing, unfinished, schedDone, directive>>
agentVars == <<vars, own, sched>>

\* main returned, called os.Exit(1) at the end of the grace period, was
\* killed by a signal, or Apply ended in exec or exit.
Ends  == {"returned", "forced", "killed", "replaced"}
Alive == main \notin Ends

AgentInit ==
  /\ Init
  /\ main = "select"
  /\ pending = FALSE
  /\ signalled = FALSE
  /\ graceLeft = Grace
  /\ probing = {} /\ unfinished = {}
  /\ schedDone = FALSE
  /\ directive = FALSE

-----------------------------------------------------------------------------
(* The scheduler and its runners, as main and the reporter see them        *)

InFlight(k) == {p \in probing : KindOf[p] = k}

\* A job gets its slot; it may do so on a cancelled context (see Scheduler).
StartProbe(p) ==
  /\ Alive
  /\ p \notin probing
  /\ made[KindOf[p]] + Cardinality(InFlight(KindOf[p])) < MaxResults
  /\ probing' = probing \cup {p}
  /\ UNCHANGED <<vars, own, unfinished, schedDone, directive>>

\* A probe ends, cut short or not, and its runner enqueues the result, also
\* when the reporter is gone.
FinishProbe(p) ==
  /\ Alive
  /\ p \in probing
  /\ Enqueue(KindOf[p])
  /\ probing' = probing \ {p} /\ unfinished' = unfinished \ {p}
  /\ UNCHANGED <<own, schedDone, directive>>

\* A reconcile under way when the context is cancelled may still offer one.
DirectiveArrives ==
  /\ Alive
  /\ ~schedDone /\ ~directive
  /\ directive' = TRUE
  /\ UNCHANGED <<vars, own, probing, unfinished, schedDone>>

SchedReturns ==
  /\ Alive
  /\ cancelled /\ ~schedDone
  /\ schedDone' = TRUE
  /\ UNCHANGED <<vars, own, probing, unfinished, directive>>

-----------------------------------------------------------------------------
(* main                                                                    *)

\* The context is cancelled: at most once, further calls change nothing.
CancelContext ==
  IF cancelled THEN UNCHANGED <<vars, unfinished>>
               ELSE Cancel /\ unfinished' = probing

\* case upd := <-sched.UpdateCh(), and the call of stop.
TakeUpdate ==
  /\ main = "select"
  /\ directive
  /\ directive' = FALSE
  /\ pending' = TRUE
  /\ CancelContext
  /\ main' = "wait"
  /\ UNCHANGED <<signalled, graceLeft, probing, schedDone>>

\* case <-ctx.Done().
SeeCancel ==
  /\ main = "select"
  /\ cancelled
  /\ main' = "wait"
  /\ UNCHANGED <<vars, pending, signalled, graceLeft, sched>>

\* Faulty: rep.Run is not in the WaitGroup.
WaitDoneSched ==
  /\ main = "wait"
  /\ schedDone
  /\ main' = IF pending THEN "apply" ELSE "returned"
  /\ UNCHANGED <<vars, pending, signalled, graceLeft, sched>>

\* case <-done: rep.Run and sched.Run have returned.
WaitDone ==
  /\ main = "wait"
  /\ pc = "done" /\ schedDone
  /\ main' = IF pending THEN "apply" ELSE "returned"
  /\ UNCHANGED <<vars, pending, signalled, graceLeft, sched>>

\* Faulty: main looks at the timer only when no upload is under way.
GraceOverBetweenUploads ==
  /\ main = "wait"
  /\ graceLeft = 0 /\ pc # "post"
  /\ main' = "forced"
  /\ UNCHANGED <<vars, pending, signalled, graceLeft, sched>>

\* case <-time.After(cfg.Runtime.GracePeriod).
GraceOver ==
  /\ main = "wait"
  /\ graceLeft = 0
  /\ main' = "forced"
  /\ UNCHANGED <<vars, pending, signalled, graceLeft, sched>>

\* Apply ends the process, whatever becomes of the update.
ApplyEnds ==
  /\ main = "apply"
  /\ main' = "replaced"
  /\ UNCHANGED <<vars, pending, signalled, graceLeft, sched>>

-----------------------------------------------------------------------------
(* The environment                                                         *)

\* SIGINT or SIGTERM. NotifyContext catches it, and further ones are ignored;
\* but stop, which the update path calls, restores the default action.
Signal ==
  /\ Alive
  /\ ~signalled
  /\ signalled' = TRUE
  /\ IF pending THEN main' = "killed" /\ UNCHANGED <<vars, unfinished>>
                ELSE CancelContext /\ UNCHANGED main
  /\ UNCHANGED <<pending, graceLeft, probing, schedDone, directive>>

\* Time passes before the shutdown and in its uploads.
Clock ==
  /\ Alive
  /\ cancelled => pc = "post" /\ main # "select"
  /\ main = "wait" => graceLeft > 0
  /\ graceLeft' = IF main = "wait" THEN graceLeft - 1 ELSE graceLeft
  /\ Elapse \/ ((\A k \in Kinds : retryIn[k] = 0) /\ UNCHANGED vars)
  /\ UNCHANGED <<main, pending, signalled, sched>>

\* A step of the reporter, in a process that runs.
InProcess == Alive /\ UNCHANGED <<own, sched>>

AgentNext ==
  \/ \E p \in Probes : StartProbe(p) \/ FinishProbe(p)
  \/ DirectiveArrives \/ SchedReturns
  \/ TakeUpdate \/ SeeCancel \/ WaitDone \/ GraceOver \/ ApplyEnds
  \/ Signal \/ Clock
  \/ InProcess /\ (Run \/ TickerFires)

AgentSpec == AgentInit /\ [][AgentNext]_agentVars

\* Goroutines that can go on do, and time passes. Nothing is assumed of the
\* server, and not even that an upload returns.
AgentFairness ==
  /\ WF_agentVars(SchedReturns)
  /\ WF_agentVars(TakeUpdate \/ SeeCancel) /\ WF_agentVars(WaitDone)
  /\ WF_agentVars(GraceOver) /\ WF_agentVars(ApplyEnds)
  /\ WF_agentVars(Clock)
  /\ SF_agentVars(InProcess /\ CtxDone) /\ WF_agentVars(InProcess /\ DrainEnd)
  /\ \A k \in Kinds : WF_agentVars(InProcess /\ Drain(k))
  /\ WF_agentVars(InProcess /\ FlushSkip) /\ WF_agentVars(InProcess /\ StartUpload)

AgentFairSpec == AgentSpec /\ AgentFairness

-----------------------------------------------------------------------------
(* Properties                                                              *)

\* When main returns or goes on to replace the binary, each result enqueued
\* before the shutdown began has left the agent or was sent once more since;
\* neither an upload nor a poll is under way beside Apply.
DrainedAtExit ==
  main \in {"returned", "apply", "replaced"} =>
    /\ pc = "done" /\ schedDone
    /\ \A k \in Kinds : \A i \in 1 .. madeBefore[k] :
         fate[k][i] = "held" => i \in tried[k]

\* An agent told to stop or to update ends, even when uploads hang for ever
\* and probes never return.
ShutdownEnds == cancelled ~> ~Alive

\* The configuration's comment (config.yaml:59): the shutdown waits for the
\* probes in flight. An agent that ends within the grace period has them done.
ProbesFinish ==
  main \in {"returned", "apply", "replaced"} => unfinished = {}
=============================================================================

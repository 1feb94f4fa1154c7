--------------------------- MODULE SnmpPollProofs ----------------------------
(* Theorems about SnmpPoll, for every value of its constants: any tasks,   *)
(* runners and slots, any InventoryEveryN, any answers of any devices.     *)
EXTENDS SnmpPoll, SchedulerProofs, WellFoundedInduction, NaturalsInduction

-----------------------------------------------------------------------------
(* Counting the polls takes no part in the scheduler.                      *)

\* What is shown of Scheduler holds while polls are counted.
THEOREM PollKeepsScheduler == PollSpec => Spec
  <1>1. PollInit => Init
    BY DEF PollInit
  <1>2. [PollNext]_pollVars => [Next]_vars
    BY DEF PollNext, pollVars
  <1> QED BY <1>1, <1>2, PTL DEF PollSpec, Spec

-----------------------------------------------------------------------------
(* What a step does to one goroutine.                                      *)

\* Nothing, except that its context may be cancelled.
Undisturbed(g) ==
  /\ gor'[g].task = gor[g].task
  /\ gor'[g].phase = gor[g].phase
  /\ gor'[g].done = gor[g].done
  /\ gor'[g].live => gor[g].live

\* It starts, under a name that was free.
Started(g) ==
  /\ gor[g].phase = "ended"
  /\ gor'[g].phase \in {"offset", "begin"}
  /\ gor'[g].done = 0

\* It goes on with its own task: to the next place outside a round, or into,
\* within or out of a round.
Moved(g) ==
  /\ gor'[g].phase # gor[g].phase
  /\ gor[g].phase # "round"
  /\ gor'[g].done = gor[g].done
  /\ gor'[g].phase = "ended" => ~gor[g].live
  /\ gor'[g].phase \in {"begin", "round", "ended"}
  /\ gor'[g].phase = "begin" => gor[g].phase = "offset"

Progressed(g) ==
  /\ gor[g].phase = "round"
  /\ gor'[g].phase = "round"
  /\ gor'[g].done \in {gor[g].done, gor[g].done + 1}

Rounded(g) ==
  /\ gor[g].phase = "round"
  /\ gor'[g].phase = "idle"
  /\ gor[g].waiting = 0 /\ gor[g].running = 0
  /\ gor'[g].done = 0

WentOn(g) ==
  /\ gor'[g].task = gor[g].task
  /\ gor'[g].live <=> gor[g].live
  /\ Moved(g) \/ Progressed(g) \/ Rounded(g)

LEMMA RunnerMoves ==
  ASSUME SchedInv, NEW g \in Goroutines, Runner(g)
  PROVE  WentOn(g) /\ \A h \in Goroutines : h # g => gor'[h] = gor[h]
  <1>1. gor \in [Goroutines -> Runner0] /\ gor[g] \in Runner0
    BY DEF SchedInv, Types
  <1>2. gor'[g].task = gor[g].task /\ (gor'[g].live <=> gor[g].live)
    BY RunnerKeepsTasks
  <1>3. \A h \in Goroutines : h # g => gor'[h] = gor[h]
    BY <1>1 DEF Runner, OffsetPasses, BeginRound, Acquire, GiveUp, FinishJob,
                EndRound, EndRunner
  <1>4. CASE OffsetPasses(g) \/ BeginRound(g) \/ EndRunner(g)
    <2>1. Moved(g)
      BY <1>1, <1>4 DEF Runner0, Moved, OffsetPasses, BeginRound, EndRunner
    <2> QED BY <1>2, <1>3, <2>1 DEF WentOn
  <1>5. CASE Acquire(g) \/ GiveUp(g) \/ FinishJob(g)
    <2>1. Progressed(g)
      BY <1>1, <1>5 DEF Runner0, Progressed, Acquire, GiveUp, FinishJob, Asking
    <2> QED BY <1>2, <1>3, <2>1 DEF WentOn
  <1>6. CASE EndRound(g)
    <2>1. Rounded(g)
      BY <1>1, <1>6 DEF Runner0, Rounded, EndRound
    <2> QED BY <1>2, <1>3, <2>1 DEF WentOn
  <1> QED BY <1>4, <1>5, <1>6 DEF Runner

LEMMA CancelDisturbsNot ==
  ASSUME gor \in [Goroutines -> Runner0], NEW G, NEW g \in Goroutines
  PROVE  /\ CancelAll(G)[g].task = gor[g].task
         /\ CancelAll(G)[g].phase = gor[g].phase
         /\ CancelAll(G)[g].done = gor[g].done
         /\ CancelAll(G)[g].live => gor[g].live
  <1>1. gor[g] \in Runner0
    OBVIOUS
  <1>2. \/ CancelAll(G)[g] = gor[g]
        \/ CancelAll(G)[g] = [gor[g] EXCEPT !.live = FALSE]
    BY DEF CancelAll
  <1> QED BY <1>1, <1>2 DEF Runner0

LEMMA StepOfGoroutine ==
  ASSUME SchedInv, Next, NEW g \in Goroutines
  PROVE  Undisturbed(g) \/ Started(g) \/ WentOn(g)
  <1>1. gor \in [Goroutines -> Runner0] /\ todo \in Seq(Tasks)
    BY DEF SchedInv, Types
  <1>2. CASE UNCHANGED gor
    BY <1>2 DEF Undisturbed
  <1>3. CASE \E h \in Goroutines : Runner(h)
    <2>1. PICK h \in Goroutines : Runner(h)
      BY <1>3
    <2>2. CASE h = g
      BY <2>1, <2>2, RunnerMoves
    <2>3. CASE h # g
      BY <2>1, <2>3, RunnerMoves DEF Undisturbed
    <2> QED BY <2>2, <2>3
  <1>4. ASSUME NEW G, gor' = CancelAll(G) PROVE Undisturbed(g)
    BY <1>1, <1>4, CancelDisturbsNot DEF Undisturbed
  <1>5. CASE StartTask /\ ~UNCHANGED gor
    <2> DEFINE old == runners[Head(todo).TaskID]
    <2>1. PICK f \in FreeNames :
            gor' = [CancelAll({old}) EXCEPT ![f] = Launched(Head(todo))]
      BY <1>5 DEF StartTask
    <2>2. f \in Goroutines /\ gor[f].phase = "ended"
      BY DEF FreeNames
    <2> HIDE DEF old
    <2>3. gor'[g] = IF g = f THEN Launched(Head(todo)) ELSE CancelAll({old})[g]
      BY <1>1, <2>1, CancelAllType
    <2>4. /\ Launched(Head(todo)).phase \in {"offset", "begin"}
          /\ Launched(Head(todo)).done = 0
      BY DEF Launched
    <2>5. CASE g = f
      BY <2>2, <2>3, <2>4, <2>5 DEF Started
    <2>6. CASE g # f
      BY <1>1, <2>3, <2>6, CancelDisturbsNot DEF Undisturbed
    <2> QED BY <2>5, <2>6
  <1> QED BY <1>2, <1>3, <1>4, <1>5
          DEF Next, Poll, Fetch, FetchFails, FetchOk, SwapSource, RestartAll,
              RemoveUnwanted, DropRunners, EndReconcile, Stop, Cancel, TakeUpdate, runs

-----------------------------------------------------------------------------
(* InventoryCadence speaks of the moment of a poll only, and not of what    *)
(* seq, by which it is decided, is in between. What is inductive ties them  *)
(* together: before the poll of a round the last full one is      *)
(* seq - 1 polls back, and seq after it. That a round has exactly one poll, *)
(* its single job, is CountInv of SchedulerProofs.                          *)

Fresh == {"offset", "begin", "ended"}

\* The poll of the round of g is over.
Polled(g) == gor[g].phase = "round" /\ gor[g].done = 1

InStep(g) ==
  LET n == Every(gor[g].task)
  IN  IF n <= 1 THEN fast[g] \in {-1, 0}
      ELSE /\ seq[g] < n
           /\ IF Polled(g) THEN fast[g] = seq[g]
              ELSE \/ seq[g] = 0 /\ fast[g] \in {-1, n - 1}
                   \/ seq[g] > 0 /\ fast[g] = seq[g] - 1

Paced(g) ==
  /\ seq[g] \in Nat /\ fast[g] \in Int
  /\ gor[g].phase \in Fresh => seq[g] = 0 /\ fast[g] = -1
  /\ ~gor[g].live => fast[g] = -1
  /\ gor[g].live /\ Polls(g) => InStep(g)

PollInv == \A g \in Goroutines : Paced(g)

\* A live runner of polls has one poll in each round.
LEMMA OnePoll ==
  ASSUME SchedInv, CountInv, NEW g \in Goroutines, gor[g].live, Polls(g)
  PROVE  /\ Every(gor[g].task) \in Int
         /\ JobCount(gor[g].task) = 1
         /\ gor[g].waiting \in Nat /\ gor[g].running \in Nat
         /\ gor[g].done \in {0, 1}
         /\ gor[g].phase # "round" => gor[g].done = 0
         /\ gor[g].phase = "round" =>
              gor[g].waiting + gor[g].running + gor[g].done = 1
  <1>1. /\ gor[g] \in Runner0 /\ gor[g].task \in Tasks /\ gor[g].phase # "ended"
        /\ Counts(gor[g])
    BY DEF SchedInv, Types, CountInv
  <1>2. Every(gor[g].task) \in Int
    BY <1>1, PollAssumption DEF Polls
  <1>3. JobCount(gor[g].task) = 1
    BY DEF Polls, JobCount, Concurrent
  <1> QED BY <1>1, <1>2, <1>3 DEF Counts, Runner0

LEMMA SmallRemainder ==
  ASSUME NEW n \in Nat, NEW m \in Nat, n < m
  PROVE  n % m = n
  OBVIOUS

LEMMA FullWhenZero ==
  ASSUME NEW g \in Goroutines, seq[g] \in Nat, Every(gor[g].task) \in Int,
         1 < Every(gor[g].task), seq[g] < Every(gor[g].task)
  PROVE  Full(g) <=> seq[g] = 0
  <1>1. seq[g] % Every(gor[g].task) = seq[g]
    BY SmallRemainder
  <1> QED BY <1>1 DEF Full

\* Only within a round is a poll reported, and only at its end counted.
LEMMA NotCounted ==
  ASSUME SchedInv, CountInv, PollInv, NEW g \in Goroutines,
         Undisturbed(g) \/ Started(g) \/ (WentOn(g) /\ Moved(g))
  PROVE  /\ Counted(g) = IF gor'[g].phase = "ended" THEN 0 ELSE seq[g]
         /\ Noted(g) = IF gor'[g].live THEN fast[g] ELSE -1
  <1>1. Counts(gor[g])
    BY DEF CountInv
  <1>2. ~Reporting(g) /\ ~RoundEnding(g)
    BY <1>1 DEF Counts, Undisturbed, Started, Moved, Reporting, RoundEnding
  <1> QED BY <1>2 DEF Counted, Noted

LEMMA UndisturbedPolls ==
  ASSUME SchedInv, CountInv, PollInv, PollNext, NEW g \in Goroutines, Undisturbed(g)
  PROVE  Paced(g)'
  <1>1. seq'[g] = Counted(g) /\ fast'[g] = Noted(g) /\ Paced(g)
    BY DEF PollNext, PollInv
  <1>2. /\ seq'[g] = seq[g]
        /\ fast'[g] = IF gor'[g].live THEN fast[g] ELSE -1
    BY <1>1, NotCounted DEF Paced, Fresh, Undisturbed
  <1> QED BY <1>1, <1>2 DEF Paced, Undisturbed, InStep, Polled, Polls

LEMMA StartedPolls ==
  ASSUME SchedInv, CountInv, PollInv, PollNext, NEW g \in Goroutines, Started(g)
  PROVE  Paced(g)'
  <1>1. seq'[g] = Counted(g) /\ fast'[g] = Noted(g) /\ Paced(g)
    BY DEF PollNext, PollInv
  <1>2. seq'[g] = 0 /\ fast'[g] = -1
    BY <1>1, NotCounted DEF Paced, Fresh, Started
  <1> SUFFICES ASSUME gor'[g].live, Polls(g)' PROVE InStep(g)'
    BY <1>2 DEF Paced
  <1>3. SchedInv' /\ CountInv'
    BY SchedStep, CountStep DEF PollNext
  <1>4. Every(gor'[g].task) \in Int
    <2>1. gor'[g].task \in Tasks
      BY <1>3 DEF SchedInv, Types
    <2> QED BY <2>1, PollAssumption DEF Polls
  <1>5. ~Polled(g)'
    BY DEF Started, Polled
  <1> QED BY <1>2, <1>4, <1>5 DEF InStep

LEMMA MovedPolls ==
  ASSUME SchedInv, CountInv, PollInv, PollNext, NEW g \in Goroutines,
         WentOn(g), Moved(g)
  PROVE  Paced(g)'
  <1>1. seq'[g] = Counted(g) /\ fast'[g] = Noted(g) /\ Paced(g)
    BY DEF PollNext, PollInv
  <1>2. /\ seq'[g] = IF gor'[g].phase = "ended" THEN 0 ELSE seq[g]
        /\ fast'[g] = IF gor'[g].live THEN fast[g] ELSE -1
    BY <1>1, NotCounted
  <1>3. CASE gor'[g].phase = "ended"
    BY <1>1, <1>2, <1>3 DEF Paced, WentOn, Moved
  <1>4. CASE gor'[g].phase # "ended"
    <2>1. seq'[g] = seq[g]
      BY <1>2, <1>4
    <2>2. gor'[g].phase \in Fresh => seq'[g] = 0 /\ fast'[g] = -1
      BY <1>1, <1>2, <1>4 DEF Paced, Moved, Fresh
    <2>3. ASSUME gor'[g].live, Polls(g)' PROVE InStep(g)'
      <3>1. gor[g].live /\ Polls(g) /\ gor'[g].task = gor[g].task
        BY <2>3 DEF WentOn, Polls
      <3>2. gor[g].done = 0 /\ gor'[g].done = 0
        BY <3>1, OnePoll DEF Moved
      <3>3. ~Polled(g) /\ ~Polled(g)'
        BY <3>2 DEF Polled
      <3>4. fast'[g] = fast[g] /\ InStep(g)
        BY <1>1, <1>2, <2>3, <3>1 DEF Paced
      <3> QED BY <2>1, <3>1, <3>3, <3>4 DEF InStep
    <2> QED BY <1>1, <1>2, <2>1, <2>2, <2>3 DEF Paced
  <1> QED BY <1>3, <1>4

LEMMA ProgressedPolls ==
  ASSUME SchedInv, CountInv, PollInv, PollNext, NEW g \in Goroutines,
         WentOn(g), Progressed(g)
  PROVE  Paced(g)'
  <1>1. seq'[g] = Counted(g) /\ fast'[g] = Noted(g) /\ Paced(g)
    BY DEF PollNext, PollInv
  <1>2. seq'[g] = seq[g] /\ seq[g] \in Nat
    BY <1>1 DEF Counted, RoundEnding, Progressed, Paced
  <1>3. gor'[g].phase \notin Fresh
    BY DEF Progressed, Fresh
  <1>4. CASE ~gor'[g].live
    BY <1>1, <1>2, <1>3, <1>4 DEF Paced, Noted
  <1>5. CASE gor'[g].live /\ ~Polls(g)
    BY <1>1, <1>2, <1>3, <1>5 DEF Paced, Noted, WentOn, Polls
  <1>6. CASE gor'[g].live /\ Polls(g)
    <2>1. gor[g].live /\ gor'[g].task = gor[g].task /\ Polls(g)'
      BY <1>6 DEF WentOn, Polls
    <2>2. /\ Every(gor[g].task) \in Int /\ gor[g].done \in {0, 1}
          /\ InStep(g) /\ fast[g] \in Int
      BY <1>1, <1>6, <2>1, OnePoll DEF Paced
    <2>3. gor'[g].done \in {0, 1}
      <3>1. Counts(gor'[g])
        BY CountStep DEF PollNext, CountInv
      <3>2. JobCount(gor'[g].task) = 1
        BY <1>6, <2>1, OnePoll
      <3> QED BY <3>1, <3>2 DEF Counts, Progressed
    <2>4. CASE gor'[g].done = gor[g].done
      <3>1. fast'[g] = fast[g]
        BY <1>1, <1>6, <2>2, <2>4 DEF Noted, Reporting
      <3> QED BY <1>2, <1>3, <1>6, <2>1, <2>2, <2>4, <3>1
              DEF Paced, InStep, Polled, Progressed
    <2>5. CASE gor'[g].done # gor[g].done
      <3>1. gor[g].done = 0 /\ gor'[g].done = 1
        BY <2>2, <2>3, <2>5 DEF Progressed
      <3>2. fast'[g] = IF Full(g) THEN 0 ELSE fast[g] + 1
        BY <1>1, <1>6, <3>1 DEF Noted, Reporting
      <3>3. ~Polled(g) /\ Polled(g)'
        BY <3>1 DEF Polled, Progressed
      <3>4. CASE Every(gor[g].task) <= 1
        <4>1. fast'[g] = 0
          BY <3>2, <3>4 DEF Full
        <4> QED BY <1>2, <1>3, <1>6, <2>1, <3>4, <4>1 DEF Paced, InStep
      <3>5. CASE 1 < Every(gor[g].task)
        <4>1. /\ seq[g] < Every(gor[g].task)
              /\ \/ seq[g] = 0
                 \/ seq[g] > 0 /\ fast[g] = seq[g] - 1
          BY <2>2, <3>3, <3>5 DEF InStep
        <4>2. fast'[g] = seq[g]
          BY <1>2, <2>2, <3>2, <3>5, <4>1, FullWhenZero
        <4> QED BY <1>2, <1>3, <1>6, <2>1, <2>2, <3>3, <3>5, <4>1, <4>2
                DEF Paced, InStep
      <3> QED BY <2>2, <3>4, <3>5
    <2> QED BY <2>4, <2>5
  <1> QED BY <1>4, <1>5, <1>6

LEMMA RoundedPolls ==
  ASSUME SchedInv, CountInv, PollInv, PollNext, NEW g \in Goroutines,
         WentOn(g), Rounded(g)
  PROVE  Paced(g)'
  <1>1. seq'[g] = Counted(g) /\ fast'[g] = Noted(g) /\ Paced(g)
    BY DEF PollNext, PollInv
  <1>2. ~Reporting(g) /\ RoundEnding(g) /\ gor'[g].phase \notin Fresh
    <2>1. gor[g].done \in Nat
      BY DEF CountInv, Counts
    <2> QED BY <2>1 DEF Rounded, Reporting, RoundEnding, Fresh
  <1>3. /\ fast'[g] = IF gor'[g].live THEN fast[g] ELSE -1
        /\ seq'[g] = IF ~Polls(g) THEN seq[g]
                     ELSE IF seq[g] + 1 >= Every(gor[g].task) THEN 0 ELSE seq[g] + 1
    BY <1>1, <1>2 DEF Counted, Noted, Rounded
  <1>4. seq'[g] \in Nat /\ fast'[g] \in Int
    BY <1>1, <1>3 DEF Paced
  <1> SUFFICES ASSUME gor'[g].live, Polls(g)' PROVE InStep(g)'
    BY <1>2, <1>3, <1>4 DEF Paced
  <1>5. gor[g].live /\ Polls(g) /\ gor'[g].task = gor[g].task
    BY DEF WentOn, Polls
  <1>6. Every(gor[g].task) \in Int /\ Polled(g) /\ ~Polled(g)'
    BY <1>5, OnePoll DEF Rounded, Polled
  <1>7. InStep(g) /\ seq[g] \in Nat
    BY <1>1, <1>5 DEF Paced
  <1> QED BY <1>3, <1>5, <1>6, <1>7 DEF InStep

LEMMA PollStep == SchedInv /\ CountInv /\ PollInv /\ [PollNext]_pollVars => PollInv'
  <1> SUFFICES ASSUME SchedInv, CountInv, PollInv, [PollNext]_pollVars,
                      NEW g \in Goroutines
               PROVE  Paced(g)'
    BY DEF PollInv
  <1>1. CASE UNCHANGED pollVars
    BY <1>1 DEF PollInv, Paced, InStep, Polled, Polls, pollVars, vars
  <1>2. CASE PollNext
    <2>1. Undisturbed(g) \/ Started(g) \/ WentOn(g)
      BY <1>2, StepOfGoroutine DEF PollNext
    <2> QED BY <1>2, <2>1, UndisturbedPolls, StartedPolls, MovedPolls,
               ProgressedPolls, RoundedPolls DEF WentOn
  <1> QED BY <1>1, <1>2

\* Whatever InventoryEveryN is, however polls wait for slots and reconciles
\* restart runners: a poll of a live runner asks for the system group exactly if
\* it is its first or the InventoryEveryN - 1 before it did not.
THEOREM InventoryCorrect == PollSpec => []InventoryCadence
  <1>1. PollInit => PollInv
    <2> SUFFICES ASSUME PollInit, NEW g \in Goroutines PROVE Paced(g)
      BY DEF PollInv
    <2>1. gor[g].live = FALSE /\ gor[g].phase = "ended" /\ seq[g] = 0 /\ fast[g] = -1
      BY DEF PollInit, Init, Ended
    <2> QED BY <2>1 DEF Paced
  <1>2. SchedInv /\ CountInv /\ PollInv => InventoryCadence
    <2> SUFFICES ASSUME SchedInv, CountInv, NEW g \in Goroutines, Paced(g),
                        gor[g].live, Polling(g)
                 PROVE  Full(g) <=> \/ Every(gor[g].task) <= 1
                                    \/ fast[g] \in {-1, Every(gor[g].task) - 1}
      BY DEF PollInv, InventoryCadence
    <2>1. Every(gor[g].task) \in Int /\ InStep(g) /\ seq[g] \in Nat
      BY OnePoll DEF Paced, Polling
    <2>2. ~Polled(g)
      BY OnePoll DEF Polling, Polled
    <2>3. CASE Every(gor[g].task) <= 1
      BY <2>3 DEF Full
    <2>4. CASE 1 < Every(gor[g].task)
      <3>1. /\ seq[g] < Every(gor[g].task)
            /\ \/ seq[g] = 0 /\ fast[g] \in {-1, Every(gor[g].task) - 1}
               \/ seq[g] > 0 /\ fast[g] = seq[g] - 1
        BY <2>1, <2>2, <2>4 DEF InStep
      <3>2. Full(g) <=> seq[g] = 0
        BY <2>1, <2>4, <3>1, FullWhenZero
      <3> QED BY <2>1, <2>4, <3>1, <3>2
    <2> QED BY <2>1, <2>3, <2>4
  <1>3. PollSpec => PollInit /\ [][PollNext]_pollVars
    BY DEF PollSpec
  <1> QED BY <1>1, <1>2, <1>3, PollStep, PollKeepsScheduler, AlwaysCount, PTL

-----------------------------------------------------------------------------
(* What one poll concludes. A runner's poll is one of the two kinds.       *)

LEMMA FullOrNot == \A g \in Goroutines : Full(g) \in BOOLEAN
  BY DEF Full

LEMMA ErrorKinds ==
  ASSUME NEW e
  PROVE  LET named == e \cap CredentialPhrases # {}
             clock == "time window" \in e
         IN  /\ classifySNMPError(e) \in {"snmp_error", "auth_fail", "snmp_timeout"}
             /\ classifySNMPError(e) = "auth_fail" <=> named /\ ~clock
             /\ classifySNMPError(e) = "snmp_timeout" <=>
                  "timeout" \in e /\ ~named /\ ~clock
  BY DEF classifySNMPError

LEMMA SoundVerdicts == \A full \in BOOLEAN : Verdicts[full]
  <1> SUFFICES ASSUME NEW full \in BOOLEAN, NEW p \in PollParams, NEW d \in Devices
               PROVE  LET kind     == RunSNMPPoll(p, full, d).ErrorKind
                          sent     == p.target /\ d.connects
                          answered == sent /\ d.error = {} /\ ~d.status
                          named    == d.error \cap CredentialPhrases # {}
                          clock    == "time window" \in d.error
                      IN  /\ RunSNMPPoll(p, full, d).Success <=> kind = ""
                          /\ kind = "" => answered
                          /\ answered => kind = "" \/ p.v1
                          /\ kind = "unreachable" <=> ~sent
                          /\ kind = "auth_fail" <=> sent /\ named /\ ~clock
                          /\ kind = "snmp_timeout" <=>
                               sent /\ "timeout" \in d.error /\ ~named /\ ~clock
    BY DEF Verdicts
  <1> DEFINE r == RunSNMPPoll(p, full, d)
  <1>1. CASE ~p.target \/ ~d.connects
    <2>1. r.Success = FALSE /\ r.ErrorKind = "unreachable"
      BY <1>1 DEF RunSNMPPoll, NoReading
    <2> HIDE DEF r
    <2> QED BY <1>1, <2>1 DEF r
  <1>2. CASE p.target /\ d.connects /\ d.error # {}
    <2>1. r.Success = FALSE /\ r.ErrorKind = classifySNMPError(d.error)
      BY <1>2 DEF RunSNMPPoll, NoReading
    <2> HIDE DEF r
    <2>2. r.ErrorKind # "" /\ r.ErrorKind # "unreachable"
      BY <2>1, ErrorKinds
    <2> QED BY <1>2, <2>1, <2>2, ErrorKinds DEF r
  <1>3. CASE p.target /\ d.connects /\ d.error = {} /\ ErrorStatus(p, full, d)
    <2>1. r.Success = FALSE /\ r.ErrorKind = "snmp_error"
      BY <1>3 DEF RunSNMPPoll, NoReading
    <2>2. d.status \/ p.v1
      BY <1>3 DEF ErrorStatus
    <2> HIDE DEF r
    <2> QED BY <1>3, <2>1, <2>2 DEF r
  <1>4. CASE p.target /\ d.connects /\ d.error = {} /\ ~ErrorStatus(p, full, d)
    <2>1. r.Success = TRUE /\ r.ErrorKind = ""
      BY <1>4 DEF RunSNMPPoll
    <2>2. ~d.status
      BY <1>4 DEF ErrorStatus
    <2> HIDE DEF r
    <2> QED BY <1>4, <2>1, <2>2 DEF r
  <1> QED BY <1>1, <1>2, <1>3, <1>4

\* For any device and any parameters, in every poll a runner makes: success is what
\* the exchange says, but for SNMPv1's error status, and so is the reason of a
\* failure: the credentials exactly if the error's text names them and not the
\* clock, a timeout exactly if it names nothing but that, and no address or
\* connection exactly if nothing was sent.
THEOREM VerdictCorrect == PollSpec => []VerdictSound
  <1>1. VerdictSound
    BY FullOrNot, SoundVerdicts DEF VerdictSound
  <1> QED BY <1>1, PTL


-----------------------------------------------------------------------------
(* The interfaces.                                                         *)

LEMMA LeastNatural ==
  ASSUME NEW T \in SUBSET Nat, T # {}
  PROVE  \E x \in T : \A y \in T : x <= y
  <1> DEFINE R == OpToRel(<, Nat)
  <1>1. IsWellFoundedOn(R, Nat)
    BY NatLessThanWellFounded
  <1>2. \A x, y \in Nat : x < y => <<x, y>> \in R
    BY DEF OpToRel
  <1> HIDE DEF R
  <1>3. PICK x \in T : \A y \in T : ~(<<y, x>> \in R)
    BY <1>1, WFMin
  <1>4. \A y \in T : ~(y < x)
    BY <1>2, <1>3
  <1> QED BY <1>4

\* Of a set of indexes, those with fewer than m below them are all of it, or at
\* least m.
LEMMA SmallestKept ==
  ASSUME NEW S \in SUBSET Nat, IsFiniteSet(S), NEW m \in Nat
  PROVE  LET K == {i \in S : Cardinality({j \in S : j < i}) < m}
         IN  /\ IsFiniteSet(K)
             /\ K = S \/ Cardinality(K) >= m
  <1> DEFINE K == {i \in S : Cardinality({j \in S : j < i}) < m}
  <1>1. IsFiniteSet(K) /\ Cardinality(K) \in Nat
    BY FS_Subset, FS_CardinalityType
  <1>2. ASSUME K # S PROVE Cardinality(K) >= m
    <2>1. PICK i \in S \ K : \A j \in S \ K : i <= j
      <3>1. S \ K \in SUBSET Nat /\ S \ K # {}
        BY <1>2
      <3> HIDE DEF K
      <3> QED BY <3>1, LeastNatural
    <2> DEFINE B == {j \in S : j < i}
    <2>3. IsFiniteSet(B) /\ Cardinality(B) \in Nat
      BY FS_Subset, FS_CardinalityType
    <2>4. ~(Cardinality(B) < m)
      BY <2>1
    <2>2. B \in SUBSET K
      <3>1. \A j \in S : j \notin K => ~(j < i)
        <4> HIDE DEF K
        <4> QED BY <2>1
      <3> HIDE DEF K
      <3> QED BY <3>1
    <2> HIDE DEF K, B
    <2>5. Cardinality(B) <= Cardinality(K)
      BY <1>1, <2>2, FS_Subset
    <2> QED BY <1>1, <2>3, <2>4, <2>5
  <1> QED BY <1>1, <1>2

\* The rows after both walks.
Rows(tab, xtab) ==
  IF xtab = Failed THEN dispatch(<<>>, tab) ELSE dispatch(dispatch(<<>>, tab), xtab)

Indexes(w) == {w[k].idx : k \in DOMAIN w}

KeptRows(tab, xtab) ==
  {i \in DOMAIN Rows(tab, xtab) :
     Cardinality({j \in DOMAIN Rows(tab, xtab) : j < i}) < MaxInterfaces}

LEMMA RowsDomain ==
  ASSUME NEW tab, NEW xtab
  PROVE  DOMAIN Rows(tab, xtab) =
           Indexes(tab) \cup (IF xtab = Failed THEN {} ELSE Indexes(xtab))
  <1>1. DOMAIN dispatch(<<>>, tab) = Indexes(tab)
    BY DEF dispatch, Indexes
  <1>2. DOMAIN dispatch(dispatch(<<>>, tab), xtab) = Indexes(tab) \cup Indexes(xtab)
    BY <1>1 DEF dispatch, Indexes
  <1> QED BY <1>1, <1>2 DEF Rows

LEMMA InterfacesOfRows ==
  ASSUME NEW tab, NEW xtab
  PROVE  collectInterfaces(tab, xtab) =
           {Interface(i, Rows(tab, xtab)[i]) : i \in KeptRows(tab, xtab)}
  BY DEF collectInterfaces, Kept, KeptRows, Rows

LEMMA WalkIndexes ==
  ASSUME NEW w, IsWalk(w)
  PROVE  Indexes(w) \in SUBSET Nat /\ IsFiniteSet(Indexes(w))
  <1> DEFINE f == [k \in 1 .. Len(w) |-> w[k].idx]
  <1>1. f \in Surjection(1 .. Len(w), Indexes(w))
    BY DEF IsWalk, Indexes, Surjection
  <1>2. IsFiniteSet(1 .. Len(w))
    <2>1. Len(w) \in Nat
      BY DEF IsWalk
    <2> QED BY <2>1, FS_Interval
  <1>3. Indexes(w) \in SUBSET Nat
    BY DEF IsWalk, Indexes
  <1> HIDE DEF f
  <1> QED BY <1>1, <1>2, <1>3, FS_Surjection

LEMMA InterfaceFields ==
  ASSUME NEW i, NEW row
  PROVE  /\ Interface(i, row).IfIndex = i
         /\ Interface(i, row).In = Counter(row["hcIn"], row["in32"])
         /\ Interface(i, row).Out = Counter(row["hcOut"], row["out32"])
  BY DEF Interface

\* A poll has one interface for each row that is kept: its index tells which.
LEMMA OnePerRow ==
  ASSUME NEW tab, NEW xtab, IsFiniteSet(KeptRows(tab, xtab))
  PROVE  Cardinality(collectInterfaces(tab, xtab)) = Cardinality(KeptRows(tab, xtab))
  <1> DEFINE K    == KeptRows(tab, xtab)
             I    == collectInterfaces(tab, xtab)
             f    == [i \in K |-> Interface(i, Rows(tab, xtab)[i])]
  <1>1. I = {f[i] : i \in K}
    <2>1. I = {Interface(i, Rows(tab, xtab)[i]) : i \in K}
      BY InterfacesOfRows
    <2>2. \A i \in K : f[i] = Interface(i, Rows(tab, xtab)[i])
      OBVIOUS
    <2> HIDE DEF I, K, f
    <2> QED BY <2>1, <2>2
  <1>2. \A i \in K : f[i] \in I
    BY <1>1
  <1>3. \A x \in I : \E i \in K : f[i] = x
    BY <1>1
  <1>4. \A i \in K : f[i].IfIndex = i
    BY InterfaceFields
  <1> HIDE DEF K, I
  <1>5. f \in [K -> I]
    BY <1>2
  <1> HIDE DEF f
  <1>6. \A i, j \in K : f[i] = f[j] => i = j
    BY <1>4
  <1>7. f \in Surjection(K, I) /\ f \in Injection(K, I)
    BY <1>3, <1>5, <1>6 DEF Surjection, Injection, IsInjective
  <1>8. IsFiniteSet(K)
    BY DEF K
  <1>9. Cardinality(I) = Cardinality(K)
    BY <1>7, <1>8, FS_Surjection
  <1> QED BY <1>9 DEF K, I

\* Whether ifXTable was read or not, no interface of ifTable is missing, but
\* for the cap.
LEMMA AllInterfaces ==
  ASSUME NEW tab, IsWalk(tab), NEW xtab, xtab # Failed => IsWalk(xtab)
  PROVE  LET n == Cardinality(Indexes(tab))
         IN  Cardinality(collectInterfaces(tab, xtab)) >=
               IF n < MaxInterfaces THEN n ELSE MaxInterfaces
  <1> DEFINE S == DOMAIN Rows(tab, xtab)
             n == Cardinality(Indexes(tab))
  <1>1. S \in SUBSET Nat /\ IsFiniteSet(S) /\ Indexes(tab) \in SUBSET S
    <2>1. S = Indexes(tab) \cup (IF xtab = Failed THEN {} ELSE Indexes(xtab))
      BY RowsDomain
    <2> HIDE DEF S
    <2>2. CASE xtab = Failed
      BY <2>1, <2>2, WalkIndexes
    <2>3. CASE xtab # Failed
      <3>1. /\ Indexes(tab) \in SUBSET Nat /\ IsFiniteSet(Indexes(tab))
            /\ Indexes(xtab) \in SUBSET Nat /\ IsFiniteSet(Indexes(xtab))
        BY <2>3, WalkIndexes
      <3>2. S = Indexes(tab) \cup Indexes(xtab)
        BY <2>1, <2>3
      <3>3. IsFiniteSet(S)
        BY <3>1, <3>2, FS_Union
      <3> QED BY <3>1, <3>2, <3>3
    <2> QED BY <2>2, <2>3
  <1> DEFINE K == KeptRows(tab, xtab)
  <1>2. K = {i \in S : Cardinality({j \in S : j < i}) < MaxInterfaces}
    BY DEF KeptRows
  <1> HIDE DEF S, K
  <1>3. MaxInterfaces \in Nat
    BY SnmpAssumption
  <1>4. IsFiniteSet(K) /\ (K = S \/ Cardinality(K) >= MaxInterfaces)
    BY <1>1, <1>2, <1>3, SmallestKept
  <1>5. Cardinality(collectInterfaces(tab, xtab)) = Cardinality(K)
    BY <1>4, OnePerRow DEF K
  <1>6. n \in Nat /\ Cardinality(K) \in Nat /\ n <= Cardinality(S)
    <2>1. IsFiniteSet(Indexes(tab)) /\ Cardinality(Indexes(tab)) <= Cardinality(S)
      BY <1>1, FS_Subset
    <2> QED BY <1>4, <2>1, FS_CardinalityType
  <1> HIDE DEF n
  <1>7. Cardinality(K) >= IF n < MaxInterfaces THEN n ELSE MaxInterfaces
    BY <1>3, <1>4, <1>6
  <1> QED BY <1>5, <1>7 DEF n

\* A cell is alone in its place, so its value is what the row has there.
LEMMA CellInRow ==
  ASSUME NEW rows, NEW w, IsWalk(w), NEW k \in DOMAIN w, w[k].col \in Col \cup XCol
  PROVE  dispatch(rows, w)[w[k].idx][w[k].col] = w[k].val
  <1> DEFINE i == w[k].idx
             c == w[k].col
  <1>1. At(w, i, c) = {k}
    BY DEF At, IsWalk
  <1>2. Max({k}) = k
    <2>1. k \in Nat
      BY DEF IsWalk
    <2> QED BY <2>1 DEF Max
  <1>3. i \in {w[l].idx : l \in DOMAIN w}
    OBVIOUS
  <1> HIDE DEF i, c
  <1>4. dispatch(rows, w)[i][c] =
          IF At(w, i, c) # {} THEN w[Max(At(w, i, c))].val
          ELSE IF i \in DOMAIN rows THEN rows[i][c] ELSE Empty[c]
    BY <1>3 DEF dispatch, c
  <1>5. dispatch(rows, w)[i][c] = w[k].val
    BY <1>1, <1>2, <1>4
  <1> QED BY <1>5 DEF i, c

LEMMA RowsWithout ==
  ASSUME NEW rows, NEW w, NEW i \in DOMAIN rows \cup Indexes(w), NEW c \in Col \cup XCol,
         At(w, i, c) = {}
  PROVE  dispatch(rows, w)[i][c] = IF i \in DOMAIN rows THEN rows[i][c] ELSE Empty[c]
  BY DEF dispatch, Indexes

\* The rows are the same whatever the order in which the cells arrive.
LEMMA RowsOfCells ==
  ASSUME NEW v, NEW w, IsWalk(v), IsWalk(w), ToSet(v) = ToSet(w)
  PROVE  dispatch(<<>>, v) = dispatch(<<>>, w)
  <1>1. /\ \A k \in DOMAIN v : \E l \in DOMAIN w : v[k] = w[l]
        /\ \A l \in DOMAIN w : \E k \in DOMAIN v : v[k] = w[l]
    BY DEF ToSet
  <1>2. Indexes(v) = Indexes(w)
    BY <1>1 DEF Indexes
  <1>3. ASSUME NEW i \in Indexes(v), NEW c \in Col \cup XCol
        PROVE  dispatch(<<>>, v)[i][c] = dispatch(<<>>, w)[i][c]
    <2>1. CASE At(v, i, c) = {}
      <3>1. At(w, i, c) = {}
        BY <1>1, <2>1 DEF At
      <3> QED BY <1>2, <2>1, <3>1, RowsWithout
    <2>2. ASSUME NEW k \in At(v, i, c)
          PROVE  dispatch(<<>>, v)[i][c] = dispatch(<<>>, w)[i][c]
      <3>1. k \in DOMAIN v /\ v[k].idx = i /\ v[k].col = c
        BY DEF At
      <3>2. PICK l \in DOMAIN w : v[k] = w[l]
        BY <1>1, <3>1
      <3>3. dispatch(<<>>, v)[i][c] = v[k].val
        BY <3>1, CellInRow
      <3>4. dispatch(<<>>, w)[i][c] = w[l].val
        BY <3>1, <3>2, CellInRow
      <3> QED BY <3>2, <3>3, <3>4
    <2> QED BY <2>1, <2>2
  <1> DEFINE a == dispatch(<<>>, v)
             b == dispatch(<<>>, w)
  <1>4. /\ a = [i \in Indexes(v) |-> [c \in Col \cup XCol |-> a[i][c]]]
        /\ b = [i \in Indexes(w) |-> [c \in Col \cup XCol |-> b[i][c]]]
    BY DEF dispatch, Indexes
  <1> HIDE DEF a, b
  <1>5. a = b
    BY <1>2, <1>3, <1>4 DEF a, b
  <1> QED BY <1>5 DEF a, b

LEMMA SameRows == SameRowsEveryPoll
  <1> SUFFICES ASSUME NEW v \in Walks, NEW w \in Walks, ToSet(v) = ToSet(w)
               PROVE  collectInterfaces(v, Failed) = collectInterfaces(w, Failed)
    BY DEF SameRowsEveryPoll
  <1>1. dispatch(<<>>, v) = dispatch(<<>>, w)
    BY RowsOfCells, SnmpAssumption
  <1>2. Rows(v, Failed) = Rows(w, Failed)
    BY <1>1 DEF Rows
  <1>3. KeptRows(v, Failed) = KeptRows(w, Failed)
    BY <1>2 DEF KeptRows
  <1> QED BY <1>2, <1>3, InterfacesOfRows

LEMMA Wide == WideCounters
  <1> SUFFICES ASSUME NEW d \in Devices, d.ifTable # Failed, d.ifXTable # Failed,
                      NEW row \in collectInterfaces(d.ifTable, d.ifXTable),
                      NEW k \in DOMAIN d.ifXTable, d.ifXTable[k].idx = row.IfIndex
               PROVE  LET c == d.ifXTable[k]
                      IN  /\ c.col = "hcIn" => row.In = c.val
                          /\ c.col = "hcOut" => row.Out = c.val
    BY DEF WideCounters
  <1> DEFINE x    == d.ifXTable
             rows == Rows(d.ifTable, x)
  <1>1. PICK i \in KeptRows(d.ifTable, x) : row = Interface(i, rows[i])
    BY InterfacesOfRows
  <1>2. /\ row.IfIndex = i
        /\ row.In = Counter(rows[i]["hcIn"], rows[i]["in32"])
        /\ row.Out = Counter(rows[i]["hcOut"], rows[i]["out32"])
    BY <1>1, InterfaceFields
  <1>3. IsWalk(x)
    BY SnmpAssumption
  <1>4. rows = dispatch(dispatch(<<>>, d.ifTable), x)
    BY DEF Rows
  <1> HIDE DEF x, rows
  <1>5. x[k].idx = i /\ k \in DOMAIN x
    BY <1>2 DEF x
  <1>6. x[k].col \in {"hcIn", "hcOut"} => /\ rows[i][x[k].col] = x[k].val
                                         /\ x[k].val \in Nat
    <2>1. {"hcIn", "hcOut"} \subseteq Col \cup XCol
      BY DEF Col, XCol
    <2>2. x[k].col \in {"hcIn", "hcOut"} => x[k].val \in Nat
      BY <1>3, <1>5 DEF IsWalk
    <2> QED BY <1>3, <1>4, <1>5, <2>1, <2>2, CellInRow
  <1>7. x[k].col = "hcIn" => row.In = x[k].val
    BY <1>2, <1>6 DEF Counter
  <1>8. x[k].col = "hcOut" => row.Out = x[k].val
    BY <1>2, <1>6 DEF Counter
  <1> QED BY <1>7, <1>8 DEF x

LEMMA NotCleared ==
  ASSUME NEW full \in BOOLEAN
  PROVE  NoFalseClear(full)
  <1> SUFFICES ASSUME NEW p \in PollParams, NEW d \in Devices,
                      RunSNMPPoll(p, full, d).HasInterfaces
               PROVE  LET r == RunSNMPPoll(p, full, d)
                      IN  /\ r.Success /\ d.ifTable # Failed
                          /\ Cardinality(r.Interfaces) >=
                               LET n == Cardinality(Indexes(d.ifTable))
                               IN  IF n < MaxInterfaces THEN n ELSE MaxInterfaces
    BY DEF NoFalseClear, Indexes
  <1> DEFINE r == RunSNMPPoll(p, full, d)
  <1>1. ~(~p.target \/ ~d.connects) /\ d.error = {} /\ ~ErrorStatus(p, full, d)
    BY DEF RunSNMPPoll, NoReading
  <1>2. /\ r.Success = TRUE /\ r.HasInterfaces = Ifaces(p, d).Has
        /\ r.Interfaces = Ifaces(p, d).Rows
    BY <1>1 DEF RunSNMPPoll
  <1> HIDE DEF r
  <1>3. p.CollectIfaces /\ d.ifTable # Failed
    BY <1>2 DEF Ifaces, r
  <1>4. r.Interfaces = collectInterfaces(d.ifTable, d.ifXTable)
    BY <1>2, <1>3 DEF Ifaces
  <1>5. IsWalk(d.ifTable) /\ (d.ifXTable # Failed => IsWalk(d.ifXTable))
    BY <1>3, SnmpAssumption
  <1> QED BY <1>2, <1>3, <1>4, <1>5, AllInterfaces DEF r

-----------------------------------------------------------------------------
(* The custom OIDs.                                                        *)

LEMMA DecodedOID == \A id, v : decodeOIDValue(id, v).OID = id
  BY DEF decodeOIDValue

\* The ids that are asked for and reported as custom OIDs are those configured
\* without a leading dot, outside of the fixed set.
LEMMA ExtraIds ==
  ASSUME NEW p \in PollParams, NEW full
  PROVE  {x \in Asked(p, full) : Extra(p, x)} =
           {p.ExtraOIDs[i].id : i \in {k \in DOMAIN p.ExtraOIDs :
              ~p.ExtraOIDs[k].dot /\ p.ExtraOIDs[k].id \notin SystemOIDs}}
  <1> DEFINE o == p.ExtraOIDs
             J == {k \in DOMAIN o : ~o[k].dot /\ o[k].id \notin SystemOIDs}
  <1>1. \A k \in DOMAIN o : o[k] \in [dot : BOOLEAN, id : STRING]
    <2> DEFINE R == [dot : BOOLEAN, id : STRING]
    <2>1. o \in Seq(R)
      BY SnmpAssumption
    <2> HIDE DEF o, R
    <2>2. \A k \in DOMAIN o : o[k] \in R
      BY <2>1
    <2> QED BY <2>2 DEF R
  <1>2. ASSUME NEW x, Extra(p, x) PROVE \E k \in J : x = o[k].id
    <2>1. PICK k \in DOMAIN o : o[k] = [dot |-> FALSE, id |-> x]
      BY <1>2 DEF Extra
    <2>2. o[k].id = x /\ o[k].dot = FALSE /\ x \notin SystemOIDs
      BY <1>2, <2>1 DEF Extra
    <2> QED BY <2>2
  <1>3. ASSUME NEW k \in J PROVE o[k].id \in Asked(p, full) /\ Extra(p, o[k].id)
    <2>1. k \in DOMAIN o /\ o[k].dot = FALSE /\ o[k].id \notin SystemOIDs
      BY <1>1
    <2>2. o[k] = [dot |-> FALSE, id |-> o[k].id]
      BY <1>1, <2>1
    <2> QED BY <2>1, <2>2 DEF Asked, Extra
  <1> HIDE DEF o, J
  <1>4. {x \in Asked(p, full) : Extra(p, x)} = {o[i].id : i \in J}
    BY <1>2, <1>3
  <1> QED BY <1>4 DEF o, J

LEMMA Reported ==
  ASSUME NEW full \in BOOLEAN
  PROVE  ExtrasReported(full)
  <1> SUFFICES ASSUME NEW p \in PollParams, NEW d \in Devices,
                      RunSNMPPoll(p, full, d).Success
               PROVE  {v.OID : v \in RunSNMPPoll(p, full, d).Values} =
                        {p.ExtraOIDs[i].id : i \in {k \in DOMAIN p.ExtraOIDs :
                           ~p.ExtraOIDs[k].dot /\ p.ExtraOIDs[k].id \notin SystemOIDs}}
    BY DEF ExtrasReported
  <1> DEFINE r == RunSNMPPoll(p, full, d)
             X == {x \in Asked(p, full) : Extra(p, x)}
  <1>1. ~(~p.target \/ ~d.connects) /\ d.error = {} /\ ~ErrorStatus(p, full, d)
    BY DEF RunSNMPPoll, NoReading
  <1>2. r.Values = {decodeOIDValue(id, d.value[id]) : id \in X}
    BY <1>1 DEF RunSNMPPoll
  <1> HIDE DEF r, X
  <1>3. {v.OID : v \in r.Values} = X
    BY <1>2, DecodedOID
  <1> QED BY <1>3, ExtraIds DEF r, X

\* For any tables, parameters and order of cells, and every poll a runner makes: no
\* table is cleared by mistake, the rows are the same from poll to poll, a 64-bit
\* counter is never replaced by its 32-bit one, and every custom OID has its
\* reading or reason.
THEOREM ReadingsCorrect == PollSpec => []ReadingsSound
  <1>1. \A full \in BOOLEAN : Readings[full]
    BY NotCleared, SameRows, Wide, Reported DEF Readings
  <1>2. ReadingsSound
    BY <1>1, FullOrNot DEF ReadingsSound
  <1> QED BY <1>2, PTL
=============================================================================

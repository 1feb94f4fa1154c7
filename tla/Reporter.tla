------------------------------ MODULE Reporter ------------------------------
(***************************************************************************)
(* internal/reporter: two bounded channels filled by the probe goroutines  *)
(* and one goroutine, Run, that moves results into two capped buffers and  *)
(* uploads each buffer as one batch, with exponential backoff.             *)
(*                                                                         *)
(* A result is its number in the order its kind was offered (1, 2, ...).   *)
(* Time passes in units: retryIn is the part of retryAt still to come.     *)
(***************************************************************************)
EXTENDS Integers, Sequences

CONSTANTS
  BatchSize,      \* cfg.BatchSize: a buffer this long is flushed at once
  CapFactor,      \* 10 in the code
  CapFloor,       \* 1000 in the code
  InitialDelay,   \* 5s in the code, in time units
  MaxDelay,       \* 2min in the code, in time units
  MaxResults,     \* bound: results offered per kind
  MaxFailures,    \* bound: where the history variable failures saturates
  Poisoned        \* the <<kind, result>> pairs encoding/json cannot marshal

Kinds == {"probe", "snmp"}
Ids   == 1 .. MaxResults

ASSUME ReporterAssumption ==
  /\ BatchSize \in Int
  /\ CapFactor \in Nat \ {0} /\ CapFloor \in Nat \ {0}
  /\ InitialDelay \in Nat \ {0} /\ MaxDelay \in Nat \ {0}
  /\ InitialDelay <= MaxDelay
  /\ MaxResults \in Nat /\ MaxFailures \in Nat \ {0}

\* The length of each channel and of each buffer.
Cap == IF BatchSize * CapFactor < CapFloor THEN CapFloor
                                           ELSE BatchSize * CapFactor

VARIABLES
  queue,       \* r.queue and r.snmpQueue
  buf,         \* pendingBatch.buf of each kind
  retryDelay,  \* pendingBatch.retryDelay
  retryIn,     \* pendingBatch.retryAt - now, never below 0
  pc,          \* where Run is
  todo,        \* the flush calls Run still has to make before it goes on
  force,       \* the force argument of those calls
  tick,        \* ticker.C holds a tick
  cancelled,   \* ctx.Done() is closed
  made,        \* history: how many results of the kind were offered
  madeBefore,  \* history: made when the context was cancelled
  fate,        \* history: what became of each result
  tried,       \* history: the results uploads tried to send since then
  failures     \* history: failed uploads since the last batch was disposed of

store == <<queue, buf>>
retry == <<retryDelay, retryIn, failures>>
ghost == <<made, madeBefore, fate>>
vars  == <<store, retry, pc, todo, force, tick, cancelled, ghost, tried>>

Outcomes == {"ok", "otherStatus", "throttled", "serverError", "noAnswer",
             "unmarshalable"}

Fates == {"unborn", "held", "overflow", "evicted",
          "answered", "unmarshalable"}

Elems(s) == {s[i] : i \in DOMAIN s}

TypeOK ==
  /\ queue \in [Kinds -> Seq(Ids)] /\ buf \in [Kinds -> Seq(Ids)]
  /\ \A k \in Kinds : Len(queue[k]) <= Cap /\ Len(buf[k]) <= Cap
  /\ retryDelay \in [Kinds -> 0 .. MaxDelay]
  /\ retryIn \in [Kinds -> 0 .. MaxDelay]
  /\ pc \in {"select", "flush", "post", "drain", "done"}
  /\ todo \in {<<>>, <<"probe">>, <<"snmp">>, <<"probe", "snmp">>}
  /\ pc \in {"flush", "post"} <=> todo # <<>>
  /\ force \in BOOLEAN /\ tick \in BOOLEAN /\ cancelled \in BOOLEAN
  /\ made \in [Kinds -> 0 .. MaxResults]
  /\ madeBefore \in [Kinds -> 0 .. MaxResults]
  /\ fate \in [Kinds -> [Ids -> Fates]]
  /\ tried \in [Kinds -> SUBSET Ids]
  /\ failures \in [Kinds -> 0 .. MaxFailures]

Init ==
  /\ queue = [k \in Kinds |-> <<>>]
  /\ buf = [k \in Kinds |-> <<>>]
  /\ retryDelay = [k \in Kinds |-> 0]
  /\ retryIn = [k \in Kinds |-> 0]
  /\ pc = "select"
  /\ todo = <<>>
  /\ force = FALSE
  /\ tick = FALSE
  /\ cancelled = FALSE
  /\ made = [k \in Kinds |-> 0]
  /\ madeBefore = [k \in Kinds |-> 0]
  /\ fate = [k \in Kinds |-> [i \in Ids |-> "unborn"]]
  /\ tried = [k \in Kinds |-> {}]
  /\ failures = [k \in Kinds |-> 0]

-----------------------------------------------------------------------------
(* pendingBatch                                                            *)

\* Faulty: no cap; or the newest result goes first.
AddUncapped(b, v) == Append(b, v)
AddInFront(b, v) ==
  LET a == <<v>> \o b IN IF Len(a) > Cap THEN SubSeq(a, 1, Cap) ELSE a

\* add: append, then drop the oldest entries past the cap.
Add(b, v) ==
  LET a    == Append(b, v)
      drop == Len(a) - Cap
  IN  IF drop > 0 THEN SubSeq(a, drop + 1, Len(a)) ELSE a

\* Faulty: force is ignored.
SuppressedAlways(k) == buf[k] = <<>> \/ retryIn[k] > 0

\* flush returns at once on an empty buffer or inside a backoff window.
Suppressed(k) == buf[k] = <<>> \/ (~force /\ retryIn[k] > 0)

\* The delay after one more failed upload.
NextDelay(d) ==
  IF d = 0 THEN InitialDelay
           ELSE IF 2 * d > MaxDelay THEN MaxDelay ELSE 2 * d

\* Faulty: a 5xx is taken for a rejection.
DiscardsServerError(outcome) ==
  outcome \in {"ok", "otherStatus", "unmarshalable", "serverError"}

\* upload, uploadSNMP and post answer true: the batch is done with.
Discards(outcome) == outcome \in {"ok", "otherStatus", "unmarshalable"}

\* What disposing of a batch with that outcome means for each of its results.
Verdict(outcome) ==
  CASE outcome \in {"ok", "otherStatus"} -> "answered"
    [] outcome = "unmarshalable"         -> "unmarshalable"
    [] OTHER                             -> "held"

\* json.Marshal fails on the whole batch when it fails on one result; no
\* request is then sent.
CanReturn(outcome, k) ==
  outcome = "unmarshalable" <=> \E i \in Elems(buf[k]) : <<k, i>> \in Poisoned

-----------------------------------------------------------------------------
(* The probe goroutines: Enqueue and EnqueueSNMP never block.              *)

Enqueue(k) ==
  /\ made[k] < MaxResults
  /\ made' = [made EXCEPT ![k] = @ + 1]
  /\ \/ /\ Len(queue[k]) < Cap
        /\ queue' = [queue EXCEPT ![k] = Append(@, made[k] + 1)]
        /\ fate' = [fate EXCEPT ![k][made[k] + 1] = "held"]
     \/ /\ Len(queue[k]) >= Cap
        /\ fate' = [fate EXCEPT ![k][made[k] + 1] = "overflow"]
        /\ UNCHANGED queue
  /\ UNCHANGED <<buf, retry, pc, todo, force, tick, cancelled, madeBefore, tried>>

-----------------------------------------------------------------------------
(* Run                                                                     *)

\* Receive from the channel of kind k and add to its buffer.
Take(k) ==
  /\ queue[k] # <<>>
  /\ queue' = [queue EXCEPT ![k] = Tail(@)]
  /\ buf' = [buf EXCEPT ![k] = Add(@, Head(queue[k]))]
  /\ fate' = IF Len(buf[k]) < Cap THEN fate
             ELSE [fate EXCEPT ![k][Head(buf[k])] = "evicted"]

\* Faulty: a full batch waits for the ticker.
RecvWithoutFlush(k) ==
  /\ pc = "select"
  /\ Take(k)
  /\ UNCHANGED <<retry, pc, todo, force, tick, cancelled, made, madeBefore, tried>>

\* case res := <-r.queue, case res := <-r.snmpQueue.
Recv(k) ==
  /\ pc = "select"
  /\ Take(k)
  /\ IF Len(buf'[k]) >= BatchSize
       THEN pc' = "flush" /\ todo' = <<k>>
       ELSE UNCHANGED <<pc, todo>>
  /\ UNCHANGED <<retry, force, tick, cancelled, made, madeBefore, tried>>

\* Faulty: the ticker flushes probe results only.
TickFlushProbe ==
  /\ pc = "select"
  /\ tick
  /\ tick' = FALSE
  /\ pc' = "flush"
  /\ todo' = <<"probe">>
  /\ UNCHANGED <<store, retry, force, cancelled, ghost, tried>>

\* case <-ticker.C: both kinds are flushed, probe results first.
TickFlush ==
  /\ pc = "select"
  /\ tick
  /\ tick' = FALSE
  /\ pc' = "flush"
  /\ todo' = <<"probe", "snmp">>
  /\ UNCHANGED <<store, retry, force, cancelled, ghost, tried>>

\* case <-ctx.Done().
CtxDone ==
  /\ pc = "select"
  /\ cancelled
  /\ pc' = "drain"
  /\ UNCHANGED <<store, retry, todo, force, tick, cancelled, ghost, tried>>

\* The drain loop takes from both channels without flushing ...
Drain(k) ==
  /\ pc = "drain"
  /\ Take(k)
  /\ UNCHANGED <<retry, pc, todo, force, tick, cancelled, made, madeBefore, tried>>

\* ... until both are empty at the same time, then flushes both with force.
DrainEnd ==
  /\ pc = "drain"
  /\ \A k \in Kinds : queue[k] = <<>>
  /\ pc' = "flush"
  /\ todo' = <<"probe", "snmp">>
  /\ force' = TRUE
  /\ UNCHANGED <<store, retry, tick, cancelled, ghost, tried>>

\* Faulty: after the last flush Run goes back to its select.
FlushReturnsToSelect ==
  /\ todo' = Tail(todo)
  /\ pc' = IF Tail(todo) # <<>> THEN "flush" ELSE "select"

\* The call of flush at the head of todo has returned.
FlushReturns ==
  /\ todo' = Tail(todo)
  /\ pc' = IF Tail(todo) # <<>> THEN "flush"
           ELSE IF force THEN "done" ELSE "select"

FlushSkip ==
  /\ pc = "flush"
  /\ Suppressed(Head(todo))
  /\ FlushReturns
  /\ UNCHANGED <<store, retry, force, tick, cancelled, ghost, tried>>

StartUpload ==
  /\ pc = "flush"
  /\ ~Suppressed(Head(todo))
  /\ pc' = "post"
  /\ tried' = IF cancelled
               THEN [tried EXCEPT ![Head(todo)] = @ \cup Elems(buf[Head(todo)])]
               ELSE tried
  /\ UNCHANGED <<store, retry, todo, force, tick, cancelled, ghost>>

\* Faulty: the delay is not reset.
DisposeKeepsDelay(k) ==
  /\ buf' = [buf EXCEPT ![k] = <<>>]
  /\ UNCHANGED <<retryDelay, retryIn>>

\* upload has disposed of the batch: the buffer and the backoff are reset.
Dispose(k) ==
  /\ buf' = [buf EXCEPT ![k] = <<>>]
  /\ retryDelay' = [retryDelay EXCEPT ![k] = 0]
  /\ retryIn' = [retryIn EXCEPT ![k] = 0]

\* upload wants the batch kept: the next attempt waits twice as long.
BackOff(k) ==
  /\ retryDelay' = [retryDelay EXCEPT ![k] = NextDelay(@)]
  /\ retryIn' = [retryIn EXCEPT ![k] = NextDelay(retryDelay[k])]
  /\ UNCHANGED buf

\* What the outcome means, recorded beside the code's own state.
Record(k, outcome) ==
  /\ fate' = [fate EXCEPT ![k] =
                [i \in Ids |-> IF i \in Elems(buf[k]) THEN Verdict(outcome)
                                                      ELSE fate[k][i]]]
  /\ failures' = [failures EXCEPT ![k] =
                    IF Verdict(outcome) # "held" THEN 0
                    ELSE IF @ < MaxFailures THEN @ + 1 ELSE @]

UploadReturns(outcome) ==
  /\ pc = "post"
  /\ LET k == Head(todo)
     IN  /\ CanReturn(outcome, k)
         /\ IF Discards(outcome) THEN Dispose(k) ELSE BackOff(k)
         /\ Record(k, outcome)
  /\ FlushReturns
  /\ UNCHANGED <<queue, force, tick, cancelled, made, madeBefore, tried>>

-----------------------------------------------------------------------------
(* The environment: the ticker, the clock and the signal.                  *)

\* time.Ticker drops a tick nobody has taken yet.
TickerFires ==
  /\ pc # "done"
  /\ ~tick
  /\ tick' = TRUE
  /\ UNCHANGED <<store, retry, pc, todo, force, cancelled, ghost, tried>>

Elapse ==
  /\ pc # "done"
  /\ \E k \in Kinds : retryIn[k] > 0
  /\ retryIn' = [k \in Kinds |-> IF retryIn[k] > 0 THEN retryIn[k] - 1 ELSE 0]
  /\ UNCHANGED <<store, retryDelay, failures, pc, todo, force, tick, cancelled,
                 ghost, tried>>

Cancel ==
  /\ ~cancelled
  /\ cancelled' = TRUE
  /\ madeBefore' = made
  /\ UNCHANGED <<store, retry, pc, todo, force, tick, made, fate, tried>>

Run ==
  \/ \E k \in Kinds : Recv(k) \/ Drain(k)
  \/ TickFlush \/ CtxDone \/ DrainEnd
  \/ FlushSkip \/ StartUpload
  \/ \E outcome \in Outcomes : UploadReturns(outcome)

Next ==
  \/ Run
  \/ \E k \in Kinds : Enqueue(k)
  \/ TickerFires \/ Elapse \/ Cancel

Spec == Init /\ [][Next]_vars

\* Run's own steps are taken when they can be; among the ready cases of a
\* select Go picks at random, so a case that is ready again and again is
\* taken; post always returns, because its request carries RequestTimeout.
Fairness ==
  /\ \A k \in Kinds : SF_vars(Recv(k)) /\ WF_vars(Drain(k))
  /\ SF_vars(TickFlush) /\ SF_vars(CtxDone) /\ WF_vars(DrainEnd)
  /\ WF_vars(FlushSkip) /\ WF_vars(StartUpload)
  /\ WF_vars(\E outcome \in Outcomes : UploadReturns(outcome))
  /\ WF_vars(TickerFires) /\ WF_vars(Elapse)

\* The SNMP endpoint, asked again and again, some time accepts; nothing is
\* assumed of the probe endpoint.
SnmpEndpointRecovers ==
  SF_vars(pc = "post" /\ Head(todo) = "snmp" /\ UploadReturns("ok"))

FairSpec == Spec /\ Fairness
RecoverSpec == FairSpec /\ SnmpEndpointRecovers

-----------------------------------------------------------------------------
(* Safety                                                                  *)

\* Nothing is lost in silence: the results in a channel or a buffer are
\* exactly those whose fate is still open, whichever way uploads ended.
NothingLost ==
  \A k \in Kinds :
    {i \in Ids : fate[k][i] = "held"} = Elems(buf[k]) \cup Elems(queue[k])

Increasing(s) == \A m, n \in DOMAIN s : m < n => s[m] < s[n]

\* Results are uploaded in the order they were offered, also after failed
\* uploads, evictions and the drain: the buffer followed by the channel is
\* in arrival order.
ArrivalOrder ==
  \A k \in Kinds :
    /\ Increasing(buf[k]) /\ Increasing(queue[k])
    /\ \A m \in DOMAIN buf[k], n \in DOMAIN queue[k] : buf[k][m] < queue[k][n]
    /\ \A v \in Elems(buf[k]) \cup Elems(queue[k]) : v <= made[k]

\* The delay after n failures in a row, as a closed form.
BackoffAfter(n) ==
  IF n = 0 THEN 0
  ELSE IF InitialDelay * 2^(n-1) > MaxDelay THEN MaxDelay
                                            ELSE InitialDelay * 2^(n-1)

\* The wait doubles with every failure in a row up to the cap and starts
\* again after a batch is disposed of; a kind that waits has something to
\* send, so a wait never outlives the batch it is for.
BackoffSchedule ==
  \A k \in Kinds :
    /\ failures[k] < MaxFailures => retryDelay[k] = BackoffAfter(failures[k])
    /\ failures[k] = MaxFailures => retryDelay[k] >= BackoffAfter(MaxFailures)
    /\ retryIn[k] <= retryDelay[k]
    /\ retryDelay[k] > 0 => buf[k] # <<>>

\* When Run has returned, each result offered before the cancellation that is
\* still held was sent at least once since, backoff or not: the drain misses
\* nothing and the last flush is forced.
FinalAttempt ==
  pc = "done" =>
    \A k \in Kinds : \A i \in 1 .. madeBefore[k] :
      fate[k][i] = "held" => i \in tried[k]

\* While Run selects, only a failing endpoint costs results their place in
\* the buffer (the drain, which adds without flushing, is exempt).
EvictedOnlyInOutage ==
  [][\A k \in Kinds, i \in Ids :
       pc = "select" /\ fate'[k][i] = "evicted" /\ fate[k][i] # "evicted"
         => failures[k] > 0]_vars

\* The reporter is a lossy FIFO line per kind: channel, buffer, batches,
\* retries and the final drain are one line to its callers.
Line == INSTANCE ResultLine
          WITH line <- [k \in Kinds |-> buf[k] \o queue[k]]
LineSpec == Line!Spec

\* The type doc (reporter.go:33-35): a batch stays buffered until the server
\* accepts it or rejects it, the cap aside. Stated of results that encode.
LeavesByServer ==
  \A k \in Kinds, i \in Ids :
    <<k, i>> \notin Poisoned => fate[k][i] # "unmarshalable"

-----------------------------------------------------------------------------
(* Liveness                                                                *)

\* However the probe endpoint behaves, an SNMP result does not stay in the
\* agent for ever while the SNMP endpoint recovers from time to time.
SnmpNotWedged ==
  \A i \in Ids :
    fate["snmp"][i] = "held" ~> fate["snmp"][i] # "held" \/ cancelled

\* Cancellation ends Run, whatever the server answers.
RunReturns == cancelled ~> pc = "done"
=============================================================================

------------------------------ MODULE SnmpPoll ------------------------------
(***************************************************************************)
(* The SNMP polls of the scheduler's runners: runTask's tick counter, which*)
(* a new runner begins at 0, decides which polls ask for the full system   *)
(* group. A composition of Scheduler, whose steps it counts, with          *)
(* SnmpResult, which says what a poll concludes.                           *)
(***************************************************************************)
EXTENDS Scheduler, SnmpResult

VARIABLES
  seq,   \* runTask's seq, up to multiples of InventoryEveryN
  fast   \* history: polls of the runner since its last full one, or -1: none

pollVars == <<vars, seq, fast>>

Polls(g) == gor[g].task # NoTask /\ gor[g].task.Type = "snmp_poll"
              /\ gor[g].task.SNMP # NoSNMP

Every(task) == task.SNMP.scalar["InventoryEveryN"]

\* InventoryEveryN is an int.
ASSUME PollAssumption ==
  \A t \in Tasks : t.Type = "snmp_poll" /\ t.SNMP # NoSNMP => Every(t) \in Int

\* Faulty: the counter is tested after it was incremented.
FullNext(g) == Every(gor[g].task) <= 1 \/ (seq[g] + 1) % Every(gor[g].task) = 0

\* execute: this poll asks for the system group.
Full(g) == Every(gor[g].task) <= 1 \/ seq[g] % Every(gor[g].task) = 0

PollInit ==
  /\ Init
  /\ seq = [g \in Goroutines |-> 0]
  /\ fast = [g \in Goroutines |-> -1]

\* The poll of g holds a slot: seq, and with it Full, stays as it was tested.
Polling(g) == Polls(g) /\ gor[g].phase = "round" /\ gor[g].running > 0

Reporting(g) == gor'[g].done > gor[g].done
RoundEnding(g) == gor[g].phase = "round" /\ gor'[g].phase = "idle"

\* Faulty: each tick begins to count anew.
CountedNever(g) == 0

\* seq is the goroutine's own. seq++ follows each execute, also one that got no
\* slot or had no parameters.
Counted(g) ==
  IF gor'[g].phase = "ended" THEN 0
  ELSE IF Polls(g) /\ RoundEnding(g)
    THEN IF seq[g] + 1 >= Every(gor[g].task) THEN 0 ELSE seq[g] + 1
    ELSE seq[g]

\* EnqueueSNMP is given the result of a poll.
Noted(g) ==
  IF ~gor'[g].live THEN -1
  ELSE IF Polls(g) /\ Reporting(g)
    THEN IF Full(g) THEN 0 ELSE fast[g] + 1
    ELSE fast[g]

PollNext ==
  /\ Next
  /\ seq' = [g \in Goroutines |-> Counted(g)]
  /\ fast' = [g \in Goroutines |-> Noted(g)]

PollSpec == PollInit /\ [][PollNext]_pollVars /\ Fairness

-----------------------------------------------------------------------------
\* A poll under way asks for the system group exactly if it is its runner's first
\* or the InventoryEveryN - 1 before it did not, whatever restarts the runner and
\* whoever it waits for: the inventory is neither kept away nor sent each time. A
\* runner whose context is cancelled may skip one.
InventoryCadence ==
  \A g \in Goroutines :
    gor[g].live /\ Polling(g) =>
      (Full(g) <=> Every(gor[g].task) <= 1 \/ fast[g] \in {-1, Every(gor[g].task) - 1})

\* Every poll a runner makes ends in success, or in the reason of its failure,
\* as Verdicts says.
VerdictSound == \A g \in Goroutines : Polling(g) => Verdicts[Full(g)]

\* What a successful poll of a runner reports is what the device has: its table is
\* never cleared by mistake, its rows are the same from poll to poll, its counters
\* are those of 64 bits where there are any, and every custom OID asked for by its
\* plain name has a reading or a reason, in a full poll and in every other.
ReadingsSound == \A g \in Goroutines : Polling(g) => Readings[Full(g)]
=============================================================================

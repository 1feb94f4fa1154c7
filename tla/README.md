# Verification of nms-agent

TLA+ models of the NMS agent (`src/main.go`, `src/internal/...`), the TLC runs
that check them and the TLAPS proofs about them. Source references below are
`file:line` of the repository.

## 1. The system

The agent is one Go process that runs on a probe host. It enrolls once with a
token, then talks to its server over mTLS only: it polls for tasks, runs one
goroutine per task, uploads results in batches, renews its certificate, and
replaces its own binary when told to.

```
              GET /tasks                       POST /results, /snmp-results
  server ------------------> Scheduler              Reporter ------------> server
                              |  |  \ go runTask      ^  one goroutine: Run
                              |  |   runner --- Enqueue(SNMP): 2 bounded channels
                     updateCh |  |     \__ Limiter (slots shared by all runners)
                              v  |
  SIGINT/SIGTERM ---------> main (select, WaitGroup, grace timer) --> updater.Apply
                              |                                        exec / exit
                              +-- runCertRenewal --> cert.Renew --> files on disk
                              +-- runIPRefresh                      ^ read at every
                                                    dialMTLS -------+ TLS dial
```

| Component | State it keeps | Operations | What makes it correct | Model |
|---|---|---|---|---|
| Result reporter (`reporter.go`) | two channels, two `pendingBatch` (buffer, delay, retry time), Run's place | `Enqueue`, `EnqueueSNMP`, `add`, `flush`, `Run`, `upload`, `uploadSNMP`, `post` | nothing vanishes unaccounted, order kept, backoff schedule, last attempt at shutdown, no starvation | `Reporter`, `ResultLine` |
| Task scheduler (`scheduler.go`) | map of runners, source addresses, update channel, limiter | `Run`, `reconcile`, `fetchTasks`, `taskChanged`, `runTask`, `execute` | no goroutine out of control, runners = server's tasks, no stale source, undisturbed tasks | `TaskDiff`, `Scheduler` |
| Limiter and job expansion (`probe.go`) | slots | `Acquire`, `Release`, `runJobs`, `famProbesFor`, `runTraceroute`'s loop | slots = probes in execution, complete rounds, no starvation | `TaskDiff`, `Scheduler` |
| Probes (`probe.go:244-313`, `ping.go` ... `mtr.go`) | none of their own | `resolveTargetIP`, `sourceIPFor*`, `pickSourceIP`, `do*` | target and source of one family, labelled family kept, every probe ends | `Probes` |
| Traceroute (`traceroute.go`) | echo id counter, hops | `doTraceroute`, `probeHop`, `matchesEcho` | only answers to the hop's own request count, deadlines hold | `Traceroute` |
| SNMP poll (`snmp.go`, `execute`) | runner's tick counter | `RunSNMPPoll`, `collectInterfaces`, `decodeOIDValue`, `classifySNMPError` | inventory when due, sound verdicts, no table cleared by mistake | `SnmpResult`, `SnmpPoll` |
| Credentials (`cert.go`, `runCertRenewal`) | four files, temp files | `Enroll`, `Renew`, `writeCredFiles`, `HasCerts`, `NewMTLSClient`, `dialMTLS` | the pair on disk matches, no false identity, renewal and reconnection succeed in the end | `CertStore` |
| Updater (`updater/`) | executable, temp file | `Apply`, `download`, `restart` | what is installed was verified and can run; nothing left behind; retried updates succeed | `Updater` |
| Life cycle (`main.go`) | pending update, WaitGroup, grace timer | `main` | drained before exit and before the update, shutdown is bounded | `Agent` |
| Public IP (`main.go:49-149`) | two addresses under a mutex | `runIPRefresh`, `setIPs`, `RoundTrip` | the addresses the server sees are reported in the end, each family by itself | `PublicIP` |
| Configuration, logger, CI | - | - | parsing, formatting | not modelled |

Behaviours that are hard here: the reporter's single goroutine with overflow at
both ends of its line, failed uploads and a drain; reconciliation beside rounds
that are under way; cancelled contexts that a select may overlook; a process
that may end between any two file operations; a shutdown that two kinds of events
start; lookups that answer differently from one moment to the next; and raw
sockets that receive what was meant for others. `PROJECT.json` lists the hazards one by one, each with the
properties that cover it.

## 2. Plan

Done, in this order: 1 `Reporter` with the abstract `ResultLine`; 2 `TaskDiff`
and `Scheduler`; 3 `CertStore`; 4 `Updater`; 5 `Agent`, which composes `main`
with the whole of `Reporter`; 6 `Probes` and, on top of it, `Traceroute`; 7
`SnmpResult`, and `SnmpPoll`, which composes it with `Scheduler`; 8 `PublicIP`,
which composes the discovery with `CertStore`; 9 theorems on all of them: every
safety invariant and action property that a run checks is one.

Left: `Agent` over `Scheduler` in place of its abstraction, with the proof that
`Scheduler` implements that abstraction.

## 3. The models

All models translate control in full and abstract data. Operators carry the
names of the Go functions where they have one; `PROJECT.json` "map" gives the
lines of each. Definitions whose comment begins with *Faulty* are variants with
a plausible mistake; they are not part of any specification and only serve to
show that a property notices the mistake.

**`Reporter`**. `queue[k]` and `buf[k]` are the channel and `pendingBatch.buf`
of the kinds `probe` and `snmp`; `retryDelay`, `retryIn` its delay and the time
to `retryAt`; `pc`, `todo`, `force` say where `Run` is. A result is its number
in the order it was offered. `Recv`, `TickFlush` and `CtxDone` are the cases of
Run's select; a flush is one step that returns at once (`FlushSkip`) or two,
`StartUpload` and `UploadReturns(outcome)`, between which everything else may
happen. The outcomes are 200, another status that is not retried, 429, 5xx, no
answer, and `json.Marshal` refusing the batch. Histories: `made`, `madeBefore`,
`fate`, `tried`, `failures`. A malformed URL, which `post` treats like a
batch that does not marshal, is not modelled: it never changes while the agent
runs. Other 2xx and 3xx answers drop the batch like a 4xx, as the code does.

**`ResultLine`** is what the reporter promises: one line per kind; a result
joins its end or is turned away, the oldest may be evicted, a prefix may be
settled. `Reporter` implements it with `buf[k] \o queue[k]` for the line.

**`TaskDiff`** holds the comparison of tasks, field by field as in
`taskChanged` and `snmpParamsChanged`, and the expansion of targets by family.

**`Scheduler`**. `runners` is the map of `Run`, `gor[g]` a goroutine of
`runTask` with its context (`live`), its phase and the counts of its jobs;
`held` the slots taken. `reconcile` is a sequence of steps (`FetchOk`,
`SwapSource`, `RestartAll`, `RemoveUnwanted`, `StartTask` once per task,
`EndReconcile`), so runners move between them. Tickers may fire whenever their
goroutine listens. `Acquire` may succeed on a cancelled context, because a Go
select with two ready cases takes either. A response may have a task id twice;
then `StartTask` restarts the runner for the second, and `MatchesServer` asks
for the last of them.

**`SnmpPoll`** EXTENDS `Scheduler` with the tick counter `seq` of each runner
that polls, and **`SnmpResult`** is `snmp.go` as a calculation: what
`RunSNMPPoll` concludes from the answer of a device. Cells of the interface
tables are (column, index, value), one string and one number column standing
for the others of their kind; an OID is an id with or without a leading dot; an
error is the set of phrases its text contains. A poll takes place in the
`FinishJob` of `Scheduler`, which does not look at the context.

**`CertStore`**. Credentials are numbers; `disk` is what each of the four files
holds. `writeCredFiles` is `Stage` once per file, then `Rename` once per file;
any of them may fail (`WriteFails`: cleanup, no rollback) and the process may
end at any step (`Crash`, which also stands for an exit that does not wait for
`runCertRenewal`). A dial reads `ca`, `crt` and `key` in separate steps. An open
connection stays usable after the files under it changed; the HTTP client keeps
connections alive.

**`PublicIP`** EXTENDS `CertStore` with the two addresses of
`versionTransport` (`ips`) and those the server sees (`seen`), which may change
at any time (`Move`). A detection builds its clients from the files as they are
at that moment, so it fails in the middle of a renewal. Its context is already
cancelled when it reads a body, and the error of that is not looked at, so it
reads the body, a part of it (`Cuts`), or nothing; a part may be no address, and
it may be another one. A detection is one step: its two queries share nothing
with the store but the files, and each may fail by itself whatever it found
there.

**`Probes`** is the life of one probe after it has its slot: `begin`, `dial` (the
source is chosen, for types that choose first), `bound` (to a source and a
target), `ended`. Every lookup answers anew. Source addresses are known by their
family, which is all the code looks at. `Alone` names jobs that run by
themselves: probes share no state but traceroute's, so their interleaving shows
nothing.

**`Traceroute`** EXTENDS `Probes`: a traceroute that is bound takes a number,
and sends and waits hop by hop. `sent` is everything ever sent; `Arriving` is
whatever may reach a raw socket of the family at any time: answers to all that
was sent, by whomever, late and repeated, and `Foreign` messages. Messages that
are not accepted change nothing but the time, which `PassTime` takes. One
`Cancel` per traceroute stands for the runner's context.

**`Updater`**. A binary is a sequence of blocks and its digest the sequence
itself. `CreateTemp` pre-allocates with holes (or fails to, which the code
ignores), `CopyBlock` writes at the offset and hashes, `Rename` installs.
Downloads may be wrong or short. A process that ends is started from the
executable (`Reborn`), by exec or by the service manager.

**`Agent`** EXTENDS `Reporter` and adds `main`, the probes in execution and what
main sees of the scheduler. Runners outlive the shutdown because nothing waits
for them. Time passes before the shutdown and in its uploads; the local steps of
a cancelled agent take none. At most one signal is modelled: later ones are
ignored on the signal path.

External parts (`"external"` in the map): the service manager, the network and
the operator who supplies tokens.

## 4. The runs

| Run | Bounds | Shows |
|---|---|---|
| `reporter_safety` | cap 2, batch 2, 3 probe and 2 SNMP results, delays 1 and 2, one SNMP result that does not marshal | `NothingLost`, `BackoffSchedule`, `FinalAttempt`, `EvictedOnlyInOutage`, types, and the refinement `LineSpec` |
| `reporter_live` | 2 results per kind | `SnmpNotWedged`, `RunReturns` |
| `scheduler_safety` | 2 ids, 3 goroutines, 2 slots, 6 responses, one with an id twice | `NoLeakedRunner`, `MatchesServer`, `NoStaleSource`, `SlotsMatchProbes`, `RoundComplete`, `UnchangedUndisturbed` |
| `scheduler_live` | 2 goroutines, 1 slot, 2 updates; full polls every 2 ticks; 4 parameter sets, 20 devices, 3 interfaces with a cap of 2 | `CancelledRunnersEnd`, `RoundsEnd`, `SchedulerReturns`; `InventoryCadence`; of what each poll a runner makes concludes `VerdictSound` (`Verdicts`), `ReadingsSound` (`Readings`: `NoFalseClear`, `SameRowsEveryPoll`, `WideCounters`, `ExtrasReported`) |
| `cert` | 4 credentials, 3 faults; 2 IPv4 addresses, one of which may be cut to the other; no IPv6 | `MismatchOnlyInWindow`, `TempsCleaned`, `IdentityComplete`, `ComesUp`, `Renews`, `Reconnects`; `AddressesFollow` |
| `updater` | binaries of 2 and 3 blocks, 6 downloads, 2 faults | `InstalledIsVerified`, `NoTempLeft`, `Upgrades` |
| `agent` | 2 probes, 1 result per kind, cap 1, grace 2 | `DrainedAtExit`, `ShutdownEnds` |
| `probes` | 2 probes at a time, 11 jobs, 2 hops, 2 units of waiting, 3 foreign messages, one redirect | `BoundBySource`, `NeverMisbound`, `NoFalseOutage`, `OwnAnswer`, `QuoteHolds`, `OneSendAfterCancel`, `ProbesEnd` |

`TypeOK` of `CertStore` and `Updater`, `FamilyKept` of `Probes` and `ArrivalOrder` of
`Reporter` are proved (section 6) and not run again; `LineSpec` implies the last.

Why the bounds are enough: in `Reporter` the third probe result finds a full
buffer and a full channel, so overflow, eviction and a drain into a full buffer
all happen, with up to three failures in a row; the SNMP side, whose code is the
same, needs two results to fill a batch. In `Scheduler` three goroutines are a
cancelled runner, its replacement and another task's; the responses change one
field at a time, both sources, and remove tasks. In `CertStore` three faults
allow a cut renewal, a crash after it and one more in the recovery; one
family with addresses and one without tell whether either disturbs the other. In
`Probes` a name with an address of each family and a literal of one are all that a family
selector tells apart; two traceroutes, to a target one hop away and to one two
hops away, meet each other's requests, replies and expirations; waiting two
units is waiting with a message in between; quotations are whole, cut short, and
with a header length that is none. What a poll concludes is checked for every
combination of parameters and devices; tables of three rows exceed the cap by
one. Deadlock
checking is off only where the system may stop: `Run` returned, the process
ended, or a bound was reached; the updater's runs check it.

### Disagreements with documents

Four runs expect a violation, each of a property that restates a document.

- `reporter_poison` / `LeavesByServer`: one result that does not marshal takes
  its batch with it (`reporter.go:178-181`, `187-191`), against the type's doc
  (`reporter.go:33-35`).
- `cert_bootable` / `AlwaysBootable`: a renewal cut between the renames of
  certificate and key leaves an agent that no longer starts, against
  `README.md:280`.
- `updater_tail` / `InstalledIsVerified`: a `file_size` larger than the binary
  leaves zeros nobody hashed at the end of the installed file
  (`updater.go:85-88`), against `README.md:441`.
- `agent_probes` / `ProbesFinish`: probes in flight are not waited for, against
  `config.yaml:59` and `README.md:381`.

Six more were met, which the properties leave room for:

- After `stop()` in the update path a signal kills the process
  (`main.go:316`), though both paths are to shut down alike (`main.go:309-310`).
- `mtr` in automatic mode resolves its target a second time
  (`mtr.go:75-82`), so a source of the other family may be bound, which
  `README.md:416` excludes; `NeverMisbound` shows that it takes lookups that
  differ, and that nothing else does it.
- `pickSourceIP` returns the IPv4 source when it cannot tell the family
  (`probe.go:305-308`); its doc says `""` (`probe.go:294`).
- A traceroute takes an echo request for an answer (`traceroute.go:179-182`);
  `README.md:339` speaks of answers that match exactly. `OwnAnswer` holds of all
  else, and the `probes` run contains the case.
- Under SNMPv1 a missing object fails the poll (`snmp.go:142-145`), which the
  comment at `snmp.go:174-176` rules out; `VerdictSound` states it for the other
  versions.
- Of a body that arrives in pieces `runIPRefresh` may read the first only
  (`main.go:119-125`). If that is an address by itself, `203.0.113.1` of
  `203.0.113.17`, it is reported as the agent's until a later detection, against
  `README.md:396`. The `cert` run contains the case, and `AddressesFollow` shows
  that it does not stay so.

## 5. Fairness

- Reporter: steps of `Run` are weakly fair; the cases of its select strongly,
  because Go chooses at random among ready cases; an upload returns because its
  request carries `RequestTimeout`. `SnmpNotWedged` also assumes that the SNMP
  endpoint, asked again and again, some time accepts, and nothing of the other.
- Scheduler: requests and probes have timeouts, so fetches and jobs end. Waiting
  for a slot is strongly fair (a Go channel serves waiting senders in turn).
- Certificates and updater: the process takes its steps, the service manager
  restarts it, the server and the operator do their part when asked again and
  again; faults are finitely many. Wrong downloads and refused renewals are not
  bounded.
- Public IP: over either family some answer is read whole if queries are made
  again and again with files that match. Nothing keeps others from being cut, or
  the address from changing.
- Probes: every lookup, dial, request and wait carries a timeout, and mtr a
  number of cycles, so a probe under way takes a step; of the network nothing is
  assumed, and messages may arrive without end.
- Agent: nothing is assumed of uploads or probes, not even that they end; the
  grace timer has to do it alone.

## 6. Proofs

TLAPS checks these for every value of the constants that the modules' `ASSUME`s
allow (which TLC evaluates in the runs).

| Theorem | States | Argument |
|---|---|---|
| `ReporterProofs!TypeCorrect` | `Spec => []TypeOK` | Inductive as it stands. `AddResult` bounds a buffer after `add` by `Cap`; `TodoHead` says what an upload is about; each action has a step. |
| `ReporterProofs!LineCorrect` | `Spec => [](ArrivalOrder /\ NothingLost)` | Neither is inductive alone: `LineInv` adds that fates beyond `made` are `unborn` and that the results held are those of an increasing line. `LineStep` treats the actions that touch it: an offer appends above everything, an eviction and a disposal cut at the front, a receive moves one across. |
| `ReporterProofs!NothingIsLost` | `Spec => []NothingLost` | A consequence of `LineInv`. |
| `ReporterLineProofs!Implements` | `Spec => LineSpec`: `Reporter` implements `ResultLine` | `ConcatAppend`, `ConcatTake` and `ConcatDrop` say what an offer, a receive and a disposal do to `buf[k] \o queue[k]`; one lemma per kind of step maps it to `Offer`, `Evict`, `Settle` or a stutter. A failed upload is a stutter only because what a buffer holds is still `held` (`NothingLost`), hence `LineInv`. |
| `ReporterProofs!LastAttempt` | `Spec => []FinalAttempt` | `DrainInv` adds to `LineInv` that force belongs to the end (`Phase`), that the channels then hold only what came after the cancellation (`OnlyLater`), and that a buffer whose forced flush is over was sent (`SentBuffers`). What is held when `Run` returns is in one or the other. |
| `ReporterProofs!EvictionsCorrect` | `Spec => EvictedOnlyInOutage` | `OutageInv`: whoever waits has failed, and a buffer as long as a batch has been flushed since or is about to be; with `BatchSize <= Cap` a full buffer in the select is one whose upload failed. |
| `ReporterProofs!BackoffCorrect` | `Spec => []BackoffSchedule` | `BackoffInv` adds what `post` has just answered (`PostFull`): the batch under way is not empty, so a wait that starts has something to wait for. Doubling the capped delay is the closed form of the next failure by `BackoffNext`, which needs 2^(n+1) = 2 * 2^n: `PowerOfTwo` has it from the number of subsets of a set of n + 1. |
| `SchedulerProofs!TypeCorrect`, `RunnersCorrect`, `SourcesAreFresh` | `Spec => []Types`, `Spec => [](NoLeakedRunner /\ NoStaleSource)` | `SchedInv` adds the types of the map and the goroutines; the restart after a source swap is what makes a round's source current again. |
| `SchedulerProofs!ReconcileExact`, `ReconcileSpares` | `Spec => []MatchesServer`, `Spec => UnchangedUndisturbed` | `MatchInv`: a runner keeps its task under the task's own id; after the removal only wanted ids have one; and of the tasks the start loop has passed, the last of each id is what its runner executes (`Reached`). `TaskDiffExact` makes "not changed" the same task. A runner that loses its context in the loop lost it to another task with its id. |
| `SchedulerProofs!SlotsCorrect`, `RoundsComplete` | `Spec => []SlotsMatchProbes`, `Spec => RoundComplete` | `CountInv`: the probes in execution are a finite set, which `Acquire` and `FinishJob` change by one element (`ExecutingMore`, `ExecutingLess`); and in a live round each job waits, runs or is done (`Counts`), so that a round with none waiting or running has all done. |
| `SchedulerProofs!TaskDiffExact` | two tasks of one id differ iff `taskChanged` | The fields compared are the fields there are; sequences are equal iff they agree in length and at each place. |
| `SnmpPollProofs!PollKeepsScheduler` | `PollSpec => Spec` | Each step of the composition is one of `Scheduler` or leaves its variables alone. |
| `SnmpPollProofs!InventoryCorrect` | `PollSpec => []InventoryCadence` | It speaks of polls under way, and not of `seq` in between, by which the next full one is decided. `PollInv` ties them: before the poll of a round the last full one is `seq - 1` polls back, or N - 1 when the counter has come round, and `seq` after it. That a round has exactly one poll is `CountInv`. |
| `SnmpPollProofs!VerdictCorrect`, `ReadingsCorrect` | `PollSpec => []VerdictSound`, `PollSpec => []ReadingsSound` | A poll is full or not, and both are shown of either kind, case by case of `RunSNMPPoll`'s returns. `SmallestKept`: rows with fewer than m below them are all rows or at least m, by the least row left out (`LeastNatural`, from the library's well-foundedness of the naturals). `OnePerRow`: an interface's index tells its row. `CellInRow`: no cell comes twice, so the row has its value, whatever the order. |
| `UpdaterProofs!KeepsClean` | `Spec => [](TypeOK /\ NoTempLeft)` | `Kept`: `Prefix` relates the temp file to what was hashed (without it a write could leave a gap), and temp files are counted against crashes, one more while `Apply` holds one. |
| `UpdaterProofs!InstallCorrect` | `Spec => []InstalledIsVerified` if no `file_size` exceeds a binary (`HintsFit`) | `Prefix` says the file is the digest followed by at most what is left of the pre-allocation; a verified digest under `HintsFit` leaves nothing of it (`VerifiedContent`). `updater_tail` shows the hypothesis is needed. |
| `UpdaterProofs!TypeCorrect` | `Spec => []TypeOK` | From `Kept`. |
| `CertStoreProofs!TypeCorrect`, `PairCorrect`, `TempsCorrect`, `IdentityCorrect` | `Spec => []` of `TypeOK`, `MismatchOnlyInWindow`, `TempsCleaned`, `IdentityComplete` | One invariant, `CertInv`. `WriteInv` says which files a write has already replaced, by the number of its renames; `TempInv` counts temp files against stages and renames; `IdentInv` that the agent ID, the last file of an enrollment, is never newer than the others; `PairInv` that the pair matches outside a renewal's first rename. `RenameStep` is the core: one rename, case by case of the file it installs. |
| `CertStoreProofs!DiscoveryKeepsStore`, `PairCorrectBesideDiscovery` | `IPSpec => Spec`; `IPSpec => []MismatchOnlyInWindow` | A detection, and a change of address, leave the store alone. |
| `TracerouteProofs!SourcesCorrect`, `NoneMisbound`, `FamiliesCorrect`, `OutagesReal` | `Spec => []` of `BoundBySource`, `NeverMisbound`, `FamilyKept`, `NoFalseOutage` | `Good`, of one probe: how its source came about (`DialSource`, `SawSource`) until it is bound, and then its two ends (`BoundEnds`). Lemmas say what each lookup may answer; each step of a probe makes a good record of a good one. |
| `TracerouteProofs!AnswersCorrect` | `Spec => [](IDsDistinct => OwnAnswer)` | `TraceInv`: a traceroute's number is one the counter gave out, what was sent bears its sender's number as identifier, and a traceroute under way is at the hop after those it recorded. `AcceptedAnswers`: below `IDSpace` the identifier is the number, so a message that is accepted is of this traceroute and this hop, or an echo request. `IDsDistinct` is needed: with the counter gone round, or a ping that drew the same identifier, messages cannot be told apart. |
| `TracerouteProofs!ReadsWithinQuote`, `CancelledTracesStop` | `Spec => []` of `QuoteHolds`, `OneSendAfterCancel` | `SoundInv`: a quotation among the hops passed `matchesEcho`, which compares lengths before it reads (`QuotesHold`); and what a traceroute sends late it was about to send: a cancelled one never comes to its sending stage again, so none has sent anything late that is live or about to send (`Punctual`). |
| `AgentProofs!AgentKeepsReporter`, `AgentLosesNothing`, `ExitsDrained` | `AgentSpec => Spec`; `AgentSpec => [](ArrivalOrder /\ NothingLost)`; `AgentSpec => []DrainedAtExit` | The process's end stops the reporter and changes nothing of it, so every theorem on `Reporter` holds in the agent. `BothReturned`: beyond its wait, unless the grace period ended it, main has seen `Run` and the scheduler return; then `LastAttempt` says what became of the results. |

What the proofs assume beyond the types of the constants, and that the factors,
delays and capacities that are positive in the code are so: `HintsFit` and
`IDsDistinct` as stated above; that `InventoryEveryN` is an integer; and that a
walk of an SNMP table finds no cell twice (it goes through the OIDs in order)
and unsigned 64-bit counters. The induction theorems of the library take
the property as an operator, which the provers at hand cannot instantiate; where
a proof needs a least element or the next power it takes them from facts about
sets, as above.

Only model-checked: liveness (`SnmpNotWedged`, `RunReturns`, `SchedulerReturns`,
`CancelledRunnersEnd`, `RoundsEnd`, `ComesUp`, `Renews`, `Reconnects`,
`AddressesFollow`, `Upgrades`, `ShutdownEnds`, `ProbesEnd`), which rests on
fairness and so on ENABLED, beyond the prover.

## 7. Not modelled

What ping, mtr, HTTP, TLS and gosnmp exchange once they are bound (libraries
and a binary outside the repository: one nondeterministic outcome), the texts of
results, the translation of SNMP versions, ports and v3 protocols to gosnmp's
fields, logging, configuration parsing, the CI workflow. The scheduler's model
keeps a probe as one job between `Acquire` and `FinishJob`; `Probes` is that job
seen from inside, and the two are not joined: a job's outcome influences nothing
in the scheduler. The
file system keeps what was renamed: the code does not sync files, and what a
power loss leaves of them is the file system's affair. Certificate expiry while
the server is away, the CA's own validity and the server's deduplication of
batches sent twice are the server's part.

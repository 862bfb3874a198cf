# Datamime: TLA+ verification project

Datamime builds synthetic datasets whose performance profile matches that of a
production workload. This directory holds TLA+ models of the parts of the
repository that carry its own concurrent or stateful logic, TLC configurations
that check them on small instances, and TLAPS proofs of the results that matter
most. Paths such as `profiler/datamime-profiler.cpp` are relative to the
repository root; `PROJECT.json` maps each definition to the lines it models.

## 1. Inventory

| Part | State it keeps | Operations | Interacts with |
|---|---|---|---|
| TBench client core (`apps/harness/client.cpp`) | status INIT/WARMUP/ROI/FINISHED, requests in flight, samples, start-up barrier, distribution | `startReq`, `finiReq`, `_startRoi`, `dumpStats` | called by the integrated server's workers, or by sender and receiver threads |
| TBench integrated server (`tbench_server_integrated.cpp`) | current request per thread, `finishedReqs` | `recvReq`, `sendResp`, `finish` | is a client too; called by application workers |
| TBench networked client (`tbench_client_networked.cpp`) | a TCP connection, `sendLock`/`recvLock`, `numReqsInFlight` | `send`, `recv` | the networked server, through requests, responses, ROI_BEGIN and FINISH |
| TBench networked server (`tbench_server_networked.cpp`) | `clientFds`, `recvClientHead`, `activeFds`, `finishedReqs` | `recvReq`, `removeClient`, `sendResp`, `finish` | its clients; called by application workers |
| Worker loops (`apps/xapian`, `apps/dnn`, `apps/silo`) | `numReqsProcessed` shared by the workers | loop of `tBenchRecvReq`, work, `tBenchSendResp` | TBench server |
| Profiler: event groups | `event_groups`, `fd_map` | `filter_events`, `add_event`, `create_event_groups` | perf_event |
| Profiler: counter collection | `phases`, `phases_with_current_group`, ring buffers | `sigthyme_handler`, `read_counters` | kernel signals and ring buffers |
| Counter files to CSV (`profiler/to_csv.py`) | columns, running totals of the enabled and running times per group | header, one row | the groups and the rows of counter collection |
| Profiler: miss and IPC curves | slice index, profiled thread, `currentlySampling`, points, estimates | the MRC part of `sigthyme_handler`, `set_cacheways_to_cores`, `share_all_cache_ways` | CAT registers, counters |
| Profiler: memory traffic | `memTrafficTotal`, `memTrafficLast` | `updateMemTraffic` | a wrapping hardware counter |
| Profiler: lifecycle | `tid_map`, `state.done`, `first_finished_thread`, output files | `profile`, `flush`, `fini_handler` | ptrace, signals, the profiled threads |
| Dataset search (`search/`, `apps/workloads.py`, `profiler/harness.py`) | the trial, the processes and files of a trial, rows of `cost.out` | start, wait for the tid file, profile twice, tear down, score | the application, the load generator, the profiler and the user's ^C |

What is hard in this code, and hardly reached by a test:

* *Threads.* The TBench client tests its status without the lock, re-creates a
  barrier that others may still be leaving, and splits the completion of a
  request over two critical sections. The networked client acts on messages
  after it has released the lock under which it received them. The networked
  server erases from a vector under one lock while it iterates over it under
  another.
* *Signals.* All the profiler's sampling runs in a handler of a queued real-time
  signal, which interrupts the main loop anywhere and may run late; each group
  of events is re-armed only by that handler.
* *Hardware and kernel.* Counters wrap, records of other kinds enter the ring
  buffer, the PMU refuses combinations, a handler call may find its counters
  unchanged.
* *Endings.* The run of a benchmark ends by one of two limits that race; the
  profile ends by a chain of SIGSTOPs, or by exits, kills and interrupts that
  come at any point of it; peers leave or crash with messages on their way.
* *Processes and files.* The search trusts a file that an earlier trial or
  invocation may have left, ignores exit statuses, and can be interrupted
  anywhere.

The `hazards` of `PROJECT.json` list these at the line where they bite, with the
properties that would catch them going wrong; a hazard without one says why.

What correctness means for each part:

* TBench: the measurement starts and ends once, every request is answered once,
  and the latency file holds what was asked for (exactly, or within a bound).
* Networked server: every client is served in turn and told the end, whoever
  leaves meanwhile.
* Counter collection: every requested event is measured, in groups that fit and
  in a column of its own, for a fair share of the phases; no sample is lost; the
  profile reaches `num_phases`; rows are scaled by the share of the time their
  group was counted.
* Curves: each published curve is complete, of one round, measured under the
  partition it is labelled with, with nobody else in the profiled ways.
* Traffic: never over-reported; what is missed is known exactly.
* Lifecycle: the profile is on disk, and it is known whom the end of the profiler
  may leave stopped.
* Search: a cost is that of the parameters it is reported for; an interrupt stops
  the search; without a fault it runs to its end and cleans up.

## 2. Modules

| Module | Models | State and actions |
|---|---|---|
| `Measurement` | what a measurement promises (abstract) | `status`, `samples`, `file`: `BeginWarmup`, `BeginRoi` (forgets the samples), `Record` (in the ROI only), `Write` (once, all the samples, and then nothing). |
| `TBenchClient` | `client.cpp` | Shared by the next two. A thread is at a label `pc[t]`; `EnterStartReq` .. `LeaveBarrier2` are the start-up of `startReq` statement by statement, `NewReq` its critical section, `FiniReq` and `StartRoi` those of `finiReq` and `_startRoi`. The barrier is the set of threads waiting and the set released and still inside. |
| `TBenchIntegrated` | integrated server and worker loop; implements `Measurement` | `Loop`, `RecvReq`, `SendRespFini` and `SendRespCount` (the two critical sections of `sendResp`), `Processed`, `ServerFinish`. `exited` is `lats # NoFile`: writing the file ends the process. `sampled` is a history variable: the threads between the two sections whose request was recorded as a sample. |
| `TBenchNetworked` | networked client, server, worker loop; implements `Measurement` | Two FIFO queues of whole messages; senders (`TestInFlight`, `ClientStartReq`, `ClientSend`), receivers (`ClientRecv`, then `ClientAct` after the lock), workers (`RecvReq`, `SendResp`), `ServerFinish` and `ServerReturn`. Faults: the server crashes at any point; a send to a server that has gone may be SIGPIPE; a receiver that meets the end of the connection leaves with `recvLock` held (`kept`). `overtaken` records whether a receiver acted out of order. |
| `NetworkedServer` | the networked server with several clients | `RecvReq` is one go of its loop (select, the round of `recvClientHead`, `RemoveClient`), `RecvReqExits` one that ends in the exit of `checkRecv` (a request cut short by a client that left, `cutShort`, or read in pieces, `misread`), `SendResp` answers and counts, `Cast` is one turn of a broadcast's range-for over the memory of `clientFds` (`slots`), `Finish`, `Return`. Clients send, act on notices, and leave. A send to a client that left is dropped or ends the server. |
| `EventGroups` | `filter_events`, `add_event`, `create_event_groups` | One action per event placed. The PMU is a set of refused events and pairs. |
| `CounterCsv` | `to_csv.py` on the groups of `EventGroups` | Extends it: `Open` makes the columns from the headers of the groups, `Row` adds a row of any group with any times and updates the totals. `times`, `real`, `interval` and `count` are what the rows really contained. |
| `PerfRotation` | `read_counters` in counters mode | Kernel: overflows, and records that are not samples. Handler: one action that reads one record and rotates. |
| `MrcSampling` | the MRC part of `sigthyme_handler`, plan, CAT | A handler call is one action: `StartRound`, `Sample` (`LastSlice` or `NextSlice`) or `Idle`, then `ReadCounters`. A sample is the number of ways its phase ran with, so that labels and measurements can be compared. `conf` is one of `Configs` (threads, cores, ways, intervals). `fault` is an index out of range. |
| `MemTraffic` | `updateMemTraffic` | `Traffic` moves the wrapping counter; `AddDelta` and `ReadLast` are the two statements, each with its own read. `traffic`, `base`, `first`, `gap`, `late` are history. |
| `ProfilerLifecycle` | `profile`, `flush`, `fini_handler`, termination in the handler | `WaitPid`, one `Report...` action per kind of status, `Flush`, `FcloseNull`, `Erase`; `SigthymeHandler` between any two; kernel: `Overflow`, `TakeStop`, `Exit`, `Signal`, `Continue`. `over` says how the profiler ended. |
| `DatasetSearch` | `search_dataset.py`, `workloads.py`, `profile_threads`, the files a cost is read from | The script is one sequence (`Prepare` .. `Teardown`, `Cost`, `Best`). Around it the application writes its tid file, dies, the load generator dies, the profiler ends or fails, or does not end because its thread is idle (`Hang`), a model is not created, SIGINT reaches the script or its group. A trial, its parameters, its application and its thread are named by the trial's number. |

`MC*` modules and `.cfg` files instantiate them, `*Proofs` hold theorems.
Definitions named in `mutants` of `PROJECT.json` (`NextGroupStuck`,
`TerminateAgain`, ...) are mutated forms of the definition that follows them:
each shows that a property fails when the code has a plausible bug. They are used
by no specification.

How the modules compose: `TBenchIntegrated` and `TBenchNetworked` are built on the
operators of `TBenchClient` and both implement `Measurement` with the latency
file as `file`. `CounterCsv` runs on the groups `EventGroups` made.
`DatasetSearch` takes from the others that a profiler ends once its thread is
gone or, if it is busy, its phases are done (`ProfilerLifecycle`) and that a server ends.

## 3. Runs

| Run | Instance | What it shows |
|---|---|---|
| `integrated` | 3 workers, warm-up 2, 3 measured, application limit 4 (54 241 states) | Start-up never meets a null distribution; requests are answered by their owner; the latency file is within N-1 of the count; the application's limit is passed by at most N-1; the run ends; `Measurement` is implemented. |
| `networked` | 2 senders, 2 receivers, 2 workers, warm-up 1, 2 measured, limit 0 in flight, server may crash (815 550 states) | Each request in flight is in exactly one place; the file has exactly `MaxReqs` samples (or all those after the warm-up, if the run has no limit) unless a receiver overtakes another; in-flight requests are bounded although both senders pass the unlocked test together; the client ends unless the server crashed or SIGPIPE came first; `Measurement` is implemented. |
| `netserver` | 3 clients, 2 workers, warm-up 1, 1 measured, application limit 3 (639 967 states) | FINISH reaches every client, ROI_BEGIN is acted on once and no client is passed over longer than a round, with the exceptions below; the server ends. |
| `counter_csv` | every list of up to 5 names from 4 events (one unsupported, one that every group counts anyway), 3 of 5 places taken, two PMUs, up to 4 rows (1.17 M states) | Every supported event is placed once and in order and has its own column; the assertions of `to_csv.py` hold; which rows are scaled right. |
| `rotation` | 3 groups, the real switch length 10, 65 phases, up to 2 records that are not samples (27 926 states) | No handler call meets an empty buffer; while all records are samples: fair shares, nothing lost, never starved, reaches `num_phases`. |
| `mrc` | 1 thread, 12 ways, two rounds, 2 failed reads, signals up to 2 late; and 2 threads, 3 ways, a round that the next one cuts short, up to the first curve (428 k states) | Completeness, one round per curve, one-sided labels (`MeasuredWithAtLeast`, if the rounds are as far apart as `RecordsDrain` asks), the partition in and between rounds, length of a round, and a curve comes (if they are as far apart as `RoundsApart` asks). |
| `mem_traffic` | counter of 4 values, bursts up to 4, several turns (52 668 states) | Never over-reported; loss only between the two reads. |
| `lifecycle` | leader and another thread, 2 phases and one more, both modes, one of each outside signal (682 604 states) | Nobody who was detached is sent SIGSTOP, and nobody is left stopped, but for threads not yet detached when the handler crashes in mrc mode; the leader's rows on disk however it ends, returns complete, does end. |
| `search` | 3 trials and the optimum, 3 faults or interrupts, three kinds of workload (30 769 states) | The profiled thread is of this trial; a cost is of its parameters; the script ends in order unless there was a fault; an interrupt stops; the search ends unless it spins on a dead application or waits for the profile of an idle one. |
| `mrc_lag`, `mrc_index`, `lifecycle_counters` | as above | Violations; see Findings. |

*Why the bounds are enough.* Three workers are the least with two threads between
the sections of `sendResp` while a third ends the warm-up; two receivers are the
least that overtake, and two senders the least that pass the test on the requests
in flight together (the code starts as many of each). Their limit is 0 because the
test is `<=`: one request at a time is meant, and two are in flight. The limits of the two TBench instances let both endings
happen. Three clients are the least for which an erasure in a broadcast skips one
and tells another twice. Five events
make up to three groups; four rows give one group all four, or two groups two
each, and the totals go wrong at the third. Rotation runs two full turns of all three groups with the real
constant. The curve run uses the real plan for 12 ways and long enough intervals
for two rounds with failed reads between them. A counter of four values turns
four times within the bound. In the lifecycle one phase beyond `num_phases` is a
late signal, and one outside signal of each kind reaches each report. In the
search three faults let an interrupt follow a failed trial and a failed model.
No symmetry is used: the leader, the profiled thread and the liveness checks
break it.

*Fairness.* Weak fairness only, of steps the kernel schedules: every runnable
thread runs and gets a mutex that is free (TBench), clients go on sending
(`netserver`: a client's loop has no end of its own), queued signals are
delivered and profiled threads run on (rotation, curves), the main loop, the
handler and the delivery of a pending SIGSTOP (lifecycle), the script, a started
application and a profiler whose thread is busy or gone (search: the phases are
counted in the cycles of the profiled thread). Nothing is assumed of the network beyond
TCP, nor of crashes, exits, outside signals or SIGCONT. `WindsDown` therefore
allows a thread that is left in a group stop, and the lifecycle instance lets the
other thread exit but not the leader: if the leader exits between `state.done`
and its own stop, nobody tells the others and the profiler waits until they exit.

*Deadlock* is checked everywhere but in the lifecycle runs, whose processes end;
finished behaviours of the other modules stutter by an explicit action, and the
search's two endless waits are actions (`Spin`, `Hang`).

## 4. Findings

* `lifecycle_counters`: in counters mode `mrc_outfile` and `ipc_outfile` are NULL
  and `flush` calls `fclose(NULL)`. The profiler crashes at the first thread it
  detaches. The rows are on disk by then (`ProfileSaved`: the preceding
  `fflush(NULL)` writes every stream), and the harness ignores the exit status,
  which hides it.
* `mrc_lag`: the handler computes a sample before it reads the counters, so each
  point belongs to the slice before the one it is labelled with, and the last
  slice is never measured. `MeasuredWithAtLeast` shows the error is one-sided: a
  point was measured with at least the ways of its label. This needs one thread
  and rounds far enough apart for the records of one to be read before the next
  (`RecordsDrain`); a backlog that lasts into the next round puts phases of its
  predecessor's small slices into the first points.
* `mrc_index`: with two profiled threads, the call after the first curve writes
  at index -1.

Reachable in the models, and named as exceptions in the properties:

* a SIGTHYME for a thread already erased from `tid_map` (null dereference; in
  `ProfilerLifecycle` it ends in `crashed`); in mrc mode with several threads the
  leader's may come when the others have been sent SIGSTOP, and whoever was not
  detached by then stays stopped (`LeftStopped`). A profile of one thread, which
  is what the search makes, leaves nobody stopped;
* a profile starved by a record that is not a sample at the end of a turn
  (`others > 0` in `PerfRotation`);
* samples lost or added when receivers overtake (`overtaken`), no latency file
  when the server crashes or SIGPIPE comes first (`conn`);
* a client erased during a broadcast (`raced`): another is skipped and one told
  twice; a client that has not sent its first request when the warm-up of the
  others is over meets the assert of `_startRoi` (`Lost`);
* a request that arrives in two pieces ends the server (`misread`), and so does
  one that a client, leaving on its FINISH, sent in part (`cutShort`); the latter
  leaves clients without FINISH only while FINISH is being sent;
* a name given twice in `-e`, or one that every group counts anyway, has two
  columns, of which the first is never written (`ColumnsOwnEvents`);
* from the third row on, a group that is multiplexed is scaled by an interval
  that mixes totals and differences (`ScaledRight` says which rows are right);
* a model that was not created gives a row the cost of an earlier model
  (`badModel`), an interrupt of the first profile of a trial is forgotten, the
  search spins for ever on the tid file of a dead application (`SpinsForEver`),
  and it waits for ever for the profile of a memcached whose load generator has
  died (`HangsForEver`);
* a profile without counters, or too short, ends the script in the middle of a
  trial, with the application, mutilate and their pid files left behind
  (`noDump`, `traceback`).

## 5. Refinement

`ImplementsMeasurement` of `TBenchIntegrated` and of `TBenchNetworked` is
`M!Spec` with `M == INSTANCE Measurement WITH file <- lats`. Both runs check it;
it is also proved for both, for any number of threads and any limits
(`Refinement` of the two proof modules). It is what the asserts of `_startRoi` and the single `lats.bin`
stand for: whichever thread counts the last warm-up request, whichever of the
two limits ends the run, and however the peers end, the measurement begins once,
from WARMUP, and one file has the samples since then.

## 6. Proofs

Eight modules hold theorems, checked by TLAPS for every value of the constants
allowed by the named assumptions of the modules. Every safety property of a
passing run is the conclusion of a theorem.

* `TBenchIntegratedProofs`. `TypeCorrect`; `SampleAccountingHolds`;
  `LatsWithinThreadsHolds`: the bound on the latency file is not inductive: the
  file is written from `samples`, which drifts from the count while threads are
  between the two critical sections. `SampleAccounting` bounds the drift on one
  side by the threads that have recorded and not counted (`sampled`) and on the
  other by the N-1 threads that recorded before the ROI began. Cardinality facts
  are collected in `ThreadSets`, the arithmetic in `Drift`.
  `StatusInvHolds` carries the start-up: as long as there is no distribution the
  threads gather at the first barrier or come out of it together, and nothing is
  counted. `StartupOrderHolds` and `Refinement` follow from it.
  `FindsRequestHolds` needs that ids in flight are below `startedReqs`, so that
  a new id is fresh. `StartedOverrunHolds` counts threads: requests begun are
  those processed and those in service, and a thread that passes the loop's
  test finds the processed ones below the limit and at most N-1 others admitted.
* `TBenchNetworkedProofs`. `Refinement` rests on two invariants that span both
  processes: `RoiInv` (one ROI_BEGIN, sent with the response that ends the
  warm-up, is on its way, with a receiver or acted on) and `StartupInv` (until
  there is a distribution nothing has reached the server). `InFlightBoundedHolds`:
  each sender past the unlocked test has a place above the limit reserved
  (`BoundInv`). `InFlightOnceHolds`: `CopiesInv` counts, for every number, the
  places where a request of that id is (a queue, a sender, a worker, a receiver),
  none for the ids still to be handed out; the lemmas `WhereAppend`, `WhereTail`
  and `Places` count positions in sequences. `LatsExactInOrderHolds`: the kinds of
  the messages the server sends are a function of their number (`Numbering`), and
  as long as nobody was overtaken (`OrderInv`) the messages not acted on are the
  last ones sent and the client is where the others take it.
* `NetworkedServerProofs`. `ListInv`: `clientFds` has each client that has not
  gone, once, and a broadcast nobody raced goes to all of it. `RoiInv` and
  `FinishInv` say what the clients before and after a broadcast's place in the
  list have been told; `RoiOnceHolds` and `FinishReachesAllHolds` follow for any
  number of clients, with the exceptions of section 4: no client erased under a
  broadcast (`raced = "no"`) for both, and for the second nobody lost, no request
  misread, and none cut short in the broadcast of FINISH. `WaitBoundedHolds`: a
  client passed over is nearer to its turn by as much, but for what each erasure
  may cost it (`WaitInv`, a quadratic bound).
* `PerfRotationProofs`. `RotationTypeCorrect`, `TurnInvHolds`,
  `NeverStarvesHolds`, `NoSampleLostHolds`, `RowsBalancedHolds` and
  `SignalsHaveRecordsHolds`; all but the first assume that the
  buffer holds one turn. `TurnInv` is the strengthening: as long as the kernel
  has written samples only, some group has the turn; armed overflows, queued
  signals and handled phases add up to the switch length; every queued signal
  has its record. `BalanceInv` adds the rows: the groups before the one in turn
  have had one turn more than those after it. `SignalInv` is the part of `TurnInv`
  that survives records of other kinds, from which the handler always finds a
  record to read.
* `MonitoringProofs`, for every cache of 3 to 16 ways, any cores, threads,
  intervals and failed reads. `PartInv`: `CachePartition` does not say which
  class of service a core has, but the next call relies on COS1 being the
  profiled core's. `CurveInv`: the slices left in this round hold its points, so
  `CurveComplete` holds when they are published. `BoundInv` pays for each call of
  a round with a slice left or a read that failed (`RoundBounded`). For
  `MeasuredWithAtLeast`, `StartInv` says when rounds start, `LagInv` that the
  records not read are one for each queued signal and each failed read, and
  `RecordInv` that those left over from a round are read before the next one.
  `TrafficInvariant` relates the memory-traffic counter to the history (since the
  last read it made no turn, one, or more), from which `NeverOvercountsHolds` and
  `LostOnlyBetweenReadsHolds` follow by arithmetic.
* `CounterCsvProofs`, for every list of events, PMU and size of group.
  `EventsPlacedOnceHolds` rests on `PlaceInv`: the groups laid end to end,
  followed by what is still to be placed, are what `filter_events` kept. Its
  steps need what `FlattenSeq` gives when its last sequence grows or a new one
  comes (`FlattenExtend`, `FlattenAppend`), and its end what `FilterEvents` keeps
  (`FilterRanks`: the supported events at their ranks, and nothing else). Both
  are recursive functions. `Joins` and `Keeps` name their recursion equations,
  which have a solution (`JoinExists`, `KeepExists`); facts about it are shown by
  the lemma `Induction`, whose parameter is the *set* of the numbers a fact holds
  for, since the provers cannot instantiate an operator, and which follows from
  the least element of a set of numbers. `ColumnsOwnEventsHolds`: the columns are
  the permanent events and the groups laid end to end (`ColumnsAre`), so a name
  is a column exactly if some group has it (`ColumnNames`), and the last place of
  a name exists (`LastPlaceIs`).
  `ScaledRightHolds`, for any number of rows and any times. The totals of `to_csv.py` are an
  alternating sum of the times of a group's rows. `CsvInv` says that such a sum
  lies between zero and the group's real time, enabled, running and waited for,
  which keeps the assertions true however wrong the share is.
* `DatasetSearchProofs`. `SearchInv` says where the search is in its trials,
  whose tid file, thread and parameters are in use and where an interrupt has
  led it; `ProfilesOwnThread`, `CostIsOfItsParams` and `InterruptStops` follow for
  any number of trials and faults. `EndsInOrder` needs two parts more: where the
  script is when nothing of a trial is there (`CleanInv`), and which files are
  complete at which step as long as there was no fault (`UndisturbedInv`).
* `ProfilerLifecycleProofs`. `LifecycleInv`: a traced thread is in `tid_map`, a
  detached one is not (or is about to be erased), and the only stops are the
  profiler's own, the leader's first and the others' after it was erased, one
  each, so that no detached thread is sent one. `RowsInv` adds that a closed file
  has all its rows and that, if nothing disturbs the profile, the leader is
  detached and its file closed before anybody else leaves, and in counters mode
  nobody is erased; `ProfileSavedHolds`, `ReturnsCompleteHolds` and
  `LeftStoppedOnlyByCrashHolds` follow for any set of threads and any signals.

What the proofs showed about the properties. A property that holds on an
instance may not hold for every value of the constants; attempts to prove these,
and runs of other instances, showed that they were stated too strongly, and they
were corrected: `MeasuredWithAtLeast` would fail with two threads, or when records of one
round are still unread in the next (hence `RecordsDrain`); `RoundsApart` and the
excuse in `CurveEventually` were off by one; `RoundBounded` was wrong
for a round that the end of the profile cuts; `LatsExactInOrder` did not allow for
`MaxReqs = 0`, which is a run without limit; `ColumnsOwnEvents` did not allow for
a permanent event in `-e`, which has two columns then (the instance now has one).

Only model-checked: everything temporal with fairness (`Finishes`,
`ClientFinishes`, `ServerEnds`, `Completes`, `CurveEventually`, `WindsDown`,
`SearchEnds`), which is out of the prover's reach.

## 7. Abstractions and what is not modelled

* Times, payloads, file formats and log messages are left out; samples are
  counted, not timed. A handler call is one action except where its statements
  race with something modelled (`MemTraffic`): the thread that runs the handler
  has the signal blocked, and the array-scanning thread blocks all signals
  (`datamime-profiler.cpp:212`), so handler calls do not overlap.
* In `ProfilerLifecycle` stdio buffers reach the disk only when the code flushes
  them, the worst case; `fclose(NULL)` and a write through a closed file are
  taken as a crash.
* In `PerfRotation` a record of another kind is an event of the kernel at any
  time, bounded by `MaxOthers`.
* In `MrcSampling` intervals are positive and interpolation is reduced to the
  points it uses. A thread's first handler call finds `values` empty: if it comes
  inside a round, which takes two profiled threads, it reads `values[1]` out of
  bounds (`datamime-profiler.cpp:763`, resized at 663). The model takes that call
  as one that read nothing; no property depends on it.
* In `ProfilerLifecycle` a SIGSTOP that is pending or reported when the tracer
  dies is taken to stop its thread for good (`LeftStopped`).
* In `NetworkedServer` requests have no identity (`TBenchNetworked` follows
  them), and `erase` moves the elements at once; for three clients this shows a
  concurrent loop all it could see.
* In `DatasetSearch` the optimizer is external: any earlier trial may be the best.
  There is one invocation of the script; of earlier ones it may find the tid file
  and the model, but not an application that is still starting and writes its tid
  file while this invocation waits for its own.

Not modelled:

* Third-party code, which is most of the repository: Silo's engine with
  Masstree and LZ4, memcached, mutilate, Armadillo, rapidjson, stb_image,
  easylogging++. Nearly all of the 147 000 lines are theirs, so the share of all
  lines that the map covers stays small although the repository's own stateful
  code is modelled: TailBench's harness, the profiler and its scripts, and the
  search. The Silo driver (`bench.cc`) has a third worker loop on the TBench
  server whose retries and timer are inside that engine.
* Bytes: where `recvfull`, which asks for the whole length again after a short
  read (`helpers.h:88`), puts what it reads beyond a message (on the server's
  side the exit this leads to is modelled, on the client's messages are whole),
  and the layout of Xapian's response buffer (`server.cpp:74`), are undefined
  behaviour on which no property of the harness depends.
* The torn read of a vector in `dumpStats` while another receiver is in
  `finiReq` (`tbench_client_networked.cpp:64`).
* The reentrancy of library calls in the handler.
* `harness.py` as a script of its own (`-o`, `-i`); the targets and the bounding
  box of `workload_base.py`, which `main` never sets; the arithmetic of the cost.
* The cache partitioning algorithms of `cache_utils.cpp`: floating-point, and
  called by no path of the profiler.
* Argument parsing, logging, NUMA and pinning, MSR access, request payloads, the
  JNI bridge: input and output without a protocol.

## 8. Plan

Done in this order: TBench client and integrated server; rotation; event groups;
curves; memory traffic; networked TBench; lifecycle; the abstract measurement and
both refinements; faults of the networked client and server; several clients;
counter files; the search; proofs of the integrated server, rotation, traffic,
scaling, search and lifecycle; proofs of the networked client, the networked
server with any number of clients, the curves, and the rest of the rotation;
proofs of the placement of events and of the columns.

The plan is complete: what is left is the liveness properties, which stay with
TLC, and what section 7 names as not modelled.

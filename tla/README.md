# LtAP LTE test bench: TLA+ specifications

The test bench measures LTE uplinks of routers.  A controller (`src/ltap_testbench`)
starts runs and overnight batches of runs, asks a test node for a reservation, sends TCP,
UDP and video traffic to it, and stores a verdict on every run.  The test node is either
`testnode/` or the older `deploy/stockbot-fileserver.py`.  All state lives in one SQLite
database, in a few module-level dictionaries of the controller, and in the memory and
files of the test node.  Paths below are relative to the repository root; `BR` stands for
`src/ltap_testbench/jobs/batch_runner.py`, `APP` for `src/ltap_testbench/api/app.py`,
`ENG` for `src/ltap_testbench/jobs/engine.py`.

## 1. Inventory

| Part | State | Operations | Hard because | What makes it correct |
|---|---|---|---|---|
| Batches (`BR`, `APP` 193-219, 961-1112, 1982-2154) | rows `test_batches`, `batch_attempts`; `BATCH_CANCEL_EVENTS`; a cached row per session | create, start, resume, pause, cancel, delete; the worker's loop; the scheduler's tick; start-up recovery | handlers run in a thread pool, a worker per batch and a scheduler thread; every session caches, every commit overwrites | one loop per batch, one measuring thread, counters equal verdicts, no attempt beyond the target, stop requests taken up, nothing active without a worker |
| Run state machine (`jobs/state_machine.py`) | the state of a run | `require_transition`, `restart_target_for` | two tables that other modules rely on without looking | terminal states are terminal, every live state can be left, restarts go to legal states |
| Run engine (`ENG`) | rows `test_runs`, `run_events`; the reservation; two events | `create_run`, `execute_run`, `request_cancel`, the renewal monitor, `recover_incomplete_runs` | cancel requests, lost reservations and stages interleave; the session caches the run's state | a run ends, releases what it reserved, is not completed after it was cancelled or lost its node |
| Reservations (`testnode/.../app.py`, `deploy/stockbot-fileserver.py` 84-136, 825-914, `testnode/client.py`) | the table of reservations with expiry times | create, renew, delete, prune, authorise traffic | lost answers, expiry against renewal, two requests in a threaded server | one holder at a time, traffic only from the holder |
| Traffic senders (`traffic/udp_upload.py`, `traffic/video_udp.py`) | numbers sent | send datagrams, frames in fragments | a cancel at any point, between two fragments too | what was sent is what the receiver may have seen |
| Traffic stages (`ENG` 960-1375) | rows of results | send on every path, fetch, join | the fetch deletes, answers are lost, late datagrams | a loss is reported, nothing is counted twice |
| Preconditions (`jobs/preconditions.py`) | consecutive good samples | `wait_for_stable_paths` | a window over samples and two clocks | OK only after an unbroken stable window |
| UDP and video receivers (`deploy/stockbot-fileserver.py` 139-567) | counters per run id, frames | record a datagram, summarise | loss, duplication, reordering, caps | received + missing is what was sent; out-of-order is not loss |
| Lab control (`APP` 840-958, 2480-2548, 2855) | lab runs, `LAB_ACTIVE_RUN_ID`, `LAB_CANCEL_EVENTS`, orphaned reservations, heartbeats | start, background run, cancel, recover | overlapping requests, a lock that does not cover the rows, restarts between the steps of a reservation | a lab run that nobody cancelled has the lab for itself; its end is not overwritten |
| Campaigns (`APP` 458-713, 1769-2063, `benchmarks/defaults.py`) | sites, experiments, variants, batches | preview, create | arithmetic on durations and counts; references among rows that are made one after the other | a batch can be ended, has what its protocol asks for, and its reservation covers its runs |
| Judgement (`analytics.py` 540-600, `ENG` 465-618) | none of its own | `_required_live_results_confirmed`, `evaluate_run_integrity` | two functions with two ideas of a comparable protocol | what is compared was confirmed by the receiver |
| Comparison (`analytics.py` 158-537) | none of its own | `compare_cohorts` | several checks in a row, of which a later one may undo an earlier one | a difference that may have another cause is not ascribed to a variant |
| Telemetry sampler (`telemetry/sampler.py`) | a thread, two due times | start, sample, stop | one handler for two readings, a join that gives up | nothing is late without a reason, nothing is sampled after the end |
| TCP upload (`traffic/tcp_upload.py`, `ENG` 754-957, `deploy/stockbot-fileserver.py` 570-597, 916-950) | a connection, a record per upload | send, read, record, answer, fetch | half-closed and broken connections, lost answers, cancels | confirmed exactly if the node read it |
| Router adapters (`routers/mikrotik.py`) | a connection, questions and answers under way | preflight, verify, telemetry, latency | answers that name no question, refusals, time-outs | a path is judged by what was answered about it |
| Latency, iperf and IRTT senders | sockets, subprocesses | send | I/O | outside these models: a stage that succeeds, fails or raises |
| Reports, artifacts, profiles, importers, migrations, CLI, web pages | files, tables | format, load | - | not modelled |

Parts interact as follows.  A request handler or the scheduler claims a batch with one
conditional UPDATE and starts a worker thread; the worker calls the preconditions, creates
a run and calls `execute_run`, which calls the router and the test node and commits the
run's state as it goes; handlers talk to workers through the rows and through the cancel
Event they look up in `BATCH_CANCEL_EVENTS`; the renewal monitor talks to `execute_run`
through two events.  A restart kills every thread and keeps the rows.

## 2. Modules

| Module | Role | State | Actions |
|---|---|---|---|
| `BatchRunner` | the batch worker, the handlers, the scheduler and the start-up recovery | the rows, the worker threads, the Events and their registry, half-done requests, the times that have come | one action per stretch of code between two database accesses |
| `AttemptLedger` | abstract: numbered attempts, at most one verdict each, scores that follow | `ledger`, `score` | `Begin`, `Judge` |
| `MCBatchRunner` | symmetry for checking | | |
| `BatchRunnerProofs` | type invariant, all safety properties and the refinement of `AttemptLedger`, for all constants | | |
| `RunStates` | the run states and the table of transitions | | |
| `RunLifecycle` | abstract: what a run's row may do | `state` | `Advance`, `MarkedAfterRestart` |
| `RunEngine` | one run: `execute_run`, renewal thread, cancel requests, recovery of lab runs, restarts | the run's row, the thread, its Event, the node's side | one action per kind of step, for the sequence of steps `Script` |
| `MCRunEngine` | symmetry for checking | | |
| `RunEngineProofs` | type invariant, all safety properties and the refinement of `RunLifecycle`, for all constants | | |
| `TestNode` | the reservations of a test node and the runs that live by them, in discrete time | the table, the node's threads, runs, renewal threads, traffic; how long it has been uncovered | one action per request, answer, loss, timeout, recovery, and `Tick` |
| `MCTestNode` | symmetry for checking | | |
| `TestNodeProofs` | type invariant and `TrafficCovered` for all constants | | |
| `StageParameters` | constants of the modules below and what is assumed of them | | |
| `UdpStage` | the UDP upload of one path: sender, network, the node's threads and counters, the engine's row | what was sent, datagrams under way, threads, `RUNS`, the row | send, stop, accept, record, lose, fetch |
| `VideoProbe` | the video probe: senders, network, the node's table of frames, the engine's joined rows | what was sent, fragments under way, `VIDEO_FRAMES`, the result | send a fragment, stop, take in, fetch |
| `VideoProbeProofs` | sums over finite sets; type invariant and all safety properties, for all constants | | |
| `Preconditions` | the wait for stable paths before a run | the clock, the call, its samples | check, sample, fail, sleep, cancel |
| `PreconditionsProofs` | type invariant, `OkIsEarned` and `NotSkippedInVain` for all constants | | |
| `Evidence` | which rows a run must have confirmed, and whether it is compared | the protocol, rows by stage, the verdict | `Measure`, `MeasureVideo`, `Judge` |
| `TcpUpload` | the TCP upload of one path: sender, connection, the node's thread and record, the engine's row | what was sent, what is under way, the thread, the record, the row | connect, send, stop, accept, read, record, answer, break, fetch |
| `RouterApi` | one call of the MikroTik adapter, its connection and the router | questions and answers under way, the call, whose answers a path's row was read from | ask, read, time out, answer |
| `MetricSampler` | the sampler's thread beside the run's, in discrete time | the clock, both threads, which readings failed | round, succeed, fail, wake, start, stop, join |
| `Cohorts` | the comparison of two cohorts of runs | how many runs there are of a kind, the conclusion | collect a run, compare |
| `Campaigns` | protocols with their durations; sites, experiments, variants and the batch made of them | the rows | one action per handler |
| `LabControl` | the lab runs of one controller: requests, the lock, the threads | rows, Events, threads, `LAB_ACTIVE_RUN_ID`, half-done requests | one action per stretch of code between two locks or database accesses |
| `LabControlProofs` | type invariant and `LabIsUndisturbed` for all constants | | |
| `Measurement` | composes these: what precedes a run, what it measures and concludes, what is made of it | theirs, and the part that is followed | theirs |
| `PartProofs` | `TcpUpload`, `Evidence`, `RouterApi`, `Campaigns` and `MetricSampler` as parts of `Measurement`, for all constants | | |
| `MeasurementProofs` | the UDP upload, the comparison, all types; what is proved of the other parts holds of `Measurement` | | |
| `MCMeasurement` | symmetry for checking | | |

`BatchRunner` implements `AttemptLedger` (`KeepsLedger`), `RunEngine` implements
`RunLifecycle` where nobody's cancel request writes the row (`KeepsLifecycle`).
`RunEngine` and `BatchRunner` meet at `execute_run`: in `BatchRunner` a run is one step
with any outcome that `RunEngine` shows possible, in `RunEngine` a batch is an Event that
may be set.  `RunEngine` and `TestNode` meet at the reservation: `RunEngine` lets a
reservation expire only when nobody renews it, for which `TrafficCovered` of `TestNode` is the
reason; that a restart of the node or a recovery takes it away is there a loss like another.

### `BatchRunner`

A SQLAlchemy session caches a row until `refresh`, and a commit writes back the columns
that were changed without a look at what the row holds by then.  So every handler and
every decision of the worker is a read and, later, a write; `seen` is what the session
has cached.  `StartRead`, `Claim` and `Register` are `_start_batch_worker`; `PauseRead`
and `PauseWrite`, `CancelRead` to `CancelWrite`, `DeleteRead` and its write are the
handlers; `SchedulerTick` is the loop of the scheduler.  The worker's `pc` names the
places of `run_batch` and of the thread function around it; `raised` and `fail` are its
`except` clause.  `Recover` is `recover_interrupted_batches`, one batch at a time.
A run is linked (`LIVE`) before it is executed, and ends as one of the terminal states.

Abstractions: a run's result is any verdict; precondition checks succeed, fail or raise;
waiting times are zero or above zero; times of day are the sets `due` and `overdue`; an
attempt's texts are left out; a batch whose protocol has been deleted (`BR:417`, which
fails the batch before its first attempt) is not considered.

### `RunEngine`

`execute_run` is, for a given plan, a fixed sequence of steps.  `Script` is that
sequence; what can go wrong in a step is in the action for its kind (`TransitionStep`,
`WorkStep`, `StageStep`, `CancelCheckStep`, `LostCheckStep`, `ReserveStep`, `JudgeStep`),
and the `except` and `finally` clauses are actions of their own (`CleanUp`, `MarkLost`,
`Fail`, `StopRenewal`, `Release`, `Finish`).  `cached` is the state of the run in the
worker's session: `transition` checks and overwrites by it.

Abstractions: the latency, TCP, UDP and video stages proceed or raise; a wait between
stages checks again and again, of which the last pair of checks is kept; a verdict is any
that `evaluate_run_integrity` can give with or without live evidence from the router.
`recover_incomplete_runs` and `restart_target_for` have no caller but tests and are left
out.

### `TestNode`

`testnode/src/ltap_testnode/app.py` and `deploy/stockbot-fileserver.py` keep the same
table and serve the same requests in threads.  `CreateCheck` and `CreateInsert` are two
steps because between them other requests are served.  A reservation's token is its id:
both are random, given to the creator only, and looked up in the same entry.  Time is a
number of ticks: `Tick` adds one to every age and every timer, and waits for whoever must
act first (`NobodyIsDue`): a renewal is sent when its interval is over, a call is answered
or fails within `Latency` (the client's timeout, 15 seconds), and a traffic stage looks at
its cancel token within `StopDelay`.

`RecoverOrphan` is `_recover_orphaned_lab_reservations` (`APP` 840-870) of any controller, at
any time: it deletes the reservations whose owner is `ltap-testbench`, a literal that every
controller and the command line share, unless the controller's own database has the run,
not ended and no lab run.  So it takes more than orphans.  `Unprotected` are the runs whose
reservations it deletes while they use them: those of another controller, and lab runs that
are not the controller's active one, started by the command line or before the id was
cleared.  `uncovered` is a history variable: for how many ticks the traffic of a run has
gone on without a reservation.  `TrafficCovered` says that the runs which no recovery takes
for orphaned always have theirs in force, and that an unprotected one that has lost its entry goes on for
at most `Overrun`: what a renewal made just before may take, the interval, the renewal that fails,
and the stage's reaction.

Abstractions: an id is fresh when nobody has it any more; a request the node handles
after the caller has given up is modelled for the creation, where it leaves an orphan; a
run that ended may come back under its name, which stands for the next run; the traffic
of a run is one flow, authorised when it begins (the UDP receivers look at every datagram
and would stop it earlier); a controller that asks for another TTL when it renews does
not exist, so the TTL is one number.

### `UdpStage`

A stage uses run ids of its own for each path, so one path stands for all.  `Accept` takes
a datagram from the network into one of the threads of `ThreadingUDPServer`, with the time
stamp that `record_udp_datagram` takes before its lock; `Recorded` is the critical section.
A record is kept per source address in order of appearance; the engine reads the first one
(`Row`, `ENG` 993-1066).  `NodeRestarts` empties `RUNS`; `ReservationEnds` makes the node
refuse what comes later; the fetch may fail.  Sizes and rates are left out: all datagrams
of a stage have one size, and bytes are counted where datagrams are.

### `VideoProbe`

`SendFragment`, `StopBetweenFrames` and `StopWithinFrame` are the loops of
`run_video_udp_probe` with the cancels it can notice.  `TakeIn` is
`record_video_frame_datagram` under its lock: refuse a frame that is finalized, add the
fragment, finalize when whole, prune the oldest active frames beyond
`MAX_ACTIVE_VIDEO_FRAMES_PER_PATH`.  `Fetch` is the final summary, which finalizes
everything and deletes the entry, together with the join in `ENG` 1256-1375.  Of the paths that
the node has seen it compares the first two (`FirstTwo`), and so does the join; names have no order here,
so they are any two.  Times of
arrival, and which path was first, are left out.

### `Preconditions`

`Check` is the top of the loop of `wait_for_stable_paths`: the cancel, then the deadline.
`Sample` takes between 0 and `SampleLatency` ticks, but the code dates it with `now`, read
before the call, and measures the window from one such date to another; so a window of the
required length may end a sample after the deadline.  Two samples are at most a poll
interval and a sample apart, which is `Gap`.  A telemetry call that raises ends the wait
(`BatchRunner` has the same as a precondition check that raises).  What a path must be to
count as registered is an input.

### `Evidence` and `Measurement`

A row of latency, TCP or UDP matters by the paths that the receiver confirmed; of the video
probe it matters who sent, whose frames were seen and whether the summary could be
fetched.  The protocols are the frozen ones as `benchmark_plan_definition` plans them, the
two of the lab, and a user's plan that declares itself comparable.  A stage keeps nothing of
another, and the judgement looks at finished rows, so `Measurement` follows one of its
ten parts in a behaviour and shows of all runs what it shows of each part.  The parts
are kept apart on purpose: a product of their states would have no new behaviour.

### `TcpUpload`

`StopSending` and `TakeAnswer` are the end of `run_timed_tcp_upload`, which announces a
length it never reaches, closes its half at its deadline or when it is cancelled, and reads
what answer there is; `KillCurl` is the cancel and the time-out of the other kind of upload.
The node (`Accept` to `Answer`, `do_PUT`) records before it answers; a broken connection
raises in its thread and leaves no record.  `Row` is the choice of `validity` in
`_execute_http_upload_stage`.  Payloads are counted in chunks, and times and rates are left out.

### `RouterApi`

`Ask` and `Read` are `RouterOsApi.command` for the commands of each adapter call in their
order (`Opening` for those about no path, `FirstWay` and `NextWay` for the ways of asking
about one).  A command has no number: `link` holds what was asked and what was said, and
an answer goes to whoever reads it.  `Heard` passes a sentence through `EncodeLen` and
`DecodeLen`, which are the two functions of the client, at the lengths where their forms
change.  `Answer` is the router, which is free in what it answers and in whether a refusal
is followed by `!done` (`device.trails`).  `origin` is a history variable.

### `MetricSampler`

Time is counted in polls of the thread's wait.  `Round`, `Succeeds` and `Fails` are the
loop of `_run`, `Wake` is its wait, `Join` the bounded join of `stop`.  `WaitFor` cuts the
wait as the code does, to at most one poll.  A reading takes up to `ReadingTime`, which is
longer or shorter than `JoinTime` as the run's constants say.

### `Cohorts`

Of a run it matters whether it counts, what it was made of (one value for the fields of
`COMPATIBILITY_FIELDS`), what it measured and at which hour.  A cohort says how many runs
it has of such a row (`Times`); `HowMany` counts them, so that equal runs weigh as many as they are.  `Resampled` is the interval of the bootstrap: the code draws with a fixed seed, here
any draw is possible, so the interval is any that some draws have.  Hours are whole and on a line,
as in the code.

### `Campaigns`

`Definition` has the phases of the frozen protocols, `ProtocolDuration` what a campaign
says a run takes, `EngineSeconds` what the engine does with the same phases over one path or
two, as many as the router has modems, and `ReservationTtl` what it asks the node for.  Of the
stages only the idle baseline goes over the paths one after the other
(`routers/mikrotik.py:381`).  Experiments are made of every stored protocol.  `CreateTestCampaign` is the preview and the
creation, `CreateTestBatch` the other way to make a batch; their references are to rows
that `CreateSite`, `CreateExperiment` and `CreateVariant` have made, or to none.  Values of
a target are in tenths.  The batches of `BatchRunner` begin where these end.

### `LabControl`

`StartCheck` to `Create` is `lab_start` under `LAB_LOCK`, which a cancel takes only to look
up an Event and a thread only to forget its run; rows are read and written without it.
`CancelRead`, `CancelEvent` and `CancelWrite` are `cancel_run` and the command line, which
knows of no Event.  A thread's `execute_run` is cut down to what it does to its row.  A
request refused for its data takes the lock again and may clear the id of another's run
(`ClearRefused`): what follows is not followed in the model (`cleared`), see section 4.

## 3. Runs

| Run | Instance | What it shows |
|---|---|---|
| `one_batch` | 1 batch, 2 attempts, target 1, 1 client, 2 workers, crashes, a deadline, changing code | counters are verdicts, the target is a limit, completed runs are judged, a batch that a restart pauses has no live run, `AttemptLedger` is implemented, a stop request that reaches a running loop is taken up |
| `two_batches` | 2 batches of 1 attempt, 1 client, crashes | with one request at a time: one measuring thread, which the cancel handler finds |
| `overlapping_requests` | 1 batch, 2 clients, 2 workers | two threads never run one batch's loop |
| `night` | 2 scheduled batches, 2 attempts, one deadline, no client | each due batch is started and comes to rest |
| `lab_run` | 1 lab run, 1 client, crashes, faults of the node | a cancel Event or a lost renewal with a check ahead is not missed; reservations are handed back; the node comes free |
| `undisturbed_runs` | a run of any kind, 2 TCP rounds with UDP after each, no client | the row implements `RunLifecycle`; the run ends |
| `test_node` | 2 runs, one of them unprotected, 2 ids, TTL 6, interval 2, latency 1, stop delay 2, every fault, recoveries | traffic is covered by a reservation in force, or by none for at most 6 ticks after a recovery has deleted it; losses are noticed; orphans lapse |
| `measurement` | UDP: 3 datagrams from 2 addresses, 2 threads, 1 tick; video: 2 paths, 2 frames of 2 fragments, 1 frame per second, 1 active frame; 1 repetition; wait: 3 of 9 ticks, polls 2 and samples 0 or 1 ticks long; judgement: 2 paths, 2 TCP rounds, 1 UDP stage; TCP: up to 3 chunks, a payload of 2; router: 2 paths; sampler: 14 polls, readings of up to 2, intervals 2 and 5, a join of 3; cohorts: up to 3 runs, of which 1 is enough, 3 values, 3 hours; campaigns: 1 site, 2 experiments, 1 variant, 2 target values; lab: 2 lab runs, 2 requests; every fault | the node's counts agree and count everything once; the rows hide no loss; the loss on both paths and the longest outage are exact; what is compared was confirmed as far as its protocol demands; a run starts after an unbroken window, and is skipped only where none was possible; a TCP upload is confirmed exactly if it was read; a path's row was answered about that path; samples are late only for a reason and end with the run; a conclusion has no other cause; a batch fits its plan; a lab run that nobody cancelled is undisturbed |
| `early_stop_request` | as `one_batch`, 1 attempt, no crash | *violated*: a request between the claim and the worker's first read is never taken up |
| `cancel_undone` | 1 run, 1 client | *violated*: a terminal state of the run is overwritten |
| `two_reservations` | 2 runs, no faults | *violated*: two overlapping requests are both granted |
| `unconfirmed_uploads` | as `measurement`, the judgement only | *violated*: a run of `comparable-v1` with unconfirmed uploads is compared |

**Bounds.**  Two attempts with a target of one let a batch fail and retry, reach the target, and
be resumed with the target or the attempts used up; a third attempt repeats the second.  Two
workers are an old thread that has not ended and a new one.  Two clients or a client and the
scheduler are enough for every race of two requests, and every condition in the code is about
one other request.  One TCP round has every kind of step; two rounds with UDP after each have
every order of steps the plan can ask for.  In `test_node` the times satisfy the timing
assumption with equality: one tick more and `TrafficCovered` fails.  It also fails with `<` for
`<= Overrun`, and one run is protected and one is not, so that both halves of it are met.  In `measurement` three
datagrams can arrive in every order, with one repeated or lost between two others, before and
after the change of an address; two frames with room for one active make every prune, and a
bucket of one frame lets an outage cross a boundary; one repetition comes before or after its
frame is finalized.  The wait has time for three windows, so that one can be broken, begun late,
or end at the deadline.  A timed upload may send more than the payload, and a payload may break
off in the middle.  The word lengths are those on both sides of the first two changes of form.
The sampler's time has the longer interval twice, with a stop and a join after it.  Three runs
put two in one cohort, so that its median is not a run's.  Two lab runs are a run and the next
one, two requests the start of the one and a start or cancel of the other.  Two runs and two ids
are one holder and one rival; a reservation nobody knows takes one id, and nobody is admitted
beside it until it has lapsed, but for the race in `CreateCheck`, which needs two.  All bounds
are the constants of the `.cfg` files.  Caps that are not the code's are those on ages (`TTL +
1`, all that expiry can tell apart), on the timer of a failure (`StopDelay`, likewise), on the
clocks of the sampler and the wait, and on how many chunks, runs, rows and lab runs are made.

`CHECK_DEADLOCK FALSE` is said where the system may stop: all batches settled, the run
over.  For `test_node` it is not needed to find progress, since `LossIsLearnt` and
`OrphansLapse` are checked.

**Fairness.**  Request handlers, worker threads, the engine and the recovery are threads
of a running process and go on (weak fairness).  Runs and precondition checks have
timeouts.  A worker's delay ends although it polls (`SF` on `WakeUp`: the time of day
does not go back).  A controller that was killed is started again
(`deploy/ltap-testbench-web.service.in:9`, `Restart=on-failure`), and not every recovery
is killed in turn (`SF` on `RecoverWrite`).  In `TestNode` time goes on, threads are
scheduled, calls fail at their timeouts and stages end.  No operator, no crash, no
beginning of a run is fair.

## 4. What disagrees with the documentation

The *violated* runs are disagreements between the code and its documentation or tests;
PROJECT.json quotes the lines.  Others were met while modelling and have no run:

- a restart between the creation of an attempt and the commit that links its run leaves
  the attempt active in a paused batch (`BR:589`), where `docs/overnight-batches.md:62`
  says that active attempts are reconciled;
- a restart while a cancel is pending cancels the batch and leaves its linked run in a live
  state (`BR:580`), where `docs/overnight-batches.md:62` says that it is marked interrupted;
  `PausedRunsInterrupted` is about the batches that a restart pauses;
- a renewal that fails after the last check leaves the run eligible (`ENG:1619`), and its
  summary says that the reservation was valid during the entire run (`ENG:1648`), where
  `docs/overnight-batches.md:57` says that the run is marked comparison-ineligible;
- when one path of the video probe delivers nothing, the node reports no union of the paths
  at all (`deploy/stockbot-fileserver.py:508`); such a run is not confirmed either, since
  frames of every path are required.  For the same reason a router with a single path never
  has a confirmed video probe (`ENG:497`);
- `missing_datagrams` of the node counts from the first sequence that *arrived*: an earlier
  one that comes late makes up for one that is missing (`deploy/stockbot-fileserver.py:208`).
  The row's packet loss is computed from what was sent and is right (`LossIsNotHidden`);
- the duration of a record, and with it the delivered rate, is taken from the stamp of the
  last *recorded* datagram, which may be older than the stamp before it
  (`deploy/stockbot-fileserver.py:149`);
- an attempt made INVALID by a drift of the measurement code is not counted in
  `invalid_run_count` (`BR:517`; `AccountsBalance` says `<=` for that counter);
- the recovery of an orphaned reservation that fails writes RECOVERY_REQUIRED over a lab
  run that had ended (`APP:873`);
- a cancel request of another process, which only writes the row, is lost when the
  engine's next transition overwrites it before a check has read it (`ENG:1451`);
  `CancelStops` is therefore about the Event;
- a `lab_start` that is refused for its data clears `LAB_ACTIVE_RUN_ID` although another
  start may have set it in between (`APP:2537`): the next one then marks that run
  interrupted and runs beside it; `LabIsUndisturbed` is about what happens without it;
- the next lab run measures beside the thread of one that was cancelled and has yet to
  see it: the handler answers with a terminal state at once when the row says CREATED, and
  the command line sets no Event (`APP:2513`);
- after a refused ping the adapter goes on over the same connection.  Where the router ends a refusal
  with `!done`, every later answer is read one command late (`routers/mikrotik.py:118`);
  `AnswersBelong` is about the others;
- one handler for both readings lets a latency reading that fails suppress the radio
  reading of the same round, for as long as it fails (`telemetry/sampler.py:123`);
- `_metric_policy` knows of two metrics that lower values are better; any other loss or
  latency, such as `latency_loss_percent`, is judged as if more were better
  (`analytics.py:276`); the metrics of `Cohorts` are those it judges rightly;
- the hour of a run is compared as a number, so that 23 and 0 o'clock are far apart (`analytics.py:324`);
- `docs/simple-test-workflow.md:63` says that campaigns remain DRAFT until started, but
  `create_test_campaign` starts one without a start time at once (`APP:1963`), and leaves it
  DRAFT if that is refused;
- the worst-case estimate of a campaign counts cooldowns, not the 300 seconds before a
  retry nor the wait for stable paths (`APP:641`);
- `comparable-v1` has no key `comparable`, so `create_test_batch` does not ask for the
  experiment, variant and site that a campaign of the same protocol must name;
- at most 50 pings are sent for an idle baseline of 60 seconds (`ENG:730`), but of each path, one
  path after the other (`routers/mikrotik.py:381`), while a campaign counts the baseline once.  A run of
  `video_city` over two paths takes 120 + 100 + 1800 + 5 + 60 = 2085 seconds, where the user is
  told 2045 (`benchmarks/defaults.py:221`).  `EstimatesCover` allows for the second path's pings in what the user is told;
  the reservation (2105 seconds) covers what follows it with two paths as well;
- the recovery of orphaned reservations deletes those of other controllers and of lab runs that
  are not its own active one, while they have traffic (`APP:851`): their owner is the same.  Then the
  node may be given to another run, and both send, until the first one's next renewal has failed;
  its UDP datagrams are refused at once, a TCP upload that was accepted goes on.  `docs/continuation.md:70`
  has traffic flow under a reservation only.  `TrafficCovered` says for whom and for how long;
- two requests at a time can leave the Event of a running loop out of the registry: two starts pass
  the check while nothing is registered, and an old thread that ends removes the Event of the
  new one (`APP:987`).  A cancel then finds no Event and writes CANCELLED, for which the loop does not ask
  (`BR:436`), and another batch is started beside it.  `LabIsExclusive` and `LoopIsReachable` are
  therefore about one request at a time.

`StopDelay` deserves a look: a TCP upload that is stuck in `sendall` notices its cancel
token only after the socket's timeout, the duration of the upload plus 30 seconds.  While
it is stuck it sends nothing, so the claim of `TrafficCovered`, that traffic flows only
under a reservation in force, is about a stage that is not stuck.

## 5. What is proved

Proofs are about all instances, the runs about the ones in section 3.  An invariant that a run
checks is seldom inductive; each paragraph says what had to be added and why.

### Batches (`BatchRunnerProofs`)

For every number of batches, clients, workers and attempts and every target.

`TypeCorrect`: the type invariant (`TypeInv`).

`OneLoop`: `Spec => []OneLoopPerBatch`.  It must be known that whoever is past the claim
of a batch, a request that has yet to start its thread as well as a thread, is the only
one, and that the batch's state cannot be claimed meanwhile.  `HolderInv` says so:
`OneHolder` (a request that claimed and a running thread exclude each other),
`HeldIsActive` (the states of a batch that is held; `HeldAreNotStartable` is why that
helps), `StartsSawStartable` (what a start request has cached when it claims), and
`DownIsQuiet` (no thread survives a crash).

`BooksBalance` and `TargetHolds`: `Spec => []AccountsBalance`, of which `TargetIsALimit` is a part.
`BooksInv` adds what the worker has in hand: the last attempt of its batch, in the states
that belong to its place in the loop, while the target is not reached (`AtHand`); that
attempts are numbered without a gap (`Numbered`); and that at most the last attempt may
still be settled by a restart, while nobody can claim the batch (`LiveIsLast`).  Without
that a recovery and a worker could both judge one attempt.  `HolderInv` is the other half:
with one loop per batch the counters a session has cached are the row's.  The `Count` of
verdicts is by cardinality, so that one judgement moves one counter by one.

`LedgerIsKept`: `Spec => KeepsLedger`, the refinement of `AttemptLedger`.  Every kind of step
(`Opens`, `GoesOn`, `Judges`, `Idles`) is one of the abstract actions or a stutter under
the mapping.

`NothingIsDropped`: `Spec => []CompletedRunsJudged`.  `AccountedInv` follows a completed run
from its end to its verdict: somebody is recording it, or a restart has yet to settle it, or
its batch was given up, or deleted.

`InterruptedRunsEnd`: `Spec => PausedRunsInterrupted`.  The recovery looks at the newest active attempt
alone, and crashes may have left older ones active.  By `LiveIsLast` of `BooksInv` an active attempt
whose run is live is the newest.  `AbandonedInv` adds that no other run is live: an attempt with a
verdict and a live run comes only from a restart while a cancel was pending (`RecoverCancelled`), and its
batch is given up (`GivenUpStays`), so that it is never paused again.

`OneLab`, `Reachable`, `OnlyStaleRevive`: `LabIsExclusive`, `LoopIsReachable` and
`OnlyStaleRequestsRevive` for one client and nothing scheduled, which is what the
properties are about (`two_batches` and `one_batch` check them for one client; with two,
`overlapping_requests` has what goes wrong).  The number of batches and workers and the
crashes are not restricted.  `LoneInv` says that a claim is made when no worker is left,
that what a handler in progress has cached is true enough, and that a held batch goes on.

### Runs (`RunEngineProofs`)

For every plan: any number of rounds, with and without waits and UDP stages, any number of clients.
`Script` is built from the recursive function `TcpRounds`; that it has a solution for every
number of rounds, and what its steps are (`ScriptShape`), is shown by the smallest number for which
it would not be so (`Least`), since induction theorems cannot be cited.

`TypeCorrect`: the type invariant, and that the thread's step is one of the script.

`NothingIsKept`: `Spec => []HandedBack`.  `CourseInv` says that nothing is held behind the release
clause, and that a thread reserves and judges at the steps for it.

`CancelIsSeen` and `LossIsSeen`: the action properties `CancelStops` and `LostStops`.
`Cancelling` holds from the moment the Event is set with a check ahead, until the end: the
check is still ahead, or the thread has left the script by a path that does not complete
the run.  `Losing` is the same for a lost reservation.  Every step, of the thread or of anybody
else, is one of a few kinds (`Advances`, `Leaves`, `Unwinds`, `WindsUp`, `Elsewhere`), and each kind keeps them.

`LifecycleIsKept`: `Spec => KeepsLifecycle`, the refinement of `RunLifecycle`, where there are no
clients, and where the node has no faults or there are no lab runs.  Clients must be excluded, since a
cancel request overwrites what the thread has committed (`cancel_undone`); lab runs on a node with faults,
since the recovery of an orphaned reservation that fails writes RECOVERY_REQUIRED over a run that has
ended (`APP:873`).  `undisturbed_runs` checks it without faults, where it has to hold for every kind of
run.  `FollowedInv` says that the session's state is the row's while the thread lives.

### Test node (`TestNodeProofs`)

`Types`: the type invariant.  `Cover`: `Spec => []TrafficCovered`, for every number of runs and ids, every set of
unprotected ones, and all times with `Interval + 2 * Latency + StopDelay <= TTL`.  The invariant `CoverInv` bounds the age of a
run's entry by what its renewal thread is doing: at most the timer of the call that
created or renewed it; one `Latency` and the timer while waiting; `Latency + Interval`
and the timer while calling; twice the `Latency`, the `Interval` and the timer of the
failure while a stage has yet to notice.  Beside these it says that an entry under a run's
id is the run's own (ids are fresh), that the thread renews that id, and that an entry the
node has reported missing does not come back.  An entry that a recovery deleted is gone for good.  From then on `Exposed` bounds
`uncovered` in the same way by what the renewal thread is doing: it is at most the timer of the
thread plus what the states before it may have taken, so that it ends at `Overrun`, when the stage must have
stopped.  That a protected run is never exposed is `RecoveryCovers`: what is in use by it is not
orphaned.  `Undisturbed` shows what a step of anybody
else must leave alone, and is used for every run but the one that moves; the race in
`CreateCheck` is part of the specification and does no harm to this property.

### Video probe (`VideoProbeProofs`)

`CountedOnce`, `CompleteArrived`, `RowsAreExact` and `VideoTypeCorrect`: for
every number of paths, frames, fragments and repetitions and every limit.  `PathInv` says of
one path's table that a finalized frame is not active and an active one not whole
(`Settled`), that the counters are the numbers of frames finalized (`Counted`), that there
is room, and that what the table says of a frame has arrived (`Backed`); `SentBefore` says
that what is under way was sent.  `FragmentKeeps`, `FinalizeKeeps` and `PruneKeeps` show
that the three things the code does with a table keep this.  Then `AllAreSettled`
(finalizing everything leaves every frame seen complete or partial) and `SeenWereSent` (a
sender that was cut off has counted the frame whose fragment the node may have seen) give
the row without a difference that is cut off at zero.

`LossOnBothIsExact` (`BothPathLossIsExact`), for the two paths that are compared, whichever of any
number these are (`TwoOfThem`).  The code walks over the frames and counts, per second and
in a row; the property speaks of sets.  `LossInv` says that no frame is sent any more when the result is
fetched, and that it is exact then (`DualIsExact`).  How many frames up to one were lost in a row
(`LostInARow`) is what the recursion gives for every frame, shown by the first for which
it would not (`LossesInARow`, `Least`); the greatest of these numbers is the size of the longest
interval (`LongestIsLongest`).  That the seconds add up (`SecondsAreAll`) needs sums over finite sets,
each again by a smallest counterexample: a sum exists (`SumExists`), it does not depend on the
order nor on summands that are zero (`SumsAgree`), and the sizes of sets that are disjoint add up to the
size of their union (`SumOfSizes`; `BucketsShare` says that seconds are disjoint and have every frame).

### Preconditions (`PreconditionsProofs`)

`Earned`, `SkippedForAReason` and `WaitTypeCorrect`: for every window, patience, interval
and sample duration.  `WaitInv` says that `stable_since` is the date of the earliest window
that still goes on (`WindowIsKnown`), that there is no hole between samples nor before the
next one (`NoHoles`), and what each outcome has seen (`Verdict`); `Bounded`, that no step is
taken after the deadline but the end of the sample begun before it.

### Lab control (`LabControlProofs`)

`Undisturbed`: for every number of requests and lab runs.  The property
is about threads that go; between the registration of a run and its thread lies a step
without the lock.  `LabInv` therefore speaks of runs that are launched or go
(`HeldIsActive`), and adds that one request at a time is behind the lock and that no run is
active meanwhile (`LockIsOne`, `LockedIsIdle`), and that a run is launched once, before its thread
(`LaunchIsOne`).  `RequestKeeps` and `ThreadKeeps` say what a request and a thread may do to
the rows without harm; most actions are instances of them.

### The parts without a module of proofs (`PartProofs`)

These are proved of `Measurement` directly, each under the condition that its part is followed.

- `Confirmed` (`ConfirmationIsExact`): for every number of chunks.  `TcpInv`: the chunks sent are those on
  their way and those read; what is kept is not more than was read; an answer is on its way only
  when the record is made, unless the node was restarted.
- `Compared` (`ComparedRunsAreConfirmed`): for every set of paths and number of rounds.  `JudgeInv`: only
  stages of the plan have run, all of them when the verdict is given.
- `RowsAreOfTheirPath` (`AnswersBelong`): for every set of paths, lengths of words and interleavings.
  `RouterInv`: what is under way belongs to the one question that is open (`Orderly`), or the
  connection is spoilt by a refusal.  The length of a word must pass through the client's
  encoding (`LengthIsRead`, in four cases by `Decode1` to `Decode4`, with the arithmetic of bytes).
- `Sound` (`BatchesAreSound`): for every target.  The durations of the frozen protocols are computed, for one
  path and for two (`EstimatesSuffice`),
  the rounding up is a lemma (`RoundsUp`), and more runs take longer (`MoreRunsTakeLonger`).
- `Quiet` and `LateForAReason` (`QuietAfterStop`, `OverdueForAReason`): for all times of readings and joins.
  `SamplerInv` bounds, for each state of the thread, how far the due times lie behind, at most two
  readings, and what is known when the engine stops it (`Stopping`).

### Measurement (`MeasurementProofs`)

What is proved in modules of their own is carried over to `Measurement`, whose runs check it:
`WaitIsAPart` and `VideoIsAPart` say that every behaviour of `Measurement` is one of the
part, for all constants.  The only variable the parts share is the reservation; a restart
of the node during an upload, UDP or TCP, looks to the video probe like its end (`UdpEndsItAtMost`,
`TcpEndsItAtMost`).  The lab runs have no state where another part is followed, so their invariant is carried over
under that condition (`LabPartHolds`).

`LossStaysVisible` (`LossIsNotHidden`): for all numbers of datagrams, addresses, threads, repetitions and
restarts.  `UdpRecords` says of a record that the numbers it has seen were delivered, that the count
of unique ones is how many these are, and that it misses no more than the rest of what was sent.
`UdpBound` is needed for the addresses: of each, what is counted, what is on the network and
what the threads hold together are no more than were sent or repeated.  All this is about cardinalities
of sets that move by one element (`Elements`).  Records of intervals need not be known, only that they count no more than the
record (`Within`).

`SecondsAgree` (`SecondsAddUp`): for all numbers of datagrams, seconds, sources and threads, and all orders
in which stamped datagrams are recorded.  The property folds over the intervals of a record.  `TotalIs` names that fold (`InSeconds`), and
`SecondsAreAdded` says that it is a sum in the sense of the video's lemmas (`Adds`), whatever order it
takes.  A datagram adds to a second that is there or to a new one: `OneMoreAdded` compares the sums of two
functions that differ in one place, and `OneMoreSecond` says which summand grows for each of the
counters.  `SecondsInv` is the property in these terms; `RecordedAddsUp` is the step that records a datagram,
and `NewAddsUp` the one that begins a record after a restart or for a new address.

`Controlled` (`ConclusionsAreControlled`): for all metric values, hours and numbers of runs.  The invariant is the property of the
metric and status as bound values, so that it depends on the runs alone (`Founded`).  The delicate part is the
median: it is a number at all (`MedianIsANumber`) only if both halves of a finite cohort are not empty
(`GreatestNumber`), and only of a number it follows that what is of practical size is no step back (`PracticalIsNoLoss`).

`TypeCorrect`: the types of all ten parts; `PartsTyped`, `UdpTyped`, `LabTyped`, `CohortTyped` and `CampaignTyped` take them from the
invariants above.

### Assumptions

The constants are restricted where they are declared, no more than the code does: `TcpAssumption` (a
payload has chunks), `RouterAssumption` (the length of a word fits the four bytes of `EncodeLen`,
`routers/mikrotik.py:39-64`), `NoOneAssumption` and its like (a value that is none of the others),
`PartsAssumption` (the parts are those there are), and positive numbers where the code has
positive defaults.  TLC evaluates all of them.

### Only model-checked

- all liveness properties (`DueBatchesStart`, `NightEnds`, `LoopStopRequestHonoured`, `NodeComesFree`,
  `RunEnds`, `LossIsLearnt`, `OrphansLapse`) and the fairness of the refinements: they need `ENABLED`;
- the *violated* runs, of course.

Every type invariant, safety invariant, safety action property and refinement that a passing run checks
is a theorem.

## 6. Not modelled

Latency, iperf and IRTT measurements, what samples and router answers mean, durations and rates
that are parsed from text, summaries and charts, reports and artifacts, profiles that users
edit, the database layer and its migrations, the command line, importers and pages: they compute
or move data and keep no state that other threads share, or only write files.  The generic and
the fake router answer at once and from nothing.  Heartbeats of batch workers and leases are
written and shown, but nothing is decided by them.

## 7. Plan

What is modelled is sections 2 and 3.  What is left:

1. The latency stage of the engine; what follows a cleared `LAB_ACTIVE_RUN_ID`.
2. The refinements under fairness, when a prover for `ENABLED` is at hand.

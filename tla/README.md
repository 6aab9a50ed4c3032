# MCM AI Lookbook Kiosk: a verification project in TLA+

The repository is a kiosk that shows a lookbook video, watches gaze and
expression while it plays, and asks a recommendation service for a product.
This directory holds TLA+ modules that model its parts, the TLC configurations
that check them, and theorems TLAPS proves about them.  Every definition is
translated from the source; `PROJECT.json` gives the lines.

## 1. Inventory

| Part | Source (under `src/`) | State it keeps | Operations | Hard part | Module |
| --- | --- | --- | --- | --- | --- |
| v2 recommendation store | `apps/api/app/v2_store.py` | session states (status, timeline, decision, TTL), active job and its handle, manager events; one lock | append, complete, run a job, answer, cancel, manager request, expiry | the lock is released between the sections of every operation; a job outlives its state | `RecommendationJobs`, `RecommendationContract`, `DecisionContract`, `ObservationBuffer`, `ObservationLog`, `ManagerEvents` |
| job table | `apps/api/app/v2_postgres.py`, `migrations/` | `recommendation_job_v2`, the intake flag | one SQL statement per operation, readiness, start-up and orphan cleanup, retention | answers may be lost, the process may die between two statements, several writers close the same row | `JobTable`, `RecommendationJobs` |
| dispatcher and model client | `apps/api/app/v2_central.py` | asyncio tasks, limit of two | submit, cancel, done-callback; one model call and the checks of its answer | a cancelled task may not have begun; which answers are grounded in what was seen | `RecommendationJobs`, `GroundedDecision` |
| API process | `apps/api/app/main.py` | start-up hook, maintenance task | routes, maintenance loop | `async` and thread-pool handlers interleave | `RecommendationJobs` |
| observation aggregation | `apps/api/app/v2_evidence.py`, `v2_aoi.py`, `source_aoi.py` | none | frames to areas, windows, codes, variant | boundaries of gaps, epochs and windows; content that is refused, or used, halfway | `EvidenceWindows`, `GroundedDecision`, `LookbookContent`, `MediaFile`, `Polygon` |
| v1 session store | `apps/api/app/store.py`, `services/recommendation` | sessions, batches, outcomes, events; one lock | create, append, complete, outcomes, requests, expiry | retries and reordering must not count twice | `MemoryStore`, `AttentionFeatures` |
| release and database operations | `deploy/`, `scripts/db_*.py`, `migrations/` | the link, the running services; migrations, catalog rows | deploy, roll back; migrate, seed, probe | a signal or failure between any two commands | `Deployment`, `CatalogDatabase` |
| vision gateway | `apps/vision_gateway/server.py` and friends | per connection: flags, one frame task, one calibration task, deferred work | frames, controls, disconnect, cleanup | deadlines race the threads they gave up on; what is refused must not use up what is let in | `VisionStream`, `StreamAdmission` |
| session in one process | `apps/vision_gateway/gateway.py`, `runner.py`, `d8_live.py` | camera, pictures in flight, joined results, the session at the API | start, process, retry, reconnect, restart the worker, complete, close | every call may fail halfway, with a picture open or an answer lost | `LiveSession` |
| face worker | `services/face/src/mcm_face/worker.py` | a one-thread executor, an adapter | start, process, close | two deadlines race, a frame must outlive its reader | `VisionStream` |
| eye worker | `services/eye/src/mcm_eye/worker.py` | calibration queue and flags, adapter, two locks | calibrate, infer, cancel, end | flags are read under one lock and used under another | `EyeWorker` |
| calibration run, capture, adapter, filter | `services/eye/src/mcm_eye/` | targets and samples; pose anchor and clocks; model, cache, order; filter | position, train, repair, validate, verify; initialize, calibrate, infer | a sample must be of its point and not be judged by itself; a gaze of its model; a model that failed must not stay | `SessionCalibration`, `TargetCapture`, `EyeTraxAdapter`, `GazeStabilizer`, `ModelTraining` |
| kiosk flow | `apps/kiosk/src/App.tsx`, `app/*.ts` | screen, generation, serialized operations | start, calibrate, play, submit, poll, discard | every `await` may resume in a newer flow | `KioskFlow` |
| kiosk camera | `camera/FrameSource.ts` | stream, open and capture operations | open, capture, stop | `getUserMedia` answers after `stop` | `FrameSource` |
| kiosk stream client | `clients/vision/LocalVisionStreamClient.ts` | socket, waiters, pending frame | start, control, send, stop | a timeout races its late answer | `VisionClient` |
| kiosk batching | `components/LookbookPlayer.tsx`, `app/observation-batch-v2.ts` and friends | epoch, layouts, samples | capture, collect, build, submit | results come after seeks and in any order | `ObservationBatching` |
| manager screen | `apps/manager/src` | cursor, event list | poll, show | the API restarts under the cursor | `ManagerEvents` |
| local wiring, views, mocks, offline material | see `PROJECT.json` | | | | not modelled, section 8 |

The kiosk opens a session, gets a stream token, and streams webcam frames to
the gateway, which fans them out to the face and eye workers.  The samples it
gets back are batched and posted to the v2 store; `complete` folds them into a
model job; the kiosk polls for the decision and deletes the session.  The API
process records each job in the job table.  The manager screen polls events.

What makes each part correct:

* store and jobs: a pending answer has somebody who will give it, evidence has
  somebody who will dispose of it, a withdrawn job never publishes, rows of a
  dead run are closed before new work is taken in, settled rows stay settled;
* from the player to the decision: a reported stretch never bridges a seek, a
  frame without a valid gaze or more than the continuity gap (and so no longer
  pause); what was answered 202 is neither lost nor taken twice; windows are the
  stretches of the timeline; a decision cites frames or windows of the product,
  or, with source AOIs, frames in one of them;
* v1 store: features are those of the accepted events whatever their order, and
  a recommendation that was read stays what it was;
* gateway: frames are let in in order and in time, and a refused one may come
  again; one frame at work (but for an Eye request that a face result of another
  context leaves behind), every accepted frame answered once, every decoded frame
  closed once and after its last reader, the worker disposed of unused;
* eye side: a cancellation wins, nobody trains on or cancels another's
  calibration, a calibration is judged by samples it did not learn from, a gaze
  says which model gave it;
* kiosk: an answer is used only by the flow that asked, every session known of
  is disposed of, no camera after a stop, no call waits for ever;
* operations: what is behind the link works or the log says so; what is served
  is the reviewed catalog on the whole schema.

## 2. Modules

### `JobTable`
The table as a function from keys to rows, and one operator per SQL statement.
A key `<<run, session>>` stands for `decision_request_id`, a digest of the
process's run scope and the session.  `Settle` is the shared
`UPDATE ... WHERE status IN ('pending','running')`.

### `RecommendationJobs`
The core.  Actors are the event-loop thread (`Loop`: the `async` complete
handler and every step of a model task), thread-pool threads (`Pool`: the sync
handlers) and the maintenance loop (`Keeper`).  `actor[a].pc` names the lock
section or database call the actor does next, so the atomic steps are the lock
sections of `V2RecommendationStore` and the single statements of
`PostgresDecisionPersistence`.  `state[s]` is `_states`, `task[j]` the asyncio
task of a job, `evidence` the jobs whose request and summary are still
referenced, `rows` the table, `revoked` a history of the jobs whose pending
state was taken away.

| Code | Actions |
| --- | --- |
| `append_batch` | `AppendStart`, `AppendBatch` |
| `get_recommendation`, `request_manager_product` | `Read` |
| `cancel` | `CancelPop`, `CancelDispose`, `CancelMark` |
| `cleanup_expired` | `Sweep` (inside each caller) and `CleanupSweep`, `CleanupSignal`, `CleanupOrphan` |
| `complete` with `begin_completion` | `CompleteStart`, `Begin*`, `Answer`, `SavePendingRow`, `ClaimRow`, `Submit`, `Attach`, `StartFailed`, `FailStart`, `Commit`, `Persist` |
| `run_completion` in its task | `TaskStart`, `ModelAnswers`, `Commit`, `Persist`, `TaskCancelled`, `TaskDiscard` |
| `initialize_runtime`, maintenance loop | `RuntimeProbe`, `MarkInflight`, `OpenIntake`, `Wake`, `OrphanRows`, `Retention` |
| time, process death | `Expire`, `Age`, `Crash` |

A database call answers, fails without effect, or commits and loses its answer
(`Call`).  A batch's content is abstracted to "accepted or refused", a decision
to its status.  `Expire` and `Age` are the two clocks; the one relation kept
between them is `pending_ttl <= orphan_job_seconds`, which the constructor
enforces: a row is not old before its pending state has expired.  The state
in which the database is configured wrongly (`_database_configuration_failed`,
every operation refused) is left out.

### `DecisionContract` and `RecommendationContract`
`DecisionContract` is what the API promises with no jobs, threads or locks: the
answer of a session goes none, pending, decision and may only be withdrawn; a
row starts once, runs once, settles once, and a completed row was answered
first.  `RecommendationContract` adds the history `said` to the core and shows
that it implements the contract (`ContractSpec`).

### `ObservationBatching`
The kiosk's half of an observation's way: the player gives each captured frame
its context (time, epoch, layout), results come back in any order or not at
all, and when the video ends the lists become batches, which are sent one after
the other.  A frame is its sequence; a dropped capture uses one up.  `seeks` is
a history.

### `ObservationBuffer` and `ObservationLog`
The timeline of one session: `append_batch` under its lock, `begin_completion`,
`cancel` and expiry.  A batch is a sequence of observations of contexts and
samples, a request a batch with its identifiers; any request may arrive at any
time and any number of times, which is what retries and reordering amount to.
`Folded` is the loop over the observations on working copies, which are adopted
only if no observation was refused.  `ObservationLog` knows nothing of batches,
identifiers and order: facts are learnt, kept and handed over whole.  The buffer
implements it (`LogSpec`) with the facts of its timeline as `known`.

### `EvidenceWindows`
The loop of `summarize_observations`, one frame a step, over every timeline the
buffer can hand over (`MayFollow`).  `Analyse` is the body of the loop; the
properties define windows, dwell and returns over the timeline as a whole and
say that the loop computed them.  A frame without a valid gaze is "unseen": the
loop takes it for one beside every product, the contract for the end of what is
compared (`ReturnsAreWatched`, section 6).  Averages of confidence, movement and
expression are left out.

### `GroundedDecision`
From the areas gaze fell on to what the answer may say: evidence codes and
eligibility, whether the model is asked and with which variant, what each of the
three clients answers (any answer of the right shape, or the stub's own), and
`validate_central_output`.  A frame is its index and a window the index of its
first frame; frames follow without a gap (gaps are `EvidenceWindows`').  Return
candidates and face actions are treated as gaze movement is and left out, as are
texts; an evidence item cites one reference, since each is checked by itself.
Scores use the code's weights as the constant `Weight`.  `DeadEnd` names the
requests that no answer can satisfy (section 6).

### `AttentionFeatures` and `MemoryStore`
The v1 store.  Each operation is one locked section and one action; a refused one
changes nothing and is no action.  Shares of attention are counted in twelfths,
so that halves and thirds are whole; the engine is chosen at `Init`.  `Selection`
has the one helper that `MemoryStore` and `ManagerEvents` share, the list
comprehension with a condition (`Among`), as a recursive function.  `StoreAssumption`
is what the schemas say of a batch: numbers, and no identifier or sequence twice.

### `ManagerEvents`
A kiosk's product request in its two locked sections, and the page's poll with
its cursor and the set of seen events.  An API restart loses everything and
starts sequences at 0.

### `Deployment` and `CatalogDatabase`
`deploy-release.sh` command by command.  A trapped signal is taken between two
commands; HUP and KILL, and any signal during a rollback, end the script there.
`ln` in the rollback is assumed to work, and the workflow's concurrency group
serialises deployments.  `CatalogDatabase` has the migrations (every run applies
all files, one transaction each), the seed, an operator's reviews and the
readiness probe, which reads the migration and then the rows.

### `VisionStream`
One connection of the gateway after its hello, with its `FaceWorker`.  On the
event loop: the handler (`handler`: receiving, leaving through its `finally`,
cleaning, gone), the task of the accepted frame (`proc`), the calibration task,
and the callbacks of work whose deadline has passed (`pending`, which is
`_StreamState.pending_tasks`).  Beside it: `call[kind][f]` is the state of the
decode thread, the thread in `FaceWorker.process`, the executor's work and the
Eye request of frame `f`; `buffer[f]` is the decoded frame, `toClose` the frames
that `process` has left to the executor.  A deadline may fire whenever its task
waits, so every order of the gateway's deadline, the worker's own and the late
answer is explored.  Which frames are refused as duplicate, stale, out of order
or too fast is `StreamAdmission`'s; here each refusal is the same drop.

| Code | Actions |
| --- | --- |
| `_handle` | `Hello`, `Refused`, `DropFrame`, `AcceptFrame`, `SetInference`, `StartCalibration`, `StopSession`, `CalibrationEnds`, `FrameEnds`, `Leave`, `JoinTasks`, `CleanupEnds` |
| `_process_frame` | `Begin`, `Decoded`, `DecodeTimeout`, `FaceSample`, `FaceFails`, `FaceMismatch`, `FaceTimeout`, `Fused` |
| `_process_gaze_only_frame`, `_process_calibration_frame` | `Begin`, `Gazed`, `Captured` |
| `defer_cleanup`, `track_adapter_completion`, `_finish_worker_frame` | `DecodeLate`, `FaceLate`, `Settled` |
| `FaceWorker.process`, `close` | `FaceSubmit`, `AdapterStart`, `AdapterEnds`, `FaceReturns`, `FaceDeadline`, `CloseWorker`, `DisposeAdapter` |

The Eye worker, the decoder and the face adapter are external: they answer at
any time or never, and the face adapter for another frame too: then the code
reports an error and forgets the Eye request of the frame, whose call becomes
"untracked" (`FaceMismatch`).  Whether a frame carries a calibration target is left out,
so what a result contains is not checked.

### `StreamAdmission`
The same connection seen from the other side: the hello with its one-time token,
the checks of a binary message in the code's order, the ring of remembered keys,
the order of epochs and sequences, and the rate, which calibration changes.  A
message is the set of checks it fails, with its epoch, identifier and sequence;
what becomes of a frame that is let in is only "ends".  Time is counted in the
shorter of the two gaps.

### `LiveSession`
The runner that has camera, gateway and workers in one process and the API at
the other end.  A call is an action, since its callers take turns; the adapter is
the only other thread.  A call to the API may fail before it took effect, or its
answer may be lost.  A frame is its number, and `ends` the history of what each
became.  Seen in it: `restart_worker` waits for the adapter under the lock that
the adapter's end needs (`stuck`); an answer of `complete` that is lost leaves a
runner that cannot be closed, since the second attempt is a conflict; after
`close` and `disconnect`, `reconnect` starts a worker whose eye port stays
closed.  A start after a live start that failed is left out.

### `LookbookContent`, `MediaFile`, `Polygon`
What stands between the reviewed files and a frame's areas.  `LookbookContent`
has the metadata of areas, the source areas bound to exposures by their prefixes,
the checks the repository makes of both before it serves, and the mapping of a
frame; an area is the set of the points in it, a name the sequence of its parts.
`MediaFile` reads the boxes of a video file one after the other and compares what
they say with the reviewed identity; a track is known by the fields that count,
and the boxes inside it, read as the outer ones are, are left out.  `Polygon` has
the three tests of a point against an outline on a grid, whose width is above the
code's epsilon, with quotients compared by their products.

### `EyeWorker`
`EyeWorkerRuntime`: each request has a thread.  Sections under `_state_lock` are
steps; `_adapter_call_lock` is `holder`, kept across steps by a calibration and
waited for by everybody else.  `runtime` holds the attributes that `_state_lock`
guards, `cal`, `inf`, `ending` and `closing` say where each thread is and what it
copied.  A session stands for the pair of session and video.

| Code | Actions |
| --- | --- |
| `run_calibration` | `CalibrationBegins`, `CalibrationRefused`, `CaptureBegins`, `Capture`, `CaptureEnds`, `Decide`, `Drain` |
| `infer` | `Arrive`, `Accept`, `Put`, `Gaze` |
| `cancel_matching_calibration` | `CancelMatching` |
| `end_session`, `close` | `EndArrives`, `EndDiscards`, `CloseBegins`, `CloseEnds` |

The capture is external: samples of queued frames that carry its mark, then
success or failure at any time.

### `SessionCalibration`, `TargetCapture`, `EyeTraxAdapter`, `GazeStabilizer`
What the worker calls.  `SessionCalibration` is one run over the targets: what a
capture gives, and what `evaluate` says, is open, and a cancel or timeout may
come at any time.  `TargetCapture` is one target with the adaptive profile: time
runs from the presentation, a head is in one of two poses too far from each
other or invalid.  `EyeTraxAdapter` has the life of the model, whose calibration
it has, the remembered answers and the stream the filter follows; the worker
calls it one call at a time, so a call is a step, and each calibration has an
identifier of its own.  `GazeStabilizer` has one screen dimension and frames at
any time, late ones too; where the filter may overshoot, it is left open.

### `ModelTraining`
What `calibrate` of the adapter does inside: the face model's file is downloaded
beside its place and moved there when its digest is right; frames shown at the
training points are learned, those of the validation points judge, and the model
stays only if every gate is passed.  A frame is what the estimator makes of it, an
error its distance in parts of the diagonal.

### `KioskFlow` and `FrameSource`
The application and its camera.  A step is a task of the browser: a touch, a
timer, an answer; continuations of settled promises come before the next task
(`Quiet`).  A flow is one call of `beginSession` and what follows; it names its
session.  `flow` is the controller's generation, `flows` what each flow waits for
and whether its signal is aborted, `queue` the tail of `AsyncFlowController`,
`learned`, `discarded` and `evidence` are histories of sessions.

| Code | Actions |
| --- | --- |
| `beginSession` | `Begin`, `StartOpened`, `CreateAnswers`, `VisionStarts`, `StartTimesOut`, `StartAborted` |
| the serialized queue | `RunQueue` (its first operation settles) |
| `beginCalibration`, `completeCalibration` | `CalibrationBegins`, `CalibrationAnswers`, `VisionInfers` |
| `completeLookbook`, `submitCentralRecommendation` | `LookbookEnds`, `VisionStops`, `SendAnswers`, `SendAborted` |
| `loadRecommendation`, `pollRecommendation` | `PollAnswers`, `PollAborted`, `ProductAnswers` |
| capturing frames | `ShotBegins`, `ShotRefused`, `ShotSteps`, `ShotReturns` |
| screens | `Touch` |
| giving up | `Restart`, `CancelConsent`, `ConsentTimesOut`, `CancelRecommendation`, `Back`, `CameraRetried`, `PlaybackUnavailable`, `VisionLost` |
| `FrameSource.open`, `stop`, `capture` | `OpenBegins`, `StreamArrives`, `StreamFails`, `VideoReady`, `Stop`, `Capture*`, `FrameMade`, `FrameConsumed` |

The Vision client is external here and is `VisionClient`'s subject.

### `VisionClient`
The client with its caller's discipline (the camera stops before `stopSession`
and the next start; calls go through the queue) and, external, the connection
and the gateway's protocol.  Its definitions of state, steps and specification
carry `Client` in their names, so that it stands beside `KioskFlow` in one
module.  The n-th session has the n-th socket.  `closeSocket`
and `failTransport` have one effect on the client's state (`Teardown`); there is
one calibration in a session.

### `Server` and the modules that only check
`Server` puts the parts of the servers that share no state side by side: a
behaviour is of one part, `track`, chosen at the start, while the others stay as
they begin.  It extends `VisionStream` and has `MemoryStore`, `ManagerEvents`,
`Deployment` and `CatalogDatabase` as instances; its properties are theirs, and
the theorems about it are for every value of their constants.  `EyeService` does
the same for the eye worker and what it calls: one run of a calibration, the
capture of one target, the adapter, its filter and the training of a model.
`Observations` does it for the way of an observation: windows, buffer, player,
decisions, admission, the live session, polygons, media files and content.  It
also composes two: what the kiosk's batches (`ObservationBatching`) become in the
API's buffer (`SubmissionExact`).

`MCRecommendationJobs`, `MCServer`, `MCEyeWorker`, `MCKiosk` and `MCObservations`
give constants their values.  `MCServer` adds nothing but data to `Server`,
`MCEyeWorker` to `EyeService` and `MCObservations` to `Observations`.  `MCKiosk` has
tracks of its own, so that one run explores the application and the client.

## 3. Runs

All bounds are cfg constants, or arguments in the MC module.  `MaxFaults` bounds
failing database calls, `MaxRuns` the lives of the process, `Sessions`, `Jobs`
and `Pool` the actors.

| Run | Question | Bounds and why they suffice |
| --- | --- | --- |
| `safety` | types, `PendingHasRunnableJob`, `EvidenceIsHeld`, `RevokedJobNeverPublishes` | one session, two jobs (so that an old job meets a new attempt), one fault; several sessions meet only in the dispatcher's limit, which the bound of one worker reaches with two attempts of one session, and the proofs cover any number; a crash is the last step followed (`UntilCrash`), what comes after one is `contract`'s |
| `contract` | `ContractSpec`, `EarlierRunsAreClosed` | one job, one fault and two lives, with the demo fallback: every statement may fail or lose its answer once, a dead process leaves a row in flight, a start-up step fails; the second life is followed through its start-up until it takes jobs in and knows a session (`UntilNextSession`), since intake is what `EarlierRunsAreClosed` is about; more lives and faults are covered by the theorems of section 5 |
| `liveness` | `PendingEnds` and `RowsSettle` with the maintenance loop alone, `EvidenceDisposed` when handlers finish | one session, one job, one fault: the properties quantify over sessions and jobs separately |
| `live_restart`, `lost_cancel`, `no_job`, `kiosk_camera`, `missing_gaze` | disagreements between code and documentation, see section 6 | smallest that shows them |
| `observations` | windows: `WindowsExact`, `WindowsGoForward` | every timeline of up to four frames of two products, with times and epochs counted from the first and either one frame without gaze or any number beside the products, which are one to the loop, and a sequence that goes back once at most (`TimelineBound`): leave, break and come back need four |
| | buffer: `KeptExactly`, `LogSpec` | a limit of three frames, batches of one or two observations: one frame in each of its versions (halves, a conflict, a changed context), later frames, a seek, a reused sequence, a step back; a batch is folded one observation at a time, so two show what the first leaves for the second |
| | player with the buffer: `RunsAreTrue`, `SubmissionExact` | three captures, one seek, a video of length 2, batches of one, and room for two frames in the buffer and two layouts: results overtake a seek, a layout is evicted, a batch meets the limit |
| | decisions: `DecisionsGrounded` | three frames, two products, an area inside another, a source AOI unlike both products; every client and variant: leaving and coming to an area need two frames, a third tells them from the last |
| | admission, as part of `KeptExactly`: `AdmissionIsSound` | two keys remembered, a gap of two, clock to 3, three frames: a frame is refused for each reason and sent again, is forgotten and repeated, and the rate changes in between |
| | live session, as part of `SubmissionExact`: `SessionIsSound` | three pictures, two faults: one in flight, one waiting, one captured, while a call fails or loses its answer |
| | polygons, files, content, as parts of `DecisionsGrounded` | up to four corners on a grid of five by five: a concave, a crossed and a clockwise outline; files of up to 32 units with two tracks; three exposures (a parent, its child, a stranger) and two definitions |
| `eye` | `CancelsExact`, `ModelIsOwn`, `NothingStays` | two sessions, two calibrations, two frames, a queue of one, one end of session and a shutdown: an older calibration's leftovers can meet a newer one of the same or another session, and the queue overflows |
| | run and capture: `CalibrationIsFair` | four training points, three validation, two verification, two repairs (one more point than the repair limit can take); five frames of a capture that needs two samples: settling, losing the pose and extending |
| | training, as part of `CalibrationIsFair`: `TrainingIsSound` | two training and two validation points, two frames each: a point short of samples, a gate missed by one frame |
| | adapter and filter: `SamplesAreTrue` | two calibrations, two streams, a cache of two, three answers: an answer is forgotten and asked again; four looks at three positions: a jump, a confirmation, a gap |
| `kiosk` | application: `OwnDataOnly`, `SessionsDisposed`, `CameraReleased`, `EndsOnlyItsOwn`, `NobodyWaits` | two flows, three opens, one capture, three queued operations: everything an old flow can leave behind meets a newer one, twice switched on |
| | client: `AnswersExpected`, `SessionsEndWhole`, `HeardInTime`, `CallsEnd` | two sessions, two frames: what is late of the first session or frame meets the second |
| `server` | gateway: `FrameInUse`, `ClientIsAnswered`, `AllGivenBack` | two frames: an overlap needs two, and what is left of the first can meet the second |
| | v1 store: `FeaturesExact`, `LogsOfResults`, `ResultsStay` | two sessions, five batches that overlap, clash in a sequence or an identifier, share a bucket, span a gap or follow a seek |
| | manager: `EventsExact`, `EventsReachTheScreen` | two sessions, two recommendations, two threads, two faults: a request overtaken by a new decision, one poll between |
| | release and database: `ReleaseIsSound`, `DatabaseIsSound` | three deployments and three faults: a rollback to a rollback; five migrations, the third of which closes jobs, two jobs, four runs: a run cut and repeated with a seed and a review between |

The deadlock check is off where the system really stops: a part whose bounded
work is done (`observations`, `eye`, `kiosk`, `server`), a connection that is
gone, a session that has ended.

## 4. Fairness

`KeeperFairness`: the maintenance loop is an asyncio task that sleeps and
repeats for ever, and both clocks advance.  `PendingEnds` and `RowsSettle` need
nothing else (`KeptSpec`): they hold although every handler and every task may be
suspended for ever, at an await or in a thread of its own.  What blocks the event
loop itself blocks the maintenance loop too, which runs on it; that case is
excluded.  `HandlerFairness`, the premise of `EvidenceDisposed`, adds that a handler
which has started finishes (its steps are straight-line code) and that the event
loop, whose ready queue is FIFO, gets to every ready task (strong fairness,
because the loop is busy in between).  No client is obliged to send a request,
and the model is never obliged to answer: the model call has no deadline.

`LoopFairness` of `VisionStream` assumes the event loop alone: a turn of the
handler takes up every task that has ended, deadlines fire, callbacks run.  That
is enough for `ClientIsAnswered`.  `AllGivenBack` has `ThreadFairness` as its
premise: decoding and inference, which are bounded computations, end, and the
Eye client, which has a timeout, returns.

`KioskFlow`: continuations run, the queue's next operation begins when the one
before has settled, the browser settles what it was asked (a camera request is
answered, video data arrives or its wait is aborted), and every request is
answered or fails (`fetch` has that much).  No touch is obliged to come, and no
timeout is needed.

`VisionClient`: continuations run, and the timers of control requests and
of the kiosk's start fire.  Nothing is asked of the connection or the gateway: that is the
point of `CallsEnd`.

`ManagerEvents`: the page's interval polls, the answer arrives or fails, the
views are shown.  Events reach the screen although polls may fail (boundedly
often), unless the API restarts.

## 5. Proofs

Every theorem holds for every value of the constants under the assumptions of
the last column, and for any number of steps; the runs show the same properties
on small instances.

| Module | Theorem | Says | Assumes |
| --- | --- | --- | --- |
| `RecommendationJobs_proofs` | `TypeCorrect` | `TypeOK` | `ConstantsAssumption` |
| | `PendingIsRunnable`, `EvidenceHeld`, `LateResultsDropped` | the three core safety properties; the module begins with lemmas about the statements of `JobTable` (tables stay tables, settled rows are unchanged) | the same |
| | `EarlierRowsClosed`, `ImplementsContract` | `EarlierRunsAreClosed`, and the refinement | the same |
| `Decision_proofs` | `TypeCorrect`, `NoBackwardWindow` | types, and no timeline of any length makes a window the evidence model refuses | `EvidenceAssumption` |
| | `WindowsAreExact` | `WindowsExact`: windows, dwell times, returns and marks are those of the timeline | the same |
| `Observations_proofs` | `DecisionGrounded` | `DecisionsGrounded`: the decision, and the polygons, media files and content it rests on | `GroundedAssumption`, `PolygonAssumption`, `MediaAssumption`, `ContentAssumption` |
| | `KeptAsAnswered` | `KeptExactly`: what the buffer keeps and hands over, and what a stream lets in | `BufferAssumption`, `AdmissionAssumption` |
| | `TimelineIsLog` | the refinement `LogSpec`, of the buffer's behaviours | `BufferAssumption` |
| | `RunsReported` | `RunsAreTrue`: what is reported as watched without a break | `BatchingAssumption` |
| | `SubmittedExactly` | `SubmissionExact`: what a completed session has handed over, and what a live session leaves | `BatchingAssumption`, `LiveAssumption`, `MaxKept \in Nat \ {0}` |
| `VisionStream_proofs` | `FrameIsInUse` | `FrameInUse` | `StreamAssumption` |
| `EyeWorker_proofs` | `CancelsAreExact`, `ModelsAreOwn`, `NothingLeft` | `CancelsExact`, `ModelIsOwn`, `NothingStays` | `EyeAssumption` |
| | `SamplesTrue` | `SamplesAreTrue` | `AdapterAssumption`, `StabilizerAssumption` |
| | `CalibrationFair` | `CalibrationIsFair` | `RunAssumption`, `CaptureAssumption`, `TrainingAssumption` |
| `KioskFlow_proofs` | `DataIsOwn`, `SessionsGivenUp`, `CameraIsReleased` | `OwnDataOnly`, `SessionsDisposed`, `CameraReleased` | `KioskAssumption`, `FrameSourceAssumption` |
| | `EndsOwnSessionOnly` | the action property `EndsOnlyItsOwn` | the same |
| `VisionClient_proofs` | `AnswersAreExpected`, `SessionsAreWhole` | `AnswersExpected`, `SessionsEndWhole` | none |
| | `ListenersHearInTime` | the action property `HeardInTime` | the same |
| `Server_proofs` | `ReleasesAreSound`, `ServesReviewedRows` | `ReleaseIsSound`, and of every step `DatabaseIsSound` | `MaxReleases \in Nat`; `Required \in Nat \ {0}`, `MaxJobs \in Nat` |
| | `ShowsEveryRequest` | `EventsExact` | `MaxDecisions \in Nat` |
| | `ResultsAreFinal`, `LogsAgree` | of every step `ResultsStay`; `LogsOfResults` | none |
| | `FeaturesAreExact` | `FeaturesExact`: what the v1 store keeps of a session's looks, their times, revisits and ranking | `StoreAssumption` |

### Job protocol
`TypeInv` adds to `TypeOK` what the types of an actor's locals
depend on (which locals a label needs, what `todo` may hold).  `JobInv` is the
strengthening for ownership: a job has at most one owner (`Owned`), a revoked
job was used and is on its way out (`RevokedUsed`, `RevokedDisposed`), the
event loop's job is the one its label says (`LoopJob`), and a job named by a
pending state is tracked by a handler or an uncancelled task (`Tracked`).
Without `Owned` a step of a second session could take the job away; without
`RevokedDisposed` a revoked job could still be compared equal.  `Gate` is what
`EarlierRunsAreClosed` needs: once the start-up statement has committed, and
for as long as intake is open, no row of an earlier run is in flight.  The
refinement needs `SaidInv`: whatever a terminal state holds, and whatever the
loop is about to save, has been recorded.

### Windows
`WindowInv` adds to the windows that are closed the open one, and that it ends at
the last frame: only then does the order of two neighbouring frames
(`MayFollow`) extend to the window.

`ExactInv` is what makes the loop's result that of the whole timeline.  `Effect`
describes a step by whether the frame prolongs the open window.  `LoopInv` says
what is carried from frame to frame: the last frame's product, whether a window is
open, and that `seen_products` are the products since the last discontinuity.
`SpansInv` gives every window its frames, every maximal stretch its window, and
both their order; `MaximalNext` says which stretches a new frame changes.
`DwellInv` counts a dwell time in moments: the interval a frame adds is in no
earlier window because windows are in order (`Ordered`).  Returns are the set
`Comebacks`, which a step leaves alone or enlarges by the new frame.

### Decisions and what they rest on
`ObservationsInv` has an invariant for each part that is followed.  `DecisionInv`: a
frame without a gaze lies in no area, the answers that pass (`Passing`) are of the
session as it was asked, which nothing changes since (`SameSessionKeeps`), and a
fallback cites the first frame or window there is.  That the checks leave an answer
to be given is shown kind by kind (`FitFrameHas`, `FitWindowHas` ...), `Score` being
positive exactly if something is shared (`ScoreIs`).

A polygon's own invariant is its type; the work is in what `Inside` computes.
`CrossesIs` states a crossing by the sign of one product, `TriangleInside` counts
them by how many corners lie above the point, and `FromSame` and `BackwardsSame`
match the edges of two drawings of one polygon.  `MediaInv`: the boxes read so far
fill the file up to the offset (`BoxesFill`).  `ContentInv` says that a repository
that is ready was sound when it started.  The exposures above one form a chain of
falling ranks that ends in a root, since it would otherwise have more members than
there are exposures (`Chain`, `AboveIs`), and a place in the sorted areas is the
number of areas before it, which fills the places (`PlacesFill`).

### Observations
The other parts of `ObservationsInv` follow an observation from the camera to the
buffer.  `ObservationsStep` takes a step part by part, and no part's step disturbs
the invariant of another.

`BufferInv`: while the session collects, every timeline entry, index and count is
what the batches answered 202 determine (`Booked`, `TimelineKept`).  A batch is
folded on working copies, so the same is said of those after its first i
observations; `Reported` of the copies grows by one observation a step, and a
refusal leaves the old tables.  At the handover, `InOrder` needs that a frame's
place is settled by its context, which later halves cannot change.  The log is
refined by what is known, `given` after completion and `timeline` before; in the
kiosk's part of the composition the timeline holds other values, and there `LogSpec`
stays with TLC.  `AdmissionInv`: the counters of a connection are those of the
frame admitted last (`LastInv`), the ring holds the newest admitted keys in their
order (`OrderInv`), and the client has been told what became of each message
(`ToldInv`).

`SessionInv`, for the live session: `FramesInv` lets only the newest frame wait, so
that it can have but one end; `ApiInv` has an event for every batch the API knows,
so that a retry adds none; `OpenInv` says that nothing is open before the session.

`PlayerInv`, for the kiosk's lists: a result is of an earlier capture than the one
under way, and neither time nor, within an epoch, the video goes back between
captures (`Follows`); the epoch counts the seeks.  What is built from the lists,
which hold results in the order they came, is described without their order:
`Frames` is a list because the ranks of its members are the numbers from one to
their count.  `LoopAt` is the state of `buildObservations` after i frames, and what
it reports of frame i is told from the start of i's unbroken stretch (`StartsAt`,
`Told`), of which there is one.  `SubmissionInv` has the batches cut the
observations at multiples of the chunk (`Batched`), and while they are sent the
store holds the first of them up to a batch's end, and nothing else (`Underway`,
`Filled`).  The next batch then meets neither a conflict nor a reused sequence nor
a step back, which the order of the observations excludes (`Row`): it is refused
only for want of room or for a frame at the video's very end.

### Gateway
`StreamInv` says of each frame by itself where its threads and its picture are.
`FaceInv`: a frame is the executor's exactly when `process` has given the adapter
up.  `DecodeInv`: the picture exists as soon as decoding has ended well.
`ProcInv` and `LeftInv`: either the process task is at the frame, or a callback
waits for whatever the task left running, which is why nothing stays open.
`PendingInv`: such a callback finds the frame as the task left it, which is why
nothing is closed twice.  `OneOwner` (all deferred work is of one frame) is what
makes accepting the next frame safe.  `WorkerInv` forbids queued work at a worker
that closes, so that the executor's last task is the disposal.

### Eye worker
`RuntimeInv` ties what `_state_lock` guards together: one calibration runs, it
has the queue, its session is bound to it and no model is in use meanwhile.
`RunInv` has the adapter's lock held by the one calibration that captures;
`CancelInv` keeps the event set as long as a cancelled calibration runs.
`ModelInv` covers the gap between the capture and the verdict, when the lock is
free: the adapter has the calibration's model unless an `end_session` was
quicker, and that is the case `ModelOfSession` excepts.  `FrameInv` follows a
frame from the flags `infer` copied into the queue, `QueueInv` says whose queue
may hold frames, and `EndInv` that an end has cancelled what it found running.

A behaviour of `EyeService` is of one part, and `ServiceInv` has an invariant for
each.  `AdapterInv`, for the adapter: what is cached has been said, of the
calibration and stream in use (`CacheInv`), and the adapter follows the stream of
the answers it gave last (`FollowInv`), without which a repeated answer could let
the order go back.  `StabilizerInv`, for the filter, says what `gaze_stabilizer.py`
keeps in terms of the looks so far: the confirmed point is the one taken last or a
pause came since (`ConfirmedInv`), the last input that of the look that counted
last (`InputInv`), and a jump that is not pending any more was confirmed or outlived
by a frame without a face (`PendingInv`).  `EachFrame` reduces the code's branches
to six kinds of steps; the filter's content is followed by counting the looks taken
since each (`SinceGrows`).

Three more parts make `CalibrationFair`.  `CourseInv`, for a run: every training
sample is of a capture of its own and no repair is lost (`SampleInv`), what judges
was captured last, in the phase at hand (`JudgedInv`), and the targets announced
are those captured and those to come (`CountInv`, which also keeps the repairs
still owed within their limit).  `CaptureInv`, for a target: the stretch of
stillness that `stable_since` names began with a frame, and no face since was
elsewhere (`StretchInv`), so a frame past the limits is a sample like those kept
before (`StillnessInv`); while a face is in place, the samples are all frames since
it came (`HoldInv`).  `TrainingInv`, for a model: `ErrorInv` has every usable frame
miss by one error.  A finite set of errors then has a k-th smallest one
(`KthExists`), these are in order, and the gate on the interpolated median bounds
half of the errors (`MedianSound`).

### Kiosk
The camera's part, `SourceInv`, is inductive by itself: every open operation and
capture is the source's, or it was cancelled.  `BegunInv` numbers the flows, and
`FlowInv` gives a flow that may still be aborted its controller, so that whoever
leaves a screen reaches it.  `SessionInv` follows a session from the moment the
kiosk learns of it to the screen or the bin.  `QueueInv` orders the serialized
operations as their flows began, which is why a stop that was queued first
cannot end a session that was started later; `WaitInv` and `ShotInv` do the same
for camera requests and frames that resume in a newer flow.  `ScreenInv` is what
the other parts may conclude from a screen.

### Stream client
`LinkInv` is about the messages on their way.  `OnePlace`: a topic is on its way
up, with the gateway, or on its way down, never in two places.  `SomebodyWaits`:
wherever it is, its call is waiting.  `StopIsLast`: no frame comes after a stop.
An answer therefore finds its waiter, although calls time out, because whatever
gives a call up also ends the connection.  `StartsInv`, `ControlInv`,
`CaptureInv` and `FrameInv` say what is under way at the client in each phase of
a session.

### Release, database, manager screen, v1 store
These are proved part by part; `EachPart` shows that a step of `Server` is a step
of at most one part, and `ReleasesAreSound` and the others carry the results over
to its specification, which is the one the run checks.

* `ReleaseInv`: what the link may be set to next has images (`BuiltInv`), where
  the script is and what it has marked (`ScriptInv`), and what it knows of the
  state it found (`FoundInv`), which is what the log is about when a signal cuts
  the script.
* `DatabaseInv`: what is recorded has been applied, and the files before the one
  that comes next have taken effect in this run of the tool (`ToolInv`).
* `ManagerInv`: events are numbered without a hole (`LogInv`), what the page has
  seen is on the screen or about to be (`PageInv`), and all events up to the
  cursor were seen (`CursorInv`).  Without the last a poll could advance the
  cursor past an event that another poll had left out.
* `StoreInv`: a session is completed when it has a result; conversions and events
  are of results, one per outcome or request.
* `KeptInv`: a session that is not completed keeps `FeaturesOf` its events, which
  have different sequences, finitely many.  `AcceptIs` shows that one more event
  makes of it what `accept` does, whatever came before, and `FoldIs` that a batch
  does.  The rest of `FeaturesExact` needs only the shape of what is kept
  (`Shape`).  `TimeFits` sums the same parts by product and by bucket
  (`SumSwaps`), and a bucket's scaled shares are at most a bucket (`PartsFit`).
  `RunsAre` splits the runs into the first of each epoch and those after a gap.
  `BetterIs` compares scores as fractions (`Fractions`): the order is strict, so
  there is a first (`BestIs`), and who dominates has the higher score.

### What stays with TLC
Liveness (`PendingEnds`, `EvidenceDisposed`, `RowsSettle`, `ClientIsAnswered`,
`AllGivenBack`, `NobodyWaits`, `CallsEnd`, `EventsReachTheScreen`) and whatever
needs `ENABLED`.  Every invariant and every action property of the passing runs is
proved.

The library's induction theorems take an operator, which no backend instantiates.
Where a definition recurses by a recursive function (`Selection`, the buffer's
`Folded`, the loop of `buildObservations`) or a fold of the community modules (the
v1 store's), the induction is done with sets instead of predicates: a set of
numbers has a least one (`Least`), one that holds 0 and the successor of each holds
all of them (`Steps`), and a set of subsets that holds the empty set, and a set if it
holds what is left without any one member, holds all of them (`SubsetsAll`).

## 6. Findings

* `live_restart`: `maintenance_loop` (main.py:203) calls `initialize_runtime`
  when a probe fails, which closes the rows of the running process as
  `service_restart`.  The README says that happens at start-up.
* `lost_cancel`: a DELETE between `begin_completion` and `save_pending` leaves
  a row in flight that only orphan cleanup settles, half an hour later.
* `no_job`: more than 128 evidence windows raise after the state became
  pending; the session answers pending without a job until its TTL.
* `kiosk_camera`: the catch block of a start that was given up (App.tsx:1187)
  stops the camera before it looks at the generation; the camera may be that of
  the start that followed, which then calibrates without a picture.
* `missing_gaze`: a frame without gaze between two frames on one product makes a
  return candidate (v2_evidence.py:286), though contracts/README.md:50 has a
  missing modality reset the state.  `WindowsExact` describes what the loop
  counts; `ReturnsAreWatched` is the contract's bound, which it exceeds.

Seen while modelling, without a run:

* gateway: `start_calibration` is accepted while inference runs, and a frame with
  a calibration target then gets samples (server.py:477;
  contracts/vision-stream-v1/README.md:77 says both are null).
* gateway: when the face worker's sample is of another frame, an error is sent
  without `defer_eye_cleanup` (server.py:700-704), so the Eye request is tracked
  by nobody and the next frame is let in beside it, although
  contracts/vision-stream-v1/README.md:31 has one frame in flight.  The branch is
  `FaceMismatch`, tested in test_vision_stream_gateway.py:719; `OneFrameAtWork`
  excepts such a request and nothing else.
* answers: contracts/README.md:60 has a cited window or candidate be of the
  selected product.  With source AOIs (v2_central.py:1006-1017) a cited frame need
  only lie in exactly one of them, and that may be one that shares nothing with
  the product: `CitesWhatWasSeen` then asks no more than the code, that some frame
  of the session speaks for the product.
* batches: the player stops capturing while the video is paused, but marks only
  seeks; a pause that ends within the continuity gap of the last capture is
  counted as watched (observation-batch-v2.ts:244 looks at the times of captures),
  which `Unbroken` says as well.
* answers: with the Luna client a session with gaze but no window and no source
  AOI is asked, and its output schema refuses what it may cite; so do source AOIs
  that share no feature with any product, and variant B of frames all in nested
  areas.  The session fails with `invalid_model_output` (`DeadEnd`).
* batches: a frame captured while `currentTime` equals the duration
  (LookbookPlayer.tsx:266, v2_store.py:869), or a video longer than 512 frames
  (v2_store.py:926), makes the API refuse a batch, and the kiosk discards the
  session; `SubmissionExact` states exactly these exceptions.
* memory mode has no maintenance loop: expired observations stay until the next
  request.
* Eye worker: `infer` may answer with the model of a calibration that finished
  while it waited (worker.py:306); an `end_session` that takes the adapter
  between the capture and the verdict of a newer calibration of the same session
  leaves the worker ready without a model (`ModelOfSession` names the case).
* operations: `db_migrate` applies migration 3 again on every run and with it
  fails the jobs of an API that is serving; a TERM between `ln -sfn`
  (deploy-release.sh:112) and `switched=1` leaves the link changed while the log
  says that the release was not (`cut`, which `LogIsTrue` excepts).
* manager: after a restart of the API sequences begin at 0, so that an open page's
  cursor hides new events until it is loaded anew (`restarted`).
* kiosk: a session whose creation is answered only after its request was aborted
  is left to the API's TTL.

## 7. Plan

Done: every running part of the system has a module; the job protocol with its
contract, observations from the camera to the decision, gateway, eye worker, kiosk
flow with its camera, stream client, release, database, manager screen and v1 store
have theorems.  Left, in order:

1. An abstract gateway that `VisionStream` implements and `VisionClient` uses in
   place of its external actions, so that the two sides are composed.
2. What a frame result contains when it carries a calibration target.

## 8. Not modelled

The format and signature of stream tokens (that a token opens one connection is
in `StreamAdmission`).  Rendering, styling and test doubles; prompt text and HTTP
details of the model clients; averages and other ratios of the evidence; offline
experiments, benchmarks, contract validation scripts and data, which run over
files outside the system (over 7,000 of the implementation's lines); the wiring,
signals, diagnostics and demonstrations of the local gateway; the Eye adapter's
numbers and its legacy profile.

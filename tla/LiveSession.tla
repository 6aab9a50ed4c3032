----------------------------- MODULE LiveSession -----------------------------
(***************************************************************************)
(* A session that is run in one process: the live runner with its camera    *)
(* (apps/vision_gateway/d8_live.py), the session runner (runner.py) and the *)
(* in-process gateway (gateway.py) with its FaceWorker, whose adapter may   *)
(* outlast its deadline on a thread of its own.  The API at the other end   *)
(* is external: a call may fail before it took effect, or its answer may be *)
(* lost.                                                                   *)
(*                                                                         *)
(* A call is one action: the callers take turns, and the only other thread  *)
(* is the adapter's.  A frame's gaze and face have its frame_id, so that    *)
(* they are joined as soon as both are there (ObservationJoiner).  Closing  *)
(* a worker waits for its adapter; restart_worker does so under the lock    *)
(* that the adapter's end needs, and is stuck if the adapter still runs.    *)
(***************************************************************************)
EXTENDS Naturals, Sequences

CONSTANTS MaxImages, MaxFaults  \* bounds

LiveAssumption == MaxImages \in Nat /\ MaxFaults \in Nat

VARIABLES
  live,       \* the D8LiveSessionRunner: "new", "open", "closed", or "none": a session runner without it
  camera,     \* the camera is open
  session,    \* session_id is set
  gateway, eye,  \* _state, and the replay eye port is open
  worker,     \* the FaceWorker: "none", "idle" (not started) or "started"
  restart,    \* _restart_pending
  offered,    \* frames offered so far
  waiting,    \* _pending
  inFlight,   \* the frame of _in_flight
  image,      \* the captured frame: "none", "open", "closed" or "twice"
  ends,       \* history: what became of each frame, in order
  batches,    \* frames of the session runner's _batches
  cancelled, closed,   \* _cancelled and _closed of the session runner
  known, events, completed,  \* the API: batch ids, frames whose events it has, the end
  stuck,      \* the caller does not return
  faults

user == <<live, camera, session>>
gate == <<gateway, eye, worker, restart>>
frames == <<offered, waiting, inFlight, image, ends>>
runner == <<batches, cancelled, closed>>
api == <<known, events, completed>>
sessionVars == <<user, gate, frames, runner, api, stuck, faults>>

Images == 1..MaxImages
None == 0

SessionInit ==
  /\ live \in {"none", "new"} /\ camera = FALSE /\ session = FALSE
  /\ gateway = "new" /\ eye = TRUE /\ worker = "none" /\ restart = FALSE
  /\ offered = 0 /\ waiting = None /\ inFlight = None
  /\ image = [f \in Images |-> "none"] /\ ends = [f \in Images |-> <<>>]
  /\ batches = <<>> /\ cancelled = FALSE /\ closed = FALSE
  /\ known = {} /\ events = <<>> /\ completed = FALSE
  /\ stuck = FALSE /\ faults = 0

Fault == faults < MaxFaults /\ faults' = faults + 1
Started == session /\ live # "closed" /\ ~stuck
Running == Started /\ ~cancelled /\ ~closed

Shut(f) == [image EXCEPT ![f] = IF @ = "open" THEN "closed" ELSE "twice"]
With(history, f, end) ==
  IF f = None THEN history ELSE [history EXCEPT ![f] = Append(@, end)]

-----------------------------------------------------------------------------
(* The API's ingest (store.py, append_batch), and what the caller sees.     *)

Known(id, f) ==
  /\ known' = known \cup {id}
  /\ events' = IF id \in known \/ \E i \in DOMAIN events : events[i] = f THEN events
               ELSE Append(events, f)

Ingested(id, f) == ~completed /\ Known(id, f) /\ UNCHANGED <<completed, faults>>

\* The call fails, before or after it took effect.
IngestFails(id, f) ==
  /\ UNCHANGED completed
  /\ \/ completed /\ UNCHANGED <<known, events, faults>>
     \/ Fault /\ UNCHANGED <<known, events>>
     \/ Fault /\ ~completed /\ Known(id, f)

-----------------------------------------------------------------------------
(* The gateway.                                                             *)

\* A worker just made: its start may fail.
Fresh == {"idle", "started"}

\* connect
Connected ==
  /\ gateway \in {"new", "disconnected"} /\ gateway' = "connected"
  /\ worker' \in Fresh /\ UNCHANGED <<eye, restart>>

\* disconnect and _finish: the frame that waits is dropped and the worker
\* closed, which waits for an adapter at work; that closes its image and
\* releases the gateway (the callbacks of process and dispatch_next).
Ended(state, reason) ==
  /\ gateway' = state /\ worker' = "none" /\ UNCHANGED restart
  /\ waiting' = None /\ ends' = With(ends, waiting, reason) /\ UNCHANGED offered
  /\ inFlight' = None /\ image' = IF inFlight = None THEN image ELSE Shut(inFlight)

\* Mutant: the gateway is free at the deadline.
FreeAtDeadline(f, outcome) ==
  /\ inFlight' = None
  /\ image' = [image EXCEPT ![f] = IF outcome = "late" THEN "open" ELSE "closed"]

\* An adapter that outlasts the time its caller gives it keeps the image and
\* the gateway; whatever else comes of the frame, its image is closed.
Imaged(f, outcome) ==
  /\ inFlight' = IF outcome = "late" THEN f ELSE None
  /\ image' = [image EXCEPT ![f] = IF outcome = "late" THEN "open" ELSE "closed"]

\* dispatch_next on a free gateway: an eye port that is closed, or an answer,
\* after which the worker made by restart_worker is started.
Outcomes ==
  IF ~eye THEN {"failed"} ELSE IF worker = "started" THEN {"observed", "late"} ELSE {"observed"}

Dispatched(f, outcome) ==
  /\ Imaged(f, outcome) /\ UNCHANGED <<gateway, eye>>
  /\ IF restart /\ outcome # "failed"
       THEN restart' = FALSE /\ worker' \in IF worker = "idle" THEN Fresh ELSE {worker}
       ELSE UNCHANGED <<restart, worker>>

\* The adapter at work ends. restart_worker holds the lock that releasing needs.
AdapterEnds ==
  /\ inFlight # None /\ image[inFlight] = "open"
  /\ image' = Shut(inFlight) /\ inFlight' = IF stuck THEN inFlight ELSE None
  /\ UNCHANGED <<user, gate, offered, waiting, ends, runner, api, stuck, faults>>

-----------------------------------------------------------------------------
(* Starting.                                                                *)

\* start, of the live runner with its camera first.
Start ==
  /\ ~session /\ live # "closed" /\ session' = TRUE /\ Connected
  /\ IF live = "new" THEN live' = "open" /\ camera' = TRUE ELSE UNCHANGED <<live, camera>>
  /\ UNCHANGED <<frames, runner, api, stuck, faults>>

\* The camera does not open; start may be tried again.
CameraFails ==
  /\ ~session /\ live = "new" /\ Fault
  /\ UNCHANGED <<user, gate, frames, runner, api, stuck>>

\* No session is created; the live runner is cancelled.
StartFails ==
  /\ ~session /\ live # "closed" /\ Fault
  /\ live' = IF live = "new" THEN "closed" ELSE live
  /\ UNCHANGED <<camera, session, gate, frames, runner, api, stuck>>

-----------------------------------------------------------------------------
(* Frames.                                                                  *)

\* Mutant: a frame that is replaced is not reported.
DroppedUnseen == ends

\* offer: the frame that waits is dropped for the new one.
Superseded == With(ends, waiting, "superseded")

\* cancel of the live runner, in the midst of f: it ends everything.
LiveCancelled(f, end) ==
  /\ live' = "closed" /\ camera' = FALSE /\ cancelled' = TRUE /\ batches' = <<>>
  /\ gateway' = "cancelled" /\ eye' = FALSE /\ worker' = "none"
  /\ ends' = With(Superseded, f, end)

\* process_envelope: offer, dispatch_next and the ingest of what it gives.
Begins(f) == Running /\ f = offered + 1 /\ offered' = f /\ UNCHANGED <<session, closed, stuck>>

Process(f) ==
  /\ Begins(f) /\ gateway = "connected" /\ inFlight = None /\ waiting' = None
  /\ \E outcome \in Outcomes \ {"failed"} :
       \/ /\ Ingested(<<f, "first">>, f) /\ Dispatched(f, outcome)
          /\ ends' = With(Superseded, f, "observed") /\ batches' = Append(batches, f)
          /\ UNCHANGED <<live, camera, cancelled>>
       \/ /\ live = "none" /\ IngestFails(<<f, "first">>, f) /\ Dispatched(f, outcome)
          /\ ends' = With(Superseded, f, "observed")
          /\ UNCHANGED <<live, camera, cancelled, batches>>
       \/ /\ live = "open" /\ IngestFails(<<f, "first">>, f)
          /\ LiveCancelled(f, "observed")
          /\ Imaged(f, "observed") /\ UNCHANGED restart

\* The camera has no frame, or the eye port is closed.
ProcessFails(f) ==
  /\ Begins(f) /\ gateway = "connected" /\ inFlight = None /\ waiting' = None
  /\ IF live = "open"
       THEN Fault /\ LiveCancelled(f, "failed") /\ UNCHANGED <<image, inFlight, restart>>
       ELSE /\ "failed" \in Outcomes /\ Dispatched(f, "failed")
            /\ ends' = With(Superseded, f, "failed")
            /\ UNCHANGED <<live, camera, cancelled, batches, faults>>
  /\ UNCHANGED api

\* The gateway is busy: the frame waits and the call fails.
ProcessBusy(f) ==
  /\ Begins(f) /\ gateway = "connected" /\ inFlight # None
  /\ IF live = "open"
       THEN /\ LiveCancelled(f, "cancelled") /\ waiting' = None /\ UNCHANGED restart
            /\ inFlight' = None /\ image' = Shut(inFlight)
       ELSE /\ waiting' = f /\ ends' = Superseded
            /\ UNCHANGED <<live, camera, gate, inFlight, image, cancelled, batches>>
  /\ UNCHANGED <<api, faults>>

\* retry_last_batch, with its id or a new one.
Retry(id) ==
  /\ Started /\ live = "none" /\ batches # <<>>
  /\ LET f == batches[Len(batches)] IN Ingested(<<f, id>>, f) \/ IngestFails(<<f, id>>, f)
  /\ UNCHANGED <<user, gate, frames, runner, stuck>>

-----------------------------------------------------------------------------
(* The connection, and the end.                                             *)

Disconnect ==
  /\ Started /\ live = "none"
  /\ Ended("disconnected", "disconnected")
  /\ UNCHANGED <<user, eye, runner, api, stuck, faults>>

Reconnect ==
  /\ Started /\ live = "none" /\ Connected
  /\ UNCHANGED <<user, frames, runner, api, stuck, faults>>

\* restart_worker
RestartWorker ==
  /\ Started /\ live = "none" /\ gateway = "connected"
  /\ IF inFlight = None THEN worker' = "idle" /\ restart' = TRUE /\ UNCHANGED stuck
     ELSE stuck' = TRUE /\ UNCHANGED <<worker, restart>>
  /\ UNCHANGED <<user, gateway, eye, frames, runner, api, faults>>

Cancel ==
  /\ Started /\ Ended("cancelled", "cancelled") /\ eye' = FALSE
  /\ cancelled' = TRUE /\ batches' = <<>>
  /\ IF live = "open" THEN live' = "closed" /\ camera' = FALSE ELSE UNCHANGED <<live, camera>>
  /\ UNCHANGED <<session, closed, api, stuck, faults>>

\* What complete does at the API, and whether the caller hears of it.
Completed ==
  \/ ~completed /\ completed' = TRUE /\ closed' = TRUE /\ UNCHANGED faults
  \/ completed /\ UNCHANGED <<completed, closed, faults>>
  \/ Fault /\ UNCHANGED closed /\ completed' \in {completed, TRUE}

\* close first takes up the frame that waits, if the gateway is free.
TakesWaiting == gateway = "connected" /\ inFlight = None /\ waiting # None

Close ==
  /\ Running
  /\ IF TakesWaiting
       THEN /\ ~completed /\ Known(<<waiting, "first">>, waiting)
            /\ ends' = With(ends, waiting, "observed") /\ Imaged(waiting, "observed")
            /\ batches' = Append(batches, waiting) /\ waiting' = None
            /\ gateway' = "closed" /\ worker' = "none" /\ restart' = FALSE /\ UNCHANGED offered
       ELSE Ended("closed", "cancelled") /\ UNCHANGED <<known, events, batches>>
  /\ eye' = FALSE /\ Completed
  /\ IF live = "open" THEN live' = "closed" /\ camera' = FALSE ELSE UNCHANGED <<live, camera>>
  /\ UNCHANGED <<session, cancelled, stuck>>

\* The ingest of the waiting frame fails: the session stays as it is.
CloseFails ==
  /\ Running /\ TakesWaiting /\ waiting' = None
  /\ IngestFails(<<waiting, "first">>, waiting)
  /\ \E outcome \in Outcomes : Dispatched(waiting, outcome)
  /\ ends' = With(ends, waiting, "observed")
  /\ UNCHANGED <<user, offered, runner, stuck>>

SessionNext ==
  \/ Start \/ CameraFails \/ StartFails
  \/ \E f \in Images : Process(f) \/ ProcessFails(f) \/ ProcessBusy(f)
  \/ \E id \in {"first", "retry"} : Retry(id)
  \/ AdapterEnds \/ Disconnect \/ Reconnect \/ RestartWorker \/ Cancel \/ Close \/ CloseFails

-----------------------------------------------------------------------------
(* Properties.                                                              *)

SessionTypeOK ==
  /\ live \in {"none", "new", "open", "closed"}
  /\ gateway \in {"new", "connected", "disconnected", "cancelled", "closed"}
  /\ worker \in {"none", "idle", "started"}
  /\ {camera, session, eye, restart, cancelled, closed, completed, stuck} \subseteq BOOLEAN
  /\ {offered, waiting, inFlight} \subseteq Images \cup {None}
  /\ \A f \in Images : image[f] \in {"none", "open", "closed", "twice"}
  /\ faults \in 0..MaxFaults

\* A frame that was offered waits, or came to one end (DropNotice, or what
\* dispatch_next returned or raised); an image is open exactly while the
\* adapter has it, and is closed once (frame_cleanup_deferred).
FramesEndOnce ==
  \A f \in Images :
    /\ Len(ends[f]) = IF f <= offered /\ f # waiting THEN 1 ELSE 0
    /\ image[f] # "twice"
    /\ image[f] = "open" => f = inFlight
    /\ inFlight = f => image[f] = "open" \/ stuck

\* The API has the events of frames that were observed, once and in their
\* order, and of every batch the runner may send again.
IngestedInOrder ==
  /\ \A i, j \in DOMAIN events : i < j => events[i] < events[j]
  /\ \A i \in DOMAIN events : ends[events[i]] = <<"observed">>
  /\ \A i \in DOMAIN batches : \E j \in DOMAIN events : events[j] = batches[i]

\* There is a worker while the gateway is connected, and the camera is open
\* only for a live runner; that one leaves nothing behind, whichever way it
\* ends (cancel and close of D8LiveSessionRunner).
NothingLeftOpen ==
  /\ worker # "none" <=> gateway = "connected"
  /\ camera <=> live = "open"
  /\ live = "closed" =>
       worker = "none" /\ waiting = None /\ inFlight = None /\ \A f \in Images : image[f] # "open"

SessionIsSound == SessionTypeOK /\ FramesEndOnce /\ IngestedInOrder /\ NothingLeftOpen
=============================================================================

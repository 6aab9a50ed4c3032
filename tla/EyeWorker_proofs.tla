-------------------------- MODULE EyeWorker_proofs --------------------------
(***************************************************************************)
(* The eye worker's two locks, for any number of sessions, calibrations,    *)
(* frames and requests: a cancellation wins, the model in use is of the     *)
(* session in use, and nothing outlives its session.  And what the worker   *)
(* says of live gaze: the adapter answers with the calibration it names,    *)
(* and no unconfirmed jump is shown.                                        *)
(***************************************************************************)
EXTENDS EyeService, FiniteSetTheorems, FunctionTheorems, SequenceTheorems, NaturalsInduction,
        WellFoundedInduction, TLAPS

-----------------------------------------------------------------------------
(* The inductive invariant.                                                 *)

\* The calibration has begun and not decided.
Running(c) == cal[c].pc \in {"locking", "capturing", "deciding"}

WasCancelled(c) == \E s \in Sessions : <<c, s>> \in cancelled

Typed == TypeOK /\ queue \in [Calibrations -> Seq(Frames)]

\* What _state_lock guards: one calibration runs, it has the queue and its
\* session is bound to it, and no model is in use meanwhile.
RuntimeInv ==
  /\ runtime.open <=> ~adapter.disposed
  /\ runtime.open <=> closing # "done"
  /\ runtime.queue # None <=> runtime.binding # None
  /\ runtime.queue # None =>
       /\ runtime.open /\ runtime.calibrated = None /\ runtime.summary \in {runtime.binding, None}
       /\ Running(runtime.queue) /\ cal[runtime.queue].session = runtime.binding
  /\ runtime.open /\ runtime.usable =>
       runtime.id # None /\ cal[runtime.id].session = runtime.calibrated

\* A calibration and the lock it may hold.
RunInv(c) ==
  /\ Running(c) => /\ ~runtime.usable /\ cal[c].session # None
                   /\ runtime.open => runtime.queue = c
                   /\ \A d \in Calibrations : Running(d) => d = c
  /\ holder = c <=> cal[c].pc = "capturing"
  /\ cal[c].pc = "capturing" => runtime.open
  /\ cal[c].pc = "none" => cal[c].session = None
  /\ cal[c].pc \in {"none", "locking", "capturing"} => ~cal[c].valid

\* A cancelled calibration finds the event set as long as it runs.
CancelInv(c) ==
  WasCancelled(c) =>
    /\ Running(c) => cancel
    /\ cal[c].pc # "none"
    /\ cal[c].pc \in {"draining", "done"} => ~cal[c].valid
    /\ ~(runtime.usable /\ runtime.id = c)

\* Between the capture and the verdict the adapter has the calibration's
\* model, unless an end of its session was quicker.
ModelInv(c) ==
  cal[c].pc = "deciding" /\ cal[c].valid /\ runtime.open =>
    \/ adapter.model = c
    \/ /\ adapter.model = None
       /\ \E e \in Enders : ending[e].pc = "done" /\ ending[e].session = cal[c].session

Queued(f, c) == \E i \in 1..Len(queue[c]) : queue[c][i] = f

\* A frame on its way into a queue, in it and taken from it.
FrameInv(f) ==
  /\ inf[f].pc \in {"accept", "put"} =>
       /\ inf[f].queue # None /\ inf[f].binding = cal[inf[f].queue].session
       /\ cal[inf[f].queue].pc # "none"
  /\ inf[f].pc = "put" => inf[f].session = inf[f].binding
  /\ \A c \in Calibrations :
       f \in trained[c] \/ Queued(f, c) =>
         inf[f].pc # "none" /\ cal[c].pc # "none" /\ inf[f].session = cal[c].session

QueueInv(c) == queue[c] # <<>> => runtime.queue = c \/ cal[c].pc = "draining"

\* An end of session has cancelled what ran for it, and forgets it.
EndInv(e) ==
  /\ ending[e].pc # "none" => ending[e].session # None
  /\ \A c \in ending[e].before :
       /\ cal[c].session = ending[e].session /\ ending[e].session # None
       /\ Running(c) /\ runtime.open => WasCancelled(c)
       /\ ending[e].pc = "done" => ~(runtime.open /\ runtime.usable /\ runtime.id = c)

EyeInv ==
  /\ Typed /\ RuntimeInv /\ NobodyElseCancels /\ ModelOfSession
  /\ \A c \in Calibrations : RunInv(c) /\ CancelInv(c) /\ ModelInv(c) /\ QueueInv(c)
  /\ \A f \in Frames : FrameInv(f)
  /\ \A e \in Enders : EndInv(e)

\* The safety properties follow.
LEMMA EyeInvSafe == EyeInv => CancelsExact /\ ModelIsOwn /\ NothingStays
<1> SUFFICES ASSUME EyeInv PROVE CancelsExact /\ ModelIsOwn /\ NothingStays
  OBVIOUS
<1>1. CancelWins /\ NobodyElseCancels
  BY DEF EyeInv, CancelInv, WasCancelled, CancelWins
<1>2. TypeOK /\ ModelOfSession
  BY DEF EyeInv, Typed
<1>3. TrainedOnOwn
  BY DEF EyeInv, Typed, TypeOK, FrameInv, TrainedOnOwn
<1>4. FramesReleased
  BY EyeAssumption DEF EyeInv, QueueInv, RuntimeInv, Running, FramesReleased
<1>5. EndedSessionForgotten
  BY DEF EyeInv, EndInv, EndedSessionForgotten
<1>6. QED
  BY <1>1, <1>2, <1>3, <1>4, <1>5 DEF CancelsExact, ModelIsOwn, NothingStays

\* A worker that was just made satisfies the invariant.
LEMMA InitEye == Init => EyeInv
<1> SUFFICES ASSUME Init PROVE EyeInv
  OBVIOUS
<1>1. Typed
  <2>1. /\ runtime \in [open : BOOLEAN, usable : BOOLEAN, id : CalibrationOrNone,
                  queue : CalibrationOrNone, binding : SessionOrNone,
                  calibrated : SessionOrNone, summary : SessionOrNone, last : Nat]
        /\ cancel \in BOOLEAN /\ adapter \in [disposed : BOOLEAN, model : CalibrationOrNone]
        /\ holder \in CalibrationOrNone
    BY DEF Init, SessionOrNone, CalibrationOrNone
  <2>2. cal \in [Calibrations ->
       [pc : {"none", "locking", "capturing", "deciding", "draining", "done"},
        session : SessionOrNone, valid : BOOLEAN]]
    BY DEF Init, SessionOrNone, CalibrationOrNone
  <2>3. inf \in [Frames -> [pc : {"none", "accept", "put", "gaze", "done"}, session : SessionOrNone,
                         mark : CalibrationOrNone, queue : CalibrationOrNone,
                         binding : SessionOrNone]]
    BY DEF Init, SessionOrNone, CalibrationOrNone
  <2>4. queue \in [Calibrations -> Seq(Frames)] /\ \A c \in Calibrations : Len(queue[c]) <= QueueSize
    BY EyeAssumption DEF Init
  <2>5. ending \in [Enders -> [pc : {"none", "locking", "done"}, session : SessionOrNone,
                            before : SUBSET Calibrations]]
    BY DEF Init, SessionOrNone
  <2>6. closing \in {"none", "locking", "done"} /\ trained \in [Calibrations -> SUBSET Frames]
        /\ cancelled \subseteq Calibrations \X Sessions /\ model \in [Frames -> CalibrationOrNone]
    BY DEF Init, CalibrationOrNone
  <2>7. QED
    BY <2>1, <2>2, <2>3, <2>4, <2>5, <2>6 DEF Typed, TypeOK
<1>2. RuntimeInv /\ NobodyElseCancels /\ ModelOfSession
  BY DEF Init, RuntimeInv, NobodyElseCancels, ModelOfSession
<1>3. ASSUME NEW c \in Calibrations PROVE RunInv(c) /\ CancelInv(c) /\ ModelInv(c) /\ QueueInv(c)
  BY EyeAssumption DEF Init, RunInv, CancelInv, ModelInv, QueueInv, Running, WasCancelled
<1>4. ASSUME NEW f \in Frames PROVE FrameInv(f)
  BY DEF Init, FrameInv, Queued
<1>5. ASSUME NEW e \in Enders PROVE EndInv(e)
  BY DEF Init, EndInv
<1>6. QED
  BY <1>1, <1>2, <1>3, <1>4, <1>5 DEF EyeInv

-----------------------------------------------------------------------------
(* Types.                                                                   *)

RuntimeType == [open : BOOLEAN, usable : BOOLEAN, id : CalibrationOrNone,
                queue : CalibrationOrNone, binding : SessionOrNone,
                calibrated : SessionOrNone, summary : SessionOrNone, last : Nat]
RunType == [pc : {"none", "locking", "capturing", "deciding", "draining", "done"},
            session : SessionOrNone, valid : BOOLEAN]
InferType == [pc : {"none", "accept", "put", "gaze", "done"}, session : SessionOrNone,
              mark : CalibrationOrNone, queue : CalibrationOrNone, binding : SessionOrNone]
EndType == [pc : {"none", "locking", "done"}, session : SessionOrNone, before : SUBSET Calibrations]
AdapterType == [disposed : BOOLEAN, model : CalibrationOrNone]
Queue == {q \in Seq(Frames) : Len(q) <= QueueSize}

\* The type invariant, variable by variable.
LEMMA EyeTypes ==
  ASSUME EyeInv
  PROVE  /\ runtime \in RuntimeType /\ cancel \in BOOLEAN /\ adapter \in AdapterType
         /\ holder \in CalibrationOrNone /\ queue \in [Calibrations -> Queue]
         /\ cal \in [Calibrations -> RunType] /\ inf \in [Frames -> InferType]
         /\ ending \in [Enders -> EndType] /\ closing \in {"none", "locking", "done"}
         /\ trained \in [Calibrations -> SUBSET Frames]
         /\ cancelled \subseteq Calibrations \X Sessions /\ model \in [Frames -> CalibrationOrNone]
BY DEF EyeInv, Typed, TypeOK, RuntimeType, RunType, InferType, EndType, AdapterType, Queue

\* The types of the next state, from the typed values of a step.
LEMMA EyeTypesNext ==
  ASSUME runtime' \in RuntimeType, cancel' \in BOOLEAN, adapter' \in AdapterType,
         holder' \in CalibrationOrNone, queue' \in [Calibrations -> Queue],
         cal' \in [Calibrations -> RunType], inf' \in [Frames -> InferType],
         ending' \in [Enders -> EndType], closing' \in {"none", "locking", "done"},
         trained' \in [Calibrations -> SUBSET Frames],
         cancelled' \subseteq Calibrations \X Sessions, model' \in [Frames -> CalibrationOrNone]
  PROVE  Typed'
BY DEF Typed, TypeOK, RuntimeType, RunType, InferType, EndType, AdapterType, Queue,
       SessionOrNone, CalibrationOrNone

-----------------------------------------------------------------------------
(* run_calibration.                                                         *)

\* A calibration takes the queue over when no other runs.
LEMMA CalibrationBeginsStep ==
  ASSUME EyeInv, NEW c \in Calibrations, CalibrationBegins(c)
  PROVE  EyeInv'
<1>1. PICK s \in Sessions :
        /\ runtime' = [runtime EXCEPT !.usable = FALSE, !.id = c, !.queue = c, !.binding = s,
                                      !.calibrated = None, !.summary = s, !.last = 0]
        /\ cal' = [cal EXCEPT ![c].pc = "locking", ![c].session = s]
  BY DEF CalibrationBegins
<1>2. /\ cal[c].pc = "none" /\ runtime.open /\ runtime.queue = None /\ cancel' = FALSE
      /\ UNCHANGED <<adapter, holder, queue, inf, ending, closing, trained, cancelled, model>>
  BY DEF CalibrationBegins, history
<1>3. /\ cal' \in [Calibrations -> RunType] /\ cal'[c].pc = "locking" /\ cal'[c].session = s
      /\ ~cal'[c].valid /\ \A x \in Calibrations : x # c => cal'[x] = cal[x]
  BY <1>1, <1>2, EyeTypes DEF EyeInv, RunInv, RunType, SessionOrNone
<1>4. /\ runtime' \in RuntimeType /\ runtime'.open /\ ~runtime'.usable /\ runtime'.id = c /\ runtime'.queue = c
      /\ runtime'.binding = s /\ runtime'.calibrated = None /\ runtime'.summary = s
  BY <1>1, <1>2, EyeTypes DEF RuntimeType, SessionOrNone, CalibrationOrNone
<1>5. \A x \in Calibrations : ~Running(x)
  BY <1>2, EyeAssumption DEF EyeInv, RunInv
<1>6. Typed'
  BY <1>1, <1>2, <1>3, <1>4, <1>5, EyeTypes, EyeTypesNext
<1>7. RuntimeInv'
  BY <1>1, <1>2, <1>3, <1>4, <1>5, EyeTypes, EyeAssumption DEF EyeInv, RuntimeInv, RunInv, Running, RuntimeType, RunType, InferType, EndType, AdapterType, SessionOrNone, CalibrationOrNone
<1>8. NobodyElseCancels' /\ ModelOfSession'
  BY <1>1, <1>2, <1>3, <1>4, <1>5, EyeTypes, EyeAssumption DEF EyeInv, RuntimeInv, RunInv, ModelInv, CancelInv, WasCancelled, NobodyElseCancels, ModelOfSession, Running, RuntimeType, RunType, InferType, EndType, AdapterType, SessionOrNone, CalibrationOrNone
<1>9. ASSUME NEW x \in Calibrations PROVE RunInv(x)'
  BY <1>1, <1>2, <1>3, <1>4, <1>5, EyeTypes, EyeAssumption DEF EyeInv, RuntimeInv, RunInv, Running, RuntimeType, RunType, InferType, EndType, AdapterType, SessionOrNone, CalibrationOrNone
<1>10. ASSUME NEW x \in Calibrations PROVE CancelInv(x)'
  <2>1. WasCancelled(x)' <=> WasCancelled(x)
    BY <1>1, <1>2, <1>3, <1>4, <1>5 DEF WasCancelled
  <2>2. QED
    BY <1>1, <1>2, <1>3, <1>4, <1>5, <2>1, EyeTypes DEF EyeInv, CancelInv, RunInv, Running
<1>11. ASSUME NEW x \in Calibrations PROVE ModelInv(x)' /\ QueueInv(x)'
  BY <1>1, <1>2, <1>3, <1>4, <1>5, EyeTypes, EyeAssumption DEF EyeInv, RuntimeInv, RunInv, ModelInv, QueueInv, Running, RuntimeType, RunType, InferType, EndType, AdapterType, SessionOrNone, CalibrationOrNone
<1>12. ASSUME NEW g \in Frames PROVE FrameInv(g)'
  BY <1>1, <1>2, <1>3, <1>4, <1>5, EyeTypes, EyeAssumption DEF EyeInv, FrameInv, Queued, RuntimeType, RunType, InferType, EndType, AdapterType, SessionOrNone, CalibrationOrNone
<1>13. ASSUME NEW d \in Enders PROVE EndInv(d)'
  <2>1. \A x \in Calibrations : WasCancelled(x)' <=> WasCancelled(x)
    BY <1>1, <1>2, <1>3, <1>4, <1>5 DEF WasCancelled
  <2>2. QED
    BY <1>1, <1>2, <1>3, <1>4, <1>5, <2>1, EyeTypes DEF EyeInv, EndInv, RunInv, Running, EndType
<1>14. QED
  BY <1>6, <1>7, <1>8, <1>9, <1>10, <1>11, <1>12, <1>13 DEF EyeInv

\* A calibration that is refused touches nothing else.
LEMMA CalibrationRefusedStep ==
  ASSUME EyeInv, NEW c \in Calibrations, CalibrationRefused(c)
  PROVE  EyeInv'
<1>1. /\ cal[c].pc = "none" /\ cal' = [cal EXCEPT ![c].pc = "done"]
      /\ UNCHANGED <<runtime, cancel, adapter, holder, queue, inf, ending, closing, trained, cancelled, model>>
  BY DEF CalibrationRefused, history
<1>2. /\ cal' \in [Calibrations -> RunType] /\ cal'[c].pc = "done" /\ cal'[c].session = cal[c].session
      /\ ~cal'[c].valid /\ \A x \in Calibrations : x # c => cal'[x] = cal[x]
  BY <1>1, EyeTypes DEF EyeInv, RunInv, RunType
<1>3. Typed'
  BY <1>1, <1>2, EyeTypes, EyeTypesNext
<1>4. RuntimeInv'
  BY <1>1, <1>2, EyeTypes, EyeAssumption DEF EyeInv, RuntimeInv, RunInv, Running, RuntimeType, RunType, InferType, EndType, AdapterType, SessionOrNone, CalibrationOrNone
<1>5. NobodyElseCancels' /\ ModelOfSession'
  BY <1>1, <1>2, EyeTypes, EyeAssumption DEF EyeInv, RuntimeInv, RunInv, ModelInv, CancelInv, WasCancelled, NobodyElseCancels, ModelOfSession, Running, RuntimeType, RunType, InferType, EndType, AdapterType, SessionOrNone, CalibrationOrNone
<1>6. ASSUME NEW x \in Calibrations PROVE RunInv(x)'
  BY <1>1, <1>2, EyeTypes, EyeAssumption DEF EyeInv, RuntimeInv, RunInv, Running, RuntimeType, RunType, InferType, EndType, AdapterType, SessionOrNone, CalibrationOrNone
<1>7. ASSUME NEW x \in Calibrations PROVE CancelInv(x)'
  <2>1. WasCancelled(x)' <=> WasCancelled(x)
    BY <1>1, <1>2 DEF WasCancelled
  <2>2. QED
    BY <1>1, <1>2, <2>1, EyeTypes DEF EyeInv, CancelInv, RunInv, Running
<1>8. ASSUME NEW x \in Calibrations PROVE ModelInv(x)' /\ QueueInv(x)'
  BY <1>1, <1>2 DEF EyeInv, ModelInv, QueueInv
<1>9. ASSUME NEW g \in Frames PROVE FrameInv(g)'
  BY <1>1, <1>2, EyeTypes, EyeAssumption DEF EyeInv, FrameInv, Queued, RuntimeType, RunType, InferType, EndType, AdapterType, SessionOrNone, CalibrationOrNone
<1>10. ASSUME NEW d \in Enders PROVE EndInv(d)'
  <2>1. \A x \in Calibrations : WasCancelled(x)' <=> WasCancelled(x)
    BY <1>1, <1>2 DEF WasCancelled
  <2>2. QED
    BY <1>1, <1>2, <2>1, EyeTypes DEF EyeInv, EndInv, RunInv, Running, EndType
<1>11. QED
  BY <1>3, <1>4, <1>5, <1>6, <1>7, <1>8, <1>9, <1>10 DEF EyeInv

\* A capture starts from no model, under the adapter's lock.
LEMMA CaptureBeginsStep ==
  ASSUME EyeInv, NEW c \in Calibrations, CaptureBegins(c)
  PROVE  EyeInv'
<1>1. /\ cal[c].pc = "locking" /\ holder = None
      /\ UNCHANGED <<runtime, cancel, queue, inf, ending, closing, trained, cancelled, model>>
  BY DEF CaptureBegins, history
<1>2. PICK goes \in {"deciding", "capturing"} :
        /\ cal' = [cal EXCEPT ![c].pc = goes]
        /\ goes = "deciding" => adapter.disposed /\ UNCHANGED <<adapter, holder>>
        /\ goes = "capturing" => /\ ~adapter.disposed /\ holder' = c
                               /\ adapter' = [adapter EXCEPT !.model = None]
  BY DEF CaptureBegins
<1>3. /\ cal' \in [Calibrations -> RunType] /\ cal'[c].pc = goes /\ cal'[c].session = cal[c].session
      /\ ~cal'[c].valid /\ \A x \in Calibrations : x # c => cal'[x] = cal[x]
  BY <1>1, <1>2, EyeTypes DEF EyeInv, RunInv, RunType
<1>4. /\ adapter' \in AdapterType /\ adapter'.disposed = adapter.disposed
      /\ holder' \in CalibrationOrNone
  BY <1>2, EyeTypes DEF AdapterType, CalibrationOrNone
<1>5. Typed'
  BY <1>1, <1>2, <1>3, <1>4, EyeTypes, EyeTypesNext
<1>6. RuntimeInv'
  BY <1>1, <1>2, <1>3, <1>4, EyeTypes, EyeAssumption DEF EyeInv, RuntimeInv, RunInv, Running, RuntimeType, RunType, InferType, EndType, AdapterType, SessionOrNone, CalibrationOrNone
<1>7. NobodyElseCancels' /\ ModelOfSession'
  BY <1>1, <1>2, <1>3, <1>4, EyeTypes, EyeAssumption DEF EyeInv, RuntimeInv, RunInv, ModelInv, CancelInv, WasCancelled, NobodyElseCancels, ModelOfSession, Running, RuntimeType, RunType, InferType, EndType, AdapterType, SessionOrNone, CalibrationOrNone
<1>8. ASSUME NEW x \in Calibrations PROVE RunInv(x)'
  BY <1>1, <1>2, <1>3, <1>4, EyeTypes, EyeAssumption DEF EyeInv, RuntimeInv, RunInv, Running, RuntimeType, RunType, InferType, EndType, AdapterType, SessionOrNone, CalibrationOrNone
<1>9. ASSUME NEW x \in Calibrations PROVE CancelInv(x)'
  <2>1. WasCancelled(x)' <=> WasCancelled(x)
    BY <1>1, <1>2, <1>3, <1>4 DEF WasCancelled
  <2>2. QED
    BY <1>1, <1>2, <1>3, <1>4, <2>1, EyeTypes DEF EyeInv, CancelInv, RunInv, Running
<1>10. ASSUME NEW x \in Calibrations PROVE ModelInv(x)' /\ QueueInv(x)'
  <2>1. QueueInv(x)'
    BY <1>1, <1>2, <1>3 DEF EyeInv, QueueInv
  <2>2. CASE x = c
    BY <1>3, <2>1, <2>2 DEF ModelInv
  <2>3. CASE x # c
    <3>1. cal'[x] = cal[x]
      BY <1>3, <2>3
    <3>2. ASSUME Running(x), runtime.open PROVE adapter' = adapter
      BY <1>1, <1>2, <2>3, <3>2 DEF EyeInv, RuntimeInv, RunInv, Running
    <3> QED
      BY <1>1, <2>1, <3>1, <3>2 DEF EyeInv, ModelInv, Running
  <2> QED
    BY <2>2, <2>3
<1>11. ASSUME NEW g \in Frames PROVE FrameInv(g)'
  BY <1>1, <1>2, <1>3, <1>4, EyeTypes, EyeAssumption DEF EyeInv, FrameInv, Queued, RuntimeType, RunType, InferType, EndType, AdapterType, SessionOrNone, CalibrationOrNone
<1>12. ASSUME NEW d \in Enders PROVE EndInv(d)'
  <2>1. \A x \in Calibrations : WasCancelled(x)' <=> WasCancelled(x)
    BY <1>1, <1>2, <1>3, <1>4 DEF WasCancelled
  <2>2. QED
    BY <1>1, <1>2, <1>3, <1>4, <2>1, EyeTypes DEF EyeInv, EndInv, RunInv, Running, EndType
<1>13. QED
  BY <1>5, <1>6, <1>7, <1>8, <1>9, <1>10, <1>11, <1>12 DEF EyeInv

\* A frame is taken off the queue, and perhaps trained on.
LEMMA CaptureStep ==
  ASSUME EyeInv, NEW c \in Calibrations, Capture(c)
  PROVE  EyeInv'
<1>1. /\ cal[c].pc = "capturing" /\ queue[c] # <<>> /\ queue' = [queue EXCEPT ![c] = Tail(@)]
      /\ UNCHANGED <<runtime, cancel, adapter, holder, cal, inf, ending, closing, cancelled, model>>
  BY DEF Capture, threads
<1>2. /\ trained' \in [Calibrations -> SUBSET Frames]
      /\ \A x \in Calibrations : trained'[x] \subseteq trained[x] \cup (IF x = c THEN {Head(queue[c])} ELSE {})
      /\ Head(queue[c]) = queue[c][1] /\ Len(queue[c]) >= 1
  <2>1. queue[c] \in Seq(Frames) /\ queue[c] # <<>>
    BY <1>1, EyeTypes DEF Queue
  <2>2. Head(queue[c]) \in Frames /\ Head(queue[c]) = queue[c][1] /\ Len(queue[c]) >= 1
    BY <2>1
  <2>3. QED
    BY <2>2, EyeTypes DEF Capture
<1>3. /\ queue' \in [Calibrations -> Queue]
      /\ \A x \in Calibrations : x # c => queue'[x] = queue[x]
      /\ \A i \in 1..Len(queue'[c]) : i + 1 \in 1..Len(queue[c]) /\ queue'[c][i] = queue[c][i + 1]
  <2>1. queue[c] \in Seq(Frames) /\ queue[c] # <<>> /\ Len(queue[c]) <= QueueSize
    BY <1>1, EyeTypes DEF Queue
  <2>2. /\ Tail(queue[c]) \in Seq(Frames) /\ Len(Tail(queue[c])) = Len(queue[c]) - 1
        /\ \A i \in 1..Len(Tail(queue[c])) : i + 1 \in 1..Len(queue[c]) /\ Tail(queue[c])[i] = queue[c][i + 1]
    BY <2>1
  <2>3. Tail(queue[c]) \in Queue
    BY <2>1, <2>2, EyeAssumption DEF Queue
  <2>4. queue'[c] = Tail(queue[c])
    BY <1>1, EyeTypes
  <2>5. QED
    BY <1>1, <2>2, <2>3, <2>4, EyeTypes
<1>4. Typed'
  BY <1>1, <1>2, <1>3, EyeTypes, EyeTypesNext
<1>5. RuntimeInv'
  BY <1>1, <1>2, <1>3, EyeTypes, EyeAssumption DEF EyeInv, RuntimeInv, RunInv, Running, RuntimeType, RunType, InferType, EndType, AdapterType, SessionOrNone, CalibrationOrNone
<1>6. NobodyElseCancels' /\ ModelOfSession'
  BY <1>1, <1>2, <1>3, EyeTypes, EyeAssumption DEF EyeInv, RuntimeInv, RunInv, ModelInv, CancelInv, WasCancelled, NobodyElseCancels, ModelOfSession, Running, RuntimeType, RunType, InferType, EndType, AdapterType, SessionOrNone, CalibrationOrNone
<1>7. ASSUME NEW x \in Calibrations PROVE RunInv(x)'
  BY <1>1, <1>2, <1>3, EyeTypes, EyeAssumption DEF EyeInv, RuntimeInv, RunInv, Running, RuntimeType, RunType, InferType, EndType, AdapterType, SessionOrNone, CalibrationOrNone
<1>8. ASSUME NEW x \in Calibrations PROVE CancelInv(x)'
  <2>1. WasCancelled(x)' <=> WasCancelled(x)
    BY <1>1, <1>2, <1>3 DEF WasCancelled
  <2>2. QED
    BY <1>1, <1>2, <1>3, <2>1, EyeTypes DEF EyeInv, CancelInv, RunInv, Running
<1>9. ASSUME NEW x \in Calibrations PROVE ModelInv(x)' /\ QueueInv(x)'
  BY <1>1, <1>2, <1>3, EyeTypes, EyeAssumption DEF EyeInv, RuntimeInv, RunInv, ModelInv, QueueInv, Running, RuntimeType, RunType, InferType, EndType, AdapterType, SessionOrNone, CalibrationOrNone
<1>10. ASSUME NEW g \in Frames PROVE FrameInv(g)'
  <2>1. Queued(Head(queue[c]), c)
    BY <1>2 DEF Queued
  <2>2. \A x \in Calibrations : Queued(g, x)' => Queued(g, x)
    BY <1>3 DEF Queued
  <2>3. FrameInv(g)
    BY DEF EyeInv
  <2>4. \A x \in Calibrations : g \in trained'[x] => g \in trained[x] \/ Queued(g, x)
    BY <1>2, <2>1
  <2>5. QED
    BY <1>1, <2>2, <2>3, <2>4 DEF FrameInv
<1>11. ASSUME NEW d \in Enders PROVE EndInv(d)'
  <2>1. \A x \in Calibrations : WasCancelled(x)' <=> WasCancelled(x)
    BY <1>1, <1>2, <1>3 DEF WasCancelled
  <2>2. QED
    BY <1>1, <1>2, <1>3, <2>1, EyeTypes DEF EyeInv, EndInv, RunInv, Running, EndType
<1>12. QED
  BY <1>4, <1>5, <1>6, <1>7, <1>8, <1>9, <1>10, <1>11 DEF EyeInv

\* A capture ends with its model or with none, and gives the lock back.
LEMMA CaptureEndsStep ==
  ASSUME EyeInv, NEW c \in Calibrations, CaptureEnds(c)
  PROVE  EyeInv'
<1>1. PICK ok \in BOOLEAN :
        /\ cal' = [cal EXCEPT ![c].pc = "deciding", ![c].valid = ok]
        /\ adapter' = [adapter EXCEPT !.model = IF ok THEN c ELSE None]
  BY DEF CaptureEnds
<1>2. /\ cal[c].pc = "capturing" /\ queue' = [queue EXCEPT ![c] = <<>>] /\ holder' = None
      /\ UNCHANGED <<runtime, cancel, inf, ending, closing, trained, cancelled, model>>
  BY DEF CaptureEnds, history
<1>3. /\ cal' \in [Calibrations -> RunType] /\ cal'[c].pc = "deciding" /\ cal'[c].session = cal[c].session
      /\ cal'[c].valid = ok /\ \A x \in Calibrations : x # c => cal'[x] = cal[x]
  BY <1>1, EyeTypes DEF RunType
<1>4. /\ adapter' \in AdapterType /\ adapter'.disposed = adapter.disposed
      /\ adapter'.model = IF ok THEN c ELSE None
  BY <1>1, EyeTypes DEF AdapterType, CalibrationOrNone
<1>5. /\ queue' \in [Calibrations -> Queue] /\ queue'[c] = <<>>
      /\ \A x \in Calibrations : x # c => queue'[x] = queue[x]
  BY <1>2, EyeTypes, EyeAssumption DEF Queue
<1>6. holder' \in CalibrationOrNone
  BY <1>2 DEF CalibrationOrNone
<1>7. Typed'
  BY <1>1, <1>2, <1>3, <1>4, <1>5, <1>6, EyeTypes, EyeTypesNext
<1>8. RuntimeInv'
  BY <1>1, <1>2, <1>3, <1>4, <1>5, <1>6, EyeTypes, EyeAssumption DEF EyeInv, RuntimeInv, RunInv, Running, RuntimeType, RunType, InferType, EndType, AdapterType, SessionOrNone, CalibrationOrNone
<1>9. NobodyElseCancels' /\ ModelOfSession'
  BY <1>1, <1>2, <1>3, <1>4, <1>5, <1>6, EyeTypes, EyeAssumption DEF EyeInv, RuntimeInv, RunInv, ModelInv, CancelInv, WasCancelled, NobodyElseCancels, ModelOfSession, Running, RuntimeType, RunType, InferType, EndType, AdapterType, SessionOrNone, CalibrationOrNone
<1>10. ASSUME NEW x \in Calibrations PROVE RunInv(x)'
  BY <1>1, <1>2, <1>3, <1>4, <1>5, <1>6, EyeTypes, EyeAssumption DEF EyeInv, RuntimeInv, RunInv, Running, RuntimeType, RunType, InferType, EndType, AdapterType, SessionOrNone, CalibrationOrNone
<1>11. ASSUME NEW x \in Calibrations PROVE CancelInv(x)'
  <2>1. WasCancelled(x)' <=> WasCancelled(x)
    BY <1>2 DEF WasCancelled
  <2>2. QED
    BY <1>2, <1>3, <2>1 DEF EyeInv, CancelInv, Running
<1>12. ASSUME NEW x \in Calibrations PROVE ModelInv(x)' /\ QueueInv(x)'
  BY <1>1, <1>2, <1>3, <1>4, <1>5, <1>6, EyeTypes, EyeAssumption DEF EyeInv, RuntimeInv, RunInv, ModelInv, QueueInv, Running, RuntimeType, RunType, InferType, EndType, AdapterType, SessionOrNone, CalibrationOrNone
<1>13. ASSUME NEW g \in Frames PROVE FrameInv(g)'
  BY <1>1, <1>2, <1>3, <1>4, <1>5, <1>6, EyeTypes, EyeAssumption DEF EyeInv, FrameInv, Queued, RuntimeType, RunType, InferType, EndType, AdapterType, SessionOrNone, CalibrationOrNone
<1>14. ASSUME NEW d \in Enders PROVE EndInv(d)'
  <2>1. \A x \in Calibrations : WasCancelled(x)' <=> WasCancelled(x)
    BY <1>2 DEF WasCancelled
  <2>2. QED
    BY <1>2, <1>3, <2>1, EyeTypes DEF EyeInv, EndInv, Running, EndType
<1>15. QED
  BY <1>7, <1>8, <1>9, <1>10, <1>11, <1>12, <1>13, <1>14 DEF EyeInv

\* The queue of a calibration is emptied when it is over.
LEMMA DrainStep ==
  ASSUME EyeInv, NEW c \in Calibrations, Drain(c)
  PROVE  EyeInv'
<1>1. /\ cal[c].pc = "draining" /\ queue' = [queue EXCEPT ![c] = <<>>] /\ cal' = [cal EXCEPT ![c].pc = "done"]
      /\ UNCHANGED <<runtime, cancel, adapter, holder, inf, ending, closing, trained, cancelled, model>>
  BY DEF Drain, history
<1>2. /\ cal' \in [Calibrations -> RunType] /\ cal'[c].pc = "done" /\ cal'[c].session = cal[c].session
      /\ cal'[c].valid = cal[c].valid /\ \A x \in Calibrations : x # c => cal'[x] = cal[x]
  BY <1>1, EyeTypes DEF RunType
<1>3. /\ queue' \in [Calibrations -> Queue] /\ queue'[c] = <<>>
      /\ \A x \in Calibrations : x # c => queue'[x] = queue[x]
  BY <1>1, EyeTypes, EyeAssumption DEF Queue
<1>4. Typed'
  BY <1>1, <1>2, <1>3, EyeTypes, EyeTypesNext
<1>5. RuntimeInv'
  BY <1>1, <1>2, <1>3, EyeTypes, EyeAssumption DEF EyeInv, RuntimeInv, RunInv, Running, RuntimeType, RunType, InferType, EndType, AdapterType, SessionOrNone, CalibrationOrNone
<1>6. NobodyElseCancels' /\ ModelOfSession'
  BY <1>1, <1>2, <1>3, EyeTypes, EyeAssumption DEF EyeInv, RuntimeInv, RunInv, ModelInv, CancelInv, WasCancelled, NobodyElseCancels, ModelOfSession, Running, RuntimeType, RunType, InferType, EndType, AdapterType, SessionOrNone, CalibrationOrNone
<1>7. ASSUME NEW x \in Calibrations PROVE RunInv(x)'
  BY <1>1, <1>2, <1>3, EyeTypes, EyeAssumption DEF EyeInv, RuntimeInv, RunInv, Running, RuntimeType, RunType, InferType, EndType, AdapterType, SessionOrNone, CalibrationOrNone
<1>8. ASSUME NEW x \in Calibrations PROVE CancelInv(x)'
  <2>1. WasCancelled(x)' <=> WasCancelled(x)
    BY <1>1 DEF WasCancelled
  <2>2. QED
    BY <1>1, <1>2, <2>1 DEF EyeInv, CancelInv, Running
<1>9. ASSUME NEW x \in Calibrations PROVE ModelInv(x)' /\ QueueInv(x)'
  BY <1>1, <1>2, <1>3, EyeTypes, EyeAssumption DEF EyeInv, RuntimeInv, RunInv, ModelInv, QueueInv, Running, RuntimeType, RunType, InferType, EndType, AdapterType, SessionOrNone, CalibrationOrNone
<1>10. ASSUME NEW g \in Frames PROVE FrameInv(g)'
  BY <1>1, <1>2, <1>3, EyeTypes, EyeAssumption DEF EyeInv, FrameInv, Queued, RuntimeType, RunType, InferType, EndType, AdapterType, SessionOrNone, CalibrationOrNone
<1>11. ASSUME NEW d \in Enders PROVE EndInv(d)'
  <2>1. \A x \in Calibrations : WasCancelled(x)' <=> WasCancelled(x)
    BY <1>1 DEF WasCancelled
  <2>2. QED
    BY <1>1, <1>2, <2>1, EyeTypes DEF EyeInv, EndInv, Running, EndType
<1>12. QED
  BY <1>4, <1>5, <1>6, <1>7, <1>8, <1>9, <1>10, <1>11 DEF EyeInv

\* A cancellation is of the session that calibrates.
LEMMA CancelMatchingStep ==
  ASSUME EyeInv, NEW c \in Calibrations, CancelMatching(c)
  PROVE  EyeInv'
<1>1. /\ cancel' = TRUE /\ runtime.binding # None /\ runtime.binding = cal[c].session
      /\ cancelled' = IF runtime.queue = None THEN cancelled
                      ELSE cancelled \cup {<<runtime.queue, runtime.binding>>}
      /\ UNCHANGED <<runtime, adapter, holder, queue, cal, inf, ending, closing, trained, model>>
  BY DEF CancelMatching, CancelBy, threads
<1>2. cancelled' \subseteq Calibrations \X Sessions
  BY <1>1, EyeTypes DEF RuntimeType, SessionOrNone, CalibrationOrNone
<1>3. Typed'
  BY <1>1, <1>2, EyeTypes, EyeTypesNext
<1>4. RuntimeInv'
  BY <1>1, <1>2, EyeTypes, EyeAssumption DEF EyeInv, RuntimeInv, RunInv, Running, RuntimeType, RunType, InferType, EndType, AdapterType, SessionOrNone, CalibrationOrNone
<1>5. NobodyElseCancels' /\ ModelOfSession'
  BY <1>1, <1>2, EyeTypes, EyeAssumption DEF EyeInv, RuntimeInv, RunInv, ModelInv, CancelInv, WasCancelled, NobodyElseCancels, ModelOfSession, Running, RuntimeType, RunType, InferType, EndType, AdapterType, SessionOrNone, CalibrationOrNone
<1>6. ASSUME NEW x \in Calibrations PROVE RunInv(x)'
  BY <1>1, <1>2, EyeTypes, EyeAssumption DEF EyeInv, RuntimeInv, RunInv, Running, RuntimeType, RunType, InferType, EndType, AdapterType, SessionOrNone, CalibrationOrNone
<1>7. ASSUME NEW x \in Calibrations PROVE CancelInv(x)'
  <2>1. WasCancelled(x)' => WasCancelled(x) \/ (runtime.queue = x /\ runtime.queue # None)
    BY <1>1 DEF WasCancelled
  <2>2. QED
    BY <1>1, <2>1, EyeTypes DEF EyeInv, RuntimeInv, RunInv, CancelInv, Running
<1>8. ASSUME NEW x \in Calibrations PROVE ModelInv(x)' /\ QueueInv(x)'
  BY <1>1, <1>2, EyeTypes, EyeAssumption DEF EyeInv, RuntimeInv, RunInv, ModelInv, QueueInv, Running, RuntimeType, RunType, InferType, EndType, AdapterType, SessionOrNone, CalibrationOrNone
<1>9. ASSUME NEW g \in Frames PROVE FrameInv(g)'
  BY <1>1, <1>2, EyeTypes, EyeAssumption DEF EyeInv, FrameInv, Queued, RuntimeType, RunType, InferType, EndType, AdapterType, SessionOrNone, CalibrationOrNone
<1>10. ASSUME NEW d \in Enders PROVE EndInv(d)'
  <2>1. \A x \in Calibrations : WasCancelled(x) => WasCancelled(x)'
    BY <1>1 DEF WasCancelled
  <2>2. QED
    BY <1>1, <1>2, <2>1, EyeTypes DEF EyeInv, EndInv, RunInv, Running, EndType
<1>11. QED
  BY <1>3, <1>4, <1>5, <1>6, <1>7, <1>8, <1>9, <1>10 DEF EyeInv

\* The verdict, under both locks: only what nobody cancelled is used.
LEMMA DecideStep ==
  ASSUME EyeInv, NEW c \in Calibrations, Decide(c)
  PROVE  EyeInv'
<1>1. /\ cal[c].pc = "deciding" /\ holder = None
      /\ UNCHANGED <<cancel, holder, queue, inf, ending, closing, trained, cancelled, model>>
  BY DEF Decide, history
<1>2. PICK valid \in BOOLEAN : valid = (cal[c].valid /\ ~cancel)
  BY EyeTypes DEF RunType
<1>3. PICK goes \in {"done", "draining"} :
        /\ cal' = [cal EXCEPT ![c].pc = goes, ![c].valid = valid]
        /\ \/ /\ ~valid /\ adapter.disposed /\ UNCHANGED <<runtime, adapter>> /\ goes = "done"
           \/ /\ goes = IF runtime.queue = c THEN "draining" ELSE "done"
              /\ adapter' = IF valid THEN adapter ELSE [adapter EXCEPT !.model = None]
              /\ runtime' = [runtime EXCEPT !.usable = valid, !.id = IF valid THEN c ELSE None,
                                !.calibrated = IF valid THEN runtime.binding ELSE None,
                                !.queue = None, !.binding = None]
  <2>1. CASE ~valid /\ adapter.disposed
    BY <1>2, <2>1 DEF Decide
  <2>2. CASE ~(~valid /\ adapter.disposed)
    BY <1>2, <2>2 DEF Decide
  <2>3. QED
    BY <2>1, <2>2
<1>4. /\ cal' \in [Calibrations -> RunType] /\ cal'[c].pc = goes /\ cal'[c].session = cal[c].session
      /\ cal'[c].valid = valid /\ \A x \in Calibrations : x # c => cal'[x] = cal[x]
  <2>1. cal' = [cal EXCEPT ![c].pc = goes, ![c].valid = valid]
    BY <1>3
  <2>2. QED
    BY <2>1, EyeTypes DEF RunType
<1>5. /\ runtime' \in RuntimeType /\ adapter' \in AdapterType
      /\ runtime'.open = runtime.open /\ adapter'.disposed = adapter.disposed
      /\ adapter'.model = adapter.model \/ (~valid /\ adapter'.model = None)
  BY <1>3, EyeTypes DEF RuntimeType, AdapterType, SessionOrNone, CalibrationOrNone
<1>6. \/ /\ ~valid /\ ~runtime.open /\ UNCHANGED <<runtime, adapter>> /\ goes = "done"
      \/ /\ goes = IF runtime.queue = c THEN "draining" ELSE "done"
         /\ runtime'.usable = valid /\ runtime'.id = IF valid THEN c ELSE None
         /\ runtime'.calibrated = IF valid THEN runtime.binding ELSE None
         /\ runtime'.queue = None /\ runtime'.binding = None
  BY <1>3, EyeTypes DEF EyeInv, RuntimeInv, RuntimeType
<1>7. \A x \in Calibrations : Running(x) => x = c
  BY <1>1 DEF EyeInv, RunInv, Running
<1>8. Typed'
  BY <1>1, <1>2, <1>3, <1>4, <1>5, <1>6, <1>7, EyeTypes, EyeTypesNext
<1>9. RuntimeInv'
  BY <1>1, <1>2, <1>3, <1>4, <1>5, <1>6, <1>7, EyeTypes, EyeAssumption DEF EyeInv, RuntimeInv, RunInv, Running, RuntimeType, RunType, InferType, EndType, AdapterType, SessionOrNone, CalibrationOrNone
<1>10. NobodyElseCancels' /\ ModelOfSession'
  BY <1>1, <1>2, <1>3, <1>4, <1>5, <1>6, <1>7, EyeTypes, EyeAssumption DEF EyeInv, RuntimeInv, RunInv, ModelInv, CancelInv, WasCancelled, NobodyElseCancels, ModelOfSession, Running, RuntimeType, RunType, InferType, EndType, AdapterType, SessionOrNone, CalibrationOrNone
<1>11. ASSUME NEW x \in Calibrations PROVE RunInv(x)'
  BY <1>1, <1>2, <1>3, <1>4, <1>5, <1>6, <1>7, EyeTypes, EyeAssumption DEF EyeInv, RuntimeInv, RunInv, Running, RuntimeType, RunType, InferType, EndType, AdapterType, SessionOrNone, CalibrationOrNone
<1>12. ASSUME NEW x \in Calibrations PROVE CancelInv(x)'
  <2>1. (WasCancelled(x)' <=> WasCancelled(x)) /\ CancelInv(x) /\ (WasCancelled(c) => ~valid)
    BY <1>1, <1>2 DEF WasCancelled, EyeInv, CancelInv, Running
  <2>2. ~runtime.usable
    BY <1>1 DEF EyeInv, RunInv, Running
  <2>3. CASE x = c
    BY <1>1, <1>4, <1>6, <2>1, <2>2, <2>3 DEF CancelInv, Running
  <2>4. CASE x # c
    BY <1>1, <1>4, <1>6, <1>7, <2>1, <2>2, <2>4, EyeAssumption DEF CancelInv, Running
  <2>5. QED
    BY <2>3, <2>4
<1>13. ASSUME NEW x \in Calibrations PROVE ModelInv(x)' /\ QueueInv(x)'
  BY <1>1, <1>2, <1>3, <1>4, <1>5, <1>6, <1>7, EyeTypes, EyeAssumption DEF EyeInv, RuntimeInv, RunInv, ModelInv, QueueInv, Running, RuntimeType, RunType, InferType, EndType, AdapterType, SessionOrNone, CalibrationOrNone
<1>14. ASSUME NEW g \in Frames PROVE FrameInv(g)'
  BY <1>1, <1>2, <1>3, <1>4, <1>5, <1>6, <1>7, EyeTypes, EyeAssumption DEF EyeInv, FrameInv, Queued, RuntimeType, RunType, InferType, EndType, AdapterType, SessionOrNone, CalibrationOrNone
<1>15. ASSUME NEW d \in Enders PROVE EndInv(d)'
  <2> SUFFICES ASSUME NEW x \in ending[d].before
               PROVE  /\ cal'[x].session = ending[d].session /\ ending[d].session # None
                      /\ Running(x)' /\ runtime'.open => WasCancelled(x)'
                      /\ ending[d].pc = "done" => ~(runtime'.open /\ runtime'.usable /\ runtime'.id = x)
    BY <1>1 DEF EyeInv, EndInv
  <2>1. x \in Calibrations /\ (WasCancelled(x)' <=> WasCancelled(x)) /\ (WasCancelled(c) => ~valid)
    BY <1>1, <1>2, EyeTypes DEF WasCancelled, EyeInv, CancelInv, Running, EndType
  <2>2. /\ cal[x].session = ending[d].session /\ ending[d].session # None
        /\ Running(x) /\ runtime.open => WasCancelled(x)
    BY DEF EyeInv, EndInv
  <2>3. CASE x = c
    BY <1>1, <1>4, <1>5, <1>6, <2>1, <2>2, <2>3 DEF Running
  <2>4. CASE x # c
    BY <1>1, <1>4, <1>5, <1>6, <1>7, <2>1, <2>2, <2>4, EyeAssumption DEF Running
  <2>5. QED
    BY <2>3, <2>4
<1>16. QED
  BY <1>8, <1>9, <1>10, <1>11, <1>12, <1>13, <1>14, <1>15 DEF EyeInv

-----------------------------------------------------------------------------
(* infer.                                                                   *)

\* A frame comes in: nothing is decided about it yet.
LEMMA ArriveStep ==
  ASSUME EyeInv, NEW f \in Frames, Arrive(f)
  PROVE  EyeInv'
<1>1. /\ inf[f].pc = "none"
      /\ UNCHANGED <<runtime, cancel, adapter, holder, queue, cal, ending, closing, trained, cancelled, model>>
  BY DEF Arrive, history
<1>2. PICK s \in Sessions, m \in Calibrations \cup {None}, goes \in {"done", "accept", "gaze"} :
        /\ inf' = [inf EXCEPT ![f] = [session |-> s, mark |-> m, queue |-> runtime.queue,
                                      binding |-> runtime.binding, pc |-> goes]]
        /\ goes = "accept" => runtime.queue # None
  BY DEF Arrive
<1>3. /\ inf' \in [Frames -> InferType] /\ inf'[f].pc = goes /\ inf'[f].queue = runtime.queue
      /\ inf'[f].binding = runtime.binding /\ \A g \in Frames : g # f => inf'[g] = inf[g]
  BY <1>2, EyeTypes DEF InferType, RuntimeType, SessionOrNone, CalibrationOrNone
<1>4. Typed'
  BY <1>1, <1>2, <1>3, EyeTypes, EyeTypesNext
<1>5. RuntimeInv'
  BY <1>1, <1>2, <1>3, EyeTypes, EyeAssumption DEF EyeInv, RuntimeInv, RunInv, Running, RuntimeType, RunType, InferType, EndType, AdapterType, SessionOrNone, CalibrationOrNone
<1>6. NobodyElseCancels' /\ ModelOfSession'
  BY <1>1, <1>2, <1>3, EyeTypes, EyeAssumption DEF EyeInv, RuntimeInv, RunInv, ModelInv, CancelInv, WasCancelled, NobodyElseCancels, ModelOfSession, Running, RuntimeType, RunType, InferType, EndType, AdapterType, SessionOrNone, CalibrationOrNone
<1>7. ASSUME NEW x \in Calibrations PROVE RunInv(x)'
  BY <1>1, <1>2, <1>3, EyeTypes, EyeAssumption DEF EyeInv, RuntimeInv, RunInv, Running, RuntimeType, RunType, InferType, EndType, AdapterType, SessionOrNone, CalibrationOrNone
<1>8. ASSUME NEW x \in Calibrations PROVE CancelInv(x)'
  <2>1. WasCancelled(x)' <=> WasCancelled(x)
    BY <1>1, <1>2, <1>3 DEF WasCancelled
  <2>2. QED
    BY <1>1, <1>2, <1>3, <2>1, EyeTypes DEF EyeInv, CancelInv, RunInv, Running
<1>9. ASSUME NEW x \in Calibrations PROVE ModelInv(x)' /\ QueueInv(x)'
  BY <1>1, <1>2, <1>3, EyeTypes, EyeAssumption DEF EyeInv, RuntimeInv, RunInv, ModelInv, QueueInv, Running, RuntimeType, RunType, InferType, EndType, AdapterType, SessionOrNone, CalibrationOrNone
<1>10. ASSUME NEW g \in Frames PROVE FrameInv(g)'
  BY <1>1, <1>2, <1>3, EyeTypes, EyeAssumption DEF EyeInv, RuntimeInv, Running, FrameInv, Queued, RuntimeType, RunType, InferType, EndType, AdapterType, SessionOrNone, CalibrationOrNone
<1>11. ASSUME NEW d \in Enders PROVE EndInv(d)'
  <2>1. \A x \in Calibrations : WasCancelled(x)' <=> WasCancelled(x)
    BY <1>1, <1>2, <1>3 DEF WasCancelled
  <2>2. QED
    BY <1>1, <1>2, <1>3, <2>1, EyeTypes DEF EyeInv, EndInv, RunInv, Running, EndType
<1>12. QED
  BY <1>4, <1>5, <1>6, <1>7, <1>8, <1>9, <1>10, <1>11 DEF EyeInv

\* Only a frame of the session that calibrates goes on.
LEMMA AcceptStep ==
  ASSUME EyeInv, NEW f \in Frames, Accept(f)
  PROVE  EyeInv'
<1>1. /\ inf[f].pc = "accept"
      /\ UNCHANGED <<cancel, adapter, holder, queue, cal, ending, closing, trained, cancelled, model>>
  BY DEF Accept, history
<1>2. PICK goes \in {"done", "put"} :
        /\ inf' = [inf EXCEPT ![f].pc = goes]
        /\ runtime' = IF goes = "put" THEN [runtime EXCEPT !.last = f] ELSE runtime
        /\ goes = "put" => inf[f].session = inf[f].binding
  <2>1. CASE runtime.queue = inf[f].queue /\ inf[f].session = inf[f].binding /\ f > runtime.last
    BY <2>1 DEF Accept
  <2>2. CASE ~(runtime.queue = inf[f].queue /\ inf[f].session = inf[f].binding /\ f > runtime.last)
    BY <2>2 DEF Accept, Answered
  <2>3. QED
    BY <2>1, <2>2
<1>3. /\ inf' \in [Frames -> InferType] /\ inf'[f].pc = goes /\ inf'[f].queue = inf[f].queue
      /\ inf'[f].binding = inf[f].binding /\ inf'[f].session = inf[f].session
      /\ \A g \in Frames : g # f => inf'[g] = inf[g]
  BY <1>2, EyeTypes DEF InferType
<1>4. /\ runtime' \in RuntimeType
      /\ runtime'.open = runtime.open /\ runtime'.usable = runtime.usable /\ runtime'.id = runtime.id
      /\ runtime'.queue = runtime.queue /\ runtime'.binding = runtime.binding
      /\ runtime'.calibrated = runtime.calibrated /\ runtime'.summary = runtime.summary
  BY <1>2, EyeTypes DEF RuntimeType, Frames
<1>5. Typed'
  BY <1>1, <1>2, <1>3, <1>4, EyeTypes, EyeTypesNext
<1>6. RuntimeInv'
  BY <1>1, <1>2, <1>3, <1>4, EyeTypes, EyeAssumption DEF EyeInv, RuntimeInv, RunInv, Running, RuntimeType, RunType, InferType, EndType, AdapterType, SessionOrNone, CalibrationOrNone
<1>7. NobodyElseCancels' /\ ModelOfSession'
  BY <1>1, <1>2, <1>3, <1>4, EyeTypes, EyeAssumption DEF EyeInv, RuntimeInv, RunInv, ModelInv, CancelInv, WasCancelled, NobodyElseCancels, ModelOfSession, Running, RuntimeType, RunType, InferType, EndType, AdapterType, SessionOrNone, CalibrationOrNone
<1>8. ASSUME NEW x \in Calibrations PROVE RunInv(x)'
  BY <1>1, <1>2, <1>3, <1>4, EyeTypes, EyeAssumption DEF EyeInv, RuntimeInv, RunInv, Running, RuntimeType, RunType, InferType, EndType, AdapterType, SessionOrNone, CalibrationOrNone
<1>9. ASSUME NEW x \in Calibrations PROVE CancelInv(x)'
  <2>1. WasCancelled(x)' <=> WasCancelled(x)
    BY <1>1, <1>2, <1>3, <1>4 DEF WasCancelled
  <2>2. QED
    BY <1>1, <1>2, <1>3, <1>4, <2>1, EyeTypes DEF EyeInv, CancelInv, RunInv, Running
<1>10. ASSUME NEW x \in Calibrations PROVE ModelInv(x)' /\ QueueInv(x)'
  BY <1>1, <1>2, <1>3, <1>4, EyeTypes, EyeAssumption DEF EyeInv, RuntimeInv, RunInv, ModelInv, QueueInv, Running, RuntimeType, RunType, InferType, EndType, AdapterType, SessionOrNone, CalibrationOrNone
<1>11. ASSUME NEW g \in Frames PROVE FrameInv(g)'
  BY <1>1, <1>2, <1>3, <1>4, EyeTypes, EyeAssumption DEF EyeInv, FrameInv, Queued, RuntimeType, RunType, InferType, EndType, AdapterType, SessionOrNone, CalibrationOrNone
<1>12. ASSUME NEW d \in Enders PROVE EndInv(d)'
  <2>1. \A x \in Calibrations : WasCancelled(x)' <=> WasCancelled(x)
    BY <1>1 DEF WasCancelled
  <2>2. QED
    BY <1>1, <1>4, <2>1, EyeTypes DEF EyeInv, EndInv, Running, EndType
<1>13. QED
  BY <1>5, <1>6, <1>7, <1>8, <1>9, <1>10, <1>11, <1>12 DEF EyeInv

\* A full queue drops its oldest frame, and holds no other than before.
LEMMA PushedTyped ==
  ASSUME NEW q \in Queue, NEW f \in Frames
  PROVE  /\ Pushed(q, f) \in Queue
         /\ \A i \in 1..Len(Pushed(q, f)) : Pushed(q, f)[i] = f \/ \E j \in 1..Len(q) : q[j] = Pushed(q, f)[i]
<1>1. q \in Seq(Frames) /\ Len(q) <= QueueSize /\ Len(q) \in Nat /\ QueueSize \in Nat /\ QueueSize # 0
  BY EyeAssumption DEF Queue
<1>2. CASE Len(q) = QueueSize
  <2>1. /\ Tail(q) \in Seq(Frames) /\ Len(Tail(q)) = Len(q) - 1
        /\ \A i \in 1..Len(Tail(q)) : i + 1 \in 1..Len(q) /\ Tail(q)[i] = q[i + 1]
    BY <1>1, <1>2
  <2>2. /\ Append(Tail(q), f) \in Seq(Frames) /\ Len(Append(Tail(q), f)) = Len(q)
        /\ \A i \in 1..Len(q) : Append(Tail(q), f)[i] = IF i = Len(q) THEN f ELSE Tail(q)[i]
    <3>1. PICK t \in Seq(Frames) : t = Tail(q) /\ Len(t) = Len(q) - 1
      BY <2>1
    <3>2. /\ Append(t, f) \in Seq(Frames) /\ Len(Append(t, f)) = Len(t) + 1
          /\ \A i \in 1..Len(t) + 1 : Append(t, f)[i] = IF i = Len(t) + 1 THEN f ELSE t[i]
      OBVIOUS
    <3>3. Len(t) + 1 = Len(q)
      BY <1>1, <3>1
    <3>4. QED
      BY <3>1, <3>2, <3>3, Zenon
  <2>3. QED
    BY <1>1, <1>2, <2>1, <2>2 DEF Pushed, Queue
<1>3. CASE Len(q) # QueueSize
  <2>1. /\ Append(q, f) \in Seq(Frames) /\ Len(Append(q, f)) = Len(q) + 1
        /\ \A i \in 1..Len(q) + 1 : Append(q, f)[i] = IF i = Len(q) + 1 THEN f ELSE q[i]
    BY <1>1
  <2>2. QED
    BY <1>1, <1>3, <2>1 DEF Pushed, Queue
<1>4. QED
  BY <1>2, <1>3

\* A frame is put into the queue of a calibration that still runs.
LEMMA PutStep ==
  ASSUME EyeInv, NEW f \in Frames, Put(f)
  PROVE  EyeInv'
<1>1. /\ inf[f].pc = "put" /\ inf' = [inf EXCEPT ![f].pc = "done"]
      /\ UNCHANGED <<runtime, cancel, adapter, holder, cal, ending, closing, trained, cancelled, model>>
  BY DEF Put, Answered, history
<1>2. /\ inf' \in [Frames -> InferType] /\ inf'[f].pc = "done" /\ inf'[f].session = inf[f].session
      /\ \A g \in Frames : g # f => inf'[g] = inf[g]
  BY <1>1, EyeTypes DEF InferType
<1>3. /\ queue' \in [Calibrations -> Queue]
      /\ \A x \in Calibrations : queue'[x] = queue[x] \/ (x = inf[f].queue /\ x = runtime.queue)
      /\ \A x \in Calibrations, g \in Frames :
           Queued(g, x)' => Queued(g, x) \/ (g = f /\ x = inf[f].queue)
  <2>1. CASE runtime.queue = inf[f].queue
    <3>1. inf[f].queue \in Calibrations
      BY <1>1, EyeTypes DEF EyeInv, FrameInv, InferType, CalibrationOrNone
    <3>2. PICK q \in Calibrations : q = inf[f].queue /\ queue' = [queue EXCEPT ![q] = Pushed(@, f)]
      BY <2>1, <3>1 DEF Put
    <3>3. queue[q] \in Queue
      BY EyeTypes
    <3>4. Pushed(queue[q], f) \in Queue
      BY <3>3, PushedTyped
    <3>5. \A i \in 1..Len(Pushed(queue[q], f)) :
            Pushed(queue[q], f)[i] = f \/ \E j \in 1..Len(queue[q]) : queue[q][j] = Pushed(queue[q], f)[i]
      BY <3>3, PushedTyped
    <3>6. /\ queue' \in [Calibrations -> Queue] /\ queue'[q] = Pushed(queue[q], f)
          /\ \A x \in Calibrations : x # q => queue'[x] = queue[x]
      BY <3>2, <3>4, EyeTypes
    <3>7. QED
      BY <2>1, <3>2, <3>5, <3>6 DEF Queued
  <2>2. CASE runtime.queue # inf[f].queue
    BY <2>2, EyeTypes DEF Put, Queued
  <2>3. QED
    BY <2>1, <2>2
<1>4. Typed'
  BY <1>1, <1>2, <1>3, EyeTypes, EyeTypesNext
<1>5. RuntimeInv'
  BY <1>1, <1>2, <1>3, EyeTypes, EyeAssumption DEF EyeInv, RuntimeInv, RunInv, Running, RuntimeType, RunType, InferType, EndType, AdapterType, SessionOrNone, CalibrationOrNone
<1>6. NobodyElseCancels' /\ ModelOfSession'
  BY <1>1, <1>2, <1>3, EyeTypes, EyeAssumption DEF EyeInv, RuntimeInv, RunInv, ModelInv, CancelInv, WasCancelled, NobodyElseCancels, ModelOfSession, Running, RuntimeType, RunType, InferType, EndType, AdapterType, SessionOrNone, CalibrationOrNone
<1>7. ASSUME NEW x \in Calibrations PROVE RunInv(x)'
  BY <1>1, <1>2, <1>3, EyeTypes, EyeAssumption DEF EyeInv, RuntimeInv, RunInv, Running, RuntimeType, RunType, InferType, EndType, AdapterType, SessionOrNone, CalibrationOrNone
<1>8. ASSUME NEW x \in Calibrations PROVE CancelInv(x)'
  <2>1. WasCancelled(x)' <=> WasCancelled(x)
    BY <1>1, <1>2, <1>3 DEF WasCancelled
  <2>2. QED
    BY <1>1, <1>2, <1>3, <2>1, EyeTypes DEF EyeInv, CancelInv, RunInv, Running
<1>9. ASSUME NEW x \in Calibrations PROVE ModelInv(x)' /\ QueueInv(x)'
  BY <1>1, <1>2, <1>3, EyeTypes, EyeAssumption DEF EyeInv, RuntimeInv, RunInv, ModelInv, QueueInv, Running, RuntimeType, RunType, InferType, EndType, AdapterType, SessionOrNone, CalibrationOrNone
<1>10. ASSUME NEW g \in Frames PROVE FrameInv(g)'
  <2>1. FrameInv(g) /\ FrameInv(f)
    BY DEF EyeInv
  <2>2. QED
    BY <1>1, <1>2, <1>3, <2>1 DEF FrameInv
<1>11. ASSUME NEW d \in Enders PROVE EndInv(d)'
  <2>1. \A x \in Calibrations : WasCancelled(x)' <=> WasCancelled(x)
    BY <1>1, <1>2, <1>3 DEF WasCancelled
  <2>2. QED
    BY <1>1, <1>2, <1>3, <2>1, EyeTypes DEF EyeInv, EndInv, RunInv, Running, EndType
<1>12. QED
  BY <1>4, <1>5, <1>6, <1>7, <1>8, <1>9, <1>10, <1>11 DEF EyeInv

\* A gaze estimate is of the model the adapter holds.
LEMMA GazeStep ==
  ASSUME EyeInv, NEW f \in Frames, Gaze(f)
  PROVE  EyeInv'
<1>1. /\ inf[f].pc = "gaze" /\ inf' = [inf EXCEPT ![f].pc = "done"] /\ model' = [model EXCEPT ![f] = adapter.model]
      /\ UNCHANGED <<runtime, cancel, adapter, holder, queue, cal, ending, closing, trained, cancelled>>
  BY DEF Gaze, Answered
<1>2. /\ inf' \in [Frames -> InferType] /\ inf'[f].pc = "done" /\ inf'[f].session = inf[f].session
      /\ \A g \in Frames : g # f => inf'[g] = inf[g]
  BY <1>1, EyeTypes DEF InferType
<1>3. model' \in [Frames -> CalibrationOrNone]
  BY <1>1, EyeTypes DEF AdapterType
<1>4. Typed'
  BY <1>1, <1>2, <1>3, EyeTypes, EyeTypesNext
<1>5. RuntimeInv'
  BY <1>1, <1>2, <1>3, EyeTypes, EyeAssumption DEF EyeInv, RuntimeInv, RunInv, Running, RuntimeType, RunType, InferType, EndType, AdapterType, SessionOrNone, CalibrationOrNone
<1>6. NobodyElseCancels' /\ ModelOfSession'
  BY <1>1, <1>2, <1>3, EyeTypes, EyeAssumption DEF EyeInv, RuntimeInv, RunInv, ModelInv, CancelInv, WasCancelled, NobodyElseCancels, ModelOfSession, Running, RuntimeType, RunType, InferType, EndType, AdapterType, SessionOrNone, CalibrationOrNone
<1>7. ASSUME NEW x \in Calibrations PROVE RunInv(x)'
  BY <1>1, <1>2, <1>3, EyeTypes, EyeAssumption DEF EyeInv, RuntimeInv, RunInv, Running, RuntimeType, RunType, InferType, EndType, AdapterType, SessionOrNone, CalibrationOrNone
<1>8. ASSUME NEW x \in Calibrations PROVE CancelInv(x)'
  <2>1. WasCancelled(x)' <=> WasCancelled(x)
    BY <1>1, <1>2, <1>3 DEF WasCancelled
  <2>2. QED
    BY <1>1, <1>2, <1>3, <2>1, EyeTypes DEF EyeInv, CancelInv, RunInv, Running
<1>9. ASSUME NEW x \in Calibrations PROVE ModelInv(x)' /\ QueueInv(x)'
  BY <1>1, <1>2, <1>3, EyeTypes, EyeAssumption DEF EyeInv, RuntimeInv, RunInv, ModelInv, QueueInv, Running, RuntimeType, RunType, InferType, EndType, AdapterType, SessionOrNone, CalibrationOrNone
<1>10. ASSUME NEW g \in Frames PROVE FrameInv(g)'
  BY <1>1, <1>2, <1>3, EyeTypes, EyeAssumption DEF EyeInv, FrameInv, Queued, RuntimeType, RunType, InferType, EndType, AdapterType, SessionOrNone, CalibrationOrNone
<1>11. ASSUME NEW d \in Enders PROVE EndInv(d)'
  <2>1. \A x \in Calibrations : WasCancelled(x)' <=> WasCancelled(x)
    BY <1>1, <1>2, <1>3 DEF WasCancelled
  <2>2. QED
    BY <1>1, <1>2, <1>3, <2>1, EyeTypes DEF EyeInv, EndInv, RunInv, Running, EndType
<1>12. QED
  BY <1>4, <1>5, <1>6, <1>7, <1>8, <1>9, <1>10, <1>11 DEF EyeInv

-----------------------------------------------------------------------------
(* end_session and close.                                                   *)

\* The end of a session cancels what runs for it, and nothing else.
LEMMA EndArrivesStep ==
  ASSUME EyeInv, NEW e \in Enders, EndArrives(e)
  PROVE  EyeInv'
<1>1. PICK s \in Sessions :
        /\ ending' = [ending EXCEPT ![e] =
             [pc |-> IF BoundTo(s) THEN "locking" ELSE "done", session |-> s,
              before |-> {c \in Calibrations : cal[c].session = s}]]
        /\ IF BoundTo(s) THEN CancelBy(s) ELSE UNCHANGED <<cancel, cancelled>>
  BY DEF EndArrives
<1>2. /\ ending[e].pc = "none"
      /\ UNCHANGED <<runtime, adapter, holder, queue, cal, inf, closing, trained, model>>
  BY DEF EndArrives
<1>3. /\ ending' \in [Enders -> EndType] /\ ending'[e].session = s
      /\ ending'[e].pc = IF BoundTo(s) THEN "locking" ELSE "done"
      /\ \A x \in Calibrations : x \in ending'[e].before <=> cal[x].session = s
      /\ \A d \in Enders : d # e => ending'[d] = ending[d]
  BY <1>1, EyeTypes DEF EndType, SessionOrNone
<1>4. /\ cancel' \in BOOLEAN /\ cancelled \subseteq cancelled' /\ (cancel => cancel')
      /\ cancelled' \subseteq Calibrations \X Sessions
      /\ \A x \in Calibrations, t \in Sessions : <<x, t>> \in cancelled' /\ <<x, t>> \notin cancelled =>
           x = runtime.queue /\ t = s /\ BoundTo(s) /\ cancel'
  <2>1. CASE BoundTo(s) /\ runtime.queue # None
    <3>1. runtime.queue \in Calibrations
      BY <2>1, EyeTypes DEF RuntimeType, CalibrationOrNone
    <3>2. cancel' = TRUE /\ cancelled' = cancelled \cup {<<runtime.queue, s>>}
      BY <1>1, <2>1 DEF CancelBy
    <3>3. QED
      BY <2>1, <3>1, <3>2, EyeTypes
  <2>2. CASE ~(BoundTo(s) /\ runtime.queue # None)
    <3>1. cancelled' = cancelled /\ (cancel' = TRUE \/ cancel' = cancel)
      BY <1>1, <2>2 DEF CancelBy
    <3>2. cancel' \in BOOLEAN /\ (cancel => cancel')
      <4>1. cancel \in BOOLEAN
        BY EyeTypes
      <4>2. CASE cancel' = TRUE
        BY <4>2, Zenon
      <4>3. CASE cancel' = cancel
        BY <4>1, <4>3, Zenon
      <4>4. QED
        BY <3>1, <4>2, <4>3, Zenon
    <3>3. QED
      BY <3>1, <3>2, EyeTypes
  <2>3. QED
    BY <2>1, <2>2
<1>5. \A x \in Calibrations :
        WasCancelled(x)' => WasCancelled(x) \/ (x = runtime.queue /\ BoundTo(s) /\ cancel')
  BY <1>4 DEF WasCancelled
<1>6. runtime.queue # None /\ BoundTo(s) => s = cal[runtime.queue].session
  BY EyeAssumption DEF EyeInv, RuntimeInv, BoundTo
<1>7. \A x \in Calibrations : WasCancelled(x) => WasCancelled(x)'
  BY <1>4 DEF WasCancelled
<1>8. Typed'
  BY <1>1, <1>2, <1>3, <1>4, <1>5, <1>6, <1>7, EyeTypes, EyeTypesNext
<1>9. RuntimeInv'
  BY <1>1, <1>2, <1>3, <1>4, <1>5, <1>6, <1>7, EyeTypes, EyeAssumption DEF EyeInv, RuntimeInv, RunInv, Running, RuntimeType, RunType, InferType, EndType, AdapterType, SessionOrNone, CalibrationOrNone
<1>10. NobodyElseCancels' /\ ModelOfSession'
  <2>1. NobodyElseCancels'
    <3> SUFFICES ASSUME NEW x \in Calibrations, NEW t \in Sessions, <<x, t>> \in cancelled'
                 PROVE  cal[x].session = t
      BY <1>2, <1>4 DEF NobodyElseCancels
    <3>1. CASE <<x, t>> \in cancelled
      BY <3>1 DEF EyeInv, NobodyElseCancels
    <3>2. CASE <<x, t>> \notin cancelled
      BY <1>4, <1>6, <3>2, EyeAssumption
    <3>3. QED
      BY <3>1, <3>2
  <2>2. ModelOfSession'
    BY <1>2, <1>3 DEF EyeInv, ModelOfSession
  <2>3. QED
    BY <2>1, <2>2
<1>11. ASSUME NEW x \in Calibrations PROVE RunInv(x)'
  BY <1>1, <1>2, <1>3, <1>4, <1>5, <1>6, <1>7, EyeTypes, EyeAssumption DEF EyeInv, RuntimeInv, RunInv, Running, RuntimeType, RunType, InferType, EndType, AdapterType, SessionOrNone, CalibrationOrNone
<1>12. ASSUME NEW x \in Calibrations PROVE CancelInv(x)'
  <2>1. CASE WasCancelled(x)
    BY <1>2, <1>4, <2>1 DEF EyeInv, CancelInv, Running
  <2>2. CASE WasCancelled(x)' /\ ~WasCancelled(x)
    <3>1. x = runtime.queue /\ cancel' /\ runtime.queue # None
      BY <1>5, <2>2, EyeAssumption
    <3>2. Running(x) /\ ~runtime.usable
      BY <3>1 DEF EyeInv, RuntimeInv, RunInv
    <3>3. QED
      BY <1>2, <3>1, <3>2 DEF CancelInv, Running
  <2>3. QED
    BY <2>1, <2>2 DEF CancelInv
<1>13. ASSUME NEW x \in Calibrations PROVE ModelInv(x)' /\ QueueInv(x)'
  <2>1. ModelInv(x) /\ QueueInv(x)
    BY DEF EyeInv
  <2>2. QED
    BY <1>2, <1>3, <2>1 DEF ModelInv, QueueInv
<1>14. ASSUME NEW g \in Frames PROVE FrameInv(g)'
  BY <1>1, <1>2, <1>3, <1>4, <1>5, <1>6, <1>7, EyeTypes, EyeAssumption DEF EyeInv, FrameInv, Queued, RuntimeType, RunType, InferType, EndType, AdapterType, SessionOrNone, CalibrationOrNone
<1>15. ASSUME NEW d \in Enders PROVE EndInv(d)'
  <2>1. CASE d # e
    <3>1. EndInv(d) /\ ending'[d] = ending[d] /\ ending[d].before \subseteq Calibrations
      BY <1>3, <2>1, EyeTypes DEF EyeInv, EndType
    <3>2. QED
      BY <1>2, <1>7, <3>1 DEF EndInv, Running
  <2>2. CASE d = e
    <3> SUFFICES ASSUME NEW x \in Calibrations, cal[x].session = s
                 PROVE  /\ Running(x) /\ runtime.open => WasCancelled(x)'
                        /\ ~BoundTo(s) => ~(runtime.open /\ runtime.usable /\ runtime.id = x)
      <4>1. ending'[e].before \subseteq Calibrations /\ s # None
        BY <1>3, EyeAssumption DEF EndType
      <4>2. QED
        BY <1>2, <1>3, <2>2, <4>1 DEF EndInv, Running
    <3>1. ASSUME Running(x), runtime.open PROVE WasCancelled(x)'
      <4>1. runtime.queue = x /\ runtime.queue # None /\ runtime.binding = s
        BY <3>1, EyeAssumption DEF EyeInv, RunInv, RuntimeInv
      <4>2. <<x, s>> \in cancelled'
        BY <1>1, <4>1 DEF CancelBy, BoundTo
      <4>3. QED
        BY <4>2 DEF WasCancelled
    <3>2. ASSUME runtime.open, runtime.usable, runtime.id = x PROVE BoundTo(s)
      BY <3>2 DEF EyeInv, RuntimeInv, BoundTo
    <3>3. QED
      BY <3>1, <3>2
  <2>3. QED
    BY <2>1, <2>2
<1>16. QED
  BY <1>8, <1>9, <1>10, <1>11, <1>12, <1>13, <1>14, <1>15 DEF EyeInv

\* What is left of the session is forgotten; another that began since is not.
LEMMA EndDiscardsStep ==
  ASSUME EyeInv, NEW e \in Enders, EndDiscards(e)
  PROVE  EyeInv'
<1>1. /\ ending[e].pc = "locking" /\ holder = None /\ ending' = [ending EXCEPT ![e].pc = "done"]
      /\ UNCHANGED <<cancel, holder, queue, cal, inf, closing, trained, cancelled, model>>
  BY DEF EndDiscards, history
<1>2. PICK s \in Sessions : s = ending[e].session
  BY <1>1, EyeTypes DEF EyeInv, EndInv, EndType, SessionOrNone
<1>3. /\ ending' \in [Enders -> EndType] /\ ending'[e].session = s /\ ending'[e].pc = "done"
      /\ ending'[e].before = ending[e].before
      /\ \A d \in Enders : d # e => ending'[d] = ending[d]
  BY <1>1, <1>2, EyeTypes DEF EndType
<1>4. PICK forget \in BOOLEAN : forget = (BoundTo(s) /\ runtime.binding \in {s, None})
  BY Zenon
<1>5. /\ runtime' = IF forget THEN [runtime EXCEPT !.usable = FALSE, !.id = None,
                                               !.calibrated = None, !.summary = None]
                           ELSE runtime
      /\ adapter' = IF forget /\ runtime.open THEN [adapter EXCEPT !.model = None] ELSE adapter
  BY <1>2, <1>4 DEF EndDiscards
<1>6. /\ runtime' \in RuntimeType /\ adapter' \in AdapterType
      /\ runtime'.open = runtime.open /\ runtime'.queue = runtime.queue /\ runtime'.binding = runtime.binding
      /\ adapter'.disposed = adapter.disposed
  BY <1>5, EyeTypes DEF RuntimeType, AdapterType, SessionOrNone, CalibrationOrNone
<1>7. IF forget THEN /\ ~runtime'.usable /\ runtime'.id = None
                      /\ runtime'.calibrated = None /\ runtime'.summary = None
                      /\ adapter'.model = IF runtime.open THEN None ELSE adapter.model
                 ELSE UNCHANGED <<runtime, adapter>>
  BY <1>5, EyeTypes DEF RuntimeType, AdapterType
<1>8. runtime.usable /\ runtime.open => runtime.binding = None
  BY EyeTypes, EyeAssumption DEF EyeInv, RuntimeInv, RunInv, RuntimeType, CalibrationOrNone
<1>9. Typed'
  BY <1>1, <1>2, <1>3, <1>4, <1>5, <1>6, <1>7, <1>8, EyeTypes, EyeTypesNext
<1>10. RuntimeInv'
  BY <1>1, <1>2, <1>3, <1>4, <1>5, <1>6, <1>7, <1>8, EyeTypes, EyeAssumption DEF EyeInv, RuntimeInv, RunInv, Running, RuntimeType, RunType, InferType, EndType, AdapterType, SessionOrNone, CalibrationOrNone
<1>11. NobodyElseCancels' /\ ModelOfSession'
  <2>1. NobodyElseCancels'
    BY <1>1 DEF EyeInv, NobodyElseCancels
  <2>2. ModelOfSession'
    BY <1>1, <1>3, <1>6, <1>7 DEF EyeInv, ModelOfSession
  <2>3. QED
    BY <2>1, <2>2
<1>12. ASSUME NEW x \in Calibrations PROVE RunInv(x)'
  BY <1>1, <1>2, <1>3, <1>4, <1>5, <1>6, <1>7, <1>8, EyeTypes, EyeAssumption DEF EyeInv, RuntimeInv, RunInv, Running, RuntimeType, RunType, InferType, EndType, AdapterType, SessionOrNone, CalibrationOrNone
<1>13. ASSUME NEW x \in Calibrations PROVE CancelInv(x)'
  <2>1. CancelInv(x) /\ (WasCancelled(x)' <=> WasCancelled(x))
    BY <1>1 DEF EyeInv, WasCancelled
  <2>2. QED
    BY <1>1, <1>7, <2>1 DEF CancelInv, Running
<1>14. ASSUME NEW x \in Calibrations PROVE ModelInv(x)' /\ QueueInv(x)'
  <2>1. ModelInv(x) /\ QueueInv(x)
    BY DEF EyeInv
  <2>2. QueueInv(x)'
    BY <1>1, <1>6, <2>1 DEF QueueInv
  <2>3. CASE ~forget
    <3>1. UNCHANGED <<runtime, adapter>>
      BY <1>7, <2>3
    <3>2. \A d \in Enders : ending[d].pc = "done" => ending'[d] = ending[d]
      BY <1>1, <1>3
    <3>3. QED
      BY <1>1, <2>1, <2>2, <3>1, <3>2 DEF ModelInv
  <2>4. CASE forget
    <3> SUFFICES ASSUME cal[x].pc = "deciding", runtime.open
                 PROVE  adapter'.model = None /\ ending'[e].pc = "done" /\ ending'[e].session = cal[x].session
      BY <1>1, <1>3, <1>6, <2>2 DEF ModelInv
    <3>1. runtime.queue = x /\ runtime.queue # None
      BY EyeAssumption DEF EyeInv, RunInv, Running
    <3>2. runtime.binding = cal[x].session /\ runtime.binding # None
      BY <3>1 DEF EyeInv, RuntimeInv
    <3>3. QED
      BY <1>3, <1>4, <1>7, <2>4, <3>2
  <2>5. QED
    BY <2>2, <2>3, <2>4
<1>15. ASSUME NEW g \in Frames PROVE FrameInv(g)'
  BY <1>1, <1>2, <1>3, <1>4, <1>5, <1>6, <1>7, <1>8, EyeTypes, EyeAssumption DEF EyeInv, FrameInv, Queued, RuntimeType, RunType, InferType, EndType, AdapterType, SessionOrNone, CalibrationOrNone
<1>16. ASSUME NEW d \in Enders PROVE EndInv(d)'
  <2>1. \A x \in Calibrations : WasCancelled(x)' <=> WasCancelled(x)
    BY <1>1 DEF WasCancelled
  <2>2. EndInv(d) /\ d \in Enders /\ ending[d].before \subseteq Calibrations
    BY EyeTypes DEF EyeInv, EndType
  <2>3. CASE d # e
    <3>1. ending'[d] = ending[d]
      BY <1>3, <2>3
    <3>2. ASSUME NEW x \in Calibrations, runtime'.open, runtime'.usable, runtime'.id = x
          PROVE  runtime.open /\ runtime.usable /\ runtime.id = x
      BY <1>6, <1>7, <3>2
    <3>3. QED
      BY <1>1, <1>6, <2>1, <2>2, <3>1, <3>2 DEF EndInv, Running
  <2>4. CASE d = e
    <3>1. ASSUME NEW x \in ending[e].before, runtime'.open, runtime'.usable, runtime'.id = x PROVE FALSE
      <4>1. ~forget /\ runtime.open /\ runtime.usable /\ runtime.id = x /\ runtime.binding = None
        BY <1>6, <1>7, <1>8, <3>1
      <4>2. runtime.calibrated = s
        BY <1>2, <2>2, <2>4, <4>1 DEF EyeInv, RuntimeInv, EndInv
      <4>3. QED
        BY <1>4, <4>1, <4>2 DEF BoundTo
    <3>2. QED
      BY <1>1, <1>2, <1>3, <1>6, <2>1, <2>2, <2>4, <3>1, EyeAssumption DEF EndInv, Running
  <2>5. QED
    BY <2>3, <2>4
<1>17. QED
  BY <1>9, <1>10, <1>11, <1>12, <1>13, <1>14, <1>15, <1>16 DEF EyeInv

\* close sets the cancel flag before it waits for the lock.
LEMMA CloseBeginsStep ==
  ASSUME EyeInv, CloseBegins
  PROVE  EyeInv'
<1>1. /\ closing = "none" /\ closing' = "locking" /\ cancel' = TRUE
      /\ UNCHANGED <<runtime, adapter, holder, queue, cal, inf, ending, trained, cancelled, model>>
  BY DEF CloseBegins, history
<1>2. Typed'
  BY <1>1, EyeTypes, EyeTypesNext
<1>3. RuntimeInv'
  BY <1>1, EyeTypes, EyeAssumption DEF EyeInv, RuntimeInv, RunInv, Running, RuntimeType, RunType, InferType, EndType, AdapterType, SessionOrNone, CalibrationOrNone
<1>4. NobodyElseCancels' /\ ModelOfSession'
  BY <1>1, EyeTypes, EyeAssumption DEF EyeInv, RuntimeInv, RunInv, ModelInv, CancelInv, WasCancelled, NobodyElseCancels, ModelOfSession, Running, RuntimeType, RunType, InferType, EndType, AdapterType, SessionOrNone, CalibrationOrNone
<1>5. ASSUME NEW x \in Calibrations PROVE RunInv(x)'
  BY <1>1, EyeTypes, EyeAssumption DEF EyeInv, RuntimeInv, RunInv, Running, RuntimeType, RunType, InferType, EndType, AdapterType, SessionOrNone, CalibrationOrNone
<1>6. ASSUME NEW x \in Calibrations PROVE CancelInv(x)'
  <2>1. WasCancelled(x)' <=> WasCancelled(x)
    BY <1>1 DEF WasCancelled
  <2>2. QED
    BY <1>1, <2>1, EyeTypes DEF EyeInv, CancelInv, RunInv, Running
<1>7. ASSUME NEW x \in Calibrations PROVE ModelInv(x)' /\ QueueInv(x)'
  BY <1>1, EyeTypes, EyeAssumption DEF EyeInv, RuntimeInv, RunInv, ModelInv, QueueInv, Running, RuntimeType, RunType, InferType, EndType, AdapterType, SessionOrNone, CalibrationOrNone
<1>8. ASSUME NEW g \in Frames PROVE FrameInv(g)'
  BY <1>1, EyeTypes, EyeAssumption DEF EyeInv, FrameInv, Queued, RuntimeType, RunType, InferType, EndType, AdapterType, SessionOrNone, CalibrationOrNone
<1>9. ASSUME NEW d \in Enders PROVE EndInv(d)'
  <2>1. \A x \in Calibrations : WasCancelled(x)' <=> WasCancelled(x)
    BY <1>1 DEF WasCancelled
  <2>2. QED
    BY <1>1, <2>1, EyeTypes DEF EyeInv, EndInv, RunInv, Running, EndType
<1>10. QED
  BY <1>2, <1>3, <1>4, <1>5, <1>6, <1>7, <1>8, <1>9 DEF EyeInv

\* The worker closes when no calibration captures, and empties its queue.
LEMMA CloseEndsStep ==
  ASSUME EyeInv, CloseEnds
  PROVE  EyeInv'
<1>1. /\ closing = "locking" /\ holder = None /\ closing' = "done" /\ adapter' = [disposed |-> TRUE, model |-> None]
      /\ UNCHANGED <<cancel, holder, cal, inf, ending, trained, cancelled, model>>
  BY DEF CloseEnds, history
<1>2. /\ runtime' \in RuntimeType /\ ~runtime'.open /\ ~runtime'.usable /\ runtime'.queue = None
      /\ runtime'.binding = None
  BY EyeTypes DEF CloseEnds, RuntimeType, SessionOrNone, CalibrationOrNone
<1>3. adapter' \in AdapterType
  BY <1>1 DEF AdapterType, CalibrationOrNone
<1>4. /\ queue' \in [Calibrations -> Queue]
      /\ \A x \in Calibrations : queue'[x] = <<>> \/ (queue'[x] = queue[x] /\ x # runtime.queue)
  <2>1. CASE runtime.queue = None
    BY <2>1, EyeTypes, EyeAssumption DEF CloseEnds
  <2>2. CASE runtime.queue # None
    <3>1. PICK q \in Calibrations : q = runtime.queue /\ queue' = [queue EXCEPT ![q] = <<>>]
      BY <2>2, EyeTypes DEF CloseEnds, RuntimeType, CalibrationOrNone
    <3>2. <<>> \in Queue
      BY EyeAssumption DEF Queue
    <3>3. QED
      BY <3>1, <3>2, EyeTypes
  <2>3. QED
    BY <2>1, <2>2
<1>5. Typed'
  BY <1>1, <1>2, <1>3, <1>4, EyeTypes, EyeTypesNext
<1>6. RuntimeInv'
  BY <1>1, <1>2, <1>3, <1>4, EyeTypes, EyeAssumption DEF EyeInv, RuntimeInv, RunInv, Running, RuntimeType, RunType, InferType, EndType, AdapterType, SessionOrNone, CalibrationOrNone
<1>7. NobodyElseCancels' /\ ModelOfSession'
  BY <1>1, <1>2, <1>3, <1>4, EyeTypes, EyeAssumption DEF EyeInv, RuntimeInv, RunInv, ModelInv, CancelInv, WasCancelled, NobodyElseCancels, ModelOfSession, Running, RuntimeType, RunType, InferType, EndType, AdapterType, SessionOrNone, CalibrationOrNone
<1>8. ASSUME NEW x \in Calibrations PROVE RunInv(x)'
  BY <1>1, <1>2, <1>3, <1>4, EyeTypes, EyeAssumption DEF EyeInv, RuntimeInv, RunInv, Running, RuntimeType, RunType, InferType, EndType, AdapterType, SessionOrNone, CalibrationOrNone
<1>9. ASSUME NEW x \in Calibrations PROVE CancelInv(x)'
  <2>1. WasCancelled(x)' <=> WasCancelled(x)
    BY <1>1, <1>2, <1>3, <1>4 DEF WasCancelled
  <2>2. QED
    BY <1>1, <1>2, <1>3, <1>4, <2>1, EyeTypes DEF EyeInv, CancelInv, RunInv, Running
<1>10. ASSUME NEW x \in Calibrations PROVE ModelInv(x)' /\ QueueInv(x)'
  BY <1>1, <1>2, <1>3, <1>4, EyeTypes, EyeAssumption DEF EyeInv, RuntimeInv, RunInv, ModelInv, QueueInv, Running, RuntimeType, RunType, InferType, EndType, AdapterType, SessionOrNone, CalibrationOrNone
<1>11. ASSUME NEW g \in Frames PROVE FrameInv(g)'
  <2>1. \A x \in Calibrations : Queued(g, x)' => Queued(g, x)
    BY <1>4 DEF Queued
  <2>2. FrameInv(g)
    BY DEF EyeInv
  <2>3. QED
    BY <1>1, <2>1, <2>2 DEF FrameInv
<1>12. ASSUME NEW d \in Enders PROVE EndInv(d)'
  <2>1. \A x \in Calibrations : WasCancelled(x)' <=> WasCancelled(x)
    BY <1>1, <1>2, <1>3, <1>4 DEF WasCancelled
  <2>2. QED
    BY <1>1, <1>2, <1>3, <1>4, <2>1, EyeTypes DEF EyeInv, EndInv, RunInv, Running, EndType
<1>13. QED
  BY <1>5, <1>6, <1>7, <1>8, <1>9, <1>10, <1>11, <1>12 DEF EyeInv

-----------------------------------------------------------------------------
(* Every step preserves the invariant.                                      *)

\* Every step keeps the invariant.
LEMMA EyeStep == EyeInv /\ [Next]_vars => EyeInv'
<1> SUFFICES ASSUME EyeInv, [Next]_vars PROVE EyeInv'
  OBVIOUS
<1>1. ASSUME NEW c \in Calibrations,
             \/ CalibrationBegins(c) \/ CalibrationRefused(c) \/ CaptureBegins(c) \/ Capture(c)
             \/ CaptureEnds(c) \/ Decide(c) \/ Drain(c) \/ CancelMatching(c)
      PROVE  EyeInv'
  BY <1>1, CalibrationBeginsStep, CalibrationRefusedStep, CaptureBeginsStep, CaptureStep,
     CaptureEndsStep, DecideStep, DrainStep, CancelMatchingStep
<1>2. ASSUME NEW f \in Frames, Arrive(f) \/ Accept(f) \/ Put(f) \/ Gaze(f)
      PROVE  EyeInv'
  BY <1>2, ArriveStep, AcceptStep, PutStep, GazeStep
<1>3. ASSUME NEW e \in Enders, EndArrives(e) \/ EndDiscards(e)
      PROVE  EyeInv'
  BY <1>3, EndArrivesStep, EndDiscardsStep
<1>4. CASE CloseBegins \/ CloseEnds
  BY <1>4, CloseBeginsStep, CloseEndsStep
<1>5. CASE UNCHANGED vars
  <2>1. UNCHANGED <<runtime, cancel, adapter, holder, queue, cal, inf, ending, closing, trained,
                    cancelled, model>>
    BY <1>5 DEF vars, threads, history
  <2>2. Typed' /\ RuntimeInv' /\ NobodyElseCancels' /\ ModelOfSession'
    BY <2>1 DEF EyeInv, Typed, TypeOK, RuntimeInv, NobodyElseCancels, ModelOfSession, Running
  <2>3. ASSUME NEW c \in Calibrations PROVE RunInv(c)' /\ CancelInv(c)' /\ ModelInv(c)' /\ QueueInv(c)'
    BY <2>1 DEF EyeInv, RunInv, CancelInv, ModelInv, QueueInv, Running, WasCancelled
  <2>4. ASSUME NEW f \in Frames PROVE FrameInv(f)'
    BY <2>1 DEF EyeInv, FrameInv, Queued
  <2>5. ASSUME NEW e \in Enders PROVE EndInv(e)'
    BY <2>1 DEF EyeInv, EndInv, Running, WasCancelled
  <2>6. QED
    BY <2>2, <2>3, <2>4, <2>5 DEF EyeInv
<1>6. QED
  BY <1>1, <1>2, <1>3, <1>4, <1>5 DEF Next

\* Every reachable state satisfies it.
LEMMA EyeInvariant == Spec => []EyeInv
BY InitEye, EyeStep, PTL DEF Spec

\* A calibration that was cancelled while it ran is never used, and nobody
\* but its own session cancels it (cancel_matching_calibration, end_session,
\* the finally block of run_calibration).
THEOREM CancelsAreExact == Spec => []CancelsExact
BY EyeInvariant, EyeInvSafe, PTL

\* The model in use is of the session in use, and was trained on frames of it
\* (run_calibration, infer, _accept_synchronized_frame).
THEOREM ModelsAreOwn == Spec => []ModelIsOwn
BY EyeInvariant, EyeInvSafe, PTL

\* No frame stays in a queue that nobody reads, and no calibration of an ended
\* session stays in use (_drain_calibration_queue, end_session, close).
THEOREM NothingLeft == Spec => []NothingStays
BY EyeInvariant, EyeInvSafe, PTL

-----------------------------------------------------------------------------
(* The adapter: what its answers say.                                       *)

Event == [stream : Streams, n : 0..MaxOrder, id : CalibrationIds, revision : CalibrationIds \cup {Adapter!No}]
Answer == [event : Event, why : {"gaze", "no_face", "out_of_order", "gaze_unavailable"},
           by : CalibrationIds \cup {Adapter!No, "default"},
           fed : SUBSET (CalibrationIds \X Streams)]

AdapterTypes ==
  /\ life \in {"off", "loaded", "warm"}
  /\ calibratedId \in used \cup {Adapter!No} /\ calibrated \in BOOLEAN
  /\ revision \in CalibrationIds \cup {Adapter!No}
  /\ current \in Streams \cup {Adapter!No} /\ order \in Int
  /\ used \subseteq CalibrationIds
  /\ cache \in Seq(Answer) /\ answers \in Seq(Answer)

\* The model in use is of the calibration the label names.
FitInv ==
  IF calibrated THEN life = "warm" /\ fit = calibratedId /\ fit \in CalibrationIds
  ELSE fit \in {Adapter!No, "default"}

FilterInv == filter \subseteq {<<calibratedId, current>>}

\* What is remembered has been said, of this calibration and stream, and no
\* gaze of it is later than the last frame.
CacheInv ==
  \A i \in 1..Len(cache) :
    /\ cache[i].event.id = calibratedId /\ cache[i].event.stream = current
    /\ cache[i].why = "gaze" => cache[i].event.n <= order
    /\ \E k \in 1..Len(answers) : answers[k] = cache[i]

\* Answers name a calibration that was begun, and gazes its model.
SaidInv ==
  \A i \in 1..Len(answers) :
    /\ answers[i].event.id \in used
    /\ answers[i].why = "gaze" =>
         /\ answers[i].by = answers[i].event.id
         /\ answers[i].fed = {<<answers[i].event.id, answers[i].event.stream>>}

\* All answers since the i-th are of one stream and one calibration.
SameSince(i) ==
  \A k \in i..Len(answers) :
    answers[k].event.stream = answers[i].event.stream /\ answers[k].event.id = answers[i].event.id

\* The adapter follows the stream of the answers it gave last, and has not
\* gone back.
FollowInv ==
  \A i \in 1..Len(answers) :
    answers[i].why = "gaze" /\ answers[i].event.id = calibratedId /\ SameSince(i)
      => current = answers[i].event.stream /\ answers[i].event.n <= order

AdapterInv ==
  /\ AdapterTypes /\ FitInv /\ FilterInv /\ CacheInv /\ SaidInv /\ FollowInv
  /\ Adapter!GazesInOrder

\* A life or calibration that begins or ends: nothing is followed any more, and
\* the calibration, if there is one, is a new one.
Restarts ==
  /\ current' = Adapter!No /\ order' = -1 /\ cache' = <<>> /\ filter' = {} /\ answers' = answers
  /\ life' \in {"off", "loaded", "warm"}
  /\ calibratedId' \in (used' \cup {Adapter!No}) \ used
  /\ calibrated' \in BOOLEAN /\ revision' \in CalibrationIds \cup {Adapter!No}
  /\ used \subseteq used' /\ used' \subseteq CalibrationIds
  /\ FitInv'

\* A frame is answered.
Answers(a) ==
  /\ calibratedId # Adapter!No /\ UNCHANGED <<life, fit, calibratedId, calibrated, revision, used>>
  /\ answers' = Append(answers, a) /\ a \in Answer
  /\ \/ /\ \E i \in 1..Len(cache) : a = cache[i]
        /\ UNCHANGED <<current, order, cache, filter>>
     \/ \E f \in [stream : Streams, n : 0..MaxOrder] :
          /\ a.event.stream = f.stream /\ a.event.n = f.n /\ a.event.id = calibratedId
          /\ current' = f.stream /\ order' \in Int
          /\ current = f.stream => order' >= order
          /\ a.why = "gaze" => order' = f.n /\ calibrated /\ a.by = fit /\ a.fed = {<<calibratedId, f.stream>>}
          /\ filter' \subseteq {<<calibratedId, f.stream>>}
          /\ cache' \in Seq(Answer)
          /\ \A j \in 1..Len(cache') :
               cache'[j] = a \/ (current = f.stream /\ \E i \in 1..Len(cache) : cache'[j] = cache[i])

\* The adapter begins with nothing.
LEMMA AdapterInit == ASSUME Adapter!Init PROVE AdapterInv
<1>1. /\ life = "off" /\ fit = Adapter!No /\ calibratedId = Adapter!No /\ calibrated = FALSE
      /\ revision = Adapter!No /\ current = Adapter!No /\ order = -1 /\ cache = <<>> /\ filter = {}
      /\ used = {} /\ answers = <<>>
  BY DEF Adapter!Init
<1>2. AdapterTypes
  <2>1. cache \in Seq(Answer) /\ answers \in Seq(Answer)
    BY <1>1
  <2>2. life \in {"off", "loaded", "warm"} /\ calibratedId \in used \cup {Adapter!No} /\ calibrated \in BOOLEAN
    BY <1>1
  <2>3. revision \in CalibrationIds \cup {Adapter!No} /\ current \in Streams \cup {Adapter!No}
    BY <1>1
  <2>4. order \in Int /\ used \subseteq CalibrationIds
    BY <1>1
  <2> QED BY <2>1, <2>2, <2>3, <2>4 DEF AdapterTypes
<1>3. FitInv /\ FilterInv
  BY <1>1 DEF FitInv, FilterInv
<1>4. CacheInv /\ SaidInv /\ FollowInv /\ Adapter!GazesInOrder
  <2>1. 1..Len(cache) = {} /\ 1..Len(answers) = {}
    BY <1>1
  <2> QED BY <2>1 DEF CacheInv, SaidInv, FollowInv, Adapter!GazesInOrder
<1> QED BY <1>2, <1>3, <1>4 DEF AdapterInv

\* What begins or ends a life or a calibration restarts.
LEMMA RestartsStep ==
  ASSUME AdapterInv,
         \/ Adapter!Initialize \/ Adapter!Dispose \/ Adapter!DiscardCalibration
         \/ \E c \in CalibrationIds, ok \in BOOLEAN :
              Adapter!CalibrateSynchronized(c, ok) \/ Adapter!Calibrate(c, ok)
  PROVE  Restarts
<1>0. AdapterTypes
  BY DEF AdapterInv
<1>1. Adapter!No \notin used /\ Adapter!No = "none"
  BY <1>0, AdapterAssumption DEF AdapterTypes, Adapter!No
<1>2. CASE Adapter!Initialize
  BY <1>0, <1>1, <1>2 DEF Adapter!Initialize, Adapter!RuntimeReset, Restarts, FitInv, AdapterTypes
<1>3. CASE Adapter!Dispose
  BY <1>0, <1>1, <1>3 DEF Adapter!Dispose, Adapter!RuntimeReset, Restarts, FitInv, AdapterTypes
<1>4. CASE Adapter!DiscardCalibration
  BY <1>0, <1>1, <1>4 DEF Adapter!DiscardCalibration, Adapter!RuntimeReset, Restarts, FitInv, AdapterTypes
<1>5. ASSUME NEW c \in CalibrationIds, NEW ok \in BOOLEAN, Adapter!CalibrateSynchronized(c, ok)
      PROVE  Restarts
  BY <1>0, <1>1, <1>5 DEF Adapter!CalibrateSynchronized, Adapter!RuntimeReset, Restarts, FitInv, AdapterTypes
<1>6. ASSUME NEW c \in CalibrationIds, NEW ok \in BOOLEAN, Adapter!Calibrate(c, ok)
      PROVE  Restarts
  BY <1>0, <1>1, <1>6 DEF Adapter!Calibrate, Adapter!RuntimeReset, Restarts, FitInv, AdapterTypes
<1> QED BY <1>2, <1>3, <1>4, <1>5, <1>6

\* Nothing that was remembered or followed matters after a restart.
LEMMA RestartsKeep == ASSUME AdapterInv, Restarts PROVE AdapterInv'
<1>0. AdapterTypes /\ SaidInv /\ Adapter!GazesInOrder
  BY DEF AdapterInv
<1>1. answers' = answers /\ cache' = <<>> /\ filter' = {} /\ FitInv'
  BY DEF Restarts
<1>2. AdapterTypes'
  BY <1>0, <1>1, AdapterAssumption DEF AdapterTypes, Restarts
<1>3. FilterInv' /\ CacheInv'
  BY <1>1 DEF FilterInv, CacheInv
<1>4. SaidInv'
  BY <1>0, <1>1 DEF SaidInv, Restarts
<1>5. FollowInv'
  <2>1. \A i \in 1..Len(answers) : answers[i].event.id # calibratedId'
    BY <1>0, AdapterAssumption DEF SaidInv, Restarts, AdapterTypes, Adapter!No
  <2> QED BY <1>1, <2>1 DEF FollowInv
<1>6. Adapter!GazesInOrder'
  BY <1>0, <1>1 DEF Adapter!GazesInOrder
<1> QED BY <1>1, <1>2, <1>3, <1>4, <1>5, <1>6 DEF AdapterInv

\* What is remembered stays a list of answers.
LEMMA ShortenedCache ==
  ASSUME NEW q \in Seq(Answer), NEW a \in Answer
  PROVE  /\ Adapter!Shortened(Append(q, a)) \in Seq(Answer)
         /\ \A j \in 1..Len(Adapter!Shortened(Append(q, a))) :
              LET b == Adapter!Shortened(Append(q, a))[j]
              IN b = a \/ \E i \in 1..Len(q) : b = q[i]
<1> DEFINE r == Append(q, a)
<1>1. /\ r \in Seq(Answer) /\ Len(r) = Len(q) + 1 /\ r # <<>>
      /\ \A j \in 1..Len(r) : r[j] = a \/ \E i \in 1..Len(q) : r[j] = q[i]
  <2>1. r \in Seq(Answer) /\ Len(r) = Len(q) + 1
    OBVIOUS
  <2> HIDE DEF r
  <2>3. r # <<>>
    BY <2>1
  <2> USE DEF r
  <2>2. ASSUME NEW j \in 1..Len(r) PROVE r[j] = a \/ \E i \in 1..Len(q) : r[j] = q[i]
    <3>1. CASE j = Len(q) + 1
      BY <3>1
    <3>2. CASE j # Len(q) + 1
      <4>1. j \in 1..Len(q) /\ r[j] = q[j]
        BY <2>1, <2>2, <3>2
      <4> QED BY <4>1
    <3> QED BY <3>1, <3>2
  <2> QED BY <2>1, <2>2, <2>3
<1> HIDE DEF r
<1>2. CASE Len(r) > CacheLimit
  <2>1. Adapter!Shortened(r) = Tail(r)
    BY <1>2 DEF Adapter!Shortened
  <2>2. Tail(r) \in Seq(Answer) /\ Len(Tail(r)) = Len(q) /\ \A j \in 1..Len(q) : Tail(r)[j] = r[j + 1]
    BY <1>1
  <2>3. \A j \in 1..Len(q) : j + 1 \in 1..Len(r)
    BY <1>1
  <2> QED BY <1>1, <2>1, <2>2, <2>3 DEF r
<1>3. CASE ~(Len(r) > CacheLimit)
  BY <1>1, <1>3 DEF Adapter!Shortened, r
<1> QED BY <1>2, <1>3

\* infer answers.
LEMMA AnswersStep ==
  ASSUME AdapterInv,
         NEW f \in [stream : Streams, n : 0..MaxOrder],
         Adapter!FilterFails(f) \/ \E look \in {"gaze", "no_face"} : Adapter!Infer(f, look)
  PROVE  \E a : Answers(a)
<1>0. AdapterTypes /\ FitInv /\ FilterInv /\ CacheInv
  BY DEF AdapterInv
<1>1. calibratedId # Adapter!No => calibratedId \in CalibrationIds
  BY <1>0 DEF AdapterTypes
<1> DEFINE event == [stream |-> f.stream, n |-> f.n, id |-> calibratedId, revision |-> revision]
           now == Adapter!Follows(f)
<1>2. Adapter!Event(f) = event
  BY DEF Adapter!Event
<1>3. calibratedId # Adapter!No => event \in Event
  BY <1>0, <1>1 DEF AdapterTypes, Event
<1>4. /\ now.cache \in Seq(Answer) /\ now.order \in Int
      /\ now.filter \subseteq {<<calibratedId, f.stream>>}
      /\ current = f.stream => now.order = order /\ now.cache = cache
      /\ current # f.stream => now.cache = <<>>
  <2>1. CASE current = f.stream
    BY <1>0, <2>1 DEF Adapter!Follows, AdapterTypes, FilterInv
  <2>2. CASE current # f.stream
    <3>1. now = [order |-> -1, cache |-> <<>>, filter |-> {}]
      BY <2>2 DEF Adapter!Follows
    <3>2. now.order = -1 /\ now.cache = <<>> /\ now.filter = {}
      BY <3>1
    <3>3. now.cache \in Seq(Answer)
      BY <3>2
    <3> HIDE DEF now
    <3> QED BY <2>2, <3>2, <3>3
  <2> QED BY <2>1, <2>2
<1>5. f.n \in Int
  BY AdapterAssumption
<1> HIDE DEF event, now
<1>6. ASSUME NEW a \in Answer, NEW q, q = Adapter!Shortened(Append(now.cache, a))
      PROVE  /\ q \in Seq(Answer)
             /\ \A j \in 1..Len(q) :
                  q[j] = a \/ (current = f.stream /\ \E i \in 1..Len(cache) : q[j] = cache[i])
  <2>1. /\ q \in Seq(Answer)
        /\ \A j \in 1..Len(q) : q[j] = a \/ \E i \in 1..Len(now.cache) : q[j] = now.cache[i]
    BY <1>4, <1>6, ShortenedCache
  <2>2. CASE current = f.stream
    BY <1>4, <2>1, <2>2
  <2>3. CASE current # f.stream
    <3>1. 1..Len(now.cache) = {}
      BY <1>4, <2>3
    <3> QED BY <2>1, <3>1
  <2> QED BY <2>2, <2>3
<1>7. ASSUME NEW look \in {"gaze", "no_face"}, Adapter!Infer(f, look)
      PROVE  \E a : Answers(a)
  <2>1. /\ calibratedId # Adapter!No /\ UNCHANGED <<life, fit, calibratedId, calibrated, revision, used>>
    BY <1>7 DEF Adapter!Infer
  <2>2. CASE Adapter!Cached(event) # {}
    <3>1. /\ answers' = Append(answers, cache[CHOOSE i \in Adapter!Cached(event) : TRUE])
          /\ UNCHANGED <<current, order, cache, filter>>
      BY <1>2, <1>7, <2>2 DEF Adapter!Infer
    <3>2. PICK i \in 1..Len(cache) : i = CHOOSE k \in Adapter!Cached(event) : TRUE
      BY <2>2 DEF Adapter!Cached
    <3>3. cache[i] \in Answer
      BY <1>0 DEF AdapterTypes
    <3> QED BY <2>1, <3>1, <3>2, <3>3 DEF Answers
  <2>3. CASE Adapter!Cached(event) = {}
    <3> DEFINE late == f.n < now.order
               why == IF late THEN "out_of_order"
                      ELSE IF ~calibrated THEN "gaze_unavailable" ELSE look
               fed == IF why = "gaze" THEN now.filter \cup {<<calibratedId, f.stream>>} ELSE now.filter
               a == [event |-> event, why |-> why, by |-> IF why = "gaze" THEN fit ELSE Adapter!No,
                     fed |-> fed]
    <3>1. Adapter!Answer(f, why, IF why = "gaze" THEN fit ELSE Adapter!No, fed) = a
      BY <1>2 DEF Adapter!Answer
    <3>2. /\ current' = f.stream
          /\ order' = (IF late THEN now.order ELSE f.n)
          /\ filter' = fed
          /\ cache' = Adapter!Shortened(Append(now.cache, a))
          /\ answers' = Append(answers, a)
      BY <1>2, <1>7, <2>3, <3>1 DEF Adapter!Infer, now
    <3>3. why \in {"gaze", "no_face", "out_of_order", "gaze_unavailable"}
          /\ (why = "gaze" => ~late /\ calibrated)
      OBVIOUS
    <3>4. fed \subseteq {<<calibratedId, f.stream>>}
          /\ (why = "gaze" => fed = {<<calibratedId, f.stream>>})
      BY <1>4
    <3>5. fed \in SUBSET (CalibrationIds \X Streams)
      BY <1>1, <2>1, <3>4
    <3>6. fit \in CalibrationIds \cup {Adapter!No, "default"}
      BY <1>0 DEF FitInv
    <3> HIDE DEF why, fed, late
    <3>7. a \in Answer
      BY <1>3, <2>1, <3>3, <3>5, <3>6 DEF Answer
    <3>8. a.event.stream = f.stream /\ a.event.n = f.n /\ a.event.id = calibratedId
      BY DEF event
    <3>9. a.why = "gaze" =>
            order' = f.n /\ calibrated /\ a.by = fit /\ a.fed = {<<calibratedId, f.stream>>}
      BY <3>2, <3>3, <3>4
    <3>10. order' \in Int /\ (current = f.stream => order' >= order)
      BY <1>4, <1>5, <3>2 DEF late
    <3>11. /\ cache' \in Seq(Answer)
           /\ \A j \in 1..Len(cache') :
                cache'[j] = a \/ (current = f.stream /\ \E i \in 1..Len(cache) : cache'[j] = cache[i])
      <4> HIDE DEF a
      <4>1. PICK q : q = cache'
        OBVIOUS
      <4> QED BY <1>6, <3>2, <3>7, <4>1
    <3> HIDE DEF a
    <3>12. filter' \subseteq {<<calibratedId, f.stream>>}
      BY <3>2, <3>4
    <3> QED BY <2>1, <3>2, <3>7, <3>8, <3>9, <3>10, <3>11, <3>12 DEF Answers
  <2> QED BY <2>2, <2>3
<1>8. ASSUME Adapter!FilterFails(f) PROVE \E a : Answers(a)
  <2> DEFINE a == [event |-> event, why |-> "gaze_unavailable", by |-> Adapter!No, fed |-> {}]
  <2>1. Adapter!Answer(f, "gaze_unavailable", Adapter!No, {}) = a
    BY <1>2 DEF Adapter!Answer
  <2>2. /\ calibratedId # Adapter!No /\ UNCHANGED <<life, fit, calibratedId, calibrated, revision, used>>
        /\ current' = f.stream /\ order' = f.n /\ filter' = {} /\ f.n >= now.order
        /\ cache' = Adapter!Shortened(Append(now.cache, a))
        /\ answers' = Append(answers, a)
    BY <1>8, <2>1 DEF Adapter!FilterFails, now
  <2>3. a \in Answer
    BY <1>3, <2>2 DEF Answer
  <2>4. a.event.stream = f.stream /\ a.event.n = f.n /\ a.event.id = calibratedId /\ a.why # "gaze"
    BY DEF event
  <2>5. order' \in Int /\ (current = f.stream => order' >= order)
    BY <1>4, <1>5, <2>2
  <2> HIDE DEF a
  <2>6. /\ cache' \in Seq(Answer)
        /\ \A j \in 1..Len(cache') :
             cache'[j] = a \/ (current = f.stream /\ \E i \in 1..Len(cache) : cache'[j] = cache[i])
    <3>1. PICK q : q = cache'
      OBVIOUS
    <3> QED BY <1>6, <2>2, <2>3, <3>1
  <2>7. filter' \subseteq {<<calibratedId, f.stream>>}
    BY <2>2
  <2> QED BY <2>2, <2>3, <2>4, <2>5, <2>6, <2>7 DEF Answers
<1> QED BY <1>7, <1>8

\* An answer keeps the invariant.
LEMMA AnswersKeep == ASSUME AdapterInv, NEW a, Answers(a) PROVE AdapterInv'
<1>0. AdapterTypes /\ FitInv /\ FilterInv /\ CacheInv /\ SaidInv /\ FollowInv /\ Adapter!GazesInOrder
  BY DEF AdapterInv
<1>1. PICK n \in Nat : n = Len(answers)
  BY <1>0 DEF AdapterTypes
<1>2. /\ calibratedId # Adapter!No /\ life' = life /\ fit' = fit /\ calibratedId' = calibratedId
      /\ calibrated' = calibrated /\ revision' = revision /\ used' = used
      /\ answers' = Append(answers, a) /\ a \in Answer
  BY DEF Answers
<1>3. /\ Len(answers') = n + 1 /\ answers'[n + 1] = a /\ answers' \in Seq(Answer)
      /\ \A i \in 1..n : answers'[i] = answers[i]
  BY <1>0, <1>1, <1>2 DEF AdapterTypes
<1>4. calibratedId \in used /\ calibratedId \in CalibrationIds /\ order \in Int
  BY <1>0, <1>2 DEF AdapterTypes
<1>5. a.event \in Event /\ a.event.n \in Int /\ a.event.stream \in Streams
  <2>1. a.event \in Event
    BY <1>2 DEF Answer
  <2>2. a.event.n \in 0..MaxOrder /\ a.event.stream \in Streams
    BY <2>1 DEF Event
  <2> QED BY <2>1, <2>2, AdapterAssumption
\* The two ways to answer.
<1> DEFINE again == /\ \E i \in 1..Len(cache) : a = cache[i]
                    /\ UNCHANGED <<current, order, cache, filter>>
           fresh == /\ a.event.id = calibratedId /\ current' = a.event.stream /\ order' \in Int
                    /\ current = a.event.stream => order' >= order
                    /\ a.why = "gaze" => /\ order' = a.event.n /\ calibrated /\ a.by = fit
                                         /\ a.fed = {<<calibratedId, a.event.stream>>}
                    /\ filter' \subseteq {<<calibratedId, a.event.stream>>}
                    /\ cache' \in Seq(Answer)
                    /\ \A j \in 1..Len(cache') :
                         \/ cache'[j] = a
                         \/ current = a.event.stream /\ \E i \in 1..Len(cache) : cache'[j] = cache[i]
<1>6. again \/ fresh
  BY DEF Answers
<1> HIDE DEF again, fresh
<1>7. again => /\ a.event.id = calibratedId /\ a.event.stream = current
               /\ a.why = "gaze" => a.event.n <= order
               /\ \E k \in 1..n : answers[k] = a
               /\ current' = current /\ order' = order /\ cache' = cache /\ filter' = filter
  BY <1>0, <1>1 DEF again, CacheInv
<1>8. a.event.id = calibratedId
  BY <1>6, <1>7 DEF fresh
<1>9. a.why = "gaze" => a.by = calibratedId /\ a.fed = {<<calibratedId, a.event.stream>>}
  <2>1. CASE again
    BY <1>0, <1>1, <1>7, <1>8, <2>1 DEF SaidInv
  <2>2. CASE fresh
    BY <1>0, <2>2 DEF fresh, FitInv
  <2> QED BY <1>6, <2>1, <2>2
<1>10. AdapterTypes'
  <2>1. current' \in Streams \cup {Adapter!No} /\ order' \in Int /\ cache' \in Seq(Answer)
    <3>1. CASE again
      BY <1>0, <1>7, <3>1 DEF AdapterTypes
    <3>2. CASE fresh
      BY <1>5, <3>2 DEF fresh
    <3> QED BY <1>6, <3>1, <3>2
  <2>2. /\ life \in {"off", "loaded", "warm"} /\ calibratedId \in used \cup {Adapter!No}
        /\ calibrated \in BOOLEAN /\ revision \in CalibrationIds \cup {Adapter!No}
        /\ used \subseteq CalibrationIds
    BY <1>0 DEF AdapterTypes
  <2> QED BY <1>2, <1>3, <2>1, <2>2 DEF AdapterTypes
<1>11. FitInv'
  BY <1>0, <1>2 DEF FitInv
<1>12. FilterInv'
  BY <1>0, <1>2, <1>6, <1>7 DEF FilterInv, fresh
<1>13. CacheInv'
  <2>0. \A k \in 1..n : k \in 1..(n + 1)
    BY <1>1
  <2>1. CASE again
    <3>1. cache' = cache /\ order' = order /\ current' = current
      BY <1>7, <2>1
    <3>2. ASSUME NEW i \in 1..Len(cache)
          PROVE  /\ cache[i].event.id = calibratedId /\ cache[i].event.stream = current
                 /\ cache[i].why = "gaze" => cache[i].event.n <= order
                 /\ \E k \in 1..(n + 1) : answers'[k] = cache[i]
      BY <1>0, <1>1, <1>3, <2>0 DEF CacheInv
    <3> QED BY <1>2, <1>3, <3>1, <3>2 DEF CacheInv
  <2>2. CASE fresh
    <3>1. ASSUME NEW j \in 1..Len(cache')
          PROVE  /\ cache'[j].event.id = calibratedId /\ cache'[j].event.stream = current'
                 /\ cache'[j].why = "gaze" => cache'[j].event.n <= order'
                 /\ \E k \in 1..(n + 1) : answers'[k] = cache'[j]
      <4>1. CASE cache'[j] = a
        <5>1. a.why = "gaze" => a.event.n <= order'
          BY <1>5, <2>2 DEF fresh
        <5>2. n + 1 \in 1..(n + 1)
          BY <1>1
        <5> QED BY <1>3, <2>2, <4>1, <5>1, <5>2 DEF fresh
      <4>2. CASE current = a.event.stream /\ \E i \in 1..Len(cache) : cache'[j] = cache[i]
        <5>1. PICK i \in 1..Len(cache) : cache'[j] = cache[i]
          BY <4>2
        <5>2. /\ cache[i].event.id = calibratedId /\ cache[i].event.stream = current
              /\ cache[i].why = "gaze" => cache[i].event.n <= order
              /\ \E k \in 1..n : answers[k] = cache[i]
          BY <1>0, <1>1 DEF CacheInv
        <5>3. order' \in Int /\ order' >= order /\ current' = current
          BY <2>2, <4>2 DEF fresh
        <5>4. cache[i].event.n \in Int
          <6>1. cache[i] \in Answer
            BY <1>0 DEF AdapterTypes
          <6>2. cache[i].event \in Event
            BY <6>1 DEF Answer
          <6>3. cache[i].event.n \in 0..MaxOrder
            BY <6>2 DEF Event
          <6> QED BY <6>3, AdapterAssumption
        <5>5. cache[i].why = "gaze" => cache[i].event.n <= order'
          BY <1>4, <5>2, <5>3, <5>4
        <5>6. \E k \in 1..(n + 1) : answers'[k] = cache[i]
          BY <1>3, <2>0, <5>2
        <5> QED BY <5>1, <5>2, <5>3, <5>5, <5>6
      <4> QED BY <2>2, <4>1, <4>2 DEF fresh
    <3> QED BY <1>2, <1>3, <3>1 DEF CacheInv
  <2> QED BY <1>6, <2>1, <2>2
<1>14. SaidInv'
  <2>1. ASSUME NEW i \in 1..(n + 1)
        PROVE  /\ answers'[i].event.id \in used
               /\ answers'[i].why = "gaze" =>
                    /\ answers'[i].by = answers'[i].event.id
                    /\ answers'[i].fed = {<<answers'[i].event.id, answers'[i].event.stream>>}
    <3>1. CASE i = n + 1
      BY <1>3, <1>4, <1>8, <1>9, <3>1
    <3>2. CASE i # n + 1
      <4>1. i \in 1..n /\ answers'[i] = answers[i]
        BY <1>3, <3>2
      <4> QED BY <1>0, <1>1, <4>1 DEF SaidInv
    <3> QED BY <3>1, <3>2
  <2> QED BY <1>2, <1>3, <2>1 DEF SaidInv
\* An earlier answer of the same stretch.
<1>15. ASSUME NEW i \in 1..n, SameSince(i)'
       PROVE  /\ SameSince(i) /\ a.event.stream = answers[i].event.stream
              /\ a.event.id = answers[i].event.id
  <2>1. \A k \in i..(n + 1) : /\ answers'[k].event.stream = answers'[i].event.stream
                              /\ answers'[k].event.id = answers'[i].event.id
    BY <1>3, <1>15 DEF SameSince
  <2>2. answers'[i] = answers[i] /\ n + 1 \in i..(n + 1)
        /\ \A k \in i..n : k \in i..(n + 1) /\ answers'[k] = answers[k]
    BY <1>3
  <2>3. a.event.stream = answers[i].event.stream /\ a.event.id = answers[i].event.id
    BY <1>3, <2>1, <2>2
  <2>4. \A k \in i..n : /\ answers[k].event.stream = answers[i].event.stream
                        /\ answers[k].event.id = answers[i].event.id
    BY <2>1, <2>2
  <2> QED BY <1>1, <2>3, <2>4 DEF SameSince
<1>16. ASSUME NEW i \in 1..n, SameSince(i)', answers[i].why = "gaze", answers[i].event.id = calibratedId
       PROVE  /\ current = answers[i].event.stream /\ answers[i].event.n <= order
              /\ current' = answers[i].event.stream /\ answers[i].event.n <= order'
  <2>1. current = answers[i].event.stream /\ answers[i].event.n <= order
    BY <1>0, <1>1, <1>15, <1>16 DEF FollowInv
  <2>2. answers[i].event.n \in Int
    <3>0. answers[i] \in Answer
      BY <1>0, <1>1 DEF AdapterTypes
    <3>1. answers[i].event \in Event
      BY <3>0 DEF Answer
    <3>2. answers[i].event.n \in 0..MaxOrder
      BY <3>1 DEF Event
    <3> QED BY <3>2, AdapterAssumption
  <2>3. CASE again
    BY <1>7, <2>1, <2>3
  <2>4. CASE fresh
    <3>1. current' = a.event.stream /\ order' \in Int
      BY <2>4 DEF fresh
    <3>2. order' >= order
      BY <1>15, <1>16, <2>1, <2>4 DEF fresh
    <3> QED BY <1>4, <1>15, <1>16, <2>1, <2>2, <3>1, <3>2
  <2> QED BY <1>6, <2>3, <2>4
<1>17. FollowInv'
  <2>1. ASSUME NEW i \in 1..(n + 1), answers'[i].why = "gaze", answers'[i].event.id = calibratedId,
               SameSince(i)'
        PROVE  current' = answers'[i].event.stream /\ answers'[i].event.n <= order'
    <3>1. CASE i = n + 1
      <4>1. CASE again
        BY <1>3, <1>7, <2>1, <3>1, <4>1
      <4>2. CASE fresh
        BY <1>3, <1>5, <2>1, <3>1, <4>2 DEF fresh
      <4> QED BY <1>6, <4>1, <4>2
    <3>2. CASE i # n + 1
      <4>1. i \in 1..n /\ answers'[i] = answers[i]
        BY <1>3, <3>2
      <4> QED BY <1>16, <2>1, <4>1
    <3> QED BY <3>1, <3>2
  <2> QED BY <1>2, <1>3, <2>1 DEF FollowInv
<1>18. Adapter!GazesInOrder'
  <2>1. ASSUME NEW i \in 1..(n + 1), NEW j \in 1..(n + 1), i < j,
               answers'[i].why = "gaze", answers'[j].why = "gaze",
               \A k \in i..j : answers'[k].event.stream = answers'[i].event.stream
                               /\ answers'[k].event.id = answers'[i].event.id,
               \A k \in 1..(j - 1) : answers'[k].event # answers'[j].event
        PROVE  answers'[i].event.n <= answers'[j].event.n
    <3>1. i \in 1..n /\ answers'[i] = answers[i]
      BY <1>3, <2>1
    <3>2. CASE j = n + 1
      <4>1. SameSince(i)'
        BY <1>3, <2>1, <3>2 DEF SameSince
      <4>2. ~again
        <5>1. SUFFICES ASSUME again PROVE FALSE
          OBVIOUS
        <5>2. PICK k \in 1..n : answers[k] = a
          BY <1>7, <5>1
        <5>3. k \in 1..(j - 1) /\ answers'[k] = a /\ answers'[j] = a
          BY <1>3, <3>2, <5>2
        <5> QED BY <2>1, <5>3
      <4>3. a.why = "gaze" /\ order' = a.event.n
        BY <1>3, <1>6, <2>1, <3>2, <4>2 DEF fresh
      <4>4. answers[i].event.id = calibratedId
        BY <1>8, <1>15, <3>1, <4>1
      <4> QED BY <1>3, <1>16, <2>1, <3>1, <3>2, <4>1, <4>3, <4>4
    <3>3. CASE j # n + 1
      <4>1. j \in 1..n /\ answers'[j] = answers[j]
        BY <1>3, <3>3
      <4>2. \A k \in i..j : answers'[k] = answers[k]
        BY <1>3, <3>1, <4>1
      <4>3. \A k \in 1..(j - 1) : answers'[k] = answers[k]
        BY <1>3, <4>1
      <4>4. \A k \in i..j : answers[k].event.stream = answers[i].event.stream
                            /\ answers[k].event.id = answers[i].event.id
        BY <2>1, <3>1, <4>2
      <4>5. \A k \in 1..(j - 1) : answers[k].event # answers[j].event
        BY <2>1, <4>1, <4>3
      <4> QED BY <1>0, <1>1, <2>1, <3>1, <4>1, <4>4, <4>5 DEF Adapter!GazesInOrder
    <3> QED BY <3>2, <3>3
  <2> QED BY <1>3, <2>1 DEF Adapter!GazesInOrder
<1> QED BY <1>10, <1>11, <1>12, <1>13, <1>14, <1>17, <1>18 DEF AdapterInv

\* Every call keeps it.
LEMMA AdapterStep == ASSUME AdapterInv, Adapter!Next PROVE AdapterInv'
<1>1. CASE Adapter!Warmup
  <2>1. /\ life' = "warm" /\ life = "loaded"
        /\ UNCHANGED <<fit, calibratedId, calibrated, revision, current, order, cache, filter, used,
                       answers>>
    BY <1>1 DEF Adapter!Warmup
  <2>2. ~calibrated
    BY <2>1 DEF AdapterInv, FitInv
  <2> QED BY <2>1, <2>2 DEF AdapterInv, AdapterTypes, FitInv, FilterInv, CacheInv, SaidInv, FollowInv,
                           SameSince, Adapter!GazesInOrder
<1>2. CASE \/ Adapter!Initialize \/ Adapter!Dispose \/ Adapter!DiscardCalibration
           \/ \E c \in CalibrationIds, ok \in BOOLEAN :
                Adapter!CalibrateSynchronized(c, ok) \/ Adapter!Calibrate(c, ok)
  <2>1. Restarts
    BY <1>2, RestartsStep
  <2> QED BY <2>1, RestartsKeep
<1>3. ASSUME NEW f \in [stream : Streams, n : 0..MaxOrder],
             Adapter!FilterFails(f) \/ \E look \in {"gaze", "no_face"} : Adapter!Infer(f, look)
      PROVE  AdapterInv'
  <2>1. PICK a : Answers(a)
    BY <1>3, AnswersStep
  <2> QED BY <2>1, AnswersKeep
<1> QED BY <1>1, <1>2, <1>3 DEF Adapter!Next

\* The invariant says it.
LEMMA AdapterTold == ASSUME AdapterInv PROVE Adapter!GazeIsTold
<1>1. AdapterTypes /\ FitInv /\ CacheInv /\ SaidInv /\ Adapter!GazesInOrder
  BY DEF AdapterInv
<1>2. calibrated <=> fit \in CalibrationIds
  BY <1>1, AdapterAssumption DEF FitInv, Adapter!No
<1> QED BY <1>1, <1>2 DEF FitInv, CacheInv, SaidInv, Adapter!GazeIsTold, Adapter!GazeIsOfItsLabel


-----------------------------------------------------------------------------
(* The filter of live gaze.                                                 *)

TakenKinds == {"shown", "overshot"}
CountedKinds == {"shown", "overshot", "rapid_shift_pending"}
LookKinds == CountedKinds \cup {"no_face", "outside_viewport", "out_of_order"}
LookType == [x : Int, at : Int, why : LookKinds]

FilterTypes ==
  /\ looks \in Seq(LookType) /\ smoother \in Seq(Int) /\ lastInput \in Int
  /\ pending \in [x : Int, at : Int] /\ confirmed \in [x : Int, at : Int]

\* The look is the last that was taken, or that counted.
LastTaken(j) == Stabilizer!Taken(j) /\ \A k \in 1..Len(looks) : Stabilizer!Taken(k) => k <= j
LastCounted(k) ==
  Stabilizer!Counted(k) /\ \A m \in (k + 1)..Len(looks) : ~Stabilizer!Counted(m)
IsLook(p, j) == p.x = looks[j].x /\ p.at = looks[j].at

\* Of the looks taken before one, one is the last.
BeforeInv ==
  \A i \in 1..(Len(looks) + 1) :
    Stabilizer!PastTaken(i) # {} =>
      \E j \in Stabilizer!PastTaken(i) : \A k \in Stabilizer!PastTaken(i) : k <= j

\* What is confirmed is the point taken last, or there was a pause since.
ConfirmedInv ==
  /\ confirmed # Stabilizer!Unknown => \E j \in 1..Len(looks) : LastTaken(j) /\ IsLook(confirmed, j)
  /\ confirmed = Stabilizer!Unknown =>
       \A j \in 1..Len(looks) : Stabilizer!Taken(j) => Stabilizer!Paused(j, Len(looks))

\* The last input is that of the look that counted last; after a reset nothing
\* is known.
InputInv ==
  /\ lastInput # -1 =>
       \E k \in 1..Len(looks) : LastCounted(k) /\ looks[k].at = lastInput
  /\ lastInput = -1 => confirmed = Stabilizer!Unknown /\ pending = Stabilizer!Unknown

\* What is pending is the look that counted last; if that was a jump and is not
\* pending any more, its time is over.
PendingInv ==
  /\ pending # Stabilizer!Unknown =>
       /\ confirmed # Stabilizer!Unknown
       /\ \E k \in 1..Len(looks) : /\ LastCounted(k) /\ looks[k].why = "rapid_shift_pending"
                                   /\ IsLook(pending, k)
  /\ pending = Stabilizer!Unknown /\ confirmed # Stabilizer!Unknown =>
       \A k \in 1..Len(looks) :
         LastCounted(k) /\ looks[k].why = "rapid_shift_pending" =>
           \E m \in (k + 1)..Len(looks) :
             looks[m].x = -1 /\ looks[m].at - looks[k].at > ConfirmWindow

\* What JumpsConfirmed says of one look.
HeldBy(k, i) ==
  /\ looks[k].why = "rapid_shift_pending" /\ Stabilizer!Neighbours(k, i)
  /\ Stabilizer!Distance(looks[k], looks[i]) <= NearBy
  /\ looks[i].at - looks[k].at <= ConfirmWindow
Outlived(k, i) ==
  \E m \in (k + 1)..(i - 1) : looks[m].x = -1 /\ looks[m].at - looks[k].at > ConfirmWindow
JumpConfirmed(i) ==
  /\ Stabilizer!Taken(i) /\ Stabilizer!PastTaken(i) # {} =>
       \/ ~Stabilizer!TooFast(looks[Stabilizer!Before(i)], looks[i])
       \/ \E k \in 1..(i - 1) : HeldBy(k, i)
       \/ Stabilizer!Paused(Stabilizer!Before(i), i)
  /\ looks[i].why = "rapid_shift_pending" =>
       /\ Stabilizer!PastTaken(i) # {}
       /\ Stabilizer!TooFast(looks[Stabilizer!Before(i)], looks[i])
       /\ \A k \in 1..(i - 1) : HeldBy(k, i) => Outlived(k, i)

StabilizerInv ==
  /\ FilterTypes /\ BeforeInv /\ ConfirmedInv /\ InputInv /\ PendingInv
  /\ (\A i \in 1..Len(looks) : JumpConfirmed(i)) /\ Stabilizer!FilterIsOfOneStretch

\* Nothing is known.
LEMMA Forgotten ==
  ASSUME smoother = <<>>, pending = Stabilizer!Unknown, confirmed = Stabilizer!Unknown,
         lastInput = -1, looks = <<>>
  PROVE  StabilizerInv
<1>1. Len(looks) = 0 /\ Len(smoother) = 0 /\ 1..Len(looks) = {}
  OBVIOUS
<1>2. FilterTypes
  <2>1. looks \in Seq(LookType) /\ smoother \in Seq(Int) /\ lastInput \in Int
    OBVIOUS
  <2>2. Stabilizer!Unknown \in [x : Int, at : Int]
    BY DEF Stabilizer!Unknown
  <2> QED BY <2>1, <2>2 DEF FilterTypes
<1>3. ConfirmedInv /\ InputInv /\ PendingInv /\ \A i \in 1..Len(looks) : JumpConfirmed(i)
  BY <1>1 DEF ConfirmedInv, InputInv, PendingInv
<1>5. BeforeInv
  BY <1>1 DEF BeforeInv, Stabilizer!PastTaken
<1>4. Stabilizer!FilterIsOfOneStretch
  <2>1. Cardinality({}) = 0
    BY FS_EmptySet
  <2>2. {i \in 1..Len(looks) : Stabilizer!Taken(i) /\ Stabilizer!TakenSince(i) <= Len(smoother)} = {}
    BY <1>1
  <2> QED BY <1>1, <2>1, <2>2 DEF Stabilizer!FilterIsOfOneStretch, Stabilizer!Cardinality, Cardinality
<1> QED BY <1>2, <1>3, <1>4, <1>5 DEF StabilizerInv

\* A look changes nothing of the looks before it.
LEMMA LooksGrow ==
  ASSUME looks \in Seq(LookType), NEW l \in LookType, looks' = Append(looks, l),
         NEW n \in Nat, n = Len(looks)
  PROVE  /\ Len(looks') = n + 1 /\ looks'[n + 1] = l /\ looks' \in Seq(LookType)
         /\ \A i \in 1..n : looks'[i] = looks[i]
         /\ \A i \in 1..n : (Stabilizer!Taken(i)' <=> Stabilizer!Taken(i))
                            /\ (Stabilizer!Counted(i)' <=> Stabilizer!Counted(i))
         /\ Stabilizer!Taken(n + 1)' <=> l.why \in TakenKinds
         /\ Stabilizer!Counted(n + 1)' <=> l.why \in CountedKinds
<1>1. /\ Len(looks') = n + 1 /\ looks'[n + 1] = l /\ looks' \in Seq(LookType)
      /\ \A i \in 1..n : looks'[i] = looks[i]
  OBVIOUS
<1> QED BY <1>1 DEF Stabilizer!Taken, Stabilizer!Counted, TakenKinds, CountedKinds

\* A pause that was one stays one, for earlier looks and later ones too.
LEMMA PausedGrows ==
  ASSUME looks \in Seq(LookType), NEW l \in LookType, looks' = Append(looks, l),
         NEW n \in Nat, n = Len(looks), NEW j \in 1..n, NEW i \in 1..n
  PROVE  /\ Stabilizer!Paused(j, i)' <=> Stabilizer!Paused(j, i)
         /\ Stabilizer!Paused(j, i) => Stabilizer!Paused(j, n + 1)'
<1>1. /\ \A k \in 1..n : looks'[k] = looks[k]
      /\ \A k \in 1..n : Stabilizer!Counted(k)' <=> Stabilizer!Counted(k)
  BY LooksGrow
<1>2. j \in Int /\ i \in Int /\ 1 <= j /\ i <= n
  OBVIOUS
<1>3. \A a \in j..(i - 1) : a \in 1..n /\ a \in j..((n + 1) - 1)
  BY <1>2
<1>4. \A m \in (j + 1)..i : m \in 1..n /\ m \in (j + 1)..(n + 1)
  BY <1>2
<1>5. \A a \in j..(i - 1), m \in (j + 1)..i : \A k \in (a + 1)..(m - 1) : k \in 1..n
  BY <1>2
<1>6. Stabilizer!Paused(j, i)' <=> Stabilizer!Paused(j, i)
  BY <1>1, <1>3, <1>4, <1>5 DEF Stabilizer!Paused
<1>7. ASSUME Stabilizer!Paused(j, i) PROVE Stabilizer!Paused(j, n + 1)'
  <2>1. PICK a \in j..(i - 1), m \in (j + 1)..i :
          /\ a < m /\ Stabilizer!Counted(a) /\ (\A k \in (a + 1)..(m - 1) : ~Stabilizer!Counted(k))
          /\ looks[m].x <= Width /\ looks[m].at - looks[a].at > ResetGap
    BY <1>7 DEF Stabilizer!Paused
  <2>2. /\ a < m /\ Stabilizer!Counted(a)' /\ (\A k \in (a + 1)..(m - 1) : ~Stabilizer!Counted(k)')
        /\ looks'[m].x <= Width /\ looks'[m].at - looks'[a].at > ResetGap
    BY <1>1, <1>3, <1>4, <1>5, <2>1
  <2> QED BY <1>3, <1>4, <2>1, <2>2 DEF Stabilizer!Paused
<1> QED BY <1>6, <1>7

\* What the invariant says of the jumps is what the property says.
LEMMA StabilizerSteady ==
  ASSUME StabilizerInv
  PROVE  Stabilizer!GazeIsSteady
<1>1. ASSUME NEW i \in 1..Len(looks), JumpConfirmed(i)
      PROVE  LET held == {k \in 1..(i - 1) : HeldBy(k, i)}
             IN /\ Stabilizer!Taken(i) /\ Stabilizer!PastTaken(i) # {} =>
                     \/ ~Stabilizer!TooFast(looks[Stabilizer!Before(i)], looks[i])
                     \/ held # {}
                     \/ Stabilizer!Paused(Stabilizer!Before(i), i)
                /\ looks[i].why = "rapid_shift_pending" =>
                     /\ Stabilizer!PastTaken(i) # {}
                     /\ Stabilizer!TooFast(looks[Stabilizer!Before(i)], looks[i])
                     /\ \A k \in held : Outlived(k, i)
  BY <1>1 DEF JumpConfirmed
<1>2. Stabilizer!JumpsConfirmed
  BY <1>1 DEF StabilizerInv, Stabilizer!JumpsConfirmed, HeldBy, Outlived
<1> QED BY <1>2 DEF StabilizerInv, Stabilizer!GazeIsSteady

\* What was said of an earlier look stays true of it.
LEMMA EarlierLooks ==
  ASSUME looks \in Seq(LookType), NEW l \in LookType, looks' = Append(looks, l),
         NEW n \in Nat, n = Len(looks), NEW i \in 1..n, BeforeInv, JumpConfirmed(i)
  PROVE  JumpConfirmed(i)'
<1>1. /\ \A k \in 1..n : looks'[k] = looks[k]
      /\ \A k \in 1..n : (Stabilizer!Taken(k)' <=> Stabilizer!Taken(k))
                         /\ (Stabilizer!Counted(k)' <=> Stabilizer!Counted(k))
  BY LooksGrow
<1>2. i \in Int /\ 1 <= i /\ i <= n /\ \A k \in 1..(i - 1) : k \in 1..n
  OBVIOUS
<1>3. Stabilizer!PastTaken(i)' = Stabilizer!PastTaken(i)
  BY <1>1, <1>2 DEF Stabilizer!PastTaken
<1>4. Stabilizer!Before(i)' = Stabilizer!Before(i)
  BY <1>3 DEF Stabilizer!Before
<1>5. ASSUME Stabilizer!PastTaken(i) # {}
      PROVE  Stabilizer!Before(i) \in 1..(i - 1)
  <2>1. \E j \in Stabilizer!PastTaken(i) : \A k \in Stabilizer!PastTaken(i) : k <= j
    BY <1>5, <1>2 DEF BeforeInv
  <2>2. Stabilizer!Before(i) \in Stabilizer!PastTaken(i)
    BY <2>1 DEF Stabilizer!Before
  <2> QED BY <2>2 DEF Stabilizer!PastTaken
<1>6. \A k \in 1..(i - 1) : Stabilizer!Neighbours(k, i)' <=> Stabilizer!Neighbours(k, i)
  <2>1. \A k \in 1..(i - 1) : \A q \in (k + 1)..(i - 1) : q \in 1..n
    BY <1>2
  <2> QED BY <1>1, <2>1 DEF Stabilizer!Neighbours
<1>7. \A k \in 1..(i - 1) : (HeldBy(k, i)' <=> HeldBy(k, i))
  BY <1>1, <1>2, <1>6 DEF HeldBy
<1>8. \A k \in 1..(i - 1) : (Outlived(k, i)' <=> Outlived(k, i))
  <2>1. \A k \in 1..(i - 1) : \A q \in (k + 1)..(i - 1) : q \in 1..n
    BY <1>2
  <2> QED BY <1>1, <1>2, <2>1 DEF Outlived
<1>9. looks'[i] = looks[i] /\ (Stabilizer!Taken(i)' <=> Stabilizer!Taken(i))
  BY <1>1
<1>10. ASSUME Stabilizer!PastTaken(i) # {}
       PROVE  /\ looks'[Stabilizer!Before(i)] = looks[Stabilizer!Before(i)]
              /\ Stabilizer!Paused(Stabilizer!Before(i), i)'
                   <=> Stabilizer!Paused(Stabilizer!Before(i), i)
  <2>1. Stabilizer!Before(i) \in 1..n
    BY <1>2, <1>5, <1>10
  <2>2. ASSUME NEW j \in 1..n
        PROVE  Stabilizer!Paused(j, i)' <=> Stabilizer!Paused(j, i)
    BY PausedGrows
  <2>3. PICK j \in 1..n : j = Stabilizer!Before(i)
    BY <2>1
  <2>4. j = Stabilizer!Before(i)'
    BY <1>4, <2>3
  <2>5. Stabilizer!Paused(j, i)' <=> Stabilizer!Paused(j, i)
    BY <2>2
  <2>6. Stabilizer!Paused(Stabilizer!Before(i), i) <=> Stabilizer!Paused(j, i)
    BY <2>3
  <2>7. Stabilizer!Paused(Stabilizer!Before(i), i)' <=> Stabilizer!Paused(j, i)'
    BY <2>4
  <2> QED BY <1>1, <2>1, <2>5, <2>6, <2>7
<1>11. ASSUME Stabilizer!PastTaken(i) # {}
       PROVE  Stabilizer!TooFast(looks[Stabilizer!Before(i)], looks[i])' <=>
                Stabilizer!TooFast(looks[Stabilizer!Before(i)], looks[i])
  BY <1>4, <1>9, <1>10, <1>11
<1> QED BY <1>3, <1>7, <1>8, <1>9, <1>10, <1>11 DEF JumpConfirmed

\* How many looks were taken since one, before and after another look.
LEMMA SinceGrows ==
  ASSUME looks \in Seq(LookType), NEW l \in LookType, looks' = Append(looks, l),
         NEW n \in Nat, n = Len(looks)
  PROVE  /\ \A i \in 1..n : /\ Stabilizer!TakenSince(i) \in Nat
                            /\ Stabilizer!Taken(i) => Stabilizer!TakenSince(i) >= 1
                            /\ Stabilizer!Taken(i) /\ Stabilizer!TakenSince(i) = 1 => LastTaken(i)
         /\ l.why \notin TakenKinds =>
              \A i \in 1..n : Stabilizer!TakenSince(i)' = Stabilizer!TakenSince(i)
         /\ l.why \in TakenKinds =>
              /\ \A i \in 1..n : Stabilizer!TakenSince(i)' = Stabilizer!TakenSince(i) + 1
              /\ Stabilizer!TakenSince(n + 1)' = 1
<1> DEFINE S(i) == {j \in i..n : Stabilizer!Taken(j)}
           T(i) == {j \in i..(n + 1) : Stabilizer!Taken(j)'}
<1>1. /\ Len(looks') = n + 1
      /\ \A i \in 1..n : Stabilizer!Taken(i)' <=> Stabilizer!Taken(i)
      /\ Stabilizer!Taken(n + 1)' <=> l.why \in TakenKinds
  BY LooksGrow
<1>2. \A i : Stabilizer!TakenSince(i) = Cardinality(S(i))
  BY DEF Stabilizer!TakenSince, Stabilizer!Cardinality, Cardinality
<1>3. \A i : Stabilizer!TakenSince(i)' = Cardinality(T(i))
  BY <1>1 DEF Stabilizer!TakenSince, Stabilizer!Cardinality, Cardinality
<1>4. ASSUME NEW i \in 1..(n + 1)
      PROVE  IsFiniteSet(S(i)) /\ Cardinality(S(i)) \in Nat
  <2>1. IsFiniteSet(i..n)
    BY FS_Interval
  <2>2. S(i) \in SUBSET (i..n)
    OBVIOUS
  <2>3. IsFiniteSet(S(i))
    BY <2>1, <2>2, FS_Subset
  <2> QED BY <2>3, FS_CardinalityType
<1>5. ASSUME NEW i \in 1..n, Stabilizer!Taken(i)
      PROVE  i \in S(i) /\ S(i) # {}
  <2>1. i \in i..n
    OBVIOUS
  <2> QED BY <1>5, <2>1
<1>6. ASSUME NEW i \in 1..n, Stabilizer!Taken(i)
      PROVE  Cardinality(S(i)) >= 1
  <2>1. i \in 1..(n + 1)
    OBVIOUS
  <2>2. IsFiniteSet(S(i)) /\ Cardinality(S(i)) \in Nat
    BY <1>4, <2>1
  <2>3. Cardinality(S(i)) # 0
    BY <1>5, <1>6, <2>2, FS_EmptySet
  <2> QED BY <2>2, <2>3
<1>7. ASSUME NEW i \in 1..n, Stabilizer!Taken(i), Cardinality(S(i)) = 1
      PROVE  LastTaken(i)
  <2>1. i \in 1..(n + 1)
    OBVIOUS
  <2>2. PICK x : S(i) = {x}
    BY <1>4, <1>7, <2>1, FS_Singleton
  <2>3. S(i) = {i}
    BY <1>5, <1>7, <2>2
  <2>4. ASSUME NEW k \in 1..n, Stabilizer!Taken(k), ~(k <= i)
        PROVE  FALSE
    <3>1. k \in S(i)
      BY <2>4
    <3> QED BY <2>3, <2>4, <3>1
  <2> QED BY <1>7, <2>4 DEF LastTaken
<1>8. ASSUME l.why \notin TakenKinds, NEW i \in 1..n
      PROVE  T(i) = S(i)
  <2>1. ~Stabilizer!Taken(n + 1)'
    BY <1>1, <1>8
  <2> QED BY <1>1, <2>1
<1>9. ASSUME l.why \in TakenKinds
      PROVE  /\ \A i \in 1..n : T(i) = S(i) \cup {n + 1} /\ n + 1 \notin S(i)
             /\ T(n + 1) = {n + 1}
  <2>1. Stabilizer!Taken(n + 1)'
    BY <1>1, <1>9
  <2> QED BY <1>1, <2>1
<1>10. ASSUME l.why \in TakenKinds, NEW i \in 1..n
       PROVE  Cardinality(T(i)) = Cardinality(S(i)) + 1
  <2>1. i \in 1..(n + 1)
    OBVIOUS
  <2>2. IsFiniteSet(S(i))
    BY <1>4, <2>1
  <2> QED BY <1>9, <1>10, <2>2, FS_AddElement
<1>11. ASSUME l.why \in TakenKinds
       PROVE  Cardinality(T(n + 1)) = 1
  BY <1>9, <1>11, FS_Singleton
<1>12. \A i \in 1..n : Cardinality(S(i)) \in Nat
  <2>1. \A i \in 1..n : i \in 1..(n + 1)
    OBVIOUS
  <2> HIDE DEF S
  <2> QED BY <1>4, <2>1
<1> HIDE DEF S, T
<1>13. \A i \in 1..n : /\ Stabilizer!TakenSince(i) \in Nat
                       /\ Stabilizer!Taken(i) => Stabilizer!TakenSince(i) >= 1
                       /\ Stabilizer!Taken(i) /\ Stabilizer!TakenSince(i) = 1 => LastTaken(i)
  BY <1>2, <1>6, <1>7, <1>12
<1>14. l.why \notin TakenKinds =>
         \A i \in 1..n : Stabilizer!TakenSince(i)' = Stabilizer!TakenSince(i)
  BY <1>2, <1>3, <1>8
<1>15. l.why \in TakenKinds =>
         /\ \A i \in 1..n : Stabilizer!TakenSince(i)' = Stabilizer!TakenSince(i) + 1
         /\ Stabilizer!TakenSince(n + 1)' = 1
  BY <1>2, <1>3, <1>10, <1>11
<1> QED BY <1>13, <1>14, <1>15

\* The points the filter remembers.
Mine == {i \in 1..Len(looks) : Stabilizer!Taken(i) /\ Stabilizer!TakenSince(i) <= Len(smoother)}

LEMMA FilterIs ==
  Stabilizer!FilterIsOfOneStretch <=>
    /\ Cardinality(Mine) = Len(smoother)
    /\ \A i \in Mine : looks[i].x = smoother[Len(smoother) + 1 - Stabilizer!TakenSince(i)]
    /\ \A i, j \in Mine : Stabilizer!TakenSince(i) = Stabilizer!TakenSince(j) + 1 =>
                            ~Stabilizer!TooFast(looks[i], looks[j])
  BY DEF Stabilizer!FilterIsOfOneStretch, Mine, Stabilizer!Cardinality, Cardinality

\* A look that is not taken leaves the filter what it was, or clears it.
LEMMA FilterKept ==
  ASSUME looks \in Seq(LookType), NEW l \in LookType, looks' = Append(looks, l),
         NEW n \in Nat, n = Len(looks), l.why \notin TakenKinds, smoother' = smoother,
         Stabilizer!FilterIsOfOneStretch
  PROVE  Stabilizer!FilterIsOfOneStretch'
<1>1. /\ Len(looks') = n + 1 /\ \A i \in 1..n : looks'[i] = looks[i]
      /\ \A i \in 1..n : Stabilizer!Taken(i)' <=> Stabilizer!Taken(i)
      /\ ~Stabilizer!Taken(n + 1)'
  BY LooksGrow
<1>2. \A i \in 1..n : Stabilizer!TakenSince(i)' = Stabilizer!TakenSince(i)
  BY SinceGrows
<1>3. Mine' = Mine /\ Mine \subseteq 1..n
  <2>1. \A i \in 1..(n + 1) : i \in 1..n \/ i = n + 1
    OBVIOUS
  <2>2. \A i \in 1..n : i \in 1..(n + 1)
    OBVIOUS
  <2> QED BY <1>1, <1>2, <2>1, <2>2 DEF Mine
<1>4. /\ Cardinality(Mine) = Len(smoother)
      /\ \A i \in Mine : looks[i].x = smoother[Len(smoother) + 1 - Stabilizer!TakenSince(i)]
      /\ \A i, j \in Mine : Stabilizer!TakenSince(i) = Stabilizer!TakenSince(j) + 1 =>
                              ~Stabilizer!TooFast(looks[i], looks[j])
  BY FilterIs
<1>5. \A i, j \in Mine :
        Stabilizer!TooFast(looks[i], looks[j])' <=> Stabilizer!TooFast(looks[i], looks[j])
  BY <1>1, <1>3
<1>6. /\ Cardinality(Mine') = Len(smoother')
      /\ \A i \in Mine' : looks'[i].x = smoother'[Len(smoother') + 1 - Stabilizer!TakenSince(i)']
      /\ \A i, j \in Mine' : Stabilizer!TakenSince(i)' = Stabilizer!TakenSince(j)' + 1 =>
                              ~Stabilizer!TooFast(looks[i], looks[j])'
  <2>1. Cardinality(Mine') = Len(smoother')
    BY <1>3, <1>4
  <2>2. ASSUME NEW i \in Mine
        PROVE  looks'[i].x = smoother'[Len(smoother') + 1 - Stabilizer!TakenSince(i)']
    BY <1>1, <1>2, <1>3, <1>4
  <2>3. \A i, j \in Mine : Stabilizer!TakenSince(i)' = Stabilizer!TakenSince(j)' + 1 =>
                             ~Stabilizer!TooFast(looks[i], looks[j])'
    BY <1>2, <1>3, <1>4, <1>5
  <2> QED BY <1>3, <2>1, <2>2, <2>3
<1> QED BY <1>6 DEF Stabilizer!FilterIsOfOneStretch, Mine, Stabilizer!Cardinality, Cardinality

LEMMA FilterCleared ==
  ASSUME looks \in Seq(LookType), NEW l \in LookType, looks' = Append(looks, l),
         NEW n \in Nat, n = Len(looks), l.why \notin TakenKinds, smoother' = <<>>
  PROVE  Stabilizer!FilterIsOfOneStretch'
<1>1. /\ Len(looks') = n + 1
      /\ \A i \in 1..n : Stabilizer!Taken(i)' <=> Stabilizer!Taken(i)
      /\ ~Stabilizer!Taken(n + 1)'
  BY LooksGrow
<1>2. \A i \in 1..n : /\ Stabilizer!TakenSince(i)' = Stabilizer!TakenSince(i)
                      /\ Stabilizer!TakenSince(i) \in Nat
                      /\ Stabilizer!Taken(i) => Stabilizer!TakenSince(i) >= 1
  BY SinceGrows
<1>3. Len(smoother') = 0
  OBVIOUS
<1>4. Mine' = {}
  <2>1. \A i \in 1..(n + 1) : i \in 1..n \/ i = n + 1
    OBVIOUS
  <2>2. \A i \in 1..(n + 1) : ~(Stabilizer!Taken(i)' /\ Stabilizer!TakenSince(i)' <= 0)
    BY <1>1, <1>2, <2>1
  <2> QED BY <1>1, <1>3, <2>2 DEF Mine
<1>5. Cardinality(Mine') = 0
  BY <1>4, FS_EmptySet
<1>6. /\ Cardinality(Mine') = Len(smoother')
      /\ \A i \in Mine' : looks'[i].x = smoother'[Len(smoother') + 1 - Stabilizer!TakenSince(i)']
      /\ \A i, j \in Mine' : Stabilizer!TakenSince(i)' = Stabilizer!TakenSince(j)' + 1 =>
                              ~Stabilizer!TooFast(looks[i], looks[j])'
  BY <1>3, <1>4, <1>5
<1> QED BY <1>6 DEF Stabilizer!FilterIsOfOneStretch, Mine, Stabilizer!Cardinality, Cardinality

\* A look that is taken starts the filter over.
LEMMA FilterStartsOver ==
  ASSUME looks \in Seq(LookType), NEW l \in LookType, looks' = Append(looks, l),
         NEW n \in Nat, n = Len(looks), l.why \in TakenKinds, smoother' = <<l.x>>
  PROVE  Stabilizer!FilterIsOfOneStretch'
<1>1. /\ Len(looks') = n + 1 /\ looks'[n + 1] = l
      /\ \A i \in 1..n : Stabilizer!Taken(i)' <=> Stabilizer!Taken(i)
      /\ Stabilizer!Taken(n + 1)'
  BY LooksGrow
<1>2. /\ \A i \in 1..n : /\ Stabilizer!TakenSince(i)' = Stabilizer!TakenSince(i) + 1
                         /\ Stabilizer!TakenSince(i) \in Nat
                         /\ Stabilizer!Taken(i) => Stabilizer!TakenSince(i) >= 1
      /\ Stabilizer!TakenSince(n + 1)' = 1
  BY SinceGrows
<1>3. Len(smoother') = 1 /\ smoother'[1] = l.x
  OBVIOUS
<1>4. Mine' = {n + 1}
  <2>1. \A i \in 1..(n + 1) : i \in 1..n \/ i = n + 1
    OBVIOUS
  <2>2. \A i \in 1..n : Stabilizer!Taken(i)' => ~(Stabilizer!TakenSince(i)' <= 1)
    BY <1>1, <1>2
  <2>3. n + 1 \in 1..(n + 1) /\ Stabilizer!TakenSince(n + 1)' <= 1
    BY <1>2
  <2> QED BY <1>1, <1>3, <2>1, <2>2, <2>3 DEF Mine
<1>5. Cardinality(Mine') = 1
  BY <1>4, FS_Singleton
<1>6. /\ Cardinality(Mine') = Len(smoother')
      /\ \A i \in Mine' : looks'[i].x = smoother'[Len(smoother') + 1 - Stabilizer!TakenSince(i)']
      /\ \A i, j \in Mine' : Stabilizer!TakenSince(i)' = Stabilizer!TakenSince(j)' + 1 =>
                              ~Stabilizer!TooFast(looks[i], looks[j])'
  <2>1. looks'[n + 1].x = smoother'[1 + 1 - Stabilizer!TakenSince(n + 1)']
    BY <1>1, <1>2, <1>3
  <2>2. Stabilizer!TakenSince(n + 1)' # Stabilizer!TakenSince(n + 1)' + 1
    BY <1>2
  <2> QED BY <1>3, <1>4, <1>5, <2>1, <2>2
<1> QED BY <1>6 DEF Stabilizer!FilterIsOfOneStretch, Mine, Stabilizer!Cardinality, Cardinality

\* A look that is taken and no jump goes on with the filter.
LEMMA FilterGoesOn ==
  ASSUME looks \in Seq(LookType), NEW l \in LookType, looks' = Append(looks, l),
         NEW n \in Nat, n = Len(looks), l.why \in TakenKinds, smoother \in Seq(Int),
         smoother' = Append(smoother, l.x), Stabilizer!FilterIsOfOneStretch,
         \A j \in 1..n : LastTaken(j) => ~Stabilizer!TooFast(looks[j], l)
  PROVE  Stabilizer!FilterIsOfOneStretch'
<1>1. /\ Len(looks') = n + 1 /\ looks'[n + 1] = l
      /\ \A i \in 1..n : looks'[i] = looks[i]
      /\ \A i \in 1..n : Stabilizer!Taken(i)' <=> Stabilizer!Taken(i)
      /\ Stabilizer!Taken(n + 1)'
  BY LooksGrow
<1>2. /\ \A i \in 1..n : /\ Stabilizer!TakenSince(i)' = Stabilizer!TakenSince(i) + 1
                         /\ Stabilizer!TakenSince(i) \in Nat
                         /\ Stabilizer!Taken(i) => Stabilizer!TakenSince(i) >= 1
                         /\ Stabilizer!Taken(i) /\ Stabilizer!TakenSince(i) = 1 => LastTaken(i)
      /\ Stabilizer!TakenSince(n + 1)' = 1
  BY SinceGrows
<1>3. PICK s \in Nat : s = Len(smoother)
  OBVIOUS
<1>4. /\ Len(smoother') = s + 1 /\ smoother'[s + 1] = l.x
      /\ \A k \in 1..s : smoother'[k] = smoother[k]
  BY <1>3
<1>5. Mine = {i \in 1..n : Stabilizer!Taken(i) /\ Stabilizer!TakenSince(i) <= s}
  BY <1>3 DEF Mine
<1>6. /\ \A i \in 1..(n + 1) : i \in 1..n \/ i = n + 1
      /\ \A i \in 1..n : i \in 1..(n + 1) /\ i # n + 1
      /\ n + 1 \in 1..(n + 1)
  OBVIOUS
<1>7. Mine' = Mine \cup {n + 1} /\ n + 1 \notin Mine /\ Mine \subseteq 1..n
  <2>1. \A i \in 1..n : Stabilizer!TakenSince(i)' <= s + 1 <=> Stabilizer!TakenSince(i) <= s
    BY <1>2
  <2>2. Stabilizer!TakenSince(n + 1)' <= s + 1
    BY <1>2
  <2>3. Mine' = {i \in 1..(n + 1) : Stabilizer!Taken(i)' /\ Stabilizer!TakenSince(i)' <= s + 1}
    BY <1>1, <1>4 DEF Mine
  <2> QED BY <1>1, <1>5, <1>6, <2>1, <2>2, <2>3
<1>8. /\ Cardinality(Mine) = s
      /\ \A i \in Mine : looks[i].x = smoother[s + 1 - Stabilizer!TakenSince(i)]
      /\ \A i, j \in Mine : Stabilizer!TakenSince(i) = Stabilizer!TakenSince(j) + 1 =>
                              ~Stabilizer!TooFast(looks[i], looks[j])
  BY <1>3, FilterIs
<1>9. Cardinality(Mine') = s + 1
  <2>1. IsFiniteSet(1..n)
    BY FS_Interval
  <2>2. Mine \in SUBSET (1..n)
    BY <1>7
  <2>3. IsFiniteSet(Mine)
    BY <2>1, <2>2, FS_Subset
  <2> QED BY <1>7, <1>8, <2>3, FS_AddElement
<1>10. \A i \in Mine' : looks'[i].x = smoother'[(s + 1) + 1 - Stabilizer!TakenSince(i)']
  <2>1. ASSUME NEW i \in Mine
        PROVE  looks'[i].x = smoother'[(s + 1) + 1 - Stabilizer!TakenSince(i)']
    <3>1. /\ i \in 1..n /\ Stabilizer!TakenSince(i) \in Nat
          /\ 1 <= Stabilizer!TakenSince(i) /\ Stabilizer!TakenSince(i) <= s
          /\ Stabilizer!TakenSince(i)' = Stabilizer!TakenSince(i) + 1
      BY <1>2, <1>5
    <3>2. /\ s + 1 - Stabilizer!TakenSince(i) \in 1..s
          /\ (s + 1) + 1 - Stabilizer!TakenSince(i)' = s + 1 - Stabilizer!TakenSince(i)
      BY <3>1
    <3> QED BY <1>1, <1>4, <1>8, <3>1, <3>2
  <2>2. looks'[n + 1].x = smoother'[(s + 1) + 1 - Stabilizer!TakenSince(n + 1)']
    BY <1>1, <1>2, <1>4
  <2> QED BY <1>7, <2>1, <2>2
<1>11. \A i, j \in Mine' : Stabilizer!TakenSince(i)' = Stabilizer!TakenSince(j)' + 1 =>
                             ~Stabilizer!TooFast(looks[i], looks[j])'
  <2>1. ASSUME NEW i \in Mine, NEW j \in Mine,
               Stabilizer!TakenSince(i)' = Stabilizer!TakenSince(j)' + 1
        PROVE  ~Stabilizer!TooFast(looks[i], looks[j])'
    <3>1. /\ i \in 1..n /\ j \in 1..n
          /\ Stabilizer!TakenSince(i) = Stabilizer!TakenSince(j) + 1
      BY <1>2, <1>7, <2>1
    <3> QED BY <1>1, <1>8, <3>1
  <2>2. ASSUME NEW i \in Mine, Stabilizer!TakenSince(i)' = Stabilizer!TakenSince(n + 1)' + 1
        PROVE  ~Stabilizer!TooFast(looks[i], looks[n + 1])'
    <3>1. i \in 1..n /\ Stabilizer!Taken(i) /\ Stabilizer!TakenSince(i) = 1
      BY <1>2, <1>5, <2>2
    <3>2. ~Stabilizer!TooFast(looks[i], l)
      BY <1>2, <3>1
    <3> QED BY <1>1, <3>1, <3>2
  <2>3. ASSUME NEW j \in Mine, Stabilizer!TakenSince(n + 1)' = Stabilizer!TakenSince(j)' + 1
        PROVE  FALSE
    BY <1>2, <1>7, <2>3
  <2>4. Stabilizer!TakenSince(n + 1)' # Stabilizer!TakenSince(n + 1)' + 1
    BY <1>2
  <2> QED BY <1>7, <2>1, <2>2, <2>3, <2>4
<1>12. /\ Cardinality(Mine') = Len(smoother')
       /\ \A i \in Mine' : looks'[i].x = smoother'[Len(smoother') + 1 - Stabilizer!TakenSince(i)']
       /\ \A i, j \in Mine' : Stabilizer!TakenSince(i)' = Stabilizer!TakenSince(j)' + 1 =>
                              ~Stabilizer!TooFast(looks[i], looks[j])'
  BY <1>4, <1>9, <1>10, <1>11
<1> QED BY <1>12 DEF Stabilizer!FilterIsOfOneStretch, Mine, Stabilizer!Cardinality, Cardinality

\* What a frame does: nothing, let a candidate fade, forget all after a long
\* pause, hold a jump back, start over with a point, or go on with it.
Quiet(l) ==
  /\ l.why \notin CountedKinds
  /\ smoother' = smoother /\ pending' = pending /\ confirmed' = confirmed /\ lastInput' = lastInput
Fades(l) ==
  /\ l.why = "no_face" /\ l.x = -1
  /\ pending # Stabilizer!Unknown /\ l.at - pending.at > ConfirmWindow
  /\ smoother' = smoother /\ pending' = Stabilizer!Unknown
  /\ confirmed' = confirmed /\ lastInput' = lastInput
Forgets(l) ==
  /\ l.why = "no_face" /\ l.x = -1 /\ lastInput # -1 /\ l.at - lastInput > ResetGap
  /\ smoother' = <<>> /\ pending' = Stabilizer!Unknown /\ confirmed' = Stabilizer!Unknown
  /\ lastInput' = -1
HoldsBack(l) ==
  /\ l.why = "rapid_shift_pending" /\ l.at \in Nat
  /\ confirmed # Stabilizer!Unknown /\ Stabilizer!TooFast(confirmed, l)
  /\ ~Stabilizer!Confirms(pending, l)
  /\ lastInput' = l.at /\ pending' = [x |-> l.x, at |-> l.at]
  /\ smoother' = smoother /\ confirmed' = confirmed
StartsOver(l) ==
  /\ l.why = "shown" /\ l.at \in Nat /\ l.x <= Width
  /\ \/ Stabilizer!Confirms(pending, l)
     \/ confirmed = Stabilizer!Unknown
     \/ lastInput # -1 /\ l.at - lastInput > ResetGap
  /\ lastInput' = l.at /\ pending' = Stabilizer!Unknown /\ confirmed' = [x |-> l.x, at |-> l.at]
  /\ smoother' = <<l.x>>
GoesOn(l) ==
  /\ l.why \in TakenKinds /\ l.at \in Nat
  /\ confirmed # Stabilizer!Unknown /\ ~Stabilizer!TooFast(confirmed, l)
  /\ lastInput' = l.at /\ pending' = Stabilizer!Unknown /\ confirmed' = [x |-> l.x, at |-> l.at]
  /\ smoother' = Append(smoother, l.x)
Looked(l) ==
  Quiet(l) \/ Fades(l) \/ Forgets(l) \/ HoldsBack(l) \/ StartsOver(l) \/ GoesOn(l)

\* How fast a jump is, and what confirms it, depends on the points alone.
LEMMA PointsAlone ==
  ASSUME NEW p, NEW f, NEW l, l.x = f.x, l.at = f.at
  PROVE  /\ Stabilizer!TooFast(p, f) <=> Stabilizer!TooFast(p, l)
         /\ Stabilizer!TooFast(f, p) <=> Stabilizer!TooFast(l, p)
         /\ Stabilizer!Confirms(p, f) <=> Stabilizer!Confirms(p, l)
BY DEF Stabilizer!TooFast, Stabilizer!Confirms, Stabilizer!Distance

LEMMA EachFrame ==
  ASSUME Stabilizer!Next, FilterTypes
  PROVE  \/ /\ smoother' = <<>> /\ pending' = Stabilizer!Unknown /\ confirmed' = Stabilizer!Unknown
            /\ lastInput' = -1 /\ looks' = <<>>
         \/ \E l \in LookType : looks' = Append(looks, l) /\ Looked(l)
<1>1. CASE Stabilizer!Reset
  BY <1>1 DEF Stabilizer!Reset
<1>2. ASSUME NEW at \in 0..MaxTime, Stabilizer!Invalid(at)
      PROVE  \E l \in LookType : looks' = Append(looks, l) /\ Looked(l)
  <2> DEFINE l == [x |-> -1, at |-> at, why |-> "no_face"]
  <2>1. at \in Int
    BY StabilizerAssumption DEF StabilizerAssumption
  <2>2. l \in LookType
    BY <2>1 DEF LookType, LookKinds
  <2>3. l.x = -1 /\ l.at = at /\ l.why = "no_face" /\ l.why \notin CountedKinds
    BY DEF CountedKinds
  <2>4. looks' = Append(looks, l)
    BY <1>2 DEF Stabilizer!Invalid, Stabilizer!Told
  <2> HIDE DEF l
  <2>5. CASE Stabilizer!Long(at)
    BY <1>2, <2>3, <2>2, <2>4, <2>5 DEF Stabilizer!Invalid, Stabilizer!Long, Looked, Forgets
  <2>6. CASE ~Stabilizer!Long(at)
    <3>1. CASE pending # Stabilizer!Unknown /\ at - pending.at > ConfirmWindow
      BY <1>2, <2>3, <2>2, <2>4, <2>6, <3>1 DEF Stabilizer!Invalid, Looked, Fades
    <3>2. CASE ~(pending # Stabilizer!Unknown /\ at - pending.at > ConfirmWindow)
      BY <1>2, <2>3, <2>2, <2>4, <2>6, <3>2 DEF Stabilizer!Invalid, Looked, Quiet
    <3> QED BY <3>1, <3>2
  <2> QED BY <2>5, <2>6
<1>3. ASSUME NEW at \in 0..MaxTime, NEW x \in 0..(Width + 1),
             Stabilizer!Unusable([x |-> x, at |-> at])
      PROVE  \E l \in LookType : looks' = Append(looks, l) /\ Looked(l)
  <2> DEFINE f == [x |-> x, at |-> at]
             why == IF f.x > Width THEN "outside_viewport" ELSE "out_of_order"
             l == [x |-> f.x, at |-> f.at, why |-> why]
  <2>1. f.x = x /\ f.at = at /\ at \in Int /\ x \in Int
    BY StabilizerAssumption DEF StabilizerAssumption
  <2>2. l \in LookType /\ l.why \notin CountedKinds
    BY <2>1 DEF LookType, LookKinds, CountedKinds
  <2>3. looks' = Append(looks, l)
    BY <1>3 DEF Stabilizer!Unusable, Stabilizer!Told
  <2> HIDE DEF l, f
  <2> QED BY <1>3, <2>2, <2>3 DEF Stabilizer!Unusable, Looked, Quiet
<1>4. ASSUME NEW at \in 0..MaxTime, NEW x \in 0..(Width + 1),
             Stabilizer!Usable([x |-> x, at |-> at])
      PROVE  \E l \in LookType : looks' = Append(looks, l) /\ Looked(l)
  <2>1. PICK f : f = [x |-> x, at |-> at]
    OBVIOUS
  <2>2. /\ f.x = x /\ f.at = at /\ f = [x |-> f.x, at |-> f.at]
        /\ f.x \in Int /\ f.at \in Int /\ f.at \in Nat
    BY <2>1, StabilizerAssumption DEF StabilizerAssumption
  <2>3. PICK known : known = IF Stabilizer!Long(f.at) THEN Stabilizer!Unknown ELSE confirmed
    OBVIOUS
  <2>4. PICK waiting : waiting = IF Stabilizer!Long(f.at) THEN Stabilizer!Unknown ELSE pending
    OBVIOUS
  <2>5. /\ f.x <= Width /\ lastInput' = f.at
        /\ IF Stabilizer!Confirms(waiting, f) \/ known = Stabilizer!Unknown
           THEN pending' = Stabilizer!Unknown /\ Stabilizer!Accept(f, TRUE)
           ELSE IF Stabilizer!TooFast(known, f)
           THEN /\ pending' = f /\ Stabilizer!Told(f, "rapid_shift_pending")
                /\ smoother' = smoother /\ confirmed' = confirmed
           ELSE pending' = Stabilizer!Unknown /\ Stabilizer!Accept(f, FALSE)
    BY <1>4, <2>1, <2>3, <2>4 DEF Stabilizer!Usable
  <2>6. ASSUME NEW why \in LookKinds, Stabilizer!Told(f, why)
        PROVE  \E l \in LookType : /\ looks' = Append(looks, l)
                                   /\ l.x = f.x /\ l.at = f.at /\ l.why = why
    <3> DEFINE l == [x |-> f.x, at |-> f.at, why |-> why]
    <3>1. l \in LookType /\ l.x = f.x /\ l.at = f.at /\ l.why = why
      BY <2>2 DEF LookType
    <3>2. looks' = Append(looks, l)
      BY <2>6 DEF Stabilizer!Told
    <3> QED BY <3>1, <3>2
  <2>7. ~Stabilizer!Confirms(Stabilizer!Unknown, f)
    BY DEF Stabilizer!Confirms
  <2>8. CASE Stabilizer!Confirms(waiting, f) \/ known = Stabilizer!Unknown
    <3>1. /\ pending' = Stabilizer!Unknown /\ confirmed' = f /\ smoother' = <<f.x>>
          /\ Stabilizer!Told(f, "shown")
      BY <2>5, <2>8 DEF Stabilizer!Accept
    <3>2. PICK l \in LookType : /\ looks' = Append(looks, l)
                                /\ l.x = f.x /\ l.at = f.at /\ l.why = "shown"
      BY <2>6, <3>1 DEF LookKinds, CountedKinds
    <3>3. \/ Stabilizer!Confirms(pending, f) \/ confirmed = Stabilizer!Unknown
          \/ lastInput # -1 /\ f.at - lastInput > ResetGap
      BY <2>3, <2>4, <2>7, <2>8 DEF Stabilizer!Long
    <3>4. Stabilizer!Confirms(pending, f) <=> Stabilizer!Confirms(pending, l)
      BY <3>2, PointsAlone
    <3>5. StartsOver(l)
      BY <2>2, <2>5, <3>1, <3>2, <3>3, <3>4 DEF StartsOver
    <3> QED BY <3>2, <3>5 DEF Looked
  <2>9. CASE ~(Stabilizer!Confirms(waiting, f) \/ known = Stabilizer!Unknown)
    <3>1. /\ known = confirmed /\ waiting = pending /\ confirmed # Stabilizer!Unknown
          /\ ~Stabilizer!Confirms(pending, f)
      BY <2>3, <2>4, <2>9
    <3>2. CASE Stabilizer!TooFast(known, f)
      <4>1. /\ pending' = f /\ Stabilizer!Told(f, "rapid_shift_pending")
            /\ smoother' = smoother /\ confirmed' = confirmed
        BY <2>5, <2>9, <3>2
      <4>2. PICK l \in LookType : /\ looks' = Append(looks, l)
                                  /\ l.x = f.x /\ l.at = f.at /\ l.why = "rapid_shift_pending"
        BY <2>6, <4>1 DEF LookKinds, CountedKinds
      <4>3. Stabilizer!TooFast(confirmed, l) /\ ~Stabilizer!Confirms(pending, l)
        BY <3>1, <3>2, <4>2, PointsAlone
      <4>4. HoldsBack(l)
        BY <2>2, <2>5, <3>1, <4>1, <4>2, <4>3 DEF HoldsBack
      <4> QED BY <4>2, <4>4 DEF Looked
    <3>3. CASE ~Stabilizer!TooFast(known, f)
      <4>1. /\ pending' = Stabilizer!Unknown /\ confirmed' = f /\ smoother' = Append(smoother, f.x)
            /\ Stabilizer!Told(f, "shown") \/ Stabilizer!Told(f, "overshot")
        BY <2>5, <2>9, <3>3 DEF Stabilizer!Accept
      <4>2. PICK l \in LookType : /\ looks' = Append(looks, l)
                                  /\ l.x = f.x /\ l.at = f.at /\ l.why \in TakenKinds
        BY <2>6, <4>1 DEF LookKinds, CountedKinds, TakenKinds
      <4>3. ~Stabilizer!TooFast(confirmed, l)
        BY <3>1, <3>3, <4>2, PointsAlone
      <4>4. GoesOn(l)
        BY <2>2, <2>5, <3>1, <4>1, <4>2, <4>3 DEF GoesOn
      <4> QED BY <4>2, <4>4 DEF Looked
    <3> QED BY <3>2, <3>3
  <2> QED BY <2>8, <2>9
<1>5. ASSUME NEW at \in 0..MaxTime,
             \/ Stabilizer!Invalid(at)
             \/ \E x \in 0..(Width + 1) : \/ Stabilizer!Unusable([x |-> x, at |-> at])
                                          \/ Stabilizer!Usable([x |-> x, at |-> at])
      PROVE  \E l \in LookType : looks' = Append(looks, l) /\ Looked(l)
  BY ONLY <1>2, <1>3, <1>4, <1>5
<1>6. \/ \E at \in 0..MaxTime :
           \/ Stabilizer!Invalid(at)
           \/ \E x \in 0..(Width + 1) : \/ Stabilizer!Unusable([x |-> x, at |-> at])
                                        \/ Stabilizer!Usable([x |-> x, at |-> at])
      \/ Stabilizer!Reset
  BY Zenon DEF Stabilizer!Next
<1> QED BY <1>1, <1>5, <1>6

\* The last look taken and the last that counted, before and after a look.
LEMMA LastGrows ==
  ASSUME looks \in Seq(LookType), NEW l \in LookType, looks' = Append(looks, l),
         NEW n \in Nat, n = Len(looks)
  PROVE  /\ l.why \notin TakenKinds => \A j \in 1..n : LastTaken(j)' <=> LastTaken(j)
         /\ l.why \in TakenKinds => LastTaken(n + 1)'
         /\ l.why \notin CountedKinds =>
              /\ \A k \in 1..n : LastCounted(k)' <=> LastCounted(k)
              /\ ~LastCounted(n + 1)'
         /\ l.why \in CountedKinds =>
              LastCounted(n + 1)' /\ \A k \in 1..n : ~LastCounted(k)'
<1>1. /\ Len(looks') = n + 1
      /\ \A i \in 1..n : (Stabilizer!Taken(i)' <=> Stabilizer!Taken(i))
                         /\ (Stabilizer!Counted(i)' <=> Stabilizer!Counted(i))
      /\ Stabilizer!Taken(n + 1)' <=> l.why \in TakenKinds
      /\ Stabilizer!Counted(n + 1)' <=> l.why \in CountedKinds
  BY LooksGrow
<1>2. /\ \A i \in 1..(n + 1) : i \in 1..n \/ i = n + 1
      /\ \A i \in 1..n : i \in 1..(n + 1) /\ i <= n + 1
      /\ n + 1 \in 1..(n + 1) /\ n + 1 <= n + 1
  OBVIOUS
<1>3. \A k \in 1..n : /\ \A m \in (k + 1)..(n + 1) : m \in (k + 1)..n \/ m = n + 1
                      /\ \A m \in (k + 1)..n : m \in 1..n /\ m \in (k + 1)..(n + 1)
                      /\ n + 1 \in (k + 1)..(n + 1)
  OBVIOUS
<1>4. ((n + 1) + 1)..(n + 1) = {}
  OBVIOUS
<1>5. l.why \notin TakenKinds => \A j \in 1..n : LastTaken(j)' <=> LastTaken(j)
  BY <1>1, <1>2 DEF LastTaken
<1>6. l.why \in TakenKinds => LastTaken(n + 1)'
  BY <1>1, <1>2 DEF LastTaken
<1>7. l.why \notin CountedKinds =>
        (\A k \in 1..n : LastCounted(k)' <=> LastCounted(k)) /\ ~LastCounted(n + 1)'
  BY <1>1, <1>3 DEF LastCounted
<1>8. l.why \in CountedKinds => LastCounted(n + 1)' /\ \A k \in 1..n : ~LastCounted(k)'
  BY <1>1, <1>3, <1>4 DEF LastCounted
<1> QED BY <1>5, <1>6, <1>7, <1>8

\* There is one last look, and it comes before the new one.
LEMMA OneLast ==
  ASSUME NEW n \in Nat, n = Len(looks), NEW j \in 1..n, NEW k \in 1..n
  PROVE  /\ LastTaken(j) /\ LastTaken(k) => j = k
         /\ LastCounted(j) /\ LastCounted(k) => j = k
         /\ LastCounted(k) /\ Stabilizer!Taken(j) => j <= k
<1>1. j \in Int /\ k \in Int /\ 1 <= j /\ 1 <= k /\ j <= n /\ k <= n
  OBVIOUS
<1>2. LastTaken(j) /\ LastTaken(k) => j = k
  BY <1>1 DEF LastTaken
<1>3. Stabilizer!Taken(j) => Stabilizer!Counted(j)
  BY DEF Stabilizer!Taken, Stabilizer!Counted
<1>4. (k < j => j \in (k + 1)..n) /\ (j < k => k \in (j + 1)..n) /\ (k < j \/ j < k \/ j = k)
  BY <1>1
<1>5. LastCounted(j) /\ LastCounted(k) => j = k
  BY <1>4 DEF LastCounted
<1>6. LastCounted(k) /\ Stabilizer!Counted(j) => ~(k < j)
  BY <1>4 DEF LastCounted
<1>7. ~(k < j) => j <= k
  BY <1>1
<1> QED BY <1>2, <1>3, <1>5, <1>6, <1>7

LEMMA BeforeLast ==
  ASSUME looks \in Seq(LookType), NEW l \in LookType, looks' = Append(looks, l),
         NEW n \in Nat, n = Len(looks), NEW j \in 1..n, LastTaken(j)
  PROVE  Stabilizer!PastTaken(n + 1)' # {} /\ Stabilizer!Before(n + 1)' = j
<1>1. \A i \in 1..n : Stabilizer!Taken(i)' <=> Stabilizer!Taken(i)
  BY LooksGrow
<1>2. (n + 1) - 1 = n
  OBVIOUS
<1>3. PICK p : p = Stabilizer!PastTaken(n + 1)'
  OBVIOUS
<1>4. p = {i \in 1..n : Stabilizer!Taken(i)}
  BY <1>1, <1>2, <1>3 DEF Stabilizer!PastTaken
<1>5. j \in p /\ \A k \in p : k <= j
  BY <1>4 DEF LastTaken
<1>6. \A i \in p : (\A k \in p : k <= i) => i = j
  BY <1>4, <1>5
<1>7. (CHOOSE i \in p : \A k \in p : k <= i) = j
  BY <1>5, <1>6
<1>8. Stabilizer!Before(n + 1)' = CHOOSE i \in p : \A k \in p : k <= i
  BY <1>3 DEF Stabilizer!Before
<1> QED BY <1>3, <1>5, <1>7, <1>8

\* Of the looks taken before one, one is the last, after a look too.
LEMMA BeforeGrows ==
  ASSUME looks \in Seq(LookType), NEW l \in LookType, looks' = Append(looks, l),
         NEW n \in Nat, n = Len(looks), BeforeInv
  PROVE  BeforeInv'
<1>1. /\ Len(looks') = n + 1
      /\ \A i \in 1..n : Stabilizer!Taken(i)' <=> Stabilizer!Taken(i)
  BY LooksGrow
<1>2. ASSUME NEW i \in 1..(n + 1)
      PROVE  Stabilizer!PastTaken(i)' = Stabilizer!PastTaken(i)
  <2>1. \A k \in 1..(i - 1) : k \in 1..n
    OBVIOUS
  <2> QED BY <1>1, <2>1 DEF Stabilizer!PastTaken
<1>3. \A i \in 1..(n + 1) : Stabilizer!PastTaken(i) # {} =>
        \E j \in Stabilizer!PastTaken(i) : \A k \in Stabilizer!PastTaken(i) : k <= j
  BY DEF BeforeInv
<1>4. \A i \in 1..(n + 1) : Stabilizer!PastTaken(i)' # {} =>
        \E j \in Stabilizer!PastTaken(i)' : \A k \in Stabilizer!PastTaken(i)' : k <= j
  BY <1>2, <1>3
<1>5. Stabilizer!PastTaken((n + 1) + 1)' # {} =>
        \E j \in Stabilizer!PastTaken((n + 1) + 1)' :
          \A k \in Stabilizer!PastTaken((n + 1) + 1)' : k <= j
  <2>1. PICK p : p = Stabilizer!PastTaken(n + 1)
    OBVIOUS
  <2>2. PICK q : q = Stabilizer!PastTaken((n + 1) + 1)'
    OBVIOUS
  <2>3. p = {k \in 1..n : Stabilizer!Taken(k)}
    BY <2>1 DEF Stabilizer!PastTaken
  <2>4. q = {k \in 1..(n + 1) : Stabilizer!Taken(k)'}
    BY <2>2 DEF Stabilizer!PastTaken
  <2>5. q = p \/ (q = p \cup {n + 1} /\ \A k \in p : k <= n + 1)
    BY <1>1, <2>3, <2>4
  <2>6. p # {} => \E j \in p : \A k \in p : k <= j
    BY <1>3, <2>1
  <2>7. q # {} => \E j \in q : \A k \in q : k <= j
    BY <2>5, <2>6
  <2> QED BY <2>2, <2>7
<1>6. \A i \in 1..((n + 1) + 1) : i \in 1..(n + 1) \/ i = (n + 1) + 1
  OBVIOUS
<1>7. \A i \in 1..((n + 1) + 1) : Stabilizer!PastTaken(i)' # {} =>
        \E j \in Stabilizer!PastTaken(i)' : \A k \in Stabilizer!PastTaken(i)' : k <= j
  BY <1>4, <1>5, <1>6
<1> QED BY <1>1, <1>7 DEF BeforeInv

\* The pause of a frame that comes long after the last that counted.
LEMMA PauseBegins ==
  ASSUME looks \in Seq(LookType), NEW l \in LookType, looks' = Append(looks, l),
         NEW n \in Nat, n = Len(looks), l.x <= Width,
         NEW k \in 1..n, LastCounted(k), l.at - looks[k].at > ResetGap,
         NEW j \in 1..n, Stabilizer!Taken(j)
  PROVE  Stabilizer!Paused(j, n + 1)'
<1>1. /\ looks'[n + 1] = l /\ \A i \in 1..n : looks'[i] = looks[i]
      /\ \A i \in 1..n : Stabilizer!Counted(i)' <=> Stabilizer!Counted(i)
  BY LooksGrow
<1>2. j <= k
  BY OneLast
<1>3. k \in j..((n + 1) - 1) /\ n + 1 \in (j + 1)..(n + 1) /\ k < n + 1
  BY <1>2
<1>4. Stabilizer!Counted(k)' /\ \A m \in (k + 1)..((n + 1) - 1) : ~Stabilizer!Counted(m)'
  <2>1. \A m \in (k + 1)..((n + 1) - 1) : m \in (k + 1)..n /\ m \in 1..n
    OBVIOUS
  <2> QED BY <1>1, <2>1 DEF LastCounted
<1>5. looks'[n + 1].x <= Width /\ looks'[n + 1].at - looks'[k].at > ResetGap
  BY <1>1
<1> QED BY <1>3, <1>4, <1>5 DEF Stabilizer!Paused

\* The pauses there were are there still.
LEMMA PausesStay ==
  ASSUME looks \in Seq(LookType), NEW l \in LookType, looks' = Append(looks, l),
         NEW n \in Nat, n = Len(looks), ConfirmedInv, confirmed = Stabilizer!Unknown
  PROVE  \A j \in 1..n : Stabilizer!Taken(j) => Stabilizer!Paused(j, n + 1)'
<1>1. ASSUME NEW j \in 1..n, Stabilizer!Taken(j)
      PROVE  Stabilizer!Paused(j, n + 1)'
  <2>1. Stabilizer!Paused(j, n)
    BY <1>1 DEF ConfirmedInv
  <2>2. n \in 1..n
    OBVIOUS
  <2> QED BY <2>1, <2>2, PausedGrows
<1> QED BY <1>1

\* What is confirmed, after a look.
LEMMA ConfirmedStep ==
  ASSUME StabilizerInv, NEW l \in LookType, looks' = Append(looks, l), Looked(l),
         NEW n \in Nat, n = Len(looks)
  PROVE  ConfirmedInv'
<1>1. looks \in Seq(LookType) /\ ConfirmedInv /\ InputInv
  BY DEF StabilizerInv, FilterTypes
<1>2. /\ Len(looks') = n + 1 /\ looks'[n + 1] = l
      /\ \A i \in 1..n : looks'[i] = looks[i]
      /\ \A i \in 1..n : Stabilizer!Taken(i)' <=> Stabilizer!Taken(i)
      /\ Stabilizer!Taken(n + 1)' <=> l.why \in TakenKinds
  BY <1>1, LooksGrow
<1>3. /\ l.why \notin TakenKinds => \A j \in 1..n : LastTaken(j)' <=> LastTaken(j)
      /\ l.why \in TakenKinds => LastTaken(n + 1)'
  BY <1>1, LastGrows
<1>4. /\ \A i \in 1..(n + 1) : i \in 1..n \/ i = n + 1
      /\ \A i \in 1..n : i \in 1..(n + 1)
      /\ n + 1 \in 1..(n + 1)
  OBVIOUS
<1>5. CASE l.why \notin TakenKinds /\ confirmed' = confirmed
  <2>1. CASE confirmed # Stabilizer!Unknown
    <3>1. PICK j \in 1..n : LastTaken(j) /\ IsLook(confirmed, j)
      BY <1>1, <2>1 DEF ConfirmedInv
    <3>2. IsLook(confirmed, j)'
      BY <1>2, <1>5, <3>1 DEF IsLook
    <3>3. j \in 1..Len(looks') /\ LastTaken(j)'
      BY <1>2, <1>3, <1>4, <1>5, <3>1
    <3>4. confirmed' # Stabilizer!Unknown
      BY <1>5, <2>1
    <3> QED BY <3>2, <3>3, <3>4 DEF ConfirmedInv, Stabilizer!Unknown
  <2>2. CASE confirmed = Stabilizer!Unknown
    <3>1. \A j \in 1..n : Stabilizer!Taken(j) => Stabilizer!Paused(j, n + 1)'
      BY <1>1, <2>2, PausesStay
    <3>2. \A j \in 1..(n + 1) : Stabilizer!Taken(j)' => Stabilizer!Paused(j, n + 1)'
      BY <1>2, <1>4, <1>5, <3>1
    <3>3. confirmed' = Stabilizer!Unknown
      BY <1>5, <2>2
    <3>4. \A j \in 1..Len(looks') : Stabilizer!Taken(j)' => Stabilizer!Paused(j, Len(looks))'
      BY <1>2, <3>2
    <3> QED BY <3>3, <3>4 DEF ConfirmedInv, Stabilizer!Unknown
  <2> QED BY <2>1, <2>2
<1>6. CASE Forgets(l)
  <2>1. PICK k \in 1..n : LastCounted(k) /\ looks[k].at = lastInput
    BY <1>1, <1>6 DEF Forgets, InputInv
  <2>2. l.x <= Width /\ l.at - looks[k].at > ResetGap /\ l.why \notin TakenKinds
    BY <1>6, <2>1, StabilizerAssumption DEF StabilizerAssumption, Forgets, TakenKinds
  <2>3. \A j \in 1..n : Stabilizer!Taken(j) => Stabilizer!Paused(j, n + 1)'
    BY <1>1, <2>1, <2>2, PauseBegins
  <2>4. \A j \in 1..(n + 1) : Stabilizer!Taken(j)' => Stabilizer!Paused(j, n + 1)'
    BY <1>2, <1>4, <2>2, <2>3
  <2>5. confirmed' = Stabilizer!Unknown
    BY <1>6 DEF Forgets
  <2>6. \A j \in 1..Len(looks') : Stabilizer!Taken(j)' => Stabilizer!Paused(j, Len(looks))'
    BY <1>2, <2>4
  <2> QED BY <2>5, <2>6 DEF ConfirmedInv, Stabilizer!Unknown
<1>7. CASE l.why \in TakenKinds /\ l.at \in Nat /\ confirmed' = [x |-> l.x, at |-> l.at]
  <2>1. confirmed'.x = l.x /\ confirmed'.at = l.at /\ confirmed' # Stabilizer!Unknown
    BY <1>7 DEF Stabilizer!Unknown
  <2>2. LastTaken(n + 1)' /\ IsLook(confirmed, n + 1)' /\ n + 1 \in 1..Len(looks')
    BY <1>2, <1>3, <1>4, <1>7, <2>1 DEF IsLook
  <2> QED BY <2>1, <2>2 DEF ConfirmedInv, Stabilizer!Unknown
<1> QED BY <1>5, <1>6, <1>7
     DEF Looked, Quiet, Fades, Forgets, HoldsBack, StartsOver, GoesOn, TakenKinds, CountedKinds

\* What is the last input, after a look.
LEMMA InputStep ==
  ASSUME StabilizerInv, NEW l \in LookType, looks' = Append(looks, l), Looked(l),
         NEW n \in Nat, n = Len(looks)
  PROVE  InputInv'
<1>1. looks \in Seq(LookType) /\ InputInv
  BY DEF StabilizerInv, FilterTypes
<1>2. /\ Len(looks') = n + 1 /\ looks'[n + 1] = l
      /\ \A i \in 1..n : looks'[i] = looks[i]
  BY <1>1, LooksGrow
<1>3. /\ l.why \notin CountedKinds => \A k \in 1..n : LastCounted(k)' <=> LastCounted(k)
      /\ l.why \in CountedKinds => LastCounted(n + 1)'
  BY <1>1, LastGrows
<1>4. (\A i \in 1..n : i \in 1..(n + 1)) /\ n + 1 \in 1..(n + 1)
  OBVIOUS
<1>5. CASE /\ l.why \notin CountedKinds /\ lastInput' = lastInput /\ confirmed' = confirmed
           /\ pending' = pending \/ pending' = Stabilizer!Unknown
  <2>1. lastInput' # -1 => \E k \in 1..Len(looks') : LastCounted(k)' /\ looks'[k].at = lastInput'
    <3>1. ASSUME lastInput # -1
          PROVE  \E k \in 1..Len(looks') : LastCounted(k)' /\ looks'[k].at = lastInput'
      <4>1. PICK k \in 1..n : LastCounted(k) /\ looks[k].at = lastInput
        BY <1>1, <3>1 DEF InputInv
      <4> QED BY <1>2, <1>3, <1>4, <1>5, <4>1
    <3> QED BY <1>5, <3>1
  <2>2. lastInput' = -1 => confirmed' = Stabilizer!Unknown /\ pending' = Stabilizer!Unknown
    BY <1>1, <1>5 DEF InputInv
  <2> QED BY <2>1, <2>2 DEF InputInv, Stabilizer!Unknown
<1>6. CASE Forgets(l)
  BY <1>6 DEF Forgets, InputInv, Stabilizer!Unknown
<1>7. CASE l.why \in CountedKinds /\ l.at \in Nat /\ lastInput' = l.at
  <2>1. LastCounted(n + 1)' /\ looks'[n + 1].at = lastInput' /\ n + 1 \in 1..Len(looks')
    BY <1>2, <1>3, <1>4, <1>7
  <2>2. lastInput' # -1
    BY <1>7
  <2> QED BY <2>1, <2>2 DEF InputInv, Stabilizer!Unknown
<1> QED BY <1>5, <1>6, <1>7
     DEF Looked, Quiet, Fades, Forgets, HoldsBack, StartsOver, GoesOn, TakenKinds, CountedKinds

\* What is pending, after a look.
LEMMA PendingStep ==
  ASSUME StabilizerInv, NEW l \in LookType, looks' = Append(looks, l), Looked(l),
         NEW n \in Nat, n = Len(looks)
  PROVE  PendingInv'
<1>1. looks \in Seq(LookType) /\ PendingInv
  BY DEF StabilizerInv, FilterTypes
<1>2. /\ Len(looks') = n + 1 /\ looks'[n + 1] = l
      /\ \A i \in 1..n : looks'[i] = looks[i]
  BY <1>1, LooksGrow
<1>3. /\ l.why \notin CountedKinds =>
           (\A k \in 1..n : LastCounted(k)' <=> LastCounted(k)) /\ ~LastCounted(n + 1)'
      /\ l.why \in CountedKinds => LastCounted(n + 1)' /\ \A k \in 1..n : ~LastCounted(k)'
  BY <1>1, LastGrows
<1>4. /\ \A i \in 1..(n + 1) : i \in 1..n \/ i = n + 1
      /\ (\A i \in 1..n : i \in 1..(n + 1)) /\ n + 1 \in 1..(n + 1)
      /\ \A k \in 1..n : /\ \A m \in (k + 1)..n : m \in 1..n /\ m \in (k + 1)..(n + 1)
                         /\ n + 1 \in (k + 1)..(n + 1)
  OBVIOUS
<1>5. CASE Quiet(l)
  <2>1. /\ l.why \notin CountedKinds /\ pending' = pending /\ confirmed' = confirmed
    BY <1>5 DEF Quiet
  <2>2. CASE pending # Stabilizer!Unknown
    <3>1. PICK k \in 1..n : /\ LastCounted(k) /\ looks[k].why = "rapid_shift_pending"
                            /\ IsLook(pending, k)
      BY <1>1, <2>2 DEF PendingInv
    <3>2. k \in 1..Len(looks') /\ LastCounted(k)' /\ looks'[k].why = "rapid_shift_pending"
      BY <1>2, <1>3, <1>4, <2>1, <3>1
    <3>3. IsLook(pending, k)'
      BY <1>2, <2>1, <3>1 DEF IsLook
    <3>4. pending' # Stabilizer!Unknown /\ confirmed' # Stabilizer!Unknown
      BY <1>1, <2>1, <2>2 DEF PendingInv
    <3> QED BY <3>2, <3>3, <3>4 DEF PendingInv, Stabilizer!Unknown
  <2>3. CASE pending = Stabilizer!Unknown
    <3>1. ASSUME confirmed # Stabilizer!Unknown, NEW k \in 1..(n + 1), LastCounted(k)',
                 looks'[k].why = "rapid_shift_pending"
          PROVE  \E m \in (k + 1)..(n + 1) :
                   looks'[m].x = -1 /\ looks'[m].at - looks'[k].at > ConfirmWindow
      <4>1. k \in 1..n /\ LastCounted(k) /\ looks[k].why = "rapid_shift_pending"
        BY <1>2, <1>3, <1>4, <2>1, <3>1
      <4>2. PICK m \in (k + 1)..n : looks[m].x = -1 /\ looks[m].at - looks[k].at > ConfirmWindow
        BY <1>1, <2>3, <3>1, <4>1 DEF PendingInv
      <4> QED BY <1>2, <1>4, <4>1, <4>2
    <3>2. pending' = Stabilizer!Unknown /\ confirmed' = confirmed
      BY <2>1, <2>3
    <3> QED BY <1>2, <3>1, <3>2 DEF PendingInv, Stabilizer!Unknown
  <2> QED BY <2>2, <2>3
<1>6. CASE Fades(l)
  <2>1. /\ l.why \notin CountedKinds /\ l.x = -1 /\ l.at - pending.at > ConfirmWindow
        /\ pending # Stabilizer!Unknown /\ pending' = Stabilizer!Unknown
    BY <1>6 DEF Fades, CountedKinds
  <2>2. PICK q \in 1..n : LastCounted(q) /\ IsLook(pending, q)
    BY <1>1, <2>1 DEF PendingInv
  <2>3. ASSUME NEW k \in 1..(n + 1), LastCounted(k)'
        PROVE  \E m \in (k + 1)..(n + 1) :
                 looks'[m].x = -1 /\ looks'[m].at - looks'[k].at > ConfirmWindow
    <3>1. k \in 1..n /\ LastCounted(k)
      BY <1>3, <1>4, <2>1, <2>3
    <3>2. k = q
      BY <2>2, <3>1, OneLast
    <3>3. looks'[k].at = pending.at
      BY <1>2, <2>2, <3>1, <3>2 DEF IsLook
    <3>4. looks'[n + 1].x = -1 /\ looks'[n + 1].at - looks'[k].at > ConfirmWindow
      BY <1>2, <2>1, <3>3
    <3> QED BY <1>4, <3>1, <3>4
  <2> QED BY <1>2, <2>1, <2>3 DEF PendingInv, Stabilizer!Unknown
<1>7. CASE Forgets(l)
  BY <1>7 DEF Forgets, PendingInv, Stabilizer!Unknown
<1>8. CASE HoldsBack(l)
  <2>1. /\ l.why = "rapid_shift_pending" /\ pending' = [x |-> l.x, at |-> l.at] /\ l.at \in Nat
        /\ confirmed' = confirmed /\ confirmed # Stabilizer!Unknown
    BY <1>8 DEF HoldsBack
  <2>2. pending' # Stabilizer!Unknown /\ pending'.x = l.x /\ pending'.at = l.at
    BY <2>1 DEF Stabilizer!Unknown
  <2>3. LastCounted(n + 1)'
    BY <1>3, <2>1 DEF CountedKinds
  <2>4. IsLook(pending, n + 1)' /\ looks'[n + 1].why = "rapid_shift_pending"
    BY <1>2, <2>1, <2>2 DEF IsLook
  <2> QED BY <1>2, <1>4, <2>1, <2>2, <2>3, <2>4 DEF PendingInv, Stabilizer!Unknown
<1>9. CASE StartsOver(l) \/ GoesOn(l)
  <2>1. /\ l.why \in CountedKinds /\ l.why # "rapid_shift_pending"
        /\ pending' = Stabilizer!Unknown
    BY <1>9 DEF StartsOver, GoesOn, CountedKinds, TakenKinds
  <2>2. \A k \in 1..(n + 1) : ~(LastCounted(k)' /\ looks'[k].why = "rapid_shift_pending")
    BY <1>2, <1>3, <1>4, <2>1
  <2> QED BY <1>2, <2>1, <2>2 DEF PendingInv, Stabilizer!Unknown
<1> QED BY <1>5, <1>6, <1>7, <1>8, <1>9 DEF Looked

\* The new look: a jump that is shown was confirmed, one that is held back is
\* one.
LEMMA JumpStep ==
  ASSUME StabilizerInv, NEW l \in LookType, looks' = Append(looks, l), Looked(l),
         NEW n \in Nat, n = Len(looks)
  PROVE  JumpConfirmed(n + 1)'
<1>1. looks \in Seq(LookType) /\ ConfirmedInv /\ InputInv /\ PendingInv /\ BeforeInv
  BY DEF StabilizerInv, FilterTypes
<1>2. /\ Len(looks') = n + 1 /\ looks'[n + 1] = l
      /\ \A i \in 1..n : looks'[i] = looks[i]
      /\ \A i \in 1..n : (Stabilizer!Taken(i)' <=> Stabilizer!Taken(i))
                         /\ (Stabilizer!Counted(i)' <=> Stabilizer!Counted(i))
      /\ Stabilizer!Taken(n + 1)' <=> l.why \in TakenKinds
  BY <1>1, LooksGrow
<1>3. (n + 1) - 1 = n
  OBVIOUS
<1>4. CASE l.why \notin CountedKinds
  <2>1. ~Stabilizer!Taken(n + 1)' /\ looks'[n + 1].why # "rapid_shift_pending"
    BY <1>2, <1>4 DEF CountedKinds, TakenKinds
  <2> QED BY <2>1 DEF JumpConfirmed
<1>5. ASSUME NEW j \in 1..n, LastTaken(j), IsLook(confirmed, j)
      PROVE  /\ Stabilizer!PastTaken(n + 1)' # {} /\ Stabilizer!Before(n + 1)' = j
             /\ Stabilizer!TooFast(confirmed, l) <=>
                  Stabilizer!TooFast(looks[Stabilizer!Before(n + 1)], looks[n + 1])'
  <2>1. Stabilizer!PastTaken(n + 1)' # {} /\ Stabilizer!Before(n + 1)' = j
    BY <1>1, <1>5, BeforeLast
  <2>2. looks'[j].x = confirmed.x /\ looks'[j].at = confirmed.at
    BY <1>2, <1>5 DEF IsLook
  <2>3. PICK p : p = looks'[j]
    OBVIOUS
  <2>4. PICK c : c = confirmed
    OBVIOUS
  <2>5. Stabilizer!TooFast(c, l) <=> Stabilizer!TooFast(p, l)
    BY <2>2, <2>3, <2>4, PointsAlone
  <2>6. Stabilizer!TooFast(looks[Stabilizer!Before(n + 1)], looks[n + 1])' <=>
          Stabilizer!TooFast(p, l)
    BY <1>2, <2>1, <2>3
  <2> QED BY <2>1, <2>4, <2>5, <2>6
<1>6. \A k \in 1..n : Stabilizer!Neighbours(k, n + 1)' <=>
                        \A m \in (k + 1)..n : ~Stabilizer!Counted(m)
  <2>1. \A k \in 1..n : k < n + 1 /\ \A m \in (k + 1)..n : m \in 1..n
    OBVIOUS
  <2> QED BY <1>2, <1>3, <2>1 DEF Stabilizer!Neighbours
<1>7. CASE HoldsBack(l)
  <2>1. PICK j \in 1..n : LastTaken(j) /\ IsLook(confirmed, j)
    BY <1>1, <1>7 DEF ConfirmedInv, HoldsBack
  <2>2. /\ Stabilizer!PastTaken(n + 1)' # {}
        /\ Stabilizer!TooFast(looks[Stabilizer!Before(n + 1)], looks[n + 1])'
    BY <1>5, <1>7, <2>1 DEF HoldsBack
  <2>3. ASSUME NEW k \in 1..n, HeldBy(k, n + 1)'
        PROVE  Outlived(k, n + 1)'
    <3>1. /\ looks[k].why = "rapid_shift_pending" /\ Stabilizer!Neighbours(k, n + 1)'
          /\ Stabilizer!Distance(looks[k], l) <= NearBy /\ l.at - looks[k].at <= ConfirmWindow
      BY <1>2, <2>3 DEF HeldBy
    <3>2. LastCounted(k)
      BY <1>6, <3>1 DEF LastCounted, Stabilizer!Counted
    <3>3. pending = Stabilizer!Unknown
      <4>1. SUFFICES ASSUME pending # Stabilizer!Unknown PROVE FALSE
        OBVIOUS
      <4>2. PICK q \in 1..n : LastCounted(q) /\ IsLook(pending, q)
        BY <1>1, <4>1 DEF PendingInv
      <4>3. q = k
        BY <3>2, <4>2, OneLast
      <4>4. Stabilizer!Confirms(pending, l)
        BY <3>1, <4>1, <4>2, <4>3 DEF IsLook, Stabilizer!Confirms, Stabilizer!Distance
      <4> QED BY <1>7, <4>4 DEF HoldsBack
    <3>4. confirmed # Stabilizer!Unknown
      BY <1>7 DEF HoldsBack
    <3>5. PICK m \in (k + 1)..n : looks[m].x = -1 /\ looks[m].at - looks[k].at > ConfirmWindow
      BY <1>1, <3>1, <3>2, <3>3, <3>4 DEF PendingInv
    <3>6. m \in 1..n
      OBVIOUS
    <3>7. looks'[m].x = -1 /\ looks'[m].at - looks'[k].at > ConfirmWindow
      BY <1>2, <3>5, <3>6
    <3> QED BY <1>3, <3>7 DEF Outlived
  <2>4. ~Stabilizer!Taken(n + 1)'
    BY <1>2, <1>7 DEF HoldsBack, TakenKinds
  <2> QED BY <1>3, <2>2, <2>3, <2>4 DEF JumpConfirmed
<1>8. CASE GoesOn(l)
  <2>1. PICK j \in 1..n : LastTaken(j) /\ IsLook(confirmed, j)
    BY <1>1, <1>8 DEF ConfirmedInv, GoesOn
  <2>2. ~Stabilizer!TooFast(looks[Stabilizer!Before(n + 1)], looks[n + 1])'
    BY <1>5, <1>8, <2>1 DEF GoesOn
  <2>3. looks'[n + 1].why # "rapid_shift_pending"
    BY <1>2, <1>8 DEF GoesOn, TakenKinds
  <2> QED BY <2>2, <2>3 DEF JumpConfirmed
<1>9. CASE StartsOver(l)
  <2>1. looks'[n + 1].why # "rapid_shift_pending"
    BY <1>2, <1>9 DEF StartsOver
  <2>2. ASSUME Stabilizer!PastTaken(n + 1)' # {}
        PROVE  \/ \E k \in 1..n : HeldBy(k, n + 1)'
               \/ Stabilizer!Paused(Stabilizer!Before(n + 1), n + 1)'
    <3>1. PICK j \in 1..n : LastTaken(j) /\ Stabilizer!Taken(j)
      <4>1. Stabilizer!PastTaken(n + 1)' = Stabilizer!PastTaken(n + 1)
        BY <1>2, <1>3 DEF Stabilizer!PastTaken
      <4>2. n + 1 \in 1..(Len(looks) + 1)
        OBVIOUS
      <4>3. PICK j \in Stabilizer!PastTaken(n + 1) : \A k \in Stabilizer!PastTaken(n + 1) : k <= j
        BY <1>1, <2>2, <4>1, <4>2 DEF BeforeInv
      <4> QED BY <1>3, <4>3 DEF Stabilizer!PastTaken, LastTaken
    <3>2. Stabilizer!Before(n + 1)' = j
      BY <1>1, <3>1, BeforeLast
    <3>3. CASE Stabilizer!Confirms(pending, l)
      <4>1. pending # Stabilizer!Unknown
        BY <3>3 DEF Stabilizer!Confirms
      <4>2. PICK k \in 1..n : /\ LastCounted(k) /\ looks[k].why = "rapid_shift_pending"
                              /\ IsLook(pending, k)
        BY <1>1, <4>1 DEF PendingInv
      <4>3. Stabilizer!Neighbours(k, n + 1)'
        BY <1>6, <4>2 DEF LastCounted
      <4>4. Stabilizer!Distance(looks[k], l) <= NearBy /\ l.at - looks[k].at <= ConfirmWindow
        BY <3>3, <4>2 DEF IsLook, Stabilizer!Confirms, Stabilizer!Distance
      <4>5. HeldBy(k, n + 1)'
        BY <1>2, <4>2, <4>3, <4>4 DEF HeldBy
      <4> QED BY <4>5
    <3>4. CASE lastInput # -1 /\ l.at - lastInput > ResetGap
      <4>1. PICK k \in 1..n : LastCounted(k) /\ looks[k].at = lastInput
        BY <1>1, <3>4 DEF InputInv
      <4>2. Stabilizer!Paused(j, n + 1)'
        BY <1>1, <1>9, <3>1, <3>4, <4>1, PauseBegins DEF StartsOver
      <4>3. Stabilizer!Paused(Stabilizer!Before(n + 1), n + 1)' <=> Stabilizer!Paused(j, n + 1)'
        BY <3>2
      <4> QED BY <4>2, <4>3
    <3>5. CASE confirmed = Stabilizer!Unknown
      <4>1. Stabilizer!Paused(j, n + 1)'
        BY <1>1, <3>1, <3>5, PausesStay
      <4>2. Stabilizer!Paused(Stabilizer!Before(n + 1), n + 1)' <=> Stabilizer!Paused(j, n + 1)'
        BY <3>2
      <4> QED BY <4>1, <4>2
    <3> QED BY <1>9, <3>3, <3>4, <3>5 DEF StartsOver
  <2> QED BY <1>3, <2>1, <2>2 DEF JumpConfirmed
<1> QED BY <1>4, <1>7, <1>8, <1>9 DEF Looked, Quiet, Fades, Forgets, CountedKinds

LEMMA StabilizerInit ==
  ASSUME Stabilizer!Init
  PROVE  StabilizerInv
<1>1. /\ smoother = <<>> /\ pending = Stabilizer!Unknown /\ confirmed = Stabilizer!Unknown
      /\ lastInput = -1 /\ looks = <<>>
  BY DEF Stabilizer!Init
<1> QED BY <1>1, Forgotten

LEMMA StabilizerStep ==
  ASSUME StabilizerInv, Stabilizer!Next
  PROVE  StabilizerInv'
<1>1. FilterTypes /\ BeforeInv /\ Stabilizer!FilterIsOfOneStretch
  BY DEF StabilizerInv
<1>2. ASSUME NEW l \in LookType, looks' = Append(looks, l), Looked(l)
      PROVE  StabilizerInv'
  <2>1. looks \in Seq(LookType) /\ smoother \in Seq(Int)
    BY <1>1 DEF FilterTypes
  <2>2. PICK n \in Nat : n = Len(looks)
    BY <2>1
  <2>3. Len(looks') = n + 1 /\ looks' \in Seq(LookType)
    BY <1>2, <2>1, <2>2, LooksGrow
  <2>4. l.x \in Int /\ l.at \in Int
    BY <1>2 DEF LookType
  <2>5. FilterTypes'
    <3>1. smoother' \in Seq(Int) /\ lastInput' \in Int
      <4>1. smoother' \in {smoother, <<>>, <<l.x>>, Append(smoother, l.x)}
        BY <1>2 DEF Looked, Quiet, Fades, Forgets, HoldsBack, StartsOver, GoesOn
      <4>2. <<>> \in Seq(Int) /\ <<l.x>> \in Seq(Int) /\ Append(smoother, l.x) \in Seq(Int)
        BY <2>1, <2>4
      <4>3. lastInput' \in {lastInput, -1, l.at}
        BY <1>2 DEF Looked, Quiet, Fades, Forgets, HoldsBack, StartsOver, GoesOn
      <4>4. lastInput \in Int
        BY <1>1 DEF FilterTypes
      <4>5. lastInput' \in Int
        BY <2>4, <4>3, <4>4
      <4>6. smoother' \in Seq(Int)
        BY Zenon, <2>1, <4>1, <4>2
      <4> QED BY <4>5, <4>6
    <3>2. Stabilizer!Unknown \in [x : Int, at : Int] /\ [x |-> l.x, at |-> l.at] \in [x : Int, at : Int]
      BY <2>4 DEF Stabilizer!Unknown
    <3>3. pending' \in [x : Int, at : Int]
      BY <1>1, <1>2, <3>2
         DEF FilterTypes, Looked, Quiet, Fades, Forgets, HoldsBack, StartsOver, GoesOn
    <3>4. confirmed' \in [x : Int, at : Int]
      BY <1>1, <1>2, <3>2
         DEF FilterTypes, Looked, Quiet, Fades, Forgets, HoldsBack, StartsOver, GoesOn
    <3> QED BY <2>3, <3>1, <3>3, <3>4 DEF FilterTypes
  <2>6. BeforeInv'
    BY <1>1, <1>2, <2>1, <2>2, BeforeGrows
  <2>7. ConfirmedInv' /\ InputInv' /\ PendingInv'
    BY <1>2, <2>2, ConfirmedStep, InputStep, PendingStep
  <2>8. \A i \in 1..Len(looks') : JumpConfirmed(i)'
    <3>1. ASSUME NEW i \in 1..n
          PROVE  JumpConfirmed(i)'
      <4>1. JumpConfirmed(i)
        BY <2>2 DEF StabilizerInv
      <4> QED BY <1>1, <1>2, <2>1, <2>2, <4>1, EarlierLooks
    <3>2. JumpConfirmed(n + 1)'
      BY <1>2, <2>2, JumpStep
    <3>3. \A i \in 1..(n + 1) : i \in 1..n \/ i = n + 1
      OBVIOUS
    <3> QED BY <2>3, <3>1, <3>2, <3>3
  <2>9. Stabilizer!FilterIsOfOneStretch'
    <3>1. CASE l.why \notin TakenKinds /\ smoother' = smoother
      BY <1>1, <1>2, <2>1, <2>2, <3>1, FilterKept
    <3>2. CASE Forgets(l)
      <4>1. l.why \notin TakenKinds /\ smoother' = <<>>
        BY <3>2 DEF Forgets, TakenKinds
      <4> QED BY <1>2, <2>1, <2>2, <4>1, FilterCleared
    <3>3. CASE StartsOver(l)
      <4>1. l.why \in TakenKinds /\ smoother' = <<l.x>>
        BY <3>3 DEF StartsOver, TakenKinds
      <4> QED BY <1>2, <2>1, <2>2, <4>1, FilterStartsOver
    <3>4. CASE GoesOn(l)
      <4>1. /\ l.why \in TakenKinds /\ smoother' = Append(smoother, l.x)
            /\ confirmed # Stabilizer!Unknown /\ ~Stabilizer!TooFast(confirmed, l)
        BY <3>4 DEF GoesOn
      <4>2. PICK q \in 1..n : LastTaken(q) /\ IsLook(confirmed, q)
        BY <2>2, <4>1 DEF StabilizerInv, ConfirmedInv
      <4>3. ASSUME NEW j \in 1..n, LastTaken(j)
            PROVE  ~Stabilizer!TooFast(looks[j], l)
        <5>1. j = q
          BY <2>2, <4>2, <4>3, OneLast
        <5>2. looks[j].x = confirmed.x /\ looks[j].at = confirmed.at
          BY <4>2, <5>1 DEF IsLook
        <5> QED BY <4>1, <5>2, PointsAlone
      <4> QED BY <1>1, <1>2, <2>1, <2>2, <4>1, <4>3, FilterGoesOn
    <3> QED BY <1>2, <3>1, <3>2, <3>3, <3>4
         DEF Looked, Quiet, Fades, HoldsBack, CountedKinds, TakenKinds
  <2> QED BY <2>5, <2>6, <2>7, <2>8, <2>9 DEF StabilizerInv
<1>3. ASSUME /\ smoother' = <<>> /\ pending' = Stabilizer!Unknown
             /\ confirmed' = Stabilizer!Unknown /\ lastInput' = -1 /\ looks' = <<>>
      PROVE  StabilizerInv'
  <2>1. Len(looks') = 0 /\ Len(smoother') = 0 /\ 1..Len(looks') = {}
    BY <1>3
  <2>2. FilterTypes'
    <3>1. looks' \in Seq(LookType) /\ smoother' \in Seq(Int) /\ lastInput' \in Int
      BY <1>3
    <3>2. Stabilizer!Unknown \in [x : Int, at : Int]
      BY DEF Stabilizer!Unknown
    <3>3. pending' \in [x : Int, at : Int] /\ confirmed' \in [x : Int, at : Int]
      BY <1>3, <3>2
    <3> QED BY <3>1, <3>3 DEF FilterTypes
  <2>3. ConfirmedInv' /\ InputInv' /\ PendingInv' /\ \A i \in 1..Len(looks') : JumpConfirmed(i)'
    BY <1>3, <2>1 DEF ConfirmedInv, InputInv, PendingInv, Stabilizer!Unknown
  <2>4. BeforeInv'
    BY <2>1 DEF BeforeInv, Stabilizer!PastTaken
  <2>5. Stabilizer!FilterIsOfOneStretch'
    <3>1. Mine' = {}
      BY <2>1 DEF Mine
    <3>2. Cardinality(Mine') = Len(smoother')
      BY <2>1, <3>1, FS_EmptySet
    <3> QED BY <3>1, <3>2
         DEF Stabilizer!FilterIsOfOneStretch, Mine, Stabilizer!Cardinality, Cardinality
  <2> QED BY <2>2, <2>3, <2>4, <2>5 DEF StabilizerInv
<1> QED BY <1>1, <1>2, <1>3, EachFrame

\* Nothing happens to the filter.
LEMMA StabilizerStutter ==
  ASSUME StabilizerInv, smoother' = smoother, pending' = pending, confirmed' = confirmed,
         lastInput' = lastInput, looks' = looks
  PROVE  StabilizerInv'
<1>1. /\ FilterTypes /\ BeforeInv /\ ConfirmedInv /\ InputInv /\ PendingInv
      /\ (\A i \in 1..Len(looks) : JumpConfirmed(i)) /\ Stabilizer!FilterIsOfOneStretch
  BY DEF StabilizerInv
<1>2. \A i : /\ Stabilizer!Taken(i)' <=> Stabilizer!Taken(i)
             /\ Stabilizer!Counted(i)' <=> Stabilizer!Counted(i)
  BY DEF Stabilizer!Taken, Stabilizer!Counted
<1>3. \A i : Stabilizer!PastTaken(i)' = Stabilizer!PastTaken(i)
  BY <1>2 DEF Stabilizer!PastTaken
<1>4. \A i : Stabilizer!Before(i)' = Stabilizer!Before(i)
  BY <1>3 DEF Stabilizer!Before
<1>5. \A i, j : /\ Stabilizer!Paused(i, j)' <=> Stabilizer!Paused(i, j)
                /\ Stabilizer!Neighbours(i, j)' <=> Stabilizer!Neighbours(i, j)
  BY <1>2 DEF Stabilizer!Paused, Stabilizer!Neighbours
<1>6. \A i, j : /\ HeldBy(i, j)' <=> HeldBy(i, j)
                /\ Outlived(i, j)' <=> Outlived(i, j)
  BY <1>5 DEF HeldBy, Outlived
<1>7. \A i : /\ LastTaken(i)' <=> LastTaken(i)
             /\ LastCounted(i)' <=> LastCounted(i)
  BY <1>2 DEF LastTaken, LastCounted
<1>8. FilterTypes'
  BY <1>1 DEF FilterTypes, LookType, LookKinds, CountedKinds
<1>9. BeforeInv'
  BY <1>1, <1>3 DEF BeforeInv
<1>10. ConfirmedInv'
  BY <1>1, <1>2, <1>5, <1>7 DEF ConfirmedInv, IsLook, Stabilizer!Unknown
<1>11. InputInv'
  BY <1>1, <1>7 DEF InputInv, Stabilizer!Unknown
<1>12. PendingInv'
  BY <1>1, <1>7 DEF PendingInv, IsLook, Stabilizer!Unknown
<1>13. ASSUME NEW i \in 1..Len(looks)
       PROVE  JumpConfirmed(i)'
  <2>1. JumpConfirmed(i)
    BY <1>1
  <2>2. PICK b : b = Stabilizer!Before(i)
    OBVIOUS
  <2>3. /\ Stabilizer!TooFast(looks[Stabilizer!Before(i)], looks[i])' <=>
             Stabilizer!TooFast(looks[b], looks[i])
        /\ Stabilizer!Paused(Stabilizer!Before(i), i)' <=> Stabilizer!Paused(b, i)
    BY <1>4, <1>5, <2>2
  <2> QED BY <1>2, <1>3, <1>6, <2>1, <2>2, <2>3 DEF JumpConfirmed
<1>14. Stabilizer!FilterIsOfOneStretch'
  <2>1. \A i : Stabilizer!TakenSince(i)' = Stabilizer!TakenSince(i)
    BY <1>2 DEF Stabilizer!TakenSince, Stabilizer!Cardinality, Cardinality
  <2>2. Mine' = Mine
    BY <1>2, <2>1 DEF Mine
  <2>3. /\ Cardinality(Mine') = Len(smoother')
        /\ \A i \in Mine' : looks'[i].x = smoother'[Len(smoother') + 1 - Stabilizer!TakenSince(i)']
        /\ \A i, j \in Mine' : Stabilizer!TakenSince(i)' = Stabilizer!TakenSince(j)' + 1 =>
                                ~Stabilizer!TooFast(looks[i], looks[j])'
    BY <1>1, <2>1, <2>2, FilterIs
  <2> QED BY <2>3 DEF Stabilizer!FilterIsOfOneStretch, Mine, Stabilizer!Cardinality, Cardinality
<1> QED BY <1>8, <1>9, <1>10, <1>11, <1>12, <1>13, <1>14 DEF StabilizerInv

-----------------------------------------------------------------------------
(* One run of a calibration.                                                *)

RunPhases == {"positioning", "training", "repair", "fit", "validation", "extra", "fit again",
              "verification", "ended"}
SampleType == [by : Nat, gave : Run!Amounts]
VerdictType == [by : Nat, verdict : Run!Verdicts]

CourseTypes ==
  /\ pc \in RunPhases /\ left \in Nat /\ repairs \in Nat /\ targets \in Nat
  /\ training \in Seq(SampleType) /\ judged \in Seq(VerdictType) /\ taken \in Seq(RunPhases)

\* Training samples are of captures of their own, and none of a repair is lost.
SampleInv ==
  /\ \A i \in 1..Len(training) :
       /\ training[i].by \in 1..Len(taken)
       /\ taken[training[i].by] \in {"training", "repair", "extra"}
       /\ Run!Short(training[i]) => taken[training[i].by] = "training"
  /\ \A i, j \in 1..Len(training) : training[i].by = training[j].by => i = j
  /\ pc # "ended" =>
       \A n \in Run!Of({"repair", "extra"}) : \E i \in 1..Len(training) : training[i].by = n

\* What the model has learned from, and what chose the repair.
LearnedInv ==
  /\ fitted \subseteq Run!Of({"training", "repair", "extra"})
  /\ chosen \subseteq Run!Of({"validation"})
  /\ pc \in {"validation", "verification"} => fitted = Run!Captures(training)

\* The samples that judge were taken last, all of them in the phase at hand.
JudgedInv ==
  /\ pc \in {"positioning", "training", "repair", "fit"} =>
       judged = <<>> /\ chosen = {} /\ Run!Of({"validation", "verification", "extra"}) = {}
  /\ pc = "validation" =>
       /\ chosen = {} /\ Run!Of({"verification", "extra"}) = {}
       /\ Run!Captures(judged) = Run!Of({"validation"})
  /\ pc \in {"extra", "fit again"} => judged = <<>> /\ Run!Of({"verification"}) = {}
  /\ pc \in {"fit again", "verification"} => Run!Of({"extra"}) # {}
  /\ pc = "verification" => Run!Captures(judged) = Run!Of({"verification"})
  /\ \A f \in fitted, i \in 1..Len(judged) : judged[i].by > f

\* How many captures are still to come, and how many the page was told.
Ahead ==
  IF pc = "positioning" THEN 1 + Points + Checks
  ELSE IF pc \in {"training", "repair", "fit"} THEN left + Checks
  ELSE IF pc \in {"extra", "fit again"} THEN left + Finals
  ELSE left

CountInv ==
  /\ pc # "ended" => Len(taken) + Ahead = targets
  /\ pc \in {"fit", "fit again"} => left = 0
  /\ pc \in {"training", "repair", "extra"} => left >= 1
  /\ pc = "repair" => left = Cardinality(Run!Missing)
  /\ pc \in {"positioning", "training"} => repairs = 0
  /\ repairs <= MaxRepair
  /\ pc \in {"repair", "extra"} => repairs + left <= MaxRepair
  /\ pc = "positioning" => training = <<>>
  /\ pc = "training" => Len(training) + left = Points
  /\ pc \notin {"positioning", "training", "ended"} =>
       Len(training) = Points + Cardinality(Run!Of({"extra"}))

\* A run that ended has kept nothing; a valid one was fair.
Fair ==
  /\ Cardinality(fitted) = Points + Cardinality(Run!Of({"extra"}))
  /\ Run!Of({"repair", "extra"}) \subseteq fitted
  /\ final \cap (fitted \cup chosen) = {}
  /\ \A f \in final, g \in fitted : f > g
  /\ final = Run!Of({IF Run!Of({"extra"}) = {} THEN "validation" ELSE "verification"})
  /\ Len(taken) = targets

OutcomeInv ==
  /\ pc # "ended" => result = "none"
  /\ pc = "ended" =>
       /\ training = <<>> /\ judged = <<>> /\ result \in {"valid", "failed"}
       /\ Len(taken) <= targets
       /\ result = "valid" => Fair

CourseInv ==
  CourseTypes /\ SampleInv /\ LearnedInv /\ JudgedInv /\ CountInv /\ OutcomeInv

\* A set of natural numbers has a least one.
LEMMA Least ==
  ASSUME NEW T \in SUBSET Nat, T # {}
  PROVE  \E m \in T : \A n \in T : m <= n
<1>1. IsWellFoundedOn(OpToRel(<, Nat), Nat)
  BY NatLessThanWellFounded
<1>2. PICK x \in T : \A y \in T : ~(<<y, x>> \in OpToRel(<, Nat))
  BY <1>1, WFMin
<1>3. \A y \in T : ~(y < x)
  BY <1>2 DEF OpToRel
<1> QED BY <1>3

LEMMA CourseInit ==
  ASSUME Run!Init
  PROVE  CourseInv
<1>1. /\ pc = "positioning" /\ left = 1 /\ training = <<>> /\ judged = <<>> /\ repairs = 0
      /\ targets = 1 + Points + Checks /\ taken = <<>>
      /\ fitted = {} /\ chosen = {} /\ result = "none" /\ final = {}
  BY DEF Run!Init
<1>2. Points \in Nat /\ Checks \in Nat /\ MaxRepair \in Nat
  BY RunAssumption DEF RunAssumption
<1>3. Len(taken) = 0 /\ Len(training) = 0 /\ Len(judged) = 0 /\ 1..0 = {}
  BY <1>1
<1>4. \A P : Run!Of(P) = {}
  BY <1>3 DEF Run!Of
<1>5. CourseTypes
  BY <1>1, <1>2 DEF CourseTypes, RunPhases
<1>6. SampleInv /\ LearnedInv /\ JudgedInv
  BY <1>1, <1>3, <1>4 DEF SampleInv, LearnedInv, JudgedInv
<1>7. CountInv
  BY <1>1, <1>2, <1>3 DEF CountInv, Ahead
<1>8. OutcomeInv
  BY <1>1 DEF OutcomeInv
<1> QED BY <1>5, <1>6, <1>7, <1>8 DEF CourseInv

\* The captures of some phases are finitely many.
LEMMA OfIs ==
  ASSUME taken \in Seq(RunPhases), NEW P
  PROVE  /\ Run!Of(P) \subseteq 1..Len(taken) /\ IsFiniteSet(Run!Of(P))
         /\ Cardinality(Run!Of(P)) \in Nat
<1>1. Run!Of(P) \in SUBSET (1..Len(taken))
  BY DEF Run!Of
<1>2. IsFiniteSet(1..Len(taken))
  BY FS_Interval
<1> QED BY <1>1, <1>2, FS_Subset, FS_CardinalityType

\* A capture that ends is one more of its phase.
LEMMA Capturing ==
  ASSUME taken \in Seq(RunPhases), pc \in RunPhases, taken' = Append(taken, pc),
         NEW n \in Nat, n = Len(taken)
  PROVE  /\ taken' \in Seq(RunPhases) /\ Len(taken') = n + 1 /\ taken'[n + 1] = pc
         /\ \A i \in 1..n : taken'[i] = taken[i]
         /\ \A P : Run!Of(P)' = IF pc \in P THEN Run!Of(P) \cup {n + 1} ELSE Run!Of(P)
         /\ \A P : Run!Of(P) \subseteq 1..n /\ n + 1 \notin Run!Of(P)
<1>1. /\ taken' \in Seq(RunPhases) /\ Len(taken') = n + 1 /\ taken'[n + 1] = pc
      /\ \A i \in 1..n : taken'[i] = taken[i]
  OBVIOUS
<1>2. /\ \A i \in 1..(n + 1) : i \in 1..n \/ i = n + 1
      /\ (\A i \in 1..n : i \in 1..(n + 1)) /\ n + 1 \in 1..(n + 1) /\ n + 1 \notin 1..n
  OBVIOUS
<1>3. ASSUME NEW P
      PROVE  Run!Of(P)' = IF pc \in P THEN Run!Of(P) \cup {n + 1} ELSE Run!Of(P)
  <2>1. Run!Of(P)' = {i \in 1..(n + 1) : taken'[i] \in P}
    BY <1>1 DEF Run!Of
  <2>2. Run!Of(P) = {i \in 1..n : taken[i] \in P}
    BY DEF Run!Of
  <2> QED BY <1>1, <1>2, <2>1, <2>2
<1>4. \A P : Run!Of(P) \subseteq 1..n /\ n + 1 \notin Run!Of(P)
  BY <1>2 DEF Run!Of
<1> QED BY <1>1, <1>3, <1>4

\* The captures of samples that are all of different captures.
LEMMA CapturesCount ==
  ASSUME NEW s, NEW S, s \in Seq(S), \A i, j \in 1..Len(s) : s[i].by = s[j].by => i = j
  PROVE  Cardinality(Run!Captures(s)) = Len(s)
<1> DEFINE f == [i \in 1..Len(s) |-> s[i].by]
<1>1. Len(s) \in Nat
  OBVIOUS
<1>2. f \in Bijection(1..Len(s), Run!Captures(s))
  BY DEF Bijection, Injection, Surjection, IsInjective, Run!Captures
<1>3. ExistsBijection(1..Len(s), Run!Captures(s))
  BY <1>2 DEF ExistsBijection
<1> QED BY <1>1, <1>3, FS_CountingElements

\* Facts about the numbers of a run.
LEMMA CourseNumbers ==
  ASSUME CourseTypes
  PROVE  /\ Len(training) \in Nat /\ Len(judged) \in Nat /\ Len(taken) \in Nat
         /\ Points \in Nat /\ Points >= 1 /\ Checks \in Nat /\ Finals \in Nat /\ MaxRepair \in Nat
         /\ Ahead \in Nat
         /\ pc = "positioning" => Ahead = 1 + Points + Checks
         /\ pc \in {"training", "repair", "fit"} => Ahead = left + Checks
         /\ pc \in {"extra", "fit again"} => Ahead = left + Finals
         /\ pc \in {"validation", "verification", "ended"} => Ahead = left
<1>1. Len(training) \in Nat /\ Len(judged) \in Nat /\ Len(taken) \in Nat
  BY DEF CourseTypes
<1>2. Points \in Nat /\ Points >= 1 /\ Checks \in Nat /\ Finals \in Nat /\ MaxRepair \in Nat
  BY RunAssumption DEF RunAssumption
<1>3. /\ pc = "positioning" => Ahead = 1 + Points + Checks
      /\ pc \in {"training", "repair", "fit"} => Ahead = left + Checks
      /\ pc \in {"extra", "fit again"} => Ahead = left + Finals
      /\ pc \in {"validation", "verification", "ended"} => Ahead = left
  BY DEF Ahead
<1>4. left \in Nat /\ pc \in RunPhases
  BY DEF CourseTypes
<1>5. /\ 1 + Points + Checks \in Nat /\ left + Checks \in Nat /\ left + Finals \in Nat
  BY <1>2, <1>4
<1>6. Ahead \in {1 + Points + Checks, left + Checks, left + Finals, left}
  BY DEF Ahead
<1>7. Ahead \in Nat
  BY <1>4, <1>5, <1>6
<1> QED BY <1>1, <1>2, <1>3, <1>7

\* A run that fails keeps nothing.
LEMMA CourseFails ==
  ASSUME CourseInv, pc # "ended", Run!Fail,
         targets' = targets, fitted' = fitted, chosen' = chosen, final' = final,
         \/ taken' = taken /\ repairs' = repairs
         \/ taken' = Append(taken, pc) /\ pc \in {"positioning", "training"} /\ repairs' = repairs
         \/ taken' = Append(taken, pc) /\ pc \in {"repair", "extra"} /\ repairs' = repairs + 1
  PROVE  CourseInv'
<1>1. /\ pc' = "ended" /\ result' = "failed" /\ left' = 0 /\ training' = <<>> /\ judged' = <<>>
  BY DEF Run!Fail
<1>2. CourseTypes /\ LearnedInv /\ CountInv
  BY DEF CourseInv
<1>3. taken \in Seq(RunPhases) /\ pc \in RunPhases
  BY <1>2 DEF CourseTypes
<1>4. PICK n \in Nat : n = Len(taken)
  BY <1>3
<1>5. taken' \in Seq(RunPhases) /\ (Len(taken') = n \/ (Len(taken') = n + 1 /\ Ahead >= 1))
  <2>1. CASE taken' = taken
    BY <1>3, <1>4, <2>1
  <2>2. CASE taken' = Append(taken, pc) /\ pc \in {"positioning", "training", "repair", "extra"}
    <3>1. taken' \in Seq(RunPhases) /\ Len(taken') = n + 1
      BY <1>3, <1>4, <2>2, Capturing
    <3>2. pc \in {"training", "repair", "extra"} => left \in Nat /\ left >= 1
      BY <1>2 DEF CountInv, CourseTypes
    <3>4. Points \in Nat /\ Checks \in Nat /\ Finals \in Nat
      BY <1>2, CourseNumbers
    <3>3. Ahead >= 1
      <4>1. CASE pc = "positioning"
        <5>1. Ahead = 1 + Points + Checks
          BY <1>2, <4>1, CourseNumbers
        <5> QED BY <3>4, <5>1
      <4>2. CASE pc \in {"training", "repair"}
        <5>1. Ahead = left + Checks /\ left \in Nat /\ left >= 1
          BY <1>2, <3>2, <4>2, CourseNumbers
        <5> QED BY <3>4, <5>1
      <4>3. CASE pc = "extra"
        <5>1. Ahead = left + Finals /\ left \in Nat /\ left >= 1
          BY <1>2, <3>2, <4>3, CourseNumbers
        <5> QED BY <3>4, <5>1
      <4> QED BY <2>2, <4>1, <4>2, <4>3
    <3> QED BY <3>1, <3>3
  <2> QED BY <2>1, <2>2
<1>6. \A P : Run!Of(P) \subseteq Run!Of(P)'
  <2>1. CASE taken' = taken
    BY <2>1 DEF Run!Of
  <2>2. CASE taken' = Append(taken, pc)
    BY <1>3, <1>4, <2>2, Capturing
  <2> QED BY <2>1, <2>2
<1>7. Len(training') = 0 /\ Len(judged') = 0 /\ 1..0 = {}
  BY <1>1
<1>8. n + Ahead = targets
  BY <1>2, <1>4 DEF CountInv
<1>17. Ahead \in Nat /\ MaxRepair \in Nat
  BY <1>2, CourseNumbers
<1>18. targets \in Nat /\ repairs \in Nat /\ left \in Nat
  BY <1>2 DEF CourseTypes
<1>9. Len(taken') <= targets'
  BY <1>4, <1>5, <1>8, <1>17, <1>18
<1>10. repairs' \in Nat /\ repairs' <= MaxRepair
  <2>1. CASE repairs' = repairs
    BY <1>2, <1>18, <2>1 DEF CountInv
  <2>2. CASE repairs' = repairs + 1 /\ pc \in {"repair", "extra"}
    <3>1. repairs + left <= MaxRepair /\ left >= 1
      BY <1>2, <2>2 DEF CountInv
    <3> QED BY <1>17, <1>18, <2>2, <3>1
  <2> QED BY <2>1, <2>2
<1>11. CourseTypes'
  <2>1. pc' \in RunPhases /\ left' \in Nat
    BY <1>1 DEF RunPhases
  <2>2. training' \in Seq(SampleType) /\ judged' \in Seq(VerdictType)
    BY <1>1
  <2>3. targets' \in Nat
    BY <1>2 DEF CourseTypes
  <2> QED BY <1>5, <1>10, <2>1, <2>2, <2>3 DEF CourseTypes
<1>12. SampleInv'
  BY <1>1, <1>7 DEF SampleInv
<1>13. LearnedInv'
  BY <1>1, <1>2, <1>6 DEF LearnedInv
<1>14. JudgedInv'
  BY <1>1, <1>7 DEF JudgedInv
<1>15. CountInv'
  BY <1>1, <1>10, CourseNumbers, <1>2 DEF CountInv
<1>16. OutcomeInv'
  BY <1>1, <1>9 DEF OutcomeInv
<1> QED BY <1>11, <1>12, <1>13, <1>14, <1>15, <1>16 DEF CourseInv

\* The face is in place.
LEMMA CoursePositioned ==
  ASSUME CourseInv, NEW gave \in Run!Amounts, Run!Positioning(gave)
  PROVE  CourseInv'
<1>1. /\ pc = "positioning" /\ taken' = Append(taken, pc)
      /\ repairs' = repairs /\ targets' = targets
      /\ fitted' = fitted /\ chosen' = chosen /\ final' = final
      /\ IF gave = "enough"
         THEN pc' = "training" /\ left' = Points /\ UNCHANGED <<training, judged, result>>
         ELSE Run!Fail
  BY DEF Run!Positioning, Run!Captured
<1>2. CASE gave # "enough"
  <2>1. Run!Fail /\ pc # "ended"
    BY <1>1, <1>2
  <2> QED BY <1>1, <2>1, CourseFails
<1>3. CASE gave = "enough"
  <2>1. /\ pc' = "training" /\ left' = Points
        /\ training' = training /\ judged' = judged /\ result' = result
    BY <1>1, <1>3
  <2>2. CourseTypes /\ SampleInv /\ LearnedInv /\ JudgedInv /\ CountInv /\ OutcomeInv
    BY DEF CourseInv
  <2>3. taken \in Seq(RunPhases) /\ pc \in RunPhases
    BY <2>2 DEF CourseTypes
  <2>4. PICK n \in Nat : n = Len(taken)
    BY <2>3
  <2>5. /\ taken' \in Seq(RunPhases) /\ Len(taken') = n + 1
        /\ \A P : Run!Of(P)' = IF pc \in P THEN Run!Of(P) \cup {n + 1} ELSE Run!Of(P)
    BY <1>1, <2>3, <2>4, Capturing
  <2>6. \A P : "positioning" \notin P => Run!Of(P)' = Run!Of(P)
    BY <1>1, <2>5
  <2>7. training = <<>> /\ training' = <<>> /\ Len(training') = 0 /\ 1..0 = {}
    BY <1>1, <2>1, <2>2 DEF CountInv
  <2>8. CourseTypes'
    <3>1. pc' \in RunPhases /\ left' \in Nat
      BY <2>1, <2>2, CourseNumbers DEF RunPhases
    <3> QED BY <1>1, <2>1, <2>2, <2>5, <3>1 DEF CourseTypes
  <2>9. Run!Of({"repair", "extra"})' = {}
    <3>1. Run!Of({"repair", "extra"}) = {}
      <4>1. Len(training) = 0 /\ pc # "ended"
        BY <1>1, <2>7
      <4> QED BY <2>2, <2>7, <4>1 DEF SampleInv
    <3> QED BY <2>6, <3>1
  <2>10. SampleInv'
    BY <2>7, <2>9 DEF SampleInv
  <2>11. LearnedInv'
    BY <1>1, <2>1, <2>2, <2>6 DEF LearnedInv
  <2>12. JudgedInv'
    <3>1. Run!Of({"validation", "verification", "extra"})' = {} /\ judged' = <<>> /\ chosen' = {}
      BY <1>1, <2>1, <2>2, <2>6 DEF JudgedInv
    <3>2. Len(judged') = 0
      BY <3>1
    <3> QED BY <2>1, <2>7, <3>1, <3>2 DEF JudgedInv
  <2>13. CountInv'
    <3>1. n + (1 + Points + Checks) = targets
      BY <1>1, <2>2, <2>4 DEF CountInv, Ahead
    <3>6. Points \in Nat /\ Points >= 1 /\ Checks \in Nat
      BY <2>2, CourseNumbers
    <3>2. (n + 1) + (Points + Checks) = targets /\ Points >= 1
      BY <3>1, <3>6
    <3>3. Ahead' = Points + Checks
      BY <2>1 DEF Ahead
    <3>4. repairs' = 0 /\ 0 <= MaxRepair
      BY <1>1, <2>2, CourseNumbers DEF CountInv
    <3>5. 0 + Points = Points
      BY <3>6
    <3> QED BY <1>1, <2>1, <2>5, <2>7, <3>2, <3>3, <3>4, <3>5 DEF CountInv
  <2>14. OutcomeInv'
    BY <1>1, <2>1, <2>2 DEF OutcomeInv
  <2> QED BY <2>8, <2>10, <2>11, <2>12, <2>13, <2>14 DEF CourseInv
<1> QED BY <1>2, <1>3

\* A sample more.
LEMMA SampleAdded ==
  ASSUME CourseTypes, SampleInv, taken' = Append(taken, pc), NEW n \in Nat, n = Len(taken),
         NEW gave \in Run!Amounts,
         training' = Append(training, [by |-> n + 1, gave |-> gave]),
         pc \in {"training", "extra"}, pc = "training" \/ gave = "enough"
  PROVE  /\ SampleInv' /\ training' \in Seq(SampleType) /\ Len(training') = Len(training) + 1
         /\ Run!Missing' = {i \in 1..Len(training') : Run!Short(training'[i])}
         /\ IsFiniteSet(Run!Missing') /\ Cardinality(Run!Missing') \in Nat
<1>1. taken \in Seq(RunPhases) /\ pc \in RunPhases /\ training \in Seq(SampleType)
  BY DEF CourseTypes
<1>2. /\ Len(taken') = n + 1 /\ taken'[n + 1] = pc
      /\ \A i \in 1..n : taken'[i] = taken[i]
      /\ \A P : Run!Of(P)' = IF pc \in P THEN Run!Of(P) \cup {n + 1} ELSE Run!Of(P)
  BY <1>1, Capturing
<1>3. PICK m \in Nat : m = Len(training)
  BY <1>1
<1>4. PICK s : s = [by |-> n + 1, gave |-> gave]
  OBVIOUS
<1>5. s \in SampleType /\ s.by = n + 1 /\ s.gave = gave
  BY <1>4 DEF SampleType
<1>6. /\ training' = Append(training, s) /\ training' \in Seq(SampleType) /\ Len(training') = m + 1
      /\ training'[m + 1] = s /\ \A i \in 1..m : training'[i] = training[i]
  BY <1>1, <1>3, <1>4, <1>5
<1>7. /\ \A i \in 1..(m + 1) : i \in 1..m \/ i = m + 1
      /\ (\A i \in 1..m : i \in 1..(m + 1)) /\ m + 1 \in 1..(m + 1)
      /\ \A i \in 1..n : i \in 1..(n + 1) /\ i # n + 1
      /\ n + 1 \in 1..(n + 1)
  OBVIOUS
<1>8. /\ \A i \in 1..m : /\ training[i].by \in 1..n
                         /\ taken[training[i].by] \in {"training", "repair", "extra"}
                         /\ Run!Short(training[i]) => taken[training[i].by] = "training"
      /\ \A i, j \in 1..m : training[i].by = training[j].by => i = j
  BY <1>3 DEF SampleInv
<1>9. ASSUME NEW i \in 1..(m + 1)
      PROVE  /\ training'[i].by \in 1..(n + 1)
             /\ taken'[training'[i].by] \in {"training", "repair", "extra"}
             /\ Run!Short(training'[i]) => taken'[training'[i].by] = "training"
  <2>1. CASE i \in 1..m
    BY <1>2, <1>6, <1>7, <1>8, <2>1
  <2>2. CASE i = m + 1
    BY <1>2, <1>5, <1>6, <1>7, <2>2 DEF Run!Short
  <2> QED BY <1>7, <2>1, <2>2
<1>10. \A i, j \in 1..(m + 1) : training'[i].by = training'[j].by => i = j
  BY <1>5, <1>6, <1>7, <1>8
<1>11. \A q \in Run!Of({"repair", "extra"})' : \E i \in 1..(m + 1) : training'[i].by = q
  <2>1. \A q \in Run!Of({"repair", "extra"}) : \E i \in 1..m : training[i].by = q
    BY <1>3 DEF SampleInv
  <2>2. training'[m + 1].by = n + 1
    BY <1>5, <1>6
  <2> QED BY <1>2, <1>6, <1>7, <2>1, <2>2
<1>12. /\ \A i : Run!Short(training[i])' <=> Run!Short(training'[i])
  BY DEF Run!Short
<1>13. SampleInv'
  BY <1>2, <1>6, <1>9, <1>10, <1>11, <1>12 DEF SampleInv
<1>14. Run!Missing' = {i \in 1..Len(training') : Run!Short(training'[i])}
  BY <1>12 DEF Run!Missing
<1>15. IsFiniteSet(Run!Missing') /\ Cardinality(Run!Missing') \in Nat
  <2>1. IsFiniteSet(1..(m + 1))
    BY FS_Interval
  <2>2. Run!Missing' \in SUBSET (1..(m + 1))
    BY <1>6, <1>14
  <2>3. IsFiniteSet(Run!Missing')
    BY <2>1, <2>2, FS_Subset
  <2> QED BY <2>3, FS_CardinalityType
<1> QED BY <1>3, <1>6, <1>13, <1>14, <1>15

\* A training point is captured.
LEMMA CourseTrained ==
  ASSUME CourseInv, NEW gave \in Run!Amounts, Run!Training(gave)
  PROVE  CourseInv'
<1>1. CourseTypes /\ SampleInv /\ LearnedInv /\ JudgedInv /\ CountInv /\ OutcomeInv
  BY DEF CourseInv
<1>2. taken \in Seq(RunPhases) /\ pc \in RunPhases /\ training \in Seq(SampleType)
      /\ left \in Nat /\ targets \in Nat /\ repairs \in Nat
  BY <1>1 DEF CourseTypes
<1>3. PICK n \in Nat : n = Len(taken)
  BY <1>2
<1>4. PICK t : t = Append(training, [by |-> n + 1, gave |-> gave])
  OBVIOUS
<1>5. PICK missing : missing = Cardinality({i \in 1..Len(t) : Run!Short(t[i])})
  OBVIOUS
<1>6. /\ pc = "training" /\ taken' = Append(taken, pc)
      /\ repairs' = repairs /\ fitted' = fitted /\ chosen' = chosen /\ final' = final
  BY DEF Run!Training, Run!Captured
<1>11. t = Append(training, [by |-> Run!This, gave |-> gave])
  BY <1>3, <1>4 DEF Run!This
<1>12. /\ Run!Hopeless(t) => Run!Fail /\ targets' = targets
       /\ ~Run!Hopeless(t) => training' = t /\ judged' = judged /\ result' = result
       /\ ~Run!Hopeless(t) /\ left > 1 => left' = left - 1 /\ pc' = pc /\ targets' = targets
  BY <1>11 DEF Run!Training
<1>13. ~Run!Hopeless(t) /\ ~(left > 1) =>
         /\ pc' = (IF missing = 0 THEN "fit" ELSE "repair")
         /\ left' = missing /\ targets' = targets + missing
  <2>1. missing = Run!Cardinality({i \in 1..Len(t) : Run!Short(t[i])})
    BY <1>5 DEF Run!Cardinality, Cardinality
  <2> QED BY <1>11, <2>1 DEF Run!Training
<1>7. CASE Run!Hopeless(t)
  <2>1. Run!Fail /\ targets' = targets /\ pc # "ended"
    BY <1>6, <1>7, <1>12, <1>13
  <2> QED BY <1>6, <2>1, CourseFails
<1>8. CASE ~Run!Hopeless(t)
  <2>1. /\ training' = Append(training, [by |-> n + 1, gave |-> gave])
        /\ judged' = judged /\ result' = result /\ pc # "ended"
    BY <1>4, <1>6, <1>8, <1>12, <1>13
  <2>2. /\ SampleInv' /\ training' \in Seq(SampleType) /\ Len(training') = Len(training) + 1
        /\ Run!Missing' = {i \in 1..Len(training') : Run!Short(training'[i])}
        /\ IsFiniteSet(Run!Missing') /\ Cardinality(Run!Missing') \in Nat
    BY <1>1, <1>3, <1>6, <2>1, SampleAdded
  <2>3. missing = Cardinality(Run!Missing') /\ missing \in Nat
    BY <1>4, <1>5, <2>1, <2>2
  <2>4. missing <= MaxRepair
    <3>1. ~(missing > MaxRepair)
      BY <1>5, <1>8 DEF Run!Hopeless, Run!Cardinality, Cardinality
    <3>2. MaxRepair \in Nat
      BY <1>1, CourseNumbers
    <3> QED BY <2>3, <3>1, <3>2
  <2>5. /\ taken' \in Seq(RunPhases) /\ Len(taken') = n + 1
        /\ \A P : Run!Of(P)' = IF pc \in P THEN Run!Of(P) \cup {n + 1} ELSE Run!Of(P)
    BY <1>2, <1>3, <1>6, Capturing
  <2>6. \A P : "training" \notin P => Run!Of(P)' = Run!Of(P)
    BY <1>6, <2>5
  <2>7. pc' \in {"training", "fit", "repair"}
    BY <1>6, <1>8, <1>12, <1>13
  <2>8. LearnedInv'
    <3>1. \A P : Run!Of(P) \subseteq Run!Of(P)'
      BY <2>5
    <3> QED BY <1>1, <1>6, <2>7, <3>1 DEF LearnedInv
  <2>9. JudgedInv'
    <3>1. judged' = <<>> /\ chosen' = {} /\ Run!Of({"validation", "verification", "extra"})' = {}
      BY <1>1, <1>6, <2>1, <2>6 DEF JudgedInv
    <3>2. Len(judged') = 0 /\ 1..0 = {}
      BY <3>1
    <3> QED BY <2>7, <3>1, <3>2 DEF JudgedInv
  <2>10. OutcomeInv'
    BY <1>1, <1>6, <2>1, <2>7 DEF OutcomeInv
  <2>11. /\ n + (left + Checks) = targets /\ left >= 1 /\ repairs = 0 /\ repairs <= MaxRepair
         /\ Len(training) + left = Points
    <3>1. Ahead = left + Checks
      BY <1>1, <1>6, CourseNumbers
    <3> QED BY <1>1, <1>3, <1>6, <3>1 DEF CountInv
  <2>12. Checks \in Nat /\ Points \in Nat /\ Len(training) \in Nat
    BY <1>1, CourseNumbers
  <2>13. Cardinality(Run!Of({"extra"})') = 0
    <3>1. Run!Of({"extra"})' = {}
      <4>1. Run!Of({"extra"}) = {}
        BY <1>1, <1>6 DEF JudgedInv, Run!Of
      <4> QED BY <2>6, <4>1
    <3> QED BY <3>1, FS_EmptySet
  <2>14. CASE left > 1
    <3>1. left' = left - 1 /\ pc' = "training" /\ targets' = targets
      BY <1>6, <1>8, <1>12, <1>13, <2>14
    <3>2. left' \in Nat /\ left' >= 1
      BY <1>2, <2>14, <3>1
    <3>3. Ahead' = left' + Checks
      BY <3>1 DEF Ahead
    <3>4. Len(taken') + Ahead' = targets'
      <4>1. Len(taken') = n + 1 /\ left \in Nat /\ targets \in Nat
        BY <1>2, <2>5
      <4>2. Ahead' = (left - 1) + Checks
        BY <3>1, <3>3
      <4> QED BY <2>11, <2>12, <3>1, <4>1, <4>2
    <3>5. Len(training') + left' = Points
      <4>1. Len(training') = Len(training) + 1 /\ left \in Nat
        BY <1>2, <2>2
      <4>2. PICK m \in Nat : m = Len(training)
        BY <2>12
      <4>3. Len(training') = m + 1 /\ m + left = Points
        BY <2>11, <4>1, <4>2
      <4> QED BY <2>12, <3>1, <4>1, <4>3
    <3>6. CourseTypes'
      BY <1>1, <1>6, <2>1, <2>2, <2>5, <3>1, <3>2 DEF CourseTypes, RunPhases
    <3>7. CountInv'
      BY <1>6, <2>11, <3>1, <3>2, <3>4, <3>5 DEF CountInv
    <3> QED BY <2>2, <2>8, <2>9, <2>10, <3>6, <3>7 DEF CourseInv
  <2>15. CASE ~(left > 1)
    <3>1. /\ pc' = (IF missing = 0 THEN "fit" ELSE "repair")
          /\ left' = missing /\ targets' = targets + missing /\ left = 1
      BY <1>2, <1>6, <1>8, <1>12, <1>13, <2>11, <2>15
    <3>2. Ahead' = missing + Checks
      BY <3>1 DEF Ahead
    <3>3. Len(taken') + Ahead' = targets'
      <4>1. Len(taken') = n + 1 /\ targets \in Nat
        BY <1>2, <2>5
      <4> QED BY <2>3, <2>11, <2>12, <3>1, <3>2, <4>1
    <3>4. Len(training') = Points + Cardinality(Run!Of({"extra"})')
      BY <1>2, <2>2, <2>11, <2>12, <2>13, <3>1
    <3>5. CourseTypes'
      <4>1. targets' \in Nat /\ left' \in Nat
        BY <1>2, <2>3, <3>1
      <4> QED BY <1>1, <1>6, <2>1, <2>2, <2>5, <2>7, <4>1 DEF CourseTypes, RunPhases
    <3>6. /\ pc' = "fit" => left' = 0
          /\ pc' = "repair" => left' >= 1 /\ left' = Cardinality(Run!Missing')
          /\ pc' = "repair" => repairs' + left' <= MaxRepair
      BY <1>6, <2>3, <2>4, <2>11, <3>1
    <3>7. CountInv'
      BY <1>6, <2>7, <2>11, <3>1, <3>3, <3>4, <3>6 DEF CountInv, Run!Cardinality, Cardinality
    <3> QED BY <2>2, <2>8, <2>9, <2>10, <3>5, <3>7 DEF CourseInv
  <2> QED BY <2>14, <2>15
<1> QED BY <1>7, <1>8

\* An extra point is captured.
LEMMA CourseExtra ==
  ASSUME CourseInv, NEW gave \in Run!Amounts, Run!Extra(gave)
  PROVE  CourseInv'
<1>1. CourseTypes /\ SampleInv /\ LearnedInv /\ JudgedInv /\ CountInv /\ OutcomeInv
  BY DEF CourseInv
<1>2. taken \in Seq(RunPhases) /\ pc \in RunPhases /\ training \in Seq(SampleType)
      /\ left \in Nat /\ targets \in Nat /\ repairs \in Nat
  BY <1>1 DEF CourseTypes
<1>3. PICK n \in Nat : n = Len(taken)
  BY <1>2
<1>4. Run!This = n + 1
  BY <1>3 DEF Run!This
<1>5. /\ pc = "extra" /\ taken' = Append(taken, pc) /\ repairs' = repairs + 1
      /\ targets' = targets /\ fitted' = fitted /\ chosen' = chosen /\ final' = final
      /\ gave # "enough" => Run!Fail
  BY DEF Run!Extra, Run!Captured
<1>6. CASE gave # "enough"
  <2>1. Run!Fail /\ pc # "ended"
    BY <1>5, <1>6
  <2> QED BY <1>5, <2>1, CourseFails
<1>7. CASE gave = "enough"
  <2>1. /\ training' = Append(training, [by |-> n + 1, gave |-> gave])
        /\ left' = left - 1 /\ pc' = (IF left > 1 THEN "extra" ELSE "fit again")
        /\ judged' = judged /\ result' = result
    BY <1>4, <1>7 DEF Run!Extra
  <2>2. /\ SampleInv' /\ training' \in Seq(SampleType) /\ Len(training') = Len(training) + 1
    BY <1>1, <1>3, <1>5, <1>7, <2>1, SampleAdded
  <2>3. /\ taken' \in Seq(RunPhases) /\ Len(taken') = n + 1
        /\ \A P : Run!Of(P)' = IF pc \in P THEN Run!Of(P) \cup {n + 1} ELSE Run!Of(P)
        /\ \A P : n + 1 \notin Run!Of(P)
    BY <1>2, <1>3, <1>5, Capturing
  <2>4. /\ \A P : "extra" \notin P => Run!Of(P)' = Run!Of(P)
        /\ \A P : Run!Of(P) \subseteq Run!Of(P)'
        /\ Run!Of({"extra"})' = Run!Of({"extra"}) \cup {n + 1}
    BY <1>5, <2>3
  <2>5. /\ n + (left + Finals) = targets /\ left >= 1 /\ repairs + left <= MaxRepair
        /\ Len(training) = Points + Cardinality(Run!Of({"extra"}))
    <3>1. Ahead = left + Finals
      BY <1>1, <1>5, CourseNumbers
    <3> QED BY <1>1, <1>3, <1>5, <3>1 DEF CountInv
  <2>6. Finals \in Nat /\ Points \in Nat /\ MaxRepair \in Nat
    BY <1>1, CourseNumbers
  <2>7. /\ left' \in Nat /\ repairs' \in Nat /\ repairs' <= MaxRepair
        /\ repairs' + left' = repairs + left
        /\ left > 1 => left' >= 1 /\ pc' = "extra"
        /\ ~(left > 1) => left' = 0 /\ pc' = "fit again"
    <3>1. left \in Nat /\ repairs \in Nat /\ MaxRepair \in Nat /\ left >= 1 /\ repairs + left <= MaxRepair
      BY <1>2, <2>5, <2>6
    <3>2. left' = left - 1 /\ repairs' = repairs + 1
      BY <1>5, <2>1
    <3>3. /\ left' \in Nat /\ repairs' \in Nat /\ repairs' <= MaxRepair
          /\ repairs' + left' = repairs + left
          /\ left > 1 => left' >= 1
          /\ ~(left > 1) => left' = 0
      BY <3>1, <3>2
    <3> QED BY <3>3, <2>1
  <2>8. pc' \in {"extra", "fit again"}
    BY <2>7
  <2>9. Len(taken') + Ahead' = targets'
    <3>1. Ahead' = left' + Finals
      BY <2>8 DEF Ahead
    <3>2. Ahead' = (left - 1) + Finals
      BY <2>1, <3>1
    <3>3. Len(taken') = n + 1
      BY <2>3
    <3> QED BY <1>2, <1>5, <2>5, <2>6, <3>2, <3>3
  <2>10. Len(training') = Points + Cardinality(Run!Of({"extra"})')
    <3>1. IsFiniteSet(Run!Of({"extra"})) /\ Cardinality(Run!Of({"extra"})) \in Nat
      BY <1>2, OfIs
    <3>2. n + 1 \notin Run!Of({"extra"})
      BY <2>3
    <3>3. Cardinality(Run!Of({"extra"}) \cup {n + 1}) = Cardinality(Run!Of({"extra"})) + 1
      BY <3>1, <3>2, FS_AddElement
    <3>4. PICK c \in Nat : c = Cardinality(Run!Of({"extra"}))
      BY <3>1
    <3>5. PICK m \in Nat : m = Len(training)
      BY <1>2
    <3>6. Cardinality(Run!Of({"extra"})') = c + 1
      BY <2>4, <3>3, <3>4
    <3>7. Len(training') = m + 1 /\ m = Points + c
      BY <2>2, <2>5, <3>4, <3>5
    <3> QED BY <2>6, <3>6, <3>7
  <2>11. CourseTypes'
    BY <1>1, <1>5, <2>1, <2>2, <2>3, <2>7, <2>8 DEF CourseTypes, RunPhases
  <2>12. LearnedInv'
    BY <1>1, <1>5, <2>4, <2>8 DEF LearnedInv
  <2>13. JudgedInv'
    <3>1. judged' = <<>> /\ Run!Of({"verification"})' = {} /\ Run!Of({"extra"})' # {}
      BY <1>1, <1>5, <2>1, <2>4 DEF JudgedInv
    <3>2. Len(judged') = 0 /\ 1..0 = {}
      BY <3>1
    <3> QED BY <2>8, <3>1, <3>2 DEF JudgedInv
  <2>14. OutcomeInv'
    BY <1>1, <1>5, <2>1, <2>8 DEF OutcomeInv
  <2>15. CountInv'
    <3>1. /\ pc' = "extra" => left' >= 1 /\ repairs' + left' <= MaxRepair
          /\ pc' = "fit again" => left' = 0
      BY <2>5, <2>7
    <3> QED BY <2>7, <2>8, <2>9, <2>10, <3>1 DEF CountInv
  <2> QED BY <2>2, <2>11, <2>12, <2>13, <2>14, <2>15 DEF CourseInv
<1> QED BY <1>6, <1>7

\* A missing point is captured again.
LEMMA CourseRepaired ==
  ASSUME CourseInv, NEW gave \in Run!Amounts, Run!Repair(gave)
  PROVE  CourseInv'
<1>1. CourseTypes /\ SampleInv /\ LearnedInv /\ JudgedInv /\ CountInv /\ OutcomeInv
  BY DEF CourseInv
<1>2. taken \in Seq(RunPhases) /\ pc \in RunPhases /\ training \in Seq(SampleType)
      /\ left \in Nat /\ targets \in Nat /\ repairs \in Nat
  BY <1>1 DEF CourseTypes
<1>3. PICK n \in Nat : n = Len(taken)
  BY <1>2
<1>4. Run!This = n + 1
  BY <1>3 DEF Run!This
<1>5. /\ pc = "repair" /\ taken' = Append(taken, pc) /\ repairs' = repairs + 1
      /\ targets' = targets /\ fitted' = fitted /\ chosen' = chosen /\ final' = final
      /\ gave # "enough" => Run!Fail
  BY DEF Run!Repair, Run!Captured
<1>6. CASE gave # "enough"
  <2>1. Run!Fail /\ pc # "ended"
    BY <1>5, <1>6
  <2> QED BY <1>5, <2>1, CourseFails
<1>7. CASE gave = "enough"
  <2>1. PICK i : i = CHOOSE k \in Run!Missing : \A j \in Run!Missing : k <= j
    OBVIOUS
  <2>2. PICK s : s = [by |-> n + 1, gave |-> gave]
    OBVIOUS
  <2>3. /\ training' = [training EXCEPT ![i] = s]
        /\ left' = left - 1 /\ pc' = (IF left > 1 THEN "repair" ELSE "fit")
        /\ judged' = judged /\ result' = result
    BY <1>4, <1>7, <2>1, <2>2 DEF Run!Repair
  <2>4. PICK m \in Nat : m = Len(training)
    BY <1>2
  <2>5. /\ n + (left + Checks) = targets /\ left >= 1 /\ repairs + left <= MaxRepair
        /\ left = Cardinality(Run!Missing)
        /\ Len(training) = Points + Cardinality(Run!Of({"extra"}))
    <3>1. Ahead = left + Checks
      BY <1>1, <1>5, CourseNumbers
    <3> QED BY <1>1, <1>3, <1>5, <3>1 DEF CountInv, Run!Cardinality, Cardinality
  <2>6. Run!Missing \in SUBSET (1..m) /\ IsFiniteSet(Run!Missing)
    <3>1. Run!Missing \in SUBSET (1..m)
      BY <2>4 DEF Run!Missing
    <3>2. IsFiniteSet(1..m)
      BY FS_Interval
    <3> QED BY <3>1, <3>2, FS_Subset
  <2>7. i \in Run!Missing
    <3>1. Run!Missing # {}
      <4>1. CASE Run!Missing = {}
        <5>1. Cardinality(Run!Missing) = 0
          BY <4>1, FS_EmptySet
        <5> QED BY <2>5, <5>1
      <4> QED BY <4>1
    <3>2. Run!Missing \in SUBSET Nat
      <4>1. \A k \in 1..m : k \in Nat
        OBVIOUS
      <4> QED BY <2>6, <4>1
    <3>3. \E k \in Run!Missing : \A j \in Run!Missing : k <= j
      BY <3>1, <3>2, Least
    <3> QED BY <2>1, <3>3
  <2>8. i \in 1..m /\ Run!Short(training[i])
    BY <2>4, <2>7 DEF Run!Missing
  <2>9. s \in SampleType /\ s.by = n + 1 /\ s.gave = "enough"
    BY <1>7, <2>2 DEF SampleType
  <2>10. /\ training' \in Seq(SampleType) /\ Len(training') = m
         /\ training'[i] = s /\ \A k \in 1..m : k # i => training'[k] = training[k]
    BY <1>2, <2>3, <2>4, <2>8, <2>9
  <2>11. /\ taken' \in Seq(RunPhases) /\ Len(taken') = n + 1 /\ taken'[n + 1] = pc
         /\ \A k \in 1..n : taken'[k] = taken[k]
         /\ \A P : Run!Of(P)' = IF pc \in P THEN Run!Of(P) \cup {n + 1} ELSE Run!Of(P)
    BY <1>2, <1>3, <1>5, Capturing
  <2>12. /\ \A P : "repair" \notin P => Run!Of(P)' = Run!Of(P)
         /\ \A P : Run!Of(P) \subseteq Run!Of(P)'
         /\ \A P : "repair" \in P => Run!Of(P)' = Run!Of(P) \cup {n + 1}
    BY <1>5, <2>11
  <2>13. /\ (\A k \in 1..n : k \in 1..(n + 1) /\ k # n + 1) /\ n + 1 \in 1..(n + 1)
    OBVIOUS
  <2>14. /\ \A k \in 1..m : /\ training[k].by \in 1..n
                            /\ taken[training[k].by] \in {"training", "repair", "extra"}
                            /\ Run!Short(training[k]) => taken[training[k].by] = "training"
         /\ \A k, j \in 1..m : training[k].by = training[j].by => k = j
    BY <1>1, <1>3, <2>4 DEF SampleInv
  <2>15. \A q : Run!Short(q) <=> q.gave # "enough"
    BY DEF Run!Short
  <2>16. ASSUME NEW k \in 1..m
         PROVE  /\ training'[k].by \in 1..(n + 1)
                /\ taken'[training'[k].by] \in {"training", "repair", "extra"}
                /\ Run!Short(training'[k]) => taken'[training'[k].by] = "training"
    <3>1. CASE k = i
      BY <1>5, <2>9, <2>10, <2>11, <2>13, <2>15, <3>1
    <3>2. CASE k # i
      BY <2>10, <2>11, <2>13, <2>14, <3>2
    <3> QED BY <3>1, <3>2
  <2>17. \A k, j \in 1..m : training'[k].by = training'[j].by => k = j
    BY <2>9, <2>10, <2>13, <2>14
  <2>18. \A q \in Run!Of({"repair", "extra"})' : \E k \in 1..m : training'[k].by = q
    <3>1. ASSUME NEW q \in Run!Of({"repair", "extra"})
          PROVE  \E k \in 1..m : training'[k].by = q
      <4>1. PICK k \in 1..m : training[k].by = q
        BY <1>1, <1>5, <2>4 DEF SampleInv
      <4>2. taken[q] \in {"repair", "extra"}
        BY DEF Run!Of
      <4>3. k # i
        BY <2>8, <2>14, <4>1, <4>2
      <4> QED BY <2>10, <4>1, <4>3
    <3>2. training'[i].by = n + 1
      BY <2>9, <2>10
    <3>3. Run!Of({"repair", "extra"})' = Run!Of({"repair", "extra"}) \cup {n + 1}
      BY <2>12
    <3> QED BY <2>8, <3>1, <3>2, <3>3
  <2>19. SampleInv'
    <3>1. \A k : Run!Short(training[k])' <=> Run!Short(training'[k])
      BY DEF Run!Short
    <3> QED BY <2>10, <2>11, <2>16, <2>17, <2>18, <3>1 DEF SampleInv
  <2>20. Cardinality(Run!Missing') = left - 1
    <3>1. Run!Missing' = {k \in 1..m : training'[k].gave # "enough"}
      BY <2>10 DEF Run!Missing, Run!Short
    <3>2. Run!Missing = {k \in 1..m : training[k].gave # "enough"}
      BY <2>4 DEF Run!Missing, Run!Short
    <3>3. Run!Missing' = Run!Missing \ {i}
      BY <2>9, <2>10, <3>1, <3>2
    <3> QED BY <2>5, <2>6, <2>7, <3>3, FS_RemoveElement
  <2>21. Checks \in Nat /\ Points \in Nat /\ MaxRepair \in Nat
    BY <1>1, CourseNumbers
  <2>22. /\ left' \in Nat /\ repairs' \in Nat /\ repairs' <= MaxRepair
         /\ repairs' + left' = repairs + left
         /\ left > 1 => left' >= 1 /\ pc' = "repair"
         /\ ~(left > 1) => left' = 0 /\ pc' = "fit"
    <3>1. left \in Nat /\ repairs \in Nat /\ MaxRepair \in Nat /\ left >= 1 /\ repairs + left <= MaxRepair
      BY <1>2, <2>5, <2>21
    <3>2. left' = left - 1 /\ repairs' = repairs + 1
      BY <1>5, <2>3
    <3>3. /\ left' \in Nat /\ repairs' \in Nat /\ repairs' <= MaxRepair
          /\ repairs' + left' = repairs + left
          /\ left > 1 => left' >= 1
          /\ ~(left > 1) => left' = 0
      BY <3>1, <3>2
    <3> QED BY <3>3, <2>3
  <2>23. pc' \in {"repair", "fit"}
    BY <2>22
  <2>24. Len(taken') + Ahead' = targets'
    <3>1. Ahead' = left' + Checks
      BY <2>23 DEF Ahead
    <3>2. Ahead' = (left - 1) + Checks
      BY <2>3, <3>1
    <3>3. Len(taken') = n + 1
      BY <2>11
    <3> QED BY <1>2, <1>5, <2>5, <2>21, <3>2, <3>3
  <2>25. Len(training') = Points + Cardinality(Run!Of({"extra"})')
    <3>1. Run!Of({"extra"})' = Run!Of({"extra"})
      BY <2>12
    <3> QED BY <2>4, <2>5, <2>10, <3>1
  <2>26. CourseTypes'
    BY <1>1, <1>5, <2>3, <2>10, <2>11, <2>22, <2>23 DEF CourseTypes, RunPhases
  <2>27. LearnedInv'
    BY <1>1, <1>5, <2>12, <2>23 DEF LearnedInv
  <2>28. JudgedInv'
    <3>1. judged' = <<>> /\ chosen' = {} /\ Run!Of({"validation", "verification", "extra"})' = {}
      BY <1>1, <1>5, <2>3, <2>12 DEF JudgedInv
    <3>2. Len(judged') = 0 /\ 1..0 = {}
      BY <3>1
    <3> QED BY <2>23, <3>1, <3>2 DEF JudgedInv
  <2>29. OutcomeInv'
    BY <1>1, <1>5, <2>3, <2>23 DEF OutcomeInv
  <2>30. CountInv'
    <3>1. /\ pc' = "repair" => /\ left' >= 1 /\ repairs' + left' <= MaxRepair
                               /\ left' = Cardinality(Run!Missing')
          /\ pc' = "fit" => left' = 0
      BY <2>3, <2>5, <2>20, <2>22
    <3> QED BY <2>22, <2>23, <2>24, <2>25, <3>1 DEF CountInv, Run!Cardinality, Cardinality
  <2> QED BY <2>19, <2>26, <2>27, <2>28, <2>29, <2>30 DEF CourseInv
<1> QED BY <1>6, <1>7

\* The model is fitted.
LEMMA CourseFit ==
  ASSUME CourseInv, Run!Fit
  PROVE  CourseInv'
<1>1. CourseTypes /\ SampleInv /\ LearnedInv /\ JudgedInv /\ CountInv /\ OutcomeInv
  BY DEF CourseInv
<1>2. taken \in Seq(RunPhases) /\ left \in Nat /\ targets \in Nat
  BY <1>1 DEF CourseTypes
<1>3. /\ pc \in {"fit", "fit again"} /\ fitted' = Run!Captures(training)
      /\ pc = "fit" => pc' = "validation" /\ left' = Checks
      /\ pc = "fit again" => pc' = "verification" /\ left' = Finals
      /\ training' = training /\ judged' = judged /\ repairs' = repairs /\ targets' = targets
      /\ taken' = taken /\ chosen' = chosen /\ result' = result /\ final' = final
  BY DEF Run!Fit, Run!Captures
<1>4. \A P : Run!Of(P)' = Run!Of(P)
  BY <1>3 DEF Run!Of
<1>5. pc' \in {"validation", "verification"} /\ left' \in Nat
  BY <1>1, <1>3, CourseNumbers
<1>6. CourseTypes'
  BY <1>1, <1>3, <1>5 DEF CourseTypes, RunPhases
<1>7. SampleInv'
  BY <1>1, <1>3, <1>4 DEF SampleInv, Run!Short
<1>8. LearnedInv'
  <2>1. \A f \in Run!Captures(training) : f \in Run!Of({"training", "repair", "extra"})
    BY <1>1 DEF SampleInv, Run!Captures, Run!Of
  <2>2. Run!Captures(training)' = Run!Captures(training)
    BY <1>3 DEF Run!Captures
  <2> QED BY <1>1, <1>3, <1>4, <2>1, <2>2 DEF LearnedInv
<1>9. JudgedInv'
  <2>1. judged' = <<>> /\ Run!Captures(judged)' = {} /\ Len(judged') = 0 /\ 1..0 = {}
    <3>1. judged' = <<>>
      BY <1>1, <1>3 DEF JudgedInv
    <3>2. Len(judged') = 0 /\ 1..0 = {}
      BY <3>1
    <3> QED BY <3>1, <3>2 DEF Run!Captures
  <2>2. CASE pc = "fit"
    <3>1. chosen' = {} /\ Run!Of({"verification", "extra"})' = {} /\ Run!Of({"validation"})' = {}
      <4>1. chosen = {} /\ Run!Of({"validation", "verification", "extra"}) = {}
        BY <1>1, <2>2 DEF JudgedInv
      <4>2. Run!Of({"verification", "extra"}) = {} /\ Run!Of({"validation"}) = {}
        BY <4>1 DEF Run!Of
      <4> QED BY <1>3, <1>4, <4>1, <4>2
    <3> QED BY <1>3, <2>1, <2>2, <3>1 DEF JudgedInv
  <2>3. CASE pc = "fit again"
    <3>1. Run!Of({"extra"})' # {} /\ Run!Of({"verification"})' = {}
      BY <1>1, <1>4, <2>3 DEF JudgedInv
    <3> QED BY <1>3, <2>1, <2>3, <3>1 DEF JudgedInv
  <2> QED BY <1>3, <2>2, <2>3
<1>10. CountInv'
  <2>1. Checks \in Nat /\ Finals \in Nat /\ Len(taken) \in Nat
    BY <1>1, <1>2, CourseNumbers
  <2>2. Len(taken') + Ahead' = targets'
    <3>4. PICK n \in Nat : n = Len(taken)
      BY <2>1
    <3>1. n + Ahead = targets /\ left = 0 /\ Len(taken') = n
      BY <1>1, <1>3, <3>4 DEF CountInv
    <3>2. CASE pc = "fit"
      <4>1. Ahead = left + Checks /\ Ahead' = Checks
        BY <1>3, <3>2 DEF Ahead
      <4>2. Ahead = Checks
        BY <2>1, <3>1, <4>1
      <4> QED BY <1>3, <3>1, <4>1, <4>2
    <3>3. CASE pc = "fit again"
      <4>1. Ahead = left + Finals /\ Ahead' = Finals
        BY <1>3, <3>3 DEF Ahead
      <4>2. Ahead = Finals
        BY <2>1, <3>1, <4>1
      <4> QED BY <1>3, <3>1, <4>1, <4>2
    <3> QED BY <1>3, <3>2, <3>3
  <2>3. Len(training') = Points + Cardinality(Run!Of({"extra"})')
    BY <1>1, <1>3, <1>4 DEF CountInv
  <2> QED BY <1>1, <1>3, <1>5, <2>2, <2>3 DEF CountInv
<1>11. OutcomeInv'
  BY <1>1, <1>3, <1>5 DEF OutcomeInv
<1> QED BY <1>6, <1>7, <1>8, <1>9, <1>10, <1>11 DEF CourseInv

\* A point that judges is captured.
LEMMA CourseValidated ==
  ASSUME CourseInv, NEW verdict \in Run!Verdicts, Run!Validate(verdict)
  PROVE  CourseInv'
<1>1. CourseTypes /\ SampleInv /\ LearnedInv /\ JudgedInv /\ CountInv /\ OutcomeInv
  BY DEF CourseInv
<1>2. /\ taken \in Seq(RunPhases) /\ pc \in RunPhases /\ left \in Nat /\ targets \in Nat
      /\ judged \in Seq(VerdictType)
  BY <1>1 DEF CourseTypes
<1>3. PICK n \in Nat : n = Len(taken)
  BY <1>2
<1>4. Run!This = n + 1
  BY <1>3 DEF Run!This
<1>5. PICK s : s = [by |-> n + 1, verdict |-> verdict]
  OBVIOUS
<1>6. /\ pc \in {"validation", "verification"} /\ pc' = pc /\ left > 0 /\ left' = left - 1
      /\ taken' = Append(taken, pc) /\ judged' = Append(judged, s)
      /\ training' = training /\ repairs' = repairs /\ targets' = targets
      /\ fitted' = fitted /\ chosen' = chosen /\ result' = result /\ final' = final
  BY <1>4, <1>5 DEF Run!Validate, Run!Captured
<1>7. /\ taken' \in Seq(RunPhases) /\ Len(taken') = n + 1 /\ taken'[n + 1] = pc
      /\ \A k \in 1..n : taken'[k] = taken[k]
      /\ \A P : Run!Of(P)' = IF pc \in P THEN Run!Of(P) \cup {n + 1} ELSE Run!Of(P)
      /\ \A P : Run!Of(P) \subseteq 1..n
  BY <1>2, <1>3, <1>6, Capturing
<1>8. /\ \A P : pc \notin P => Run!Of(P)' = Run!Of(P)
      /\ \A P : Run!Of(P) \subseteq Run!Of(P)'
      /\ \A P : pc \in P => Run!Of(P)' = Run!Of(P) \cup {n + 1}
  BY <1>7
<1>9. PICK m \in Nat : m = Len(judged)
  BY <1>2
<1>10. s \in VerdictType /\ s.by = n + 1
  BY <1>5 DEF VerdictType
<1>11. /\ judged' \in Seq(VerdictType) /\ Len(judged') = m + 1 /\ judged'[m + 1] = s
       /\ \A k \in 1..m : judged'[k] = judged[k]
  BY <1>2, <1>6, <1>9, <1>10
<1>12. /\ (\A k \in 1..(m + 1) : k \in 1..m \/ k = m + 1)
       /\ (\A k \in 1..m : k \in 1..(m + 1)) /\ m + 1 \in 1..(m + 1)
       /\ (\A k \in 1..n : k \in 1..(n + 1) /\ n + 1 > k)
  OBVIOUS
<1>13. Run!Captures(judged)' = Run!Captures(judged) \cup {n + 1}
  <2>1. Run!Captures(judged)' = {judged'[k].by : k \in 1..(m + 1)}
    BY <1>11 DEF Run!Captures
  <2>2. Run!Captures(judged) = {judged[k].by : k \in 1..m}
    BY <1>9 DEF Run!Captures
  <2> QED BY <1>10, <1>11, <1>12, <2>1, <2>2
<1>14. CourseTypes'
  <2>1. left' \in Nat
    BY <1>2, <1>6
  <2> QED BY <1>1, <1>6, <1>7, <1>11, <2>1 DEF CourseTypes
<1>15. SampleInv'
  <2>1. pc \notin {"repair", "extra"} /\ pc # "ended" /\ Run!Of({"repair", "extra"})' = Run!Of({"repair", "extra"})
    BY <1>6, <1>8
  <2> QED BY <1>1, <1>3, <1>6, <1>7, <1>12, <2>1 DEF SampleInv, Run!Short
<1>16. LearnedInv'
  <2>1. Run!Captures(training)' = Run!Captures(training)
    BY <1>6 DEF Run!Captures
  <2> QED BY <1>1, <1>6, <1>8, <2>1 DEF LearnedInv
<1>17. JudgedInv'
  <2>1. \A f \in fitted', i \in 1..Len(judged') : judged'[i].by > f
    <3>1. \A f \in fitted, i \in 1..m : judged[i].by > f
      BY <1>1, <1>9 DEF JudgedInv
    <3>2. \A f \in fitted : f \in 1..n
      BY <1>1, <1>7 DEF LearnedInv
    <3> QED BY <1>6, <1>10, <1>11, <1>12, <3>1, <3>2
  <2>2. CASE pc = "validation"
    <3>1. /\ chosen' = {} /\ Run!Of({"verification", "extra"})' = {}
          /\ Run!Captures(judged)' = Run!Of({"validation"})'
      BY <1>1, <1>6, <1>8, <1>13, <2>2 DEF JudgedInv
    <3> QED BY <1>6, <2>1, <2>2, <3>1 DEF JudgedInv
  <2>3. CASE pc = "verification"
    <3>1. /\ Run!Of({"extra"})' # {} /\ Run!Captures(judged)' = Run!Of({"verification"})'
      BY <1>1, <1>6, <1>8, <1>13, <2>3 DEF JudgedInv
    <3> QED BY <1>6, <2>1, <2>3, <3>1 DEF JudgedInv
  <2> QED BY <1>6, <2>2, <2>3
<1>18. CountInv'
  <2>1. Len(taken') + Ahead' = targets'
    <3>1. Ahead = left /\ Ahead' = left'
      BY <1>6 DEF Ahead
    <3>2. n + left = targets
      BY <1>1, <1>3, <1>6, <3>1 DEF CountInv
    <3>3. Len(taken') = n + 1 /\ left' = left - 1
      BY <1>6, <1>7
    <3> QED BY <1>2, <1>6, <3>1, <3>2, <3>3
  <2>2. Len(training') = Points + Cardinality(Run!Of({"extra"})')
    <3>1. Run!Of({"extra"})' = Run!Of({"extra"})
      BY <1>6, <1>8
    <3> QED BY <1>1, <1>6, <3>1 DEF CountInv
  <2> QED BY <1>1, <1>6, <2>1, <2>2 DEF CountInv
<1>19. OutcomeInv'
  BY <1>1, <1>6 DEF OutcomeInv
<1> QED BY <1>14, <1>15, <1>16, <1>17, <1>18, <1>19 DEF CourseInv

\* What a run that passes rests on is fair.
LEMMA CoursePassed ==
  ASSUME CourseInv, pc \in {"validation", "verification"}, left = 0
  PROVE  /\ Cardinality(fitted) = Points + Cardinality(Run!Of({"extra"}))
         /\ Run!Of({"repair", "extra"}) \subseteq fitted
         /\ Run!Captures(judged) \cap (fitted \cup chosen) = {}
         /\ \A f \in Run!Captures(judged), g \in fitted : f > g
         /\ Run!Captures(judged) =
              Run!Of({IF Run!Of({"extra"}) = {} THEN "validation" ELSE "verification"})
         /\ Len(taken) = targets
<1>1. CourseTypes /\ SampleInv /\ LearnedInv /\ JudgedInv /\ CountInv
  BY DEF CourseInv
<1>2. /\ fitted = Run!Captures(training) /\ pc # "ended" /\ training \in Seq(SampleType)
      /\ pc \notin {"positioning", "training", "ended"} /\ taken \in Seq(RunPhases)
  BY <1>1 DEF LearnedInv, CourseTypes
<1>3. Cardinality(fitted) = Points + Cardinality(Run!Of({"extra"}))
  <2>1. Cardinality(fitted) = Len(training)
    <3>1. \A i, j \in 1..Len(training) : training[i].by = training[j].by => i = j
      BY <1>1 DEF SampleInv
    <3> QED BY <1>2, <3>1, CapturesCount
  <2>2. Len(training) = Points + Cardinality(Run!Of({"extra"}))
    BY <1>1, <1>2 DEF CountInv
  <2> QED BY <2>1, <2>2
<1>4. Run!Of({"repair", "extra"}) \subseteq fitted
  BY <1>1, <1>2 DEF SampleInv, Run!Captures
<1>5. \A f \in Run!Captures(judged), g \in fitted : f > g
  BY <1>1 DEF JudgedInv, Run!Captures
<1>6. PICK n \in Nat : n = Len(taken)
  BY <1>2
<1>7. \A g \in fitted : g \in Nat
  <2>1. \A g \in fitted : g \in 1..n
    BY <1>1, <1>6 DEF LearnedInv, Run!Of
  <2> QED BY <2>1
<1>8. Run!Captures(judged) \cap fitted = {}
  <2>1. \A g \in Nat : ~(g > g)
    OBVIOUS
  <2> QED BY <1>5, <1>7, <2>1
<1>9. CASE pc = "validation"
  <2>1. chosen = {} /\ Run!Of({"verification", "extra"}) = {} /\ Run!Captures(judged) = Run!Of({"validation"})
    BY <1>1, <1>9 DEF JudgedInv
  <2>2. Run!Of({"extra"}) = {}
    BY <2>1 DEF Run!Of
  <2>3. Ahead = left
    BY <1>9 DEF Ahead
  <2>4. n + 0 = targets
    BY <1>1, <1>2, <1>6, <2>3 DEF CountInv
  <2>5. targets \in Nat
    BY <1>1 DEF CourseTypes
  <2>6. Len(taken) = targets
    BY <1>6, <2>4, <2>5
  <2> QED BY <1>3, <1>4, <1>5, <1>8, <2>1, <2>2, <2>6
<1>10. CASE pc = "verification"
  <2>1. Run!Captures(judged) = Run!Of({"verification"}) /\ Run!Of({"extra"}) # {}
        /\ chosen \subseteq Run!Of({"validation"})
    BY <1>1, <1>10 DEF JudgedInv, LearnedInv
  <2>2. Run!Of({"verification"}) \cap Run!Of({"validation"}) = {}
    BY DEF Run!Of
  <2>3. Ahead = left
    BY <1>10 DEF Ahead
  <2>4. n + 0 = targets
    BY <1>1, <1>2, <1>6, <2>3 DEF CountInv
  <2>5. targets \in Nat
    BY <1>1 DEF CourseTypes
  <2>6. Len(taken) = targets
    BY <1>6, <2>4, <2>5
  <2>7. Run!Captures(judged) \cap (fitted \cup chosen) = {}
    BY <1>8, <2>1, <2>2
  <2> QED BY <1>3, <1>4, <1>5, <2>1, <2>6, <2>7
<1> QED BY <1>9, <1>10

\* What was captured is judged.
LEMMA CourseJudged ==
  ASSUME CourseInv, NEW overall \in {"good", "off", "blind"}, Run!Judge(overall)
  PROVE  CourseInv'
<1>1. CourseTypes /\ SampleInv /\ LearnedInv /\ JudgedInv /\ CountInv /\ OutcomeInv
  BY DEF CourseInv
<1>2. /\ taken \in Seq(RunPhases) /\ left \in Nat /\ targets \in Nat /\ repairs \in Nat
      /\ judged \in Seq(VerdictType)
  BY <1>1 DEF CourseTypes
<1>3. /\ pc \in {"validation", "verification"} /\ left = 0
      /\ repairs' = repairs /\ taken' = taken /\ fitted' = fitted
      /\ Run!Passed(overall) =>
           /\ pc' = "ended" /\ result' = "valid" /\ final' = Run!Captures(judged)
           /\ training' = <<>> /\ judged' = <<>>
           /\ left' = left /\ targets' = targets /\ chosen' = chosen
  BY DEF Run!Judge
<1>4. \A P : Run!Of(P)' = Run!Of(P)
  BY <1>3 DEF Run!Of
<1>5. Len(taken') = Len(taken)
  BY <1>3
<1>6. CASE Run!Passed(overall)
  <2>1. /\ pc' = "ended" /\ result' = "valid" /\ final' = Run!Captures(judged)
        /\ training' = <<>> /\ judged' = <<>>
        /\ left' = left /\ targets' = targets /\ chosen' = chosen
    BY <1>3, <1>6
  <2>2. Len(training') = 0 /\ Len(judged') = 0 /\ 1..0 = {}
    BY <2>1
  <2>3. CourseTypes'
    <3>1. training' \in Seq(SampleType) /\ judged' \in Seq(VerdictType)
      BY <2>1
    <3> QED BY <1>1, <1>3, <2>1, <3>1 DEF CourseTypes, RunPhases
  <2>4. SampleInv'
    BY <2>1, <2>2 DEF SampleInv
  <2>5. LearnedInv' /\ JudgedInv'
    BY <1>1, <1>3, <1>4, <2>1, <2>2 DEF LearnedInv, JudgedInv
  <2>6. CountInv'
    BY <1>1, <1>3, <2>1 DEF CountInv
  <2>7. /\ Cardinality(fitted) = Points + Cardinality(Run!Of({"extra"}))
        /\ Run!Of({"repair", "extra"}) \subseteq fitted
        /\ Run!Captures(judged) \cap (fitted \cup chosen) = {}
        /\ \A f \in Run!Captures(judged), g \in fitted : f > g
        /\ Run!Captures(judged) =
             Run!Of({IF Run!Of({"extra"}) = {} THEN "validation" ELSE "verification"})
        /\ Len(taken) = targets
    BY <1>3, CoursePassed
  <2>8. Fair'
    BY <1>3, <1>4, <1>5, <2>1, <2>7 DEF Fair
  <2>9. Len(taken') <= targets'
    BY <1>2, <1>5, <2>1, <2>7
  <2>10. OutcomeInv'
    BY <2>1, <2>8, <2>9 DEF OutcomeInv
  <2> QED BY <2>3, <2>4, <2>5, <2>6, <2>10 DEF CourseInv
<1>7. CASE ~Run!Passed(overall) /\ pc = "validation" /\ Run!Repairable(overall)
  <2>1. PICK b : b = Cardinality(Run!Bad)
    OBVIOUS
  <2>2. /\ pc' = "extra" /\ left' = b /\ targets' = targets + b + Finals
        /\ chosen' = Run!Captures(judged) /\ judged' = <<>>
        /\ training' = training /\ result' = result /\ final' = final
    <3>1. b = Run!Cardinality(Run!Bad)
      BY <2>1 DEF Run!Cardinality, Cardinality
    <3> QED BY <1>7, <3>1 DEF Run!Judge
  <2>3. PICK m \in Nat : m = Len(judged)
    BY <1>2
  <2>4. IsFiniteSet(Run!Bad) /\ b \in Nat
    <3>1. Run!Bad \in SUBSET (1..m)
      BY <2>3 DEF Run!Bad
    <3>2. IsFiniteSet(1..m)
      BY FS_Interval
    <3>3. IsFiniteSet(Run!Bad)
      BY <3>1, <3>2, FS_Subset
    <3> QED BY <2>1, <3>3, FS_CardinalityType
  <2>5. b # 0 /\ b <= MaxRepair - repairs
    <3>1. Run!Bad # {} /\ Run!Cardinality(Run!Bad) <= MaxRepair - repairs
      BY <1>7 DEF Run!Repairable
    <3>2. b <= MaxRepair - repairs
      BY <2>1, <3>1 DEF Run!Cardinality, Cardinality
    <3>3. b # 0
      BY <2>1, <2>4, <3>1, FS_EmptySet
    <3> QED BY <3>2, <3>3
  <2>6. Finals \in Nat /\ MaxRepair \in Nat /\ Len(taken) \in Nat
    BY <1>1, <1>2, CourseNumbers
  <2>7. left' \in Nat /\ targets' \in Nat /\ left' >= 1 /\ repairs' + left' <= MaxRepair
    BY <1>2, <1>3, <2>2, <2>4, <2>5, <2>6
  <2>8. Len(judged') = 0 /\ 1..0 = {} /\ judged' \in Seq(VerdictType)
    BY <2>2
  <2>9. CourseTypes'
    BY <1>1, <1>3, <2>2, <2>7, <2>8 DEF CourseTypes, RunPhases
  <2>10. SampleInv'
    BY <1>1, <1>3, <1>4, <1>5, <2>2 DEF SampleInv, Run!Short
  <2>11. LearnedInv'
    <3>1. Run!Captures(judged) = Run!Of({"validation"})
      BY <1>1, <1>7 DEF JudgedInv
    <3> QED BY <1>1, <1>3, <1>4, <2>2, <3>1 DEF LearnedInv
  <2>12. JudgedInv'
    <3>1. Run!Of({"verification", "extra"}) = {}
      BY <1>1, <1>7 DEF JudgedInv
    <3>2. Run!Of({"verification"})' = {}
      BY <1>4, <3>1 DEF Run!Of
    <3> QED BY <2>2, <2>8, <3>2 DEF JudgedInv
  <2>13. CountInv'
    <3>1. Len(taken') + Ahead' = targets'
      <4>1. Ahead = left
        BY <1>3 DEF Ahead
      <4>2. PICK n \in Nat : n = Len(taken)
        BY <2>6
      <4>3. n + 0 = targets
        BY <1>1, <1>3, <4>1, <4>2 DEF CountInv
      <4>4. Ahead' = b + Finals
        BY <2>2 DEF Ahead
      <4>5. Len(taken') = n
        BY <1>5, <4>2
      <4> QED BY <2>2, <2>4, <2>6, <4>3, <4>4, <4>5
    <3>2. Len(training') = Points + Cardinality(Run!Of({"extra"})')
      BY <1>1, <1>3, <1>4, <2>2 DEF CountInv
    <3> QED BY <1>1, <1>3, <2>2, <2>7, <3>1, <3>2 DEF CountInv
  <2>14. OutcomeInv'
    BY <1>1, <1>3, <2>2 DEF OutcomeInv
  <2> QED BY <2>9, <2>10, <2>11, <2>12, <2>13, <2>14 DEF CourseInv
<1>8. CASE ~Run!Passed(overall) /\ ~(pc = "validation" /\ Run!Repairable(overall))
  <2>1. Run!Fail /\ targets' = targets /\ chosen' = chosen /\ final' = final /\ pc # "ended"
    BY <1>3, <1>8 DEF Run!Judge
  <2> QED BY <1>3, <2>1, CourseFails
<1> QED BY <1>6, <1>7, <1>8

LEMMA CourseStep ==
  ASSUME CourseInv, Run!Next
  PROVE  CourseInv'
<1>1. CASE \E gave \in Run!Amounts :
             Run!Positioning(gave) \/ Run!Training(gave) \/ Run!Repair(gave) \/ Run!Extra(gave)
  BY <1>1, CoursePositioned, CourseTrained, CourseRepaired, CourseExtra
<1>2. CASE Run!Fit
  BY <1>2, CourseFit
<1>3. CASE \E v \in Run!Verdicts : Run!Validate(v)
  BY <1>3, CourseValidated
<1>4. CASE \E overall \in {"good", "off", "blind"} : Run!Judge(overall)
  BY <1>4, CourseJudged
<1>5. CASE Run!Raise
  <2>1. /\ Run!Fail /\ pc # "ended" /\ repairs' = repairs /\ targets' = targets /\ taken' = taken
        /\ fitted' = fitted /\ chosen' = chosen /\ final' = final
    BY <1>5 DEF Run!Raise
  <2> QED BY <2>1, CourseFails
<1> QED BY <1>1, <1>2, <1>3, <1>4, <1>5 DEF Run!Next

LEMMA CourseStutter ==
  ASSUME CourseInv, UNCHANGED runVars
  PROVE  CourseInv'
<1>1. /\ pc' = pc /\ left' = left /\ training' = training /\ judged' = judged /\ repairs' = repairs
      /\ targets' = targets /\ taken' = taken /\ fitted' = fitted /\ chosen' = chosen
      /\ result' = result /\ final' = final
  BY DEF runVars
<1>2. CourseTypes /\ SampleInv /\ LearnedInv /\ JudgedInv /\ CountInv /\ OutcomeInv
  BY DEF CourseInv
<1>3. /\ \A P : Run!Of(P)' = Run!Of(P)
      /\ Run!Missing' = Run!Missing /\ Ahead' = Ahead
      /\ Run!Captures(training)' = Run!Captures(training)
      /\ Run!Captures(judged)' = Run!Captures(judged)
  BY <1>1 DEF Run!Of, Run!Missing, Run!Short, Ahead, Run!Captures
<1>4. CourseTypes'
  BY <1>1, <1>2 DEF CourseTypes
<1>5. SampleInv'
  BY <1>1, <1>2, <1>3 DEF SampleInv, Run!Short
<1>6. LearnedInv' /\ JudgedInv'
  BY <1>1, <1>2, <1>3 DEF LearnedInv, JudgedInv
<1>7. CountInv'
  BY <1>1, <1>2, <1>3 DEF CountInv, Run!Cardinality, Cardinality
<1>8. OutcomeInv'
  <2>1. Fair => Fair'
    BY <1>1, <1>3 DEF Fair
  <2> QED BY <1>1, <1>2, <2>1 DEF OutcomeInv
<1> QED BY <1>4, <1>5, <1>6, <1>7, <1>8 DEF CourseInv

\* What the run promises follows.
LEMMA CourseIsFair ==
  ASSUME CourseInv
  PROVE  Run!CalibrationIsFair
<1>1. CourseTypes /\ LearnedInv /\ CountInv /\ OutcomeInv
  BY DEF CourseInv
<1>2. pc # "ended" => result = "none" /\ Len(taken) <= targets
  <2>1. CASE pc # "ended"
    <3>1. Len(taken) + Ahead = targets /\ result = "none"
      BY <1>1, <2>1 DEF CountInv, OutcomeInv
    <3>2. Ahead \in Nat
      BY <1>1, CourseNumbers
    <3>3. PICK n \in Nat : n = Len(taken)
      BY <1>1 DEF CourseTypes
    <3>4. n <= n + Ahead
      BY <3>2
    <3> QED BY <3>1, <3>3, <3>4
  <2> QED BY <2>1
<1>3. result = "valid" => Fair /\ pc = "ended"
  BY <1>1 DEF OutcomeInv
<1>4. Run!JudgedFairly
  BY <1>1, <1>3 DEF Run!JudgedFairly, LearnedInv, CountInv, Fair, Run!Cardinality, Cardinality
<1>5. Run!RunLeavesNothing
  BY <1>1, <1>2, <1>3 DEF Run!RunLeavesNothing, OutcomeInv, Fair
<1> QED BY <1>4, <1>5 DEF Run!CalibrationIsFair

-----------------------------------------------------------------------------
(* The capture of one target.                                               *)

FrameType == [at : Nat, face : Target!Faces]
Faced(i) == seen[i].face \in Target!Poses
Lost(i) == seen[i].face \in {"no_face", "blink"}

CaptureTypes ==
  /\ phase \in {"positioning", "training", "validation"}
  /\ seen \in Seq(FrameType) /\ features \in Seq(Nat) /\ total \in Nat /\ invalid \in Nat
  /\ anchor \in Target!Poses \cup {Target!Nowhere} /\ since \in Int

\* Every frame is later than those before it.
ClockInv == \A i, j \in 1..Len(seen) : i < j => seen[i].at < seen[j].at

\* The still stretch began with a frame, and the head has been where it is since.
StretchInv ==
  phase # "positioning" /\ since # Target!Unset =>
    \E j \in 1..Len(seen) :
      /\ Faced(j) /\ seen[j].at = since
      /\ \A k \in j..Len(seen) : Faced(k) => seen[k].face = anchor
      /\ phase = "training" => \A k \in j..Len(seen) : ~Lost(k)

Sampled == {features[n] : n \in 1..Len(features)}

\* A frame that may be a sample.
Stillness(i) ==
  /\ i \in 1..Len(seen) /\ Faced(i) /\ seen[i].at >= Settle
  /\ \E j \in 1..i :
       /\ Faced(j) /\ seen[i].at - seen[j].at >= Still
       /\ \A k \in j..i : Faced(k) => seen[k].face = seen[i].face
       /\ phase = "training" => \A k \in j..i : ~Lost(k)

StillnessInv ==
  /\ phase # "positioning" => \A i \in Sampled : Stillness(i)
  /\ phase = "training" =>
       \A i \in Sampled, k \in 1..Len(seen) : i <= k /\ Faced(k) => seen[k].face = anchor

TallyInv ==
  /\ total = Len(features) + invalid
  /\ phase = "positioning" => invalid = 0
  /\ phase = "validation" => total = Cardinality(Target!Settled)

AskedInv ==
  /\ extended => required = 2 * Enough
  /\ ~extended => required = Enough
  /\ over /\ phase # "positioning" => Len(features) >= required

\* While a face is in place, the samples are the frames since it came.
HoldInv ==
  phase = "positioning" =>
    /\ over => anchor # Target!Nowhere /\ seen[Len(seen)].at - since >= Hold
    /\ anchor # Target!Nowhere =>
         \E j \in 1..Len(seen) :
           /\ seen[j].at = since
           /\ features = [k \in 1..(Len(seen) - j + 1) |-> j + k - 1]
           /\ \A k \in j..Len(seen) : seen[k].face = anchor
           /\ \A k \in j..(Len(seen) - 1) : seen[k + 1].at - seen[k].at <= FrameGap

CaptureInv ==
  CaptureTypes /\ ClockInv /\ StretchInv /\ StillnessInv /\ TallyInv /\ AskedInv /\ HoldInv

LEMMA CaptureNumbers ==
  /\ Settle \in Nat /\ Still \in Nat /\ Enough \in Nat /\ Span \in Nat
  /\ Hold \in Nat /\ Hold > 0 /\ FrameGap \in Nat
<1>1. \A h \in Nat \ {0} : h \in Nat /\ h > 0
  OBVIOUS
<1> QED BY <1>1, CaptureAssumption DEF CaptureAssumption

LEMMA CaptureInit ==
  ASSUME Target!Init
  PROVE  CaptureInv
<1>1. /\ phase \in {"positioning", "training", "validation"}
      /\ seen = <<>> /\ features = <<>> /\ total = 0 /\ invalid = 0
      /\ anchor = Target!Nowhere /\ since = Target!Unset
      /\ required = Enough /\ extended = FALSE /\ over = FALSE
  BY DEF Target!Init
<1>2. Len(seen) = 0 /\ Len(features) = 0 /\ 1..0 = {}
  BY <1>1
<1>3. CaptureTypes
  BY <1>1 DEF CaptureTypes, Target!Unset
<1>4. ClockInv /\ StretchInv
  BY <1>1, <1>2 DEF ClockInv, StretchInv
<1>5. StillnessInv
  BY <1>1, <1>2 DEF StillnessInv, Sampled
<1>6. TallyInv
  <2>1. Target!Settled = {}
    BY <1>2 DEF Target!Settled
  <2>2. Cardinality(Target!Settled) = 0
    BY <2>1, FS_EmptySet
  <2> QED BY <1>1, <1>2, <2>2 DEF TallyInv
<1>7. AskedInv /\ HoldInv
  BY <1>1 DEF AskedInv, HoldInv
<1> QED BY <1>3, <1>4, <1>5, <1>6, <1>7 DEF CaptureInv

\* A frame more.
LEMMA SeenMore ==
  ASSUME CaptureTypes, ClockInv, NEW d \in 1..(FrameGap + 1), NEW face \in Target!Faces,
         NEW f, f = [at |-> Target!Last + d, face |-> face], Target!See(f),
         NEW T \in Nat, T = Len(seen)
  PROVE  /\ f.at \in Nat /\ f.face = face /\ ~over /\ phase' = phase /\ Target!N = T + 1
         /\ seen' \in Seq(FrameType) /\ Len(seen') = T + 1 /\ seen'[T + 1] = f
         /\ \A k \in 1..T : seen'[k] = seen[k] /\ seen[k].at \in Nat /\ seen[k].at < f.at
         /\ \A k \in 1..(T + 1) : k \in 1..T \/ k = T + 1
         /\ \A k \in 1..T : k \in 1..(T + 1) /\ k # T + 1
         /\ T + 1 \in 1..(T + 1)
         /\ \A k \in 1..T : (Faced(k)' <=> Faced(k)) /\ (Lost(k)' <=> Lost(k))
         /\ Faced(T + 1)' <=> f.face \in Target!Poses
         /\ Lost(T + 1)' <=> f.face \in {"no_face", "blink"}
         /\ ClockInv'
         /\ T > 0 => f.at = seen[T].at + d
<1>1. seen \in Seq(FrameType)
  BY DEF CaptureTypes
<1>2. \A k \in 1..T : seen[k] \in FrameType
  BY <1>1
<1>3. \A k \in 1..T : seen[k].at \in Nat
  BY <1>2 DEF FrameType
<1>4. Target!Last \in Nat /\ (T > 0 => Target!Last = seen[T].at)
  <2>1. CASE T = 0
    <3>1. seen = <<>>
      BY <1>1, <2>1, EmptySeq
    <3>2. Target!Last = 0
      BY <3>1 DEF Target!Last
    <3> QED BY <2>1, <3>2
  <2>2. CASE T # 0
    <3>1. seen # <<>> /\ T \in 1..T
      BY <1>1, <2>2
    <3>2. Target!Last = seen[T].at
      BY <3>1 DEF Target!Last
    <3> QED BY <1>3, <3>1, <3>2
  <2> QED BY <2>1, <2>2
<1>5. d \in Nat /\ d > 0
  BY CaptureNumbers
<1>6. f.at = Target!Last + d /\ f.face = face
  OBVIOUS
<1>7. f.at \in Nat /\ f.at > Target!Last
  BY <1>4, <1>5, <1>6
<1>8. f \in FrameType
  <2>1. f = [at |-> f.at, face |-> face]
    BY <1>6
  <2> QED BY <1>7, <2>1 DEF FrameType
<1>9. ~over /\ phase' = phase /\ seen' = Append(seen, f) /\ Target!N = T + 1
  BY DEF Target!See, Target!N
<1>10. /\ seen' \in Seq(FrameType) /\ Len(seen') = T + 1 /\ seen'[T + 1] = f
       /\ \A k \in 1..T : seen'[k] = seen[k]
  BY <1>1, <1>8, <1>9
<1>11. /\ \A k \in 1..(T + 1) : k \in 1..T \/ k = T + 1
       /\ \A k \in 1..T : k \in 1..(T + 1) /\ k # T + 1
       /\ T + 1 \in 1..(T + 1)
  OBVIOUS
<1>12. \A k \in 1..T : seen[k].at < f.at
  <2> SUFFICES ASSUME NEW k \in 1..T PROVE seen[k].at < f.at
    OBVIOUS
  <2>1. T > 0 /\ T \in 1..T
    OBVIOUS
  <2>2. CASE k = T
    BY <1>3, <1>4, <1>7, <2>1, <2>2
  <2>3. CASE k # T
    <3>1. k < T
      BY <2>3
    <3>2. seen[k].at < seen[T].at
      BY <2>1, <3>1 DEF ClockInv
    <3>3. seen[k].at \in Nat /\ seen[T].at \in Nat /\ f.at > seen[T].at
      BY <1>3, <1>4, <1>7, <2>1
    <3> QED BY <1>7, <3>2, <3>3
  <2> QED BY <2>2, <2>3
<1>13. ClockInv'
  <2>1. ASSUME NEW i \in 1..(T + 1), NEW j \in 1..(T + 1), i < j
        PROVE  seen'[i].at < seen'[j].at
    <3>1. i \in 1..T
      BY <2>1
    <3>2. CASE j = T + 1
      BY <1>10, <1>12, <3>1, <3>2
    <3>3. CASE j \in 1..T
      BY <1>10, <2>1, <3>1, <3>3 DEF ClockInv
    <3> QED BY <1>11, <3>2, <3>3
  <2> QED BY <1>10, <2>1 DEF ClockInv
<1>14. /\ \A k \in 1..T : (Faced(k)' <=> Faced(k)) /\ (Lost(k)' <=> Lost(k))
       /\ Faced(T + 1)' <=> f.face \in Target!Poses
       /\ Lost(T + 1)' <=> f.face \in {"no_face", "blink"}
  BY <1>10 DEF Faced, Lost
<1>15. T > 0 => f.at = seen[T].at + d
  BY <1>4, <1>6
<1> QED BY <1>3, <1>6, <1>7, <1>9, <1>10, <1>11, <1>12, <1>13, <1>14, <1>15

\* A frame that may be a sample stays one.
LEMMA StillnessKept ==
  ASSUME NEW T \in Nat, T = Len(seen), Len(seen') = T + 1, phase' = phase,
         \A k \in 1..T : seen'[k] = seen[k],
         \A k \in 1..T : (Faced(k)' <=> Faced(k)) /\ (Lost(k)' <=> Lost(k)),
         NEW i, Stillness(i)
  PROVE  Stillness(i)'
<1>1. i \in 1..T /\ Faced(i) /\ seen[i].at >= Settle
  BY DEF Stillness
<1>2. PICK j \in 1..i :
        /\ Faced(j) /\ seen[i].at - seen[j].at >= Still
        /\ \A k \in j..i : Faced(k) => seen[k].face = seen[i].face
        /\ phase = "training" => \A k \in j..i : ~Lost(k)
  BY DEF Stillness
<1>3. /\ i \in 1..(T + 1) /\ j \in 1..T /\ \A k \in j..i : k \in 1..T
  BY <1>1, <1>2
<1>4. /\ Faced(j)' /\ seen'[i].at - seen'[j].at >= Still /\ Faced(i)' /\ seen'[i].at >= Settle
      /\ \A k \in j..i : Faced(k)' => seen'[k].face = seen'[i].face
      /\ phase' = "training" => \A k \in j..i : ~Lost(k)'
  BY <1>1, <1>2, <1>3
<1> QED BY <1>2, <1>3, <1>4 DEF Stillness

\* The frames that have settled.
LEMMA SettledMore ==
  ASSUME NEW T \in Nat, T = Len(seen), Len(seen') = T + 1, NEW f, seen'[T + 1] = f,
         \A k \in 1..T : seen'[k] = seen[k]
  PROVE  /\ f.at >= Settle => Cardinality(Target!Settled)' = Cardinality(Target!Settled) + 1
         /\ ~(f.at >= Settle) => Cardinality(Target!Settled)' = Cardinality(Target!Settled)
<1>1. Target!Settled = {k \in 1..T : seen[k].at >= Settle}
  BY DEF Target!Settled
<1>2. Target!Settled' = {k \in 1..(T + 1) : seen'[k].at >= Settle}
  BY DEF Target!Settled
<1>3. /\ \A k \in 1..(T + 1) : k \in 1..T \/ k = T + 1
      /\ \A k \in 1..T : k \in 1..(T + 1) /\ k # T + 1
      /\ T + 1 \in 1..(T + 1)
  OBVIOUS
<1>4. ~(f.at >= Settle) => Target!Settled' = Target!Settled
  BY <1>1, <1>2, <1>3
<1>5. f.at >= Settle => Target!Settled' = Target!Settled \cup {T + 1}
  BY <1>1, <1>2, <1>3
<1>6. IsFiniteSet(Target!Settled) /\ T + 1 \notin Target!Settled
  <2>1. Target!Settled \in SUBSET (1..T) /\ IsFiniteSet(1..T)
    BY <1>1, FS_Interval
  <2>2. IsFiniteSet(Target!Settled)
    BY <2>1, FS_Subset
  <2> QED BY <1>3, <2>1, <2>2
<1>7. Cardinality(Target!Settled \cup {T + 1}) = Cardinality(Target!Settled) + 1
  BY <1>6, FS_AddElement
<1> QED BY <1>4, <1>5, <1>7

\* A frame that cannot be used.
LEMMA CaptureUnusable ==
  ASSUME CaptureInv, NEW d \in 1..(FrameGap + 1), NEW face \in Target!Faces,
         NEW f, f = [at |-> Target!Last + d, face |-> face], Target!See(f),
         phase # "positioning", Target!Unusable(f)
  PROVE  CaptureInv'
<1>1. CaptureTypes /\ ClockInv /\ StretchInv /\ StillnessInv /\ TallyInv /\ AskedInv
  BY DEF CaptureInv
<1>2. PICK T \in Nat : T = Len(seen)
  BY <1>1 DEF CaptureTypes
<1>3. /\ f.at \in Nat /\ f.face = face /\ ~over /\ phase' = phase /\ Target!N = T + 1
      /\ seen' \in Seq(FrameType) /\ Len(seen') = T + 1 /\ seen'[T + 1] = f
      /\ \A k \in 1..T : seen'[k] = seen[k] /\ seen[k].at \in Nat /\ seen[k].at < f.at
      /\ \A k \in 1..(T + 1) : k \in 1..T \/ k = T + 1
      /\ \A k \in 1..T : k \in 1..(T + 1) /\ k # T + 1
      /\ T + 1 \in 1..(T + 1)
      /\ \A k \in 1..T : (Faced(k)' <=> Faced(k)) /\ (Lost(k)' <=> Lost(k))
      /\ Faced(T + 1)' <=> f.face \in Target!Poses
      /\ Lost(T + 1)' <=> f.face \in {"no_face", "blink"}
      /\ ClockInv'
  BY <1>1, <1>2, SeenMore
<1>4. /\ f.face \notin Target!Poses
      /\ f.at >= Settle => total' = total + 1 /\ invalid' = invalid + 1
      /\ ~(f.at >= Settle) => total' = total /\ invalid' = invalid
      /\ phase = "training" /\ f.face # "invalid_features" => since' = Target!Unset
      /\ ~(phase = "training" /\ f.face # "invalid_features") => since' = since
      /\ features' = features /\ anchor' = anchor /\ required' = required
      /\ extended' = extended /\ over' = over
  BY DEF Target!Unusable
<1>5. /\ total \in Nat /\ invalid \in Nat /\ features \in Seq(Nat) /\ since \in Int
      /\ total = Len(features) + invalid
      /\ phase = "validation" => total = Cardinality(Target!Settled)
  BY <1>1 DEF CaptureTypes, TallyInv
<1>6. CaptureTypes'
  <2>1. total' \in Nat /\ invalid' \in Nat /\ since' \in Int
    BY <1>4, <1>5 DEF Target!Unset
  <2> QED BY <1>1, <1>3, <1>4, <2>1 DEF CaptureTypes
<1>7. StretchInv'
  <2>1. CASE since' = Target!Unset
    BY <2>1 DEF StretchInv, Target!Unset
  <2>2. CASE since' # Target!Unset
    <3>1. since' = since /\ since # Target!Unset /\ (phase = "training" => f.face = "invalid_features")
      BY <1>4, <2>2
    <3>2. PICK j \in 1..T :
            /\ Faced(j) /\ seen[j].at = since
            /\ \A k \in j..T : Faced(k) => seen[k].face = anchor
            /\ phase = "training" => \A k \in j..T : ~Lost(k)
      BY <1>1, <1>2, <3>1 DEF StretchInv
    <3>3. \A k \in j..(T + 1) : (k \in j..T /\ k \in 1..T) \/ k = T + 1
      OBVIOUS
    <3>4. /\ j \in 1..(T + 1) /\ Faced(j)' /\ seen'[j].at = since'
          /\ \A k \in j..(T + 1) : Faced(k)' => seen'[k].face = anchor'
      BY <1>3, <1>4, <3>1, <3>2, <3>3
    <3>5. phase' = "training" => \A k \in j..(T + 1) : ~Lost(k)'
      BY <1>3, <3>1, <3>2, <3>3
    <3> QED BY <1>3, <3>4, <3>5 DEF StretchInv
  <2> QED BY <2>1, <2>2
<1>8. StillnessInv'
  <2>1. Sampled' = Sampled
    BY <1>4 DEF Sampled
  <2>2. \A i \in Sampled : Stillness(i)'
    <3>1. \A i \in Sampled : Stillness(i)
      BY <1>1 DEF StillnessInv
    <3> QED BY <1>2, <1>3, <3>1, StillnessKept
  <2>3. phase' = "training" =>
          \A i \in Sampled, k \in 1..(T + 1) : i <= k /\ Faced(k)' => seen'[k].face = anchor'
    BY <1>1, <1>2, <1>3, <1>4 DEF StillnessInv
  <2> QED BY <1>3, <2>1, <2>2, <2>3 DEF StillnessInv
<1>9. TallyInv'
  <2>1. total' = Len(features') + invalid'
    <3>1. PICK m \in Nat : m = Len(features)
      BY <1>5
    <3>2. Len(features') = m /\ total = m + invalid
      BY <1>4, <1>5, <3>1
    <3> QED BY <1>4, <1>5, <3>2
  <2>2. phase = "validation" => total' = Cardinality(Target!Settled)'
    <3>1. /\ f.at >= Settle => Cardinality(Target!Settled)' = Cardinality(Target!Settled) + 1
          /\ ~(f.at >= Settle) => Cardinality(Target!Settled)' = Cardinality(Target!Settled)
      BY <1>2, <1>3, SettledMore
    <3> QED BY <1>4, <1>5, <3>1
  <2> QED BY <1>3, <2>1, <2>2 DEF TallyInv
<1>10. AskedInv' /\ HoldInv'
  BY <1>1, <1>3, <1>4 DEF AskedInv, HoldInv
<1> QED BY <1>3, <1>6, <1>7, <1>8, <1>9, <1>10 DEF CaptureInv

\* A frame that may be used: what it begins, what is kept, and its place.
LEMMA CaptureUsable ==
  ASSUME CaptureInv, NEW d \in 1..(FrameGap + 1), NEW face \in Target!Faces,
         NEW f, f = [at |-> Target!Last + d, face |-> face], Target!See(f),
         phase # "positioning", Target!Usable(f)
  PROVE  CaptureInv'
<1>1. CaptureTypes /\ ClockInv /\ StretchInv /\ StillnessInv /\ TallyInv /\ AskedInv
  BY DEF CaptureInv
<1>2. PICK T \in Nat : T = Len(seen)
  BY <1>1 DEF CaptureTypes
<1>3. /\ f.at \in Nat /\ f.face = face /\ ~over /\ phase' = phase /\ Target!N = T + 1
      /\ seen' \in Seq(FrameType) /\ Len(seen') = T + 1 /\ seen'[T + 1] = f
      /\ \A k \in 1..T : seen'[k] = seen[k] /\ seen[k].at \in Nat /\ seen[k].at < f.at
      /\ \A k \in 1..(T + 1) : k \in 1..T \/ k = T + 1
      /\ \A k \in 1..T : k \in 1..(T + 1) /\ k # T + 1
      /\ T + 1 \in 1..(T + 1)
      /\ \A k \in 1..T : (Faced(k)' <=> Faced(k)) /\ (Lost(k)' <=> Lost(k))
      /\ Faced(T + 1)' <=> f.face \in Target!Poses
      /\ Lost(T + 1)' <=> f.face \in {"no_face", "blink"}
      /\ ClockInv'
  BY <1>1, <1>2, SeenMore
<1>4. PICK moved \in BOOLEAN : moved <=> anchor # Target!Nowhere /\ anchor # f.face
  OBVIOUS
<1>5. PICK start : start = IF moved \/ since = Target!Unset THEN f.at ELSE since
  OBVIOUS
<1>6. PICK kept : kept = IF moved /\ Target!Forgets THEN <<>> ELSE features
  OBVIOUS
<1>7. PICK count : count = IF moved /\ Target!Forgets THEN 0 ELSE total
  OBVIOUS
<1>8. PICK spoiled : spoiled = IF moved /\ Target!Forgets THEN 0 ELSE invalid
  OBVIOUS
<1>9. PICK early \in BOOLEAN : early <=> f.at < Settle \/ f.at - start < Still
  OBVIOUS
<1>10. f.face \in Target!Poses /\ anchor' = f.face /\ since' = start
  BY <1>4, <1>5 DEF Target!Usable
<1>11. early =>
        /\ features' = kept /\ required' = required /\ extended' = extended /\ over' = over
        /\ phase = "validation" /\ f.at >= Settle => total' = count + 1 /\ invalid' = spoiled + 1
        /\ ~(phase = "validation" /\ f.at >= Settle) => total' = count /\ invalid' = spoiled
  BY <1>4, <1>5, <1>6, <1>7, <1>8, <1>9 DEF Target!Usable
<1>12. ~early => features' = Append(kept, T + 1) /\ total' = count + 1 /\ invalid' = spoiled
  BY <1>3, <1>4, <1>5, <1>6, <1>7, <1>8, <1>9 DEF Target!Usable
<1>13. ~early => \E more \in BOOLEAN : \E needed :
        /\ more => ~extended
        /\ more => needed = 2 * Enough
        /\ ~more => needed = required
        /\ required' = needed /\ extended' = (extended \/ more)
        /\ over' => Len(kept) + 1 >= needed
  <2>1. PICK began : began = IF moved /\ Target!Forgets THEN Target!Unset ELSE first
    OBVIOUS
  <2>2. PICK begun : begun = IF began = Target!Unset THEN f.at ELSE began
    OBVIOUS
  <2>3. PICK more \in BOOLEAN : more <=>
          /\ phase = "validation" /\ ~extended
          /\ Len(kept) + 1 >= Enough /\ f.at - begun >= Span
          /\ 100 * (Len(kept) + 1) < 85 * (count + 1)
    OBVIOUS
  <2>4. PICK needed : needed = IF more THEN 2 * Enough ELSE required
    OBVIOUS
  <2>5. ~early =>
          /\ required' = needed /\ extended' = (extended \/ more)
          /\ over' = (Len(kept) + 1 >= needed /\ f.at - begun >= Span)
    BY <1>4, <1>5, <1>6, <1>7, <1>9, <2>1, <2>2, <2>3, <2>4 DEF Target!Usable
  <2> QED BY <2>3, <2>4, <2>5
<1>14. /\ total \in Nat /\ invalid \in Nat /\ features \in Seq(Nat) /\ since \in Int
       /\ total = Len(features) + invalid
       /\ phase = "validation" => total = Cardinality(Target!Settled)
       /\ \A i \in Sampled : Stillness(i)
       /\ Still \in Nat /\ Settle \in Nat
  BY <1>1, CaptureNumbers DEF CaptureTypes, TallyInv, StillnessInv
<1>15. start \in Int
  BY <1>3, <1>5, <1>14
<1>16. PICK Kept : Kept = {kept[n] : n \in 1..Len(kept)}
  OBVIOUS
<1>18. /\ kept \in Seq(Nat) /\ count \in Nat /\ spoiled \in Nat /\ count = Len(kept) + spoiled
       /\ phase = "validation" => count = total
       /\ Kept \subseteq Sampled
  <2>1. CASE moved /\ Target!Forgets
    <3>1. kept = <<>> /\ count = 0 /\ spoiled = 0 /\ phase # "validation"
      BY <1>6, <1>7, <1>8, <2>1 DEF Target!Forgets
    <3>2. kept \in Seq(Nat) /\ Len(kept) = 0 /\ 1..0 = {}
      BY <3>1
    <3>3. Kept = {}
      BY <1>16, <3>2
    <3> QED BY <3>1, <3>2, <3>3
  <2>2. CASE ~(moved /\ Target!Forgets)
    <3>1. kept = features /\ count = total /\ spoiled = invalid
      BY <1>6, <1>7, <1>8, <2>2
    <3> QED BY <1>14, <1>16, <3>1 DEF Sampled
  <2> QED BY <2>1, <2>2
\* Where the still stretch begins.
<1>19. PICK j \in 1..(T + 1) :
         /\ Faced(j)' /\ seen'[j].at = start
         /\ \A k \in j..(T + 1) : Faced(k)' => seen'[k].face = f.face
         /\ phase = "training" => \A k \in j..(T + 1) : ~Lost(k)'
  <2>1. ~Lost(T + 1)'
    BY <1>3, <1>10 DEF Target!Poses
  <2>2. CASE moved \/ since = Target!Unset
    <3>1. start = f.at
      BY <1>5, <2>2
    <3>2. \A k \in (T + 1)..(T + 1) : k = T + 1
      OBVIOUS
    <3> QED BY <1>3, <1>10, <2>1, <3>1, <3>2
  <2>3. CASE ~(moved \/ since = Target!Unset)
    <3>1. start = since /\ since # Target!Unset
      BY <1>5, <2>3
    <3>2. PICK j \in 1..T :
            /\ Faced(j) /\ seen[j].at = since
            /\ \A k \in j..T : Faced(k) => seen[k].face = anchor
            /\ phase = "training" => \A k \in j..T : ~Lost(k)
      BY <1>1, <1>2, <3>1 DEF StretchInv
    <3>3. j \in j..T
      OBVIOUS
    <3>4. seen[j].face = anchor /\ anchor \in Target!Poses
      BY <3>2, <3>3 DEF Faced
    <3>5. anchor = f.face
      BY <1>4, <2>3, <3>4 DEF Target!Poses, Target!Nowhere
    <3>6. \A k \in j..(T + 1) : (k \in j..T /\ k \in 1..T) \/ k = T + 1
      OBVIOUS
    <3>7. \A k \in j..(T + 1) : Faced(k)' => seen'[k].face = f.face
      BY <1>3, <3>2, <3>5, <3>6
    <3>8. phase = "training" => \A k \in j..(T + 1) : ~Lost(k)'
      BY <1>3, <2>1, <3>2, <3>6
    <3>9. j \in 1..(T + 1) /\ Faced(j)' /\ seen'[j].at = start
      BY <1>3, <3>1, <3>2
    <3> QED BY <3>7, <3>8, <3>9
  <2> QED BY <2>2, <2>3
<1>20. StretchInv'
  BY <1>3, <1>10, <1>19 DEF StretchInv
\* Where the samples that are kept are from.
<1>21. phase = "training" =>
         \A i \in Kept, k \in 1..(T + 1) : i <= k /\ Faced(k)' => seen'[k].face = f.face
  <2> SUFFICES ASSUME phase = "training", NEW i \in Kept, NEW k \in 1..(T + 1), i <= k, Faced(k)'
               PROVE  seen'[k].face = f.face
    OBVIOUS
  <2>1. kept = features /\ ~moved
    <3>1. Target!Forgets
      BY DEF Target!Forgets
    <3>2. CASE moved
      <4>1. kept = <<>>
        BY <1>6, <3>1, <3>2
      <4>2. Len(kept) = 0 /\ 1..0 = {}
        BY <4>1
      <4> QED BY <1>16, <4>2
    <3> QED BY <1>6, <3>2
  <2>2. i \in Sampled
    BY <1>18
  <2>3. \A m \in 1..T : i <= m /\ Faced(m) => seen[m].face = anchor
    BY <1>1, <1>2, <2>2 DEF StillnessInv
  <2>4. i \in 1..T /\ Faced(i)
    BY <1>2, <1>14, <2>2 DEF Stillness
  <2>5. seen[i].face = anchor /\ anchor \in Target!Poses
    <3>1. i <= i
      BY <2>4
    <3> QED BY <2>3, <2>4, <3>1 DEF Faced
  <2>6. anchor = f.face
    BY <1>4, <2>1, <2>5 DEF Target!Poses, Target!Nowhere
  <2>7. CASE k = T + 1
    BY <1>3, <2>7
  <2>8. CASE k \in 1..T
    BY <1>3, <2>3, <2>6, <2>8
  <2> QED BY <1>3, <2>7, <2>8
<1>22. \A i \in Kept : Stillness(i)'
  <2>1. \A i \in Kept : Stillness(i)
    BY <1>14, <1>18
  <2> QED BY <1>2, <1>3, <2>1, StillnessKept
<1>23. /\ f.at >= Settle => Cardinality(Target!Settled)' = Cardinality(Target!Settled) + 1
       /\ ~(f.at >= Settle) => Cardinality(Target!Settled)' = Cardinality(Target!Settled)
  BY <1>2, <1>3, SettledMore
<1>24. f.at < Settle <=> ~(f.at >= Settle)
  BY <1>3, <1>14
<1>25. anchor' \in Target!Poses /\ since' \in Int
  BY <1>10, <1>15
<1>26. CASE early
  <2>1. /\ features' = kept /\ required' = required /\ extended' = extended /\ over' = over
        /\ phase = "validation" /\ f.at >= Settle => total' = count + 1 /\ invalid' = spoiled + 1
        /\ ~(phase = "validation" /\ f.at >= Settle) => total' = count /\ invalid' = spoiled
    BY <1>11, <1>26
  <2>2. total' \in Nat /\ invalid' \in Nat
    BY <1>18, <2>1
  <2>3. CaptureTypes'
    BY <1>1, <1>3, <1>18, <1>25, <2>1, <2>2 DEF CaptureTypes
  <2>4. StillnessInv'
    <3>1. Sampled' = Kept
      BY <1>16, <2>1 DEF Sampled
    <3> QED BY <1>3, <1>10, <1>21, <1>22, <3>1 DEF StillnessInv
  <2>5. TallyInv'
    <3>1. PICK m \in Nat : m = Len(kept)
      BY <1>18
    <3>2. Len(features') = m /\ count = m + spoiled
      BY <1>18, <2>1, <3>1
    <3>3. total' = Len(features') + invalid'
      BY <1>18, <2>1, <3>2
    <3>4. phase = "validation" => total' = Cardinality(Target!Settled)'
      BY <1>14, <1>18, <1>23, <2>1
    <3> QED BY <1>3, <3>3, <3>4 DEF TallyInv
  <2>6. AskedInv' /\ HoldInv'
    BY <1>1, <1>3, <2>1 DEF AskedInv, HoldInv
  <2> QED BY <1>3, <1>20, <2>3, <2>4, <2>5, <2>6 DEF CaptureInv
<1>27. CASE ~early
  <2>1. features' = Append(kept, T + 1) /\ total' = count + 1 /\ invalid' = spoiled
    BY <1>12, <1>27
  <2>2. f.at >= Settle /\ f.at - start >= Still
    <3>1. ~(f.at < Settle) /\ ~(f.at - start < Still)
      BY <1>9, <1>27
    <3> QED BY <1>3, <1>14, <1>15, <3>1
  <2>3. PICK m \in Nat : m = Len(kept)
    BY <1>18
  <2>4. /\ features' \in Seq(Nat) /\ Len(features') = m + 1 /\ features'[m + 1] = T + 1
        /\ \A n \in 1..m : features'[n] = kept[n]
    BY <1>18, <2>1, <2>3
  <2>5. CaptureTypes'
    <3>1. total' \in Nat /\ invalid' \in Nat
      BY <1>18, <2>1
    <3> QED BY <1>1, <1>3, <1>25, <2>4, <3>1 DEF CaptureTypes
  <2>6. Sampled' = Kept \cup {T + 1}
    <3>1. /\ \A n \in 1..(m + 1) : n \in 1..m \/ n = m + 1
          /\ \A n \in 1..m : n \in 1..(m + 1)
          /\ m + 1 \in 1..(m + 1)
      OBVIOUS
    <3>2. Sampled' = {features'[n] : n \in 1..(m + 1)}
      BY <2>4 DEF Sampled
    <3>3. Kept = {kept[n] : n \in 1..m}
      BY <1>16, <2>3
    <3> QED BY <2>4, <3>1, <3>2, <3>3
  <2>7. Stillness(T + 1)'
    <3>1. T + 1 \in 1..Len(seen') /\ Faced(T + 1)' /\ seen'[T + 1].at >= Settle
      BY <1>3, <1>10, <2>2
    <3>2. j \in 1..(T + 1) /\ Faced(j)' /\ seen'[T + 1].at - seen'[j].at >= Still
      BY <1>3, <1>19, <2>2
    <3>3. /\ \A k \in j..(T + 1) : Faced(k)' => seen'[k].face = seen'[T + 1].face
          /\ phase' = "training" => \A k \in j..(T + 1) : ~Lost(k)'
      BY <1>3, <1>19
    <3> QED BY <3>1, <3>2, <3>3 DEF Stillness
  <2>8. StillnessInv'
    <3>1. \A i \in Sampled' : Stillness(i)'
      BY <1>22, <2>6, <2>7
    <3>2. phase = "training" =>
            \A i \in Sampled', k \in 1..(T + 1) : i <= k /\ Faced(k)' => seen'[k].face = f.face
      <4>1. \A k \in 1..(T + 1) : T + 1 <= k => k = T + 1
        OBVIOUS
      <4> QED BY <1>3, <1>21, <2>6, <4>1
    <3> QED BY <1>3, <1>10, <3>1, <3>2 DEF StillnessInv
  <2>9. TallyInv'
    <3>1. total' = Len(features') + invalid'
      <4>1. count = m + spoiled
        BY <1>18, <2>3
      <4> QED BY <1>18, <2>1, <2>4, <4>1
    <3>2. phase = "validation" => total' = Cardinality(Target!Settled)'
      BY <1>14, <1>18, <1>23, <2>1, <2>2
    <3> QED BY <1>3, <3>1, <3>2 DEF TallyInv
  <2>10. AskedInv'
    <3>1. PICK more \in BOOLEAN : \E needed :
            /\ more => ~extended
            /\ more => needed = 2 * Enough
            /\ ~more => needed = required
            /\ required' = needed /\ extended' = (extended \/ more)
            /\ over' => Len(kept) + 1 >= needed
      BY <1>13, <1>27
    <3>2. /\ more => required' = 2 * Enough
          /\ ~more => required' = required
          /\ extended' <=> (extended \/ more)
      BY <3>1
    <3>3. over' => Len(features') >= required'
      BY <2>3, <2>4, <3>1
    <3>4. /\ extended => required = 2 * Enough
          /\ ~extended => required = Enough
      BY <1>1 DEF AskedInv
    <3> QED BY <3>1, <3>2, <3>3, <3>4 DEF AskedInv
  <2>11. HoldInv'
    BY <1>3 DEF HoldInv
  <2> QED BY <1>3, <1>20, <2>5, <2>8, <2>9, <2>10, <2>11 DEF CaptureInv
<1> QED BY <1>26, <1>27

\* A frame while the face is looked for.
LEMMA CapturePositioning ==
  ASSUME CaptureInv, NEW d \in 1..(FrameGap + 1), NEW face \in Target!Faces,
         NEW f, f = [at |-> Target!Last + d, face |-> face], Target!See(f),
         phase = "positioning", Target!OutOfPlace(f) \/ Target!InPlace(f),
         invalid' = invalid, required' = required, extended' = extended
  PROVE  CaptureInv'
<1>1. CaptureTypes /\ ClockInv /\ TallyInv /\ AskedInv /\ HoldInv
  BY DEF CaptureInv
<1>2. PICK T \in Nat : T = Len(seen)
  BY <1>1 DEF CaptureTypes
<1>3. /\ f.at \in Nat /\ f.face = face /\ ~over /\ phase' = phase /\ Target!N = T + 1
      /\ seen' \in Seq(FrameType) /\ Len(seen') = T + 1 /\ seen'[T + 1] = f
      /\ \A k \in 1..T : seen'[k] = seen[k] /\ seen[k].at \in Nat /\ seen[k].at < f.at
      /\ \A k \in 1..(T + 1) : k \in 1..T \/ k = T + 1
      /\ \A k \in 1..T : k \in 1..(T + 1) /\ k # T + 1
      /\ T + 1 \in 1..(T + 1)
      /\ ClockInv'
      /\ T > 0 => f.at = seen[T].at + d
  BY <1>1, <1>2, SeenMore
<1>4. StretchInv' /\ StillnessInv'
  BY <1>3 DEF StretchInv, StillnessInv
<1>5. AskedInv'
  BY <1>1, <1>3 DEF AskedInv
<1>6. total \in Nat /\ invalid = 0 /\ features \in Seq(Nat) /\ total = Len(features) /\ since \in Int
  <2>1. PICK m \in Nat : m = Len(features)
    BY <1>1 DEF CaptureTypes
  <2>2. invalid = 0 /\ total = m + invalid
    BY <1>1, <2>1 DEF TallyInv
  <2>3. total = m
    BY <2>1, <2>2
  <2> QED BY <1>1, <2>1, <2>2, <2>3 DEF CaptureTypes
<1>7. CASE Target!OutOfPlace(f)
  <2>1. /\ anchor' = Target!Nowhere /\ since' = Target!Unset /\ features' = <<>> /\ total' = 0
        /\ over' = FALSE
    BY <1>7 DEF Target!OutOfPlace
  <2>2. features' \in Seq(Nat) /\ Len(features') = 0
    BY <2>1
  <2>3. CaptureTypes'
    <3>1. since' \in Int
      BY <2>1 DEF Target!Unset
    <3> QED BY <1>1, <1>3, <2>1, <2>2, <3>1 DEF CaptureTypes
  <2>4. TallyInv'
    BY <1>3, <1>6, <2>1, <2>2 DEF TallyInv
  <2>5. HoldInv'
    BY <2>1 DEF HoldInv
  <2> QED BY <1>3, <1>4, <1>5, <2>3, <2>4, <2>5 DEF CaptureInv
<1>8. CASE Target!InPlace(f)
  <2>1. PICK again \in BOOLEAN : again <=>
          anchor = Target!Nowhere \/ f.face # anchor \/ f.at - Target!Last > FrameGap
    OBVIOUS
  <2>2. PICK start : start = IF again THEN f.at ELSE since
    OBVIOUS
  <2>3. PICK held : held = IF f.at - start < Hold THEN f.at - start ELSE Hold
    OBVIOUS
  <2>4. PICK kept : kept = IF held = 0 THEN <<>> ELSE features
    OBVIOUS
  <2>5. /\ f.face \in Target!Poses
        /\ anchor' = (IF again THEN f.face ELSE anchor) /\ since' = start
        /\ features' = Append(kept, T + 1) /\ total' = Len(kept) + 1
        /\ over' => held >= Hold
    BY <1>3, <1>8, <2>1, <2>2, <2>3, <2>4 DEF Target!InPlace
  <2>6. anchor' = f.face /\ anchor' \in Target!Poses
    BY <2>1, <2>5
  <2>7. Hold \in Nat /\ Hold > 0 /\ FrameGap \in Nat
    BY CaptureNumbers
  <2>8. kept \in Seq(Nat)
    BY <1>6, <2>4
  <2>9. PICK m \in Nat : m = Len(kept)
    BY <2>8
  <2>10. /\ features' \in Seq(Nat) /\ Len(features') = m + 1 /\ features'[m + 1] = T + 1
         /\ \A n \in 1..m : features'[n] = kept[n]
    BY <2>5, <2>8, <2>9
  <2>11. \E j \in 1..(T + 1) :
           /\ seen'[j].at = start /\ start \in Int
           /\ features' = [k \in 1..((T + 1) - j + 1) |-> j + k - 1]
           /\ \A k \in j..(T + 1) : seen'[k].face = f.face
           /\ \A k \in j..T : seen'[k + 1].at - seen'[k].at <= FrameGap
    <3>1. CASE again
      <4>1. start = f.at
        BY <2>2, <3>1
      <4>2. held = 0
        BY <1>3, <2>3, <2>7, <4>1
      <4>3. kept = <<>>
        BY <2>4, <4>2
      <4>4. features' = <<T + 1>>
        BY <2>5, <4>3
      <4>5. features' = [k \in 1..((T + 1) - (T + 1) + 1) |-> (T + 1) + k - 1]
        <5>1. (T + 1) - (T + 1) + 1 = 1
          OBVIOUS
        <5>2. \A k \in 1..1 : (T + 1) + k - 1 = T + 1
          OBVIOUS
        <5>3. <<T + 1>> = [k \in 1..1 |-> T + 1]
          OBVIOUS
        <5> QED BY <4>4, <5>1, <5>2, <5>3
      <4>6. /\ \A k \in (T + 1)..(T + 1) : k = T + 1
            /\ (T + 1)..T = {}
        OBVIOUS
      <4>7. seen'[T + 1].at = start /\ start \in Int
        BY <1>3, <4>1
      <4> QED BY <1>3, <4>5, <4>6, <4>7
    <3>2. CASE ~again
      <4>1. /\ start = since /\ anchor # Target!Nowhere /\ f.face = anchor
            /\ ~(f.at - Target!Last > FrameGap)
        BY <2>1, <2>2, <3>2
      <4>2. PICK j \in 1..T :
              /\ seen[j].at = since
              /\ features = [k \in 1..(T - j + 1) |-> j + k - 1]
              /\ \A k \in j..T : seen[k].face = anchor
              /\ \A k \in j..(T - 1) : seen[k + 1].at - seen[k].at <= FrameGap
        BY <1>1, <1>2, <4>1 DEF HoldInv
      <4>3. seen[j].at < f.at /\ seen[j].at \in Nat
        BY <1>3
      <4>4. held # 0
        BY <1>3, <2>3, <2>7, <4>1, <4>2, <4>3
      <4>5. kept = features
        BY <2>4, <4>4
      <4>6. m = T - j + 1
        BY <2>9, <4>2, <4>5
      <4>7. features' = [k \in 1..((T + 1) - j + 1) |-> j + k - 1]
        <5>1. (T + 1) - j + 1 = m + 1 /\ j + (m + 1) - 1 = T + 1
          BY <4>6
        <5>2. \A k \in 1..(m + 1) : features'[k] = j + k - 1
          <6>1. \A k \in 1..m : kept[k] = j + k - 1
            BY <4>2, <4>5, <4>6
          <6>2. \A k \in 1..(m + 1) : k \in 1..m \/ k = m + 1
            OBVIOUS
          <6> QED BY <2>10, <5>1, <6>1, <6>2
        <5>3. features' = [k \in 1..(m + 1) |-> features'[k]]
          BY <2>10
        <5> QED BY <5>1, <5>2, <5>3
      <4>8. \A k \in j..(T + 1) : (k \in 1..T /\ k \in j..T) \/ k = T + 1
        OBVIOUS
      <4>9. \A k \in j..(T + 1) : seen'[k].face = f.face
        BY <1>3, <4>1, <4>2, <4>8
      <4>10. ASSUME NEW k \in j..T
             PROVE  seen'[k + 1].at - seen'[k].at <= FrameGap
        <5>1. k \in 1..T /\ T > 0 /\ T \in 1..T
          OBVIOUS
        <5>2. CASE k = T
          <6>1. Target!Last = seen[T].at
            <7>1. seen # <<>>
              BY <1>2, <5>1
            <7> QED BY <1>2, <7>1 DEF Target!Last
          <6>2. seen[T].at \in Nat /\ seen'[T].at = seen[T].at /\ seen'[T + 1].at = f.at
            BY <1>3, <5>1
          <6> QED BY <1>3, <2>7, <4>1, <5>2, <6>1, <6>2
        <5>3. CASE k # T
          <6>1. k \in j..(T - 1) /\ k + 1 \in 1..T
            BY <5>1, <5>3
          <6> QED BY <1>3, <4>2, <5>1, <6>1
        <5> QED BY <5>2, <5>3
      <4>11. j \in 1..(T + 1) /\ seen'[j].at = start /\ start \in Int
        BY <1>3, <1>6, <4>1, <4>2
      <4> QED BY <4>7, <4>9, <4>10, <4>11
    <3> QED BY <3>1, <3>2
  <2>12. start \in Int /\ held \in Int
    BY <1>3, <2>3, <2>7, <2>11
  <2>13. over' => seen'[T + 1].at - since' >= Hold
    <3>1. held >= Hold => f.at - start >= Hold
      BY <1>3, <2>3, <2>7, <2>12
    <3> QED BY <1>3, <2>5, <3>1
  <2>14. CaptureTypes'
    <3>1. total' \in Nat /\ invalid' \in Nat
      BY <1>6, <2>5, <2>9
    <3> QED BY <1>1, <1>3, <2>5, <2>6, <2>10, <2>12, <3>1 DEF CaptureTypes
  <2>15. TallyInv'
    <3>1. total' = Len(features') + invalid' /\ invalid' = 0
      BY <1>6, <2>5, <2>9, <2>10
    <3> QED BY <1>3, <3>1 DEF TallyInv
  <2>16. HoldInv'
    <3>1. anchor' # Target!Nowhere
      BY <2>6 DEF Target!Poses, Target!Nowhere
    <3>2. (T + 1) - 1 = T
      OBVIOUS
    <3> QED BY <1>3, <2>5, <2>6, <2>11, <2>13, <3>1, <3>2 DEF HoldInv
  <2> QED BY <1>3, <1>4, <1>5, <2>14, <2>15, <2>16 DEF CaptureInv
<1> QED BY <1>7, <1>8

LEMMA TargetStep ==
  ASSUME CaptureInv, Target!Next
  PROVE  CaptureInv'
<1>1. PICK d \in 1..(FrameGap + 1), face \in Target!Faces : Target!See([at |-> Target!Last + d, face |-> face])
  BY DEF Target!Next
<1>2. PICK f : f = [at |-> Target!Last + d, face |-> face]
  OBVIOUS
<1>3. Target!See(f)
  BY <1>1, <1>2
<1>4. CASE phase = "positioning"
  <2>1. /\ Target!OutOfPlace(f) \/ Target!InPlace(f)
        /\ invalid' = invalid /\ required' = required /\ extended' = extended
    BY <1>3, <1>4 DEF Target!See
  <2> QED BY <1>2, <1>3, <1>4, <2>1, CapturePositioning
<1>5. CASE phase # "positioning"
  <2>1. Target!Unusable(f) \/ Target!Usable(f)
    BY <1>3, <1>5 DEF Target!See
  <2> QED BY <1>2, <1>3, <1>5, <2>1, CaptureUnusable, CaptureUsable
<1> QED BY <1>4, <1>5

LEMMA CaptureStutter ==
  ASSUME CaptureInv, UNCHANGED targetVars
  PROVE  CaptureInv'
<1>1. /\ phase' = phase /\ seen' = seen /\ features' = features /\ total' = total
      /\ invalid' = invalid /\ anchor' = anchor /\ since' = since
      /\ required' = required /\ extended' = extended /\ over' = over
  BY DEF targetVars
<1>2. CaptureTypes /\ ClockInv /\ StretchInv /\ StillnessInv /\ TallyInv /\ AskedInv /\ HoldInv
  BY DEF CaptureInv
<1>3. /\ Sampled' = Sampled /\ Target!Settled' = Target!Settled
      /\ \A k : (Faced(k)' <=> Faced(k)) /\ (Lost(k)' <=> Lost(k))
  BY <1>1 DEF Sampled, Target!Settled, Faced, Lost
<1>4. \A i : Stillness(i)' <=> Stillness(i)
  BY <1>1, <1>3 DEF Stillness
<1>5. CaptureTypes' /\ ClockInv'
  BY <1>1, <1>2 DEF CaptureTypes, ClockInv
<1>6. StretchInv'
  BY <1>1, <1>2, <1>3 DEF StretchInv
<1>7. StillnessInv'
  BY <1>1, <1>2, <1>3, <1>4 DEF StillnessInv
<1>8. TallyInv' /\ AskedInv'
  BY <1>1, <1>2, <1>3 DEF TallyInv, AskedInv
<1>9. HoldInv'
  BY <1>1, <1>2 DEF HoldInv
<1> QED BY <1>5, <1>6, <1>7, <1>8, <1>9 DEF CaptureInv

\* What the capture promises follows.
LEMMA CaptureSound ==
  ASSUME CaptureInv
  PROVE  Target!CaptureIsSound
<1>1. CaptureTypes /\ StillnessInv /\ TallyInv /\ AskedInv /\ HoldInv
  BY DEF CaptureInv
<1>2. Target!SamplesAreStill
  <2> SUFFICES ASSUME phase \in {"training", "validation"}, NEW n \in 1..Len(features)
               PROVE  /\ seen[features[n]].face \in Target!Poses /\ Target!At(features[n]) >= Settle
                      /\ \E j \in 1..features[n] :
                           /\ seen[j].face \in Target!Poses
                           /\ Target!At(features[n]) - Target!At(j) >= Still
                           /\ Target!Same(j, features[n])
                           /\ phase = "training" =>
                                \A k \in j..features[n] : seen[k].face \notin {"no_face", "blink"}
                      /\ phase = "training" => Target!Same(features[n], features[Len(features)])
    BY DEF Target!SamplesAreStill
  <2>1. PICK i : i = features[n]
    OBVIOUS
  <2>2. PICK m \in Nat : m = Len(features)
    BY <1>1 DEF CaptureTypes
  <2>3. PICK l : l = features[m]
    OBVIOUS
  <2>4. i \in Sampled /\ l \in Sampled
    <3>1. m \in 1..m
      BY <2>2
    <3> QED BY <2>1, <2>2, <2>3, <3>1 DEF Sampled
  <2>5. Stillness(i) /\ Stillness(l)
    BY <1>1, <2>4 DEF StillnessInv
  <2>6. i \in 1..Len(seen) /\ Faced(i) /\ seen[i].at >= Settle /\ l \in 1..Len(seen) /\ Faced(l)
    BY <2>5 DEF Stillness
  <2>7. PICK j \in 1..i :
          /\ Faced(j) /\ seen[i].at - seen[j].at >= Still
          /\ \A k \in j..i : Faced(k) => seen[k].face = seen[i].face
          /\ phase = "training" => \A k \in j..i : ~Lost(k)
    BY <2>5 DEF Stillness
  <2>8. Target!Same(j, i)
    BY <2>7 DEF Target!Same, Faced
  <2>9. phase = "training" => Target!Same(i, l)
    <3> SUFFICES ASSUME phase = "training" PROVE Target!Same(i, l)
      OBVIOUS
    <3>1. PICK T \in Nat : T = Len(seen)
      BY <1>1 DEF CaptureTypes
    <3>2. \A q \in Sampled, k \in 1..T : q <= k /\ Faced(k) => seen[k].face = anchor
      BY <1>1, <3>1 DEF StillnessInv
    <3>3. l <= l /\ l \in 1..T /\ i \in 1..T
      BY <2>6, <3>1
    <3>4. seen[l].face = anchor
      BY <2>4, <2>6, <3>2, <3>3
    <3>5. \A k \in i..l : k \in 1..T /\ i <= k
      BY <3>3
    <3>6. \A k \in i..l : Faced(k) => seen[k].face = anchor
      BY <2>4, <3>2, <3>5
    <3> QED BY <3>4, <3>6 DEF Target!Same, Faced
  <2> QED BY <2>1, <2>2, <2>3, <2>6, <2>7, <2>8, <2>9 DEF Target!At, Faced, Lost
<1>3. Target!NothingUncounted
  BY <1>1 DEF Target!NothingUncounted, TallyInv, AskedInv, Target!Cardinality, Cardinality
<1>4. Target!HeldInPlace
  <2> SUFFICES ASSUME phase = "positioning", over
               PROVE  LET i == features[1]  n == Len(seen) IN
                      /\ Target!At(n) - Target!At(i) >= Hold
                      /\ features = [k \in 1..(n - i + 1) |-> i + k - 1]
                      /\ \A k \in i..n : seen[k].face = seen[n].face
                      /\ \A k \in i..(n - 1) : Target!At(k + 1) - Target!At(k) <= FrameGap
    BY DEF Target!HeldInPlace
  <2>1. PICK T \in Nat : T = Len(seen)
    BY <1>1 DEF CaptureTypes
  <2>2. anchor # Target!Nowhere /\ seen[T].at - since >= Hold
    BY <1>1, <2>1 DEF HoldInv
  <2>3. PICK j \in 1..T :
          /\ seen[j].at = since
          /\ features = [k \in 1..(T - j + 1) |-> j + k - 1]
          /\ \A k \in j..T : seen[k].face = anchor
          /\ \A k \in j..(T - 1) : seen[k + 1].at - seen[k].at <= FrameGap
    BY <1>1, <2>1, <2>2 DEF HoldInv
  <2>4. features[1] = j
    <3>1. 1 \in 1..(T - j + 1) /\ j + 1 - 1 = j
      OBVIOUS
    <3> QED BY <2>3, <3>1
  <2>5. \A k \in j..T : seen[k].face = seen[T].face
    <3>1. T \in j..T
      OBVIOUS
    <3> QED BY <2>3, <3>1
  <2> QED BY <2>1, <2>2, <2>3, <2>4, <2>5 DEF Target!At
<1> QED BY <1>2, <1>3, <1>4 DEF Target!CaptureIsSound

-----------------------------------------------------------------------------
(* The training of a model.                                                 *)

\* The model has learned enough of every point.
Covers == \A i \in 1..TrainingPoints, k \in 1..EnoughSamples : <<i, k>> \in trainedModel.learned

\* Every prediction, by its error and its number among those.
Missed == {m \in Errors \X (1..usable) : m[2] <= missed[m[1]]}
AtMost(e) == {m \in Errors \X (1..usable) : m[1] <= e /\ m[2] <= missed[m[1]]}
Below(e) == {m \in Errors \X (1..usable) : m[1] < e /\ m[2] <= missed[m[1]]}

\* Every usable frame has missed by one error.
ErrorInv ==
  /\ usable \in Nat /\ missed \in [Errors -> Nat]
  /\ \A e \in Errors : missed[e] <= usable
  /\ Cardinality(Missed) = usable

LearningInv ==
  /\ trainingPhase \in {"file", "training", "validation", "over"}
  /\ trainingPhase \in {"file", "training"} =>
       /\ point \in 1..TrainingPoints /\ counted \in [1..TrainingPoints -> Nat]
       /\ trainedModel = Training!Untrained
       /\ \A i \in 1..TrainingPoints, k \in Nat : k >= 1 /\ k <= counted[i] => <<i, k>> \in learned
  /\ trainingPhase = "validation" =>
       point \in 1..ValidationPoints /\ counted \in [1..ValidationPoints -> Nat] /\ Covers

\* A model that is kept was judged.
JudgementInv ==
  /\ trainingPhase # "over" => reason = "none"
  /\ trainingPhase = "over" /\ reason # "valid" => trainedModel = Training!Untrained
  /\ trainingPhase = "over" /\ reason = "valid" =>
       /\ Covers /\ counted \in [1..ValidationPoints -> Nat]
       /\ \A i \in 1..ValidationPoints : counted[i] >= EnoughFrames
       /\ 2 * Cardinality(AtMost(MedianGate)) >= usable

TrainingInv == ErrorInv /\ LearningInv /\ JudgementInv /\ file \in {"absent", "right"}

LEMMA TrainingNumbers ==
  /\ TrainingPoints \in Nat /\ TrainingPoints >= 1 /\ ValidationPoints \in Nat /\ ValidationPoints >= 1
  /\ EnoughSamples \in Nat /\ EnoughSamples >= 1 /\ EnoughFrames \in Nat
  /\ MedianGate \in Nat /\ TailGate \in Nat /\ MaxShown \in Nat
  /\ IsFiniteSet(Errors) /\ \A e \in Errors : e \in Nat
  /\ \E m \in Nat : \A e \in Errors : e <= m
<1>1. \A h \in Nat \ {0} : h \in Nat /\ h >= 1
  OBVIOUS
<1>2. PICK m \in Errors : \A e \in Errors : e <= m
  BY TrainingAssumption DEF TrainingAssumption
<1>3. Errors \subseteq Nat
  BY TrainingAssumption DEF TrainingAssumption
<1>4. \A e \in Errors : e \in 0..m
  BY <1>2, <1>3
<1>5. IsFiniteSet(0..m)
  BY <1>3, FS_Interval
<1>6. Errors \in SUBSET (0..m)
  BY <1>4
<1>7. IsFiniteSet(Errors)
  BY <1>5, <1>6, FS_Subset
<1> QED BY <1>1, <1>2, <1>3, <1>7, TrainingAssumption DEF TrainingAssumption

\* The predictions are finitely many.
LEMMA MissedFinite ==
  ASSUME usable \in Nat
  PROVE  /\ IsFiniteSet(Missed) /\ \A e : IsFiniteSet(AtMost(e)) /\ IsFiniteSet(Below(e))
         /\ \A e : Cardinality(AtMost(e)) \in Nat /\ Cardinality(Below(e)) \in Nat
<1>1. IsFiniteSet(Errors) /\ IsFiniteSet(1..usable)
  BY TrainingNumbers, FS_Interval
<1>2. IsFiniteSet(Errors \X (1..usable))
  BY <1>1, FS_Product
<1>3. /\ Missed \in SUBSET (Errors \X (1..usable))
      /\ \A e : AtMost(e) \in SUBSET (Errors \X (1..usable))
      /\ \A e : Below(e) \in SUBSET (Errors \X (1..usable))
  BY DEF Missed, AtMost, Below
<1>4. IsFiniteSet(Missed) /\ \A e : IsFiniteSet(AtMost(e)) /\ IsFiniteSet(Below(e))
  BY <1>2, <1>3, FS_Subset
<1> QED BY <1>4, FS_CardinalityType

\* The k-th smallest error is one.
LEMMA KthExists ==
  ASSUME ErrorInv, NEW k \in Nat, k >= 1, k <= usable
  PROVE  \E e \in Errors : Cardinality(AtMost(e)) >= k /\ Cardinality(Below(e)) < k
<1>1. /\ usable \in Nat /\ missed \in [Errors -> Nat] /\ Cardinality(Missed) = usable
  BY DEF ErrorInv
<1>2. \A e : Cardinality(AtMost(e)) \in Nat /\ Cardinality(Below(e)) \in Nat
  BY <1>1, MissedFinite
<1>3. PICK T \in SUBSET Nat : T = {n \in Nat : Cardinality(AtMost(n)) >= k}
  OBVIOUS
<1>4. T # {}
  <2>1. PICK M \in Nat : \A e \in Errors : e <= M
    BY TrainingNumbers
  <2>2. AtMost(M) = Missed
    <3>1. \A m \in Errors \X (1..usable) : m[1] <= M
      BY <2>1
    <3> QED BY <3>1 DEF AtMost, Missed
  <2>3. Cardinality(AtMost(M)) >= k
    BY <1>1, <2>2
  <2> QED BY <1>3, <2>1, <2>3
<1>5. PICK n \in T : \A x \in T : n <= x
  BY <1>4, Least
<1>6. n \in Nat /\ Cardinality(AtMost(n)) >= k
  BY <1>3
<1>7. Cardinality(Below(n)) < k
  <2>1. CASE n = 0
    <3>1. Below(n) = {}
      <4>1. \A m \in Errors \X (1..usable) : m[1] \in Nat
        BY TrainingNumbers
      <4>2. \A i \in Nat : ~(i < 0)
        OBVIOUS
      <4> QED BY <2>1, <4>1, <4>2 DEF Below
    <3>2. Cardinality(Below(n)) = 0
      BY <3>1, FS_EmptySet
    <3> QED BY <3>2
  <2>2. CASE n # 0
    <3>1. PICK p \in Nat : p = n - 1
      BY <1>6, <2>2
    <3>2. Below(n) = AtMost(p)
      <4>1. \A m \in Errors \X (1..usable) : m[1] \in Nat
        BY TrainingNumbers
      <4>2. \A i \in Nat : i < n <=> i <= p
        BY <1>6, <3>1
      <4> QED BY <4>1, <4>2 DEF Below, AtMost
    <3>3. p \notin T
      BY <1>5, <1>6, <3>1
    <3>4. ~(Cardinality(AtMost(p)) >= k)
      BY <1>3, <3>3
    <3> QED BY <1>2, <3>2, <3>4
  <2> QED BY <2>1, <2>2
<1>8. n \in Errors
  <2>1. CASE n \notin Errors
    <3>1. AtMost(n) = Below(n)
      <4>1. \A m \in Errors \X (1..usable) : m[1] \in Nat /\ m[1] # n
        BY <2>1, TrainingNumbers
      <4>2. \A i \in Nat : i # n => (i < n <=> i <= n)
        BY <1>6
      <4> QED BY <4>1, <4>2 DEF Below, AtMost
    <3>2. Cardinality(Below(n)) >= k
      BY <1>6, <3>1
    <3> QED BY <1>2, <1>7, <3>2
  <2> QED BY <2>1
<1> QED BY <1>6, <1>7, <1>8

LEMMA KthIs ==
  ASSUME ErrorInv, NEW k \in Nat, k >= 1, k <= usable
  PROVE  /\ Training!Kth(k) \in Errors
         /\ Cardinality(AtMost(Training!Kth(k))) >= k /\ Cardinality(Below(Training!Kth(k))) < k
<1>1. \E e \in Errors : Cardinality(AtMost(e)) >= k /\ Cardinality(Below(e)) < k
  BY KthExists
<1>2. Training!Kth(k) = CHOOSE e \in Errors : Cardinality(AtMost(e)) >= k /\ Cardinality(Below(e)) < k
  BY DEF Training!Kth, AtMost, Below, Training!Cardinality, Cardinality
<1> QED BY <1>1, <1>2

\* They are in order.
LEMMA KthOrdered ==
  ASSUME ErrorInv, NEW k \in Nat, k >= 1, k + 1 <= usable
  PROVE  Training!Kth(k) <= Training!Kth(k + 1)
<1>1. usable \in Nat /\ k <= usable /\ k + 1 \in Nat /\ k + 1 >= 1
  BY DEF ErrorInv
<1>2. PICK a \in Errors : a = Training!Kth(k) /\ Cardinality(Below(a)) < k
  BY <1>1, KthIs
<1>3. PICK b \in Errors : b = Training!Kth(k + 1) /\ Cardinality(AtMost(b)) >= k + 1
  BY <1>1, KthIs
<1>4. a \in Nat /\ b \in Nat
  BY TrainingNumbers
<1>5. CASE a > b
  <2>1. AtMost(b) \subseteq Below(a)
    <3>1. \A m \in Errors \X (1..usable) : m[1] \in Nat
      BY TrainingNumbers
    <3>2. \A i \in Nat : i <= b => i < a
      BY <1>4, <1>5
    <3> QED BY <3>1, <3>2 DEF AtMost, Below
  <2>2. IsFiniteSet(Below(a)) /\ Cardinality(Below(a)) \in Nat /\ Cardinality(AtMost(b)) \in Nat
    BY <1>1, MissedFinite
  <2>3. Cardinality(AtMost(b)) <= Cardinality(Below(a))
    BY <2>1, <2>2, FS_Subset
  <2> QED BY <1>2, <1>3, <2>2, <2>3
<1> QED BY <1>2, <1>3, <1>4, <1>5

\* Half of the predictions are within the gate of the median.
LEMMA MedianSound ==
  ASSUME ErrorInv, usable >= 1, Training!Percentile(10) <= 20 * MedianGate
  PROVE  2 * Cardinality(AtMost(MedianGate)) >= usable
<1>1. usable \in Nat /\ MedianGate \in Nat
  BY TrainingNumbers DEF ErrorInv
<1>2. PICK k \in Nat, r \in {0, 10} :
        /\ k = ((usable - 1) * 10) \div 20 /\ r = ((usable - 1) * 10) % 20
        /\ r = 0 => usable = 2 * k + 1
        /\ r = 10 => usable = 2 * k + 2
  BY <1>1
<1>3. k + 1 \in Nat /\ k + 1 >= 1 /\ k + 1 <= usable /\ k + 2 = (k + 1) + 1
  BY <1>1, <1>2
<1>4. PICK a \in Errors : a = Training!Kth(k + 1) /\ Cardinality(AtMost(a)) >= k + 1
  BY <1>3, KthIs
<1>5. a \in Nat
  BY TrainingNumbers
<1>6. Training!Percentile(10) = 20 * a + IF r = 0 THEN 0 ELSE r * (Training!Kth(k + 2) - a)
  BY <1>2, <1>4 DEF Training!Percentile
<1>7. a <= MedianGate
  <2>1. CASE r = 0
    <3>1. 20 * a + 0 <= 20 * MedianGate
      BY <1>6, <2>1
    <3> QED BY <1>1, <1>5, <3>1
  <2>2. CASE r = 10
    <3>1. (k + 1) + 1 <= usable
      BY <1>1, <1>2, <2>2
    <3>2. PICK b \in Errors : b = Training!Kth(k + 2)
      BY <1>3, <3>1, KthIs
    <3>3. a <= b /\ b \in Nat
      BY <1>3, <1>4, <3>1, <3>2, KthOrdered, TrainingNumbers
    <3>4. 20 * a + 10 * (b - a) <= 20 * MedianGate
      BY <1>6, <2>2, <3>2
    <3> QED BY <1>1, <1>5, <3>3, <3>4
  <2> QED BY <1>2, <2>1, <2>2
<1>8. AtMost(a) \subseteq AtMost(MedianGate)
  <2>1. \A m \in Errors \X (1..usable) : m[1] \in Nat
    BY TrainingNumbers
  <2>2. \A i \in Nat : i <= a => i <= MedianGate
    BY <1>1, <1>5, <1>7
  <2> QED BY <2>1, <2>2 DEF AtMost
<1>9. IsFiniteSet(AtMost(MedianGate)) /\ Cardinality(AtMost(MedianGate)) \in Nat
      /\ Cardinality(AtMost(a)) \in Nat
  BY <1>1, MissedFinite
<1>10. Cardinality(AtMost(a)) <= Cardinality(AtMost(MedianGate))
  BY <1>8, <1>9, FS_Subset
<1>11. Cardinality(AtMost(MedianGate)) >= k + 1
  BY <1>4, <1>9, <1>10
<1> QED BY <1>1, <1>2, <1>9, <1>11

LEMMA TrainingStart ==
  ASSUME Training!TrainingInit
  PROVE  TrainingInv
<1>1. /\ file \in {"absent", "right"} /\ trainingPhase = "file"
      /\ point = 1 /\ counted = [i \in 1..TrainingPoints |-> 0] /\ learned = {}
      /\ usable = 0 /\ missed = [e \in Errors |-> 0] /\ trainedModel = Training!Untrained
      /\ reason = "none"
  BY DEF Training!TrainingInit, Training!Nothing
<1>2. ErrorInv
  <2>1. 1..usable = {}
    BY <1>1
  <2>2. Missed = {}
    <3>1. Errors \X (1..usable) = {}
      BY <2>1
    <3> QED BY <3>1 DEF Missed
  <2>3. Cardinality(Missed) = 0
    BY <2>2, FS_EmptySet
  <2>4. missed \in [Errors -> Nat] /\ \A e \in Errors : missed[e] <= usable
    BY <1>1
  <2> QED BY <1>1, <2>3, <2>4 DEF ErrorInv
<1>3. LearningInv
  <2>1. point \in 1..TrainingPoints
    BY <1>1, TrainingNumbers
  <2>2. counted \in [1..TrainingPoints -> Nat] /\ \A i \in 1..TrainingPoints : counted[i] = 0
    BY <1>1
  <2>3. \A i \in 1..TrainingPoints, k \in Nat : k >= 1 /\ k <= counted[i] => <<i, k>> \in learned
    BY <2>2
  <2> QED BY <1>1, <2>1, <2>2, <2>3 DEF LearningInv
<1>4. JudgementInv
  BY <1>1 DEF JudgementInv
<1> QED BY <1>1, <1>2, <1>3, <1>4 DEF TrainingInv

\* What leaves the errors alone.
LEMMA ErrorStutter ==
  ASSUME ErrorInv, usable' = usable, missed' = missed
  PROVE  ErrorInv' /\ \A e : AtMost(e)' = AtMost(e)
<1>1. Missed' = Missed /\ \A e : AtMost(e)' = AtMost(e)
  BY DEF Missed, AtMost
<1> QED BY <1>1 DEF ErrorInv

\* A training ends.
LEMMA TrainingEnds ==
  ASSUME TrainingInv, NEW why, Training!Over(why),
         why = "valid" => /\ Covers /\ counted \in [1..ValidationPoints -> Nat]
                          /\ \A i \in 1..ValidationPoints : counted[i] >= EnoughFrames
                          /\ 2 * Cardinality(AtMost(MedianGate)) >= usable
  PROVE  TrainingInv'
<1>1. /\ trainingPhase' = "over" /\ reason' = why
      /\ why = "valid" => trainedModel' = trainedModel
      /\ why # "valid" => trainedModel' = Training!Untrained
      /\ file' = file /\ counted' = counted /\ usable' = usable /\ missed' = missed
  BY DEF Training!Over, Training!LeaveModel, Training!files
<1>2. ErrorInv' /\ \A e : AtMost(e)' = AtMost(e)
  BY <1>1, ErrorStutter DEF TrainingInv
<1>3. LearningInv'
  BY <1>1 DEF LearningInv
<1>4. JudgementInv'
  <2>1. CASE why = "valid"
    <3>1. Covers'
      BY <1>1, <2>1 DEF Covers
    <3>2. Cardinality(AtMost(MedianGate))' = Cardinality(AtMost(MedianGate))
      BY <1>2
    <3> QED BY <1>1, <2>1, <3>1, <3>2 DEF JudgementInv
  <2>2. CASE why # "valid"
    BY <1>1, <2>2 DEF JudgementInv, Training!Untrained
  <2> QED BY <2>1, <2>2
<1>5. file' \in {"absent", "right"}
  BY <1>1 DEF TrainingInv
<1> QED BY <1>2, <1>3, <1>4, <1>5 DEF TrainingInv

\* What the sources of frames and the face model's file leave alone.
LEMMA TrainingKept ==
  ASSUME TrainingInv, usable' = usable, missed' = missed, trainedModel' = trainedModel,
         reason' = reason, counted' = counted, learned' = learned,
         file' = file \/ file' = "right",
         \/ trainingPhase' = trainingPhase /\ point' = point
         \/ trainingPhase = "file" /\ trainingPhase' = "training" /\ point' = point
         \/ /\ trainingPhase' = trainingPhase /\ point' = point + 1
            /\ \/ trainingPhase = "training" /\ point < TrainingPoints
               \/ trainingPhase = "validation" /\ point < ValidationPoints
  PROVE  TrainingInv'
<1>1. ErrorInv /\ LearningInv /\ JudgementInv
  BY DEF TrainingInv
<1>2. ErrorInv' /\ \A e : AtMost(e)' = AtMost(e)
  BY <1>1, ErrorStutter
<1>3. Covers' <=> Covers
  BY DEF Covers
<1>4. TrainingPoints \in Nat /\ ValidationPoints \in Nat
  BY TrainingNumbers
<1>5. LearningInv'
  <2>1. CASE point' = point
    BY <1>1, <1>3, <2>1 DEF LearningInv
  <2>2. CASE point' = point + 1 /\ trainingPhase' = trainingPhase
             /\ trainingPhase = "training" /\ point < TrainingPoints
    <3>1. point \in 1..TrainingPoints
      BY <1>1, <2>2 DEF LearningInv
    <3>2. point' \in 1..TrainingPoints
      BY <1>4, <2>2, <3>1
    <3> QED BY <1>1, <2>2, <3>2 DEF LearningInv
  <2>3. CASE point' = point + 1 /\ trainingPhase' = trainingPhase
             /\ trainingPhase = "validation" /\ point < ValidationPoints
    <3>1. point \in 1..ValidationPoints
      BY <1>1, <2>3 DEF LearningInv
    <3>2. point' \in 1..ValidationPoints
      BY <1>4, <2>3, <3>1
    <3> QED BY <1>1, <1>3, <2>3, <3>2 DEF LearningInv
  <2> QED BY <2>1, <2>2, <2>3
<1>6. JudgementInv'
  <2>1. Cardinality(AtMost(MedianGate))' = Cardinality(AtMost(MedianGate))
    BY <1>2
  <2>2. trainingPhase' # "over" => trainingPhase # "over"
    OBVIOUS
  <2>3. trainingPhase' = "over" => trainingPhase = "over"
    OBVIOUS
  <2> QED BY <1>1, <1>3, <2>1, <2>2, <2>3 DEF JudgementInv
<1>7. file' \in {"absent", "right"}
  BY DEF TrainingInv
<1> QED BY <1>2, <1>5, <1>6, <1>7 DEF TrainingInv

\* A frame more of a point.
LEMMA FrameCounted ==
  ASSUME NEW m \in Nat, counted \in [1..m -> Nat], point \in 1..m,
         counted' = [counted EXCEPT ![point] = @ + 1]
  PROVE  /\ counted' \in [1..m -> Nat] /\ counted'[point] = counted[point] + 1
         /\ \A i \in 1..m : i # point => counted'[i] = counted[i]
  OBVIOUS

LEMMA TrainingSampled ==
  ASSUME TrainingInv, Training!Sample
  PROVE  TrainingInv'
<1>1. ErrorInv /\ LearningInv /\ JudgementInv /\ file \in {"absent", "right"}
  BY DEF TrainingInv
<1>2. /\ trainingPhase = "training" /\ trainingPhase' = trainingPhase /\ file' = file
      /\ counted' = [counted EXCEPT ![point] = @ + 1]
      /\ learned' = learned \cup {<<point, counted[point] + 1>>}
      /\ point' = point /\ usable' = usable /\ missed' = missed
      /\ trainedModel' = trainedModel /\ reason' = reason
  BY DEF Training!Sample, Training!Advance, Training!files
<1>3. ErrorInv'
  BY <1>1, <1>2, ErrorStutter
<1>4. /\ point \in 1..TrainingPoints /\ counted \in [1..TrainingPoints -> Nat]
      /\ trainedModel = Training!Untrained
      /\ \A i \in 1..TrainingPoints, k \in Nat : k >= 1 /\ k <= counted[i] => <<i, k>> \in learned
  BY <1>1, <1>2 DEF LearningInv
<1>5. TrainingPoints \in Nat
  BY TrainingNumbers
<1>6. /\ counted' \in [1..TrainingPoints -> Nat] /\ counted'[point] = counted[point] + 1
      /\ \A i \in 1..TrainingPoints : i # point => counted'[i] = counted[i]
  BY <1>2, <1>4, <1>5, FrameCounted
<1>7. \A i \in 1..TrainingPoints, k \in Nat : k >= 1 /\ k <= counted'[i] => <<i, k>> \in learned'
  <2> SUFFICES ASSUME NEW i \in 1..TrainingPoints, NEW k \in Nat, k >= 1, k <= counted'[i]
               PROVE  <<i, k>> \in learned'
    OBVIOUS
  <2>1. CASE k <= counted[i]
    BY <1>2, <1>4, <2>1
  <2>2. CASE ~(k <= counted[i])
    <3>1. i = point
      BY <1>6, <2>2
    <3>2. counted[point] \in Nat
      BY <1>4
    <3>3. k = counted[point] + 1
      BY <1>6, <2>2, <3>1, <3>2
    <3> QED BY <1>2, <3>1, <3>3
  <2> QED BY <2>1, <2>2
<1>8. LearningInv'
  <2>1. trainedModel' = Training!Untrained
    BY <1>2, <1>4
  <2> QED BY <1>2, <1>4, <1>6, <1>7, <2>1 DEF LearningInv, Training!Untrained
<1>9. JudgementInv'
  BY <1>1, <1>2 DEF JudgementInv
<1> QED BY <1>1, <1>2, <1>3, <1>8, <1>9 DEF TrainingInv

\* A frame of a validation point.
LEMMA ValidationSeen ==
  ASSUME TrainingInv, trainingPhase = "validation", trainingPhase' = trainingPhase, file' = file,
         counted' = [counted EXCEPT ![point] = @ + 1], point' = point,
         trainedModel' = trainedModel, reason' = reason, ErrorInv'
  PROVE  TrainingInv'
<1>1. LearningInv /\ JudgementInv /\ file \in {"absent", "right"}
  BY DEF TrainingInv
<1>2. point \in 1..ValidationPoints /\ counted \in [1..ValidationPoints -> Nat] /\ Covers
  BY <1>1 DEF LearningInv
<1>3. counted' \in [1..ValidationPoints -> Nat]
  BY <1>2, TrainingNumbers, FrameCounted
<1>4. Covers'
  BY <1>2 DEF Covers
<1>5. LearningInv'
  BY <1>2, <1>3, <1>4 DEF LearningInv
<1>6. JudgementInv'
  BY <1>1 DEF JudgementInv
<1> QED BY <1>1, <1>5, <1>6 DEF TrainingInv

LEMMA TrainingPredicted ==
  ASSUME TrainingInv, NEW e \in Errors, Training!Predicted(e)
  PROVE  TrainingInv'
<1>1. /\ trainingPhase = "validation" /\ trainingPhase' = trainingPhase /\ file' = file
      /\ counted' = [counted EXCEPT ![point] = @ + 1] /\ point' = point
      /\ trainedModel' = trainedModel /\ reason' = reason
      /\ usable' = usable + 1 /\ missed' = [missed EXCEPT ![e] = @ + 1]
  BY DEF Training!Predicted, Training!Advance, Training!files
<1>2. /\ missed \in [Errors -> Nat] /\ \A x \in Errors : missed[x] <= usable
      /\ Cardinality(Missed) = usable /\ usable \in Nat
  BY DEF TrainingInv, ErrorInv
<1>3. PICK u \in Nat : u = usable
  BY <1>2
<1>4. PICK c \in Nat : c = missed[e]
  BY <1>2
<1>5. /\ missed' \in [Errors -> Nat] /\ missed'[e] = c + 1
      /\ \A x \in Errors : x # e => missed'[x] = missed[x]
      /\ usable' = u + 1
  BY <1>1, <1>2, <1>3, <1>4
<1>6. \A x \in Errors : missed[x] \in Nat /\ missed[x] <= u /\ missed'[x] <= u + 1
  BY <1>2, <1>3, <1>4, <1>5
<1>7. Missed' = Missed \cup {<<e, c + 1>>}
  <2>1. Missed' = {m \in Errors \X (1..(u + 1)) : m[2] <= missed'[m[1]]}
    BY <1>5 DEF Missed
  <2>2. Missed = {m \in Errors \X (1..u) : m[2] <= missed[m[1]]}
    BY <1>3 DEF Missed
  <2>3. ASSUME NEW x \in Errors, NEW y \in 1..(u + 1), y <= missed'[x]
        PROVE  <<x, y>> \in Missed \/ <<x, y>> = <<e, c + 1>>
    <3>1. CASE x = e /\ y = c + 1
      BY <3>1
    <3>2. CASE ~(x = e /\ y = c + 1)
      <4>1. y <= missed[x]
        BY <1>4, <1>5, <1>6, <2>3, <3>2
      <4>2. y \in 1..u
        BY <1>6, <4>1
      <4> QED BY <2>2, <4>1, <4>2
    <3> QED BY <3>1, <3>2
  <2>4. <<e, c + 1>> \in Missed'
    <3>1. c + 1 \in 1..(u + 1)
      BY <1>4, <1>6
    <3> QED BY <1>5, <2>1, <3>1
  <2>5. ASSUME NEW x \in Errors, NEW y \in 1..u, y <= missed[x]
        PROVE  <<x, y>> \in Missed'
    <3>1. y \in 1..(u + 1) /\ y <= missed'[x]
      BY <1>4, <1>5, <1>6, <2>5
    <3> QED BY <2>1, <3>1
  <2>6. \A m \in Missed : \E x \in Errors, y \in 1..u : m = <<x, y>> /\ y <= missed[x]
    BY <2>2
  <2>7. \A m \in Missed' : \E x \in Errors, y \in 1..(u + 1) : m = <<x, y>> /\ y <= missed'[x]
    BY <2>1
  <2> QED BY <2>3, <2>4, <2>5, <2>6, <2>7
<1>8. <<e, c + 1>> \notin Missed
  <2>1. ~(c + 1 <= missed[e])
    BY <1>4
  <2> QED BY <2>1 DEF Missed
<1>9. IsFiniteSet(Missed)
  BY <1>2, MissedFinite
<1>10. Cardinality(Missed)' = u + 1
  <2>1. Cardinality(Missed \cup {<<e, c + 1>>}) = Cardinality(Missed) + 1
    BY <1>8, <1>9, FS_AddElement
  <2> QED BY <1>2, <1>3, <1>7, <2>1
<1>11. ErrorInv'
  BY <1>5, <1>6, <1>10 DEF ErrorInv
<1> QED BY <1>1, <1>11, ValidationSeen

LEMMA TrainingTrained ==
  ASSUME TrainingInv, Training!Train
  PROVE  TrainingInv'
<1>1. ErrorInv /\ LearningInv /\ JudgementInv /\ file \in {"absent", "right"}
  BY DEF TrainingInv
<1>2. trainingPhase = "training"
  BY DEF Training!Train
<1>3. /\ counted \in [1..TrainingPoints -> Nat]
      /\ \A i \in 1..TrainingPoints, k \in Nat : k >= 1 /\ k <= counted[i] => <<i, k>> \in learned
  BY <1>1, <1>2 DEF LearningInv
<1>4. CASE ~Training!EnoughOfEach
  <2>1. Training!Over("no_face")
    BY <1>4 DEF Training!Train
  <2> QED BY <2>1, TrainingEnds
<1>5. CASE Training!EnoughOfEach
  <2>1. /\ \E alpha \in Training!Selected : trainedModel' = [alpha |-> alpha, learned |-> learned]
        /\ trainingPhase' = "validation" /\ point' = 1
        /\ counted' = [i \in 1..ValidationPoints |-> 0]
        /\ file' = file /\ usable' = usable /\ missed' = missed /\ reason' = reason
    BY <1>5 DEF Training!Train, Training!Nothing, Training!files
  <2>2. trainedModel'.learned = learned
    BY <2>1
  <2>3. Covers'
    <3>1. \A i \in 1..TrainingPoints : counted[i] >= EnoughSamples
      BY <1>3, <1>5 DEF Training!EnoughOfEach
    <3>2. \A i \in 1..TrainingPoints, k \in 1..EnoughSamples : <<i, k>> \in learned
      <4> SUFFICES ASSUME NEW i \in 1..TrainingPoints, NEW k \in 1..EnoughSamples
                   PROVE  <<i, k>> \in learned
        OBVIOUS
      <4>1. k \in Nat /\ k >= 1 /\ k <= EnoughSamples /\ EnoughSamples \in Nat
        BY TrainingNumbers
      <4>2. counted[i] \in Nat /\ counted[i] >= EnoughSamples
        BY <1>3, <3>1
      <4>3. k <= counted[i]
        BY <4>1, <4>2
      <4> QED BY <1>3, <4>1, <4>3
    <3> QED BY <2>2, <3>2 DEF Covers
  <2>4. point' \in 1..ValidationPoints /\ counted' \in [1..ValidationPoints -> Nat]
    BY <2>1, TrainingNumbers
  <2>5. LearningInv'
    BY <2>1, <2>3, <2>4 DEF LearningInv
  <2>6. ErrorInv'
    BY <1>1, <2>1, ErrorStutter
  <2>7. JudgementInv'
    BY <1>1, <1>2, <2>1 DEF JudgementInv
  <2> QED BY <1>1, <2>1, <2>5, <2>6, <2>7 DEF TrainingInv
<1> QED BY <1>4, <1>5

LEMMA TrainingJudged ==
  ASSUME TrainingInv, Training!Validate
  PROVE  TrainingInv'
<1>1. ErrorInv /\ LearningInv
  BY DEF TrainingInv
<1>2. PICK why : /\ Training!Over(why) /\ (why = "valid" => Training!Passed) /\ trainingPhase = "validation"
  <2>1. PICK why : why = IF Training!Passed THEN "valid" ELSE "quality_gate_failed"
    OBVIOUS
  <2>2. Training!Over(why) /\ trainingPhase = "validation"
    BY <2>1 DEF Training!Validate
  <2> QED BY <2>1, <2>2
<1>3. CASE why # "valid"
  BY <1>2, <1>3, TrainingEnds
<1>4. CASE why = "valid"
  <2>1. counted \in [1..ValidationPoints -> Nat] /\ Covers
    BY <1>1, <1>2 DEF LearningInv
  <2>2. /\ \A i \in DOMAIN counted : counted[i] >= EnoughFrames
        /\ Training!Total > 0 /\ usable * 10 >= Training!Total * 9
        /\ Training!Percentile(10) <= 20 * MedianGate
    BY <1>2, <1>4 DEF Training!Passed
  <2>3. \A i \in 1..ValidationPoints : counted[i] >= EnoughFrames
    BY <2>1, <2>2
  <2>4. usable >= 1
    <3>1. Training!Total \in Nat
      <4>1. IsFiniteSet((1..ValidationPoints) \X (1..MaxShown))
        <5>1. ValidationPoints \in Int /\ MaxShown \in Int /\ 1 \in Int
          BY TrainingNumbers
        <5>2. IsFiniteSet(1..ValidationPoints) /\ IsFiniteSet(1..MaxShown)
          BY <5>1, FS_Interval
        <5> QED BY <5>2, FS_Product
      <4>2. {m \in (DOMAIN counted) \X (1..MaxShown) : m[2] <= counted[m[1]]}
              \in SUBSET ((1..ValidationPoints) \X (1..MaxShown))
        BY <2>1
      <4>3. IsFiniteSet({m \in (DOMAIN counted) \X (1..MaxShown) : m[2] <= counted[m[1]]})
        BY <4>1, <4>2, FS_Subset
      <4>4. Cardinality({m \in (DOMAIN counted) \X (1..MaxShown) : m[2] <= counted[m[1]]}) \in Nat
        BY <4>3, FS_CardinalityType
      <4> QED BY <4>4 DEF Training!Total, Training!Cardinality, Cardinality
    <3>2. usable \in Nat
      BY <1>1 DEF ErrorInv
    <3>3. PICK t \in Nat : t = Training!Total
      BY <3>1
    <3>4. t > 0 /\ usable * 10 >= t * 9
      BY <2>2, <3>3
    <3> QED BY <3>2, <3>4
  <2>5. 2 * Cardinality(AtMost(MedianGate)) >= usable
    BY <1>1, <2>2, <2>4, MedianSound
  <2> QED BY <1>2, <2>1, <2>3, <2>5, TrainingEnds
<1> QED BY <1>3, <1>4

LEMMA TrainingStep ==
  ASSUME TrainingInv, Training!TrainingNext
  PROVE  TrainingInv'
<1>1. CASE Training!Download \/ Training!Downloaded \/ Training!Adopt \/ Training!Die
  <2>1. /\ file' = file \/ file' = "right"
        /\ UNCHANGED Training!calibration
    BY <1>1 DEF Training!Download, Training!Downloaded, Training!Adopt, Training!Die, Training!Replace
  <2>2. /\ usable' = usable /\ missed' = missed /\ trainedModel' = trainedModel
        /\ reason' = reason /\ counted' = counted /\ learned' = learned
        /\ trainingPhase' = trainingPhase /\ point' = point
    BY <2>1 DEF Training!calibration
  <2> QED BY <2>1, <2>2, TrainingKept
<1>2. CASE Training!Begin
  <2>1. /\ file' = file /\ usable' = usable /\ missed' = missed /\ trainedModel' = trainedModel
        /\ reason' = reason /\ counted' = counted /\ learned' = learned
        /\ trainingPhase = "file" /\ trainingPhase' = "training" /\ point' = point
    BY <1>2 DEF Training!Begin
  <2> QED BY <2>1, TrainingKept
<1>3. CASE Training!NoSample
  <2>1. /\ file' = file /\ usable' = usable /\ missed' = missed /\ trainedModel' = trainedModel
        /\ reason' = reason /\ counted' = counted /\ learned' = learned
        /\ trainingPhase' = trainingPhase /\ point' = point
    BY <1>3 DEF Training!NoSample, Training!Advance, Training!files
  <2> QED BY <2>1, TrainingKept
<1>4. CASE Training!NextPoint
  <2>1. /\ file' = file /\ usable' = usable /\ missed' = missed /\ trainedModel' = trainedModel
        /\ reason' = reason /\ counted' = counted /\ learned' = learned
        /\ trainingPhase' = trainingPhase /\ point' = point + 1
        /\ \/ trainingPhase = "training" /\ point < TrainingPoints
           \/ trainingPhase = "validation" /\ point < ValidationPoints
    BY <1>4 DEF Training!NextPoint, Training!files
  <2> QED BY <2>1, TrainingKept
<1>5. CASE \E why \in {"calibration_cancelled", "calibration_error"} : Training!Interrupted(why)
  <2>1. PICK why \in {"calibration_cancelled", "calibration_error"} : Training!Over(why)
    BY <1>5 DEF Training!Interrupted
  <2> QED BY <2>1, TrainingEnds
<1>6. CASE Training!NotPredicted
  <2>1. /\ trainingPhase = "validation" /\ trainingPhase' = trainingPhase /\ file' = file
        /\ counted' = [counted EXCEPT ![point] = @ + 1] /\ point' = point
        /\ trainedModel' = trainedModel /\ reason' = reason
        /\ usable' = usable /\ missed' = missed
    BY <1>6 DEF Training!NotPredicted, Training!Advance, Training!files
  <2>2. ErrorInv'
    BY <2>1, ErrorStutter DEF TrainingInv
  <2> QED BY <2>1, <2>2, ValidationSeen
<1>7. CASE Training!Sample
  BY <1>7, TrainingSampled
<1>8. CASE \E e \in Errors : Training!Predicted(e)
  BY <1>8, TrainingPredicted
<1>9. CASE Training!Train \/ Training!Validate
  BY <1>9, TrainingTrained, TrainingJudged
<1> QED BY <1>1, <1>2, <1>3, <1>4, <1>5, <1>6, <1>7, <1>8, <1>9 DEF Training!TrainingNext

LEMMA TrainingStutter ==
  ASSUME TrainingInv, UNCHANGED trainingVars
  PROVE  TrainingInv'
<1>1. /\ file' = file /\ usable' = usable /\ missed' = missed /\ trainedModel' = trainedModel
      /\ reason' = reason /\ counted' = counted /\ learned' = learned
      /\ trainingPhase' = trainingPhase /\ point' = point
  BY DEF trainingVars
<1> QED BY <1>1, TrainingKept

\* What the training promises follows.
LEMMA TrainingSound ==
  ASSUME TrainingInv
  PROVE  Training!TrainingIsSound
<1>1. ErrorInv /\ LearningInv /\ JudgementInv /\ file \in {"absent", "right"}
  BY DEF TrainingInv
<1>2. Covers => trainedModel # Training!Untrained
  <2>1. 1 \in 1..TrainingPoints /\ 1 \in 1..EnoughSamples
    BY TrainingNumbers
  <2>2. Covers => <<1, 1>> \in trainedModel.learned
    BY <2>1 DEF Covers
  <2>3. Training!Untrained.learned = {}
    BY DEF Training!Untrained
  <2> QED BY <2>2, <2>3
<1>3. trainingPhase = "over" => (reason = "valid" <=> trainedModel # Training!Untrained)
  BY <1>1, <1>2 DEF JudgementInv
<1>4. trainedModel # Training!Untrained => Covers
  BY <1>1 DEF JudgementInv, LearningInv
<1>5. reason = "valid" => trainingPhase = "over"
  BY <1>1 DEF JudgementInv
<1>6. reason = "valid" =>
        /\ Len(counted) = ValidationPoints /\ \A i \in DOMAIN counted : counted[i] >= EnoughFrames
        /\ 2 * Cardinality(AtMost(MedianGate)) >= usable
  <2> SUFFICES ASSUME reason = "valid"
               PROVE  /\ Len(counted) = ValidationPoints
                      /\ \A i \in DOMAIN counted : counted[i] >= EnoughFrames
                      /\ 2 * Cardinality(AtMost(MedianGate)) >= usable
    OBVIOUS
  <2>1. /\ counted \in [1..ValidationPoints -> Nat]
        /\ \A i \in 1..ValidationPoints : counted[i] >= EnoughFrames
        /\ 2 * Cardinality(AtMost(MedianGate)) >= usable
    BY <1>1, <1>5 DEF JudgementInv
  <2>2. Len(counted) = ValidationPoints
    BY <2>1, TrainingNumbers
  <2> QED BY <2>1, <2>2
<1>7. Training!ModelIsEarned
  BY <1>3, <1>4, <1>6 DEF Training!ModelIsEarned, Covers, AtMost, Training!Cardinality, Cardinality
<1>8. Training!FileIsPinned
  BY <1>1 DEF Training!FileIsPinned
<1> QED BY <1>7, <1>8 DEF Training!TrainingIsSound

-----------------------------------------------------------------------------
(* The eye service, of which each behaviour is of one part.                 *)

ServiceInv ==
  /\ track = "adapter" => AdapterInv
  /\ track = "stabilizer" => StabilizerInv
  /\ track = "run" => CourseInv
  /\ track = "target" => CaptureInv
  /\ track = "training" => TrainingInv

LEMMA ServiceInit == EyeServiceInit => ServiceInv
<1> SUFFICES ASSUME EyeServiceInit PROVE ServiceInv
  OBVIOUS
<1>1. Adapter!Init /\ Stabilizer!Init /\ Run!Init /\ Target!Init /\ Training!TrainingInit
  BY DEF EyeServiceInit
<1> QED BY <1>1, AdapterInit, StabilizerInit, CourseInit, CaptureInit, TrainingStart DEF ServiceInv

LEMMA ServiceStep == ServiceInv /\ [EyeServiceNext]_everything => ServiceInv'
<1> SUFFICES ASSUME ServiceInv, [EyeServiceNext]_everything PROVE ServiceInv'
  OBVIOUS
<1>1. track' = track
  BY DEF EyeServiceNext, everything
<1>2. ASSUME track = "adapter"
      PROVE  AdapterInv'
  <2>1. AdapterInv
    BY <1>2 DEF ServiceInv
  <2>2. CASE Adapter!Next
    BY <2>1, <2>2, AdapterStep
  <2>3. CASE UNCHANGED adapterVars
    <3>1. /\ UNCHANGED <<life, fit, calibratedId, calibrated, revision, current, order, cache>>
          /\ UNCHANGED <<filter, used, answers>>
      BY <2>3 DEF adapterVars
    <3>2. /\ AdapterTypes /\ FitInv /\ FilterInv /\ CacheInv /\ SaidInv /\ FollowInv
          /\ Adapter!GazesInOrder
      BY <2>1 DEF AdapterInv
    <3>3. AdapterTypes'
      BY <3>1, <3>2 DEF AdapterTypes, Answer, Event, Adapter!No
    <3>4. FitInv' /\ FilterInv'
      BY <3>1, <3>2 DEF FitInv, FilterInv, Adapter!No
    <3>5. CacheInv' /\ SaidInv'
      BY <3>1, <3>2 DEF CacheInv, SaidInv
    <3>6. FollowInv'
      BY <3>1, <3>2 DEF FollowInv, SameSince
    <3>7. Adapter!GazesInOrder'
      BY <3>1, <3>2 DEF Adapter!GazesInOrder
    <3> QED BY <3>3, <3>4, <3>5, <3>6, <3>7 DEF AdapterInv
  <2>4. Adapter!Next \/ UNCHANGED adapterVars
    BY <1>2 DEF EyeServiceNext, everything
  <2> QED BY <2>2, <2>3, <2>4
<1>3. ASSUME track = "stabilizer"
      PROVE  StabilizerInv'
  <2>1. StabilizerInv
    BY <1>3 DEF ServiceInv
  <2>2. CASE Stabilizer!Next
    BY <2>1, <2>2, StabilizerStep
  <2>3. CASE UNCHANGED stabilizerVars
    <3>1. /\ smoother' = smoother /\ pending' = pending /\ confirmed' = confirmed
          /\ lastInput' = lastInput /\ looks' = looks
      BY <2>3 DEF stabilizerVars
    <3> QED BY <2>1, <3>1, StabilizerStutter
  <2>4. Stabilizer!Next \/ UNCHANGED stabilizerVars
    BY <1>3 DEF EyeServiceNext, everything
  <2> QED BY <2>2, <2>3, <2>4
<1>4. ASSUME track = "run"
      PROVE  CourseInv'
  <2>1. CourseInv
    BY <1>4 DEF ServiceInv
  <2>2. Run!Next \/ UNCHANGED runVars
    BY <1>4 DEF EyeServiceNext, everything
  <2> QED BY <2>1, <2>2, CourseStep, CourseStutter
<1>5. ASSUME track = "target"
      PROVE  CaptureInv'
  <2>1. CaptureInv
    BY <1>5 DEF ServiceInv
  <2>2. Target!Next \/ UNCHANGED targetVars
    BY <1>5 DEF EyeServiceNext, everything
  <2> QED BY <2>1, <2>2, TargetStep, CaptureStutter
<1>6. ASSUME track = "training"
      PROVE  TrainingInv'
  <2>1. TrainingInv
    BY <1>6 DEF ServiceInv
  <2>2. Training!TrainingNext \/ UNCHANGED trainingVars
    BY <1>6 DEF EyeServiceNext, everything
  <2> QED BY <2>1, <2>2, TrainingStep, TrainingStutter
<1> QED BY <1>1, <1>2, <1>3, <1>4, <1>5, <1>6 DEF ServiceInv

LEMMA ServiceInvariant == EyeServiceSpec => []ServiceInv
BY ServiceInit, ServiceStep, PTL DEF EyeServiceSpec

\* A live answer is of the model in use, given once and in the order of its
\* stream, and repeated as it was; and a gaze point that is shown is no jump,
\* or one that a second point or a pause confirmed (infer, commit_calibration,
\* calibrate_synchronized, process_valid, observe_invalid).
THEOREM SamplesTrue == EyeServiceSpec => []SamplesAreTrue
<1>1. ServiceInv => SamplesAreTrue
  BY AdapterTold, StabilizerSteady DEF ServiceInv, SamplesAreTrue
<1> QED BY <1>1, ServiceInvariant, PTL

\* What a calibration learns from and is judged by: a valid result rests on
\* samples taken after the model was fitted, at points that neither trained it
\* nor chose what to train, and nothing of a run outlives it; every sample is
\* of a settled target and a still head, and no frame of a validation target
\* goes uncounted; and a model is only kept if every point taught it enough
\* and half of its errors pass the gate (CalibrationSession.run, _fit,
\* _validate, SynchronizedCapture.capture, PositioningGate.observe, calibrate).
THEOREM CalibrationFair == EyeServiceSpec => []CalibrationIsFair
<1>1. ServiceInv => CalibrationIsFair
  BY CourseIsFair, CaptureSound, TrainingSound DEF ServiceInv, CalibrationIsFair
<1> QED BY <1>1, ServiceInvariant, PTL
=============================================================================

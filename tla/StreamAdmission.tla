--------------------------- MODULE StreamAdmission ---------------------------
(***************************************************************************)
(* What one connection of the vision gateway lets in: the hello with its    *)
(* one-time token, the binary frames and the control texts                  *)
(* (apps/vision_gateway/server.py, vision_stream.py).  What becomes of a    *)
(* frame that is let in is VisionStream; here its processing only begins    *)
(* and ends.                                                               *)
(*                                                                         *)
(* A message is known by the checks it fails: the checks stand in the code's *)
(* order, and the first that fails decides the answer.  Time is counted in  *)
(* the shorter of the two gaps between frames.                              *)
(***************************************************************************)
EXTENDS Integers, Sequences, FiniteSets

CONSTANTS
  Hellos,      \* the hello messages, each the set of checks it fails
  Messages,    \* the binary messages
  Memory,      \* keys of frames that are remembered (frame_order's maxlen)
  Gap,         \* 1/max_fps while no calibration runs
  MaxClock, MaxFrames  \* bounds

\* What a message may say.
AdmissionAssumption ==
  /\ Memory \in Nat \ {0} /\ Gap \in Nat \ {0} /\ MaxClock \in Nat /\ MaxFrames \in Nat
  /\ \A m \in Messages : m.epoch \in Nat /\ m.sequence \in Nat

VARIABLES
  token,      \* of the session: "issued", "expired" or "consumed"
  stage,      \* "hello", "open", or the code the connection was closed with
  clock,
  inference, calibrating,  \* the two flags of _StreamState
  gap,        \* 1/max_fps
  epoch, sequence, received,  \* current_epoch, last_sequence, last_received_at
  order, keys,  \* frame_order and frame_keys
  busy,       \* "processing": process_task is set; "late": tasks are pending
  closing,    \* close_requested is set
  admitted,   \* history: frames let in, with the time and the gap of then
  opened,     \* history: connections the token opened
  told        \* the answer to the last message, and its frame

flags == <<inference, calibrating, gap>>
memory == <<epoch, sequence, received, order, keys, admitted>>
work == <<busy, closing>>
vars == <<token, stage, clock, flags, memory, work, opened, told>>

None == -1

Init ==
  /\ token \in {"issued", "expired"} /\ stage = "hello" /\ clock = 0 /\ opened = 0
  /\ inference = FALSE /\ calibrating = FALSE /\ gap = Gap
  /\ epoch = None /\ sequence = -1 /\ received = None
  /\ order = <<>> /\ keys = {} /\ admitted = <<>>
  /\ busy = "no" /\ closing = FALSE /\ told = <<"nothing">>

\* The connection ends, by either side, and the client begins another with the
\* token it has: a new _StreamState.
Reconnect ==
  /\ stage # "hello" /\ stage' = "hello"
  /\ inference' = FALSE /\ calibrating' = FALSE /\ gap' = Gap
  /\ epoch' = None /\ sequence' = -1 /\ received' = None
  /\ order' = <<>> /\ keys' = {} /\ admitted' = <<>>
  /\ busy' = "no" /\ closing' = FALSE /\ told' = <<"nothing">>
  /\ UNCHANGED <<token, clock, opened>>

-----------------------------------------------------------------------------
(* The hello.                                                               *)

HelloChecks == <<"text", "fields", "type", "identifiers", "credentials", "encodings">>

\* _json_message and _authenticate_hello: only a hello in order has its token
\* consumed, and a token is consumed whatever comes of it.
Consumed(failed) ==
  IF \E i \in DOMAIN HelloChecks : HelloChecks[i] \in failed THEN token ELSE "consumed"

\* The claims of the token are compared after that, and the encoding is chosen
\* from those offered at the end (_select_encoding).
HelloAnswer(failed) ==
  IF \E i \in DOMAIN HelloChecks : HelloChecks[i] \in failed THEN <<"invalid_message", "1002">>
  ELSE IF token # "issued" \/ "claims" \in failed THEN <<"unauthorized", "1008">>
  ELSE IF "supported" \in failed THEN <<"invalid_message", "1002">>
  ELSE <<"ready", "open">>

Hello(failed) ==
  /\ stage = "hello"
  /\ token' = Consumed(failed)
  /\ told' = HelloAnswer(failed) /\ stage' = told'[2]
  /\ opened' = opened + IF stage' = "open" THEN 1 ELSE 0
  /\ UNCHANGED <<clock, flags, memory, work>>

-----------------------------------------------------------------------------
(* A binary frame.                                                          *)

FrameChecks == <<"prefix", "magic", "metadata_size", "truncated", "frame_size", "json", "fields",
                 "type", "media", "context", "layout", "camera", "marker", "length",
                 "binding", "encoding">>
Sizes == {"metadata_size", "frame_size"}

First(failed) ==
  LET i == CHOOSE i \in DOMAIN FrameChecks :
             FrameChecks[i] \in failed /\ \A j \in 1..(i - 1) : FrameChecks[j] \notin failed
  IN FrameChecks[i]

\* decode_binary_frame, from_payload and _StreamState.validate: a frame that is
\* too large is told so if nothing before its size is wrong.
Malformed(m) ==
  /\ stage = "open" /\ m.failed # {}
  /\ told' = IF First(m.failed) \in Sizes THEN <<"close", "1009">> ELSE <<"invalid_message", "1002">>
  /\ stage' = told'[2]
  /\ UNCHANGED <<token, clock, flags, memory, work, opened>>

Key(m) == <<m.epoch, m.id>>

\* Mutant: a number that came before is let in.
RejectionOfOthers(m) ==
  IF Key(m) \in keys THEN "duplicate_frame"
  ELSE IF epoch # None /\ m.epoch < epoch THEN "stale_epoch"
  ELSE "none"

\* rejection_reason
Rejection(m) ==
  IF Key(m) \in keys THEN "duplicate_frame"
  ELSE IF epoch # None /\ m.epoch < epoch THEN "stale_epoch"
  ELSE IF m.sequence <= sequence THEN "out_of_order"
  ELSE "none"

Limited == received # None /\ clock - received < gap

\* The receive loop's questions, in its order.
DropReason(m) ==
  IF Rejection(m) # "none" THEN Rejection(m)
  ELSE IF busy # "no" THEN "in_flight"
  ELSE IF Limited THEN "fps_limited"
  ELSE IF ~calibrating /\ (m.marked \/ ~inference) THEN "session_closing"
  ELSE "none"

\* Beyond frame_order's length the oldest key is forgotten.
KeysWith(m) ==
  (IF Len(order) = Memory THEN keys \ {Head(order)} ELSE keys) \cup {Key(m)}

Drop(m) ==
  /\ stage = "open" /\ m.failed = {} /\ DropReason(m) # "none"
  /\ told' = <<DropReason(m), m>>
  /\ UNCHANGED <<token, stage, clock, flags, memory, work, opened>>

\* _StreamState.accept
Accept(m) ==
  /\ stage = "open" /\ m.failed = {} /\ DropReason(m) = "none" /\ Len(admitted) < MaxFrames
  /\ received' = clock
  /\ epoch' = IF epoch > m.epoch THEN epoch ELSE m.epoch
  /\ sequence' = m.sequence
  /\ keys' = KeysWith(m)
  /\ order' = Append(IF Len(order) = Memory THEN Tail(order) ELSE order, Key(m))
  /\ admitted' = Append(admitted, [frame |-> m, at |-> clock, gap |-> gap,
                                   calibrating |-> calibrating])
  /\ busy' = "processing" /\ told' = <<"none", m>>
  /\ UNCHANGED <<token, stage, clock, flags, closing, opened>>

-----------------------------------------------------------------------------
(* Control texts, and what happens meanwhile.                               *)

\* _control_message: a text that fails a check ends the connection.
BadControl ==
  /\ stage = "open"
  /\ told' = <<"invalid_message", "1002">> /\ stage' = "1002"
  /\ UNCHANGED <<token, clock, flags, memory, work, opened>>

Control(action) ==
  /\ stage = "open" /\ told' = <<action>>
  /\ UNCHANGED <<token, clock, memory, busy, opened>>

\* Not while a calibration runs.
StartInference ==
  /\ Control("start_inference")
  /\ inference' = (inference \/ ~calibrating)
  /\ UNCHANGED <<stage, closing, calibrating, gap>>

StopInference ==
  /\ Control("stop_inference")
  /\ inference' = FALSE /\ UNCHANGED <<stage, closing, calibrating, gap>>

\* Refused while one runs; until it ends frames may come faster.
StartCalibration ==
  /\ Control("start_calibration")
  /\ calibrating' = TRUE /\ gap' = 1
  /\ UNCHANGED <<stage, closing, inference>>

\* Mutant: the calibration's rate stays.
CalibrationKeepsRate == calibrating' = FALSE /\ UNCHANGED gap

CalibrationOver == calibrating' = FALSE /\ gap' = Gap

CalibrationEnds ==
  /\ stage = "open" /\ calibrating /\ CalibrationOver
  /\ UNCHANGED <<token, stage, clock, inference, memory, work, opened, told>>

\* stop_session cancels a calibration; the frame in flight is waited for.
StopSession ==
  /\ Control("stop_session") /\ CalibrationOver
  /\ IF busy = "processing"
       THEN closing' = TRUE /\ UNCHANGED stage
       ELSE stage' = "1000" /\ UNCHANGED closing
  /\ UNCHANGED inference

\* The process task ends; work of its frame may be left pending.
FrameEnds ==
  /\ stage = "open" /\ busy = "processing" /\ busy' \in {"no", "late"}
  /\ stage' = IF closing THEN "1000" ELSE stage
  /\ UNCHANGED <<token, clock, flags, memory, closing, opened, told>>

LateWorkEnds ==
  /\ stage = "open" /\ busy = "late" /\ busy' = "no"
  /\ UNCHANGED <<token, stage, clock, flags, memory, closing, opened, told>>

TimePasses ==
  /\ clock < MaxClock /\ clock' = clock + 1
  /\ token' \in IF token = "issued" THEN {token, "expired"} ELSE {token}
  /\ UNCHANGED <<stage, flags, memory, work, opened, told>>

Next ==
  \/ \E failed \in Hellos : Hello(failed)
  \/ \E m \in Messages : Malformed(m) \/ Drop(m) \/ Accept(m)
  \/ Reconnect \/ BadControl \/ StartInference \/ StopInference \/ StartCalibration \/ StopSession
  \/ CalibrationEnds \/ FrameEnds \/ LateWorkEnds \/ TimePasses

Spec == Init /\ [][Next]_vars

-----------------------------------------------------------------------------
(* Properties.                                                              *)

TypeOK ==
  /\ token \in {"issued", "expired", "consumed"}
  /\ stage \in {"hello", "open", "1000", "1002", "1008", "1009"}
  /\ {inference, calibrating, closing} \subseteq BOOLEAN
  /\ busy \in {"no", "processing", "late"} /\ opened \in Nat
  /\ clock \in 0..MaxClock /\ received \in -1..clock
  /\ epoch \in Nat \cup {None} /\ sequence \in Nat \cup {-1}
  /\ Len(admitted) <= MaxFrames

\* Frames are let in once, in the order of their numbers, and never of an
\* epoch the video has left (_StreamState.rejection_reason); a frame may come
\* again only when Memory others have come since, and with a new number.
AdmittedInOrder ==
  \A i, j \in DOMAIN admitted : i < j =>
    LET a == admitted[i].frame b == admitted[j].frame
    IN /\ a.sequence < b.sequence /\ a.epoch <= b.epoch
       /\ j - i <= Memory => Key(a) # Key(b)

\* The limit in force when a frame is let in holds for it, that of a
\* calibration only while it runs (rate_rejection_reason, max_fps).
AdmittedInTime ==
  /\ \A i \in 2..Len(admitted) : admitted[i].at - admitted[i - 1].at >= admitted[i].gap
  /\ \A i \in DOMAIN admitted : admitted[i].gap = IF admitted[i].calibrating THEN 1 ELSE Gap

\* What is remembered is of the frames let in (accept): the deque and the set
\* hold the same keys.
MemoryIsOfAdmitted ==
  /\ keys = {order[i] : i \in DOMAIN order}
  /\ \A i \in DOMAIN order :
       order[i] = Key(admitted[Len(admitted) - Len(order) + i].frame)

\* A frame that is dropped because another is in flight or came too short a
\* time ago leaves no trace: sent again it is let in, unless another was
\* meanwhile (the drop's retryable).
RetryIsPossible ==
  Len(told) = 2 /\ told[1] \in {"in_flight", "fps_limited"} /\ busy = "no" /\ ~Limited
  /\ inference /\ (calibrating \/ ~told[2].marked)
    => DropReason(told[2]) = "none"

\* A token opens one connection at most, and none once it has expired
\* (LocalVisionTokenIssuer.consume).
OpenedOnce ==
  /\ opened <= 1
  /\ opened = 1 \/ stage = "open" => token = "consumed"

AdmissionIsSound ==
  /\ TypeOK /\ AdmittedInOrder /\ AdmittedInTime /\ MemoryIsOfAdmitted
  /\ RetryIsPossible /\ OpenedOnce
=============================================================================

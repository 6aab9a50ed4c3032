------------------------- MODULE Observations_proofs -------------------------
(***************************************************************************)
(* Theorems about Observations: what streams, live sessions, the app and    *)
(* the buffer do, for batches and messages of any kind, and with            *)
(* Decision_proofs what comes of it.                                        *)
(***************************************************************************)
EXTENDS Observations, Decision_proofs

-----------------------------------------------------------------------------
(* What a stream lets in *)

\* What a frame was let in with.
AdmittedFrames == [frame : Messages, at : Nat, gap : Nat, calibrating : BOOLEAN]

AdmissionTypes ==
  /\ Admission!TypeOK /\ gap = (IF calibrating THEN 1 ELSE FrameGap)
  /\ admitted \in Seq(AdmittedFrames)
  /\ order \in Seq({Admission!Key(m) : m \in Messages})

\* The connection's counters are those of the frame let in last.
LastInv ==
  IF admitted = <<>> THEN stream = Admission!None /\ sequence = -1 /\ received = Admission!None
  ELSE LET last == admitted[Len(admitted)]
       IN stream = last.frame.epoch /\ sequence = last.frame.sequence /\ received = last.at

\* As many keys are remembered as fit.
OrderInv == Len(order) = IF Len(admitted) <= Memory THEN Len(admitted) ELSE Memory

ToldInv ==
  Len(told) = 2 /\ told[1] \in {"in_flight", "fps_limited"} => Admission!Rejection(told[2]) = "none"

AdmissionInv ==
  /\ AdmissionTypes /\ LastInv /\ OrderInv /\ ToldInv
  /\ Admission!AdmittedInOrder /\ Admission!AdmittedInTime /\ Admission!MemoryIsOfAdmitted
  /\ Admission!OpenedOnce

LEMMA AdmissionHolds ==
  ASSUME AdmissionInv
  PROVE  Admission!AdmissionIsSound
<1>1. Admission!RetryIsPossible
  BY DEF AdmissionInv, ToldInv, Admission!RetryIsPossible, Admission!DropReason
<1> QED BY <1>1 DEF AdmissionInv, AdmissionTypes, Admission!AdmissionIsSound

\* Nothing is let in yet.
LEMMA FreshConnection ==
  ASSUME admitted = <<>>, order = <<>>, keys = {}, stream = Admission!None, sequence = -1, received = Admission!None
  PROVE  /\ LastInv /\ OrderInv /\ Admission!AdmittedInOrder /\ Admission!AdmittedInTime
         /\ Admission!MemoryIsOfAdmitted
         /\ admitted \in Seq(AdmittedFrames) /\ order \in Seq({Admission!Key(m) : m \in Messages})
<1>1. Len(admitted) = 0 /\ Len(order) = 0 /\ DOMAIN admitted = {} /\ DOMAIN order = {}
  OBVIOUS
<1>2. Memory \in Nat
  BY ObservationsAssumption DEF Admission!AdmissionAssumption
<1>3. keys = {order[i] : i \in DOMAIN order}
  BY <1>1
<1> QED BY <1>1, <1>2, <1>3
  DEF LastInv, OrderInv, Admission!AdmittedInOrder, Admission!AdmittedInTime,
      Admission!MemoryIsOfAdmitted

LEMMA AdmissionBegins ==
  ASSUME Admission!Init
  PROVE  AdmissionInv
<1>1. /\ LastInv /\ OrderInv /\ Admission!AdmittedInOrder /\ Admission!AdmittedInTime
      /\ Admission!MemoryIsOfAdmitted
      /\ admitted \in Seq(AdmittedFrames) /\ order \in Seq({Admission!Key(m) : m \in Messages})
  BY FreshConnection DEF Admission!Init
<1>2. Admission!TypeOK
  <2>1. Len(admitted) = 0
    BY DEF Admission!Init
  <2>2. {inference, calibrating, closing} \subseteq BOOLEAN
    BY Zenon DEF Admission!Init
  <2>3. now \in 0..MaxTime /\ received \in -1..now
    BY ObservationsAssumption DEF Admission!Init, Admission!None, Admission!AdmissionAssumption
  <2> QED
    BY <2>1, <2>2, <2>3, ObservationsAssumption
    DEF Admission!Init, Admission!TypeOK, Admission!None, Admission!AdmissionAssumption
<1>3. ToldInv
  <2>1. told = <<"nothing">>
    BY DEF Admission!Init
  <2> QED BY <2>1 DEF ToldInv
<1>4. Admission!OpenedOnce /\ gap = (IF calibrating THEN 1 ELSE FrameGap)
  BY DEF Admission!Init, Admission!OpenedOnce
<1> QED BY <1>1, <1>2, <1>3, <1>4 DEF AdmissionInv, AdmissionTypes

\* A step that lets nothing in leaves what was let in as it was.
LEMMA MemoryStays ==
  ASSUME AdmissionInv, UNCHANGED Admission!memory
  PROVE  /\ LastInv' /\ OrderInv' /\ Admission!AdmittedInOrder' /\ Admission!AdmittedInTime'
         /\ Admission!MemoryIsOfAdmitted'
         /\ admitted' \in Seq(AdmittedFrames) /\ order' \in Seq({Admission!Key(m) : m \in Messages})
         /\ \A m : Admission!Rejection(m)' = Admission!Rejection(m)
<1>1. /\ admitted' = admitted /\ order' = order /\ keys' = keys
      /\ stream' = stream /\ sequence' = sequence /\ received' = received
  BY DEF Admission!memory
<1>2. LastInv' /\ OrderInv'
  BY <1>1 DEF AdmissionInv, LastInv, OrderInv
<1>3. Admission!AdmittedInOrder' /\ Admission!AdmittedInTime' /\ Admission!MemoryIsOfAdmitted'
  BY <1>1
  DEF AdmissionInv, Admission!AdmittedInOrder, Admission!AdmittedInTime,
      Admission!MemoryIsOfAdmitted
<1>4. \A m : Admission!Rejection(m)' = Admission!Rejection(m)
  BY <1>1 DEF Admission!Rejection
<1> QED BY <1>1, <1>2, <1>3, <1>4 DEF AdmissionInv, AdmissionTypes

\* What the parts of TypeOK say, one by one.
HelloStages == {"hello", "open", "1000", "1002", "1008", "1009"}

LEMMA TypesAre ==
  ASSUME AdmissionInv
  PROVE  /\ token \in {"issued", "expired", "consumed"} /\ hello \in HelloStages
         /\ inference \in BOOLEAN /\ calibrating \in BOOLEAN /\ closing \in BOOLEAN
         /\ busy \in {"no", "processing", "late"} /\ opened \in Nat /\ opened <= 1
         /\ now \in Nat /\ now <= MaxTime /\ MaxTime \in Nat /\ received \in -1..now
         /\ stream \in Nat \cup {Admission!None} /\ sequence \in Nat \cup {-1}
         /\ Len(admitted) <= MaxAdmitted
         /\ gap = (IF calibrating THEN 1 ELSE FrameGap) /\ FrameGap \in Nat \ {0} /\ Memory \in Nat \ {0}
         /\ admitted \in Seq(AdmittedFrames) /\ order \in Seq({Admission!Key(m) : m \in Messages})
<1>1. /\ Admission!TypeOK
      /\ gap = (IF calibrating THEN 1 ELSE FrameGap) /\ admitted \in Seq(AdmittedFrames)
      /\ order \in Seq({Admission!Key(m) : m \in Messages})
  BY DEF AdmissionInv, AdmissionTypes
<1>2. {inference, calibrating, closing} \subseteq BOOLEAN
  BY <1>1 DEF Admission!TypeOK
<1>3. inference \in BOOLEAN /\ calibrating \in BOOLEAN /\ closing \in BOOLEAN
  BY <1>2, Zenon
<1>4. /\ token \in {"issued", "expired", "consumed"} /\ hello \in HelloStages
      /\ busy \in {"no", "processing", "late"} /\ opened \in Nat
      /\ stream \in Nat \cup {Admission!None} /\ sequence \in Nat \cup {-1}
      /\ Len(admitted) <= MaxAdmitted
  BY <1>1 DEF Admission!TypeOK, HelloStages
<1>5. opened <= 1
  BY DEF AdmissionInv, Admission!OpenedOnce
<1>6. MaxTime \in Nat /\ FrameGap \in Nat \ {0} /\ Memory \in Nat \ {0}
  BY ObservationsAssumption DEF Admission!AdmissionAssumption
<1>7. now \in Nat /\ now <= MaxTime /\ received \in -1..now
  <2>1. now \in 0..MaxTime /\ received \in -1..now
    BY <1>1 DEF Admission!TypeOK
  <2> QED BY <1>6, <2>1
<1> QED BY <1>1, <1>3, <1>4, <1>5, <1>6, <1>7

\* A step that lets nothing in.
LEMMA LetsNothingIn ==
  ASSUME AdmissionInv, UNCHANGED Admission!memory,
         token' \in {"issued", "expired", "consumed"}, hello' \in HelloStages,
         inference' \in BOOLEAN, calibrating' \in BOOLEAN, closing' \in BOOLEAN,
         busy' \in {"no", "processing", "late"}, opened' \in Nat,
         now' \in Nat, now <= now', now' <= MaxTime,
         gap' = (IF calibrating' THEN 1 ELSE FrameGap),
         Admission!OpenedOnce', ToldInv'
  PROVE  AdmissionInv'
<1>1. /\ LastInv' /\ OrderInv' /\ Admission!AdmittedInOrder' /\ Admission!AdmittedInTime'
      /\ Admission!MemoryIsOfAdmitted'
      /\ admitted' \in Seq(AdmittedFrames) /\ order' \in Seq({Admission!Key(m) : m \in Messages})
  BY MemoryStays
<1>2. /\ stream' \in Nat \cup {Admission!None} /\ sequence' \in Nat \cup {-1}
      /\ Len(admitted') <= MaxAdmitted
      /\ received' = received /\ received \in -1..now /\ now \in Nat /\ MaxTime \in Nat
  BY TypesAre DEF Admission!memory
<1>3. now' \in 0..MaxTime /\ received' \in -1..now'
  BY <1>2
<1>4. {inference', calibrating', closing'} \subseteq BOOLEAN
  BY Zenon
<1>5. Admission!TypeOK'
  BY <1>2, <1>3, <1>4 DEF Admission!TypeOK, HelloStages
<1> QED BY <1>1, <1>5 DEF AdmissionInv, AdmissionTypes

LEMMA HelloKeeps ==
  ASSUME AdmissionInv, NEW failed, Admission!Hello(failed)
  PROVE  AdmissionInv'
<1> DEFINE wrong == \E i \in DOMAIN Admission!HelloChecks : Admission!HelloChecks[i] \in failed
<1>1. /\ UNCHANGED Admission!memory /\ hello = "hello"
      /\ token' = (IF wrong THEN token ELSE "consumed")
      /\ told' = Admission!HelloAnswer(failed) /\ hello' = told'[2]
      /\ opened' = opened + (IF hello' = "open" THEN 1 ELSE 0)
      /\ inference' = inference /\ calibrating' = calibrating /\ gap' = gap /\ now' = now
      /\ closing' = closing /\ busy' = busy
  BY DEF Admission!Hello, Admission!Consumed, Admission!flags, Admission!work
<1>2. \/ told' = <<"invalid_message", "1002">>
      \/ told' = <<"unauthorized", "1008">>
      \/ told' = <<"ready", "open">> /\ ~wrong /\ token = "issued"
  BY <1>1 DEF Admission!HelloAnswer
<1> HIDE DEF wrong
<1>3. ToldInv'
  BY <1>2 DEF ToldInv
<1>4. hello' \in HelloStages /\ (hello' = "open" => ~wrong /\ token = "issued")
  BY <1>1, <1>2 DEF HelloStages
<1>5. Admission!OpenedOnce'
  <2>1. opened \in Nat /\ opened <= 1 /\ (opened = 1 => token = "consumed")
    BY TypesAre DEF AdmissionInv, Admission!OpenedOnce
  <2> QED BY <1>1, <1>4, <2>1 DEF Admission!OpenedOnce
<1>6. opened' \in Nat
  BY <1>1, TypesAre
<1> QED BY <1>1, <1>3, <1>4, <1>5, <1>6, TypesAre, LetsNothingIn

LEMMA ReconnectKeeps ==
  ASSUME AdmissionInv, Admission!Reconnect
  PROVE  AdmissionInv'
<1>1. /\ admitted' = <<>> /\ order' = <<>> /\ keys' = {}
      /\ stream' = Admission!None /\ sequence' = -1 /\ received' = Admission!None
  BY DEF Admission!Reconnect
<1>2. /\ LastInv' /\ OrderInv' /\ Admission!AdmittedInOrder' /\ Admission!AdmittedInTime'
      /\ Admission!MemoryIsOfAdmitted'
      /\ admitted' \in Seq(AdmittedFrames) /\ order' \in Seq({Admission!Key(m) : m \in Messages})
  <2>1. Len(admitted') = 0 /\ Len(order') = 0 /\ DOMAIN admitted' = {} /\ DOMAIN order' = {}
    BY <1>1
  <2>2. Memory \in Nat
    BY ObservationsAssumption DEF Admission!AdmissionAssumption
  <2>3. keys' = {order'[i] : i \in DOMAIN order'}
    BY <1>1, <2>1
  <2> QED BY <1>1, <2>1, <2>2, <2>3
    DEF LastInv, OrderInv, Admission!AdmittedInOrder, Admission!AdmittedInTime,
        Admission!MemoryIsOfAdmitted
<1>3. Admission!TypeOK'
  <2>1. {inference', calibrating', closing'} \subseteq BOOLEAN
    BY Zenon DEF Admission!Reconnect
  <2>2. token' = token /\ now' = now /\ opened' = opened /\ hello' = "hello" /\ busy' = "no"
    BY DEF Admission!Reconnect
  <2>3. now' \in 0..MaxTime /\ received' \in -1..now'
    BY <1>1, <2>2, TypesAre DEF Admission!None
  <2>4. Len(admitted') <= MaxAdmitted
    <3>1. Len(admitted') = 0
      BY <1>1
    <3> QED BY <3>1, ObservationsAssumption DEF Admission!AdmissionAssumption
  <2> QED BY <1>1, <2>1, <2>2, <2>3, <2>4, TypesAre DEF Admission!TypeOK
<1>4. ToldInv'
  <2>1. told' = <<"nothing">>
    BY DEF Admission!Reconnect
  <2> QED BY <2>1 DEF ToldInv
<1>5. Admission!OpenedOnce' /\ gap' = (IF calibrating' THEN 1 ELSE FrameGap)
  BY DEF Admission!Reconnect, Admission!OpenedOnce, AdmissionInv
<1> QED BY <1>2, <1>3, <1>4, <1>5 DEF AdmissionInv, AdmissionTypes

LEMMA MalformedKeeps ==
  ASSUME AdmissionInv, NEW m, Admission!Malformed(m)
  PROVE  AdmissionInv'
<1>1. /\ UNCHANGED Admission!memory /\ token' = token /\ now' = now /\ opened' = opened
      /\ inference' = inference /\ calibrating' = calibrating /\ gap' = gap
      /\ closing' = closing /\ busy' = busy
      /\ told' = <<"close", "1009">> \/ told' = <<"invalid_message", "1002">>
      /\ hello = "open" /\ hello' = told'[2]
  BY DEF Admission!Malformed, Admission!flags, Admission!work
<1>2. hello' \in HelloStages /\ ToldInv'
  BY <1>1 DEF HelloStages, ToldInv
<1>3. Admission!OpenedOnce'
  BY <1>1 DEF Admission!OpenedOnce, AdmissionInv
<1> QED BY <1>1, <1>2, <1>3, TypesAre, LetsNothingIn

LEMMA DropKeeps ==
  ASSUME AdmissionInv, NEW m, Admission!Drop(m)
  PROVE  AdmissionInv'
<1>1. /\ UNCHANGED Admission!memory /\ token' = token /\ now' = now /\ opened' = opened
      /\ hello' = hello
      /\ inference' = inference /\ calibrating' = calibrating /\ gap' = gap
      /\ closing' = closing /\ busy' = busy /\ told' = <<Admission!DropReason(m), m>>
  BY DEF Admission!Drop, Admission!flags, Admission!work
<1>2. ToldInv'
  <2>1. told'[1] = Admission!DropReason(m) /\ told'[2] = m
    BY <1>1
  <2>2. Admission!DropReason(m) \in {"in_flight", "fps_limited"} => Admission!Rejection(m) = "none"
    BY DEF Admission!DropReason, Admission!Rejection
  <2>3. Admission!Rejection(m)' = Admission!Rejection(m)
    BY <1>1 DEF Admission!memory, Admission!Rejection
  <2>4. Admission!DropReason(m) \in {"in_flight", "fps_limited"} => Admission!Rejection(m)' = "none"
    BY <2>2, <2>3
  <2>5. told'[1] \in {"in_flight", "fps_limited"} => Admission!Rejection(told[2])' = "none"
    BY <2>1, <2>4 DEF Admission!Rejection
  <2> QED BY <2>5 DEF ToldInv
<1>3. Admission!OpenedOnce'
  BY <1>1 DEF Admission!OpenedOnce, AdmissionInv
<1> QED BY <1>1, <1>2, <1>3, TypesAre, LetsNothingIn

LEMMA ControlKeeps ==
  ASSUME AdmissionInv,
         \/ Admission!BadControl \/ Admission!StartInference \/ Admission!StopInference
         \/ Admission!StartCalibration \/ Admission!StopSession
  PROVE  AdmissionInv'
<1>1. /\ UNCHANGED Admission!memory /\ token' = token /\ now' = now /\ opened' = opened
      /\ busy' = busy
      /\ hello = "open"
      /\ \/ told' = <<"invalid_message", "1002">>
         \/ \E action \in {"start_inference", "stop_inference", "start_calibration", "stop_session"} :
              told' = <<action>>
  BY DEF Admission!BadControl, Admission!StartInference, Admission!StopInference,
         Admission!StartCalibration, Admission!StopSession, Admission!Control, Admission!work
<1>2. hello' \in {"open", "1000", "1002"}
  BY <1>1
  DEF Admission!BadControl, Admission!StartInference, Admission!StopInference,
      Admission!StartCalibration, Admission!StopSession, Admission!Control
<1>3. inference' \in BOOLEAN /\ calibrating' \in BOOLEAN /\ closing' \in BOOLEAN
  <2>1. inference \in BOOLEAN /\ calibrating \in BOOLEAN /\ closing \in BOOLEAN
    BY TypesAre
  <2>2. inference' = inference \/ inference' = (inference \/ ~calibrating) \/ inference' = FALSE
    BY DEF Admission!BadControl, Admission!StartInference, Admission!StopInference,
           Admission!StartCalibration, Admission!StopSession, Admission!Control, Admission!flags
  <2>3. calibrating' = calibrating \/ calibrating' = TRUE \/ calibrating' = FALSE
    BY DEF Admission!BadControl, Admission!StartInference, Admission!StopInference,
           Admission!StartCalibration, Admission!StopSession, Admission!Control, Admission!flags,
       Admission!CalibrationOver
  <2>4. closing' = closing \/ closing' = TRUE
    BY DEF Admission!BadControl, Admission!StartInference, Admission!StopInference,
           Admission!StartCalibration, Admission!StopSession, Admission!Control, Admission!work
  <2> QED BY <2>1, <2>2, <2>3, <2>4
<1>4. gap' = (IF calibrating' THEN 1 ELSE FrameGap)
  <2>1. gap = (IF calibrating THEN 1 ELSE FrameGap)
    BY TypesAre
  <2> QED BY <2>1
    DEF Admission!BadControl, Admission!StartInference, Admission!StopInference,
        Admission!StartCalibration, Admission!StopSession, Admission!Control, Admission!flags,
        Admission!CalibrationOver
<1>5. ToldInv'
  BY <1>1 DEF ToldInv
<1>6. Admission!OpenedOnce'
  BY <1>1, <1>2 DEF Admission!OpenedOnce, AdmissionInv
<1> QED BY <1>1, <1>2, <1>3, <1>4, <1>5, <1>6, TypesAre, LetsNothingIn DEF HelloStages

LEMMA OthersKeep ==
  ASSUME AdmissionInv,
         \/ Admission!CalibrationEnds \/ Admission!FrameEnds \/ Admission!LateWorkEnds
         \/ Admission!TimePasses \/ UNCHANGED Admission!vars
  PROVE  AdmissionInv'
<1>1. /\ UNCHANGED Admission!memory /\ opened' = opened /\ told' = told
      /\ inference' = inference /\ closing' = closing
  BY DEF Admission!CalibrationEnds, Admission!FrameEnds, Admission!LateWorkEnds,
         Admission!TimePasses, Admission!vars, Admission!flags, Admission!work
<1>2. /\ token' = token \/ (token = "issued" /\ token' = "expired")
      /\ hello' = hello \/ (hello = "open" /\ hello' = "1000")
  BY DEF Admission!CalibrationEnds, Admission!FrameEnds, Admission!LateWorkEnds,
         Admission!TimePasses, Admission!vars
<1>3. busy' = busy \/ busy' \in {"no", "late"}
  BY DEF Admission!CalibrationEnds, Admission!FrameEnds, Admission!LateWorkEnds,
         Admission!TimePasses, Admission!vars, Admission!work
<1>4. \/ calibrating' = calibrating /\ gap' = gap
      \/ calibrating' = FALSE /\ gap' = FrameGap
  BY DEF Admission!CalibrationEnds, Admission!FrameEnds, Admission!LateWorkEnds,
         Admission!TimePasses, Admission!vars, Admission!flags, Admission!CalibrationOver
<1>5. now' = now \/ (now < MaxTime /\ now' = now + 1)
  BY DEF Admission!CalibrationEnds, Admission!FrameEnds, Admission!LateWorkEnds,
         Admission!TimePasses, Admission!vars
<1>6. ToldInv'
  BY <1>1, MemoryStays DEF ToldInv, AdmissionInv
<1>7. Admission!OpenedOnce'
  BY <1>1, <1>2, TypesAre DEF Admission!OpenedOnce, AdmissionInv
<1>8. now' \in Nat /\ now <= now' /\ now' <= MaxTime
  BY <1>5, TypesAre
<1>9. calibrating' \in BOOLEAN /\ gap' = (IF calibrating' THEN 1 ELSE FrameGap)
  <2>1. calibrating \in BOOLEAN /\ gap = (IF calibrating THEN 1 ELSE FrameGap)
    BY TypesAre
  <2>2. calibrating' = calibrating /\ gap' = gap => gap' = (IF calibrating' THEN 1 ELSE FrameGap)
    <3>1. CASE calibrating
      <4>1. gap = 1
        BY <2>1, <3>1
      <4> QED BY <3>1, <4>1
    <3>2. CASE ~calibrating
      <4>1. gap = FrameGap
        BY <2>1, <3>2
      <4> QED BY <3>2, <4>1
    <3> QED BY <3>1, <3>2
  <2>3. calibrating' = FALSE /\ gap' = FrameGap => gap' = (IF calibrating' THEN 1 ELSE FrameGap)
    OBVIOUS
  <2>4. calibrating' \in BOOLEAN
    BY <1>4, <2>1
  <2> QED BY <1>4, <2>2, <2>3, <2>4
<1>10. /\ token' \in {"issued", "expired", "consumed"} /\ hello' \in HelloStages
       /\ busy' \in {"no", "processing", "late"}
  BY <1>2, <1>3, TypesAre DEF HelloStages
<1> QED BY <1>1, <1>6, <1>7, <1>8, <1>9, <1>10, TypesAre, LetsNothingIn

\* What is known of a frame when it is let in.
LEMMA AcceptedIs ==
  ASSUME AdmissionInv, NEW m \in Messages, Admission!Accept(m)
  PROVE  /\ Admission!Key(m) \notin keys /\ sequence < m.sequence
         /\ (stream = Admission!None \/ stream <= m.epoch)
         /\ received = Admission!None \/ now - received >= gap
         /\ m.epoch \in Nat /\ m.sequence \in Nat
         /\ received' = now /\ stream' = m.epoch /\ sequence' = m.sequence
<1>1. m.epoch \in Nat /\ m.sequence \in Nat
  BY ObservationsAssumption DEF Admission!AdmissionAssumption
<1>2. Admission!Rejection(m) = "none" /\ ~Admission!Limited
  BY DEF Admission!Accept, Admission!DropReason
<1>3. /\ Admission!Key(m) \notin keys /\ ~(stream # Admission!None /\ m.epoch < stream)
      /\ ~(m.sequence <= sequence)
  BY <1>2 DEF Admission!Rejection
<1>4. received = Admission!None \/ ~(now - received < gap)
  BY <1>2 DEF Admission!Limited
<1>5. /\ received' = now /\ sequence' = m.sequence
      /\ stream' = IF stream > m.epoch THEN stream ELSE m.epoch
  BY DEF Admission!Accept
<1>6. /\ now \in Nat /\ received \in Int /\ stream \in Nat \cup {-1} /\ sequence \in Int
  BY TypesAre DEF Admission!None
<1>7. gap \in Int
  BY TypesAre
<1>8. sequence < m.sequence
  BY <1>1, <1>3, <1>6
<1>9. stream = Admission!None \/ stream <= m.epoch
  BY <1>1, <1>3, <1>6 DEF Admission!None
<1>10. stream' = m.epoch
  BY <1>1, <1>5, <1>6, <1>9 DEF Admission!None
<1>11. received = Admission!None \/ now - received >= gap
  BY <1>4, <1>6, <1>7
<1> QED BY <1>1, <1>3, <1>5, <1>8, <1>9, <1>10, <1>11

LEMMA AcceptKeeps ==
  ASSUME AdmissionInv, NEW m \in Messages, Admission!Accept(m)
  PROVE  AdmissionInv'
<1> DEFINE e == [frame |-> m, at |-> now, gap |-> gap, calibrating |-> calibrating]
<1>1. /\ hello' = hello /\ token' = token /\ now' = now /\ opened' = opened /\ closing' = closing
      /\ inference' = inference /\ calibrating' = calibrating /\ gap' = gap
      /\ busy' = "processing" /\ told' = <<"none", m>> /\ admitted' = Append(admitted, e)
      /\ keys' = Admission!KeysWith(m) /\ Len(admitted) < MaxAdmitted
      /\ order' = Append(IF Len(order) = Memory THEN Tail(order) ELSE order, Admission!Key(m))
  BY DEF Admission!Accept, Admission!flags
<1>e. /\ e \in AdmittedFrames /\ e.frame = m /\ e.at = now /\ e.gap = gap
      /\ e.calibrating = calibrating
  <2>1. now \in Nat /\ calibrating \in BOOLEAN
    BY TypesAre
  <2>2. gap \in Nat
    BY TypesAre
  <2> QED BY <2>1, <2>2 DEF AdmittedFrames
<1> HIDE DEF e
<1>t. /\ admitted \in Seq(AdmittedFrames) /\ order \in Seq({Admission!Key(x) : x \in Messages})
      /\ Memory \in Nat \ {0} /\ FrameGap \in Nat \ {0}
  BY TypesAre
<1>n. PICK n \in Nat : n = Len(admitted)
  BY <1>t
<1>k. PICK k \in Nat : k = Len(order)
  BY <1>t
<1>2. /\ admitted' \in Seq(AdmittedFrames) /\ Len(admitted') = n + 1
      /\ DOMAIN admitted' = 1..(n + 1)
      /\ admitted'[n + 1] = e
      /\ \A i \in 1..n : admitted'[i] = admitted[i] /\ admitted[i] \in AdmittedFrames
  BY <1>1, <1>e, <1>n, <1>t
<1>3. n > 0 => stream = admitted[n].frame.epoch /\ sequence = admitted[n].frame.sequence
               /\ received = admitted[n].at
  BY <1>n, <1>t, EmptySeq DEF AdmissionInv, LastInv
<1>4. k = (IF n <= Memory THEN n ELSE Memory)
  BY <1>n, <1>k DEF AdmissionInv, OrderInv
<1>5. \A i \in 1..k : order[i] = Admission!Key(admitted[n - k + i].frame)
  BY <1>n, <1>k, <1>t DEF AdmissionInv, Admission!MemoryIsOfAdmitted
<1>6. keys = {order[i] : i \in 1..k}
  BY <1>k, <1>t DEF AdmissionInv, Admission!MemoryIsOfAdmitted
<1>7. /\ Admission!Key(m) \notin keys /\ sequence < m.sequence
      /\ (stream = Admission!None \/ stream <= m.epoch)
      /\ received = Admission!None \/ now - received >= gap
      /\ m.epoch \in Nat /\ m.sequence \in Nat
      /\ received' = now /\ stream' = m.epoch /\ sequence' = m.sequence
  BY AcceptedIs
<1>8. LastInv'
  <2>1. admitted' # <<>>
    BY <1>2
  <2> QED BY <1>2, <1>7, <1>e, <2>1 DEF LastInv
<1>9. \A i \in 1..n : /\ admitted[i].frame \in Messages /\ admitted[i].at \in Nat
                      /\ admitted[i].frame.epoch \in Nat /\ admitted[i].frame.sequence \in Nat
  <2>1. ASSUME NEW i \in 1..n
        PROVE  admitted[i].frame \in Messages /\ admitted[i].at \in Nat
    BY <1>2 DEF AdmittedFrames
  <2> QED BY <2>1, ObservationsAssumption DEF Admission!AdmissionAssumption
<1>10. Admission!AdmittedInOrder'
  <2> SUFFICES ASSUME NEW i \in 1..(n + 1), NEW j \in 1..(n + 1), i < j
               PROVE  LET a == admitted'[i].frame b == admitted'[j].frame
                      IN /\ a.sequence < b.sequence /\ a.epoch <= b.epoch
                         /\ j - i <= Memory => Admission!Key(a) # Admission!Key(b)
    BY <1>2 DEF Admission!AdmittedInOrder, Admission!Key
  <2>0. \A x \in 1..n, y \in 1..n : x < y =>
          /\ admitted[x].frame.sequence < admitted[y].frame.sequence
          /\ admitted[x].frame.epoch <= admitted[y].frame.epoch
          /\ y - x <= Memory => Admission!Key(admitted[x].frame) # Admission!Key(admitted[y].frame)
    BY <1>n, <1>t DEF AdmissionInv, Admission!AdmittedInOrder
  <2>1. CASE j \in 1..n
    <3>1. i \in 1..n
      BY <2>1
    <3> QED BY <1>2, <2>0, <2>1, <3>1
  <2>2. CASE j = n + 1
    <3>1. i \in 1..n /\ n > 0 /\ n \in 1..n
      BY <2>2
    <3>2. admitted[i].frame.sequence <= sequence /\ admitted[i].frame.epoch <= stream
      <4>1. CASE i = n
        BY <1>3, <1>9, <3>1, <4>1
      <4>2. CASE i < n
        <5>1. admitted[i].frame.sequence < admitted[n].frame.sequence
              /\ admitted[i].frame.epoch <= admitted[n].frame.epoch
          BY <2>0, <3>1, <4>2
        <5>2. /\ admitted[i].frame.sequence \in Nat /\ admitted[n].frame.sequence \in Nat
              /\ admitted[i].frame.epoch \in Nat /\ admitted[n].frame.epoch \in Nat
          BY <1>9, <3>1
        <5> QED BY <1>3, <3>1, <5>1, <5>2
      <4> QED BY <3>1, <4>1, <4>2
    <3>3. sequence \in Nat /\ stream \in Nat /\ stream # Admission!None
      BY <1>3, <1>9, <3>1 DEF Admission!None
    <3>4. admitted[i].frame.sequence < m.sequence /\ admitted[i].frame.epoch <= m.epoch
      <4>1. admitted[i].frame.sequence \in Nat /\ admitted[i].frame.epoch \in Nat
        BY <1>9, <3>1
      <4> QED BY <1>7, <3>2, <3>3, <4>1
    <3>5. ASSUME j - i <= Memory PROVE Admission!Key(admitted[i].frame) # Admission!Key(m)
      <4>1. i - (n - k) \in 1..k /\ n - k + (i - (n - k)) = i
        BY <1>4, <1>t, <2>2, <3>1, <3>5
      <4>2. order[i - (n - k)] = Admission!Key(admitted[i].frame)
        BY <1>5, <4>1
      <4>3. order[i - (n - k)] \in keys
        BY <1>6, <4>1
      <4> QED BY <1>7, <4>2, <4>3
    <3> QED BY <1>2, <1>e, <2>2, <3>1, <3>4, <3>5
  <2> QED BY <2>1, <2>2
<1>11. Admission!AdmittedInTime'
  <2>1. ASSUME NEW i \in 2..(n + 1) PROVE admitted'[i].at - admitted'[i - 1].at >= admitted'[i].gap
    <3>1. CASE i \in 2..n
      <4>1. i \in 1..n /\ i - 1 \in 1..n
        BY <3>1
      <4>2. admitted[i].at - admitted[i - 1].at >= admitted[i].gap
        BY <1>n, <3>1 DEF AdmissionInv, Admission!AdmittedInTime
      <4> QED BY <1>2, <4>1, <4>2
    <3>2. CASE i = n + 1
      <4>1. n \in 1..n /\ i - 1 = n /\ n > 0
        BY <3>2
      <4>2. received = admitted[n].at /\ received \in Nat
        BY <1>3, <1>9, <4>1
      <4>3. now - received >= gap
        BY <1>7, <4>2 DEF Admission!None
      <4>4. admitted'[i] = e /\ admitted'[i - 1] = admitted[n]
        BY <1>2, <3>2, <4>1
      <4> QED BY <1>e, <4>2, <4>3, <4>4
    <3> QED BY <3>1, <3>2
  <2>2. ASSUME NEW i \in 1..(n + 1)
        PROVE  admitted'[i].gap = IF admitted'[i].calibrating THEN 1 ELSE FrameGap
    <3>1. CASE i \in 1..n
      <4>1. i \in DOMAIN admitted /\ admitted'[i] = admitted[i]
        BY <1>2, <1>n, <1>t, <3>1
      <4>2. admitted[i].gap = IF admitted[i].calibrating THEN 1 ELSE FrameGap
        BY <4>1 DEF AdmissionInv, Admission!AdmittedInTime
      <4> QED BY <4>1, <4>2, Zenon
    <3>2. CASE i = n + 1
      <4>1. gap = (IF calibrating THEN 1 ELSE FrameGap)
        BY TypesAre
      <4>2. admitted'[i] = e
        BY <1>2, <3>2
      <4> QED BY <1>e, <4>1, <4>2
    <3> QED BY <3>1, <3>2
  <2> QED BY <1>2, <2>1, <2>2 DEF Admission!AdmittedInTime
<1>12. /\ OrderInv' /\ Admission!MemoryIsOfAdmitted'
       /\ order' \in Seq({Admission!Key(x) : x \in Messages})
  <2>0. Admission!Key(m) \in {Admission!Key(x) : x \in Messages}
    OBVIOUS
  <2> DEFINE K == {Admission!Key(x) : x \in Messages}
  <2>a. K = {Admission!Key(x) : x \in Messages}
    OBVIOUS
  <2> HIDE DEF K
  <2>1. CASE k = Memory
    <3>1. k \in Nat \ {0} /\ n >= k
      BY <1>4, <1>t, <2>1
    <3>2. order' = Append(Tail(order), Admission!Key(m))
      BY <1>1, <1>k, <2>1
    <3>3. Tail(order) \in Seq(K) /\ Len(Tail(order)) = k - 1
          /\ \A i \in 1..(k - 1) : Tail(order)[i] = order[i + 1]
      BY <1>k, <1>t, <2>a, <3>1, EmptySeq
    <3>4. /\ order' \in Seq(K) /\ Len(order') = k /\ DOMAIN order' = 1..k
          /\ order'[k] = Admission!Key(m) /\ \A i \in 1..(k - 1) : order'[i] = order[i + 1]
      <4> DEFINE s == Tail(order)
      <4>1. s \in Seq(K) /\ Len(s) = k - 1
        BY <3>3
      <4>2. order' = Append(s, Admission!Key(m)) /\ Admission!Key(m) \in K
        BY <2>0, <2>a, <3>2
      <4>3. \A i \in 1..(k - 1) : s[i] = order[i + 1]
        BY <3>3
      <4> HIDE DEF s
      <4> QED BY <3>1, <4>1, <4>2, <4>3
    <3>5. ASSUME NEW i \in 1..k PROVE order'[i] = Admission!Key(admitted'[(n + 1) - k + i].frame)
      <4>1. CASE i = k
        BY <1>2, <1>e, <3>1, <3>4, <4>1
      <4>2. CASE i < k
        <5>1. i \in 1..(k - 1) /\ i + 1 \in 1..k /\ n - k + (i + 1) = (n + 1) - k + i
              /\ (n + 1) - k + i \in 1..n
          BY <3>1, <4>2
        <5>2. order[i + 1] = Admission!Key(admitted[(n + 1) - k + i].frame)
          BY <1>5, <5>1
        <5> QED BY <1>2, <3>4, <5>1, <5>2
      <4> QED BY <3>1, <4>1, <4>2
    <3>6. keys' = {order'[i] : i \in 1..k}
      <4>1. keys' = (keys \ {order[1]}) \cup {Admission!Key(m)}
        <5>1. Head(order) = order[1]
          BY <1>k, <1>t, <3>1
        <5> QED BY <1>1, <1>k, <2>1, <5>1 DEF Admission!KeysWith
      <4>2. ASSUME NEW i \in 2..k PROVE order[i] # order[1]
        <5>1. /\ i \in 1..k /\ 1 \in 1..k
              /\ n - k + 1 \in 1..n /\ n - k + i \in 1..n /\ n - k + 1 < n - k + i
              /\ (n - k + i) - (n - k + 1) <= Memory
          BY <2>1, <3>1
        <5>2. \A x \in 1..n, y \in 1..n : x < y =>
                (y - x <= Memory => Admission!Key(admitted[x].frame) # Admission!Key(admitted[y].frame))
          BY <1>n, <1>t DEF AdmissionInv, Admission!AdmittedInOrder
        <5>3. /\ order[i] = Admission!Key(admitted[n - k + i].frame)
              /\ order[1] = Admission!Key(admitted[n - k + 1].frame)
          BY <1>5, <5>1
        <5> QED BY <5>1, <5>2, <5>3
      <4>3. keys \ {order[1]} = {order[i] : i \in 2..k}
        BY <1>6, <3>1, <4>2
      <4>4. {order[i] : i \in 2..k} \cup {Admission!Key(m)} = {order'[i] : i \in 1..k}
        <5>1. ASSUME NEW i \in 2..k PROVE order[i] \in {order'[z] : z \in 1..k}
          <6>1. i - 1 \in 1..(k - 1) /\ (i - 1) + 1 = i /\ i - 1 \in 1..k
            BY <3>1, <5>1
          <6>2. order'[i - 1] = order[i]
            BY <3>4, <6>1
          <6> QED BY <6>1, <6>2
        <5>2. ASSUME NEW i \in 1..k PROVE order'[i] \in {order[z] : z \in 2..k} \cup {Admission!Key(m)}
          <6>1. CASE i = k
            BY <3>4, <6>1
          <6>2. CASE i < k
            <7>1. i \in 1..(k - 1) /\ i + 1 \in 2..k
              BY <3>1, <6>2
            <7> QED BY <3>4, <7>1
          <6> QED BY <6>1, <6>2
        <5>3. Admission!Key(m) \in {order'[z] : z \in 1..k}
          <6>1. k \in 1..k
            BY <3>1
          <6> QED BY <3>4, <6>1
        <5> QED BY <5>1, <5>2, <5>3
      <4> QED BY <4>1, <4>3, <4>4
    <3>7. OrderInv'
      <4>1. n + 1 > Memory
        BY <2>1, <3>1
      <4> QED BY <1>2, <1>t, <2>1, <3>4, <4>1 DEF OrderInv
    <3>8. Admission!MemoryIsOfAdmitted'
      BY <1>2, <3>4, <3>5, <3>6 DEF Admission!MemoryIsOfAdmitted, Admission!Key
    <3> QED BY <2>a, <3>4, <3>7, <3>8
  <2>2. CASE k # Memory
    <3>1. k = n /\ n < Memory
      BY <1>4, <1>t, <2>2
    <3>2. order' = Append(order, Admission!Key(m))
      BY <1>1, <1>k, <2>2
    <3>3. /\ order' \in Seq(K) /\ Len(order') = k + 1 /\ DOMAIN order' = 1..(k + 1)
          /\ order'[k + 1] = Admission!Key(m) /\ \A i \in 1..k : order'[i] = order[i]
      BY <1>k, <1>t, <2>0, <2>a, <3>2
    <3>4. ASSUME NEW i \in 1..(k + 1) PROVE order'[i] = Admission!Key(admitted'[(n + 1) - (k + 1) + i].frame)
      <4>1. (n + 1) - (k + 1) + i = i /\ n - k + i = i
        BY <3>1
      <4>2. CASE i = k + 1
        BY <1>2, <1>e, <3>1, <3>3, <4>1, <4>2
      <4>3. CASE i \in 1..k
        <5>1. order[i] = Admission!Key(admitted[i].frame)
          BY <1>5, <4>1, <4>3
        <5> QED BY <1>2, <3>1, <3>3, <4>1, <4>3, <5>1
      <4> QED BY <4>2, <4>3
    <3>5. keys' = keys \cup {Admission!Key(m)}
      BY <1>1, <1>k, <2>2 DEF Admission!KeysWith
    <3>6. keys' = {order'[i] : i \in 1..(k + 1)}
      BY <1>6, <3>3, <3>5
    <3>7. OrderInv'
      BY <1>2, <1>t, <3>1, <3>3 DEF OrderInv
    <3>8. Admission!MemoryIsOfAdmitted'
      BY <1>2, <3>3, <3>4, <3>6 DEF Admission!MemoryIsOfAdmitted, Admission!Key
    <3> QED BY <2>a, <3>3, <3>7, <3>8
  <2> QED BY <2>1, <2>2
<1>13. ToldInv'
  BY <1>1 DEF ToldInv
<1>14. Admission!OpenedOnce'
  BY <1>1 DEF Admission!OpenedOnce, AdmissionInv
<1>15. Admission!TypeOK'
  <2>1. {inference', calibrating', closing'} \subseteq BOOLEAN
    <3>1. inference \in BOOLEAN /\ calibrating \in BOOLEAN /\ closing \in BOOLEAN
      BY TypesAre
    <3> QED BY <1>1, <3>1, Zenon
  <2>2. now' \in 0..MaxTime /\ received' \in -1..now'
    BY <1>1, <1>7, TypesAre
  <2>3. Len(admitted') <= MaxAdmitted
    <3>1. n < MaxAdmitted /\ MaxAdmitted \in Nat
      BY <1>1, <1>n, ObservationsAssumption DEF Admission!AdmissionAssumption
    <3> QED BY <1>2, <3>1
  <2> QED BY <1>1, <1>7, <2>1, <2>2, <2>3, TypesAre DEF Admission!TypeOK, HelloStages
<1>16. gap' = (IF calibrating' THEN 1 ELSE FrameGap)
  <2>1. gap = (IF calibrating THEN 1 ELSE FrameGap)
    BY TypesAre
  <2> QED BY <1>1, <2>1, Zenon
<1> QED BY <1>2, <1>8, <1>10, <1>11, <1>12, <1>13, <1>14, <1>15, <1>16
  DEF AdmissionInv, AdmissionTypes

LEMMA AdmissionStep ==
  ASSUME AdmissionInv, [Admission!Next]_(Admission!vars)
  PROVE  AdmissionInv'
BY HelloKeeps, MalformedKeeps, DropKeeps, AcceptKeeps, ReconnectKeeps, ControlKeeps, OthersKeep
   DEF Admission!Next

-----------------------------------------------------------------------------
(* The timeline of a session: one observation *)

\* One observation tells of a frame no more than another does.
Agrees(c, o) ==
  /\ c.context = o.context
  /\ \A m \in Buffer!Modalities :
       \/ c.sample[m] = o.sample[m]
       \/ c.sample[m] \in Values /\ o.sample[m] \notin Values

\* The timeline t is what the observations in s say.
Keeps(t, s) ==
  /\ t = [k \in DOMAIN t |-> t[k]]
  /\ DOMAIN t = {Buffer!Key(o) : o \in s}
  /\ \A k \in DOMAIN t : t[k] \in Buffer!Observation /\ Buffer!Key(t[k]) = k
  /\ \A o \in s : Agrees(t[Buffer!Key(o)], o)
  /\ \A k \in DOMAIN t, m \in Buffer!Modalities :
       \E o \in s : Buffer!Key(o) = k /\ o.sample[m] = t[k].sample[m]

\* The indexes q and h say what the timeline says.
Indexed(t, q, h) ==
  /\ q = [n \in DOMAIN q |-> q[n]]
  /\ \A k \in DOMAIN t : t[k].context.seq \in DOMAIN q /\ q[t[k].context.seq] = k
  /\ \A n \in DOMAIN q : q[n] \in DOMAIN t /\ t[q[n]].context.seq = n
  /\ h \in Nat \cup {-1}
  /\ \A k \in DOMAIN t : t[k].context.epoch <= h
  /\ h # -1 => \E k \in DOMAIN t : t[k].context.epoch = h
  /\ IsFiniteSet(DOMAIN t) /\ Cardinality(DOMAIN t) <= MaxBuffered

DraftOf(t, q, h) == [timeline |-> t, sequences |-> q, highest |-> h, ok |-> TRUE]

LEMMA Counted ==
  ASSUME NEW S
  PROVE  Buffer!Cardinality(S) = Cardinality(S)
  BY DEF Buffer!Cardinality, Cardinality

LEMMA ObservationIs ==
  ASSUME NEW o \in Buffer!Observation
  PROVE  /\ o = [context |-> o.context, sample |-> o.sample]
         /\ o.context \in Buffer!Context
         /\ o.sample \in [Buffer!Modalities -> Values \cup MissingReasons]
         /\ o.context.epoch \in Nat /\ o.context.seq \in Nat
         /\ Buffer!Key(o) = <<o.context.epoch, o.context.frame>>
  BY DEF Buffer!Observation, Buffer!Context, Buffer!Key

LEMMA MergedIs ==
  ASSUME NEW c \in Buffer!Observation, NEW o \in Buffer!Observation, Buffer!Mergeable(c, o)
  PROVE  /\ Buffer!Merged(c, o) \in Buffer!Observation /\ Buffer!Merged(c, o).context = c.context
         /\ Buffer!Key(Buffer!Merged(c, o)) = Buffer!Key(c)
         /\ \A m \in Buffer!Modalities :
              Buffer!Merged(c, o).sample[m] = IF c.sample[m] \in Values THEN c.sample[m] ELSE o.sample[m]
         /\ Agrees(Buffer!Merged(c, o), o)
<1> DEFINE s == [m \in Buffer!Modalities |-> IF c.sample[m] \in Values THEN c.sample[m] ELSE o.sample[m]]
<1>1. Buffer!Merged(c, o) = [context |-> c.context, sample |-> s]
  BY ObservationIs DEF Buffer!Merged
<1>2. s \in [Buffer!Modalities -> Values \cup MissingReasons]
  BY ObservationIs
<1>3. Buffer!Merged(c, o) \in Buffer!Observation /\ Buffer!Merged(c, o).context = c.context
  BY <1>1, <1>2, ObservationIs DEF Buffer!Observation
<1>4. Buffer!Key(Buffer!Merged(c, o)) = Buffer!Key(c)
  BY <1>3 DEF Buffer!Key
<1>5. \A m \in Buffer!Modalities :
        Buffer!Merged(c, o).sample[m] = IF c.sample[m] \in Values THEN c.sample[m] ELSE o.sample[m]
  BY <1>1
<1>6. Agrees(Buffer!Merged(c, o), o)
  <2>1. c.context = o.context
    BY DEF Buffer!Mergeable
  <2>2. ASSUME NEW m \in Buffer!Modalities
        PROVE  \/ Buffer!Merged(c, o).sample[m] = o.sample[m]
               \/ Buffer!Merged(c, o).sample[m] \in Values /\ o.sample[m] \notin Values
    <3>1. ~Buffer!Conflicting(c.sample[m], o.sample[m])
      BY DEF Buffer!Mergeable
    <3> QED BY <1>5, <3>1 DEF Buffer!Conflicting
  <2> QED BY <1>3, <2>1, <2>2 DEF Agrees
<1> QED BY <1>3, <1>4, <1>5, <1>6

\* What agreed goes on to agree.
LEMMA MergedAgrees ==
  ASSUME NEW c \in Buffer!Observation, NEW o \in Buffer!Observation, Buffer!Mergeable(c, o),
         NEW p, Agrees(c, p)
  PROVE  Agrees(Buffer!Merged(c, o), p)
<1>1. ASSUME NEW m \in Buffer!Modalities
      PROVE  \/ Buffer!Merged(c, o).sample[m] = p.sample[m]
             \/ Buffer!Merged(c, o).sample[m] \in Values /\ p.sample[m] \notin Values
  <2>1. ~Buffer!Conflicting(c.sample[m], o.sample[m])
    BY DEF Buffer!Mergeable
  <2>2. \/ c.sample[m] = p.sample[m]
        \/ c.sample[m] \in Values /\ p.sample[m] \notin Values
    BY DEF Agrees
  <2> QED BY <2>1, <2>2, MergedIs DEF Buffer!Conflicting
<1> QED BY <1>1, MergedIs DEF Agrees

\* Nothing changes when what agrees is merged again.
LEMMA MergedAgain ==
  ASSUME NEW c \in Buffer!Observation, NEW o \in Buffer!Observation, Agrees(c, o)
  PROVE  Buffer!Mergeable(c, o) /\ Buffer!Merged(c, o) = c
<1>1. Buffer!Mergeable(c, o)
  BY DEF Buffer!Mergeable, Agrees, Buffer!Conflicting
<1> DEFINE s == [m \in Buffer!Modalities |-> IF c.sample[m] \in Values THEN c.sample[m] ELSE o.sample[m]]
<1>2. s = c.sample
  <2>1. \A m \in Buffer!Modalities : s[m] = c.sample[m]
    BY DEF Agrees
  <2>2. c.sample = [m \in Buffer!Modalities |-> c.sample[m]]
    BY ObservationIs
  <2> HIDE DEF s
  <2>3. s = [m \in Buffer!Modalities |-> s[m]]
    BY DEF s
  <2> QED BY <2>1, <2>2, <2>3
<1>3. Buffer!Merged(c, o) = [context |-> c.context, sample |-> s]
  BY ObservationIs DEF Buffer!Merged
<1> QED BY <1>1, <1>2, <1>3, ObservationIs

-----------------------------------------------------------------------------
(* One observation *)

LEMMA PutMerges ==
  ASSUME NEW t, NEW q, NEW h, NEW s, Keeps(t, s), Indexed(t, q, h),
         NEW o \in Buffer!Observation, Buffer!Fits(DraftOf(t, q, h), o), Buffer!Key(o) \in DOMAIN t
  PROVE  \E u : /\ Buffer!Put(DraftOf(t, q, h), o) = DraftOf(u, q, h)
                /\ Keeps(u, s \cup {o}) /\ Indexed(u, q, h)
<1> DEFINE k == Buffer!Key(o)
           u == [t EXCEPT ![k] = Buffer!Merged(@, o)]
<1>1. Buffer!Put(DraftOf(t, q, h), o) = DraftOf(u, q, h)
  BY DEF Buffer!Put, DraftOf
<1>2. t[k] \in Buffer!Observation /\ Buffer!Key(t[k]) = k /\ Buffer!Mergeable(t[k], o)
  BY DEF Keeps, Buffer!Fits, DraftOf
<1>3. /\ DOMAIN u = DOMAIN t /\ u[k] = Buffer!Merged(t[k], o)
      /\ \A x \in DOMAIN t : x # k => u[x] = t[x]
      /\ u = [x \in DOMAIN u |-> u[x]]
  BY DEF Keeps
<1> HIDE DEF u
<1>4. Keeps(u, s \cup {o})
  <2>1. DOMAIN u = {Buffer!Key(x) : x \in s \cup {o}}
    BY <1>3 DEF Keeps
  <2>2. \A x \in DOMAIN u : u[x] \in Buffer!Observation /\ Buffer!Key(u[x]) = x
    BY <1>2, <1>3, MergedIs DEF Keeps
  <2>3. ASSUME NEW p \in s \cup {o} PROVE Agrees(u[Buffer!Key(p)], p)
    <3>1. CASE p = o
      BY <1>2, <1>3, <3>1, MergedIs
    <3>2. CASE p \in s /\ Buffer!Key(p) # k
      BY <1>3, <3>2 DEF Keeps
    <3>3. CASE p \in s /\ Buffer!Key(p) = k
      <4>1. Agrees(t[k], p)
        BY <3>3 DEF Keeps
      <4> QED BY <1>2, <1>3, <3>3, <4>1, MergedAgrees
    <3> QED BY <3>1, <3>2, <3>3
  <2>4. ASSUME NEW x \in DOMAIN u, NEW m \in Buffer!Modalities
        PROVE  \E p \in s \cup {o} : Buffer!Key(p) = x /\ p.sample[m] = u[x].sample[m]
    <3>1. \E p \in s : Buffer!Key(p) = x /\ p.sample[m] = t[x].sample[m]
      BY <1>3 DEF Keeps
    <3>2. CASE x # k
      BY <1>3, <3>1, <3>2
    <3>3. CASE x = k
      <4>1. u[k].sample[m] = IF t[k].sample[m] \in Values THEN t[k].sample[m] ELSE o.sample[m]
        BY <1>2, <1>3, MergedIs
      <4> QED BY <3>1, <3>3, <4>1
    <3> QED BY <3>2, <3>3
  <2> QED BY <1>3, <2>1, <2>2, <2>3, <2>4 DEF Keeps
<1>5. Indexed(u, q, h)
  <2>1. \A x \in DOMAIN t : u[x].context = t[x].context
    BY <1>2, <1>3, MergedIs
  <2> QED BY <1>3, <2>1 DEF Indexed
<1> QED BY <1>1, <1>4, <1>5

LEMMA PutAdds ==
  ASSUME NEW t, NEW q, NEW h, NEW s, Keeps(t, s), Indexed(t, q, h), Buffer!BufferAssumption,
         NEW o \in Buffer!Observation, Buffer!Fits(DraftOf(t, q, h), o), Buffer!Key(o) \notin DOMAIN t
  PROVE  \E u, r : /\ Buffer!Put(DraftOf(t, q, h), o) = DraftOf(u, r, o.context.epoch)
                   /\ Keeps(u, s \cup {o}) /\ Indexed(u, r, o.context.epoch)
<1> DEFINE k == Buffer!Key(o)
           n == o.context.seq
           u == Buffer!With(t, k, o)
           r == Buffer!With(q, n, k)
<1>1. Buffer!Put(DraftOf(t, q, h), o) = DraftOf(u, r, o.context.epoch)
  BY DEF Buffer!Put, DraftOf
<1>2. /\ n \in DOMAIN q => q[n] = k
      /\ o.context.epoch >= h /\ Cardinality(DOMAIN t) < MaxBuffered
  BY Counted DEF Buffer!Fits, DraftOf
<1>3. n \notin DOMAIN q
  BY <1>2 DEF Indexed
<1>4. /\ DOMAIN u = DOMAIN t \cup {k} /\ u[k] = o
      /\ \A x \in DOMAIN t : u[x] = t[x]
      /\ u = [x \in DOMAIN u |-> u[x]]
  BY DEF Buffer!With
<1>5. /\ DOMAIN r = DOMAIN q \cup {n} /\ r[n] = k
      /\ \A x \in DOMAIN q : r[x] = q[x]
      /\ r = [x \in DOMAIN r |-> r[x]]
  BY <1>3 DEF Buffer!With
<1> HIDE DEF u, r
<1>6. o.context.epoch \in Nat /\ h \in Nat \cup {-1}
  BY ObservationIs DEF Indexed
<1>7. Keeps(u, s \cup {o})
  <2>1. DOMAIN u = {Buffer!Key(x) : x \in s \cup {o}}
    BY <1>4 DEF Keeps
  <2>2. \A x \in DOMAIN u : u[x] \in Buffer!Observation /\ Buffer!Key(u[x]) = x
    BY <1>4 DEF Keeps
  <2>3. ASSUME NEW p \in s \cup {o} PROVE Agrees(u[Buffer!Key(p)], p)
    <3>1. CASE p = o
      BY <1>4, <3>1 DEF Agrees
    <3>2. CASE p \in s
      BY <1>4, <3>2 DEF Keeps
    <3> QED BY <3>1, <3>2
  <2>4. ASSUME NEW x \in DOMAIN u, NEW m \in Buffer!Modalities
        PROVE  \E p \in s \cup {o} : Buffer!Key(p) = x /\ p.sample[m] = u[x].sample[m]
    <3>2. CASE x \in DOMAIN t
      <4>1. \E p \in s : Buffer!Key(p) = x /\ p.sample[m] = t[x].sample[m]
        BY <3>2 DEF Keeps
      <4> QED BY <1>4, <3>2, <4>1
    <3>3. CASE x = k
      BY <1>4, <3>3
    <3> QED BY <1>4, <3>2, <3>3
  <2> QED BY <1>4, <2>1, <2>2, <2>3, <2>4 DEF Keeps
<1>8. Indexed(u, r, o.context.epoch)
  <2> DEFINE e == o.context.epoch
  <2>1. \A x \in DOMAIN u : u[x].context.seq \in DOMAIN r /\ r[u[x].context.seq] = x
    BY <1>4, <1>5 DEF Indexed
  <2>2. \A x \in DOMAIN r : r[x] \in DOMAIN u /\ u[r[x]].context.seq = x
    BY <1>4, <1>5 DEF Indexed
  <2>3. ASSUME NEW x \in DOMAIN u PROVE u[x].context.epoch <= e
    <3>1. CASE x = k
      BY <1>4, <1>6, <3>1
    <3>2. CASE x \in DOMAIN t
      <4>1. t[x].context.epoch <= h /\ t[x].context.epoch \in Nat
        BY <3>2, ObservationIs DEF Indexed, Keeps
      <4> QED BY <1>2, <1>4, <1>6, <3>2, <4>1
    <3> QED BY <1>4, <3>1, <3>2
  <2>4. e \in Nat \cup {-1} /\ \E x \in DOMAIN u : u[x].context.epoch = e
    BY <1>4, <1>6
  <2>5. IsFiniteSet(DOMAIN u) /\ Cardinality(DOMAIN u) <= MaxBuffered
    <3>1. IsFiniteSet(DOMAIN t)
      BY DEF Indexed
    <3>2. IsFiniteSet(DOMAIN u) /\ Cardinality(DOMAIN u) = Cardinality(DOMAIN t) + 1
      BY <1>4, <3>1, FS_AddElement
    <3>3. Cardinality(DOMAIN t) \in Nat /\ MaxBuffered \in Nat
      BY <3>1, FS_CardinalityType DEF Buffer!BufferAssumption
    <3> QED BY <1>2, <3>2, <3>3
  <2> QED BY <1>5, <2>1, <2>2, <2>3, <2>4, <2>5 DEF Indexed
<1> QED BY <1>1, <1>7, <1>8
LEMMA PutKeeps ==
  ASSUME NEW t, NEW q, NEW h, NEW s, Keeps(t, s), Indexed(t, q, h), Buffer!BufferAssumption,
         NEW o \in Buffer!Observation, Buffer!Fits(DraftOf(t, q, h), o)
  PROVE  \E u, r, g : /\ Buffer!Put(DraftOf(t, q, h), o) = DraftOf(u, r, g)
                      /\ Keeps(u, s \cup {o}) /\ Indexed(u, r, g)
  BY PutMerges, PutAdds

-----------------------------------------------------------------------------
(* The observations of a batch, one after another *)

\* The draft after the observation o.
DraftAfter(d, o) == IF d.ok /\ Buffer!Fits(d, o) THEN Buffer!Put(d, o) ELSE [d EXCEPT !.ok = FALSE]

Drafts(f, obs, n) == f[0] = Buffer!Start /\ \A i \in 1..n : f[i] = DraftAfter(f[i - 1], obs[i])

LEMMA DraftUnfolds ==
  ASSUME NEW obs, Len(obs) \in Nat
  PROVE  \E f : Buffer!Draft(obs) = f[Len(obs)] /\ Drafts(f, obs, Len(obs))
<1> DEFINE L == Len(obs)
           D == 0..L
           Body(f, n) == IF n = 0 THEN Buffer!Start
                         ELSE IF f[n - 1].ok /\ Buffer!Fits(f[n - 1], obs[n]) THEN Buffer!Put(f[n - 1], obs[n])
                         ELSE [f[n - 1] EXCEPT !.ok = FALSE]
           up == CHOOSE f : f = [n \in D |-> Body(f, n)]
           T == {n \in D : \E f : f = [i \in 0..n |-> f[i]] /\ Drafts(f, obs, n)}
<1>1. Buffer!Draft(obs) = up[L]
  BY Zenon DEF Buffer!Draft
<1>2. T = D
  <2>1. 0 \in T
    <3> DEFINE z == [i \in 0..0 |-> Buffer!Start]
    <3>1. z = [i \in 0..0 |-> z[i]] /\ z[0] = Buffer!Start
      OBVIOUS
    <3>2. Drafts(z, obs, 0)
      BY <3>1 DEF Drafts
    <3>3. 0 \in D
      OBVIOUS
    <3> QED BY <3>1, <3>2, <3>3, Zenon
  <2>2. ASSUME NEW n \in T, n < L PROVE n + 1 \in T
    <3>1. PICK f : f = [i \in 0..n |-> f[i]] /\ Drafts(f, obs, n)
      OBVIOUS
    <3>2. n \in Nat /\ n + 1 \in D
      BY <2>2
    <3> DEFINE v == DraftAfter(f[n], obs[n + 1])
               g == [i \in 0..(n + 1) |-> IF i = n + 1 THEN v ELSE f[i]]
    <3>v. v = DraftAfter(f[n], obs[n + 1])
      OBVIOUS
    <3> HIDE DEF v
    <3>4. /\ g[n + 1] = v /\ g[n] = f[n] /\ g[0] = f[0]
          /\ \A i \in 1..n : g[i] = f[i] /\ g[i - 1] = f[i - 1]
          /\ g = [i \in 0..(n + 1) |-> g[i]]
      BY <3>2
    <3> HIDE DEF g
    <3>5. ASSUME NEW i \in 1..(n + 1) PROVE g[i] = DraftAfter(g[i - 1], obs[i])
      <4>1. CASE i = n + 1
        <5>1. i - 1 = n
          BY <3>2, <4>1
        <5> QED BY <3>4, <3>v, <4>1, <5>1
      <4>2. CASE i # n + 1
        <5>1. i \in 1..n
          BY <3>2, <4>2
        <5> QED BY <3>1, <3>4, <5>1 DEF Drafts
      <4> QED BY <4>1, <4>2
    <3>6. Drafts(g, obs, n + 1)
      BY <3>1, <3>4, <3>5 DEF Drafts
    <3> QED BY <3>2, <3>4, <3>6
  <2> HIDE DEF T
  <2>3. T \in SUBSET (0..L)
    BY DEF T
  <2> QED BY <2>1, <2>2, <2>3, Steps
<1>3. PICK f : f = [i \in D |-> f[i]] /\ Drafts(f, obs, L)
  <2>1. L \in T
    BY <1>2
  <2> QED BY <2>1
<1>4. f = [n \in D |-> Body(f, n)]
  <2>1. ASSUME NEW n \in D PROVE f[n] = Body(f, n)
    <3>1. CASE n = 0
      BY <1>3, <3>1 DEF Drafts
    <3>2. CASE n # 0
      <4>1. n \in 1..L
        BY <3>2
      <4>2. f[n] = DraftAfter(f[n - 1], obs[n])
        BY <1>3, <4>1 DEF Drafts
      <4> QED BY <3>2, <4>2 DEF DraftAfter
    <3> QED BY <3>1, <3>2
  <2> HIDE DEF Body
  <2> QED BY <1>3, <2>1
<1>5. up = [n \in D |-> Body(up, n)]
  BY <1>4
<1> HIDE DEF up, T
<1>6. up = f
  <2> DEFINE U == {i \in D : up[i] = f[i]}
  <2>1. \A i \in D : up[i] = Body(up, i) /\ f[i] = Body(f, i)
    <3> HIDE DEF Body
    <3> QED BY <1>4, <1>5
  <2>2. 0 \in U
    <3>1. 0 \in D
      OBVIOUS
    <3>2. Body(up, 0) = Body(f, 0)
      OBVIOUS
    <3> QED BY <2>1, <3>1, <3>2
  <2>3. ASSUME NEW i \in U, i < L PROVE i + 1 \in U
    <3>1. i + 1 \in D /\ i + 1 # 0 /\ (i + 1) - 1 = i /\ up[i] = f[i]
      BY <2>3
    <3>2. Body(up, i + 1) = Body(f, i + 1)
      BY <3>1
    <3> QED BY <2>1, <3>1, <3>2
  <2>4. U \in SUBSET (0..L)
    OBVIOUS
  <2> HIDE DEF U
  <2>5. U = D
    BY <2>2, <2>3, <2>4, Steps
  <2>6. \A i \in D : up[i] = f[i]
    BY <2>5 DEF U
  <2> HIDE DEF Body
  <2> QED BY <1>3, <1>5, <2>6
<1> QED BY <1>1, <1>3, <1>6

Spoiled(u, r, h) == [timeline |-> u, sequences |-> r, highest |-> h, ok |-> FALSE]

LEMMA SpoiledIs ==
  ASSUME NEW u, NEW r, NEW h
  PROVE  /\ [DraftOf(u, r, h) EXCEPT !.ok = FALSE] = Spoiled(u, r, h)
         /\ [Spoiled(u, r, h) EXCEPT !.ok = FALSE] = Spoiled(u, r, h)
         /\ DraftOf(u, r, h).ok /\ ~Spoiled(u, r, h).ok
<1> DEFINE R(b) == [timeline |-> u, sequences |-> r, highest |-> h, ok |-> b]
<1>0. \A b, c : [R(b) EXCEPT !.ok = c] = R(c)
  OBVIOUS
<1>1. [DraftOf(u, r, h) EXCEPT !.ok = FALSE] = Spoiled(u, r, h)
  BY <1>0, Zenon DEF DraftOf, Spoiled
<1>2. [Spoiled(u, r, h) EXCEPT !.ok = FALSE] = Spoiled(u, r, h)
  BY <1>0, Zenon DEF Spoiled
<1>3. DraftOf(u, r, h).ok = TRUE /\ Spoiled(u, r, h).ok = FALSE
  BY Zenon DEF DraftOf, Spoiled
<1> QED BY <1>1, <1>2, <1>3

\* A draft of the observations in s, and one that is given up.
Kept(d, s) == \E u, r, h : d = DraftOf(u, r, h) /\ Keeps(u, s) /\ Indexed(u, r, h)
GivenUp(d) == \E u, r, h : d = Spoiled(u, r, h)

LEMMA AfterKeeps ==
  ASSUME Buffer!BufferAssumption, NEW d, NEW s, NEW o \in Buffer!Observation, Kept(d, s)
  PROVE  Kept(DraftAfter(d, o), s \cup {o}) \/ GivenUp(DraftAfter(d, o))
<1>1. PICK u, r, h : d = DraftOf(u, r, h) /\ Keeps(u, s) /\ Indexed(u, r, h)
  BY DEF Kept
<1>2. CASE ~Buffer!Fits(d, o)
  <2>1. DraftAfter(d, o) = Spoiled(u, r, h)
    BY <1>1, <1>2, SpoiledIs DEF DraftAfter
  <2> QED BY <2>1 DEF GivenUp
<1>3. CASE Buffer!Fits(d, o)
  <2>1. d.ok
    BY <1>1, SpoiledIs
  <2>2. DraftAfter(d, o) = Buffer!Put(DraftOf(u, r, h), o) /\ Buffer!Fits(DraftOf(u, r, h), o)
    BY <1>1, <1>3, <2>1 DEF DraftAfter
  <2>3. \E v, w, g : /\ Buffer!Put(DraftOf(u, r, h), o) = DraftOf(v, w, g)
                     /\ Keeps(v, s \cup {o}) /\ Indexed(v, w, g)
    BY <1>1, <2>2, PutKeeps
  <2> QED BY <2>2, <2>3 DEF Kept
<1> QED BY <1>2, <1>3

LEMMA AfterGivenUp ==
  ASSUME NEW d, NEW o, GivenUp(d)
  PROVE  GivenUp(DraftAfter(d, o))
  BY SpoiledIs DEF GivenUp, DraftAfter

\* What a batch that fits makes of the timeline.
LEMMA DraftKeeps ==
  ASSUME Buffer!BufferAssumption, NEW s, Keeps(timeline, s), Indexed(timeline, sequences, highest),
         NEW obs \in Seq(Buffer!Observation), Buffer!Draft(obs).ok
  PROVE  Kept(Buffer!Draft(obs), s \cup Buffer!ToSet(obs))
<1>1. PICK L \in Nat : L = Len(obs) /\ DOMAIN obs = 1..L
  OBVIOUS
<1>2. PICK f : Buffer!Draft(obs) = f[L] /\ Drafts(f, obs, L)
  BY <1>1, DraftUnfolds
<1> DEFINE Of(i) == {obs[j] : j \in 1..i}
           T == {i \in 0..L : Kept(f[i], s \cup Of(i)) \/ GivenUp(f[i])}
<1>3. 0 \in T
  <2>1. s \cup Of(0) = s
    OBVIOUS
  <2>2. f[0] = DraftOf(timeline, sequences, highest)
    BY <1>2 DEF Drafts, Buffer!Start, DraftOf
  <2> HIDE DEF Of
  <2>3. Kept(f[0], s \cup Of(0))
    BY <2>1, <2>2 DEF Kept
  <2> QED BY <1>1, <2>3
<1>4. ASSUME NEW i \in T, i < L PROVE i + 1 \in T
  <2>1. i + 1 \in 1..L /\ i + 1 \in 0..L /\ (i + 1) - 1 = i
    BY <1>4
  <2>2. PICK o \in Buffer!Observation : o = obs[i + 1]
    BY <1>1, <2>1
  <2>3. f[i + 1] = DraftAfter(f[i], o)
    BY <1>2, <2>1, <2>2 DEF Drafts
  <2>4. (s \cup Of(i)) \cup {o} = s \cup Of(i + 1)
    <3>1. 1..(i + 1) = 1..i \cup {i + 1}
      BY <2>1
    <3> QED BY <2>2, <3>1
  <2> HIDE DEF Of
  <2>5. Kept(f[i + 1], s \cup Of(i + 1)) \/ GivenUp(f[i + 1])
    BY <2>2, <2>3, <2>4, AfterKeeps, AfterGivenUp
  <2> QED BY <2>1, <2>5
<1>5. T \in SUBSET (0..L)
  OBVIOUS
<1>6. L \in T
  <2> HIDE DEF T
  <2> QED BY <1>3, <1>4, <1>5, Steps
<1>7. Of(L) = Buffer!ToSet(obs)
  BY <1>1 DEF Buffer!ToSet
<1>8. ~GivenUp(f[L])
  BY <1>2, SpoiledIs DEF GivenUp
<1> HIDE DEF Of
<1> QED BY <1>2, <1>6, <1>7, <1>8

-----------------------------------------------------------------------------
(* What a timeline that keeps is *)

\* It is the one the observations determine.
LEMMA KeepsJoined ==
  ASSUME NEW t, Keeps(t, Buffer!Reported)
  PROVE  t = Buffer!Joined
<1> DEFINE Mine(k) == {o \in Buffer!Reported : Buffer!Key(o) = k}
           At(k, m) == {o.sample[m] : o \in Mine(k)}
           Of(k, m) == IF At(k, m) \cap Values # {} THEN CHOOSE v \in At(k, m) \cap Values : TRUE
                       ELSE CHOOSE v \in At(k, m) : TRUE
           Fused(k) == [context |-> (CHOOSE o \in Mine(k) : TRUE).context,
                        sample |-> [m \in Buffer!Modalities |-> Of(k, m)]]
<1>1. Buffer!Joined = [k \in {Buffer!Key(o) : o \in Buffer!Reported} |-> Fused(k)]
  BY Zenon DEF Buffer!Joined
<1>2. ASSUME NEW k \in DOMAIN t PROVE t[k] = Fused(k)
  <2>1. \A o \in Mine(k) : Agrees(t[k], o)
    BY DEF Keeps
  <2>2. Mine(k) # {}
    BY DEF Keeps
  <2>3. (CHOOSE o \in Mine(k) : TRUE) \in Mine(k)
    BY <2>2
  <2>4. t[k].context = (CHOOSE o \in Mine(k) : TRUE).context
    BY <2>1, <2>3 DEF Agrees
  <2>5. ASSUME NEW m \in Buffer!Modalities PROVE t[k].sample[m] = Of(k, m)
    <3>1. \A o \in Mine(k) : \/ t[k].sample[m] = o.sample[m]
                             \/ t[k].sample[m] \in Values /\ o.sample[m] \notin Values
      BY <2>1 DEF Agrees
    <3>2. \A v \in At(k, m) : v = t[k].sample[m] \/ (t[k].sample[m] \in Values /\ v \notin Values)
      BY <3>1
    <3>3. t[k].sample[m] \in At(k, m)
      BY DEF Keeps
    <3> HIDE DEF At
    <3>4. CASE At(k, m) \cap Values # {}
      <4>1. (CHOOSE v \in At(k, m) \cap Values : TRUE) \in At(k, m) \cap Values
        BY <3>4
      <4> QED BY <3>2, <3>4, <4>1
    <3>5. CASE At(k, m) \cap Values = {}
      <4>1. (CHOOSE v \in At(k, m) : TRUE) \in At(k, m)
        BY <3>3
      <4> QED BY <3>2, <3>3, <3>5, <4>1
    <3> QED BY <3>4, <3>5
  <2>6. t[k] = [context |-> t[k].context, sample |-> t[k].sample]
        /\ t[k].sample = [m \in Buffer!Modalities |-> t[k].sample[m]]
    <3>1. t[k] \in Buffer!Observation
      BY DEF Keeps
    <3> QED BY <3>1, ObservationIs
  <2> HIDE DEF Mine, Of
  <2>7. t[k].sample = [m \in Buffer!Modalities |-> Of(k, m)]
    BY <2>5, <2>6
  <2> QED BY <2>4, <2>6, <2>7
<1> HIDE DEF Fused
<1>3. t = [k \in DOMAIN t |-> t[k]] /\ DOMAIN t = {Buffer!Key(o) : o \in Buffer!Reported}
  BY DEF Keeps
<1> QED BY <1>1, <1>2, <1>3

LEMMA KeepsTypes ==
  ASSUME NEW t, NEW s, Keeps(t, s)
  PROVE  \A k \in DOMAIN t : t[k] \in Buffer!Observation /\ Buffer!Key(t[k]) = k
  BY DEF Keeps

\* The indexes are those of the timeline.
LEMMA IndexedExactly ==
  ASSUME NEW t, NEW q, NEW h, NEW s, Keeps(t, s), Indexed(t, q, h)
  PROVE  /\ q = [n \in {c.seq : c \in Buffer!Contexts(t)} |->
                  CHOOSE k \in DOMAIN t : t[k].context.seq = n]
         /\ Cardinality(DOMAIN q) = Cardinality(DOMAIN t)
         /\ DOMAIN q \subseteq Nat
         /\ \A c \in Buffer!Contexts(t) : c.epoch <= h
         /\ h # -1 => \E c \in Buffer!Contexts(t) : c.epoch = h
         /\ Cardinality(DOMAIN t) <= MaxBuffered
<1>1. DOMAIN q = {c.seq : c \in Buffer!Contexts(t)}
  <2>1. {c.seq : c \in Buffer!Contexts(t)} = {t[k].context.seq : k \in DOMAIN t}
    BY DEF Buffer!Contexts
  <2>2. \A k \in DOMAIN t : t[k].context.seq \in DOMAIN q
    BY DEF Indexed
  <2>3. \A n \in DOMAIN q : \E k \in DOMAIN t : n = t[k].context.seq
    BY DEF Indexed
  <2> QED BY <2>1, <2>2, <2>3
<1>2. ASSUME NEW n \in DOMAIN q
      PROVE  q[n] = CHOOSE k \in DOMAIN t : t[k].context.seq = n
  <2> DEFINE c == CHOOSE k \in DOMAIN t : t[k].context.seq = n
  <2>1. q[n] \in DOMAIN t /\ t[q[n]].context.seq = n
    BY DEF Indexed
  <2>2. c \in DOMAIN t /\ t[c].context.seq = n
    BY <2>1
  <2> HIDE DEF c
  <2>3. c = q[n]
    BY <2>2 DEF Indexed
  <2> QED BY <2>3 DEF c
<1>3. q = [n \in {c.seq : c \in Buffer!Contexts(t)} |-> CHOOSE k \in DOMAIN t : t[k].context.seq = n]
  <2>1. q = [n \in DOMAIN q |-> q[n]]
    BY DEF Indexed
  <2> QED BY <1>1, <1>2, <2>1
<1>4. Cardinality(DOMAIN q) = Cardinality(DOMAIN t)
  <2> DEFINE f == [k \in DOMAIN t |-> t[k].context.seq]
  <2>1. f \in Injection(DOMAIN t, DOMAIN q)
    BY DEF Indexed, Injection, IsInjective
  <2>2. f \in Surjection(DOMAIN t, DOMAIN q)
    BY DEF Indexed, Surjection
  <2>3. ExistsBijection(DOMAIN t, DOMAIN q)
    BY <2>1, <2>2 DEF Bijection, ExistsBijection
  <2>4. IsFiniteSet(DOMAIN t)
    BY DEF Indexed
  <2> QED BY <2>3, <2>4, FS_Bijection
<1>5. DOMAIN q \subseteq Nat
  <2>1. \A k \in DOMAIN t : t[k].context.seq \in Nat
    BY KeepsTypes, ObservationIs
  <2> QED BY <2>1 DEF Indexed
<1>6. /\ \A c \in Buffer!Contexts(t) : c.epoch <= h
      /\ h # -1 => \E c \in Buffer!Contexts(t) : c.epoch = h
      /\ Cardinality(DOMAIN t) <= MaxBuffered
  BY DEF Indexed, Buffer!Contexts
<1> QED BY <1>1, <1>3, <1>4, <1>5, <1>6

\* What was reported is recognised.
LEMMA KeepsRecognises ==
  ASSUME NEW s, Keeps(timeline, s), Indexed(timeline, sequences, highest),
         NEW o \in s, o \in Buffer!Observation
  PROVE  Buffer!Fits(Buffer!Start, o) /\ Buffer!Put(Buffer!Start, o) = Buffer!Start
<1> DEFINE k == Buffer!Key(o)
<1>1. k \in DOMAIN timeline /\ timeline[k] \in Buffer!Observation /\ Agrees(timeline[k], o)
  BY DEF Keeps
<1>2. Buffer!Mergeable(timeline[k], o) /\ Buffer!Merged(timeline[k], o) = timeline[k]
  BY <1>1, MergedAgain
<1>3. Buffer!Start = DraftOf(timeline, sequences, highest)
  BY DEF Buffer!Start, DraftOf
<1>4. timeline[k].context = o.context
  BY <1>1 DEF Agrees
<1>5. o.context.seq \in DOMAIN sequences => sequences[o.context.seq] = k
  <2>1. sequences[timeline[k].context.seq] = k
    BY <1>1 DEF Indexed
  <2> QED BY <1>4, <2>1
<1>6. Buffer!Fits(Buffer!Start, o)
  BY <1>1, <1>2, <1>5 DEF Buffer!Fits, Buffer!Start
<1>7. [timeline EXCEPT ![k] = Buffer!Merged(@, o)] = timeline
  <2>1. timeline = [x \in DOMAIN timeline |-> timeline[x]]
    BY DEF Keeps
  <2> QED BY <1>2, <2>1
<1>8. Buffer!Put(Buffer!Start, o) = DraftOf([timeline EXCEPT ![k] = Buffer!Merged(@, o)], sequences, highest)
  BY <1>1, <1>3 DEF Buffer!Put, DraftOf
<1> QED BY <1>3, <1>6, <1>7, <1>8

LEMMA NothingKept ==
  ASSUME Buffer!BufferAssumption
  PROVE  /\ Keeps(Buffer!Empty, {}) /\ Indexed(Buffer!Empty, Buffer!Empty, -1)
         /\ Buffer!InOrder(Buffer!Empty)
<1>1. DOMAIN Buffer!Empty = {} /\ Buffer!Empty = [k \in DOMAIN Buffer!Empty |-> Buffer!Empty[k]]
  BY DEF Buffer!Empty
<1>2. IsFiniteSet({}) /\ Cardinality({}) = 0
  BY FS_EmptySet
<1>3. MaxBuffered \in Nat
  BY DEF Buffer!BufferAssumption
<1> HIDE DEF Buffer!Empty
<1>4. Keeps(Buffer!Empty, {})
  BY <1>1 DEF Keeps
<1>5. Indexed(Buffer!Empty, Buffer!Empty, -1)
  BY <1>1, <1>2, <1>3 DEF Indexed
<1>6. Buffer!InOrder(Buffer!Empty)
  BY <1>1 DEF Buffer!InOrder, Buffer!Contexts
<1> QED BY <1>4, <1>5, <1>6

Blank ==
  /\ timeline = Buffer!Empty /\ sequences = Buffer!Empty /\ highest = -1
  /\ fingerprints = Buffer!Empty /\ numbers = Buffer!Empty

\* The books on requests: who was answered 202, under which numbers.
Booked ==
  /\ fingerprints = [i \in DOMAIN fingerprints |-> fingerprints[i]]
  /\ \A i \in DOMAIN fingerprints :
       /\ fingerprints[i] \in Buffer!Sent /\ fingerprints[i].id = i
       /\ fingerprints[i].seq \in DOMAIN numbers /\ numbers[fingerprints[i].seq] = i
  /\ \A n \in DOMAIN numbers : numbers[n] \in DOMAIN fingerprints
  /\ taken = {fingerprints[i] : i \in DOMAIN fingerprints}

TimelineKept ==
  /\ Keeps(timeline, Buffer!Reported) /\ Indexed(timeline, sequences, highest)
  /\ Buffer!InOrder(timeline)

BufferInv ==
  /\ phase \in {"none", "collecting", "closed"}
  /\ phase # "collecting" => Blank
  /\ phase # "closed" => given = Buffer!Empty
  /\ phase = "none" => taken = {}
  /\ phase = "collecting" => Booked /\ TimelineKept
  /\ phase = "closed" =>
       taken \subseteq Buffer!Sent /\ Keeps(given, Buffer!Reported) /\ Buffer!InOrder(given)

LEMMA BufferBegins == Buffer!Init => BufferInv
  BY DEF Buffer!Init, BufferInv, Blank

LEMMA SentIs ==
  ASSUME Buffer!BufferAssumption, NEW r \in Buffer!Sent
  PROVE  /\ r.obs \in Seq(Buffer!Observation) /\ r \in Buffer!Requests
         /\ Buffer!ToSet(r.obs) \subseteq Buffer!Observation
<1>1. r.obs \in Seq(Buffer!Observation) /\ r \in Buffer!Requests
  BY DEF Buffer!Sent, Buffer!Requests, Buffer!BufferAssumption
<1>2. Buffer!ToSet(r.obs) \subseteq Buffer!Observation
  BY <1>1 DEF Buffer!ToSet
<1> QED BY <1>1, <1>2

LEMMA BlankIs ==
  ASSUME Buffer!BufferAssumption, Blank, taken = {}
  PROVE  Booked /\ TimelineKept
<1>1. Buffer!Reported = {}
  BY DEF Buffer!Reported
<1>2. Booked
  BY DEF Blank, Booked, Buffer!Empty
<1>3. TimelineKept
  BY <1>1, NothingKept DEF TimelineKept, Blank
<1> QED BY <1>2, <1>3

\* Before it is closed the session has its books, empty or not.
LEMMA OpenIs ==
  ASSUME Buffer!BufferAssumption, BufferInv, phase \in {"none", "collecting"}
  PROVE  Booked /\ TimelineKept /\ given = Buffer!Empty
  BY BlankIs DEF BufferInv

LEMMA AppendNewKeeps ==
  ASSUME Buffer!BufferAssumption, BufferInv, NEW r \in Buffer!Sent, Buffer!AppendNew(r)
  PROVE  BufferInv'
<1>1. phase' = "collecting" /\ given' = given /\ phase \in {"none", "collecting"}
  BY DEF Buffer!AppendNew, Buffer!Opened
<1>2. Booked /\ TimelineKept /\ given = Buffer!Empty
  BY <1>1, OpenIs
<1>3. Buffer!Draft(r.obs).ok /\ Buffer!InOrder(Buffer!Draft(r.obs).timeline)
  BY DEF Buffer!AppendNew, Buffer!Acceptable
<1>4. /\ timeline' = Buffer!Draft(r.obs).timeline /\ sequences' = Buffer!Draft(r.obs).sequences
      /\ highest' = Buffer!Draft(r.obs).highest
  BY DEF Buffer!AppendNew
<1>5. /\ fingerprints' = Buffer!With(fingerprints, r.id, r)
      /\ numbers' = Buffer!With(numbers, r.seq, r.id)
      /\ taken' = taken \cup {r}
      /\ r.id \notin DOMAIN fingerprints
      /\ r.seq \in DOMAIN numbers => numbers[r.seq] = r.id
  BY DEF Buffer!AppendNew, Buffer!Used, Buffer!Renumbered
<1>6. Kept(Buffer!Draft(r.obs), Buffer!Reported \cup Buffer!ToSet(r.obs))
  BY <1>2, <1>3, SentIs, DraftKeeps DEF TimelineKept
<1>7. Buffer!Reported' = Buffer!Reported \cup Buffer!ToSet(r.obs)
  BY <1>5 DEF Buffer!Reported
<1>8. PICK u, q, h : /\ Buffer!Draft(r.obs) = DraftOf(u, q, h)
                     /\ Keeps(u, Buffer!Reported \cup Buffer!ToSet(r.obs)) /\ Indexed(u, q, h)
  BY <1>6 DEF Kept
<1>9. timeline' = u /\ sequences' = q /\ highest' = h /\ Buffer!InOrder(u)
  BY <1>3, <1>4, <1>8 DEF DraftOf
<1>10. TimelineKept'
  BY <1>7, <1>8, <1>9 DEF TimelineKept, Keeps, Indexed, Buffer!InOrder, Buffer!Contexts
<1>11. Booked'
  <2>1. r.seq \notin DOMAIN numbers
    BY <1>2, <1>5 DEF Booked
  <2>2. /\ DOMAIN fingerprints' = DOMAIN fingerprints \cup {r.id} /\ fingerprints'[r.id] = r
        /\ \A i \in DOMAIN fingerprints : fingerprints'[i] = fingerprints[i]
        /\ fingerprints' = [i \in DOMAIN fingerprints' |-> fingerprints'[i]]
    BY <1>5 DEF Buffer!With
  <2>3. /\ DOMAIN numbers' = DOMAIN numbers \cup {r.seq} /\ numbers'[r.seq] = r.id
        /\ \A n \in DOMAIN numbers : numbers'[n] = numbers[n]
    BY <1>5, <2>1 DEF Buffer!With
  <2>4. \A i \in DOMAIN fingerprints' :
          /\ fingerprints'[i] \in Buffer!Sent /\ fingerprints'[i].id = i
          /\ fingerprints'[i].seq \in DOMAIN numbers' /\ numbers'[fingerprints'[i].seq] = i
    BY <1>2, <2>1, <2>2, <2>3 DEF Booked
  <2>5. \A n \in DOMAIN numbers' : numbers'[n] \in DOMAIN fingerprints'
    BY <1>2, <2>2, <2>3 DEF Booked
  <2>6. taken' = {fingerprints'[i] : i \in DOMAIN fingerprints'}
    BY <1>2, <1>5, <2>2 DEF Booked
  <2> QED BY <2>2, <2>4, <2>5, <2>6 DEF Booked
<1> QED BY <1>1, <1>2, <1>10, <1>11 DEF BufferInv

\* Collecting goes on with what there was.
LEMMA CollectingKeeps ==
  ASSUME Buffer!BufferAssumption, BufferInv, Buffer!Opened, taken' = taken, UNCHANGED <<Buffer!buffer, given>>
  PROVE  BufferInv'
<1>1. phase' = "collecting" /\ phase \in {"none", "collecting"}
  BY DEF Buffer!Opened
<1>2. Booked /\ TimelineKept /\ given = Buffer!Empty
  BY <1>1, OpenIs
<1>3. Buffer!Reported' = Buffer!Reported
  BY DEF Buffer!Reported
<1>4. TimelineKept'
  BY <1>2, <1>3 DEF TimelineKept, Keeps, Indexed, Buffer!InOrder, Buffer!Contexts, Buffer!buffer
<1>5. Booked'
  BY <1>2 DEF Booked, Buffer!buffer
<1> QED BY <1>1, <1>2, <1>4, <1>5 DEF BufferInv, Buffer!buffer

LEMMA AppendAgainKeeps ==
  ASSUME Buffer!BufferAssumption, BufferInv, NEW r \in Buffer!Sent, Buffer!AppendAgain(r)
  PROVE  BufferInv'
<1>1. phase' = "collecting" /\ phase \in {"none", "collecting"}
  BY DEF Buffer!AppendAgain, Buffer!Opened
<1>2. Booked
  BY <1>1, OpenIs
<1>3. r \in taken
  BY <1>2 DEF Buffer!AppendAgain, Buffer!Used, Booked
<1>4. taken' = taken /\ Buffer!Opened /\ UNCHANGED <<Buffer!buffer, given>>
  BY <1>3 DEF Buffer!AppendAgain
<1> QED BY <1>4, CollectingKeeps

LEMMA CompleteKeeps ==
  ASSUME Buffer!BufferAssumption, BufferInv, Buffer!Complete
  PROVE  BufferInv'
<1>1. phase' = "closed" /\ phase \in {"none", "collecting"} /\ given' = timeline /\ taken' = taken
  BY DEF Buffer!Complete
<1>2. Booked /\ TimelineKept
  BY <1>1, OpenIs
<1>3. Buffer!Reported' = Buffer!Reported
  BY <1>1 DEF Buffer!Reported
<1>4. Blank'
  BY DEF Buffer!Complete, Buffer!Cleared, Blank
<1>5. taken' \subseteq Buffer!Sent
  BY <1>1, <1>2 DEF Booked
<1>6. Keeps(given, Buffer!Reported)' /\ Buffer!InOrder(given)'
  BY <1>1, <1>2, <1>3 DEF TimelineKept, Keeps, Buffer!InOrder, Buffer!Contexts
<1> QED BY <1>1, <1>4, <1>5, <1>6 DEF BufferInv

LEMMA BufferKeeps ==
  ASSUME Buffer!BufferAssumption, BufferInv, [Buffer!Next]_(Buffer!vars)
  PROVE  BufferInv'
<1>1. ASSUME NEW r \in Buffer!Sent, Buffer!AppendNew(r) PROVE BufferInv'
  BY <1>1, AppendNewKeeps
<1>2. ASSUME NEW r \in Buffer!Sent, Buffer!AppendAgain(r) PROVE BufferInv'
  BY <1>2, AppendAgainKeeps
<1>3. ASSUME NEW r \in Buffer!Sent, Buffer!AppendRefused(r) PROVE BufferInv'
  <2>1. Buffer!Opened /\ taken' = taken /\ UNCHANGED <<Buffer!buffer, given>>
    BY <1>3 DEF Buffer!AppendRefused
  <2> QED BY <2>1, CollectingKeeps
<1>4. CASE Buffer!Complete
  BY <1>4, CompleteKeeps
<1>5. CASE Buffer!Forget
  BY <1>5 DEF Buffer!Forget, Buffer!Cleared, BufferInv, Blank
<1>6. CASE UNCHANGED Buffer!vars
  <2>1. Buffer!Reported' = Buffer!Reported
    BY <1>6 DEF Buffer!Reported, Buffer!vars
  <2> QED
    BY <1>6, <2>1
    DEF Buffer!vars, Buffer!buffer, BufferInv, Blank, Booked, TimelineKept, Keeps, Indexed,
                      Buffer!InOrder, Buffer!Contexts
<1> QED BY <1>1, <1>2, <1>3, <1>4, <1>5, <1>6 DEF Buffer!Next, Buffer!Append202

LEMMA BufferHolds ==
  ASSUME Buffer!BufferAssumption, BufferInv
  PROVE  Buffer!KeptExactly
<1>1. taken \subseteq Buffer!Sent
  BY DEF BufferInv, Booked
<1>2. Buffer!Reported \subseteq Buffer!Observation
  BY <1>1, SentIs DEF Buffer!Reported
<1>3. \E s : Keeps(timeline, s) /\ Indexed(timeline, sequences, highest)
  BY NothingKept DEF BufferInv, Blank, TimelineKept
<1>4. \E s : Keeps(given, s) /\ Buffer!InOrder(given)
  BY NothingKept DEF BufferInv
<1>5. /\ \A i \in DOMAIN fingerprints :
           /\ fingerprints[i] \in Buffer!Sent /\ fingerprints[i].id = i
           /\ numbers[fingerprints[i].seq] = i
      /\ \A n \in DOMAIN numbers : numbers[n] \in DOMAIN fingerprints
  BY DEF BufferInv, Blank, Booked, Buffer!Empty
<1>6. Buffer!TypeOK
  <2>1. DOMAIN sequences \subseteq Nat /\ highest \in Nat \cup {-1}
    BY <1>3, IndexedExactly DEF Indexed
  <2>2. \A t \in {timeline, given} : \A k \in DOMAIN t : t[k] \in Buffer!Observation /\ Buffer!Key(t[k]) = k
    BY <1>3, <1>4, KeepsTypes
  <2> QED BY <1>1, <1>5, <2>1, <2>2 DEF Buffer!TypeOK, BufferInv
<1>7. Buffer!NothingLost
  BY KeepsJoined DEF Buffer!NothingLost, BufferInv, TimelineKept
<1>8. Buffer!TakenIsRecognised
  BY <1>2, KeepsRecognises DEF Buffer!TakenIsRecognised, BufferInv, TimelineKept
<1>9. Buffer!IndexesExact
  BY <1>3, <1>5, IndexedExactly, Counted DEF Buffer!IndexesExact
<1>10. Buffer!HandedInOrder
  BY <1>4 DEF Buffer!HandedInOrder
<1> QED BY <1>6, <1>7, <1>8, <1>9, <1>10 DEF Buffer!KeptExactly

-----------------------------------------------------------------------------
(* The timeline is the log *)

\* Facts are of a function: one value for a field.
LEMMA FactsAgree ==
  ASSUME NEW t
  PROVE  Buffer!Log!Consistent(Buffer!FactsOf(t))
<1> SUFFICES ASSUME NEW f \in Buffer!FactsOf(t), NEW g \in Buffer!FactsOf(t), f[1] = g[1], f[2] = g[2]
             PROVE  f[3] = g[3]
  BY DEF Buffer!Log!Consistent
<1>1. PICK k \in DOMAIN t :
        \/ f = <<k, "context", t[k].context>>
        \/ \E m \in Buffer!Modalities : f = <<k, m, t[k].sample[m]>>
  BY DEF Buffer!FactsOf
<1>2. PICK j \in DOMAIN t :
        \/ g = <<j, "context", t[j].context>>
        \/ \E m \in Buffer!Modalities : g = <<j, m, t[j].sample[m]>>
  BY DEF Buffer!FactsOf
<1>3. k = j
  BY <1>1, <1>2
<1>4. \A m \in Buffer!Modalities : m # "context"
  BY DEF Buffer!Modalities
<1>5. CASE f = <<k, "context", t[k].context>>
  BY <1>2, <1>3, <1>4, <1>5
<1>6. CASE \E m \in Buffer!Modalities : f = <<k, m, t[k].sample[m]>>
  BY <1>2, <1>3, <1>4, <1>6
<1> QED BY <1>1, <1>5, <1>6

\* What more observations say contains what fewer say.
LEMMA FactsGrow ==
  ASSUME NEW t, NEW u, NEW s, NEW z, Keeps(t, s), Keeps(u, z), s \subseteq z
  PROVE  Buffer!FactsOf(t) \subseteq Buffer!FactsOf(u)
<1>1. ASSUME NEW k \in DOMAIN t
      PROVE  /\ k \in DOMAIN u /\ u[k].context = t[k].context
             /\ \A m \in Buffer!Modalities : t[k].sample[m] \in Values => u[k].sample[m] = t[k].sample[m]
  <2>1. \A o \in s : Buffer!Key(o) = k => Agrees(u[k], o) /\ Agrees(t[k], o) /\ k \in DOMAIN u
    BY DEF Keeps
  <2>2. \E o \in s : Buffer!Key(o) = k
    BY DEF Keeps
  <2>3. k \in DOMAIN u /\ u[k].context = t[k].context
    BY <2>1, <2>2 DEF Agrees
  <2>4. ASSUME NEW m \in Buffer!Modalities, t[k].sample[m] \in Values
        PROVE  u[k].sample[m] = t[k].sample[m]
    <3>1. PICK o \in s : Buffer!Key(o) = k /\ o.sample[m] = t[k].sample[m]
      BY DEF Keeps
    <3> QED BY <2>1, <2>4, <3>1 DEF Agrees
  <2> QED BY <2>3, <2>4
<1> SUFFICES ASSUME NEW f \in Buffer!FactsOf(t) PROVE f \in Buffer!FactsOf(u)
  OBVIOUS
<1>2. PICK k \in DOMAIN t :
        \/ f = <<k, "context", t[k].context>>
        \/ \E m \in Buffer!Modalities : t[k].sample[m] \in Values /\ f = <<k, m, t[k].sample[m]>>
  BY DEF Buffer!FactsOf
<1>3. k \in DOMAIN u
  BY <1>1
<1>4. CASE f = <<k, "context", t[k].context>>
  <2>1. f = <<k, "context", u[k].context>>
    BY <1>1, <1>4
  <2> QED BY <1>3, <2>1 DEF Buffer!FactsOf
<1>5. ASSUME NEW m \in Buffer!Modalities, t[k].sample[m] \in Values, f = <<k, m, t[k].sample[m]>>
      PROVE  f \in Buffer!FactsOf(u)
  <2>1. u[k].sample[m] \in Values /\ f = <<k, m, u[k].sample[m]>>
    BY <1>1, <1>5
  <2> QED BY <1>3, <2>1 DEF Buffer!FactsOf
<1> QED BY <1>2, <1>4, <1>5

LEMMA NoFacts == Buffer!FactsOf(Buffer!Empty) = {}
  BY DEF Buffer!FactsOf, Buffer!Empty

LEMMA LogBegins == Buffer!Init => Buffer!Log!Init
  BY NoFacts DEF Buffer!Init, Buffer!Log!Init

LEMMA LearnsNothing ==
  ASSUME Buffer!Opened, timeline' = timeline, given' = given
  PROVE  Buffer!Log!Learn
<1>1. /\ Buffer!FactsOf(timeline)' = Buffer!FactsOf(timeline)
      /\ Buffer!FactsOf(given)' = Buffer!FactsOf(given)
  BY DEF Buffer!FactsOf
<1>2. Buffer!Log!Consistent(Buffer!FactsOf(timeline)')
  BY <1>1, FactsAgree
<1> QED BY <1>1, <1>2 DEF Buffer!Log!Learn, Buffer!Opened

LEMMA LearnsMore ==
  ASSUME Buffer!BufferAssumption, BufferInv, NEW r \in Buffer!Sent, Buffer!AppendNew(r)
  PROVE  Buffer!Log!Learn
<1>1. Buffer!Opened /\ given' = given /\ taken' = taken \cup {r}
      /\ phase \in {"none", "collecting"} /\ phase' = "collecting"
  BY DEF Buffer!AppendNew, Buffer!Opened
<1>2. Keeps(timeline, Buffer!Reported)
  BY <1>1, OpenIs DEF TimelineKept
<1>3. BufferInv'
  BY AppendNewKeeps
<1>4. Keeps(timeline', Buffer!Reported')
  BY <1>1, <1>3 DEF BufferInv, TimelineKept
<1>5. Buffer!Reported \subseteq Buffer!Reported'
  BY <1>1 DEF Buffer!Reported
<1>6. Buffer!FactsOf(timeline) \subseteq Buffer!FactsOf(timeline')
  BY <1>2, <1>4, <1>5, FactsGrow
<1>7. Buffer!Log!Consistent(Buffer!FactsOf(timeline'))
  BY FactsAgree
<1>8. /\ Buffer!FactsOf(timeline)' = Buffer!FactsOf(timeline')
      /\ Buffer!FactsOf(given)' = Buffer!FactsOf(given)
  BY <1>1 DEF Buffer!FactsOf
<1> QED BY <1>1, <1>6, <1>7, <1>8 DEF Buffer!Log!Learn

LEMMA LogStep ==
  ASSUME Buffer!BufferAssumption, BufferInv, [Buffer!Next]_(Buffer!vars)
  PROVE  [Buffer!Log!Next]_(Buffer!Log!vars)
<1>1. ASSUME NEW r \in Buffer!Sent, Buffer!AppendNew(r) PROVE Buffer!Log!Next
  BY <1>1, LearnsMore DEF Buffer!Log!Next
<1>2. ASSUME NEW r \in Buffer!Sent, Buffer!AppendAgain(r) \/ Buffer!AppendRefused(r) PROVE Buffer!Log!Next
  BY <1>2, LearnsNothing
  DEF Buffer!Log!Next, Buffer!AppendAgain, Buffer!AppendRefused, Buffer!buffer
<1>3. CASE Buffer!Complete
  <2>1. /\ phase \in {"none", "collecting"} /\ phase' = "closed"
        /\ given' = timeline /\ timeline' = Buffer!Empty
    BY <1>3 DEF Buffer!Complete, Buffer!Cleared
  <2>2. Buffer!FactsOf(given)' = Buffer!FactsOf(timeline) /\ Buffer!FactsOf(timeline)' = {}
    BY <2>1, NoFacts DEF Buffer!FactsOf
  <2> QED BY <2>1, <2>2 DEF Buffer!Log!Next, Buffer!Log!HandOver
<1>4. CASE Buffer!Forget
  <2>1. phase # "none" /\ phase' = "none" /\ given' = Buffer!Empty /\ timeline' = Buffer!Empty
    BY <1>4 DEF Buffer!Forget, Buffer!Cleared
  <2>2. Buffer!FactsOf(given)' = {} /\ Buffer!FactsOf(timeline)' = {}
    BY <2>1, NoFacts DEF Buffer!FactsOf
  <2> QED BY <2>1, <2>2 DEF Buffer!Log!Next, Buffer!Log!Drop
<1>5. CASE UNCHANGED Buffer!vars
  BY <1>5 DEF Buffer!vars, Buffer!buffer, Buffer!Log!vars, Buffer!FactsOf
<1> QED BY <1>1, <1>2, <1>3, <1>4, <1>5 DEF Buffer!Next, Buffer!Append202

-----------------------------------------------------------------------------
(* What a live session keeps *)

\* The ends a frame can come to.
Endings == {"superseded", "observed", "failed", "cancelled", "disconnected"}

SessionTypes ==
  /\ Live!SessionTypeOK
  /\ ends \in [Live!Images -> Seq(Endings)]
  /\ image \in [Live!Images -> {"none", "open", "closed", "twice"}]
  /\ uploads \in Seq(Live!Images) /\ events \in Seq(Live!Images)

\* Only the frame offered last can wait; a frame at work was offered; only a
\* session runner without the live one restarts its worker.
FramesInv ==
  /\ Live!FramesEndOnce
  /\ waiting \in {Live!None, offered} /\ inFlight <= offered
  /\ stuck => live = "none"

\* A batch that is known brought its frame's event.
ApiInv ==
  /\ Live!IngestedInOrder
  /\ \A id \in known : \E j \in DOMAIN events : events[j] = id[1]

\* Before a session is created nothing has begun.
OpenInv ==
  /\ Live!NothingLeftOpen
  /\ ~session => offered = 0 /\ waiting = Live!None /\ inFlight = Live!None /\ worker = "none"
                 /\ \A f \in Live!Images : image[f] # "open"

SessionInv == SessionTypes /\ FramesInv /\ ApiInv /\ OpenInv

LEMMA SessionHolds ==
  ASSUME SessionInv
  PROVE  Live!SessionIsSound
  BY DEF SessionInv, SessionTypes, FramesInv, ApiInv, OpenInv, Live!SessionIsSound

LEMMA SessionBegins ==
  ASSUME Live!SessionInit
  PROVE  SessionInv
<1>0. MaxImages \in Nat /\ MaxFaults \in Nat
  BY ObservationsAssumption DEF Live!LiveAssumption
<1>1. SessionTypes
  <2>1. {camera, session, eye, restart, cancelled, closed, completed, stuck} \subseteq BOOLEAN
    BY Zenon DEF Live!SessionInit
  <2>2. Live!SessionTypeOK
    BY <1>0, <2>1 DEF Live!SessionInit, Live!SessionTypeOK, Live!None
  <2>3. ends \in [Live!Images -> Seq(Endings)]
    <3> QED BY DEF Live!SessionInit
  <2> QED BY <2>2, <2>3 DEF Live!SessionInit, SessionTypes
<1>2. FramesInv
  <2>1. \A f \in Live!Images : f \in Nat /\ f > 0
    BY <1>0 DEF Live!Images
  <2> QED BY <2>1 DEF Live!SessionInit, FramesInv, Live!FramesEndOnce, Live!None
<1>3. ApiInv
  BY DEF Live!SessionInit, ApiInv, Live!IngestedInOrder
<1>4. OpenInv
  BY DEF Live!SessionInit, OpenInv, Live!NothingLeftOpen
<1> QED BY <1>1, <1>2, <1>3, <1>4 DEF SessionInv

\* What the types say, one by one.
LEMMA SessionIs ==
  ASSUME SessionInv
  PROVE  /\ live \in {"none", "new", "open", "closed"}
         /\ gateway \in {"new", "connected", "disconnected", "cancelled", "closed"}
         /\ worker \in {"none", "idle", "started"}
         /\ camera \in BOOLEAN /\ session \in BOOLEAN /\ eye \in BOOLEAN /\ restart \in BOOLEAN
         /\ cancelled \in BOOLEAN /\ closed \in BOOLEAN /\ completed \in BOOLEAN
         /\ stuck \in BOOLEAN
         /\ offered \in Nat /\ offered \in Live!Images \cup {Live!None}
         /\ waiting \in Live!Images \cup {Live!None}
         /\ inFlight \in Live!Images \cup {Live!None} /\ faults \in 0..MaxFaults
         /\ MaxImages \in Nat /\ MaxFaults \in Nat
         /\ \A f \in Live!Images : f \in Nat /\ f > 0
<1>0. MaxImages \in Nat /\ MaxFaults \in Nat
  BY ObservationsAssumption DEF Live!LiveAssumption
<1>1. Live!SessionTypeOK
  BY DEF SessionInv, SessionTypes
<1>2. {camera, session, eye, restart, cancelled, closed, completed, stuck} \subseteq BOOLEAN
  BY <1>1 DEF Live!SessionTypeOK
<1>3. /\ camera \in BOOLEAN /\ session \in BOOLEAN /\ eye \in BOOLEAN /\ restart \in BOOLEAN
      /\ cancelled \in BOOLEAN /\ closed \in BOOLEAN /\ completed \in BOOLEAN /\ stuck \in BOOLEAN
  BY <1>2, Zenon
<1>4. \A f \in Live!Images : f \in Nat /\ f > 0
  BY <1>0 DEF Live!Images
<1>5. /\ offered \in Live!Images \cup {Live!None} /\ waiting \in Live!Images \cup {Live!None}
      /\ inFlight \in Live!Images \cup {Live!None}
  BY <1>1 DEF Live!SessionTypeOK
<1>6. /\ live \in {"none", "new", "open", "closed"}
      /\ gateway \in {"new", "connected", "disconnected", "cancelled", "closed"}
      /\ worker \in {"none", "idle", "started"} /\ faults \in 0..MaxFaults
  BY <1>1 DEF Live!SessionTypeOK
<1>7. offered \in Nat
  BY <1>4, <1>5 DEF Live!None
<1> QED BY <1>0, <1>3, <1>4, <1>5, <1>6, <1>7

-----------------------------------------------------------------------------
(* A frame comes to an end *)

LEMMA WithIs ==
  ASSUME NEW h \in [Live!Images -> Seq(Endings)], NEW f \in Live!Images \cup {Live!None}, NEW e \in Endings
  PROVE  /\ Live!With(h, f, e) \in [Live!Images -> Seq(Endings)]
         /\ \A g \in Live!Images : g # f => Live!With(h, f, e)[g] = h[g]
         /\ f \in Live!Images => /\ Len(Live!With(h, f, e)[f]) = Len(h[f]) + 1
                                 /\ Len(h[f]) = 0 => Live!With(h, f, e)[f] = <<e>>
<1>0. \A g \in Live!Images : g # Live!None
  <2>1. MaxImages \in Nat
    BY ObservationsAssumption DEF Live!LiveAssumption
  <2> QED BY <2>1 DEF Live!Images, Live!None
<1>1. CASE f = Live!None
  BY <1>0, <1>1 DEF Live!With
<1>2. CASE f \in Live!Images
  <2>1. Live!With(h, f, e) = [h EXCEPT ![f] = Append(h[f], e)]
    BY <1>0, <1>2 DEF Live!With
  <2>2. h[f] \in Seq(Endings)
    BY <1>2
  <2>3. Append(h[f], e) \in Seq(Endings) /\ Len(Append(h[f], e)) = Len(h[f]) + 1
    BY <2>2
  <2>4. Len(h[f]) = 0 => Append(h[f], e) = <<e>>
    <3>1. Len(h[f]) = 0 => h[f] = <<>>
      BY <2>2, EmptySeq
    <3>2. Append(<<>>, e) = <<e>>
      OBVIOUS
    <3> QED BY <3>1, <3>2
  <2> QED BY <1>2, <2>1, <2>3, <2>4
<1> QED BY <1>1, <1>2

\* The frames that ended stay as they are.
EndsStay == \A f \in Live!Images : ends[f] = <<"observed">> => ends'[f] = <<"observed">>

SessionCounted(h, n, w) == \A f \in Live!Images : Len(h[f]) = IF f <= n /\ f # w THEN 1 ELSE 0

\* The waiting frame comes to its end.
LEMMA WaitingEnds ==
  ASSUME SessionInv, NEW r \in Endings,
         offered' = offered, waiting' = Live!None, ends' = Live!With(ends, waiting, r)
  PROVE  /\ ends' \in [Live!Images -> Seq(Endings)] /\ SessionCounted(ends', offered', waiting')
         /\ EndsStay
         /\ waiting \in Live!Images => ends'[waiting] = <<r>>
<1>1. SessionCounted(ends, offered, waiting)
  BY DEF SessionInv, FramesInv, Live!FramesEndOnce, SessionCounted
<1>2. /\ ends \in [Live!Images -> Seq(Endings)] /\ waiting \in {Live!None, offered}
      /\ waiting \in Live!Images \cup {Live!None} /\ offered \in Nat
      /\ \A f \in Live!Images : f \in Nat /\ f > 0
  BY SessionIs DEF SessionInv, SessionTypes, FramesInv
<1>3. /\ ends' \in [Live!Images -> Seq(Endings)]
      /\ \A g \in Live!Images : g # waiting => ends'[g] = ends[g]
      /\ waiting \in Live!Images => /\ Len(ends'[waiting]) = Len(ends[waiting]) + 1
                                    /\ Len(ends[waiting]) = 0 => ends'[waiting] = <<r>>
  BY <1>2, WithIs
<1>4. waiting \in Live!Images => Len(ends[waiting]) = 0
  BY <1>1 DEF SessionCounted
<1>5. SessionCounted(ends', offered', waiting')
  <2>1. ASSUME NEW f \in Live!Images
        PROVE  Len(ends'[f]) = IF f <= offered' /\ f # waiting' THEN 1 ELSE 0
    <3>1. f # Live!None
      BY <1>2 DEF Live!None
    <3>2. CASE f = waiting
      <4>1. Len(ends'[f]) = 1 /\ f = offered
        BY <1>2, <1>3, <1>4, <3>1, <3>2
      <4> QED BY <1>2, <3>1, <4>1
    <3>3. CASE f # waiting
      BY <1>1, <1>3, <3>1, <3>3 DEF SessionCounted
    <3> QED BY <3>2, <3>3
  <2> QED BY <2>1 DEF SessionCounted
<1>6. EndsStay
  <2>1. ASSUME NEW f \in Live!Images, ends[f] = <<"observed">> PROVE f # waiting
    <3>1. Len(<<"observed">>) = 1
      OBVIOUS
    <3> QED BY <1>4, <2>1, <3>1
  <2> QED BY <1>3, <2>1 DEF EndsStay
<1> QED BY <1>3, <1>4, <1>5, <1>6

\* The waiting frame is superseded by f, which ends or waits.
LEMMA NextEnds ==
  ASSUME SessionInv, NEW f \in Live!Images, f = offered + 1, offered' = f, NEW r \in Endings,
         \/ waiting' = Live!None /\ ends' = Live!With(Live!Superseded, f, r)
         \/ waiting' = f /\ ends' = Live!Superseded
  PROVE  /\ ends' \in [Live!Images -> Seq(Endings)] /\ SessionCounted(ends', offered', waiting')
         /\ EndsStay
         /\ waiting' = Live!None => ends'[f] = <<r>>
<1>1. SessionCounted(ends, offered, waiting)
  BY DEF SessionInv, FramesInv, Live!FramesEndOnce, SessionCounted
<1>2. /\ ends \in [Live!Images -> Seq(Endings)] /\ waiting \in {Live!None, offered}
      /\ waiting \in Live!Images \cup {Live!None} /\ offered \in Nat
      /\ \A g \in Live!Images : g \in Nat /\ g > 0
  BY SessionIs DEF SessionInv, SessionTypes, FramesInv
<1> DEFINE h == Live!Superseded
<1>e. \A g \in Live!Images : g # Live!None
  BY <1>2 DEF Live!None
<1>3. /\ h \in [Live!Images -> Seq(Endings)]
      /\ \A g \in Live!Images : g # waiting => h[g] = ends[g]
      /\ waiting \in Live!Images => Len(h[waiting]) = Len(ends[waiting]) + 1
  <2>1. "superseded" \in Endings
    BY DEF Endings
  <2> QED BY <1>2, <2>1, WithIs DEF Live!Superseded
<1>4. waiting \in Live!Images => Len(ends[waiting]) = 0
  BY <1>1 DEF SessionCounted
<1>5. ASSUME NEW g \in Live!Images PROVE Len(h[g]) = IF g <= offered THEN 1 ELSE 0
  <2>1. g # Live!None
    BY <1>2 DEF Live!None
  <2>2. CASE g = waiting
    <3>1. Len(h[g]) = 1 /\ g = offered
      BY <1>2, <1>3, <1>4, <2>1, <2>2
    <3> QED BY <1>2, <3>1
  <2>3. CASE g # waiting
    <3>1. Len(h[g]) = Len(ends[g])
      BY <1>3, <2>3
    <3> QED BY <1>1, <2>3, <3>1 DEF SessionCounted
  <2> QED BY <2>2, <2>3
<1>6. \A g \in Live!Images : ends[g] = <<"observed">> => h[g] = <<"observed">>
  <2>1. ASSUME NEW g \in Live!Images, ends[g] = <<"observed">> PROVE g # waiting
    <3>1. Len(ends[g]) = 1
      BY <2>1
    <3>2. g = waiting => Len(ends[g]) = 0
      BY <1>4, <2>1
    <3> QED BY <3>1, <3>2
  <2> QED BY <1>3, <2>1
<1>7. f \notin {Live!None} /\ f > offered
  BY <1>2 DEF Live!None
<1>d. (waiting' = Live!None /\ ends' = Live!With(h, f, r)) \/ (waiting' = f /\ ends' = h)
  OBVIOUS
<1> HIDE DEF h
<1>8. CASE waiting' = Live!None /\ ends' = Live!With(h, f, r)
  <2>1. /\ ends' \in [Live!Images -> Seq(Endings)]
        /\ \A g \in Live!Images : g # f => ends'[g] = h[g]
        /\ Len(ends'[f]) = Len(h[f]) + 1
        /\ Len(h[f]) = 0 => ends'[f] = <<r>>
    BY <1>3, <1>8, WithIs
  <2>2. Len(h[f]) = 0
    BY <1>2, <1>5
  <2>3. SessionCounted(ends', offered', waiting')
    <3>1. ASSUME NEW g \in Live!Images
          PROVE  Len(ends'[g]) = IF g <= offered' /\ g # waiting' THEN 1 ELSE 0
      <4>1. CASE g = f
        <5>1. Len(ends'[g]) = 1
          BY <2>1, <2>2, <4>1
        <5>2. g <= offered' /\ g # waiting'
          BY <1>2, <1>8, <1>e, <4>1
        <5> QED BY <5>1, <5>2
      <4>2. CASE g # f
        <5>1. Len(ends'[g]) = IF g <= offered THEN 1 ELSE 0
          BY <1>5, <2>1, <4>2
        <5>2. g <= offered' <=> g <= offered
          BY <1>2, <4>2
        <5> QED BY <1>8, <1>e, <5>1, <5>2
      <4> QED BY <4>1, <4>2
    <3> QED BY <3>1 DEF SessionCounted
  <2>4. EndsStay
    <3>1. ASSUME NEW g \in Live!Images, ends[g] = <<"observed">> PROVE g # f
      <4>1. h[g] = <<"observed">>
        BY <1>6, <3>1
      <4>2. Len(<<"observed">>) = 1
        OBVIOUS
      <4> QED BY <2>2, <4>1, <4>2
    <3> QED BY <1>6, <2>1, <3>1 DEF EndsStay
  <2> QED BY <2>1, <2>2, <2>3, <2>4
<1>9. CASE waiting' = f /\ ends' = h
  <2>1. SessionCounted(ends', offered', waiting')
    BY <1>2, <1>5, <1>9 DEF SessionCounted
  <2> QED BY <1>3, <1>6, <1>7, <1>9, <2>1 DEF EndsStay
<1> QED BY <1>d, <1>8, <1>9

-----------------------------------------------------------------------------
(* An image *)

ImagesFit(i, n, s) ==
  \A f \in Live!Images :
    /\ i[f] # "twice"
    /\ i[f] = "open" => f = n
    /\ n = f => i[f] = "open" \/ s

LEMMA ImageBegins ==
  ASSUME SessionInv, NEW f \in Live!Images, NEW outcome, inFlight = Live!None, Live!Imaged(f, outcome), stuck' = stuck
  PROVE  /\ image' \in [Live!Images -> {"none", "open", "closed", "twice"}]
         /\ ImagesFit(image', inFlight', stuck') /\ inFlight' \in {f, Live!None}
<1>1. \A g \in Live!Images : g # Live!None
  BY SessionIs DEF Live!None
<1>2. /\ image \in [Live!Images -> {"none", "open", "closed", "twice"}]
      /\ ImagesFit(image, inFlight, stuck)
  BY DEF SessionInv, SessionTypes, FramesInv, Live!FramesEndOnce, ImagesFit
<1> QED BY <1>1, <1>2 DEF Live!Imaged, ImagesFit

LEMMA ImageEnds ==
  ASSUME SessionInv, ~stuck, inFlight' = Live!None,
         image' = IF inFlight = Live!None THEN image ELSE Live!Shut(inFlight)
  PROVE  /\ image' \in [Live!Images -> {"none", "open", "closed", "twice"}]
         /\ \A f \in Live!Images : image'[f] \notin {"open", "twice"}
<1>1. \A g \in Live!Images : g # Live!None
  BY SessionIs DEF Live!None
<1>2. /\ image \in [Live!Images -> {"none", "open", "closed", "twice"}]
      /\ ImagesFit(image, inFlight, stuck) /\ inFlight \in Live!Images \cup {Live!None}
  BY SessionIs DEF SessionInv, SessionTypes, FramesInv, Live!FramesEndOnce, ImagesFit
<1>3. inFlight \in Live!Images => image[inFlight] = "open"
  BY <1>2 DEF ImagesFit
<1> QED BY <1>1, <1>2, <1>3 DEF Live!Shut, ImagesFit

-----------------------------------------------------------------------------
(* What the API has *)

ApiFits(ids, e, b, h) ==
  /\ \A i, j \in DOMAIN e : i < j => e[i] < e[j]
  /\ \A i \in DOMAIN e : h[e[i]] = <<"observed">>
  /\ \A i \in DOMAIN b : \E j \in DOMAIN e : e[j] = b[i]
  /\ \A id \in ids : \E j \in DOMAIN e : e[j] = id[1]

\* A frame whose events the API has was offered, and does not wait.
LEMMA EventIs ==
  ASSUME SessionInv, NEW i \in DOMAIN events
  PROVE  events[i] \in Live!Images /\ events[i] <= offered /\ events[i] # waiting
<1>1. events[i] \in Live!Images
  <2>1. events \in Seq(Live!Images)
    BY DEF SessionInv, SessionTypes
  <2> QED BY <2>1
<1>2. ends[events[i]] = <<"observed">>
  BY DEF SessionInv, ApiInv, Live!IngestedInOrder
<1>3. Len(ends[events[i]]) = 1
  BY <1>2
<1>4. SessionCounted(ends, offered, waiting)
  BY DEF SessionInv, FramesInv, Live!FramesEndOnce, SessionCounted
<1>5. PICK f \in Live!Images : f = events[i]
  BY <1>1
<1>6. Len(ends[f]) = 1
  BY <1>3, <1>5
<1>7. f <= offered /\ f # waiting
  BY <1>4, <1>6 DEF SessionCounted
<1> QED BY <1>5, <1>7

\* The API hears nothing, or what it has heard before.
LEMMA NothingHeard ==
  ASSUME SessionInv, EndsStay, events' = events, known' = known,
         uploads' \in {uploads, <<>>}
  PROVE  /\ uploads' \in Seq(Live!Images) /\ events' \in Seq(Live!Images)
         /\ ApiFits(known', events', uploads', ends')
<1>1. uploads \in Seq(Live!Images) /\ events \in Seq(Live!Images)
  BY DEF SessionInv, SessionTypes
<1>2. ApiFits(known, events, uploads, ends)
  BY DEF SessionInv, ApiInv, Live!IngestedInOrder, ApiFits
<1>3. \A i \in DOMAIN events : ends'[events[i]] = <<"observed">>
  BY <1>2, EventIs DEF ApiFits, EndsStay
<1>4. uploads' \in Seq(Live!Images)
  <2>1. CASE uploads' = uploads
    BY <1>1, <2>1
  <2>2. CASE uploads' = <<>>
    BY <2>2
  <2> QED BY <2>1, <2>2
<1>5. \A i \in DOMAIN uploads' : \E j \in DOMAIN events : events[j] = uploads'[i]
  <2>1. CASE uploads' = uploads
    BY <1>2, <2>1 DEF ApiFits
  <2>2. CASE uploads' = <<>>
    BY <2>2
  <2> QED BY <2>1, <2>2
<1>6. /\ \A i, j \in DOMAIN events : i < j => events[i] < events[j]
      /\ \A id \in known : \E j \in DOMAIN events : events[j] = id[1]
  BY <1>2 DEF ApiFits
<1> QED BY <1>1, <1>3, <1>4, <1>5, <1>6 DEF ApiFits

\* The API hears of a frame that was observed, for the first time or again.
LEMMA FrameHeard ==
  ASSUME SessionInv, EndsStay, NEW f \in Live!Images, NEW id, id[1] = f, Live!Known(id, f),
         ends'[f] = <<"observed">>, uploads' \in {uploads, Append(uploads, f), <<>>},
         (\E i \in DOMAIN events : events[i] = f) \/ \A i \in DOMAIN events : events[i] < f
  PROVE  /\ uploads' \in Seq(Live!Images) /\ events' \in Seq(Live!Images)
         /\ ApiFits(known', events', uploads', ends')
<1>1. uploads \in Seq(Live!Images) /\ events \in Seq(Live!Images)
  BY DEF SessionInv, SessionTypes
<1>2. ApiFits(known, events, uploads, ends)
  BY DEF SessionInv, ApiInv, Live!IngestedInOrder, ApiFits
<1>3. \A i \in DOMAIN events : ends'[events[i]] = <<"observed">>
  BY <1>2, EventIs DEF ApiFits, EndsStay
<1>4. /\ known' = known \cup {id}
      /\ events' = IF id \in known \/ \E i \in DOMAIN events : events[i] = f THEN events
                   ELSE Append(events, f)
  BY DEF Live!Known
<1>5. id \in known => \E i \in DOMAIN events : events[i] = f
  BY <1>2 DEF ApiFits
<1>6. /\ events' \in Seq(Live!Images)
      /\ \A i, j \in DOMAIN events' : i < j => events'[i] < events'[j]
      /\ \A i \in DOMAIN events' : events'[i] = f \/ \E j \in DOMAIN events : events'[i] = events[j]
      /\ \A i \in DOMAIN events : \E j \in DOMAIN events' : events'[j] = events[i]
      /\ \E j \in DOMAIN events' : events'[j] = f
  <2>1. CASE \E i \in DOMAIN events : events[i] = f
    <3>1. events' = events
      BY <1>4, <2>1
    <3> QED BY <1>1, <1>2, <2>1, <3>1 DEF ApiFits
  <2>2. CASE ~\E i \in DOMAIN events : events[i] = f
    <3>1. events' = Append(events, f)
      BY <1>4, <1>5, <2>2
    <3>2. /\ Append(events, f) \in Seq(Live!Images)
          /\ DOMAIN Append(events, f) = 1..(Len(events) + 1)
          /\ DOMAIN events = 1..Len(events) /\ Len(events) \in Nat
          /\ \A i \in 1..Len(events) : Append(events, f)[i] = events[i]
          /\ Append(events, f)[Len(events) + 1] = f
      BY <1>1
    <3>3. \A i \in DOMAIN events : events[i] < f
      BY <2>2
    <3>4. \A i, j \in DOMAIN events : i < j => events[i] < events[j]
      BY <1>2 DEF ApiFits
    <3>5. ASSUME NEW i \in DOMAIN events', NEW j \in DOMAIN events', i < j
          PROVE  events'[i] < events'[j]
      <4>1. i \in 1..Len(events) /\ j \in 1..(Len(events) + 1)
        BY <3>1, <3>2, <3>5
      <4>2. CASE j \in 1..Len(events)
        BY <3>1, <3>2, <3>4, <3>5, <4>1, <4>2
      <4>3. CASE j = Len(events) + 1
        BY <3>1, <3>2, <3>3, <4>1, <4>3
      <4> QED BY <3>2, <4>1, <4>2, <4>3
    <3>6. \A i \in DOMAIN events' : events'[i] = f \/ \E j \in DOMAIN events : events'[i] = events[j]
      BY <3>1, <3>2
    <3>7. \A i \in DOMAIN events : i \in DOMAIN events' /\ events'[i] = events[i]
      BY <3>1, <3>2
    <3>8. Len(events) + 1 \in DOMAIN events' /\ events'[Len(events) + 1] = f
      BY <3>1, <3>2
    <3> QED BY <3>1, <3>2, <3>5, <3>6, <3>7, <3>8
  <2> QED BY <2>1, <2>2
<1>7. \A i \in DOMAIN events' : ends'[events'[i]] = <<"observed">>
  BY <1>3, <1>6
<1>8. /\ uploads' \in Seq(Live!Images)
      /\ \A i \in DOMAIN uploads' : \E j \in DOMAIN events' : events'[j] = uploads'[i]
  <2>1. \A i \in DOMAIN uploads : \E j \in DOMAIN events' : events'[j] = uploads[i]
    BY <1>2, <1>6 DEF ApiFits
  <2>2. CASE uploads' = uploads
    BY <1>1, <2>1, <2>2
  <2>3. CASE uploads' = Append(uploads, f)
    <3>1. /\ Append(uploads, f) \in Seq(Live!Images)
          /\ DOMAIN Append(uploads, f) = 1..(Len(uploads) + 1)
          /\ DOMAIN uploads = 1..Len(uploads) /\ Len(uploads) \in Nat
          /\ \A i \in 1..Len(uploads) : Append(uploads, f)[i] = uploads[i]
          /\ Append(uploads, f)[Len(uploads) + 1] = f
      BY <1>1
    <3>2. ASSUME NEW i \in DOMAIN uploads' PROVE \E j \in DOMAIN events' : events'[j] = uploads'[i]
      <4>1. CASE i \in 1..Len(uploads)
        BY <2>1, <2>3, <3>1, <4>1
      <4>2. CASE i = Len(uploads) + 1
        BY <1>6, <2>3, <3>1, <4>2
      <4> QED BY <2>3, <3>1, <3>2, <4>1, <4>2
    <3> QED BY <2>3, <3>1, <3>2
  <2>4. CASE uploads' = <<>>
    BY <2>4
  <2> QED BY <2>2, <2>3, <2>4
<1>9. \A x \in known' : \E j \in DOMAIN events' : events'[j] = x[1]
  <2>1. ASSUME NEW x \in known' PROVE \E j \in DOMAIN events' : events'[j] = x[1]
    <3>1. CASE x = id
      BY <1>6, <3>1
    <3>2. CASE x \in known
      BY <1>2, <1>6, <3>2 DEF ApiFits
    <3> QED BY <1>4, <2>1, <3>1, <3>2
  <2> QED BY <2>1
<1> QED BY <1>6, <1>7, <1>8, <1>9 DEF ApiFits

-----------------------------------------------------------------------------
(* The invariant, from its parts *)

LEMMA SessionBuilt ==
  ASSUME live' \in {"none", "new", "open", "closed"},
         gateway' \in {"new", "connected", "disconnected", "cancelled", "closed"},
         worker' \in {"none", "idle", "started"},
         camera' \in BOOLEAN, session' \in BOOLEAN, eye' \in BOOLEAN, restart' \in BOOLEAN,
         cancelled' \in BOOLEAN, closed' \in BOOLEAN, completed' \in BOOLEAN, stuck' \in BOOLEAN,
         offered' \in Live!Images \cup {Live!None}, waiting' \in Live!Images \cup {Live!None},
         inFlight' \in Live!Images \cup {Live!None}, faults' \in 0..MaxFaults,
         image' \in [Live!Images -> {"none", "open", "closed", "twice"}],
         ends' \in [Live!Images -> Seq(Endings)],
         uploads' \in Seq(Live!Images), events' \in Seq(Live!Images),
         ImagesFit(image', inFlight', stuck'), SessionCounted(ends', offered', waiting'),
         waiting' \in {Live!None, offered'}, inFlight' <= offered', stuck' => live' = "none",
         ApiFits(known', events', uploads', ends'),
         worker' # "none" <=> gateway' = "connected",
         camera' <=> live' = "open",
         ~session' \/ live' = "closed" =>
           worker' = "none" /\ waiting' = Live!None /\ inFlight' = Live!None /\ \A f \in Live!Images : image'[f] # "open",
         ~session' => offered' = 0
  PROVE  SessionInv'
<1>1. {camera, session, eye, restart, cancelled, closed, completed, stuck}' \subseteq BOOLEAN
  BY Zenon
<1>2. {offered, waiting, inFlight}' \subseteq Live!Images \cup {Live!None}
  BY Zenon
<1>3. SessionTypes'
  <2>1. \A f \in Live!Images : image'[f] \in {"none", "open", "closed", "twice"}
    OBVIOUS
  <2>2. Live!SessionTypeOK'
    BY <1>1, <1>2, <2>1 DEF Live!SessionTypeOK
  <2> QED BY <2>2 DEF SessionTypes
<1>4. FramesInv'
  BY DEF FramesInv, Live!FramesEndOnce, ImagesFit, SessionCounted
<1>5. ApiInv'
  BY DEF ApiInv, Live!IngestedInOrder, ApiFits
<1>6. OpenInv'
  BY DEF OpenInv, Live!NothingLeftOpen
<1> QED BY <1>3, <1>4, <1>5, <1>6 DEF SessionInv

\* What is known before a step.
LEMMA SessionHas ==
  ASSUME SessionInv
  PROVE  /\ image \in [Live!Images -> {"none", "open", "closed", "twice"}]
         /\ ends \in [Live!Images -> Seq(Endings)]
         /\ uploads \in Seq(Live!Images) /\ events \in Seq(Live!Images)
         /\ ImagesFit(image, inFlight, stuck) /\ SessionCounted(ends, offered, waiting)
         /\ waiting \in {Live!None, offered} /\ inFlight <= offered /\ (stuck => live = "none")
         /\ ApiFits(known, events, uploads, ends)
         /\ (worker # "none" <=> gateway = "connected")
         /\ (camera <=> live = "open")
         /\ (~session \/ live = "closed" =>
               worker = "none" /\ waiting = Live!None /\ inFlight = Live!None /\ \A f \in Live!Images : image[f] # "open")
         /\ (~session => offered = 0)
  BY DEF SessionInv, SessionTypes, FramesInv, Live!FramesEndOnce, ApiInv, Live!IngestedInOrder,
         OpenInv,
         Live!NothingLeftOpen, ImagesFit, SessionCounted, ApiFits

LEMMA NothingEnds ==
  ASSUME SessionInv, ends' = ends
  PROVE  EndsStay
  BY DEF EndsStay

LEMMA AfterFault ==
  ASSUME SessionInv, Live!Fault
  PROVE  faults' \in 0..MaxFaults
  BY SessionIs DEF Live!Fault

LEMMA StartKeeps ==
  ASSUME SessionInv, Live!Start
  PROVE  SessionInv'
<1>1. /\ ~session /\ live # "closed" /\ session' = TRUE /\ gateway' = "connected"
      /\ worker' \in {"idle", "started"}
      /\ eye' = eye /\ restart' = restart /\ offered' = offered /\ waiting' = waiting
      /\ inFlight' = inFlight
      /\ image' = image /\ ends' = ends /\ uploads' = uploads /\ cancelled' = cancelled
      /\ closed' = closed
      /\ known' = known /\ events' = events /\ completed' = completed /\ stuck' = stuck
      /\ faults' = faults
  BY DEF Live!Start, Live!Connected, Live!Fresh, Live!frames, Live!runner, Live!api
<1>2. /\ live' \in {"none", "new", "open", "closed"} /\ live' # "closed"
      /\ camera' \in BOOLEAN /\ (camera' <=> live' = "open") /\ (stuck => live' = "none")
  BY SessionIs, SessionHas DEF Live!Start
<1>3. ApiFits(known', events', uploads', ends') /\ ImagesFit(image', inFlight', stuck')
      /\ SessionCounted(ends', offered', waiting')
  BY <1>1, SessionHas
<1> QED BY <1>1, <1>2, <1>3, SessionIs, SessionHas, SessionBuilt

LEMMA StartFailsKeeps ==
  ASSUME SessionInv, Live!CameraFails \/ Live!StartFails
  PROVE  SessionInv'
<1>1. /\ session' = session /\ gateway' = gateway /\ worker' = worker /\ camera' = camera
      /\ eye' = eye /\ restart' = restart /\ offered' = offered /\ waiting' = waiting
      /\ inFlight' = inFlight
      /\ image' = image /\ ends' = ends /\ uploads' = uploads /\ cancelled' = cancelled
      /\ closed' = closed
      /\ known' = known /\ events' = events /\ completed' = completed /\ stuck' = stuck /\ ~session
  BY DEF Live!CameraFails, Live!StartFails, Live!user, Live!gate, Live!frames, Live!runner, Live!api
<1>2. /\ live' \in {"none", "new", "open", "closed"}
      /\ (camera' <=> live' = "open") /\ (stuck => live' = "none")
  BY <1>1, SessionIs, SessionHas DEF Live!CameraFails, Live!StartFails, Live!user
<1>3. ApiFits(known', events', uploads', ends') /\ ImagesFit(image', inFlight', stuck')
      /\ SessionCounted(ends', offered', waiting')
  BY <1>1, SessionHas
<1>4. faults' \in 0..MaxFaults
  BY AfterFault DEF Live!CameraFails, Live!StartFails
<1> QED BY <1>1, <1>2, <1>3, <1>4, SessionIs, SessionHas, SessionBuilt

-----------------------------------------------------------------------------
(* The steps of a session *)

LEMMA DispatchGives ==
  ASSUME SessionInv, gateway = "connected", NEW f, NEW outcome, Live!Dispatched(f, outcome)
  PROVE  /\ gateway' = "connected" /\ eye' = eye /\ worker' \in {"idle", "started"}
         /\ restart' \in BOOLEAN /\ Live!Imaged(f, outcome)
<1>1. worker \in {"idle", "started"} /\ restart \in BOOLEAN
  BY SessionIs, SessionHas
<1>2. CASE restart /\ outcome # "failed"
  BY <1>1, <1>2 DEF Live!Dispatched, Live!Fresh
<1>3. CASE ~(restart /\ outcome # "failed")
  BY <1>1, <1>3 DEF Live!Dispatched
<1> QED BY <1>2, <1>3 DEF Live!Dispatched

LEMMA FrameBegins ==
  ASSUME SessionInv, NEW f \in Live!Images, Live!Begins(f)
  PROVE  /\ session /\ live # "closed" /\ ~stuck /\ f = offered + 1 /\ offered' = f
         /\ session' = session /\ closed' = closed /\ stuck' = stuck
         /\ \A i \in DOMAIN events : events[i] < f
<1>1. /\ session /\ live # "closed" /\ ~stuck /\ f = offered + 1 /\ offered' = f
      /\ session' = session /\ closed' = closed /\ stuck' = stuck
  BY DEF Live!Begins, Live!Running, Live!Started
<1>2. ASSUME NEW i \in DOMAIN events PROVE events[i] < f
  <2>1. PICK e \in Live!Images : e = events[i]
    BY EventIs
  <2>2. e <= offered /\ e \in Nat /\ offered \in Nat
    BY <2>1, EventIs, SessionIs
  <2> QED BY <1>1, <2>1, <2>2
<1> QED BY <1>1, <1>2

\* What the API hears of the frame at work.
LEMMA IngestGives ==
  ASSUME SessionInv, EndsStay, NEW f \in Live!Images, NEW id, id[1] = f,
         ends'[f] = <<"observed">>, uploads' \in {uploads, Append(uploads, f), <<>>},
         (\E i \in DOMAIN events : events[i] = f) \/ \A i \in DOMAIN events : events[i] < f,
         Live!Ingested(id, f) \/ (Live!IngestFails(id, f) /\ uploads' # Append(uploads, f))
  PROVE  /\ uploads' \in Seq(Live!Images) /\ events' \in Seq(Live!Images)
         /\ ApiFits(known', events', uploads', ends')
         /\ completed' = completed /\ faults' \in 0..MaxFaults
<1>1. completed' = completed
  BY DEF Live!Ingested, Live!IngestFails
<1>2. faults' \in 0..MaxFaults
  <2>1. faults' = faults \/ Live!Fault
    BY DEF Live!Ingested, Live!IngestFails
  <2> QED BY <2>1, AfterFault, SessionIs
<1>3. CASE Live!Known(id, f)
  BY <1>1, <1>2, <1>3, FrameHeard
<1>4. CASE ~Live!Known(id, f)
  <2>1. events' = events /\ known' = known /\ uploads' \in {uploads, <<>>}
    BY <1>4 DEF Live!Ingested, Live!IngestFails
  <2> QED BY <1>1, <1>2, <2>1, NothingHeard
<1> QED BY <1>3, <1>4

LEMMA ProcessKeeps ==
  ASSUME SessionInv, NEW f \in Live!Images, Live!Process(f)
  PROVE  SessionInv'
<1>0. Live!Begins(f) /\ gateway = "connected" /\ inFlight = Live!None /\ waiting' = Live!None
  BY DEF Live!Process
<1>1. /\ session /\ live # "closed" /\ ~stuck /\ f = offered + 1 /\ offered' = f
      /\ session' = session /\ closed' = closed /\ stuck' = stuck
      /\ \A i \in DOMAIN events : events[i] < f
  BY <1>0, FrameBegins
<1>2. "observed" \in Endings
  BY DEF Endings
<1>3. ASSUME ends' = Live!With(Live!Superseded, f, "observed")
      PROVE  /\ ends' \in [Live!Images -> Seq(Endings)]
             /\ SessionCounted(ends', offered', waiting') /\ EndsStay
             /\ ends'[f] = <<"observed">>
  BY <1>0, <1>1, <1>2, <1>3, NextEnds
<1>4. ASSUME NEW outcome, Live!Imaged(f, outcome)
      PROVE  /\ image' \in [Live!Images -> {"none", "open", "closed", "twice"}]
             /\ ImagesFit(image', inFlight', stuck') /\ inFlight' \in {f, Live!None}
  BY <1>0, <1>1, <1>4, ImageBegins
<1>5. <<f, "first">>[1] = f
  OBVIOUS
<1>6. /\ f \in Nat /\ f > 0
      /\ \A n \in {f, Live!None} : n <= offered' /\ n \in Live!Images \cup {Live!None}
  BY <1>1, SessionIs DEF Live!None
<1>7. ASSUME NEW outcome, Live!Dispatched(f, outcome), ends' = Live!With(Live!Superseded, f, "observed"),
             UNCHANGED <<live, camera, cancelled>>,
             \/ Live!Ingested(<<f, "first">>, f) /\ uploads' = Append(uploads, f)
             \/ Live!IngestFails(<<f, "first">>, f) /\ uploads' = uploads
      PROVE  SessionInv'
  <2>1. /\ gateway' = "connected" /\ eye' = eye /\ worker' \in {"idle", "started"}
        /\ restart' \in BOOLEAN /\ Live!Imaged(f, outcome)
    BY <1>0, <1>7, DispatchGives
  <2>2. uploads # Append(uploads, f)
    <3>1. uploads \in Seq(Live!Images)
      BY SessionHas
    <3>2. Len(Append(uploads, f)) = Len(uploads) + 1 /\ Len(uploads) \in Nat
      BY <3>1
    <3> QED BY <3>2
  <2>3. /\ uploads' \in {uploads, Append(uploads, f), <<>>}
        /\ Live!Ingested(<<f, "first">>, f) \/ (Live!IngestFails(<<f, "first">>, f) /\ uploads' # Append(uploads, f))
    BY <1>7, <2>2
  <2>4. /\ uploads' \in Seq(Live!Images) /\ events' \in Seq(Live!Images)
        /\ ApiFits(known', events', uploads', ends')
        /\ completed' = completed /\ faults' \in 0..MaxFaults
    BY <1>1, <1>3, <1>5, <1>7, <2>3, IngestGives
  <2>5. live' = live /\ camera' = camera /\ cancelled' = cancelled
    BY <1>7
  <2> QED
    BY <1>0, <1>1, <1>3, <1>4, <1>6, <1>7, <2>1, <2>4, <2>5, SessionIs, SessionHas, SessionBuilt
<1>8. ASSUME live = "open", Live!IngestFails(<<f, "first">>, f), Live!LiveCancelled(f, "observed"),
             Live!Imaged(f, "observed"), restart' = restart
      PROVE  SessionInv'
  <2>1. /\ live' = "closed" /\ camera' = FALSE /\ cancelled' = TRUE /\ uploads' = <<>>
        /\ gateway' = "cancelled" /\ eye' = FALSE /\ worker' = "none"
        /\ ends' = Live!With(Live!Superseded, f, "observed")
    BY <1>8 DEF Live!LiveCancelled
  <2>2. uploads' # Append(uploads, f)
    <3>1. uploads \in Seq(Live!Images)
      BY SessionHas
    <3>2. Len(Append(uploads, f)) = Len(uploads) + 1 /\ Len(uploads) \in Nat
      BY <3>1
    <3>3. Len(<<>>) = 0
      OBVIOUS
    <3>4. <<>> # Append(uploads, f)
      BY <3>2, <3>3
    <3> QED BY <2>1, <3>4
  <2>3. /\ uploads' \in Seq(Live!Images) /\ events' \in Seq(Live!Images)
        /\ ApiFits(known', events', uploads', ends')
        /\ completed' = completed /\ faults' \in 0..MaxFaults
    <3>1. uploads' \in {uploads, Append(uploads, f), <<>>}
      BY <2>1
    <3> QED BY <1>1, <1>3, <1>5, <1>8, <2>1, <2>2, <3>1, IngestGives
  <2>4. inFlight' = Live!None /\ \A g \in Live!Images : image'[g] # "open"
    <3>1. inFlight' = Live!None
      BY <1>8 DEF Live!Imaged
    <3>2. \A g \in Live!Images : g # Live!None
      BY SessionIs DEF Live!None
    <3> QED BY <1>4, <1>8, <3>1, <3>2 DEF ImagesFit
  <2> QED
    BY <1>0, <1>1, <1>3, <1>4, <1>6, <1>8, <2>1, <2>3, <2>4, SessionIs, SessionHas, SessionBuilt
<1> QED BY <1>7, <1>8 DEF Live!Process

LEMMA ProcessFailsKeeps ==
  ASSUME SessionInv, NEW f \in Live!Images, Live!ProcessFails(f)
  PROVE  SessionInv'
<1>0. Live!Begins(f) /\ gateway = "connected" /\ inFlight = Live!None /\ waiting' = Live!None
  BY DEF Live!ProcessFails
<1>1. /\ session /\ live # "closed" /\ ~stuck /\ f = offered + 1 /\ offered' = f
      /\ session' = session /\ closed' = closed /\ stuck' = stuck
  BY <1>0, FrameBegins
<1>2. "failed" \in Endings
  BY DEF Endings
<1>3. known' = known /\ events' = events /\ completed' = completed
  BY DEF Live!ProcessFails, Live!api
<1>4. ends' = Live!With(Live!Superseded, f, "failed")
  BY DEF Live!ProcessFails, Live!LiveCancelled
<1>5. /\ ends' \in [Live!Images -> Seq(Endings)] /\ SessionCounted(ends', offered', waiting')
      /\ EndsStay
  BY <1>0, <1>1, <1>2, <1>4, NextEnds
<1>6. /\ f \in Nat /\ f > 0
      /\ \A n \in {f, Live!None} : n <= offered' /\ n \in Live!Images \cup {Live!None}
  BY <1>1, SessionIs DEF Live!None
<1>7. CASE live = "open"
  <2>1. /\ live' = "closed" /\ camera' = FALSE /\ cancelled' = TRUE /\ uploads' = <<>>
        /\ gateway' = "cancelled" /\ eye' = FALSE /\ worker' = "none" /\ Live!Fault
        /\ image' = image /\ inFlight' = Live!None /\ restart' = restart
    BY <1>0, <1>7 DEF Live!ProcessFails, Live!LiveCancelled
  <2>2. /\ uploads' \in Seq(Live!Images) /\ events' \in Seq(Live!Images)
        /\ ApiFits(known', events', uploads', ends')
    BY <1>3, <1>5, <2>1, NothingHeard
  <2>3. ImagesFit(image', inFlight', stuck') /\ \A g \in Live!Images : image'[g] # "open"
    <3>1. \A g \in Live!Images : g # Live!None
      BY SessionIs DEF Live!None
    <3> QED BY <1>0, <1>1, <2>1, <3>1, SessionHas DEF ImagesFit
  <2>4. faults' \in 0..MaxFaults
    BY <2>1, AfterFault
  <2> QED
    BY <1>0, <1>1, <1>3, <1>5, <1>6, <2>1, <2>2, <2>3, <2>4, SessionIs, SessionHas, SessionBuilt
<1>8. CASE live # "open"
  <2>1. Live!Dispatched(f, "failed") /\ live' = live /\ camera' = camera /\ cancelled' = cancelled
        /\ uploads' = uploads /\ faults' = faults
    BY <1>8 DEF Live!ProcessFails
  <2>2. /\ gateway' = "connected" /\ eye' = eye /\ worker' \in {"idle", "started"}
        /\ restart' \in BOOLEAN /\ Live!Imaged(f, "failed")
    BY <1>0, <2>1, DispatchGives
  <2>3. /\ image' \in [Live!Images -> {"none", "open", "closed", "twice"}]
        /\ ImagesFit(image', inFlight', stuck') /\ inFlight' \in {f, Live!None}
    BY <1>0, <1>1, <2>2, ImageBegins
  <2>4. /\ uploads' \in Seq(Live!Images) /\ events' \in Seq(Live!Images)
        /\ ApiFits(known', events', uploads', ends')
    BY <1>3, <1>5, <2>1, NothingHeard
  <2> QED
    BY <1>0, <1>1, <1>3, <1>5, <1>6, <2>1, <2>2, <2>3, <2>4, SessionIs, SessionHas, SessionBuilt
<1> QED BY <1>7, <1>8

LEMMA ProcessBusyKeeps ==
  ASSUME SessionInv, NEW f \in Live!Images, Live!ProcessBusy(f)
  PROVE  SessionInv'
<1>0. Live!Begins(f) /\ gateway = "connected" /\ inFlight # Live!None
  BY DEF Live!ProcessBusy
<1>1. /\ session /\ live # "closed" /\ ~stuck /\ f = offered + 1 /\ offered' = f
      /\ session' = session /\ closed' = closed /\ stuck' = stuck
  BY <1>0, FrameBegins
<1>2. "cancelled" \in Endings
  BY DEF Endings
<1>3. known' = known /\ events' = events /\ completed' = completed /\ faults' = faults
  BY DEF Live!ProcessBusy, Live!api
<1>4. /\ f \in Nat /\ f > 0
      /\ \A n \in {f, Live!None} : n <= offered' /\ n \in Live!Images \cup {Live!None}
  BY <1>1, SessionIs DEF Live!None
<1>5. CASE live = "open"
  <2>1. /\ live' = "closed" /\ camera' = FALSE /\ cancelled' = TRUE /\ uploads' = <<>>
        /\ gateway' = "cancelled" /\ eye' = FALSE /\ worker' = "none" /\ restart' = restart
        /\ ends' = Live!With(Live!Superseded, f, "cancelled") /\ waiting' = Live!None
        /\ inFlight' = Live!None
        /\ image' = Live!Shut(inFlight)
    BY <1>5 DEF Live!ProcessBusy, Live!LiveCancelled
  <2>2. /\ ends' \in [Live!Images -> Seq(Endings)] /\ SessionCounted(ends', offered', waiting')
        /\ EndsStay
    BY <1>1, <1>2, <2>1, NextEnds
  <2>3. /\ uploads' \in Seq(Live!Images) /\ events' \in Seq(Live!Images)
        /\ ApiFits(known', events', uploads', ends')
    BY <1>3, <2>1, <2>2, NothingHeard
  <2>4. /\ image' \in [Live!Images -> {"none", "open", "closed", "twice"}]
        /\ \A g \in Live!Images : image'[g] \notin {"open", "twice"}
    BY <1>0, <1>1, <2>1, ImageEnds
  <2>5. ImagesFit(image', inFlight', stuck')
    <3>1. \A g \in Live!Images : g # Live!None
      BY SessionIs DEF Live!None
    <3> QED BY <2>1, <2>4, <3>1 DEF ImagesFit
  <2> QED
    BY <1>1, <1>3, <1>4, <2>1, <2>2, <2>3, <2>4, <2>5, SessionIs, SessionHas, SessionBuilt
<1>6. CASE live # "open"
  <2>1. /\ waiting' = f /\ ends' = Live!Superseded /\ live' = live /\ camera' = camera
        /\ gateway' = gateway
        /\ eye' = eye /\ worker' = worker /\ restart' = restart /\ inFlight' = inFlight
        /\ image' = image
        /\ cancelled' = cancelled /\ uploads' = uploads
    BY <1>6 DEF Live!ProcessBusy, Live!gate
  <2>2. /\ ends' \in [Live!Images -> Seq(Endings)] /\ SessionCounted(ends', offered', waiting')
        /\ EndsStay
    BY <1>1, <1>2, <2>1, NextEnds
  <2>3. /\ uploads' \in Seq(Live!Images) /\ events' \in Seq(Live!Images)
        /\ ApiFits(known', events', uploads', ends')
    BY <1>3, <2>1, <2>2, NothingHeard
  <2>4. /\ image' \in [Live!Images -> {"none", "open", "closed", "twice"}]
        /\ ImagesFit(image', inFlight', stuck')
    BY <1>1, <2>1, SessionHas
  <2>5. /\ inFlight' <= offered' /\ waiting' \in {Live!None, offered'}
        /\ waiting' \in Live!Images \cup {Live!None}
        /\ offered' \in Live!Images \cup {Live!None}
    <3>1. inFlight \in Nat /\ inFlight <= offered
      BY SessionIs, SessionHas DEF Live!None
    <3> QED BY <1>1, <2>1, <3>1, SessionIs
  <2> QED
    BY <1>1, <1>3, <2>1, <2>2, <2>3, <2>4, <2>5, SessionIs, SessionHas, SessionBuilt
<1> QED BY <1>5, <1>6

\* Nothing is left at work once the gateway has ended.
LEMMA EndedGives ==
  ASSUME SessionInv, ~stuck, stuck' = stuck, NEW state, NEW reason \in Endings, Live!Ended(state, reason)
  PROVE  /\ gateway' = state /\ worker' = "none" /\ restart' = restart
         /\ waiting' = Live!None /\ offered' = offered /\ inFlight' = Live!None
         /\ ends' \in [Live!Images -> Seq(Endings)] /\ SessionCounted(ends', offered', waiting')
         /\ EndsStay
         /\ image' \in [Live!Images -> {"none", "open", "closed", "twice"}]
         /\ ImagesFit(image', inFlight', stuck') /\ \A g \in Live!Images : image'[g] # "open"
         /\ inFlight' <= offered' /\ Live!None \in Live!Images \cup {Live!None}
<1>1. /\ gateway' = state /\ worker' = "none" /\ restart' = restart
      /\ waiting' = Live!None /\ ends' = Live!With(ends, waiting, reason) /\ offered' = offered
      /\ inFlight' = Live!None
      /\ image' = IF inFlight = Live!None THEN image ELSE Live!Shut(inFlight)
  BY DEF Live!Ended
<1>2. /\ ends' \in [Live!Images -> Seq(Endings)] /\ SessionCounted(ends', offered', waiting')
      /\ EndsStay
  BY <1>1, WaitingEnds
<1>3. /\ image' \in [Live!Images -> {"none", "open", "closed", "twice"}]
      /\ \A g \in Live!Images : image'[g] \notin {"open", "twice"}
  BY <1>1, ImageEnds
<1>4. ImagesFit(image', inFlight', stuck')
  <2>1. \A g \in Live!Images : g # Live!None
    BY SessionIs DEF Live!None
  <2> QED BY <1>1, <1>3, <2>1 DEF ImagesFit
<1>5. inFlight' <= offered'
  BY <1>1, SessionIs DEF Live!None
<1> QED BY <1>1, <1>2, <1>3, <1>4, <1>5

LEMMA DisconnectKeeps ==
  ASSUME SessionInv, Live!Disconnect
  PROVE  SessionInv'
<1>1. /\ session /\ ~stuck /\ live = "none" /\ live' = live /\ camera' = camera
      /\ session' = session
      /\ eye' = eye /\ uploads' = uploads /\ cancelled' = cancelled /\ closed' = closed
      /\ known' = known /\ events' = events /\ completed' = completed
      /\ stuck' = stuck /\ faults' = faults /\ Live!Ended("disconnected", "disconnected")
  BY DEF Live!Disconnect, Live!Started, Live!user, Live!runner, Live!api
<1>2. "disconnected" \in Endings
  BY DEF Endings
<1>3. /\ gateway' = "disconnected" /\ worker' = "none" /\ restart' = restart
      /\ waiting' = Live!None /\ offered' = offered /\ inFlight' = Live!None
      /\ ends' \in [Live!Images -> Seq(Endings)] /\ SessionCounted(ends', offered', waiting')
      /\ EndsStay
      /\ image' \in [Live!Images -> {"none", "open", "closed", "twice"}]
      /\ ImagesFit(image', inFlight', stuck') /\ \A g \in Live!Images : image'[g] # "open"
      /\ inFlight' <= offered' /\ Live!None \in Live!Images \cup {Live!None}
  BY <1>1, <1>2, EndedGives
<1>4. /\ uploads' \in Seq(Live!Images) /\ events' \in Seq(Live!Images)
      /\ ApiFits(known', events', uploads', ends')
  BY <1>1, <1>3, NothingHeard
<1> QED BY <1>1, <1>3, <1>4, SessionIs, SessionHas, SessionBuilt

LEMMA CancelKeeps ==
  ASSUME SessionInv, Live!Cancel
  PROVE  SessionInv'
<1>1. /\ session /\ ~stuck /\ live # "closed" /\ session' = session
      /\ eye' = FALSE /\ uploads' = <<>> /\ cancelled' = TRUE /\ closed' = closed
      /\ known' = known /\ events' = events /\ completed' = completed
      /\ stuck' = stuck /\ faults' = faults /\ Live!Ended("cancelled", "cancelled")
  BY DEF Live!Cancel, Live!Started, Live!api
<1>2. "cancelled" \in Endings
  BY DEF Endings
<1>3. /\ gateway' = "cancelled" /\ worker' = "none" /\ restart' = restart
      /\ waiting' = Live!None /\ offered' = offered /\ inFlight' = Live!None
      /\ ends' \in [Live!Images -> Seq(Endings)] /\ SessionCounted(ends', offered', waiting')
      /\ EndsStay
      /\ image' \in [Live!Images -> {"none", "open", "closed", "twice"}]
      /\ ImagesFit(image', inFlight', stuck') /\ \A g \in Live!Images : image'[g] # "open"
      /\ inFlight' <= offered' /\ Live!None \in Live!Images \cup {Live!None}
  BY <1>1, <1>2, EndedGives
<1>4. /\ uploads' \in Seq(Live!Images) /\ events' \in Seq(Live!Images)
      /\ ApiFits(known', events', uploads', ends')
  BY <1>1, <1>3, NothingHeard
<1>5. /\ live' \in {"none", "new", "open", "closed"} /\ camera' \in BOOLEAN
      /\ (camera' <=> live' = "open")
  BY SessionIs, SessionHas DEF Live!Cancel
<1> QED BY <1>1, <1>3, <1>4, <1>5, SessionIs, SessionHas, SessionBuilt

LEMMA CameraReconnectKeeps ==
  ASSUME SessionInv, Live!Reconnect \/ Live!RestartWorker
  PROVE  SessionInv'
<1>1. /\ session /\ ~stuck /\ live = "none" /\ live' = live /\ camera' = camera
      /\ session' = session
      /\ eye' = eye /\ offered' = offered /\ waiting' = waiting /\ inFlight' = inFlight
      /\ image' = image /\ ends' = ends /\ uploads' = uploads /\ cancelled' = cancelled
      /\ closed' = closed
      /\ known' = known /\ events' = events /\ completed' = completed /\ faults' = faults
  BY DEF Live!Reconnect, Live!RestartWorker, Live!Started, Live!Connected, Live!user, Live!frames,
         Live!runner, Live!api
<1>2. /\ gateway' = "connected" /\ worker' \in {"idle", "started"}
      /\ restart' \in BOOLEAN /\ stuck' \in BOOLEAN
  <2>1. CASE Live!Reconnect
    BY <2>1, SessionIs DEF Live!Reconnect, Live!Connected, Live!Fresh
  <2>2. CASE Live!RestartWorker
    <3>1. gateway' = gateway /\ gateway = "connected"
      BY <2>2 DEF Live!RestartWorker
    <3>2. worker \in {"idle", "started"}
      BY <3>1, SessionIs, SessionHas
    <3>3. CASE inFlight = Live!None
      BY <2>2, <3>1, <3>3, SessionIs DEF Live!RestartWorker
    <3>4. CASE inFlight # Live!None
      BY <2>2, <3>1, <3>2, <3>4, SessionIs DEF Live!RestartWorker
    <3> QED BY <3>3, <3>4
  <2> QED BY <2>1, <2>2
<1>3. ApiFits(known', events', uploads', ends') /\ SessionCounted(ends', offered', waiting')
  BY <1>1, SessionHas
<1>4. ImagesFit(image', inFlight', stuck')
  BY <1>1, SessionHas DEF ImagesFit
<1> QED BY <1>1, <1>2, <1>3, <1>4, SessionIs, SessionHas, SessionBuilt

LEMMA AdapterEndsKeeps ==
  ASSUME SessionInv, Live!AdapterEnds
  PROVE  SessionInv'
<1>1. /\ session' = session /\ live' = live /\ camera' = camera /\ gateway' = gateway
      /\ worker' = worker
      /\ eye' = eye /\ restart' = restart /\ offered' = offered /\ waiting' = waiting
      /\ ends' = ends
      /\ uploads' = uploads /\ cancelled' = cancelled /\ closed' = closed
      /\ known' = known /\ events' = events /\ completed' = completed /\ stuck' = stuck
      /\ faults' = faults
  BY DEF Live!AdapterEnds, Live!user, Live!gate, Live!runner, Live!api
<1>2. /\ inFlight \in Live!Images /\ inFlight # Live!None /\ image[inFlight] = "open"
      /\ image' = Live!Shut(inFlight)
      /\ inFlight' = IF stuck THEN inFlight ELSE Live!None
  BY SessionIs DEF Live!AdapterEnds
<1>3. image' = [image EXCEPT ![inFlight] = "closed"]
  BY <1>2 DEF Live!Shut
<1>4. /\ image' \in [Live!Images -> {"none", "open", "closed", "twice"}]
      /\ \A g \in Live!Images : image'[g] \notin {"open", "twice"}
  BY <1>2, <1>3, SessionHas DEF ImagesFit
<1>5. inFlight' \in {inFlight, Live!None} /\ (inFlight' # Live!None => stuck)
  BY <1>2
<1>6. ImagesFit(image', inFlight', stuck')
  <2>1. \A g \in Live!Images : g # Live!None
    BY SessionIs DEF Live!None
  <2> QED BY <1>1, <1>4, <1>5, <2>1 DEF ImagesFit
<1>7. ApiFits(known', events', uploads', ends') /\ SessionCounted(ends', offered', waiting')
  BY <1>1, SessionHas
<1>8. inFlight' <= offered' /\ inFlight' \in Live!Images \cup {Live!None}
  BY <1>1, <1>5, SessionIs, SessionHas DEF Live!None
<1>9. ~session' \/ live' = "closed" =>
        /\ worker' = "none" /\ waiting' = Live!None /\ inFlight' = Live!None
        /\ \A f \in Live!Images : image'[f] # "open"
  BY <1>1, <1>2, SessionHas
<1> QED BY <1>1, <1>4, <1>6, <1>7, <1>8, <1>9, SessionIs, SessionHas, SessionBuilt

LEMMA RetryKeeps ==
  ASSUME SessionInv, NEW id, Live!Retry(id)
  PROVE  SessionInv'
<1>1. /\ session' = session /\ live' = live /\ camera' = camera /\ gateway' = gateway
      /\ worker' = worker
      /\ eye' = eye /\ restart' = restart /\ offered' = offered /\ waiting' = waiting
      /\ ends' = ends
      /\ inFlight' = inFlight /\ image' = image
      /\ uploads' = uploads /\ cancelled' = cancelled /\ closed' = closed /\ stuck' = stuck
      /\ uploads # <<>>
  BY DEF Live!Retry, Live!user, Live!gate, Live!frames, Live!runner
<1>2. PICK f : /\ f = uploads[Len(uploads)]
               /\ Live!Ingested(<<f, id>>, f) \/ Live!IngestFails(<<f, id>>, f)
  BY DEF Live!Retry
<1>3. uploads \in Seq(Live!Images) /\ Len(uploads) \in DOMAIN uploads
  BY <1>1, SessionHas, EmptySeq
<1>4. f \in Live!Images /\ \E i \in DOMAIN events : events[i] = f
  BY <1>2, <1>3, SessionHas DEF ApiFits
<1>5. ends[f] = <<"observed">>
  BY <1>4, SessionHas DEF ApiFits
<1>6. EndsStay
  BY <1>1, NothingEnds
<1>7. <<f, id>>[1] = f /\ uploads' # Append(uploads, f)
  <2>1. Len(Append(uploads, f)) = Len(uploads) + 1 /\ Len(uploads) \in Nat
    BY <1>3, <1>4
  <2>2. uploads # Append(uploads, f)
    BY <2>1
  <2> QED BY <1>1, <2>2
<1>8. /\ uploads' \in Seq(Live!Images) /\ events' \in Seq(Live!Images)
      /\ ApiFits(known', events', uploads', ends')
      /\ completed' = completed /\ faults' \in 0..MaxFaults
  <2>1. uploads' \in {uploads, Append(uploads, f), <<>>} /\ ends'[f] = <<"observed">>
    BY <1>1, <1>5
  <2> QED BY <1>2, <1>4, <1>6, <1>7, <2>1, IngestGives
<1>9. ImagesFit(image', inFlight', stuck') /\ SessionCounted(ends', offered', waiting')
  BY <1>1, SessionHas
<1> QED BY <1>1, <1>8, <1>9, SessionIs, SessionHas, SessionBuilt

\* The frame that waits is later than all the API has heard of.
LEMMA WaitingIsLast ==
  ASSUME SessionInv, waiting # Live!None
  PROVE  /\ waiting \in Live!Images /\ waiting = offered
         /\ \A i \in DOMAIN events : events[i] < waiting
<1>1. waiting \in Live!Images /\ waiting = offered
  BY SessionIs, SessionHas
<1>2. ASSUME NEW i \in DOMAIN events PROVE events[i] < waiting
  <2>1. PICK e \in Live!Images : e = events[i]
    BY EventIs
  <2>2. e <= offered /\ e # waiting /\ e \in Nat /\ offered \in Nat
    BY <2>1, EventIs, SessionIs
  <2> QED BY <1>1, <2>1, <2>2
<1> QED BY <1>1, <1>2

LEMMA CompletedGives ==
  ASSUME SessionInv, Live!Completed
  PROVE  completed' \in BOOLEAN /\ closed' \in BOOLEAN /\ faults' \in 0..MaxFaults
<1>1. CASE ~completed /\ completed' = TRUE /\ closed' = TRUE /\ UNCHANGED faults
  BY <1>1, SessionIs
<1>2. CASE completed /\ UNCHANGED <<completed, closed, faults>>
  BY <1>2, SessionIs
<1>3. CASE Live!Fault /\ UNCHANGED closed /\ completed' \in {completed, TRUE}
  <2>1. completed' \in BOOLEAN
    BY <1>3, SessionIs, Zenon
  <2> QED BY <1>3, <2>1, AfterFault, SessionIs
<1> QED BY <1>1, <1>2, <1>3 DEF Live!Completed

LEMMA CloseKeeps ==
  ASSUME SessionInv, Live!Close
  PROVE  SessionInv'
<1>1. /\ session /\ ~stuck /\ live # "closed" /\ session' = session
      /\ eye' = FALSE /\ cancelled' = cancelled /\ stuck' = stuck
  BY DEF Live!Close, Live!Running, Live!Started
<1>2. completed' \in BOOLEAN /\ closed' \in BOOLEAN /\ faults' \in 0..MaxFaults
  BY CompletedGives DEF Live!Close
<1>3. /\ live' \in {"none", "new", "open", "closed"} /\ camera' \in BOOLEAN
      /\ (camera' <=> live' = "open")
  BY SessionIs, SessionHas DEF Live!Close
<1>4. CASE Live!TakesWaiting
  <2>1. /\ Live!Known(<<waiting, "first">>, waiting) /\ ends' = Live!With(ends, waiting, "observed")
        /\ Live!Imaged(waiting, "observed") /\ uploads' = Append(uploads, waiting)
        /\ waiting' = Live!None
        /\ gateway' = "closed" /\ worker' = "none" /\ restart' = FALSE /\ offered' = offered
    BY <1>4 DEF Live!Close
  <2>2. inFlight = Live!None /\ waiting # Live!None
    BY <1>4 DEF Live!TakesWaiting
  <2>3. waiting \in Live!Images /\ waiting = offered /\ \A i \in DOMAIN events : events[i] < waiting
    BY <2>2, WaitingIsLast
  <2>4. "observed" \in Endings
    BY DEF Endings
  <2>5. /\ ends' \in [Live!Images -> Seq(Endings)] /\ SessionCounted(ends', offered', waiting')
        /\ EndsStay
        /\ ends'[waiting] = <<"observed">>
    BY <2>1, <2>3, <2>4, WaitingEnds
  <2>6. /\ uploads' \in Seq(Live!Images) /\ events' \in Seq(Live!Images)
        /\ ApiFits(known', events', uploads', ends')
    <3>1. /\ <<waiting, "first">>[1] = waiting
          /\ uploads' \in {uploads, Append(uploads, waiting), <<>>}
      BY <2>1
    <3> QED BY <2>1, <2>3, <2>5, <3>1, FrameHeard
  <2>7. /\ image' \in [Live!Images -> {"none", "open", "closed", "twice"}]
        /\ ImagesFit(image', inFlight', stuck')
    BY <1>1, <2>1, <2>2, <2>3, ImageBegins
  <2>8. inFlight' = Live!None /\ inFlight' <= offered'
    BY <2>1, SessionIs DEF Live!Imaged, Live!None
  <2>9. \A g \in Live!Images : image'[g] # "open"
    <3>1. \A g \in Live!Images : g # Live!None
      BY SessionIs DEF Live!None
    <3> QED BY <2>7, <2>8, <3>1 DEF ImagesFit
  <2> QED
    BY <1>1, <1>2, <1>3, <2>1, <2>5, <2>6, <2>7, <2>8, <2>9, SessionIs, SessionHas, SessionBuilt
<1>5. CASE ~Live!TakesWaiting
  <2>1. /\ Live!Ended("closed", "cancelled") /\ known' = known /\ events' = events
        /\ uploads' = uploads
    BY <1>5 DEF Live!Close
  <2>2. "cancelled" \in Endings
    BY DEF Endings
  <2>3. /\ gateway' = "closed" /\ worker' = "none" /\ restart' = restart
        /\ waiting' = Live!None /\ offered' = offered /\ inFlight' = Live!None
        /\ ends' \in [Live!Images -> Seq(Endings)] /\ SessionCounted(ends', offered', waiting')
        /\ EndsStay
        /\ image' \in [Live!Images -> {"none", "open", "closed", "twice"}]
        /\ ImagesFit(image', inFlight', stuck') /\ \A g \in Live!Images : image'[g] # "open"
        /\ inFlight' <= offered' /\ Live!None \in Live!Images \cup {Live!None}
    BY <1>1, <2>1, <2>2, EndedGives
  <2>4. /\ uploads' \in Seq(Live!Images) /\ events' \in Seq(Live!Images)
        /\ ApiFits(known', events', uploads', ends')
    BY <2>1, <2>3, NothingHeard
  <2> QED BY <1>1, <1>2, <1>3, <2>1, <2>3, <2>4, SessionIs, SessionHas, SessionBuilt
<1> QED BY <1>4, <1>5

LEMMA CloseFailsKeeps ==
  ASSUME SessionInv, Live!CloseFails
  PROVE  SessionInv'
<1>1. /\ session /\ ~stuck /\ live # "closed" /\ live' = live /\ camera' = camera
      /\ session' = session
      /\ offered' = offered /\ uploads' = uploads /\ cancelled' = cancelled /\ closed' = closed
      /\ stuck' = stuck /\ waiting' = Live!None /\ ends' = Live!With(ends, waiting, "observed")
      /\ Live!IngestFails(<<waiting, "first">>, waiting)
  BY DEF Live!CloseFails, Live!Running, Live!Started, Live!user, Live!runner
<1>2. gateway = "connected" /\ inFlight = Live!None /\ waiting # Live!None
  BY DEF Live!CloseFails, Live!TakesWaiting
<1>3. PICK outcome : Live!Dispatched(waiting, outcome)
  BY DEF Live!CloseFails
<1>4. /\ gateway' = "connected" /\ eye' = eye /\ worker' \in {"idle", "started"}
      /\ restart' \in BOOLEAN /\ Live!Imaged(waiting, outcome)
  BY <1>2, <1>3, DispatchGives
<1>5. waiting \in Live!Images /\ waiting = offered /\ \A i \in DOMAIN events : events[i] < waiting
  BY <1>2, WaitingIsLast
<1>6. "observed" \in Endings
  BY DEF Endings
<1>7. /\ ends' \in [Live!Images -> Seq(Endings)] /\ SessionCounted(ends', offered', waiting')
      /\ EndsStay
      /\ ends'[waiting] = <<"observed">>
  BY <1>1, <1>5, <1>6, WaitingEnds
<1>8. /\ uploads' \in Seq(Live!Images) /\ events' \in Seq(Live!Images)
      /\ ApiFits(known', events', uploads', ends')
      /\ completed' = completed /\ faults' \in 0..MaxFaults
  <2>1. Len(Append(uploads, waiting)) = Len(uploads) + 1 /\ Len(uploads) \in Nat
    BY <1>5, SessionHas
  <2>2. uploads # Append(uploads, waiting)
    BY <2>1
  <2>3. /\ <<waiting, "first">>[1] = waiting
        /\ uploads' \in {uploads, Append(uploads, waiting), <<>>}
        /\ uploads' # Append(uploads, waiting)
    BY <1>1, <2>2
  <2> QED BY <1>1, <1>5, <1>7, <2>3, IngestGives
<1>9. /\ image' \in [Live!Images -> {"none", "open", "closed", "twice"}]
      /\ ImagesFit(image', inFlight', stuck') /\ inFlight' \in {waiting, Live!None}
  BY <1>1, <1>2, <1>4, <1>5, ImageBegins
<1>10. inFlight' <= offered' /\ inFlight' \in Live!Images \cup {Live!None}
  BY <1>1, <1>5, <1>9, SessionIs DEF Live!None
<1> QED
  BY <1>1, <1>2, <1>4, <1>5, <1>7, <1>8, <1>9, <1>10, SessionIs, SessionHas, SessionBuilt

LEMMA SessionStays ==
  ASSUME SessionInv, UNCHANGED Live!sessionVars
  PROVE  SessionInv'
<1>1. /\ session' = session /\ live' = live /\ camera' = camera /\ gateway' = gateway
      /\ worker' = worker
      /\ eye' = eye /\ restart' = restart /\ offered' = offered /\ waiting' = waiting
      /\ ends' = ends
      /\ inFlight' = inFlight /\ image' = image
      /\ uploads' = uploads /\ cancelled' = cancelled /\ closed' = closed /\ stuck' = stuck
      /\ known' = known /\ events' = events /\ completed' = completed /\ faults' = faults
  BY DEF Live!sessionVars, Live!user, Live!gate, Live!frames, Live!runner, Live!api
<1>2. /\ ApiFits(known', events', uploads', ends') /\ ImagesFit(image', inFlight', stuck')
      /\ SessionCounted(ends', offered', waiting')
  BY <1>1, SessionHas
<1> QED BY <1>1, <1>2, SessionIs, SessionHas, SessionBuilt

LEMMA SessionStep ==
  ASSUME SessionInv, Live!SessionNext \/ UNCHANGED Live!sessionVars
  PROVE  SessionInv'
<1>1. ASSUME NEW f \in Live!Images, Live!Process(f) \/ Live!ProcessFails(f) \/ Live!ProcessBusy(f) PROVE SessionInv'
  BY <1>1, ProcessKeeps, ProcessFailsKeeps, ProcessBusyKeeps
<1>2. ASSUME NEW id, Live!Retry(id) PROVE SessionInv'
  BY <1>2, RetryKeeps
<1>3. ASSUME Live!Start \/ Live!CameraFails \/ Live!StartFails PROVE SessionInv'
  BY <1>3, StartKeeps, StartFailsKeeps
<1>4. ASSUME Live!AdapterEnds \/ Live!Disconnect \/ Live!Reconnect \/ Live!RestartWorker \/ Live!Cancel \/ Live!Close \/ Live!CloseFails
      PROVE  SessionInv'
  BY <1>4, AdapterEndsKeeps, DisconnectKeeps, CameraReconnectKeeps, CancelKeeps, CloseKeeps,
     CloseFailsKeeps
<1> QED BY <1>1, <1>2, <1>3, <1>4, SessionStays DEF Live!SessionNext

-----------------------------------------------------------------------------
(* What the player and the app keep *)

Shown == [seq : Nat, at : Nat, video : 0..Length, epoch : Nat, seeks : Nat]
Results == [seq : Nat, at : Nat, video : 0..Length, epoch : Nat, seeks : Nat,
            gaze : {"point", "no_face", "not_observed"}]

\* A later frame was seen later, in the same epoch at no earlier position.
Follows(a, b) ==
  /\ a.at <= b.at /\ a.epoch <= b.epoch
  /\ a.epoch = b.epoch => a.video <= b.video

\* A frame and the player as it is now.
SoFar(f) ==
  /\ f.seeks = f.epoch /\ f.seq < next
  /\ f.at <= clock /\ f.epoch <= epoch
  /\ f.epoch = epoch => f.video <= video

PlayerTypes ==
  /\ clock \in Nat /\ video \in 0..Length /\ epoch \in Nat /\ seeks = epoch /\ next \in Nat
  /\ shot \in Shown \cup {Kiosk!Nothing}
  /\ samples \in Seq(Results) /\ missing \in Seq(Results)

ShotInv ==
  shot # Kiosk!Nothing => SoFar(shot) /\ \A f \in Kiosk!Collected : f.seq < shot.seq /\ Follows(f, shot)

ResultsInv ==
  /\ \A f \in Kiosk!Collected : SoFar(f)
  /\ \A a, b \in Kiosk!Collected : (a.seq < b.seq => Follows(a, b)) /\ (a.seq = b.seq => a = b)

PlayerInv == PlayerTypes /\ ShotInv /\ ResultsInv

LEMMA PlayerIs ==
  ASSUME PlayerInv
  PROVE  /\ clock \in Nat /\ video \in Nat /\ video <= Length /\ Length \in Nat
         /\ epoch \in Nat /\ seeks = epoch /\ next \in Nat
         /\ samples \in Seq(Results) /\ missing \in Seq(Results)
         /\ shot # Kiosk!Nothing => shot \in Shown
         /\ \A f \in Kiosk!Collected : f \in Results
         /\ \A f \in Shown : f # Kiosk!Nothing
<1>1. PlayerTypes /\ Kiosk!BatchingAssumption
  BY ObservationsAssumption DEF PlayerInv
<1>2. /\ clock \in Nat /\ video \in Nat /\ video <= Length /\ Length \in Nat
      /\ epoch \in Nat /\ seeks = epoch /\ next \in Nat
      /\ samples \in Seq(Results) /\ missing \in Seq(Results)
      /\ shot # Kiosk!Nothing => shot \in Shown
  BY <1>1 DEF PlayerTypes, Kiosk!BatchingAssumption
<1>3. \A f \in Kiosk!Collected : f \in Results
  BY <1>2 DEF Kiosk!Collected, Kiosk!ToSet
<1>4. ASSUME NEW f \in Shown PROVE f # Kiosk!Nothing
  <2>1. f.seq \in Nat
    BY DEF Shown
  <2>2. Kiosk!Nothing.seq = -1
    BY DEF Kiosk!Nothing
  <2> QED BY <2>1, <2>2
<1> QED BY <1>2, <1>3, <1>4

LEMMA PlayerBegins ==
  ASSUME Kiosk!Init
  PROVE  PlayerInv
<1>1. Kiosk!Collected = {}
  BY DEF Kiosk!Init, Kiosk!Collected, Kiosk!ToSet
<1>2. Length \in Nat
  BY ObservationsAssumption DEF Kiosk!BatchingAssumption
<1>3. PlayerTypes
  BY <1>2 DEF Kiosk!Init, PlayerTypes
<1> QED BY <1>1, <1>3 DEF Kiosk!Init, PlayerInv, ShotInv, ResultsInv

\* The results stay as they are and the player goes on.
LEMMA PlayerGoesOn ==
  ASSUME PlayerInv, samples' = samples, missing' = missing, shot' \in {shot, Kiosk!Nothing},
         clock' \in Nat, clock <= clock', video' \in 0..Length, epoch' \in Nat, epoch <= epoch',
         epoch' = epoch => video <= video', seeks' = epoch', next' \in Nat, next <= next'
  PROVE  PlayerInv'
<1>1. Kiosk!Collected' = Kiosk!Collected
  BY DEF Kiosk!Collected
<1>2. PlayerTypes'
  BY DEF PlayerTypes, PlayerInv
<1>3. ASSUME NEW f, f \in Shown \cup Results, SoFar(f) PROVE SoFar(f)'
  <2>1. f.epoch \in Nat /\ f.seq \in Nat /\ f.at \in Nat /\ f.video \in Nat
    <3>1. Length \in Nat
      BY PlayerIs
    <3> QED BY <1>3, <3>1 DEF Shown, Results
  <2>2. video' \in Nat
    BY PlayerIs
  <2> QED BY <1>3, <2>1, <2>2, PlayerIs DEF SoFar
<1>4. ResultsInv'
  BY <1>1, <1>3, PlayerIs DEF ResultsInv, PlayerInv
<1>5. ShotInv'
  <2>1. CASE shot' = Kiosk!Nothing
    BY <2>1 DEF ShotInv
  <2>2. CASE shot' = shot /\ shot # Kiosk!Nothing
    <3>1. SoFar(shot) /\ \A f \in Kiosk!Collected : f.seq < shot.seq /\ Follows(f, shot)
      BY <2>2 DEF PlayerInv, ShotInv
    <3>2. PICK s : s = shot
      OBVIOUS
    <3>3. SoFar(s)'
      BY <1>3, <2>2, <3>1, <3>2, PlayerIs
    <3>4. SoFar(shot)'
      BY <2>2, <3>2, <3>3 DEF SoFar
    <3>5. \A f \in Kiosk!Collected : f.seq < shot'.seq /\ Follows(f, shot)'
      BY <2>2, <3>1 DEF Follows
    <3> QED BY <1>1, <3>4, <3>5 DEF ShotInv
  <2> QED BY <2>1, <2>2
<1> QED BY <1>2, <1>4, <1>5 DEF PlayerInv

LEMMA ToSetGrows ==
  ASSUME NEW S, NEW q \in Seq(S), NEW x
  PROVE  Kiosk!ToSet(Append(q, x)) = Kiosk!ToSet(q) \cup {x}
<1>1. /\ DOMAIN Append(q, x) = 1..(Len(q) + 1) /\ DOMAIN q = 1..Len(q) /\ Len(q) \in Nat
      /\ \A i \in 1..Len(q) : Append(q, x)[i] = q[i]
      /\ Append(q, x)[Len(q) + 1] = x
  BY AppendProperties
<1>2. 1..(Len(q) + 1) = 1..Len(q) \cup {Len(q) + 1}
  BY <1>1
<1> QED BY <1>1, <1>2 DEF Kiosk!ToSet

\* A result comes in, of the frame at work.
LEMMA ResultComes ==
  ASSUME PlayerInv, shot # Kiosk!Nothing, shot' = Kiosk!Nothing, NEW g \in {"point", "no_face", "not_observed"},
         \/ samples' = Append(samples, Kiosk!With(g)) /\ missing' = missing
         \/ missing' = Append(missing, Kiosk!With(g)) /\ samples' = samples,
         UNCHANGED <<clock, video, epoch, next, seeks>>
  PROVE  PlayerInv'
<1> DEFINE w == Kiosk!With(g)
<1>1. shot \in Shown
  BY PlayerIs
<1>2. /\ w \in Results /\ w.seq = shot.seq /\ w.at = shot.at /\ w.video = shot.video
      /\ w.epoch = shot.epoch /\ w.seeks = shot.seeks
  BY <1>1 DEF Kiosk!With, Shown, Results
<1>3. SoFar(shot) /\ \A f \in Kiosk!Collected : f.seq < shot.seq /\ Follows(f, shot)
  BY DEF PlayerInv, ShotInv
<1>4. SoFar(w) /\ \A f \in Kiosk!Collected : f.seq < w.seq /\ Follows(f, w)
  BY <1>2, <1>3 DEF SoFar, Follows
<1>5. Kiosk!Collected' = Kiosk!Collected \cup {w}
  <2>1. samples \in Seq(Results) /\ missing \in Seq(Results)
    BY PlayerIs
  <2>2. /\ Kiosk!ToSet(Append(samples, w)) = Kiosk!ToSet(samples) \cup {w}
        /\ Kiosk!ToSet(Append(missing, w)) = Kiosk!ToSet(missing) \cup {w}
    BY <2>1, ToSetGrows
  <2>3. CASE samples' = Append(samples, w) /\ missing' = missing
    <3>1. /\ Kiosk!ToSet(samples') = Kiosk!ToSet(samples) \cup {w}
          /\ Kiosk!ToSet(missing') = Kiosk!ToSet(missing)
      BY <2>2, <2>3
    <3>2. Kiosk!Collected' = Kiosk!ToSet(samples') \cup Kiosk!ToSet(missing')
      BY DEF Kiosk!Collected, Kiosk!ToSet
    <3> QED BY <3>1, <3>2 DEF Kiosk!Collected
  <2>4. CASE missing' = Append(missing, w) /\ samples' = samples
    <3>1. /\ Kiosk!ToSet(missing') = Kiosk!ToSet(missing) \cup {w}
          /\ Kiosk!ToSet(samples') = Kiosk!ToSet(samples)
      BY <2>2, <2>4
    <3>2. Kiosk!Collected' = Kiosk!ToSet(samples') \cup Kiosk!ToSet(missing')
      BY DEF Kiosk!Collected, Kiosk!ToSet
    <3> QED BY <3>1, <3>2 DEF Kiosk!Collected
  <2> QED BY <2>3, <2>4
<1>6. \A f \in Kiosk!Collected \cup {w} : f \in Results /\ f.seq \in Nat
  BY <1>2, PlayerIs DEF Results
<1>7. ResultsInv'
  <2>1. \A f \in Kiosk!Collected \cup {w} : SoFar(f)
    BY <1>4 DEF PlayerInv, ResultsInv
  <2>2. \A f : SoFar(f) => SoFar(f)'
    BY DEF SoFar
  <2>3. \A a, b \in Kiosk!Collected : (a.seq < b.seq => Follows(a, b)) /\ (a.seq = b.seq => a = b)
    BY DEF PlayerInv, ResultsInv
  <2>4. ASSUME NEW a \in Kiosk!Collected \cup {w}, NEW b \in Kiosk!Collected \cup {w}
        PROVE  (a.seq < b.seq => Follows(a, b)) /\ (a.seq = b.seq => a = b)
    <3>1. a.seq \in Nat /\ b.seq \in Nat /\ w.seq \in Nat
      BY <1>6
    <3>2. CASE a \in Kiosk!Collected /\ b \in Kiosk!Collected
      BY <2>3, <3>2
    <3>3. CASE a = w /\ b \in Kiosk!Collected
      BY <1>4, <3>1, <3>3
    <3>4. CASE a \in Kiosk!Collected /\ b = w
      BY <1>4, <3>1, <3>4
    <3>5. CASE a = w /\ b = w
      BY <3>1, <3>5
    <3> QED BY <3>2, <3>3, <3>4, <3>5
  <2>5. \A a, b : Follows(a, b)' <=> Follows(a, b)
    BY DEF Follows
  <2>6. \A f \in Kiosk!Collected' : SoFar(f)'
    BY <1>5, <2>1, <2>2
  <2>7. \A a, b \in Kiosk!Collected' : (a.seq < b.seq => Follows(a, b)) /\ (a.seq = b.seq => a = b)
    BY <1>5, <2>4
  <2> QED BY <2>6, <2>7 DEF ResultsInv, Follows
<1>8. PlayerTypes'
  <2>1. samples' \in Seq(Results) /\ missing' \in Seq(Results)
    BY <1>2, PlayerIs, AppendProperties
  <2> QED BY <2>1 DEF PlayerInv, PlayerTypes
<1> QED BY <1>7, <1>8 DEF PlayerInv, ShotInv

LEMMA CaptureKeeps ==
  ASSUME PlayerInv, Kiosk!Capture
  PROVE  PlayerInv'
<1>1. /\ next' = next + 1 /\ clock' = clock /\ video' = video /\ epoch' = epoch /\ seeks' = seeks
      /\ samples' = samples /\ missing' = missing
  BY DEF Kiosk!Capture, Kiosk!results
<1>2. CASE shot # Kiosk!Nothing
  <2>1. shot' = shot
    BY <1>2 DEF Kiosk!Capture
  <2> QED BY <1>1, <2>1, PlayerIs, PlayerGoesOn DEF PlayerInv, PlayerTypes
<1>3. CASE shot = Kiosk!Nothing
  <2>1. PICK c : /\ shot' = c
                 /\ c = [seq |-> next, at |-> clock, video |-> video, epoch |-> epoch, seeks |-> seeks]
    BY <1>3 DEF Kiosk!Capture, Kiosk!Context
  <2>2. c \in Shown
    BY <2>1 DEF Shown, PlayerInv, PlayerTypes
  <2>3. Kiosk!Collected' = Kiosk!Collected
    BY <1>1 DEF Kiosk!Collected
  <2>4. ASSUME NEW f \in Kiosk!Collected PROVE f.seq < c.seq /\ Follows(f, c) /\ SoFar(f)'
    <3>1. f \in Results /\ SoFar(f)
      BY PlayerIs DEF PlayerInv, ResultsInv
    <3>2. f.seq \in Nat
      BY <3>1 DEF Results
    <3> QED BY <1>1, <2>1, <3>1, <3>2, PlayerIs DEF SoFar, Follows
  <2>5. SoFar(c)'
    BY <1>1, <2>1, PlayerIs DEF SoFar
  <2>6. ShotInv'
    <3>1. SoFar(shot)'
      BY <2>1, <2>5 DEF SoFar
    <3>2. \A f \in Kiosk!Collected' : f.seq < shot'.seq /\ Follows(f, shot')
      BY <2>1, <2>3, <2>4
    <3>3. (\A f \in Kiosk!Collected : f.seq < shot.seq /\ Follows(f, shot))'
      BY <3>2 DEF Follows
    <3> QED BY <3>1, <3>3 DEF ShotInv
  <2>7. ResultsInv'
    <3>1. \A a, b \in Kiosk!Collected : (a.seq < b.seq => Follows(a, b)) /\ (a.seq = b.seq => a = b)
      BY DEF PlayerInv, ResultsInv
    <3> QED BY <2>3, <2>4, <3>1 DEF ResultsInv, Follows
  <2>8. PlayerTypes'
    BY <1>1, <2>1, <2>2 DEF PlayerInv, PlayerTypes
  <2> QED BY <2>6, <2>7, <2>8 DEF PlayerInv
<1> QED BY <1>2, <1>3

LEMMA WatchKeeps ==
  ASSUME PlayerInv, Kiosk!Watch
  PROVE  PlayerInv'
<1>0. /\ clock \in Nat /\ video \in Nat /\ video <= Length /\ Length \in Nat
      /\ epoch \in Nat /\ seeks = epoch /\ next \in Nat
  BY PlayerIs
<1>1. ASSUME NEW d \in 1..2, Kiosk!TimePasses(d) PROVE PlayerInv'
  <2>1. /\ samples' = samples /\ missing' = missing /\ shot' = shot /\ clock' = clock + d
        /\ epoch' = epoch /\ seeks' = seeks /\ next' = next
    BY <1>1 DEF Kiosk!TimePasses, Kiosk!results
  <2>2. video' \in 0..Length /\ video <= video'
    BY <1>0, <1>1 DEF Kiosk!TimePasses, Kiosk!Least
  <2> QED BY <1>0, <2>1, <2>2, PlayerGoesOn
<1>2. ASSUME Kiosk!Pause \/ Kiosk!Fails \/ Kiosk!Ended PROVE PlayerInv'
  <2>1. /\ samples' = samples /\ missing' = missing /\ shot' \in {shot, Kiosk!Nothing}
        /\ clock' = clock
        /\ video' = video /\ epoch' = epoch /\ seeks' = seeks /\ next' = next
    BY <1>2 DEF Kiosk!Pause, Kiosk!Fails, Kiosk!Ended, Kiosk!AtWork, Kiosk!results
  <2> QED BY <1>0, <2>1, PlayerGoesOn
<1>3. ASSUME Kiosk!Play PROVE PlayerInv'
  <2>1. samples' = samples /\ missing' = missing /\ shot' = shot /\ clock' = clock /\ next' = next
    BY <1>3 DEF Kiosk!Play, Kiosk!results
  <2>2. /\ epoch' \in Nat /\ epoch <= epoch' /\ seeks' = epoch' /\ video' \in 0..Length
        /\ epoch' = epoch => video <= video'
    BY <1>0, <1>3 DEF Kiosk!Play
  <2> QED BY <1>0, <2>1, <2>2, PlayerGoesOn
<1>4. ASSUME NEW t \in 0..Length, Kiosk!Seek(t) PROVE PlayerInv'
  <2>1. /\ samples' = samples /\ missing' = missing /\ shot' = shot /\ clock' = clock
        /\ next' = next
        /\ epoch' = epoch + 1 /\ video' = t /\ seeks' = seeks + 1
    BY <1>4 DEF Kiosk!Seek, Kiosk!results
  <2> QED BY <1>0, <2>1, PlayerGoesOn
<1>5. ASSUME NEW r \in {"point", "no_face"}, Kiosk!Heard(r) PROVE PlayerInv'
  <2>1. /\ shot # Kiosk!Nothing /\ shot' = Kiosk!Nothing
        /\ samples' = Append(samples, Kiosk!With(r)) /\ missing' = missing
        /\ UNCHANGED <<clock, video, epoch, next, seeks>>
    BY <1>5 DEF Kiosk!Heard, Kiosk!AtWork
  <2> QED BY <2>1, ResultComes
<1>6. ASSUME Kiosk!NotHeard PROVE PlayerInv'
  <2>1. /\ shot # Kiosk!Nothing /\ shot' = Kiosk!Nothing /\ samples' = samples
        /\ missing' = Append(missing, Kiosk!With("not_observed"))
        /\ UNCHANGED <<clock, video, epoch, next, seeks>>
    BY <1>6 DEF Kiosk!NotHeard, Kiosk!AtWork
  <2> QED BY <2>1, ResultComes
<1>7. ASSUME Kiosk!Build PROVE PlayerInv'
  <2>1. /\ samples' = samples /\ missing' = missing /\ shot' = Kiosk!Nothing /\ clock' = clock
        /\ video' = video /\ epoch' = epoch /\ seeks' = seeks /\ next' = next
    BY <1>7 DEF Kiosk!Build, Kiosk!results
  <2> QED BY <1>0, <2>1, PlayerGoesOn
<1> QED BY <1>1, <1>2, <1>3, <1>4, <1>5, <1>6, <1>7, CaptureKeeps DEF Kiosk!Watch

LEMMA PlayerStays ==
  ASSUME PlayerInv, UNCHANGED <<Kiosk!player, Kiosk!results>>
  PROVE  PlayerInv'
<1>1. /\ samples' = samples /\ missing' = missing /\ shot' = shot /\ clock' = clock
      /\ video' = video /\ epoch' = epoch /\ seeks' = seeks /\ next' = next
  BY DEF Kiosk!player, Kiosk!results
<1> QED BY <1>1, PlayerIs, PlayerGoesOn

LEMMA NoConflict ==
  ASSUME PlayerInv
  PROVE  ~Kiosk!Conflict
  BY DEF PlayerInv, ResultsInv, Kiosk!Conflict

-----------------------------------------------------------------------------
(* The frames in order *)

Numbered(S) == IsFiniteSet(S) /\ \A a, b \in S : a.seq \in Nat /\ (a.seq = b.seq => a = b)
Upto(S, f) == {g \in S : g.seq <= f.seq}
Rank(S, f) == Cardinality(Upto(S, f))

LEMMA RankIs ==
  ASSUME NEW S, Numbered(S), NEW f \in S
  PROVE  /\ IsFiniteSet(Upto(S, f)) /\ Upto(S, f) \in SUBSET S
         /\ Rank(S, f) \in 1..Cardinality(S) /\ Cardinality(S) \in Nat
<1>1. IsFiniteSet(S) /\ f.seq \in Nat
  BY DEF Numbered
<1>2. Upto(S, f) \in SUBSET S /\ f \in Upto(S, f)
  BY <1>1 DEF Upto
<1>3. IsFiniteSet(Upto(S, f)) /\ Cardinality(Upto(S, f)) <= Cardinality(S)
  BY <1>1, <1>2, FS_Subset
<1>4. Cardinality(Upto(S, f)) \in Nat /\ Cardinality(S) \in Nat
  BY <1>1, <1>3, FS_CardinalityType
<1>5. Cardinality(Upto(S, f)) # 0
  BY <1>2, <1>3, FS_EmptySet
<1> QED BY <1>2, <1>3, <1>4, <1>5 DEF Rank

LEMMA RankRises ==
  ASSUME NEW S, Numbered(S), NEW a \in S, NEW b \in S, a.seq < b.seq
  PROVE  Rank(S, a) < Rank(S, b)
<1>1. a.seq \in Nat /\ b.seq \in Nat /\ \A g \in S : g.seq \in Nat
  BY DEF Numbered
<1>2. IsFiniteSet(Upto(S, a)) /\ IsFiniteSet(Upto(S, b))
  BY RankIs
<1>3. b \notin Upto(S, a)
  BY <1>1 DEF Upto
<1>4. Upto(S, a) \cup {b} \in SUBSET Upto(S, b)
  BY <1>1 DEF Upto
<1>5. Cardinality(Upto(S, a) \cup {b}) = Cardinality(Upto(S, a)) + 1
  BY <1>2, <1>3, FS_AddElement
<1>6. Cardinality(Upto(S, a) \cup {b}) <= Cardinality(Upto(S, b))
  BY <1>2, <1>4, FS_Subset
<1>7. Cardinality(Upto(S, a)) \in Nat /\ Cardinality(Upto(S, b)) \in Nat
  BY <1>2, FS_CardinalityType
<1> QED BY <1>5, <1>6, <1>7 DEF Rank

LEMMA RanksFill ==
  ASSUME NEW S, Numbered(S), NEW i \in 1..Cardinality(S)
  PROVE  \E e \in S : Rank(S, e) = i
<1>1. IsFiniteSet(S) /\ Cardinality(S) \in Nat
  BY FS_CardinalityType DEF Numbered
<1>2. PICK n \in Nat : n = Cardinality(S)
  BY <1>1
<1> DEFINE f == [e \in S |-> Rank(S, e)]
<1>4. f \in [S -> 1..n]
  BY <1>2, RankIs
<1>5. ASSUME NEW a \in S, NEW b \in S, f[a] = f[b] PROVE a = b
  <2>1. Rank(S, a) = Rank(S, b) /\ Rank(S, a) \in 1..n /\ Rank(S, b) \in 1..n
    BY <1>2, <1>5, RankIs
  <2>2. a.seq \in Nat /\ b.seq \in Nat /\ (a.seq = b.seq => a = b)
    BY DEF Numbered
  <2>3. ~(a.seq < b.seq) /\ ~(b.seq < a.seq)
    <3>1. a.seq < b.seq => Rank(S, a) < Rank(S, b)
      BY RankRises
    <3>2. b.seq < a.seq => Rank(S, b) < Rank(S, a)
      BY RankRises
    <3> QED BY <2>1, <3>1, <3>2
  <2> QED BY <2>2, <2>3
<1>6. f \in Injection(S, 1..n)
  BY <1>4, <1>5 DEF Injection, IsInjective
<1>7. IsFiniteSet(1..n) /\ Cardinality(1..n) = n
  <2>1. 1 \in Int /\ n \in Int
    OBVIOUS
  <2>2. IsFiniteSet(1..n) /\ Cardinality(1..n) = IF 1 > n THEN 0 ELSE n - 1 + 1
    BY <2>1, FS_Interval
  <2> QED BY <2>2
<1>8. f \in Surjection(S, 1..n)
  BY <1>1, <1>2, <1>6, <1>7, FS_Injection
<1>9. PICK e \in S : f[e] = i
  BY <1>2, <1>8 DEF Surjection
<1> QED BY <1>9

\* A list of a set's frames in the order of their sequences.
Lists(fr, n, S) ==
  /\ n \in Nat /\ n = Cardinality(S) /\ Len(fr) = n /\ DOMAIN fr = 1..n /\ fr \in Seq(S)
  /\ \A i \in 1..n : fr[i] \in S
  /\ \A i, j \in 1..n : i < j => fr[i].seq < fr[j].seq
  /\ \A f \in S : \E i \in 1..n : fr[i] = f

LEMMA CollectedIs ==
  ASSUME PlayerInv
  PROVE  Numbered(Kiosk!Collected)
<1>1. ASSUME NEW q \in Seq(Results) PROVE IsFiniteSet(Kiosk!ToSet(q))
  <2>1. PICK n \in Nat : n = Len(q) /\ DOMAIN q = 1..n
    OBVIOUS
  <2> DEFINE f == [i \in 1..n |-> q[i]]
  <2>2. f \in Surjection(1..n, Kiosk!ToSet(q))
    BY <2>1 DEF Surjection, Kiosk!ToSet
  <2>3. IsFiniteSet(1..n)
    <3>1. 1 \in Int /\ n \in Int
      OBVIOUS
    <3> QED BY <3>1, FS_Interval
  <2> QED BY <2>2, <2>3, FS_Surjection
<1>2. IsFiniteSet(Kiosk!Collected)
  <2>1. samples \in Seq(Results) /\ missing \in Seq(Results)
    BY PlayerIs
  <2> QED BY <1>1, <2>1, FS_Union DEF Kiosk!Collected
<1>3. \A f \in Kiosk!Collected : f.seq \in Nat
  BY PlayerIs DEF Results
<1> QED BY <1>2, <1>3 DEF PlayerInv, ResultsInv, Numbered

LEMMA FramesAre ==
  ASSUME PlayerInv
  PROVE  Lists(Kiosk!Frames, Cardinality(Kiosk!Collected), Kiosk!Collected)
<1> DEFINE S == Kiosk!Collected
<1>1. Numbered(S) /\ Cardinality(S) \in Nat
  BY CollectedIs, FS_CardinalityType DEF Numbered
<1>2. PICK n \in Nat : n = Cardinality(S)
  BY <1>1
<1>3. Kiosk!Frames = [i \in 1..n |-> CHOOSE f \in S : Rank(S, f) = i]
  BY <1>2 DEF Kiosk!Frames, Kiosk!Cardinality, Rank, Upto, Cardinality
<1> HIDE DEF S
<1>4. ASSUME NEW i \in 1..n PROVE Kiosk!Frames[i] \in S /\ Rank(S, Kiosk!Frames[i]) = i
  <2>1. \E e \in S : Rank(S, e) = i
    BY <1>1, <1>2, RanksFill
  <2>2. Kiosk!Frames[i] = CHOOSE f \in S : Rank(S, f) = i
    BY <1>3
  <2> QED BY <2>1, <2>2
<1>5. Len(Kiosk!Frames) = n /\ DOMAIN Kiosk!Frames = 1..n
  BY <1>3
<1>6. ASSUME NEW i \in 1..n, NEW j \in 1..n, i < j PROVE Kiosk!Frames[i].seq < Kiosk!Frames[j].seq
  <2>1. PICK a \in S, b \in S : a = Kiosk!Frames[i] /\ b = Kiosk!Frames[j]
    BY <1>4
  <2>2. Rank(S, a) = i /\ Rank(S, b) = j
    BY <1>4, <2>1
  <2>3. a.seq \in Nat /\ b.seq \in Nat /\ (a.seq = b.seq => a = b)
    BY <1>1 DEF Numbered
  <2>4. b.seq < a.seq => Rank(S, b) < Rank(S, a)
    BY <1>1, RankRises
  <2>5. a # b
    BY <1>6, <2>2
  <2>6. a.seq < b.seq
    BY <1>6, <2>2, <2>3, <2>4, <2>5
  <2> QED BY <2>1, <2>6
<1>9. Kiosk!Frames \in Seq(S)
  <2>1. Kiosk!Frames \in [1..n -> S]
    BY <1>3, <1>4
  <2> QED BY <1>2, <2>1
<1>7. ASSUME NEW f \in S PROVE \E i \in 1..n : Kiosk!Frames[i] = f
  <2>1. PICK i \in 1..n : i = Rank(S, f)
    BY <1>1, <1>2, RankIs
  <2>2. PICK b \in S : b = Kiosk!Frames[i] /\ Rank(S, b) = i
    BY <1>4
  <2>3. f.seq \in Nat /\ b.seq \in Nat /\ (f.seq = b.seq => f = b)
    BY <1>1 DEF Numbered
  <2>4. f.seq < b.seq => Rank(S, f) < Rank(S, b)
    BY <1>1, RankRises
  <2>5. b.seq < f.seq => Rank(S, b) < Rank(S, f)
    BY <1>1, RankRises
  <2>6. f = b
    BY <2>1, <2>2, <2>3, <2>4, <2>5
  <2> QED BY <2>2, <2>6
<1>8. Lists(Kiosk!Frames, n, S)
  BY <1>2, <1>4, <1>5, <1>6, <1>7, <1>9 DEF Lists
<1> QED BY <1>2, <1>8 DEF S

\* Neighbours and others follow one another.
LEMMA FramesFollow ==
  ASSUME PlayerInv, NEW fr, NEW n, Lists(fr, n, Kiosk!Collected), NEW i \in 1..n, NEW j \in 1..n, i < j
  PROVE  /\ fr[i].seq < fr[j].seq /\ Follows(fr[i], fr[j])
         /\ fr[i].seeks = fr[i].epoch /\ fr[j].seeks = fr[j].epoch
<1>1. fr[i] \in Kiosk!Collected /\ fr[j] \in Kiosk!Collected /\ fr[i].seq < fr[j].seq
  BY DEF Lists
<1>2. PICK a \in Kiosk!Collected, b \in Kiosk!Collected : a = fr[i] /\ b = fr[j]
  BY <1>1
<1>3. Follows(a, b) /\ a.seeks = a.epoch /\ b.seeks = b.epoch
  BY <1>1, <1>2 DEF PlayerInv, ResultsInv, SoFar
<1> QED BY <1>1, <1>2, <1>3

-----------------------------------------------------------------------------
(* The observations, one frame after another *)

Begun(fr) ==
  [prev |-> Kiosk!Nothing, started |-> 0, forced |-> FALSE, offset |-> 0, origin |-> fr[1].at, out |-> <<>>]

Builds(f, fr, n) == f[0] = Begun(fr) /\ \A i \in 1..n : f[i] = Kiosk!Observed(f[i - 1], fr[i])

LEMMA ObservationsUnfold ==
  ASSUME NEW L, Len(Kiosk!Frames) = L, L \in Nat, Kiosk!Frames # <<>>
  PROVE  \E f : Kiosk!Observations = f[L].out /\ Builds(f, Kiosk!Frames, L)
<1> DEFINE fr == Kiosk!Frames
           D == 0..Len(fr)
           Body(f, n) == IF n = 0
                         THEN [prev |-> Kiosk!Nothing, started |-> 0, forced |-> FALSE, offset |-> 0,
                               origin |-> fr[1].at, out |-> <<>>]
                         ELSE Kiosk!Observed(f[n - 1], fr[n])
           up == CHOOSE f : f = [n \in D |-> Body(f, n)]
           T == {n \in D : \E f : f = [i \in 0..n |-> f[i]] /\ Builds(f, fr, n)}
<1>1. Kiosk!Observations = up[Len(fr)].out
  BY Zenon DEF Kiosk!Observations
<1>b. \A f : Body(f, 0) = Begun(fr)
  BY DEF Begun
<1>c. \A f, n : n # 0 => Body(f, n) = Kiosk!Observed(f[n - 1], fr[n])
  OBVIOUS
<1> HIDE DEF fr, Body
<1>d. L = Len(fr)
  BY DEF fr
<1>2. T = D
  <2>1. 0 \in T
    <3> DEFINE z == [i \in 0..0 |-> Begun(fr)]
    <3>1. z = [i \in 0..0 |-> z[i]] /\ z[0] = Begun(fr)
      OBVIOUS
    <3>2. Builds(z, fr, 0)
      BY <3>1 DEF Builds
    <3>3. 0 \in D
      BY <1>d
    <3> QED BY <3>1, <3>2, <3>3, Zenon
  <2>2. ASSUME NEW n \in T, n < L PROVE n + 1 \in T
    <3>1. PICK f : f = [i \in 0..n |-> f[i]] /\ Builds(f, fr, n)
      OBVIOUS
    <3>2. n \in Nat /\ n + 1 \in D
      BY <1>d, <2>2
    <3> DEFINE v == Kiosk!Observed(f[n], fr[n + 1])
               g == [i \in 0..(n + 1) |-> IF i = n + 1 THEN v ELSE f[i]]
    <3>v. v = Kiosk!Observed(f[n], fr[n + 1])
      OBVIOUS
    <3> HIDE DEF v
    <3>4. /\ g[n + 1] = v /\ g[n] = f[n] /\ g[0] = f[0]
          /\ \A i \in 1..n : g[i] = f[i] /\ g[i - 1] = f[i - 1]
          /\ g = [i \in 0..(n + 1) |-> g[i]]
      BY <3>2
    <3> HIDE DEF g
    <3>5. ASSUME NEW i \in 1..(n + 1) PROVE g[i] = Kiosk!Observed(g[i - 1], fr[i])
      <4>1. CASE i = n + 1
        <5>1. i - 1 = n
          BY <3>2, <4>1
        <5> QED BY <3>4, <3>v, <4>1, <5>1
      <4>2. CASE i # n + 1
        <5>1. i \in 1..n
          BY <3>2, <4>2
        <5> QED BY <3>1, <3>4, <5>1 DEF Builds
      <4> QED BY <4>1, <4>2
    <3>6. Builds(g, fr, n + 1)
      BY <3>1, <3>4, <3>5 DEF Builds
    <3> QED BY <3>2, <3>4, <3>6
  <2> HIDE DEF T
  <2>3. T \in SUBSET (0..L)
    BY <1>d DEF T
  <2> QED BY <1>d, <2>1, <2>2, <2>3, Steps
<1>3. PICK f : f = [i \in D |-> f[i]] /\ Builds(f, fr, L)
  <2>1. L \in T
    BY <1>2, <1>d
  <2> QED BY <1>d, <2>1
<1>4. f = [n \in D |-> Body(f, n)]
  <2>1. ASSUME NEW n \in D PROVE f[n] = Body(f, n)
    <3>1. CASE n = 0
      BY <1>3, <1>b, <3>1 DEF Builds
    <3>2. CASE n # 0
      <4>1. n \in 1..L
        BY <1>d, <3>2
      <4>2. f[n] = Kiosk!Observed(f[n - 1], fr[n])
        BY <1>3, <4>1 DEF Builds
      <4> QED BY <1>c, <3>2, <4>2
    <3> QED BY <3>1, <3>2
  <2> QED BY <1>3, <2>1
<1>5. up = [n \in D |-> Body(up, n)]
  BY <1>4
<1> HIDE DEF up, T
<1>6. up = f
  <2> DEFINE U == {i \in D : up[i] = f[i]}
  <2>1. \A i \in D : up[i] = Body(up, i) /\ f[i] = Body(f, i)
    BY <1>4, <1>5
  <2>2. 0 \in U
    <3>1. 0 \in D
      BY <1>d
    <3> QED BY <1>b, <2>1, <3>1
  <2>3. ASSUME NEW i \in U, i < L PROVE i + 1 \in U
    <3>1. i + 1 \in D /\ i + 1 # 0 /\ (i + 1) - 1 = i /\ up[i] = f[i]
      BY <1>d, <2>3
    <3>2. Body(up, i + 1) = Body(f, i + 1)
      BY <1>c, <3>1
    <3> QED BY <2>1, <3>1, <3>2
  <2>4. U \in SUBSET (0..L)
    BY <1>d
  <2> HIDE DEF U
  <2>5. U = D
    BY <1>d, <2>2, <2>3, <2>4, Steps
  <2>6. \A i \in D : up[i] = f[i]
    BY <2>5 DEF U
  <2> QED BY <1>3, <1>5, <2>6
<1> QED BY <1>1, <1>3, <1>6, <1>d DEF fr

-----------------------------------------------------------------------------
(* One frame *)

Entry(f, passed, derived) ==
  [seq |-> f.seq, at |-> f.at, offset |-> passed, video |-> f.video,
   epoch |-> f.epoch, gaze |-> f.gaze, attention |-> Kiosk!Attention(f), derived |-> derived]

DerivedOf(d, f) == Kiosk!Derived(d.prev, d.started, f, d.prev = Kiosk!Nothing /\ ~d.forced)

LEMMA ObservedIs ==
  ASSUME NEW d, NEW f
  PROVE  /\ Kiosk!Valid(f) => Kiosk!Observed(d, f).prev = f /\ ~Kiosk!Observed(d, f).forced
         /\ ~Kiosk!Valid(f) => Kiosk!Observed(d, f).prev = Kiosk!Nothing /\ Kiosk!Observed(d, f).forced
         /\ DerivedOf(d, f).moved => Kiosk!Observed(d, f).started = d.started
         /\ ~DerivedOf(d, f).moved => Kiosk!Observed(d, f).started = f.at
         /\ Kiosk!Observed(d, f).origin = d.origin
         /\ Kiosk!Observed(d, f).offset = IF f.at - d.origin > d.offset THEN f.at - d.origin ELSE d.offset
         /\ Kiosk!Observed(d, f).out = Append(d.out, Entry(f, Kiosk!Observed(d, f).offset, DerivedOf(d, f)))
<1> DEFINE o == IF f.at - d.origin > d.offset THEN f.at - d.origin ELSE d.offset
           r == [prev |-> IF Kiosk!Valid(f) THEN f ELSE Kiosk!Nothing,
                 started |-> IF DerivedOf(d, f).moved THEN d.started ELSE f.at,
                 forced |-> ~Kiosk!Valid(f), offset |-> o, origin |-> d.origin,
                 out |-> Append(d.out, Entry(f, o, DerivedOf(d, f)))]
<1>1. Kiosk!Observed(d, f) = r
  BY Zenon DEF Kiosk!Observed, DerivedOf, Entry
<1>2. r.forced = ~Kiosk!Valid(f)
  BY Zenon
<1>3. r.offset = o
  BY Zenon
<1>4. r.out = Append(d.out, Entry(f, o, DerivedOf(d, f)))
  BY Zenon
<1>5. r.origin = d.origin
  BY Zenon
<1>6. r.started = IF DerivedOf(d, f).moved THEN d.started ELSE f.at
  BY Zenon
<1>7. r.prev = IF Kiosk!Valid(f) THEN f ELSE Kiosk!Nothing
  BY Zenon
<1> HIDE DEF r
<1>8. (Kiosk!Valid(f) => ~r.forced) /\ (~Kiosk!Valid(f) => r.forced)
  BY <1>2, Zenon
<1> QED BY <1>1, <1>3, <1>4, <1>5, <1>6, <1>7, <1>8, Zenon

\* The three things that are derived of a frame.
LEMMA DerivedIs ==
  ASSUME NEW d, NEW f
  PROVE  /\ ~Kiosk!Valid(f) => DerivedOf(d, f).moved = FALSE
         /\ Kiosk!Valid(f) /\ (d.prev = Kiosk!Nothing \/ Kiosk!ContinuityReset(d.prev, f)) =>
              /\ DerivedOf(d, f).moved = FALSE /\ DerivedOf(d, f).for = 0
              /\ DerivedOf(d, f).why = "no_previous_observation" <=> (d.prev = Kiosk!Nothing /\ ~d.forced)
         /\ Kiosk!Valid(f) /\ ~(d.prev = Kiosk!Nothing \/ Kiosk!ContinuityReset(d.prev, f)) =>
              /\ DerivedOf(d, f).moved = TRUE /\ DerivedOf(d, f).for = f.at - d.started
              /\ DerivedOf(d, f).why = "backend_aoi_required"
<1>1. CASE ~Kiosk!Valid(f)
  <2>1. DerivedOf(d, f) = [for |-> -1, moved |-> FALSE, why |-> "source_gaze_unavailable"]
    BY <1>1, Zenon DEF DerivedOf, Kiosk!Derived
  <2> QED BY <1>1, <2>1
<1>2. CASE Kiosk!Valid(f) /\ (d.prev = Kiosk!Nothing \/ Kiosk!ContinuityReset(d.prev, f))
  <2> DEFINE isFirst == d.prev = Kiosk!Nothing /\ ~d.forced
             w == IF isFirst THEN "no_previous_observation" ELSE "continuity_reset"
  <2>1. DerivedOf(d, f) = [for |-> 0, moved |-> FALSE, why |-> w]
    BY <1>2, Zenon DEF DerivedOf, Kiosk!Derived
  <2>2. w = "no_previous_observation" <=> isFirst
    OBVIOUS
  <2> HIDE DEF w
  <2>3. DerivedOf(d, f).why = w /\ DerivedOf(d, f).moved = FALSE /\ DerivedOf(d, f).for = 0
    BY <2>1
  <2> QED BY <1>2, <2>2, <2>3, Zenon
<1>3. CASE Kiosk!Valid(f) /\ ~(d.prev = Kiosk!Nothing \/ Kiosk!ContinuityReset(d.prev, f))
  <2>1. DerivedOf(d, f) = [for |-> f.at - d.started, moved |-> TRUE, why |-> "backend_aoi_required"]
    BY <1>3, Zenon DEF DerivedOf, Kiosk!Derived
  <2>2. /\ DerivedOf(d, f).moved = TRUE /\ DerivedOf(d, f).for = f.at - d.started
        /\ DerivedOf(d, f).why = "backend_aoi_required"
    BY <2>1
  <2> QED BY <1>3, <2>2, Zenon
<1> QED BY <1>1, <1>2, <1>3, Zenon

\* Two neighbours, and the loop when it comes to the second one.
LEMMA ResetIs ==
  ASSUME PlayerInv, NEW fr, NEW n, Lists(fr, n, Kiosk!Collected), NEW i \in 1..n, i > 1
  PROVE  Kiosk!Unbroken(fr[i - 1], fr[i]) <=>
           Kiosk!Valid(fr[i - 1]) /\ Kiosk!Valid(fr[i]) /\ ~Kiosk!ContinuityReset(fr[i - 1], fr[i])
<1>1. n \in Nat
  BY DEF Lists
<1>2. i - 1 \in 1..n /\ i - 1 < i
  BY <1>1
<1>3. PICK a \in Kiosk!Collected, b \in Kiosk!Collected : a = fr[i - 1] /\ b = fr[i]
  BY <1>2 DEF Lists
<1>4. Follows(a, b) /\ a.seeks = a.epoch /\ b.seeks = b.epoch
  BY <1>2, <1>3, FramesFollow
<1>5. /\ a.at \in Nat /\ b.at \in Nat /\ a.epoch \in Nat /\ b.epoch \in Nat /\ a.video \in Nat
      /\ b.video \in Nat
  <2>1. Length \in Nat /\ a \in Results /\ b \in Results
    BY PlayerIs
  <2> QED BY <2>1 DEF Results
<1>6. Gap \in Nat
  BY ObservationsAssumption DEF Kiosk!BatchingAssumption
<1>7. Kiosk!ContinuityReset(a, b) <=> a.epoch # b.epoch \/ b.at <= a.at \/ b.at - a.at > Gap
  BY <1>4, <1>5 DEF Kiosk!ContinuityReset, Follows
<1>8. Kiosk!Unbroken(a, b) <=> Kiosk!Valid(a) /\ Kiosk!Valid(b) /\ a.epoch = b.epoch /\ a.at < b.at /\ b.at - a.at <= Gap
  BY <1>4 DEF Kiosk!Unbroken
<1> QED BY <1>3, <1>5, <1>6, <1>7, <1>8

-----------------------------------------------------------------------------
(* What the loop knows after each frame *)

\* The stretch of frame i starts at j.
StartsAt(fr, j, i) ==
  /\ \A k \in (j + 1)..i : Kiosk!Unbroken(fr[k - 1], fr[k])
  /\ j = 1 \/ ~Kiosk!Unbroken(fr[j - 1], fr[j])

LEMMA OneStretch ==
  ASSUME NEW fr, NEW i \in Nat, NEW j \in 1..i, NEW k \in 1..i, StartsAt(fr, j, i), StartsAt(fr, k, i)
  PROVE  j = k
<1>1. ASSUME NEW a \in 1..i, NEW b \in 1..i, StartsAt(fr, a, i), StartsAt(fr, b, i), a < b PROVE FALSE
  <2>1. b \in (a + 1)..i /\ b # 1
    BY <1>1
  <2> QED BY <1>1, <2>1 DEF StartsAt
<1> QED BY <1>1

\* What is told of frame i, whose stretch starts at j.
Told(e, fr, i, j) ==
  /\ e.for = fr[i].at - fr[j].at
  /\ e.moved <=> j # i
  /\ e.why = "no_previous_observation" <=> i = 1

LoopAt(d, fr, i) ==
  /\ d.origin = fr[1].at
  /\ i = 0 => d.prev = Kiosk!Nothing /\ ~d.forced /\ d.offset = 0
  /\ i > 0 /\ Kiosk!Valid(fr[i]) =>
       d.prev = fr[i] /\ \E j \in 1..i : StartsAt(fr, j, i) /\ d.started = fr[j].at
  /\ i > 0 /\ ~Kiosk!Valid(fr[i]) => d.prev = Kiosk!Nothing /\ d.forced
  /\ i > 0 => d.offset = fr[i].at - fr[1].at

LEMMA FrameIs ==
  ASSUME PlayerInv, NEW fr, NEW n, Lists(fr, n, Kiosk!Collected), NEW i \in 1..n
  PROVE  /\ n \in Nat /\ fr[i] \in Results /\ fr[i].at \in Nat /\ fr[1].at \in Nat
         /\ fr[i] # Kiosk!Nothing
         /\ fr[1].at <= fr[i].at
         /\ i > 1 => i - 1 \in 1..n /\ fr[i - 1].at <= fr[i].at /\ fr[i - 1].at \in Nat /\ fr[1].at <= fr[i - 1].at
<1>1. n \in Nat /\ 1 \in 1..n /\ (i > 1 => i - 1 \in 1..n /\ i - 1 < i) /\ (i # 1 => 1 < i)
  BY DEF Lists
<1>2. \A k \in 1..n : fr[k] \in Results
  BY PlayerIs DEF Lists
<1>3. \A k \in 1..n : fr[k].at \in Nat /\ fr[k].seq \in Nat
  BY <1>2 DEF Results
<1>4. \A k, l \in 1..n : k < l => fr[k].at <= fr[l].at
  BY FramesFollow DEF Follows
<1>5. fr[i] # Kiosk!Nothing
  <2>1. fr[i].seq \in Nat /\ Kiosk!Nothing.seq = -1
    BY <1>3 DEF Kiosk!Nothing
  <2> QED BY <2>1
<1>6. fr[1].at <= fr[i].at
  <2>1. CASE i = 1
    BY <2>1, <1>3
  <2>2. CASE i # 1
    BY <2>2, <1>1, <1>4
  <2> QED BY <2>1, <2>2
<1>7. i > 1 => fr[1].at <= fr[i - 1].at
  <2>1. CASE i = 2
    BY <2>1, <1>1, <1>3
  <2>2. CASE i > 2
    BY <2>2, <1>1, <1>4
  <2> QED BY <2>1, <2>2, <1>1
<1> QED BY <1>1, <1>2, <1>3, <1>4, <1>5, <1>6, <1>7

LEMMA TracksOn ==
  ASSUME PlayerInv, NEW fr, NEW n, Lists(fr, n, Kiosk!Collected), NEW i \in 1..n, NEW d, LoopAt(d, fr, i - 1)
  PROVE  /\ LoopAt(Kiosk!Observed(d, fr[i]), fr, i)
         /\ Kiosk!Valid(fr[i]) => \E j \in 1..i : StartsAt(fr, j, i) /\ Told(DerivedOf(d, fr[i]), fr, i, j)
<1> DEFINE f == fr[i]
           r == Kiosk!Observed(d, f)
           e == DerivedOf(d, f)
<1>1. /\ n \in Nat /\ f.at \in Nat /\ fr[1].at \in Nat /\ f # Kiosk!Nothing /\ fr[1].at <= f.at
      /\ i > 1 => /\ i - 1 \in 1..n /\ fr[i - 1].at <= f.at /\ fr[i - 1].at \in Nat
                  /\ fr[1].at <= fr[i - 1].at
  BY FrameIs
<1>2. /\ Kiosk!Valid(f) => r.prev = f
      /\ ~Kiosk!Valid(f) => r.prev = Kiosk!Nothing /\ r.forced
      /\ e.moved => r.started = d.started
      /\ ~e.moved => r.started = f.at
      /\ r.origin = d.origin
      /\ r.offset = IF f.at - d.origin > d.offset THEN f.at - d.origin ELSE d.offset
  BY ObservedIs
<1>3. r.origin = fr[1].at /\ r.offset = f.at - fr[1].at
  <2>1. d.origin = fr[1].at
    BY DEF LoopAt
  <2>2. CASE i = 1
    <3>1. d.offset = 0
      BY <2>2 DEF LoopAt
    <3> QED BY <1>1, <1>2, <2>1, <2>2, <3>1
  <2>3. CASE i # 1
    <3>1. d.offset = fr[i - 1].at - fr[1].at /\ i > 1
      BY <2>3, <1>1 DEF LoopAt
    <3> QED BY <1>1, <1>2, <2>1, <3>1
  <2> QED BY <2>2, <2>3
<1>4. ASSUME Kiosk!Valid(f) PROVE \E j \in 1..i : StartsAt(fr, j, i) /\ Told(e, fr, i, j) /\ r.started = fr[j].at
  <2>1. CASE i = 1
    <3>1. d.prev = Kiosk!Nothing /\ ~d.forced
      BY <2>1 DEF LoopAt
    <3>2. e.moved = FALSE /\ e.for = 0 /\ e.why = "no_previous_observation"
      BY <1>4, <3>1, DerivedIs
    <3>3. StartsAt(fr, i, i)
      BY <2>1, <1>1 DEF StartsAt
    <3>4. Told(e, fr, i, i)
      <4>1. e.for = fr[i].at - fr[i].at
        BY <1>1, <3>2
      <4> QED BY <3>2, <2>1, <4>1, Zenon DEF Told
    <3>5. r.started = fr[i].at
      BY <1>2, <3>2, Zenon
    <3>6. i \in 1..i
      BY <1>1
    <3> QED BY <3>3, <3>4, <3>5, <3>6
  <2>2. CASE i > 1 /\ Kiosk!Unbroken(fr[i - 1], f)
    <3>1. Kiosk!Valid(fr[i - 1]) /\ ~Kiosk!ContinuityReset(fr[i - 1], f)
      BY <2>2, ResetIs
    <3>2. d.prev = fr[i - 1] /\ \E j \in 1..(i - 1) : StartsAt(fr, j, i - 1) /\ d.started = fr[j].at
      <4>1. i - 1 > 0
        BY <2>2, <1>1
      <4> QED BY <4>1, <3>1 DEF LoopAt
    <3>3. fr[i - 1] # Kiosk!Nothing
      BY <1>1, <2>2, FrameIs
    <3>4. PICK j \in 1..(i - 1) : StartsAt(fr, j, i - 1) /\ d.started = fr[j].at
      BY <3>2
    <3>5. ~(d.prev = Kiosk!Nothing \/ Kiosk!ContinuityReset(d.prev, f))
      BY <3>1, <3>2, <3>3
    <3>6. e.moved = TRUE /\ e.for = f.at - d.started /\ e.why = "backend_aoi_required"
      BY <1>4, <3>5, DerivedIs
    <3>7. StartsAt(fr, j, i)
      <4>1. ASSUME NEW k \in (j + 1)..i PROVE Kiosk!Unbroken(fr[k - 1], fr[k])
        <5>1. CASE k = i
          BY <5>1, <2>2
        <5>2. CASE k # i
          <6>1. k \in (j + 1)..(i - 1)
            BY <5>2, <1>1
          <6> QED BY <6>1, <3>4 DEF StartsAt
        <5> QED BY <5>1, <5>2
      <4> QED BY <4>1, <3>4 DEF StartsAt
    <3>8. j \in 1..i /\ j # i /\ i # 1
      BY <1>1, <2>2
    <3>9. e.why # "no_previous_observation"
      BY <3>6
    <3>10. Told(e, fr, i, j)
      <4>1. e.for = fr[i].at - fr[j].at
        BY <3>4, <3>6
      <4> QED BY <3>6, <3>8, <3>9, <4>1, Zenon DEF Told
    <3>11. r.started = fr[j].at
      BY <1>2, <3>4, <3>6, Zenon
    <3> QED BY <3>7, <3>8, <3>10, <3>11
  <2>3. CASE i > 1 /\ ~Kiosk!Unbroken(fr[i - 1], f)
    <3>1. ~Kiosk!Valid(fr[i - 1]) \/ Kiosk!ContinuityReset(fr[i - 1], f)
      BY <2>3, <1>4, ResetIs
    <3>0. i - 1 > 0 /\ i # 1
      BY <2>3, <1>1
    <3>2. d.prev = Kiosk!Nothing \/ Kiosk!ContinuityReset(d.prev, f)
      BY <3>0, <3>1 DEF LoopAt
    <3>3. ~(d.prev = Kiosk!Nothing /\ ~d.forced)
      <4>1. CASE Kiosk!Valid(fr[i - 1])
        <5>1. d.prev = fr[i - 1]
          BY <3>0, <4>1 DEF LoopAt
        <5>2. fr[i - 1] # Kiosk!Nothing
          BY <1>1, <2>3, FrameIs
        <5> QED BY <5>1, <5>2
      <4>2. CASE ~Kiosk!Valid(fr[i - 1])
        BY <3>0, <4>2 DEF LoopAt
      <4> QED BY <4>1, <4>2
    <3>4. e.moved = FALSE /\ e.for = 0 /\ e.why # "no_previous_observation"
      BY <1>4, <3>2, <3>3, DerivedIs
    <3>5. StartsAt(fr, i, i)
      BY <2>3, <1>1 DEF StartsAt
    <3>6. Told(e, fr, i, i)
      <4>1. e.for = fr[i].at - fr[i].at
        BY <1>1, <3>4
      <4> QED BY <3>4, <3>0, <4>1, Zenon DEF Told
    <3>7. r.started = fr[i].at
      BY <1>2, <3>4, Zenon
    <3>8. i \in 1..i
      BY <1>1
    <3> QED BY <3>5, <3>6, <3>7, <3>8
  <2> QED BY <1>1, <2>1, <2>2, <2>3
<1>5. LoopAt(r, fr, i)
  <2>1. i > 0
    BY <1>1
  <2>2. Kiosk!Valid(f) => \E j \in 1..i : StartsAt(fr, j, i) /\ r.started = fr[j].at
    BY <1>4
  <2> HIDE DEF r
  <2> QED BY <1>2, <1>3, <2>1, <2>2 DEF LoopAt
<1> QED BY <1>4, <1>5

-----------------------------------------------------------------------------
(* All observations *)

Reports(o, fr, i) ==
  \E e : /\ o = Entry(fr[i], fr[i].at - fr[1].at, e)
         /\ Kiosk!Valid(fr[i]) => \E j \in 1..i : StartsAt(fr, j, i) /\ Told(e, fr, i, j)

LEMMA ObservationsAre ==
  ASSUME PlayerInv, NEW fr, NEW n, Lists(fr, n, Kiosk!Collected), fr = Kiosk!Frames
  PROVE  /\ Len(Kiosk!Observations) = n /\ DOMAIN Kiosk!Observations = 1..n
         /\ \E S : Kiosk!Observations \in Seq(S)
         /\ \A i \in 1..n : Reports(Kiosk!Observations[i], fr, i)
<1>1. n \in Nat /\ Len(fr) = n
  BY DEF Lists
<1>2. CASE n = 0
  <2>1. fr = <<>>
    <3>1. fr \in Seq(Kiosk!Collected)
      BY DEF Lists
    <3> QED BY <3>1, <1>1, <1>2
  <2>2. Kiosk!Observations = <<>>
    BY <2>1 DEF Kiosk!Observations
  <2>3. <<>> \in Seq({})
    OBVIOUS
  <2> QED BY <1>2, <2>2, <2>3
<1>3. CASE n # 0
  <2>1. fr # <<>>
    BY <1>1, <1>3
  <2>2. PICK f : Kiosk!Observations = f[n].out /\ Builds(f, fr, n)
    BY <1>1, <2>1, ObservationsUnfold
  <2>3. f[0] = Begun(fr) /\ \A i \in 1..n : f[i] = Kiosk!Observed(f[i - 1], fr[i])
    BY <2>2 DEF Builds
  <2> DEFINE E == {Entry(fr[i], fr[i].at - fr[1].at, DerivedOf(f[i - 1], fr[i])) : i \in 1..n}
             Done(i) == /\ f[i].out \in Seq(E) /\ Len(f[i].out) = i
                        /\ \A j \in 1..i : f[i].out[j] = Entry(fr[j], fr[j].at - fr[1].at, DerivedOf(f[j - 1], fr[j]))
             T == {i \in 0..n : LoopAt(f[i], fr, i) /\ Done(i)}
  <2>4. 0 \in T
    <3>1. LoopAt(f[0], fr, 0)
      BY <2>3 DEF LoopAt, Begun
    <3>2. f[0].out = <<>>
      BY <2>3 DEF Begun
    <3>3. Done(0)
      BY <3>2
    <3> QED BY <1>1, <3>1, <3>3
  <2>5. ASSUME NEW i \in T, i < n PROVE i + 1 \in T
    <3>1. i + 1 \in 1..n /\ (i + 1) - 1 = i /\ i \in Nat
      BY <1>1, <2>5
    <3>2. LoopAt(f[i], fr, i) /\ Done(i)
      BY <2>5
    <3>3. f[i + 1] = Kiosk!Observed(f[i], fr[i + 1])
      BY <2>3, <3>1
    <3>4. LoopAt(f[i + 1], fr, i + 1)
      <4>1. LoopAt(f[i], fr, (i + 1) - 1)
        BY <3>1, <3>2
      <4> QED BY <3>1, <3>3, <4>1, TracksOn
    <3> DEFINE x == Entry(fr[i + 1], fr[i + 1].at - fr[1].at, DerivedOf(f[i], fr[i + 1]))
    <3>5. f[i + 1].out = Append(f[i].out, x)
      <4>1. f[i + 1].out = Append(f[i].out, Entry(fr[i + 1], f[i + 1].offset, DerivedOf(f[i], fr[i + 1])))
        BY <3>3, ObservedIs
      <4>2. f[i + 1].offset = fr[i + 1].at - fr[1].at
        BY <3>1, <3>4 DEF LoopAt
      <4> QED BY <4>1, <4>2
    <3>6. /\ x \in E
          /\ x = Entry(fr[i + 1], fr[i + 1].at - fr[1].at, DerivedOf(f[(i + 1) - 1], fr[i + 1]))
      BY <3>1
    <3> HIDE DEF x, E
    <3>7. Append(f[i].out, x) \in Seq(E) /\ Len(Append(f[i].out, x)) = i + 1
          /\ \A j \in 1..i : Append(f[i].out, x)[j] = f[i].out[j]
          /\ Append(f[i].out, x)[i + 1] = x
      BY <3>2, <3>6, AppendProperties
    <3>8. \A j \in 1..(i + 1) : j \in 1..i \/ j = i + 1
      BY <3>1
    <3>9. Done(i + 1)
      BY <3>2, <3>5, <3>6, <3>7, <3>8
    <3> QED BY <3>1, <3>4, <3>9
  <2> HIDE DEF Done
  <2>6. T = 0..n
    <3>1. T \in SUBSET (0..n)
      OBVIOUS
    <3> HIDE DEF T
    <3> QED BY <1>1, <2>4, <2>5, <3>1, Steps
  <2>7. Done(n) /\ \A i \in 0..n : LoopAt(f[i], fr, i)
    <3>1. n \in 0..n
      BY <1>1
    <3> QED BY <2>6, <3>1
  <2>8. ASSUME NEW i \in 1..n PROVE Reports(f[n].out[i], fr, i)
    <3>1. i - 1 \in 0..n
      BY <1>1
    <3>2. f[n].out[i] = Entry(fr[i], fr[i].at - fr[1].at, DerivedOf(f[i - 1], fr[i]))
      BY <2>7 DEF Done
    <3>3. Kiosk!Valid(fr[i]) => \E j \in 1..i : StartsAt(fr, j, i) /\ Told(DerivedOf(f[i - 1], fr[i]), fr, i, j)
      BY <2>7, <3>1, TracksOn
    <3> QED BY <3>2, <3>3 DEF Reports
  <2>9. Len(f[n].out) = n /\ DOMAIN f[n].out = 1..n /\ f[n].out \in Seq(E)
    BY <2>7 DEF Done
  <2> QED BY <2>2, <2>8, <2>9
<1> QED BY <1>2, <1>3

LEMMA RunsHold ==
  ASSUME PlayerInv
  PROVE  Kiosk!RunsAreTrue
<1> DEFINE starts(i) == CHOOSE j \in 1..i :
             /\ \A k \in (j + 1)..i : Kiosk!Unbroken(Kiosk!Frames[k - 1], Kiosk!Frames[k])
             /\ j = 1 \/ ~Kiosk!Unbroken(Kiosk!Frames[j - 1], Kiosk!Frames[j])
<1>1. ASSUME NEW i \in 1..Len(Kiosk!Frames), Kiosk!Valid(Kiosk!Frames[i])
      PROVE  /\ Kiosk!Observations[i].derived.for = Kiosk!Frames[i].at - Kiosk!Frames[starts(i)].at
             /\ Kiosk!Observations[i].derived.moved <=> starts(i) # i
             /\ Kiosk!Observations[i].derived.why = "no_previous_observation" <=> i = 1
  <2>1. PICK fr, n : fr = Kiosk!Frames /\ n = Cardinality(Kiosk!Collected) /\ Lists(fr, n, Kiosk!Collected)
    BY FramesAre
  <2>2. Len(Kiosk!Frames) = n /\ n \in Nat
    BY <2>1 DEF Lists
  <2>3. Reports(Kiosk!Observations[i], fr, i)
    BY <2>1, <2>2, ObservationsAre
  <2>4. PICK e : /\ Kiosk!Observations[i] = Entry(fr[i], fr[i].at - fr[1].at, e)
                 /\ \E j \in 1..i : StartsAt(fr, j, i) /\ Told(e, fr, i, j)
    BY <1>1, <2>1, <2>3 DEF Reports
  <2>5. PICK j \in 1..i : StartsAt(fr, j, i) /\ Told(e, fr, i, j)
    BY <2>4
  <2>6. starts(i) = CHOOSE k \in 1..i : StartsAt(fr, k, i)
    BY <2>1 DEF StartsAt
  <2>7. i \in Nat /\ \E k \in 1..i : StartsAt(fr, k, i)
    BY <2>2, <2>5
  <2>8. starts(i) \in 1..i /\ StartsAt(fr, starts(i), i)
    <3> HIDE DEF starts
    <3> QED BY <2>6, <2>7
  <2> HIDE DEF starts
  <2>9. starts(i) = j
    BY <2>5, <2>7, <2>8, OneStretch
  <2>10. Kiosk!Observations[i].derived = e
    BY <2>4 DEF Entry
  <2> QED BY <2>1, <2>5, <2>9, <2>10 DEF Told
<1> QED BY <1>1 DEF Kiosk!RunsAreTrue

-----------------------------------------------------------------------------
(* The batches *)

\* Where the k-th batch of n observations ends.
BatchEnd(n, k) == Kiosk!Least(k * Chunk, n)

LEMMA EndsAre ==
  ASSUME NEW n \in Nat, NEW N, N = (n + Chunk - 1) \div Chunk
  PROVE  /\ N \in Nat /\ BatchEnd(n, 0) = 0 /\ BatchEnd(n, N) = n
         /\ \A k \in 0..N : BatchEnd(n, k) \in 0..n
         /\ \A k \in 1..N : /\ BatchEnd(n, k - 1) = (k - 1) * Chunk
                            /\ BatchEnd(n, k) - BatchEnd(n, k - 1) \in 1..Chunk
<1>1. PICK c \in Nat \ {0} : c = Chunk
  BY ObservationsAssumption DEF Kiosk!BatchingAssumption
<1>2. PICK m \in Nat : m = N /\ m * c <= n + c - 1 /\ n + c - 1 < m * c + c
  BY <1>1
<1>3. ASSUME NEW k \in 1..m PROVE k * c <= m * c
  <2>1. PICK d \in Nat : m = k + d
    <3>1. m - k \in Nat /\ m = k + (m - k)
      OBVIOUS
    <3> QED BY <3>1
  <2>2. m * c = k * c + d * c /\ d * c \in Nat
    BY <2>1
  <2> QED BY <2>2
<1>4. ASSUME NEW k \in 1..m PROVE (k - 1) * c = k * c - c
  OBVIOUS
<1>5. ASSUME NEW k \in 1..m PROVE (k - 1) * c <= n - 1 /\ (k - 1) * c \in Nat /\ k * c \in Nat
  <2>1. k * c \in Int /\ m * c \in Int /\ (k - 1) * c = k * c - c /\ k * c <= m * c
    BY <1>3, <1>4
  <2>2. k - 1 \in Nat
    OBVIOUS
  <2>3. (k - 1) * c \in Nat /\ k * c \in Nat
    BY <2>2
  <2> QED BY <1>2, <2>1, <2>3
<1>6. m * c \in Nat /\ 0 * c = 0
  OBVIOUS
<1>7. BatchEnd(n, 0) = 0 /\ BatchEnd(n, m) = n
  BY <1>1, <1>2, <1>6 DEF BatchEnd, Kiosk!Least
<1>8. ASSUME NEW k \in 1..m
      PROVE /\ BatchEnd(n, k - 1) = (k - 1) * c /\ BatchEnd(n, k) - BatchEnd(n, k - 1) \in 1..c
            /\ BatchEnd(n, k) \in 0..n
  <2>1. PICK b \in Nat : b = (k - 1) * c /\ b <= n - 1 /\ k * c = b + c
    BY <1>4, <1>5
  <2>2. BatchEnd(n, k - 1) = b
    BY <1>1, <2>1 DEF BatchEnd, Kiosk!Least
  <2>3. BatchEnd(n, k) = IF b + c < n THEN b + c ELSE n
    BY <1>1, <2>1 DEF BatchEnd, Kiosk!Least
  <2> QED BY <2>1, <2>2, <2>3
<1>9. \A k \in 0..m : k = 0 \/ k \in 1..m
  OBVIOUS
<1> QED BY <1>1, <1>2, <1>7, <1>8, <1>9

\* The observations in N batches.
Batched(bs, obs, n, N) ==
  /\ N \in Nat /\ Len(bs) = N
  /\ BatchEnd(n, 0) = 0 /\ BatchEnd(n, N) = n /\ \A k \in 0..N : BatchEnd(n, k) \in 0..n
  /\ \A k \in 1..N :
       /\ bs[k].id = k /\ bs[k].number = k - 1
       /\ Len(bs[k].obs) = BatchEnd(n, k) - BatchEnd(n, k - 1)
       /\ Len(bs[k].obs) \in 1..Chunk
       /\ DOMAIN bs[k].obs = 1..Len(bs[k].obs)
       /\ \A j \in 1..Len(bs[k].obs) : bs[k].obs[j] = obs[BatchEnd(n, k - 1) + j]

LEMMA BatchesAre ==
  ASSUME NEW S, NEW obs \in Seq(S), NEW n, n = Len(obs)
  PROVE  \E N : Batched(Kiosk!BatchesOf(obs), obs, n, N)
<1>1. n \in Nat /\ Chunk \in Nat \ {0}
  BY ObservationsAssumption DEF Kiosk!BatchingAssumption
<1>2. PICK N : N = (n + Chunk - 1) \div Chunk
  OBVIOUS
<1>3. /\ N \in Nat /\ BatchEnd(n, 0) = 0 /\ BatchEnd(n, N) = n
      /\ \A k \in 0..N : BatchEnd(n, k) \in 0..n
      /\ \A k \in 1..N : /\ BatchEnd(n, k - 1) = (k - 1) * Chunk
                         /\ BatchEnd(n, k) - BatchEnd(n, k - 1) \in 1..Chunk
  BY <1>1, <1>2, EndsAre
<1>4. Kiosk!BatchesOf(obs) = [k \in 1..N |->
        [id |-> k, number |-> k - 1, obs |-> SubSeq(obs, (k - 1) * Chunk + 1, BatchEnd(n, k))]]
  BY <1>2 DEF Kiosk!BatchesOf, BatchEnd
<1>5. Len(Kiosk!BatchesOf(obs)) = N /\ DOMAIN Kiosk!BatchesOf(obs) = 1..N
  BY <1>3, <1>4
<1>6. ASSUME NEW k \in 1..N
      PROVE  /\ Kiosk!BatchesOf(obs)[k].id = k /\ Kiosk!BatchesOf(obs)[k].number = k - 1
             /\ Len(Kiosk!BatchesOf(obs)[k].obs) = BatchEnd(n, k) - BatchEnd(n, k - 1)
             /\ DOMAIN Kiosk!BatchesOf(obs)[k].obs = 1..Len(Kiosk!BatchesOf(obs)[k].obs)
             /\ \A j \in 1..Len(Kiosk!BatchesOf(obs)[k].obs) : Kiosk!BatchesOf(obs)[k].obs[j] = obs[BatchEnd(n, k - 1) + j]
  <2>1. PICK a, b : a = BatchEnd(n, k - 1) /\ b = BatchEnd(n, k)
    OBVIOUS
  <2>2. k \in 0..N /\ k - 1 \in 0..N
    BY <1>3
  <2>3. a \in 0..n /\ b \in 0..n /\ b - a \in 1..Chunk /\ a = (k - 1) * Chunk
    BY <1>3, <2>1, <2>2
  <2>4. PICK q : q = SubSeq(obs, a + 1, b)
    OBVIOUS
  <2>8. Kiosk!BatchesOf(obs)[k] = [id |-> k, number |-> k - 1, obs |-> q]
    BY <1>4, <2>1, <2>3, <2>4
  <2>5. /\ Kiosk!BatchesOf(obs)[k].id = k /\ Kiosk!BatchesOf(obs)[k].number = k - 1
        /\ Kiosk!BatchesOf(obs)[k].obs = q
    BY <2>8
  <2>6. PICK m \in Nat : m = b - a
    BY <1>1, <2>3
  <2>7. Len(q) = m /\ DOMAIN q = 1..m /\ \A j \in 1..m : q[j] = obs[a + j]
    <3>1. a + 1 \in Int /\ b \in Int /\ a + 1 \in 1..(n + 1) /\ b \in a..n
      BY <1>1, <2>3
    <3>2. q = [j \in 1..m |-> obs[a + j]]
      BY <1>1, <2>3, <2>4, <2>6, <3>1
    <3> QED BY <3>2, <2>6
  <2> QED BY <2>1, <2>5, <2>6, <2>7
<1>7. PICK bs : bs = Kiosk!BatchesOf(obs)
  OBVIOUS
<1>8. Batched(bs, obs, n, N)
  BY <1>3, <1>5, <1>6, <1>7 DEF Batched
<1> QED BY <1>7, <1>8

-----------------------------------------------------------------------------
(* The app's batches in the store: one row of frames *)

LEMMA Tallied ==
  ASSUME NEW S
  PROVE  Store!Cardinality(S) = Cardinality(S)
  BY DEF Store!Cardinality, Cardinality

\* The frames of a session in the order in which they were seen.
Row(all, n) ==
  /\ n \in Nat
  /\ \A i \in 1..n :
       /\ all[i].context.epoch \in Nat /\ all[i].context.seq \in Nat /\ all[i].context.at \in Nat
       /\ all[i].context.offset \in Nat /\ all[i].context.video \in Nat
       /\ all[i].context.frame = all[i].context.seq
  /\ \A i, j \in 1..n : i < j =>
       /\ all[i].context.seq < all[j].context.seq /\ all[i].context.epoch <= all[j].context.epoch
       /\ all[i].context.at <= all[j].context.at /\ all[i].context.offset <= all[j].context.offset
       /\ all[i].context.epoch = all[j].context.epoch => all[i].context.video <= all[j].context.video

\* The timeline t and its indexes hold the first m frames of the row.
Filled(t, q, h, all, m) ==
  /\ DOMAIN t = {Store!Key(all[i]) : i \in 1..m}
  /\ \A i \in 1..m : t[Store!Key(all[i])] = all[i]
  /\ DOMAIN q = {all[i].context.seq : i \in 1..m}
  /\ h = IF m = 0 THEN -1 ELSE all[m].context.epoch
  /\ IsFiniteSet(DOMAIN t) /\ Cardinality(DOMAIN t) = m

LEMMA RowGrows ==
  ASSUME NEW all, NEW n, Row(all, n), NEW m \in Nat, m < n, NEW t, NEW q, NEW h, Filled(t, q, h, all, m)
  PROVE  /\ Store!Fits(DraftOf(t, q, h), all[m + 1]) <=> m < MaxKept
         /\ \E u, r, g : /\ Store!Put(DraftOf(t, q, h), all[m + 1]) = DraftOf(u, r, g)
                         /\ Filled(u, r, g, all, m + 1)
<1> DEFINE o == all[m + 1]
           k == Store!Key(o)
           c == o.context.seq
           u == Store!With(t, k, o)
           r == Store!With(q, c, k)
<1>1. m + 1 \in 1..n /\ n \in Nat /\ \A i \in 1..m : i \in 1..n /\ i < m + 1
  BY DEF Row
<1>2. \A i \in 1..m : all[i].context.seq < c /\ all[i].context.epoch <= o.context.epoch
  BY <1>1 DEF Row
<1>3. /\ c \in Nat /\ o.context.epoch \in Nat /\ o.context.frame = c
      /\ \A i \in 1..m : /\ all[i].context.seq \in Nat /\ all[i].context.epoch \in Nat
                         /\ all[i].context.frame = all[i].context.seq
  BY <1>1 DEF Row
<1>4. k \notin DOMAIN t
  <2>1. ASSUME NEW i \in 1..m PROVE Store!Key(all[i]) # k
    <3>1. all[i].context.frame # o.context.frame
      BY <1>2, <1>3
    <3> QED BY <3>1 DEF Store!Key
  <2> QED BY <2>1 DEF Filled
<1>5. c \notin DOMAIN q
  BY <1>2, <1>3 DEF Filled
<1>6. o.context.epoch >= h
  <2>1. CASE m = 0
    BY <2>1, <1>3 DEF Filled
  <2>2. CASE m # 0
    <3>1. m \in 1..m /\ h = all[m].context.epoch
      BY <2>2 DEF Filled
    <3> QED BY <3>1, <1>2, <1>3
  <2> QED BY <2>1, <2>2
<1>7. Store!Fits(DraftOf(t, q, h), o) <=> m < MaxKept
  <2>1. /\ DraftOf(t, q, h).timeline = t /\ DraftOf(t, q, h).sequences = q
        /\ DraftOf(t, q, h).highest = h
    BY DEF DraftOf
  <2>2. Cardinality(DOMAIN t) = m
    BY DEF Filled
  <2> QED BY <1>4, <1>5, <1>6, <2>1, <2>2, Tallied DEF Store!Fits
<1>8. Store!Put(DraftOf(t, q, h), o) = DraftOf(u, r, o.context.epoch)
  BY <1>4 DEF Store!Put, DraftOf
<1>9. /\ DOMAIN u = DOMAIN t \cup {k} /\ u[k] = o
      /\ \A x \in DOMAIN t : u[x] = t[x]
      /\ DOMAIN r = DOMAIN q \cup {c}
  BY <1>4 DEF Store!With
<1> HIDE DEF u, r
<1>10. Filled(u, r, o.context.epoch, all, m + 1)
  <2>1. \A i : i \in 1..(m + 1) <=> i \in 1..m \/ i = m + 1
    OBVIOUS
  <2>2. /\ DOMAIN t = {Store!Key(all[i]) : i \in 1..m}
        /\ DOMAIN q = {all[i].context.seq : i \in 1..m}
        /\ \A i \in 1..m : t[Store!Key(all[i])] = all[i]
        /\ IsFiniteSet(DOMAIN t) /\ Cardinality(DOMAIN t) = m
    BY DEF Filled
  <2>3. DOMAIN u = {Store!Key(all[i]) : i \in 1..(m + 1)}
    BY <1>9, <2>1, <2>2
  <2>4. DOMAIN r = {all[i].context.seq : i \in 1..(m + 1)}
    BY <1>9, <2>1, <2>2
  <2>5. \A i \in 1..(m + 1) : u[Store!Key(all[i])] = all[i]
    BY <1>9, <2>1, <2>2
  <2>6. IsFiniteSet(DOMAIN u) /\ Cardinality(DOMAIN u) = m + 1
    <3>1. PICK D, E, y : D = DOMAIN t /\ E = DOMAIN u /\ y = k
      OBVIOUS
    <3>2. E = D \cup {y} /\ y \notin D
      BY <1>4, <1>9, <3>1
    <3>3. IsFiniteSet(D) /\ Cardinality(D) = m
      BY <2>2, <3>1
    <3>4. IsFiniteSet(D \cup {y}) /\ Cardinality(D \cup {y}) = Cardinality(D) + 1
      BY <3>2, <3>3, FS_AddElement
    <3> QED BY <3>1, <3>2, <3>3, <3>4, Zenon
  <2>7. o.context.epoch = IF m + 1 = 0 THEN -1 ELSE all[m + 1].context.epoch
    OBVIOUS
  <2> QED BY <2>3, <2>4, <2>5, <2>6, <2>7 DEF Filled
<1> QED BY <1>7, <1>8, <1>10

\* What is in the row is in order.
LEMMA RowInOrder ==
  ASSUME NEW all, NEW n, Row(all, n), NEW m \in 0..n, NEW t, NEW q, NEW h, Filled(t, q, h, all, m)
  PROVE  Store!InOrder(t)
<1> SUFFICES ASSUME NEW a \in Store!Contexts(t), NEW b \in Store!Contexts(t)
             PROVE  /\ Store!Before(a, b) => a.offset <= b.offset
                    /\ a.epoch = b.epoch /\ a.seq < b.seq => a.video <= b.video
  BY DEF Store!InOrder
<1>0. n \in Nat /\ \A i \in 1..m : i \in 1..n
  BY DEF Row
<1>1. \A x \in Store!Contexts(t) : \E i \in 1..n : x = all[i].context
  BY <1>0 DEF Store!Contexts, Filled
<1>2. PICK i \in 1..n, j \in 1..n : a = all[i].context /\ b = all[j].context
  BY <1>1
<1>3. /\ a.epoch \in Nat /\ a.seq \in Nat /\ a.at \in Nat /\ a.offset \in Nat /\ a.video \in Nat
      /\ b.epoch \in Nat /\ b.seq \in Nat /\ b.at \in Nat /\ b.offset \in Nat /\ b.video \in Nat
  BY <1>2 DEF Row
<1>4. i < j => /\ a.seq < b.seq /\ a.epoch <= b.epoch /\ a.at <= b.at /\ a.offset <= b.offset
               /\ a.epoch = b.epoch => a.video <= b.video
  BY <1>2 DEF Row
<1>5. j < i => b.seq < a.seq /\ b.epoch <= a.epoch /\ b.at <= a.at
  BY <1>2 DEF Row
<1>6. CASE i < j
  BY <1>4, <1>6
<1>7. CASE i = j
  BY <1>2, <1>3, <1>7
<1>8. CASE j < i
  BY <1>3, <1>5, <1>8 DEF Store!Before
<1>9. i < j \/ i = j \/ j < i
  BY <1>0
<1> QED BY <1>6, <1>7, <1>8, <1>9

-----------------------------------------------------------------------------
(* One batch of the row *)

\* The draft after the observation o.
RowAfter(d, o) == IF d.ok /\ Store!Fits(d, o) THEN Store!Put(d, o) ELSE [d EXCEPT !.ok = FALSE]

RowDrafts(f, obs, n) == f[0] = Store!Start /\ \A i \in 1..n : f[i] = RowAfter(f[i - 1], obs[i])

LEMMA RowUnfolds ==
  ASSUME NEW obs, Len(obs) \in Nat
  PROVE  \E f : Store!Draft(obs) = f[Len(obs)] /\ RowDrafts(f, obs, Len(obs))
<1> DEFINE L == Len(obs)
           D == 0..L
           Body(f, n) == IF n = 0 THEN Store!Start
                         ELSE IF f[n - 1].ok /\ Store!Fits(f[n - 1], obs[n]) THEN Store!Put(f[n - 1], obs[n])
                         ELSE [f[n - 1] EXCEPT !.ok = FALSE]
           up == CHOOSE f : f = [n \in D |-> Body(f, n)]
           T == {n \in D : \E f : f = [i \in 0..n |-> f[i]] /\ RowDrafts(f, obs, n)}
<1>1. Store!Draft(obs) = up[L]
  BY Zenon DEF Store!Draft
<1>2. T = D
  <2>1. 0 \in T
    <3> DEFINE z == [i \in 0..0 |-> Store!Start]
    <3>1. z = [i \in 0..0 |-> z[i]] /\ z[0] = Store!Start
      OBVIOUS
    <3>2. RowDrafts(z, obs, 0)
      BY <3>1 DEF RowDrafts
    <3>3. 0 \in D
      OBVIOUS
    <3> QED BY <3>1, <3>2, <3>3, Zenon
  <2>2. ASSUME NEW n \in T, n < L PROVE n + 1 \in T
    <3>1. PICK f : f = [i \in 0..n |-> f[i]] /\ RowDrafts(f, obs, n)
      OBVIOUS
    <3>2. n \in Nat /\ n + 1 \in D
      BY <2>2
    <3> DEFINE v == RowAfter(f[n], obs[n + 1])
               g == [i \in 0..(n + 1) |-> IF i = n + 1 THEN v ELSE f[i]]
    <3>v. v = RowAfter(f[n], obs[n + 1])
      OBVIOUS
    <3> HIDE DEF v
    <3>4. /\ g[n + 1] = v /\ g[n] = f[n] /\ g[0] = f[0]
          /\ \A i \in 1..n : g[i] = f[i] /\ g[i - 1] = f[i - 1]
          /\ g = [i \in 0..(n + 1) |-> g[i]]
      BY <3>2
    <3> HIDE DEF g
    <3>5. ASSUME NEW i \in 1..(n + 1) PROVE g[i] = RowAfter(g[i - 1], obs[i])
      <4>1. CASE i = n + 1
        <5>1. i - 1 = n
          BY <3>2, <4>1
        <5> QED BY <3>4, <3>v, <4>1, <5>1
      <4>2. CASE i # n + 1
        <5>1. i \in 1..n
          BY <3>2, <4>2
        <5> QED BY <3>1, <3>4, <5>1 DEF RowDrafts
      <4> QED BY <4>1, <4>2
    <3>6. RowDrafts(g, obs, n + 1)
      BY <3>1, <3>4, <3>5 DEF RowDrafts
    <3> QED BY <3>2, <3>4, <3>6
  <2> HIDE DEF T
  <2>3. T \in SUBSET (0..L)
    BY DEF T
  <2> QED BY <2>1, <2>2, <2>3, Steps
<1>3. PICK f : f = [i \in D |-> f[i]] /\ RowDrafts(f, obs, L)
  <2>1. L \in T
    BY <1>2
  <2> QED BY <2>1
<1>4. f = [n \in D |-> Body(f, n)]
  <2>1. ASSUME NEW n \in D PROVE f[n] = Body(f, n)
    <3>1. CASE n = 0
      BY <1>3, <3>1 DEF RowDrafts
    <3>2. CASE n # 0
      <4>1. n \in 1..L
        BY <3>2
      <4>2. f[n] = RowAfter(f[n - 1], obs[n])
        BY <1>3, <4>1 DEF RowDrafts
      <4> QED BY <3>2, <4>2 DEF RowAfter
    <3> QED BY <3>1, <3>2
  <2> HIDE DEF Body
  <2> QED BY <1>3, <2>1
<1>5. up = [n \in D |-> Body(up, n)]
  BY <1>4
<1> HIDE DEF up, T
<1>6. up = f
  <2> DEFINE U == {i \in D : up[i] = f[i]}
  <2>1. \A i \in D : up[i] = Body(up, i) /\ f[i] = Body(f, i)
    <3> HIDE DEF Body
    <3> QED BY <1>4, <1>5
  <2>2. 0 \in U
    <3>1. 0 \in D
      OBVIOUS
    <3>2. Body(up, 0) = Body(f, 0)
      OBVIOUS
    <3> QED BY <2>1, <3>1, <3>2
  <2>3. ASSUME NEW i \in U, i < L PROVE i + 1 \in U
    <3>1. i + 1 \in D /\ i + 1 # 0 /\ (i + 1) - 1 = i /\ up[i] = f[i]
      BY <2>3
    <3>2. Body(up, i + 1) = Body(f, i + 1)
      BY <3>1
    <3> QED BY <2>1, <3>1, <3>2
  <2>4. U \in SUBSET (0..L)
    OBVIOUS
  <2> HIDE DEF U
  <2>5. U = D
    BY <2>2, <2>3, <2>4, Steps
  <2>6. \A i \in D : up[i] = f[i]
    BY <2>5 DEF U
  <2> HIDE DEF Body
  <2> QED BY <1>3, <1>5, <2>6
<1> QED BY <1>1, <1>3, <1>6

LEMMA RowDraft ==
  ASSUME NEW all, NEW n, Row(all, n), NEW a \in 0..n, NEW b \in a..n,
         NEW obs, Len(obs) = b - a, \A j \in 1..(b - a) : obs[j] = all[a + j],
         NEW t, NEW q, NEW h, Store!Start = DraftOf(t, q, h), Filled(t, q, h, all, a),
         MaxKept \in Nat, a <= MaxKept
  PROVE  /\ b <= MaxKept => \E u, r, g : Store!Draft(obs) = DraftOf(u, r, g) /\ Filled(u, r, g, all, b)
         /\ b > MaxKept => ~Store!Draft(obs).ok
<1>1. PICK L \in Nat : L = b - a /\ n \in Nat /\ a \in Nat /\ b \in Nat /\ a + L = b
  BY DEF Row
<1>2. PICK f : Store!Draft(obs) = f[L] /\ RowDrafts(f, obs, L)
  BY <1>1, RowUnfolds
<1> DEFINE Going(d, j) == \E u, r, g : d = DraftOf(u, r, g) /\ Filled(u, r, g, all, a + j)
           T == {j \in 0..L : /\ a + j <= MaxKept => Going(f[j], j)
                              /\ a + j > MaxKept => GivenUp(f[j])}
<1>3. 0 \in T
  <2>1. f[0] = DraftOf(t, q, h) /\ a + 0 = a
    BY <1>1, <1>2 DEF RowDrafts
  <2>2. Going(f[0], 0)
    BY <2>1
  <2> HIDE DEF Going
  <2> QED BY <1>1, <2>2
<1>4. ASSUME NEW j \in T, j < L PROVE j + 1 \in T
  <2>1. /\ j \in Nat /\ j + 1 \in 1..L /\ j + 1 \in 0..L /\ (j + 1) - 1 = j
        /\ a + (j + 1) = (a + j) + 1
        /\ a + j \in Nat /\ a + j < n
    BY <1>1, <1>4
  <2>2. obs[j + 1] = all[(a + j) + 1]
    BY <1>1, <2>1
  <2>3. f[j + 1] = RowAfter(f[j], all[(a + j) + 1])
    BY <1>2, <2>1, <2>2 DEF RowDrafts
  <2>4. CASE a + j <= MaxKept
    <3>0. Going(f[j], j)
      BY <1>4, <2>4
    <3>1. PICK u, r, g : f[j] = DraftOf(u, r, g) /\ Filled(u, r, g, all, a + j)
      BY <3>0
    <3>2. /\ Store!Fits(f[j], all[(a + j) + 1]) <=> a + j < MaxKept
          /\ \E v, s, e : /\ Store!Put(f[j], all[(a + j) + 1]) = DraftOf(v, s, e)
                          /\ Filled(v, s, e, all, a + (j + 1))
      BY <2>1, <3>1, RowGrows
    <3>3. f[j].ok
      BY <3>1, SpoiledIs
    <3>4. CASE a + j < MaxKept
      <4>1. f[j + 1] = Store!Put(f[j], all[(a + j) + 1])
        BY <2>3, <3>2, <3>3, <3>4 DEF RowAfter
      <4>2. Going(f[j + 1], j + 1)
        BY <3>2, <4>1
      <4>3. ~(a + (j + 1) > MaxKept)
        BY <2>1, <3>4
      <4> HIDE DEF Going
      <4> QED BY <2>1, <4>2, <4>3
    <3>5. CASE ~(a + j < MaxKept)
      <4>1. f[j + 1] = [f[j] EXCEPT !.ok = FALSE]
        BY <2>3, <3>2, <3>5 DEF RowAfter
      <4>2. GivenUp(f[j + 1])
        BY <3>1, <4>1, SpoiledIs DEF GivenUp
      <4>3. ~(a + (j + 1) <= MaxKept)
        BY <2>1, <3>5
      <4> HIDE DEF Going
      <4> QED BY <2>1, <4>2, <4>3
    <3> QED BY <3>4, <3>5
  <2>5. CASE a + j > MaxKept
    <3>0. GivenUp(f[j])
      BY <1>4, <2>5
    <3>1. PICK u, r, g : f[j] = Spoiled(u, r, g)
      BY <3>0 DEF GivenUp
    <3>2. f[j + 1] = [f[j] EXCEPT !.ok = FALSE]
      BY <2>3, <3>1, SpoiledIs DEF RowAfter
    <3>3. GivenUp(f[j + 1])
      BY <3>1, <3>2, SpoiledIs DEF GivenUp
    <3>4. ~(a + (j + 1) <= MaxKept)
      BY <2>1, <2>5
    <3> HIDE DEF Going
    <3> QED BY <2>1, <3>3, <3>4
  <2> QED BY <2>1, <2>4, <2>5
<1> HIDE DEF Going
<1>5. T = 0..L
  <2>1. T \in SUBSET (0..L)
    OBVIOUS
  <2> HIDE DEF T
  <2> QED BY <1>1, <1>3, <1>4, <2>1, Steps
<1>6. L \in T
  BY <1>1, <1>5
<1>7. (b <= MaxKept => Going(f[L], L)) /\ (b > MaxKept => GivenUp(f[L]))
  BY <1>1, <1>6
<1>8. GivenUp(f[L]) => ~f[L].ok
  BY SpoiledIs DEF GivenUp
<1> QED BY <1>1, <1>2, <1>7, <1>8 DEF Going

\* The store takes a batch of the row in exactly if there is room for it.
LEMMA RowTaken ==
  ASSUME NEW all, NEW n, Row(all, n), NEW a \in 0..n, NEW b \in a..n,
         NEW r, Len(r.obs) = b - a, \A j \in 1..(b - a) : r.obs[j] = all[a + j],
         Filled(timeline, sequences, highest, all, a), MaxKept \in Nat, a <= MaxKept
  PROVE  /\ Store!AppendNew(r) => Filled(timeline', sequences', highest', all, b) /\ b <= MaxKept
         /\ Store!AppendRefused(r) /\ ~Store!Used(r) /\ ~Store!Renumbered(r) => b > MaxKept
<1>0. n \in Nat /\ a \in Nat /\ b \in Nat /\ b \in 0..n
  BY DEF Row
<1>1. PICK t, q, h : t = timeline /\ q = sequences /\ h = highest
  OBVIOUS
<1>2. Store!Start = DraftOf(t, q, h)
  BY <1>1 DEF Store!Start, DraftOf
<1>3. Filled(t, q, h, all, a)
  BY <1>1 DEF Filled
<1>4. /\ b <= MaxKept => \E u, v, g : Store!Draft(r.obs) = DraftOf(u, v, g) /\ Filled(u, v, g, all, b)
      /\ b > MaxKept => ~Store!Draft(r.obs).ok
  BY <1>2, <1>3, RowDraft
<1>5. b <= MaxKept => Store!Acceptable(Store!Draft(r.obs))
  <2> SUFFICES ASSUME b <= MaxKept PROVE Store!Acceptable(Store!Draft(r.obs))
    OBVIOUS
  <2>1. PICK u, v, g : Store!Draft(r.obs) = DraftOf(u, v, g) /\ Filled(u, v, g, all, b)
    BY <1>4
  <2>2. Store!InOrder(u)
    BY <1>0, <2>1, RowInOrder
  <2>3. DraftOf(u, v, g).timeline = u
    BY DEF DraftOf
  <2> QED BY <2>1, <2>2, <2>3, SpoiledIs DEF Store!Acceptable
<1>6. ASSUME Store!AppendNew(r) PROVE Filled(timeline', sequences', highest', all, b) /\ b <= MaxKept
  <2>1. PICK d : /\ d = Store!Draft(r.obs) /\ Store!Acceptable(d)
                 /\ timeline' = d.timeline /\ sequences' = d.sequences /\ highest' = d.highest
    BY <1>6 DEF Store!AppendNew
  <2>2. b <= MaxKept
    BY <1>0, <1>4, <2>1 DEF Store!Acceptable
  <2>3. PICK u, v, g : d = DraftOf(u, v, g) /\ Filled(u, v, g, all, b)
    BY <1>4, <2>1, <2>2
  <2>4. timeline' = u /\ sequences' = v /\ highest' = g
    BY <2>1, <2>3 DEF DraftOf
  <2> QED BY <2>2, <2>3, <2>4
<1>7. ASSUME Store!AppendRefused(r), ~Store!Used(r), ~Store!Renumbered(r) PROVE b > MaxKept
  BY <1>0, <1>5, <1>7 DEF Store!AppendRefused
<1> QED BY <1>6, <1>7

-----------------------------------------------------------------------------
(* The app's submission *)

\* An observation of the frame f.
Tells(o, f) ==
  /\ o.seq = f.seq /\ o.at = f.at /\ o.video = f.video /\ o.epoch = f.epoch /\ o.gaze = f.gaze
  /\ o.attention = "point" => Kiosk!Valid(o)

\* One observation for each frame there was a result for.
Covers(obs, n) ==
  /\ n \in Nat /\ n = Cardinality(Kiosk!Collected)
  /\ \A i \in 1..n : \E f \in Kiosk!Collected : Tells(obs[i], f)
  /\ \A f \in Kiosk!Collected : \E i \in 1..n : Tells(obs[i], f)

RowOf(obs, n) == [i \in 1..n |-> Received(obs[i])]

\* The store has what was accepted, and nothing else.
Underway(obs, n, N) ==
  /\ Covers(obs, n) /\ Row(RowOf(obs, n), n) /\ Batched(batches, obs, n, N)
  /\ sent \in 0..N /\ BatchEnd(n, sent) <= MaxKept
  /\ Filled(timeline, sequences, highest, RowOf(obs, n), BatchEnd(n, sent))
  /\ DOMAIN fingerprints = 1..sent /\ DOMAIN numbers = 0..(sent - 1)

RefusedRightly ==
  \/ Cardinality(Kiosk!Collected) > MaxKept
  \/ \E f \in Kiosk!Collected : f.video = Length

HandedOver ==
  /\ Cardinality(DOMAIN given) = Cardinality(Kiosk!Collected)
  /\ \A f \in Kiosk!Collected :
       /\ <<f.epoch, f.seq>> \in DOMAIN given
       /\ given[<<f.epoch, f.seq>>].context.at = f.at
       /\ given[<<f.epoch, f.seq>>].context.video = f.video
       /\ given[<<f.epoch, f.seq>>].sample["gaze"] = "v" <=> Kiosk!Valid(f)

BatchesFit == \A k \in 1..Len(batches) : Len(batches[k].obs) \in 1..Chunk

SubmissionInv ==
  /\ stage \in {"watching", "ended", "sending", "completed", "refused", "discarded"}
  /\ BatchesFit
  /\ stage \in {"watching", "ended"} =>
       /\ batches = <<>> /\ sent = 0
       /\ timeline = Store!Empty /\ sequences = Store!Empty /\ highest = -1
       /\ fingerprints = Store!Empty /\ numbers = Store!Empty
  /\ stage = "sending" => \E obs, n, N : Underway(obs, n, N)
  /\ stage = "refused" => RefusedRightly
  /\ stage = "completed" => HandedOver

LEMMA SubmissionBegins ==
  ASSUME Kiosk!Init, Buffer!Init
  PROVE  SubmissionInv
<1>1. BatchesFit
  BY DEF Kiosk!Init, BatchesFit
<1>2. Buffer!Empty = Store!Empty
  BY DEF Buffer!Empty, Store!Empty
<1> QED BY <1>1, <1>2 DEF Kiosk!Init, Buffer!Init, SubmissionInv

\* What the app makes of the frames covers them, and is in their order.
LEMMA RowFits ==
  ASSUME PlayerInv
  PROVE  \E n, S : /\ Kiosk!Observations \in Seq(S) /\ Len(Kiosk!Observations) = n
                   /\ Covers(Kiosk!Observations, n) /\ Row(RowOf(Kiosk!Observations, n), n)
<1>1. PICK fr, n : fr = Kiosk!Frames /\ n = Cardinality(Kiosk!Collected) /\ Lists(fr, n, Kiosk!Collected)
  BY FramesAre
<1>2. PICK obs : obs = Kiosk!Observations
  OBVIOUS
<1>3. /\ Len(obs) = n /\ \E S : obs \in Seq(S)
      /\ \A i \in 1..n : Reports(obs[i], fr, i)
  BY <1>1, <1>2, ObservationsAre
<1>4. n \in Nat /\ Length \in Nat
  BY <1>1, PlayerIs DEF Lists
<1>5. ASSUME NEW i \in 1..n
      PROVE  /\ obs[i].seq = fr[i].seq /\ obs[i].at = fr[i].at /\ obs[i].video = fr[i].video
             /\ obs[i].epoch = fr[i].epoch /\ obs[i].gaze = fr[i].gaze
             /\ obs[i].offset = fr[i].at - fr[1].at
             /\ Tells(obs[i], fr[i])
  <2>1. PICK e : obs[i] = Entry(fr[i], fr[i].at - fr[1].at, e)
    BY <1>3 DEF Reports
  <2>2. PICK o : o = obs[i]
    OBVIOUS
  <2>3. /\ o.seq = fr[i].seq /\ o.at = fr[i].at /\ o.video = fr[i].video
        /\ o.epoch = fr[i].epoch /\ o.gaze = fr[i].gaze
        /\ o.offset = fr[i].at - fr[1].at /\ o.attention = Kiosk!Attention(fr[i])
    BY <2>1, <2>2 DEF Entry
  <2>4. o.attention = "point" => Kiosk!Valid(o)
    <3>1. Kiosk!Valid(fr[i]) => Kiosk!Valid(o)
      BY <2>3 DEF Kiosk!Valid
    <3>2. ~Kiosk!Valid(fr[i]) => o.attention = "source_gaze_unavailable"
      BY <2>3 DEF Kiosk!Attention
    <3> QED BY <3>1, <3>2
  <2> QED BY <2>2, <2>3, <2>4 DEF Tells
<1>6. Covers(obs, n)
  BY <1>1, <1>4, <1>5 DEF Covers, Lists
<1> DEFINE all == RowOf(obs, n)
<1>7. ASSUME NEW i \in 1..n
      PROVE  /\ all[i].context.epoch = fr[i].epoch /\ all[i].context.seq = fr[i].seq
             /\ all[i].context.frame = fr[i].seq /\ all[i].context.at = fr[i].at
             /\ all[i].context.offset = fr[i].at - fr[1].at /\ all[i].context.video = fr[i].video
  <2>1. all[i] = Received(obs[i])
    BY DEF RowOf
  <2>2. PICK c : c = Received(obs[i]).context
    OBVIOUS
  <2>3. c = [epoch |-> obs[i].epoch, frame |-> obs[i].seq, seq |-> obs[i].seq, at |-> obs[i].at,
             offset |-> obs[i].offset, video |-> obs[i].video]
    BY <2>2 DEF Received
  <2>4. /\ c.epoch = obs[i].epoch /\ c.frame = obs[i].seq /\ c.seq = obs[i].seq /\ c.at = obs[i].at
        /\ c.offset = obs[i].offset /\ c.video = obs[i].video
    BY <2>3
  <2> HIDE DEF all
  <2> QED BY <1>5, <2>1, <2>2, <2>4
<1> HIDE DEF all
<1>8. ASSUME NEW i \in 1..n
      PROVE  /\ fr[i].epoch \in Nat /\ fr[i].seq \in Nat /\ fr[i].at \in Nat /\ fr[i].video \in Nat
             /\ fr[i].at - fr[1].at \in Nat
  <2>1. fr[i] \in Results /\ fr[i].at \in Nat /\ fr[1].at \in Nat /\ fr[1].at <= fr[i].at
    BY <1>1, FrameIs
  <2>2. fr[i].epoch \in Nat /\ fr[i].seq \in Nat /\ fr[i].video \in Nat
    BY <1>4, <2>1 DEF Results
  <2> QED BY <2>1, <2>2
<1>9. ASSUME NEW i \in 1..n, NEW j \in 1..n, i < j
      PROVE  /\ fr[i].seq < fr[j].seq /\ fr[i].epoch <= fr[j].epoch /\ fr[i].at <= fr[j].at
             /\ fr[i].at - fr[1].at <= fr[j].at - fr[1].at
             /\ fr[i].epoch = fr[j].epoch => fr[i].video <= fr[j].video
  <2>1. fr[i].seq < fr[j].seq /\ Follows(fr[i], fr[j])
    BY <1>1, <1>9, FramesFollow
  <2>2. fr[i].at \in Nat /\ fr[j].at \in Nat /\ fr[1].at \in Nat
    BY <1>1, FrameIs
  <2> QED BY <2>1, <2>2 DEF Follows
<1>10. Row(all, n)
  BY <1>4, <1>7, <1>8, <1>9 DEF Row
<1> QED BY <1>2, <1>3, <1>6, <1>10 DEF all

LEMMA BuildSubmits ==
  ASSUME PlayerInv, SubmissionInv, Kiosk!Build, UNCHANGED bufferVars
  PROVE  SubmissionInv'
<1>1. /\ stage' = "sending" /\ batches' = Kiosk!BatchesOf(Kiosk!Observations) /\ sent' = sent
      /\ samples' = samples /\ missing' = missing
  BY NoConflict DEF Kiosk!Build, Kiosk!results
<1>2. /\ sent = 0 /\ timeline = Store!Empty /\ sequences = Store!Empty /\ highest = -1
      /\ fingerprints = Store!Empty /\ numbers = Store!Empty
  BY DEF SubmissionInv, Kiosk!Build
<1>3. /\ timeline' = timeline /\ sequences' = sequences /\ highest' = highest
      /\ fingerprints' = fingerprints /\ numbers' = numbers
  BY DEF bufferVars
<1>4. PICK obs, n, S : /\ obs = Kiosk!Observations /\ obs \in Seq(S) /\ Len(obs) = n
                       /\ Covers(obs, n) /\ Row(RowOf(obs, n), n)
  BY RowFits
<1>5. PICK N : Batched(Kiosk!BatchesOf(obs), obs, n, N)
  <2>1. n = Len(obs)
    BY <1>4
  <2> QED BY <1>4, <2>1, BatchesAre
<1>6. batches' = Kiosk!BatchesOf(obs)
  BY <1>1, <1>4
<1>7. Covers(obs, n)'
  <2>1. Kiosk!Collected' = Kiosk!Collected
    BY <1>1 DEF Kiosk!Collected
  <2> QED BY <1>4, <2>1 DEF Covers
<1>8. /\ N \in Nat /\ BatchEnd(n, 0) = 0 /\ Len(Kiosk!BatchesOf(obs)) = N
      /\ \A k \in 1..N : Len(Kiosk!BatchesOf(obs)[k].obs) \in 1..Chunk
  BY <1>5 DEF Batched
<1>9. DOMAIN Store!Empty = {}
  BY DEF Store!Empty
<1>10. Filled(timeline', sequences', highest', RowOf(obs, n), 0)
  <2>1. IsFiniteSet({}) /\ Cardinality({}) = 0
    BY FS_EmptySet
  <2>2. 1..0 = {}
    OBVIOUS
  <2> QED BY <1>2, <1>3, <1>9, <2>1, <2>2 DEF Filled
<1>11. Underway(obs, n, N)'
  <2>1. sent' \in 0..N /\ BatchEnd(n, sent') <= MaxKept
    BY <1>1, <1>2, <1>8, ObservationsAssumption
  <2>2. Filled(timeline', sequences', highest', RowOf(obs, n), BatchEnd(n, sent'))
    BY <1>1, <1>2, <1>8, <1>10
  <2>3. DOMAIN fingerprints' = 1..sent' /\ DOMAIN numbers' = 0..(sent' - 1)
    <3>1. 1..0 = {} /\ 0..(0 - 1) = {}
      OBVIOUS
    <3> QED BY <1>1, <1>2, <1>3, <1>9, <3>1
  <2>4. Batched(batches', obs, n, N)
    BY <1>5, <1>6
  <2> QED BY <1>4, <1>7, <2>1, <2>2, <2>3, <2>4 DEF Underway
<1>12. BatchesFit'
  BY <1>6, <1>8 DEF BatchesFit
<1> QED BY <1>1, <1>11, <1>12 DEF SubmissionInv

\* Until the app has built its batches, nothing is submitted.
LEMMA WatchSubmits ==
  ASSUME PlayerInv, SubmissionInv, Kiosk!Watch, UNCHANGED bufferVars
  PROVE  SubmissionInv'
<1>1. CASE Kiosk!Build
  BY <1>1, BuildSubmits
<1>2. CASE ~Kiosk!Build
  <2>1. /\ stage \in {"watching", "ended"} /\ stage' \in {"watching", "ended"}
        /\ batches' = batches /\ sent' = sent
    <3>1. ASSUME NEW d, Kiosk!TimePasses(d)
          PROVE stage = "watching" /\ stage' = stage /\ batches' = batches /\ sent' = sent
      BY <3>1 DEF Kiosk!TimePasses, Kiosk!submission
    <3>2. ASSUME Kiosk!Pause
          PROVE stage = "watching" /\ stage' = stage /\ batches' = batches /\ sent' = sent
      BY <3>2 DEF Kiosk!Pause, Kiosk!submission
    <3>3. ASSUME Kiosk!Play
          PROVE stage = "watching" /\ stage' = stage /\ batches' = batches /\ sent' = sent
      BY <3>3 DEF Kiosk!Play, Kiosk!submission
    <3>4. ASSUME NEW t, Kiosk!Seek(t)
          PROVE stage = "watching" /\ stage' = stage /\ batches' = batches /\ sent' = sent
      BY <3>4 DEF Kiosk!Seek, Kiosk!submission
    <3>5. ASSUME Kiosk!Capture
          PROVE stage = "watching" /\ stage' = stage /\ batches' = batches /\ sent' = sent
      BY <3>5 DEF Kiosk!Capture, Kiosk!submission
    <3>6. ASSUME NEW r, Kiosk!Heard(r)
          PROVE /\ stage \in {"watching", "ended"} /\ stage' = stage /\ batches' = batches
                /\ sent' = sent
      BY <3>6 DEF Kiosk!Heard, Kiosk!AtWork, Kiosk!submission
    <3>7. ASSUME Kiosk!NotHeard \/ Kiosk!Fails
          PROVE /\ stage \in {"watching", "ended"} /\ stage' = stage /\ batches' = batches
                /\ sent' = sent
      BY <3>7 DEF Kiosk!NotHeard, Kiosk!Fails, Kiosk!AtWork, Kiosk!submission
    <3>8. ASSUME Kiosk!Ended
          PROVE stage = "watching" /\ stage' = "ended" /\ batches' = batches /\ sent' = sent
      BY <3>8 DEF Kiosk!Ended
    <3> QED BY <1>2, <3>1, <3>2, <3>3, <3>4, <3>5, <3>6, <3>7, <3>8 DEF Kiosk!Watch
  <2>2. /\ batches = <<>> /\ sent = 0
        /\ timeline = Store!Empty /\ sequences = Store!Empty /\ highest = -1
        /\ fingerprints = Store!Empty /\ numbers = Store!Empty
    BY <2>1 DEF SubmissionInv
  <2>3. /\ timeline' = timeline /\ sequences' = sequences /\ highest' = highest
        /\ fingerprints' = fingerprints /\ numbers' = numbers
    BY DEF bufferVars
  <2>4. BatchesFit'
    BY <2>1, <2>2 DEF BatchesFit
  <2>5. stage' \notin {"sending", "refused", "completed"}
    BY <2>1
  <2> QED BY <2>1, <2>2, <2>3, <2>4, <2>5 DEF SubmissionInv
<1> QED BY <1>1, <1>2

\* The request that comes next, and the part of the row it has.
NextRequest(obs, n, k, a, b) ==
  /\ b \in a..n /\ k = sent + 1 /\ a = BatchEnd(n, sent) /\ b = BatchEnd(n, k) /\ a <= MaxKept
  /\ Request.id = k /\ Request.seq = sent /\ Len(Request.obs) = b - a
  /\ \A j \in 1..(b - a) : Request.obs[j] = RowOf(obs, n)[a + j]
  /\ \A o \in Kiosk!ToSet(batches[k].obs) : \E i \in 1..n : o = obs[i]

LEMMA RequestIs ==
  ASSUME NEW obs, NEW n, NEW N, Underway(obs, n, N), sent < Len(batches)
  PROVE  \E k \in 1..N, a \in 0..n, b \in 0..n : NextRequest(obs, n, k, a, b)
<1>1. PICK bs, c : bs = batches /\ c = sent
  OBVIOUS
<1>2. /\ N \in Nat /\ Len(bs) = N /\ n \in Nat /\ c \in 0..N /\ c < N /\ BatchEnd(n, c) <= MaxKept
      /\ \A k \in 0..N : BatchEnd(n, k) \in 0..n
  BY <1>1 DEF Underway, Batched, Covers
<1>3. PICK k \in 1..N : k = c + 1 /\ k - 1 = c /\ k \in 0..N
  <2>1. c + 1 \in 1..N /\ (c + 1) - 1 = c /\ c + 1 \in 0..N
    BY <1>2
  <2> QED BY <2>1
<1>4. PICK a \in 0..n, b \in 0..n : a = BatchEnd(n, c) /\ b = BatchEnd(n, k)
  BY <1>2, <1>3
<1>5. PICK q, r : q = bs[k] /\ r = q.obs
  OBVIOUS
<1>6. /\ q.id = k /\ q.number = c /\ Len(r) = b - a /\ Len(r) \in 1..Chunk /\ DOMAIN r = 1..Len(r)
      /\ \A j \in 1..Len(r) : r[j] = obs[a + j]
  <2>1. Batched(bs, obs, n, N)
    BY <1>1 DEF Underway
  <2>2. /\ bs[k].id = k /\ bs[k].number = k - 1
        /\ Len(bs[k].obs) = BatchEnd(n, k) - BatchEnd(n, k - 1)
        /\ Len(bs[k].obs) \in 1..Chunk /\ DOMAIN bs[k].obs = 1..Len(bs[k].obs)
        /\ \A j \in 1..Len(bs[k].obs) : bs[k].obs[j] = obs[BatchEnd(n, k - 1) + j]
    BY <2>1 DEF Batched
  <2> QED BY <1>3, <1>4, <1>5, <2>2
<1>7. b \in a..n /\ b - a \in Nat
  BY <1>2, <1>4, <1>6
<1>8. Request = [id |-> k, seq |-> c, obs |-> [i \in 1..(b - a) |-> Received(r[i])]]
  BY <1>1, <1>3, <1>5, <1>6 DEF Request
<1>9. PICK s : s = [i \in 1..(b - a) |-> Received(r[i])]
  OBVIOUS
<1>10. Len(s) = b - a /\ \A i \in 1..(b - a) : s[i] = Received(r[i])
  BY <1>7, <1>9
<1>11. Request.id = k /\ Request.seq = c /\ Request.obs = s
  BY <1>8, <1>9
<1>12. ASSUME NEW j \in 1..(b - a) PROVE s[j] = RowOf(obs, n)[a + j] /\ a + j \in 1..n /\ r[j] = obs[a + j]
  <2>1. a + j \in 1..n /\ r[j] = obs[a + j]
    BY <1>2, <1>6, <1>7
  <2> QED BY <1>10, <2>1 DEF RowOf
<1>13. \A o \in Kiosk!ToSet(r) : \E i \in 1..n : o = obs[i]
  BY <1>6, <1>12 DEF Kiosk!ToSet
<1>14. b \in a..n /\ k = sent + 1 /\ a = BatchEnd(n, sent) /\ b = BatchEnd(n, k) /\ a <= MaxKept
  BY <1>1, <1>2, <1>3, <1>4, <1>7
<1>15. /\ Request.id = k /\ Request.seq = sent /\ Len(Request.obs) = b - a
       /\ \A j \in 1..(b - a) : Request.obs[j] = RowOf(obs, n)[a + j]
  BY <1>1, <1>10, <1>11, <1>12
<1>16. \A o \in Kiosk!ToSet(batches[k].obs) : \E i \in 1..n : o = obs[i]
  BY <1>1, <1>5, <1>13
<1> QED BY <1>14, <1>15, <1>16 DEF NextRequest

\* A batch is accepted: the store has one more.
LEMMA AcceptedKeeps ==
  ASSUME PlayerInv, SubmissionInv, Kiosk!Accepted, Store!Append202(Request)
  PROVE  SubmissionInv'
<1>1. /\ stage = "sending" /\ sent < Len(batches) /\ sent' = sent + 1
      /\ stage' = stage /\ batches' = batches /\ samples' = samples /\ missing' = missing
  BY DEF Kiosk!Accepted, Kiosk!Sending, Kiosk!results
<1>2. PICK obs, n, N : Underway(obs, n, N)
  BY <1>1 DEF SubmissionInv
<1>2a. PICK k \in 1..N, a \in 0..n, b \in 0..n : NextRequest(obs, n, k, a, b)
  BY <1>1, <1>2, RequestIs
<1>3. /\ b \in a..n /\ k = sent + 1 /\ a = BatchEnd(n, sent) /\ b = BatchEnd(n, k) /\ a <= MaxKept
      /\ Request.id = k /\ Request.seq = sent /\ Len(Request.obs) = b - a
      /\ \A j \in 1..(b - a) : Request.obs[j] = RowOf(obs, n)[a + j]
  BY <1>2a DEF NextRequest
<1>4. PICK c, r : c = sent /\ r = Request /\ k = c + 1 /\ r.id = k /\ r.seq = c
  BY <1>3
<1>5. N \in Nat /\ c \in 0..N
  BY <1>2, <1>4 DEF Underway, Batched
<1>6. DOMAIN fingerprints = 1..c /\ DOMAIN numbers = 0..(c - 1)
  BY <1>2, <1>4 DEF Underway
<1>7. ~Store!Used(r)
  BY <1>4, <1>5, <1>6 DEF Store!Used
<1>8. Store!AppendNew(r)
  BY <1>4, <1>7 DEF Store!Append202, Store!AppendAgain
<1>9. Filled(timeline', sequences', highest', RowOf(obs, n), b) /\ b <= MaxKept
  <2>1. Row(RowOf(obs, n), n) /\ Filled(timeline, sequences, highest, RowOf(obs, n), a)
    BY <1>2, <1>3 DEF Underway
  <2>2. Len(r.obs) = b - a /\ \A j \in 1..(b - a) : r.obs[j] = RowOf(obs, n)[a + j]
    BY <1>3, <1>4
  <2>3. MaxKept \in Nat /\ a <= MaxKept /\ b \in a..n
    BY <1>3, ObservationsAssumption
  <2> QED BY <1>8, <2>1, <2>2, <2>3, RowTaken
<1>10. DOMAIN fingerprints' = 1..(c + 1) /\ DOMAIN numbers' = 0..c
  <2>1. fingerprints' = Store!With(fingerprints, k, r) /\ numbers' = Store!With(numbers, c, k)
    BY <1>4, <1>8 DEF Store!AppendNew
  <2>2. DOMAIN fingerprints' = 1..c \cup {k} /\ DOMAIN numbers' = 0..(c - 1) \cup {c}
    BY <1>6, <2>1 DEF Store!With
  <2> QED BY <1>4, <1>5, <2>2
<1>11. Covers(obs, n)'
  <2>1. Kiosk!Collected' = Kiosk!Collected
    BY <1>1 DEF Kiosk!Collected
  <2> QED BY <1>2, <2>1 DEF Covers, Underway
<1>12. Underway(obs, n, N)'
  <2>1. sent' \in 0..N /\ sent' = k /\ BatchEnd(n, sent') = b /\ sent' - 1 = c
    BY <1>1, <1>3, <1>4, <1>5
  <2>2. Batched(batches', obs, n, N) /\ Row(RowOf(obs, n), n)
    BY <1>1, <1>2 DEF Underway
  <2>3. DOMAIN fingerprints' = 1..sent' /\ DOMAIN numbers' = 0..(sent' - 1)
    BY <1>4, <1>10, <2>1
  <2> QED BY <1>9, <1>11, <2>1, <2>2, <2>3 DEF Underway
<1>13. BatchesFit'
  BY <1>1 DEF SubmissionInv, BatchesFit
<1> QED BY <1>1, <1>12, <1>13 DEF SubmissionInv

\* A batch is refused: for its frames, or for their number.
LEMMA RefusedKeeps ==
  ASSUME PlayerInv, SubmissionInv, Kiosk!Refused,
         ~Kiosk!Admitted(batches[sent + 1]) \/ Store!AppendRefused(Request)
  PROVE  SubmissionInv'
<1>1. /\ stage = "sending" /\ sent < Len(batches) /\ stage' = "refused"
      /\ batches' = batches /\ samples' = samples /\ missing' = missing
  BY DEF Kiosk!Refused, Kiosk!Sending, Kiosk!results
<1>2. PICK obs, n, N : Underway(obs, n, N)
  BY <1>1 DEF SubmissionInv
<1>2a. PICK k \in 1..N, a \in 0..n, b \in 0..n : NextRequest(obs, n, k, a, b)
  BY <1>1, <1>2, RequestIs
<1>3. /\ b \in a..n /\ k = sent + 1 /\ a = BatchEnd(n, sent) /\ b = BatchEnd(n, k) /\ a <= MaxKept
      /\ Request.id = k /\ Request.seq = sent /\ Len(Request.obs) = b - a
      /\ \A j \in 1..(b - a) : Request.obs[j] = RowOf(obs, n)[a + j]
      /\ \A o \in Kiosk!ToSet(batches[k].obs) : \E i \in 1..n : o = obs[i]
  BY <1>2a DEF NextRequest
<1>4. n \in Nat /\ n = Cardinality(Kiosk!Collected)
      /\ \A i \in 1..n : \E f \in Kiosk!Collected : Tells(obs[i], f)
  BY <1>2 DEF Underway, Covers
<1>5. RefusedRightly
  <2>1. CASE ~Kiosk!Admitted(batches[sent + 1])
    <3>1. PICK o \in Kiosk!ToSet(batches[k].obs) : ~((o.attention = "point" => Kiosk!Valid(o)) /\ o.video < Length)
      BY <1>3, <2>1 DEF Kiosk!Admitted
    <3>2. PICK i \in 1..n : o = obs[i]
      BY <1>3, <3>1
    <3>3. PICK f \in Kiosk!Collected : Tells(o, f)
      BY <1>4, <3>2
    <3>4. f.video \in 0..Length /\ Length \in Nat
      BY PlayerIs DEF Results
    <3>5. ~(o.video < Length) /\ o.video = f.video
      BY <3>1, <3>3 DEF Tells
    <3>6. f.video = Length
      BY <3>4, <3>5
    <3> QED BY <3>6 DEF RefusedRightly
  <2>2. CASE Store!AppendRefused(Request)
    <3>1. PICK c, r : c = sent /\ r = Request /\ k = c + 1 /\ r.id = k /\ r.seq = c
      BY <1>3
    <3>2. N \in Nat /\ c \in 0..N /\ DOMAIN fingerprints = 1..c /\ DOMAIN numbers = 0..(c - 1)
      BY <1>2, <3>1 DEF Underway, Batched
    <3>3. ~Store!Used(r) /\ ~Store!Renumbered(r)
      BY <3>1, <3>2 DEF Store!Used, Store!Renumbered
    <3>4. Row(RowOf(obs, n), n) /\ Filled(timeline, sequences, highest, RowOf(obs, n), a)
      BY <1>2, <1>3 DEF Underway
    <3>5. Len(r.obs) = b - a /\ \A j \in 1..(b - a) : r.obs[j] = RowOf(obs, n)[a + j]
      BY <1>3, <3>1
    <3>6. MaxKept \in Nat /\ a <= MaxKept /\ b \in a..n
      BY <1>3, ObservationsAssumption
    <3>7. Store!AppendRefused(r)
      BY <2>2, <3>1
    <3>8. b > MaxKept
      BY <3>3, <3>4, <3>5, <3>6, <3>7, RowTaken
    <3>9. n > MaxKept
      BY <1>4, <3>6, <3>8
    <3> QED BY <1>4, <3>9 DEF RefusedRightly
  <2> QED BY <2>1, <2>2
<1>6. RefusedRightly'
  <2>1. Kiosk!Collected' = Kiosk!Collected
    BY <1>1 DEF Kiosk!Collected
  <2> QED BY <1>5, <2>1 DEF RefusedRightly
<1>7. BatchesFit'
  BY <1>1 DEF SubmissionInv, BatchesFit
<1> QED BY <1>1, <1>6, <1>7 DEF SubmissionInv

\* Everything is accepted and handed over.
LEMMA CompletedKeeps ==
  ASSUME PlayerInv, SubmissionInv, Kiosk!Completed, Store!Complete
  PROVE  SubmissionInv'
<1>1. /\ stage = "sending" /\ sent = Len(batches) /\ stage' = "completed"
      /\ batches' = batches /\ samples' = samples /\ missing' = missing /\ given' = timeline
  BY DEF Kiosk!Completed, Kiosk!results, Store!Complete
<1>2. PICK obs, n, N : Underway(obs, n, N)
  BY <1>1 DEF SubmissionInv
<1>3. BatchEnd(n, sent) = n
  BY <1>1, <1>2 DEF Underway, Batched
<1>4. PICK t, all : t = timeline /\ all = RowOf(obs, n)
  OBVIOUS
<1>5. /\ DOMAIN t = {Store!Key(all[i]) : i \in 1..n} /\ Cardinality(DOMAIN t) = n
      /\ \A i \in 1..n : t[Store!Key(all[i])] = all[i]
  BY <1>2, <1>3, <1>4 DEF Underway, Filled
<1>6. /\ n = Cardinality(Kiosk!Collected)
      /\ \A f \in Kiosk!Collected : \E i \in 1..n : Tells(obs[i], f)
  BY <1>2 DEF Underway, Covers
<1>7. ASSUME NEW f \in Kiosk!Collected
      PROVE  /\ <<f.epoch, f.seq>> \in DOMAIN t
             /\ t[<<f.epoch, f.seq>>].context.at = f.at
             /\ t[<<f.epoch, f.seq>>].context.video = f.video
             /\ t[<<f.epoch, f.seq>>].sample["gaze"] = "v" <=> Kiosk!Valid(f)
  <2>1. PICK i \in 1..n : Tells(obs[i], f)
    BY <1>6
  <2>2. PICK o, p : o = obs[i] /\ p = Received(o) /\ p = all[i]
    BY <1>4 DEF RowOf
  <2>3. o.seq = f.seq /\ o.at = f.at /\ o.video = f.video /\ o.epoch = f.epoch /\ o.gaze = f.gaze
    BY <2>1, <2>2 DEF Tells
  <2>4. p = [context |-> [epoch |-> o.epoch, frame |-> o.seq, seq |-> o.seq, at |-> o.at,
                          offset |-> o.offset, video |-> o.video],
             sample |-> [m \in {"gaze", "expression"} |->
               IF m = "expression" THEN "not_observed"
               ELSE IF Kiosk!Valid(o) THEN "v" ELSE o.gaze]]
    BY <2>2 DEF Received
  <2>5. /\ p.context.epoch = o.epoch /\ p.context.frame = o.seq /\ p.context.at = o.at
        /\ p.context.video = o.video
        /\ p.sample["gaze"] = IF Kiosk!Valid(o) THEN "v" ELSE o.gaze
    BY <2>4
  <2>6. Store!Key(p) = <<f.epoch, f.seq>>
    BY <2>3, <2>5 DEF Store!Key
  <2>7. <<f.epoch, f.seq>> \in DOMAIN t /\ t[<<f.epoch, f.seq>>] = p
    BY <1>5, <2>2, <2>6
  <2>8. f.gaze \in {"point", "no_face", "not_observed"}
    BY PlayerIs DEF Results
  <2>9. p.sample["gaze"] = "v" <=> Kiosk!Valid(f)
    BY <2>3, <2>5, <2>8 DEF Kiosk!Valid
  <2> QED BY <2>3, <2>5, <2>7, <2>9
<1>8. HandedOver'
  <2>1. Kiosk!Collected' = Kiosk!Collected
    BY <1>1 DEF Kiosk!Collected
  <2>2. given' = t
    BY <1>1, <1>4
  <2> QED BY <1>5, <1>6, <1>7, <2>1, <2>2 DEF HandedOver
<1>9. BatchesFit'
  BY <1>1 DEF SubmissionInv, BatchesFit
<1> QED BY <1>1, <1>8, <1>9 DEF SubmissionInv

LEMMA SubmissionStep ==
  ASSUME PlayerInv, SubmissionInv, PlayerNext
  PROVE  PlayerInv' /\ SubmissionInv'
<1>1. ASSUME Kiosk!Watch, UNCHANGED bufferVars PROVE PlayerInv' /\ SubmissionInv'
  BY <1>1, WatchKeeps, WatchSubmits
<1>2. ASSUME Kiosk!Accepted, Store!Append202(Request) PROVE PlayerInv' /\ SubmissionInv'
  BY <1>2, AcceptedKeeps, PlayerStays DEF Kiosk!Accepted
<1>3. ASSUME Kiosk!Refused, ~Kiosk!Admitted(batches[sent + 1]) \/ Store!AppendRefused(Request)
      PROVE PlayerInv' /\ SubmissionInv'
  BY <1>3, RefusedKeeps, PlayerStays DEF Kiosk!Refused
<1>4. ASSUME Kiosk!Completed, Store!Complete PROVE PlayerInv' /\ SubmissionInv'
  BY <1>4, CompletedKeeps, PlayerStays DEF Kiosk!Completed
<1>5. ASSUME Kiosk!Discarded PROVE PlayerInv' /\ SubmissionInv'
  <2>1. stage' = "discarded" /\ batches' = batches
    BY <1>5 DEF Kiosk!Discarded
  <2>2. BatchesFit'
    BY <2>1 DEF SubmissionInv, BatchesFit
  <2>3. SubmissionInv'
    BY <2>1, <2>2 DEF SubmissionInv
  <2> QED BY <1>5, <2>3, PlayerStays DEF Kiosk!Discarded
<1> QED BY <1>1, <1>2, <1>3, <1>4, <1>5 DEF PlayerNext

LEMMA SubmissionHolds ==
  ASSUME PlayerInv, SubmissionInv
  PROVE  /\ \A k \in 1..Len(batches) : Len(batches[k].obs) \in 1..Chunk
         /\ stage = "refused" =>
              \/ Len(Kiosk!Frames) > MaxKept
              \/ \E f \in Kiosk!Collected : f.video = Length
         /\ stage = "completed" => HandedOver
<1>1. Len(Kiosk!Frames) = Cardinality(Kiosk!Collected)
  BY FramesAre DEF Lists
<1> QED BY <1>1 DEF SubmissionInv, BatchesFit, RefusedRightly

-----------------------------------------------------------------------------
(* All the parts *)

\* Of the part that is looked at, what its steps preserve.
ObservationsInv ==
  /\ track = "decision" => DecisionInv
  /\ track = "polygon" => PolygonInv
  /\ track = "media" => MediaInv
  /\ track = "content" => ContentInv
  /\ track = "buffer" => BufferInv
  /\ track = "admission" => AdmissionInv
  /\ track = "live" => SessionInv
  /\ PlayerInv
  /\ IF track = "player" THEN SubmissionInv ELSE stage = "watching" /\ batches = <<>>

LEMMA ObservationsBegin ==
  ASSUME ObservationsInit
  PROVE  ObservationsInv
<1>1. PolygonInit /\ MediaInit /\ ContentInit
  BY DEF ObservationsInit
<1>2. track = "decision" => DecisionInit
  BY DEF ObservationsInit
<1>3. Buffer!Init /\ Admission!Init /\ Live!SessionInit /\ Kiosk!Init
  BY DEF ObservationsInit
<1>4. BufferInv /\ AdmissionInv /\ SessionInv /\ PlayerInv /\ SubmissionInv
  BY <1>3, BufferBegins, AdmissionBegins, SessionBegins, PlayerBegins, SubmissionBegins
<1>5. stage = "watching" /\ batches = <<>>
  BY <1>3 DEF Kiosk!Init
<1> QED
  BY <1>1, <1>2, <1>4, <1>5, DecisionBegins, PolygonBegins, MediaBegins, ContentBegins
  DEF ObservationsInv

\* In its part, every step is one of the buffer.
LEMMA BufferStep ==
  ASSUME track = "buffer", [ObservationsNext]_observationVars
  PROVE  [Buffer!Next]_(Buffer!vars)
  BY DEF ObservationsNext, observationVars, ApiNext, GatewayNext, LookbookNext, apiVars, bufferVars,
         Buffer!vars, Buffer!buffer

LEMMA PlayerIdles ==
  ASSUME PlayerInv, UNCHANGED playerVars
  PROVE  PlayerInv'
<1>1. UNCHANGED <<Kiosk!player, Kiosk!results>>
  BY DEF playerVars, Kiosk!player, Kiosk!results
<1> QED BY <1>1, PlayerStays

LEMMA SubmissionStays ==
  ASSUME SubmissionInv, UNCHANGED <<playerVars, bufferVars>>
  PROVE  SubmissionInv'
<1>1. /\ stage' = stage /\ batches' = batches /\ sent' = sent /\ samples' = samples
      /\ missing' = missing
      /\ timeline' = timeline /\ sequences' = sequences /\ highest' = highest
      /\ fingerprints' = fingerprints /\ numbers' = numbers /\ given' = given
  BY DEF playerVars, bufferVars
<1>2. Kiosk!Collected' = Kiosk!Collected
  BY <1>1 DEF Kiosk!Collected
<1>3. ASSUME NEW obs, NEW n, NEW N, Underway(obs, n, N) PROVE Underway(obs, n, N)'
  <2>1. Covers(obs, n)'
    BY <1>2, <1>3 DEF Underway, Covers
  <2> QED BY <1>1, <1>3, <2>1 DEF Underway
<1>4. BatchesFit => BatchesFit'
  BY <1>1 DEF BatchesFit
<1>5. RefusedRightly => RefusedRightly'
  BY <1>2 DEF RefusedRightly
<1>6. HandedOver => HandedOver'
  BY <1>1, <1>2 DEF HandedOver
<1> QED BY <1>1, <1>3, <1>4, <1>5, <1>6 DEF SubmissionInv

LEMMA ObservationsStep ==
  ASSUME ObservationsInv, [ObservationsNext]_observationVars
  PROVE  ObservationsInv'
<1>0. track' = track
  BY DEF ObservationsNext, observationVars
<1>1. ASSUME track = "decision" PROVE DecisionInv'
  <2>1. [DecisionNext]_decisionVars
    BY <1>1 DEF ObservationsNext, observationVars, ApiNext, GatewayNext, LookbookNext, apiVars
  <2> QED BY <1>1, <2>1, DecisionStep DEF ObservationsInv
<1>2. ASSUME track = "polygon" PROVE PolygonInv'
  <2>1. [PolygonNext]_polygonVars
    BY <1>2 DEF ObservationsNext, observationVars, ApiNext, GatewayNext, LookbookNext, lookbookVars
  <2> QED BY <1>2, <2>1, PolygonStep DEF ObservationsInv
<1>3. ASSUME track = "media" PROVE MediaInv'
  <2>1. [MediaNext]_mediaVars
    BY <1>3 DEF ObservationsNext, observationVars, ApiNext, GatewayNext, LookbookNext, lookbookVars
  <2> QED BY <1>3, <2>1, MediaStep DEF ObservationsInv
<1>4. ASSUME track = "content" PROVE ContentInv'
  <2>1. [ContentNext]_contentVars
    BY <1>4 DEF ObservationsNext, observationVars, ApiNext, GatewayNext, LookbookNext, lookbookVars
  <2> QED BY <1>4, <2>1, ContentStep DEF ObservationsInv
<1>5. ASSUME track = "buffer" PROVE BufferInv'
  <2>1. [Buffer!Next]_(Buffer!vars)
    BY <1>5, BufferStep
  <2> QED BY <1>5, <2>1, BufferKeeps, ObservationsAssumption DEF ObservationsInv
<1>6. ASSUME track = "admission" PROVE AdmissionInv'
  <2>1. Admission!Next \/ UNCHANGED Admission!vars
    BY <1>6 DEF ObservationsNext, observationVars, ApiNext, GatewayNext, LookbookNext, gatewayVars,
                admissionVars, Admission!vars, Admission!flags, Admission!memory, Admission!work
  <2> QED BY <1>6, <2>1, AdmissionStep DEF ObservationsInv
<1>7. ASSUME track = "live" PROVE SessionInv'
  <2>1. Live!SessionNext \/ UNCHANGED Live!sessionVars
    BY <1>7
    DEF ObservationsNext, observationVars, ApiNext, GatewayNext, LookbookNext, gatewayVars,
        liveVars,
                Live!sessionVars, Live!user, Live!gate, Live!frames, Live!runner, Live!api
  <2> QED BY <1>7, <2>1, SessionStep DEF ObservationsInv
<1>8. ASSUME track = "player" PROVE PlayerInv' /\ SubmissionInv'
  <2>1. PlayerNext \/ UNCHANGED <<playerVars, bufferVars>>
    BY <1>8 DEF ObservationsNext, observationVars, ApiNext, GatewayNext, LookbookNext, apiVars
  <2> QED BY <1>8, <2>1, SubmissionStep, SubmissionStays, PlayerIdles DEF ObservationsInv
<1>9. ASSUME track # "player" PROVE PlayerInv' /\ stage' = stage /\ batches' = batches
  <2>1. UNCHANGED playerVars
    BY <1>9 DEF ObservationsNext, observationVars, ApiNext, GatewayNext, LookbookNext, apiVars
  <2>2. stage' = stage /\ batches' = batches
    BY <2>1 DEF playerVars
  <2> QED BY <2>1, <2>2, PlayerIdles DEF ObservationsInv
<1>10. PlayerInv'
  BY <1>8, <1>9
<1>11. IF track = "player" THEN SubmissionInv' ELSE stage' = "watching" /\ batches' = <<>>
  BY <1>8, <1>9 DEF ObservationsInv
<1> QED
  BY <1>0, <1>1, <1>2, <1>3, <1>4, <1>5, <1>6, <1>7, <1>10, <1>11 DEF ObservationsInv

\* A decision cites what was captured.  With product areas it is a window or a
\* frame of the product recommended and of no other, and movement is claimed
\* only of a frame, or of the looks at the product up to a window's end, that
\* had some; with source AOIs it is a frame in exactly one of them, and some
\* frame, not necessarily that one, lies in a source AOI that shares a known
\* feature with the product (validate_central_output).  A session without a
\* valid gaze is told nothing of one; and what is asked can be answered, but
\* for the dead ends named (begin_completion, map_frame_to_aoi).
\* What the areas rest on is right: a point is
\* inside a triangle exactly if it lies on one side of its edges, from
\* whichever corner it is drawn (point_in_polygon); a file is taken for the
\* reviewed video only if its boxes fill it and its largest track is that
\* video's (the repository's MP4 probe); and a repository that starts has
\* areas that nest, one source for an exposure, and maps a frame to areas of
\* one product, the general ones first (validate_approval_and_hierarchy,
\* map_frame_to_aoi, bind_source_aois).
THEOREM DecisionGrounded == ObservationsSpec => []DecisionsGrounded
<1>1. ObservationsInit => ObservationsInv
  BY ObservationsBegin
<1>2. ObservationsInv /\ [ObservationsNext]_observationVars => ObservationsInv'
  BY ObservationsStep
<1>3. ObservationsInv => DecisionsGrounded
  <2>1. DecisionInv => DecisionIsGrounded
    BY CitesHolds, NoClaimHolds, AnswerableHolds DEF DecisionIsGrounded
  <2> QED BY <2>1, PolygonHolds, MediaHolds, ContentHolds DEF ObservationsInv, DecisionsGrounded
<1> QED BY <1>1, <1>2, <1>3, PTL DEF ObservationsSpec

\* The buffer is what its answers say: the timeline it keeps, and hands over,
\* is the one that the observations of the batches answered 202 determine, in
\* whatever order and however often they came, with nothing of a batch that
\* was refused; what was taken is recognised as long as the session collects;
\* the indexes say what the timeline says, within the limit; and the frames
\* are handed over in analysis order (append_batch, begin_completion).  A
\* stream lets frames in in order, each once among those it remembers, no
\* faster than its rate, and a client may try again a frame that was only
\* too early; a token opens one connection (server.py, vision_stream.py).
THEOREM KeptAsAnswered == ObservationsSpec => []KeptExactly
<1>1. ObservationsInit => ObservationsInv
  BY ObservationsBegin
<1>2. ObservationsInv /\ [ObservationsNext]_observationVars => ObservationsInv'
  BY ObservationsStep
<1>3. ObservationsInv => KeptExactly
  BY BufferHolds, AdmissionHolds, ObservationsAssumption DEF ObservationsInv, KeptExactly
<1> QED BY <1>1, <1>2, <1>3, PTL DEF ObservationsSpec

\* The buffer implements the log: what is known of a frame is neither changed
\* nor dropped while the session collects, and completion hands over exactly
\* what is known (append_batch, begin_completion, cancel).
THEOREM TimelineIsLog == ObservationsSpec /\ track = "buffer" => LogSpec
<1>1. ObservationsInit => ObservationsInv /\ Buffer!Log!Init
  BY ObservationsBegin, LogBegins DEF ObservationsInit
<1>2. ObservationsInv /\ [ObservationsNext]_observationVars => ObservationsInv'
  BY ObservationsStep
<1>3. track = "buffer" /\ [ObservationsNext]_observationVars => (track = "buffer")'
  BY DEF ObservationsNext, observationVars
<1>4. ObservationsInv /\ track = "buffer" /\ [ObservationsNext]_observationVars
      => [Buffer!Log!Next]_(Buffer!Log!vars)
  BY BufferStep, LogStep, ObservationsAssumption DEF ObservationsInv
<1> QED
  BY <1>1, <1>2, <1>3, <1>4, PTL DEF ObservationsSpec, LogSpec, Buffer!LogSpec, Buffer!Log!Spec

\* A reported stretch of watching, and a reported movement, is of frames with
\* a valid gaze, each within the continuity gap of the one before: it bridges
\* no seek, no restart, no frame without a valid gaze and no longer gap, such
\* as a longer pause leaves (a shorter one is bridged), and what is unbroken in
\* this sense is reported whole, in whatever order the seeks, the captures and
\* the results came (LookbookPlayer, buildObservations).
THEOREM RunsReported == ObservationsSpec => []RunsAreTrue
<1>1. ObservationsInit => ObservationsInv
  BY ObservationsBegin
<1>2. ObservationsInv /\ [ObservationsNext]_observationVars => ObservationsInv'
  BY ObservationsStep
<1>3. ObservationsInv => RunsAreTrue
  BY RunsHold DEF ObservationsInv, RunsAreTrue
<1> QED BY <1>1, <1>2, <1>3, PTL DEF ObservationsSpec

\* A session that completes hands the API every frame the kiosk had a result
\* for, once, where it was seen and with a gaze exactly if it was valid; no
\* two results are of one frame; a batch is neither empty nor too large; and
\* one is refused only if there are more frames than the API keeps or a frame
\* was taken at the video's very end (buildObservationBatchesV2,
\* append_batch).  A live session accounts for every frame, sends it in once
\* and in order, and leaves nothing open (d8_live.py, runner.py, gateway.py).
THEOREM SubmittedExactly == ObservationsSpec => []SubmissionExact
<1>1. ObservationsInit => ObservationsInv
  BY ObservationsBegin
<1>2. ObservationsInv /\ [ObservationsNext]_observationVars => ObservationsInv'
  BY ObservationsStep
<1>3. ASSUME ObservationsInv PROVE SubmissionExact
  <2>1. (track = "live" => Live!SessionIsSound) /\ ~Kiosk!Conflict
    BY <1>3, SessionHolds, NoConflict DEF ObservationsInv
  <2>2. CASE track = "player"
    <3>1. /\ \A k \in 1..Len(batches) : Len(batches[k].obs) \in 1..Chunk
          /\ stage = "refused" =>
               \/ Len(Kiosk!Frames) > MaxKept
               \/ \E f \in Kiosk!Collected : f.video = Length
          /\ stage = "completed" => HandedOver
      BY <1>3, <2>2, SubmissionHolds DEF ObservationsInv
    <3> QED BY <2>1, <3>1 DEF SubmissionExact, HandedOver
  <2>3. CASE track # "player"
    <3>1. stage = "watching" /\ batches = <<>>
      BY <1>3, <2>3 DEF ObservationsInv
    <3>2. \A k \in 1..Len(batches) : Len(batches[k].obs) \in 1..Chunk
      BY <3>1
    <3> QED BY <2>1, <3>1, <3>2 DEF SubmissionExact
  <2> QED BY <2>2, <2>3
<1> QED BY <1>1, <1>2, <1>3, PTL DEF ObservationsSpec
=============================================================================

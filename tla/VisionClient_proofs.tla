-------------------------- MODULE VisionClient_proofs --------------------------
(***************************************************************************)
(* Theorems about VisionClient, for any number of sessions and frames.      *)
(***************************************************************************)
EXTENDS VisionClient, SequenceTheorems, TLAPS

-----------------------------------------------------------------------------
(* The inductive invariant.                                                 *)

Upward == {<<"hello", s>> : s \in Sessions} \cup {<<a, s>> : a \in Actions, s \in Sessions}
            \cup {<<"frame", f>> : f \in Frames}
Downward == {<<"ready">>, <<"close">>} \cup {<<"drop", f>> : f \in Frames}
              \cup {<<k, f, b>> : k \in {"result", "drop"}, f \in Frames, b \in BOOLEAN}
              \cup {<<a, v>> : a \in Actions, v \in Verdicts}

\* What a message is about: a request and its answer have the same topic.
Topic(m) == IF m[1] \in {"drop", "result"} THEN "frame"
            ELSE IF m[1] = "ready" THEN "hello" ELSE m[1]
Topics == Actions \cup {"hello", "frame"}

Has(q, t) == \E i \in DOMAIN q : Topic(q[i]) = t

\* Each topic at most once, and every frame of one number.
OneEach(q) ==
  \A i, j \in DOMAIN q : Topic(q[i]) \in Topics /\ Topic(q[i]) = Topic(q[j]) => i = j
Carries(q, f) == \A i \in DOMAIN q : Topic(q[i]) = "frame" => q[i][2] = f
FramesBeforeStop(q) ==
  \A i, j \in DOMAIN q : Topic(q[i]) = "frame" /\ Topic(q[j]) = "stop_session" => i < j

\* The topics the gateway holds between a request and its answer.
Held == (IF link.frame # 0 THEN {"frame"} ELSE {})
          \cup (IF link.calibrating THEN {"start_calibration"} ELSE {})
          \cup (IF link.stopping /\ link.frame # 0 THEN {"stop_session"} ELSE {})

Links == [up : Seq(Upward), down : Seq(Downward), frame : Frames \cup {0},
          calibrating : BOOLEAN, inference : BOOLEAN, stopping : BOOLEAN]
LinkType == link \in Links

\* A topic is in one place, once.
OnePlace ==
  /\ OneEach(link.up) /\ OneEach(link.down)
  /\ \A t \in Topics : /\ Has(link.up, t) => ~Has(link.down, t) /\ t \notin Held
                       /\ Has(link.down, t) => t \notin Held

Somewhere(t) == Has(link.up, t) \/ Has(link.down, t) \/ t \in Held

\* Somebody waits for whatever is under way.
SomebodyWaits ==
  /\ Somewhere("hello") => start[socket] \in {"handshake", "rejected"}
  /\ \A c \in Actions : Somewhere(c) => control[c] = "waiting"
  /\ Somewhere("frame") => pending # 0 /\ frame[pending] \in {"waiting", "abandoned"}
  /\ Carries(link.up, pending) /\ Carries(link.down, pending)
  /\ link.frame \in {0, pending}

\* No frame comes after a stop.
StopIsLast ==
  /\ FramesBeforeStop(link.up)
  /\ link.stopping => control["stop_session"] \in {"waiting"} \cup Verdicts
                      /\ ~Has(link.up, "stop_session") /\ ~Has(link.up, "frame")
  /\ Has(link.down, "stop_session") => ~Has(link.up, "frame") /\ link.frame = 0

LinkInv ==
  /\ LinkType
  /\ socket = 0 => link = NoLink
  /\ OnePlace /\ SomebodyWaits /\ StopIsLast

\* Sessions start one after the other, and the socket is the last one's.
StartsInv ==
  /\ \A s \in Sessions : start[s] # "none" =>
       \A t \in Sessions : t < s => start[t] \in {"done", "failed"}
  /\ \A s \in Sessions : /\ start[s] = "token" => socket = 0
                         /\ start[s] \in {"opening", "opened", "handshake", "readied"}
                              => socket = s
                         /\ start[s] = "rejected" => socket \in {0, s}
  /\ socket # 0 => /\ start[socket] \in {"opening", "opened", "handshake", "readied",
                                         "rejected", "done"}
                   /\ \A s \in Sessions : s > socket => start[s] = "none"

\* Control requests are those of a started session, and one is answered at a time.
ControlInv ==
  /\ \A c \in Actions :
       /\ control[c] \in {"waiting"} \cup Verdicts => socket # 0 /\ start[socket] = "done"
       /\ control[c] = "failed" => socket = 0 /\ \A s \in Sessions : start[s] # "token"
  /\ \A c, d \in Actions : control[c] \in Verdicts /\ control[d] \in Verdicts => c = d

CaptureInv ==
  /\ ready => socket # 0 /\ start[socket] = "done"
  /\ active => /\ socket # 0
               /\ \/ control["start_calibration"] \in {"waiting", "done"} \cup Verdicts
                  \/ control["start_inference"] = "done"
  /\ profile => socket # 0 /\ control["start_calibration"] \in {"waiting"} \cup Verdicts

\* The frame that counts is the pending one; those of earlier sessions, and all
\* of them once a stop was asked for, are given up.
FrameInv ==
  /\ \A f \in Frames :
       /\ frame[f] \in {"encoding", "waiting", "abandoned"}
            => pending = f /\ socket # 0 /\ of[f] = socket
       /\ frame[f] = "waiting" => f \notin left
       /\ frame[f] = "rejected" /\ (socket # 0 \/ \E s \in Sessions : start[s] = "token")
            => f \in left
  /\ pending # 0 => frame[pending] \in {"encoding", "waiting", "abandoned"}
  /\ socket # 0 /\ control["stop_session"] # "none" =>
       \A f \in Frames : frame[f] \in {"none", "ended", "settled"} \/ f \in left

ClientInv ==
  /\ ClientTypeOK /\ ~fault
  /\ StartsInv /\ ControlInv /\ CaptureInv /\ FrameInv /\ SocketsClosed
  /\ LinkInv

-----------------------------------------------------------------------------
(* What sending and taking a message does to a direction of the link.       *)

\* A message is added at the end.
LEMMA Appended ==
  ASSUME NEW S, NEW q \in Seq(S), NEW m \in S
  PROVE  /\ Append(q, m) \in Seq(S)
         /\ \A t : Has(Append(q, m), t) <=> Has(q, t) \/ Topic(m) = t
         /\ OneEach(q) /\ ~(Topic(m) \in Topics /\ Has(q, Topic(m))) => OneEach(Append(q, m))
         /\ \A f : Carries(q, f) /\ (Topic(m) = "frame" => m[2] = f) => Carries(Append(q, m), f)
         /\ FramesBeforeStop(q) /\ (Topic(m) = "frame" => ~Has(q, "stop_session"))
              => FramesBeforeStop(Append(q, m))
<1>1. /\ Append(q, m) \in Seq(S) /\ DOMAIN Append(q, m) = 1..(Len(q) + 1) /\ DOMAIN q = 1..Len(q)
      /\ Len(q) \in Nat
      /\ Append(q, m)[Len(q) + 1] = m
      /\ \A i \in DOMAIN q : Append(q, m)[i] = q[i]
  OBVIOUS
<1>2. \A i \in DOMAIN Append(q, m) : i \in DOMAIN q \/ i = Len(q) + 1
  BY <1>1
<1>3. Len(q) + 1 \in DOMAIN Append(q, m) /\ Len(q) + 1 \notin DOMAIN q
      /\ DOMAIN q \subseteq DOMAIN Append(q, m) /\ \A i \in DOMAIN q : i < Len(q) + 1
  BY <1>1
<1> DEFINE r == Append(q, m)
           n == Len(q) + 1
<1> HIDE DEF r, n
<1>4. /\ \A i \in DOMAIN r : i \in DOMAIN q \/ i = n
      /\ n \in DOMAIN r /\ n \notin DOMAIN q /\ DOMAIN q \subseteq DOMAIN r
      /\ r[n] = m /\ \A i \in DOMAIN q : r[i] = q[i] /\ i < n
  BY <1>1, <1>2, <1>3 DEF r, n
<1>5. \A t : Has(r, t) <=> Has(q, t) \/ Topic(m) = t
  BY <1>4, Zenon DEF Has
<1>6. OneEach(q) /\ ~(Topic(m) \in Topics /\ Has(q, Topic(m))) => OneEach(r)
  BY <1>4, Zenon DEF OneEach, Has
<1>7. \A f : Carries(q, f) /\ (Topic(m) = "frame" => m[2] = f) => Carries(r, f)
  BY <1>4, Zenon DEF Carries
<1>8. ASSUME FramesBeforeStop(q), Topic(m) = "frame" => ~Has(q, "stop_session"),
             NEW i \in DOMAIN r, NEW j \in DOMAIN r,
             Topic(r[i]) = "frame", Topic(r[j]) = "stop_session"
      PROVE  i < j
  <2>1. CASE i \in DOMAIN q /\ j \in DOMAIN q
    BY <1>4, <1>8, <2>1, Zenon DEF FramesBeforeStop
  <2>2. CASE i \in DOMAIN q /\ j = n
    BY <1>4, <2>2
  <2>3. CASE i = n /\ j \in DOMAIN q
    BY <1>4, <1>8, <2>3, Zenon DEF Has
  <2>4. CASE i = n /\ j = n
    BY <1>8, <2>4
  <2> QED
    BY <1>4, <2>1, <2>2, <2>3, <2>4
<1> QED
  BY <1>1, <1>5, <1>6, <1>7, <1>8 DEF r, FramesBeforeStop

\* The first message is taken off.
LEMMA Taken ==
  ASSUME NEW S, NEW q \in Seq(S), q # <<>>, OneEach(q)
  PROVE  /\ Tail(q) \in Seq(S) /\ Head(q) \in S /\ Has(q, Topic(Head(q)))
         /\ \A t \in Topics : Has(Tail(q), t) <=> Has(q, t) /\ t # Topic(Head(q))
         /\ OneEach(Tail(q))
         /\ \A f : Carries(q, f) =>
              Carries(Tail(q), f) /\ (Topic(Head(q)) = "frame" => Head(q)[2] = f)
         /\ FramesBeforeStop(q) =>
              FramesBeforeStop(Tail(q)) /\ (Topic(Head(q)) = "stop_session" => ~Has(q, "frame"))
<1> DEFINE r == Tail(q)
<1>1. /\ r \in Seq(S) /\ Head(q) = q[1] /\ Head(q) \in S /\ Len(q) \in Nat \ {0}
      /\ DOMAIN q = 1..Len(q) /\ DOMAIN r = 1..(Len(q) - 1)
      /\ \A i \in DOMAIN r : r[i] = q[i + 1]
  OBVIOUS
<1> HIDE DEF r
<1>2. /\ 1 \in DOMAIN q
      /\ \A i \in DOMAIN r : i + 1 \in DOMAIN q /\ i + 1 # 1
      /\ \A i, j \in DOMAIN r : (i + 1 = j + 1 => i = j) /\ (i + 1 < j + 1 => i < j)
      /\ \A i \in DOMAIN q : i = 1 \/ \E j \in DOMAIN r : i = j + 1
  <2>1. \A i \in DOMAIN q : i # 1 => i - 1 \in DOMAIN r /\ i = (i - 1) + 1
    BY <1>1
  <2> QED
    BY <1>1, <2>1
<1>3. Has(q, Topic(Head(q)))
  BY <1>1, <1>2 DEF Has
<1>4. ASSUME NEW t \in Topics
      PROVE  Has(r, t) <=> Has(q, t) /\ t # Topic(Head(q))
  <2>1. ASSUME Has(r, t) PROVE Has(q, t) /\ t # Topic(Head(q))
    <3>1. PICK j \in DOMAIN r : Topic(q[j + 1]) = t
      BY <1>1, <2>1, Zenon DEF Has
    <3>2. j + 1 \in DOMAIN q /\ j + 1 # 1
      BY <1>2
    <3> QED
      BY <1>1, <1>2, <3>1, <3>2, Zenon DEF Has, OneEach
  <2>2. ASSUME Has(q, t), t # Topic(Head(q)) PROVE Has(r, t)
    <3>1. PICK i \in DOMAIN q : Topic(q[i]) = t
      BY <2>2, Zenon DEF Has
    <3>2. PICK j \in DOMAIN r : i = j + 1
      BY <1>1, <1>2, <2>2, <3>1, Zenon
    <3> QED
      BY <1>1, <3>1, <3>2, Zenon DEF Has
  <2> QED
    BY <2>1, <2>2
<1>5. OneEach(r)
  BY <1>1, <1>2, Zenon DEF OneEach
<1>6. \A f : Carries(q, f) => Carries(r, f) /\ (Topic(Head(q)) = "frame" => Head(q)[2] = f)
  <2>1. ASSUME NEW f, Carries(q, f), NEW j \in DOMAIN r, Topic(r[j]) = "frame"
        PROVE  r[j][2] = f
    <3>1. j + 1 \in DOMAIN q /\ r[j] = q[j + 1]
      BY <1>1, <1>2, Zenon
    <3> QED
      BY <2>1, <3>1, Zenon DEF Carries
  <2>2. \A f : Carries(q, f) => (Topic(q[1]) = "frame" => q[1][2] = f)
    BY <1>2, Zenon DEF Carries
  <2> QED
    BY <1>1, <2>1, <2>2 DEF Carries
<1>7. FramesBeforeStop(q) => FramesBeforeStop(r)
  BY <1>1, <1>2, Zenon DEF FramesBeforeStop
<1>8. ASSUME FramesBeforeStop(q), Topic(Head(q)) = "stop_session", Has(q, "frame")
      PROVE  FALSE
  <2>1. PICK i \in DOMAIN q : Topic(q[i]) = "frame"
    BY <1>8 DEF Has
  <2>2. i < 1
    BY <1>1, <1>2, <1>8, <2>1, Zenon DEF FramesBeforeStop
  <2> QED
    BY <1>1, <2>2
<1> QED
  BY <1>1, <1>3, <1>4, <1>5, <1>6, <1>7, <1>8 DEF r

\* Nothing is on a link that is gone.
LEMMA NothingOnNoLink ==
  /\ \A t : ~Has(<<>>, t)
  /\ OneEach(<<>>) /\ FramesBeforeStop(<<>>) /\ \A f : Carries(<<>>, f)
PROOF BY DEF Has, OneEach, FramesBeforeStop, Carries

\* What a message can be about.
LEMMA UpwardTopics ==
  ASSUME NEW m \in Upward
  PROVE  /\ Topic(m) = m[1] /\ Topic(m) \in Topics
         /\ Topic(m) = "frame" => m[2] \in Frames
PROOF BY DEF Upward, Topic, Topics, Actions

-----------------------------------------------------------------------------
(* The link is cleared, left alone, or takes a message of the client.       *)

\* The link of a session that is over.
LEMMA LinkCleared == ASSUME link' = NoLink PROVE LinkInv'
<1>1. /\ link'.up = <<>> /\ link'.down = <<>> /\ link'.frame = 0
      /\ link'.calibrating = FALSE /\ link'.stopping = FALSE
  BY DEF NoLink
<1>2. LinkType'
  <2>1. <<>> \in Seq(Upward) /\ <<>> \in Seq(Downward)
    OBVIOUS
  <2> QED
    BY <2>1 DEF LinkType, Links, NoLink
<1>3. Held' = {}
  BY <1>1 DEF Held
<1>4. OnePlace'
  BY <1>1, <1>3, NothingOnNoLink, Zenon DEF OnePlace
<1>5. \A t : ~Somewhere(t)'
  BY <1>1, <1>3, NothingOnNoLink, Zenon DEF Somewhere
<1>6. Carries(link.up, pending)' /\ Carries(link.down, pending)'
  BY <1>1, NothingOnNoLink
<1>7. SomebodyWaits'
  BY <1>1, <1>5, <1>6 DEF SomebodyWaits
<1>8. StopIsLast'
  BY <1>1, NothingOnNoLink DEF StopIsLast
<1> QED
  BY <1>2, <1>4, <1>7, <1>8 DEF LinkInv

\* Nothing is sent, and whoever waited still waits.
LEMMA LinkKept ==
  ASSUME LinkInv, link' = link, socket' = socket,
         Somewhere("hello") => start'[socket] \in {"handshake", "rejected"},
         \A c \in Actions : Somewhere(c) => control'[c] = "waiting",
         link.stopping => control'["stop_session"] \in {"waiting"} \cup Verdicts,
         Somewhere("frame") => pending' = pending /\ frame'[pending] \in {"waiting", "abandoned"}
  PROVE  LinkInv'
<1>1. Held' = Held
  BY DEF Held
<1>2. LinkType' /\ OnePlace' /\ (socket' = 0 => link' = NoLink)
  BY <1>1, Zenon DEF LinkInv, LinkType, Links, OnePlace
<1>3. \A t : Somewhere(t)' <=> Somewhere(t)
  BY <1>1, Zenon DEF Somewhere
<1>4. Carries(link.up, pending)' /\ Carries(link.down, pending)' /\ link'.frame \in {0, pending'}
  <2>1. CASE Somewhere("frame")
    BY <2>1, Zenon DEF LinkInv, SomebodyWaits
  <2>2. CASE ~Somewhere("frame")
    <3>1. ~Has(link.up, "frame") /\ ~Has(link.down, "frame") /\ link.frame = 0
      BY <2>2, Zenon DEF Somewhere, Held
    <3> QED
      BY <3>1, Zenon DEF Has, Carries
  <2> QED
    BY <2>1, <2>2
<1>5. SomebodyWaits'
  <2>1. Somewhere("hello")' => start'[socket'] \in {"handshake", "rejected"}
    BY <1>3
  <2>2. \A c \in Actions : Somewhere(c)' => control'[c] = "waiting"
    BY <1>3, Zenon
  <2>3. Somewhere("frame")' => pending' # 0 /\ frame'[pending'] \in {"waiting", "abandoned"}
    BY <1>3, Zenon DEF LinkInv, SomebodyWaits
  <2> QED
    BY <1>4, <2>1, <2>2, <2>3, Zenon DEF SomebodyWaits
<1>6. StopIsLast'
  BY Zenon DEF LinkInv, StopIsLast
<1> QED
  BY <1>2, <1>5, <1>6 DEF LinkInv

\* The client sends a message about something that is not under way.
LEMMA LinkSends ==
  ASSUME LinkInv, NEW m \in Upward, SendMessage(m), socket # 0, socket' = socket, pending' = pending,
         ~Somewhere(Topic(m)),
         Somewhere("hello") \/ Topic(m) = "hello" => start'[socket] \in {"handshake", "rejected"},
         \A c \in Actions : Somewhere(c) \/ c = Topic(m) => control'[c] = "waiting",
         Somewhere("frame") \/ Topic(m) = "frame"
           => pending # 0 /\ frame'[pending] \in {"waiting", "abandoned"},
         Topic(m) = "frame" => m[2] = pending /\ ~Somewhere("stop_session") /\ ~link.stopping,
         Topic(m) = "stop_session" => ~link.stopping,
         link.stopping => control'["stop_session"] \in {"waiting"} \cup Verdicts
  PROVE  LinkInv'
<1>1. /\ link.up \in Seq(Upward) /\ link.down \in Seq(Downward)
      /\ Topic(m) \in Topics
      /\ OneEach(link.up) /\ FramesBeforeStop(link.up)
      /\ ~Has(link.up, Topic(m)) /\ ~Has(link.down, Topic(m)) /\ Topic(m) \notin Held
  BY UpwardTopics, Zenon DEF LinkInv, LinkType, Links, OnePlace, StopIsLast, Somewhere
<1>2. /\ link' = [link EXCEPT !.up = Append(link.up, m)]
      /\ link'.up = Append(link.up, m) /\ link'.down = link.down /\ link'.frame = link.frame
      /\ link'.calibrating = link.calibrating /\ link'.stopping = link.stopping
  BY DEF SendMessage, LinkInv, LinkType, Links
<1>3. /\ link'.up \in Seq(Upward) /\ OneEach(link'.up)
      /\ \A t : Has(link'.up, t) <=> Has(link.up, t) \/ Topic(m) = t
      /\ \A f : Carries(link.up, f) /\ (Topic(m) = "frame" => m[2] = f) => Carries(link'.up, f)
      /\ (Topic(m) = "frame" => ~Has(link.up, "stop_session")) => FramesBeforeStop(link'.up)
  BY <1>1, <1>2, Appended
<1>4. Held' = Held
  BY <1>2 DEF Held
<1>5. LinkType'
  BY <1>2, <1>3 DEF LinkInv, LinkType, Links
<1>6. OnePlace'
  <2>1. OneEach(link.down)
    BY DEF LinkInv, OnePlace
  <2>2. ASSUME NEW t \in Topics
        PROVE  /\ Has(link'.up, t) => ~Has(link'.down, t) /\ t \notin Held'
               /\ Has(link'.down, t) => t \notin Held'
    BY <1>1, <1>2, <1>3, <1>4, Zenon DEF LinkInv, OnePlace
  <2> QED
    BY <1>2, <1>3, <2>1, <2>2, Zenon DEF OnePlace
<1>7. \A t : Somewhere(t)' <=> Somewhere(t) \/ t = Topic(m)
  BY <1>2, <1>3, <1>4, Zenon DEF Somewhere
<1>8. SomebodyWaits'
  <2>1. Carries(link.up, pending) /\ Carries(link.down, pending) /\ link.frame \in {0, pending}
    BY DEF LinkInv, SomebodyWaits
  <2>2. Carries(link'.up, pending') /\ Carries(link'.down, pending') /\ link'.frame \in {0, pending'}
    BY <1>2, <1>3, <2>1, Zenon
  <2> QED
    BY <1>7, <2>2, Zenon DEF SomebodyWaits
<1>9. StopIsLast'
  <2>1. FramesBeforeStop(link'.up)
    BY <1>3, Zenon DEF Somewhere
  <2>2. link.stopping =>
          /\ ~Has(link'.up, "stop_session") /\ ~Has(link'.up, "frame")
    BY <1>3, Zenon DEF LinkInv, StopIsLast
  <2>3. Has(link.down, "stop_session") => ~Has(link'.up, "frame") /\ link.frame = 0
    BY <1>3, Zenon DEF LinkInv, StopIsLast, Somewhere
  <2> QED
    BY <1>2, <2>1, <2>2, <2>3, Zenon DEF StopIsLast
<1> QED
  BY <1>5, <1>6, <1>8, <1>9 DEF LinkInv

-----------------------------------------------------------------------------
(* The gateway takes and answers messages.                                  *)

\* What is under way moves on, and nothing else begins.
LEMMA LinkMoves ==
  ASSUME LinkInv, socket # 0, UNCHANGED <<calls, state>>, LinkType',
         OneEach(link'.up), OneEach(link'.down), StopIsLast',
         Carries(link'.up, pending), Carries(link'.down, pending), link'.frame \in {0, pending},
         \A t \in Topics :
           /\ Has(link'.up, t) => /\ Has(link.up, t)
                                  /\ Has(link'.down, t) => Has(link.down, t)
                                  /\ t \in Held' => t \in Held
           /\ Has(link'.down, t) => Somewhere(t) /\ t \notin Held'
           /\ t \in Held' => Somewhere(t)
  PROVE  LinkInv'
<1>1. UNCHANGED <<start, control, frame, socket, pending>>
  BY DEF calls, state
<1>2. \A t \in Topics : Somewhere(t)' => Somewhere(t)
  BY Zenon DEF Somewhere
<1>3. OnePlace'
  BY Zenon DEF LinkInv, OnePlace
<1>4. SomebodyWaits'
  <2>1. "hello" \in Topics /\ "frame" \in Topics /\ Actions \subseteq Topics
    BY DEF Topics
  <2> QED
    BY <1>1, <1>2, <2>1, Zenon DEF LinkInv, SomebodyWaits
<1> QED
  BY <1>1, <1>3, <1>4 DEF LinkInv

\* What LinkInv says of the link, in one place.
LEMMA LinkFacts ==
  ASSUME LinkInv
  PROVE  /\ link.up \in Seq(Upward) /\ link.down \in Seq(Downward)
         /\ link.frame \in Frames \cup {0} /\ link.frame \in {0, pending}
         /\ link.calibrating \in BOOLEAN /\ link.inference \in BOOLEAN
         /\ link.stopping \in BOOLEAN
         /\ OneEach(link.up) /\ OneEach(link.down)
         /\ FramesBeforeStop(link.up)
         /\ Carries(link.up, pending) /\ Carries(link.down, pending)
         /\ \A t \in Topics : /\ Has(link.up, t) => ~Has(link.down, t) /\ t \notin Held
                              /\ Has(link.down, t) => t \notin Held
PROOF BY DEF LinkInv, LinkType, Links, OnePlace, SomebodyWaits, StopIsLast

\* The gateway answers the first message at once; a stop only when it has no frame.
LEMMA HeadAnswered ==
  ASSUME LinkInv, socket # 0, UNCHANGED <<calls, state>>, link.up # <<>>, LinkType',
         link'.up = Tail(link.up), link'.frame = link.frame, link'.stopping = link.stopping,
         link'.calibrating => link.calibrating,
         OneEach(link'.down), Carries(link'.down, pending),
         \A t \in Topics : Has(link'.down, t) => Has(link.down, t) \/ t = Topic(Head(link.up)),
         Topic(Head(link.up)) = "stop_session" => link.frame = 0
  PROVE  LinkInv'
<1> DEFINE m == Head(link.up)
<1>1. /\ OneEach(link'.up) /\ Has(link.up, Topic(m)) /\ m \in Upward
      /\ \A t \in Topics : Has(link'.up, t) <=> Has(link.up, t) /\ t # Topic(m)
      /\ Carries(link'.up, pending) /\ FramesBeforeStop(link'.up)
      /\ Topic(m) = "stop_session" => ~Has(link.up, "frame")
  BY LinkFacts, Taken
<1> HIDE DEF m
<1>2. Topic(m) \in Topics
  BY <1>1, UpwardTopics
<1>3. Held' \subseteq Held
  BY DEF Held
<1>4. "frame" \in Topics /\ "stop_session" \in Topics
  BY DEF Topics, Actions
<1>5. StopIsLast'
  <2>1. control' = control
    BY DEF calls
  <2>2. link.stopping => /\ control["stop_session"] \in {"waiting"} \cup Verdicts
                         /\ ~Has(link'.up, "stop_session") /\ ~Has(link'.up, "frame")
    BY <1>1, <1>4, Zenon DEF LinkInv, StopIsLast
  <2>3. ASSUME Has(link'.down, "stop_session")
        PROVE  ~Has(link'.up, "frame") /\ link.frame = 0
    BY <1>1, <1>4, <2>3, Zenon DEF LinkInv, StopIsLast, m
  <2> QED
    BY <1>1, <2>1, <2>2, <2>3, Zenon DEF StopIsLast
<1>6. ASSUME NEW t \in Topics
      PROVE  /\ Has(link'.up, t) => /\ Has(link.up, t)
                                    /\ Has(link'.down, t) => Has(link.down, t)
                                    /\ t \in Held' => t \in Held
             /\ Has(link'.down, t) => Somewhere(t) /\ t \notin Held'
             /\ t \in Held' => Somewhere(t)
  BY <1>1, <1>3, LinkFacts, Zenon DEF Somewhere, m
<1> QED
  BY <1>1, <1>5, <1>6, LinkFacts, LinkMoves

\* The gateway keeps the first message for later.
LEMMA HeadHeld ==
  ASSUME LinkInv, socket # 0, UNCHANGED <<calls, state>>, link.up # <<>>, LinkType',
         link'.up = Tail(link.up), link'.down = link.down, link'.frame \in {0, pending},
         link'.frame = link.frame \/ Topic(Head(link.up)) = "frame",
         link'.stopping => link.stopping \/ Topic(Head(link.up)) = "stop_session",
         Held' \subseteq Held \cup {Topic(Head(link.up))}
  PROVE  LinkInv'
<1> DEFINE m == Head(link.up)
<1>1. /\ OneEach(link'.up) /\ Has(link.up, Topic(m)) /\ m \in Upward
      /\ \A t \in Topics : Has(link'.up, t) <=> Has(link.up, t) /\ t # Topic(m)
      /\ Carries(link'.up, pending) /\ FramesBeforeStop(link'.up)
      /\ Topic(m) = "stop_session" => ~Has(link.up, "frame")
  BY LinkFacts, Taken
<1> HIDE DEF m
<1>2. Topic(m) \in Topics /\ "frame" \in Topics /\ "stop_session" \in Topics
  BY <1>1, UpwardTopics DEF Topics, Actions
<1>3. StopIsLast'
  <2>1. control' = control
    BY DEF calls
  <2>2. Topic(m) = "stop_session" => control["stop_session"] = "waiting"
    BY <1>1, Zenon DEF LinkInv, SomebodyWaits, Somewhere, Actions
  <2>3. link'.stopping => /\ control["stop_session"] \in {"waiting"} \cup Verdicts
                          /\ ~Has(link'.up, "stop_session") /\ ~Has(link'.up, "frame")
    BY <1>1, <1>2, <2>2, Zenon DEF LinkInv, StopIsLast, m
  <2>4. Has(link.down, "stop_session") => ~Has(link'.up, "frame") /\ link'.frame = 0
    BY <1>1, <1>2, Zenon DEF LinkInv, StopIsLast, m
  <2> QED
    BY <1>1, <2>1, <2>3, <2>4, Zenon DEF StopIsLast
<1>4. ASSUME NEW t \in Topics
      PROVE  /\ Has(link'.up, t) => /\ Has(link.up, t)
                                    /\ Has(link'.down, t) => Has(link.down, t)
                                    /\ t \in Held' => t \in Held
             /\ Has(link'.down, t) => Somewhere(t) /\ t \notin Held'
             /\ t \in Held' => Somewhere(t)
  <2>1. Held' \subseteq Held \cup {Topic(m)}
    BY DEF m
  <2> QED
    BY <1>1, <2>1, LinkFacts, Zenon DEF Somewhere
<1> QED
  BY <1>1, <1>3, <1>4, LinkFacts, LinkMoves

\* One answer, and an answer with the end of the connection behind it.
LEMMA Answered1 ==
  ASSUME NEW q \in Seq(Downward), NEW m \in Downward, NEW p, OneEach(q), Carries(q, p),
         Topic(m) \in Topics => ~Has(q, Topic(m)),
         Topic(m) = "frame" => m[2] = p
  PROVE  /\ q \o <<m>> \in Seq(Downward) /\ OneEach(q \o <<m>>) /\ Carries(q \o <<m>>, p)
         /\ \A t \in Topics : Has(q \o <<m>>, t) <=> Has(q, t) \/ t = Topic(m)
<1>1. q \o <<m>> = Append(q, m)
  BY AppendIsConcat
<1>2. /\ Append(q, m) \in Seq(Downward)
      /\ \A t : Has(Append(q, m), t) <=> Has(q, t) \/ Topic(m) = t
      /\ OneEach(Append(q, m)) /\ Carries(Append(q, m), p)
  BY Appended
<1> QED
  BY <1>1, <1>2, Zenon

\* The same with the end of the connection behind it.
LEMMA Answered2 ==
  ASSUME NEW q \in Seq(Downward), NEW m \in Downward, NEW p, OneEach(q), Carries(q, p),
         Topic(m) \in Topics => ~Has(q, Topic(m)),
         Topic(m) = "frame" => m[2] = p
  PROVE  LET r == q \o (<<m>> \o Closing)
         IN /\ r \in Seq(Downward) /\ OneEach(r) /\ Carries(r, p)
            /\ \A t \in Topics : Has(r, t) <=> Has(q, t) \/ t = Topic(m)
<1> DEFINE u == q \o <<m>>
           c == <<"close">>
<1>1. /\ u \in Seq(Downward) /\ OneEach(u) /\ Carries(u, p)
      /\ \A t \in Topics : Has(u, t) <=> Has(q, t) \/ t = Topic(m)
  BY Answered1
<1>2. c \in Downward /\ Topic(c) = "close" /\ "close" \notin Topics
  BY DEF Downward, Topic, Topics, Actions
<1>3. q \o (<<m>> \o Closing) = u \o <<c>>
  <2>1. <<m>> \in Seq(Downward) /\ Closing \in Seq(Downward) /\ Closing = <<c>>
    BY <1>2 DEF Closing
  <2> QED
    BY <2>1, ConcatAssociative
<1> HIDE DEF u, c
<1>4. /\ u \o <<c>> \in Seq(Downward) /\ OneEach(u \o <<c>>) /\ Carries(u \o <<c>>, p)
      /\ \A t \in Topics : Has(u \o <<c>>, t) <=> Has(u, t) \/ t = Topic(c)
  BY <1>1, <1>2, Answered1
<1> QED
  BY <1>1, <1>2, <1>3, <1>4, Zenon

\* What the gateway can answer is a message.
LEMMA AnswersAreMessages ==
  /\ <<"ready">> \in Downward /\ Topic(<<"ready">>) = "hello"
  /\ <<"close">> \in Downward /\ Topic(<<"close">>) = "close" /\ "close" \notin Topics
  /\ \A f \in Frames : <<"drop", f>> \in Downward /\ Topic(<<"drop", f>>) = "frame"
                       /\ <<"drop", f>>[2] = f
  /\ \A k \in {"result", "drop"}, f \in Frames, b \in BOOLEAN :
       <<k, f, b>> \in Downward /\ Topic(<<k, f, b>>) = "frame" /\ <<k, f, b>>[2] = f
  /\ \A a \in Actions, v \in Verdicts : <<a, v>> \in Downward /\ Topic(<<a, v>>) = a
<1>1. \A f \in Frames : <<"drop", f>> \in Downward /\ Topic(<<"drop", f>>) = "frame"
                       /\ <<"drop", f>>[2] = f
  BY DEF Downward, Topic
<1>2. \A k \in {"result", "drop"}, f \in Frames, b \in BOOLEAN :
       <<k, f, b>> \in Downward /\ Topic(<<k, f, b>>) = "frame" /\ <<k, f, b>>[2] = f
  BY DEF Downward, Topic
<1>3. \A a \in Actions, v \in Verdicts : <<a, v>> \in Downward /\ Topic(<<a, v>>) = a
  BY DEF Downward, Topic, Actions
<1> QED
  BY <1>1, <1>2, <1>3 DEF Downward, Topic, Topics, Actions

\* An answer leaves everything else of the link as it is.
LEMMA AnswerFields ==
  ASSUME NEW l \in Links, NEW x, l.down \o x \in Seq(Downward)
  PROVE  /\ Reply(l, x) \in Links /\ Reply(l, x).down = l.down \o x
         /\ Reply(l, x).up = l.up /\ Reply(l, x).frame = l.frame
         /\ Reply(l, x).calibrating = l.calibrating /\ Reply(l, x).stopping = l.stopping
PROOF BY DEF Reply, Links

\* The gateway answers the first message with m.
LEMMA AnswersHead ==
  ASSUME LinkInv, socket # 0, UNCHANGED <<calls, state>>, link.up # <<>>,
         NEW m \in Downward, NEW l \in Links,
         l.up = Tail(link.up), l.down = link.down, l.frame = link.frame,
         l.stopping = link.stopping, l.calibrating => link.calibrating,
         Topic(m) = Topic(Head(link.up)) \/ Topic(m) = "close",
         Topic(m) = "frame" => m[2] = pending,
         Topic(Head(link.up)) = "stop_session" => link.frame = 0,
         link' = Reply(l, <<m>>) \/ link' = Reply(l, <<m>> \o Closing)
  PROVE  LinkInv'
<1>1. /\ Topic(Head(link.up)) \in Topics /\ Has(link.up, Topic(Head(link.up)))
  BY LinkFacts, Taken, UpwardTopics
<1>2. Topic(m) \in Topics => ~Has(link.down, Topic(m))
  BY <1>1, LinkFacts, AnswersAreMessages, Zenon
<1>3. PICK x : (x = <<m>> \/ x = <<m>> \o Closing) /\ link' = Reply(l, x)
  OBVIOUS
<1>4. /\ link.down \o x \in Seq(Downward) /\ OneEach(link.down \o x)
      /\ Carries(link.down \o x, pending)
      /\ \A t \in Topics : Has(link.down \o x, t) <=> Has(link.down, t) \/ t = Topic(m)
  <2>1. CASE x = <<m>>
    BY <1>2, <2>1, LinkFacts, Answered1
  <2>2. CASE x = <<m>> \o Closing
    BY <1>2, <2>2, LinkFacts, Answered2
  <2> QED
    BY <1>3, <2>1, <2>2
<1>5. /\ link' \in Links /\ link'.down = link.down \o x /\ link'.up = Tail(link.up)
      /\ link'.frame = link.frame /\ link'.calibrating = l.calibrating
      /\ link'.stopping = link.stopping
  BY <1>3, <1>4, AnswerFields
<1>6. \A t \in Topics : Has(link'.down, t) => Has(link.down, t) \/ t = Topic(Head(link.up))
  BY <1>4, <1>5, AnswersAreMessages, Zenon
<1> QED
  BY <1>4, <1>5, <1>6, HeadAnswered DEF LinkType

\* The gateway takes a message: it answers at once, or holds what it is about.
LEMMA GatewayTakesInv ==
  ASSUME LinkInv, GatewayTakes
  PROVE  LinkInv'
<1> DEFINE m == Head(link.up)
           r == [link EXCEPT !.up = Tail(@)]
<1>1. link.up # <<>> /\ socket # 0 /\ UNCHANGED <<calls, state>> /\ link' \in Take(r, m)
  BY DEF GatewayTakes, Gateway, Open
<1>2. /\ m \in Upward /\ Tail(link.up) \in Seq(Upward) /\ link \in Links
      /\ Topic(m) = m[1] /\ Topic(m) \in Topics /\ Has(link.up, Topic(m))
      /\ Topic(m) = "frame" => m[2] = pending /\ m[2] \in Frames
      /\ link.frame \in {0, pending}
  BY <1>1, LinkFacts, Taken, UpwardTopics DEF LinkInv, LinkType
<1>3. /\ r \in Links /\ r.up = Tail(link.up) /\ r.down = link.down /\ r.frame = link.frame
      /\ r.calibrating = link.calibrating /\ r.stopping = link.stopping
      /\ r.inference = link.inference
  BY <1>2 DEF Links
<1> HIDE DEF r
<1>4. CASE m[1] = "hello"
  <2>1. link' \in {Reply(r, <<<<"ready">>>>), Reply(r, Closing)}
    BY <1>1, <1>4 DEF Take
  <2> QED
    BY <1>1, <1>2, <1>3, <1>4, <2>1, AnswersAreMessages, AnswersHead DEF Closing
<1>5. CASE m[1] = "frame"
  <2>1. \/ link' = Reply(r, Closing) \/ link' = Reply(r, <<<<"drop", m[2]>>>>)
        \/ r.frame = 0 /\ link' = [r EXCEPT !.frame = m[2]]
    BY <1>1, <1>5 DEF Take, TakeFrame
  <2>2. CASE link' = Reply(r, Closing) \/ link' = Reply(r, <<<<"drop", m[2]>>>>)
    BY <1>1, <1>2, <1>3, <1>5, <2>2, AnswersAreMessages, AnswersHead DEF Closing
  <2>3. CASE r.frame = 0 /\ link' = [r EXCEPT !.frame = m[2]]
    <3>1. /\ link' \in Links /\ link'.up = Tail(link.up) /\ link'.down = link.down
          /\ link'.frame = pending /\ link'.calibrating = link.calibrating
          /\ link'.stopping = link.stopping
      BY <1>2, <1>3, <1>5, <2>3 DEF Links
    <3>2. ~link.stopping
      BY <1>2, <1>5, Zenon DEF LinkInv, StopIsLast
    <3>3. Held' \subseteq Held \cup {Topic(m)}
      BY <1>2, <1>5, <3>1, <3>2 DEF Held
    <3> QED
      BY <1>1, <1>2, <1>5, <3>1, <3>3, HeadHeld DEF LinkType
  <2> QED
    BY <2>1, <2>2, <2>3
<1>6. CASE m[1] = "start_calibration"
  <2>1. link' = [r EXCEPT !.calibrating = TRUE]
    BY <1>1, <1>6 DEF Take
  <2>2. /\ link' \in Links /\ link'.up = Tail(link.up) /\ link'.down = link.down
        /\ link'.frame = link.frame /\ link'.stopping = link.stopping
    BY <1>3, <2>1 DEF Links
  <2>3. Held' \subseteq Held \cup {Topic(m)}
    BY <1>2, <1>6, <2>2 DEF Held
  <2> QED
    BY <1>1, <1>2, <2>2, <2>3, HeadHeld DEF LinkType
<1>7. CASE m[1] = "start_inference"
  <2>1. \/ link' = Reply([r EXCEPT !.inference = TRUE], <<<<"start_inference", "valid">>>>)
        \/ link' = Reply(r, <<<<"start_inference", "invalid">>>>)
    BY <1>1, <1>7 DEF Take
  <2>2. \A v \in Verdicts : /\ <<"start_inference", v>> \in Downward
                            /\ Topic(<<"start_inference", v>>) = "start_inference"
    BY AnswersAreMessages DEF Actions
  <2>3. /\ [r EXCEPT !.inference = TRUE] \in Links
        /\ [r EXCEPT !.inference = TRUE].up = r.up /\ [r EXCEPT !.inference = TRUE].down = r.down
        /\ [r EXCEPT !.inference = TRUE].frame = r.frame
        /\ [r EXCEPT !.inference = TRUE].stopping = r.stopping
        /\ [r EXCEPT !.inference = TRUE].calibrating = r.calibrating
    BY <1>3 DEF Links
  <2>4. PICK l \in Links, v \in Verdicts :
          /\ link' = Reply(l, <<<<"start_inference", v>>>>)
          /\ l.up = Tail(link.up) /\ l.down = link.down /\ l.frame = link.frame
          /\ l.stopping = link.stopping /\ l.calibrating = link.calibrating
    BY <1>3, <2>1, <2>3 DEF Verdicts
  <2> QED
    BY <1>1, <1>2, <1>7, <2>2, <2>4, AnswersHead
<1>8. CASE m[1] = "stop_session"
  <2> DEFINE l == [r EXCEPT !.calibrating = FALSE]
  <2>1. link' = TakeStop(l)
    BY <1>1, <1>8 DEF Take
  <2>2. /\ l \in Links /\ l.up = Tail(link.up) /\ l.down = link.down /\ l.frame = link.frame
        /\ l.stopping = link.stopping /\ l.calibrating = FALSE
    BY <1>3 DEF Links
  <2> HIDE DEF l
  <2>3. CASE link.frame = 0
    <3>1. link' = Reply(l, <<<<"stop_session", "valid">>>> \o Closing)
      BY <2>1, <2>2, <2>3 DEF TakeStop
    <3>2. /\ <<"stop_session", "valid">> \in Downward
          /\ Topic(<<"stop_session", "valid">>) = "stop_session"
      BY AnswersAreMessages DEF Actions, Verdicts
    <3> QED
      BY <1>1, <1>2, <1>8, <2>2, <2>3, <3>1, <3>2, AnswersHead
  <2>4. CASE link.frame # 0
    <3>1. link' = [l EXCEPT !.stopping = TRUE]
      BY <2>1, <2>2, <2>4 DEF TakeStop
    <3>2. /\ link' \in Links /\ link'.up = Tail(link.up) /\ link'.down = link.down
          /\ link'.frame = link.frame /\ link'.calibrating = FALSE
      BY <2>2, <3>1 DEF Links
    <3>3. Held' \subseteq Held \cup {Topic(m)}
      BY <1>2, <1>8, <3>2 DEF Held
    <3> QED
      BY <1>1, <1>2, <1>8, <3>2, <3>3, HeadHeld DEF LinkType
  <2> QED
    BY <2>3, <2>4
<1> QED
  BY <1>2, <1>4, <1>5, <1>6, <1>7, <1>8 DEF Topics, Actions

\* The gateway answers what it holds: the topics of the answers were held.
LEMMA HeldAnswered ==
  ASSUME LinkInv, socket # 0, UNCHANGED <<calls, state>>, LinkType',
         link'.up = link.up, link'.frame \in {0, pending}, link'.stopping = link.stopping,
         OneEach(link'.down), Carries(link'.down, pending),
         \A t \in Topics : Has(link'.down, t) => Has(link.down, t) \/ t \in Held,
         \A t \in Topics : Has(link'.down, t) => t \notin Held',
         Has(link'.down, "stop_session") => link'.frame = 0 /\ ~Has(link.up, "frame"),
         Held' \subseteq Held
  PROVE  LinkInv'
<1>1. StopIsLast'
  <2>1. control' = control
    BY DEF calls
  <2> QED
    BY <2>1, LinkFacts, Zenon DEF LinkInv, StopIsLast
<1>2. ASSUME NEW t \in Topics
      PROVE  /\ Has(link'.up, t) => /\ Has(link.up, t)
                                    /\ Has(link'.down, t) => Has(link.down, t)
                                    /\ t \in Held' => t \in Held
             /\ Has(link'.down, t) => Somewhere(t) /\ t \notin Held'
             /\ t \in Held' => Somewhere(t)
  BY LinkFacts, Zenon DEF Somewhere
<1> QED
  BY <1>1, <1>2, LinkFacts, LinkMoves

\* A verdict on the calibration.
LEMMA GatewayEndsCalibrationInv ==
  ASSUME LinkInv, GatewayEndsCalibration
  PROVE  LinkInv'
<1> DEFINE l == [link EXCEPT !.calibrating = FALSE]
<1>1. /\ link.calibrating /\ socket # 0 /\ UNCHANGED <<calls, state>>
      /\ \E v \in Verdicts : link' = Reply(l, <<<<"start_calibration", v>>>>)
  BY DEF GatewayEndsCalibration, Gateway, Open
<1>2. /\ l \in Links /\ l.up = link.up /\ l.down = link.down /\ l.frame = link.frame
      /\ l.calibrating = FALSE /\ l.stopping = link.stopping
  BY DEF LinkInv, LinkType, Links
<1> HIDE DEF l
<1>3. PICK v \in Verdicts : link' = Reply(l, <<<<"start_calibration", v>>>>)
  BY <1>1
<1>4. /\ <<"start_calibration", v>> \in Downward
      /\ Topic(<<"start_calibration", v>>) = "start_calibration"
      /\ "start_calibration" \in Topics /\ "start_calibration" \in Held
  BY <1>1, AnswersAreMessages DEF Actions, Topics, Held
<1> DEFINE d == link.down \o <<<<"start_calibration", v>>>>
<1>5. /\ d \in Seq(Downward) /\ OneEach(d) /\ Carries(d, pending)
      /\ \A t \in Topics : Has(d, t) <=> Has(link.down, t) \/ t = "start_calibration"
  BY <1>4, LinkFacts, Answered1
<1>6. /\ link' \in Links /\ link'.down = d /\ link'.up = link.up /\ link'.frame = link.frame
      /\ link'.calibrating = FALSE /\ link'.stopping = link.stopping
  BY <1>2, <1>3, <1>5, AnswerFields
<1> HIDE DEF d
<1>7. Held' = Held \ {"start_calibration"}
  BY <1>6 DEF Held
<1>8. Has(d, "stop_session") => Has(link.down, "stop_session")
  BY <1>5 DEF Topics, Actions
<1>9. Has(link'.down, "stop_session") => link'.frame = 0 /\ ~Has(link.up, "frame")
  BY <1>6, <1>8, Zenon DEF LinkInv, StopIsLast
<1>10. \A t \in Topics : /\ Has(link'.down, t) => Has(link.down, t) \/ t \in Held
                         /\ Has(link'.down, t) => t \notin Held'
  BY <1>4, <1>5, <1>6, <1>7, LinkFacts, Zenon
<1> QED
  BY <1>1, <1>5, <1>6, <1>7, <1>9, <1>10, LinkFacts, HeldAnswered DEF LinkType

\* The frame at the gateway ends, and with it a stop that waited for it.
LEMMA GatewayEndsFrameInv ==
  ASSUME LinkInv, GatewayEndsFrame
  PROVE  LinkInv'
<1>1. link.frame # 0 /\ socket # 0 /\ UNCHANGED <<calls, state>>
  BY DEF GatewayEndsFrame, Gateway, Open
<1>2. link.frame \in Frames /\ link.frame = pending /\ "frame" \in Held /\ "frame" \in Topics
      /\ "stop_session" \in Topics
  BY <1>1, LinkFacts DEF Held, Topics, Actions
<1> DEFINE r == [link EXCEPT !.frame = 0]
<1>3. /\ r \in Links /\ r.up = link.up /\ r.down = link.down /\ r.frame = 0
      /\ r.calibrating = link.calibrating /\ r.stopping = link.stopping
  BY DEF LinkInv, LinkType, Links
<1>4. PICK k \in {"result", "drop"}, b \in BOOLEAN :
        LET l == Reply(r, <<<<k, link.frame, b>>>>)
        IN link' = IF link.stopping THEN TakeStop(l) ELSE l
  <2>1. PICK kind \in {"result", "drop"}, progress \in BOOLEAN :
          LET l == Reply(r, <<<<kind, link.frame, kind = "result" /\ progress>>>>)
          IN Gateway(IF link.stopping THEN TakeStop(l) ELSE l)
    BY DEF GatewayEndsFrame
  <2> QED
    BY <2>1 DEF Gateway
<1> DEFINE m == <<k, link.frame, b>>
           d == link.down \o <<m>>
           l == Reply(r, <<m>>)
<1>5. m \in Downward /\ Topic(m) = "frame" /\ m[2] = pending
  BY <1>2, AnswersAreMessages
<1> HIDE DEF r
<1>6. /\ d \in Seq(Downward) /\ OneEach(d) /\ Carries(d, pending)
      /\ \A t \in Topics : Has(d, t) <=> Has(link.down, t) \/ t = "frame"
  <2>1. ~Has(link.down, Topic(m))
    BY <1>2, <1>5, LinkFacts, Zenon
  <2> HIDE DEF m
  <2> QED
    BY <1>5, <2>1, LinkFacts, Answered1
<1> HIDE DEF m
<1>7. /\ l \in Links /\ l.down = d /\ l.up = link.up /\ l.frame = 0
      /\ l.calibrating = link.calibrating /\ l.stopping = link.stopping
  BY <1>3, <1>6, AnswerFields
<1>8. link' = IF link.stopping THEN TakeStop(l) ELSE l
  BY <1>4 DEF m
<1> HIDE DEF d, l
<1>9. ~Has(link.up, "frame") /\ ~Has(link.down, "frame")
  BY <1>2, LinkFacts, Zenon
<1>10. CASE ~link.stopping
  <2>1. link' = l
    BY <1>8, <1>10
  <2>2. Held' = Held \ {"frame"} /\ "stop_session" \notin Held
    BY <1>7, <1>10, <2>1 DEF Held
  <2>3. \A t \in Topics : /\ Has(link'.down, t) => Has(link.down, t) \/ t \in Held
                          /\ Has(link'.down, t) => t \notin Held'
    BY <1>2, <1>6, <1>7, <2>1, <2>2, LinkFacts, Zenon
  <2> QED
    BY <1>1, <1>2, <1>6, <1>7, <1>9, <2>1, <2>2, <2>3, LinkFacts, HeldAnswered DEF LinkType
<1>11. CASE link.stopping
  <2> DEFINE s == <<"stop_session", "valid">>
             e == d \o (<<s>> \o Closing)
  <2>1. s \in Downward /\ Topic(s) = "stop_session"
    BY AnswersAreMessages DEF Actions, Verdicts
  <2>2. "stop_session" \in Held /\ ~Has(link.down, "stop_session")
    <3>1. "stop_session" \in Held
      BY <1>1, <1>11 DEF Held
    <3> QED
      BY <1>2, <3>1, LinkFacts, Zenon
  <2>3. link' = Reply(l, <<s>> \o Closing)
    BY <1>7, <1>8, <1>11 DEF TakeStop
  <2> HIDE DEF s
  <2>4. ~Has(d, Topic(s))
    BY <1>2, <1>6, <2>1, <2>2, Zenon
  <2>5. /\ e \in Seq(Downward) /\ OneEach(e) /\ Carries(e, pending)
        /\ \A t \in Topics : Has(e, t) <=> Has(d, t) \/ t = Topic(s)
    BY <1>6, <2>1, <2>4, Answered2
  <2>6. /\ link' \in Links /\ link'.down = e /\ link'.up = link.up /\ link'.frame = 0
        /\ link'.calibrating = link.calibrating /\ link'.stopping = link.stopping
    BY <1>7, <2>3, <2>5, AnswerFields
  <2> HIDE DEF e
  <2>7. Held' = Held \ {"frame", "stop_session"}
    BY <2>6 DEF Held
  <2>8. \A t \in Topics : /\ Has(link'.down, t) => Has(link.down, t) \/ t \in Held
                          /\ Has(link'.down, t) => t \notin Held'
    BY <1>2, <1>6, <2>1, <2>2, <2>5, <2>6, <2>7, LinkFacts, Zenon
  <2> QED
    BY <1>1, <1>9, <2>5, <2>6, <2>7, <2>8, LinkFacts, HeldAnswered DEF LinkType
<1> QED
  BY <1>10, <1>11

-----------------------------------------------------------------------------
(* The client takes a message of the gateway.                               *)

\* What an answer can be about, and what it says.
LEMMA DownwardTopics ==
  ASSUME NEW m \in Downward
  PROVE  /\ m[1] = "close" \/ Topic(m) \in Topics
         /\ m[1] = "ready" <=> Topic(m) = "hello"
         /\ m[1] \in {"drop", "result"} <=> Topic(m) = "frame"
         /\ m[1] \in Actions <=> Topic(m) \in Actions
         /\ m[1] \in Actions => Topic(m) = m[1] /\ m[2] \in Verdicts
         /\ Topic(m) = "frame" => m[2] \in Frames
         /\ m[1] = "result" => m[3] \in BOOLEAN
<1>1. /\ m[1] \in {"ready", "close", "drop", "result"} \cup Actions
      /\ m[1] \in Actions => m[2] \in Verdicts
      /\ m[1] \in {"drop", "result"} => m[2] \in Frames
      /\ m[1] = "result" => m[3] \in BOOLEAN
  BY DEF Downward, Actions
<1> QED
  BY <1>1 DEF Topic, Topics, Actions

\* A message that is not the end is about something somebody waits for
\* (handleMessage finds it valid).
LEMMA HeadIsExpected ==
  ASSUME LinkInv, CaughtUp, Open, socket \in Sessions, link.down # <<>>, Head(link.down)[1] # "close"
  PROVE  Expected(Head(link.down)) /\ Topic(Head(link.down)) \in Topics
<1> DEFINE m == Head(link.down)
<1>1. m \in Downward /\ Has(link.down, Topic(m))
      /\ (Topic(m) = "frame" => m[2] = pending)
  BY LinkFacts, Taken
<1>2. /\ Topic(m) \in Topics
      /\ m[1] = "ready" => Topic(m) = "hello"
      /\ m[1] \in Actions => Topic(m) = m[1]
      /\ m[1] # "ready" /\ m[1] \notin Actions => Topic(m) = "frame"
  BY <1>1, DownwardTopics DEF Topics
<1>3. Somewhere(Topic(m))
  BY <1>1 DEF Somewhere
<1> HIDE DEF m
<1>4. CASE m[1] = "ready"
  <2>1. start[socket] \in {"handshake", "rejected"} /\ start[socket] # "rejected"
    BY <1>2, <1>3, <1>4 DEF LinkInv, SomebodyWaits, CaughtUp
  <2> QED
    BY <1>2, <1>4, <2>1 DEF Expected, m
<1>5. CASE m[1] \in Actions
  BY <1>2, <1>3, <1>5, Zenon DEF LinkInv, SomebodyWaits, Expected, Actions, m
<1>6. CASE m[1] # "ready" /\ m[1] \notin Actions
  BY <1>1, <1>2, <1>3, <1>6, Zenon DEF LinkInv, SomebodyWaits, Expected, m
<1> QED
  BY <1>4, <1>5, <1>6

\* The message is taken off, and only who it is for stops waiting.
LEMMA LinkReceived ==
  ASSUME LinkInv, link.down # <<>>, NEW m, m = Head(link.down), Topic(m) \in Topics,
         socket # 0, socket' = socket, link' = [link EXCEPT !.down = Tail(@)],
         Topic(m) # "hello" => start' = start,
         \A c \in Actions : c # Topic(m) => control'[c] = control[c],
         Topic(m) = "stop_session" => control'["stop_session"] \in Verdicts,
         Topic(m) # "frame" => pending' = pending /\ frame' = frame
  PROVE  LinkInv'
<1>1. /\ Tail(link.down) \in Seq(Downward) /\ OneEach(Tail(link.down))
      /\ Has(link.down, Topic(m)) /\ Carries(Tail(link.down), pending)
      /\ \A t \in Topics : Has(Tail(link.down), t) <=> Has(link.down, t) /\ t # Topic(m)
  BY LinkFacts, Taken
<1>2. /\ link' \in Links /\ link'.down = Tail(link.down) /\ link'.up = link.up
      /\ link'.frame = link.frame /\ link'.calibrating = link.calibrating
      /\ link'.stopping = link.stopping
  BY <1>1 DEF LinkInv, LinkType, Links
<1>3. Held' = Held
  BY <1>2 DEF Held
<1>4. OnePlace'
  BY <1>1, <1>2, <1>3, LinkFacts, Zenon DEF OnePlace
<1>5. \A t \in Topics : Somewhere(t)' <=> Somewhere(t) /\ t # Topic(m)
  BY <1>1, <1>2, <1>3, LinkFacts, Zenon DEF Somewhere
<1>6. "frame" \in Topics /\ "hello" \in Topics /\ Actions \subseteq Topics
      /\ "stop_session" \in Actions
  BY DEF Topics, Actions
<1>7. Carries(link'.up, pending') /\ Carries(link'.down, pending') /\ link'.frame \in {0, pending'}
  <2>1. CASE Topic(m) = "frame"
    <3>1. ~Has(link'.up, "frame") /\ ~Has(link'.down, "frame") /\ "frame" \notin Held
      BY <1>1, <1>2, <1>6, <2>1, LinkFacts, Zenon
    <3>2. link.frame = 0
      BY <3>1 DEF Held
    <3> QED
      BY <1>2, <3>1, <3>2, Zenon DEF Has, Carries
  <2>2. CASE Topic(m) # "frame"
    BY <1>1, <1>2, <2>2, LinkFacts, Zenon
  <2> QED
    BY <2>1, <2>2
<1>8. SomebodyWaits'
  <2>1. Somewhere("hello")' => start'[socket'] \in {"handshake", "rejected"}
    BY <1>5, <1>6, Zenon DEF LinkInv, SomebodyWaits
  <2>2. \A c \in Actions : Somewhere(c)' => control'[c] = "waiting"
    BY <1>5, <1>6, Zenon DEF LinkInv, SomebodyWaits
  <2>3. Somewhere("frame")' => pending' # 0 /\ frame'[pending'] \in {"waiting", "abandoned"}
    BY <1>5, <1>6, Zenon DEF LinkInv, SomebodyWaits
  <2> QED
    BY <1>7, <2>1, <2>2, <2>3, Zenon DEF SomebodyWaits
<1>9. StopIsLast'
  <2>1. link.stopping => control'["stop_session"] \in {"waiting"} \cup Verdicts
    BY <1>6, Zenon DEF LinkInv, StopIsLast
  <2>2. Has(link'.down, "stop_session") => Has(link.down, "stop_session")
    BY <1>1, <1>2, <1>6, Zenon
  <2> QED
    BY <1>2, <2>1, <2>2, Zenon DEF LinkInv, StopIsLast
<1> QED
  BY <1>2, <1>4, <1>8, <1>9 DEF LinkInv, LinkType

-----------------------------------------------------------------------------
(* The sessions, the calls and the capture.                                 *)

\* While a start is under way no other session is.
LEMMA OneStartAtATime ==
  ASSUME ClientTypeOK, StartsInv, NEW s \in Sessions, start[s] \notin {"none", "done", "failed"}
  PROVE  \A t \in Sessions : /\ t < s => start[t] \in {"done", "failed"}
                             /\ t > s => start[t] = "none"
<1>1. ASSUME NEW t \in Sessions, t < s
      PROVE  start[t] \in {"done", "failed"}
  BY <1>1 DEF StartsInv, Sessions
<1>2. ASSUME NEW t \in Sessions, t > s
      PROVE  start[t] = "none"
  BY <1>2 DEF StartsInv, Sessions
<1> QED
  BY <1>1, <1>2

\* What a session that ends leaves behind.
LEMMA TeardownInv ==
  ASSUME ClientInv, NEW st, NEW co, Teardown(st, co, frame),
         UNCHANGED <<aborted, of, left, heard>>, fault' = FALSE,
         \A s \in Sessions : \/ st[s] = start[s]
                             \/ start[s] = "rejected" /\ st[s] = "failed",
         \A s \in Sessions : st[s] \notin {"token", "opened", "readied"},
         \A c \in Actions : co[c] = control[c] \/ co[c] \in {"done", "refused"},
         \A c \in Actions : co[c] \notin Verdicts
  PROVE  ClientInv'
<1>1. /\ socket' = 0 /\ pending' = 0 /\ link' = NoLink
      /\ ready' = FALSE /\ active' = FALSE /\ profile' = FALSE
      /\ start' = [s \in Sessions |->
                     IF st[s] \in {"opening", "handshake"} THEN "rejected" ELSE st[s]]
      /\ control' = [c \in Actions |-> IF co[c] = "waiting" THEN "failed" ELSE co[c]]
      /\ frame' = FrameRejected(frame) /\ net' = Closed
  BY DEF Teardown, RejectWaiters
<1>2. \A s \in Sessions :
        /\ start'[s] \in {"none", "rejected", "done", "failed"}
        /\ start'[s] # "none" => start[s] # "none"
        /\ start[s] \in {"done", "failed"} => start'[s] \in {"done", "failed"}
  BY <1>1 DEF ClientInv, ClientTypeOK, Starting
<1>3. \A c \in Actions : control'[c] \in {"none", "failed", "done", "refused"}
  BY <1>1 DEF ClientInv, ClientTypeOK, Verdicts
<1>4. /\ frame' \in [Frames -> {"none", "rejected", "settled", "ended"}]
      /\ \A f \in Frames : frame[f] \in {"none", "ended", "settled"} => frame'[f] = frame[f]
  <2>1. CASE pending = 0
    <3>1. \A f \in Frames : frame[f] \notin {"encoding", "waiting", "abandoned"}
      BY <2>1 DEF ClientInv, FrameInv, Frames
    <3> QED
      BY <1>1, <2>1, <3>1 DEF FrameRejected, ClientInv, ClientTypeOK
  <2>2. CASE pending # 0
    <3>1. /\ pending \in Frames /\ frame[pending] \in {"encoding", "waiting", "abandoned"}
          /\ \A f \in Frames : f # pending => frame[f] \notin {"encoding", "waiting", "abandoned"}
          /\ frame \in [Frames -> {"none", "encoding", "rejected", "waiting", "settled",
                                   "abandoned", "ended"}]
      BY <2>2 DEF ClientInv, ClientTypeOK, FrameInv
    <3>2. PICK v \in {"rejected", "settled", "ended"} : frame' = [frame EXCEPT ![pending] = v]
      BY <1>1, <2>2, <3>1 DEF FrameRejected
    <3> QED
      BY <3>1, <3>2
  <2> QED
    BY <2>1, <2>2
<1>5. \A s \in Sessions : net'[s] \in {"none", "closed"}
  BY <1>1 DEF Closed, ClientInv, ClientTypeOK, SocketsClosed, Sessions
<1>6. ClientTypeOK'
  <2>1. start' \in [Sessions -> Starting \cup
                      {"none", "opened", "readied", "rejected", "done", "failed"}]
    BY <1>1, <1>2
  <2>2. control' \in [Actions -> Verdicts \cup
                        {"none", "waiting", "failed", "done", "refused"}]
    BY <1>1, <1>3
  <2>3. net' \in [Sessions -> {"none", "connecting", "open", "closed"}]
    BY <1>1 DEF Closed, ClientInv, ClientTypeOK
  <2>4. frame' \in [Frames -> {"none", "encoding", "rejected", "waiting", "settled",
                               "abandoned", "ended"}]
    BY <1>4
  <2> QED
    BY <1>1, <2>1, <2>2, <2>3, <2>4 DEF ClientInv, ClientTypeOK
<1>7. StartsInv'
  <2>1. ASSUME NEW s \in Sessions, start'[s] # "none", NEW t \in Sessions, t < s
        PROVE  start'[t] \in {"done", "failed"}
    BY <1>2, <2>1 DEF ClientInv, StartsInv
  <2> QED
    BY <1>1, <1>2, <2>1 DEF StartsInv
<1>8. ControlInv'
  BY <1>1, <1>2, <1>3 DEF ControlInv, Verdicts
<1>9. CaptureInv'
  BY <1>1 DEF CaptureInv
<1>10. FrameInv'
  BY <1>1, <1>2, <1>4 DEF FrameInv
<1>11. SocketsClosed' /\ LinkInv'
  BY <1>1, <1>5, LinkCleared DEF SocketsClosed
<1> QED
  BY <1>6, <1>7, <1>8, <1>9, <1>10, <1>11 DEF ClientInv

\* The client finds that its session is over (failTransport).
LEMMA FailTransportInv ==
  ASSUME ClientInv, CaughtUp, socket # 0, FailTransport,
         UNCHANGED <<aborted, of, left, heard>>, fault' = FALSE
  PROVE  ClientInv'
<1>1. \A s \in Sessions : start[s] \notin {"token", "opened", "readied"}
  BY DEF ClientInv, StartsInv, CaughtUp
<1>2. \A c \in Actions : control[c] \notin Verdicts
  BY DEF CaughtUp
<1> QED
  BY <1>1, <1>2, TeardownInv DEF FailTransport

\* Without a session there is no link, before a step and after it.
LEMMA StartSessionInv ==
  ASSUME ClientInv, NEW s \in Sessions, StartSession(s)
  PROVE  ClientInv'
<1>1. /\ start[s] = "none" /\ socket = 0 /\ CameraStopped /\ CaughtUp
      /\ start' = [start EXCEPT ![s] = "token"]
      /\ \A t \in Sessions : t < s => start[t] \in {"done", "failed"}
  BY DEF StartSession, Sessions
<1>2. UNCHANGED <<aborted, control, frame, of, left, socket, net, ready, active, profile,
                  pending, link, heard, fault>>
  BY DEF StartSession, state
<1>3. /\ start'[s] = "token" /\ \A t \in Sessions \ {s} : start'[t] = start[t]
  BY <1>1 DEF ClientInv, ClientTypeOK
<1>4. ClientTypeOK' /\ ~fault'
  BY <1>1, <1>2 DEF ClientInv, ClientTypeOK, Starting
<1>5. StartsInv'
  <2>1. ASSUME NEW t \in Sessions, start'[t] # "none", NEW u \in Sessions, u < t
        PROVE  start'[u] \in {"done", "failed"}
    <3>1. u # s
      BY <1>1, <1>3, <2>1 DEF ClientInv, StartsInv, Sessions
    <3> QED
      BY <1>1, <1>3, <2>1, <3>1 DEF ClientInv, StartsInv
  <2> QED
    BY <1>1, <1>2, <1>3, <2>1 DEF ClientInv, StartsInv
<1>6. ControlInv'
  BY <1>1, <1>2, <1>3 DEF ClientInv, ControlInv, CaughtUp
<1>7. CaptureInv' /\ SocketsClosed'
  BY <1>1, <1>2 DEF ClientInv, CaptureInv, SocketsClosed
<1>8. FrameInv'
  BY <1>1, <1>2 DEF ClientInv, FrameInv, CameraStopped
<1>9. LinkInv'
  BY <1>1, <1>2, LinkCleared DEF ClientInv, LinkInv
<1> QED
  BY <1>4, <1>5, <1>6, <1>7, <1>8, <1>9 DEF ClientInv

\* The token comes, for a start that is still wanted or not.
LEMMA TokenArrivesInv ==
  ASSUME ClientInv, NEW s \in Sessions, TokenArrives(s)
  PROVE  ClientInv'
<1>1. /\ start[s] = "token" /\ socket = 0 /\ link = NoLink /\ CaughtUp
      /\ UNCHANGED <<aborted, frame, of, left, ready, active, profile, pending, link, heard, fault>>
  BY DEF TokenArrives, ClientInv, StartsInv, LinkInv
<1>2. LinkInv'
  BY <1>1, LinkCleared
<1>3. /\ \A t \in Sessions : /\ t < s => start[t] \in {"done", "failed"}
                             /\ t > s => start[t] = "none"
      /\ \A t \in Sessions \ {s} : start[t] \in {"none", "done", "failed"}
  <2>1. \A t \in Sessions : /\ t < s => start[t] \in {"done", "failed"}
                            /\ t > s => start[t] = "none"
    BY <1>1, OneStartAtATime DEF ClientInv
  <2> QED
    BY <2>1 DEF Sessions
<1>4. /\ ~ready /\ ~active /\ ~profile
      /\ \A t \in Sessions : net[t] \in {"none", "closed"}
      /\ \A f \in Frames : /\ frame[f] \notin {"encoding", "waiting", "abandoned"}
                           /\ frame[f] = "rejected" => f \in left
      /\ pending = 0
  BY <1>1 DEF ClientInv, CaptureInv, SocketsClosed, FrameInv, Sessions, ClientTypeOK, Frames
<1>5. CASE /\ start' = [start EXCEPT ![s] = "opening"]
           /\ socket' = s /\ net' = [net EXCEPT ![s] = "connecting"]
           /\ control' = [c \in Actions |-> "none"]
  <2>1. /\ start'[s] = "opening" /\ \A t \in Sessions \ {s} : start'[t] = start[t]
        /\ \A t \in Sessions \ {s} : net'[t] = net[t]
        /\ \A c \in Actions : control'[c] = "none"
    BY <1>5 DEF ClientInv, ClientTypeOK
  <2>2. ClientTypeOK' /\ ~fault'
    BY <1>1, <1>5 DEF ClientInv, ClientTypeOK, Starting
  <2>3. StartsInv'
    <3>1. ASSUME NEW t \in Sessions, start'[t] # "none", NEW u \in Sessions, u < t
          PROVE  start'[u] \in {"done", "failed"}
      BY <1>3, <2>1, <3>1 DEF ClientInv, StartsInv, Sessions
    <3>2. s # 0
      BY DEF Sessions
    <3> QED
      BY <1>3, <1>5, <2>1, <3>1, <3>2 DEF StartsInv, Sessions
  <2>4. ControlInv' /\ CaptureInv' /\ FrameInv'
    BY <1>1, <1>4, <1>5, <2>1 DEF ControlInv, CaptureInv, FrameInv, Verdicts, Actions
  <2>5. SocketsClosed'
    BY <1>4, <1>5, <2>1 DEF SocketsClosed
  <2> QED
    BY <1>2, <2>2, <2>3, <2>4, <2>5 DEF ClientInv
<1>6. CASE start' = [start EXCEPT ![s] = "failed"] /\ UNCHANGED <<control, socket, net>>
  <2>1. /\ start'[s] = "failed" /\ \A t \in Sessions \ {s} : start'[t] = start[t]
    BY <1>6 DEF ClientInv, ClientTypeOK
  <2>2. ClientTypeOK' /\ ~fault'
    BY <1>1, <1>6 DEF ClientInv, ClientTypeOK
  <2>3. StartsInv'
    BY <1>1, <1>3, <1>6, <2>1 DEF ClientInv, StartsInv
  <2>4. ControlInv' /\ CaptureInv' /\ FrameInv'
    BY <1>1, <1>4, <1>6, <2>1 DEF ClientInv, ControlInv, CaptureInv, FrameInv
  <2>5. SocketsClosed'
    BY <1>6 DEF ClientInv, SocketsClosed
  <2> QED
    BY <1>2, <2>2, <2>3, <2>4, <2>5 DEF ClientInv
<1> QED
  BY <1>5, <1>6 DEF TokenArrives

\* A start is moved on, while the session and its calls stay what they are.
LEMMA StartMovesInv ==
  ASSUME ClientInv, NEW s \in Sessions, start[s] \notin {"none", "done", "failed"},
         NEW v \in {"opened", "handshake", "readied", "rejected", "done", "failed"},
         start' = [start EXCEPT ![s] = v],
         UNCHANGED <<control, frame, of, left, socket, active, profile, pending, heard, fault>>,
         aborted' \subseteq Sessions, ready' \in BOOLEAN, LinkInv',
         start[s] = "token" => v = "failed", v = "failed" => start[s] = "token",
         net' = net \/ (socket # 0 /\ net' = [net EXCEPT ![socket] = "open"]),
         ready' = ready \/ (socket = s /\ v = "done"), v = "done" => start[s] = "readied",
         v = "opened" => start[s] = "opening", v = "handshake" => start[s] = "opened",
         v = "readied" => start[s] = "handshake"
  PROVE  ClientInv'
<1>1. /\ start'[s] = v /\ \A t \in Sessions \ {s} : start'[t] = start[t]
      /\ \A t \in Sessions \ {s} : start[t] \in {"none", "done", "failed"}
  BY OneStartAtATime DEF ClientInv, ClientTypeOK, Sessions
<1>2. start[s] # "token" => socket \in {0, s}
  BY DEF ClientInv, StartsInv, ClientTypeOK, Starting
<1>3. ClientTypeOK' /\ ~fault'
  BY DEF ClientInv, ClientTypeOK, Starting
<1>4. StartsInv'
  <2>1. ASSUME NEW t \in Sessions, start'[t] # "none", NEW u \in Sessions, u < t
        PROVE  start'[u] \in {"done", "failed"}
    BY <1>1, <2>1 DEF ClientInv, StartsInv
  <2>2. \A t \in Sessions :
          /\ start'[t] = "token" => socket' = 0
          /\ start'[t] \in {"opening", "opened", "handshake", "readied"} => socket' = t
          /\ start'[t] = "rejected" => socket' \in {0, t}
    BY <1>1, <1>2 DEF ClientInv, StartsInv, Sessions
  <2>3. socket' # 0 => /\ start'[socket'] \in {"opening", "opened", "handshake", "readied",
                                               "rejected", "done"}
                       /\ \A t \in Sessions : t > socket' => start'[t] = "none"
    BY <1>1, <1>2 DEF ClientInv, StartsInv, ClientTypeOK
  <2> QED
    BY <2>1, <2>2, <2>3 DEF StartsInv
<1>5. ControlInv'
  BY <1>1, <1>2 DEF ClientInv, ControlInv, Sessions
<1>6. CaptureInv'
  <2>1. ASSUME ready, socket # 0, start[socket] = "done"
        PROVE  start'[socket] = "done"
    BY <1>1, <2>1 DEF ClientInv, ClientTypeOK
  <2>2. s # 0
    BY DEF Sessions
  <2>3. ready' => socket # 0 /\ start'[socket] = "done"
    BY <1>1, <2>1, <2>2, Zenon DEF ClientInv, CaptureInv
  <2> QED
    BY <2>3, Zenon DEF ClientInv, CaptureInv
<1>7. FrameInv'
  BY <1>1 DEF ClientInv, FrameInv
<1>8. SocketsClosed'
  BY DEF ClientInv, SocketsClosed, ClientTypeOK
<1> QED
  BY <1>3, <1>4, <1>5, <1>6, <1>7, <1>8 DEF ClientInv

\* What LinkInv says of who waits, where no step of it is under way.
LEMMA NothingUnderWay ==
  ASSUME LinkInv
  PROVE  /\ start[socket] \notin {"handshake", "rejected"} => ~Somewhere("hello")
         /\ \A c \in Actions : control[c] # "waiting" => ~Somewhere(c)
         /\ pending = 0 \/ frame[pending] \notin {"waiting", "abandoned"} => ~Somewhere("frame")
         /\ control["stop_session"] \notin {"waiting"} \cup Verdicts => ~link.stopping
PROOF BY Zenon DEF LinkInv, SomebodyWaits, StopIsLast

\* The signal of a start is aborted.
LEMMA AbortStartInv ==
  ASSUME ClientInv, NEW s \in Sessions, AbortStart(s)
  PROVE  ClientInv'
<1> DEFINE v == IF start[s] = "token" THEN "failed" ELSE "rejected"
<1>1. /\ start[s] \in Starting /\ aborted' \subseteq Sessions
      /\ start' = [start EXCEPT ![s] = v]
      /\ UNCHANGED <<control, frame, of, left, socket, net, ready, active, profile, pending, link,
                     heard, fault>>
  BY DEF AbortStart, state, ClientInv, ClientTypeOK
<1>2. start[s] = "token" => socket = 0 /\ link = NoLink
  BY DEF ClientInv, StartsInv, LinkInv
<1>3. start[s] # "token" => v = "rejected"
  OBVIOUS
<1>4. v \in {"failed", "rejected"} /\ (v = "failed" => start[s] = "token")
      /\ (start[s] = "token" => v = "failed")
  OBVIOUS
<1> HIDE DEF v
<1>5. LinkInv'
  <2>1. CASE start[s] = "token"
    BY <1>1, <1>2, <2>1, LinkCleared
  <2>2. CASE start[s] # "token"
    <3>1. Somewhere("hello") => start'[socket] \in {"handshake", "rejected"}
      <4>1. CASE socket = s
        BY <1>1, <1>3, <2>2, <4>1 DEF ClientInv, ClientTypeOK
      <4>2. CASE socket # s
        BY <1>1, <4>2, NothingUnderWay DEF ClientInv, ClientTypeOK
      <4> QED
        BY <4>1, <4>2
    <3>2. /\ \A c \in Actions : Somewhere(c) => control[c] = "waiting"
          /\ link.stopping => control["stop_session"] \in {"waiting"} \cup Verdicts
          /\ Somewhere("frame") => frame[pending] \in {"waiting", "abandoned"}
      BY NothingUnderWay DEF ClientInv
    <3> QED
      BY <1>1, <3>1, <3>2, LinkKept DEF ClientInv
  <2> QED
    BY <2>1, <2>2
<1>6. ready' \in BOOLEAN /\ start[s] \notin {"none", "done", "failed"}
  BY <1>1 DEF ClientInv, ClientTypeOK, Starting
<1> QED
  BY <1>1, <1>4, <1>5, <1>6, StartMovesInv

\* The promise of a start is settled, and startSession goes on.
LEMMA StartContinuesInv ==
  ASSUME ClientInv, NEW s \in Sessions, StartContinues(s)
  PROVE  ClientInv'
<1>1. CASE start[s] = "opened" /\ start' = [start EXCEPT ![s] = "handshake"]
  <2>1. /\ SendMessage(<<"hello", s>>)
        /\ UNCHANGED <<aborted, control, frame, of, left, socket, net, ready, active, profile,
                       pending, heard, fault>>
    BY <1>1 DEF StartContinues, state
  <2>2. /\ socket = s /\ socket # 0 /\ start'[socket] = "handshake"
        /\ ready' \in BOOLEAN /\ aborted' \subseteq Sessions
    BY <1>1, <2>1 DEF ClientInv, StartsInv, ClientTypeOK, Sessions
  <2>3. <<"hello", s>> \in Upward /\ Topic(<<"hello", s>>) = "hello"
    BY DEF Upward, Topic
  <2>4. /\ ~Somewhere("hello")
        /\ \A c \in Actions : Somewhere(c) => control[c] = "waiting"
        /\ Somewhere("frame") => pending # 0 /\ frame[pending] \in {"waiting", "abandoned"}
        /\ link.stopping => control["stop_session"] \in {"waiting"} \cup Verdicts
    BY <1>1, <2>2, NothingUnderWay DEF ClientInv
  <2>5. "hello" \notin Actions
    BY DEF Actions
  <2> DEFINE m == <<"hello", s>>
  <2> HIDE DEF m
  <2>6. LinkInv'
    <3>1. m \in Upward /\ Topic(m) = "hello" /\ SendMessage(m)
      BY <2>1, <2>3 DEF m
    <3>2. control' = control /\ frame' = frame /\ pending' = pending /\ socket' = socket
      BY <2>1
    <3> QED
      BY <2>2, <2>4, <2>5, <3>1, <3>2, LinkSends DEF ClientInv
  <2> QED
    BY <1>1, <2>1, <2>2, <2>6, StartMovesInv
<1>2. CASE start[s] = "readied" /\ start' = [start EXCEPT ![s] = "done"]
  <2>1. /\ ready' = TRUE
        /\ UNCHANGED <<aborted, control, frame, of, left, socket, net, active, profile,
                       pending, link, heard, fault>>
    BY <1>2 DEF StartContinues
  <2>2. socket = s /\ aborted' \subseteq Sessions
    BY <1>2, <2>1 DEF ClientInv, StartsInv, ClientTypeOK
  <2>3. LinkInv'
    BY <1>2, <2>1, <2>2, NothingUnderWay, LinkKept DEF ClientInv
  <2> QED
    BY <1>2, <2>1, <2>2, <2>3, StartMovesInv
<1>3. CASE start[s] = "rejected" /\ Teardown([start EXCEPT ![s] = "failed"], control, frame)
           /\ UNCHANGED <<aborted, of, left, heard, fault>>
  <2> DEFINE st == [start EXCEPT ![s] = "failed"]
  <2>1. \A t \in Sessions \ {s} : start[t] \in {"none", "done", "failed"}
    BY <1>3, OneStartAtATime DEF ClientInv, Sessions
  <2>2. st[s] = "failed" /\ \A t \in Sessions \ {s} : st[t] = start[t]
    BY DEF ClientInv, ClientTypeOK
  <2>3. \A c \in Actions : control[c] \notin Verdicts
    BY <1>3 DEF ClientInv, ControlInv, StartsInv
  <2> HIDE DEF st
  <2>4. Teardown(st, control, frame) /\ fault' = FALSE
    BY <1>3 DEF st, ClientInv, ClientTypeOK
  <2> QED
    BY <1>3, <2>1, <2>2, <2>3, <2>4, TeardownInv
<1> QED
  BY <1>1, <1>2, <1>3 DEF StartContinues

\* The connection opens.
LEMMA SocketOpensInv ==
  ASSUME ClientInv, SocketOpens
  PROVE  ClientInv'
<1>1. /\ socket # 0 /\ socket \in Sessions /\ net' = [net EXCEPT ![socket] = "open"]
      /\ start' = [start EXCEPT ![socket] = IF @ = "opening" THEN "opened" ELSE @]
      /\ UNCHANGED <<aborted, control, frame, of, left, socket, ready, active, profile, pending,
                     link, heard, fault>>
  BY DEF SocketOpens, ClientInv, ClientTypeOK
<1>2. CASE start[socket] = "opening"
  <2>1. start' = [start EXCEPT ![socket] = "opened"]
    BY <1>1, <1>2
  <2>2. LinkInv'
    BY <1>1, <1>2, NothingUnderWay, LinkKept DEF ClientInv
  <2>3. aborted' \subseteq Sessions /\ ready' \in BOOLEAN
    BY <1>1 DEF ClientInv, ClientTypeOK
  <2> QED
    BY <1>1, <1>2, <2>1, <2>2, <2>3, StartMovesInv
<1>3. CASE start[socket] # "opening"
  <2>1. start' = start
    BY <1>1, <1>3 DEF ClientInv, ClientTypeOK
  <2>2. LinkInv'
    BY <1>1, <2>1, NothingUnderWay, LinkKept DEF ClientInv
  <2>3. ClientTypeOK' /\ SocketsClosed'
    BY <1>1, <2>1 DEF ClientInv, ClientTypeOK, SocketsClosed
  <2> QED
    BY <1>1, <2>1, <2>2, <2>3 DEF ClientInv, StartsInv, ControlInv, CaptureInv, FrameInv
<1> QED
  BY <1>2, <1>3

\* The connection goes: only the state of the socket changes.
LEMMA DropsInv ==
  ASSUME ClientInv, Drops
  PROVE  ClientInv'
<1>1. /\ socket \in Sessions /\ net' = [net EXCEPT ![socket] = "closed"]
      /\ UNCHANGED <<start, aborted, control, frame, of, left, socket, ready, active, profile,
                     pending, link, heard, fault>>
  BY DEF Drops, calls, ClientInv, ClientTypeOK
<1>2. LinkInv'
  BY <1>1, NothingUnderWay, LinkKept DEF ClientInv
<1>3. ClientTypeOK' /\ SocketsClosed'
  BY <1>1 DEF ClientInv, ClientTypeOK, SocketsClosed
<1> QED
  BY <1>1, <1>2, <1>3 DEF ClientInv, StartsInv, ControlInv, CaptureInv, FrameInv

-----------------------------------------------------------------------------
(* Control requests.                                                        *)

\* Nothing of the start and of the sockets changes.
LEMMA StartsStay ==
  ASSUME ClientInv, UNCHANGED <<start, socket, net>>
  PROVE  StartsInv' /\ SocketsClosed'
PROOF BY DEF ClientInv, StartsInv, SocketsClosed

\* A control request is sent: nothing about its action is under way.
LEMMA SendControlInv ==
  ASSUME ClientInv, NEW a \in Actions, Open, start[socket] = "done", control[a] = "none",
         CaughtUp, SendControl(a),
         UNCHANGED <<start, aborted, frame, of, left, socket, net, ready, pending, heard, fault>>,
         a # "start_calibration" => UNCHANGED <<active, profile>>,
         a = "start_calibration" => active' = TRUE /\ profile' = TRUE,
         a = "start_inference" => control["start_calibration"] = "done",
         a = "stop_session" => CameraStopped
  PROVE  ClientInv'
<1>1. /\ socket # 0 /\ socket \in Sessions /\ start[socket] = "done" /\ control[a] = "none"
      /\ control' = [control EXCEPT ![a] = "waiting"] /\ SendMessage(<<a, socket>>)
  BY DEF Open, SendControl, ClientInv, ClientTypeOK
<1>2. control'[a] = "waiting" /\ \A c \in Actions \ {a} : control'[c] = control[c]
  BY <1>1 DEF ClientInv, ClientTypeOK
<1>3. LinkInv'
  <2> DEFINE m == <<a, socket>>
  <2>1. m \in Upward /\ Topic(m) = a /\ a # "frame" /\ a # "hello"
    BY <1>1 DEF Upward, Topic, Actions
  <2>2. SendMessage(m)
    BY <1>1
  <2> HIDE DEF m
  <2>3. /\ ~Somewhere("hello") /\ ~Somewhere(a)
        /\ \A c \in Actions : Somewhere(c) \/ c = a => control'[c] = "waiting"
        /\ Somewhere("frame") => pending # 0 /\ frame[pending] \in {"waiting", "abandoned"}
        /\ link.stopping => a # "stop_session"
        /\ link.stopping => control["stop_session"] \in {"waiting"} \cup Verdicts
    BY <1>1, <1>2, NothingUnderWay DEF ClientInv, Verdicts
  <2>4. link.stopping => control'["stop_session"] \in {"waiting"} \cup Verdicts
    BY <1>2, <2>3 DEF Actions
  <2> QED
    BY <1>1, <2>1, <2>2, <2>3, <2>4, LinkSends DEF ClientInv
<1>4. ClientTypeOK' /\ ~fault'
  <2>1. active' \in BOOLEAN /\ profile' \in BOOLEAN
    BY DEF ClientInv, ClientTypeOK
  <2>2. control' \in [Actions -> Verdicts \cup {"none", "waiting", "failed", "done", "refused"}]
    BY <1>1 DEF ClientInv, ClientTypeOK
  <2> QED
    BY <2>1, <2>2 DEF ClientInv, ClientTypeOK
<1>5. ControlInv'
  BY <1>1, <1>2 DEF ClientInv, ControlInv, Verdicts
<1>6. CaptureInv'
  <2>1. CASE a = "start_calibration"
    BY <1>1, <1>2, <2>1 DEF ClientInv, CaptureInv
  <2>2. CASE a # "start_calibration"
    <3>1. /\ control'["start_calibration"] = control["start_calibration"]
          /\ control["start_inference"] = "done" => control'["start_inference"] = "done"
          /\ socket' = socket /\ start' = start
          /\ active' = active /\ profile' = profile
      BY <1>1, <1>2, <2>2 DEF Actions
    <3>2. ready' => socket' # 0 /\ start'[socket'] = "done"
      BY <1>1, <3>1
    <3>3. active' => /\ socket' # 0
                     /\ \/ control'["start_calibration"] \in {"waiting", "done"} \cup Verdicts
                        \/ control'["start_inference"] = "done"
      BY <3>1, Zenon DEF ClientInv, CaptureInv
    <3>4. profile' => socket' # 0 /\ control'["start_calibration"] \in {"waiting"} \cup Verdicts
      BY <3>1, Zenon DEF ClientInv, CaptureInv
    <3> QED
      BY <3>2, <3>3, <3>4, Zenon DEF CaptureInv
  <2> QED
    BY <2>1, <2>2
<1>7. FrameInv'
  <2>1. CASE a = "stop_session"
    <3>1. \A f \in Frames : frame[f] \in {"none", "ended", "settled"} \/ f \in left
      BY <2>1 DEF CameraStopped
    <3> QED
      BY <3>1 DEF ClientInv, FrameInv
  <2>2. CASE a # "stop_session"
    <3>1. control'["stop_session"] = control["stop_session"]
      BY <1>2, <2>2 DEF Actions
    <3> QED
      BY <3>1 DEF ClientInv, FrameInv
  <2> QED
    BY <2>1, <2>2
<1> QED
  BY <1>3, <1>4, <1>5, <1>6, <1>7, StartsStay DEF ClientInv

\* startCalibration, startInference and stopSession.
LEMMA ControlRequestsInv ==
  ASSUME ClientInv, StartCalibration \/ StartInference \/ StopSession
  PROVE  ClientInv'
<1>1. CASE StartCalibration
  BY <1>1, SendControlInv DEF StartCalibration, Idle, Actions, ClientInv, CaptureInv
<1>2. CASE StartInference
  BY <1>2, SendControlInv DEF StartInference, Idle, Actions, state, ClientInv, CaptureInv
<1>3. CASE StopSession
  <2>1. CASE Open
    BY <1>3, <2>1, SendControlInv DEF StopSession, Actions, state
  <2>2. CASE ~Open
    BY <1>3, <2>2, FailTransportInv DEF StopSession, ClientInv, ClientTypeOK
  <2> QED
    BY <2>1, <2>2
<1> QED
  BY <1>1, <1>2, <1>3

\* A control request is settled, and its caller goes on.
LEMMA ControlContinuesInv ==
  ASSUME ClientInv, NEW c \in Actions, ControlContinues(c)
  PROVE  ClientInv'
<1> DEFINE w == IF control[c] = "valid" THEN "done" ELSE "refused"
           over == [control EXCEPT ![c] = w]
<1>1. /\ control[c] \in Verdicts \cup {"failed"} /\ UNCHANGED <<aborted, of, left, heard, fault>>
      /\ over[c] = w /\ w \in {"done", "refused"} /\ \A d \in Actions \ {c} : over[d] = control[d]
      /\ control[c] # "failed" => socket # 0 /\ socket \in Sessions /\ start[socket] = "done"
  BY DEF ControlContinues, ClientInv, ControlInv, ClientTypeOK, Verdicts
<1>2. CASE c = "stop_session"
  <2>1. Teardown(start, over, frame)
    BY <1>2 DEF ControlContinues
  <2>2. \A s \in Sessions : start[s] \notin {"token", "opened", "readied"}
    <3>1. CASE control[c] = "failed"
      BY <3>1 DEF ClientInv, ControlInv, StartsInv, Sessions
    <3>2. CASE control[c] # "failed"
      BY <1>1, <3>2 DEF ClientInv, StartsInv
    <3> QED
      BY <3>1, <3>2
  <2>3. \A d \in Actions : /\ over[d] = control[d] \/ over[d] \in {"done", "refused"}
                           /\ over[d] \notin Verdicts
    BY <1>1 DEF ClientInv, ControlInv, Verdicts
  <2>4. fault' = FALSE
    BY <1>1 DEF ClientInv, ClientTypeOK
  <2> HIDE DEF over
  <2> QED
    BY <1>1, <2>1, <2>2, <2>3, <2>4, TeardownInv
<1>3. CASE c # "stop_session"
  <2>1. /\ control' = over
        /\ active' = (IF c = "start_calibration" THEN active /\ control[c] = "valid"
                      ELSE active \/ control[c] = "valid")
        /\ profile' = (IF c = "start_calibration" THEN FALSE ELSE profile)
        /\ UNCHANGED <<start, frame, socket, net, ready, pending, link>>
    BY <1>3 DEF ControlContinues, CaptureAfterCalibration, CalibrationOver
  <2>2. /\ control'[c] = w /\ \A d \in Actions \ {c} : control'[d] = control[d]
        /\ control'["stop_session"] = control["stop_session"]
    BY <1>1, <1>3, <2>1 DEF Actions
  <2>3. control' \in [Actions -> Verdicts \cup {"none", "waiting", "failed", "done", "refused"}]
    BY <2>1 DEF ClientInv, ClientTypeOK
  <2> HIDE DEF w, over
  <2>4. LinkInv'
    BY <1>1, <2>1, <2>2, NothingUnderWay, LinkKept DEF ClientInv, Verdicts
  <2>5. ClientTypeOK' /\ fault' = FALSE
    <3>1. active' \in BOOLEAN /\ profile' \in BOOLEAN
      BY <2>1 DEF ClientInv, ClientTypeOK
    <3> QED
      BY <1>1, <2>1, <2>3, <3>1 DEF ClientInv, ClientTypeOK
  <2>6. ControlInv'
    BY <1>1, <2>1, <2>2 DEF ClientInv, ControlInv, Verdicts
  <2>7. CaptureInv'
    <3>1. c \in {"start_calibration", "start_inference"}
      BY <1>3 DEF Actions
    <3>2. ready' => socket' # 0 /\ start'[socket'] = "done"
      BY <2>1 DEF ClientInv, CaptureInv
    <3>3. active' => /\ socket' # 0
                     /\ \/ control'["start_calibration"] \in {"waiting", "done"} \cup Verdicts
                        \/ control'["start_inference"] = "done"
      <4>1. ASSUME active'
            PROVE  socket # 0
        BY <1>1, <2>1, <4>1 DEF ClientInv, CaptureInv
      <4>2. ASSUME active', c = "start_calibration"
            PROVE  control'["start_calibration"] = "done"
        BY <2>1, <2>2, <4>2 DEF w
      <4>3. ASSUME active', c = "start_inference"
            PROVE  \/ control'["start_calibration"] \in {"waiting", "done"} \cup Verdicts
                   \/ control'["start_inference"] = "done"
        <5>1. CASE control[c] = "valid"
          BY <2>2, <4>3, <5>1 DEF w
        <5>2. CASE control[c] # "valid"
          <6>1. active /\ control["start_inference"] # "done"
            BY <1>1, <2>1, <4>3, <5>2 DEF Verdicts
          <6>2. control["start_calibration"] \in {"waiting", "done"} \cup Verdicts
            BY <6>1, Zenon DEF ClientInv, CaptureInv
          <6>3. control'["start_calibration"] = control["start_calibration"]
            BY <2>2, <4>3 DEF Actions
          <6> QED
            BY <6>2, <6>3
        <5> QED
          BY <5>1, <5>2
      <4> QED
        BY <2>1, <3>1, <4>1, <4>2, <4>3
    <3>4. profile' => socket' # 0 /\ control'["start_calibration"] \in {"waiting"} \cup Verdicts
      <4>1. CASE c = "start_calibration"
        BY <2>1, <4>1
      <4>2. CASE c # "start_calibration"
        <5>1. /\ profile' = profile /\ socket' = socket
              /\ control'["start_calibration"] = control["start_calibration"]
          BY <2>1, <2>2, <4>2 DEF Actions
        <5> QED
          BY <5>1, Zenon DEF ClientInv, CaptureInv
      <4> QED
        BY <4>1, <4>2
    <3> QED
      BY <3>2, <3>3, <3>4, Zenon DEF CaptureInv
  <2>8. FrameInv'
    BY <1>1, <2>1, <2>2 DEF ClientInv, FrameInv
  <2> QED
    BY <2>1, <2>4, <2>5, <2>6, <2>7, <2>8, StartsStay DEF ClientInv
<1> QED
  BY <1>2, <1>3

\* The timer of a control request, and the event that the connection is lost.
LEMMA TransportLostInv ==
  ASSUME ClientInv, CloseEvent \/ \E c \in Actions : ControlTimeout(c)
  PROVE  ClientInv'
<1>1. CASE CloseEvent
  BY <1>1, FailTransportInv DEF CloseEvent, ClientInv, ClientTypeOK
<1>2. ASSUME NEW c \in Actions, ControlTimeout(c)
      PROVE  ClientInv'
  <2>1. socket # 0
    BY <1>2 DEF ControlTimeout, ClientInv, ControlInv
  <2> QED
    BY <1>2, <2>1, FailTransportInv DEF ControlTimeout, ClientInv, ClientTypeOK
<1> QED
  BY <1>1, <1>2

-----------------------------------------------------------------------------
(* Frames.                                                                  *)

\* Only frames change: the rest of the invariant is what it was.
LEMMA FrameStepInv ==
  ASSUME ClientInv,
         UNCHANGED <<start, aborted, control, socket, net, ready, active, profile, fault>>,
         heard' \subseteq {"sample", "progress"} \X Frames,
         frame' \in [Frames -> {"none", "encoding", "rejected", "waiting", "settled",
                                "abandoned", "ended"}],
         of' \in [Frames -> Sessions \cup {0}], left' \subseteq Frames,
         pending' \in Frames \cup {0}, FrameInv', LinkInv'
  PROVE  ClientInv'
PROOF BY DEF ClientInv, ClientTypeOK, StartsInv, ControlInv, CaptureInv, SocketsClosed

\* A frame is taken, or dropped because another is pending.
LEMMA SendFrameInv ==
  ASSUME ClientInv, NEW f \in Frames, SendFrame(f)
  PROVE  ClientInv'
<1>1. /\ frame[f] = "none" /\ socket # 0 /\ socket \in Sessions /\ control["stop_session"] = "none"
      /\ of' = [of EXCEPT ![f] = socket] /\ f # 0
      /\ UNCHANGED <<start, aborted, control, left, socket, net, ready, active, profile,
                     link, heard, fault>>
  BY DEF SendFrame, ClientInv, ClientTypeOK, Frames
<1>2. of'[f] = socket /\ \A g \in Frames \ {f} : of'[g] = of[g]
  BY <1>1 DEF ClientInv, ClientTypeOK
<1>3. of' \in [Frames -> Sessions \cup {0}] /\ left' \subseteq Frames
  BY <1>1 DEF ClientInv, ClientTypeOK
<1>4. CASE pending # 0 /\ frame' = [frame EXCEPT ![f] = "ended"] /\ pending' = pending
  <2>1. frame'[f] = "ended" /\ \A g \in Frames \ {f} : frame'[g] = frame[g]
    BY <1>4 DEF ClientInv, ClientTypeOK
  <2>2. FrameInv'
    BY <1>1, <1>2, <1>4, <2>1 DEF ClientInv, FrameInv, ClientTypeOK
  <2>3. LinkInv'
    <3>1. Somewhere("frame") => frame'[pending] \in {"waiting", "abandoned"}
      BY <1>1, <1>4, <2>1, NothingUnderWay DEF ClientInv, ClientTypeOK
    <3> QED
      BY <1>1, <1>4, <3>1, NothingUnderWay, LinkKept DEF ClientInv
  <2>4. frame' \in [Frames -> {"none", "encoding", "rejected", "waiting", "settled",
                               "abandoned", "ended"}] /\ pending' \in Frames \cup {0}
    BY <1>4 DEF ClientInv, ClientTypeOK
  <2> QED
    BY <1>1, <1>3, <2>2, <2>3, <2>4, FrameStepInv DEF ClientInv, ClientTypeOK
<1>5. CASE pending = 0 /\ frame' = [frame EXCEPT ![f] = "encoding"] /\ pending' = f
  <2>1. frame'[f] = "encoding" /\ \A g \in Frames \ {f} : frame'[g] = frame[g]
    BY <1>5 DEF ClientInv, ClientTypeOK
  <2>2. \A g \in Frames : frame[g] \notin {"encoding", "waiting", "abandoned"}
    BY <1>5 DEF ClientInv, FrameInv, Frames
  <2>3. FrameInv'
    BY <1>1, <1>2, <1>5, <2>1, <2>2 DEF ClientInv, FrameInv
  <2>4. LinkInv'
    BY <1>1, <1>5, NothingUnderWay, LinkKept DEF ClientInv
  <2>5. frame' \in [Frames -> {"none", "encoding", "rejected", "waiting", "settled",
                               "abandoned", "ended"}] /\ pending' \in Frames \cup {0}
    BY <1>5 DEF ClientInv, ClientTypeOK
  <2> QED
    BY <1>1, <1>3, <2>3, <2>4, <2>5, FrameStepInv DEF ClientInv, ClientTypeOK
<1> QED
  BY <1>4, <1>5 DEF SendFrame, InFlight

\* A frame whose caller is told ends: nobody counts on it any more.
LEMMA FrameContinuesInv ==
  ASSUME ClientInv, NEW f \in Frames, FrameContinues(f)
  PROVE  ClientInv'
<1>1. /\ frame[f] = "settled" /\ frame' = [frame EXCEPT ![f] = "ended"]
      /\ UNCHANGED <<start, aborted, control, of, left, socket, net, ready, active, profile,
                     link, heard, fault>>
      /\ pending' = IF pending = f THEN 0 ELSE pending
  BY DEF FrameContinues, CleanUp
<1>2. pending # f /\ pending' = pending
  BY <1>1 DEF ClientInv, FrameInv, Frames
<1>3. frame'[f] = "ended" /\ \A g \in Frames \ {f} : frame'[g] = frame[g]
  BY <1>1 DEF ClientInv, ClientTypeOK
<1>4. FrameInv'
  BY <1>1, <1>2, <1>3 DEF ClientInv, FrameInv, ClientTypeOK
<1>5. LinkInv'
  <2>1. Somewhere("frame") => frame'[pending] \in {"waiting", "abandoned"}
    BY <1>2, <1>3, NothingUnderWay DEF ClientInv, ClientTypeOK
  <2> QED
    BY <1>1, <1>2, <2>1, NothingUnderWay, LinkKept DEF ClientInv
<1> QED
  BY <1>1, <1>2, <1>4, <1>5, FrameStepInv DEF ClientInv, ClientTypeOK

\* The encoder is done: the frame is sent, or it ends.
LEMMA EncodedInv ==
  ASSUME ClientInv, NEW f \in Frames, Encoded(f)
  PROVE  ClientInv'
<1>1. /\ frame[f] \in {"encoding", "rejected"} /\ f # 0
      /\ UNCHANGED <<start, aborted, control, of, left, socket, net, ready, active, profile,
                     heard, fault>>
  BY DEF Encoded, Frames
<1>2. frame[f] = "encoding" => pending = f /\ socket # 0
  BY DEF ClientInv, FrameInv
<1>3. frame[f] = "rejected" => pending # f
  BY <1>1 DEF ClientInv, FrameInv
<1>4. CASE /\ frame' = [frame EXCEPT ![f] = "ended"] /\ link' = link
           /\ pending' = IF pending = f THEN 0 ELSE pending
  <2>1. frame'[f] = "ended" /\ \A g \in Frames \ {f} : frame'[g] = frame[g]
    BY <1>4 DEF ClientInv, ClientTypeOK
  <2>2. FrameInv'
    BY <1>1, <1>2, <1>3, <1>4, <2>1 DEF ClientInv, FrameInv, ClientTypeOK
  <2>3. Somewhere("frame") => pending' = pending /\ frame'[pending] \in {"waiting", "abandoned"}
    <3>1. Somewhere("frame") => pending # 0 /\ frame[pending] \in {"waiting", "abandoned"}
      BY NothingUnderWay DEF ClientInv
    <3> QED
      BY <1>1, <1>4, <2>1, <3>1 DEF ClientInv, ClientTypeOK
  <2>4. LinkInv'
    BY <1>1, <1>4, <2>3, NothingUnderWay, LinkKept DEF ClientInv
  <2> QED
    BY <1>1, <1>4, <2>2, <2>4, FrameStepInv DEF ClientInv, ClientTypeOK
<1>5. CASE /\ ~GivenUp(f) /\ Open /\ SendMessage(<<"frame", f>>) /\ pending' = pending
           /\ frame' = [frame EXCEPT ![f] = IF @ = "encoding" THEN "waiting" ELSE "ended"]
  <2>1. f \notin left /\ socket # 0
    BY <1>5 DEF GivenUp, Open
  <2>2. frame[f] = "encoding" /\ pending = f
    BY <1>1, <1>2, <2>1 DEF ClientInv, FrameInv
  <2>3. control["stop_session"] = "none"
    BY <2>1, <2>2 DEF ClientInv, FrameInv
  <2>4. /\ frame' = [frame EXCEPT ![f] = "waiting"]
        /\ frame'[f] = "waiting" /\ \A g \in Frames \ {f} : frame'[g] = frame[g]
    BY <1>5, <2>2 DEF ClientInv, ClientTypeOK
  <2>5. FrameInv'
    BY <1>1, <1>5, <2>1, <2>2, <2>3, <2>4 DEF ClientInv, FrameInv
  <2>6. LinkInv'
    <3> DEFINE m == <<"frame", f>>
    <3>1. m \in Upward /\ Topic(m) = "frame" /\ m[2] = f
      BY DEF Upward, Topic
    <3>2. SendMessage(m)
      BY <1>5
    <3> HIDE DEF m
    <3>3. /\ ~Somewhere("frame") /\ ~Somewhere("stop_session") /\ ~link.stopping
          /\ Somewhere("hello") => start[socket] \in {"handshake", "rejected"}
          /\ \A c \in Actions : Somewhere(c) => control[c] = "waiting"
          /\ "frame" \notin Actions
      BY <2>2, <2>3, NothingUnderWay DEF ClientInv, Verdicts, Actions
    <3> QED
      BY <1>1, <1>5, <2>1, <2>2, <2>4, <3>1, <3>2, <3>3, LinkSends DEF ClientInv
  <2> QED
    BY <1>1, <1>5, <2>4, <2>5, <2>6, FrameStepInv DEF ClientInv, ClientTypeOK
<1> QED
  BY <1>4, <1>5 DEF Encoded, EncodingFails, CleanUp

\* The signal of a frame is aborted: one that was sent stays pending.
LEMMA AbortFrameInv ==
  ASSUME ClientInv, NEW f \in Frames, AbortFrame(f)
  PROVE  ClientInv'
<1>1. /\ left' = left \cup {f} /\ pending' = pending
      /\ UNCHANGED <<start, aborted, control, of, socket, net, ready, active, profile,
                     link, heard, fault>>
  BY DEF AbortFrame, KeepFrame
<1>2. CASE frame[f] = "waiting" /\ frame' = [frame EXCEPT ![f] = "abandoned"]
  <2>1. frame'[f] = "abandoned" /\ \A g \in Frames \ {f} : frame'[g] = frame[g]
    BY <1>2 DEF ClientInv, ClientTypeOK
  <2>2. FrameInv'
    BY <1>1, <1>2, <2>1 DEF ClientInv, FrameInv, ClientTypeOK
  <2>3. Somewhere("frame") => frame'[pending] \in {"waiting", "abandoned"}
    BY <1>2, <2>1, NothingUnderWay DEF ClientInv, ClientTypeOK
  <2>4. LinkInv'
    BY <1>1, <2>3, NothingUnderWay, LinkKept DEF ClientInv
  <2> QED
    BY <1>1, <1>2, <2>2, <2>4, FrameStepInv DEF ClientInv, ClientTypeOK
<1>3. CASE frame[f] # "waiting" /\ frame' = frame
  <2>1. FrameInv'
    BY <1>1, <1>3 DEF ClientInv, FrameInv
  <2>2. LinkInv'
    BY <1>1, <1>3, NothingUnderWay, LinkKept DEF ClientInv
  <2> QED
    BY <1>1, <1>3, <2>1, <2>2, FrameStepInv DEF ClientInv, ClientTypeOK
<1> QED
  BY <1>2, <1>3 DEF AbortFrame

-----------------------------------------------------------------------------
(* Messages, and the gateway's steps.                                       *)

\* What handleMessage does with the answer to a request.
LEMMA ReceivedInv ==
  ASSUME ClientInv, CaughtUp, Open, link.down # <<>>, NEW m, m = Head(link.down), Expected(m),
         m[1] # "close", Received(m), UNCHANGED <<aborted, of, left>>
  PROVE  ClientInv'
<1>1. /\ socket # 0 /\ socket \in Sessions
      /\ UNCHANGED <<aborted, of, left, socket, net, ready, active, profile, fault>>
      /\ start' = [start EXCEPT ![socket] = IF m[1] = "ready" THEN "readied" ELSE @]
      /\ control' = [c \in Actions |-> IF c = m[1] THEN m[2] ELSE control[c]]
      /\ IF m[1] \in {"result", "drop"}
           THEN frame' = FrameSettled(pending) /\ pending' = 0
           ELSE UNCHANGED <<frame, pending>>
      /\ heard' = heard \cup IF m[1] = "result" THEN Told(pending, m[3]) ELSE {}
      /\ link' = [link EXCEPT !.down = Tail(@)]
  BY DEF Open, Received, ClientInv, ClientTypeOK
<1>2. m \in Downward /\ LinkInv
  BY LinkFacts, Taken DEF ClientInv
<1>3. Topic(m) \in Topics
  BY <1>2, DownwardTopics
<1>4. /\ m[1] = "ready" <=> Topic(m) = "hello"
      /\ m[1] \in {"drop", "result"} <=> Topic(m) = "frame"
      /\ m[1] \in Actions <=> Topic(m) \in Actions
      /\ m[1] \in Actions => Topic(m) = m[1] /\ m[2] \in Verdicts
  BY <1>2, DownwardTopics
<1>5. CASE m[1] = "ready"
  <2>1. start[socket] = "handshake" /\ m[1] \notin Actions /\ m[1] \notin {"result", "drop"}
    BY <1>5 DEF Expected, Actions
  <2>2. /\ start' = [start EXCEPT ![socket] = "readied"]
        /\ control' = control /\ frame' = frame /\ pending' = pending /\ heard' = heard
    <3>1. control' = control
      BY <1>1, <2>1 DEF ClientInv, ClientTypeOK
    <3> QED
      BY <1>1, <1>5, <2>1, <3>1
  <2>3. Topic(m) = "hello" /\ "hello" # "stop_session"
    BY <1>4, <1>5
  <2>4. LinkInv'
    BY <1>1, <1>2, <1>3, <2>2, <2>3, LinkReceived
  <2> QED
    BY <1>1, <2>1, <2>2, <2>4, StartMovesInv DEF ClientInv, ClientTypeOK
<1>6. CASE m[1] \in Actions
  <2>1. /\ control[m[1]] = "waiting" /\ m[2] \in Verdicts /\ Topic(m) = m[1]
        /\ m[1] # "ready" /\ m[1] \notin {"result", "drop"}
    BY <1>4, <1>6 DEF Expected, Actions
  <2>2. /\ start' = start /\ frame' = frame /\ pending' = pending /\ heard' = heard
        /\ control'[m[1]] = m[2] /\ \A c \in Actions : c # m[1] => control'[c] = control[c]
    <3>1. start' = start
      BY <1>1, <2>1 DEF ClientInv, ClientTypeOK
    <3> QED
      BY <1>1, <1>6, <2>1, <3>1
  <2>3. Topic(m) # "frame" /\ "stop_session" \in Actions
    BY <1>6, <2>1 DEF Actions
  <2>4. LinkInv'
    BY <1>1, <1>2, <1>3, <2>1, <2>2, <2>3, LinkReceived
  <2>5. ClientTypeOK'
    <3>1. control' \in [Actions -> Verdicts \cup {"none", "waiting", "failed", "done", "refused"}]
      BY <1>1, <2>1 DEF ClientInv, ClientTypeOK
    <3> QED
      BY <1>1, <2>2, <3>1 DEF ClientInv, ClientTypeOK
  <2>6. ControlInv'
    <3>1. \A c \in Actions :
            /\ control'[c] \in {"waiting"} \cup Verdicts => control[c] \in {"waiting"} \cup Verdicts
            /\ control'[c] = "failed" => control[c] = "failed"
            /\ control'[c] \in Verdicts => c = m[1]
      BY <2>1, <2>2 DEF Verdicts, CaughtUp
    <3>2. start' = start /\ socket' = socket
      BY <1>1, <2>2
    <3> QED
      BY <3>1, <3>2, Zenon DEF ClientInv, ControlInv
  <2>7. CaptureInv'
    <3>1. /\ control["start_calibration"] \in {"waiting", "done"} \cup Verdicts
               => control'["start_calibration"] \in {"waiting", "done"} \cup Verdicts
          /\ control["start_calibration"] \in {"waiting"} \cup Verdicts
               => control'["start_calibration"] \in {"waiting"} \cup Verdicts
          /\ control["start_inference"] = "done" => control'["start_inference"] = "done"
      BY <2>1, <2>2 DEF Actions
    <3>2. UNCHANGED <<start, socket, ready, active, profile>>
      BY <1>1, <2>2
    <3> QED
      BY <3>1, <3>2, Zenon DEF ClientInv, CaptureInv
  <2>8. FrameInv'
    <3>1. control'["stop_session"] # "none" => control["stop_session"] # "none"
      BY <2>1, <2>2 DEF Actions
    <3> QED
      BY <1>1, <2>2, <3>1 DEF ClientInv, FrameInv
  <2> QED
    BY <1>1, <2>2, <2>4, <2>5, <2>6, <2>7, <2>8, StartsStay DEF ClientInv
<1>7. CASE m[1] \in {"drop", "result"}
  <2>1. /\ pending # 0 /\ pending \in Frames /\ m[1] # "ready" /\ m[1] \notin Actions
        /\ frame[pending] \in {"encoding", "waiting", "abandoned"} /\ Topic(m) = "frame"
    BY <1>4, <1>7 DEF Expected, Actions, ClientInv, ClientTypeOK, FrameInv
  <2>2. start' = start /\ control' = control /\ pending' = 0 /\ frame' = FrameSettled(pending)
    <3>1. start' = start /\ control' = control
      BY <1>1, <2>1 DEF ClientInv, ClientTypeOK
    <3> QED
      BY <1>1, <1>7, <3>1
  <2>3. /\ frame' \in [Frames -> {"none", "encoding", "rejected", "waiting", "settled",
                                  "abandoned", "ended"}]
        /\ frame'[pending] \in {"settled", "ended"}
        /\ \A f \in Frames \ {pending} : frame'[f] = frame[f]
    BY <2>1, <2>2 DEF FrameSettled, ClientInv, ClientTypeOK
  <2>4. LinkInv'
    BY <1>1, <1>2, <1>3, <2>1, <2>2, LinkReceived DEF Actions
  <2>5. FrameInv'
    BY <1>1, <2>1, <2>2, <2>3 DEF ClientInv, FrameInv
  <2>6. heard' \subseteq {"sample", "progress"} \X Frames
    <3>1. Told(pending, m[3]) \subseteq {"sample", "progress"} \X Frames
      BY <2>1 DEF Told
    <3> QED
      BY <1>1, <3>1 DEF ClientInv, ClientTypeOK
  <2> QED
    BY <1>1, <2>2, <2>3, <2>4, <2>5, <2>6, FrameStepInv DEF ClientInv, ClientTypeOK
<1> QED
  BY <1>3, <1>4, <1>5, <1>6, <1>7 DEF Topics

\* A message is taken: an answer, or the end of the connection.
LEMMA MessageInv ==
  ASSUME ClientInv, Message
  PROVE  ClientInv'
<1> DEFINE m == Head(link.down)
<1>1. /\ CaughtUp /\ Open /\ link.down # <<>> /\ UNCHANGED <<aborted, of, left>>
      /\ socket # 0 /\ socket \in Sessions
      /\ IF m[1] # "close" /\ Expected(m)
           THEN Received(m)
           ELSE fault' = (fault \/ m[1] # "close") /\ FailTransport /\ UNCHANGED heard
  BY DEF Message, Open, ClientInv, ClientTypeOK
<1>2. CASE m[1] # "close"
  <2>1. Expected(m)
    BY <1>1, <1>2, HeadIsExpected DEF ClientInv
  <2> HIDE DEF m
  <2>2. m = Head(link.down) /\ Received(m)
    BY <1>1, <1>2, <2>1 DEF m
  <2> QED
    BY <1>1, <1>2, <2>1, <2>2, ReceivedInv
<1>3. CASE m[1] = "close"
  <2>1. fault' = FALSE
    BY <1>1, <1>3 DEF ClientInv, ClientTypeOK
  <2> QED
    BY <1>1, <1>3, <2>1, FailTransportInv
<1> QED
  BY <1>2, <1>3

\* A step of the gateway changes the link only.
LEMMA GatewayInv ==
  ASSUME ClientInv, GatewayTakes \/ GatewayEndsFrame \/ GatewayEndsCalibration
  PROVE  ClientInv'
<1>1. LinkInv'
  BY GatewayTakesInv, GatewayEndsFrameInv, GatewayEndsCalibrationInv DEF ClientInv
<1>2. UNCHANGED <<calls, state, heard, fault>>
  BY DEF GatewayTakes, GatewayEndsFrame, GatewayEndsCalibration, Gateway
<1>3. UNCHANGED <<start, aborted, control, frame, of, left, socket, net, ready, active, profile,
                  pending, heard, fault>>
  BY <1>2 DEF calls, state
<1> QED
  BY <1>1, <1>3 DEF ClientInv, ClientTypeOK, StartsInv, ControlInv, CaptureInv, FrameInv, SocketsClosed

-----------------------------------------------------------------------------
(* The invariant, and what follows from it.                                 *)

\* A client that was just made satisfies the invariant.
LEMMA InitClient == ClientInit => ClientInv
<1> SUFFICES ASSUME ClientInit PROVE ClientInv
  OBVIOUS
<1>1. ClientTypeOK /\ ~fault
  BY DEF ClientInit, ClientTypeOK
<1>2. StartsInv /\ ControlInv /\ CaptureInv /\ FrameInv /\ SocketsClosed
  BY DEF ClientInit, StartsInv, ControlInv, CaptureInv, FrameInv, SocketsClosed, Verdicts
<1>3. LinkInv
  <2>1. LinkType
    <3>1. <<>> \in Seq(Upward) /\ <<>> \in Seq(Downward)
      OBVIOUS
    <3> QED
      BY <3>1 DEF ClientInit, LinkType, Links, NoLink
  <2>2. /\ link.up = <<>> /\ link.down = <<>> /\ link.frame = 0
        /\ link.calibrating = FALSE /\ link.stopping = FALSE /\ link = NoLink
    BY DEF ClientInit, NoLink
  <2>3. Held = {}
    BY <2>2 DEF Held
  <2>4. OnePlace
    BY <2>2, <2>3, NothingOnNoLink, Zenon DEF OnePlace
  <2>5. \A t : ~Somewhere(t)
    BY <2>2, <2>3, NothingOnNoLink, Zenon DEF Somewhere
  <2>6. Carries(link.up, pending) /\ Carries(link.down, pending)
    BY <2>2, NothingOnNoLink
  <2>7. SomebodyWaits
    BY <2>2, <2>5, <2>6 DEF SomebodyWaits
  <2>8. StopIsLast
    BY <2>2, NothingOnNoLink DEF StopIsLast
  <2> QED
    BY <2>1, <2>2, <2>4, <2>7, <2>8 DEF LinkInv
<1> QED
  BY <1>1, <1>2, <1>3 DEF ClientInv

\* Every step keeps the invariant.
LEMMA ClientStep == ClientInv /\ [ClientNext]_clientVars => ClientInv'
<1> SUFFICES ASSUME ClientInv, [ClientNext]_clientVars PROVE ClientInv'
  OBVIOUS
<1>1. CASE SomeoneContinues
  BY <1>1, StartContinuesInv, ControlContinuesInv, FrameContinuesInv DEF SomeoneContinues
<1>2. CASE \E s \in Sessions : StartSession(s) \/ TokenArrives(s) \/ AbortStart(s)
  BY <1>2, StartSessionInv, TokenArrivesInv, AbortStartInv
<1>3. CASE StartCalibration \/ StartInference \/ StopSession
  BY <1>3, ControlRequestsInv
<1>4. CASE TimersFire \/ CloseEvent
  BY <1>4, TransportLostInv DEF TimersFire
<1>5. CASE \E f \in Frames : SendFrame(f) \/ Encoded(f) \/ AbortFrame(f)
  BY <1>5, SendFrameInv, EncodedInv, AbortFrameInv
<1>6. CASE SocketOpens \/ Drops \/ Message
  BY <1>6, SocketOpensInv, DropsInv, MessageInv
<1>7. CASE GatewayTakes \/ GatewayEndsFrame \/ GatewayEndsCalibration
  BY <1>7, GatewayInv
<1>8. CASE UNCHANGED clientVars
  <2>1. UNCHANGED <<start, aborted, control, frame, of, left, socket, net, ready, active, profile,
                    pending, link, heard, fault>>
    BY <1>8 DEF clientVars, calls, state
  <2>2. LinkInv'
    BY <2>1, NothingUnderWay, LinkKept DEF ClientInv
  <2> QED
    BY <2>1, <2>2
       DEF ClientInv, ClientTypeOK, StartsInv, ControlInv, CaptureInv, FrameInv, SocketsClosed
<1> QED
  BY <1>1, <1>2, <1>3, <1>4, <1>5, <1>6, <1>7, <1>8 DEF ClientNext

\* Every reachable state satisfies it.
LEMMA ClientInvariant == ClientSpec => []ClientInv
<1> QED
  BY InitClient, ClientStep, PTL DEF ClientSpec

\* Whatever comes over a socket is about something somebody of its session waits
\* for: handleMessage never finds it out of place, however frames and sessions
\* were given up, and one frame is out at a time.
THEOREM AnswersAreExpected == ClientSpec => []AnswersExpected
<1>1. ASSUME ClientInv PROVE AnswersExpected
  <2>1. ClientTypeOK /\ LateAnswersAreExpected
    BY <1>1 DEF ClientInv, LateAnswersAreExpected
  <2>2. /\ \A i \in DOMAIN link.up : link.up[i][1] = "frame" => link.up[i][2] = pending
        /\ \A i \in DOMAIN link.down :
             link.down[i][1] \in {"result", "drop"} => link.down[i][2] = pending
        /\ link.frame \in {0, pending}
    <3>1. ASSUME NEW i \in DOMAIN link.up, link.up[i][1] = "frame"
          PROVE  link.up[i][2] = pending
      <4>1. Topic(link.up[i]) = "frame"
        BY <3>1 DEF Topic
      <4> QED
        BY <1>1, <4>1 DEF ClientInv, LinkInv, SomebodyWaits, Carries
    <3>2. ASSUME NEW i \in DOMAIN link.down, link.down[i][1] \in {"result", "drop"}
          PROVE  link.down[i][2] = pending
      <4>1. Topic(link.down[i]) = "frame"
        BY <3>2 DEF Topic
      <4> QED
        BY <1>1, <4>1 DEF ClientInv, LinkInv, SomebodyWaits, Carries
    <3> QED
      BY <1>1, <3>1, <3>2 DEF ClientInv, LinkInv, SomebodyWaits
  <2>3. OneFrameOut
    <3>1. \A f \in Frames, i \in DOMAIN link.up : link.up[i] = <<"frame", f>> => f = pending
      BY <2>2
    <3> QED
      BY <2>2, <3>1 DEF OneFrameOut
  <2>4. FramesOfSession
    <3> SUFFICES ASSUME NEW i \in DOMAIN link.up, link.up[i][1] = "frame"
                 PROVE  of[link.up[i][2]] = socket
      BY DEF FramesOfSession
    <3>1. Somewhere("frame")
      BY DEF Somewhere, Has, Topic
    <3>2. pending \in Frames /\ frame[pending] \in {"waiting", "abandoned"}
      BY <1>1, <3>1 DEF ClientInv, ClientTypeOK, LinkInv, SomebodyWaits
    <3> QED
      BY <1>1, <2>2, <3>2 DEF ClientInv, FrameInv
  <2> QED
    BY <2>1, <2>3, <2>4 DEF AnswersExpected
<1> QED
  BY <1>1, ClientInvariant, PTL

\* closeSocket and failTransport leave nobody waiting, no second socket open and
\* no capture running, whichever call, timer or event ends the session.
THEOREM SessionsAreWhole == ClientSpec => []SessionsEndWhole
<1>1. ASSUME ClientInv PROVE SessionsEndWhole
  <2>1. SocketsClosed
    BY <1>1 DEF ClientInv
  <2>2. NobodyLeftWaiting
    <3>1. ASSUME socket = 0
          PROVE  /\ \A s \in Sessions : start[s] \notin {"opening", "handshake"}
                 /\ \A c \in Actions : control[c] # "waiting"
                 /\ \A f \in Frames : frame[f] \notin {"encoding", "waiting", "abandoned"}
      BY <1>1, <3>1 DEF ClientInv, StartsInv, ControlInv, FrameInv, Sessions
    <3>2. ASSUME socket = 0
          PROVE  ~ready /\ ~active /\ ~profile
      BY <1>1, <3>2, Zenon DEF ClientInv, CaptureInv
    <3> QED
      BY <3>1, <3>2, Zenon DEF NobodyLeftWaiting
  <2>3. CaptureIsAllowed
    <3>1. ASSUME CaughtUp, active
          PROVE  /\ socket # 0
                 /\ \/ control["start_calibration"] \in {"waiting", "done"}
                    \/ control["start_inference"] = "done"
      <4>1. /\ socket # 0
            /\ \/ control["start_calibration"] \in {"waiting", "done"} \cup Verdicts
               \/ control["start_inference"] = "done"
        BY <1>1, <3>1, Zenon DEF ClientInv, CaptureInv
      <4>2. control["start_calibration"] \notin Verdicts
        BY <3>1 DEF CaughtUp, Actions
      <4> QED
        BY <4>1, <4>2
    <3> QED
      BY <3>1, Zenon DEF CaptureIsAllowed
  <2> QED
    BY <2>1, <2>2, <2>3 DEF SessionsEndWhole
<1> QED
  BY <1>1, ClientInvariant, PTL

\* Only a message tells the listeners anything.
LEMMA OnlyMessagesAreHeard ==
  ASSUME ClientNext, heard' # heard
  PROVE  Message
<1>1. ~SomeoneContinues
  BY DEF SomeoneContinues, StartContinues, ControlContinues, FrameContinues
<1>2. ~\E s \in Sessions : StartSession(s) \/ TokenArrives(s) \/ AbortStart(s)
  BY DEF StartSession, TokenArrives, AbortStart
<1>3. ~(StartCalibration \/ StartInference \/ StopSession)
  BY DEF StartCalibration, StartInference, StopSession
<1>4. ~(TimersFire \/ CloseEvent \/ SocketOpens \/ Drops)
  BY DEF TimersFire, ControlTimeout, CloseEvent, SocketOpens, Drops
<1>5. ~\E f \in Frames : SendFrame(f) \/ Encoded(f) \/ AbortFrame(f)
  BY DEF SendFrame, Encoded, AbortFrame
<1>6. ~(GatewayTakes \/ GatewayEndsFrame \/ GatewayEndsCalibration)
  BY DEF GatewayTakes, GatewayEndsFrame, GatewayEndsCalibration, Gateway
<1> QED
  BY <1>1, <1>2, <1>3, <1>4, <1>5, <1>6 DEF ClientNext

\* The listeners hear of a frame only while its caller waits for it and has not
\* given it up, and of progress only while the calibration is under way
\* (handleResult looks at nothing but its own fields).
THEOREM ListenersHearInTime == ClientSpec => HeardInTime
<1> DEFINE Wait(h) == frame[h[2]] = "waiting" /\ h[2] \notin left
           Under(h) == h[1] = "progress" => control["start_calibration"] = "waiting"
<1>1. ASSUME ClientInv, [ClientNext]_clientVars, NEW h \in heard' \ heard
      PROVE  Wait(h) /\ Under(h)
  <2>1. Message
    <3>1. heard' # heard
      BY <1>1
    <3>2. ClientNext
      BY <1>1, <3>1 DEF clientVars
    <3> QED
      BY <3>1, <3>2, OnlyMessagesAreHeard
  <2> DEFINE m == Head(link.down)
  <2>2. /\ CaughtUp /\ Open /\ link.down # <<>> /\ m[1] # "close" /\ Expected(m)
        /\ heard' = heard \cup IF m[1] = "result" THEN Told(pending, m[3]) ELSE {}
    BY <1>1, <2>1 DEF Message, Received
  <2>3. m \in Downward /\ Has(link.down, Topic(m))
    BY <1>1, <2>2, LinkFacts, Taken DEF ClientInv
  <2> HIDE DEF m
  <2>4. m[1] = "result" /\ h \in Told(pending, m[3])
    BY <1>1, <2>2
  <2>5. h[2] = pending /\ Wanted(pending) /\ (h[1] = "progress" => profile)
    <3>1. PICK x \in {"sample", "progress"} : h = <<x, pending>>
      BY <2>4 DEF Told
    <3>2. Wanted(pending)
      BY <2>4, Zenon DEF Told
    <3>3. h[1] = "progress" => profile
      BY <2>4, Zenon DEF Told
    <3> QED
      BY <3>1, <3>2, <3>3
  <2>6. pending \in Frames /\ frame[pending] \in {"waiting", "abandoned"}
    <3>1. Somewhere("frame")
      BY <2>3, <2>4 DEF Somewhere, Topic
    <3> QED
      BY <1>1, <3>1 DEF ClientInv, ClientTypeOK, LinkInv, SomebodyWaits
  <2>7. frame[pending] = "waiting" /\ pending \notin left
    BY <1>1, <2>5, <2>6 DEF Wanted, ClientInv, FrameInv
  <2>8. profile => control["start_calibration"] = "waiting"
    <3>1. profile => control["start_calibration"] \in {"waiting"} \cup Verdicts
      BY <1>1, Zenon DEF ClientInv, CaptureInv
    <3>2. control["start_calibration"] \notin Verdicts
      BY <2>2 DEF CaughtUp, Actions
    <3> QED
      BY <3>1, <3>2
  <2> QED
    BY <2>5, <2>7, <2>8
<1>2. ASSUME ClientInv, [ClientNext]_clientVars
      PROVE  /\ [\A h \in heard' \ heard : frame[h[2]] = "waiting" /\ h[2] \notin left]_clientVars
             /\ [\A h \in heard' \ heard :
                   h[1] = "progress" => control["start_calibration"] = "waiting"]_clientVars
  BY <1>1, <1>2
<1> QED
  BY <1>2, ClientInvariant, PTL DEF ClientSpec, HeardInTime, HeardWhileWanted, ProgressWhileCalibrating

=============================================================================

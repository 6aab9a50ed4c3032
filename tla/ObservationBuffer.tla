-------------------------- MODULE ObservationBuffer --------------------------
(***************************************************************************)
(* The timeline of one session in the v2 store: append_batch, and what      *)
(* begin_completion, cancel and cleanup_expired do with it (v2_store.py).   *)
(* Each works under the store's lock, so each is one step.                  *)
(*                                                                         *)
(* Clients retry, and requests are delayed and reordered: any request may   *)
(* arrive at any time and any number of times.  The fields of a batch that  *)
(* are checked against the session's context before the lock (session,      *)
(* video, manifest, attention) are left out: a batch that fails there       *)
(* leaves no trace.                                                         *)
(*                                                                         *)
(* An observation is a frame's context and one sample per modality: a       *)
(* value, or the reason why there is none.                                  *)
(***************************************************************************)
EXTENDS Integers, FiniteSets, SequencesExt

CONSTANTS
  Values,       \* samples of a modality
  Reasons,      \* why a sample is missing
  Batches,      \* sequences of observations that clients send
  Envelopes,    \* <<batch_id, batch_sequence>> they send them under
  MaxBuffered   \* MAX_BUFFERED_OBSERVATIONS

Modalities == {"gaze", "expression"}

Context == [epoch : Nat, frame : STRING, seq : Nat, at : Nat, offset : Nat, video : Nat]
Observation == [context : Context, sample : [Modalities -> Values \cup Reasons]]

\* What a client can send.
BufferAssumption ==
  /\ Values \cap Reasons = {}
  /\ \A b \in Batches : b \in Seq(Observation) /\ b # <<>>
  /\ MaxBuffered \in Nat \ {0}

Requests == [id : {e[1] : e \in Envelopes}, seq : {e[2] : e \in Envelopes}, obs : Batches]
Sent == {r \in Requests : <<r.id, r.seq>> \in Envelopes}

VARIABLES
  phase,        \* "none": no state; "collecting"; "closed": pending or terminal
  timeline,     \* observations: from <<epoch, frame>> to an observation
  sequences,    \* sequence_index: from a sequence to <<epoch, frame>>
  highest,      \* highest_playback_epoch
  fingerprints, \* batch_fingerprints: from a batch_id to the request
  numbers,      \* batch_sequence_index: from a batch_sequence to a batch_id
  given,        \* the snapshot begin_completion took
  taken         \* history: requests answered 202 in this life of the state

buffer == <<timeline, sequences, highest, fingerprints, numbers>>
vars == <<phase, buffer, given, taken>>

Empty == [k \in {} |-> k]
With(f, k, v) == [x \in DOMAIN f \cup {k} |-> IF x = k THEN v ELSE f[x]]

Key(o) == <<o.context.epoch, o.context.frame>>

Init ==
  /\ phase = "none"
  /\ timeline = Empty /\ sequences = Empty /\ highest = -1
  /\ fingerprints = Empty /\ numbers = Empty
  /\ given = Empty /\ taken = {}

-----------------------------------------------------------------------------
(* One observation of a batch, against the prospective copies.              *)

\* _merge_observation raises on another context, on two values, and on two
\* reasons for what is still missing.
Conflicting(a, b) == a # b /\ (a \in Values <=> b \in Values)

Mergeable(c, o) ==
  /\ c.context = o.context
  /\ \A m \in Modalities : ~Conflicting(c.sample[m], o.sample[m])

\* Mutant: the later sample replaces what is known.
MergedReplaces(c, o) ==
  [c EXCEPT !.sample = [m \in Modalities |->
     IF o.sample[m] \in Values \/ m = "gaze" THEN o.sample[m] ELSE c.sample[m]]]

Merged(c, o) ==
  [c EXCEPT !.sample = [m \in Modalities |->
     IF c.sample[m] \in Values THEN c.sample[m] ELSE o.sample[m]]]

\* Mutant: the epoch is compared before the frame is looked up.
FitsEpochFirst(d, o) ==
  /\ o.context.seq \in DOMAIN d.sequences => d.sequences[o.context.seq] = Key(o)
  /\ o.context.epoch >= d.highest
  /\ IF Key(o) \in DOMAIN d.timeline
     THEN Mergeable(d.timeline[Key(o)], o)
     ELSE Cardinality(DOMAIN d.timeline) < MaxBuffered

\* Mutant: a sequence is only compared within its frame.
FitsAnySequence(d, o) ==
  IF Key(o) \in DOMAIN d.timeline
  THEN Mergeable(d.timeline[Key(o)], o)
  ELSE o.context.epoch >= d.highest /\ Cardinality(DOMAIN d.timeline) < MaxBuffered

Fits(d, o) ==
  /\ o.context.seq \in DOMAIN d.sequences => d.sequences[o.context.seq] = Key(o)
  /\ IF Key(o) \in DOMAIN d.timeline
     THEN Mergeable(d.timeline[Key(o)], o)
     ELSE /\ o.context.epoch >= d.highest
          /\ Cardinality(DOMAIN d.timeline) < MaxBuffered

Put(d, o) ==
  IF Key(o) \in DOMAIN d.timeline
  THEN [d EXCEPT !.timeline[Key(o)] = Merged(@, o)]
  ELSE [d EXCEPT !.timeline = With(@, Key(o), o),
                 !.sequences = With(@, o.context.seq, Key(o)),
                 !.highest = o.context.epoch]

-----------------------------------------------------------------------------
(* The whole batch.                                                         *)

\* The order in which v2_evidence analyses frames; a sequence is unique, so
\* the frame id never decides.
Before(a, b) ==
  \/ a.epoch < b.epoch
  \/ /\ a.epoch = b.epoch
     /\ (a.at < b.at \/ (a.at = b.at /\ a.seq < b.seq))

Contexts(t) == {t[k].context : k \in DOMAIN t}

\* session_offset_conflict and video_time_regression.
InOrder(t) ==
  \A a, b \in Contexts(t) :
    /\ Before(a, b) => a.offset <= b.offset
    /\ a.epoch = b.epoch /\ a.seq < b.seq => a.video <= b.video

Start == [timeline |-> timeline, sequences |-> sequences, highest |-> highest, ok |-> TRUE]

Draft(obs) ==
  LET drafted[n \in 0..Len(obs)] ==
        IF n = 0 THEN Start
        ELSE IF drafted[n - 1].ok /\ Fits(drafted[n - 1], obs[n]) THEN Put(drafted[n - 1], obs[n])
        ELSE [drafted[n - 1] EXCEPT !.ok = FALSE]
  IN drafted[Len(obs)]

\* Mutant: the order is checked before the batch is added.
AcceptableBefore(d) == d.ok /\ InOrder(timeline)

Acceptable(d) == d.ok /\ InOrder(d.timeline)

Used(r) == r.id \in DOMAIN fingerprints
Renumbered(r) == r.seq \in DOMAIN numbers /\ numbers[r.seq] # r.id

\* A state is made before anything can be refused.
Opened == phase \in {"none", "collecting"} /\ phase' = "collecting"

AppendNew(r) ==
  /\ Opened /\ ~Used(r) /\ ~Renumbered(r)
  /\ LET d == Draft(r.obs) IN
       /\ Acceptable(d)
       /\ timeline' = d.timeline /\ sequences' = d.sequences /\ highest' = d.highest
  /\ fingerprints' = With(fingerprints, r.id, r)
  /\ numbers' = With(numbers, r.seq, r.id)
  /\ taken' = taken \cup {r}
  /\ UNCHANGED given

\* Answered from the fingerprint: nothing is looked at again.
AppendAgain(r) ==
  /\ Opened /\ Used(r) /\ fingerprints[r.id] = r
  /\ taken' = taken \cup {r}
  /\ UNCHANGED <<buffer, given>>

\* batch_id_conflict, batch_sequence_conflict, or a batch that does not fit.
AppendRefused(r) ==
  /\ Opened
  /\ IF Used(r) THEN fingerprints[r.id] # r
     ELSE Renumbered(r) \/ ~Acceptable(Draft(r.obs))
  /\ UNCHANGED <<buffer, given, taken>>

Append202(r) == AppendNew(r) \/ AppendAgain(r)

\* Mutant: clear_transient forgets batch_sequence_index.
ClearedButNumbers ==
  /\ timeline' = Empty /\ sequences' = Empty /\ highest' = -1
  /\ fingerprints' = Empty /\ numbers' = numbers

\* clear_transient
Cleared ==
  /\ timeline' = Empty /\ sequences' = Empty /\ highest' = -1
  /\ fingerprints' = Empty /\ numbers' = Empty

\* Mutant: the snapshot is taken after clear_transient.
CompleteTooLate ==
  /\ phase \in {"none", "collecting"} /\ phase' = "closed"
  /\ Cleared
  /\ given' = timeline'
  /\ UNCHANGED taken

\* begin_completion takes the snapshot and closes the buffer, whether or not
\* there is a state yet; completing again changes nothing.
Complete ==
  /\ phase \in {"none", "collecting"} /\ phase' = "closed"
  /\ given' = timeline
  /\ Cleared
  /\ UNCHANGED taken

\* cancel, or an expiry found by the next operation.
Forget ==
  /\ phase # "none" /\ phase' = "none"
  /\ Cleared
  /\ given' = Empty /\ taken' = {}

Next ==
  \/ \E r \in Sent : Append202(r) \/ AppendRefused(r)
  \/ Complete
  \/ Forget

Spec == Init /\ [][Next]_vars

-----------------------------------------------------------------------------
(* Properties.                                                              *)

\* The variables have their types (V2SessionState).
TypeOK ==
  /\ phase \in {"none", "collecting", "closed"}
  /\ \A t \in {timeline, given} : \A k \in DOMAIN t : t[k] \in Observation /\ Key(t[k]) = k
  /\ DOMAIN sequences \subseteq Nat
  /\ highest \in Nat \cup {-1}
  /\ \A i \in DOMAIN fingerprints : fingerprints[i] \in Sent /\ fingerprints[i].id = i
  /\ \A n \in DOMAIN numbers : numbers[n] \in DOMAIN fingerprints
  /\ taken \subseteq Sent

\* All observations of the requests that were answered 202.
Reported == UNION {ToSet(r.obs) : r \in taken}

\* The timeline the reported observations determine whatever the order they
\* came in: a frame has a modality's value if any of them has it.
Joined ==
  [k \in {Key(o) : o \in Reported} |->
    LET mine == {o \in Reported : Key(o) = k}
        at(m) == {o.sample[m] : o \in mine}
    IN [context |-> (CHOOSE o \in mine : TRUE).context,
        sample |-> [m \in Modalities |->
          IF at(m) \cap Values # {} THEN CHOOSE v \in at(m) \cap Values : TRUE
          ELSE CHOOSE v \in at(m) : TRUE]]]

\* append_batch keeps exactly what it answered 202 to, nothing of a batch it
\* refused half way, and completion hands over all of it: batches joined in
\* any order give the same timeline.
NothingLost ==
  /\ phase = "collecting" => timeline = Joined
  /\ phase = "closed" => given = Joined

\* An observation that was taken is recognised for as long as the session
\* collects, also under another batch_id, after a seek to a later epoch, with
\* the buffer full, and after its missing sample has been filled in.
TakenIsRecognised ==
  phase = "collecting" =>
    \A o \in Reported : Fits(Start, o) /\ Put(Start, o) = Start

\* The indexes append_batch keeps beside the timeline say what the timeline
\* says, and the buffer stays within its limit.
IndexesExact ==
  /\ sequences = [n \in {c.seq : c \in Contexts(timeline)} |->
                   CHOOSE k \in DOMAIN timeline : timeline[k].context.seq = n]
  /\ Cardinality(DOMAIN sequences) = Cardinality(DOMAIN timeline)
  /\ \A c \in Contexts(timeline) : c.epoch <= highest
  /\ highest # -1 => \E c \in Contexts(timeline) : c.epoch = highest
  /\ \A i \in DOMAIN fingerprints : numbers[fingerprints[i].seq] = i
  /\ Cardinality(DOMAIN timeline) <= MaxBuffered

\* Frames of batches that came in any order are in analysis order when they
\* are handed over: v2_evidence builds windows that only go forward.
HandedInOrder == InOrder(given)

\* The buffer is what the answers to its clients say it is.
KeptExactly == TypeOK /\ NothingLost /\ TakenIsRecognised /\ IndexesExact /\ HandedInOrder

\* The store implements the log: what is known only grows until it is handed
\* over.
FactsOf(t) ==
  UNION {{<<k, "context", t[k].context>>}
         \cup {<<k, m, t[k].sample[m]>> : m \in {n \in Modalities : t[k].sample[n] \in Values}}
         : k \in DOMAIN t}

Log == INSTANCE ObservationLog WITH known <- FactsOf(timeline), given <- FactsOf(given)
LogSpec == Log!Spec
=============================================================================

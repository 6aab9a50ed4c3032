----------------------- MODULE RecommendationJobs_proofs -----------------------
(***************************************************************************)
(* Theorems about RecommendationJobs and the contract it implements, for   *)
(* any number of sessions, jobs, threads, process lives and database       *)
(* faults.                                                                 *)
(***************************************************************************)
EXTENDS RecommendationContract, TLAPS

-----------------------------------------------------------------------------
(* What each statement on the job table returns and leaves alone, for a      *)
(* table over any set of keys.                                               *)

\* save_pending touches the row of its own request only.
LEMMA SavePendingRows ==
  ASSUME NEW K, NEW table \in [K -> Row], NEW k \in K
  PROVE  /\ SavePending(table, k) \in [K -> Row]
         /\ \A o \in K : o # k => SavePending(table, k)[o] = table[o]
         /\ \/ SavePending(table, k)[k] = table[k]
            \/ /\ table[k].status = "absent" /\ SavePending(table, k)[k].status = "pending"
               /\ \A o \in K : o[2] = k[2] => table[o].status \notin InFlight
PROOF BY DEF SavePending, CanInsertPending, Row, Written, RowStatus, Reason, InFlight

\* claim_job moves its own row from pending to running or does nothing.
LEMMA ClaimRows ==
  ASSUME NEW K, NEW table \in [K -> Row], NEW k \in K
  PROVE  /\ Claim(table, k) \in [K -> Row]
         /\ \A o \in K : o # k => Claim(table, k)[o] = table[o]
         /\ \/ Claim(table, k)[k] = table[k]
            \/ table[k].status = "pending" /\ Claim(table, k)[k].status = "running"
PROOF BY DEF Claim, CanClaim, Row, Written, RowStatus, Reason, InFlight

\* save_decision settles its own row, or inserts it settled.
LEMMA SaveDecisionRows ==
  ASSUME NEW K, NEW table \in [K -> Row], NEW k \in K, NEW d \in Decisions
  PROVE  /\ SaveDecision(table, k, d) \in [K -> Row]
         /\ \A o \in K : o # k => SaveDecision(table, k, d)[o] = table[o]
         /\ \/ SaveDecision(table, k, d)[k] = table[k]
            \/ /\ table[k].status \in {"absent"} \cup InFlight
               /\ SaveDecision(table, k, d)[k].status = d
<1>1. d \in Settled /\ "decision" \in Reason
  BY DEF Settled, Reason
<1>2. CASE table[k].status = "absent"
  BY <1>2, <1>1 DEF SaveDecision, Row, Written, RowStatus
<1>3. CASE table[k].status # "absent"
  <2>1. SaveDecision(table, k, d) = Settle(table, {k}, d, "decision")
    BY <1>3 DEF SaveDecision
  <2>2. QED
    BY <1>1, <1>3, <2>1 DEF Settle, Row, Written, RowStatus, Settled, InFlight, Decisions
<1>4. QED
  BY <1>2, <1>3

\* A closing statement leaves a row alone or settles it, from in flight, as
\* failed or cancelled (fail_job, mark_cancelled, the start-up and orphan UPDATEs).
Closes(K, table, new) ==
  /\ new \in [K -> Row]
  /\ \A k \in K : \/ new[k] = table[k]
                  \/ /\ table[k].status \in InFlight
                     /\ new[k].status \in {"failed", "cancelled"}

\* The conditional terminal transition closes (WHERE status IN pending, running).
LEMMA SettleCloses ==
  ASSUME NEW K, NEW table \in [K -> Row], NEW S,
         NEW status \in {"failed", "cancelled"}, NEW reason \in Reason
  PROVE  Closes(K, table, Settle(table, S, status, reason))
PROOF BY DEF Closes, Settle, Row, Written, RowStatus, Settled, InFlight, Decisions

\* The four statements that close rows without a decision.
LEMMA ClosingStatements ==
  ASSUME NEW K, NEW table \in [K -> Row], NEW k, NEW reason \in Reason
  PROVE  /\ Closes(K, table, MarkCancelled(table, k))
         /\ Closes(K, table, FailJob(table, k, reason))
         /\ Closes(K, table, MarkInflightFailed(table))
         /\ Closes(K, table, CleanupOrphanJobs(table))
<1>1. {"cancelled", "service_restart", "orphan_cleanup"} \subseteq Reason
  BY DEF Reason
<1>2. QED
  BY <1>1, SettleCloses
     DEF MarkCancelled, FailJob, MarkInflightFailed, CleanupOrphanJobs

\* Start-up leaves nothing in flight (mark_inflight_jobs_failed_on_startup).
LEMMA StartupClosesAll ==
  ASSUME NEW K, NEW table \in [K -> Row]
  PROVE  \A k \in K : MarkInflightFailed(table)[k].status \notin InFlight
PROOF BY DEF MarkInflightFailed, Settle, Written, InFlight, Row

\* cleanup_retention deletes settled rows and nothing else.
LEMMA RetentionRows ==
  ASSUME NEW K, NEW table \in [K -> Row]
  PROVE  /\ CleanupRetention(table) \in [K -> Row]
         /\ \A k \in K : \/ CleanupRetention(table)[k] = table[k]
                         \/ /\ table[k].status \in Settled
                            /\ CleanupRetention(table)[k].status = "absent"
PROOF BY DEF CleanupRetention, Row, NoRow, RowStatus, Reason, Settled, InFlight, Decisions

-----------------------------------------------------------------------------
(* The types, and what the types of an actor's locals depend on. *)

Disposing == {"signal", "orphans", "dispose"}
HoldsJob == {"savePending", "claim", "submit", "attach",
             "startFailed", "failStart", "commit"}

\* The section a thread is in, or will continue with after a cleanup.
Section(l) == IF l.pc \in Cleaning THEN l.after ELSE l.pc

\* The locals a section of the complete handler reads have been assigned.
LoopOK(l, owner) ==
  /\ Section(l) \in HoldsJob \cup {"begin", "answer", "persist"} => l.session \in Sessions
  /\ Section(l) \in HoldsJob => l.job \in Jobs /\ owner[l.job] = l.session
  /\ Section(l) \in {"failStart", "commit", "persist"} => l.dec \in Decisions

\* The entries a thread takes off the store are gone when it stops disposing.
TodoOK(l) == l.todo # {} => l.pc \in Disposing

StoreOK ==
  /\ state \in [Sessions -> SessionState]
  /\ \A s \in Sessions : /\ state[s].status = "terminal" <=> state[s].decision \in Decisions
                         /\ state[s].active \in Jobs => state[s].status = "pending"
  /\ revoked \subseteq Jobs

JobsOK ==
  /\ task \in [Jobs -> TaskState]
  /\ cancelRequested \subseteq Jobs /\ evidence \subseteq Jobs
  /\ sessionOf \in [Jobs -> Sessions \cup {NoSession}]
  /\ \A j \in Jobs : task[j] # "none" => sessionOf[j] \in Sessions

DbOK == rows \in [Keys -> Row] /\ faults \in Nat

ProcessOK == run \in Runs /\ serving \in BOOLEAN /\ intake \in BOOLEAN

ActorsOK ==
  /\ actor \in [Actors -> Local]
  /\ LoopOK(actor[Loop], sessionOf)
  /\ \A a \in Actors : TodoOK(actor[a])

TypeInv == StoreOK /\ JobsOK /\ DbOK /\ ProcessOK /\ ActorsOK

\* TypeInv strengthens the type invariant the runs check.
LEMMA TypeInvImpliesTypeOK == TypeInv => TypeOK
PROOF BY DEF TypeInv, StoreOK, JobsOK, DbOK, ProcessOK, ActorsOK, TypeOK

-----------------------------------------------------------------------------
(* Types of the shared helpers.                                             *)

\* The locals of a thread that runs no handler.
LEMMA IdleType == Idle \in Local /\ TodoOK(Idle) /\ \A owner : LoopOK(Idle, owner)
PROOF BY DEF Idle, Local, Label, TodoOK, LoopOK, Section, Cleaning, HoldsJob

\* The states a V2SessionState is built with.
LEMMA StateTypes ==
  /\ NoState \in SessionState /\ Fresh \in SessionState
  /\ \A j \in Jobs \cup {NoJob} : Pending(j) \in SessionState
  /\ \A d \in Decisions : Terminal(d) \in SessionState
PROOF BY DEF NoState, Fresh, Pending, Terminal, SessionState

\* What an action leaves alone keeps its type.
LEMMA Frame ==
  /\ StoreOK /\ UNCHANGED store => StoreOK'
  /\ JobsOK /\ UNCHANGED jobs => JobsOK'
  /\ DbOK /\ UNCHANGED db => DbOK'
  /\ ProcessOK /\ UNCHANGED process => ProcessOK'
  /\ ActorsOK /\ UNCHANGED <<actor, sessionOf>> => ActorsOK'
<1>1. StoreOK /\ UNCHANGED store => StoreOK'
  BY DEF StoreOK, store
<1>2. JobsOK /\ UNCHANGED jobs => JobsOK'
  BY DEF JobsOK, jobs
<1>3. DbOK /\ UNCHANGED db => DbOK'
  BY DEF DbOK, db
<1>4. ProcessOK /\ UNCHANGED process => ProcessOK'
  BY Zenon DEF ProcessOK, process
<1>5. ActorsOK /\ UNCHANGED <<actor, sessionOf>> => ActorsOK'
  BY DEF ActorsOK
<1>6. QED
  BY <1>1, <1>2, <1>3, <1>4, <1>5

\* A database call leaves a table that is the old one or the statement's.
LEMMA CallTypes ==
  ASSUME DbOK, NEW new \in [Keys -> Row], NEW o, Call(new, o)
  PROVE  DbOK' /\ (rows' = rows \/ rows' = new)
PROOF BY DEF DbOK, Call, db

\* check_readiness writes nothing.
LEMMA ProbeTypes ==
  ASSUME DbOK, NEW o, Probe(o)
  PROVE  DbOK' /\ rows' = rows
PROOF BY DEF DbOK, Probe, Call, db

\* One thread moves and the others stay.
LEMMA ActorStep ==
  ASSUME ActorsOK, NEW a \in Actors, NEW l \in Local,
         actor' = [actor EXCEPT ![a] = l], TodoOK(l),
         a = Loop => LoopOK(l, sessionOf'),
         \A j \in Jobs : sessionOf[j] \in Sessions => sessionOf'[j] = sessionOf[j]
  PROVE  ActorsOK'
<1>1. actor' \in [Actors -> Local] /\ actor'[a] = l
      /\ \A b \in Actors : b # a => actor'[b] = actor[b]
  BY DEF ActorsOK
<1>2. \A b \in Actors : TodoOK(actor'[b])
  BY <1>1 DEF ActorsOK
<1>3. LoopOK(actor'[Loop], sessionOf')
  <2>1. CASE a = Loop
    BY <1>1, <2>1
  <2>2. CASE a # Loop
    <3>1. actor'[Loop] = actor[Loop] /\ LoopOK(actor[Loop], sessionOf)
      BY <1>1, <2>2 DEF ActorsOK, Actors
    <3>2. QED
      BY <3>1 DEF LoopOK
  <2>3. QED
    BY <2>1, <2>2
<1>4. QED
  BY <1>1, <1>2, <1>3 DEF ActorsOK

\* `To` moves within the locals, or ends the handler.
LEMMA ToTypes ==
  ASSUME NEW l \in Local, NEW label \in Label
  PROVE  /\ To(l, label) \in Local
         /\ label = "idle" => To(l, label) = Idle
         /\ label # "idle" =>
              /\ To(l, label).pc = label /\ To(l, label).after = l.after
              /\ To(l, label).session = l.session /\ To(l, label).job = l.job
              /\ To(l, label).dec = l.dec /\ To(l, label).todo = l.todo
PROOF BY IdleType DEF To, Local, Label, Cleaning

\* Locals assigned on the way to a section.
LEMMA LocalMoves ==
  ASSUME NEW l \in Local, NEW label \in Label
  PROVE  /\ \A j \in Jobs : [l EXCEPT !.pc = label, !.job = j] \in Local
         /\ \A d \in Decisions : [l EXCEPT !.pc = label, !.dec = d] \in Local
PROOF BY DEF Local

\* A plain move: `label` is idle, or its section may read what is assigned.
LEMMA GoToType ==
  ASSUME ActorsOK, NEW a \in Actors, NEW label \in Label, GoTo(a, label),
         UNCHANGED sessionOf,
         actor[a].todo = {} \/ label \in Disposing \cup {"idle"},
         a = Loop => label = "idle" \/ LoopOK([me EXCEPT !.pc = label], sessionOf)
  PROVE  ActorsOK'
<1>1. actor[a] \in Local
  BY DEF ActorsOK
<1>2. To(actor[a], label) \in Local
  BY <1>1, ToTypes
<1>3. actor' = [actor EXCEPT ![a] = To(actor[a], label)]
  BY DEF GoTo
<1>4. TodoOK(To(actor[a], label))
  BY <1>1, ToTypes, IdleType DEF TodoOK
<1>5. a = Loop => LoopOK(To(actor[a], label), sessionOf)
  BY IdleType DEF me, To
<1>6. QED
  BY <1>2, <1>3, <1>4, <1>5, ActorStep

\* cleanup_expired first, then the section `after`.
LEMMA CleanThenType ==
  ASSUME ActorsOK, NEW a \in Actors, NEW s \in Sessions \cup {NoSession},
         NEW after \in Label \ Cleaning, CleanThen(a, s, after), UNCHANGED sessionOf,
         actor[a].todo = {},
         a = Loop => LoopOK([me EXCEPT !.pc = after, !.session = s], sessionOf)
  PROVE  ActorsOK'
<1> DEFINE l == [actor[a] EXCEPT !.pc = "cleanup", !.after = after, !.session = s]
<1>1. actor[a] \in Local
  BY DEF ActorsOK
<1>2. l \in Local
  <2>1. "cleanup" \in Label
    BY DEF Label
  <2>2. QED
    BY <1>1, <2>1 DEF Local
<1>3. TodoOK(l)
  BY <1>1 DEF Local, TodoOK
<1>4. actor' = [actor EXCEPT ![a] = l]
  BY DEF CleanThen
<1>5. ASSUME a = Loop PROVE LoopOK(l, sessionOf)
  BY <1>1, <1>5 DEF LoopOK, Section, me, Local, Cleaning, HoldsJob
<1> HIDE DEF l
<1>6. QED
  BY <1>2, <1>3, <1>4, <1>5, ActorStep

\* The lock section of cleanup_expired: states go, and pending ones leave
\* their entry with the thread.
LEMMA SweepTypes ==
  ASSUME StoreOK, ActorsOK, NEW a \in Actors, NEW local \in Local, Sweep(a, local),
         UNCHANGED sessionOf, local.todo = {},
         a = Loop => local.after = "idle" \/ LoopOK([local EXCEPT !.pc = local.after], sessionOf)
  PROVE  StoreOK' /\ ActorsOK'
<1> DEFINE orphans == {EntryOf(s) : s \in {t \in Expired : state[t].status = "pending"}}
           l == IF orphans = {} THEN To(local, local.after)
                ELSE [local EXCEPT !.pc = "signal", !.todo = orphans]
<1>1. orphans \subseteq Entry
  BY DEF StoreOK, EntryOf, Entry, Expired, SessionState
<1>2. StoreOK'
  <2>1. state' \in [Sessions -> SessionState]
        /\ \A s \in Sessions : state'[s] = NoState \/ state'[s] = state[s]
    BY StateTypes DEF StoreOK, Sweep
  <2>2. revoked' \subseteq Jobs
    BY <1>1 DEF StoreOK, Sweep, Entry, JobsOf
  <2>3. QED
    BY <2>1, <2>2, ConstantsAssumption DEF StoreOK, NoState, Decisions
<1>3. [local EXCEPT !.pc = "signal", !.todo = orphans] \in Local
  <2>1. "signal" \in Label
    BY DEF Label
  <2> HIDE DEF orphans
  <2>2. QED
    BY <1>1, <2>1 DEF Local
<1>4. To(local, local.after) \in Local
  BY ToTypes DEF Local, Label
<1>5. actor' = [actor EXCEPT ![a] = l]
  BY DEF Sweep
<1>6. l \in Local /\ TodoOK(l)
  <2>1. TodoOK([local EXCEPT !.pc = "signal", !.todo = orphans])
    BY DEF TodoOK, Disposing, Local
  <2>2. TodoOK(To(local, local.after))
    BY ToTypes, IdleType DEF TodoOK, Local
  <2>3. CASE orphans = {}
    BY <2>3, <1>4, <2>2
  <2>4. CASE orphans # {}
    <3>1. l = [local EXCEPT !.pc = "signal", !.todo = orphans]
      BY <2>4
    <3> HIDE DEF l, orphans
    <3>2. QED
      BY <3>1, <1>3, <2>1
  <2>5. QED
    BY <2>3, <2>4
<1>7. ASSUME a = Loop PROVE LoopOK(l, sessionOf)
  <2>1. LoopOK(To(local, local.after), sessionOf)
    BY <1>7, IdleType DEF To
  <2>2. CASE local.after = "idle"
    <3>1. LoopOK([local EXCEPT !.pc = "signal", !.todo = orphans], sessionOf)
      BY <2>2 DEF LoopOK, Section, Cleaning, HoldsJob, Local
    <3>2. QED
      BY <2>1, <3>1
  <2>3. CASE local.after # "idle"
    <3>1. LoopOK([local EXCEPT !.pc = "signal", !.todo = orphans], sessionOf)
      BY <1>7, <2>3 DEF LoopOK, Section, Cleaning, HoldsJob, Local
    <3>2. QED
      BY <2>1, <3>1
  <2>4. QED
    BY <2>2, <2>3
<1> HIDE DEF l
<1>8. QED
  BY <1>2, <1>5, <1>6, <1>7, ActorStep

-----------------------------------------------------------------------------
(* TypeInv is inductive: one lemma for each kind of actor.                  *)

\* The process starts well typed.
LEMMA TypeInit == Init => TypeInv
<1> SUFFICES ASSUME Init PROVE TypeInv
  OBVIOUS
<1>1. StoreOK
  BY StateTypes, ConstantsAssumption DEF Init, StoreOK, NoState, Decisions
<1>2. JobsOK
  BY DEF Init, JobsOK, TaskState
<1>3. DbOK
  BY DEF Init, DbOK, NoRow, Row, RowStatus, Reason
<1>4. ProcessOK
  <2>1. run \in Runs
    BY ConstantsAssumption DEF Init, Runs
  <2>2. serving \in BOOLEAN /\ intake \in BOOLEAN
    BY Zenon, ConstantsAssumption DEF Init
  <2>3. QED
    BY <2>1, <2>2 DEF ProcessOK
<1>5. ActorsOK
  <2>1. Loop \in Actors
    BY DEF Actors
  <2>2. AtStart \in [Actors -> Local] /\ AtStart[Loop] = Idle
        /\ \A a \in Actors : AtStart[a].todo = {}
    BY <2>1, ConstantsAssumption DEF AtStart, Idle, Local, Label, Cleaning
  <2>3. QED
    BY <2>2, IdleType DEF Init, ActorsOK, TodoOK
<1>6. QED
  BY <1>1, <1>2, <1>3, <1>4, <1>5 DEF TypeInv

\* The thread-pool handlers keep the types (append_batch, cancel).
LEMMA PoolTypes ==
  ASSUME TypeInv, NEW a \in Pool, PoolStart(a) \/ AppendBatch(a) \/ CancelDispose(a) \/ CancelMark(a)
  PROVE  TypeInv'
<1> USE DEF TypeInv
<1>1. a \in Actors /\ a # Loop /\ actor[a] \in Local
  BY ConstantsAssumption DEF Actors, ActorsOK
<1>2. ASSUME NEW s \in Sessions, AppendStart(a, s) PROVE TypeInv'
  <2>1. [Idle EXCEPT !.session = s, !.after = "append"] \in Local
        /\ [Idle EXCEPT !.session = s, !.after = "append"].todo = {}
    BY DEF Idle, Local, Label, Cleaning
  <2>2. StoreOK' /\ ActorsOK'
    BY <1>1, <1>2, <2>1, SweepTypes DEF AppendStart, jobs
  <2>3. QED
    BY <1>2, <2>2, Frame DEF AppendStart
<1>3. ASSUME NEW s \in Sessions, CancelPop(a, s) PROVE TypeInv'
  <2>1. StoreOK'
    <3>1. state[s].active # NoJob => EntryOf(s) \in Entry
      BY DEF StoreOK, SessionState, EntryOf, Entry
    <3>2. revoked' \subseteq Jobs
      BY <1>3, <3>1 DEF CancelPop, StoreOK, Entry, JobsOf
    <3>3. QED
      BY <1>3, <3>2, StateTypes, ConstantsAssumption DEF CancelPop, StoreOK, NoState, Decisions
  <2>2. ActorsOK'
    <3> DEFINE found == IF state[s].active = NoJob THEN {} ELSE {EntryOf(s)}
               l == IF state[s].status = "collecting" THEN Idle
                    ELSE [Idle EXCEPT !.pc = "dispose", !.session = s, !.todo = found]
    <3>1. found \subseteq Entry
      BY DEF StoreOK, SessionState, EntryOf, Entry
    <3>2. l \in Local
      BY <3>1, IdleType DEF Idle, Local, Label, Cleaning
    <3>3. TodoOK(l)
      BY IdleType DEF Idle, TodoOK, Disposing
    <3>4. actor' = [actor EXCEPT ![a] = l] /\ sessionOf' = sessionOf
      BY <1>3 DEF CancelPop, jobs
    <3> HIDE DEF l
    <3>5. QED
      BY <1>1, <3>2, <3>3, <3>4, ActorStep
  <2>3. QED
    BY <1>3, <2>1, <2>2, Frame DEF CancelPop
<1>4. ASSUME Read(a) PROVE TypeInv'
  <2>1. Idle.todo = {}
    BY DEF Idle
  <2>2. StoreOK' /\ ActorsOK'
    BY <1>1, <1>4, <2>1, IdleType, SweepTypes DEF Read, jobs
  <2>3. QED
    BY <1>4, <2>2, Frame DEF Read
<1>5. ASSUME AppendBatch(a) PROVE TypeInv'
  <2>1. StoreOK'
    <3> DEFINE s == actor[a].session
               collecting == IF state[s].status = "absent" THEN Fresh ELSE state[s]
               buffering == [collecting EXCEPT !.buffered = TRUE, !.expired = FALSE]
    <3>1. revoked' = revoked
      BY <1>5 DEF AppendBatch
    <3>2. CASE UNCHANGED state
      BY <3>1, <3>2 DEF StoreOK
    <3>3. CASE collecting.status = "collecting" /\ s \in Sessions
      <4>1. collecting \in SessionState /\ collecting.decision \notin Decisions
            /\ collecting.active \notin Jobs
        BY <3>3, StateTypes, ConstantsAssumption DEF StoreOK, Fresh, NoState, Decisions
      <4>2. buffering \in SessionState /\ buffering.decision \notin Decisions
            /\ buffering.active \notin Jobs /\ buffering.status = "collecting"
        BY <3>3, <4>1 DEF SessionState
      <4>3. state' \in {state, [state EXCEPT ![s] = collecting],
                        [state EXCEPT ![s] = buffering]}
        BY <1>5 DEF AppendBatch
      <4> HIDE DEF collecting, buffering
      <4>4. QED
        BY <3>1, <3>3, <4>1, <4>2, <4>3 DEF StoreOK
    <3>4. CASE s \notin Sessions
      BY <1>5, <3>1, <3>4 DEF AppendBatch, StoreOK
    <3>5. QED
      BY <1>5, <3>2, <3>3, <3>4 DEF AppendBatch
  <2>2. ActorsOK'
    BY <1>1, <1>5, GoToType DEF AppendBatch, jobs, Label, Cleaning
  <2>3. QED
    BY <1>5, <2>1, <2>2, Frame DEF AppendBatch
<1>6. ASSUME CancelDispose(a) PROVE TypeInv'
  <2>1. JobsOK'
    BY <1>1, <1>6 DEF CancelDispose, CancelHandles, JobsOf, JobsOK, Local, Entry
  <2>2. ActorsOK'
    <3> DEFINE l == [actor[a] EXCEPT !.pc = "markCancelled", !.todo = {}]
    <3>1. l \in Local
      <4>1. "markCancelled" \in Label
        BY DEF Label
      <4>2. QED
        BY <1>1, <4>1 DEF Local
    <3>2. TodoOK(l)
      BY <1>1 DEF Local, TodoOK
    <3>3. actor' = [actor EXCEPT ![a] = l] /\ sessionOf' = sessionOf
      BY <1>6 DEF CancelDispose
    <3> HIDE DEF l
    <3>4. QED
      BY <1>1, <3>1, <3>2, <3>3, ActorStep
  <2>3. QED
    BY <1>6, <2>1, <2>2, Frame DEF CancelDispose
<1>7. ASSUME CancelMark(a) PROVE TypeInv'
  <2>1. DbOK'
    BY <1>7, CallTypes, ClosingStatements DEF CancelMark, DbOK, Closes, Reason
  <2>2. ActorsOK'
    BY <1>1, <1>7, GoToType DEF CancelMark, jobs, Label, Cleaning
  <2>3. QED
    BY <1>7, <2>1, <2>2, Frame DEF CancelMark
<1>8. QED
  BY <1>2, <1>3, <1>4, <1>5, <1>6, <1>7 DEF PoolStart

\* Each stage of cleanup_expired keeps the types, whoever runs it.
LEMMA CleanupTypes ==
  ASSUME TypeInv, NEW a \in Actors, Cleanup(a)
  PROVE  TypeInv'
<1> USE DEF TypeInv
<1>1. actor[a] \in Local /\ TodoOK(actor[a]) /\ (a = Loop => LoopOK(actor[a], sessionOf))
  BY DEF ActorsOK
<1>2. CASE CleanupSweep(a)
  <2>1. actor[a].todo = {}
    BY <1>1, <1>2 DEF CleanupSweep, At, TodoOK, Disposing
  <2>2. a = Loop => LoopOK([actor[a] EXCEPT !.pc = actor[a].after], sessionOf)
    BY <1>1, <1>2 DEF CleanupSweep, At, LoopOK, Section, Cleaning, Local
  <2>3. StoreOK' /\ ActorsOK'
    BY <1>1, <1>2, <2>1, <2>2, SweepTypes DEF CleanupSweep, jobs
  <2>4. QED
    BY <1>2, <2>3, Frame DEF CleanupSweep
<1>3. CASE CleanupSignal(a)
  <2>1. JobsOK'
    BY <1>1, <1>3 DEF CleanupSignal, CancelHandles, JobsOf, JobsOK, Local, Entry
  <2>2. a = Loop => LoopOK([me EXCEPT !.pc = "orphans"], sessionOf)
    BY <1>1, <1>3 DEF CleanupSignal, At, me, LoopOK, Section, Cleaning, Local
  <2>3. ActorsOK'
    BY <1>3, <2>2, GoToType DEF CleanupSignal, Label, Disposing
  <2>4. QED
    BY <1>3, <2>1, <2>3, Frame DEF CleanupSignal
<1>4. CASE CleanupOrphan(a)
  <2>1. PICK e \in actor[a].todo, o \in Outcomes :
          /\ evidence' = evidence \ {e.job}
          /\ Call(FailJob(rows, Key(e.session), "orphan_cleanup"), o)
          /\ actor' = [actor EXCEPT ![a] =
                         To([actor[a] EXCEPT !.todo = @ \ {e}],
                            IF actor[a].todo = {e} THEN actor[a].after ELSE "orphans")]
    BY <1>4 DEF CleanupOrphan
  <2>2. DbOK'
    BY <2>1, CallTypes, ClosingStatements DEF DbOK, Closes, Reason
  <2>3. JobsOK'
    BY <1>4, <2>1 DEF CleanupOrphan, JobsOK
  <2>4. ActorsOK'
    <3> DEFINE l0 == [actor[a] EXCEPT !.todo = @ \ {e}]
               label == IF actor[a].todo = {e} THEN actor[a].after ELSE "orphans"
               l == To(l0, label)
    <3>1. l0 \in Local /\ label \in Label
      BY <1>1 DEF Local, Label, Cleaning
    <3>2. l \in Local
      BY <3>1, ToTypes
    <3>3. TodoOK(l)
      <4>1. l0.todo # {} => label = "orphans"
        BY <1>1 DEF Local
      <4>2. QED
        <5>1. label = "idle" => l = Idle
          BY <3>1, ToTypes
        <5>2. label # "idle" => l.pc = label /\ l.todo = l0.todo
          BY <3>1, ToTypes
        <5> HIDE DEF l0, label, l
        <5>3. QED
          BY <4>1, <5>1, <5>2, IdleType DEF TodoOK, Disposing
    <3>4. a = Loop => LoopOK(l, sessionOf)
      <4>1. CASE label = "idle"
        BY <3>1, <4>1, ToTypes, IdleType
      <4>2. CASE label # "idle"
        <5>1. Section(l) = actor[a].after /\ l.session = actor[a].session
              /\ l.job = actor[a].job /\ l.dec = actor[a].dec
          BY <1>1, <3>1, <4>2, ToTypes DEF Section, Cleaning, Local
        <5>2. Section(actor[a]) = actor[a].after
          BY <1>4 DEF CleanupOrphan, At, Section, Cleaning
        <5>3. QED
          BY <1>1, <5>1, <5>2 DEF LoopOK
      <4>3. QED
        BY <4>1, <4>2
    <3>5. sessionOf' = sessionOf /\ actor' = [actor EXCEPT ![a] = l]
      BY <1>4, <2>1 DEF CleanupOrphan
    <3> HIDE DEF l
    <3>6. QED
      BY <3>2, <3>3, <3>4, <3>5, ActorStep
  <2>5. QED
    BY <1>4, <2>2, <2>3, <2>4, Frame DEF CleanupOrphan
<1>5. QED
  BY <1>2, <1>3, <1>4 DEF Cleanup

\* The complete handler keeps the types, one case per section (complete).
LEMMA CompleteTypes ==
  ASSUME TypeInv,
         (\E s \in Sessions : CompleteStart(s)) \/ (CompleteStep /\ ~Cleanup(Loop))
  PROVE  TypeInv'
<1> USE DEF TypeInv
<1>1. /\ me \in Local /\ me = actor[Loop] /\ Loop \in Actors
      /\ LoopOK(me, sessionOf) /\ TodoOK(me)
  BY DEF ActorsOK, Actors, me
<1>2. ASSUME me.pc \notin Cleaning PROVE Section(me) = me.pc
  BY <1>2 DEF Section
<1>3. ASSUME me.pc \notin Disposing PROVE me.todo = {}
  BY <1>1, <1>3 DEF TodoOK
<1>4. ASSUME NEW s \in Sessions, CompleteStart(s) PROVE TypeInv'
  <2>1. DbOK'
    BY <1>4, ProbeTypes DEF CompleteStart
  <2>2. CASE UNCHANGED actor
    BY <1>4, <2>1, <2>2, Frame DEF CompleteStart, jobs
  <2>3. CASE CleanThen(Loop, s, "begin")
    <3>1. LoopOK([me EXCEPT !.pc = "begin", !.session = s], sessionOf)
      BY <1>1 DEF LoopOK, Section, Cleaning, HoldsJob, Local
    <3>2. "begin" \in Label \ Cleaning /\ me.todo = {} /\ sessionOf' = sessionOf
      BY <1>3, <1>4 DEF CompleteStart, At, me, Disposing, Label, Cleaning, jobs
    <3>3. ActorsOK'
      BY <1>1, <2>3, <3>1, <3>2, CleanThenType
    <3>4. QED
      BY <1>4, <2>1, <3>3, Frame DEF CompleteStart
  <2>4. QED
    BY <1>4, <2>2, <2>3 DEF CompleteStart
<1>5. ASSUME NEW s \in Sessions, CleanThen(Loop, s, "answer"), BeginAt(s), UNCHANGED sessionOf
      PROVE ActorsOK'
  <2>1. LoopOK([me EXCEPT !.pc = "answer", !.session = s], sessionOf)
    BY <1>1 DEF LoopOK, Section, Cleaning, HoldsJob, Local
  <2>2. "answer" \in Label \ Cleaning /\ me.todo = {}
    BY <1>3, <1>5 DEF BeginAt, At, me, Disposing, Label, Cleaning
  <2>3. QED
    BY <1>1, <1>5, <2>1, <2>2, CleanThenType
<1>6. ASSUME NEW s \in Sessions, BeginAgain(s) PROVE TypeInv'
  BY <1>5, <1>6, Frame DEF BeginAgain, jobs
<1>7. ASSUME NEW s \in Sessions, BeginRefused(s) PROVE TypeInv'
  <2>1. StoreOK'
    BY <1>7, StateTypes, ConstantsAssumption
       DEF BeginRefused, StoreOK, Fresh, NoState, Decisions
  <2>2. ActorsOK'
    BY <1>1, <1>7, GoToType DEF BeginRefused, jobs, Label
  <2>3. QED
    BY <1>7, <2>1, <2>2, Frame DEF BeginRefused
<1>8. ASSUME NEW s \in Sessions, BeginTerminal(s) PROVE TypeInv'
  <2>1. PICK d \in Decisions : state' = [state EXCEPT ![s] = Terminal(d)]
    BY <1>8 DEF BeginTerminal, Decisions
  <2>2. StoreOK'
    BY <1>8, <2>1, StateTypes, ConstantsAssumption
       DEF BeginTerminal, StoreOK, Terminal, NoState, Decisions
  <2>3. ActorsOK'
    BY <1>5, <1>8 DEF BeginTerminal, jobs
  <2>4. QED
    BY <1>8, <2>2, <2>3, Frame DEF BeginTerminal
<1>9. ASSUME NEW s \in Sessions, BeginRaises(s) PROVE TypeInv'
  <2>1. StoreOK'
    BY <1>9, StateTypes, ConstantsAssumption
       DEF BeginRaises, StoreOK, Pending, NoState, Decisions
  <2>2. ActorsOK'
    BY <1>1, <1>9, GoToType DEF BeginRaises, jobs, Label
  <2>3. QED
    BY <1>9, <2>1, <2>2, Frame DEF BeginRaises
<1>10. ASSUME NEW s \in Sessions, BeginJob(s) PROVE TypeInv'
  <2>1. PICK j \in Jobs :
          /\ sessionOf[j] = NoSession
          /\ sessionOf' = [sessionOf EXCEPT ![j] = s]
          /\ state' = [state EXCEPT ![s] = Pending(j)]
          /\ evidence' = evidence \cup {j}
          /\ actor' = [actor EXCEPT ![Loop] = [@ EXCEPT !.pc = "savePending", !.job = j]]
    BY <1>10 DEF BeginJob
  <2>2. StoreOK'
    BY <1>10, <2>1, StateTypes, ConstantsAssumption
       DEF BeginJob, StoreOK, Pending, NoState, Decisions
  <2>3. JobsOK'
    BY <1>10, <2>1, ConstantsAssumption DEF BeginJob, JobsOK
  <2>4. ActorsOK'
    <3> DEFINE l == [me EXCEPT !.pc = "savePending", !.job = j]
    <3>1. l \in Local
      BY <1>1, LocalMoves DEF Label
    <3>2. me.todo = {} /\ me.session = s
      BY <1>3, <1>10 DEF BeginJob, BeginAt, At, me, Disposing
    <3>3. TodoOK(l)
      BY <1>1, <3>2 DEF TodoOK, Local
    <3>4. sessionOf'[j] = s
      BY <2>1 DEF JobsOK
    <3>5. LoopOK(l, sessionOf')
      BY <1>1, <3>2, <3>4 DEF LoopOK, Section, Cleaning, HoldsJob, Local
    <3>6. \A i \in Jobs : sessionOf[i] \in Sessions => sessionOf'[i] = sessionOf[i]
      BY <2>1, ConstantsAssumption DEF JobsOK
    <3>7. actor' = [actor EXCEPT ![Loop] = l]
      BY <2>1 DEF me
    <3> HIDE DEF l
    <3>8. QED
      BY <1>1, <3>1, <3>3, <3>5, <3>6, <3>7, ActorStep
  <2>5. QED
    BY <1>10, <2>2, <2>3, <2>4, Frame DEF BeginJob
<1>11. ASSUME Answer PROVE TypeInv'
  <2>1. me.session \in Sessions /\ me.todo = {} /\ me.pc = "answer"
    BY <1>1, <1>2, <1>3, <1>11 DEF Answer, At, me, LoopOK, Cleaning, Disposing
  <2>2. ActorsOK'
    <3>1. CASE state[me.session].status = "terminal"
      <4>1. PICK d \in Decisions : d = state[me.session].decision
        BY <2>1, <3>1 DEF StoreOK
      <4> DEFINE l == [me EXCEPT !.pc = "persist", !.dec = d]
      <4>2. l \in Local
        BY <1>1, <4>1, LocalMoves DEF Label
      <4>3. TodoOK(l) /\ LoopOK(l, sessionOf)
        BY <1>1, <2>1, <4>1 DEF TodoOK, LoopOK, Section, Cleaning, HoldsJob, Local
      <4>4. actor' = [actor EXCEPT ![Loop] = l] /\ sessionOf' = sessionOf
        BY <1>11, <3>1, <4>1 DEF Answer, me, jobs
      <4> HIDE DEF l
      <4>5. QED
        BY <1>1, <4>2, <4>3, <4>4, ActorStep
    <3>2. CASE state[me.session].status # "terminal"
      BY <1>1, <1>11, <3>2, GoToType DEF Answer, Label, jobs
    <3>3. QED
      BY <3>1, <3>2
  <2>3. QED
    BY <1>11, <2>2, Frame DEF Answer
<1>12. ASSUME NEW label \in Label, GoTo(Loop, label), UNCHANGED sessionOf,
              me.pc \notin Disposing \cup Cleaning,
              LoopOK([me EXCEPT !.pc = label], sessionOf)
       PROVE  ActorsOK'
  BY <1>1, <1>3, <1>12, GoToType DEF me
<1>13. ASSUME me.pc \in {"savePending", "claim", "submit", "attach"},
              NEW label \in {"claim", "submit", "attach", "startFailed", "idle"}
       PROVE  LoopOK([me EXCEPT !.pc = label], sessionOf)
  BY <1>1, <1>13 DEF LoopOK, Section, Cleaning, HoldsJob, Local
<1>14. ASSUME me.pc \in {"savePending", "claim", "submit", "attach"},
              NEW o, NEW answer, NEW next \in {"claim", "submit", "attach"},
              Started(o, answer, next), UNCHANGED sessionOf
       PROVE  ActorsOK'
  <2>1. me.pc \notin Disposing \cup Cleaning
    BY <1>14 DEF Disposing, Cleaning
  <2>2. CASE GoTo(Loop, next)
    <3>1. next \in Label
      BY DEF Label
    <3>2. QED
      BY <1>12, <1>13, <1>14, <2>1, <2>2, <3>1
  <2>3. CASE GoTo(Loop, "startFailed")
    <3>1. "startFailed" \in Label
      BY DEF Label
    <3>2. QED
      BY <1>12, <1>13, <1>14, <2>1, <2>3, <3>1
  <2>4. QED
    BY <1>14, <2>2, <2>3 DEF Started
<1>15. me.pc \in HoldsJob \cup {"persist"} => Key(me.session) \in Keys
  BY <1>1 DEF ProcessOK, Key, Keys, LoopOK, Section, Cleaning, HoldsJob
<1>16. ASSUME SavePendingRow PROVE TypeInv'
  <2>1. me.pc = "savePending" /\ Key(me.session) \in Keys
    BY <1>15, <1>16 DEF SavePendingRow, At, me, HoldsJob
  <2>2. DbOK'
    BY <1>16, <2>1, CallTypes, SavePendingRows DEF SavePendingRow, DbOK
  <2>3. ActorsOK'
    BY <1>14, <1>16, <2>1 DEF SavePendingRow, jobs
  <2>4. QED
    BY <1>16, <2>2, <2>3, Frame DEF SavePendingRow
<1>17. ASSUME ClaimRow PROVE TypeInv'
  <2>1. me.pc = "claim" /\ Key(me.session) \in Keys
    BY <1>15, <1>17 DEF ClaimRow, At, me, HoldsJob
  <2>2. DbOK'
    BY <1>17, <2>1, CallTypes, ClaimRows DEF ClaimRow, DbOK
  <2>3. ActorsOK'
    BY <1>14, <1>17, <2>1 DEF ClaimRow, jobs
  <2>4. QED
    BY <1>17, <2>2, <2>3, Frame DEF ClaimRow
<1>18. ASSUME Submit PROVE TypeInv'
  <2>1. me.pc = "submit" /\ me.job \in Jobs /\ sessionOf[me.job] \in Sessions
    BY <1>1, <1>18 DEF Submit, At, me, LoopOK, Section, Cleaning, HoldsJob
  <2>2. JobsOK'
    <3>1. \/ task' = task
          \/ task' = [task EXCEPT ![me.job] = "queued"]
      BY <1>18 DEF Submit
    <3>2. QED
      BY <1>18, <2>1, <3>1 DEF Submit, JobsOK, TaskState
  <2>3. ActorsOK'
    BY <1>14, <1>18, <2>1 DEF Submit
  <2>4. QED
    BY <1>18, <2>2, <2>3, Frame DEF Submit
<1>19. ASSUME Attach PROVE TypeInv'
  <2>1. me.pc = "attach" /\ me.job \in Jobs /\ me.session \in Sessions
    BY <1>1, <1>19 DEF Attach, At, me, LoopOK, Section, Cleaning, HoldsJob
  <2>2. StoreOK'
    <3>1. state' \in {state, [state EXCEPT ![me.session].attached = TRUE]}
      BY <1>19 DEF Attach
    <3>2. [state[me.session] EXCEPT !.attached = TRUE] \in SessionState
      <4>1. PICK st \in SessionState : state[me.session] = st
        BY <2>1 DEF StoreOK
      <4>2. [st EXCEPT !.attached = TRUE] \in SessionState
        BY DEF SessionState
      <4>3. QED
        BY <4>1, <4>2
    <3>3. /\ state' \in [Sessions -> SessionState]
          /\ \A s \in Sessions : /\ state'[s].status = state[s].status
                                 /\ state'[s].decision = state[s].decision
                                 /\ state'[s].active = state[s].active
      BY <2>1, <3>1, <3>2 DEF StoreOK, SessionState
    <3>4. revoked' = revoked
      BY <1>19 DEF Attach
    <3>5. QED
      BY <3>3, <3>4 DEF StoreOK
  <2>3. JobsOK'
    BY <1>19, <2>1 DEF Attach, JobsOK
  <2>4. ActorsOK'
    <3>1. "idle" \in Label /\ me.pc \notin Disposing \cup Cleaning
      BY <2>1 DEF Label, Disposing, Cleaning
    <3>2. QED
      BY <1>12, <1>13, <1>19, <2>1, <3>1 DEF Attach
  <2>5. QED
    BY <1>19, <2>2, <2>3, <2>4, Frame DEF Attach
<1>20. ASSUME StartFailed PROVE TypeInv'
  <2>1. me.pc = "startFailed" /\ me.todo = {}
    BY <1>3, <1>20 DEF StartFailed, At, me, Disposing
  <2>2. CASE me.job \in evidence
    <3> DEFINE l == [me EXCEPT !.pc = "failStart", !.dec = "failed"]
    <3>1. l \in Local /\ TodoOK(l) /\ LoopOK(l, sessionOf)
      <4>1. "failStart" \in Label /\ "failed" \in Decisions
        BY DEF Label, Decisions
      <4>2. l \in Local
        BY <1>1, <4>1 DEF Local
      <4>3. TodoOK(l)
        BY <1>1, <2>1 DEF TodoOK, Local
      <4>4. LoopOK(l, sessionOf)
        BY <1>1, <2>1, <4>1 DEF LoopOK, Section, Cleaning, HoldsJob, Local
      <4>5. QED
        BY <4>2, <4>3, <4>4
    <3>2. actor' = [actor EXCEPT ![Loop] = l] /\ sessionOf' = sessionOf
      BY <1>20, <2>2 DEF StartFailed, me, jobs
    <3> HIDE DEF l
    <3>3. ActorsOK'
      BY <1>1, <3>1, <3>2, ActorStep
    <3>4. QED
      BY <1>20, <3>3, Frame DEF StartFailed
  <2>3. CASE me.job \notin evidence
    <3>1. ActorsOK'
      BY <1>1, <1>20, <2>3, GoToType DEF StartFailed, Label, jobs
    <3>2. QED
      BY <1>20, <3>1, Frame DEF StartFailed
  <2>4. QED
    BY <2>2, <2>3
<1>21. ASSUME FailStart PROVE TypeInv'
  <2>1. me.pc = "failStart" /\ me.todo = {}
    BY <1>3, <1>21 DEF FailStart, At, me, Disposing
  <2>2. DbOK'
    BY <1>21, CallTypes, ClosingStatements DEF FailStart, DbOK, Closes, Reason
  <2>3. me.session \in Sessions
        /\ LoopOK([me EXCEPT !.pc = "commit", !.session = me.session], sessionOf)
    BY <1>1, <2>1 DEF LoopOK, Section, Cleaning, HoldsJob, Local
  <2>4. ActorsOK'
    BY <1>1, <1>21, <2>1, <2>3, CleanThenType DEF FailStart, Label, Cleaning, jobs
  <2>5. QED
    BY <1>21, <2>2, <2>4, Frame DEF FailStart
<1>22. ASSUME Release PROVE JobsOK'
  BY <1>22 DEF Release, JobsOK, TaskState
<1>23. ASSUME Commit PROVE TypeInv'
  <2>1. me.pc = "commit" /\ me.session \in Sessions /\ me.dec \in Decisions
    BY <1>1, <1>23 DEF Commit, At, me, LoopOK, Section, Cleaning, HoldsJob
  <2>2. StoreOK'
    <3>1. \/ UNCHANGED store
          \/ /\ state' = [state EXCEPT ![me.session] = Terminal(me.dec)]
             /\ revoked' = revoked
      BY <1>23 DEF Commit, store
    <3>2. CASE UNCHANGED store
      BY <3>2, Frame
    <3>3. CASE ~UNCHANGED store
      <4>1. /\ Terminal(me.dec) \in SessionState /\ Terminal(me.dec).status = "terminal"
            /\ Terminal(me.dec).decision \in Decisions /\ Terminal(me.dec).active \notin Jobs
        BY <2>1, StateTypes, ConstantsAssumption DEF Terminal, NoState
      <4>2. QED
        BY <2>1, <3>1, <3>3, <4>1 DEF StoreOK
    <3>4. QED
      BY <3>2, <3>3
  <2>3. JobsOK' /\ sessionOf' = sessionOf
    BY <1>22, <1>23, Frame DEF Commit, Release, jobs
  <2>4. ActorsOK'
    <3>1. LoopOK([me EXCEPT !.pc = "persist"], sessionOf)
      BY <1>1, <2>1 DEF LoopOK, Section, Cleaning, HoldsJob, Local
    <3>2. GoTo(Loop, "persist") \/ GoTo(Loop, "idle")
      BY <1>23 DEF Commit
    <3>3. QED
      BY <1>1, <1>3, <2>1, <2>3, <3>1, <3>2, GoToType DEF me, Label, Disposing
  <2>5. QED
    BY <1>23, <2>2, <2>3, <2>4, Frame DEF Commit
<1>24. ASSUME Persist PROVE TypeInv'
  <2>1. me.dec \in Decisions /\ Key(me.session) \in Keys
    BY <1>1, <1>15, <1>24 DEF Persist, At, me, LoopOK, Section, Cleaning
  <2>2. DbOK'
    BY <1>24, <2>1, CallTypes, SaveDecisionRows DEF Persist, DbOK
  <2>3. JobsOK'
    BY <1>22, <1>24 DEF Persist
  <2>4. ActorsOK'
    BY <1>1, <1>24, GoToType DEF Persist, Release, Label
  <2>5. QED
    BY <1>24, <2>2, <2>3, <2>4, Frame DEF Persist
<1>25. QED
  BY <1>4, <1>6, <1>7, <1>8, <1>9, <1>10, <1>11, <1>16, <1>17, <1>18, <1>19, <1>20,
     <1>21, <1>23, <1>24 DEF CompleteStep

\* Model tasks keep the types (run_completion).
LEMMA TaskTypes ==
  ASSUME TypeInv, NEW j \in Jobs, TaskStep(j) \/ ModelAnswers(j)
  PROVE  TypeInv'
<1> USE DEF TypeInv
<1>1. ASSUME TaskStep(j) PROVE TypeInv'
  <2>1. JobsOK' /\ UNCHANGED <<store, db, process, actor, sessionOf>>
    BY <1>1 DEF TaskStep, TaskStart, TaskCancelled, TaskDiscard, JobsOK, TaskState
  <2>2. QED
    BY <2>1, Frame
<1>2. ASSUME ModelAnswers(j) PROVE TypeInv'
  <2>1. PICK d \in {"completed", "failed"} :
          Sweep(Loop, [Idle EXCEPT !.session = sessionOf[j], !.job = j,
                                   !.dec = d, !.after = "commit"])
    BY <1>2 DEF ModelAnswers
  <2> DEFINE l == [Idle EXCEPT !.session = sessionOf[j], !.job = j,
                               !.dec = d, !.after = "commit"]
  <2>2. sessionOf[j] \in Sessions
    BY <1>2 DEF ModelAnswers, JobsOK
  <2>3. l \in Local /\ l.todo = {}
    BY <2>2 DEF Idle, Local, Label, Cleaning, Decisions
  <2>4. LoopOK([l EXCEPT !.pc = l.after], sessionOf)
    BY <2>2 DEF Idle, LoopOK, Section, Cleaning, HoldsJob, Decisions
  <2>5. StoreOK' /\ ActorsOK'
    <3>1. UNCHANGED sessionOf /\ Loop \in Actors /\ Sweep(Loop, l)
      BY <1>2, <2>1 DEF ModelAnswers, Actors
    <3> HIDE DEF l
    <3>2. QED
      BY <2>3, <2>4, <3>1, SweepTypes
  <2>6. JobsOK'
    BY <1>2 DEF ModelAnswers, JobsOK, TaskState
  <2>7. QED
    BY <1>2, <2>5, <2>6, Frame DEF ModelAnswers
<1>3. QED
  BY <1>1, <1>2

\* The start-up hook and the maintenance loop keep the types (main.py).
LEMMA KeeperTypes ==
  ASSUME TypeInv, KeeperStep, ~Cleanup(Keeper)
  PROVE  TypeInv'
<1> USE DEF TypeInv
<1>1. Keeper \in Actors /\ Keeper # Loop /\ actor[Keeper] \in Local
      /\ (actor[Keeper].pc \notin Disposing => actor[Keeper].todo = {})
  BY ConstantsAssumption DEF Actors, ActorsOK, TodoOK
<1>2. ASSUME NEW label \in Label, GoTo(Keeper, label), UNCHANGED jobs,
             actor[Keeper].pc \notin Disposing
      PROVE  ActorsOK'
  BY <1>1, <1>2, GoToType DEF jobs
<1>3. ASSUME CleanThen(Keeper, NoSession, "orphanRows"), UNCHANGED jobs,
             actor[Keeper].pc \notin Disposing
      PROVE  ActorsOK'
  BY <1>1, <1>3, CleanThenType DEF Label, Cleaning, jobs
<1>4. ASSUME NEW o, NEW next \in {"markInflight", "open"}, Initialize(o, next), UNCHANGED jobs,
             actor[Keeper].pc \notin Disposing
      PROVE  ActorsOK' /\ ProcessOK'
  <2>1. "idle" \in Label /\ next \in Label
    BY DEF Label
  <2>2. ActorsOK'
    BY <1>2, <1>4, <2>1 DEF Initialize
  <2>3. ProcessOK'
    BY <1>4, Zenon DEF Initialize, ProcessOK, process
  <2>4. QED
    BY <2>2, <2>3
<1>5. ASSUME RuntimeProbe PROVE TypeInv'
  <2>1. DbOK'
    BY <1>5, ProbeTypes DEF RuntimeProbe
  <2>2. ActorsOK' /\ ProcessOK'
    BY <1>4, <1>5 DEF RuntimeProbe, At, Disposing
  <2>3. QED
    BY <1>5, <2>1, <2>2, Frame DEF RuntimeProbe
<1>6. ASSUME MarkInflight PROVE TypeInv'
  <2>1. MarkInflightFailed(rows) \in [Keys -> Row]
    BY ClosingStatements DEF DbOK, Closes, Reason
  <2>2. DbOK'
    BY <1>6, <2>1, CallTypes DEF MarkInflight
  <2>3. ActorsOK' /\ ProcessOK'
    BY <1>4, <1>6 DEF MarkInflight, At, Disposing
  <2>4. QED
    BY <1>6, <2>2, <2>3, Frame DEF MarkInflight
<1>7. ASSUME OpenIntake PROVE TypeInv'
  <2>1. DbOK'
    BY <1>7, ProbeTypes DEF OpenIntake
  <2>2. ActorsOK'
    BY <1>2, <1>3, <1>7 DEF OpenIntake, At, Disposing, Label
  <2>3. ProcessOK'
    BY <1>7, Zenon DEF OpenIntake, ProcessOK
  <2>4. QED
    BY <1>7, <2>1, <2>2, <2>3, Frame DEF OpenIntake
<1>8. ASSUME Wake PROVE TypeInv'
  <2>1. DbOK'
    BY <1>8, ProbeTypes DEF Wake
  <2>2. ActorsOK'
    BY <1>2, <1>3, <1>8 DEF Wake, At, Disposing, Label
  <2>3. QED
    BY <1>8, <2>1, <2>2, Frame DEF Wake
<1>9. ASSUME OrphanRows PROVE TypeInv'
  <2>1. CleanupOrphanJobs(rows) \in [Keys -> Row]
    BY ClosingStatements DEF DbOK, Closes, Reason
  <2>2. DbOK'
    BY <1>9, <2>1, CallTypes DEF OrphanRows
  <2>3. ActorsOK'
    BY <1>2, <1>9 DEF OrphanRows, At, Disposing, Label
  <2>4. QED
    BY <1>9, <2>2, <2>3, Frame DEF OrphanRows
<1>10. ASSUME Retention PROVE TypeInv'
  <2>1. DbOK'
    BY <1>10, CallTypes, RetentionRows DEF Retention, DbOK
  <2>2. ActorsOK'
    BY <1>2, <1>10 DEF Retention, At, Disposing, Label
  <2>3. QED
    BY <1>10, <2>1, <2>2, Frame DEF Retention
<1>11. QED
  BY <1>5, <1>6, <1>7, <1>8, <1>9, <1>10 DEF KeeperStep

\* Time and crashes keep the types.
LEMMA EnvironmentTypes ==
  ASSUME TypeInv,
         (\E s \in Sessions : Expire(s)) \/ (\E k \in Keys : Age(k)) \/ Crash
  PROVE  TypeInv'
<1> USE DEF TypeInv
<1>1. ASSUME NEW s \in Sessions, Expire(s) PROVE TypeInv'
  <2>1. [state[s] EXCEPT !.expired = TRUE] \in SessionState
    BY DEF StoreOK, SessionState
  <2>2. StoreOK'
    BY <1>1, <2>1 DEF Expire, StoreOK
  <2>3. QED
    BY <1>1, <2>2, Frame DEF Expire, jobs
<1>2. ASSUME NEW k \in Keys, Age(k) PROVE TypeInv'
  <2>1. DbOK'
    BY <1>2 DEF Age, DbOK, Row
  <2>2. QED
    BY <1>2, <2>1, Frame DEF Age, jobs
<1>3. ASSUME Crash PROVE TypeInv'
  <2>1. StoreOK'
    BY <1>3, StateTypes, ConstantsAssumption DEF Crash, StoreOK, NoState, Decisions
  <2>2. JobsOK'
    BY <1>3 DEF Crash, JobsOK, TaskState
  <2>3. ProcessOK'
    <3>1. run' \in Runs
      BY <1>3, ConstantsAssumption DEF Crash, ProcessOK, Runs
    <3>2. serving' \in BOOLEAN /\ intake' \in BOOLEAN
      BY <1>3, Zenon, ConstantsAssumption DEF Crash
    <3>3. QED
      BY <3>1, <3>2 DEF ProcessOK
  <2>4. ActorsOK'
    <3>1. Loop \in Actors
      BY DEF Actors
    <3>2. AtStart \in [Actors -> Local] /\ AtStart[Loop] = Idle
          /\ \A a \in Actors : AtStart[a].todo = {}
      BY <3>1, ConstantsAssumption DEF AtStart, Idle, Local, Label, Cleaning
    <3>3. QED
      BY <1>3, <3>2, IdleType DEF Crash, ActorsOK, TodoOK
  <2>5. QED
    BY <1>3, <2>1, <2>2, <2>3, <2>4, Frame DEF Crash
<1>4. QED
  BY <1>1, <1>2, <1>3

\* TypeInv is inductive.
LEMMA TypeStep == TypeInv /\ [Next]_vars => TypeInv'
<1> SUFFICES ASSUME TypeInv, [Next]_vars PROVE TypeInv'
  OBVIOUS
<1>1. CASE UNCHANGED vars
  BY <1>1, Frame DEF vars, TypeInv, jobs
<1>2. CASE Next
  <2>1. ASSUME NEW a \in Pool, PoolStart(a) \/ PoolStep(a) PROVE TypeInv'
    <3>1. a \in Actors
      BY DEF Actors
    <3>2. QED
      BY <2>1, <3>1, PoolTypes, CleanupTypes DEF PoolStep
  <2>2. ASSUME (\E s \in Sessions : CompleteStart(s)) \/ CompleteStep PROVE TypeInv'
    BY <2>2, CompleteTypes, CleanupTypes DEF Actors
  <2>3. ASSUME KeeperStep PROVE TypeInv'
    BY <2>3, KeeperTypes, CleanupTypes DEF Actors
  <2>4. QED
    BY <1>2, <2>1, <2>2, <2>3, TaskTypes, EnvironmentTypes DEF Next
<1>3. QED
  BY <1>1, <1>2

\* Every reachable state satisfies TypeInv.
LEMMA TypeInvariant == Spec => []TypeInv
PROOF BY TypeInit, TypeStep, PTL DEF Spec

\* Every reachable state is well typed; in particular a terminal state always
\* has its decision and a pending one its job (get_recommendation, cancel).
THEOREM TypeCorrect == Spec => []TypeOK
PROOF BY TypeInvariant, TypeInvImpliesTypeOK, PTL

-----------------------------------------------------------------------------
(* A pending state, its job, the job's evidence and the job's task never     *)
(* come apart: PendingHasRunnableJob, EvidenceIsHeld and                     *)
(* RevokedJobNeverPublishes, from one inductive invariant.                   *)

\* A waiting state owns its job: no other state does, its evidence is there,
\* and nobody has taken it off the store.
Owned ==
  \A s \in Sessions : state[s].active \in Jobs =>
    /\ sessionOf[state[s].active] = s
    /\ state[s].active \in evidence
    /\ state[s].active \notin revoked

\* Job identities are not reused, and only what was taken off is cancelled.
RevokedUsed ==
  /\ \A j \in revoked : sessionOf[j] \in Sessions
  /\ cancelRequested \subseteq revoked

\* The thread that took a job off the store still has to dispose of it as
\* long as its evidence is there.
RevokedDisposed ==
  /\ \A a \in Actors : JobsOf(actor[a].todo) \subseteq revoked
  /\ \A j \in revoked \cap evidence :
       \E a \in Actors : j \in JobsOf(actor[a].todo)

\* The job the complete handler has in its hands.
LoopJob ==
  /\ me.pc \in {"savePending", "claim", "submit", "attach"} =>
       state[me.session].active = me.job \/ me.job \in revoked
  /\ me.pc = "attach" => task[me.job] = "queued"
  /\ me.pc = "persist" =>
       \A s \in Sessions : state[s].active \in Jobs => state[s].active # me.job
  /\ Section(me) \in {"idle", "begin", "answer"} => me.job = NoJob
  /\ me.pc \in Cleaning => me.after \in {"begin", "answer", "commit"}

AtPersist(j) == me.pc = "persist" /\ me.job = j

\* Evidence is with the handler, with a task that will run, or revoked.
Tracked ==
  \A j \in evidence :
    j \in revoked \/ LoopHolds(j) \/ AtPersist(j) \/ task[j] \in {"queued", "model"}

JobInv == Owned /\ RevokedUsed /\ RevokedDisposed /\ LoopJob /\ Tracked

\* The two safety properties are consequences.
LEMMA JobInvPending == TypeInv /\ JobInv => PendingHasRunnableJob
<1> SUFFICES ASSUME TypeInv, JobInv, NEW s \in Sessions, state[s].active \in Jobs
             PROVE  LoopHolds(state[s].active) \/ TaskWillPublish(state[s].active)
  BY DEF PendingHasRunnableJob
<1>1. state[s].active \in evidence /\ state[s].active \notin revoked
  BY DEF JobInv, Owned
<1>2. ~AtPersist(state[s].active)
  BY DEF JobInv, LoopJob, AtPersist
<1>3. state[s].active \notin cancelRequested
  BY <1>1 DEF JobInv, RevokedUsed
<1>4. QED
  BY <1>1, <1>2, <1>3 DEF JobInv, Tracked, TaskWillPublish

\* Evidence that exists is tracked, or was revoked and is about to go.
LEMMA JobInvEvidence == JobInv => EvidenceIsHeld
<1> SUFFICES ASSUME JobInv, NEW j \in evidence
             PROVE  \/ \E s \in Sessions : state[s].active = j
                    \/ LoopHolds(j) \/ (me.job = j /\ At(Loop, "persist"))
                    \/ task[j] \in {"queued", "model", "publishing"}
                    \/ \E a \in Actors : j \in JobsOf(actor[a].todo)
  BY DEF EvidenceIsHeld
<1>1. CASE j \in revoked
  BY <1>1 DEF JobInv, RevokedDisposed
<1>2. CASE j \notin revoked
  BY <1>2 DEF JobInv, Tracked, AtPersist, At, me
<1>3. QED
  BY <1>1, <1>2

\* Nothing is owned at start-up (V2RecommendationStore.__init__).
LEMMA JobInvInit == Init => JobInv
<1> SUFFICES ASSUME Init PROVE JobInv
  OBVIOUS
<1>1. Loop \in Actors /\ AtStart[Loop] = Idle
      /\ \A a \in Actors : AtStart[a].todo = {}
  BY ConstantsAssumption DEF Actors, AtStart, Idle
<1>2. Owned
  BY ConstantsAssumption DEF Init, Owned, NoState
<1>3. RevokedUsed /\ RevokedDisposed /\ Tracked
  BY <1>1 DEF Init, RevokedUsed, RevokedDisposed, Tracked, JobsOf
<1>4. LoopJob
  BY <1>1 DEF Init, LoopJob, me, Idle, Section, Cleaning
<1>5. QED
  BY <1>2, <1>3, <1>4 DEF JobInv

-----------------------------------------------------------------------------
(* Steps that take states off the store.                                    *)

\* States go only together with their job's revocation.
Pops ==
  /\ revoked \subseteq revoked' /\ revoked' \subseteq Jobs
  /\ \A s \in Sessions :
       \/ state'[s].active = state[s].active
       \/ /\ state'[s].active \notin Jobs
          /\ state[s].active \in Jobs => state[s].active \in revoked'
  /\ \A j \in revoked' \ revoked : \E s \in Sessions : state[s].active = j
  /\ \A j \in revoked' \ revoked : \A s \in Sessions : state'[s].active # j

\* What remains on the store after a pop is owned as before.
LEMMA PopsOwned ==
  ASSUME TypeInv, JobInv, Pops, UNCHANGED <<evidence, sessionOf, cancelRequested>>
  PROVE  Owned' /\ RevokedUsed'
<1>1. Owned'
  BY DEF JobInv, Owned, Pops
<1>2. RevokedUsed'
  BY DEF JobInv, Owned, RevokedUsed, Pops, TypeInv, StoreOK, JobsOK
<1>3. QED
  BY <1>1, <1>2

\* A pop by another thread leaves the event loop's bookkeeping true.
LEMMA PopsElsewhere ==
  ASSUME TypeInv, JobInv, Pops, UNCHANGED jobs, actor'[Loop] = actor[Loop]
  PROVE  LoopJob' /\ Tracked'
<1>1. me' = me /\ Section(me)' = Section(me)
  BY DEF me, Section
<1>2. LoopJob'
  <2>1. ASSUME me.pc \in {"savePending", "claim", "submit", "attach"}
        PROVE  state'[me.session].active = me.job \/ me.job \in revoked'
    <3>1. me.session \in Sessions /\ me.job \in Jobs
      BY <2>1 DEF TypeInv, ActorsOK, LoopOK, Section, Cleaning, HoldsJob, me
    <3>2. state[me.session].active = me.job \/ me.job \in revoked
      BY <2>1 DEF JobInv, LoopJob
    <3>3. QED
      BY <3>1, <3>2 DEF Pops
  <2>2. ASSUME me.pc = "persist", NEW s \in Sessions, state'[s].active \in Jobs
        PROVE  state'[s].active # me.job
    BY <2>2 DEF JobInv, LoopJob, Pops
  <2>3. QED
    BY <1>1, <2>1, <2>2 DEF JobInv, LoopJob, jobs
<1>3. Tracked'
  BY <1>1 DEF JobInv, Tracked, Pops, jobs, LoopHolds, AtPersist, At, me
<1>4. QED
  BY <1>2, <1>3

\* The popping thread keeps an entry for every job it revokes.
LEMMA PopsDisposed ==
  ASSUME JobInv, Pops, evidence' = evidence,
         NEW a \in Actors, actor[a].todo = {},
         \A b \in Actors : b # a => actor'[b].todo = actor[b].todo,
         JobsOf(actor'[a].todo) \subseteq revoked',
         \A j \in revoked' \ revoked : j \in JobsOf(actor'[a].todo)
  PROVE  RevokedDisposed'
<1>1. \A b \in Actors : JobsOf(actor'[b].todo) \subseteq revoked'
  BY DEF JobInv, RevokedDisposed, Pops
<1>2. ASSUME NEW j \in revoked' \cap evidence
      PROVE  \E b \in Actors : j \in JobsOf(actor'[b].todo)
  <2>1. CASE j \in revoked
    <3>1. PICK b \in Actors : j \in JobsOf(actor[b].todo)
      BY <1>2, <2>1 DEF JobInv, RevokedDisposed
    <3>2. b # a
      BY <3>1 DEF JobsOf
    <3>3. QED
      BY <3>1, <3>2
  <2>2. CASE j \notin revoked
    BY <1>2, <2>2
  <2>3. QED
    BY <2>1, <2>2
<1>3. QED
  BY <1>1, <1>2 DEF RevokedDisposed

\* The lock section of cleanup_expired is such a pop.
LEMMA SweepPops ==
  ASSUME TypeInv, JobInv, NEW a \in Actors, actor[a].todo = {},
         NEW local \in Local, local.todo = {}, Sweep(a, local),
         UNCHANGED <<evidence, sessionOf, cancelRequested>>
  PROVE  Pops /\ Owned' /\ RevokedUsed' /\ RevokedDisposed'
<1> DEFINE pend == {t \in Expired : state[t].status = "pending"}
           orphans == {EntryOf(s) : s \in pend}
<1>1. /\ \A s \in Sessions : state'[s] = IF s \in Expired THEN NoState ELSE state[s]
      /\ revoked' = revoked \cup JobsOf(orphans)
  BY DEF Sweep
<1>2. /\ \A t \in pend : t \in Sessions /\ t \in Expired
      /\ \A t \in pend : state[t].active \in Jobs \/ state[t].active = NoJob
      /\ \A t \in Expired \ pend : state[t].active \notin Jobs
  BY DEF TypeInv, StoreOK, SessionState, Expired
<1>3. JobsOf(orphans) = {state[t].active : t \in pend} \ {NoJob}
  <2>1. \A t \in pend : EntryOf(t).job = state[t].active
    BY DEF EntryOf
  <2> HIDE DEF pend
  <2>2. \A j : (\E e \in orphans : e.job = j) <=> (\E t \in pend : state[t].active = j)
    BY <2>1
  <2>3. QED
    BY <2>2 DEF JobsOf
<1>4. NoState.active = NoJob /\ NoJob \notin Jobs
  BY ConstantsAssumption DEF NoState
<1>5. Pops
  <2>1. revoked \subseteq revoked' /\ revoked' \subseteq Jobs
    BY <1>1, <1>2, <1>3 DEF TypeInv, StoreOK
  <2>2. ASSUME NEW s \in Sessions
        PROVE  \/ state'[s].active = state[s].active
               \/ /\ state'[s].active \notin Jobs
                  /\ state[s].active \in Jobs => state[s].active \in revoked'
    BY <1>1, <1>2, <1>3, <1>4
  <2>3. ASSUME NEW j \in revoked' \ revoked
        PROVE  /\ \E s \in Sessions : state[s].active = j
               /\ \A s \in Sessions : state'[s].active # j
    <3>1. PICK t \in pend : state[t].active = j
      BY <1>1, <1>3, <2>3
    <3> j # NoJob
      BY <1>1, <1>3, <2>3
    <3>2. ASSUME NEW s \in Sessions, state'[s].active = j PROVE FALSE
      <4>1. s \notin Expired /\ state[s].active = j
        BY <1>1, <1>2, <1>4, <3>1, <3>2
      <4>2. s = t
        BY <1>2, <3>1, <4>1 DEF JobInv, Owned
      <4>3. QED
        BY <1>2, <4>1, <4>2
    <3>3. QED
      BY <1>2, <3>1, <3>2
  <2>4. QED
    BY <2>1, <2>2, <2>3 DEF Pops
<1>6. /\ \A b \in Actors : b # a => actor'[b] = actor[b]
      /\ actor'[a].todo = orphans
  <2>1. actor' = [actor EXCEPT ![a] = IF orphans = {} THEN To(local, local.after)
                                      ELSE [local EXCEPT !.pc = "signal", !.todo = orphans]]
    BY DEF Sweep
  <2>2. To(local, local.after).todo = {}
    BY DEF To, Idle, Local
  <2>3. [local EXCEPT !.pc = "signal", !.todo = orphans].todo = orphans
    BY DEF Local
  <2> HIDE DEF orphans
  <2>4. QED
    BY <2>1, <2>2, <2>3 DEF TypeInv, ActorsOK
<1>7. RevokedDisposed'
  <2>1. JobsOf(orphans) \subseteq revoked'
    BY <1>1
  <2>2. \A j \in revoked' \ revoked : j \in JobsOf(orphans)
    BY <1>1
  <2> HIDE DEF orphans, pend
  <2>3. QED
    BY <1>5, <1>6, <2>1, <2>2, PopsDisposed
<1>8. QED
  BY <1>5, <1>7, PopsOwned

-----------------------------------------------------------------------------
(* Steps that leave the store alone.                                        *)

\* Disposing only shrinks the evidence, and takes the entry with it.
LEMMA KeepsOwned ==
  ASSUME TypeInv, JobInv, \A s \in Sessions : state'[s].active = state[s].active,
         UNCHANGED <<revoked, sessionOf>>, evidence' \subseteq evidence,
         \A s \in Sessions : state[s].active \in Jobs => state[s].active \in evidence',
         cancelRequested' \subseteq revoked
  PROVE  Owned' /\ RevokedUsed'
PROOF BY DEF JobInv, Owned, RevokedUsed

\* Entries outlive the evidence they stand for.
LEMMA KeepsDisposed ==
  ASSUME JobInv, UNCHANGED revoked, evidence' \subseteq evidence,
         \A a \in Actors : actor'[a].todo = actor[a].todo
  PROVE  RevokedDisposed'
PROOF BY DEF JobInv, RevokedDisposed

\* A step of another thread is not seen by the event loop.
LEMMA KeepsLoop ==
  ASSUME TypeInv, JobInv, \A s \in Sessions : state'[s].active = state[s].active,
         UNCHANGED <<revoked, task, sessionOf>>, evidence' \subseteq evidence,
         actor'[Loop] = actor[Loop]
  PROVE  LoopJob' /\ Tracked'
<1>1. me' = me /\ Section(me)' = Section(me)
  BY DEF me, Section
<1>2. LoopJob'
  <2>1. me.pc \in {"savePending", "claim", "submit", "attach"} => me.session \in Sessions
    BY DEF TypeInv, ActorsOK, LoopOK, Section, Cleaning, HoldsJob, me
  <2>2. QED
    BY <1>1, <2>1 DEF JobInv, LoopJob
<1>3. Tracked'
  BY <1>1 DEF JobInv, Tracked, LoopHolds, AtPersist, At, me
<1>4. QED
  BY <1>2, <1>3

\* A step that touches neither the jobs, nor who waits for them, nor the loop.
LEMMA Quiet ==
  ASSUME TypeInv, JobInv, \A s \in Sessions : state'[s].active = state[s].active,
         UNCHANGED <<revoked, jobs>>, actor'[Loop] = actor[Loop],
         \A a \in Actors : actor'[a].todo = actor[a].todo
  PROVE  JobInv'
<1>1. UNCHANGED <<task, cancelRequested, evidence, sessionOf>>
  BY DEF jobs
<1>2. \A s \in Sessions : state[s].active \in Jobs => state[s].active \in evidence
  BY DEF JobInv, Owned
<1>3. cancelRequested \subseteq revoked
  BY DEF JobInv, RevokedUsed
<1>4. Owned' /\ RevokedUsed'
  BY <1>1, <1>2, <1>3, KeepsOwned
<1>5. RevokedDisposed' /\ LoopJob' /\ Tracked'
  BY <1>1, KeepsDisposed, KeepsLoop
<1>6. QED
  BY <1>4, <1>5 DEF JobInv

\* A thread other than the loop moves on without entries.
LEMMA QuietMove ==
  ASSUME TypeInv, JobInv, UNCHANGED <<state, revoked, jobs>>,
         NEW a \in Actors \ {Loop}, actor[a].todo = {},
         \/ UNCHANGED actor
         \/ \E label : GoTo(a, label)
         \/ \E s, after : CleanThen(a, s, after)
  PROVE  JobInv'
<1>1. actor[a] \in Local /\ Loop \in Actors /\ a # Loop
  BY DEF TypeInv, ActorsOK, Actors
<1>2. \A b \in Actors : b # a => actor'[b] = actor[b]
  BY DEF TypeInv, ActorsOK, GoTo, CleanThen
<1>3. actor'[a].todo = {}
  <2>1. ASSUME NEW label, GoTo(a, label) PROVE actor'[a].todo = {}
    <3>1. To(actor[a], label).todo = {}
      BY <1>1 DEF To, Idle, Local
    <3>2. QED
      BY <2>1, <3>1 DEF GoTo, TypeInv, ActorsOK
  <2>2. ASSUME NEW s, NEW after, CleanThen(a, s, after) PROVE actor'[a].todo = {}
    <3>1. [actor[a] EXCEPT !.pc = "cleanup", !.after = after, !.session = s].todo = {}
      BY <1>1 DEF Local
    <3>2. QED
      BY <2>2, <3>1 DEF CleanThen, TypeInv, ActorsOK
  <2>3. QED
    BY <2>1, <2>2
<1>4. actor'[Loop] = actor[Loop] /\ \A b \in Actors : actor'[b].todo = actor[b].todo
  BY <1>1, <1>2, <1>3
<1>5. QED
  BY <1>4, Quiet

-----------------------------------------------------------------------------
(* JobInv is inductive.                                                     *)

\* The thread-pool handlers keep the invariant (append_batch, cancel).
LEMMA PoolJobs ==
  ASSUME TypeInv, JobInv, NEW a \in Pool,
         PoolStart(a) \/ AppendBatch(a) \/ CancelDispose(a) \/ CancelMark(a)
  PROVE  JobInv'
<1>1. a \in Actors \ {Loop} /\ Loop \in Actors /\ actor[a] \in Local /\ TodoOK(actor[a])
  BY ConstantsAssumption DEF Actors, TypeInv, ActorsOK
<1>2. ASSUME NEW local \in Local, local.todo = {}, Sweep(a, local), UNCHANGED jobs,
             At(a, "idle")
      PROVE  JobInv'
  <2>1. actor[a].todo = {}
    BY <1>1, <1>2 DEF TodoOK, Disposing, At
  <2>2. Pops /\ Owned' /\ RevokedUsed' /\ RevokedDisposed'
    BY <1>1, <1>2, <2>1, SweepPops DEF jobs
  <2>3. actor'[Loop] = actor[Loop]
    BY <1>1, <1>2 DEF Sweep, TypeInv, ActorsOK
  <2>4. QED
    BY <1>2, <2>2, <2>3, PopsElsewhere DEF JobInv
<1>3. ASSUME NEW s \in Sessions, AppendStart(a, s) PROVE JobInv'
  <2> DEFINE l == [Idle EXCEPT !.session = s, !.after = "append"]
  <2>1. l \in Local /\ l.todo = {}
    BY DEF Idle, Local, Label, Cleaning
  <2>2. Sweep(a, l) /\ UNCHANGED jobs /\ At(a, "idle")
    BY <1>3 DEF AppendStart
  <2> HIDE DEF l
  <2>3. QED
    BY <1>2, <2>1, <2>2
<1>4. ASSUME Read(a) PROVE JobInv'
  <2>1. Idle.todo = {}
    BY DEF Idle
  <2>2. QED
    BY <1>2, <1>4, <2>1, IdleType DEF Read
<1>5. ASSUME NEW s \in Sessions, CancelPop(a, s) PROVE JobInv'
  <2> DEFINE found == IF state[s].active = NoJob THEN {} ELSE {EntryOf(s)}
             l == IF state[s].status = "collecting" THEN Idle
                  ELSE [Idle EXCEPT !.pc = "dispose", !.session = s, !.todo = found]
  <2>1. /\ state' = [state EXCEPT ![s] = NoState]
        /\ revoked' = revoked \cup JobsOf(found)
        /\ actor' = [actor EXCEPT ![a] = l]
        /\ UNCHANGED jobs
    BY <1>5 DEF CancelPop
  <2>2. actor[a].todo = {}
    BY <1>1, <1>5 DEF CancelPop, At, TodoOK, Disposing
  <2>3. NoState.active = NoJob /\ NoJob \notin Jobs
    BY ConstantsAssumption DEF NoState
  <2>4. /\ state[s].active \in Jobs => found = {EntryOf(s)} /\ EntryOf(s).job = state[s].active
        /\ state[s].active \notin Jobs => found = {}
    BY <2>3 DEF TypeInv, StoreOK, SessionState, EntryOf
  <2>5. state[s].active \in Jobs => l.todo = found
    BY DEF TypeInv, StoreOK, Idle
  <2>6. state[s].active \notin Jobs => l.todo = {}
    BY <2>4 DEF Idle
  <2> HIDE DEF found, l
  <2>7. JobsOf(found) = IF state[s].active \in Jobs THEN {state[s].active} ELSE {}
    BY <2>3, <2>4 DEF JobsOf
  <2>8. Pops
    <3>1. revoked \subseteq revoked' /\ revoked' \subseteq Jobs
      BY <2>1, <2>7 DEF TypeInv, StoreOK
    <3>2. \A t \in Sessions : state'[t] = IF t = s THEN NoState ELSE state[t]
      BY <2>1 DEF TypeInv, StoreOK
    <3>3. ASSUME NEW j \in revoked' \ revoked
          PROVE  state[s].active = j /\ \A t \in Sessions : state'[t].active # j
      <4>1. state[s].active = j /\ j \in Jobs
        BY <2>1, <2>7, <3>3
      <4>2. \A t \in Sessions : state[t].active = j => t = s
        BY <4>1 DEF JobInv, Owned
      <4>3. QED
        BY <2>3, <3>2, <4>1, <4>2
    <3>4. QED
      BY <2>1, <2>3, <2>7, <3>1, <3>2, <3>3 DEF Pops
  <2>9. actor'[a].todo = l.todo /\ \A b \in Actors : b # a => actor'[b] = actor[b]
    BY <1>1, <2>1 DEF TypeInv, ActorsOK
  <2>10. RevokedDisposed'
    <3>1. /\ JobsOf(l.todo) \subseteq revoked'
          /\ \A j \in revoked' \ revoked : j \in JobsOf(l.todo)
      <4>1. JobsOf({}) = {}
        BY DEF JobsOf
      <4>2. QED
        BY <2>1, <2>5, <2>6, <2>7, <4>1
    <3>2. evidence' = evidence
      BY <2>1 DEF jobs
    <3>3. QED
      BY <1>1, <2>2, <2>8, <2>9, <3>1, <3>2, PopsDisposed
  <2>11. QED
    BY <1>1, <2>1, <2>8, <2>9, <2>10, PopsOwned, PopsElsewhere DEF JobInv, jobs
<1>6. ASSUME AppendBatch(a) PROVE JobInv'
  <2>1. \A s \in Sessions : state'[s].active = state[s].active
    <3>1. ASSUME NEW s \in Sessions, state[s].status = "absent"
          PROVE  state[s].active = NoJob /\ Fresh.active = NoJob
      BY <3>1 DEF TypeInv, StoreOK, SessionState, Fresh, NoState
    <3> DEFINE s == actor[a].session
               collecting == IF state[s].status = "absent" THEN Fresh ELSE state[s]
               buffering == [collecting EXCEPT !.buffered = TRUE, !.expired = FALSE]
    <3>2. CASE s \in Sessions
      <4>1. collecting.active = state[s].active /\ collecting \in SessionState
        BY <3>1, <3>2, StateTypes DEF TypeInv, StoreOK
      <4>2. buffering.active = state[s].active
        BY <4>1 DEF SessionState
      <4>3. state' \in {state, [state EXCEPT ![s] = collecting],
                        [state EXCEPT ![s] = buffering]}
        BY <1>6 DEF AppendBatch
      <4> HIDE DEF collecting, buffering
      <4>4. QED
        BY <3>2, <4>1, <4>2, <4>3 DEF TypeInv, StoreOK
    <3>3. CASE s \notin Sessions
      BY <1>6, <3>3 DEF AppendBatch, TypeInv, StoreOK
    <3>4. QED
      BY <3>2, <3>3
  <2>2. \A b \in Actors : b # a => actor'[b] = actor[b]
    BY <1>6 DEF AppendBatch, GoTo, TypeInv, ActorsOK
  <2>3. actor[a].todo = {} /\ actor'[a].todo = {}
    BY <1>1, <1>6 DEF AppendBatch, At, GoTo, To, Idle, TypeInv, ActorsOK, TodoOK, Disposing
  <2>4. QED
    BY <1>1, <1>6, <2>1, <2>2, <2>3, Quiet DEF AppendBatch
<1>7. ASSUME CancelDispose(a) PROVE JobInv'
  <2>1. JobsOf(actor[a].todo) \subseteq revoked
    BY <1>1 DEF JobInv, RevokedDisposed
  <2>2. cancelRequested' \subseteq revoked
    BY <1>7, <2>1 DEF CancelDispose, CancelHandles, JobsOf, JobInv, RevokedUsed
  <2>3. /\ UNCHANGED <<state, revoked, task, sessionOf>>
        /\ evidence' = evidence \ JobsOf(actor[a].todo)
    BY <1>7 DEF CancelDispose, store
  <2>4. \A s \in Sessions : state[s].active \in Jobs => state[s].active \in evidence'
    BY <2>1, <2>3 DEF JobInv, Owned
  <2>5. /\ \A b \in Actors : b # a => actor'[b] = actor[b]
        /\ actor'[a].todo = {}
    BY <1>1, <1>7 DEF CancelDispose, TypeInv, ActorsOK, Local
  <2>6. RevokedDisposed'
    <3>1. JobsOf(actor'[a].todo) = {}
      BY <2>5 DEF JobsOf
    <3>2. QED
      BY <2>3, <2>5, <3>1 DEF JobInv, RevokedDisposed
  <2>7. Owned' /\ RevokedUsed'
    BY <2>2, <2>3, <2>4, KeepsOwned
  <2>8. LoopJob' /\ Tracked'
    BY <1>1, <2>3, <2>5, KeepsLoop
  <2>9. QED
    BY <2>6, <2>7, <2>8 DEF JobInv
<1>8. ASSUME CancelMark(a) PROVE JobInv'
  <2>1. actor[a].todo = {}
    BY <1>1, <1>8 DEF CancelMark, At, TodoOK, Disposing
  <2>2. QED
    BY <1>1, <1>8, <2>1, QuietMove DEF CancelMark, store
<1>9. QED
  BY <1>3, <1>4, <1>5, <1>6, <1>7, <1>8 DEF PoolStart

\* The event loop on its way through cleanup_expired.
LEMMA LoopCleans ==
  ASSUME JobInv, me.pc \in Cleaning,
         me'.job = me.job, me'.after = me.after, me'.pc \in Cleaning \cup {me.after},
         revoked \subseteq revoked', evidence' \subseteq evidence, UNCHANGED task
  PROVE  LoopJob' /\ Tracked'
<1>1. me.after \in {"begin", "answer", "commit"}
  BY DEF JobInv, LoopJob
<1>2. Section(me)' = Section(me) /\ Section(me) = me.after
  BY <1>1 DEF Section, Cleaning
<1>3. LoopJob'
  BY <1>1, <1>2 DEF JobInv, LoopJob, Cleaning
<1>4. Tracked'
  BY <1>1 DEF JobInv, Tracked, LoopHolds, AtPersist, Cleaning
<1>5. QED
  BY <1>3, <1>4

\* Each stage of cleanup_expired keeps the invariant, whoever runs it.
LEMMA CleanupJobs ==
  ASSUME TypeInv, JobInv, NEW a \in Actors, Cleanup(a)
  PROVE  JobInv'
<1>1. actor[a] \in Local /\ TodoOK(actor[a]) /\ Loop \in Actors
  BY DEF TypeInv, ActorsOK, Actors
<1>2. a = Loop => me.pc \in Cleaning /\ me.after # "idle" /\ me = actor[a]
  BY DEF Cleanup, CleanupSweep, CleanupSignal, CleanupOrphan, At, Cleaning, JobInv, LoopJob, me
<1>3. CASE CleanupSweep(a)
  <2>1. actor[a].todo = {}
    BY <1>1, <1>3 DEF CleanupSweep, At, TodoOK, Disposing
  <2>2. Pops /\ Owned' /\ RevokedUsed' /\ RevokedDisposed'
    BY <1>1, <1>3, <2>1, SweepPops DEF CleanupSweep, jobs
  <2>3. CASE a # Loop
    <3>1. actor'[Loop] = actor[Loop]
      BY <1>1, <1>3, <2>3 DEF CleanupSweep, Sweep, TypeInv, ActorsOK
    <3>2. QED
      BY <1>3, <2>2, <3>1, PopsElsewhere DEF CleanupSweep, JobInv
  <2>4. CASE a = Loop
    <3> DEFINE orphans == {EntryOf(s) : s \in {t \in Expired : state[t].status = "pending"}}
               l == IF orphans = {} THEN To(me, me.after)
                    ELSE [me EXCEPT !.pc = "signal", !.todo = orphans]
    <3>1. actor' = [actor EXCEPT ![Loop] = l]
      BY <1>3, <2>4 DEF CleanupSweep, Sweep, me
    <3>2. l.job = me.job /\ l.after = me.after /\ l.pc \in Cleaning \cup {me.after}
      <4> HIDE DEF orphans
      <4>1. QED
        BY <1>1, <1>2, <2>4 DEF To, Local, Cleaning
    <3> HIDE DEF l
    <3>3. me' = l
      BY <1>1, <3>1 DEF me, TypeInv, ActorsOK
    <3>4. LoopJob' /\ Tracked'
      BY <1>2, <1>3, <2>2, <2>4, <3>2, <3>3, LoopCleans DEF CleanupSweep, jobs, Pops
    <3>5. QED
      BY <2>2, <3>4 DEF JobInv
  <2>5. QED
    BY <2>3, <2>4
<1>4. CASE CleanupSignal(a)
  <2>1. cancelRequested' \subseteq revoked
    BY <1>4 DEF CleanupSignal, CancelHandles, JobsOf, JobInv, RevokedDisposed, RevokedUsed
  <2>2. UNCHANGED <<state, revoked, task, evidence, sessionOf>> /\ GoTo(a, "orphans")
    BY <1>4 DEF CleanupSignal, store
  <2>3. /\ \A b \in Actors : b # a => actor'[b] = actor[b]
        /\ actor'[a] = [actor[a] EXCEPT !.pc = "orphans"]
    BY <2>2 DEF GoTo, To, TypeInv, ActorsOK
  <2>4. RevokedDisposed'
    <3>1. \A b \in Actors : actor'[b].todo = actor[b].todo
      BY <1>1, <2>3 DEF Local
    <3>2. QED
      BY <2>2, <3>1, KeepsDisposed
  <2>5. Owned' /\ RevokedUsed'
    <3>1. \A s \in Sessions : state[s].active \in Jobs => state[s].active \in evidence
      BY DEF JobInv, Owned
    <3>2. QED
      BY <2>1, <2>2, <3>1, KeepsOwned
  <2>6. LoopJob' /\ Tracked'
    <3>1. CASE a # Loop
      BY <1>1, <2>2, <2>3, <3>1, KeepsLoop
    <3>2. CASE a = Loop
      <4>1. me'.job = me.job /\ me'.after = me.after /\ me'.pc = "orphans"
        BY <1>1, <1>2, <2>3, <3>2 DEF me, Local
      <4>2. QED
        BY <1>2, <2>2, <3>2, <4>1, LoopCleans DEF Cleaning
    <3>3. QED
      BY <3>1, <3>2
  <2>7. QED
    BY <2>4, <2>5, <2>6 DEF JobInv
<1>5. CASE CleanupOrphan(a)
  <2>1. PICK e \in actor[a].todo :
          /\ evidence' = evidence \ {e.job}
          /\ actor' = [actor EXCEPT ![a] =
                         To([actor[a] EXCEPT !.todo = @ \ {e}],
                            IF actor[a].todo = {e} THEN actor[a].after ELSE "orphans")]
    BY <1>5 DEF CleanupOrphan
  <2> DEFINE l0 == [actor[a] EXCEPT !.todo = @ \ {e}]
             label == IF actor[a].todo = {e} THEN actor[a].after ELSE "orphans"
             l == To(l0, label)
  <2>2. l0 \in Local /\ label \in Label /\ l0.todo = actor[a].todo \ {e}
        /\ l0.job = actor[a].job /\ l0.after = actor[a].after
    BY <1>1 DEF Local, Label, Cleaning
  <2>3. l.todo = actor[a].todo \ {e}
    <3>1. label = "idle" => actor[a].todo \ {e} = {}
      OBVIOUS
    <3>2. Idle.todo = {}
      BY DEF Idle
    <3> HIDE DEF l0, label
    <3>3. QED
      BY <2>2, <3>1, <3>2, ToTypes
  <2>4. /\ \A b \in Actors : b # a => actor'[b] = actor[b]
        /\ actor'[a] = l
    BY <2>1 DEF TypeInv, ActorsOK
  <2>5. UNCHANGED <<state, revoked, task, cancelRequested, sessionOf>>
        /\ (e.job \in revoked \/ e.job = NoJob)
    BY <1>5 DEF CleanupOrphan, store, JobInv, RevokedDisposed, JobsOf
  <2>6. \A s \in Sessions : state[s].active \in Jobs => state[s].active \in evidence'
    BY <2>1, <2>5, ConstantsAssumption DEF JobInv, Owned
  <2>7. Owned' /\ RevokedUsed'
    <3>1. cancelRequested' \subseteq revoked
      BY <2>5 DEF JobInv, RevokedUsed
    <3>2. QED
      BY <2>1, <2>5, <2>6, <3>1, KeepsOwned
  <2>8. RevokedDisposed'
    <3> HIDE DEF l
    <3>1. \A b \in Actors : \A f \in actor'[b].todo : f \in actor[b].todo
      BY <2>3, <2>4
    <3>2. \A b \in Actors : \A f \in actor[b].todo : f \in actor'[b].todo \/ f.job = e.job
      BY <2>3, <2>4
    <3>3. \A b \in Actors : JobsOf(actor'[b].todo) \subseteq JobsOf(actor[b].todo)
      BY <3>1 DEF JobsOf
    <3>4. ASSUME NEW j \in revoked, j \in evidence'
          PROVE  \E b \in Actors : j \in JobsOf(actor'[b].todo)
      <4>1. j \in evidence /\ j # e.job
        BY <2>1, <3>4
      <4>2. PICK b \in Actors : j \in JobsOf(actor[b].todo)
        BY <3>4, <4>1 DEF JobInv, RevokedDisposed
      <4>3. j \in JobsOf(actor'[b].todo)
        BY <3>2, <4>1, <4>2 DEF JobsOf
      <4>4. QED
        BY <4>3
    <3>5. QED
      BY <2>5, <3>3, <3>4 DEF JobInv, RevokedDisposed
  <2>9. LoopJob' /\ Tracked'
    <3>1. CASE a # Loop
      BY <1>1, <2>1, <2>4, <2>5, <3>1, KeepsLoop
    <3>2. CASE a = Loop
      <4>1. l.job = me.job /\ l.after = me.after /\ l.pc = label /\ label \in {"orphans", me.after}
        <5>1. me = actor[a] /\ label \in {"orphans", me.after}
          BY <3>2 DEF me
        <5>2. label # "idle"
          BY <1>2, <3>2, <5>1
        <5> HIDE DEF l0, label
        <5>3. QED
          BY <2>2, <5>1, <5>2, ToTypes
      <4>2. me' = l
        BY <2>4, <3>2 DEF me
      <4> HIDE DEF l, label
      <4>3. QED
        BY <1>2, <2>1, <2>5, <3>2, <4>1, <4>2, LoopCleans DEF Cleaning
    <3>3. QED
      BY <3>1, <3>2
  <2>10. QED
    BY <2>7, <2>8, <2>9 DEF JobInv
<1>6. QED
  BY <1>3, <1>4, <1>5 DEF Cleanup

\* The maintenance loop keeps the invariant (main.py startup, maintenance_loop).
LEMMA KeeperJobs ==
  ASSUME TypeInv, JobInv, KeeperStep, ~Cleanup(Keeper)
  PROVE  JobInv'
<1>1. Keeper \in Actors \ {Loop} /\ TodoOK(actor[Keeper])
  BY ConstantsAssumption DEF Actors, TypeInv, ActorsOK
<1>2. ~(At(Keeper, "signal") \/ At(Keeper, "orphans") \/ At(Keeper, "dispose")) => actor[Keeper].todo = {}
  BY <1>1 DEF TodoOK, Disposing, At
<1> USE <1>1, <1>2, QuietMove DEF At, store
<1>3. CASE RuntimeProbe
  BY <1>3 DEF RuntimeProbe, Initialize
<1>4. CASE MarkInflight
  BY <1>4 DEF MarkInflight, Initialize
<1>5. CASE OpenIntake
  BY <1>5 DEF OpenIntake
<1>6. CASE Wake
  BY <1>6 DEF Wake
<1>7. CASE OrphanRows
  BY <1>7 DEF OrphanRows
<1>8. CASE Retention
  BY <1>8 DEF Retention
<1>9. QED
  BY <1>3, <1>4, <1>5, <1>6, <1>7, <1>8 DEF KeeperStep

\* Model tasks keep the invariant (run_completion, AsyncioJobDispatcher).
LEMMA TaskJobs ==
  ASSUME TypeInv, JobInv, NEW j \in Jobs, TaskStep(j) \/ ModelAnswers(j)
  PROVE  JobInv'
<1>1. me.pc = "idle" /\ Loop \in Actors
  BY DEF TaskStep, TaskStart, TaskCancelled, TaskDiscard, ModelAnswers, LoopFree, At, me, Actors
<1>2. ASSUME TaskStep(j) PROVE JobInv'
  <2>1. /\ UNCHANGED <<state, revoked, sessionOf, cancelRequested, actor>>
        /\ evidence' \subseteq evidence /\ \A i \in evidence : i # j => i \in evidence'
        /\ \A i \in Jobs : i # j => task'[i] = task[i]
    BY <1>2 DEF TaskStep, TaskStart, TaskCancelled, TaskDiscard, store, TypeInv, JobsOK
  <2>2. j \in evidence' => j \in revoked \/ task[j] \notin {"queued", "model"}
                           \/ task'[j] = "model"
    BY <1>2 DEF TaskStep, TaskStart, TaskCancelled, TaskDiscard, TypeInv, JobsOK,
                JobInv, RevokedUsed
  <2>3. j \notin evidence' => j \notin evidence \/ j \in revoked
    BY <1>2 DEF TaskStep, TaskStart, TaskCancelled, TaskDiscard, JobInv, RevokedUsed
  <2>4. \A s \in Sessions : state[s].active \in Jobs => state[s].active \in evidence'
    BY <2>1, <2>3 DEF JobInv, Owned
  <2>5. Owned' /\ RevokedUsed'
    <3>1. cancelRequested' \subseteq revoked
      BY <2>1 DEF JobInv, RevokedUsed
    <3>2. QED
      BY <2>1, <2>4, <3>1, KeepsOwned
  <2>6. RevokedDisposed'
    BY <2>1, KeepsDisposed
  <2>7. LoopJob'
    BY <1>1, <2>1 DEF JobInv, LoopJob, me, Section, Cleaning
  <2>8. Tracked'
    <3>1. evidence \subseteq Jobs
      BY DEF TypeInv, JobsOK
    <3>2. QED
      BY <1>1, <2>1, <2>2, <3>1 DEF JobInv, Tracked, LoopHolds, AtPersist, me
  <2>9. QED
    BY <2>5, <2>6, <2>7, <2>8 DEF JobInv
<1>3. ASSUME ModelAnswers(j) PROVE JobInv'
  <2>1. PICK d \in {"completed", "failed"} :
          Sweep(Loop, [Idle EXCEPT !.session = sessionOf[j], !.job = j,
                                   !.dec = d, !.after = "commit"])
    BY <1>3 DEF ModelAnswers
  <2> DEFINE l == [Idle EXCEPT !.session = sessionOf[j], !.job = j,
                               !.dec = d, !.after = "commit"]
  <2>2. sessionOf[j] \in Sessions
    BY <1>3 DEF ModelAnswers, TypeInv, JobsOK
  <2>3. l \in Local /\ l.todo = {} /\ l.after = "commit" /\ l.job = j
    BY <2>2 DEF Idle, Local, Label, Cleaning, Decisions
  <2>4. actor[Loop].todo = {}
    BY <1>1 DEF me, TypeInv, ActorsOK, TodoOK, Disposing
  <2> DEFINE orphans == {EntryOf(s) : s \in {t \in Expired : state[t].status = "pending"}}
             m == IF orphans = {} THEN To(l, l.after)
                  ELSE [l EXCEPT !.pc = "signal", !.todo = orphans]
  <2>5. Sweep(Loop, l) /\ actor' = [actor EXCEPT ![Loop] = m]
    BY <2>1 DEF Sweep
  <2>6. UNCHANGED <<evidence, sessionOf, cancelRequested>>
        /\ \A i \in Jobs : task'[i] = IF i = j THEN "publishing" ELSE task[i]
    BY <1>3 DEF ModelAnswers, TypeInv, JobsOK
  <2> HIDE DEF l
  <2>7. Pops /\ Owned' /\ RevokedUsed' /\ RevokedDisposed'
    BY <1>1, <2>3, <2>4, <2>5, <2>6, SweepPops
  <2>8. m.job = j /\ m.after = "commit" /\ m.pc \in {"signal", "commit"}
    <3> HIDE DEF orphans
    <3>1. QED
      BY <2>3 DEF To, Local
  <2> HIDE DEF m
  <2>9. me' = m
    BY <1>1, <2>5 DEF me, TypeInv, ActorsOK
  <2>10. LoopJob'
    BY <2>8, <2>9 DEF LoopJob, Section, Cleaning
  <2>11. Tracked'
    <3>1. \A i \in evidence : ~LoopHolds(i) /\ ~AtPersist(i)
      BY <1>1 DEF LoopHolds, AtPersist, Cleaning
    <3>2. LoopHolds(j)'
      BY <2>8, <2>9 DEF LoopHolds
    <3>3. evidence \subseteq Jobs
      BY DEF TypeInv, JobsOK
    <3>4. QED
      BY <2>6, <2>7, <3>1, <3>2, <3>3 DEF JobInv, Tracked, Pops
  <2>12. QED
    BY <2>7, <2>10, <2>11 DEF JobInv
<1>4. QED
  BY <1>2, <1>3

\* Time and crashes keep the invariant.
LEMMA EnvironmentJobs ==
  ASSUME TypeInv, JobInv,
         (\E s \in Sessions : Expire(s)) \/ (\E k \in Keys : Age(k)) \/ Crash
  PROVE  JobInv'
<1>1. ASSUME NEW s \in Sessions, Expire(s) PROVE JobInv'
  <2>1. [state[s] EXCEPT !.expired = TRUE].active = state[s].active
    BY DEF TypeInv, StoreOK, SessionState
  <2>2. \A t \in Sessions : state'[t].active = state[t].active
    BY <1>1, <2>1 DEF Expire, TypeInv, StoreOK
  <2>3. QED
    BY <1>1, <2>2, Quiet DEF Expire
<1>2. ASSUME NEW k \in Keys, Age(k) PROVE JobInv'
  BY <1>2, Quiet DEF Age, store
<1>3. ASSUME Crash PROVE JobInv'
  <2>1. Loop \in Actors /\ AtStart[Loop] = Idle
        /\ \A a \in Actors : AtStart[a].todo = {}
    BY ConstantsAssumption DEF Actors, AtStart, Idle
  <2>2. Owned'
    BY <1>3, ConstantsAssumption DEF Crash, Owned, NoState
  <2>3. RevokedUsed' /\ RevokedDisposed' /\ Tracked'
    BY <1>3, <2>1 DEF Crash, JobInv, RevokedUsed, RevokedDisposed, Tracked, JobsOf
  <2>4. LoopJob'
    BY <1>3, <2>1 DEF Crash, LoopJob, me, Idle, Section, Cleaning
  <2>5. QED
    BY <2>2, <2>3, <2>4 DEF JobInv
<1>4. QED
  BY <1>1, <1>2, <1>3

\* What a step of the event loop has to show when it leaves the jobs and the
\* waiting states alone.
LEMMA LoopMoves ==
  ASSUME TypeInv, JobInv, \A s \in Sessions : state'[s].active = state[s].active,
         UNCHANGED <<revoked, cancelRequested, evidence, sessionOf>>,
         me.todo = {}, me'.todo = {}, \A b \in Actors : b # Loop => actor'[b] = actor[b],
         LoopJob', Tracked'
  PROVE  JobInv'
<1>1. \A s \in Sessions : state[s].active \in Jobs => state[s].active \in evidence'
  BY DEF JobInv, Owned
<1>2. cancelRequested' \subseteq revoked
  BY DEF JobInv, RevokedUsed
<1>3. Owned' /\ RevokedUsed'
  BY <1>1, <1>2, KeepsOwned
<1>4. RevokedDisposed'
  <2>1. \A b \in Actors : actor'[b].todo = actor[b].todo
    BY DEF me
  <2>2. QED
    BY <2>1, KeepsDisposed
<1>5. QED
  BY <1>3, <1>4 DEF JobInv

\* A handler without a job answers for no evidence.
LEMMA FreeHands ==
  ASSUME TypeInv, JobInv, me.job = NoJob,
         UNCHANGED <<task, evidence, revoked>>
  PROVE  Tracked'
<1>1. \A j \in evidence : ~LoopHolds(j) /\ ~AtPersist(j)
  BY ConstantsAssumption DEF LoopHolds, AtPersist, TypeInv, JobsOK
<1>2. QED
  BY <1>1 DEF JobInv, Tracked

\* A handler that keeps its job in hand answers for it.
LEMMA BusyHands ==
  ASSUME JobInv, me.pc # "persist", me'.job = me.job,
         me'.pc \in HoldsJob \cup {"persist"} \/ (me'.pc = "cleanup" /\ me'.after = "commit"),
         UNCHANGED <<task, evidence, revoked>>
  PROVE  Tracked'
PROOF BY DEF JobInv, Tracked, LoopHolds, AtPersist, HoldsJob

\* The complete handler keeps the invariant, from begin_completion to the end of
\* _commit_terminal, on every path that fails in between (complete).
LEMMA CompleteJobs ==
  ASSUME TypeInv, JobInv,
         (\E s \in Sessions : CompleteStart(s)) \/ (CompleteStep /\ ~Cleanup(Loop))
  PROVE  JobInv'
<1>1. /\ me \in Local /\ me = actor[Loop] /\ Loop \in Actors
      /\ LoopOK(me, sessionOf) /\ TodoOK(me)
  BY DEF TypeInv, ActorsOK, Actors, me
<1>2. ASSUME me.pc \notin Disposing PROVE me.todo = {}
  BY <1>1, <1>2 DEF TodoOK
<1>3. ASSUME NEW l, actor' = [actor EXCEPT ![Loop] = l]
      PROVE  me' = l /\ \A b \in Actors : b # Loop => actor'[b] = actor[b]
  BY <1>1, <1>3 DEF me, TypeInv, ActorsOK
<1>4. ASSUME me.pc \in {"idle", "begin", "answer"} PROVE me.job = NoJob /\ me.todo = {}
  BY <1>2, <1>4 DEF JobInv, LoopJob, Section, Cleaning, Disposing
<1>5. ASSUME UNCHANGED <<revoked, jobs>>, \A s \in Sessions : state'[s].active = state[s].active,
             me.pc \in {"idle", "begin", "answer"}, NEW l, actor' = [actor EXCEPT ![Loop] = l],
             l.job = NoJob, l.todo = {},
             l.pc \in {"idle", "persist"} \/ (l.pc = "cleanup" /\ l.after \in {"begin", "answer"})
      PROVE  JobInv'
  <2>1. me' = l /\ \A b \in Actors : b # Loop => actor'[b] = actor[b]
    BY <1>3, <1>5
  <2>2. LoopJob'
    BY <1>5, <2>1, ConstantsAssumption DEF LoopJob, Section, Cleaning
  <2>3. Tracked'
    BY <1>4, <1>5, FreeHands DEF jobs
  <2>4. QED
    BY <1>4, <1>5, <2>1, <2>2, <2>3, LoopMoves DEF jobs
<1>6. ASSUME NEW s \in Sessions, NEW after \in {"begin", "answer"}, CleanThen(Loop, s, after),
             UNCHANGED <<revoked, jobs>>, \A t \in Sessions : state'[t].active = state[t].active,
             me.pc \in {"idle", "begin", "answer"}
      PROVE  JobInv'
  <2> DEFINE l == [me EXCEPT !.pc = "cleanup", !.after = after, !.session = s]
  <2>1. l.job = NoJob /\ l.todo = {} /\ l.pc = "cleanup" /\ l.after \in {"begin", "answer"}
    BY <1>1, <1>4, <1>6 DEF Local
  <2>2. actor' = [actor EXCEPT ![Loop] = l]
    BY <1>6 DEF CleanThen, me
  <2> HIDE DEF l
  <2>3. QED
    BY <1>5, <1>6, <2>1, <2>2
<1>7. ASSUME NEW s \in Sessions, CompleteStart(s) PROVE JobInv'
  <2>1. me.pc = "idle" /\ UNCHANGED <<state, revoked, jobs>>
    BY <1>7 DEF CompleteStart, At, me, store
  <2>2. CASE UNCHANGED actor
    BY <2>1, <2>2, Quiet
  <2>3. CASE CleanThen(Loop, s, "begin")
    BY <1>6, <2>1, <2>3
  <2>4. QED
    BY <1>7, <2>2, <2>3 DEF CompleteStart
<1>8. ASSUME NEW s \in Sessions, BeginAgain(s) PROVE JobInv'
  BY <1>6, <1>8 DEF BeginAgain, BeginAt, At, me, store
<1>9. ASSUME NEW s \in Sessions, Collecting(s) PROVE state[s].active = NoJob
  BY <1>9 DEF Collecting, TypeInv, StoreOK, SessionState
<1>10. ASSUME NEW s \in Sessions, BeginRefused(s) PROVE JobInv'
  <2>1. \A t \in Sessions : state'[t].active = state[t].active
    BY <1>9, <1>10 DEF BeginRefused, Fresh, NoState, TypeInv, StoreOK
  <2>2. actor' = [actor EXCEPT ![Loop] = Idle] /\ Idle.job = NoJob /\ Idle.todo = {}
        /\ Idle.pc = "idle"
    BY <1>10 DEF BeginRefused, GoTo, To, Idle
  <2>3. QED
    BY <1>5, <1>10, <2>1, <2>2 DEF BeginRefused, BeginAt, At, me
<1>11. ASSUME NEW s \in Sessions, BeginRaises(s) PROVE JobInv'
  <2>1. \A t \in Sessions : state'[t].active = state[t].active
    BY <1>9, <1>11 DEF BeginRaises, Pending, NoState, TypeInv, StoreOK
  <2>2. actor' = [actor EXCEPT ![Loop] = Idle] /\ Idle.job = NoJob /\ Idle.todo = {}
        /\ Idle.pc = "idle"
    BY <1>11 DEF BeginRaises, GoTo, To, Idle
  <2>3. QED
    BY <1>5, <1>11, <2>1, <2>2 DEF BeginRaises, BeginAt, At, me
<1>12. ASSUME NEW s \in Sessions, BeginTerminal(s) PROVE JobInv'
  <2>1. \A t \in Sessions : state'[t].active = state[t].active
    BY <1>9, <1>12 DEF BeginTerminal, Terminal, NoState, TypeInv, StoreOK
  <2>2. QED
    BY <1>6, <1>12, <2>1 DEF BeginTerminal, BeginAt, At, me
<1>13. ASSUME Answer PROVE JobInv'
  <2>1. CASE state[me.session].status = "terminal"
    <3> DEFINE l == [me EXCEPT !.pc = "persist", !.dec = state[me.session].decision]
    <3>1. me.pc = "answer" /\ UNCHANGED <<state, revoked, jobs>>
          /\ actor' = [actor EXCEPT ![Loop] = l]
      BY <1>13, <2>1 DEF Answer, At, me, store
    <3>2. l.job = NoJob /\ l.todo = {} /\ l.pc = "persist"
      BY <1>1, <1>4, <3>1 DEF Local
    <3> HIDE DEF l
    <3>3. QED
      BY <1>5, <3>1, <3>2
  <2>2. CASE state[me.session].status # "terminal"
    <3>1. actor' = [actor EXCEPT ![Loop] = Idle] /\ Idle.job = NoJob /\ Idle.todo = {}
          /\ Idle.pc = "idle"
      BY <1>13, <2>2 DEF Answer, GoTo, To, Idle
    <3>2. QED
      BY <1>5, <1>13, <3>1 DEF Answer, At, me, store
  <2>3. QED
    BY <2>1, <2>2
<1>14. ASSUME NEW s \in Sessions, BeginJob(s) PROVE JobInv'
  <2>1. PICK j \in Jobs :
          /\ sessionOf[j] = NoSession
          /\ sessionOf' = [sessionOf EXCEPT ![j] = s]
          /\ state' = [state EXCEPT ![s] = Pending(j)]
          /\ evidence' = evidence \cup {j}
          /\ actor' = [actor EXCEPT ![Loop] = [@ EXCEPT !.pc = "savePending", !.job = j]]
    BY <1>14 DEF BeginJob
  <2> DEFINE l == [me EXCEPT !.pc = "savePending", !.job = j]
  <2>2. me' = l /\ \A b \in Actors : b # Loop => actor'[b] = actor[b]
    BY <1>3, <2>1 DEF me
  <2>3. me.pc = "begin" /\ me.session = s /\ me.job = NoJob /\ me.todo = {}
    BY <1>4, <1>14 DEF BeginJob, BeginAt, At, me
  <2>4. l.pc = "savePending" /\ l.session = s /\ l.job = j /\ l.todo = {}
    BY <1>1, <2>3 DEF Local
  <2> HIDE DEF l
  <2>5. j \notin revoked /\ UNCHANGED <<revoked, task, cancelRequested>>
    BY <1>14, <2>1, ConstantsAssumption DEF BeginJob, JobInv, RevokedUsed
  <2>6. \A t \in Sessions : state[t].active # j
    BY <2>1, ConstantsAssumption DEF JobInv, Owned
  <2>7. /\ state'[s].active = j /\ \A t \in Sessions : t # s => state'[t] = state[t]
        /\ sessionOf'[j] = s /\ \A i \in Jobs : i # j => sessionOf'[i] = sessionOf[i]
    BY <2>1 DEF Pending, TypeInv, StoreOK, JobsOK
  <2>8. Owned'
    BY <2>1, <2>5, <2>6, <2>7 DEF JobInv, Owned
  <2>9. RevokedUsed'
    BY <2>5, <2>7, ConstantsAssumption DEF JobInv, RevokedUsed, TypeInv, StoreOK
  <2>10. RevokedDisposed'
    <3>1. \A b \in Actors : actor'[b].todo = actor[b].todo
      BY <2>2, <2>3, <2>4 DEF me
    <3>2. QED
      BY <2>1, <2>5, <3>1 DEF JobInv, RevokedDisposed
  <2>11. LoopJob'
    BY <2>2, <2>4, <2>7 DEF LoopJob, Section, Cleaning
  <2>12. Tracked'
    <3>1. \A i \in evidence : ~LoopHolds(i) /\ ~AtPersist(i)
      BY <2>3 DEF LoopHolds, AtPersist, Cleaning
    <3>2. LoopHolds(j)'
      BY <2>2, <2>4 DEF LoopHolds
    <3>3. QED
      BY <2>1, <2>5, <3>1, <3>2 DEF JobInv, Tracked
  <2>13. QED
    BY <2>8, <2>9, <2>10, <2>11, <2>12 DEF JobInv
<1>15. ASSUME NEW label \in Label \ (Cleaning \cup {"idle"}), GoTo(Loop, label)
       PROVE  /\ me'.pc = label /\ me'.session = me.session /\ me'.job = me.job
              /\ me'.todo = me.todo
              /\ \A b \in Actors : b # Loop => actor'[b] = actor[b]
  <2>1. actor' = [actor EXCEPT ![Loop] = To(me, label)]
    BY <1>15 DEF GoTo, me
  <2>2. me' = To(me, label) /\ \A b \in Actors : b # Loop => actor'[b] = actor[b]
    BY <1>3, <2>1
  <2>3. QED
    BY <1>1, <1>15, <2>2, ToTypes
<1>16. ASSUME GoTo(Loop, "idle")
       PROVE  /\ me'.pc = "idle" /\ me'.job = NoJob /\ me'.todo = {}
              /\ \A b \in Actors : b # Loop => actor'[b] = actor[b]
  <2>1. actor' = [actor EXCEPT ![Loop] = Idle]
    BY <1>16 DEF GoTo, To
  <2>2. me' = Idle /\ \A b \in Actors : b # Loop => actor'[b] = actor[b]
    BY <1>3, <2>1
  <2>3. QED
    BY <2>2 DEF Idle
<1>17. ASSUME me.pc \in {"savePending", "claim"}, NEW o, NEW answer,
              NEW next \in {"claim", "submit"}, Started(o, answer, next), UNCHANGED <<store, jobs>>
       PROVE  JobInv'
  <2>1. PICK label \in {"claim", "submit", "startFailed"} : GoTo(Loop, label)
    BY <1>17 DEF Started
  <2>2. label \in Label \ (Cleaning \cup {"idle"})
    BY DEF Label, Cleaning
  <2>3. /\ me'.pc = label /\ me'.session = me.session /\ me'.job = me.job
        /\ me.todo = {} /\ me'.todo = {}
        /\ \A b \in Actors : b # Loop => actor'[b] = actor[b]
    BY <1>2, <1>15, <1>17, <2>1, <2>2 DEF Disposing
  <2>4. LoopJob'
    BY <1>17, <2>3 DEF JobInv, LoopJob, Section, Cleaning, store
  <2>5. Tracked'
    BY <1>17, <2>3, BusyHands DEF HoldsJob, store, jobs
  <2>6. QED
    BY <1>17, <2>3, <2>4, <2>5, LoopMoves DEF store, jobs
<1>18. ASSUME SavePendingRow PROVE JobInv'
  BY <1>17, <1>18 DEF SavePendingRow, At, me
<1>19. ASSUME ClaimRow PROVE JobInv'
  BY <1>17, <1>19 DEF ClaimRow, At, me
<1>20. ASSUME Submit PROVE JobInv'
  <2> DEFINE free == Cardinality(HeldTasks) < MaxWorkers
             label == IF free THEN "attach" ELSE "startFailed"
  <2>1. GoTo(Loop, label) /\ task' = IF free THEN [task EXCEPT ![me.job] = "queued"] ELSE task
    BY <1>20 DEF Submit, Started
  <2>2. me.pc = "submit" /\ me.job \in Jobs /\ me.todo = {}
    BY <1>1, <1>2, <1>20 DEF Submit, At, me, LoopOK, Section, Cleaning, HoldsJob, Disposing
  <2>3. label \in Label \ (Cleaning \cup {"idle"})
    BY DEF Label, Cleaning
  <2> HIDE DEF label
  <2>4. /\ me'.pc = label /\ me'.session = me.session /\ me'.job = me.job /\ me'.todo = {}
        /\ \A b \in Actors : b # Loop => actor'[b] = actor[b]
    BY <1>15, <2>1, <2>2, <2>3
  <2>5. UNCHANGED <<state, revoked, cancelRequested, evidence, sessionOf>>
    BY <1>20 DEF Submit, store
  <2>6. /\ label = "attach" => task'[me.job] = "queued"
        /\ \A i \in Jobs : task'[i] = task[i] \/ task'[i] = "queued"
    BY <2>1, <2>2 DEF TypeInv, JobsOK, label
  <2>7. label \in {"attach", "startFailed"}
    BY DEF label
  <2>8. LoopJob'
    BY <2>2, <2>4, <2>5, <2>6, <2>7 DEF JobInv, LoopJob, Section, Cleaning
  <2>9. Tracked'
    <3>1. evidence \subseteq Jobs
      BY DEF TypeInv, JobsOK
    <3>2. \A i \in evidence : LoopHolds(i) => LoopHolds(i)'
      BY <2>2, <2>4, <2>7 DEF LoopHolds
    <3>3. \A i \in evidence : ~AtPersist(i)
      BY <2>2 DEF AtPersist
    <3>4. QED
      BY <2>5, <2>6, <3>1, <3>2, <3>3 DEF JobInv, Tracked
  <2>10. QED
    BY <2>2, <2>4, <2>5, <2>8, <2>9, LoopMoves
<1>21. ASSUME Attach PROVE JobInv'
  <2>1. me.pc = "attach" /\ me.job \in Jobs /\ me.session \in Sessions /\ me.todo = {}
        /\ sessionOf[me.job] = me.session
    BY <1>1, <1>2, <1>21 DEF Attach, At, me, LoopOK, Section, Cleaning, HoldsJob, Disposing
  <2>2. task[me.job] = "queued" /\ (state[me.session].active = me.job \/ me.job \in revoked)
    BY <2>1 DEF JobInv, LoopJob
  <2>3. \A s \in Sessions : state'[s].active = state[s].active
    <3>1. [state[me.session] EXCEPT !.attached = TRUE].active = state[me.session].active
      BY <2>1 DEF TypeInv, StoreOK, SessionState
    <3>2. state' \in {state, [state EXCEPT ![me.session].attached = TRUE]}
      BY <1>21 DEF Attach
    <3>3. QED
      BY <2>1, <3>1, <3>2 DEF TypeInv, StoreOK
  <2>4. cancelRequested' \subseteq revoked
    BY <1>21, <2>2 DEF Attach, JobInv, RevokedUsed
  <2>5. UNCHANGED <<revoked, task, evidence, sessionOf>>
    BY <1>21 DEF Attach
  <2>6. /\ me'.pc = "idle" /\ me'.job = NoJob /\ me'.todo = {}
        /\ \A b \in Actors : b # Loop => actor'[b] = actor[b]
    BY <1>16, <1>21 DEF Attach
  <2>7. Owned' /\ RevokedUsed'
    <3>1. \A s \in Sessions : state[s].active \in Jobs => state[s].active \in evidence'
      BY <2>5 DEF JobInv, Owned
    <3>2. QED
      BY <2>3, <2>4, <2>5, <3>1, KeepsOwned
  <2>8. RevokedDisposed'
    <3>1. \A b \in Actors : actor'[b].todo = actor[b].todo
      BY <2>1, <2>6 DEF me
    <3>2. QED
      BY <2>5, <3>1, KeepsDisposed
  <2>9. LoopJob'
    BY <2>6 DEF LoopJob, Section, Cleaning
  <2>10. Tracked'
    <3>1. \A i \in evidence : LoopHolds(i) => task[i] = "queued"
      BY <2>2 DEF LoopHolds
    <3>2. \A i \in evidence : ~AtPersist(i)
      BY <2>1 DEF AtPersist
    <3>3. QED
      BY <2>5, <3>1, <3>2 DEF JobInv, Tracked
  <2>11. QED
    BY <2>7, <2>8, <2>9, <2>10 DEF JobInv
<1>22. ASSUME StartFailed PROVE JobInv'
  <2>1. me.pc = "startFailed" /\ me.todo = {} /\ UNCHANGED <<state, revoked, jobs>>
    BY <1>2, <1>22 DEF StartFailed, At, me, Disposing, store
  <2>2. CASE me.job \in evidence
    <3> DEFINE l == [me EXCEPT !.pc = "failStart", !.dec = "failed"]
    <3>1. l.pc = "failStart" /\ l.job = me.job /\ l.todo = {}
      BY <1>1, <2>1 DEF Local
    <3>2. actor' = [actor EXCEPT ![Loop] = l]
      BY <1>22, <2>2 DEF StartFailed, me
    <3> HIDE DEF l
    <3>3. me' = l /\ \A b \in Actors : b # Loop => actor'[b] = actor[b]
      BY <1>3, <3>2
    <3>4. LoopJob'
      BY <3>1, <3>3 DEF LoopJob, Section, Cleaning
    <3>5. Tracked'
      BY <2>1, <3>1, <3>3, BusyHands DEF HoldsJob, jobs
    <3>6. QED
      BY <2>1, <3>1, <3>3, <3>4, <3>5, LoopMoves DEF jobs
  <2>3. CASE me.job \notin evidence
    <3>1. /\ me'.pc = "idle" /\ me'.job = NoJob /\ me'.todo = {}
          /\ \A b \in Actors : b # Loop => actor'[b] = actor[b]
      BY <1>16, <1>22, <2>3 DEF StartFailed
    <3>2. LoopJob'
      BY <3>1 DEF LoopJob, Section, Cleaning
    <3>3. Tracked'
      BY <2>1, <2>3 DEF JobInv, Tracked, LoopHolds, AtPersist, jobs
    <3>4. QED
      BY <2>1, <3>1, <3>2, <3>3, LoopMoves DEF jobs
  <2>4. QED
    BY <2>2, <2>3
<1>23. ASSUME FailStart PROVE JobInv'
  <2>1. me.pc = "failStart" /\ me.todo = {} /\ UNCHANGED <<state, revoked, jobs>>
    BY <1>2, <1>23 DEF FailStart, At, me, Disposing, store
  <2> DEFINE l == [me EXCEPT !.pc = "cleanup", !.after = "commit", !.session = me.session]
  <2>2. l.pc = "cleanup" /\ l.after = "commit" /\ l.job = me.job /\ l.todo = {}
    BY <1>1, <2>1 DEF Local
  <2>3. actor' = [actor EXCEPT ![Loop] = l]
    BY <1>23 DEF FailStart, CleanThen, me
  <2> HIDE DEF l
  <2>4. me' = l /\ \A b \in Actors : b # Loop => actor'[b] = actor[b]
    BY <1>3, <2>3
  <2>5. LoopJob'
    BY <2>2, <2>4 DEF LoopJob, Section, Cleaning
  <2>6. Tracked'
    BY <2>1, <2>2, <2>4, BusyHands DEF jobs
  <2>7. QED
    BY <2>1, <2>2, <2>4, <2>5, <2>6, LoopMoves DEF jobs
\* The end of a job: its evidence goes with it.
<1>24. ASSUME Release, GoTo(Loop, "idle"), UNCHANGED <<state, revoked>>,
              me.pc \in {"commit", "persist"},
              \A s \in Sessions : state[s].active \in Jobs => state[s].active # me.job
       PROVE  JobInv'
  <2>1. /\ me'.pc = "idle" /\ me'.job = NoJob /\ me'.todo = {} /\ me.todo = {}
        /\ \A b \in Actors : b # Loop => actor'[b] = actor[b]
    BY <1>2, <1>16, <1>24 DEF Disposing
  <2>2. evidence' = evidence \ {me.job} /\ UNCHANGED <<cancelRequested, sessionOf>>
        /\ \A i \in Jobs : i # me.job => task'[i] = task[i]
    BY <1>24 DEF Release
  <2>3. Owned' /\ RevokedUsed'
    <3>1. \A s \in Sessions : state[s].active \in Jobs => state[s].active \in evidence'
      BY <1>24, <2>2 DEF JobInv, Owned
    <3>2. cancelRequested' \subseteq revoked
      BY <2>2 DEF JobInv, RevokedUsed
    <3>3. QED
      BY <1>24, <2>2, <3>1, <3>2, KeepsOwned
  <2>4. RevokedDisposed'
    <3>1. \A b \in Actors : actor'[b].todo = actor[b].todo
      BY <2>1 DEF me
    <3>2. QED
      BY <1>24, <2>2, <3>1, KeepsDisposed
  <2>5. LoopJob'
    BY <2>1 DEF LoopJob, Section, Cleaning
  <2>6. Tracked'
    <3>1. evidence \subseteq Jobs
      BY DEF TypeInv, JobsOK
    <3>2. QED
      BY <1>24, <2>2, <3>1 DEF JobInv, Tracked, LoopHolds, AtPersist
  <2>7. QED
    BY <2>3, <2>4, <2>5, <2>6 DEF JobInv
<1>25. ASSUME Commit PROVE JobInv'
  <2> DEFINE s == me.session
  <2>1. me.pc = "commit" /\ s \in Sessions /\ me.job \in Jobs /\ sessionOf[me.job] = s
        /\ me.todo = {} /\ revoked' = revoked
    BY <1>1, <1>2, <1>25 DEF Commit, At, me, LoopOK, Section, Cleaning, HoldsJob, Disposing
  <2>2. \A t \in Sessions : t # s /\ state[t].active \in Jobs => state[t].active # me.job
    BY <2>1 DEF JobInv, Owned
  <2>3. CASE state[s].status = "pending" /\ state[s].active = me.job
    <3>1. /\ state' = [state EXCEPT ![s] = Terminal(me.dec)]
          /\ GoTo(Loop, "persist") /\ UNCHANGED jobs
      BY <1>25, <2>3 DEF Commit
    <3>2. state'[s].active = NoJob /\ \A t \in Sessions : t # s => state'[t] = state[t]
      BY <2>1, <3>1 DEF Terminal, NoState, TypeInv, StoreOK
    <3>3. /\ me'.pc = "persist" /\ me'.job = me.job /\ me'.todo = {}
          /\ \A b \in Actors : b # Loop => actor'[b] = actor[b]
      BY <1>15, <2>1, <3>1 DEF Label, Cleaning
    <3>4. Owned' /\ RevokedUsed'
      BY <2>1, <3>1, <3>2, ConstantsAssumption DEF JobInv, Owned, RevokedUsed, jobs
    <3>5. RevokedDisposed'
      <4>1. \A b \in Actors : actor'[b].todo = actor[b].todo
        BY <2>1, <3>3 DEF me
      <4>2. QED
        BY <2>1, <3>1, <4>1, KeepsDisposed DEF jobs
    <3>6. LoopJob'
      BY <2>2, <3>2, <3>3, ConstantsAssumption DEF LoopJob, Section, Cleaning
    <3>7. Tracked'
      BY <2>1, <3>1, <3>3, BusyHands DEF jobs
    <3>8. QED
      BY <3>4, <3>5, <3>6, <3>7 DEF JobInv
  <2>4. CASE ~(state[s].status = "pending" /\ state[s].active = me.job)
    <3>1. Release /\ GoTo(Loop, "idle") /\ UNCHANGED <<state, revoked>>
      BY <1>25, <2>4 DEF Commit
    <3>2. state[s].active # me.job
      BY <2>1, <2>4 DEF TypeInv, StoreOK
    <3>3. QED
      BY <1>24, <2>1, <2>2, <3>1, <3>2
  <2>5. QED
    BY <2>3, <2>4
<1>26. ASSUME Persist PROVE JobInv'
  <2>1. me.pc = "persist" /\ Release /\ GoTo(Loop, "idle") /\ UNCHANGED <<state, revoked>>
    BY <1>26 DEF Persist, At, me, store
  <2>2. \A s \in Sessions : state[s].active \in Jobs => state[s].active # me.job
    BY <2>1 DEF JobInv, LoopJob
  <2>3. QED
    BY <1>24, <2>1, <2>2
<1>27. QED
  BY <1>7, <1>8, <1>10, <1>11, <1>12, <1>13, <1>14, <1>18, <1>19, <1>20, <1>21, <1>22,
     <1>23, <1>25, <1>26 DEF CompleteStep

-----------------------------------------------------------------------------
\* The invariant is inductive relative to the types.
LEMMA JobInvStep == TypeInv /\ JobInv /\ [Next]_vars => JobInv'
<1> SUFFICES ASSUME TypeInv, JobInv, [Next]_vars PROVE JobInv'
  OBVIOUS
<1>1. CASE UNCHANGED vars
  BY <1>1, Quiet DEF vars, store
<1>2. CASE Next
  <2>1. ASSUME NEW a \in Pool, PoolStart(a) \/ PoolStep(a) PROVE JobInv'
    BY <2>1, PoolJobs, CleanupJobs DEF PoolStep, Actors
  <2>2. ASSUME (\E s \in Sessions : CompleteStart(s)) \/ CompleteStep PROVE JobInv'
    BY <2>2, CompleteJobs, CleanupJobs DEF Actors
  <2>3. ASSUME KeeperStep PROVE JobInv'
    BY <2>3, KeeperJobs, CleanupJobs DEF Actors
  <2>4. QED
    BY <1>2, <2>1, <2>2, <2>3, TaskJobs, EnvironmentJobs DEF Next
<1>3. QED
  BY <1>1, <1>2

\* A pending state, its job and its evidence never come apart.
LEMMA JobInvariant == Spec => []JobInv
PROOF BY TypeInvariant, JobInvInit, JobInvStep, PTL DEF Spec

\* A session never answers "pending" without a handler or task that will
\* publish its result (complete, _commit_terminal, cancel, cleanup_expired).
THEOREM PendingIsRunnable == Spec => []PendingHasRunnableJob
PROOF BY TypeInvariant, JobInvariant, JobInvPending, PTL

\* No ending of a job leaves its evidence without somebody who disposes of it
\* (CompletionJob.clear_transient).
THEOREM EvidenceHeld == Spec => []EvidenceIsHeld
PROOF BY JobInvariant, JobInvEvidence, PTL

\* Only _commit_terminal publishes while the event loop is at it.
LEMMA OnlyCommitPublishes ==
  ASSUME TypeInv, Next, At(Loop, "commit"), NEW s \in Sessions,
         state[s].decision = "none", state'[s].decision # "none"
  PROVE  Commit
<1>1. NoState.decision = "none" /\ Fresh.decision = "none"
  BY DEF NoState, Fresh
<1>2. ASSUME NEW a \in Actors, NEW local, Sweep(a, local) PROVE FALSE
  BY <1>1, <1>2 DEF Sweep
<1>3. ~UNCHANGED state
  OBVIOUS
<1>4. ASSUME NEW a \in Pool, PoolStart(a) \/ PoolStep(a) PROVE FALSE
  <2>1. a \in Actors
    BY DEF Actors
  <2>2. ASSUME AppendBatch(a) PROVE FALSE
    <3> DEFINE t == actor[a].session
               collecting == IF state[t].status = "absent" THEN Fresh ELSE state[t]
               buffering == [collecting EXCEPT !.buffered = TRUE, !.expired = FALSE]
    <3>1. t = s => collecting.decision = "none" /\ collecting \in SessionState
      BY <1>1, StateTypes DEF TypeInv, StoreOK
    <3>2. t = s => buffering.decision = "none"
      BY <3>1 DEF SessionState
    <3>3. state' \in {state, [state EXCEPT ![t] = collecting],
                      [state EXCEPT ![t] = buffering]}
      BY <2>2 DEF AppendBatch
    <3> HIDE DEF collecting, buffering
    <3>4. QED
      BY <3>1, <3>2, <3>3 DEF TypeInv, StoreOK
  <2>3. ASSUME NEW t \in Sessions, CancelPop(a, t) PROVE FALSE
    BY <1>1, <2>3 DEF CancelPop, TypeInv, StoreOK
  <2>4. QED
    BY <1>2, <1>3, <1>4, <2>1, <2>2, <2>3
       DEF PoolStart, PoolStep, AppendStart, Read, CancelDispose, CancelMark, Cleanup,
           CleanupSweep, CleanupSignal, CleanupOrphan, store
<1>5. ASSUME KeeperStep \/ Cleanup(Loop) PROVE FALSE
  BY <1>2, <1>3, <1>5
     DEF KeeperStep, RuntimeProbe, MarkInflight, OpenIntake, Wake, OrphanRows, Retention,
         Cleanup, CleanupSweep, CleanupSignal, CleanupOrphan, store, Actors
<1>6. ASSUME NEW t \in Sessions, Expire(t) PROVE FALSE
  <2>1. [state[t] EXCEPT !.expired = TRUE].decision = state[t].decision
    BY DEF TypeInv, StoreOK, SessionState
  <2>2. QED
    BY <1>6, <2>1 DEF Expire, TypeInv, StoreOK
<1>7. ASSUME (\E t \in Sessions : CompleteStart(t)) \/ (\E k \in Keys : Age(k)) \/ Crash
      PROVE  FALSE
  BY <1>1, <1>3, <1>7 DEF CompleteStart, Age, Crash, store
<1>8. ASSUME NEW j \in Jobs, TaskStep(j) \/ ModelAnswers(j) PROVE FALSE
  BY <1>8 DEF TaskStep, TaskStart, TaskCancelled, TaskDiscard, ModelAnswers, LoopFree, At
<1>9. ASSUME CompleteStep, ~Cleanup(Loop) PROVE Commit
  BY <1>9 DEF CompleteStep, BeginAgain, BeginRefused, BeginTerminal, BeginJob, BeginRaises, BeginAt, Answer,
     SavePendingRow, ClaimRow, Submit, Attach, StartFailed, FailStart, Persist, At
<1>10. QED
  BY <1>4, <1>5, <1>6, <1>7, <1>8, <1>9 DEF Next

\* The result of a job that DELETE or the TTL took off the store is dropped
\* (_commit_terminal).
THEOREM LateResultsDropped == Spec => RevokedJobNeverPublishes
<1> DEFINE Drops == \A s \in Sessions :
                      /\ At(Loop, "commit")
                      /\ state[s].decision = "none" /\ state'[s].decision # "none"
                      => me.job \notin revoked
<1>1. TypeInv /\ JobInv /\ [Next]_vars => [Drops]_vars
  <2> SUFFICES ASSUME TypeInv, JobInv, Next, NEW s \in Sessions, At(Loop, "commit"),
                      state[s].decision = "none", state'[s].decision # "none"
               PROVE  me.job \notin revoked
    BY DEF vars
  <2>1. Commit /\ state' # state
    BY OnlyCommitPublishes
  <2>2. state[me.session].active = me.job
    BY <2>1 DEF Commit
  <2>3. me.session \in Sessions /\ me.job \in Jobs
    BY DEF TypeInv, ActorsOK, LoopOK, Section, Cleaning, HoldsJob, At, me
  <2>4. QED
    BY <2>2, <2>3 DEF JobInv, Owned
<1>2. QED
  BY <1>1, TypeInvariant, JobInvariant, PTL DEF Spec, RevokedJobNeverPublishes

-----------------------------------------------------------------------------
(* RecommendationJobs implements DecisionContract, and takes jobs in only    *)
(* when the rows of the process's earlier lives are closed.                 *)

Held == {"absent", "collecting"}

\* How one session's state may change.
StateStep(s) ==
  \/ state'[s].status = state[s].status /\ state'[s].decision = state[s].decision
  \/ state'[s].status \in Held
  \/ state[s].status \in Held /\ state'[s].status = "pending"
  \/ /\ state[s].status \in Held \cup {"pending"} /\ state'[s].status = "terminal"
     /\ run' = run

\* cleanup_expired only pops states.
LEMMA SweepStates ==
  ASSUME TypeInv, NEW a, NEW local, Sweep(a, local)
  PROVE  \A s \in Sessions : StateStep(s)
PROOF BY DEF Sweep, StateStep, Held, NoState

\* A step that leaves the store alone.
LEMMA StateSame ==
  ASSUME UNCHANGED state PROVE \A s \in Sessions : StateStep(s)
PROOF BY DEF StateStep

\* The thread-pool handlers buffer, withdraw or leave alone, and never decide
\* (append_batch, cancel).
LEMMA PoolStates ==
  ASSUME TypeInv, NEW a \in Pool, PoolStart(a) \/ AppendBatch(a) \/ CancelDispose(a) \/ CancelMark(a)
  PROVE  \A s \in Sessions : StateStep(s)
<1>1. CASE \E s \in Sessions : AppendStart(a, s)
  BY <1>1, SweepStates DEF AppendStart
<1>2. CASE Read(a)
  BY <1>2, SweepStates DEF Read
<1>3. CASE \E s \in Sessions : CancelPop(a, s)
  BY <1>3 DEF CancelPop, StateStep, Held, NoState, TypeInv, StoreOK
<1>4. CASE AppendBatch(a)
  <2> DEFINE t == actor[a].session
             collecting == IF state[t].status = "absent" THEN Fresh ELSE state[t]
             buffering == [collecting EXCEPT !.buffered = TRUE, !.expired = FALSE]
  <2>1. \/ UNCHANGED state
        \/ /\ collecting.status = "collecting"
           /\ state' \in {[state EXCEPT ![t] = collecting], [state EXCEPT ![t] = buffering]}
    BY <1>4 DEF AppendBatch
  <2>2. t \in Sessions => collecting \in SessionState
    BY StateTypes DEF TypeInv, StoreOK
  <2>3. t \in Sessions => buffering.status = collecting.status
    BY <2>2 DEF SessionState
  <2> HIDE DEF collecting, buffering
  <2>4. QED
    BY <2>1, <2>3 DEF StateStep, Held, TypeInv, StoreOK
<1>5. CASE CancelDispose(a) \/ CancelMark(a)
  BY <1>5, StateSame DEF CancelDispose, CancelMark, store
<1>6. QED
  BY <1>1, <1>2, <1>3, <1>4, <1>5 DEF PoolStart

\* The complete handler never replaces a decision: begin_completion decides a
\* collecting session, _commit_terminal a pending one.
LEMMA LoopStates ==
  ASSUME TypeInv, (\E s \in Sessions : CompleteStart(s)) \/ (CompleteStep /\ ~Cleanup(Loop))
  PROVE  \A s \in Sessions : StateStep(s)
<1>1. ASSUME NEW s \in Sessions, BeginRefused(s) PROVE \A t \in Sessions : StateStep(t)
  BY <1>1 DEF BeginRefused, StateStep, Held, Fresh, NoState, TypeInv, StoreOK
<1>2. ASSUME NEW s \in Sessions, BeginTerminal(s) PROVE \A t \in Sessions : StateStep(t)
  <2>1. PICK d \in Decisions : state' = [state EXCEPT ![s] = Terminal(d)]
    BY <1>2 DEF BeginTerminal, Decisions
  <2>2. Terminal(d).status = "terminal" /\ Terminal(d).decision = d
    BY DEF Terminal, NoState
  <2>3. state'[s] = Terminal(d) /\ \A t \in Sessions : t # s => state'[t] = state[t]
    BY <2>1 DEF TypeInv, StoreOK
  <2>4. state[s].status \in Held /\ run' = run
    BY <1>2 DEF BeginTerminal, Collecting, Held, process
  <2>5. QED
    BY <2>2, <2>3, <2>4 DEF StateStep
<1>3. ASSUME NEW s \in Sessions, BeginJob(s) PROVE \A t \in Sessions : StateStep(t)
  BY <1>3 DEF BeginJob, Collecting, Pending, NoState, StateStep, Held, TypeInv, StoreOK
<1>4. ASSUME NEW s \in Sessions, BeginRaises(s) PROVE \A t \in Sessions : StateStep(t)
  BY <1>4 DEF BeginRaises, Collecting, Pending, NoState, StateStep, Held, TypeInv, StoreOK
<1>5. ASSUME Attach PROVE \A t \in Sessions : StateStep(t)
  <2>1. state' \in {state, [state EXCEPT ![me.session].attached = TRUE]}
    BY <1>5 DEF Attach
  <2>2. me.session \in Sessions =>
          [state[me.session] EXCEPT !.attached = TRUE].status = state[me.session].status
          /\ [state[me.session] EXCEPT !.attached = TRUE].decision = state[me.session].decision
    BY DEF TypeInv, StoreOK, SessionState
  <2>3. QED
    BY <2>1, <2>2 DEF StateStep, TypeInv, StoreOK
<1>6. ASSUME Commit PROVE \A t \in Sessions : StateStep(t)
  <2>1. me.session \in Sessions
    BY <1>6 DEF Commit, At, me, TypeInv, ActorsOK, LoopOK, Section, Cleaning, HoldsJob
  <2>2. CASE state[me.session].status = "pending" /\ state[me.session].active = me.job
    <3>1. /\ state' = [state EXCEPT ![me.session] = Terminal(me.dec)]
          /\ run' = run
      BY <1>6, <2>2 DEF Commit, process
    <3>2. Terminal(me.dec).status = "terminal" /\ Terminal(me.dec).decision = me.dec
      BY DEF Terminal, NoState
    <3>3. state'[me.session] = Terminal(me.dec)
          /\ \A t \in Sessions : t # me.session => state'[t] = state[t]
      BY <2>1, <3>1 DEF TypeInv, StoreOK
    <3>4. QED
      BY <2>2, <3>1, <3>2, <3>3 DEF StateStep
  <2>3. CASE ~(state[me.session].status = "pending" /\ state[me.session].active = me.job)
    BY <1>6, <2>3, StateSame DEF Commit
  <2>4. QED
    BY <2>2, <2>3
<1>7. CASE UNCHANGED state
  BY <1>7, StateSame
<1>8. QED
  BY <1>1, <1>2, <1>3, <1>4, <1>5, <1>6, <1>7
     DEF CompleteStep, CompleteStart, BeginAgain, Answer, SavePendingRow, ClaimRow, Submit,
         StartFailed, FailStart, Persist, store

\* Whatever the step, a state changes as StateStep allows
\* (V2RecommendationStore._states).
LEMMA StateSteps ==
  ASSUME TypeInv, Next
  PROVE  \A s \in Sessions : StateStep(s)
<1>1. ASSUME NEW a \in Actors, Cleanup(a) PROVE \A s \in Sessions : StateStep(s)
  BY <1>1, SweepStates, StateSame
     DEF Cleanup, CleanupSweep, CleanupSignal, CleanupOrphan, store
<1>2. ASSUME KeeperStep, ~Cleanup(Keeper) PROVE \A s \in Sessions : StateStep(s)
  BY <1>2, StateSame
     DEF KeeperStep, RuntimeProbe, MarkInflight, OpenIntake, Wake, OrphanRows, Retention, store
<1>3. ASSUME NEW j \in Jobs, TaskStep(j) \/ ModelAnswers(j)
      PROVE  \A s \in Sessions : StateStep(s)
  BY <1>3, SweepStates, StateSame
     DEF TaskStep, TaskStart, TaskCancelled, TaskDiscard, ModelAnswers, store
<1>4. ASSUME NEW s \in Sessions, Expire(s) PROVE \A t \in Sessions : StateStep(t)
  <2>1. /\ [state[s] EXCEPT !.expired = TRUE].status = state[s].status
        /\ [state[s] EXCEPT !.expired = TRUE].decision = state[s].decision
    BY DEF TypeInv, StoreOK, SessionState
  <2>2. QED
    BY <1>4, <2>1 DEF Expire, StateStep, TypeInv, StoreOK
<1>5. ASSUME (\E k \in Keys : Age(k)) \/ Crash PROVE \A s \in Sessions : StateStep(s)
  BY <1>5, StateSame DEF Age, Crash, StateStep, Held, NoState, store
<1>6. QED
  BY <1>1, <1>2, <1>3, <1>4, <1>5, PoolStates, LoopStates
     DEF Next, PoolStep, Actors

-----------------------------------------------------------------------------
(* Where the event loop and the maintenance loop are.                       *)

\* A move names the section it leads to, directly or after a cleanup.
LEMMA SectionMoves ==
  ASSUME NEW l \in Local, NEW label \in Label \ Cleaning, NEW s
  PROVE  /\ Section(To(l, label)) = label
         /\ Section([l EXCEPT !.pc = "cleanup", !.after = label, !.session = s]) = label
PROOF BY DEF Section, To, Idle, Local, Cleaning

\* cleanup_expired returns to the handler that called it: its section and its
\* locals are the ones it had, unless the handler is over.
LEMMA CleanupReturns ==
  ASSUME TypeInv, NEW a \in Actors, Cleanup(a)
  PROVE  /\ run' = run
         /\ \A b \in Actors : b # a => actor'[b] = actor[b]
         /\ Section(actor'[a]) = Section(actor[a])
         /\ \/ Section(actor'[a]) = "idle"
            \/ actor'[a].dec = actor[a].dec /\ actor'[a].session = actor[a].session
<1> DEFINE l == actor[a]
<1>1. l \in Local /\ actor \in [Actors -> Local]
  BY DEF TypeInv, ActorsOK
<1>2. l.pc \in Cleaning /\ Section(l) = l.after /\ l.after \in Label \ Cleaning
  BY <1>1 DEF Cleanup, CleanupSweep, CleanupSignal, CleanupOrphan, At, Section, Cleaning, Local
<1> DEFINE Back(m) == /\ Section(m) = l.after
                      /\ l.after = "idle" \/ (m.dec = l.dec /\ m.session = l.session)
<1>3. \A todo : \A next \in {l.after, "signal", "orphans"} :
        Back(To([l EXCEPT !.todo = todo], next))
  BY <1>1, <1>2 DEF Section, To, Idle, Local, Cleaning
<1>4. [l EXCEPT !.todo = l.todo] = l
      /\ \A todo : [l EXCEPT !.pc = "signal", !.todo = todo]
                    = To([l EXCEPT !.todo = todo], "signal")
  BY <1>1 DEF To, Local
<1>5. \E m : actor' = [actor EXCEPT ![a] = m] /\ Back(m)
  <2> HIDE DEF Back
  <2>1. CASE CleanupSweep(a)
    <3> DEFINE orphans == {EntryOf(s) : s \in {t \in Expired : state[t].status = "pending"}}
    <3>1. \/ actor' = [actor EXCEPT ![a] = To(l, l.after)]
          \/ actor' = [actor EXCEPT ![a] = [l EXCEPT !.pc = "signal", !.todo = orphans]]
      BY <2>1 DEF CleanupSweep, Sweep
    <3> HIDE DEF orphans
    <3>2. /\ Back(To([l EXCEPT !.todo = l.todo], l.after))
          /\ Back(To([l EXCEPT !.todo = orphans], "signal"))
      BY <1>3
    <3>3. Back(To(l, l.after)) /\ Back([l EXCEPT !.pc = "signal", !.todo = orphans])
      BY <1>4, <3>2, Zenon
    <3>4. QED
      BY <3>1, <3>3
  <2>2. CASE CleanupSignal(a)
    <3>1. actor' = [actor EXCEPT ![a] = To(l, "orphans")]
      BY <2>2 DEF CleanupSignal, GoTo
    <3>2. QED
      BY <1>3, <1>4, <3>1
  <2>3. CASE CleanupOrphan(a)
    <3>1. \E todo : \E next \in {l.after, "orphans"} :
            actor' = [actor EXCEPT ![a] = To([l EXCEPT !.todo = todo], next)]
      BY <2>3 DEF CleanupOrphan
    <3>2. QED
      BY <1>3, <3>1
  <2>4. QED
    BY <2>1, <2>2, <2>3 DEF Cleanup
<1>6. Back(actor'[a]) /\ \A b \in Actors : b # a => actor'[b] = actor[b]
  <2> HIDE DEF Back
  <2>1. QED
    BY <1>1, <1>5
<1>7. run' = run
  BY DEF Cleanup, CleanupSweep, CleanupSignal, CleanupOrphan, process
<1>8. QED
  BY <1>2, <1>6, <1>7

\* Only a crash begins another life of the process.
LEMMA RunChanges == Next => run' = run \/ Crash
<1> SUFFICES ASSUME Next, ~Crash PROVE run' = run
  OBVIOUS
<1>1. ASSUME NEW a, PoolStart(a) \/ PoolStep(a) \/ Cleanup(a) PROVE run' = run
  BY <1>1 DEF PoolStart, PoolStep, AppendStart, CancelPop, Read, AppendBatch, CancelDispose,
              CancelMark, Cleanup, CleanupSweep, CleanupSignal, CleanupOrphan, process
<1>2. ASSUME (\E s \in Sessions : CompleteStart(s) \/ Expire(s)) \/ CompleteStep PROVE run' = run
  BY <1>1, <1>2
     DEF CompleteStart, Expire, CompleteStep, BeginAgain, BeginRefused, BeginTerminal, BeginJob, BeginRaises,
         Answer, SavePendingRow, ClaimRow, Submit, Attach, StartFailed, FailStart, Commit,
         Persist, process
<1>3. ASSUME NEW j, TaskStep(j) \/ ModelAnswers(j) PROVE run' = run
  BY <1>3 DEF TaskStep, TaskStart, TaskCancelled, TaskDiscard, ModelAnswers, process
<1>4. ASSUME KeeperStep PROVE run' = run
  BY <1>1, <1>4 DEF KeeperStep, RuntimeProbe, MarkInflight, Initialize, OpenIntake, Wake,
                    OrphanRows, Retention, process
<1>5. QED
  BY <1>1, <1>2, <1>3, <1>4 DEF Next, Age, process

-----------------------------------------------------------------------------
(* How rows change.                                                         *)

\* What a step may do to one row.
RowStep(k) ==
  \/ rows'[k].status = rows[k].status
  \/ /\ rows[k].status = "absent" /\ rows'[k].status = "pending"
     /\ \A o \in Keys : o[2] = k[2] => rows[o].status \notin InFlight
     /\ k[1] = run /\ Section(me) = "savePending"
  \/ rows[k].status = "pending" /\ rows'[k].status = "running"
  \/ rows[k].status \in InFlight /\ rows'[k].status \in {"failed", "cancelled"}
  \/ /\ rows[k].status \in {"absent"} \cup InFlight /\ rows'[k].status = me.dec
     /\ k = Key(me.session) /\ Section(me) = "persist" /\ me.dec \in Decisions
  \/ rows[k].status \in Settled /\ rows'[k].status = "absent"

\* A call whose statement closes rows changes each row as RowStep allows.
LEMMA CloseRows ==
  ASSUME DbOK, NEW new, Closes(Keys, rows, new), NEW o, Call(new, o)
  PROVE  \A k \in Keys : RowStep(k)
<1>1. rows' = rows \/ rows' = new
  BY CallTypes DEF Closes
<1>2. QED
  BY <1>1 DEF Closes, RowStep

\* Every statement the program issues changes each row as RowStep allows; a
\* decision is written only where save_decision is called.
LEMMA RowSteps ==
  ASSUME TypeInv, Next
  PROVE  \A k \in Keys : RowStep(k)
<1> DEFINE goal == \A k \in Keys : RowStep(k)
<1>1. DbOK /\ rows \in [Keys -> Row] /\ {"orphan_cleanup", "job_start_failed"} \subseteq Reason
  BY DEF TypeInv, DbOK, Reason
<1>2. CASE rows' = rows
  BY <1>2 DEF RowStep
<1>3. ASSUME NEW o, Probe(o) PROVE goal
  BY <1>1, <1>2, <1>3, ProbeTypes
<1>4. ASSUME NEW a, Cleanup(a) PROVE goal
  <2>1. CASE CleanupSweep(a) \/ CleanupSignal(a)
    BY <1>2, <2>1 DEF CleanupSweep, CleanupSignal, db
  <2>2. CASE CleanupOrphan(a)
    BY <1>1, <2>2, CloseRows, ClosingStatements DEF CleanupOrphan
  <2>3. QED
    BY <1>4, <2>1, <2>2 DEF Cleanup
<1>5. ASSUME NEW a, PoolStart(a) \/ PoolStep(a) PROVE goal
  <2>1. CASE CancelMark(a)
    BY <1>1, <2>1, CloseRows, ClosingStatements DEF CancelMark
  <2>2. CASE ~CancelMark(a)
    BY <1>2, <1>4, <1>5, <2>2
       DEF PoolStart, PoolStep, AppendStart, CancelPop, Read, AppendBatch, CancelDispose, db
  <2>3. QED
    BY <2>1, <2>2
<1>6. ASSUME Section(me) \in HoldsJob \cup {"begin", "answer", "persist"}
      PROVE  Key(me.session) \in Keys
  BY <1>6 DEF TypeInv, ProcessOK, ActorsOK, LoopOK, me, Key, Keys
<1>7. CASE SavePendingRow
  <2> DEFINE k == Key(me.session)
  <2>1. PICK o : Call(SavePending(rows, k), o)
    BY <1>7 DEF SavePendingRow
  <2>2. Section(me) = "savePending" /\ k \in Keys /\ k[1] = run
    BY <1>6, <1>7 DEF SavePendingRow, At, me, Section, Cleaning, HoldsJob, Key
  <2> HIDE DEF k
  <2>3. rows' = rows \/ rows' = SavePending(rows, k)
    BY <1>1, <2>1, <2>2, SavePendingRows, CallTypes
  <2>4. QED
    BY <1>1, <2>2, <2>3, SavePendingRows DEF RowStep
<1>8. CASE ClaimRow
  <2> DEFINE k == Key(me.session)
  <2>1. PICK o : Call(Claim(rows, k), o)
    BY <1>8 DEF ClaimRow
  <2>2. k \in Keys
    BY <1>6, <1>8 DEF ClaimRow, At, me, Section, Cleaning, HoldsJob
  <2> HIDE DEF k
  <2>3. rows' = rows \/ rows' = Claim(rows, k)
    BY <1>1, <2>1, <2>2, ClaimRows, CallTypes
  <2>4. QED
    BY <1>1, <2>2, <2>3, ClaimRows DEF RowStep
<1>9. CASE FailStart
  BY <1>1, <1>9, CloseRows, ClosingStatements DEF FailStart
<1>10. CASE Persist
  <2> DEFINE k == Key(me.session)
             d == me.dec
  <2>1. PICK o : Call(SaveDecision(rows, k, d), o)
    BY <1>10 DEF Persist
  <2>2. Section(me) = "persist" /\ k \in Keys
    BY <1>6, <1>10 DEF Persist, At, me, Section, Cleaning
  <2>3. d \in Decisions
    BY <2>2 DEF TypeInv, ActorsOK, LoopOK, me
  <2>4. k = Key(me.session) /\ d = me.dec
    OBVIOUS
  <2> HIDE DEF k, d
  <2>5. rows' = rows \/ rows' = SaveDecision(rows, k, d)
    BY <1>1, <2>1, <2>2, <2>3, SaveDecisionRows, CallTypes
  <2>6. QED
    BY <1>1, <2>2, <2>3, <2>4, <2>5, SaveDecisionRows DEF RowStep
<1>11. CASE (\E s \in Sessions : CompleteStart(s)) \/
            (CompleteStep /\ ~SavePendingRow /\ ~ClaimRow /\ ~FailStart /\ ~Persist)
  BY <1>2, <1>3, <1>4, <1>11
     DEF CompleteStart, CompleteStep, BeginAgain, BeginRefused, BeginTerminal, BeginJob, BeginRaises,
         Answer, Submit, Attach, StartFailed, Commit, db
<1>12. CASE \E j \in Jobs : TaskStep(j) \/ ModelAnswers(j)
  BY <1>2, <1>12 DEF TaskStep, TaskStart, TaskCancelled, TaskDiscard, ModelAnswers, db
<1>13. CASE MarkInflight
  BY <1>1, <1>13, CloseRows, ClosingStatements DEF MarkInflight
<1>14. CASE OrphanRows
  BY <1>1, <1>14, CloseRows, ClosingStatements DEF OrphanRows
<1>15. CASE Retention
  <2>1. rows' = rows \/ rows' = CleanupRetention(rows)
    BY <1>1, <1>15, RetentionRows, CallTypes DEF Retention
  <2>2. QED
    BY <1>1, <2>1, RetentionRows DEF RowStep
<1>16. CASE KeeperStep /\ ~MarkInflight /\ ~OrphanRows /\ ~Retention
  BY <1>3, <1>4, <1>16 DEF KeeperStep, RuntimeProbe, OpenIntake, Wake
<1>17. CASE \E k \in Keys : Age(k)
  <2>1. PICK k \in Keys : rows' = [rows EXCEPT ![k].old = TRUE]
    BY <1>17 DEF Age
  <2>2. [rows[k] EXCEPT !.old = TRUE].status = rows[k].status
    BY <1>1 DEF Row
  <2>3. QED
    BY <1>1, <2>1, <2>2 DEF RowStep
<1>18. CASE (\E s \in Sessions : Expire(s)) \/ Crash
  BY <1>2, <1>18 DEF Expire, Crash, db
<1>19. QED
  BY <1>5, <1>7, <1>8, <1>9, <1>10, <1>11, <1>12, <1>13, <1>14, <1>15, <1>16, <1>17, <1>18
     DEF Next

-----------------------------------------------------------------------------
(* The gate on new jobs.                                                    *)

\* The rows of earlier lives of the process are closed.
Closed == \A k \in Keys : k[1] < run => rows[k].status \notin InFlight

\* Past the readiness check, and until the job's row is written.
Admitted == Section(me) \in {"begin", "savePending"}

Opening == Section(actor[Keeper]) = "open"

Gate ==
  /\ intake \/ Opening \/ Admitted => Closed
  /\ ~Durable => \A k \in Keys : rows[k].status = "absent"

\* Rows of earlier lives stay closed: a job's row carries the present run
\* (_run_scope in the decision_request_id).
LEMMA ClosedStays ==
  ASSUME TypeInv, Next, Closed, run' = run
  PROVE  Closed'
<1>1. ASSUME NEW k \in Keys, k[1] < run PROVE rows'[k].status \notin InFlight
  <2>1. RowStep(k) /\ rows[k].status \notin InFlight /\ run \in Nat /\ k[1] \in Nat
    BY <1>1, RowSteps DEF Closed, TypeInv, ProcessOK, Runs, Keys
  <2>2. k[1] # run
    BY <1>1, <2>1
  <2>3. QED
    BY <2>1, <2>2 DEF RowStep, InFlight, Decisions
<1>2. QED
  BY <1>1 DEF Closed

\* Nothing gets past the gate without the readiness check, and start-up opens
\* it only after closing what was in flight (initialize_runtime).
LEMMA GateMoves ==
  ASSUME TypeInv, Next, intake' \/ Opening' \/ Admitted', ~Crash
  PROVE  \/ intake \/ Opening \/ Admitted \/ ~Durable
         \/ rows' = MarkInflightFailed(rows)
<1> SUFFICES ASSUME ~intake, ~Opening, ~Admitted, Durable,
                    rows' # MarkInflightFailed(rows)
             PROVE  ~intake' /\ Section(actor'[Keeper]) # "open"
                    /\ Section(actor'[Loop]) \notin {"begin", "savePending"}
  BY DEF Opening, Admitted, me
<1>1. /\ Loop \in Actors /\ Keeper \in Actors /\ Loop # Keeper
      /\ actor \in [Actors -> Local] /\ me = actor[Loop]
      /\ Pool \subseteq Actors /\ Loop \notin Pool /\ Keeper \notin Pool
  BY ConstantsAssumption DEF TypeInv, ActorsOK, Actors, me
<1> DEFINE goal == ~intake' /\ Section(actor'[Keeper]) # "open"
                   /\ Section(actor'[Loop]) \notin {"begin", "savePending"}
           loopStays == intake' = intake /\ actor'[Keeper] = actor[Keeper]
           keeperStays == actor'[Loop] = actor[Loop]
<1>2. ASSUME UNCHANGED <<intake, actor>> PROVE goal
  BY <1>1, <1>2 DEF Opening, Admitted, me
<1>3. ASSUME NEW a \in Actors, Cleanup(a) PROVE goal
  <2>1. intake' = intake
    BY <1>3 DEF Cleanup, CleanupSweep, CleanupSignal, CleanupOrphan, process
  <2>2. \A b \in Actors : Section(actor'[b]) = Section(actor[b])
    BY <1>3, CleanupReturns
  <2>3. QED
    BY <1>1, <2>1, <2>2 DEF Opening, Admitted, me
<1>4. ASSUME NEW a \in Pool, PoolStart(a) \/ PoolStep(a), ~Cleanup(a) PROVE goal
  <2>1. a # Loop /\ a # Keeper
    BY <1>1
  <2>2. intake' = intake /\ \E l : actor' = [actor EXCEPT ![a] = l]
    BY <1>4
       DEF PoolStart, PoolStep, AppendStart, CancelPop, Read, AppendBatch, CancelDispose,
           CancelMark, Sweep, GoTo, process
  <2>3. actor'[Loop] = actor[Loop] /\ actor'[Keeper] = actor[Keeper]
    BY <1>1, <2>1, <2>2
  <2>4. QED
    BY <2>2, <2>3 DEF Opening, Admitted, me
<1>5. ASSUME NEW a \in Actors, NEW label \in Label \ Cleaning, NEW s,
             GoTo(a, label) \/ CleanThen(a, s, label)
      PROVE  Section(actor'[a]) = label /\ \A b \in Actors : b # a => actor'[b] = actor[b]
  <2>1. actor[a] \in Local
    BY <1>1
  <2>2. /\ Section(To(actor[a], label)) = label
        /\ Section([actor[a] EXCEPT !.pc = "cleanup", !.after = label, !.session = s]) = label
    BY <2>1, SectionMoves
  <2>3. \/ actor' = [actor EXCEPT ![a] = To(actor[a], label)]
        \/ actor' = [actor EXCEPT ![a] = [actor[a] EXCEPT !.pc = "cleanup", !.after = label,
                                                          !.session = s]]
    BY <1>5 DEF GoTo, CleanThen
  <2>4. QED
    BY <1>1, <2>2, <2>3
<1>6. ASSUME intake' = intake,
             NEW label \in {"idle", "answer", "persist", "commit", "claim", "submit",
                            "attach", "startFailed"},
             NEW s, GoTo(Loop, label) \/ CleanThen(Loop, s, label)
      PROVE  goal
  <2>1. label \in Label \ Cleaning
    BY DEF Label, Cleaning
  <2>2. Section(actor'[Loop]) = label /\ actor'[Keeper] = actor[Keeper]
    BY <1>1, <1>5, <1>6, <2>1
  <2>3. QED
    BY <1>6, <2>2 DEF Opening
<1>7. ASSUME NEW s \in Sessions, CompleteStart(s) PROVE goal
  BY <1>2, <1>7 DEF CompleteStart, process
<1>8. ASSUME CompleteStep, ~Cleanup(Loop) PROVE goal
  <2>1. intake' = intake
    BY <1>8
       DEF CompleteStep, BeginAgain, BeginRefused, BeginTerminal, BeginJob, BeginRaises, Answer,
           SavePendingRow, ClaimRow, Submit, Attach, StartFailed, FailStart, Commit,
           Persist, process
  <2>2. ~\E s \in Sessions : BeginAt(s)
    BY <1>1 DEF BeginAt, At, Admitted, Section, Cleaning
  <2>3. ASSUME NEW d, \/ actor' = [actor EXCEPT ![Loop] = [@ EXCEPT !.pc = "failStart", !.dec = d]]
                      \/ actor' = [actor EXCEPT ![Loop] = [@ EXCEPT !.pc = "persist", !.dec = d]]
        PROVE  goal
    <3>1. actor[Loop] \in Local
      BY <1>1
    <3>2. /\ [actor[Loop] EXCEPT !.pc = "failStart", !.dec = d].pc = "failStart"
          /\ [actor[Loop] EXCEPT !.pc = "persist", !.dec = d].pc = "persist"
      BY <3>1 DEF Local
    <3>3. actor'[Keeper] = actor[Keeper] /\ actor'[Loop].pc \in {"failStart", "persist"}
      BY <1>1, <2>3, <3>2
    <3>4. QED
      BY <2>1, <3>3 DEF Opening, Section, Cleaning
  <2>4. CASE Answer
    BY <1>6, <2>1, <2>3, <2>4 DEF Answer
  <2>5. CASE SavePendingRow \/ ClaimRow
    BY <1>6, <2>1, <2>5 DEF SavePendingRow, ClaimRow, Started
  <2>6. CASE Submit
    BY <1>6, <2>1, <2>6 DEF Submit, Started
  <2>7. CASE Attach
    BY <1>6, <2>1, <2>7 DEF Attach
  <2>8. CASE StartFailed
    BY <1>6, <2>1, <2>3, <2>8 DEF StartFailed
  <2>9. CASE FailStart
    BY <1>6, <2>1, <2>9 DEF FailStart
  <2>10. CASE Commit
    BY <1>6, <2>1, <2>10 DEF Commit
  <2>11. CASE Persist
    BY <1>6, <2>1, <2>11 DEF Persist
  <2>12. QED
    BY <1>8, <2>2, <2>4, <2>5, <2>6, <2>7, <2>8, <2>9, <2>10, <2>11
       DEF CompleteStep, BeginAgain, BeginRefused, BeginTerminal, BeginJob, BeginRaises
<1>9. ASSUME NEW j \in Jobs, TaskStep(j) PROVE goal
  BY <1>2, <1>9 DEF TaskStep, TaskStart, TaskCancelled, TaskDiscard, process
<1>10. ASSUME NEW j \in Jobs, ModelAnswers(j) PROVE goal
  <2>1. PICK l \in {[Idle EXCEPT !.session = sessionOf[j], !.job = j, !.dec = d,
                                 !.after = "commit"] : d \in {"completed", "failed"}} :
          Sweep(Loop, l)
    BY <1>10 DEF ModelAnswers
  <2>2. \A todo : /\ Section(To(l, "commit")) = "commit"
                  /\ Section([l EXCEPT !.pc = "signal", !.todo = todo]) = "commit"
    BY DEF Section, To, Idle, Cleaning
  <2>3. l.after = "commit"
    BY DEF Idle
  <2>4. Section(actor'[Loop]) = "commit" /\ actor'[Keeper] = actor[Keeper]
    BY <1>1, <2>1, <2>2, <2>3 DEF Sweep
  <2>5. QED
    BY <1>10, <2>4 DEF ModelAnswers, process, Opening
<1>11. ASSUME KeeperStep, ~Cleanup(Keeper) PROVE goal
  <2>1. ASSUME NEW label \in {"idle", "probe", "markInflight", "orphanRows", "retention"},
               NEW s, GoTo(Keeper, label) \/ CleanThen(Keeper, s, label), ~intake'
        PROVE  goal
    <3>1. label \in Label \ Cleaning
      BY DEF Label, Cleaning
    <3>2. Section(actor'[Keeper]) = label /\ actor'[Loop] = actor[Loop]
      BY <1>1, <1>5, <2>1, <3>1
    <3>3. QED
      BY <2>1, <3>2 DEF Admitted, me
  <2>2. CASE RuntimeProbe
    BY <2>1, <2>2 DEF RuntimeProbe, Initialize, process
  <2>3. CASE MarkInflight
    <3>1. PICK o \in Outcomes : Call(MarkInflightFailed(rows), o) /\ Initialize(o, "open")
      BY <2>3 DEF MarkInflight
    <3>2. o # "ok"
      BY <3>1 DEF Call
    <3>3. QED
      BY <2>1, <3>1, <3>2 DEF Initialize
  <2>4. ~OpenIntake
    BY <1>1 DEF OpenIntake, At, Opening, Section, Cleaning
  <2>5. CASE Wake
    BY <2>1, <2>5 DEF Wake, process
  <2>6. CASE OrphanRows
    BY <2>1, <2>6 DEF OrphanRows, process
  <2>7. CASE Retention
    BY <2>1, <2>7 DEF Retention, process
  <2>8. QED
    BY <1>11, <2>2, <2>3, <2>4, <2>5, <2>6, <2>7 DEF KeeperStep
<1>12. ASSUME (\E s \in Sessions : Expire(s)) \/ (\E k \in Keys : Age(k)) PROVE goal
  BY <1>2, <1>12 DEF Expire, Age, process
<1>13. QED
  BY <1>1, <1>3, <1>4, <1>7, <1>8, <1>9, <1>10, <1>11, <1>12 DEF Next, PoolStep

\* No row of an earlier life is in flight once jobs are taken in, or between
\* the readiness check and the row of a new job.
LEMMA GateInvariant == Spec => []Gate
<1>1. Init => Gate
  <2>1. SUFFICES ASSUME Init PROVE Gate
    OBVIOUS
  <2>2. run \in Runs /\ \A k \in Keys : rows[k].status = "absent"
    BY <2>1, ConstantsAssumption DEF Init, Runs, NoRow
  <2>3. QED
    BY <2>2 DEF Gate, Closed, InFlight
<1>2. TypeInv /\ Gate /\ Next => Gate'
  <2>1. SUFFICES ASSUME TypeInv, Gate, Next PROVE Gate'
    OBVIOUS
  <2>2. ASSUME ~Durable PROVE \A k \in Keys : rows'[k].status = "absent"
    <3>1. \A k \in Keys : rows[k].status = "absent"
      BY <2>1, <2>2 DEF Gate
    <3>2. \A new, o : Call(new, o) => rows' = rows
      BY <2>2 DEF Call, db
    <3>3. ASSUME NEW a, Cleanup(a) PROVE rows' = rows
      BY <3>2, <3>3 DEF Cleanup, CleanupSweep, CleanupSignal, CleanupOrphan, db
    <3>4. ASSUME NEW a, PoolStart(a) \/ PoolStep(a) PROVE rows' = rows
      BY <3>2, <3>3, <3>4
         DEF PoolStart, PoolStep, AppendStart, CancelPop, Read, AppendBatch, CancelDispose,
             CancelMark, db
    <3>5. ASSUME (\E s \in Sessions : CompleteStart(s) \/ Expire(s)) \/ CompleteStep
          PROVE  rows' = rows
      BY <3>2, <3>3, <3>5
         DEF CompleteStart, Probe, Expire, CompleteStep, BeginAgain, BeginRefused,
             BeginTerminal, BeginJob, BeginRaises, Answer, SavePendingRow, ClaimRow, Submit, Attach,
             StartFailed, FailStart, Commit, Persist, db
    <3>6. ASSUME NEW j, TaskStep(j) \/ ModelAnswers(j) PROVE rows' = rows
      BY <3>6 DEF TaskStep, TaskStart, TaskCancelled, TaskDiscard, ModelAnswers, db
    <3>7. ASSUME KeeperStep PROVE rows' = rows
      BY <3>2, <3>3, <3>7
         DEF KeeperStep, RuntimeProbe, MarkInflight, OpenIntake, Wake, OrphanRows,
             Retention, Probe
    <3>8. \A k \in Keys : ~Age(k)
      BY <3>1 DEF Age
    <3>9. rows' = rows
      BY <2>1, <3>4, <3>5, <3>6, <3>7, <3>8 DEF Next, Crash, db
    <3>10. QED
      BY <3>1, <3>9
  <2>3. ASSUME intake' \/ Opening' \/ Admitted' PROVE Closed'
    <3>1. CASE Crash
      <4>1. AtStart[Loop] = Idle /\ AtStart[Keeper].pc \in {"idle", "probe"}
        BY ConstantsAssumption DEF AtStart, Actors, Idle
      <4>2. ~intake' /\ ~Opening' /\ ~Admitted'
        BY <3>1, <4>1 DEF Crash, Opening, Admitted, me, Section, Idle, Cleaning
      <4>3. QED
        BY <2>3, <4>2
    <3>2. CASE ~Crash
      <4>1. run' = run
        BY <2>1, <3>2, RunChanges
      <4>2. CASE rows' = MarkInflightFailed(rows)
        <5>1. rows \in [Keys -> Row]
          BY <2>1 DEF TypeInv, DbOK
        <5>2. QED
          BY <4>2, <5>1, StartupClosesAll DEF Closed
      <4>3. CASE intake \/ Opening \/ Admitted
        BY <2>1, <4>1, <4>3, ClosedStays DEF Gate
      <4>4. CASE ~Durable
        BY <2>2, <4>4 DEF Closed, InFlight
      <4>5. QED
        BY <2>1, <2>3, <3>2, <4>2, <4>3, <4>4, GateMoves
    <3>3. QED
      BY <3>1, <3>2
  <2>4. QED
    BY <2>2, <2>3 DEF Gate
<1>3. Gate /\ UNCHANGED vars => Gate'
  BY DEF Gate, Closed, Opening, Admitted, Section, me, vars, process, db
<1>4. QED
  BY <1>1, <1>2, <1>3, TypeInvariant, PTL DEF Spec

\* Jobs are taken in only when no row of an earlier life is in flight, so a new
\* job never trips over the index on active rows (_startup_cleanup_complete).
THEOREM EarlierRowsClosed == Spec => []EarlierRunsAreClosed
<1>1. Gate => EarlierRunsAreClosed
  BY DEF Gate, Closed, Admitted, EarlierRunsAreClosed, At, me, Section, Cleaning
<1>2. QED
  BY <1>1, GateInvariant, PTL

-----------------------------------------------------------------------------
(* The refinement.                                                          *)

\* save_decision goes on with the decision it had.
Stays ==
  /\ Section(me) = "persist" /\ run' = run
  /\ me'.dec = me.dec /\ me'.session = me.session

\* save_decision is reached with the decision the state holds.
Found ==
  /\ me'.session \in Sessions /\ me'.dec \in Decisions /\ run' = run
  /\ state'[me'.session].decision = me'.dec

\* The handler reaches save_decision with what get_recommendation or
\* _commit_terminal has just found in the state, and with nothing else.
LEMMA PersistStep ==
  ASSUME TypeInv, Next, Section(me') = "persist"
  PROVE  Stays \/ Found
<1> DEFINE goal == Stays \/ Found
<1>1. me \in Local /\ me = actor[Loop] /\ Loop \in Actors /\ actor \in [Actors -> Local]
      /\ me' = actor'[Loop]
  BY DEF TypeInv, ActorsOK, Actors, me
<1>2. \A s \in Sessions : state[s].status = "terminal" => state[s].decision \in Decisions
  BY DEF TypeInv, StoreOK
<1>3. ASSUME Section(me) = "persist", run' = run, me'.dec = me.dec, me'.session = me.session
      PROVE  goal
  BY <1>3 DEF Stays
<1>4. CASE UNCHANGED <<me, run>>
  BY <1>3, <1>4 DEF Section
<1>5. ASSUME NEW a \in Actors, Cleanup(a) PROVE goal
  BY <1>1, <1>3, <1>5, CleanupReturns DEF Section
<1>6. ASSUME NEW a \in Pool, PoolStart(a) \/ PoolStep(a) PROVE goal
  <2>1. a # Loop /\ a \in Actors
    BY ConstantsAssumption DEF Actors
  <2>2. CASE Cleanup(a)
    BY <1>5, <2>1, <2>2
  <2>3. CASE ~Cleanup(a)
    <3>1. me' = me /\ run' = run
      BY <1>1, <1>6, <2>1, <2>3
         DEF PoolStart, PoolStep, AppendStart, CancelPop, Read, AppendBatch, CancelDispose,
             CancelMark, Sweep, GoTo, process
    <3>2. QED
      BY <1>4, <3>1
  <2>4. QED
    BY <2>2, <2>3
<1>7. ASSUME NEW label \in Label \ Cleaning, NEW s, GoTo(Loop, label) \/ CleanThen(Loop, s, label)
      PROVE  Section(me') = label
  <2>1. me' = To(me, label)
        \/ me' = [me EXCEPT !.pc = "cleanup", !.after = label, !.session = s]
    BY <1>1, <1>7 DEF GoTo, CleanThen
  <2>2. me \in Local /\ label \in Label \ Cleaning
    BY <1>1, <1>7
  <2>3. /\ Section(To(me, label)) = label
        /\ Section([me EXCEPT !.pc = "cleanup", !.after = label, !.session = s]) = label
    BY <2>2, SectionMoves, ZenonT(40)
  <2>4. QED
    BY <2>1, <2>3, Zenon
<1>8. CASE Answer
  <2> DEFINE held == state[me.session]
  <2>1. At(Loop, "answer") /\ UNCHANGED <<run, state>>
    BY <1>8 DEF Answer, store, process
  <2>2. held.status = "terminal"
    <3>1. SUFFICES ASSUME held.status # "terminal" PROVE Section(me') = "idle"
      OBVIOUS
    <3>2. QED
      BY <1>7, <1>8, <3>1 DEF Answer, Label, Cleaning
  <2>3. me' = [me EXCEPT !.pc = "persist", !.dec = held.decision]
    BY <1>1, <1>8, <2>2 DEF Answer
  <2>4. me'.dec = held.decision /\ me'.session = me.session
    BY <1>1, <2>3 DEF Local
  <2>5. me.session \in Sessions
    BY <2>1 DEF At, me, TypeInv, ActorsOK, LoopOK, Section, Cleaning
  <2>6. QED
    BY <1>2, <2>1, <2>2, <2>4, <2>5 DEF Found
<1>9. CASE Commit
  <2>1. me.session \in Sessions /\ me.dec \in Decisions /\ run' = run
    BY <1>9 DEF Commit, At, me, TypeInv, ActorsOK, LoopOK, Section, Cleaning, HoldsJob, process
  <2>2. CASE state[me.session].status = "pending" /\ state[me.session].active = me.job
    <3>1. /\ state' = [state EXCEPT ![me.session] = Terminal(me.dec)]
          /\ me' = To(me, "persist")
      BY <1>1, <1>9, <2>2 DEF Commit, GoTo
    <3>2. me'.dec = me.dec /\ me'.session = me.session
      BY <1>1, <3>1 DEF To, Local
    <3>3. state'[me.session].decision = me.dec
      BY <2>1, <3>1 DEF TypeInv, StoreOK, Terminal, NoState
    <3>4. QED
      BY <2>1, <3>2, <3>3 DEF Found
  <2>3. CASE ~(state[me.session].status = "pending" /\ state[me.session].active = me.job)
    <3>1. Section(me') = "idle"
      BY <1>7, <1>9, <2>3 DEF Commit, Label, Cleaning
    <3>2. QED
      BY <3>1
  <2>4. QED
    BY <2>2, <2>3
<1>10. CASE \E s \in Sessions : CompleteStart(s)
  <2>1. Section(me') = "begin" \/ UNCHANGED <<me, run>>
    BY <1>7, <1>10 DEF CompleteStart, Label, Cleaning, me, process
  <2>2. QED
    BY <1>4, <2>1
<1>11. CASE CompleteStep /\ ~Cleanup(Loop) /\ ~Answer /\ ~Commit
  <2>1. (\E label \in (Label \ Cleaning) \ {"persist"} : \E s : GoTo(Loop, label) \/ CleanThen(Loop, s, label))
        \/ me' = [me EXCEPT !.pc = "failStart", !.dec = "failed"]
        \/ \E j : me' = [me EXCEPT !.pc = "savePending", !.job = j]
    <3> DEFINE quiet == (Label \ Cleaning) \ {"persist"}
    <3>1. {"idle", "answer", "claim", "submit", "attach", "startFailed", "commit"} \subseteq quiet
      BY DEF Label, Cleaning
    <3>2. Loop \in DOMAIN actor /\ me = actor[Loop]
      BY <1>1 DEF me, TypeInv, ActorsOK, Actors
    <3>3. ASSUME NEW o, NEW ok, NEW next \in quiet, Started(o, ok, next)
          PROVE  \E label \in quiet : GoTo(Loop, label)
      BY <3>1, <3>3 DEF Started
    <3>4. CASE SavePendingRow \/ ClaimRow \/ Submit
      <4>1. \E o, ok : \E next \in quiet : Started(o, ok, next)
        <5> HIDE DEF quiet
        <5>1. QED
          BY <3>1, <3>4 DEF SavePendingRow, ClaimRow, Submit
      <4>2. QED
        BY <3>3, <4>1
    <3>5. CASE \E s \in Sessions : BeginAgain(s) \/ BeginTerminal(s)
      <4> HIDE DEF quiet
      <4>1. QED
        BY <3>1, <3>5 DEF BeginAgain, BeginTerminal, quiet
    <3>6. CASE (\E s \in Sessions : BeginRefused(s) \/ BeginRaises(s)) \/ Attach \/ Persist
      <4>1. GoTo(Loop, "idle")
        BY <3>6 DEF BeginRefused, BeginRaises, Attach, Persist
      <4>2. QED
        BY <3>1, <4>1
    <3>7. CASE \E s \in Sessions : BeginJob(s)
      <4>1. PICK j : actor' = [actor EXCEPT ![Loop] = [@ EXCEPT !.pc = "savePending", !.job = j]]
        BY <3>7 DEF BeginJob
      <4>2. me' = [me EXCEPT !.pc = "savePending", !.job = j]
        BY <3>2, <4>1 DEF me
      <4>3. QED
        BY <4>2
    <3>8. CASE StartFailed
      <4>1. CASE me.job \in evidence
        BY <3>2, <3>8, <4>1 DEF StartFailed, me
      <4>2. CASE me.job \notin evidence
        BY <3>1, <3>8, <4>2 DEF StartFailed
      <4>3. QED
        BY <4>1, <4>2
    <3>9. CASE FailStart
      <4>1. CleanThen(Loop, me.session, "commit")
        BY <3>9 DEF FailStart
      <4>2. QED
        BY <3>1, <4>1
    <3>10. QED
      BY <1>11, <3>4, <3>5, <3>6, <3>7, <3>8, <3>9 DEF CompleteStep
  <2>2. /\ Section([me EXCEPT !.pc = "failStart", !.dec = "failed"]) # "persist"
        /\ \A j : Section([me EXCEPT !.pc = "savePending", !.job = j]) # "persist"
    BY <1>1 DEF Section, Cleaning, Local
  <2>3. ASSUME NEW label \in (Label \ Cleaning) \ {"persist"}, NEW s,
               GoTo(Loop, label) \/ CleanThen(Loop, s, label)
        PROVE  Section(me') # "persist"
    <3>1. label \in Label \ Cleaning /\ label # "persist"
      BY <2>3
    <3>2. Section(me') = label
      BY <1>7, <2>3, <3>1, Zenon
    <3>3. QED
      BY <3>1, <3>2
  <2>4. CASE \/ me' = [me EXCEPT !.pc = "failStart", !.dec = "failed"]
             \/ \E j : me' = [me EXCEPT !.pc = "savePending", !.job = j]
    BY <2>2, <2>4, Zenon
  <2>5. QED
    BY <2>1, <2>3, <2>4
<1>12. CASE \E j \in Jobs : TaskStep(j) \/ ModelAnswers(j)
  <2>1. PICK j \in Jobs : TaskStep(j) \/ ModelAnswers(j)
    BY <1>12
  <2>2. CASE TaskStep(j)
    BY <1>4, <2>2 DEF TaskStep, TaskStart, TaskCancelled, TaskDiscard, me, process
  <2>3. CASE ModelAnswers(j)
    <3>1. PICK l \in {[Idle EXCEPT !.session = sessionOf[j], !.job = j, !.dec = d,
                                   !.after = "commit"] : d \in {"completed", "failed"}} :
            Sweep(Loop, l)
      BY <2>3 DEF ModelAnswers
    <3>2. \A todo : /\ Section(To(l, "commit")) = "commit"
                    /\ Section([l EXCEPT !.pc = "signal", !.todo = todo]) = "commit"
      BY DEF Section, To, Idle, Cleaning
    <3>3. l.after = "commit"
      BY DEF Idle
    <3>4. Section(me') = "commit"
      BY <1>1, <3>1, <3>2, <3>3 DEF Sweep
    <3>5. QED
      BY <3>4
  <2>4. QED
    BY <2>1, <2>2, <2>3
<1>13. CASE KeeperStep /\ ~Cleanup(Keeper)
  <2>1. Keeper # Loop
    BY ConstantsAssumption
  <2>2. me' = me /\ run' = run
    BY <1>1, <1>13, <2>1
       DEF KeeperStep, RuntimeProbe, MarkInflight, Initialize, OpenIntake, Wake, OrphanRows,
           Retention, GoTo, CleanThen, process
  <2>3. QED
    BY <1>4, <2>2
<1>14. CASE (\E s \in Sessions : Expire(s)) \/ (\E k \in Keys : Age(k))
  BY <1>4, <1>14 DEF Expire, Age, me, process
<1>15. CASE Crash
  <2>1. me' = Idle
    BY <1>1, <1>15, ConstantsAssumption DEF Crash, AtStart
  <2>2. QED
    BY <2>1 DEF Section, Idle, Cleaning
<1>16. QED
  BY <1>1, <1>5, <1>6, <1>8, <1>9, <1>10, <1>11, <1>12, <1>13, <1>14, <1>15 DEF Next, Actors

\* A decision that is held, or on its way to the database, has been said.
DecisionSaid ==
  /\ \A s \in Sessions :
       state[s].status = "terminal" => state[s].decision \in said[Key(s)]
  /\ Section(me) = "persist" => me.dec \in said[Key(me.session)]

SaidInv == said \in [Keys -> SUBSET Decisions] /\ DecisionSaid

\* The history only grows, and holds what a state of this run decides.
LEMMA RecordsGrow ==
  ASSUME TypeInv, SaidInv, Records
  PROVE  /\ said' \in [Keys -> SUBSET Decisions]
         /\ \A k \in Keys : said[k] \subseteq said'[k]
         /\ \A s \in Sessions : state'[s].decision \in Decisions =>
              state'[s].decision \in said'[Key(s)]
<1>1. \A s \in Sessions : Key(s) \in Keys /\ Key(s)[1] = run /\ Key(s)[2] = s
  BY DEF TypeInv, ProcessOK, Key, Keys
<1>2. QED
  BY <1>1 DEF Records, SaidInv

\* What the API answers or writes, it has held: nothing else is ever shown to
\* a client or saved as a decision (get_recommendation, save_decision).
LEMMA SaidStep ==
  ASSUME TypeInv, TypeInv', SaidInv, HistoryNext
  PROVE  SaidInv'
<1>1. Next /\ Records
  BY DEF HistoryNext
<1>2. ASSUME NEW s \in Sessions, state'[s].status = "terminal"
      PROVE  state'[s].decision \in said'[<<run', s>>]
  <2>1. state'[s].decision \in Decisions
    BY <1>2 DEF TypeInv, StoreOK
  <2>2. CASE Crash
    BY <1>2, <2>2 DEF Crash, NoState
  <2>3. CASE run' = run
    BY <1>1, <2>1, <2>3, RecordsGrow DEF Key
  <2>4. QED
    BY <1>1, <2>2, <2>3, RunChanges
<1>3. ASSUME Section(me') = "persist" PROVE me'.dec \in said'[<<run', me'.session>>]
  <2>1. CASE Stays
    <3>1. Key(me.session) \in Keys
      BY <2>1 DEF Stays, TypeInv, ProcessOK, ActorsOK, LoopOK, me, Key, Keys
    <3>2. me.dec \in said[Key(me.session)]
      BY <2>1 DEF Stays, SaidInv, DecisionSaid
    <3>3. QED
      BY <1>1, <2>1, <3>1, <3>2, RecordsGrow DEF Stays, Key
  <2>2. CASE Found
    BY <1>1, <2>2, RecordsGrow DEF Found, Key
  <2>3. QED
    BY <1>1, <1>3, <2>1, <2>2, PersistStep
<1>4. said' \in [Keys -> SUBSET Decisions]
  BY <1>1, RecordsGrow
<1>5. QED
  BY <1>2, <1>3, <1>4 DEF SaidInv, DecisionSaid, Key, me, Section

\* The history changes nothing in what the program does.
LEMMA HistoryIsSpec == HistorySpec => Spec
<1>1. HistoryInit => Init
  BY DEF HistoryInit
<1>2. [HistoryNext]_<<vars, said>> => [Next]_vars
  BY DEF HistoryNext
<1>3. QED
  BY <1>1, <1>2, PTL DEF HistorySpec, Spec

\* The history records what is answered throughout.
LEMMA SaidInvariant == HistorySpec => []SaidInv
<1>1. HistoryInit => SaidInv
  <2>1. SUFFICES ASSUME HistoryInit PROVE SaidInv
    OBVIOUS
  <2>2. me = Idle
    BY <2>1, ConstantsAssumption DEF HistoryInit, Init, me, AtStart, Actors
  <2>3. QED
    BY <2>1, <2>2 DEF HistoryInit, Init, SaidInv, DecisionSaid, NoState, Section, Cleaning, Idle
<1>2. TypeInv /\ TypeInv' /\ SaidInv /\ HistoryNext => SaidInv'
  BY SaidStep
<1>3. SaidInv /\ UNCHANGED <<vars, said>> => SaidInv'
  BY DEF SaidInv, DecisionSaid, vars, store, process, me, Section, Key
<1>4. QED
  BY <1>1, <1>2, <1>3, HistoryIsSpec, TypeInvariant, PTL DEF HistorySpec

\* Every step is one that DecisionContract allows: a decision is never
\* replaced, a row is settled once, and no row is completed with a decision
\* the API has not held before.
THEOREM ImplementsContract == HistorySpec => ContractSpec
<1>1. HistoryInit => Contract!Init
  <2>1. SUFFICES ASSUME HistoryInit PROVE Contract!Init
    OBVIOUS
  <2>2. run \in Runs
    BY <2>1, ConstantsAssumption DEF HistoryInit, Init, Runs
  <2>3. QED
    BY <2>1, <2>2
       DEF HistoryInit, Init, Contract!Init, Contract!Keys, Keys, View, NoState, NoRow
<1>2. TypeInv /\ TypeInv' /\ SaidInv /\ HistoryNext => Contract!Next
  <2>1. SUFFICES ASSUME TypeInv, TypeInv', SaidInv, HistoryNext PROVE Contract!Next
    OBVIOUS
  <2>2. Next /\ Records
    BY <2>1 DEF HistoryNext
  <2>3. ASSUME NEW s \in Sessions PROVE Contract!ViewStep(s)
    <3>1. StateStep(s)
      BY <2>1, <2>2, StateSteps
    <3>2. /\ state[s].status = "terminal" <=> state[s].decision \in Decisions
          /\ state'[s].status = "terminal" <=> state'[s].decision \in Decisions
          /\ state[s] \in SessionState /\ state'[s] \in SessionState
      BY <2>1 DEF TypeInv, StoreOK
    <3>3. state'[s].status = "terminal" => state'[s].decision \in said'[<<run, s>>]
      BY <2>1, <2>2, <3>2, RecordsGrow DEF Key
    <3>4. QED
      BY <3>1, <3>2, <3>3
         DEF Contract!ViewStep, Contract!Decisions, Decisions, StateStep, View, Held, SessionState
  <2>4. ASSUME NEW k \in Keys PROVE Contract!LifeStep(k)
    <3>1. Section(me) = "persist" => me.dec \in said[Key(me.session)]
      BY <2>1 DEF SaidInv, DecisionSaid
    <3>2. QED
      BY <2>1, <2>2, <3>1, RowSteps
         DEF Contract!LifeStep, Contract!Keys, Keys, RowStep, Contract!InFlight, InFlight,
             Contract!Settled, Settled, Contract!Decisions, Decisions
  <2>5. (\A k \in Keys : said[k] \subseteq said'[k]) /\ run' \in Runs
    BY <2>1, <2>2, RecordsGrow DEF TypeInv, ProcessOK
  <2>6. QED
    BY <2>3, <2>4, <2>5 DEF Contract!Next, Contract!Keys, Keys
<1>3. UNCHANGED <<vars, said>> => UNCHANGED Contract!vars
  BY DEF vars, Contract!vars, View, store, process, db
<1>4. QED
  BY <1>1, <1>2, <1>3, HistoryIsSpec, TypeInvariant, SaidInvariant, PTL
     DEF HistorySpec, ContractSpec, Contract!Spec
=============================================================================

------------------------- MODULE RecommendationJobs -------------------------
(***************************************************************************)
(* The life of a v2 recommendation: V2RecommendationStore (apps/api/app/   *)
(* v2_store.py), the asyncio dispatcher (v2_central.py), the route handlers*)
(* and maintenance loop (main.py) and the job table (JobTable).            *)
(*                                                                         *)
(* Actors.  `Loop` is the event-loop thread: it runs the `async def`       *)
(* complete handler and every step of a model task, one at a time, without *)
(* yielding between awaits.  `Pool` is FastAPI's thread pool, which runs   *)
(* the sync handlers (observations, GET, manager requests, DELETE).        *)
(* `Keeper` is the maintenance loop, and the start-up hook before it.      *)
(* They interleave at every lock section and every database call.          *)
(***************************************************************************)
EXTENDS JobTable, FiniteSets

CONSTANTS
  Sessions,      \* v1 session identifiers; the same ones come back in every run
  Jobs,          \* CompletionJob identities (uuid4), never reused
  Pool,          \* thread-pool threads
  Loop, Keeper,  \* the event-loop thread and the maintenance loop
  NoJob, NoSession,
  MaxRuns,       \* bound: lives of the process
  MaxFaults,     \* bound: database calls that fail or lose their answer
  MaxWorkers,    \* AsyncioJobDispatcher(max_workers=2)
  Durable,       \* durable_mode: a database is configured
  DemoFallback   \* MCM_LOCAL_DEMO_ALLOW_INSUFFICIENT_SIGNAL

ASSUME ConstantsAssumption ==
  /\ MaxRuns \in Nat \ {0} /\ MaxFaults \in Nat /\ MaxWorkers \in Nat \ {0}
  /\ Durable \in BOOLEAN /\ DemoFallback \in BOOLEAN
  /\ NoJob \notin Jobs /\ NoSession \notin Sessions
  /\ Loop \notin Pool /\ Keeper \notin Pool /\ Loop # Keeper

Runs == 1..MaxRuns
Keys == Runs \X Sessions
Actors == Pool \cup {Loop, Keeper}

VARIABLES
  run,        \* which life of the process this is (_run_scope)
  serving,    \* the start-up hook has returned, requests are accepted
  intake,     \* PostgresDecisionPersistence._startup_cleanup_complete
  state,      \* V2RecommendationStore._states
  task,       \* asyncio tasks of the dispatcher, one per submitted job
  cancelRequested,  \* jobs whose task has had cancel() called
  evidence,   \* jobs whose request and summary are still referenced
  sessionOf,  \* CompletionJob.session_id
  rows,       \* recommendation_job_v2
  faults,     \* database faults so far
  actor,      \* where each actor is and its locals
  revoked     \* history: jobs whose pending state was removed

store == <<state, revoked>>
jobs == <<task, cancelRequested, evidence, sessionOf>>
db == <<rows, faults>>
process == <<run, serving, intake>>
vars == <<store, jobs, db, process, actor>>

-----------------------------------------------------------------------------
NoState == [status |-> "absent", buffered |-> FALSE, decision |-> "none",
            active |-> NoJob, attached |-> FALSE, expired |-> FALSE]

\* V2SessionState(expires_at=now + collecting_ttl)
Fresh == [NoState EXCEPT !.status = "collecting"]

Pending(j) == [NoState EXCEPT !.status = "pending", !.active = j]

\* Mutant: the decision is built and not stored.
TerminalForgets(d) == [NoState EXCEPT !.status = "terminal"]

Terminal(d) == [NoState EXCEPT !.status = "terminal", !.decision = d]

Key(s) == <<run, s>>

\* An actor: the section it enters next (`pc`), the section to continue with
\* after cleanup_expired (`after`), and the locals of its handler.
Idle == [pc |-> "idle", after |-> "idle", session |-> NoSession, job |-> NoJob,
         dec |-> "none", todo |-> {}]

\* With a database the start-up hook runs before any request is served.
AtStart ==
  [a \in Actors |->
     IF a = Keeper /\ Durable THEN [Idle EXCEPT !.pc = "probe"] ELSE Idle]

\* The tasks the dispatcher still holds in its set: a finished one stays
\* until its done-callback runs.
HeldTasks == {j \in Jobs : task[j] \in {"queued", "model", "publishing", "finished"}}

Init ==
  /\ run = 1
  /\ serving = ~Durable
  /\ intake = FALSE
  /\ state = [s \in Sessions |-> NoState]
  /\ task = [j \in Jobs |-> "none"]
  /\ cancelRequested = {} /\ evidence = {}
  /\ sessionOf = [j \in Jobs |-> NoSession]
  /\ rows = [k \in Keys |-> NoRow] /\ faults = 0
  /\ actor = AtStart
  /\ revoked = {}

-----------------------------------------------------------------------------
(* Control.                                                                 *)

At(a, label) == actor[a].pc = label

\* A handler that ends forgets its locals.
To(local, label) == IF label = "idle" THEN Idle ELSE [local EXCEPT !.pc = label]

GoTo(a, label) == actor' = [actor EXCEPT ![a] = To(@, label)]

\* Run cleanup_expired next, then the section named `after`.
CleanThen(a, s, after) ==
  actor' = [actor EXCEPT ![a] =
              [@ EXCEPT !.pc = "cleanup", !.after = after, !.session = s]]

(* A database call answers "ok", raises without effect ("fail"), or commits *)
(* and raises because the answer is lost ("lost").  Without a database the  *)
(* repository adapter answers True and touches nothing.                     *)
Outcomes == {"ok", "fail", "lost"}

Call(new, outcome) ==
  IF Durable
    THEN /\ outcome # "ok" => faults < MaxFaults
         /\ faults' = IF outcome = "ok" THEN faults ELSE faults + 1
         /\ rows' = IF outcome = "fail" THEN rows ELSE new
    ELSE outcome = "ok" /\ UNCHANGED db

\* check_readiness: one probe that writes nothing, then the intake flag.
Probe(outcome) == Call(rows, outcome)

-----------------------------------------------------------------------------
(* cleanup_expired.                                                         *)

\* What is kept of a state that is taken off the store.
Entry == [session : Sessions, job : Jobs \cup {NoJob}, handle : BOOLEAN]

EntryOf(s) ==
  [session |-> s, job |-> state[s].active, handle |-> state[s].attached]

JobsOf(entries) == {e.job : e \in entries} \ {NoJob}

Expired == {s \in Sessions : state[s].status # "absent" /\ state[s].expired}

\* The lock section pops every expired state and remembers the pending ones.
Sweep(a, local) ==
  LET orphans == {EntryOf(s) : s \in {t \in Expired : state[t].status = "pending"}}
  IN /\ state' = [s \in Sessions |-> IF s \in Expired THEN NoState ELSE state[s]]
     /\ revoked' = revoked \cup JobsOf(orphans)
     /\ actor' = [actor EXCEPT ![a] =
                    IF orphans = {} THEN To(local, local.after)
                    ELSE [local EXCEPT !.pc = "signal", !.todo = orphans]]

CleanupSweep(a) ==
  /\ At(a, "cleanup")
  /\ Sweep(a, actor[a])
  /\ UNCHANGED <<jobs, db, process>>

\* handle.cancel() for every handle found, by a sweep or by a DELETE.
CancelHandles(a) ==
  cancelRequested' =
    cancelRequested \cup JobsOf({e \in actor[a].todo : e.handle})

CleanupSignal(a) ==
  /\ At(a, "signal")
  /\ CancelHandles(a)
  /\ GoTo(a, "orphans")
  /\ UNCHANGED <<store, task, evidence, sessionOf, db, process>>

\* Per orphan: dispose of its evidence, then best-effort fail_job.
CleanupOrphan(a) ==
  LET local == actor[a]
  IN /\ At(a, "orphans")
     /\ \E e \in local.todo, o \in Outcomes :
          /\ evidence' = evidence \ {e.job}
          /\ Call(FailJob(rows, Key(e.session), "orphan_cleanup"), o)
          /\ actor' = [actor EXCEPT ![a] =
                         To([local EXCEPT !.todo = @ \ {e}],
                            IF local.todo = {e} THEN local.after ELSE "orphans")]
     /\ UNCHANGED <<store, task, cancelRequested, sessionOf, process>>

Cleanup(a) == CleanupSweep(a) \/ CleanupSignal(a) \/ CleanupOrphan(a)

-----------------------------------------------------------------------------
(* Thread-pool handlers.                                                    *)

\* POST /observations, once the batch has passed its stateless checks.
AppendStart(a, s) ==
  /\ serving /\ At(a, "idle")
  /\ Sweep(a, [Idle EXCEPT !.session = s, !.after = "append"])
  /\ UNCHANGED <<jobs, db, process>>

\* The lock section of append_batch: a batch is refused (409 once the session
\* stopped collecting, 400 or 413 on its content) or buffered.
AppendBatch(a) ==
  LET s == actor[a].session
      collecting == IF state[s].status = "absent" THEN Fresh ELSE state[s]
  IN /\ At(a, "append")
     /\ \/ /\ collecting.status # "collecting"
           /\ UNCHANGED state
        \/ /\ collecting.status = "collecting"
           /\ \/ state' = [state EXCEPT ![s] = collecting]
              \/ state' = [state EXCEPT ![s] =
                             [collecting EXCEPT !.buffered = TRUE, !.expired = FALSE]]
     /\ GoTo(a, "idle")
     /\ UNCHANGED <<revoked, jobs, db, process>>

\* GET /recommendation and POST /manager-product-requests: after the sweep
\* they only read the state.
Read(a) ==
  /\ serving /\ At(a, "idle")
  /\ Sweep(a, Idle)
  /\ UNCHANGED <<jobs, db, process>>

\* DELETE: the state is popped under the lock, whatever it is.
CancelPop(a, s) ==
  LET found == IF state[s].active = NoJob THEN {} ELSE {EntryOf(s)}
  IN /\ serving /\ At(a, "idle")
     /\ state[s].status # "absent"
     /\ state' = [state EXCEPT ![s] = NoState]
     /\ revoked' = revoked \cup JobsOf(found)
     /\ actor' = [actor EXCEPT ![a] =
                    IF state[s].status = "collecting" THEN Idle
                    ELSE [Idle EXCEPT !.pc = "dispose", !.session = s, !.todo = found]]
     /\ UNCHANGED <<jobs, db, process>>

\* Mutant: clear_transient is left to the task.
CancelDisposeLater(a) ==
  /\ At(a, "dispose")
  /\ CancelHandles(a)
  /\ actor' = [actor EXCEPT ![a] = [@ EXCEPT !.pc = "markCancelled", !.todo = {}]]
  /\ UNCHANGED <<store, task, evidence, sessionOf, db, process>>

CancelDispose(a) ==
  /\ At(a, "dispose")
  /\ CancelHandles(a)
  /\ evidence' = evidence \ JobsOf(actor[a].todo)
  /\ actor' = [actor EXCEPT ![a] = [@ EXCEPT !.pc = "markCancelled", !.todo = {}]]
  /\ UNCHANGED <<store, task, sessionOf, db, process>>

CancelMark(a) ==
  /\ At(a, "markCancelled")
  /\ \E o \in Outcomes : Call(MarkCancelled(rows, Key(actor[a].session)), o)
  /\ GoTo(a, "idle")
  /\ UNCHANGED <<store, jobs, process>>

PoolStart(a) ==
  \/ \E s \in Sessions : AppendStart(a, s) \/ CancelPop(a, s)
  \/ Read(a)

PoolStep(a) == AppendBatch(a) \/ CancelDispose(a) \/ CancelMark(a) \/ Cleanup(a)

-----------------------------------------------------------------------------
(* POST /complete, on the event loop.                                       *)

me == actor[Loop]

\* 503 when the database is not ready; otherwise begin_completion's sweep.
CompleteStart(s) ==
  /\ serving /\ At(Loop, "idle")
  /\ \E o \in Outcomes :
       /\ Probe(o)
       /\ IF o = "ok" /\ (Durable => intake)
            THEN CleanThen(Loop, s, "begin")
            ELSE UNCHANGED actor
  /\ UNCHANGED <<store, jobs, process>>

BeginAt(s) == At(Loop, "begin") /\ me.session = s

Collecting(s) == state[s].status \in {"absent", "collecting"}

\* The session is already pending or terminal: same receipt, no new job.
BeginAgain(s) ==
  /\ BeginAt(s) /\ ~Collecting(s)
  /\ CleanThen(Loop, s, "answer")
  /\ UNCHANGED <<store, jobs, db, process>>

\* 409: the v1 API has completed the session.
BeginRefused(s) ==
  /\ BeginAt(s) /\ Collecting(s)
  /\ state' = [state EXCEPT ![s] = IF @.status = "absent" THEN Fresh ELSE @]
  /\ GoTo(Loop, "idle")
  /\ UNCHANGED <<revoked, jobs, db, process>>

\* No usable signal: the decision is made under the lock and no job starts.
\* The demo fallback completes from a non-empty timeline.
BeginTerminal(s) ==
  /\ BeginAt(s) /\ Collecting(s)
  /\ \E d \in {"insufficient_data"}
              \cup (IF DemoFallback /\ state[s].buffered THEN {"completed"} ELSE {}) :
       state' = [state EXCEPT ![s] = Terminal(d)]
  /\ CleanThen(Loop, s, "answer")
  /\ UNCHANGED <<revoked, jobs, db, process>>

\* The observations are folded into a job's request and summary and dropped.
BeginJob(s) ==
  /\ BeginAt(s) /\ Collecting(s) /\ state[s].buffered
  /\ \E j \in Jobs :
       /\ sessionOf[j] = NoSession
       /\ sessionOf' = [sessionOf EXCEPT ![j] = s]
       /\ state' = [state EXCEPT ![s] = Pending(j)]
       /\ evidence' = evidence \cup {j}
       /\ actor' = [actor EXCEPT ![Loop] = [@ EXCEPT !.pc = "savePending", !.job = j]]
  /\ UNCHANGED <<revoked, task, cancelRequested, db, process>>

\* The summary breaks its own contract: evidence_windows takes 128 windows and
\* 512 frames can open more.  The exception ends the handler with the state
\* pending and its observations dropped.
BeginRaises(s) ==
  /\ BeginAt(s) /\ Collecting(s) /\ state[s].buffered
  /\ state' = [state EXCEPT ![s] = Pending(NoJob)]
  /\ GoTo(Loop, "idle")
  /\ UNCHANGED <<revoked, jobs, db, process>>

\* get_recommendation's lock section: 404 if the state is gone or has no
\* receipt, the receipt while pending, or the decision, which is saved.
Answer ==
  LET held == state[me.session]
  IN /\ At(Loop, "answer")
     /\ IF held.status = "terminal"
          THEN actor' = [actor EXCEPT ![Loop] =
                           [@ EXCEPT !.pc = "persist", !.dec = held.decision]]
          ELSE GoTo(Loop, "idle")
     /\ UNCHANGED <<store, jobs, db, process>>

\* Any exception on the way to a running task leads to startFailed.
Started(o, answer, next) ==
  GoTo(Loop, IF o = "ok" /\ answer THEN next ELSE "startFailed")

SavePendingRow ==
  LET k == Key(me.session)
  IN /\ At(Loop, "savePending")
     /\ \E o \in Outcomes : /\ Call(SavePending(rows, k), o)
                            /\ Started(o, Durable => PendingIsSaved(rows, k), "claim")
     /\ UNCHANGED <<store, jobs, process>>

ClaimRow ==
  LET k == Key(me.session)
  IN /\ At(Loop, "claim")
     /\ \E o \in Outcomes : /\ Call(Claim(rows, k), o)
                            /\ Started(o, Durable => CanClaim(rows, k), "submit")
     /\ UNCHANGED <<store, jobs, process>>

\* Mutant: the refusal of the dispatcher is not noticed.
SubmitUnnoticed ==
  /\ At(Loop, "submit")
  /\ GoTo(Loop, "attach")
  /\ task' = IF Cardinality(HeldTasks) < MaxWorkers
               THEN [task EXCEPT ![me.job] = "queued"] ELSE task
  /\ UNCHANGED <<store, cancelRequested, evidence, sessionOf, db, process>>

\* dispatcher.submit raises at its concurrency limit.
Submit ==
  LET free == Cardinality(HeldTasks) < MaxWorkers
  IN /\ At(Loop, "submit")
     /\ Started("ok", free, "attach")
     /\ task' = IF free THEN [task EXCEPT ![me.job] = "queued"] ELSE task
     /\ UNCHANGED <<store, cancelRequested, evidence, sessionOf, db, process>>

\* The handle is attached only to the state that still waits for this job.
Attach ==
  LET waiting == state[me.session].active = me.job
  IN /\ At(Loop, "attach")
     /\ state' = IF waiting THEN [state EXCEPT ![me.session].attached = TRUE] ELSE state
     /\ cancelRequested' =
          IF waiting THEN cancelRequested ELSE cancelRequested \cup {me.job}
     /\ GoTo(Loop, "idle")
     /\ UNCHANGED <<revoked, task, evidence, sessionOf, db, process>>

\* _job_start_failure raises when the summary has been disposed of already.
StartFailed ==
  /\ At(Loop, "startFailed")
  /\ IF me.job \in evidence
       THEN actor' = [actor EXCEPT ![Loop] = [@ EXCEPT !.pc = "failStart", !.dec = "failed"]]
       ELSE GoTo(Loop, "idle")
  /\ UNCHANGED <<store, jobs, db, process>>

FailStart ==
  /\ At(Loop, "failStart")
  /\ \E o \in Outcomes : Call(FailJob(rows, Key(me.session), "job_start_failed"), o)
  /\ CleanThen(Loop, me.session, "commit")
  /\ UNCHANGED <<store, jobs, process>>

\* The job object goes out of scope, and a task that was publishing ends.
Release ==
  /\ evidence' = evidence \ {me.job}
  /\ task' = [j \in Jobs |->
                IF j = me.job /\ task[j] = "publishing" THEN "finished" ELSE task[j]]
  /\ UNCHANGED <<cancelRequested, sessionOf>>

\* Mutant: active_job_id is not compared.
CommitAnyPending ==
  LET s == me.session
  IN /\ At(Loop, "commit")
     /\ IF state[s].status = "pending"
          THEN /\ state' = [state EXCEPT ![s] = Terminal(me.dec)]
               /\ GoTo(Loop, "persist")
               /\ UNCHANGED jobs
          ELSE /\ UNCHANGED state
               /\ GoTo(Loop, "idle")
               /\ Release
     /\ UNCHANGED <<revoked, db, process>>

\* _commit_terminal's lock section: only the still-active job publishes.
Commit ==
  LET s == me.session
      wanted == state[s].status = "pending" /\ state[s].active = me.job
  IN /\ At(Loop, "commit")
     /\ IF wanted
          THEN /\ state' = [state EXCEPT ![s] = Terminal(me.dec)]
               /\ GoTo(Loop, "persist")
               /\ UNCHANGED jobs
          ELSE /\ UNCHANGED state
               /\ GoTo(Loop, "idle")
               /\ Release
     /\ UNCHANGED <<revoked, db, process>>

\* save_decision; a fault is swallowed (or answered 500 by a repeated
\* complete), and nothing in memory changes.
Persist ==
  /\ At(Loop, "persist")
  /\ \E o \in Outcomes : Call(SaveDecision(rows, Key(me.session), me.dec), o)
  /\ GoTo(Loop, "idle")
  /\ Release
  /\ UNCHANGED <<store, process>>

CompleteStep ==
  \/ \E s \in Sessions : \/ BeginAgain(s) \/ BeginRefused(s)
                         \/ BeginTerminal(s) \/ BeginJob(s) \/ BeginRaises(s)
  \/ Answer \/ SavePendingRow \/ ClaimRow \/ Submit \/ Attach
  \/ StartFailed \/ FailStart \/ Commit \/ Persist \/ Cleanup(Loop)

-----------------------------------------------------------------------------
(* Model tasks: each step runs on the event loop when it is free.           *)

LoopFree == At(Loop, "idle")

\* The first step of the coroutine: nothing to do for a disposed job.
TaskStart(j) ==
  /\ LoopFree /\ task[j] = "queued" /\ j \notin cancelRequested
  /\ task' = [task EXCEPT ![j] = IF j \in evidence THEN "model" ELSE "finished"]
  /\ UNCHANGED <<store, cancelRequested, evidence, sessionOf, db, process, actor>>

\* The model answers, or its client raises: completed or failed.  The task
\* goes on to _commit_terminal, which sweeps first.
ModelAnswers(j) ==
  /\ LoopFree /\ task[j] = "model" /\ j \notin cancelRequested
  /\ task' = [task EXCEPT ![j] = "publishing"]
  /\ \E d \in {"completed", "failed"} :
       Sweep(Loop, [Idle EXCEPT !.session = sessionOf[j], !.job = j,
                                !.dec = d, !.after = "commit"])
  /\ UNCHANGED <<cancelRequested, evidence, sessionOf, db, process>>

\* CancelledError is raised at the await and run_completion disposes of the
\* job, or it is raised before the coroutine has begun and nothing of it runs.
TaskCancelled(j) ==
  /\ LoopFree /\ task[j] \in {"queued", "model"} /\ j \in cancelRequested
  /\ task' = [task EXCEPT ![j] = "finished"]
  /\ evidence' = IF task[j] = "model" THEN evidence \ {j} ELSE evidence
  /\ UNCHANGED <<store, cancelRequested, sessionOf, db, process, actor>>

\* add_done_callback(self._tasks.discard)
TaskDiscard(j) ==
  /\ LoopFree /\ task[j] = "finished"
  /\ task' = [task EXCEPT ![j] = "discarded"]
  /\ UNCHANGED <<store, cancelRequested, evidence, sessionOf, db, process, actor>>

TaskStep(j) == TaskStart(j) \/ TaskCancelled(j) \/ TaskDiscard(j)

-----------------------------------------------------------------------------
(* Start-up hook and maintenance loop.                                      *)

\* Mutant: a failed step is skipped.
InitializeAnyway(o, next) == GoTo(Keeper, next) /\ UNCHANGED process

\* initialize_runtime: a step that goes well leads on; one that does not
\* closes intake and ends it.  At start-up requests are served all the same
\* (the readiness check refuses new jobs).
Initialize(o, next) ==
  IF o = "ok"
    THEN GoTo(Keeper, next) /\ UNCHANGED process
    ELSE /\ GoTo(Keeper, "idle")
         /\ intake' = FALSE /\ serving' = TRUE /\ UNCHANGED run

\* Is the database reachable and migrated?
RuntimeProbe ==
  /\ At(Keeper, "probe")
  /\ \E o \in Outcomes : Probe(o) /\ Initialize(o, "markInflight")
  /\ UNCHANGED <<store, jobs>>

\* mark_inflight_jobs_failed_on_startup
MarkInflight ==
  /\ At(Keeper, "markInflight")
  /\ \E o \in Outcomes :
       Call(MarkInflightFailed(rows), o) /\ Initialize(o, "open")
  /\ UNCHANGED <<store, jobs>>

\* Intake opens; a maintenance pass goes on to clean up if still ready.
OpenIntake ==
  /\ At(Keeper, "open")
  /\ intake' = TRUE /\ serving' = TRUE
  /\ \E o \in Outcomes :
       /\ Probe(o)
       /\ IF serving /\ o = "ok"
            THEN CleanThen(Keeper, NoSession, "orphanRows")
            ELSE GoTo(Keeper, "idle")
  /\ UNCHANGED <<store, jobs, run>>

\* Mutant: the loop only watches the database.
WakeToProbe ==
  /\ Durable /\ serving /\ At(Keeper, "idle")
  /\ \E o \in Outcomes :
       /\ Probe(o)
       /\ GoTo(Keeper, IF o = "ok" /\ intake THEN "orphanRows" ELSE "probe")
  /\ UNCHANGED <<store, jobs, process>>

\* The maintenance interval is over: check_readiness, then cleanup_operational,
\* or initialize_runtime again when the database is not ready.
Wake ==
  /\ Durable /\ serving /\ At(Keeper, "idle")
  /\ \E o \in Outcomes :
       /\ Probe(o)
       /\ IF o = "ok" /\ intake
            THEN CleanThen(Keeper, NoSession, "orphanRows")
            ELSE GoTo(Keeper, "probe")
  /\ UNCHANGED <<store, jobs, process>>

OrphanRows ==
  /\ At(Keeper, "orphanRows")
  /\ \E o \in Outcomes :
       /\ Call(CleanupOrphanJobs(rows), o)
       /\ GoTo(Keeper, IF o = "ok" THEN "retention" ELSE "idle")
  /\ UNCHANGED <<store, jobs, process>>

Retention ==
  /\ At(Keeper, "retention")
  /\ \E o \in Outcomes : Call(CleanupRetention(rows), o)
  /\ GoTo(Keeper, "idle")
  /\ UNCHANGED <<store, jobs, process>>

KeeperStep ==
  \/ RuntimeProbe \/ MarkInflight \/ OpenIntake \/ Wake
  \/ OrphanRows \/ Retention \/ Cleanup(Keeper)

-----------------------------------------------------------------------------
(* Environment: time and crashes.                                           *)

\* expires_at is reached.
Expire(s) ==
  /\ state[s].status # "absent" /\ ~state[s].expired
  /\ state' = [state EXCEPT ![s].expired = TRUE]
  /\ UNCHANGED <<revoked, jobs, db, process, actor>>

\* updated_at falls behind the cutoff.  pending_ttl <= orphan_job_seconds, so
\* a row does not age while its pending state is still within its TTL.
Age(k) ==
  /\ rows[k].status # "absent" /\ ~rows[k].old
  /\ ~(/\ k[1] = run /\ rows[k].status \in InFlight
       /\ state[k[2]].status = "pending" /\ ~state[k[2]].expired)
  /\ rows' = [rows EXCEPT ![k].old = TRUE]
  /\ UNCHANGED <<store, jobs, faults, process, actor>>

\* The process dies and comes back with a new run scope and empty memory.
Crash ==
  /\ run < MaxRuns
  /\ run' = run + 1
  /\ serving' = ~Durable /\ intake' = FALSE
  /\ state' = [s \in Sessions |-> NoState]
  /\ task' = [j \in Jobs |-> IF sessionOf[j] = NoSession THEN "none" ELSE "discarded"]
  /\ cancelRequested' = {} /\ evidence' = {} /\ revoked' = {}
  /\ actor' = AtStart
  /\ UNCHANGED <<sessionOf, db>>

Next ==
  \/ \E a \in Pool : PoolStart(a) \/ PoolStep(a)
  \/ \E s \in Sessions : CompleteStart(s) \/ Expire(s)
  \/ CompleteStep
  \/ \E j \in Jobs : TaskStep(j) \/ ModelAnswers(j)
  \/ KeeperStep
  \/ \E k \in Keys : Age(k)
  \/ Crash

Spec == Init /\ [][Next]_vars

(* Fairness.  The maintenance loop keeps waking and clocks advance: it is a *)
(* task of the same event loop as the handlers and jobs, so the event loop  *)
(* itself turns.                                                            *)
KeeperFairness ==
  /\ WF_vars(KeeperStep)
  /\ \A s \in Sessions : WF_vars(Expire(s))
  /\ \A k \in Keys : WF_vars(Age(k))

\* Handlers and tasks may be suspended for ever, at an await or in their
\* thread; the event loop, and so the maintenance loop, is not blocked.
KeptSpec == Spec /\ KeeperFairness

(* A thread that has started a handler finishes it; the event loop finishes *)
(* a handler and, its ready queue being FIFO, gets to every ready task      *)
(* however many requests arrive.  Nothing obliges a client to send a        *)
(* request, the model to answer (the call has no timeout) or the process to *)
(* crash.                                                                   *)
HandlerFairness ==
  /\ \A a \in Pool : WF_vars(PoolStep(a))
  /\ WF_vars(CompleteStep)
  /\ \A j \in Jobs : SF_vars(TaskStep(j))

FairSpec == KeptSpec /\ HandlerFairness

-----------------------------------------------------------------------------
(* Properties.                                                              *)

SessionState == [status : {"absent", "collecting", "pending", "terminal"},
                 buffered : BOOLEAN, decision : Decisions \cup {"none"},
                 active : Jobs \cup {NoJob}, attached : BOOLEAN, expired : BOOLEAN]

Label == {"idle", "cleanup", "signal", "orphans", "append", "dispose", "markCancelled",
          "begin", "answer", "savePending", "claim", "submit", "attach",
          "startFailed", "failStart", "commit", "persist",
          "probe", "markInflight", "open", "orphanRows", "retention"}

Cleaning == {"cleanup", "signal", "orphans"}

Local == [pc : Label, after : Label \ Cleaning, session : Sessions \cup {NoSession},
          job : Jobs \cup {NoJob}, dec : Decisions \cup {"none"}, todo : SUBSET Entry]

TaskState == {"none", "queued", "model", "publishing", "finished", "discarded"}

\* Every variable has its type, and a state carries a decision exactly when it
\* is terminal, which is what get_recommendation needs never to answer 500
\* recommendation_missing, and a job only while it is pending.
TypeOK ==
  /\ run \in Runs /\ serving \in BOOLEAN /\ intake \in BOOLEAN
  /\ state \in [Sessions -> SessionState]
  /\ \A s \in Sessions : /\ state[s].status = "terminal" <=> state[s].decision \in Decisions
                         /\ state[s].active \in Jobs => state[s].status = "pending"
  /\ task \in [Jobs -> TaskState]
  /\ cancelRequested \subseteq Jobs /\ evidence \subseteq Jobs /\ revoked \subseteq Jobs
  /\ sessionOf \in [Jobs -> Sessions \cup {NoSession}]
  /\ rows \in [Keys -> Row] /\ faults \in Nat
  /\ actor \in [Actors -> Local]

\* The event loop is between creating job j and handing it to a task, or is
\* publishing a result for it.
LoopHolds(j) ==
  /\ me.job = j
  /\ \/ me.pc \in {"savePending", "claim", "submit", "attach", "startFailed",
                   "failStart", "commit"}
     \/ me.pc \in {"cleanup", "signal", "orphans"} /\ me.after = "commit"

TaskWillPublish(j) == task[j] \in {"queued", "model"} /\ j \notin cancelRequested

\* A state that waits for a job always has something running that will
\* publish it or is popped with it: "A durable pending record without a
\* runnable job would poll forever" (complete, _commit_terminal, cancel).
PendingHasRunnableJob ==
  \A s \in Sessions : state[s].active \in Jobs =>
     LoopHolds(state[s].active) \/ TaskWillPublish(state[s].active)

\* The result of a job whose session was cancelled or expired in the meantime
\* is never published, not even into a later attempt of the same session
\* (_commit_terminal compares the job id under the lock).
RevokedJobNeverPublishes ==
  [][\A s \in Sessions :
       /\ At(Loop, "commit")
       /\ state[s].decision = "none" /\ state'[s].decision # "none"
       => me.job \notin revoked]_vars

\* Jobs are taken in only when no row of an earlier life of the process is in
\* flight, so a new run never trips over the one-active-row index
\* (_startup_cleanup_complete, complete's readiness check).
EarlierRunsAreClosed ==
  intake \/ At(Loop, "savePending") =>
    \A k \in Keys : k[1] < run => rows[k].status \notin InFlight

\* A job's evidence is referenced only by the state waiting for it, the
\* handler or task working on it, or the thread about to dispose of it: no
\* ending (publication, cancel, expiry, failed start) leaves it behind.
EvidenceIsHeld ==
  \A j \in evidence :
     \/ \E s \in Sessions : state[s].active = j
     \/ LoopHolds(j) \/ (me.job = j /\ At(Loop, "persist"))
     \/ task[j] \in {"queued", "model", "publishing"}
     \/ \E a \in Actors : j \in JobsOf(actor[a].todo)

\* With a database, a session never answers "pending" for ever, whatever the
\* model does: the result, a cancel or the TTL ends it (maintenance_loop), as
\* long as the event loop turns.
PendingEnds ==
  \A s \in Sessions : state[s].status = "pending" ~> state[s].status # "pending"

\* An in-flight row is eventually settled, even if every step that should
\* have settled it failed: by the orphan cleanup of the maintenance loop.
\* (What a life of the process that died leaves is EarlierRunsAreClosed's.)
RowsSettle ==
  \A k \in Keys : rows[k].status \in InFlight ~> rows[k].status \notin InFlight

\* Evidence is eventually disposed of although a model call may never answer
\* (the TTL pops the state and cancels the task), if handlers finish.
EvidenceDisposed ==
  HandlerFairness => \A j \in Jobs : j \in evidence ~> j \notin evidence

-----------------------------------------------------------------------------
(* What the documentation says and the code does not do.                    *)

\* "API startup ... existing pending|running rows end as service_restart"
\* (apps/api/README.md): no row of the present life is closed that way.
RestartFailsOnlyEarlierRuns ==
  \A k \in Keys : rows[k].reason = "service_restart" => k[1] < run

\* An in-flight row of the present life has a waiting state or somebody who
\* is about to settle it, as long as the database has not failed ("A durable
\* pending record without a runnable job would poll forever", complete).
InFlightRowHasOwner ==
  faults = 0 =>
    \A s \in Sessions : rows[Key(s)].status \in InFlight =>
      \/ state[s].status = "pending"
      \/ me.session = s /\ ~At(Loop, "idle")
      \/ \E a \in Actors : \/ At(a, "markCancelled") /\ actor[a].session = s
                           \/ \E e \in actor[a].todo : e.session = s

\* "A durable pending record without a runnable job would poll forever"
\* (complete): every state that answers "pending" has a job.
PendingHasJob ==
  \A s \in Sessions : state[s].status = "pending" => state[s].active \in Jobs
=============================================================================

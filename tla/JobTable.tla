------------------------------ MODULE JobTable ------------------------------
(***************************************************************************)
(* The table recommendation_job_v2 and the SQL statements of               *)
(* PostgresDecisionPersistence, one operator per statement.  A table is a  *)
(* function from keys to rows; a key <<run, session>> stands for the       *)
(* decision_request_id, which is a digest of the process's run scope and   *)
(* the session, so k[2] is the session_id column.  Every operator returns  *)
(* the table after the statement commits; the answer the statement gives   *)
(* is a second operator where the caller uses it.                          *)
(***************************************************************************)
EXTENDS Naturals

InFlight == {"pending", "running"}
Decisions == {"completed", "failed", "insufficient_data"}
Settled == Decisions \cup {"cancelled"}
RowStatus == {"absent"} \cup InFlight \cup Settled

\* failure_reason_code; "decision" stands for the reason code of a decision.
Reason == {"none", "decision", "cancelled", "service_restart",
           "orphan_cleanup", "job_start_failed"}

\* `old`: updated_at is behind the cutoff of the cleanup that applies to the
\* row, orphan_job_seconds in flight and job_retention_seconds once settled.
Row == [status : RowStatus, reason : Reason, old : BOOLEAN]

NoRow == [status |-> "absent", reason |-> "none", old |-> FALSE]

Written(status, reason) ==
  [status |-> status, reason |-> reason, old |-> FALSE]

-----------------------------------------------------------------------------
(* save_pending: INSERT ... ON CONFLICT DO NOTHING.  The primary key and    *)
(* the partial unique index on session_id over in-flight rows both stop it. *)
CanInsertPending(rows, k) ==
  /\ rows[k].status = "absent"
  /\ \A o \in DOMAIN rows : o[2] = k[2] => rows[o].status \notin InFlight

SavePending(rows, k) ==
  IF CanInsertPending(rows, k)
    THEN [rows EXCEPT ![k] = Written("pending", "none")]
    ELSE rows

\* After a conflict the row is read back by recommendation_id: any row of
\* this request, whatever its status, counts as saved.
PendingIsSaved(rows, k) ==
  CanInsertPending(rows, k) \/ rows[k].status # "absent"

(* claim_job: pending -> running, at most once.                             *)
CanClaim(rows, k) == rows[k].status = "pending"

Claim(rows, k) ==
  IF CanClaim(rows, k)
    THEN [rows EXCEPT ![k] = Written("running", "none")]
    ELSE rows

-----------------------------------------------------------------------------
(* The conditional terminal transition shared by every closing statement:   *)
(* UPDATE ... WHERE status IN ('pending', 'running').                       *)
\* Mutant: no status condition.
SettleAny(rows, K, status, reason) ==
  [k \in DOMAIN rows |-> IF k \in K THEN Written(status, reason) ELSE rows[k]]

Settle(rows, K, status, reason) ==
  [k \in DOMAIN rows |->
     IF k \in K /\ rows[k].status \in InFlight
       THEN Written(status, reason)
       ELSE rows[k]]

\* save_decision inserts the terminal row when there is none.
SaveDecision(rows, k, decision) ==
  IF rows[k].status = "absent"
    THEN [rows EXCEPT ![k] = Written(decision, "decision")]
    ELSE Settle(rows, {k}, decision, "decision")

MarkCancelled(rows, k) == Settle(rows, {k}, "cancelled", "cancelled")

FailJob(rows, k, reason) == Settle(rows, {k}, "failed", reason)

MarkInflightFailed(rows) ==
  Settle(rows, DOMAIN rows, "failed", "service_restart")

\* Mutant: only running rows are looked at.
CleanupRunningJobs(rows) ==
  Settle(rows, {k \in DOMAIN rows : rows[k].old /\ rows[k].status = "running"},
         "failed", "orphan_cleanup")

CleanupOrphanJobs(rows) ==
  Settle(rows, {k \in DOMAIN rows : rows[k].old}, "failed", "orphan_cleanup")

CleanupRetention(rows) ==
  [k \in DOMAIN rows |->
     IF rows[k].status \in Settled /\ rows[k].old THEN NoRow ELSE rows[k]]
=============================================================================

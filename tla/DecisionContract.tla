-------------------------- MODULE DecisionContract --------------------------
(***************************************************************************)
(* What the recommendation API promises, free of jobs, threads and locks.  *)
(*                                                                         *)
(* `view` is what GET /recommendation answers for a session, `life` the    *)
(* status of each durable row and `said` the decisions the API has held    *)
(* for a decision_request_id.  `run` numbers the process's lives.          *)
(***************************************************************************)
EXTENDS JobTable

CONSTANTS Sessions, Runs

VARIABLES run, view, life, said

vars == <<run, view, life, said>>

Keys == Runs \X Sessions

Init ==
  /\ run \in Runs
  /\ view = [s \in Sessions |-> "none"]
  /\ life = [k \in Keys |-> "absent"]
  /\ said = [k \in Keys |-> {}]

\* A decision is never replaced by another answer, only withdrawn, and
\* nothing is answered that is not recorded in `said`.
ViewStep(s) ==
  \/ view'[s] = view[s]
  \/ view'[s] = "none"
  \/ view[s] = "none" /\ view'[s] = "pending"
  \/ /\ view[s] \in {"none", "pending"}
     /\ view'[s] \in Decisions
     /\ view'[s] \in said'[<<run, s>>]

\* A session starts one durable request at a time, runs it once, and settles
\* it once.  A completed or insufficient-data row was answered to the client
\* first, and the only way out of a settled row is its deletion.
LifeStep(k) ==
  \/ life'[k] = life[k]
  \/ /\ life[k] = "absent" /\ life'[k] = "pending"
     /\ \A o \in Keys : o[2] = k[2] => life[o] \notin InFlight
  \/ life[k] = "pending" /\ life'[k] = "running"
  \/ life[k] \in InFlight /\ life'[k] \in {"failed", "cancelled"}
  \/ /\ life[k] \in {"absent"} \cup InFlight
     /\ life'[k] \in said[k]
  \/ life[k] \in Settled /\ life'[k] = "absent"

Next ==
  /\ \A s \in Sessions : ViewStep(s)
  /\ \A k \in Keys : LifeStep(k) /\ said[k] \subseteq said'[k]
  /\ run' \in Runs

Spec == Init /\ [][Next]_vars
=============================================================================

----------------------- MODULE RecommendationContract -----------------------
(***************************************************************************)
(* RecommendationJobs implements DecisionContract.  The contract speaks of *)
(* the decisions answered so far, which the program does not keep: `said`  *)
(* is a history variable that only records them.                           *)
(***************************************************************************)
EXTENDS RecommendationJobs

VARIABLE said  \* decisions a state has held, per decision_request_id

HistoryInit == Init /\ said = [k \in Keys |-> {}]

\* Whatever decision a state of this run holds after a step is recorded.
Records ==
  said' = [k \in Keys |->
             IF k[1] = run
               THEN said[k] \cup ({state'[k[2]].decision} \cap Decisions)
               ELSE said[k]]

HistoryNext == Next /\ Records

HistorySpec == HistoryInit /\ [][HistoryNext]_<<vars, said>>

\* Bound: a later life of the process is followed until it takes jobs in and
\* knows a session: what went before, its start-up, is whole.
UntilNextSession ==
  \/ run = 1
  \/ ~intake
  \/ \A s \in Sessions : state[s].status = "absent" /\ rows[Key(s)].status = "absent"

\* What GET /recommendation answers for a session.
View(s) ==
  IF state[s].status = "pending" THEN "pending" ELSE state[s].decision

Contract == INSTANCE DecisionContract
              WITH view <- [s \in Sessions |-> View(s)],
                   life <- [k \in Keys |-> rows[k].status]

\* What a client and an operator see obeys DecisionContract: a decision is
\* never replaced, a settled row never changes, and no row is completed with
\* a decision the API did not answer first.
ContractSpec == Contract!Spec
=============================================================================

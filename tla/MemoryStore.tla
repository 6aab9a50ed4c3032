----------------------------- MODULE MemoryStore -----------------------------
(* The v1 session store of the API (apps/api/app/store.py): sessions that    *)
(* collect reaction batches until they are completed, the recommendation an  *)
(* engine then makes of the folded reactions, and what hangs on it, the      *)
(* conversions and the manager's product requests. Every operation runs      *)
(* under the store's lock, so it is one action; one that is refused (404,    *)
(* 409 and the mismatches) changes nothing and is no action. The n-th        *)
(* session is n, and its recommendation, named after it, is n too. A batch   *)
(* is [id, events], its events as in AttentionFeatures, with distinct ids    *)
(* and sequences in one batch (schemas.ReactionBatch).                       *)
EXTENDS AttentionFeatures, SequencesExt, Selection

CONSTANTS Batches,     \* the batches a kiosk may send, any number of times, in any order
          Outcomes,    \* outcome ids of conversions
          Requests,    \* request ids of the manager's product requests
          MaxSessions  \* bound of the checked instances: sessions ever created

\* An event of the schema, and what it says of the events of one batch.
IsEvent(e) ==
  /\ {e.seq, e.epoch, e.bucket} \subseteq Int /\ e.confidence \in 0..MaxConfidence
  /\ Len(e.candidates) \in Nat /\ DOMAIN e.candidates = 1..Len(e.candidates)

StoreAssumption ==
  /\ IsFiniteSet(Products) /\ Products \subseteq Int /\ MaxContiguousGap \in Nat
  /\ \A batch \in Batches :
       LET es == batch.events
       IN /\ Len(es) \in Nat /\ es \in [1..Len(es) -> ToSet(es)]
          /\ \A i \in DOMAIN es : IsEvent(es[i])
          /\ \A i, j \in DOMAIN es : es[i].id = es[j].id \/ es[i].seq = es[j].seq => i = j

VARIABLES
  engine,        \* the configured recommendation engine
  sessions,      \* self.sessions: a sequence of records
  conversions,   \* self.conversions
  managerEvents, \* self.manager_events, in order of their sequence
  requests,      \* self.manager_requests
  folded         \* history: the events each session accepted

vars == <<engine, sessions, conversions, managerEvents, requests, folded>>

Numbers == DOMAIN sessions

NewSession ==
  [completed |-> FALSE, status |-> "pending", items |-> <<>>, features |-> NoFeatures,
   eventIds |-> {}, sequences |-> {}, batchIds |-> {}]

Init ==
  /\ engine \in {"mock", "research_version"}
  /\ sessions = <<>>
  /\ conversions = {}
  /\ managerEvents = <<>>
  /\ requests = {}
  /\ folded = <<>>

CreateSession ==
  /\ Len(sessions) < MaxSessions
  /\ sessions' = Append(sessions, NewSession)
  /\ folded' = Append(folded, {})
  /\ UNCHANGED <<engine, conversions, managerEvents, requests>>

NewEvents(session, batch) ==
  Among(batch.events, {e \in ToSet(batch.events) : e.id \notin session.eventIds})

\* A known batch is answered "duplicate" without a look at its events; one
\* with no new event is remembered and answered "duplicate" too.
AppendBatch(s, batch) ==
  LET session == sessions[s]
      new == NewEvents(session, batch)
  IN /\ ~session.completed
     /\ batch.id \notin session.batchIds
     /\ \A i \in DOMAIN new : new[i].seq \notin session.sequences
     /\ sessions' = [sessions EXCEPT ![s] =
          [session EXCEPT !.batchIds = @ \cup {batch.id},
                          !.eventIds = @ \cup {e.id : e \in ToSet(new)},
                          !.sequences = @ \cup {e.seq : e \in ToSet(new)},
                          !.features = FoldLeft(Accept, @, new)]]
     /\ folded' = [folded EXCEPT ![s] = @ \cup ToSet(new)]
     /\ UNCHANGED <<engine, conversions, managerEvents, requests>>

Items(features) == IF engine = "mock" THEN MockItems(features) ELSE ResearchItems(features)

\* Mutant: a session can be completed again.
CompleteAgain(s) ==
  LET items == Items(sessions[s].features)
  IN /\ sessions' = [sessions EXCEPT ![s] =
          [NewSession EXCEPT !.completed = TRUE, !.items = items,
                             !.status = IF items = <<>> THEN "insufficient_data" ELSE "completed"]]
     /\ UNCHANGED <<engine, conversions, managerEvents, requests, folded>>
\* The reactions are forgotten in the step that makes the recommendation.
CompleteSession(s) ==
  LET items == Items(sessions[s].features)
  IN /\ ~sessions[s].completed
     /\ sessions' = [sessions EXCEPT ![s] =
          [NewSession EXCEPT !.completed = TRUE, !.items = items,
                             !.status = IF items = <<>> THEN "insufficient_data" ELSE "completed"]]
     /\ UNCHANGED <<engine, conversions, managerEvents, requests, folded>>

\* Mutant: the product is not looked up in the recommendation.
RecordAnyConversion(id, s, recommendation, product) ==
  /\ \A c \in conversions : c.id # id
  /\ sessions[s].status = "completed"
  /\ recommendation = s
  /\ conversions' = conversions
       \cup {[id |-> id, session |-> s, recommendation |-> recommendation, product |-> product]}
  /\ UNCHANGED <<engine, sessions, managerEvents, requests, folded>>
\* An outcome recorded before is returned when equal and refused (409) when not.
RecordConversion(id, s, recommendation, product) ==
  /\ \A c \in conversions : c.id # id
  /\ sessions[s].status = "completed"
  /\ recommendation = s
  /\ product \in ToSet(sessions[s].items)
  /\ conversions' = conversions
       \cup {[id |-> id, session |-> s, recommendation |-> recommendation, product |-> product]}
  /\ UNCHANGED <<engine, sessions, managerEvents, requests, folded>>

\* Mutant: a retried request is not recognised.
RequestAgain(id, s, recommendation) ==
  /\ Len(managerEvents) < 3
  /\ sessions[s].status = "completed"
  /\ recommendation = s
  /\ managerEvents' = Append(managerEvents,
       [id |-> id, sequence |-> Len(managerEvents), session |-> s, items |-> sessions[s].items])
  /\ requests' = requests \cup {[id |-> id, session |-> s, recommendation |-> recommendation]}
  /\ UNCHANGED <<engine, sessions, conversions, folded>>
\* A request id seen before is answered without another event, or refused.
RequestManagerProduct(id, s, recommendation) ==
  /\ \A r \in requests : r.id # id
  /\ sessions[s].status = "completed"
  /\ recommendation = s
  /\ managerEvents' = Append(managerEvents,
       [id |-> id, sequence |-> Len(managerEvents), session |-> s, items |-> sessions[s].items])
  /\ requests' = requests \cup {[id |-> id, session |-> s, recommendation |-> recommendation]}
  /\ UNCHANGED <<engine, sessions, conversions, folded>>

\* list_manager_events
ListManagerEvents(after) ==
  Among(managerEvents, {e \in ToSet(managerEvents) : e.sequence > after})

Next ==
  \/ CreateSession
  \/ \E s \in Numbers :
       \/ \E batch \in Batches : AppendBatch(s, batch)
       \/ CompleteSession(s)
       \/ \E id \in Outcomes, r \in Numbers, p \in Products : RecordConversion(id, s, r, p)
       \/ \E id \in Requests, r \in Numbers : RequestManagerProduct(id, s, r)

Spec == Init /\ [][Next]_vars

-----------------------------------------------------------------------------
(* What the store promises *)

TypeOK ==
  /\ \A s \in Numbers : /\ sessions[s].status \in {"pending", "completed", "insufficient_data"}
                        /\ sessions[s].completed = (sessions[s].status # "pending")
                        /\ IsFiniteSet(sessions[s].eventIds)
  /\ \A c \in conversions : c.session \in Numbers /\ c.id \in Outcomes
  /\ \A r \in requests : r.session \in Numbers /\ r.id \in Requests
  /\ DOMAIN folded = Numbers

\* The features of a session's events, said without an order.
Looks(events, p) == {e \in events : p \in Named(e)}
At(e) == <<e.epoch, e.bucket>>
BucketOf(looks, k) ==
  LET in == {e \in looks : At(e) = k}
  IN [key |-> k, share |-> Max({Share(e) : e \in in}),
      confident |-> Max({e.confidence * Share(e) : e \in in})]
AttentionOf(looks, p) ==
  LET seen == {<<e.seq, IndexIn(e, p)>> : e \in looks}
  IN IF looks = {} THEN NoAttention
     ELSE [count |-> Cardinality(looks),
           confidence |-> SumFunction([e \in looks |-> e.confidence * Share(e)]),
           first |-> CHOOSE x \in seen : \A y \in seen \ {x} : Earlier(x, y),
           buckets |-> {BucketOf(looks, k) : k \in {At(e) : e \in looks}}]
FeaturesOf(events) == [p \in Products |-> AttentionOf(Looks(events, p), p)]

\* However a session's events were batched, repeated and reordered on their
\* way, what is kept of them is what the set of them says: nothing is counted
\* twice and no sample of a bucket overrules a stronger one.
FeaturesAreOfEvents ==
  \A s \in Numbers : ~sessions[s].completed => sessions[s].features = FeaturesOf(folded[s])

\* In one attention bucket the products together are looked at for no longer
\* than the bucket, whatever the candidates and the capture rate.
TimeIsBounded ==
  \A s \in Numbers :
    LET f == sessions[s].features
        buckets == UNION {{b.key : b \in f[p].buckets} : p \in Products}
    IN SumFunction([p \in Products |-> AttentionTime(f, p)]) <= Unit * Cardinality(buckets)

\* Every revisit is a gap too wide for a continuous look between two
\* neighbouring buckets, or the step from one playback epoch to another.
Gaps(f, p) ==
  LET keys == {b.key : b \in f[p].buckets}
  IN {k \in keys : \E j \in keys : /\ j[1] = k[1] /\ j[2] < k[2] - MaxContiguousGap
                                   /\ ~\E m \in keys : m[1] = k[1] /\ j[2] < m[2] /\ m[2] < k[2]}
RevisitsAreGaps ==
  \A s \in Numbers, p \in Products :
    LET f == sessions[s].features
        epochs == {b.key[1] : b \in f[p].buckets}
    IN epochs # {} => RevisitCount(f, p) = Cardinality(Gaps(f, p)) + Cardinality(epochs) - 1

\* The research engine never prefers a product that was looked at for less
\* time, with no more confidence and no more revisits.
Dominates(f, p, q) ==
  /\ AttentionTime(f, p) > AttentionTime(f, q)
  /\ ConfidentTime(f, p) * AttentionTime(f, q) >= ConfidentTime(f, q) * AttentionTime(f, p)
  /\ RevisitCount(f, p) >= RevisitCount(f, q)
RankingFollowsAttention ==
  \A s \in Numbers :
    LET f == sessions[s].features
        items == ResearchItems(f)
    IN \A i \in DOMAIN items : \A q \in Scored(f) :
         Dominates(f, q, items[i]) => q \in {items[j] : j \in 1..(i - 1)}

\* What a session's looks are turned into, and ranked by, is what they were.
FeaturesExact ==
  TypeOK /\ FeaturesAreOfEvents /\ TimeIsBounded /\ RevisitsAreGaps /\ RankingFollowsAttention

\* A recommendation a client has read stays what it was.
ResultsStay ==
  [][\A s \in Numbers : sessions[s].completed => sessions'[s] = sessions[s]]_vars

\* Conversions are of products the session was shown, one per outcome.
ConversionsAreOfResults ==
  /\ \A c \in conversions : c.product \in ToSet(sessions[c.recommendation].items)
  /\ \A c, d \in conversions : c.id = d.id => c = d

\* The events a manager polls are one for each accepted request, numbered
\* without a hole, with the products the session shows.
EventsAreRequests ==
  /\ \A i \in DOMAIN managerEvents :
       LET e == managerEvents[i]
       IN /\ e.sequence = i - 1
          /\ e.items = sessions[e.session].items
          /\ [id |-> e.id, session |-> e.session, recommendation |-> e.session] \in requests
          /\ \A j \in DOMAIN managerEvents : managerEvents[j].id = e.id => i = j
          /\ ListManagerEvents(e.sequence) = SubSeq(managerEvents, i + 1, Len(managerEvents))
  /\ Cardinality(requests) = Len(managerEvents)

\* The two logs of a session agree with what it was recommended.
LogsOfResults == ConversionsAreOfResults /\ EventsAreRequests

=============================================================================

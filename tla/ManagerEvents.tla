---------------------------- MODULE ManagerEvents ----------------------------
(* The manager's product requests of the v2 API and the screen that shows    *)
(* them: a kiosk asks for the product of the recommendation it shows (again  *)
(* when the answer is lost), V2RecommendationStore.request_manager_product   *)
(* reads the decision under its lock and hands it to the repository without  *)
(* it, the repository appends an event once, and the manager's page polls    *)
(* for events after its cursor (apps/manager/src). A recommendation is       *)
(*   [session, id, product]                                                  *)
(* with ids that never repeat; a request's id is made of its session and     *)
(* recommendation, so it is the recommendation's. Everything of the API is   *)
(* in memory and lost when it restarts.                                      *)
EXTENDS Integers, FiniteSets, SequencesExt, FiniteSetsExt, Selection

CONSTANTS Sessions, Products, None,
          MaxDecisions, \* bound: recommendations ever made
          MaxHandlers,  \* bound: requests handled at a time (threads)
          MaxFaults     \* bound: restarts, failed polls and reloads together

VARIABLES
  decision,  \* state.decision of each session, None when there is none
  known,     \* history: the recommendations kiosks were shown
  handlers,  \* requests between the two locks: [request, decision]
  events,    \* _manager_events_v2
  page,      \* the manager's page: what its poll is doing
  cursor,    \* cursorRef.current, None before the first event
  seen,      \* seenEventIds
  answer,    \* the events (then the views) the page is working on
  shown,     \* the requests on the screen, newest first
  restarted, \* history: the API restarted since the page was loaded
  faults

vars == <<decision, known, handlers, events, page, cursor, seen, answer, shown, restarted, faults>>
api == <<decision, known, handlers, events>>
screen == <<page, cursor, seen, answer, shown, restarted>>

Init ==
  /\ decision = [s \in Sessions |-> None]
  /\ known = {}
  /\ handlers = {}
  /\ events = <<>>
  /\ page = "idle" /\ cursor = None /\ seen = {} /\ answer = <<>> /\ shown = <<>>
  /\ restarted = FALSE
  /\ faults = 0

\* A session's job ends with a recommendation, its first or one of a new run.
Decide(s) ==
  /\ decision[s] = None
  /\ Cardinality(known) < MaxDecisions
  /\ \E p \in Products :
       LET d == [session |-> s, id |-> Cardinality(known), product |-> p]
       IN decision' = [decision EXCEPT ![s] = d] /\ known' = known \cup {d}
  /\ UNCHANGED <<handlers, events, screen, faults>>

\* cancel or cleanup_expired
Forget(s) ==
  /\ decision[s] # None
  /\ decision' = [decision EXCEPT ![s] = None]
  /\ UNCHANGED <<known, handlers, events, screen, faults>>

\* request_manager_product, under the store's lock: is there a completed decision?
ReadDecision(request) ==
  /\ Cardinality(handlers) < MaxHandlers
  /\ decision[request.session] # None
  /\ handlers' = handlers \cup {[request |-> request, decision |-> decision[request.session]]}
  /\ UNCHANGED <<decision, known, events, screen, faults>>

Requested(request) == \E i \in DOMAIN events : events[i].id = request.id

\* Mutant: an accepted request is not recognised when it is repeated.
RecordTwice(h) ==
  /\ Len(events) < 3
  /\ handlers' = handlers \ {h}
  /\ events' = IF h.request # h.decision THEN events
               ELSE Append(events, [id |-> h.request.id, sequence |-> Len(events),
                                    recommendation |-> h.request])
  /\ UNCHANGED <<decision, known, screen, faults>>
\* Mutant: the recommendation and product asked for are not compared.
RecordAny(h) ==
  /\ handlers' = handlers \ {h}
  /\ events' = IF Requested(h.request) THEN events
               ELSE Append(events, [id |-> h.request.id, sequence |-> Len(events),
                                    recommendation |-> [h.request EXCEPT !.product = h.decision.product]])
  /\ UNCHANGED <<decision, known, screen, faults>>
\* The repository's request_manager_product: a repeated request is answered
\* "duplicate", another recommendation or product is refused (400).
Record(h) ==
  /\ handlers' = handlers \ {h}
  /\ events' = IF Requested(h.request) \/ h.request # h.decision THEN events
               ELSE Append(events, [id |-> h.request.id, sequence |-> Len(events),
                                    recommendation |-> h.request])
  /\ UNCHANGED <<decision, known, screen, faults>>

\* The API process starts again: handlers end, everything in memory is gone.
Restart ==
  /\ faults < MaxFaults
  /\ decision' = [s \in Sessions |-> None]
  /\ handlers' = {}
  /\ events' = <<>>
  /\ restarted' = TRUE
  /\ faults' = faults + 1
  /\ UNCHANGED <<known, page, cursor, seen, answer, shown>>

-----------------------------------------------------------------------------
(* The page *)

After(sequence) ==
  Among(events, {e \in ToSet(events) : sequence = None \/ e.sequence > sequence})
\* The timer calls poll, and the API answers with the events after the cursor.
Poll ==
  /\ page = "idle"
  /\ page' = "answered"
  /\ answer' = After(cursor)
  /\ UNCHANGED <<api, cursor, seen, shown, restarted, faults>>

\* Mutant: the cursor is the sequence to come, not the last one.
ReceiveAhead ==
  /\ page = "answered"
  /\ page' = "products"
  /\ answer' = Among(answer, {e \in ToSet(answer) : e.id \notin seen})
  /\ seen' = seen \cup {answer[i].id : i \in DOMAIN answer}
  /\ cursor' = IF answer = <<>> THEN cursor ELSE 1 + Max({answer[i].sequence : i \in DOMAIN answer})
  /\ UNCHANGED <<api, shown, restarted, faults>>
\* Mutant: the page does not look at the events it has seen.
ReceiveAll ==
  /\ page = "answered"
  /\ page' = "products"
  /\ seen' = seen \cup {answer[i].id : i \in DOMAIN answer}
  /\ cursor' = IF answer = <<>> THEN cursor ELSE None
  /\ UNCHANGED <<api, answer, shown, restarted, faults>>
Receive ==
  /\ page = "answered"
  /\ page' = "products"
  /\ answer' = Among(answer, {e \in ToSet(answer) : e.id \notin seen})
  /\ seen' = seen \cup {answer[i].id : i \in DOMAIN answer}
  /\ cursor' = IF answer = <<>> THEN cursor
               ELSE Max({answer[i].sequence : i \in DOMAIN answer}
                        \cup {IF cursor = None THEN -1 ELSE cursor})
  /\ UNCHANGED <<api, shown, restarted, faults>>

\* Every product is fetched or, when that fails, left out of its view.
Show ==
  /\ page = "products"
  /\ page' = "idle"
  /\ shown' = answer \o shown
  /\ answer' = <<>>
  /\ UNCHANGED <<api, cursor, seen, restarted, faults>>

\* The list cannot be read: the page says so and polls again.
PollFails ==
  /\ page = "answered"
  /\ faults < MaxFaults
  /\ page' = "idle"
  /\ answer' = <<>>
  /\ faults' = faults + 1
  /\ UNCHANGED <<api, cursor, seen, shown, restarted>>

\* The page is loaded anew.
Reload ==
  /\ faults < MaxFaults
  /\ page' = "idle" /\ cursor' = None /\ seen' = {} /\ answer' = <<>> /\ shown' = <<>>
  /\ restarted' = FALSE
  /\ faults' = faults + 1
  /\ UNCHANGED api

Next ==
  \/ \E s \in Sessions : Decide(s) \/ Forget(s)
  \/ \E r \in known : ReadDecision(r)
  \/ \E h \in handlers : Record(h)
  \/ Restart \/ Reload
  \/ Poll \/ Receive \/ Show \/ PollFails

\* The page's timer and promises are served, and so are its products: a fetch
\* the API never answers is left out.
Fairness == WF_vars(Poll) /\ WF_vars(Receive) /\ WF_vars(Show)
Spec == Init /\ [][Next]_vars /\ Fairness

-----------------------------------------------------------------------------

TypeOK ==
  /\ known \subseteq [session : Sessions, id : 0..(MaxDecisions - 1), product : Products]
  /\ \A s \in Sessions : decision[s] # None => decision[s] \in known
  /\ \A h \in handlers : h.request \in known /\ h.decision \in known
  /\ \A i \in DOMAIN events : events[i].sequence = i - 1
  /\ page \in {"idle", "answered", "products"}

\* However late a request's second half runs, an event tells the manager of a
\* recommendation the session really got, with its product.
EventsAreOfRecommendations ==
  \A i \in DOMAIN events : events[i].recommendation \in known

\* A request makes one event, however often and how concurrently it is sent.
OneEventPerRequest ==
  \A i, j \in DOMAIN events : events[i].recommendation.id = events[j].recommendation.id => i = j

\* The screen shows a request once, across polls that overlap.
ShownOnce == \A i, j \in DOMAIN shown : shown[i].id = shown[j].id => i = j

OnItsWay == {shown[i].id : i \in DOMAIN shown} \cup {answer[i].id : i \in DOMAIN answer}

\* The cursor never passes an event that is neither shown nor about to be.
\* A restarted API counts from 0 again: until the page is loaded anew, the
\* cursor is one of the process before.
NothingSkipped ==
  ~restarted /\ cursor # None =>
    \A i \in DOMAIN events : events[i].sequence <= cursor => events[i].id \in OnItsWay

\* What the screen shows are the requests made, each once and none left out.
EventsExact ==
  TypeOK /\ EventsAreOfRecommendations /\ OneEventPerRequest /\ ShownOnce /\ NothingSkipped

\* Every event reaches the screen, unless the API restarts.
EventsReachTheScreen ==
  \A id \in 0..(MaxDecisions - 1) :
    (\E i \in DOMAIN events : events[i].id = id)
      ~> (restarted \/ \E i \in DOMAIN shown : shown[i].id = id)

=============================================================================

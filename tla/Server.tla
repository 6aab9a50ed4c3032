---------------------------------- MODULE Server ---------------------------------
(* The parts of the servers that share no state, side by side: a behaviour   *)
(* is of one part, track, chosen at the start, and the other parts stay as   *)
(* they begin. The gateway's stream server is extended; the v1 store, the    *)
(* manager's screen, the deployment and the database are instances.          *)
EXTENDS VisionStream

CONSTANTS
  Catalog, MaxContiguousGap, Batches, Outcomes, Requests, MaxSessions,  \* of the v1 store
  Sessions, Products, None, MaxDecisions, MaxHandlers, MaxPageFaults,   \* of the screen
  MaxReleases, MaxFaults,                                               \* of the deployment
  Required, Closing, MaxJobs, MaxRuns                                   \* of the database

VARIABLES
  track,
  engine, sessions, conversions, managerEvents, requests, folded,
  decision, known, handlers, events, page, cursor, seen, fetched, shown, restarted, pageFaults,
  step, target, previous, switched, link, running, log, built, verified, before, cut, killed, faults,
  applied, recorded, next, rows, assets, intake, jobs, started, probe, closed, runs

Store == INSTANCE MemoryStore WITH Products <- Catalog
Manager == INSTANCE ManagerEvents WITH
  MaxFaults <- MaxPageFaults, answer <- fetched, faults <- pageFaults
Release == INSTANCE Deployment
Database == INSTANCE CatalogDatabase

ASSUME StoreFits == Store!StoreAssumption

storeVars == <<engine, sessions, conversions, managerEvents, requests, folded>>
managerVars == <<decision, known, handlers, events, page, cursor, seen, fetched, shown,
                 restarted, pageFaults>>
releaseVars == <<step, target, previous, switched, link, running, log, built, verified,
                 before, cut, killed, faults>>
databaseVars == <<applied, recorded, next, rows, assets, intake, jobs, started, probe,
                  closed, runs>>
everything == <<track, vars, storeVars, managerVars, releaseVars, databaseVars>>

ServerInit ==
  /\ track \in {"stream", "store", "manager", "release", "database"}
  /\ track # "store" => engine = "mock"
  /\ Init /\ Store!Init /\ Manager!Init /\ Release!Init /\ Database!Init

ServerNext ==
  \/ track = "stream" /\ Next
     /\ UNCHANGED <<track, storeVars, managerVars, releaseVars, databaseVars>>
  \/ track = "store" /\ Store!Next
     /\ UNCHANGED <<track, vars, managerVars, releaseVars, databaseVars>>
  \/ track = "manager" /\ Manager!Next
     /\ UNCHANGED <<track, vars, storeVars, releaseVars, databaseVars>>
  \/ track = "release" /\ Release!Next
     /\ UNCHANGED <<track, vars, storeVars, managerVars, databaseVars>>
  \/ track = "database" /\ Database!Next
     /\ UNCHANGED <<track, vars, storeVars, managerVars, releaseVars>>

ServerSafety == ServerInit /\ [][ServerNext]_everything

\* The fairness of the page is that of its own part; nothing of the stream
\* server that is fair is enabled before its part begins.
ServerSpec ==
  /\ ServerSafety
  /\ LoopFairness
  /\ WF_managerVars(track = "manager" /\ Manager!Poll)
  /\ WF_managerVars(track = "manager" /\ Manager!Receive)
  /\ WF_managerVars(track = "manager" /\ Manager!Show)

\* Stated at the end of MemoryStore; a part that has not begun is left out.
FeaturesExact == track = "store" => Store!FeaturesExact
LogsOfResults == track = "store" => Store!LogsOfResults
ResultsStay == Store!ResultsStay

\* Stated at the end of ManagerEvents.
EventsExact == track = "manager" => Manager!EventsExact
EventsReachTheScreen == Manager!EventsReachTheScreen

\* Stated at the end of Deployment.
ReleaseIsSound == track = "release" => Release!ReleaseIsSound

\* Stated at the end of CatalogDatabase.
DatabaseIsSound == Database!DatabaseIsSound
=============================================================================

--------------------------- MODULE CatalogDatabase ---------------------------
(* The database beside the running API: the ordered migrations               *)
(* (scripts/db_migrate.py, each file one transaction, every run from the     *)
(* first), the catalog seed (scripts/db_seed_catalog.py, one transaction     *)
(* that never overwrites), an operator's reviews of catalog rows, and what   *)
(* the API reads of them to say whether it is ready (app/v2_postgres.py).    *)
(* Migration 3 is the one that adds the table of applied migrations and      *)
(* closes the jobs in flight; the last one is the required one.              *)
EXTENDS Integers, FiniteSets

CONSTANTS Products,  \* the canonical products
          Required,      \* number of the last migration, REQUIRED_MIGRATION_ID
          Closing,   \* number of the migration that closes jobs in flight
          MaxJobs,   \* bound: jobs ever started
          MaxRuns    \* bound: runs of the migrations, of the seed, and reviews

VARIABLES
  applied,  \* history: migrations whose statements took effect
  recorded, \* rows of mcm_schema_migration
  next,     \* the file db_migrate applies next, 0 when it does not run
  rows,     \* recommendation_catalog_v2 of the canonical revision
  assets,   \* recommendation_catalog_asset_v2 of that revision
  intake,   \* the API takes jobs (_startup_cleanup_complete)
  jobs,     \* pending and running rows of recommendation_job_v2
  started,  \* jobs ever started
  probe,    \* check_readiness between its queries, then its answer
  closed,   \* history: jobs a migration closed that are younger than the required one
  runs

vars == <<applied, recorded, next, rows, assets, intake, jobs, started, probe, closed, runs>>

Contents == {"absent", "canonical", "other"}

Init ==
  /\ applied = {} /\ recorded = {} /\ next = 0
  /\ rows = [p \in Products |-> "absent"]
  /\ assets = [p \in Products |-> "absent"]
  /\ intake = FALSE /\ jobs = {} /\ started = 0
  /\ probe = "idle" /\ closed = {}
  /\ runs = 0

BeginMigration ==
  /\ next = 0 /\ runs < MaxRuns
  /\ next' = 1 /\ runs' = runs + 1
  /\ UNCHANGED <<applied, recorded, rows, assets, intake, jobs, started, probe, closed>>

\* The rows a file adds: none before the table exists.
Recorded(n) == IF n < Closing THEN {} ELSE 1..n

\* Mutant: the files are applied from the last to the first.
FileAtReversed(n) == Required + 1 - n
FileAt(n) == n

ApplyFile ==
  LET n == FileAt(next) IN
  /\ next > 0
  /\ applied' = applied \cup {n}
  /\ recorded' = recorded \cup Recorded(n)
  /\ jobs' = IF n = Closing THEN {} ELSE jobs
  /\ closed' = IF n = Closing /\ Required \in recorded THEN closed \cup jobs ELSE closed
  /\ next' = IF next = Required THEN 0 ELSE next + 1
  /\ UNCHANGED <<rows, assets, intake, started, probe, runs>>

\* The tool ends between two files, or its file is rolled back.
MigrationFails ==
  /\ next > 0
  /\ next' = 0
  /\ UNCHANGED <<applied, recorded, rows, assets, intake, jobs, started, probe, closed, runs>>

\* Mutant: the seed updates the rows it finds.
Overwritten(table) == [p \in Products |-> "canonical"]
Inserted(table) == [p \in Products |-> IF table[p] = "absent" THEN "canonical" ELSE table[p]]
Canonical(table) == \A p \in Products : table[p] = "canonical"

\* One transaction: what differs rolls it back, the rows of the catalog too.
Seed(table, other) ==
  /\ runs < MaxRuns
  /\ rows' = table
  /\ assets' = other
  /\ Canonical(table) /\ (other = assets \/ Canonical(other))
  /\ runs' = runs + 1
  /\ UNCHANGED <<applied, recorded, next, intake, jobs, started, probe, closed>>
SeedCatalog == 1 \in applied /\ Seed(Inserted(rows), assets)
SeedWithAssets == 2 \in applied /\ Seed(Inserted(rows), Inserted(assets))

\* Someone adds or edits rows of the catalog by hand.
Review(p) ==
  /\ runs < MaxRuns /\ 2 \in applied
  /\ \/ /\ rows[p] # "other"
        /\ \E c \in {"canonical", "other"} \ {rows[p]} : rows' = [rows EXCEPT ![p] = c]
        /\ UNCHANGED assets
     \/ /\ assets[p] = "absent"
        /\ assets' = [assets EXCEPT ![p] = "other"]
        /\ UNCHANGED rows
  /\ runs' = runs + 1
  /\ UNCHANGED <<applied, recorded, next, intake, jobs, started, probe, closed>>

-----------------------------------------------------------------------------
(* The API *)

\* initialize_runtime: intake opens once the jobs of the run before are closed.
StartApi ==
  /\ IF Required \in recorded THEN intake' = TRUE /\ jobs' = {}
     ELSE intake' = FALSE /\ UNCHANGED jobs
  /\ UNCHANGED <<applied, recorded, next, rows, assets, started, probe, closed, runs>>

StartJob ==
  /\ intake /\ started < MaxJobs
  /\ started' = started + 1
  /\ jobs' = jobs \cup {started + 1}
  /\ UNCHANGED <<applied, recorded, next, rows, assets, intake, probe, closed, runs>>

EndJob(j) ==
  /\ jobs' = jobs \ {j}
  /\ UNCHANGED <<applied, recorded, next, rows, assets, intake, started, probe, closed, runs>>

\* check_readiness: the migrations in one query, the rows in a later one.
ProbeMigration ==
  /\ probe # "migrated"
  /\ probe' = IF Required \in recorded THEN "migrated" ELSE "migration_version_mismatch"
  /\ UNCHANGED <<applied, recorded, next, rows, assets, intake, jobs, started, closed, runs>>

\* Mutant: rows that are missing are not missed.
CatalogProblemLoose(table) ==
  IF \E p \in Products : table[p] = "other" THEN "catalog_content_mismatch" ELSE "none"
CatalogProblem(table) ==
  IF \A p \in Products : table[p] = "absent" THEN "catalog_revision_mismatch"
  ELSE IF \E p \in Products : table[p] = "absent" THEN "catalog_count_mismatch"
  ELSE IF ~Canonical(table) THEN "catalog_content_mismatch" ELSE "none"

ProbeCatalog ==
  /\ probe = "migrated"
  /\ probe' = IF CatalogProblem(rows) # "none" THEN CatalogProblem(rows)
              ELSE IF intake THEN "ready" ELSE "job_intake_unavailable"
  /\ UNCHANGED <<applied, recorded, next, rows, assets, intake, jobs, started, closed, runs>>

Next ==
  \/ BeginMigration \/ ApplyFile \/ MigrationFails
  \/ SeedCatalog \/ SeedWithAssets
  \/ \E p \in Products : Review(p)
  \/ StartApi \/ StartJob \/ ProbeMigration \/ ProbeCatalog
  \/ \E j \in jobs : EndJob(j)

Spec == Init /\ [][Next]_vars

-----------------------------------------------------------------------------

TypeOK ==
  /\ applied \subseteq 1..Required /\ recorded \subseteq 1..Required
  /\ next \in 0..Required
  /\ rows \in [Products -> Contents] /\ assets \in [Products -> Contents]
  /\ intake \in BOOLEAN /\ jobs \subseteq 1..MaxJobs

\* The required migration is on record only when all before it are in force,
\* wherever a run of the tool stopped: so an API that is ready, or takes jobs,
\* works on the whole schema.
RecordedIsApplied ==
  /\ \A n \in recorded : 1..n \subseteq applied
  /\ intake \/ probe = "ready" => applied = 1..Required

\* Ready was true when the rows were read: in that step they were canonical.
ReadyIsCanonical ==
  [][probe' = "ready" /\ probe # "ready" => Canonical(rows) /\ intake]_vars

\* A row someone reviewed and changed is never put back, by the seed or a
\* migration, and neither is an asset's.
ReviewedRowsStay ==
  [][\A p \in Products : /\ rows[p] = "other" => rows'[p] = "other"
                         /\ assets[p] = "other" => assets'[p] = "other"]_vars

\* The rows the API serves are the reviewed ones, on the whole schema.
DatabaseIsSound == [](TypeOK /\ RecordedIsApplied) /\ ReadyIsCanonical /\ ReviewedRowsStay

\* 0003_api_db_operations.sql says it closes records from before the migration.
OnlyOlderJobsClosed == closed = {}

=============================================================================

----------------------------- MODULE Deployment -----------------------------
(* A release on the production server (deploy/deploy-release.sh): prepare,   *)
(* build, switch the link, start the services, verify, and on a failure      *)
(* after the switch put the release before back. Deployments run one at a    *)
(* time (the workflow's concurrency group); release n is the n-th            *)
(* deployment's, release 0 is there from the start. A step is a command: a   *)
(* trapped signal is taken between two of them, a HUP or KILL ends the       *)
(* script there, and so does any signal once the rollback runs.              *)
EXTENDS Integers, FiniteSets

CONSTANTS MaxReleases, \* bound: deployments
          MaxFaults    \* bound: signals and commands that fail

VARIABLES
  step,     \* the command to run next, "ended" between deployments
  target,   \* release_path
  previous, \* previous_release
  switched,
  link,     \* the release /srv/mcm/current points to
  running,  \* the release whose services run, Mixed after a start that failed halfway
  log,      \* how the last deployment ended
  built,    \* history: releases whose images are all built
  verified, \* history: releases that passed every check while they ran
  before,   \* history: link and running when the deployment began
  cut,      \* history: a signal came between the switch and its mark
  killed,   \* history: a deployment ended without the script's own handling
  faults

vars == <<step, target, previous, switched, link, running, log, built, verified,
          before, cut, killed, faults>>

Releases == 0..MaxReleases
Mixed == -1
Steps == {"ended", "check", "prepare", "build", "link", "mark", "up", "verify",
          "rollback", "relink", "reup"}

Init ==
  /\ step = "ended" /\ target = 0 /\ previous = 0 /\ switched = FALSE
  /\ link = 0 /\ running = 0
  /\ log = "healthy"
  /\ built = {0} /\ verified = {0}
  /\ before = [link |-> 0, running |-> 0]
  /\ cut = FALSE /\ killed = FALSE
  /\ faults = 0

Start ==
  /\ step = "ended"
  /\ target < MaxReleases
  /\ target' = target + 1
  /\ step' = "check"
  /\ switched' = FALSE
  /\ before' = [link |-> link, running |-> running]
  /\ cut' = FALSE
  /\ log' = "running"
  /\ UNCHANGED <<previous, link, running, built, verified, killed, faults>>

\* Arguments and files are checked and the current release is read.
CheckOk ==
  /\ step = "check"
  /\ previous' = link
  /\ step' = "prepare"
  /\ UNCHANGED <<target, switched, link, running, log, built, verified, before, cut, killed, faults>>

\* Mutant: the switch comes before the images are built.
PrepareThenLink ==
  /\ step = "prepare"
  /\ step' = "link"
  /\ UNCHANGED <<target, previous, switched, link, running, log, built, verified, before, cut, killed, faults>>
PrepareOk ==
  /\ step = "prepare"
  /\ step' = "build"
  /\ UNCHANGED <<target, previous, switched, link, running, log, built, verified, before, cut, killed, faults>>

BuildOk ==
  /\ step = "build"
  /\ built' = built \cup {target}
  /\ step' = "link"
  /\ UNCHANGED <<target, previous, switched, link, running, log, verified, before, cut, killed, faults>>

LinkOk ==
  /\ step = "link"
  /\ link' = target
  /\ step' = "mark"
  /\ UNCHANGED <<target, previous, switched, running, log, built, verified, before, cut, killed, faults>>

\* Mutant: the switch is marked only once the services were started.
MarkLate ==
  /\ step = "mark"
  /\ step' = "up"
  /\ UNCHANGED <<target, previous, switched, link, running, log, built, verified, before, cut, killed, faults>>
Mark ==
  /\ step = "mark"
  /\ switched' = TRUE
  /\ step' = "up"
  /\ UNCHANGED <<target, previous, link, running, log, built, verified, before, cut, killed, faults>>

UpOk ==
  /\ step = "up"
  /\ running' = target
  /\ step' = "verify"
  /\ UNCHANGED <<target, previous, switched, link, log, built, verified, before, cut, killed, faults>>

\* Readiness, the kiosk's page, the film's range and every service.
VerifyOk ==
  /\ step = "verify"
  /\ verified' = verified \cup {target}
  /\ log' = "healthy"
  /\ step' = "ended"
  /\ UNCHANGED <<target, previous, switched, link, running, built, before, cut, killed, faults>>

Forward == {"check", "prepare", "build", "link", "mark", "up", "verify"}

\* The ERR trap. A start that fails may have replaced some services.
CommandFails ==
  /\ step \in Forward \ {"mark"}
  /\ faults < MaxFaults
  /\ faults' = faults + 1
  /\ step' = "rollback"
  /\ running' \in IF step = "up" THEN {running, Mixed} ELSE {running}
  /\ UNCHANGED <<target, previous, switched, link, log, built, verified, before, cut, killed>>

\* A bad argument or a current link outside the releases: exit 64 or 65, no trap.
Refused ==
  /\ step \in {"check", "prepare"}
  /\ faults < MaxFaults
  /\ faults' = faults + 1
  /\ step' = "ended"
  /\ log' = "unchanged"
  /\ UNCHANGED <<target, previous, switched, link, running, built, verified, before, cut, killed>>

\* INT and TERM are trapped.
Signal ==
  /\ step \in Forward
  /\ faults < MaxFaults
  /\ faults' = faults + 1
  /\ step' = "rollback"
  /\ cut' = (step = "mark")
  /\ UNCHANGED <<target, previous, switched, link, running, log, built, verified, before, killed>>

\* HUP and KILL are not, and rollback takes the traps away.
Killed ==
  /\ step # "ended"
  /\ faults < MaxFaults
  /\ faults' = faults + 1
  /\ step' = "ended"
  /\ log' = "killed"
  /\ killed' = TRUE
  /\ UNCHANGED <<target, previous, switched, link, running, built, verified, before, cut>>

Rollback ==
  /\ step = "rollback"
  /\ IF switched THEN step' = "relink" /\ UNCHANGED log
     ELSE step' = "ended" /\ log' = "unchanged"
  /\ UNCHANGED <<target, previous, switched, link, running, built, verified, before, cut, killed, faults>>

\* Mutant: the link is left at the failed release.
RelinkNot ==
  /\ step = "relink"
  /\ step' = "reup"
  /\ UNCHANGED <<target, previous, switched, link, running, log, built, verified, before, cut, killed, faults>>
Relink ==
  /\ step = "relink"
  /\ link' = previous
  /\ step' = "reup"
  /\ UNCHANGED <<target, previous, switched, running, log, built, verified, before, cut, killed, faults>>

\* The services of the release before, and whether they become ready.
Reup ==
  /\ step = "reup"
  /\ step' = "ended"
  /\ \/ running' = previous /\ log' \in {"rolled_back", "not_recovered"} /\ UNCHANGED faults
     \/ /\ faults < MaxFaults
        /\ faults' = faults + 1
        /\ running' \in {running, Mixed}
        /\ log' = "not_recovered"
  /\ UNCHANGED <<target, previous, switched, link, built, verified, before, cut, killed>>

Next ==
  \/ Start \/ CheckOk \/ PrepareOk \/ BuildOk \/ LinkOk \/ Mark \/ UpOk \/ VerifyOk
  \/ CommandFails \/ Refused \/ Signal \/ Killed
  \/ Rollback \/ Relink \/ Reup

Spec == Init /\ [][Next]_vars

-----------------------------------------------------------------------------

TypeOK ==
  /\ step \in Steps
  /\ {target, previous, link} \subseteq Releases
  /\ running \in Releases \cup {Mixed}
  /\ log \in {"running", "healthy", "unchanged", "rolled_back", "not_recovered", "killed"}
  /\ built \subseteq Releases /\ verified \subseteq Releases
  /\ switched \in BOOLEAN /\ cut \in BOOLEAN /\ killed \in BOOLEAN

\* A host that is started anew finds images behind the link, whatever the
\* deployment was doing when it went down.
LinkIsBuilt == link \in built

\* What the log says of a deployment's end is what is there: a healthy or
\* rolled back release is both linked and running, and before the switch
\* nothing changed. The exception is a signal right after ln (cut).
LogIsTrue ==
  step = "ended" =>
    /\ log \in {"healthy", "rolled_back"} => link = running
    /\ log = "healthy" => link \in verified
    /\ log = "rolled_back" => link = before.link
    /\ log = "unchanged" /\ ~cut => before = [link |-> link, running |-> running]

\* As long as no script was killed, what a rollback puts back is a release
\* that passed its checks, and a failed one never stays behind the link.
RestoresVerified ==
  ~killed /\ step = "ended" /\ ~cut /\ before.link \in verified => link \in verified

\* A deployment ends with a release that works, or says that it did not.
ReleaseIsSound == TypeOK /\ LinkIsBuilt /\ LogIsTrue /\ RestoresVerified

=============================================================================

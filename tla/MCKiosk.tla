------------------------------- MODULE MCKiosk -------------------------------
(* The kiosk: a behaviour is of the application with its camera, or of its   *)
(* client of the vision gateway, which the application's model takes as      *)
(* external: track is chosen at the start, the other part stays as it begins.*)
EXTENDS KioskFlow, VisionClient

VARIABLE track

MCInit == track \in {"application", "client"} /\ Init /\ ClientInit

MCNext ==
  \/ track = "application" /\ Next /\ UNCHANGED <<track, clientVars>>
  \/ track = "client" /\ ClientNext /\ UNCHANGED <<track, vars>>

\* At the start nothing that is fair is enabled in either part.
MCSpec == MCInit /\ [][MCNext]_<<track, vars, clientVars>> /\ Fairness /\ ClientFairness
=============================================================================

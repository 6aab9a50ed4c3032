--------------------------- MODULE ObservationLog ---------------------------
(***************************************************************************)
(* What a caller of the v2 store may rely on while a session collects:      *)
(* what has been learnt about a frame is neither changed nor dropped, and   *)
(* completion hands over exactly what was learnt.  No batches, no           *)
(* identifiers, no order.                                                   *)
(*                                                                         *)
(* A fact is a triple <<frame, field, value>>; a frame has one value per    *)
(* field.                                                                   *)
(***************************************************************************)
VARIABLES
  phase,   \* "none", "collecting" or "closed"
  known,   \* facts learnt in this life of the session
  given    \* facts handed to the recommendation

vars == <<phase, known, given>>

Init == phase = "none" /\ known = {} /\ given = {}

Consistent(facts) ==
  \A f, g \in facts : f[1] = g[1] /\ f[2] = g[2] => f[3] = g[3]

Learn ==
  /\ phase \in {"none", "collecting"} /\ phase' = "collecting"
  /\ known \subseteq known' /\ Consistent(known')
  /\ UNCHANGED given

HandOver ==
  /\ phase \in {"none", "collecting"} /\ phase' = "closed"
  /\ given' = known /\ known' = {}

Drop ==
  /\ phase # "none" /\ phase' = "none"
  /\ known' = {} /\ given' = {}

Next == Learn \/ HandOver \/ Drop

Spec == Init /\ [][Next]_vars
=============================================================================

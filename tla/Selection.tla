------------------------------ MODULE Selection ------------------------------
(* A list comprehension with a condition: the members of a sequence that are *)
(* in a set, in their order. A recursive function, so that what it computes  *)
(* for every sequence can be proved (Server_proofs).                         *)
EXTENDS Naturals, Sequences

Among(q, S) ==
  LET kept[i \in 0..Len(q)] ==
        IF i = 0 THEN <<>>
        ELSE IF q[i] \in S THEN Append(kept[i - 1], q[i]) ELSE kept[i - 1]
  IN kept[Len(q)]
=============================================================================

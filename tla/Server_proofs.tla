------------------------------ MODULE Server_proofs ------------------------------
(***************************************************************************)
(* Theorems about the parts around the API that the module Server puts side *)
(* by side: releases (Deployment), the database (CatalogDatabase), the      *)
(* manager's screen (ManagerEvents) and the v1 store (MemoryStore). Each    *)
(* part is proved about by itself; the section "Side by side" carries the   *)
(* results over to the specification that the run checks.                   *)
(***************************************************************************)
EXTENDS Server, Selection, Integers, FiniteSetTheorems, SequenceTheorems, WellFoundedInduction,
        TLAPS

-----------------------------------------------------------------------------
(* Sequences *)

\* A set of natural numbers has a least one: the induction of the lemmas below.
LEMMA Least ==
  ASSUME NEW T \in SUBSET Nat, T # {}
  PROVE  \E m \in T : \A n \in T : m <= n
<1>1. IsWellFoundedOn(OpToRel(<, Nat), Nat)
  BY NatLessThanWellFounded
<1>2. PICK x \in T : \A y \in T : ~(<<y, x>> \in OpToRel(<, Nat))
  BY <1>1, WFMin
<1>3. \A y \in T : ~(y < x)
  BY <1>2 DEF OpToRel
<1> QED BY <1>3

\* A set that holds 0, and with a number the next, holds all of them up to n.
LEMMA Steps ==
  ASSUME NEW n \in Nat, NEW T \in SUBSET (0..n), 0 \in T, \A i \in T : i < n => i + 1 \in T
  PROVE  T = 0..n
<1> SUFFICES ASSUME NEW x \in 0..n, x \notin T PROVE FALSE
  OBVIOUS
<1> DEFINE R == (0..n) \ T
<1>1. R \in SUBSET Nat /\ R # {}
  <2>1. x \in R
    OBVIOUS
  <2>2. 0..n \subseteq Nat
    OBVIOUS
  <2> QED
    BY <2>1, <2>2, Zenon
<1>2. PICK m \in R : \A k \in R : m <= k
  BY <1>1, Least
<1>3. m # 0 /\ m \in 0..n /\ m \notin T
  BY <1>2
<1>4. m - 1 \in 0..n /\ m - 1 \notin R
  BY <1>2, <1>3
<1>5. m - 1 \in T /\ m - 1 < n
  BY <1>3, <1>4
<1>6. (m - 1) + 1 \in T
  BY <1>5
<1> QED
  BY <1>3, <1>6

\* What Among has kept of the first members, one after the other.
Filters(kept, q, S, n) ==
  /\ kept[0] = <<>>
  /\ \A i \in 1..n : kept[i] = IF q[i] \in S THEN Append(kept[i - 1], q[i]) ELSE kept[i - 1]

\* The recursive function of Among exists, so it is what its body says.
LEMMA AmongUnfolds ==
  ASSUME NEW X, NEW q \in Seq(X), NEW S
  PROVE  \E kept \in [0..Len(q) -> Seq(X \cap S)] :
           Among(q, S) = kept[Len(q)] /\ Filters(kept, q, S, Len(q))
<1> DEFINE D == 0..Len(q)
           Body(f, i) == IF i = 0 THEN <<>>
                         ELSE IF q[i] \in S THEN Append(f[i - 1], q[i]) ELSE f[i - 1]
           kept == CHOOSE f : f = [i \in D |-> Body(f, i)]
           T == {n \in D : \E f \in [0..n -> Seq(X \cap S)] : Filters(f, q, S, n)}
<1>1. Among(q, S) = kept[Len(q)]
  BY DEF Among
<1>2. Len(q) \in Nat /\ \A i \in 1..Len(q) : q[i] \in X
  OBVIOUS
<1>3. T = 0..Len(q)
  <2>1. 0 \in T
    <3>1. [i \in 0..0 |-> <<>>] \in [0..0 -> Seq(X \cap S)]
      OBVIOUS
    <3>2. Filters([i \in 0..0 |-> <<>>], q, S, 0)
      BY DEF Filters
    <3>3. 0 \in D
      BY <1>2
    <3> QED
      BY <3>1, <3>2, <3>3, Zenon
  <2>2. ASSUME NEW n \in T, n < Len(q) PROVE n + 1 \in T
    <3>1. PICK f \in [0..n -> Seq(X \cap S)] : Filters(f, q, S, n)
      OBVIOUS
    <3> DEFINE v == IF q[n + 1] \in S THEN Append(f[n], q[n + 1]) ELSE f[n]
               g == [i \in 0..(n + 1) |-> IF i = n + 1 THEN v ELSE f[i]]
    <3>2. n \in Nat /\ n + 1 \in D /\ n + 1 \in 1..Len(q)
      BY <1>2, <2>2
    <3>3. v \in Seq(X \cap S)
      BY <1>2, <3>2
    <3> HIDE DEF v
    <3>4. g \in [0..(n + 1) -> Seq(X \cap S)]
      BY <3>2, <3>3
    <3>5. /\ g[n + 1] = v /\ g[n] = f[n] /\ g[0] = f[0]
          /\ \A i \in 1..n : g[i] = f[i] /\ g[i - 1] = f[i - 1]
      BY <3>2
    <3> HIDE DEF g
    <3>6. ASSUME NEW i \in 1..(n + 1)
          PROVE  g[i] = IF q[i] \in S THEN Append(g[i - 1], q[i]) ELSE g[i - 1]
      <4>1. CASE i = n + 1
        BY <3>2, <3>5, <4>1 DEF v
      <4>2. CASE i # n + 1
        <5>1. i \in 1..n
          BY <3>2, <4>2
        <5> QED
          BY <3>1, <3>5, <5>1 DEF Filters
      <4> QED
        BY <4>1, <4>2
    <3>7. Filters(g, q, S, n + 1)
      BY <3>1, <3>5, <3>6 DEF Filters
    <3> QED
      BY <3>2, <3>4, <3>7
  <2> HIDE DEF T
  <2>3. T \in SUBSET (0..Len(q))
    BY DEF T
  <2> QED
    BY <1>2, <2>1, <2>2, <2>3, Steps
<1>4. PICK f \in [D -> Seq(X \cap S)] : Filters(f, q, S, Len(q))
  <2>1. Len(q) \in T
    BY <1>2, <1>3
  <2> QED
    BY <2>1
<1>5. f = [i \in D |-> Body(f, i)]
  <2>1. ASSUME NEW i \in D
        PROVE  f[i] = Body(f, i)
    <3>1. CASE i = 0
      BY <1>4, <3>1 DEF Filters
    <3>2. CASE i # 0
      <4>1. i \in 1..Len(q)
        BY <1>2, <3>2
      <4> QED
        BY <1>4, <3>2, <4>1 DEF Filters
    <3> QED
      BY <3>1, <3>2
  <2> QED
    BY <1>4, <2>1
<1>6. kept = [i \in D |-> Body(kept, i)]
  BY <1>5
<1> HIDE DEF kept, T
<1>7. kept = f
  <2> DEFINE U == {i \in D : kept[i] = f[i]}
  <2>1. \A i \in D : kept[i] = Body(kept, i) /\ f[i] = Body(f, i)
    BY <1>5, <1>6
  <2>2. 0 \in U
    BY <1>2, <2>1
  <2>3. ASSUME NEW i \in U, i < Len(q) PROVE i + 1 \in U
    <3>1. i \in D /\ i + 1 \in D /\ i + 1 # 0 /\ (i + 1) - 1 = i /\ kept[i] = f[i]
      BY <1>2, <2>3
    <3> QED
      BY <2>1, <3>1
  <2>4. U \in SUBSET (0..Len(q))
    OBVIOUS
  <2> HIDE DEF U
  <2>5. U = D
    BY <1>2, <2>2, <2>3, <2>4, Steps
  <2>6. \A i \in D : kept[i] = f[i]
    BY <2>5 DEF U
  <2>7. DOMAIN kept = D /\ kept = [i \in DOMAIN kept |-> kept[i]]
    BY <1>6
  <2> QED
    BY <1>4, <2>6, <2>7
<1> QED
  BY <1>1, <1>4, <1>7

\* The members that are in the set, and those only; none of them twice when
\* none was there twice.
LEMMA AmongSelects ==
  ASSUME NEW X, NEW q \in Seq(X), NEW S
  PROVE  /\ Among(q, S) \in Seq(X \cap S)
         /\ \A i \in DOMAIN Among(q, S) : \E j \in DOMAIN q : Among(q, S)[i] = q[j]
         /\ \A j \in DOMAIN q : q[j] \in S => \E i \in DOMAIN Among(q, S) : Among(q, S)[i] = q[j]
         /\ (\A i, j \in DOMAIN q : q[i] = q[j] => i = j)
              => \A i, j \in DOMAIN Among(q, S) : Among(q, S)[i] = Among(q, S)[j] => i = j
<1>1. PICK kept \in [0..Len(q) -> Seq(X \cap S)] :
        Among(q, S) = kept[Len(q)] /\ Filters(kept, q, S, Len(q))
  BY AmongUnfolds
<1> DEFINE Single == \A i, j \in DOMAIN q : q[i] = q[j] => i = j
           From(r, n) == \A i \in DOMAIN r : \E j \in 1..n : r[i] = q[j]
           Whole(r, n) == \A j \in 1..n : q[j] \in S => \E i \in DOMAIN r : r[i] = q[j]
           Once(r) == \A i, j \in DOMAIN r : r[i] = r[j] => i = j
           T == {n \in 0..Len(q) : /\ From(kept[n], n) /\ Whole(kept[n], n)
                                   /\ Single => Once(kept[n])}
<1>2. Len(q) \in Nat /\ DOMAIN q = 1..Len(q) /\ \A i \in 1..Len(q) : q[i] \in X
  OBVIOUS
<1>3. 0 \in T
  <2>1. kept[0] = <<>>
    BY <1>1 DEF Filters
  <2>2. From(<<>>, 0) /\ Whole(<<>>, 0) /\ Once(<<>>)
    OBVIOUS
  <2> HIDE DEF From, Whole, Once, Single
  <2> QED
    BY <1>2, <2>1, <2>2
<1>4. ASSUME NEW n \in T, n < Len(q) PROVE n + 1 \in T
  <2> DEFINE r == kept[n]
             t == kept[n + 1]
  <2>1. /\ n \in 0..Len(q) /\ n \in Nat /\ n + 1 \in 1..Len(q) /\ n + 1 \in 0..Len(q)
        /\ r \in Seq(X \cap S) /\ q[n + 1] \in X
    <3>1. n \in 0..Len(q)
      BY <1>4
    <3>2. n \in Nat /\ n + 1 \in 1..Len(q) /\ n + 1 \in 0..Len(q)
      BY <1>2, <1>4, <3>1
    <3>3. r \in Seq(X \cap S) /\ q[n + 1] \in X
      BY <1>1, <1>2, <3>1, <3>2
    <3> HIDE DEF T
    <3> QED
      BY <3>1, <3>2, <3>3
  <2>2. From(r, n) /\ Whole(r, n) /\ (Single => Once(r))
    BY <1>4
  <2>3. t = IF q[n + 1] \in S THEN Append(r, q[n + 1]) ELSE r
    BY <1>1, <2>1 DEF Filters
  <2> HIDE DEF r, t
  <2>4. \A j \in 1..(n + 1) : j \in 1..n \/ j = n + 1
    BY <2>1
  <2>5. 1..n \subseteq 1..(n + 1) /\ n + 1 \in 1..(n + 1)
    BY <2>1
  <2>6. CASE q[n + 1] \notin S
    <3>1. t = r
      BY <2>3, <2>6
    <3>2. From(r, n + 1)
      BY <2>2, <2>5
    <3>3. Whole(r, n + 1)
      BY <2>2, <2>4, <2>6
    <3> HIDE DEF From, Whole, Once, Single
    <3>4. From(t, n + 1) /\ Whole(t, n + 1) /\ (Single => Once(t))
      BY <2>2, <3>1, <3>2, <3>3
    <3> QED
      BY <2>1, <3>4 DEF t
  <2>7. CASE q[n + 1] \in S
    <3> DEFINE m == Len(r) + 1
               v == q[n + 1]
    <3>1. t = Append(r, v)
      BY <2>3, <2>7
    <3> HIDE DEF v
    <3>2. v \in X \cap S
      BY <2>1, <2>7 DEF v
    <3>3. /\ m \in DOMAIN t /\ t[m] = v /\ m \notin DOMAIN r
          /\ \A i \in DOMAIN t : i \in DOMAIN r \/ i = m
          /\ \A i \in DOMAIN r : i \in DOMAIN t /\ t[i] = r[i]
      BY <2>1, <3>1, <3>2
    <3> HIDE DEF m
    <3>4. From(t, n + 1)
      <4> SUFFICES ASSUME NEW i \in DOMAIN t PROVE \E j \in 1..(n + 1) : t[i] = q[j]
        OBVIOUS
      <4>1. CASE i = m
        BY <2>5, <3>3, <4>1, Zenon DEF v
      <4>2. CASE i \in DOMAIN r
        <5>1. PICK j \in 1..n : r[i] = q[j]
          BY <2>2, <4>2
        <5>2. t[i] = q[j] /\ j \in 1..(n + 1)
          BY <2>5, <3>3, <4>2, <5>1
        <5> QED
          BY <5>2
      <4> QED
        BY <3>3, <4>1, <4>2
    <3>5. Whole(t, n + 1)
      <4> SUFFICES ASSUME NEW j \in 1..(n + 1), q[j] \in S
                   PROVE  \E i \in DOMAIN t : t[i] = q[j]
        OBVIOUS
      <4>1. CASE j = n + 1
        BY <3>3, <4>1, Zenon DEF v
      <4>2. CASE j \in 1..n
        <5>1. PICK i \in DOMAIN r : r[i] = q[j]
          BY <2>2, <4>2
        <5>2. i \in DOMAIN t /\ t[i] = q[j]
          BY <3>3, <5>1
        <5> QED
          BY <5>2
      <4> QED
        BY <2>4, <4>1, <4>2
    <3>6. ASSUME Single PROVE Once(t)
      <4>1. \A i \in DOMAIN r : r[i] # v
        <5> SUFFICES ASSUME NEW i \in DOMAIN r, r[i] = v PROVE FALSE
          OBVIOUS
        <5>1. PICK j \in 1..n : r[i] = q[j]
          BY <2>2
        <5>2. j \in DOMAIN q /\ n + 1 \in DOMAIN q /\ j # n + 1
          BY <1>2, <2>1
        <5> QED
          BY <3>6, <5>1, <5>2, Zenon DEF v
      <4>2. \A i, j \in DOMAIN r : r[i] = r[j] => i = j
        BY <2>2, <3>6
      <4> HIDE DEF Single
      <4> SUFFICES ASSUME NEW i \in DOMAIN t, NEW j \in DOMAIN t, t[i] = t[j] PROVE i = j
        OBVIOUS
      <4>3. CASE i \in DOMAIN r /\ j \in DOMAIN r
        BY <3>3, <4>2, <4>3
      <4>4. CASE i = m \/ j = m
        BY <3>3, <4>1, <4>4
      <4> QED
        BY <3>3, <4>3, <4>4
    <3> HIDE DEF From, Whole, Once, Single
    <3> QED
      BY <2>1, <3>4, <3>5, <3>6 DEF t
  <2> QED
    BY <2>6, <2>7
<1>5. T \in SUBSET (0..Len(q))
  OBVIOUS
<1> HIDE DEF T
<1>6. Len(q) \in T
  <2>1. T = 0..Len(q)
    BY <1>2, <1>3, <1>4, <1>5, Steps
  <2> QED
    BY <1>2, <2>1
<1> HIDE DEF From, Whole, Once, Single
<1>7. From(kept[Len(q)], Len(q)) /\ Whole(kept[Len(q)], Len(q)) /\ (Single => Once(kept[Len(q)]))
  BY <1>6 DEF T
<1>8. kept[Len(q)] \in Seq(X \cap S)
  BY <1>1, <1>2
<1>9. Among(q, S) = kept[Len(q)]
  BY <1>1
<1>10. From(Among(q, S), Len(q)) /\ Whole(Among(q, S), Len(q)) /\ (Single => Once(Among(q, S)))
  BY <1>7, <1>9
<1>11. Among(q, S) \in Seq(X \cap S)
  BY <1>8, <1>9
<1> USE DEF From, Whole, Once, Single
<1>12. /\ \A i \in DOMAIN Among(q, S) : \E j \in DOMAIN q : Among(q, S)[i] = q[j]
       /\ \A j \in DOMAIN q : q[j] \in S => \E i \in DOMAIN Among(q, S) : Among(q, S)[i] = q[j]
  BY <1>2, <1>10
<1>13. (\A i, j \in DOMAIN q : q[i] = q[j] => i = j)
         => \A i, j \in DOMAIN Among(q, S) : Among(q, S)[i] = Among(q, S)[j] => i = j
  BY <1>10
<1> QED
  BY <1>11, <1>12, <1>13

\* The members behind a place are the rest of the sequence.
LEMMA AmongRest ==
  ASSUME NEW X, NEW q \in Seq(X), NEW S, NEW n \in 0..Len(q),
         \A i \in DOMAIN q : q[i] \in S <=> i > n
  PROVE  Among(q, S) = SubSeq(q, n + 1, Len(q))
<1>1. PICK kept \in [0..Len(q) -> Seq(X \cap S)] :
        Among(q, S) = kept[Len(q)] /\ Filters(kept, q, S, Len(q))
  BY AmongUnfolds
<1> DEFINE T == {i \in 0..Len(q) : kept[i] = SubSeq(q, n + 1, i)}
<1>2. Len(q) \in Nat /\ DOMAIN q = 1..Len(q) /\ \A i \in 1..Len(q) : q[i] \in X
  OBVIOUS
<1>3. 0 \in T
  <2>1. kept[0] = <<>>
    BY <1>1 DEF Filters
  <2>2. SubSeq(q, n + 1, 0) = <<>>
    BY <1>2
  <2> QED
    BY <1>2, <2>1, <2>2
<1>4. ASSUME NEW i \in T, i < Len(q) PROVE i + 1 \in T
  <2>1. i \in Nat /\ i + 1 \in 1..Len(q) /\ i + 1 \in 0..Len(q) /\ (i + 1) - 1 = i
    BY <1>2, <1>4
  <2>2. kept[i] = SubSeq(q, n + 1, i)
    BY <1>4
  <2>3. kept[i + 1] = IF q[i + 1] \in S THEN Append(kept[i], q[i + 1]) ELSE kept[i]
    BY <1>1, <2>1 DEF Filters
  <2>4. kept[i + 1] = SubSeq(q, n + 1, i + 1)
    <3>1. CASE i + 1 > n
      <4>1. kept[i + 1] = Append(SubSeq(q, n + 1, i), q[i + 1])
        BY <1>2, <2>1, <2>2, <2>3, <3>1
      <4> QED
        BY <1>2, <2>1, <3>1, <4>1
    <3>2. CASE ~(i + 1 > n)
      <4>1. kept[i + 1] = SubSeq(q, n + 1, i)
        BY <1>2, <2>1, <2>2, <2>3, <3>2
      <4>2. SubSeq(q, n + 1, i) = <<>> /\ SubSeq(q, n + 1, i + 1) = <<>>
        BY <1>2, <2>1, <3>2
      <4> QED
        BY <4>1, <4>2
    <3> QED
      BY <3>1, <3>2
  <2> QED
    BY <2>1, <2>4
<1>5. T \in SUBSET (0..Len(q))
  OBVIOUS
<1> HIDE DEF T
<1>6. Len(q) \in T
  <2>1. T = 0..Len(q)
    BY <1>2, <1>3, <1>4, <1>5, Steps
  <2> QED
    BY <1>2, <2>1
<1> QED
  BY <1>1, <1>6 DEF T

-----------------------------------------------------------------------------
(* Releases *)

\* From which command on the release is built, linked and running.
Building == {"link", "mark", "up", "verify"}
Linked == {"mark", "up", "verify"}
\* The commands before the switch.
Early == {"check", "prepare", "build", "link"}

HostType ==
  /\ Release!TypeOK
  /\ before \in [link : Release!Releases, running : Release!Releases \cup {Release!Mixed}]

\* Whatever the link may be set to next has images.
BuiltInv ==
  /\ link \in built /\ previous \in built
  /\ step \in Building => target \in built

\* Where the script is, and what it knows of the state it found.
ScriptInv ==
  /\ step # "ended" => log = "running"
  /\ step \in Release!Forward => ~cut
  /\ switched => step \in {"up", "verify", "rollback", "relink", "reup", "ended"}
  /\ step \in {"up", "verify", "relink", "reup"} => switched
  /\ step \in Linked => link = target
  /\ step = "verify" => running = target
  /\ step = "reup" => link = previous

\* Until the switch is marked nothing has changed, but for a signal in between;
\* after it, the release to put back is the one that was there.
FoundInv ==
  /\ step \in Early => link = before.link /\ running = before.running
  /\ step = "rollback" /\ ~switched /\ ~cut => link = before.link /\ running = before.running
  /\ step \in {"prepare", "build", "link"} \cup Linked \cup {"relink", "reup"}
       => previous = before.link
  /\ step = "rollback" /\ switched => previous = before.link
  /\ step = "mark" => running = before.running

ReleaseInv ==
  HostType /\ BuiltInv /\ ScriptInv /\ FoundInv /\ Release!LogIsTrue /\ Release!RestoresVerified

\* Release 0 is linked, runs and passed its checks.
LEMMA ReleaseInit ==
  ASSUME MaxReleases \in Nat, Release!Init
  PROVE  ReleaseInv
<1>1. 0 \in Release!Releases
  BY DEF Release!Releases
<1>2. HostType
  BY <1>1 DEF HostType, Release!Init, Release!TypeOK, Release!Steps
<1>3. BuiltInv /\ ScriptInv /\ FoundInv
  BY DEF BuiltInv, ScriptInv, FoundInv, Release!Init, Building, Linked, Early, Release!Forward
<1>4. Release!LogIsTrue /\ Release!RestoresVerified
  BY DEF Release!LogIsTrue, Release!RestoresVerified, Release!Init
<1> QED
  BY <1>2, <1>3, <1>4 DEF ReleaseInv

\* Every command keeps the types.
LEMMA ReleaseTyped ==
  ASSUME MaxReleases \in Nat, HostType, Release!Next
  PROVE  HostType'
<1>1. /\ step \in Release!Steps /\ target \in Release!Releases /\ previous \in Release!Releases
      /\ link \in Release!Releases /\ running \in Release!Releases \cup {Release!Mixed}
      /\ built \subseteq Release!Releases /\ verified \subseteq Release!Releases
      /\ switched \in BOOLEAN /\ cut \in BOOLEAN /\ killed \in BOOLEAN
      /\ log \in {"running", "healthy", "unchanged", "rolled_back", "not_recovered", "killed"}
      /\ before \in [link : Release!Releases, running : Release!Releases \cup {Release!Mixed}]
  BY DEF HostType, Release!TypeOK
<1>2. target < MaxReleases => target + 1 \in Release!Releases
  BY <1>1 DEF Release!Releases
<1> USE <1>1 DEF HostType, Release!TypeOK, Release!Steps
<1>3. CASE Release!Start
  BY <1>2, <1>3 DEF Release!Start
<1>4. CASE Release!CheckOk \/ Release!PrepareOk \/ Release!BuildOk \/ Release!LinkOk
  BY <1>4 DEF Release!CheckOk, Release!PrepareOk, Release!BuildOk, Release!LinkOk
<1>5. CASE Release!Mark \/ Release!UpOk \/ Release!VerifyOk
  BY <1>5 DEF Release!Mark, Release!UpOk, Release!VerifyOk
<1>6. CASE Release!CommandFails
  BY <1>6 DEF Release!CommandFails
<1>7. CASE Release!Refused \/ Release!Killed
  BY <1>7 DEF Release!Refused, Release!Killed
<1>8. CASE Release!Signal
  BY <1>8 DEF Release!Signal
<1>9. CASE Release!Rollback \/ Release!Relink
  BY <1>9 DEF Release!Rollback, Release!Relink
<1>10. CASE Release!Reup
  BY <1>10 DEF Release!Reup
<1> QED
  BY <1>3, <1>4, <1>5, <1>6, <1>7, <1>8, <1>9, <1>10 DEF Release!Next

\* Every command keeps what is built behind the link.
LEMMA ReleaseBuilt ==
  ASSUME BuiltInv, Release!Next
  PROVE  BuiltInv' /\ built \subseteq built'
<1> USE DEF BuiltInv, Building
<1>1. CASE Release!Start \/ Release!CheckOk \/ Release!PrepareOk \/ Release!BuildOk \/ Release!LinkOk
  BY <1>1 DEF Release!Start, Release!CheckOk, Release!PrepareOk, Release!BuildOk, Release!LinkOk
<1>2. CASE Release!Mark \/ Release!UpOk \/ Release!VerifyOk \/ Release!CommandFails
  BY <1>2 DEF Release!Mark, Release!UpOk, Release!VerifyOk, Release!CommandFails
<1>3. CASE Release!Refused \/ Release!Killed \/ Release!Signal
  BY <1>3 DEF Release!Refused, Release!Killed, Release!Signal
<1>4. CASE Release!Rollback \/ Release!Relink \/ Release!Reup
  BY <1>4 DEF Release!Rollback, Release!Relink, Release!Reup
<1> QED
  BY <1>1, <1>2, <1>3, <1>4 DEF Release!Next

\* What the script knows of the state it found stays true until it has ended,
\* and then the log tells of it.
LEMMA ReleaseKnows ==
  ASSUME ReleaseInv, Release!Next, HostType'
  PROVE  ScriptInv' /\ FoundInv' /\ Release!LogIsTrue' /\ Release!RestoresVerified'
<1>1. /\ ScriptInv /\ FoundInv /\ Release!LogIsTrue /\ Release!RestoresVerified
      /\ switched \in BOOLEAN /\ cut \in BOOLEAN
      /\ before \in [link : Release!Releases, running : Release!Releases \cup {Release!Mixed}]
  BY DEF ReleaseInv, HostType, Release!TypeOK
<1>2. before = [link |-> before.link, running |-> before.running]
  BY <1>1
<1> USE DEF ScriptInv, FoundInv, Release!LogIsTrue, Release!RestoresVerified, Release!Forward,
            Early, Linked
<1>3. CASE Release!Start
  BY <1>1, <1>2, <1>3 DEF Release!Start
<1>4. CASE Release!CheckOk \/ Release!PrepareOk \/ Release!BuildOk
  BY <1>1, <1>2, <1>4 DEF Release!CheckOk, Release!PrepareOk, Release!BuildOk
<1>5. CASE Release!LinkOk \/ Release!Mark
  BY <1>1, <1>2, <1>5 DEF Release!LinkOk, Release!Mark
<1>6. CASE Release!UpOk \/ Release!VerifyOk
  BY <1>1, <1>2, <1>6 DEF Release!UpOk, Release!VerifyOk
<1>7. CASE Release!CommandFails
  BY <1>1, <1>2, <1>7 DEF Release!CommandFails
<1>8. CASE Release!Refused
  BY <1>1, <1>2, <1>8 DEF Release!Refused
<1>9. CASE Release!Killed
  BY <1>1, <1>2, <1>9 DEF Release!Killed
<1>10. CASE Release!Signal
  BY <1>1, <1>2, <1>10 DEF Release!Signal
<1>11. CASE Release!Rollback \/ Release!Relink
  BY <1>1, <1>2, <1>11 DEF Release!Rollback, Release!Relink
<1>12. CASE Release!Reup
  BY <1>1, <1>2, <1>12 DEF Release!Reup
<1> QED
  BY <1>3, <1>4, <1>5, <1>6, <1>7, <1>8, <1>9, <1>10, <1>11, <1>12 DEF Release!Next

\* A deployment ends with a release that works, or says that it did not
\* (deploy-release.sh): wherever it is stopped the link names a release with
\* images, and what the log says of the end is what is there.
THEOREM DeploymentSound ==
  ASSUME MaxReleases \in Nat
  PROVE  Release!Spec => []Release!ReleaseIsSound
<1>1. Release!Init => ReleaseInv
  BY ReleaseInit
<1>2. ReleaseInv /\ [Release!Next]_(Release!vars) => ReleaseInv'
  <2>1. ASSUME ReleaseInv, Release!Next
        PROVE  ReleaseInv'
    <3>1. HostType'
      BY <2>1, ReleaseTyped DEF ReleaseInv
    <3>2. BuiltInv'
      BY <2>1, ReleaseBuilt DEF ReleaseInv
    <3>3. ScriptInv' /\ FoundInv' /\ Release!LogIsTrue' /\ Release!RestoresVerified'
      BY <2>1, <3>1, ReleaseKnows
    <3> QED
      BY <3>1, <3>2, <3>3 DEF ReleaseInv
  <2>2. ASSUME ReleaseInv, UNCHANGED Release!vars
        PROVE  ReleaseInv'
    BY <2>2 DEF ReleaseInv, HostType, BuiltInv, ScriptInv, FoundInv, Release!vars, Release!TypeOK,
                Release!LogIsTrue, Release!RestoresVerified, Building, Linked, Early
  <2> QED
    BY <2>1, <2>2
<1>3. ReleaseInv => Release!ReleaseIsSound
  BY DEF ReleaseInv, HostType, BuiltInv, Release!ReleaseIsSound, Release!LinkIsBuilt
<1> QED
  BY <1>1, <1>2, <1>3, PTL DEF Release!Spec

-----------------------------------------------------------------------------
(* The database *)

\* The files before the one that comes next have taken effect, in this run of
\* the tool; the jobs are those that were started.
ToolInv ==
  /\ next > 0 => 1..(next - 1) \subseteq applied
  /\ started \in 0..MaxJobs

DatabaseInv == Database!TypeOK /\ Database!RecordedIsApplied /\ ToolInv

\* One file of db_migrate: what it records has been applied before it.
LEMMA FileKeeps ==
  ASSUME Required \in Nat \ {0}, MaxJobs \in Nat, DatabaseInv, Database!ApplyFile
  PROVE  DatabaseInv'
<1>1. /\ next \in 1..Required /\ applied \subseteq 1..Required /\ recorded \subseteq 1..Required
      /\ 1..(next - 1) \subseteq applied
      /\ \A n \in recorded : 1..n \subseteq applied
      /\ intake \/ probe = "ready" => applied = 1..Required
  BY DEF DatabaseInv, ToolInv, Database!TypeOK, Database!RecordedIsApplied, Database!ApplyFile
<1>2. /\ applied' = applied \cup {next}
      /\ recorded' = recorded \/ recorded' = recorded \cup 1..next
      /\ next' = IF next = Required THEN 0 ELSE next + 1
      /\ intake' = intake /\ probe' = probe /\ started' = started
      /\ jobs' \subseteq jobs /\ rows' = rows /\ assets' = assets
  BY DEF Database!ApplyFile, Database!FileAt, Database!Recorded
<1>3. 1..next \subseteq applied' /\ applied' \subseteq 1..Required
  BY <1>1, <1>2
<1>4. \A n \in recorded' : n \in 1..Required /\ 1..n \subseteq applied'
  <2> TAKE n \in recorded'
  <2>1. CASE n \in recorded
    BY <1>1, <1>2, <2>1
  <2>2. CASE n \in 1..next
    <3>1. 1..n \subseteq 1..next /\ 1..next \subseteq 1..Required
      BY <1>1, <2>2
    <3> QED
      BY <1>3, <2>2, <3>1
  <2> QED
    BY <1>2, <2>1, <2>2
<1>5. next' \in 0..Required /\ (next' > 0 => 1..(next' - 1) \subseteq applied')
  BY <1>1, <1>2, <1>3
<1>6. intake' \/ probe' = "ready" => applied' = 1..Required
  BY <1>1, <1>2
<1> QED
  BY <1>2, <1>3, <1>4, <1>5, <1>6
     DEF DatabaseInv, ToolInv, Database!TypeOK, Database!RecordedIsApplied

\* A seed or a review leaves every row in the table, and a reviewed one as it is.
LEMMA TableKept ==
  ASSUME Database!TypeOK,
         \/ Database!SeedCatalog \/ Database!SeedWithAssets
         \/ \E p \in Products : Database!Review(p)
  PROVE  /\ rows' \in [Products -> Database!Contents] /\ assets' \in [Products -> Database!Contents]
         /\ \A p \in Products : /\ rows[p] = "other" => rows'[p] = "other"
                                /\ assets[p] = "other" => assets'[p] = "other"
<1> USE DEF Database!TypeOK, Database!Contents
<1>1. CASE Database!SeedCatalog \/ Database!SeedWithAssets
  BY <1>1 DEF Database!SeedCatalog, Database!SeedWithAssets, Database!Seed, Database!Inserted
<1>2. CASE \E p \in Products : Database!Review(p)
  BY <1>2 DEF Database!Review
<1> QED
  BY <1>1, <1>2

\* Every step of the tools, the reviewer and the API keeps the invariant.
LEMMA DatabaseStep ==
  ASSUME Required \in Nat \ {0}, MaxJobs \in Nat, DatabaseInv, Database!Next
  PROVE  DatabaseInv'
<1>1. CASE Database!ApplyFile
  BY <1>1, FileKeeps
<1>2. CASE \/ Database!SeedCatalog \/ Database!SeedWithAssets
           \/ \E p \in Products : Database!Review(p)
  <2>1. /\ rows' \in [Products -> Database!Contents]
        /\ assets' \in [Products -> Database!Contents]
    BY <1>2, TableKept DEF DatabaseInv
  <2>2. UNCHANGED <<applied, recorded, next, intake, jobs, started, probe>>
    BY <1>2 DEF Database!SeedCatalog, Database!SeedWithAssets, Database!Seed, Database!Review
  <2> QED
    BY <2>1, <2>2 DEF DatabaseInv, ToolInv, Database!TypeOK, Database!RecordedIsApplied
<1>3. CASE Database!BeginMigration \/ Database!MigrationFails
  <2>1. UNCHANGED <<applied, recorded, rows, assets, intake, jobs, started, probe>>
    BY <1>3 DEF Database!BeginMigration, Database!MigrationFails
  <2>2. next' = 0 \/ next' = 1
    BY <1>3 DEF Database!BeginMigration, Database!MigrationFails
  <2>3. next' \in 0..Required /\ (next' > 0 => 1..(next' - 1) \subseteq applied')
    BY <2>2
  <2> QED
    BY <2>1, <2>3 DEF DatabaseInv, ToolInv, Database!TypeOK, Database!RecordedIsApplied
<1> USE DEF DatabaseInv, ToolInv, Database!TypeOK, Database!RecordedIsApplied
<1>4. CASE Database!StartApi
  <2>1. /\ intake' \in BOOLEAN /\ jobs' \subseteq jobs
        /\ intake' => Required \in recorded
        /\ UNCHANGED <<applied, recorded, next, rows, assets, started, probe>>
    BY <1>4 DEF Database!StartApi
  <2>2. Required \in recorded => applied = 1..Required
    OBVIOUS
  <2> QED
    BY <2>1, <2>2
<1>5. CASE Database!StartJob
  BY <1>5 DEF Database!StartJob
<1>6. CASE Database!ProbeMigration
  BY <1>6 DEF Database!ProbeMigration
<1>7. CASE Database!ProbeCatalog
  BY <1>7 DEF Database!ProbeCatalog, Database!CatalogProblem
<1>8. CASE \E j \in jobs : Database!EndJob(j)
  BY <1>8 DEF Database!EndJob
<1> QED
  BY <1>1, <1>2, <1>3, <1>4, <1>5, <1>6, <1>7, <1>8 DEF Database!Next

\* The rows the API serves are the reviewed ones, on the whole schema: the
\* required migration is on record only when all are in force (db_migrate.py),
\* ready is answered on canonical rows (check_readiness), and neither a seed nor
\* a migration puts back what someone reviewed (db_seed_catalog.py).
THEOREM DatabaseSound ==
  ASSUME Required \in Nat \ {0}, MaxJobs \in Nat
  PROVE  Database!Spec => Database!DatabaseIsSound
<1>1. ASSUME Database!Init
      PROVE  DatabaseInv
  <2>1. rows \in [Products -> Database!Contents] /\ assets \in [Products -> Database!Contents]
    BY <1>1 DEF Database!Init, Database!Contents
  <2>2. /\ applied = {} /\ recorded = {} /\ next = 0 /\ jobs = {} /\ intake = FALSE
        /\ started = 0 /\ probe = "idle"
    BY <1>1 DEF Database!Init
  <2>3. next \in 0..Required
    BY <2>2
  <2>4. intake \in BOOLEAN
    BY <2>2
  <2>5. Database!TypeOK
    BY <2>1, <2>2, <2>3, <2>4 DEF Database!TypeOK
  <2> QED
    BY <2>2, <2>5 DEF DatabaseInv, ToolInv, Database!RecordedIsApplied
<1>2. DatabaseInv /\ [Database!Next]_(Database!vars) => DatabaseInv'
  <2>1. DatabaseInv /\ UNCHANGED Database!vars => DatabaseInv'
    BY DEF DatabaseInv, ToolInv, Database!vars, Database!TypeOK, Database!RecordedIsApplied
  <2> QED
    BY <2>1, DatabaseStep
<1>3. Database!Next => (probe' = "ready" /\ probe # "ready" => Database!Canonical(rows) /\ intake)
  <2>1. Database!ProbeCatalog /\ probe' = "ready" => Database!Canonical(rows) /\ intake
    BY DEF Database!ProbeCatalog, Database!CatalogProblem
  <2>2. Database!Next => probe' = probe \/ Database!ProbeMigration \/ Database!ProbeCatalog
    BY DEF Database!Next, Database!BeginMigration, Database!ApplyFile, Database!MigrationFails,
           Database!SeedCatalog, Database!SeedWithAssets, Database!Seed, Database!Review,
           Database!StartApi, Database!StartJob, Database!EndJob
  <2> QED
    BY <2>1, <2>2 DEF Database!ProbeMigration
<1>4. DatabaseInv /\ Database!Next
        => \A p \in Products : /\ rows[p] = "other" => rows'[p] = "other"
                               /\ assets[p] = "other" => assets'[p] = "other"
  <2>1. Database!Next =>
          \/ rows' = rows /\ assets' = assets
          \/ Database!SeedCatalog \/ Database!SeedWithAssets
          \/ \E p \in Products : Database!Review(p)
    BY DEF Database!Next, Database!BeginMigration, Database!ApplyFile, Database!MigrationFails,
           Database!StartApi, Database!StartJob, Database!EndJob, Database!ProbeMigration,
           Database!ProbeCatalog
  <2> QED
    BY <2>1, TableKept DEF DatabaseInv
<1>5. DatabaseInv => Database!TypeOK /\ Database!RecordedIsApplied
  BY DEF DatabaseInv
<1> QED
  BY <1>1, <1>2, <1>3, <1>4, <1>5, PTL
     DEF Database!Spec, Database!DatabaseIsSound, Database!ReadyIsCanonical,
         Database!ReviewedRowsStay


-----------------------------------------------------------------------------
(* The manager's screen *)

Ids(r) == {r[i].id : i \in DOMAIN r}
IdsOnce(r) == \A i, j \in DOMAIN r : r[i].id = r[j].id => i = j

\* A selection of events keeps their ids apart, and is of the events selected.
LEMMA AmongIds ==
  ASSUME NEW X, NEW r \in Seq(X), NEW S, IdsOnce(r)
  PROVE  /\ Among(r, S) \in Seq(X)
         /\ \A i \in DOMAIN Among(r, S) : Among(r, S)[i] \in S
         /\ IdsOnce(Among(r, S))
         /\ \A i \in DOMAIN Among(r, S) : \E j \in DOMAIN r : Among(r, S)[i] = r[j]
         /\ \A j \in DOMAIN r : r[j] \in S => r[j].id \in Ids(Among(r, S))
<1> DEFINE a == Among(r, S)
<1>1. /\ a \in Seq(X \cap S)
      /\ \A i \in DOMAIN a : \E j \in DOMAIN r : a[i] = r[j]
      /\ \A j \in DOMAIN r : r[j] \in S => \E i \in DOMAIN a : a[i] = r[j]
      /\ (\A i, j \in DOMAIN r : r[i] = r[j] => i = j) => \A i, j \in DOMAIN a : a[i] = a[j] => i = j
  BY AmongSelects
<1> HIDE DEF a
<1>2. \A i, j \in DOMAIN a : a[i] = a[j] => i = j
  BY <1>1 DEF IdsOnce
<1>3. IdsOnce(a)
  <2> SUFFICES ASSUME NEW i \in DOMAIN a, NEW j \in DOMAIN a, a[i].id = a[j].id PROVE i = j
    BY DEF IdsOnce
  <2>1. PICK k \in DOMAIN r : a[i] = r[k]
    BY <1>1
  <2>2. PICK m \in DOMAIN r : a[j] = r[m]
    BY <1>1
  <2>3. k = m
    BY <2>1, <2>2 DEF IdsOnce
  <2> QED
    BY <1>2, <2>1, <2>2, <2>3
<1>4. a \in Seq(X) /\ \A i \in DOMAIN a : a[i] \in S
  BY <1>1
<1>5. \A j \in DOMAIN r : r[j] \in S => r[j].id \in Ids(a)
  BY <1>1 DEF Ids
<1> QED
  BY <1>1, <1>3, <1>4, <1>5 DEF a

\* The largest of a set of integers that has a bound is one of them.
LEMMA LargestIsIn ==
  ASSUME NEW S \in SUBSET Int, S # {}, NEW b \in Int, \A x \in S : x <= b
  PROVE  Manager!Max(S) \in S /\ \A x \in S : x <= Manager!Max(S)
<1> DEFINE T == {b - x : x \in S}
<1>1. T \in SUBSET Nat /\ T # {}
  OBVIOUS
<1>2. PICK m \in T : \A n \in T : m <= n
  BY <1>1, Least
<1>3. PICK x \in S : m = b - x
  BY <1>2
<1>4. \A y \in S : x >= y
  <2> SUFFICES ASSUME NEW y \in S PROVE x >= y
    OBVIOUS
  <2>1. b - y \in T
    OBVIOUS
  <2> HIDE DEF T
  <2>2. m <= b - y /\ x \in Int /\ y \in Int
    BY <1>2, <2>1
  <2> QED
    BY <1>3, <2>2
<1>5. \E z \in S : \A y \in S : z >= y
  BY <1>4
<1>6. Manager!Max(S) \in S /\ \A y \in S : Manager!Max(S) >= y
  BY <1>5 DEF Manager!Max
<1> QED
  BY <1>6

\* A recommendation, and what the manager is told of it.
Facts == [session : Sessions, id : 0..(MaxDecisions - 1), product : Products]
EventOf == [id : 0..(MaxDecisions - 1), sequence : Nat, recommendation : Facts]

\* Recommendations are counted, so that there is always a number for the next.
KnownInv == Manager!TypeOK /\ IsFiniteSet(known) /\ DOMAIN decision = Sessions

\* One event per request, of its recommendation, numbered without a hole.
LogInv ==
  /\ events \in Seq(EventOf)
  /\ \A i \in DOMAIN events : /\ events[i].sequence = i - 1
                              /\ events[i].recommendation \in known
                              /\ events[i].id = events[i].recommendation.id
  /\ IdsOnce(events)

\* What the page has seen is on the screen or about to be, and nothing twice.
PageInv ==
  /\ fetched \in Seq(EventOf) /\ shown \in Seq(EventOf)
  /\ IdsOnce(fetched) /\ IdsOnce(shown)
  /\ page = "idle" => fetched = <<>>
  /\ page = "products" => Ids(fetched) \cap Ids(shown) = {}
  /\ seen = Ids(shown) \cup (IF page = "products" THEN Ids(fetched) ELSE {})

\* The cursor is at an event of the process; all up to it were seen, and an
\* fetched leaves none out between the cursor and its last.
CursorInv ==
  ~restarted =>
    /\ cursor # None => cursor \in Nat /\ cursor < Len(events)
    /\ \A k \in DOMAIN fetched : \E i \in DOMAIN events : fetched[k] = events[i]
    /\ cursor # None => \A i \in DOMAIN events : events[i].sequence <= cursor => events[i].id \in seen
    /\ page = "answered" =>
         \A i \in DOMAIN events, k \in DOMAIN fetched :
           events[i].sequence <= fetched[k].sequence /\ (cursor = None \/ events[i].sequence > cursor)
             => events[i].id \in Ids(fetched)

ManagerInv == KnownInv /\ LogInv /\ PageInv /\ CursorInv


\* A page that was just loaded, of an API that just started.
LEMMA ManagerInit ==
  ASSUME Manager!Init
  PROVE  ManagerInv
<1>1. KnownInv
  BY FS_EmptySet DEF Manager!Init, KnownInv, Manager!TypeOK
<1>2. LogInv
  BY DEF Manager!Init, LogInv, IdsOnce
<1>3. PageInv
  BY DEF Manager!Init, PageInv, IdsOnce, Ids
<1>4. CursorInv
  BY DEF Manager!Init, CursorInv
<1> QED
  BY <1>1, <1>2, <1>3, <1>4 DEF ManagerInv

\* A step that leaves the page and the events as they are.
LEMMA ScreenKept ==
  ASSUME PageInv, CursorInv, events' = events, UNCHANGED Manager!screen
  PROVE  PageInv' /\ CursorInv'
<1>1. /\ page' = page /\ cursor' = cursor /\ seen' = seen /\ fetched' = fetched /\ shown' = shown
      /\ restarted' = restarted /\ events' = events
  BY DEF Manager!screen
<1>2. PageInv'
  BY <1>1 DEF PageInv
<1>3. CursorInv'
  BY <1>1 DEF CursorInv
<1> QED
  BY <1>2, <1>3

\* Recommendations are made and forgotten, and a request reads one.
LEMMA DecisionSteps ==
  ASSUME MaxDecisions \in Nat, ManagerInv,
         \/ \E s \in Sessions : Manager!Decide(s) \/ Manager!Forget(s)
         \/ \E r \in known : Manager!ReadDecision(r)
  PROVE  ManagerInv'
<1>1. events' = events /\ UNCHANGED Manager!screen
  BY DEF Manager!Decide, Manager!Forget, Manager!ReadDecision
<1>2. KnownInv' /\ known \subseteq known'
  <2>1. ASSUME NEW s \in Sessions, Manager!Decide(s)
        PROVE  KnownInv' /\ known \subseteq known'
    <3>1. PICK p \in Products :
            LET d == [session |-> s, id |-> Cardinality(known), product |-> p]
            IN decision' = [decision EXCEPT ![s] = d] /\ known' = known \cup {d}
      BY <2>1 DEF Manager!Decide, Manager!Cardinality, Cardinality
    <3> DEFINE d == [session |-> s, id |-> Cardinality(known), product |-> p]
    <3>2. Cardinality(known) \in 0..(MaxDecisions - 1)
      <4>1. Cardinality(known) \in Nat
        BY FS_CardinalityType DEF ManagerInv, KnownInv
      <4>2. Cardinality(known) < MaxDecisions
        BY <2>1 DEF Manager!Decide, Manager!Cardinality, Cardinality
      <4> QED
        BY <4>1, <4>2
    <3>3. d \in Facts
      BY <3>2 DEF Facts
    <3>4. decision' = [decision EXCEPT ![s] = d] /\ known' = known \cup {d}
      BY <3>1
    <3> HIDE DEF d
    <3>5. IsFiniteSet(known')
      BY <3>4, FS_AddElement DEF ManagerInv, KnownInv
    <3>6. /\ known' \subseteq Facts
          /\ DOMAIN decision' = Sessions
          /\ \A t \in Sessions : decision'[t] # None => decision'[t] \in known'
      BY <3>3, <3>4 DEF ManagerInv, KnownInv, Manager!TypeOK, Facts
    <3>7. handlers' = handlers /\ events' = events /\ page' = page
      BY <2>1 DEF Manager!Decide, Manager!screen
    <3>8. \A h \in handlers : h.request \in known' /\ h.decision \in known'
      BY <3>4 DEF ManagerInv, KnownInv, Manager!TypeOK
    <3> QED
      BY <3>4, <3>5, <3>6, <3>7, <3>8 DEF ManagerInv, KnownInv, Manager!TypeOK, Facts
  <2>2. ASSUME NEW s \in Sessions, Manager!Forget(s)
        PROVE  KnownInv' /\ known \subseteq known'
    BY <2>2 DEF ManagerInv, KnownInv, Manager!TypeOK, Manager!Forget, Manager!screen
  <2>3. ASSUME NEW r \in known, Manager!ReadDecision(r)
        PROVE  KnownInv' /\ known \subseteq known'
    <3> DEFINE h == [request |-> r, decision |-> decision[r.session]]
    <3>1. /\ handlers' = handlers \cup {h} /\ decision[r.session] # None
          /\ decision' = decision /\ known' = known /\ events' = events /\ page' = page
      BY <2>3 DEF Manager!ReadDecision, Manager!screen
    <3>2. r.session \in Sessions
      BY DEF ManagerInv, KnownInv, Manager!TypeOK
    <3>3. h.request \in known /\ h.decision \in known
      BY <3>1, <3>2 DEF ManagerInv, KnownInv, Manager!TypeOK
    <3> HIDE DEF h
    <3> QED
      BY <3>1, <3>3 DEF ManagerInv, KnownInv, Manager!TypeOK
  <2> QED
    BY <2>1, <2>2, <2>3
<1>3. LogInv'
  BY <1>1, <1>2 DEF ManagerInv, LogInv
<1> QED
  BY <1>1, <1>2, <1>3, ScreenKept DEF ManagerInv

\* The repository records an event, or finds that it has it.
LEMMA RecordStep ==
  ASSUME ManagerInv, NEW h \in handlers, Manager!Record(h)
  PROVE  ManagerInv'
<1>1. /\ handlers' = handlers \ {h} /\ decision' = decision /\ known' = known
      /\ UNCHANGED Manager!screen /\ page' = page
  BY DEF Manager!Record, Manager!screen
<1>2. CASE events' = events
  <2>1. KnownInv' /\ LogInv'
    BY <1>1, <1>2 DEF ManagerInv, KnownInv, LogInv, Manager!TypeOK
  <2> QED
    BY <1>1, <1>2, <2>1, ScreenKept DEF ManagerInv
<1>3. CASE events' # events
  <2> DEFINE r == h.request
             e == [id |-> r.id, sequence |-> Len(events), recommendation |-> r]
             n == Len(events) + 1
  <2>1. events' = Append(events, e) /\ \A i \in DOMAIN events : events[i].id # r.id
    BY <1>3 DEF Manager!Record, Manager!Requested
  <2>2. r \in known /\ r \in Facts
    BY DEF ManagerInv, KnownInv, Manager!TypeOK, Facts
  <2> HIDE DEF r
  <2>3. events \in Seq(EventOf) /\ Len(events) \in Nat
    BY DEF ManagerInv, LogInv
  <2>4. e \in EventOf /\ e.id = r.id /\ e.sequence = Len(events) /\ e.recommendation = r
    BY <2>2, <2>3 DEF EventOf, Facts
  <2> HIDE DEF e
  <2>5. /\ events' \in Seq(EventOf) /\ Len(events') = n
        /\ events'[n] = e /\ n \notin DOMAIN events
        /\ \A i \in DOMAIN events' : i \in DOMAIN events \/ i = n
        /\ \A i \in DOMAIN events : i \in DOMAIN events' /\ events'[i] = events[i]
    BY <2>1, <2>3, <2>4
  <2>6. LogInv'
    <3>1. \A i \in DOMAIN events' : /\ events'[i].sequence = i - 1
                                    /\ events'[i].recommendation \in known'
                                    /\ events'[i].id = events'[i].recommendation.id
      <4> SUFFICES ASSUME NEW i \in DOMAIN events'
                   PROVE  /\ events'[i].sequence = i - 1
                          /\ events'[i].recommendation \in known'
                          /\ events'[i].id = events'[i].recommendation.id
        OBVIOUS
      <4>1. CASE i = n
        BY <1>1, <2>2, <2>3, <2>4, <2>5, <4>1
      <4>2. CASE i \in DOMAIN events
        BY <1>1, <2>5, <4>2 DEF ManagerInv, LogInv
      <4> QED
        BY <2>5, <4>1, <4>2
    <3>2. IdsOnce(events')
      <4> SUFFICES ASSUME NEW i \in DOMAIN events', NEW j \in DOMAIN events',
                          events'[i].id = events'[j].id
                   PROVE  i = j
        BY DEF IdsOnce
      <4>1. CASE i \in DOMAIN events /\ j \in DOMAIN events
        BY <2>5, <4>1 DEF ManagerInv, LogInv, IdsOnce
      <4>2. CASE i = n \/ j = n
        BY <2>1, <2>4, <2>5, <4>2
      <4> QED
        BY <2>5, <4>1, <4>2
    <3> QED
      BY <2>5, <3>1, <3>2 DEF LogInv
  <2>7. KnownInv'
    <3>1. \A i \in DOMAIN events' : events'[i].sequence = i - 1
      BY <2>6 DEF LogInv
    <3> QED
      BY <1>1, <3>1 DEF ManagerInv, KnownInv, Manager!TypeOK
  <2>8. PageInv'
    BY <1>1 DEF ManagerInv, PageInv, Manager!screen
  <2>9. CursorInv'
    <3> SUFFICES ASSUME ~restarted
                 PROVE  /\ cursor # None => cursor \in Nat /\ cursor < Len(events')
                        /\ \A k \in DOMAIN fetched : \E i \in DOMAIN events' : fetched[k] = events'[i]
                        /\ cursor # None =>
                             \A i \in DOMAIN events' : events'[i].sequence <= cursor => events'[i].id \in seen
                        /\ page = "answered" =>
                             \A i \in DOMAIN events', k \in DOMAIN fetched :
                               events'[i].sequence <= fetched[k].sequence
                                 /\ (cursor = None \/ events'[i].sequence > cursor)
                                 => events'[i].id \in Ids(fetched)
      BY <1>1 DEF CursorInv, Manager!screen
    <3>1. cursor # None => cursor \in Nat /\ cursor < Len(events)
      BY DEF ManagerInv, CursorInv
    <3>2. \A k \in DOMAIN fetched : \E i \in DOMAIN events : fetched[k] = events[i]
      BY DEF ManagerInv, CursorInv
    <3>3. \A i \in DOMAIN events : events[i].sequence = i - 1 /\ i <= Len(events) /\ i \in Nat
      BY <2>3 DEF ManagerInv, LogInv
    <3>4. \A k \in DOMAIN fetched : fetched[k].sequence \in Nat /\ fetched[k].sequence < Len(events)
      BY <2>3, <3>2, <3>3
    <3>5. cursor # None => \A i \in DOMAIN events' : events'[i].sequence <= cursor => events'[i].id \in seen
      <4> SUFFICES ASSUME cursor # None, NEW i \in DOMAIN events', events'[i].sequence <= cursor
                   PROVE  events'[i].id \in seen
        OBVIOUS
      <4>1. i # n
        BY <2>3, <2>4, <2>5, <3>1
      <4> QED
        BY <2>5, <4>1 DEF ManagerInv, CursorInv
    <3>6. page = "answered" =>
            \A i \in DOMAIN events', k \in DOMAIN fetched :
              events'[i].sequence <= fetched[k].sequence
                /\ (cursor = None \/ events'[i].sequence > cursor)
                => events'[i].id \in Ids(fetched)
      <4> SUFFICES ASSUME page = "answered", NEW i \in DOMAIN events', NEW k \in DOMAIN fetched,
                          events'[i].sequence <= fetched[k].sequence,
                          cursor = None \/ events'[i].sequence > cursor
                   PROVE  events'[i].id \in Ids(fetched)
        OBVIOUS
      <4>1. i # n
        BY <2>3, <2>4, <2>5, <3>4
      <4>2. i \in DOMAIN events /\ events'[i] = events[i]
        BY <2>5, <4>1
      <4> QED
        BY <4>2 DEF ManagerInv, CursorInv
    <3>7. \A k \in DOMAIN fetched : \E i \in DOMAIN events' : fetched[k] = events'[i]
      BY <2>5, <3>2
    <3> QED
      BY <2>3, <2>5, <3>1, <3>5, <3>6, <3>7
  <2> QED
    BY <2>6, <2>7, <2>8, <2>9 DEF ManagerInv
<1> QED
  BY <1>2, <1>3


\* The instance's selection is the one of the lemmas.
LEMMA ManagerAmong ==
  ASSUME NEW r, NEW S
  PROVE  Manager!Among(r, S) = Among(r, S)
BY DEF Manager!Among, Among

\* The API or the page starts again.
LEMMA FreshSteps ==
  ASSUME ManagerInv, Manager!Restart \/ Manager!Reload
  PROVE  ManagerInv'
<1>1. CASE Manager!Restart
  <2>1. /\ decision' = [s \in Sessions |-> None] /\ handlers' = {} /\ events' = <<>> /\ restarted'
        /\ known' = known /\ page' = page /\ cursor' = cursor /\ seen' = seen /\ fetched' = fetched
        /\ shown' = shown
    BY <1>1 DEF Manager!Restart
  <2>2. KnownInv' /\ LogInv'
    BY <2>1 DEF ManagerInv, KnownInv, LogInv, Manager!TypeOK, IdsOnce
  <2>3. PageInv' /\ CursorInv'
    BY <2>1 DEF ManagerInv, PageInv, CursorInv
  <2> QED
    BY <2>2, <2>3 DEF ManagerInv
<1>2. CASE Manager!Reload
  <2>1. /\ decision' = decision /\ handlers' = handlers /\ events' = events /\ known' = known
        /\ page' = "idle" /\ cursor' = None /\ seen' = {} /\ fetched' = <<>> /\ shown' = <<>>
    BY <1>2 DEF Manager!Reload, Manager!api
  <2>2. KnownInv' /\ LogInv'
    BY <2>1 DEF ManagerInv, KnownInv, LogInv, Manager!TypeOK
  <2>3. PageInv' /\ CursorInv'
    BY <2>1 DEF PageInv, CursorInv, IdsOnce, Ids
  <2> QED
    BY <2>2, <2>3 DEF ManagerInv
<1> QED
  BY <1>1, <1>2

\* A step of the page leaves the API as it is.
LEMMA ApiKept ==
  ASSUME KnownInv, LogInv, UNCHANGED Manager!api, page' \in {"idle", "answered", "products"}
  PROVE  KnownInv' /\ LogInv'
<1>1. decision' = decision /\ known' = known /\ handlers' = handlers /\ events' = events
  BY DEF Manager!api
<1> QED
  BY <1>1 DEF KnownInv, LogInv, Manager!TypeOK

\* The API answers with the events behind the cursor.
LEMMA PollStep ==
  ASSUME ManagerInv, Manager!Poll
  PROVE  ManagerInv'
<1> DEFINE S == {e \in Manager!ToSet(events) : cursor = None \/ e.sequence > cursor}
<1>1. /\ page = "idle" /\ page' = "answered" /\ fetched' = Among(events, S)
      /\ UNCHANGED Manager!api /\ events' = events
      /\ cursor' = cursor /\ seen' = seen /\ shown' = shown /\ restarted' = restarted
  BY ManagerAmong DEF Manager!Poll, Manager!After, Manager!api
<1>2. \A j \in DOMAIN events : events[j] \in S <=> cursor = None \/ events[j].sequence > cursor
  BY DEF Manager!ToSet
<1> HIDE DEF S
<1>3. /\ fetched' \in Seq(EventOf) /\ IdsOnce(fetched')
      /\ \A i \in DOMAIN fetched' : \E j \in DOMAIN events : fetched'[i] = events[j]
      /\ \A j \in DOMAIN events : events[j] \in S => events[j].id \in Ids(fetched')
  BY <1>1, AmongIds DEF ManagerInv, LogInv
<1>4. PageInv'
  BY <1>1, <1>3 DEF ManagerInv, PageInv
<1>5. CursorInv'
  BY <1>1, <1>2, <1>3 DEF ManagerInv, CursorInv
<1> QED
  BY <1>1, <1>4, <1>5, ApiKept DEF ManagerInv

\* The page takes the events it has not seen, and moves its cursor.
LEMMA ReceiveStep ==
  ASSUME ManagerInv, Manager!Receive
  PROVE  ManagerInv'
<1> DEFINE S == {e \in Manager!ToSet(fetched) : e.id \notin seen}
           last == {fetched[i].sequence : i \in DOMAIN fetched} \cup {IF cursor = None THEN -1 ELSE cursor}
<1>1. /\ page = "answered" /\ page' = "products" /\ fetched' = Among(fetched, S)
      /\ seen' = seen \cup Ids(fetched)
      /\ UNCHANGED Manager!api /\ events' = events
      /\ shown' = shown /\ restarted' = restarted
  BY ManagerAmong DEF Manager!Receive, Manager!api, Ids
<1>2. cursor' = IF fetched = <<>> THEN cursor ELSE Manager!Max(last)
  BY DEF Manager!Receive
<1>3. \A j \in DOMAIN fetched : fetched[j] \in S <=> fetched[j].id \notin seen
  BY DEF Manager!ToSet
<1>4. \A e \in S : e.id \notin seen
  OBVIOUS
<1> HIDE DEF S
<1>5. /\ fetched \in Seq(EventOf) /\ IdsOnce(fetched) /\ shown \in Seq(EventOf) /\ IdsOnce(shown)
      /\ seen = Ids(shown)
  BY <1>1 DEF ManagerInv, PageInv
<1>6. /\ fetched' \in Seq(EventOf) /\ IdsOnce(fetched')
      /\ \A i \in DOMAIN fetched' : fetched'[i] \in S
      /\ \A i \in DOMAIN fetched' : \E j \in DOMAIN fetched : fetched'[i] = fetched[j]
      /\ \A j \in DOMAIN fetched : fetched[j] \in S => fetched[j].id \in Ids(fetched')
  BY <1>1, <1>5, AmongIds
<1>7. Ids(fetched') \cap Ids(shown) = {}
  BY <1>4, <1>5, <1>6 DEF Ids
<1>8. seen' = Ids(shown) \cup Ids(fetched')
  <2>1. Ids(fetched') \subseteq Ids(fetched)
    BY <1>6 DEF Ids
  <2>2. Ids(fetched) \subseteq seen \cup Ids(fetched')
    BY <1>3, <1>6 DEF Ids
  <2> QED
    BY <1>1, <1>5, <2>1, <2>2
<1>9. PageInv'
  BY <1>1, <1>5, <1>6, <1>7, <1>8 DEF PageInv
<1>10. CursorInv'
  <2> SUFFICES ASSUME ~restarted
               PROVE  /\ cursor' # None => cursor' \in Nat /\ cursor' < Len(events)
                      /\ \A k \in DOMAIN fetched' : \E i \in DOMAIN events : fetched'[k] = events[i]
                      /\ cursor' # None =>
                           \A i \in DOMAIN events : events[i].sequence <= cursor' => events[i].id \in seen'
    BY <1>1 DEF CursorInv
  <2>1. /\ cursor # None => cursor \in Nat /\ cursor < Len(events)
        /\ \A k \in DOMAIN fetched : \E i \in DOMAIN events : fetched[k] = events[i]
        /\ cursor # None => \A i \in DOMAIN events : events[i].sequence <= cursor => events[i].id \in seen
    BY DEF ManagerInv, CursorInv
  <2>2. \A i \in DOMAIN events, k \in DOMAIN fetched :
          events[i].sequence <= fetched[k].sequence /\ (cursor = None \/ events[i].sequence > cursor)
            => events[i].id \in Ids(fetched)
    BY <1>1 DEF ManagerInv, CursorInv
  <2>3. \A k \in DOMAIN fetched' : \E i \in DOMAIN events : fetched'[k] = events[i]
    BY <1>6, <2>1
  <2>4. CASE fetched = <<>>
    <3>1. cursor' = cursor
      BY <1>2, <2>4
    <3> QED
      BY <1>1, <2>1, <2>3, <3>1
  <2>5. CASE fetched # <<>>
    <3>1. /\ events \in Seq(EventOf) /\ Len(events) \in Nat
          /\ \A i \in DOMAIN events : /\ events[i].sequence = i - 1 /\ i <= Len(events)
                                      /\ i \in Nat /\ i # 0
      BY DEF ManagerInv, LogInv
    <3>2. \A k \in DOMAIN fetched : fetched[k].sequence \in Nat /\ fetched[k].sequence < Len(events)
      BY <2>1, <3>1
    <3>3. PICK k \in DOMAIN fetched : TRUE
      <4>1. Len(fetched) # 0 /\ Len(fetched) \in Nat /\ DOMAIN fetched = 1..Len(fetched)
        BY <1>5, <2>5, EmptySeq
      <4>2. 1 \in DOMAIN fetched
        BY <4>1
      <4> QED
        BY <4>2
    <3> DEFINE low == IF cursor = None THEN -1 ELSE cursor
    <3>4. low \in Int /\ low < Len(events)
      BY <2>1, <3>1
    <3>5. \A x \in last : x = low \/ \E i \in DOMAIN fetched : x = fetched[i].sequence
      OBVIOUS
    <3>6. fetched[k].sequence \in last
      BY <3>3
    <3> HIDE DEF last, low
    <3>7. \A x \in last : x \in Int /\ x < Len(events) /\ x <= Len(events)
      BY <3>1, <3>2, <3>4, <3>5
    <3>8. last \in SUBSET Int /\ last # {}
      BY <3>6, <3>7
    <3> DEFINE top == Manager!Max(last)
    <3>9. top \in last /\ \A x \in last : x <= top
      <4>1. Len(events) \in Int /\ \A x \in last : x <= Len(events)
        BY <3>1, <3>7
      <4> QED
        BY <3>8, <4>1, LargestIsIn
    <3>10. cursor' = top
      BY <1>2, <2>5
    <3> HIDE DEF top
    <3>11. top \in Nat /\ top < Len(events)
      <4>1. top \in Int /\ top < Len(events) /\ fetched[k].sequence <= top
        BY <3>6, <3>7, <3>9
      <4>2. fetched[k].sequence \in Nat
        BY <3>2, <3>3
      <4> QED
        BY <4>1, <4>2
    <3>12. \/ \E i \in DOMAIN fetched : top = fetched[i].sequence
           \/ top = IF cursor = None THEN -1 ELSE cursor
      BY <3>5, <3>9 DEF low
    <3>13. ASSUME NEW i \in DOMAIN events, events[i].sequence <= top
          PROVE  events[i].id \in seen'
      <4>1. CASE cursor # None /\ events[i].sequence <= cursor
        BY <1>1, <2>1, <4>1
      <4>2. CASE cursor = None \/ events[i].sequence > cursor
        <5>1. PICK j \in DOMAIN fetched : top = fetched[j].sequence
          <6>1. CASE cursor = None
            BY <3>11, <3>12, <6>1
          <6>2. CASE cursor # None /\ events[i].sequence > cursor
            <7>1. cursor \in Nat /\ events[i].sequence \in Nat
              BY <2>1, <3>1, <6>2
            <7>2. top # cursor
              BY <3>11, <3>13, <6>2, <7>1
            <7> QED
              BY <3>12, <6>2, <7>2
          <6> QED
            BY <4>2, <6>1, <6>2
        <5>2. events[i].id \in Ids(fetched)
          BY <2>2, <3>13, <4>2, <5>1
        <5> QED
          BY <1>1, <5>2
      <4>3. cursor # None => cursor \in Nat /\ events[i].sequence \in Nat
        BY <2>1, <3>1
      <4> QED
        BY <4>1, <4>2, <4>3
    <3> QED
      BY <2>3, <3>10, <3>11, <3>13
  <2> QED
    BY <2>4, <2>5
<1> QED
  BY <1>1, <1>9, <1>10, ApiKept DEF ManagerInv

\* What the page took is on the screen, in front of what was.
LEMMA ShowStep ==
  ASSUME ManagerInv, Manager!Show
  PROVE  ManagerInv'
<1>1. /\ page = "products" /\ page' = "idle" /\ shown' = fetched \o shown /\ fetched' = <<>>
      /\ UNCHANGED Manager!api /\ events' = events
      /\ cursor' = cursor /\ seen' = seen /\ restarted' = restarted
  BY DEF Manager!Show, Manager!api
<1>2. /\ fetched \in Seq(EventOf) /\ IdsOnce(fetched) /\ shown \in Seq(EventOf) /\ IdsOnce(shown)
      /\ Ids(fetched) \cap Ids(shown) = {} /\ seen = Ids(shown) \cup Ids(fetched)
  BY <1>1 DEF ManagerInv, PageInv
<1> DEFINE m == Len(fetched)
<1>3. /\ shown' \in Seq(EventOf) /\ m \in Nat /\ DOMAIN fetched = 1..m
      /\ Len(shown') = m + Len(shown) /\ Len(shown) \in Nat
      /\ \A i \in DOMAIN fetched : i \in DOMAIN shown' /\ shown'[i] = fetched[i]
      /\ \A i \in DOMAIN shown : m + i \in DOMAIN shown' /\ shown'[m + i] = shown[i]
      /\ \A i \in DOMAIN shown' :
           \/ i \in DOMAIN fetched /\ shown'[i] = fetched[i]
           \/ i - m \in DOMAIN shown /\ shown'[i] = shown[i - m]
  BY <1>1, <1>2
<1> HIDE DEF m
<1>4. Ids(shown') = Ids(shown) \cup Ids(fetched)
  <2>1. Ids(shown') \subseteq Ids(shown) \cup Ids(fetched)
    BY <1>3 DEF Ids
  <2>2. Ids(shown) \subseteq Ids(shown') /\ Ids(fetched) \subseteq Ids(shown')
    BY <1>3 DEF Ids
  <2> QED
    BY <2>1, <2>2
<1>5. IdsOnce(shown')
  <2> SUFFICES ASSUME NEW i \in DOMAIN shown', NEW j \in DOMAIN shown', shown'[i].id = shown'[j].id
               PROVE  i = j
    BY DEF IdsOnce
  <2>1. i \in Nat /\ j \in Nat
    BY <1>3
  <2>2. \A k \in DOMAIN fetched, l \in DOMAIN shown : fetched[k].id # shown[l].id
    BY <1>2 DEF Ids
  <2>3. CASE i \in DOMAIN fetched /\ shown'[i] = fetched[i] /\ j \in DOMAIN fetched /\ shown'[j] = fetched[j]
    BY <1>2, <2>3 DEF IdsOnce
  <2>4. CASE /\ i - m \in DOMAIN shown /\ shown'[i] = shown[i - m]
             /\ j - m \in DOMAIN shown /\ shown'[j] = shown[j - m]
    <3>1. i - m = j - m
      BY <1>2, <2>4 DEF IdsOnce
    <3> QED
      BY <1>3, <2>1, <3>1
  <2> QED
    BY <1>3, <2>2, <2>3, <2>4
<1>6. PageInv'
  <2>1. IdsOnce(<<>>) /\ Ids(<<>>) = {} /\ <<>> \in Seq(EventOf)
    BY DEF IdsOnce, Ids
  <2> QED
    BY <1>1, <1>2, <1>3, <1>4, <1>5, <2>1 DEF PageInv
<1>7. CursorInv'
  BY <1>1 DEF ManagerInv, CursorInv
<1> QED
  BY <1>1, <1>6, <1>7, ApiKept DEF ManagerInv

\* A poll that fails changes nothing.
LEMMA PollFailsStep ==
  ASSUME ManagerInv, Manager!PollFails
  PROVE  ManagerInv'
<1>1. /\ page = "answered" /\ page' = "idle" /\ fetched' = <<>> /\ shown' = shown
      /\ UNCHANGED Manager!api /\ events' = events
      /\ cursor' = cursor /\ seen' = seen /\ restarted' = restarted
  BY DEF Manager!PollFails, Manager!api
<1>2. PageInv'
  BY <1>1 DEF ManagerInv, PageInv, IdsOnce
<1>3. CursorInv'
  BY <1>1 DEF ManagerInv, CursorInv
<1> QED
  BY <1>1, <1>2, <1>3, ApiKept DEF ManagerInv

\* The manager's screen shows the requests made, each once and none left out
\* (apps/manager/src, request_manager_product of the store and the repository):
\* a request is answered twice at most with the same event, and the cursor
\* never passes one that is neither on the screen nor about to be.
THEOREM ScreenExact ==
  ASSUME MaxDecisions \in Nat
  PROVE  Manager!Init /\ [][Manager!Next]_(Manager!vars) => []Manager!EventsExact
<1>1. Manager!Init => ManagerInv
  BY ManagerInit
<1>2. ManagerInv /\ [Manager!Next]_(Manager!vars) => ManagerInv'
  <2>1. ASSUME ManagerInv, UNCHANGED Manager!vars
        PROVE  ManagerInv'
    <3>1. /\ decision' = decision /\ known' = known /\ handlers' = handlers /\ events' = events
          /\ page' = page /\ cursor' = cursor /\ seen' = seen /\ fetched' = fetched /\ shown' = shown
          /\ restarted' = restarted
      BY <2>1 DEF Manager!vars
    <3>2. KnownInv' /\ LogInv'
      BY <2>1, <3>1 DEF ManagerInv, KnownInv, LogInv, Manager!TypeOK
    <3> QED
      BY <2>1, <3>1, <3>2, ScreenKept DEF ManagerInv, Manager!screen
  <2>2. ASSUME ManagerInv, Manager!Next
        PROVE  ManagerInv'
    BY <2>2, DecisionSteps, RecordStep, FreshSteps, PollStep, ReceiveStep, ShowStep, PollFailsStep
       DEF Manager!Next
  <2> QED
    BY <2>1, <2>2
<1>3. ManagerInv => Manager!EventsExact
  <2> SUFFICES ASSUME ManagerInv PROVE Manager!EventsExact
    OBVIOUS
  <2>1. Manager!TypeOK
    BY DEF ManagerInv, KnownInv
  <2>2. Manager!EventsAreOfRecommendations /\ Manager!OneEventPerRequest
    BY DEF ManagerInv, LogInv, IdsOnce, Manager!EventsAreOfRecommendations, Manager!OneEventPerRequest
  <2>3. Manager!ShownOnce
    BY DEF ManagerInv, PageInv, IdsOnce, Manager!ShownOnce
  <2>4. seen \subseteq Manager!OnItsWay
    BY DEF ManagerInv, PageInv, Ids, Manager!OnItsWay
  <2>5. Manager!NothingSkipped
    BY <2>4 DEF ManagerInv, CursorInv, Manager!NothingSkipped
  <2> QED
    BY <2>1, <2>2, <2>3, <2>5 DEF Manager!EventsExact
<1> QED
  BY <1>1, <1>2, <1>3, PTL

-----------------------------------------------------------------------------
(* The v1 store *)

\* A sequence is one of its own members.
LEMMA IsSequence ==
  ASSUME NEW Y, NEW r \in Seq(Y)
  PROVE  r \in Seq({r[i] : i \in DOMAIN r})
<1> DEFINE X == {r[i] : i \in DOMAIN r}
<1>1. DOMAIN r = 1..Len(r) /\ Len(r) \in Nat /\ r \in [1..Len(r) -> Y]
  OBVIOUS
<1>2. \A i \in 1..Len(r) : r[i] \in X
  BY <1>1
<1> HIDE DEF X
<1>3. r \in [1..Len(r) -> X]
  BY <1>1, <1>2
<1>4. r \in Seq(X)
  BY <1>1, <1>3
<1> QED
  BY <1>4 DEF X

\* A session is completed when it has a result, whatever it is.
SessionsInv ==
  /\ sessions \in Seq({sessions[i] : i \in DOMAIN sessions})
  /\ \A s \in DOMAIN sessions : /\ DOMAIN sessions[s] = DOMAIN Store!NewSession
                                /\ sessions[s].completed = (sessions[s].status # "pending")

\* A conversion is of a completed session's result, which therefore stays.
ConversionsInv ==
  /\ \A c \in conversions : /\ c.recommendation \in DOMAIN sessions
                            /\ sessions[c.recommendation].completed
                            /\ c.product \in Store!ToSet(sessions[c.recommendation].items)
  /\ \A c, d \in conversions : c.id = d.id => c = d

\* An event is of a request that was accepted of a completed session.
RequestsInv ==
  /\ managerEvents \in Seq({managerEvents[i] : i \in DOMAIN managerEvents})
  /\ \A i \in DOMAIN managerEvents :
       LET e == managerEvents[i]
       IN /\ e.sequence = i - 1
          /\ e.session \in DOMAIN sessions
          /\ sessions[e.session].completed
          /\ e.items = sessions[e.session].items
          /\ [id |-> e.id, session |-> e.session, recommendation |-> e.session] \in requests
          /\ \A j \in DOMAIN managerEvents : managerEvents[j].id = e.id => i = j
  /\ IsFiniteSet(requests)
  /\ Cardinality(requests) = Len(managerEvents)

StoreInv == SessionsInv /\ ConversionsInv /\ RequestsInv

\* Results are results in the next state too.
ResultsKept ==
  \A s \in DOMAIN sessions : s \in DOMAIN sessions' /\ (sessions[s].completed => sessions'[s] = sessions[s])

\* A step that changes one session that has no result yet.
LEMMA SessionChanged ==
  ASSUME SessionsInv, NEW s \in DOMAIN sessions, ~sessions[s].completed,
         NEW r, sessions' = [sessions EXCEPT ![s] = r],
         DOMAIN r = DOMAIN Store!NewSession, r.completed = (r.status # "pending")
  PROVE  SessionsInv' /\ ResultsKept
<1>1. Len(sessions) \in Nat /\ DOMAIN sessions = 1..Len(sessions)
  BY DEF SessionsInv
<1>2. /\ DOMAIN sessions' = DOMAIN sessions /\ sessions'[s] = r
      /\ \A t \in DOMAIN sessions : t # s => sessions'[t] = sessions[t]
  BY <1>1
<1>3. sessions' \in Seq({sessions'[i] : i \in DOMAIN sessions'})
  <2> DEFINE X == {sessions[i] : i \in DOMAIN sessions} \cup {r}
  <2>1. sessions \in Seq(X) /\ r \in X
    BY DEF SessionsInv
  <2> HIDE DEF X
  <2>2. sessions' \in Seq(X)
    BY <1>1, <2>1
  <2> QED
    BY ONLY <2>2, IsSequence
<1>4. SessionsInv'
  BY <1>2, <1>3 DEF SessionsInv, Store!NewSession
<1>5. ResultsKept
  BY <1>2 DEF ResultsKept
<1> QED
  BY <1>4, <1>5

\* No step touches a result, and a session never goes away.
LEMMA SessionSteps ==
  ASSUME SessionsInv, Store!Next
  PROVE  SessionsInv' /\ ResultsKept
<1>1. CASE Store!CreateSession
  <2> DEFINE n == Len(sessions) + 1
  <2>1. Len(sessions) \in Nat /\ DOMAIN sessions = 1..Len(sessions)
    BY DEF SessionsInv
  <2>2. sessions' = Append(sessions, Store!NewSession)
    BY <1>1 DEF Store!CreateSession
  <2> DEFINE X == {sessions[i] : i \in DOMAIN sessions} \cup {Store!NewSession}
  <2>3. sessions \in Seq(X) /\ Store!NewSession \in X
    BY DEF SessionsInv
  <2> HIDE DEF X
  <2>4. /\ sessions' \in Seq(X) /\ sessions'[n] = Store!NewSession
        /\ \A i \in DOMAIN sessions' : i \in DOMAIN sessions \/ i = n
        /\ \A i \in DOMAIN sessions : i \in DOMAIN sessions' /\ sessions'[i] = sessions[i]
    BY <2>1, <2>2, <2>3
  <2> HIDE DEF n
  <2>5. sessions' \in Seq({sessions'[i] : i \in DOMAIN sessions'})
    BY <2>4, IsSequence
  <2>6. Store!NewSession.completed = (Store!NewSession.status # "pending")
    BY DEF Store!NewSession
  <2>7. SessionsInv'
    <3> SUFFICES ASSUME NEW s \in DOMAIN sessions'
                 PROVE  /\ DOMAIN sessions'[s] = DOMAIN Store!NewSession
                        /\ sessions'[s].completed = (sessions'[s].status # "pending")
      BY <2>5 DEF SessionsInv, Store!NewSession
    <3>1. CASE s = n
      BY <2>4, <2>6, <3>1
    <3>2. CASE s \in DOMAIN sessions
      BY <2>4, <3>2 DEF SessionsInv
    <3> QED
      BY <2>4, <3>1, <3>2
  <2> QED
    BY <2>4, <2>7 DEF ResultsKept
<1>2. ASSUME NEW s \in DOMAIN sessions, NEW batch \in Batches, Store!AppendBatch(s, batch)
      PROVE  SessionsInv' /\ ResultsKept
  <2>1. PICK b, e, q, f :
          sessions' = [sessions EXCEPT ![s] =
            [sessions[s] EXCEPT !.batchIds = b, !.eventIds = e, !.sequences = q, !.features = f]]
    BY <1>2 DEF Store!AppendBatch
  <2> DEFINE r == [sessions[s] EXCEPT !.batchIds = b, !.eventIds = e, !.sequences = q, !.features = f]
  <2>2. ~sessions[s].completed
    BY <1>2 DEF Store!AppendBatch
  <2>3. /\ DOMAIN r = DOMAIN Store!NewSession
        /\ r.completed = sessions[s].completed /\ r.status = sessions[s].status
    BY DEF SessionsInv, Store!NewSession
  <2>4. r.completed = (r.status # "pending")
    BY <2>3 DEF SessionsInv
  <2>5. sessions' = [sessions EXCEPT ![s] = r]
    BY <2>1
  <2> HIDE DEF r
  <2> QED
    BY <2>2, <2>3, <2>4, <2>5, SessionChanged
<1>3. ASSUME NEW s \in DOMAIN sessions, Store!CompleteSession(s)
      PROVE  SessionsInv' /\ ResultsKept
  <2> DEFINE items == Store!Items(sessions[s].features)
             r == [Store!NewSession EXCEPT !.completed = TRUE, !.items = items,
                     !.status = IF items = <<>> THEN "insufficient_data" ELSE "completed"]
  <2>1. ~sessions[s].completed /\ sessions' = [sessions EXCEPT ![s] = r]
    BY <1>3 DEF Store!CompleteSession
  <2> HIDE DEF items
  <2>2. DOMAIN r = DOMAIN Store!NewSession /\ r.completed = (r.status # "pending")
    BY DEF Store!NewSession
  <2> HIDE DEF r
  <2> QED
    BY <2>1, <2>2, SessionChanged
<1>4. CASE sessions' = sessions
  BY <1>4 DEF SessionsInv, ResultsKept, Store!NewSession
<1> QED
  BY <1>1, <1>2, <1>3, <1>4
     DEF Store!Next, Store!Numbers, Store!RecordConversion, Store!RequestManagerProduct


\* A conversion is recorded of a result, or a result it was recorded of stays.
LEMMA ConversionSteps ==
  ASSUME SessionsInv, ConversionsInv, ResultsKept, Store!Next
  PROVE  ConversionsInv'
<1>1. CASE conversions' = conversions
  BY <1>1 DEF ConversionsInv, ResultsKept, Store!ToSet
<1>2. ASSUME NEW id \in Outcomes, NEW s \in DOMAIN sessions, NEW r \in DOMAIN sessions,
             NEW p \in Catalog, Store!RecordConversion(id, s, r, p)
      PROVE  ConversionsInv'
  <2> DEFINE c == [id |-> id, session |-> s, recommendation |-> r, product |-> p]
  <2>1. /\ \A d \in conversions : d.id # id
        /\ sessions[s].status = "completed" /\ r = s /\ p \in Store!ToSet(sessions[s].items)
        /\ conversions' = conversions \cup {c} /\ sessions' = sessions
    BY <1>2 DEF Store!RecordConversion
  <2>2. sessions[s].completed
    BY <2>1 DEF SessionsInv
  <2>3. c.id = id /\ c.recommendation = s /\ c.product = p
    BY <2>1
  <2> HIDE DEF c
  <2> QED
    BY <2>1, <2>2, <2>3 DEF ConversionsInv, Store!ToSet
<1>3. CASE Store!CreateSession
  BY <1>1, <1>3 DEF Store!CreateSession
<1>4. ASSUME NEW s \in DOMAIN sessions,
             \/ \E batch \in Batches : Store!AppendBatch(s, batch)
             \/ Store!CompleteSession(s)
             \/ \E id \in Requests, r \in DOMAIN sessions : Store!RequestManagerProduct(id, s, r)
      PROVE  conversions' = conversions
  BY <1>4 DEF Store!AppendBatch, Store!CompleteSession, Store!RequestManagerProduct
<1> QED
  BY <1>1, <1>2, <1>3, <1>4 DEF Store!Next, Store!Numbers

\* A request is recorded with its event, both once.
LEMMA RequestSteps ==
  ASSUME SessionsInv, RequestsInv, ResultsKept, Store!Next
  PROVE  RequestsInv'
<1>1. CASE managerEvents' = managerEvents /\ requests' = requests
  BY <1>1 DEF RequestsInv, ResultsKept
<1>2. ASSUME NEW id \in Requests, NEW s \in DOMAIN sessions, NEW rec \in DOMAIN sessions,
             Store!RequestManagerProduct(id, s, rec)
      PROVE  RequestsInv'
  <2> DEFINE e == [id |-> id, sequence |-> Len(managerEvents), session |-> s, items |-> sessions[s].items]
             r == [id |-> id, session |-> s, recommendation |-> rec]
             n == Len(managerEvents) + 1
             X == {managerEvents[i] : i \in DOMAIN managerEvents} \cup {e}
  <2>1. /\ \A q \in requests : q.id # id
        /\ sessions[s].status = "completed" /\ rec = s
        /\ managerEvents' = Append(managerEvents, e) /\ requests' = requests \cup {r}
        /\ sessions' = sessions
    BY <1>2 DEF Store!RequestManagerProduct
  <2>2. sessions[s].completed
    BY <2>1 DEF SessionsInv
  <2>3. /\ e.id = id /\ e.sequence = Len(managerEvents) /\ e.session = s /\ e.items = sessions[s].items
        /\ r.id = id /\ r = [id |-> id, session |-> s, recommendation |-> s]
    BY <2>1
  <2>4. managerEvents \in Seq(X) /\ e \in X /\ Len(managerEvents) \in Nat
    BY DEF RequestsInv
  <2> HIDE DEF e, r, X
  <2>5. /\ managerEvents' \in Seq(X) /\ Len(managerEvents') = n
        /\ managerEvents'[n] = e /\ n \notin DOMAIN managerEvents
        /\ \A i \in DOMAIN managerEvents' : i \in DOMAIN managerEvents \/ i = n
        /\ \A i \in DOMAIN managerEvents : i \in DOMAIN managerEvents' /\ managerEvents'[i] = managerEvents[i]
    BY <2>1, <2>4
  <2>6. managerEvents' \in Seq({managerEvents'[i] : i \in DOMAIN managerEvents'})
    BY ONLY <2>5, IsSequence
  <2>7. \A i \in DOMAIN managerEvents : managerEvents[i].id # id
    BY <2>1 DEF RequestsInv
  <2>8. IsFiniteSet(requests') /\ Cardinality(requests') = n
    <3>1. r \notin requests
      BY <2>1, <2>3
    <3>2. IsFiniteSet(requests) /\ Cardinality(requests) = Len(managerEvents)
      BY DEF RequestsInv
    <3> QED
      BY <2>1, <3>1, <3>2, FS_AddElement
  <2> HIDE DEF n
  <2>9. ASSUME NEW i \in DOMAIN managerEvents'
        PROVE  LET f == managerEvents'[i]
               IN /\ f.sequence = i - 1
                  /\ f.session \in DOMAIN sessions'
                  /\ sessions'[f.session].completed
                  /\ f.items = sessions'[f.session].items
                  /\ [id |-> f.id, session |-> f.session, recommendation |-> f.session] \in requests'
                  /\ \A j \in DOMAIN managerEvents' : managerEvents'[j].id = f.id => i = j
    <3>1. CASE i = n
      <4>1. managerEvents'[i].sequence = i - 1
        BY <2>3, <2>4, <2>5, <3>1 DEF n
      <4>2. \A j \in DOMAIN managerEvents' : managerEvents'[j].id = managerEvents'[i].id => i = j
        BY <2>3, <2>5, <2>7, <3>1
      <4> QED
        BY <2>1, <2>2, <2>3, <2>5, <3>1, <4>1, <4>2
    <3>2. CASE i \in DOMAIN managerEvents
      <4>1. \A j \in DOMAIN managerEvents' : managerEvents'[j].id = managerEvents'[i].id => i = j
        <5> SUFFICES ASSUME NEW j \in DOMAIN managerEvents', managerEvents'[j].id = managerEvents'[i].id
                     PROVE  i = j
          OBVIOUS
        <5>1. j \in DOMAIN managerEvents
          BY <2>3, <2>5, <2>7, <3>2
        <5>2. managerEvents[j].id = managerEvents[i].id
          BY <2>5, <3>2, <5>1
        <5> QED
          BY <3>2, <5>1, <5>2 DEF RequestsInv
      <4> QED
        BY <2>1, <2>5, <3>2, <4>1 DEF RequestsInv
    <3> QED
      BY <2>5, <3>1, <3>2
  <2> QED
    BY <2>5, <2>6, <2>8, <2>9 DEF RequestsInv
<1>3. ASSUME \/ Store!CreateSession
             \/ \E s \in DOMAIN sessions :
                  \/ \E batch \in Batches : Store!AppendBatch(s, batch)
                  \/ Store!CompleteSession(s)
                  \/ \E id \in Outcomes, r \in DOMAIN sessions, p \in Catalog :
                       Store!RecordConversion(id, s, r, p)
      PROVE  managerEvents' = managerEvents /\ requests' = requests
  BY <1>3 DEF Store!CreateSession, Store!AppendBatch, Store!CompleteSession, Store!RecordConversion
<1> QED
  BY <1>1, <1>2, <1>3 DEF Store!Next, Store!Numbers

\* A store that just started satisfies the invariant.
LEMMA StoreInit ==
  ASSUME Store!Init
  PROVE  StoreInv
<1>1. sessions = <<>> /\ conversions = {} /\ managerEvents = <<>> /\ requests = {}
  BY DEF Store!Init
<1>2. IsFiniteSet({}) /\ Cardinality({}) = 0
  BY FS_EmptySet
<1> QED
  BY <1>1, <1>2 DEF StoreInv, SessionsInv, ConversionsInv, RequestsInv

\* So does every step, and one that changes nothing.
LEMMA StoreStep ==
  ASSUME StoreInv, [Store!Next]_(Store!vars)
  PROVE  StoreInv' /\ ResultsKept
<1>1. CASE Store!Next
  BY <1>1, SessionSteps, ConversionSteps, RequestSteps DEF StoreInv
<1>2. CASE UNCHANGED Store!vars
  <2>1. sessions' = sessions /\ conversions' = conversions /\ managerEvents' = managerEvents
        /\ requests' = requests
    BY <1>2 DEF Store!vars
  <2> QED
    BY <2>1 DEF StoreInv, SessionsInv, ConversionsInv, RequestsInv, ResultsKept, Store!NewSession,
                Store!ToSet
<1> QED
  BY <1>1, <1>2

\* A recommendation a client of the v1 API has read stays what it was
\* (store.py complete_session, append_batch): no later call changes it.
THEOREM StoreResultsStay == Store!Spec => Store!ResultsStay
<1>1. Store!Init => StoreInv
  BY StoreInit
<1>2. StoreInv /\ [Store!Next]_(Store!vars) => StoreInv'
  BY StoreStep
<1>3. StoreInv /\ [Store!Next]_(Store!vars) =>
        \A s \in Store!Numbers : sessions[s].completed => sessions'[s] = sessions[s]
  BY StoreStep DEF ResultsKept, Store!Numbers
<1> QED
  BY <1>1, <1>2, <1>3, PTL DEF Store!Spec, Store!ResultsStay

\* The instance's selection of the events behind one is the rest of them.
LEMMA ListedAreTheRest ==
  ASSUME RequestsInv, NEW i \in DOMAIN managerEvents
  PROVE  Store!ListManagerEvents(managerEvents[i].sequence)
           = SubSeq(managerEvents, i + 1, Len(managerEvents))
<1> DEFINE S == {e \in Store!ToSet(managerEvents) : e.sequence > managerEvents[i].sequence}
           X == {managerEvents[k] : k \in DOMAIN managerEvents}
<1>1. Store!ListManagerEvents(managerEvents[i].sequence) = Among(managerEvents, S)
  BY DEF Store!ListManagerEvents, Store!Among, Among
<1>2. /\ managerEvents \in Seq(X)
      /\ \A k \in DOMAIN managerEvents : managerEvents[k].sequence = k - 1
  BY DEF RequestsInv
<1>3. i \in 0..Len(managerEvents) /\ \A k \in DOMAIN managerEvents : k \in Nat
  BY <1>2
<1>4. \A k \in DOMAIN managerEvents : managerEvents[k] \in S <=> managerEvents[k].sequence > managerEvents[i].sequence
  BY DEF Store!ToSet
<1> HIDE DEF S, X
<1>5. \A k \in DOMAIN managerEvents : managerEvents[k] \in S <=> k > i
  BY <1>2, <1>3, <1>4
<1>6. Among(managerEvents, S) = SubSeq(managerEvents, i + 1, Len(managerEvents))
  BY <1>2, <1>3, <1>5, AmongRest
<1> QED
  BY <1>1, <1>6

\* The conversions and the manager's events agree with what each session was
\* recommended (store.py record_conversion, request_manager_product,
\* list_manager_events), one per outcome and request, and polling misses none.
THEOREM StoreLogsAgree == Store!Spec => []Store!LogsOfResults
<1>1. Store!Init => StoreInv
  BY StoreInit
<1>2. StoreInv /\ [Store!Next]_(Store!vars) => StoreInv'
  BY StoreStep
<1>3. StoreInv => Store!LogsOfResults
  <2> SUFFICES ASSUME StoreInv PROVE Store!LogsOfResults
    OBVIOUS
  <2>1. Store!ConversionsAreOfResults
    BY DEF StoreInv, ConversionsInv, Store!ConversionsAreOfResults
  <2>2. Cardinality(requests) = Len(managerEvents)
    BY DEF StoreInv, RequestsInv
  <2>3. \A i \in DOMAIN managerEvents :
          Store!ListManagerEvents(managerEvents[i].sequence)
            = SubSeq(managerEvents, i + 1, Len(managerEvents))
    BY ListedAreTheRest DEF StoreInv
  <2>4. Store!EventsAreRequests
    BY <2>2, <2>3 DEF StoreInv, RequestsInv, Store!EventsAreRequests, Store!Cardinality, Cardinality
  <2> QED
    BY <2>1, <2>4 DEF Store!LogsOfResults
<1> QED
  BY <1>1, <1>2, <1>3, PTL DEF Store!Spec

-----------------------------------------------------------------------------
(* Finite sets and sums *)

\* A set of subsets that holds the empty set, and a set if it holds what is
\* left of it without any one member, holds all subsets of a finite set.
LEMMA SubsetsAll ==
  ASSUME NEW D, IsFiniteSet(D), NEW G \in SUBSET (SUBSET D), {} \in G,
         \A T \in SUBSET D : T # {} /\ (\A x \in T : T \ {x} \in G) => T \in G
  PROVE  G = SUBSET D
<1> SUFFICES ASSUME NEW U \in SUBSET D, U \notin G PROVE FALSE
  OBVIOUS
<1> DEFINE B == (SUBSET D) \ G
           N == {Cardinality(T) : T \in B}
<1>1. \A T \in SUBSET D : IsFiniteSet(T) /\ Cardinality(T) \in Nat
  BY FS_Subset, FS_CardinalityType
<1>2. N \in SUBSET Nat /\ N # {}
  BY <1>1
<1>3. PICK m \in N : \A n \in N : m <= n
  BY <1>2, Least
<1>4. PICK T \in B : Cardinality(T) = m
  BY <1>3
<1>5. PICK x \in T : T \ {x} \notin G
  BY <1>4
<1>6. T \ {x} \in B
  BY <1>4, <1>5
<1>7. Cardinality(T \ {x}) \in N
  BY <1>6
<1>8. Cardinality(T \ {x}) = m - 1
  BY <1>1, <1>4, <1>5, FS_RemoveElement
<1>9. m \in Int /\ m <= m - 1
  <2>1. m \in Nat
    BY <1>2, <1>3
  <2>2. m <= Cardinality(T \ {x})
    BY <1>3, <1>7
  <2> QED
    BY <1>8, <2>1, <2>2
<1> QED
  BY <1>9

\* The sum of some of a function's values, and the member the fold takes next.
Sum(w, S) == Store!SumFunctionOnSet(w, S)
Taken(s) == CHOOSE x \in s : TRUE
SumBody(w, f, s) == IF s = {} THEN 0 ELSE w[Taken(s)] + f[s \ {Taken(s)}]
Sums(w, f, D) == f = [s \in SUBSET D |-> SumBody(w, f, s)]

\* The fold over a finite set is what its body says: the function exists, as
\* one that is right for ever larger sets.
LEMMA SumUnfolds ==
  ASSUME NEW w, NEW D, IsFiniteSet(D)
  PROVE  \E f : Sum(w, D) = f[D] /\ Sums(w, f, D)
<1> DEFINE Body(f, s) == SumBody(w, f, s)
           Whole == CHOOSE f : f = [s \in SUBSET D |-> SumBody(w, f, s)]
           n == Cardinality(D)
           Right(i, f) == /\ f = [s \in SUBSET D |-> f[s]]
                          /\ \A s \in SUBSET D : Cardinality(s) <= i => f[s] = Body(f, s)
           R == {i \in 0..n : \E f : Right(i, f)}
<1>1. Sum(w, D) = Whole[D]
  BY DEF Sum, Store!SumFunctionOnSet, Store!FoldFunctionOnSet, Store!MapThenFoldSet, SumBody, Taken
<1>2. /\ n \in Nat
      /\ \A s \in SUBSET D : IsFiniteSet(s) /\ Cardinality(s) \in Nat /\ Cardinality(s) <= n
  BY FS_Subset, FS_CardinalityType
<1>3. \A s \in SUBSET D : s # {} =>
        /\ Taken(s) \in s /\ s \ {Taken(s)} \in SUBSET D
        /\ Cardinality(s \ {Taken(s)}) = Cardinality(s) - 1
  BY <1>2, FS_RemoveElement DEF Taken
<1>4. \A s \in SUBSET D : Cardinality(s) = 0 => s = {}
  BY <1>2, FS_EmptySet
<1>5. 0 \in R
  <2> DEFINE f == [s \in SUBSET D |-> 0]
  <2>1. ASSUME NEW s \in SUBSET D, Cardinality(s) <= 0 PROVE f[s] = Body(f, s)
    <3>1. s = {}
      BY <1>2, <1>4, <2>1
    <3> QED
      BY <3>1 DEF SumBody
  <2>2. Right(0, f)
    BY <2>1
  <2>3. 0 \in 0..n
    BY <1>2
  <2> HIDE DEF Right, f, n
  <2> QED
    BY <2>2, <2>3
<1>6. ASSUME NEW i \in R, i < n PROVE i + 1 \in R
  <2>1. PICK f : Right(i, f)
    OBVIOUS
  <2> DEFINE g == [s \in SUBSET D |-> Body(f, s)]
  <2>2. ASSUME NEW s \in SUBSET D, Cardinality(s) <= i + 1 PROVE g[s] = Body(g, s)
    <3>1. CASE s = {}
      BY <3>1 DEF SumBody
    <3>2. CASE s # {}
      <4> DEFINE r == s \ {Taken(s)}
      <4>1. r \in SUBSET D /\ Cardinality(r) <= i
        BY <1>2, <1>3, <2>2, <3>2
      <4>2. f[r] = Body(f, r)
        BY <2>1, <4>1
      <4>3. g[r] = f[r]
        BY <4>1, <4>2
      <4>4. g[s] = w[Taken(s)] + f[r]
        BY <3>2 DEF SumBody
      <4>5. Body(g, s) = w[Taken(s)] + g[r]
        BY <3>2 DEF SumBody
      <4> QED
        BY <4>3, <4>4, <4>5
    <3> QED
      BY <3>1, <3>2
  <2>3. g = [s \in SUBSET D |-> g[s]]
    OBVIOUS
  <2>4. Right(i + 1, g)
    BY <2>2, <2>3
  <2>5. i + 1 \in 0..n
    <3>1. i \in 0..n
      OBVIOUS
    <3> HIDE DEF n
    <3> QED
      BY <1>2, <1>6, <3>1
  <2> HIDE DEF Right, g
  <2> QED
    BY <2>4, <2>5
<1>7. R = 0..n
  <2> HIDE DEF Right
  <2>1. R \in SUBSET (0..n)
    OBVIOUS
  <2> HIDE DEF R
  <2> QED
    BY <1>2, <1>5, <1>6, <2>1, Steps
<1>8. \E f : Right(n, f)
  <2>1. n \in R
    <3>1. n \in 0..n
      BY <1>2
    <3> HIDE DEF R, n
    <3> QED
      BY <1>7, <3>1
  <2> HIDE DEF Right
  <2> QED
    BY <2>1
<1>9. PICK f : Right(n, f)
  BY <1>8
<1>10. f = [s \in SUBSET D |-> SumBody(w, f, s)]
  BY <1>2, <1>9
<1>11. Whole = [s \in SUBSET D |-> SumBody(w, Whole, s)]
  BY <1>10
<1> QED
  BY <1>1, <1>11 DEF Sums

\* The sum of a set is the same, however large the set it is a part of.
LEMMA SumStep ==
  ASSUME NEW w, NEW D, IsFiniteSet(D), NEW s \in SUBSET D
  PROVE  Sum(w, s) = IF s = {} THEN 0 ELSE w[Taken(s)] + Sum(w, s \ {Taken(s)})
<1>1. ASSUME NEW E \in SUBSET D, NEW F \in SUBSET E,
             NEW f, Sums(w, f, E), NEW g, Sums(w, g, F)
      PROVE  f[F] = g[F]
  <2> DEFINE G == {t \in SUBSET F : f[t] = g[t]}
  <2>1. IsFiniteSet(F)
    BY FS_Subset
  <2>2. \A t \in SUBSET F : t \in SUBSET E
    OBVIOUS
  <2>3. \A t \in SUBSET F : f[t] = SumBody(w, f, t) /\ g[t] = SumBody(w, g, t)
    <3>1. \A t \in SUBSET E : f[t] = SumBody(w, f, t)
      BY <1>1 DEF Sums
    <3>2. \A t \in SUBSET F : g[t] = SumBody(w, g, t)
      BY <1>1 DEF Sums
    <3> QED
      BY <2>2, <3>1, <3>2
  <2>4. {} \in G
    BY <2>3 DEF SumBody
  <2>5. ASSUME NEW T \in SUBSET F, T # {}, \A x \in T : T \ {x} \in G PROVE T \in G
    <3>1. Taken(T) \in T
      BY <2>5 DEF Taken
    <3>2. f[T \ {Taken(T)}] = g[T \ {Taken(T)}]
      BY <2>5, <3>1
    <3> QED
      BY <2>3, <2>5, <3>2 DEF SumBody
  <2>6. G \in SUBSET (SUBSET F)
    OBVIOUS
  <2> HIDE DEF G
  <2>7. G = SUBSET F
    BY <2>1, <2>4, <2>5, <2>6, SubsetsAll
  <2> QED
    BY <2>7 DEF G
<1>2. IsFiniteSet(s)
  BY FS_Subset
<1>3. PICK f : Sum(w, s) = f[s] /\ Sums(w, f, s)
  BY <1>2, SumUnfolds
<1>4. f[s] = SumBody(w, f, s)
  BY <1>3 DEF Sums
<1>5. CASE s = {}
  BY <1>3, <1>4, <1>5 DEF SumBody
<1>6. CASE s # {}
  <2> DEFINE r == s \ {Taken(s)}
  <2>1. r \in SUBSET s /\ IsFiniteSet(r)
    BY <1>2, FS_Subset
  <2> HIDE DEF r
  <2>2. PICK g : Sum(w, r) = g[r] /\ Sums(w, g, r)
    BY <2>1, SumUnfolds
  <2>3. f[r] = g[r]
    <3>1. Sums(w, f, s) /\ Sums(w, g, r)
      BY <1>3, <2>2
    <3> QED
      BY <1>1, <3>1, <2>1, Zenon
  <2> QED
    BY <1>3, <1>4, <1>6, <2>2, <2>3 DEF SumBody, r
<1> QED
  BY <1>5, <1>6

\* A sum of integers is one, and any member may be taken out.
LEMMA SumIs ==
  ASSUME NEW w, NEW D, IsFiniteSet(D), \A x \in D : w[x] \in Int
  PROVE  /\ Sum(w, {}) = 0 /\ Sum(w, D) \in Int
         /\ \A x \in D : Sum(w, D) = w[x] + Sum(w, D \ {x}) /\ Sum(w, D \ {x}) \in Int
<1> DEFINE Fine(T) == /\ Sum(w, T) \in Int
                      /\ \A x \in T : Sum(w, T) = w[x] + Sum(w, T \ {x}) /\ Sum(w, T \ {x}) \in Int
           G == {T \in SUBSET D : Fine(T)}
<1>1. Sum(w, {}) = 0
  BY FS_EmptySet, SumStep
<1>2. {} \in G
  BY <1>1
<1>3. ASSUME NEW T \in SUBSET D, T # {}, \A x \in T : T \ {x} \in G PROVE T \in G
  <2> DEFINE c == Taken(T)
  <2>1. c \in T
    BY <1>3 DEF Taken
  <2>2. Sum(w, T) = w[c] + Sum(w, T \ {c})
    BY <1>3, SumStep
  <2> HIDE DEF c
  <2>3. \A x \in T : Fine(T \ {x})
    BY <1>3
  <2>4. Sum(w, T) \in Int
    BY <2>1, <2>2, <2>3
  <2>5. ASSUME NEW x \in T, x # c PROVE Sum(w, T) = w[x] + Sum(w, T \ {x})
    <3>1. (T \ {c}) \ {x} = (T \ {x}) \ {c}
      OBVIOUS
    <3> DEFINE a == Sum(w, (T \ {c}) \ {x})
    <3>2. Sum(w, T \ {c}) = w[x] + a /\ a \in Int
      BY <2>1, <2>3, <2>5
    <3>3. Sum(w, T \ {x}) = w[c] + a
      BY <2>1, <2>3, <2>5, <3>1
    <3>4. w[x] \in Int /\ w[c] \in Int
      BY <2>1
    <3> HIDE DEF a
    <3> QED
      BY <2>2, <3>2, <3>3, <3>4
  <2> QED
    BY <2>2, <2>3, <2>4, <2>5
<1>4. G = SUBSET D
  <2> HIDE DEF Fine
  <2>1. G \in SUBSET (SUBSET D)
    OBVIOUS
  <2> HIDE DEF G
  <2> QED
    BY <1>2, <1>3, <2>1, SubsetsAll
<1>5. Fine(D)
  <2>1. D \in G
    BY <1>4
  <2> HIDE DEF Fine
  <2> QED
    BY <2>1
<1> QED
  BY <1>1, <1>5

\* Functions that agree have the same sum, and larger ones no smaller one.
LEMMA SumLess ==
  ASSUME NEW D, IsFiniteSet(D), NEW v, NEW w,
         \A x \in D : v[x] \in Int /\ w[x] \in Int /\ v[x] <= w[x]
  PROVE  Sum(v, D) <= Sum(w, D)
<1> DEFINE G == {T \in SUBSET D : Sum(v, T) <= Sum(w, T)}
<1>1. \A T \in SUBSET D : IsFiniteSet(T)
  BY FS_Subset
<1>2. {} \in G
  BY <1>1, SumIs
<1>3. ASSUME NEW T \in SUBSET D, T # {}, \A x \in T : T \ {x} \in G PROVE T \in G
  <2>1. PICK x \in T : TRUE
    BY <1>3
  <2>2. /\ Sum(v, T) = v[x] + Sum(v, T \ {x}) /\ Sum(v, T \ {x}) \in Int
        /\ Sum(w, T) = w[x] + Sum(w, T \ {x}) /\ Sum(w, T \ {x}) \in Int
    <3>1. IsFiniteSet(T) /\ \A y \in T : v[y] \in Int /\ w[y] \in Int
      BY <1>1
    <3> QED
      BY <3>1, SumIs
  <2>3. Sum(v, T \ {x}) <= Sum(w, T \ {x})
    BY <1>3
  <2>4. v[x] \in Int /\ w[x] \in Int /\ v[x] <= w[x]
    OBVIOUS
  <2> HIDE DEF G
  <2>5. Sum(v, T) <= Sum(w, T)
    BY <2>2, <2>3, <2>4
  <2> QED
    BY <2>5 DEF G
<1>4. G = SUBSET D
  <2>1. G \in SUBSET (SUBSET D)
    OBVIOUS
  <2> HIDE DEF G
  <2> QED
    BY <1>2, <1>3, <2>1, SubsetsAll
<1> QED
  BY <1>4

LEMMA SumSame ==
  ASSUME NEW D, IsFiniteSet(D), NEW v, NEW w, \A x \in D : v[x] = w[x] /\ v[x] \in Int
  PROVE  Sum(v, D) = Sum(w, D)
<1>1. \A x \in D : v[x] \in Int /\ w[x] \in Int /\ v[x] <= w[x] /\ w[x] <= v[x]
  OBVIOUS
<1>2. Sum(v, D) <= Sum(w, D) /\ Sum(w, D) <= Sum(v, D)
  BY <1>1, SumLess
<1>3. Sum(v, D) \in Int /\ Sum(w, D) \in Int
  BY <1>1, SumIs
<1> QED
  BY <1>2, <1>3

\* A combination of two functions sums to the combination of their sums.
LEMMA SumLinear ==
  ASSUME NEW D, IsFiniteSet(D), NEW u, NEW v, NEW w, NEW k \in Int,
         \A x \in D : u[x] \in Int /\ v[x] \in Int /\ w[x] = u[x] + k * v[x]
  PROVE  Sum(w, D) = Sum(u, D) + k * Sum(v, D)
<1> DEFINE G == {T \in SUBSET D : Sum(w, T) = Sum(u, T) + k * Sum(v, T)}
<1>1. \A T \in SUBSET D : IsFiniteSet(T)
  BY FS_Subset
<1>2. \A x \in D : w[x] \in Int
  OBVIOUS
<1>3. {} \in G
  <2>1. Sum(w, {}) = 0 /\ Sum(u, {}) = 0 /\ Sum(v, {}) = 0
    BY <1>2, SumIs
  <2> QED
    BY <2>1
<1>4. ASSUME NEW T \in SUBSET D, T # {}, \A x \in T : T \ {x} \in G PROVE T \in G
  <2>1. PICK x \in T : TRUE
    BY <1>4
  <2> DEFINE U == T \ {x}
  <2>2. /\ Sum(u, T) = u[x] + Sum(u, U) /\ Sum(u, U) \in Int
        /\ Sum(v, T) = v[x] + Sum(v, U) /\ Sum(v, U) \in Int
        /\ Sum(w, T) = w[x] + Sum(w, U) /\ Sum(w, U) \in Int
    <3>1. IsFiniteSet(T)
      BY <1>1
    <3>2. \A y \in T : u[y] \in Int /\ v[y] \in Int /\ w[y] \in Int
      BY <1>2
    <3>3. Sum(u, T) = u[x] + Sum(u, U) /\ Sum(u, U) \in Int
      BY <3>1, <3>2, SumIs
    <3>4. Sum(v, T) = v[x] + Sum(v, U) /\ Sum(v, U) \in Int
      BY <3>1, <3>2, SumIs
    <3>5. Sum(w, T) = w[x] + Sum(w, U) /\ Sum(w, U) \in Int
      BY <3>1, <3>2, SumIs
    <3> QED
      BY <3>3, <3>4, <3>5
  <2>3. Sum(w, U) = Sum(u, U) + k * Sum(v, U)
    BY <1>4
  <2>4. u[x] \in Int /\ v[x] \in Int /\ w[x] = u[x] + k * v[x]
    OBVIOUS
  <2> HIDE DEF G, U
  <2>5. k * (v[x] + Sum(v, U)) = k * v[x] + k * Sum(v, U)
    <3>1. \A a, b, c \in Int : a * (b + c) = a * b + a * c
      OBVIOUS
    <3> QED
      BY <2>2, <2>4, <3>1
  <2>6. k * v[x] \in Int /\ k * Sum(v, U) \in Int
    BY <2>2, <2>4
  <2>7. Sum(w, T) = Sum(u, T) + k * Sum(v, T)
    BY <2>2, <2>3, <2>4, <2>5, <2>6
  <2> QED
    BY <2>7 DEF G
<1>5. G = SUBSET D
  <2>1. G \in SUBSET (SUBSET D)
    OBVIOUS
  <2> HIDE DEF G
  <2> QED
    BY <1>3, <1>4, <2>1, SubsetsAll
<1> QED
  BY <1>5

\* What is zero does not count.
LEMMA SumPart ==
  ASSUME NEW D, IsFiniteSet(D), NEW E \in SUBSET D, NEW w,
         \A x \in D : w[x] \in Int /\ (x \notin E => w[x] = 0)
  PROVE  Sum(w, D) = Sum(w, E)
<1> DEFINE G == {T \in SUBSET D : Sum(w, T) = Sum(w, T \cap E)}
<1>1. \A T \in SUBSET D : IsFiniteSet(T)
  BY FS_Subset
<1>2. {} \in G
  OBVIOUS
<1>3. ASSUME NEW T \in SUBSET D, T # {}, \A x \in T : T \ {x} \in G PROVE T \in G
  <2>1. PICK x \in T : TRUE
    BY <1>3
  <2>2. Sum(w, T) = w[x] + Sum(w, T \ {x}) /\ Sum(w, T \ {x}) \in Int
    <3>1. IsFiniteSet(T) /\ \A y \in T : w[y] \in Int
      BY <1>1
    <3> QED
      BY <3>1, SumIs
  <2>3. Sum(w, T \ {x}) = Sum(w, (T \ {x}) \cap E)
    BY <1>3
  <2>4. CASE x \in E
    <3>1. (T \ {x}) \cap E = (T \cap E) \ {x} /\ x \in T \cap E
      BY <2>4
    <3>2. IsFiniteSet(T \cap E) /\ \A y \in T \cap E : w[y] \in Int
      BY <1>1
    <3>3. Sum(w, T \cap E) = w[x] + Sum(w, (T \cap E) \ {x})
      BY <3>1, <3>2, SumIs
    <3>4. Sum(w, T) = Sum(w, T \cap E)
      BY <2>2, <2>3, <3>1, <3>3
    <3> QED
      BY <3>4
  <2>5. CASE x \notin E
    <3>1. (T \ {x}) \cap E = T \cap E /\ w[x] = 0
      BY <2>5
    <3>2. Sum(w, (T \ {x}) \cap E) = Sum(w, T \cap E)
      BY <3>1
    <3>3. Sum(w, T) = Sum(w, T \ {x})
      BY <2>2, <3>1
    <3>4. Sum(w, T) = Sum(w, T \cap E)
      BY <2>3, <3>2, <3>3, Zenon
    <3> QED
      BY <3>4
  <2> QED
    BY <2>4, <2>5
<1>4. G = SUBSET D
  <2>1. G \in SUBSET (SUBSET D)
    OBVIOUS
  <2> HIDE DEF G
  <2> QED
    BY <1>2, <1>3, <2>1, SubsetsAll
<1>5. Sum(w, D) = Sum(w, D \cap E)
  BY <1>4
<1>6. D \cap E = E
  OBVIOUS
<1> QED
  BY <1>5, <1>6

\* A sum over names is the sum over what they name, one to one.
LEMMA SumNamed ==
  ASSUME NEW D, IsFiniteSet(D), NEW E, NEW h \in [D -> E], NEW v, NEW w,
         \A x, y \in D : h[x] = h[y] => x = y,
         \A y \in E : \E x \in D : y = h[x],
         \A x \in D : v[x] = w[h[x]] /\ v[x] \in Int
  PROVE  Sum(v, D) = Sum(w, E) /\ IsFiniteSet(E)
<1> DEFINE Im(T) == {h[x] : x \in T}
           G == {T \in SUBSET D : Sum(v, T) = Sum(w, Im(T))}
<1>1. \A T \in SUBSET D : IsFiniteSet(T)
  BY FS_Subset
<1>2. \A T \in SUBSET D : IsFiniteSet(Im(T))
  <2> SUFFICES ASSUME NEW T \in SUBSET D PROVE IsFiniteSet(Im(T))
    OBVIOUS
  <2>1. IsFiniteSet(T)
    BY <1>1
  <2> DEFINE f == [x \in T |-> h[x]]
  <2>2. f \in Surjection(T, Im(T))
    BY DEF Surjection
  <2> HIDE DEF f, Im
  <2> QED
    BY <2>1, <2>2, FS_Surjection
<1>3. {} \in G
  <2>1. Im({}) = {}
    OBVIOUS
  <2>2. Sum(v, {}) = 0 /\ Sum(w, {}) = 0
    BY FS_EmptySet, SumIs
  <2> HIDE DEF Im
  <2> QED
    BY <2>1, <2>2
<1>4. ASSUME NEW T \in SUBSET D, T # {}, \A x \in T : T \ {x} \in G PROVE T \in G
  <2>1. PICK x \in T : TRUE
    BY <1>4
  <2>2. Sum(v, T) = v[x] + Sum(v, T \ {x})
    <3>1. IsFiniteSet(T) /\ \A y \in T : v[y] \in Int
      BY <1>1
    <3> QED
      BY <3>1, SumIs
  <2>3. Sum(v, T \ {x}) = Sum(w, Im(T \ {x}))
    BY <1>4
  <2>4. Im(T \ {x}) = Im(T) \ {h[x]} /\ h[x] \in Im(T) /\ \A y \in Im(T) : w[y] \in Int
    OBVIOUS
  <2>5. IsFiniteSet(Im(T))
    BY <1>2
  <2>6. v[x] = w[h[x]]
    OBVIOUS
  <2> HIDE DEF Im, G
  <2>7. Sum(w, Im(T)) = w[h[x]] + Sum(w, Im(T) \ {h[x]})
    BY <2>4, <2>5, SumIs
  <2>8. Sum(v, T) = Sum(w, Im(T))
    BY <2>2, <2>3, <2>4, <2>6, <2>7
  <2> QED
    BY <2>8 DEF G
<1>5. G = SUBSET D
  <2> HIDE DEF Im
  <2>1. G \in SUBSET (SUBSET D) /\ IsFiniteSet(D)
    OBVIOUS
  <2> HIDE DEF G
  <2> QED
    BY ONLY <1>3, <1>4, <2>1, SubsetsAll
<1>6. Im(D) = E
  OBVIOUS
<1> HIDE DEF Im
<1> QED
  BY <1>2, <1>5, <1>6

\* Two sums may change places.
LEMMA SumSwaps ==
  ASSUME NEW P, IsFiniteSet(P), NEW K, IsFiniteSet(K), NEW g \in [P -> [K -> Int]]
  PROVE  Sum([p \in P |-> Sum(g[p], K)], P) = Sum([k \in K |-> Sum([p \in P |-> g[p][k]], P)], K)
<1> DEFINE row == [p \in P |-> Sum(g[p], K)]
           col(k) == [p \in P |-> g[p][k]]
           cols(T) == [k \in K |-> Sum(col(k), T)]
           G == {T \in SUBSET P : Sum(row, T) = Sum(cols(T), K)}
<1>1. \A T \in SUBSET P : IsFiniteSet(T)
  BY FS_Subset
<1>2. \A p \in P : Sum(g[p], K) \in Int
  <2> SUFFICES ASSUME NEW p \in P PROVE Sum(g[p], K) \in Int
    OBVIOUS
  <2>1. \A k \in K : g[p][k] \in Int
    OBVIOUS
  <2> QED
    BY <2>1, SumIs
<1>3. \A T \in SUBSET P, k \in K :
        /\ Sum(col(k), T) \in Int
        /\ \A p \in T : Sum(col(k), T) = g[p][k] + Sum(col(k), T \ {p})
  <2> SUFFICES ASSUME NEW T \in SUBSET P, NEW k \in K
               PROVE  /\ Sum(col(k), T) \in Int
                      /\ \A p \in T : Sum(col(k), T) = g[p][k] + Sum(col(k), T \ {p})
    OBVIOUS
  <2>1. \A p \in T : col(k)[p] = g[p][k] /\ g[p][k] \in Int
    OBVIOUS
  <2>2. IsFiniteSet(T)
    BY <1>1
  <2> HIDE DEF col
  <2> QED
    BY <2>1, <2>2, SumIs
<1>4. \A T \in SUBSET P : Sum(row, T) \in Int /\ \A p \in T : Sum(row, T) = Sum(g[p], K) + Sum(row, T \ {p})
  <2> SUFFICES ASSUME NEW T \in SUBSET P
               PROVE  Sum(row, T) \in Int /\ \A p \in T : Sum(row, T) = Sum(g[p], K) + Sum(row, T \ {p})
    OBVIOUS
  <2>1. \A p \in T : row[p] = Sum(g[p], K) /\ row[p] \in Int
    BY <1>2
  <2>2. IsFiniteSet(T)
    BY <1>1
  <2> HIDE DEF row
  <2>3. \A p \in T : row[p] \in Int
    BY <2>1
  <2>4. Sum(row, T) \in Int /\ \A p \in T : Sum(row, T) = row[p] + Sum(row, T \ {p})
    BY ONLY <2>2, <2>3, SumIs
  <2> QED
    BY <2>1, <2>4
<1>5. {} \in G
  <2>1. Sum(row, {}) = 0
    BY FS_EmptySet, SumIs
  <2>2. \A k \in K : Sum(col(k), {}) = 0
    BY FS_EmptySet, SumIs
  <2> HIDE DEF row, col
  <2>3. \A k \in K : cols({})[k] = 0
    BY <2>2
  <2>4. Sum(cols({}), {}) = 0
    BY FS_EmptySet, SumIs
  <2> HIDE DEF cols
  <2>5. Sum(cols({}), K) = Sum(cols({}), {})
    BY <2>3, SumPart
  <2> QED
    BY <2>1, <2>4, <2>5
<1>6. ASSUME NEW T \in SUBSET P, T # {}, \A x \in T : T \ {x} \in G PROVE T \in G
  <2>1. PICK p \in T : TRUE
    BY <1>6
  <2> DEFINE U == T \ {p}
  <2>2. Sum(row, U) = Sum(cols(U), K)
    BY <1>6
  <2>3. Sum(row, T) = Sum(g[p], K) + Sum(row, U)
    BY <1>4
  <2>4. \A k \in K : g[p][k] \in Int /\ cols(U)[k] = Sum(col(k), U) /\ cols(T)[k] = Sum(col(k), T)
    <3> HIDE DEF col
    <3> QED
      OBVIOUS
  <2>5. \A k \in K : Sum(col(k), T) = g[p][k] + Sum(col(k), U) /\ Sum(col(k), U) \in Int
    BY <1>3
  <2> HIDE DEF row, col, cols, U, G
  <2>6. \A k \in K : g[p][k] \in Int /\ cols(U)[k] \in Int /\ cols(T)[k] = g[p][k] + 1 * cols(U)[k]
    BY <2>4, <2>5
  <2>7. Sum(cols(T), K) = Sum(g[p], K) + 1 * Sum(cols(U), K)
    BY <2>6, SumLinear
  <2>8. Sum(cols(U), K) \in Int
    BY <2>6, SumIs
  <2>9. Sum(row, T) = Sum(cols(T), K)
    BY <2>2, <2>3, <2>7, <2>8
  <2> QED
    BY <2>9 DEF G
<1>7. G = SUBSET P
  <2> HIDE DEF row, cols
  <2>1. G \in SUBSET (SUBSET P)
    OBVIOUS
  <2> HIDE DEF G
  <2> QED
    BY <1>5, <1>6, <2>1, SubsetsAll
<1> QED
  BY <1>7

-----------------------------------------------------------------------------
(* Looks and what is kept of them *)

\* The store's sets are counted as all sets are.
LEMMA SameSets ==
  /\ \A S : Store!IsFiniteSet(S) <=> IsFiniteSet(S)
  /\ \A S : Store!Cardinality(S) = Cardinality(S)
  BY DEF Store!IsFiniteSet, IsFiniteSet, Store!Cardinality, Cardinality

\* What the catalog and the batches are.
LEMMA StoreIs ==
  /\ IsFiniteSet(Catalog) /\ Catalog \subseteq Int /\ MaxContiguousGap \in Nat
  /\ \A batch \in Batches :
       /\ Len(batch.events) \in Nat
       /\ batch.events \in [1..Len(batch.events) -> Store!ToSet(batch.events)]
       /\ \A i \in DOMAIN batch.events : Store!IsEvent(batch.events[i])
       /\ \A i, j \in DOMAIN batch.events :
            batch.events[i].id = batch.events[j].id \/ batch.events[i].seq = batch.events[j].seq => i = j
  BY StoreFits, SameSets DEF Store!StoreAssumption

\* A finite set of integers has a largest and a least member.
LEMMA MaxIs ==
  ASSUME NEW S \in SUBSET Int, S # {}, IsFiniteSet(S)
  PROVE  /\ Store!Max(S) \in S /\ Store!Max(S) \in Int /\ \A x \in S : x <= Store!Max(S)
         /\ \A m \in S : (\A x \in S : x <= m) => Store!Max(S) = m
<1> DEFINE G == {T \in SUBSET S : T = {} \/ \E m \in T : \A x \in T : x <= m}
<1>1. {} \in G
  OBVIOUS
<1>2. ASSUME NEW T \in SUBSET S, T # {}, \A x \in T : T \ {x} \in G PROVE T \in G
  <2>1. PICK x \in T : TRUE
    BY <1>2
  <2>2. x \in Int
    OBVIOUS
  <2>3. CASE T \ {x} = {}
    <3>1. \A y \in T : y <= x
      BY <2>2, <2>3
    <3> QED
      BY <3>1
  <2>4. CASE T \ {x} # {}
    <3>1. PICK m \in T \ {x} : \A y \in T \ {x} : y <= m
      BY <1>2, <2>4
    <3>2. m \in Int
      OBVIOUS
    <3>3. CASE x <= m
      <4>1. \A y \in T : y <= m
        BY <3>1, <3>3
      <4> QED
        BY <4>1
    <3>4. CASE m <= x
      <4>1. \A y \in T : y <= x
        BY <2>2, <3>1, <3>2, <3>4
      <4> QED
        BY <4>1
    <3> QED
      BY <2>2, <3>2, <3>3, <3>4
  <2> QED
    BY <2>3, <2>4
<1>3. G = SUBSET S
  <2>1. G \in SUBSET (SUBSET S)
    OBVIOUS
  <2> HIDE DEF G
  <2> QED
    BY <1>1, <1>2, <2>1, SubsetsAll
<1>4. \E m \in S : \A x \in S : x <= m
  BY <1>3
<1>5. \E m \in S : \A x \in S : m >= x
  BY <1>4
<1>6. Store!Max(S) \in S /\ \A x \in S : Store!Max(S) >= x
  BY <1>5 DEF Store!Max
<1>7. Store!Max(S) \in Int
  BY <1>6
<1>8. \A x \in S : x <= Store!Max(S)
  BY <1>6, <1>7
<1>9. ASSUME NEW m \in S, \A x \in S : x <= m PROVE Store!Max(S) = m
  <2>1. m <= Store!Max(S) /\ Store!Max(S) <= m /\ m \in Int
    BY <1>6, <1>8, <1>9
  <2> QED
    BY <1>7, <2>1
<1> QED
  BY <1>6, <1>7, <1>8, <1>9

LEMMA MinIs ==
  ASSUME NEW S \in SUBSET Int, S # {}, IsFiniteSet(S)
  PROVE  Store!Min(S) \in S /\ Store!Min(S) \in Int /\ \A x \in S : Store!Min(S) <= x
<1> DEFINE f == [x \in S |-> 0 - x]
           N == {0 - x : x \in S}
<1>1. f \in Surjection(S, N)
  BY DEF Surjection
<1>2. IsFiniteSet(N)
  <2> HIDE DEF f, N
  <2> QED
    BY <1>1, FS_Surjection
<1>3. N \in SUBSET Int /\ N # {}
  <2>1. \A x \in S : 0 - x \in Int
    OBVIOUS
  <2> QED
    BY <2>1
<1>4. PICK m \in N : \A x \in N : x <= m
  <2> HIDE DEF N
  <2> QED
    BY <1>2, <1>3, MaxIs
<1>5. PICK x \in S : m = 0 - x
  OBVIOUS
<1>6. ASSUME NEW y \in S PROVE x <= y
  <2>1. 0 - y \in N
    OBVIOUS
  <2>2. 0 - y <= 0 - x /\ x \in Int /\ y \in Int
    BY <1>4, <1>5, <2>1
  <2> QED
    BY <2>2
<1>7. \E z \in S : \A y \in S : z =< y
  BY <1>6
<1>8. Store!Min(S) \in S /\ \A y \in S : Store!Min(S) <= y
  BY <1>7 DEF Store!Min
<1> QED
  BY <1>8

\* The larger one of what a set had and what it gets.
LEMMA MaxAdds ==
  ASSUME NEW S \in SUBSET Int, IsFiniteSet(S), NEW x \in Int
  PROVE  /\ Store!Max({x}) = x
         /\ S # {} => Store!Max(S \cup {x}) = Store!Larger(Store!Max(S), x)
<1>1. Store!Max({x}) = x
  <2>1. IsFiniteSet({x})
    BY FS_Singleton
  <2>2. {x} \in SUBSET Int /\ x \in {x} /\ \A y \in {x} : y <= x
    OBVIOUS
  <2> QED
    BY <2>1, <2>2, MaxIs
<1>2. ASSUME S # {} PROVE Store!Max(S \cup {x}) = Store!Larger(Store!Max(S), x)
  <2> DEFINE T == S \cup {x}
             m == Store!Max(S)
  <2>1. T \in SUBSET Int /\ T # {} /\ IsFiniteSet(T)
    BY FS_AddElement
  <2>2. m \in S /\ m \in Int /\ \A y \in S : y <= m
    BY <1>2, MaxIs
  <2> HIDE DEF m
  <2>3. CASE m >= x
    <3>1. m \in T /\ \A y \in T : y <= m
      BY <2>2, <2>3
    <3>2. Store!Max(T) = m
      <4> HIDE DEF T
      <4> QED
        BY <2>1, <3>1, MaxIs
    <3> QED
      BY <2>3, <3>2 DEF Store!Larger, m
  <2>4. CASE ~(m >= x)
    <3>1. x \in T /\ \A y \in T : y <= x
      BY <2>2, <2>4
    <3>2. Store!Max(T) = x
      <4> HIDE DEF T
      <4> QED
        BY <2>1, <3>1, MaxIs
    <3> QED
      BY <2>4, <3>2 DEF Store!Larger, m
  <2> QED
    BY <2>3, <2>4
<1> QED
  BY <1>1, <1>2

\* Of whole numbers, what division leaves.
LEMMA DivIs ==
  ASSUME NEW a \in Nat, NEW b \in Nat \ {0}
  PROVE  a \div b \in Nat /\ (a \div b) * b <= a
  OBVIOUS

\* A product's share and place in an event that names it are numbers.
LEMMA NamedIs ==
  ASSUME NEW e, Store!IsEvent(e), NEW p \in Store!Named(e)
  PROVE  /\ p \in Catalog /\ Store!Share(e) \in Nat /\ Store!IndexIn(e, p) \in Int
         /\ e.seq \in Int /\ e.epoch \in Int /\ e.bucket \in Int /\ e.confidence \in 0..Store!MaxConfidence
         /\ e.confidence * Store!Share(e) \in Nat
         /\ e.confidence * Store!Share(e) <= Store!MaxConfidence * Store!Share(e)
<1>1. Store!Named(e) \subseteq Catalog /\ IsFiniteSet(Catalog)
  BY StoreIs DEF Store!Named
<1>2. IsFiniteSet(Store!Named(e))
  BY <1>1, FS_Subset
<1>3. Cardinality(Store!Named(e)) \in Nat \ {0}
  BY <1>2, FS_CardinalityType, FS_EmptySet
<1>4. Store!Share(e) \in Nat
  <2>1. 12 \div Cardinality(Store!Named(e)) \in Nat
    BY <1>3, DivIs
  <2> QED
    BY <2>1, SameSets DEF Store!Share, Store!Unit
<1>5. Store!IndexIn(e, p) \in Int
  <2> DEFINE S == {i \in DOMAIN e.candidates : e.candidates[i] = p}
             n == Len(e.candidates)
  <2>1. n \in Nat /\ DOMAIN e.candidates = 1..n
    BY DEF Store!IsEvent
  <2>2. S \in SUBSET (1..n) /\ S # {}
    BY <2>1 DEF Store!Named
  <2> HIDE DEF S, n
  <2>3. IsFiniteSet(S) /\ S \in SUBSET Int
    <3>1. IsFiniteSet(1..n)
      BY <2>1, FS_Interval
    <3>2. S \in SUBSET Int
      BY <2>1, <2>2
    <3> QED
      BY <2>2, <3>1, <3>2, FS_Subset
  <2>4. Store!Min(S) \in Int
    BY <2>2, <2>3, MinIs
  <2> QED
    BY <2>4 DEF Store!IndexIn, S
<1>6. /\ e.seq \in Int /\ e.epoch \in Int /\ e.bucket \in Int
      /\ e.confidence \in 0..Store!MaxConfidence /\ Store!MaxConfidence = 2
  BY DEF Store!IsEvent, Store!MaxConfidence
<1>7. /\ e.confidence * Store!Share(e) \in Nat
      /\ e.confidence * Store!Share(e) <= Store!MaxConfidence * Store!Share(e)
  <2> DEFINE c == e.confidence
             s == Store!Share(e)
  <2>1. c \in {0, 1, 2} /\ s \in Nat
    BY <1>4, <1>6
  <2> HIDE DEF c, s
  <2>2. c * s \in Nat /\ c * s <= 2 * s
    BY <2>1
  <2> QED
    BY <1>6, <2>2 DEF c, s
<1> QED
  BY <1>1, <1>4, <1>5, <1>6, <1>7

\* Looks at one product, of different sequences.
LooksAt(L, p) ==
  /\ IsFiniteSet(L) /\ \A e \in L : Store!IsEvent(e) /\ p \in Store!Named(e)
  /\ \A d, e \in L : d.seq = e.seq => d = e

Seen(L, p) == {<<e.seq, Store!IndexIn(e, p)>> : e \in L}
FirstOf(S, x) == x \in S /\ \A y \in S \ {x} : Store!Earlier(x, y)

\* One look is the first, and what is kept of the first is of that one.
LEMMA FirstIs ==
  ASSUME NEW L, NEW p, LooksAt(L, p), L # {}
  PROVE  /\ FirstOf(Seen(L, p), Store!AttentionOf(L, p).first)
         /\ \A x : FirstOf(Seen(L, p), x) => Store!AttentionOf(L, p).first = x
<1> DEFINE S == Seen(L, p)
<1>1. \A e \in L : e.seq \in Int /\ Store!IndexIn(e, p) \in Int
  BY NamedIs DEF LooksAt
<1>2. \E x : FirstOf(S, x)
  <2> DEFINE Q == {e.seq : e \in L}
             f == [e \in L |-> e.seq]
  <2>1. Q \in SUBSET Int /\ Q # {}
    BY <1>1
  <2>2. f \in Surjection(L, Q)
    BY DEF Surjection
  <2>3. IsFiniteSet(Q)
    <3> HIDE DEF f, Q
    <3> QED
      BY <2>2, FS_Surjection DEF LooksAt
  <2>4. PICK q \in Q : \A x \in Q : q <= x
    <3> HIDE DEF Q
    <3> QED
      BY <2>1, <2>3, MinIs
  <2>5. PICK d \in L : d.seq = q
    OBVIOUS
  <2> DEFINE x == <<d.seq, Store!IndexIn(d, p)>>
  <2>6. x \in S
    BY DEF Seen
  <2>7. ASSUME NEW y \in S \ {x} PROVE Store!Earlier(x, y)
    <3>1. PICK e \in L : y = <<e.seq, Store!IndexIn(e, p)>>
      BY <2>7 DEF Seen
    <3>2. e # d
      BY <2>7, <3>1
    <3>3. e.seq # d.seq
      BY <3>2 DEF LooksAt
    <3>4. d.seq <= e.seq /\ d.seq \in Int /\ e.seq \in Int
      BY <1>1, <2>4, <2>5
    <3>5. d.seq < e.seq
      BY <3>3, <3>4
    <3> QED
      BY <3>1, <3>5 DEF Store!Earlier
  <2> HIDE DEF x
  <2> QED
    BY <2>6, <2>7 DEF FirstOf
<1>3. Store!AttentionOf(L, p).first = CHOOSE x \in S : \A y \in S \ {x} : Store!Earlier(x, y)
  BY DEF Store!AttentionOf, Seen
<1>4. FirstOf(S, Store!AttentionOf(L, p).first)
  <2>1. \E x \in S : \A y \in S \ {x} : Store!Earlier(x, y)
    BY <1>2 DEF FirstOf
  <2> HIDE DEF S
  <2> QED
    BY <1>3, <2>1 DEF FirstOf
<1>5. ASSUME NEW x, NEW y, FirstOf(S, x), FirstOf(S, y) PROVE x = y
  <2> SUFFICES ASSUME x # y PROVE FALSE
    OBVIOUS
  <2>1. Store!Earlier(x, y) /\ Store!Earlier(y, x) /\ x \in S /\ y \in S
    BY <1>5 DEF FirstOf
  <2>2. x[1] \in Int /\ x[2] \in Int /\ y[1] \in Int /\ y[2] \in Int
    BY <1>1, <2>1 DEF Seen
  <2> QED
    BY <2>1, <2>2 DEF Store!Earlier
<1> QED
  BY <1>4, <1>5

-----------------------------------------------------------------------------
(* A look more *)

Keys(L) == {Store!At(e) : e \in L}
Buckets(L) == {Store!BucketOf(L, k) : k \in Keys(L)}
Within(L, k) == {e \in L : Store!At(e) = k}
Shares(L, k) == {Store!Share(e) : e \in Within(L, k)}
Sure(e) == e.confidence * Store!Share(e)
Confidences(L, k) == {Sure(e) : e \in Within(L, k)}

\* The shares of the looks within a bucket are numbers, finitely many.
LEMMA SharesAre ==
  ASSUME NEW L, NEW p, LooksAt(L, p), NEW k
  PROVE  /\ Shares(L, k) \in SUBSET Nat /\ IsFiniteSet(Shares(L, k))
         /\ Confidences(L, k) \in SUBSET Nat /\ IsFiniteSet(Confidences(L, k))
         /\ k \in Keys(L) => /\ Shares(L, k) # {} /\ Confidences(L, k) # {}
                             /\ k = <<k[1], k[2]>> /\ k[1] \in Int /\ k[2] \in Int
<1> DEFINE W == Within(L, k)
           f == [e \in W |-> Store!Share(e)]
           g == [e \in W |-> Sure(e)]
<1>1. IsFiniteSet(W) /\ \A e \in W : e \in L
  <2>1. W \in SUBSET L
    BY DEF Within
  <2>2. IsFiniteSet(L)
    BY DEF LooksAt
  <2> HIDE DEF W
  <2> QED
    BY <2>1, <2>2, FS_Subset
<1>2. \A e \in L : /\ Store!Share(e) \in Nat /\ Sure(e) \in Nat
                   /\ Store!At(e) = <<e.epoch, e.bucket>> /\ e.epoch \in Int /\ e.bucket \in Int
  BY NamedIs DEF LooksAt, Sure, Store!At
<1>3. f \in Surjection(W, Shares(L, k)) /\ g \in Surjection(W, Confidences(L, k))
  BY DEF Surjection, Shares, Confidences
<1>4. IsFiniteSet(Shares(L, k)) /\ IsFiniteSet(Confidences(L, k))
  <2> HIDE DEF f, g, W
  <2> QED
    BY <1>1, <1>3, FS_Surjection
<1>5. Shares(L, k) \in SUBSET Nat /\ Confidences(L, k) \in SUBSET Nat
  BY <1>1, <1>2 DEF Shares, Confidences
<1>6. ASSUME k \in Keys(L)
      PROVE  /\ Shares(L, k) # {} /\ Confidences(L, k) # {}
             /\ k = <<k[1], k[2]>> /\ k[1] \in Int /\ k[2] \in Int
  <2>1. PICK e \in L : k = Store!At(e)
    BY <1>6 DEF Keys
  <2>2. e \in W
    BY <2>1 DEF Within
  <2>3. Shares(L, k) # {} /\ Confidences(L, k) # {}
    BY <2>2 DEF Shares, Confidences
  <2> QED
    BY <1>2, <2>1, <2>3
<1> QED
  BY <1>4, <1>5, <1>6

LEMMA BucketIs ==
  ASSUME NEW L, NEW p, LooksAt(L, p), NEW k \in Keys(L)
  PROVE  /\ Store!BucketOf(L, k) =
              [key |-> k, share |-> Store!Max(Shares(L, k)), confident |-> Store!Max(Confidences(L, k))]
         /\ Store!Max(Shares(L, k)) \in Nat /\ Store!Max(Confidences(L, k)) \in Nat
<1>1. Store!BucketOf(L, k) =
        [key |-> k, share |-> Store!Max(Shares(L, k)), confident |-> Store!Max(Confidences(L, k))]
  BY DEF Store!BucketOf, Shares, Confidences, Within, Sure
<1>2. /\ Shares(L, k) \in SUBSET Int /\ Shares(L, k) # {} /\ IsFiniteSet(Shares(L, k))
      /\ Confidences(L, k) \in SUBSET Int /\ Confidences(L, k) # {} /\ IsFiniteSet(Confidences(L, k))
      /\ Shares(L, k) \subseteq Nat /\ Confidences(L, k) \subseteq Nat
  BY SharesAre
<1>3. Store!Max(Shares(L, k)) \in Shares(L, k) /\ Store!Max(Confidences(L, k)) \in Confidences(L, k)
  BY <1>2, MaxIs
<1> QED
  BY <1>1, <1>2, <1>3

\* A look more changes the bucket it is in.
LEMMA BucketAdds ==
  ASSUME NEW L, NEW p, LooksAt(L, p), NEW e, Store!IsEvent(e), p \in Store!Named(e), e \notin L
  PROVE  LET key == Store!At(e)
             M == L \cup {e}
             b == Store!BucketOf(L, key)
         IN /\ Keys(M) = Keys(L) \cup {key}
            /\ \A k : k # key => Store!BucketOf(M, k) = Store!BucketOf(L, k)
            /\ key \notin Keys(L) =>
                 Store!BucketOf(M, key) = [key |-> key, share |-> Store!Share(e), confident |-> Sure(e)]
            /\ key \in Keys(L) =>
                 Store!BucketOf(M, key) =
                   [key |-> key, share |-> Store!Larger(b.share, Store!Share(e)),
                    confident |-> Store!Larger(b.confident, Sure(e))]
<1> DEFINE key == Store!At(e)
           M == L \cup {e}
           b == Store!BucketOf(L, key)
<1>1. Keys(M) = Keys(L) \cup {key}
  BY DEF Keys
<1>2. ASSUME NEW k, k # key PROVE Store!BucketOf(M, k) = Store!BucketOf(L, k)
  <2>1. {d \in M : Store!At(d) = k} = {d \in L : Store!At(d) = k}
    BY <1>2
  <2> HIDE DEF M
  <2> QED
    BY <2>1 DEF Store!BucketOf
<1>3. Within(M, key) = Within(L, key) \cup {e}
  BY DEF Within
<1>4. /\ Shares(M, key) = Shares(L, key) \cup {Store!Share(e)}
      /\ Confidences(M, key) = Confidences(L, key) \cup {Sure(e)}
  <2> HIDE DEF M, key
  <2> QED
    BY <1>3 DEF Shares, Confidences
<1>5. Store!BucketOf(M, key) =
        [key |-> key, share |-> Store!Max(Shares(M, key)), confident |-> Store!Max(Confidences(M, key))]
  BY DEF Store!BucketOf, Shares, Confidences, Within, Sure
<1>6. Store!Share(e) \in Nat /\ Sure(e) \in Nat
  BY NamedIs DEF Sure
<1>7. /\ Shares(L, key) \in SUBSET Int /\ IsFiniteSet(Shares(L, key))
      /\ Confidences(L, key) \in SUBSET Int /\ IsFiniteSet(Confidences(L, key))
      /\ key \in Keys(L) => Shares(L, key) # {} /\ Confidences(L, key) # {}
  <2> HIDE DEF key
  <2>1. Shares(L, key) \subseteq Nat /\ Confidences(L, key) \subseteq Nat
    BY SharesAre
  <2> QED
    BY <2>1, SharesAre
<1>8. ASSUME key \notin Keys(L)
      PROVE  Store!BucketOf(M, key) = [key |-> key, share |-> Store!Share(e), confident |-> Sure(e)]
  <2>1. Within(L, key) = {}
    BY <1>8 DEF Keys, Within
  <2>2. Shares(L, key) = {} /\ Confidences(L, key) = {}
    BY <2>1 DEF Shares, Confidences
  <2> HIDE DEF M, key
  <2>3. Shares(M, key) = {Store!Share(e)} /\ Confidences(M, key) = {Sure(e)}
    BY <1>4, <2>2
  <2>4. Store!Max({Store!Share(e)}) = Store!Share(e) /\ Store!Max({Sure(e)}) = Sure(e)
    <3>1. IsFiniteSet({}) /\ {} \in SUBSET Int
      BY FS_EmptySet
    <3>2. Store!Share(e) \in Int /\ Sure(e) \in Int
      BY <1>6
    <3> QED
      BY <3>1, <3>2, MaxAdds
  <2> QED
    BY <1>5, <2>3, <2>4
<1>9. ASSUME key \in Keys(L)
      PROVE  Store!BucketOf(M, key) =
               [key |-> key, share |-> Store!Larger(b.share, Store!Share(e)),
                confident |-> Store!Larger(b.confident, Sure(e))]
  <2> HIDE DEF M, key
  <2>1. b.share = Store!Max(Shares(L, key)) /\ b.confident = Store!Max(Confidences(L, key))
    BY <1>9, BucketIs
  <2>2. Store!Share(e) \in Int /\ Sure(e) \in Int
    BY <1>6
  <2>3. /\ Store!Max(Shares(M, key)) = Store!Larger(Store!Max(Shares(L, key)), Store!Share(e))
        /\ Store!Max(Confidences(M, key)) = Store!Larger(Store!Max(Confidences(L, key)), Sure(e))
    BY <1>4, <1>7, <1>9, <2>2, MaxAdds
  <2> HIDE DEF b
  <2> QED
    BY <1>5, <2>1, <2>3
<1> QED
  BY <1>1, <1>2, <1>8, <1>9

\* The buckets with a look more are those that _record_attention_bucket makes.
LEMMA ObservedIs ==
  ASSUME NEW L, NEW p, LooksAt(L, p), NEW e, Store!IsEvent(e), p \in Store!Named(e), e \notin L
  PROVE  Store!Observed(Buckets(L), Store!At(e), Store!Share(e), Sure(e)) = Buckets(L \cup {e})
<1> DEFINE key == Store!At(e)
           M == L \cup {e}
           b == Store!BucketOf(L, key)
           fresh == [key |-> key, share |-> Store!Share(e), confident |-> Sure(e)]
           here == {x \in Buckets(L) : x.key = key}
           others == {Store!BucketOf(L, k) : k \in Keys(L) \ {key}}
           larger(x) == [key |-> key, share |-> Store!Larger(x.share, Store!Share(e)),
                         confident |-> Store!Larger(x.confident, Sure(e))]
<1>1. \A k \in Keys(L) : Store!BucketOf(L, k).key = k
  BY BucketIs
<1>2. Store!Observed(Buckets(L), key, Store!Share(e), Sure(e)) =
        (Buckets(L) \ here) \cup (IF here = {} THEN {fresh} ELSE {larger(x) : x \in here})
  BY DEF Store!Observed
<1>3. Buckets(L) \ here = others
  <2> HIDE DEF key
  <2> QED
    BY <1>1 DEF Buckets
<1>4. /\ Keys(M) = Keys(L) \cup {key}
      /\ \A k : k # key => Store!BucketOf(M, k) = Store!BucketOf(L, k)
      /\ key \notin Keys(L) => Store!BucketOf(M, key) = fresh
      /\ key \in Keys(L) =>
           Store!BucketOf(M, key) =
             [key |-> key, share |-> Store!Larger(b.share, Store!Share(e)),
              confident |-> Store!Larger(b.confident, Sure(e))]
  BY BucketAdds
<1>5. Buckets(M) = others \cup {Store!BucketOf(M, key)}
  <2> HIDE DEF M, key
  <2>1. \A k \in Keys(L) \ {key} : Store!BucketOf(M, k) = Store!BucketOf(L, k)
    BY <1>4
  <2>2. Keys(M) = (Keys(L) \ {key}) \cup {key}
    BY <1>4
  <2> QED
    BY <2>1, <2>2 DEF Buckets
<1>6. CASE key \in Keys(L)
  <2>1. here = {b}
    <3> HIDE DEF key
    <3> QED
      BY <1>1, <1>6 DEF Buckets
  <2>2. larger(b) = Store!BucketOf(M, key)
    <3> HIDE DEF b, key, M
    <3> QED
      BY <1>4, <1>6
  <2>3. {larger(x) : x \in here} = {larger(b)} /\ here # {}
    <3> HIDE DEF b
    <3> QED
      BY <2>1
  <2> HIDE DEF here, others, larger, fresh, b, M, key
  <2> QED
    BY <1>2, <1>3, <1>5, <2>2, <2>3 DEF key, M
<1>7. CASE key \notin Keys(L)
  <2>1. here = {}
    <3> HIDE DEF key
    <3> QED
      BY <1>1, <1>7 DEF Buckets
  <2> HIDE DEF here, others, larger, fresh, b, M, key
  <2> QED
    BY <1>2, <1>3, <1>4, <1>5, <1>7, <2>1 DEF key, M
<1> QED
  BY <1>6, <1>7

\* What is kept of the looks and one more is what accept makes of it.
LEMMA AttentionAdds ==
  ASSUME NEW L, NEW p, LooksAt(L, p), NEW e, Store!IsEvent(e), p \in Store!Named(e),
         \A d \in L : d.seq # e.seq
  PROVE  LET f == Store!AttentionOf(L, p)
             look == <<e.seq, Store!IndexIn(e, p)>>
         IN Store!AttentionOf(L \cup {e}, p) =
              [count |-> f.count + 1,
               confidence |-> f.confidence + Sure(e),
               first |-> IF f.count = 0 \/ Store!Earlier(look, f.first) THEN look ELSE f.first,
               buckets |-> Store!Observed(f.buckets, Store!At(e), Store!Share(e), Sure(e))]
<1> DEFINE f == Store!AttentionOf(L, p)
           M == L \cup {e}
           m == Store!AttentionOf(M, p)
           look == <<e.seq, Store!IndexIn(e, p)>>
           s(K) == [d \in K |-> Sure(d)]
<1>1. e \notin L
  OBVIOUS
<1>2. LooksAt(M, p)
  <2>1. IsFiniteSet(M)
    BY FS_AddElement DEF LooksAt
  <2> QED
    BY <2>1 DEF LooksAt
<1>3. ASSUME NEW K, K # {}
      PROVE  Store!AttentionOf(K, p) =
               [count |-> Cardinality(K), confidence |-> Store!SumFunction(s(K)),
                first |-> Store!AttentionOf(K, p).first, buckets |-> Buckets(K)]
  BY <1>3, SameSets DEF Store!AttentionOf, Sure, Buckets, Keys
<1>4. L = {} => f = [count |-> 0, confidence |-> 0, first |-> <<>>, buckets |-> {}]
  BY DEF Store!AttentionOf, Store!NoAttention
<1>5. f.count = Cardinality(L) /\ f.buckets = Buckets(L) /\ f.confidence = Sum(s(L), L)
  <2>1. CASE L = {}
    <3>1. Cardinality(L) = 0 /\ Buckets(L) = {}
      BY <2>1, FS_EmptySet DEF Buckets, Keys
    <3>2. Sum(s(L), {}) = 0
      BY FS_EmptySet, SumIs
    <3>3. Sum(s(L), L) = 0
      <4> HIDE DEF s
      <4> QED
        BY <2>1, <3>2
    <3>4. f.count = 0 /\ f.confidence = 0 /\ f.buckets = {}
      BY <1>4, <2>1
    <3> HIDE DEF f, s
    <3> QED
      BY <3>1, <3>3, <3>4
  <2>2. CASE L # {}
    <3>1. Store!SumFunction(s(L)) = Sum(s(L), L)
      BY DEF Store!SumFunction, Sum
    <3> HIDE DEF s
    <3> QED
      BY <1>3, <2>2, <3>1
  <2> QED
    BY <2>1, <2>2
<1>6. /\ m = [count |-> m.count, confidence |-> m.confidence, first |-> m.first, buckets |-> m.buckets]
       /\ m.count = Cardinality(M) /\ m.confidence = Store!SumFunction(s(M)) /\ m.buckets = Buckets(M)
  <2>1. M # {}
    OBVIOUS
  <2> DEFINE c == Cardinality(M)
             t == Store!SumFunction(s(M))
             b == Buckets(M)
  <2>2. m = [count |-> c, confidence |-> t, first |-> m.first, buckets |-> b]
    BY <1>3, <2>1
  <2> HIDE DEF c, t, b
  <2>3. \A x, u, v, w, z : x = [count |-> u, confidence |-> v, first |-> w, buckets |-> z] =>
          /\ x.count = u /\ x.confidence = v /\ x.buckets = z
          /\ x = [count |-> x.count, confidence |-> x.confidence, first |-> x.first,
                  buckets |-> x.buckets]
    OBVIOUS
  <2> HIDE DEF m
  <2>4. /\ m.count = c /\ m.confidence = t /\ m.buckets = b
        /\ m = [count |-> m.count, confidence |-> m.confidence, first |-> m.first,
                buckets |-> m.buckets]
    BY <2>2, <2>3
  <2> QED
    BY <2>4 DEF c, t, b
<1>7. m.count = f.count + 1
  <2>1. m.count = Cardinality(M)
    BY <1>6
  <2>2. Cardinality(M) = Cardinality(L) + 1
    BY <1>1, FS_AddElement DEF LooksAt
  <2> QED
    BY <1>5, <2>1, <2>2
<1>8. m.confidence = f.confidence + Sure(e)
  <2>1. \A d \in M : Sure(d) \in Int
    BY <1>2, NamedIs DEF LooksAt, Sure
  <2>2. m.confidence = Sum(s(M), M)
    <3>1. Store!SumFunction(s(M)) = Sum(s(M), M)
      BY DEF Store!SumFunction, Sum
    <3> HIDE DEF s, m, M
    <3> QED
      BY <1>6, <3>1
  <2>3. Sum(s(M), M) = s(M)[e] + Sum(s(M), M \ {e}) /\ Sum(s(M), M \ {e}) \in Int
    <3>1. \A d \in M : s(M)[d] \in Int
      BY <2>1
    <3>2. IsFiniteSet(M) /\ e \in M
      BY <1>2 DEF LooksAt
    <3> HIDE DEF s, M
    <3> QED
      BY <3>1, <3>2, SumIs
  <2>4. M \ {e} = L
    BY <1>1
  <2>5. Sum(s(M), L) = Sum(s(L), L)
    <3>1. \A d \in L : s(M)[d] = s(L)[d] /\ s(M)[d] \in Int
      BY <2>1
    <3>2. IsFiniteSet(L)
      BY DEF LooksAt
    <3> HIDE DEF s, M
    <3> QED
      BY <3>1, <3>2, SumSame
  <2>6. s(M)[e] = Sure(e) /\ Sure(e) \in Int
    BY <2>1
  <2> DEFINE a == Sum(s(M), L)
  <2>7. Sum(s(M), M) = Sure(e) + a /\ a \in Int
    <3> HIDE DEF s, M
    <3> QED
      BY <2>3, <2>4, <2>6
  <2>8. f.confidence = a
    <3> HIDE DEF s, M, f
    <3> QED
      BY <1>5, <2>5
  <2> HIDE DEF s, M, m, f, a
  <2> QED
    BY <2>2, <2>6, <2>7, <2>8
<1>9. m.first = IF f.count = 0 \/ Store!Earlier(look, f.first) THEN look ELSE f.first
  <2> DEFINE x == IF f.count = 0 \/ Store!Earlier(look, f.first) THEN look ELSE f.first
  <2>1. Seen(M, p) = Seen(L, p) \cup {look}
    BY DEF Seen
  <2>2. e.seq \in Int /\ Store!IndexIn(e, p) \in Int
    BY NamedIs
  <2>3. FirstOf(Seen(M, p), x)
    <3>1. CASE L = {}
      <4>1. Seen(M, p) = {look} /\ x = look
        BY <1>4, <3>1 DEF Seen
      <4> QED
        BY <4>1 DEF FirstOf
    <3>2. CASE L # {}
      <4>1. FirstOf(Seen(L, p), f.first)
        BY <3>2, FirstIs
      <4>2. f.count # 0
        BY <1>5, <3>2, FS_EmptySet DEF LooksAt
      <4>3. \A d \in L : d.seq \in Int /\ Store!IndexIn(d, p) \in Int
        BY NamedIs DEF LooksAt
      <4>4. \A y \in Seen(L, p) : y[1] \in Int /\ y[2] \in Int /\ y[1] # e.seq
        BY <4>3 DEF Seen
      <4>5. f.first \in Seen(L, p)
        BY <4>1 DEF FirstOf
      <4>6. CASE Store!Earlier(look, f.first)
        <5>1. x = look
          BY <4>6
        <5>2. ASSUME NEW y \in Seen(L, p) PROVE Store!Earlier(look, y)
          <6>1. y = f.first \/ Store!Earlier(f.first, y)
            BY <4>1 DEF FirstOf
          <6> HIDE DEF f
          <6> QED
            BY <2>2, <4>4, <4>5, <4>6, <6>1 DEF Store!Earlier
        <5> HIDE DEF x, look
        <5> QED
          BY <2>1, <5>1, <5>2 DEF FirstOf
      <4>7. CASE ~Store!Earlier(look, f.first)
        <5>1. x = f.first
          BY <4>2, <4>7
        <5>2. Store!Earlier(f.first, look)
          <6> HIDE DEF f
          <6> QED
            BY <2>2, <4>4, <4>5, <4>7 DEF Store!Earlier
        <5>3. \A y \in Seen(L, p) \ {f.first} : Store!Earlier(f.first, y)
          BY <4>1 DEF FirstOf
        <5> HIDE DEF x, look, f
        <5> QED
          BY <2>1, <4>5, <5>1, <5>2, <5>3 DEF FirstOf
      <4> QED
        BY <4>6, <4>7
    <3> QED
      BY <3>1, <3>2
  <2> HIDE DEF x
  <2>4. m.first = x
    BY <1>2, <2>3, FirstIs
  <2> QED
    BY <2>4 DEF x
<1>10. m.buckets = Store!Observed(f.buckets, Store!At(e), Store!Share(e), Sure(e))
  <2>1. m.buckets = Buckets(M)
    BY <1>6
  <2>2. Store!Observed(Buckets(L), Store!At(e), Store!Share(e), Sure(e)) = Buckets(M)
    BY <1>1, ObservedIs
  <2> HIDE DEF m, f, M
  <2> QED
    BY <1>5, <2>1, <2>2
<1> HIDE DEF m, f, look
<1> QED
  BY <1>7, <1>8, <1>9, <1>10, <1>6 DEF m, f, look

-----------------------------------------------------------------------------
(* A session's events *)

EventsAre(E) ==
  IsFiniteSet(E) /\ (\A e \in E : Store!IsEvent(e)) /\ \A d, e \in E : d.seq = e.seq => d = e

\* The looks of a session's events.
LEMMA LooksAre ==
  ASSUME NEW E, EventsAre(E), NEW p
  PROVE  LooksAt(Store!Looks(E, p), p)
<1>1. Store!Looks(E, p) \in SUBSET E
  BY DEF Store!Looks
<1>2. IsFiniteSet(Store!Looks(E, p))
  BY <1>1, FS_Subset DEF EventsAre
<1> QED
  BY <1>1, <1>2 DEF LooksAt, EventsAre, Store!Looks

\* One more event of a new sequence, however it compares with the others.
LEMMA AcceptIs ==
  ASSUME NEW E, EventsAre(E), NEW e, Store!IsEvent(e), \A d \in E : d.seq # e.seq
  PROVE  /\ Store!Accept(Store!FeaturesOf(E), e) = Store!FeaturesOf(E \cup {e})
         /\ EventsAre(E \cup {e})
<1>1. EventsAre(E \cup {e})
  <2>1. IsFiniteSet(E \cup {e})
    BY FS_AddElement DEF EventsAre
  <2> QED
    BY <2>1 DEF EventsAre
<1> DEFINE F == Store!FeaturesOf(E)
           A == Store!Accept(F, e)
           G == Store!FeaturesOf(E \cup {e})
<1>2. A = [p \in Catalog |-> A[p]] /\ G = [p \in Catalog |-> G[p]]
  BY DEF Store!Accept, Store!FeaturesOf
<1>3. ASSUME NEW p \in Catalog PROVE A[p] = G[p]
  <2> DEFINE L == Store!Looks(E, p)
             f == Store!AttentionOf(L, p)
             look == <<e.seq, Store!IndexIn(e, p)>>
  <2>1. F[p] = f /\ G[p] = Store!AttentionOf(Store!Looks(E \cup {e}, p), p)
    BY DEF Store!FeaturesOf
  <2>2. CASE p \notin Store!Named(e)
    <3>1. Store!Looks(E \cup {e}, p) = L
      BY <2>2 DEF Store!Looks
    <3>2. A[p] = F[p]
      BY <2>2 DEF Store!Accept
    <3> HIDE DEF L, A, F, G
    <3> QED
      BY <2>1, <3>1, <3>2
  <2>3. CASE p \in Store!Named(e)
    <3>1. Store!Looks(E \cup {e}, p) = L \cup {e}
      BY <2>3 DEF Store!Looks
    <3>2. A[p] =
            [count |-> F[p].count + 1,
             confidence |-> F[p].confidence + Sure(e),
             first |-> IF F[p].count = 0 \/ Store!Earlier(look, F[p].first) THEN look ELSE F[p].first,
             buckets |-> Store!Observed(F[p].buckets, Store!At(e), Store!Share(e), Sure(e))]
      <4> HIDE DEF F
      <4> QED
        BY <2>3 DEF Store!Accept, Store!At, Sure
    <3>3. Store!AttentionOf(L \cup {e}, p) =
            [count |-> f.count + 1,
             confidence |-> f.confidence + Sure(e),
             first |-> IF f.count = 0 \/ Store!Earlier(look, f.first) THEN look ELSE f.first,
             buckets |-> Store!Observed(f.buckets, Store!At(e), Store!Share(e), Sure(e))]
      <4>1. LooksAt(L, p)
        BY LooksAre
      <4>2. \A d \in L : d.seq # e.seq
        BY DEF Store!Looks
      <4> HIDE DEF L
      <4> QED
        BY <2>3, <4>1, <4>2, AttentionAdds
    <3> HIDE DEF L, A, F, G, f, look
    <3> QED
      BY <2>1, <3>1, <3>2, <3>3
  <2> QED
    BY <2>2, <2>3
<1>4. A = G
  <2> HIDE DEF A, G
  <2> QED
    BY <1>2, <1>3
<1> QED
  BY <1>1, <1>4

\* Events that may be taken after those of E.
Fit(E, q) ==
  /\ Len(q) \in Nat /\ DOMAIN q = 1..Len(q) /\ EventsAre(E)
  /\ \A i \in DOMAIN q : Store!IsEvent(q[i]) /\ \A d \in E : d.seq # q[i].seq
  /\ \A i, j \in DOMAIN q : q[i].seq = q[j].seq => i = j

Folded(f, q) == Store!FoldLeft(Store!Accept, f, q)

\* Whatever the order events are taken in, what is kept is of all of them.
LEMMA FoldIs ==
  ASSUME NEW E, NEW q, Fit(E, q)
  PROVE  /\ Folded(Store!FeaturesOf(E), q) = Store!FeaturesOf(E \cup {q[i] : i \in DOMAIN q})
         /\ EventsAre(E \cup {q[i] : i \in DOMAIN q})
<1>0. /\ Len(q) \in Nat /\ DOMAIN q = 1..Len(q) /\ EventsAre(E)
      /\ \A i \in DOMAIN q : Store!IsEvent(q[i]) /\ \A d \in E : d.seq # q[i].seq
      /\ \A i, j \in DOMAIN q : q[i].seq = q[j].seq => i = j
  BY DEF Fit
<1> USE <1>0
<1> DEFINE D == DOMAIN q
           With(s) == E \cup {q[i] : i \in s}
           base == Store!FeaturesOf(E)
           Body(f, s) == IF s = {} THEN base
                         ELSE Store!Accept(f[s \ {Store!Max(s)}], q[Store!Max(s)])
           Whole == CHOOSE f : f = [s \in SUBSET D |-> Body(f, s)]
           W == [s \in SUBSET D |-> Store!FeaturesOf(With(s))]
           T == {s \in SUBSET D : EventsAre(With(s))}
<1>1. Folded(base, q) = Whole[D]
  BY DEF Folded, Store!FoldLeft, Store!MapThenFoldSet
<1>2. IsFiniteSet(D) /\ \A s \in SUBSET D : IsFiniteSet(s) /\ s \in SUBSET Int
  <2>1. IsFiniteSet(D)
    <3>1. D = 1..Len(q)
      OBVIOUS
    <3>2. Len(q) \in Nat
      OBVIOUS
    <3>3. IsFiniteSet(1..Len(q))
      BY ONLY <3>2, FS_Interval
    <3> HIDE DEF D
    <3> QED
      BY <3>1, <3>3, Zenon
  <2>2. D \in SUBSET Int
    OBVIOUS
  <2> HIDE DEF D
  <2> QED
    BY <2>1, <2>2, FS_Subset
<1>3. \A s \in SUBSET D : s # {} =>
        Store!Max(s) \in s /\ s \ {Store!Max(s)} \in SUBSET D
  <2> HIDE DEF D
  <2> QED
    BY <1>2, MaxIs
<1>4. \A s \in SUBSET D : \A i \in s : With(s \ {i}) \cup {q[i]} = With(s)
  OBVIOUS
<1>5. \A s \in SUBSET D : \A i \in s : \A d \in With(s \ {i}) : d.seq # q[i].seq
  OBVIOUS
<1>6. T = SUBSET D
  <2>1. {} \in T
    <3>1. With({}) = E
      OBVIOUS
    <3> QED
      BY <3>1
  <2>2. ASSUME NEW s \in SUBSET D, s # {}, \A x \in s : s \ {x} \in T PROVE s \in T
    <3>1. PICK i \in s : TRUE
      BY <2>2
    <3>2. EventsAre(With(s \ {i}))
      BY <2>2
    <3>3. With(s \ {i}) \cup {q[i]} = With(s) /\ \A d \in With(s \ {i}) : d.seq # q[i].seq
      BY <1>4, <1>5
    <3>4. Store!IsEvent(q[i])
      OBVIOUS
    <3> DEFINE rest == With(s \ {i})
    <3>5. EventsAre(With(s))
      <4>1. EventsAre(rest) /\ rest \cup {q[i]} = With(s) /\ \A d \in rest : d.seq # q[i].seq
        BY <3>2, <3>3
      <4> HIDE DEF With, rest
      <4>2. EventsAre(rest \cup {q[i]})
        BY <3>4, <4>1, AcceptIs
      <4> QED
        BY <4>1, <4>2
    <3> QED
      BY <3>5
  <2> HIDE DEF With, D
  <2>3. T \in SUBSET (SUBSET D)
    OBVIOUS
  <2> HIDE DEF T
  <2> QED
    BY <1>2, <2>1, <2>2, <2>3, SubsetsAll
<1>7. ASSUME NEW s \in SUBSET D, s # {}
      PROVE  Store!Accept(W[s \ {Store!Max(s)}], q[Store!Max(s)]) = W[s]
  <2> DEFINE m == Store!Max(s)
             r == s \ {m}
  <2>1. m \in s /\ r \in SUBSET D
    BY <1>3, <1>7
  <2> HIDE DEF m
  <2>2. With(r) \cup {q[m]} = With(s) /\ \A d \in With(r) : d.seq # q[m].seq
    BY <1>4, <1>5, <2>1
  <2>3. EventsAre(With(r)) /\ Store!IsEvent(q[m])
    <3>1. r \in T
      BY <1>6, <2>1
    <3> QED
      BY <2>1, <3>1
  <2>4. W[r] = Store!FeaturesOf(With(r)) /\ W[s] = Store!FeaturesOf(With(s))
    BY <2>1
  <2> HIDE DEF With, W, r, D
  <2>5. Store!Accept(Store!FeaturesOf(With(r)), q[m]) = Store!FeaturesOf(With(r) \cup {q[m]})
    BY <2>2, <2>3, AcceptIs
  <2> QED
    BY <2>2, <2>4, <2>5 DEF m, r
<1>8. W[{}] = base
  <2>1. With({}) = E
    OBVIOUS
  <2> HIDE DEF With
  <2> QED
    BY <2>1
<1>9. W = [s \in SUBSET D |-> Body(W, s)]
  <2>1. \A s \in SUBSET D : W[s] = Body(W, s)
    BY <1>7, <1>8
  <2>2. W = [s \in SUBSET D |-> W[s]]
    OBVIOUS
  <2> HIDE DEF W, Body, D
  <2> QED
    BY <2>1, <2>2
<1>10. Whole = [s \in SUBSET D |-> Body(Whole, s)]
  <2> HIDE DEF W, Body, D
  <2> QED
    BY <1>9
<1>11. \A s \in SUBSET D : Whole[s] = Body(Whole, s)
  <2> HIDE DEF Whole, Body, D
  <2> QED
    BY <1>10
<1>12. Whole[D] = W[D]
  <2> DEFINE G == {s \in SUBSET D : Whole[s] = W[s]}
  <2> HIDE DEF Whole, W, D, With
  <2>1. {} \in G
    BY <1>8, <1>11
  <2>2. ASSUME NEW s \in SUBSET D, s # {}, \A x \in s : s \ {x} \in G PROVE s \in G
    <3> DEFINE m == Store!Max(s)
    <3>1. m \in s
      BY <1>3, <2>2
    <3>2. Whole[s \ {m}] = W[s \ {m}]
      BY <2>2, <3>1
    <3>3. Whole[s] = Store!Accept(Whole[s \ {m}], q[m])
      BY <1>11, <2>2
    <3>4. W[s] = Store!Accept(W[s \ {m}], q[m])
      BY <1>7, <2>2
    <3> QED
      BY <3>2, <3>3, <3>4
  <2>3. G \in SUBSET (SUBSET D)
    OBVIOUS
  <2> HIDE DEF G
  <2>4. G = SUBSET D
    BY <1>2, <2>1, <2>2, <2>3, SubsetsAll
  <2> QED
    BY <2>4 DEF G
<1>13. W[D] = Store!FeaturesOf(With(D)) /\ EventsAre(With(D))
  <2>1. D \in T
    <3> HIDE DEF T, D
    <3> QED
      BY <1>6
  <2> QED
    BY <2>1
<1> HIDE DEF Whole, W
<1> QED
  BY <1>1, <1>12, <1>13

-----------------------------------------------------------------------------
(* What a session keeps *)

KeptOf(session, E) ==
  /\ session.status \in {"pending", "completed", "insufficient_data"}
  /\ IsFiniteSet(session.eventIds)
  /\ IF session.completed THEN session.features = Store!NoFeatures
     ELSE /\ EventsAre(E) /\ session.features = Store!FeaturesOf(E)
          /\ session.eventIds = {e.id : e \in E} /\ session.sequences = {e.seq : e \in E}

\* Every session keeps what its events say until it is completed.
KeptInv ==
  /\ folded \in Seq({folded[i] : i \in DOMAIN folded}) /\ Len(folded) = Len(sessions)
  /\ \A c \in conversions : c.session \in DOMAIN sessions /\ c.id \in Outcomes
  /\ \A r \in requests : r.session \in DOMAIN sessions /\ r.id \in Requests
  /\ \A s \in DOMAIN sessions : KeptOf(sessions[s], folded[s])

\* Nothing is kept of nothing.
LEMMA NothingKept ==
  /\ EventsAre({}) /\ Store!FeaturesOf({}) = Store!NoFeatures
  /\ KeptOf(Store!NewSession, {})
<1>1. EventsAre({})
  BY FS_EmptySet DEF EventsAre
<1>2. Store!FeaturesOf({}) = Store!NoFeatures
  <2>1. \A p \in Catalog : Store!AttentionOf(Store!Looks({}, p), p) = Store!NoAttention
    BY DEF Store!AttentionOf, Store!Looks
  <2> QED
    BY <2>1 DEF Store!FeaturesOf, Store!NoFeatures
<1>3. KeptOf(Store!NewSession, {})
  <2>1. IsFiniteSet({})
    BY FS_EmptySet
  <2> QED
    BY <1>1, <1>2, <2>1 DEF KeptOf, Store!NewSession
<1> QED
  BY <1>1, <1>2, <1>3

\* A batch that is taken: what is new in it is of new sequences.
LEMMA NewIs ==
  ASSUME NEW session, NEW batch \in Batches, NEW E,
         session.eventIds = {e.id : e \in E}, session.sequences = {e.seq : e \in E}, EventsAre(E),
         \A i \in DOMAIN Store!NewEvents(session, batch) :
           Store!NewEvents(session, batch)[i].seq \notin session.sequences
  PROVE  LET new == Store!NewEvents(session, batch)
         IN /\ Folded(Store!FeaturesOf(E), new)
                 = Store!FeaturesOf(E \cup Store!ToSet(new))
            /\ EventsAre(E \cup Store!ToSet(new))
<1> DEFINE q == batch.events
           T == {e \in Store!ToSet(q) : e.id \notin session.eventIds}
           new == Store!NewEvents(session, batch)
<1>1. /\ Len(q) \in Nat /\ q \in [1..Len(q) -> Store!ToSet(q)]
      /\ \A i \in DOMAIN q : Store!IsEvent(q[i])
      /\ \A i, j \in DOMAIN q : q[i].id = q[j].id \/ q[i].seq = q[j].seq => i = j
  BY StoreIs
<1>2. new = Among(q, T)
  BY DEF Store!NewEvents, Store!Among, Among
<1> HIDE DEF q, new
<1>3. q \in Seq(Store!ToSet(q))
  BY <1>1
<1>4. /\ new \in Seq(Store!ToSet(q) \cap T)
      /\ \A i \in DOMAIN new : \E j \in DOMAIN q : new[i] = q[j]
      /\ \A i, j \in DOMAIN new : new[i] = new[j] => i = j
  <2> HIDE DEF T
  <2>1. \A i, j \in DOMAIN q : q[i] = q[j] => i = j
    BY <1>1
  <2> DEFINE X == Store!ToSet(q)
  <2>2. q \in Seq(X)
    BY <1>3
  <2> HIDE DEF X
  <2>3. /\ Among(q, T) \in Seq(X \cap T)
        /\ \A i \in DOMAIN Among(q, T) : \E j \in DOMAIN q : Among(q, T)[i] = q[j]
    BY ONLY <2>2, AmongSelects
  <2>4. (\A i, j \in DOMAIN q : q[i] = q[j] => i = j)
          => \A i, j \in DOMAIN Among(q, T) : Among(q, T)[i] = Among(q, T)[j] => i = j
    BY ONLY <2>2, AmongSelects
  <2>5. new \in Seq(X \cap T)
    BY ONLY <2>3, <1>2
  <2>6. \A i \in DOMAIN new : \E j \in DOMAIN q : new[i] = q[j]
    BY ONLY <2>3, <1>2
  <2>7. \A i, j \in DOMAIN new : new[i] = new[j] => i = j
    BY ONLY <2>1, <2>4, <1>2
  <2> QED
    BY <2>5, <2>6, <2>7 DEF X
<1>5. Len(new) \in Nat /\ DOMAIN new = 1..Len(new)
  BY <1>4
<1>6. \A i \in DOMAIN new : Store!IsEvent(new[i]) /\ \A d \in E : d.seq # new[i].seq
  BY <1>1, <1>4 DEF new
<1>7. \A i, j \in DOMAIN new : new[i].seq = new[j].seq => i = j
  <2> SUFFICES ASSUME NEW i \in DOMAIN new, NEW j \in DOMAIN new, new[i].seq = new[j].seq PROVE i = j
    OBVIOUS
  <2>1. PICK k \in DOMAIN q : new[i] = q[k]
    BY <1>4
  <2>2. PICK m \in DOMAIN q : new[j] = q[m]
    BY <1>4
  <2>3. k = m
    BY <1>1, <2>1, <2>2
  <2> QED
    BY <1>4, <2>1, <2>2, <2>3
<1>8. Store!ToSet(new) = {new[i] : i \in DOMAIN new}
  BY DEF Store!ToSet
<1> HIDE DEF T
<1>9. /\ Folded(Store!FeaturesOf(E), new) = Store!FeaturesOf(E \cup {new[i] : i \in DOMAIN new})
      /\ EventsAre(E \cup {new[i] : i \in DOMAIN new})
  <2>1. Fit(E, new)
    BY <1>5, <1>6, <1>7 DEF Fit
  <2> QED
    BY ONLY <2>1, FoldIs
<1> QED
  BY <1>8, <1>9 DEF new

\* One session changes, and what it keeps.
LEMMA KeptChanged ==
  ASSUME SessionsInv, KeptInv, NEW s \in DOMAIN sessions, NEW r, NEW E,
         sessions' = [sessions EXCEPT ![s] = r], folded' = [folded EXCEPT ![s] = E],
         KeptOf(r, E), conversions' = conversions, requests' = requests
  PROVE  KeptInv'
<1>1. Len(sessions) \in Nat /\ DOMAIN sessions = 1..Len(sessions) /\ DOMAIN folded = DOMAIN sessions
  BY DEF SessionsInv, KeptInv
<1>2. /\ DOMAIN sessions' = DOMAIN sessions /\ sessions'[s] = r /\ Len(sessions') = Len(sessions)
      /\ \A t \in DOMAIN sessions : t # s => sessions'[t] = sessions[t]
  BY <1>1 DEF SessionsInv
<1>3. /\ DOMAIN folded' = DOMAIN folded /\ folded'[s] = E /\ Len(folded') = Len(folded)
      /\ \A t \in DOMAIN sessions : t # s => folded'[t] = folded[t]
  BY <1>1 DEF KeptInv
<1>4. folded' \in Seq({folded'[i] : i \in DOMAIN folded'})
  <2> DEFINE X == {folded[i] : i \in DOMAIN folded} \cup {E}
  <2>1. folded \in Seq(X) /\ E \in X
    BY DEF KeptInv
  <2> HIDE DEF X
  <2>2. folded' \in Seq(X)
    BY <1>1, <2>1
  <2> QED
    BY ONLY <2>2, IsSequence
<1>5. \A t \in DOMAIN sessions' : KeptOf(sessions'[t], folded'[t])
  <2> SUFFICES ASSUME NEW t \in DOMAIN sessions' PROVE KeptOf(sessions'[t], folded'[t])
    OBVIOUS
  <2>1. CASE t = s
    BY <1>2, <1>3, <2>1
  <2>2. CASE t # s
    <3>1. KeptOf(sessions[t], folded[t]) /\ sessions'[t] = sessions[t] /\ folded'[t] = folded[t]
      BY <1>2, <1>3, <2>2 DEF KeptInv
    <3> QED
      BY <3>1
  <2> QED
    BY <2>1, <2>2
<1> QED
  BY <1>2, <1>3, <1>4, <1>5 DEF KeptInv, KeptOf

\* A step of the store keeps what it should.
LEMMA KeptSteps ==
  ASSUME SessionsInv, KeptInv, Store!Next
  PROVE  KeptInv'
<1>1. CASE Store!CreateSession
  <2> DEFINE n == Len(sessions) + 1
  <2>1. Len(sessions) \in Nat /\ DOMAIN sessions = 1..Len(sessions) /\ Len(folded) = Len(sessions)
        /\ DOMAIN folded = DOMAIN sessions
    BY DEF SessionsInv, KeptInv
  <2>2. /\ sessions' = Append(sessions, Store!NewSession) /\ folded' = Append(folded, {})
        /\ conversions' = conversions /\ requests' = requests
    BY <1>1 DEF Store!CreateSession
  <2> DEFINE X == {sessions[i] : i \in DOMAIN sessions} \cup {Store!NewSession}
             Y == {folded[i] : i \in DOMAIN folded} \cup {{}}
  <2>3. sessions \in Seq(X) /\ Store!NewSession \in X /\ folded \in Seq(Y) /\ {} \in Y
    BY DEF SessionsInv, KeptInv
  <2> HIDE DEF X, Y
  <2>4. /\ sessions'[n] = Store!NewSession /\ Len(sessions') = n
        /\ \A i \in DOMAIN sessions' : i \in DOMAIN sessions \/ i = n
        /\ \A i \in DOMAIN sessions : i \in DOMAIN sessions' /\ sessions'[i] = sessions[i]
    BY <2>1, <2>2, <2>3
  <2>5. /\ folded' \in Seq(Y) /\ folded'[n] = {} /\ Len(folded') = n
        /\ \A i \in DOMAIN sessions : folded'[i] = folded[i]
    BY <2>1, <2>2, <2>3
  <2> HIDE DEF n
  <2>6. folded' \in Seq({folded'[i] : i \in DOMAIN folded'})
    BY ONLY <2>5, IsSequence
  <2>7. ASSUME NEW t \in DOMAIN sessions' PROVE KeptOf(sessions'[t], folded'[t])
    <3>1. CASE t = n
      BY <2>4, <2>5, <3>1, NothingKept
    <3>2. CASE t \in DOMAIN sessions
      <4>1. KeptOf(sessions[t], folded[t]) /\ sessions'[t] = sessions[t] /\ folded'[t] = folded[t]
        BY <2>4, <2>5, <3>2 DEF KeptInv
      <4> QED
        BY <4>1
    <3> QED
      BY <2>4, <3>1, <3>2
  <2>8. /\ \A c \in conversions' : c.session \in DOMAIN sessions' /\ c.id \in Outcomes
        /\ \A r \in requests' : r.session \in DOMAIN sessions' /\ r.id \in Requests
    BY <2>2, <2>4 DEF KeptInv
  <2> QED
    BY <2>4, <2>5, <2>6, <2>7, <2>8 DEF KeptInv, KeptOf
<1>2. ASSUME NEW s \in DOMAIN sessions, NEW batch \in Batches, Store!AppendBatch(s, batch)
      PROVE  KeptInv'
  <2> DEFINE x == sessions[s]
             new == Store!NewEvents(x, batch)
             E == folded[s]
             M == E \cup Store!ToSet(new)
             f == Folded(x.features, new)
             r == [x EXCEPT !.batchIds = @ \cup {batch.id},
                            !.eventIds = @ \cup {e.id : e \in Store!ToSet(new)},
                            !.sequences = @ \cup {e.seq : e \in Store!ToSet(new)}, !.features = f]
  <2>1. /\ ~x.completed /\ \A i \in DOMAIN new : new[i].seq \notin x.sequences
        /\ sessions' = [sessions EXCEPT ![s] = r]
        /\ folded' = [folded EXCEPT ![s] = folded[s] \cup Store!ToSet(new)]
        /\ conversions' = conversions /\ requests' = requests
    BY <1>2 DEF Store!AppendBatch, Folded
  <2>2. /\ EventsAre(E) /\ x.features = Store!FeaturesOf(E)
        /\ x.eventIds = {e.id : e \in E} /\ x.sequences = {e.seq : e \in E}
        /\ x.status \in {"pending", "completed", "insufficient_data"}
    BY <2>1 DEF KeptInv, KeptOf
  <2>3. Folded(Store!FeaturesOf(E), new) = Store!FeaturesOf(M) /\ EventsAre(M)
    <3> HIDE DEF x, E
    <3> QED
      BY <2>1, <2>2, NewIs
  <2>4. f = Store!FeaturesOf(M)
    <3>1. x.features = Store!FeaturesOf(E)
      BY <2>2
    <3> HIDE DEF x, E, new, M
    <3> QED
      BY <2>3, <3>1 DEF f
  <2> DEFINE ids == x.eventIds \cup {e.id : e \in Store!ToSet(new)}
             seqs == x.sequences \cup {e.seq : e \in Store!ToSet(new)}
  <2>5. ids = {e.id : e \in M} /\ seqs = {e.seq : e \in M}
    <3> HIDE DEF x, E, new
    <3> QED
      BY <2>2
  <2>6. DOMAIN x = DOMAIN Store!NewSession
    BY DEF SessionsInv
  <2>7. /\ r.status = x.status /\ r.completed = x.completed /\ r.features = f
        /\ r.eventIds = ids /\ r.sequences = seqs
    <3> HIDE DEF x, f, new
    <3> QED
      BY <2>6 DEF Store!NewSession
  <2>8. IsFiniteSet(ids)
    <3> DEFINE id == [e \in M |-> e.id]
    <3>1. id \in Surjection(M, ids)
      <4> HIDE DEF M, ids
      <4> QED
        BY <2>5 DEF Surjection
    <3> HIDE DEF id, M, ids
    <3> QED
      BY <2>3, <3>1, FS_Surjection DEF EventsAre
  <2>9. KeptOf(r, M)
    <3> HIDE DEF r, x, M, f, ids, seqs
    <3> QED
      BY <2>1, <2>2, <2>3, <2>4, <2>5, <2>7, <2>8 DEF KeptOf
  <2> HIDE DEF r
  <2>10. folded' = [folded EXCEPT ![s] = M]
    BY <2>1
  <2> HIDE DEF M, x, new
  <2> QED
    BY <2>1, <2>9, <2>10, KeptChanged
<1>3. ASSUME NEW s \in DOMAIN sessions, Store!CompleteSession(s)
      PROVE  KeptInv'
  <2> DEFINE items == Store!Items(sessions[s].features)
             r == [Store!NewSession EXCEPT !.completed = TRUE, !.items = items,
                     !.status = IF items = <<>> THEN "insufficient_data" ELSE "completed"]
  <2>1. /\ ~sessions[s].completed /\ sessions' = [sessions EXCEPT ![s] = r] /\ folded' = folded
        /\ conversions' = conversions /\ requests' = requests
    BY <1>3 DEF Store!CompleteSession
  <2> HIDE DEF items
  <2>2. /\ r.completed = TRUE /\ r.status \in {"pending", "completed", "insufficient_data"}
        /\ r.eventIds = {} /\ r.features = Store!NoFeatures
    BY DEF Store!NewSession
  <2> HIDE DEF r
  <2>3. KeptOf(r, folded[s])
    <3>1. IsFiniteSet({})
      BY FS_EmptySet
    <3> QED
      BY <2>2, <3>1 DEF KeptOf
  <2>4. folded' = [folded EXCEPT ![s] = folded[s]]
    <3>1. folded \in Seq({folded[i] : i \in DOMAIN folded})
      BY DEF KeptInv
    <3> QED
      BY <2>1, <3>1
  <2> QED
    BY <2>1, <2>3, <2>4, KeptChanged
<1>4. ASSUME NEW s \in DOMAIN sessions, NEW r \in DOMAIN sessions, NEW id \in Outcomes, NEW p \in Catalog,
             Store!RecordConversion(id, s, r, p)
      PROVE  KeptInv'
  <2>1. /\ sessions' = sessions /\ folded' = folded /\ requests' = requests
        /\ conversions' = conversions
             \cup {[id |-> id, session |-> s, recommendation |-> r, product |-> p]}
    BY <1>4 DEF Store!RecordConversion
  <2> QED
    BY <2>1 DEF KeptInv, KeptOf
<1>5. ASSUME NEW s \in DOMAIN sessions, NEW r \in DOMAIN sessions, NEW id \in Requests,
             Store!RequestManagerProduct(id, s, r)
      PROVE  KeptInv'
  <2>1. /\ sessions' = sessions /\ folded' = folded /\ conversions' = conversions
        /\ requests' = requests \cup {[id |-> id, session |-> s, recommendation |-> r]}
    BY <1>5 DEF Store!RequestManagerProduct
  <2> QED
    BY <2>1 DEF KeptInv, KeptOf
<1> QED
  BY <1>1, <1>2, <1>3, <1>4, <1>5 DEF Store!Next, Store!Numbers

LEMMA KeptInit ==
  ASSUME Store!Init
  PROVE  KeptInv
<1>1. sessions = <<>> /\ conversions = {} /\ requests = {} /\ folded = <<>>
  BY DEF Store!Init
<1> QED
  BY <1>1 DEF KeptInv

-----------------------------------------------------------------------------
(* What an engine finds *)

IsKey(k) == k = <<k[1], k[2]>> /\ k[1] \in Int /\ k[2] \in Int

\* Finitely many buckets of a product, one for each key, and a first look.
ShapeAt(f, p) ==
  /\ IsFiniteSet(f[p].buckets)
  /\ \A b \in f[p].buckets : IsKey(b.key) /\ b.share \in Nat /\ b.confident \in Nat
  /\ \A b, c \in f[p].buckets : b.key = c.key => b = c
  /\ f[p].buckets # {} => IsKey(f[p].first)
Shape(f) == \A p \in Catalog : ShapeAt(f, p)

LEMMA EventsShape ==
  ASSUME NEW E, EventsAre(E)
  PROVE  Shape(Store!FeaturesOf(E))
<1> SUFFICES ASSUME NEW p \in Catalog PROVE ShapeAt(Store!FeaturesOf(E), p)
  BY DEF Shape
<1> DEFINE f == Store!FeaturesOf(E)
           L == Store!Looks(E, p)
<1>1. LooksAt(L, p)
  BY LooksAre
<1>2. f[p] = Store!AttentionOf(L, p)
  BY DEF Store!FeaturesOf
<1> HIDE DEF f, L
<1>3. CASE L = {}
  <2>1. f[p].buckets = {}
    BY <1>2, <1>3 DEF Store!AttentionOf, Store!NoAttention
  <2> QED
    BY <2>1, FS_EmptySet DEF ShapeAt, f
<1>4. CASE L # {}
  <2>1. f[p].buckets = Buckets(L)
    BY <1>2, <1>4 DEF Store!AttentionOf, Buckets, Keys
  <2>2. \A k \in Keys(L) : Store!BucketOf(L, k) =
          [key |-> k, share |-> Store!BucketOf(L, k).share, confident |-> Store!BucketOf(L, k).confident]
          /\ Store!BucketOf(L, k).share \in Nat /\ Store!BucketOf(L, k).confident \in Nat
    BY <1>1, BucketIs
  <2>3. \A k \in Keys(L) : IsKey(k)
    BY <1>1, SharesAre DEF IsKey
  <2>4. IsFiniteSet(Buckets(L))
    <3> DEFINE h == [e \in L |-> Store!BucketOf(L, Store!At(e))]
    <3>1. h \in Surjection(L, Buckets(L))
      BY DEF Surjection, Buckets, Keys
    <3> HIDE DEF h
    <3> QED
      BY <1>1, <3>1, FS_Surjection DEF LooksAt
  <2>5. \A b \in Buckets(L) : IsKey(b.key) /\ b.share \in Nat /\ b.confident \in Nat
    BY <2>2, <2>3 DEF Buckets
  <2>6. \A b \in Buckets(L) : b.key \in Keys(L) /\ b = Store!BucketOf(L, b.key)
    BY <2>2 DEF Buckets
  <2>7. IsKey(f[p].first)
    <3>1. f[p].first \in Seen(L, p)
      BY <1>1, <1>2, <1>4, FirstIs DEF FirstOf
    <3>2. PICK e \in L : f[p].first = <<e.seq, Store!IndexIn(e, p)>>
      BY <3>1 DEF Seen
    <3>3. e.seq \in Int /\ Store!IndexIn(e, p) \in Int
      BY <1>1, NamedIs DEF LooksAt
    <3> QED
      BY <3>2, <3>3 DEF IsKey
  <2>8. \A b, c \in Buckets(L) : b.key = c.key => b = c
    BY <2>6
  <2> QED
    BY <2>1, <2>4, <2>5, <2>7, <2>8 DEF ShapeAt, f
<1> QED
  BY <1>3, <1>4

\* What every session keeps is of that shape.
LEMMA ShapeOfKept ==
  ASSUME KeptInv, NEW s \in DOMAIN sessions
  PROVE  Shape(sessions[s].features)
<1>1. KeptOf(sessions[s], folded[s])
  BY DEF KeptInv
<1>2. PICK E : EventsAre(E) /\ sessions[s].features = Store!FeaturesOf(E)
  BY <1>1, NothingKept DEF KeptOf
<1> QED
  BY <1>2, EventsShape

\* A sum of natural numbers is one.
LEMMA SumNat ==
  ASSUME NEW D, IsFiniteSet(D), NEW w, \A x \in D : w[x] \in Nat
  PROVE  Sum(w, D) \in Nat
<1> DEFINE z == [x \in D |-> 0]
<1>1. \A x \in D : z[x] \in Int /\ w[x] \in Int /\ z[x] <= w[x] /\ (x \notin {} => z[x] = 0)
  OBVIOUS
<1>2. {} \in SUBSET D
  OBVIOUS
<1> HIDE DEF z
<1>3. Sum(z, D) = Sum(z, {})
  BY <1>1, <1>2, SumPart
<1>4. Sum(z, {}) = 0 /\ Sum(w, D) \in Int
  BY <1>1, SumIs
<1>5. Sum(z, D) <= Sum(w, D)
  BY <1>1, SumLess
<1> QED
  BY <1>3, <1>4, <1>5

\* As many times the same number.
LEMMA SumCounts ==
  ASSUME NEW D, IsFiniteSet(D), NEW c \in Int
  PROVE  Sum([x \in D |-> c], D) = c * Cardinality(D)
<1> DEFINE w == [x \in D |-> c]
           G == {T \in SUBSET D : Sum(w, T) = c * Cardinality(T)}
<1>1. \A T \in SUBSET D : IsFiniteSet(T) /\ Cardinality(T) \in Nat
  BY FS_Subset, FS_CardinalityType
<1>2. \A x \in D : w[x] = c
  OBVIOUS
<1> HIDE DEF w
<1>3. {} \in G
  <2>1. Sum(w, {}) = 0 /\ Cardinality({}) = 0
    BY <1>2, SumIs, FS_EmptySet
  <2>2. {} \in SUBSET D /\ c * 0 = 0
    OBVIOUS
  <2> QED
    BY <2>1, <2>2
<1>4. ASSUME NEW T \in SUBSET D, T # {}, \A x \in T : T \ {x} \in G PROVE T \in G
  <2>1. PICK x \in T : TRUE
    BY <1>4
  <2>2. IsFiniteSet(T) /\ (\A y \in T : w[y] = c /\ w[y] \in Int)
    BY <1>1, <1>2
  <2>3. Sum(w, T) = c + Sum(w, T \ {x})
    BY <1>2, <2>2, SumIs
  <2>4. Sum(w, T \ {x}) = c * Cardinality(T \ {x})
    BY <1>4
  <2>5. Cardinality(T \ {x}) = Cardinality(T) - 1
    BY <2>2, FS_RemoveElement
  <2>6. c + c * (Cardinality(T) - 1) = c * Cardinality(T)
    <3>1. Cardinality(T) \in Int
      BY <1>1
    <3> HIDE DEF G
    <3> QED
      BY ONLY <3>1, c \in Int
  <2> QED
    BY <2>3, <2>4, <2>5, <2>6
<1>5. G \in SUBSET (SUBSET D)
  OBVIOUS
<1> HIDE DEF G
<1>6. G = SUBSET D
  BY <1>3, <1>4, <1>5, SubsetsAll
<1> QED
  BY <1>6 DEF G, w

-----------------------------------------------------------------------------
(* How long the products were looked at *)

KeysAt(f, p) == {b.key : b \in f[p].buckets}
AllKeys(f) == UNION {KeysAt(f, p) : p \in Catalog}
Has(f, p, k) == CHOOSE b \in f[p].buckets : b.key = k
ShareAt(f, p, k) == IF k \in KeysAt(f, p) THEN Has(f, p, k).share ELSE 0
Part(f, p, k) == IF k \in KeysAt(f, p) THEN Store!Scaled(f, k, Has(f, p, k).share) ELSE 0

LEMMA KeysAre ==
  ASSUME NEW f, NEW p, ShapeAt(f, p)
  PROVE  /\ IsFiniteSet(KeysAt(f, p)) /\ \A k \in KeysAt(f, p) : IsKey(k)
         /\ \A k \in KeysAt(f, p) :
              /\ Has(f, p, k) \in f[p].buckets /\ Has(f, p, k).key = k
              /\ \A b \in f[p].buckets : b.key = k => b = Has(f, p, k)
<1> DEFINE B == f[p].buckets
           h == [b \in B |-> b.key]
<1>1. h \in Surjection(B, KeysAt(f, p))
  BY DEF Surjection, KeysAt
<1>2. IsFiniteSet(KeysAt(f, p))
  <2>1. IsFiniteSet(B)
    BY DEF ShapeAt
  <2> HIDE DEF h, B
  <2> QED
    BY <1>1, <2>1, FS_Surjection
<1>3. \A k \in KeysAt(f, p) : IsKey(k) /\ \E b \in B : b.key = k
  BY DEF KeysAt, ShapeAt
<1>4. \A k \in KeysAt(f, p) : Has(f, p, k) \in B /\ Has(f, p, k).key = k
  BY <1>3 DEF Has
<1> QED
  BY <1>2, <1>3, <1>4 DEF ShapeAt

LEMMA AllKeysAre ==
  ASSUME NEW f, Shape(f)
  PROVE  IsFiniteSet(AllKeys(f))
<1> DEFINE K == {KeysAt(f, p) : p \in Catalog}
           h == [p \in Catalog |-> KeysAt(f, p)]
<1>1. h \in Surjection(Catalog, K)
  BY DEF Surjection
<1>2. \A T \in K : IsFiniteSet(T)
  BY KeysAre DEF Shape
<1>3. IsFiniteSet(Catalog)
  BY StoreIs
<1> HIDE DEF h, K
<1>4. IsFiniteSet(K)
  BY <1>1, <1>3, FS_Surjection
<1>5. IsFiniteSet(UNION K)
  BY <1>2, <1>4, FS_UNION
<1> QED
  BY <1>5 DEF AllKeys, K

\* The shares of a bucket, product by product.
LEMMA TotalIs ==
  ASSUME NEW f, Shape(f), NEW k
  PROVE  /\ Store!BucketTotal(f, k) = Sum([p \in Catalog |-> ShareAt(f, p, k)], Catalog)
         /\ Store!BucketTotal(f, k) \in Nat
         /\ \A p \in Catalog : ShareAt(f, p, k) \in Nat
<1> DEFINE C(p) == {c \in f[p].buckets : c.key = k}
           v(p) == [b \in C(p) |-> b.share]
           t == [p \in Catalog |-> Sum(v(p), C(p))]
           w == [p \in Catalog |-> ShareAt(f, p, k)]
<1>1. ASSUME NEW p \in Catalog PROVE Sum(v(p), C(p)) = ShareAt(f, p, k) /\ ShareAt(f, p, k) \in Nat
  <2>1. ShapeAt(f, p)
    BY DEF Shape
  <2>2. CASE k \in KeysAt(f, p)
    <3> DEFINE b == Has(f, p, k)
    <3>1. b \in f[p].buckets /\ b.key = k /\ \A c \in f[p].buckets : c.key = k => c = b
      BY <2>1, <2>2, KeysAre
    <3>2. b.share \in Nat
      BY <2>1, <3>1 DEF ShapeAt
    <3> HIDE DEF b
    <3>3. C(p) = {b}
      BY <3>1
    <3>4. \A c \in C(p) : v(p)[c] = b.share /\ v(p)[c] \in Int
      BY <3>2, <3>3
    <3>5. IsFiniteSet(C(p))
      BY <3>3, FS_Singleton
    <3> DEFINE u == v(p)
               D == C(p)
    <3>6. D = {b} /\ u[b] = b.share /\ IsFiniteSet(D) /\ \A c \in D : u[c] \in Int
      BY <3>3, <3>4, <3>5
    <3> HIDE DEF u, D
    <3>7. Sum(u, D) = u[b] + Sum(u, D \ {b}) /\ Sum(u, {}) = 0
      BY <3>6, SumIs
    <3>8. D \ {b} = {}
      BY <3>6
    <3>9. Sum(u, D) = b.share
      BY <3>2, <3>6, <3>7, <3>8
    <3> QED
      BY <2>2, <3>2, <3>9 DEF ShareAt, b, u, D
  <2>3. CASE k \notin KeysAt(f, p)
    <3>1. C(p) = {}
      BY <2>3 DEF KeysAt
    <3> DEFINE u == v(p)
    <3> HIDE DEF u
    <3>2. Sum(u, {}) = 0
      <4>1. IsFiniteSet({}) /\ \A x \in {} : u[x] \in Int
        BY FS_EmptySet
      <4> QED
        BY <4>1, SumIs
    <3> QED
      BY <2>3, <3>1, <3>2 DEF ShareAt, u
  <2> QED
    BY <2>2, <2>3
<1>2. Store!BucketTotal(f, k) = Sum(t, Catalog)
  <2>1. \A u : Store!SumFunction(u) = Sum(u, DOMAIN u)
    BY DEF Store!SumFunction, Sum
  <2>2. Store!BucketTotal(f, k) = Store!SumFunction([p \in Catalog |-> Store!SumFunction(v(p))])
    BY DEF Store!BucketTotal
  <2>3. \A p : Store!SumFunction(v(p)) = Sum(v(p), C(p))
    BY <2>1
  <2>4. [p \in Catalog |-> Store!SumFunction(v(p))] = t
    BY <2>3
  <2> QED
    BY <2>1, <2>2, <2>4
<1>3. t = w
  BY <1>1
<1>4. Sum(w, Catalog) \in Nat
  <2>1. IsFiniteSet(Catalog) /\ \A p \in Catalog : w[p] \in Nat
    BY <1>1, StoreIs
  <2> HIDE DEF w
  <2> QED
    BY <2>1, SumNat
<1> HIDE DEF t
<1> QED
  BY <1>1, <1>2, <1>3, <1>4

LEMMA ScaledIs ==
  ASSUME NEW f, Shape(f), NEW k, NEW share \in Nat
  PROVE  Store!Scaled(f, k, share) \in Nat
<1>1. Store!BucketTotal(f, k) \in Nat /\ Store!Unit = 12
  BY TotalIs DEF Store!Unit
<1>2. share * 12 \in Nat
  OBVIOUS
<1>3. Store!BucketTotal(f, k) > 12 => (share * 12) \div Store!BucketTotal(f, k) \in Nat
  BY <1>1, <1>2, DivIs
<1> QED
  BY <1>1, <1>3 DEF Store!Scaled

LEMMA TimesAre ==
  ASSUME NEW f, Shape(f), NEW p \in Catalog
  PROVE  Store!AttentionTime(f, p) \in Nat /\ Store!ConfidentTime(f, p) \in Nat
<1> DEFINE B == f[p].buckets
           v == [b \in B |-> Store!Scaled(f, b.key, b.share)]
           w == [b \in B |-> Store!Scaled(f, b.key, b.confident)]
<1>1. IsFiniteSet(B) /\ \A b \in B : b.share \in Nat /\ b.confident \in Nat
  BY DEF Shape, ShapeAt
<1>2. \A b \in B : v[b] \in Nat /\ w[b] \in Nat
  BY <1>1, ScaledIs
<1>3. Store!AttentionTime(f, p) = Sum(v, B) /\ Store!ConfidentTime(f, p) = Sum(w, B)
  BY DEF Store!AttentionTime, Store!ConfidentTime, Store!SumFunction, Sum
<1> HIDE DEF B, v, w
<1> QED
  BY <1>1, <1>2, <1>3, SumNat

-----------------------------------------------------------------------------
(* No bucket is looked at for longer than it lasts *)

LEMMA SumTimes ==
  ASSUME NEW D, IsFiniteSet(D), NEW w, NEW c \in Int, \A x \in D : w[x] \in Int
  PROVE  Sum([x \in D |-> c * w[x]], D) = c * Sum(w, D)
<1> DEFINE z == [x \in D |-> 0]
           u == [x \in D |-> c * w[x]]
<1>1. \A x \in D : z[x] \in Int /\ w[x] \in Int /\ u[x] = z[x] + c * w[x] /\ z[x] = 0
  OBVIOUS
<1> HIDE DEF z, u
<1>2. Sum(u, D) = Sum(z, D) + c * Sum(w, D)
  BY <1>1, SumLinear
<1>3. Sum(z, D) = Sum(z, {})
  <2>1. {} \in SUBSET D /\ \A x \in D : z[x] \in Int /\ (x \notin {} => z[x] = 0)
    BY <1>1
  <2> QED
    BY <2>1, SumPart
<1>4. Sum(z, {}) = 0 /\ Sum(w, D) \in Int
  BY <1>1, SumIs
<1>5. Sum(u, D) = c * Sum(w, D)
  <2>1. c * Sum(w, D) \in Int
    BY <1>4
  <2> QED
    BY <1>2, <1>3, <1>4, <2>1
<1> QED
  BY <1>5 DEF u

LEMMA PartIs ==
  ASSUME NEW f, Shape(f), NEW k, NEW p \in Catalog
  PROVE  LET total == Store!BucketTotal(f, k)
         IN /\ Part(f, p, k) \in Nat
            /\ total <= 12 => Part(f, p, k) = ShareAt(f, p, k)
            /\ total > 12 => total * Part(f, p, k) <= 12 * ShareAt(f, p, k)
<1> DEFINE total == Store!BucketTotal(f, k)
           share == ShareAt(f, p, k)
<1>1. total \in Nat /\ share \in Nat /\ Store!Unit = 12
  BY TotalIs DEF Store!Unit
<1>2. CASE k \in KeysAt(f, p)
  <2>1. Part(f, p, k) = IF total <= 12 THEN share ELSE (share * 12) \div total
    BY <1>1, <1>2 DEF Part, ShareAt, Store!Scaled
  <2> HIDE DEF total, share
  <2>2. ASSUME total > 12
        PROVE  (share * 12) \div total \in Nat /\ ((share * 12) \div total) * total <= share * 12
    <3>1. total \in Nat \ {0} /\ share * 12 \in Nat
      BY <1>1, <2>2
    <3> QED
      BY <3>1, DivIs
  <2>3. CASE total <= 12
    BY <1>1, <2>1, <2>3 DEF total, share
  <2>4. CASE total > 12
    <3> DEFINE d == (share * 12) \div total
    <3>1. Part(f, p, k) = d
      BY <1>1, <2>1, <2>4
    <3>2. d \in Nat /\ d * total <= share * 12
      BY <2>2, <2>4
    <3> HIDE DEF d
    <3>3. total * d <= 12 * share
      BY <1>1, <3>2
    <3> QED
      BY <1>1, <2>4, <3>1, <3>2, <3>3 DEF total, share
  <2> QED
    BY <1>1, <2>3, <2>4
<1>3. CASE k \notin KeysAt(f, p)
  <2>1. Part(f, p, k) = 0 /\ share = 0
    BY <1>3 DEF Part, ShareAt
  <2> HIDE DEF total
  <2> QED
    BY <1>1, <2>1 DEF total
<1> QED
  BY <1>2, <1>3

LEMMA PartsFit ==
  ASSUME NEW f, Shape(f), NEW k
  PROVE  /\ Sum([p \in Catalog |-> Part(f, p, k)], Catalog) <= 12
         /\ Sum([p \in Catalog |-> Part(f, p, k)], Catalog) \in Int
<1> DEFINE g == [p \in Catalog |-> Part(f, p, k)]
           s == [p \in Catalog |-> ShareAt(f, p, k)]
           total == Store!BucketTotal(f, k)
<1>1. IsFiniteSet(Catalog) /\ total = Sum(s, Catalog) /\ total \in Nat
  BY StoreIs, TotalIs
<1>2. \A p \in Catalog : /\ g[p] \in Nat /\ s[p] \in Nat
                         /\ total <= 12 => g[p] = s[p]
                         /\ total > 12 => total * g[p] <= 12 * s[p]
  BY PartIs, TotalIs
<1> HIDE DEF g, s, total
<1>3. Sum(g, Catalog) \in Nat /\ Sum(s, Catalog) \in Nat
  BY <1>1, <1>2, SumNat
<1>4. CASE total <= 12
  <2>1. Sum(g, Catalog) = Sum(s, Catalog)
    <3>1. \A p \in Catalog : g[p] = s[p] /\ g[p] \in Int
      BY <1>2, <1>4
    <3> QED
      BY <1>1, <3>1, SumSame
  <2> QED
    BY <1>1, <1>3, <1>4, <2>1 DEF g
<1>5. CASE total > 12
  <2> DEFINE u == [p \in Catalog |-> total * g[p]]
             v == [p \in Catalog |-> 12 * s[p]]
  <2>1. \A p \in Catalog : g[p] \in Int /\ s[p] \in Int
    BY <1>2
  <2>2. \A p \in Catalog : u[p] \in Int /\ v[p] \in Int /\ u[p] <= v[p]
    BY <1>1, <1>2, <1>5, <2>1
  <2>3. Sum(u, Catalog) = total * Sum(g, Catalog) /\ Sum(v, Catalog) = 12 * Sum(s, Catalog)
    BY <1>1, <2>1, SumTimes
  <2> HIDE DEF u, v
  <2>4. Sum(u, Catalog) <= Sum(v, Catalog)
    BY <1>1, <2>2, SumLess
  <2> DEFINE x == Sum(g, Catalog)
  <2>5. x \in Nat /\ total * x <= 12 * total
    BY <1>1, <1>3, <2>3, <2>4
  <2> HIDE DEF x
  <2>6. x <= 12
    <3> SUFFICES ASSUME x >= 13 PROVE FALSE
      BY <2>5
    <3>1. total * x >= total * 13
      BY ONLY x >= 13, <1>1, <2>5
    <3> QED
      BY <1>1, <1>5, <2>5, <3>1
  <2> QED
    BY <2>5, <2>6 DEF x, g
<1> QED
  BY <1>1, <1>4, <1>5

\* A product's time is the sum of its parts, bucket by bucket.
LEMMA TimeOfParts ==
  ASSUME NEW f, Shape(f), NEW p \in Catalog
  PROVE  Store!AttentionTime(f, p) = Sum([k \in AllKeys(f) |-> Part(f, p, k)], AllKeys(f))
<1> DEFINE B == f[p].buckets
           K == KeysAt(f, p)
           A == AllKeys(f)
           h == [b \in B |-> b.key]
           v == [b \in B |-> Store!Scaled(f, b.key, b.share)]
           w == [k \in A |-> Part(f, p, k)]
<1>1. ShapeAt(f, p)
  BY DEF Shape
<1>2. IsFiniteSet(A) /\ K \in SUBSET A
  BY AllKeysAre DEF AllKeys
<1>3. /\ IsFiniteSet(B) /\ h \in [B -> K]
      /\ \A x, y \in B : h[x] = h[y] => x = y
      /\ \A y \in K : \E x \in B : y = h[x]
  BY <1>1 DEF ShapeAt, KeysAt
<1>4. \A b \in B : v[b] = w[h[b]] /\ v[b] \in Int
  <2> SUFFICES ASSUME NEW b \in B PROVE v[b] = w[b.key] /\ v[b] \in Int
    OBVIOUS
  <2>1. b.key \in K /\ b.share \in Nat
    BY <1>1 DEF KeysAt, ShapeAt
  <2>2. b = Has(f, p, b.key)
    BY <1>1, <2>1, KeysAre
  <2>3. Part(f, p, b.key) = Store!Scaled(f, b.key, b.share)
    BY <2>1, <2>2 DEF Part
  <2>4. Store!Scaled(f, b.key, b.share) \in Int
    BY <2>1, ScaledIs
  <2> QED
    BY <1>2, <2>1, <2>3, <2>4
<1>5. Store!AttentionTime(f, p) = Sum(v, B)
  BY DEF Store!AttentionTime, Store!SumFunction, Sum
<1>6. \A k \in A : w[k] \in Int /\ (k \notin K => w[k] = 0)
  BY PartIs DEF Part
<1> HIDE DEF B, K, A, h, v, w
<1>7. Sum(v, B) = Sum(w, K)
  BY <1>3, <1>4, SumNamed
<1>8. Sum(w, A) = Sum(w, K)
  BY <1>2, <1>6, SumPart
<1> QED
  BY <1>5, <1>7, <1>8 DEF w, A

LEMMA TimeFits ==
  ASSUME NEW f, Shape(f)
  PROVE  Sum([p \in Catalog |-> Store!AttentionTime(f, p)], Catalog) <= 12 * Cardinality(AllKeys(f))
<1> DEFINE K == AllKeys(f)
           g == [p \in Catalog |-> [k \in K |-> Part(f, p, k)]]
           spans == [p \in Catalog |-> Sum(g[p], K)]
           times == [p \in Catalog |-> Store!AttentionTime(f, p)]
           columns == [k \in K |-> Sum([p \in Catalog |-> g[p][k]], Catalog)]
           full == [k \in K |-> 12]
<1>1. IsFiniteSet(K) /\ IsFiniteSet(Catalog)
  BY StoreIs, AllKeysAre
<1>2. g \in [Catalog -> [K -> Int]]
  <2>1. \A p \in Catalog, k \in K : Part(f, p, k) \in Int
    BY PartIs
  <2> HIDE DEF K
  <2> QED
    BY <2>1
<1>3. spans = times
  BY TimeOfParts
<1>4. \A k \in K : columns[k] \in Int /\ full[k] \in Int /\ columns[k] <= full[k]
  <2> SUFFICES ASSUME NEW k \in K PROVE columns[k] \in Int /\ columns[k] <= 12
    OBVIOUS
  <2>1. columns[k] = Sum([p \in Catalog |-> Part(f, p, k)], Catalog)
    <3>1. [p \in Catalog |-> g[p][k]] = [p \in Catalog |-> Part(f, p, k)]
      OBVIOUS
    <3> QED
      BY <3>1
  <2> QED
    BY <2>1, PartsFit
<1>5. Sum(full, K) = 12 * Cardinality(K)
  <2>1. IsFiniteSet(K) /\ 12 \in Int
    BY <1>1
  <2> HIDE DEF K
  <2> QED
    BY ONLY <2>1, SumCounts DEF full
<1> HIDE DEF K, g, times, full
<1>6. Sum(spans, Catalog) = Sum(columns, K)
  BY <1>1, <1>2, SumSwaps
<1> HIDE DEF spans, columns
<1>7. Sum(columns, K) <= Sum(full, K)
  BY <1>1, <1>4, SumLess
<1> QED
  BY <1>3, <1>5, <1>6, <1>7 DEF times, K

-----------------------------------------------------------------------------
(* Revisits *)

\* A bucket with none of its epoch before it.
Firsts(K) == {k \in K : \A j \in K : j[1] = k[1] => j[2] >= k[2]}
Epochs(K) == {k[1] : k \in K}

\* The first buckets, one for each playback epoch.
LEMMA FirstsAre ==
  ASSUME NEW K, IsFiniteSet(K), \A k \in K : IsKey(k)
  PROVE  /\ IsFiniteSet(Firsts(K)) /\ IsFiniteSet(Epochs(K))
         /\ Cardinality(Firsts(K)) = Cardinality(Epochs(K))
<1> DEFINE F == Firsts(K)
           G == Epochs(K)
           h == [k \in F |-> k[1]]
<1>1. IsFiniteSet(F)
  <2>1. F \in SUBSET K
    BY DEF Firsts
  <2> HIDE DEF F
  <2> QED
    BY <2>1, FS_Subset
<1>2. h \in [F -> G]
  BY DEF Firsts, Epochs
<1>3. \A j, k \in F : h[j] = h[k] => j = k
  <2> SUFFICES ASSUME NEW j \in F, NEW k \in F, j[1] = k[1] PROVE j = k
    OBVIOUS
  <2>1. j[2] >= k[2] /\ k[2] >= j[2] /\ IsKey(j) /\ IsKey(k)
    BY DEF Firsts
  <2> QED
    BY <2>1 DEF IsKey
<1>4. \A y \in G : \E k \in F : h[k] = y
  <2> SUFFICES ASSUME NEW y \in G PROVE \E k \in F : k[1] = y
    OBVIOUS
  <2> DEFINE E == {k \in K : k[1] = y}
             T == {k[2] : k \in E}
             second == [k \in E |-> k[2]]
  <2>1. second \in Surjection(E, T)
    BY DEF Surjection
  <2>2. T \in SUBSET Int /\ T # {}
    BY DEF Epochs, IsKey
  <2>3. E \in SUBSET K
    OBVIOUS
  <2>4. IsFiniteSet(T)
    <3> HIDE DEF E, T, second
    <3>1. IsFiniteSet(E)
      BY <2>3, FS_Subset
    <3> QED
      BY <2>1, <3>1, FS_Surjection
  <2>5. PICK m \in T : \A x \in T : m <= x
    <3> HIDE DEF T
    <3> QED
      BY <2>2, <2>4, MinIs
  <2>6. PICK k \in E : k[2] = m
    OBVIOUS
  <2>7. k \in F
    <3> SUFFICES ASSUME NEW j \in K, j[1] = k[1] PROVE j[2] >= k[2]
      BY <2>6 DEF Firsts
    <3>1. j[2] \in T
      BY <2>6
    <3>2. j[2] \in Int /\ m \in Int /\ m <= j[2]
      BY <2>2, <2>5, <3>1
    <3> QED
      BY <2>6, <3>2
  <2> QED
    BY <2>6, <2>7
<1>5. ExistsBijection(F, G)
  <2> HIDE DEF F, G, h
  <2>1. h \in Bijection(F, G)
    BY <1>2, <1>3, <1>4 DEF Bijection, Injection, Surjection, IsInjective
  <2> QED
    BY <2>1 DEF ExistsBijection
<1> HIDE DEF F, G, h
<1> QED
  BY <1>1, <1>5, FS_Bijection DEF F, G

\* A run starts where an epoch does, or after a gap.
LEMMA RunsAre ==
  ASSUME NEW f, NEW p, ShapeAt(f, p)
  PROVE  /\ Store!Runs(f, p) = Firsts(KeysAt(f, p)) \cup Store!Gaps(f, p)
         /\ Firsts(KeysAt(f, p)) \cap Store!Gaps(f, p) = {}
         /\ IsFiniteSet(Store!Gaps(f, p))
<1> DEFINE K == KeysAt(f, p)
           F == Firsts(K)
           G == Store!Gaps(f, p)
           w == MaxContiguousGap
<1>1. IsFiniteSet(K) /\ w \in Nat
  BY KeysAre, StoreIs
<1>2. \A k \in K : k[1] \in Int /\ k[2] \in Int
  BY KeysAre DEF IsKey
<1>3. Store!Runs(f, p) = {k \in K : \A j \in K : j[1] = k[1] => j[2] >= k[2] \/ k[2] - j[2] > w}
  BY DEF Store!Runs, KeysAt
<1>4. G = {k \in K : \E j \in K : /\ j[1] = k[1] /\ j[2] < k[2] - w
                                  /\ ~\E m \in K : m[1] = k[1] /\ j[2] < m[2] /\ m[2] < k[2]}
  BY DEF Store!Gaps, KeysAt
<1> HIDE DEF K, G, w
<1>5. ASSUME NEW k \in F PROVE k \in Store!Runs(f, p) /\ k \notin G
  <2>1. k \in K /\ \A j \in K : j[1] = k[1] => j[2] >= k[2]
    BY DEF Firsts
  <2> HIDE DEF F
  <2>2. k \in Store!Runs(f, p)
    BY <1>3, <2>1
  <2>3. ASSUME k \in G PROVE FALSE
    <3>1. PICK j \in K : j[1] = k[1] /\ j[2] < k[2] - w
      BY <1>4, <2>3
    <3>2. j[2] >= k[2] /\ j[2] \in Int /\ k[2] \in Int
      BY <1>2, <2>1, <3>1
    <3> QED
      BY <1>1, <3>1, <3>2
  <2> QED
    BY <2>2, <2>3
<1>6. ASSUME NEW k \in G PROVE k \in Store!Runs(f, p)
  <2>1. k \in K
    BY <1>4
  <2>2. PICK j \in K : /\ j[1] = k[1] /\ j[2] < k[2] - w
                       /\ ~\E m \in K : m[1] = k[1] /\ j[2] < m[2] /\ m[2] < k[2]
    BY <1>4
  <2>3. ASSUME NEW i \in K, i[1] = k[1], ~(i[2] >= k[2]) PROVE k[2] - i[2] > w
    <3>1. i[2] \in Int /\ j[2] \in Int /\ k[2] \in Int
      BY <1>2, <2>1
    <3>2. ~(j[2] < i[2])
      BY <2>2, <2>3, <3>1
    <3> QED
      BY <1>1, <2>2, <3>1, <3>2
  <2> QED
    BY <1>3, <2>1, <2>3
<1>7. ASSUME NEW k \in Store!Runs(f, p), k \notin F PROVE k \in G
  <2>1. k \in K /\ \A j \in K : j[1] = k[1] => j[2] >= k[2] \/ k[2] - j[2] > w
    BY <1>3
  <2> DEFINE E == {j \in K : j[1] = k[1] /\ ~(j[2] >= k[2])}
             T == {j[2] : j \in E}
             second == [j \in E |-> j[2]]
  <2>2. second \in Surjection(E, T) /\ E \in SUBSET K
    BY DEF Surjection
  <2>3. T \in SUBSET Int /\ T # {}
    BY <1>2, <1>7, <2>1 DEF Firsts
  <2>4. IsFiniteSet(T)
    <3> HIDE DEF E, T, second
    <3>1. IsFiniteSet(E)
      BY <1>1, <2>2, FS_Subset
    <3> QED
      BY <2>2, <3>1, FS_Surjection
  <2>5. PICK m \in T : \A x \in T : x <= m
    <3> HIDE DEF T
    <3> QED
      BY <2>3, <2>4, MaxIs
  <2>6. PICK j \in E : j[2] = m
    OBVIOUS
  <2>7. j[2] < k[2] - w
    <3>1. k[2] - j[2] > w /\ j[2] \in Int /\ k[2] \in Int
      BY <1>2, <2>1, <2>6
    <3> QED
      BY <1>1, <3>1
  <2>8. ASSUME NEW i \in K, i[1] = k[1], j[2] < i[2], i[2] < k[2] PROVE FALSE
    <3>1. i[2] \in Int /\ j[2] \in Int /\ k[2] \in Int
      BY <1>2, <2>1
    <3>2. i \in E
      BY <2>8, <3>1
    <3>3. i[2] <= j[2]
      BY <2>5, <2>6, <3>2
    <3> QED
      BY <2>8, <3>1, <3>3
  <2> QED
    BY <1>4, <2>1, <2>6, <2>7, <2>8
<1>8. IsFiniteSet(G)
  <2>1. G \in SUBSET K
    BY <1>4
  <2> QED
    BY <1>1, <2>1, FS_Subset
<1> QED
  <2> HIDE DEF F
  <2> QED
    BY <1>5, <1>6, <1>7, <1>8 DEF F, K, G

LEMMA RevisitsAre ==
  ASSUME NEW f, NEW p, ShapeAt(f, p)
  PROVE  LET epochs == {b.key[1] : b \in f[p].buckets}
         IN /\ Store!RevisitCount(f, p) \in Nat
            /\ epochs # {} => Store!RevisitCount(f, p) = Cardinality(Store!Gaps(f, p)) + Cardinality(epochs) - 1
<1> DEFINE K == KeysAt(f, p)
           F == Firsts(K)
           G == Store!Gaps(f, p)
           R == Store!Runs(f, p)
           epochs == {b.key[1] : b \in f[p].buckets}
<1>1. epochs = Epochs(K)
  BY DEF Epochs, KeysAt
<1>2. IsFiniteSet(F) /\ IsFiniteSet(epochs) /\ Cardinality(F) = Cardinality(epochs)
  <2>1. IsFiniteSet(K) /\ \A k \in K : IsKey(k)
    BY KeysAre
  <2> HIDE DEF K, epochs
  <2> QED
    BY <1>1, <2>1, FirstsAre
<1>3. R = F \cup G /\ F \cap G = {} /\ IsFiniteSet(G)
  BY RunsAre
<1>4. Store!RevisitCount(f, p) = Store!Larger(0, Cardinality(R) - 1)
  BY SameSets DEF Store!RevisitCount
<1> HIDE DEF F, G, R, epochs
<1>5. IsFiniteSet(R) /\ Cardinality(R) = Cardinality(F) + Cardinality(G) - Cardinality(F \cap G)
  BY <1>2, <1>3, FS_Union
<1>6. Cardinality(F \cap G) = 0
  BY <1>3, FS_EmptySet
<1>7. Cardinality(F) \in Nat /\ Cardinality(G) \in Nat /\ Cardinality(R) \in Nat
  BY <1>2, <1>3, <1>5, FS_CardinalityType
<1>8. epochs # {} => Cardinality(epochs) # 0
  BY <1>2, FS_EmptySet
<1>9. Store!RevisitCount(f, p) \in Nat
  BY <1>4, <1>7 DEF Store!Larger
<1>10. epochs # {} => Store!RevisitCount(f, p) = Cardinality(G) + Cardinality(epochs) - 1
  BY <1>2, <1>4, <1>5, <1>6, <1>7, <1>8 DEF Store!Larger
<1> QED
  BY <1>9, <1>10 DEF G, epochs

-----------------------------------------------------------------------------
(* The ranking of the research engine *)

\* Of finitely many members of a strict order there is a first.
LEMMA BestIs ==
  ASSUME NEW S, IsFiniteSet(S), S # {}, NEW R,
         \A x, y \in S : x # y => <<x, y>> \in R \/ <<y, x>> \in R,
         \A x, y, z \in S : <<x, y>> \in R /\ <<y, z>> \in R => <<x, z>> \in R
  PROVE  \E x \in S : \A y \in S \ {x} : <<x, y>> \in R
<1> DEFINE Best(T, x) == x \in T /\ \A y \in T \ {x} : <<x, y>> \in R
           G == {T \in SUBSET S : T # {} => \E x : Best(T, x)}
<1>1. {} \in G
  OBVIOUS
<1>2. ASSUME NEW T \in SUBSET S, T # {}, \A x \in T : T \ {x} \in G PROVE T \in G
  <2>1. PICK x \in T : TRUE
    BY <1>2
  <2>2. CASE T = {x}
    <3>1. Best(T, x)
      BY <2>2
    <3> QED
      BY <3>1
  <2>3. CASE T # {x}
    <3>1. T \ {x} # {}
      BY <2>1, <2>3
    <3>2. PICK b : Best(T \ {x}, b)
      BY <1>2, <3>1
    <3>3. CASE <<b, x>> \in R
      <4>1. Best(T, b)
        BY <3>2, <3>3
      <4> QED
        BY <4>1
    <3>4. CASE <<x, b>> \in R
      <4>1. \A y \in T \ {x} : y # b => <<b, y>> \in R
        BY <3>2
      <4>2. \A y \in T \ {x} : <<x, y>> \in R
        BY <3>2, <3>4, <4>1
      <4>3. Best(T, x)
        BY <4>2
      <4> QED
        BY <4>3
    <3> QED
      BY <3>2, <3>3, <3>4
  <2> QED
    BY <2>2, <2>3
<1>3. G \in SUBSET (SUBSET S)
  OBVIOUS
<1> HIDE DEF G
<1>4. G = SUBSET S
  BY <1>1, <1>2, <1>3, SubsetsAll
<1> QED
  BY <1>4 DEF G

Longest(f) == Store!Max({Store!AttentionTime(f, q) : q \in Store!Scored(f)})
Most(f) == Store!Larger(1, Store!Max({Store!RevisitCount(f, q) : q \in Store!Scored(f)}))

\* The numbers a score is made of.
LEMMA ScoresAre ==
  ASSUME NEW f, Shape(f), NEW p \in Store!Scored(f)
  PROVE  /\ IsFiniteSet(Store!Scored(f)) /\ p \in Catalog
         /\ Store!AttentionTime(f, p) \in Nat \ {0} /\ Store!ConfidentTime(f, p) \in Nat
         /\ Store!RevisitCount(f, p) \in Nat
         /\ Longest(f) \in Nat \ {0} /\ Most(f) \in Nat \ {0}
         /\ Store!ScoreDenominator(f, p) = Store!AttentionTime(f, p)
         /\ Store!ScoreNumerator(f, p) \in Int
         /\ Store!ScoreNumerator(f, p) =
              130 * Store!AttentionTime(f, p) * Store!AttentionTime(f, p) * Most(f)
              + 25 * Store!ConfidentTime(f, p) * Longest(f) * Most(f)
              + 20 * Store!RevisitCount(f, p) * Longest(f) * Store!AttentionTime(f, p)
<1> DEFINE S == Store!Scored(f)
           T == {Store!AttentionTime(f, q) : q \in S}
           U == {Store!RevisitCount(f, q) : q \in S}
           t == [q \in S |-> Store!AttentionTime(f, q)]
           u == [q \in S |-> Store!RevisitCount(f, q)]
<1>1. S \in SUBSET Catalog /\ IsFiniteSet(Catalog)
  BY StoreIs DEF Store!Scored
<1>2. IsFiniteSet(S)
  <2> HIDE DEF S
  <2> QED
    BY <1>1, FS_Subset
<1>3. \A q \in S : /\ Store!AttentionTime(f, q) \in Nat \ {0} /\ Store!ConfidentTime(f, q) \in Nat
                   /\ Store!RevisitCount(f, q) \in Nat
  <2> SUFFICES ASSUME NEW q \in S
               PROVE  /\ Store!AttentionTime(f, q) \in Nat \ {0} /\ Store!ConfidentTime(f, q) \in Nat
                      /\ Store!RevisitCount(f, q) \in Nat
    OBVIOUS
  <2>1. q \in Catalog /\ Store!AttentionTime(f, q) > 0
    BY DEF Store!Scored
  <2>2. Store!AttentionTime(f, q) \in Nat /\ Store!ConfidentTime(f, q) \in Nat
    BY <2>1, TimesAre
  <2>3. Store!RevisitCount(f, q) \in Nat
    <3>1. ShapeAt(f, q)
      BY <2>1 DEF Shape
    <3> QED
      BY <3>1, RevisitsAre
  <2> QED
    BY <2>1, <2>2, <2>3
<1>4. T \in SUBSET Int /\ U \in SUBSET Int /\ T # {} /\ U # {} /\ T \subseteq Nat \ {0} /\ U \subseteq Nat
  BY <1>3
<1>5. t \in Surjection(S, T) /\ u \in Surjection(S, U)
  BY DEF Surjection
<1>6. Longest(f) = Store!Max(T) /\ Most(f) = Store!Larger(1, Store!Max(U))
  BY DEF Longest, Most
<1>7. Longest(f) \in Nat \ {0} /\ Most(f) \in Nat \ {0}
  <2> HIDE DEF S, T, U, t, u
  <2>1. IsFiniteSet(T) /\ IsFiniteSet(U)
    BY <1>2, <1>5, FS_Surjection
  <2>2. Store!Max(T) \in T /\ Store!Max(U) \in U
    BY <1>4, <2>1, MaxIs
  <2> DEFINE x == Store!Max(T)
             y == Store!Max(U)
  <2>3. x \in Nat \ {0} /\ y \in Nat
    BY <1>4, <2>2
  <2>4. Longest(f) = x /\ Most(f) = IF 1 >= y THEN 1 ELSE y
    BY <1>6 DEF Store!Larger
  <2> HIDE DEF x, y
  <2> QED
    BY <2>3, <2>4
<1> DEFINE a == Store!AttentionTime(f, p)
           c == Store!ConfidentTime(f, p)
           r == Store!RevisitCount(f, p)
           l == Longest(f)
           m == Most(f)
<1>8. Store!ScoreNumerator(f, p) = 65 * 2 * a * a * m + 25 * c * l * m + 10 * 2 * r * l * a
  BY DEF Store!ScoreNumerator, Store!MaxConfidence, Longest, Most
<1>9. a \in Nat \ {0} /\ c \in Nat /\ r \in Nat /\ l \in Nat \ {0} /\ m \in Nat \ {0}
  BY <1>3, <1>7
<1> HIDE DEF a, c, r, l, m
<1>10. /\ Store!ScoreNumerator(f, p) = 130 * a * a * m + 25 * c * l * m + 20 * r * l * a
       /\ Store!ScoreNumerator(f, p) \in Int
  BY <1>8, <1>9
<1> QED
  BY <1>1, <1>2, <1>9, <1>10 DEF a, c, r, l, m, Store!ScoreDenominator

\* Products with a positive and with a natural number.
LEMMA Times ==
  ASSUME NEW a \in Int, NEW b \in Int, NEW c \in Nat
  PROVE  /\ a <= b => a * c <= b * c
         /\ c # 0 /\ a < b => a * c < b * c
         /\ c # 0 /\ a * c <= b * c => a <= b
         /\ c # 0 /\ a * c < b * c => a < b
         /\ c # 0 /\ a * c = b * c => a = b
<1>1. a <= b => a * c <= b * c
  OBVIOUS
<1>2. c # 0 /\ a < b => a * c < b * c
  OBVIOUS
<1>3. c # 0 /\ b < a => b * c < a * c
  OBVIOUS
<1>4. a * c \in Int /\ b * c \in Int
  OBVIOUS
<1> QED
  BY <1>1, <1>2, <1>3, <1>4

\* Three fractions in a row: a / x, b / y and c / z.
LEMMA Fractions ==
  ASSUME NEW a \in Int, NEW b \in Int, NEW c \in Int,
         NEW x \in Nat \ {0}, NEW y \in Nat \ {0}, NEW z \in Nat \ {0},
         a * y >= b * x, b * z >= c * y
  PROVE  /\ a * z >= c * x
         /\ a * z = c * x => a * y = b * x /\ b * z = c * y
<1> DEFINE p == a * y
           q == b * x
           r == b * z
           s == c * y
           u == a * z
           v == c * x
<1>1. p * z = u * y /\ q * z = r * x /\ s * x = v * y
  <2>1. a * y * z = a * z * y /\ b * x * z = b * z * x /\ c * y * x = c * x * y
    OBVIOUS
  <2> QED
    BY <2>1
<1>2. p \in Int /\ q \in Int /\ r \in Int /\ s \in Int /\ u \in Int /\ v \in Int /\ q <= p /\ s <= r
  OBVIOUS
<1> HIDE DEF p, q, r, s, u, v
<1>3. q * z <= p * z /\ s * x <= r * x
  BY <1>2, Times
<1>4. p * z \in Int /\ q * z \in Int /\ r * x \in Int /\ s * x \in Int /\ u * y \in Int /\ v * y \in Int
  BY <1>2
<1>5. v * y <= u * y
  BY <1>1, <1>3, <1>4
<1>6. v <= u
  BY <1>2, <1>5, Times
<1>7. ASSUME u = v PROVE p = q /\ r = s
  <2>1. p * z = q * z /\ r * x = s * x
    BY <1>1, <1>3, <1>4, <1>7
  <2>2. p = q
    BY <1>2, <2>1, Times
  <2>3. r = s
    BY <1>2, <2>1, Times
  <2> QED
    BY <2>2, <2>3
<1> QED
  BY <1>6, <1>7 DEF p, q, r, s, u, v

\* Whoever was looked at was first looked at some time.
LEMMA ScoredHasFirst ==
  ASSUME NEW f, Shape(f), NEW p \in Store!Scored(f)
  PROVE  IsKey(f[p].first) /\ p \in Int
<1>1. p \in Catalog /\ Store!AttentionTime(f, p) > 0 /\ ShapeAt(f, p)
  BY DEF Store!Scored, Shape
<1>2. f[p].buckets # {}
  <2> SUFFICES ASSUME f[p].buckets = {} PROVE FALSE
    OBVIOUS
  <2> DEFINE v == [b \in f[p].buckets |-> Store!Scaled(f, b.key, b.share)]
  <2>1. Store!AttentionTime(f, p) = Sum(v, {})
    BY DEF Store!AttentionTime, Store!SumFunction, Sum
  <2> HIDE DEF v
  <2>2. IsFiniteSet({}) /\ \A x \in {} : v[x] \in Int
    BY FS_EmptySet
  <2>3. Sum(v, {}) = 0
    BY <2>2, SumIs
  <2> QED
    BY <1>1, <2>1, <2>3
<1> QED
  BY <1>1, <1>2, StoreIs DEF ShapeAt

LEMMA FirstSeenIs ==
  ASSUME NEW f, Shape(f)
  PROVE  /\ \A p, q \in Store!Scored(f) : p # q => Store!FirstSeen(f, p, q) \/ Store!FirstSeen(f, q, p)
         /\ \A p, q, r \in Store!Scored(f) :
              Store!FirstSeen(f, p, q) /\ Store!FirstSeen(f, q, r) => Store!FirstSeen(f, p, r)
<1>1. \A p \in Store!Scored(f) : IsKey(f[p].first) /\ p \in Int
  BY ScoredHasFirst
<1>2. \A x, y : IsKey(x) /\ IsKey(y) => Store!Earlier(x, y) \/ x = y \/ Store!Earlier(y, x)
  BY DEF IsKey, Store!Earlier
<1>3. \A x, y, z : IsKey(x) /\ IsKey(y) /\ IsKey(z) /\ Store!Earlier(x, y) /\ Store!Earlier(y, z)
        => Store!Earlier(x, z)
  BY DEF IsKey, Store!Earlier
<1>4. ASSUME NEW p \in Store!Scored(f), NEW q \in Store!Scored(f), p # q
      PROVE  Store!FirstSeen(f, p, q) \/ Store!FirstSeen(f, q, p)
  <2>1. p \in Int /\ q \in Int /\ (p < q \/ q < p)
    BY <1>1, <1>4
  <2> QED
    BY <1>1, <1>2, <2>1 DEF Store!FirstSeen
<1>5. ASSUME NEW p \in Store!Scored(f), NEW q \in Store!Scored(f), NEW r \in Store!Scored(f),
             Store!FirstSeen(f, p, q), Store!FirstSeen(f, q, r)
      PROVE  Store!FirstSeen(f, p, r)
  <2>1. p \in Int /\ q \in Int /\ r \in Int /\ (p < q /\ q < r => p < r)
    BY <1>1
  <2> QED
    BY <1>1, <1>3, <1>5, <2>1 DEF Store!FirstSeen
<1> QED
  BY <1>4, <1>5

\* The engine's order is strict, and never prefers what it should not.
LEMMA BetterIs ==
  ASSUME NEW f, Shape(f)
  PROVE  /\ \A p, q \in Store!Scored(f) : p # q => Store!Better(f, p, q) \/ Store!Better(f, q, p)
         /\ \A p, q, r \in Store!Scored(f) :
              Store!Better(f, p, q) /\ Store!Better(f, q, r) => Store!Better(f, p, r)
         /\ \A p, q \in Store!Scored(f) : Store!Dominates(f, q, p) => ~Store!Better(f, p, q) /\ p # q
<1> DEFINE S == Store!Scored(f)
           N(p) == Store!ScoreNumerator(f, p)
           D(p) == Store!ScoreDenominator(f, p)
           T(p) == Store!AttentionTime(f, p)
           C(p) == Store!ConfidentTime(f, p)
           V(p) == Store!RevisitCount(f, p)
           l == Longest(f)
           m == Most(f)
<1>1. \A p \in S : /\ N(p) \in Int /\ D(p) = T(p) /\ T(p) \in Nat \ {0} /\ C(p) \in Nat /\ V(p) \in Nat
                   /\ l \in Nat \ {0} /\ m \in Nat \ {0}
                   /\ N(p) = 130 * T(p) * T(p) * m + 25 * C(p) * l * m + 20 * V(p) * l * T(p)
  BY ScoresAre
<1>2. \A p, q : Store!Better(f, p, q) <=>
        N(p) * D(q) > N(q) * D(p) \/ (N(p) * D(q) = N(q) * D(p) /\ Store!FirstSeen(f, p, q))
  BY DEF Store!Better
<1>3. \A p, q : Store!Dominates(f, p, q) <=> T(p) > T(q) /\ C(p) * T(q) >= C(q) * T(p) /\ V(p) >= V(q)
  BY DEF Store!Dominates
<1> HIDE DEF S, N, D, T, C, V, l, m
<1>4. ASSUME NEW p \in S, NEW q \in S, p # q
      PROVE  Store!Better(f, p, q) \/ Store!Better(f, q, p)
  <2>1. N(p) * D(q) \in Int /\ N(q) * D(p) \in Int
    BY <1>1
  <2>2. Store!FirstSeen(f, p, q) \/ Store!FirstSeen(f, q, p)
    BY <1>4, FirstSeenIs DEF S
  <2> QED
    BY <1>2, <2>1, <2>2
<1>5. ASSUME NEW p \in S, NEW q \in S, NEW r \in S, Store!Better(f, p, q), Store!Better(f, q, r)
      PROVE  Store!Better(f, p, r)
  <2> DEFINE a == N(p)
             b == N(q)
             c == N(r)
             x == D(p)
             y == D(q)
             z == D(r)
  <2>1. /\ a \in Int /\ b \in Int /\ c \in Int
        /\ x \in Nat \ {0} /\ y \in Nat \ {0} /\ z \in Nat \ {0}
    BY <1>1
  <2>2. /\ a * y > b * x \/ (a * y = b * x /\ Store!FirstSeen(f, p, q))
        /\ b * z > c * y \/ (b * z = c * y /\ Store!FirstSeen(f, q, r))
    BY <1>2, <1>5
  <2>3. Store!FirstSeen(f, p, q) /\ Store!FirstSeen(f, q, r) => Store!FirstSeen(f, p, r)
    BY FirstSeenIs DEF S
  <2>4. Store!Better(f, p, r) <=> a * z > c * x \/ (a * z = c * x /\ Store!FirstSeen(f, p, r))
    BY <1>2
  <2> HIDE DEF a, b, c, x, y, z
  <2>5. /\ a * y \in Int /\ b * x \in Int /\ b * z \in Int /\ c * y \in Int /\ a * z \in Int /\ c * x \in Int
    BY <2>1
  <2>6. a * y >= b * x /\ b * z >= c * y
    BY <2>2, <2>5
  <2>7. a * z >= c * x /\ (a * z = c * x => a * y = b * x /\ b * z = c * y)
    BY <2>1, <2>6, Fractions
  <2> QED
    BY <2>2, <2>3, <2>4, <2>5, <2>7
<1>6. ASSUME NEW p \in S, NEW q \in S, Store!Dominates(f, q, p)
      PROVE  ~Store!Better(f, p, q) /\ p # q
  <2> DEFINE t == T(p)
             u == T(q)
             c == C(p)
             d == C(q)
             v == V(p)
             w == V(q)
  <2>1. /\ t \in Nat \ {0} /\ u \in Nat \ {0} /\ c \in Nat /\ d \in Nat /\ v \in Nat /\ w \in Nat
        /\ l \in Nat \ {0} /\ m \in Nat \ {0}
        /\ N(p) = 130 * t * t * m + 25 * c * l * m + 20 * v * l * t
        /\ N(q) = 130 * u * u * m + 25 * d * l * m + 20 * w * l * u
        /\ D(p) = t /\ D(q) = u /\ N(p) \in Int /\ N(q) \in Int
    BY <1>1
  <2>2. t < u /\ c * u <= d * t /\ v <= w
    BY <1>3, <1>6, <2>1
  <2> HIDE DEF t, u, c, d, v, w
  <2>3. /\ N(p) * u = t * (130 * t * u * m) + (c * u) * (25 * l * m) + v * (20 * l * t * u)
        /\ N(q) * t = u * (130 * t * u * m) + (d * t) * (25 * l * m) + w * (20 * l * t * u)
    <3> DEFINE x == N(p)
               y == N(q)
    <3>1. /\ x = 130 * t * t * m + 25 * c * l * m + 20 * v * l * t
          /\ y = 130 * u * u * m + 25 * d * l * m + 20 * w * l * u
      BY <2>1
    <3> HIDE DEF x, y, l, m
    <3>2. x * u = t * (130 * t * u * m) + (c * u) * (25 * l * m) + v * (20 * l * t * u)
      BY ONLY <2>1, <3>1
    <3>3. y * t = u * (130 * t * u * m) + (d * t) * (25 * l * m) + w * (20 * l * t * u)
      BY ONLY <2>1, <3>1
    <3> QED
      BY <3>2, <3>3 DEF x, y
  <2> DEFINE i == 130 * t * u * m
             j == 25 * l * m
             k == 20 * l * t * u
             e == c * u
             g == d * t
  <2>4. i \in Nat \ {0} /\ j \in Nat /\ k \in Nat /\ e \in Int /\ g \in Int
    <3>1. t * u \in Nat \ {0} /\ l * m \in Nat /\ l * t \in Nat
      BY ONLY <2>1
    <3>2. t * u * m \in Nat \ {0} /\ l * t * u \in Nat
      BY ONLY <2>1, <3>1
    <3>3. 130 * t * u * m = 130 * (t * u * m) /\ 25 * l * m = 25 * (l * m) /\ 20 * l * t * u = 20 * (l * t * u)
      BY ONLY <2>1
    <3>4. e \in Int /\ g \in Int
      BY ONLY <2>1
    <3> QED
      BY <3>1, <3>2, <3>3, <3>4
  <2>5. N(p) * u = t * i + e * j + v * k /\ N(q) * t = u * i + g * j + w * k /\ e <= g
    BY <2>2, <2>3
  <2> HIDE DEF i, j, k, e, g
  <2>6. t * i < u * i /\ e * j <= g * j /\ v * k <= w * k
    BY <2>1, <2>2, <2>4, <2>5, Times
  <2>7. /\ t * i \in Int /\ u * i \in Int /\ e * j \in Int /\ g * j \in Int /\ v * k \in Int /\ w * k \in Int
    BY <2>1, <2>4
  <2>8. N(p) * u < N(q) * t
    BY <2>5, <2>6, <2>7
  <2>9. N(p) * D(q) < N(q) * D(p) /\ N(p) * D(q) \in Int /\ N(q) * D(p) \in Int
    BY <2>1, <2>8
  <2>10. p # q
    BY <2>1, <2>2 DEF t, u
  <2> QED
    BY <1>2, <2>9, <2>10
<1> QED
  BY <1>4, <1>5, <1>6 DEF S

\* No product of the two recommended is dominated by one behind it.
LEMMA RankingIs ==
  ASSUME NEW f, Shape(f)
  PROVE  LET items == Store!ResearchItems(f)
         IN \A i \in DOMAIN items : \A q \in Store!Scored(f) :
              Store!Dominates(f, q, items[i]) => q \in {items[j] : j \in 1..(i - 1)}
<1> DEFINE S == Store!Scored(f)
           Best(T, x) == x \in T /\ \A y \in T \ {x} : Store!Better(f, x, y)
           best == CHOOSE p \in S : \A q \in S \ {p} : Store!Better(f, p, q)
           second == CHOOSE p \in S \ {best} : \A q \in S \ {best, p} : Store!Better(f, p, q)
           items == Store!ResearchItems(f)
<1>1. items = IF Store!Cardinality(S) < 2 THEN <<>> ELSE <<best, second>>
  BY DEF Store!ResearchItems, Store!TopTwo
<1>2. IsFiniteSet(S)
  <2>1. S \in SUBSET Catalog
    BY DEF Store!Scored
  <2> HIDE DEF S
  <2> QED
    BY <2>1, StoreIs, FS_Subset
<1>3. ASSUME NEW T \in SUBSET S, T # {}
      PROVE  \E p \in T : \A q \in T \ {p} : Store!Better(f, p, q)
  <2> DEFINE R == {x \in S \X S : Store!Better(f, x[1], x[2])}
  <2>1. \A x, y \in T : <<x, y>> \in R <=> Store!Better(f, x, y)
    BY <1>3
  <2>2. IsFiniteSet(T)
    <3> HIDE DEF S
    <3> QED
      BY <1>2, <1>3, FS_Subset
  <2>3. /\ \A x, y \in T : x # y => Store!Better(f, x, y) \/ Store!Better(f, y, x)
        /\ \A x, y, z \in T : Store!Better(f, x, y) /\ Store!Better(f, y, z) => Store!Better(f, x, z)
    BY <1>3, BetterIs
  <2> HIDE DEF R
  <2>4. \A x, y \in T : x # y => <<x, y>> \in R \/ <<y, x>> \in R
    BY <2>1, <2>3
  <2>5. \A x, y, z \in T : <<x, y>> \in R /\ <<y, z>> \in R => <<x, z>> \in R
    BY <2>1, <2>3
  <2>6. \E x \in T : \A y \in T \ {x} : <<x, y>> \in R
    BY <1>3, <2>2, <2>4, <2>5, BestIs
  <2> QED
    BY <2>1, <2>6
<1>4. CASE Store!Cardinality(S) < 2
  <2>1. items = <<>>
    BY <1>1, <1>4
  <2> QED
    BY <2>1
<1>5. CASE ~(Store!Cardinality(S) < 2)
  <2>1. items = <<best, second>>
    BY <1>1, <1>5
  <2>2. S # {} /\ \A x : S # {x}
    <3>1. Store!Cardinality(S) = Cardinality(S)
      BY SameSets
    <3>2. Cardinality({}) = 0 /\ \A x : Cardinality({x}) = 1
      BY FS_EmptySet, FS_Singleton
    <3> HIDE DEF S
    <3> QED
      BY <1>5, <3>1, <3>2
  <2>3. best \in S /\ \A q \in S \ {best} : Store!Better(f, best, q)
    <3>1. \E p \in S : \A q \in S \ {p} : Store!Better(f, p, q)
      BY <1>3, <2>2
    <3> HIDE DEF S
    <3> QED
      BY <3>1
  <2> HIDE DEF best
  <2>4. second \in S \ {best} /\ \A q \in S \ {best, second} : Store!Better(f, second, q)
    <3> DEFINE T == S \ {best}
    <3>1. T \in SUBSET S /\ T # {}
      BY <2>2, <2>3
    <3>2. \E p \in T : \A q \in T \ {p} : Store!Better(f, p, q)
      BY <1>3, <3>1
    <3> HIDE DEF S
    <3>3. \A p : T \ {p} = S \ {best, p}
      OBVIOUS
    <3>4. \E p \in S \ {best} : \A q \in S \ {best, p} : Store!Better(f, p, q)
      BY <3>2, <3>3
    <3> QED
      BY <3>4
  <2> HIDE DEF second, S
  <2>5. \A p, q \in S : Store!Dominates(f, q, p) => ~Store!Better(f, p, q) /\ p # q
    BY BetterIs DEF S
  <2>6. ASSUME NEW q \in S PROVE ~Store!Dominates(f, q, best)
    BY <2>3, <2>5
  <2>7. ASSUME NEW q \in S, Store!Dominates(f, q, second) PROVE q = best
    BY <2>4, <2>5, <2>7
  <2>8. ASSUME NEW i \in DOMAIN items, NEW q \in S, Store!Dominates(f, q, items[i])
        PROVE  q \in {items[j] : j \in 1..(i - 1)}
    <3>1. CASE i = 1
      BY <2>1, <2>6, <2>8, <3>1
    <3>2. CASE i = 2
      <4>1. q = best /\ items[1] = best
        BY <2>1, <2>7, <2>8, <3>2
      <4>2. 1 \in 1..(i - 1)
        BY <3>2
      <4> QED
        BY <4>1, <4>2
    <3> QED
      BY <2>1, <3>1, <3>2
  <2> QED
    BY <2>8 DEF S
<1> QED
  BY <1>4, <1>5

-----------------------------------------------------------------------------
(* What a session's looks are turned into *)

\* What every session keeps is what its looks were.
LEMMA KeptIsExact ==
  ASSUME SessionsInv, KeptInv
  PROVE  Store!FeaturesExact
<1>1. \A s \in DOMAIN sessions : KeptOf(sessions[s], folded[s]) /\ Shape(sessions[s].features)
  BY ShapeOfKept DEF KeptInv
<1>2. Store!TypeOK
  <2>1. DOMAIN folded = DOMAIN sessions
    BY DEF SessionsInv, KeptInv
  <2>2. \A s \in DOMAIN sessions :
          /\ sessions[s].status \in {"pending", "completed", "insufficient_data"}
          /\ sessions[s].completed = (sessions[s].status # "pending")
          /\ Store!IsFiniteSet(sessions[s].eventIds)
    BY <1>1, SameSets DEF KeptOf, SessionsInv
  <2> QED
    BY <2>1, <2>2 DEF Store!TypeOK, Store!Numbers, KeptInv
<1>3. Store!FeaturesAreOfEvents
  BY <1>1 DEF KeptOf, Store!FeaturesAreOfEvents, Store!Numbers
<1>4. Store!TimeIsBounded
  <2> SUFFICES ASSUME NEW s \in DOMAIN sessions
               PROVE  LET f == sessions[s].features
                          buckets == UNION {{b.key : b \in f[p].buckets} : p \in Catalog}
                      IN Store!SumFunction([p \in Catalog |-> Store!AttentionTime(f, p)])
                           <= Store!Unit * Store!Cardinality(buckets)
    BY DEF Store!TimeIsBounded, Store!Numbers
  <2> DEFINE f == sessions[s].features
             buckets == UNION {{b.key : b \in f[p].buckets} : p \in Catalog}
             times == [p \in Catalog |-> Store!AttentionTime(f, p)]
  <2>1. buckets = AllKeys(f)
    BY DEF AllKeys, KeysAt
  <2>2. Store!SumFunction(times) = Sum(times, Catalog)
    BY DEF Store!SumFunction, Sum
  <2>3. Sum(times, Catalog) <= 12 * Cardinality(AllKeys(f))
    BY <1>1, TimeFits
  <2>4. Store!Cardinality(buckets) = Cardinality(AllKeys(f)) /\ Store!Unit = 12
    BY <2>1, SameSets DEF Store!Unit
  <2> HIDE DEF times, buckets, f
  <2>5. Store!SumFunction(times) <= Store!Unit * Store!Cardinality(buckets)
    BY <2>2, <2>3, <2>4
  <2> QED
    BY <2>5 DEF times, buckets, f
<1>5. Store!RevisitsAreGaps
  <2> SUFFICES ASSUME NEW s \in DOMAIN sessions, NEW p \in Catalog
               PROVE  LET f == sessions[s].features
                          epochs == {b.key[1] : b \in f[p].buckets}
                      IN epochs # {} => Store!RevisitCount(f, p)
                           = Store!Cardinality(Store!Gaps(f, p)) + Store!Cardinality(epochs) - 1
    BY DEF Store!RevisitsAreGaps, Store!Numbers
  <2> DEFINE f == sessions[s].features
             epochs == {b.key[1] : b \in f[p].buckets}
  <2>1. ShapeAt(f, p)
    BY <1>1 DEF Shape
  <2>2. epochs # {} => Store!RevisitCount(f, p) = Cardinality(Store!Gaps(f, p)) + Cardinality(epochs) - 1
    BY <2>1, RevisitsAre
  <2> QED
    BY <2>2, SameSets
<1>6. Store!RankingFollowsAttention
  BY <1>1, RankingIs DEF Store!RankingFollowsAttention, Store!Numbers
<1> QED
  BY <1>2, <1>3, <1>4, <1>5, <1>6 DEF Store!FeaturesExact

\* What a v1 session's looks are turned into, and ranked by, is what they
\* were: however they were batched, repeated and reordered on their way, no
\* bucket is filled more than once, a revisit is a gap, and no product comes
\* before one that was looked at for longer, as surely and as often (store.py
\* append_batch, accumulator.py accept and snapshot, engine.py run).
THEOREM StoreFeaturesExact == Store!Spec => []Store!FeaturesExact
<1>1. Store!Init => StoreInv /\ KeptInv
  BY StoreInit, KeptInit
<1>2. StoreInv /\ KeptInv /\ [Store!Next]_(Store!vars) => StoreInv' /\ KeptInv'
  <2>1. CASE Store!Next
    BY <2>1, StoreStep, KeptSteps DEF StoreInv
  <2>2. ASSUME KeptInv, UNCHANGED Store!vars PROVE KeptInv'
    <3>1. sessions' = sessions /\ folded' = folded /\ conversions' = conversions /\ requests' = requests
      BY <2>2 DEF Store!vars
    <3> QED
      BY <2>2, <3>1 DEF KeptInv, KeptOf
  <2> QED
    BY <2>1, <2>2, StoreStep
<1>3. StoreInv /\ KeptInv => Store!FeaturesExact
  BY KeptIsExact DEF StoreInv
<1> QED
  BY <1>1, <1>2, <1>3, PTL DEF Store!Spec

-----------------------------------------------------------------------------
(* Side by side *)

\* A step of the servers is a step of at most one part, and leaves the others
\* as they are.
LEMMA EachPart ==
  ServerSpec =>
    /\ Store!Init /\ [][Store!Next]_(Store!vars)
    /\ Manager!Init /\ [][Manager!Next]_(Manager!vars)
    /\ Release!Init /\ [][Release!Next]_(Release!vars)
    /\ Database!Init /\ [][Database!Next]_(Database!vars)
<1>1. ServerInit => Store!Init /\ Manager!Init /\ Release!Init /\ Database!Init
  BY DEF ServerInit
<1>2. UNCHANGED everything =>
        /\ UNCHANGED Store!vars /\ UNCHANGED Manager!vars
        /\ UNCHANGED Release!vars /\ UNCHANGED Database!vars
  BY DEF everything, storeVars, managerVars, releaseVars, databaseVars,
         Store!vars, Manager!vars, Release!vars, Database!vars
<1>3. ServerNext =>
        /\ Store!Next \/ UNCHANGED Store!vars
        /\ Manager!Next \/ UNCHANGED Manager!vars
        /\ Release!Next \/ UNCHANGED Release!vars
        /\ Database!Next \/ UNCHANGED Database!vars
  BY DEF ServerNext, storeVars, managerVars, releaseVars, databaseVars,
         Store!vars, Manager!vars, Release!vars, Database!vars
<1> QED
  BY <1>1, <1>2, <1>3, PTL DEF ServerSpec, ServerSafety

\* A deployment ends with a release that works, or says that it did not
\* (deploy-release.sh).
THEOREM ReleasesAreSound ==
  ASSUME MaxReleases \in Nat
  PROVE  ServerSpec => []ReleaseIsSound
<1>1. Release!ReleaseIsSound => ReleaseIsSound
  BY DEF ReleaseIsSound
<1> QED
  BY <1>1, EachPart, DeploymentSound, PTL DEF Release!Spec

\* The rows the API serves are the reviewed ones, on the whole schema
\* (db_migrate.py, db_seed_catalog.py, check_readiness).
THEOREM ServesReviewedRows ==
  ASSUME Required \in Nat \ {0}, MaxJobs \in Nat
  PROVE  ServerSpec => DatabaseIsSound
  BY EachPart, DatabaseSound, PTL DEF Database!Spec, DatabaseIsSound

\* The manager's screen shows the requests made, each once and none left out
\* (apps/manager/src, request_manager_product).
THEOREM ShowsEveryRequest ==
  ASSUME MaxDecisions \in Nat
  PROVE  ServerSpec => []EventsExact
<1>1. Manager!EventsExact => EventsExact
  BY DEF EventsExact
<1> QED
  BY <1>1, EachPart, ScreenExact, PTL

\* A recommendation a client of the v1 API has read stays what it was
\* (store.py complete_session, append_batch).
THEOREM ResultsAreFinal == ServerSpec => ResultsStay
  BY EachPart, StoreResultsStay, PTL DEF Store!Spec, ResultsStay

\* The conversions and the manager's events agree with what each session was
\* recommended, and polling misses none (store.py record_conversion,
\* request_manager_product, list_manager_events).
THEOREM LogsAgree == ServerSpec => []LogsOfResults
<1>1. Store!LogsOfResults => LogsOfResults
  BY DEF LogsOfResults
<1> QED
  BY <1>1, EachPart, StoreLogsAgree, PTL DEF Store!Spec

\* What a v1 session's looks are turned into, and ranked by, is what they
\* were (store.py append_batch, accumulator.py, engine.py).
THEOREM FeaturesAreExact == ServerSpec => []FeaturesExact
<1>1. Store!FeaturesExact => FeaturesExact
  BY DEF FeaturesExact
<1> QED
  BY <1>1, EachPart, StoreFeaturesExact, PTL DEF Store!Spec
=============================================================================

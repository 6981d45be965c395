----------------------------- MODULE NaturalLemmas -----------------------------
(***************************************************************************)
(* Induction and recursion over the natural numbers, stated over sets and  *)
(* functions: the library's theorems take an operator and cannot be used   *)
(* here, but the well-foundedness of the subsets of a finite set is a      *)
(* statement about sets, and a least element follows from it.  Then what   *)
(* proofs need of records and sequences whose elements have no type.       *)
(***************************************************************************)
EXTENDS Naturals, Sequences, FiniteSetTheorems, SequenceTheorems, WellFoundedInduction, TLAPS

\* A set of natural numbers that is not empty has a least element: the oldest
\* task, the first position of a job in a queue, the first pass of a loop.
LEMMA LeastElement ==
  ASSUME NEW T \in SUBSET Nat, T # {}
  PROVE  \E x \in T : \A y \in T : x <= y
<1>1. PICK n \in T : TRUE
  OBVIOUS
<1> DEFINE S == 0..n
           F == {0..k : k \in T \cap S}
<1>2. IsWellFoundedOn(StrictSubsetOrdering(S), SUBSET S)
  <2>1. FiniteSubsetsOf(S) = SUBSET S
    <3>1. IsFiniteSet(0..n)
      BY FS_Interval, <1>1
    <3>. QED
      BY <3>1, FS_FiniteSubsetsOfFinite
  <2>. QED
    BY <2>1, FS_StrictSubsetOrderingWellFounded
<1>3. F \subseteq SUBSET S /\ F # {}
  BY <1>1
<1>4. PICK X \in F : \A Y \in F : <<Y, X>> \notin StrictSubsetOrdering(S)
  <2>. HIDE DEF F, S
  <2>. QED
    BY <1>2, <1>3, WFMin
<1>5. PICK k \in T \cap S : X = 0..k
  OBVIOUS
<1>6. ASSUME NEW y \in T, ~(k <= y)
      PROVE  FALSE
  <2>1. 0..y \in F /\ 0..y \subseteq X /\ 0..y # X
    BY <1>5, <1>6
  <2>2. <<0..y, X>> \in StrictSubsetOrdering(S)
    BY <2>1, <1>3 DEF StrictSubsetOrdering
  <2>. QED
    BY <2>1, <2>2, <1>4
<1>. QED
  BY <1>5, <1>6

\* Induction up to a bound: what holds of the first number and is passed on to
\* the next one holds of all of them.
LEMMA BoundedInduction ==
  ASSUME NEW N \in Nat, NEW P \in SUBSET (0..N), 0 \in P,
         \A n \in 1..N : n - 1 \in P => n \in P
  PROVE  P = 0..N
<1>. DEFINE Q == (0..N) \ P
<1>1. Q \in SUBSET Nat
  OBVIOUS
<1>2. CASE Q # {}
  <2>1. PICK n \in Q : \A m \in Q : n <= m
    BY <1>1, <1>2, LeastElement
  <2>2. n \in 1..N /\ n - 1 \in 0..N /\ ~(n <= n - 1)
    BY <2>1
  <2>3. n - 1 \in P
    BY <2>1, <2>2
  <2>. QED
    BY <2>1, <2>2, <2>3
<1>. QED
  BY <1>2

\* A loop of N passes over states in S: a function for each pass, and the
\* sequences of the states it goes through from a first one.
Steps(S, N) == [S \X (1..N) -> S]
Loops(S, base, N, step) ==
  {f \in [0..N -> S] : f[0] = base /\ \A n \in 1..N : f[n] = step[<<f[n - 1], n>>]}

LEMMA LoopExists ==
  ASSUME NEW S, NEW base \in S, NEW N \in Nat, NEW step \in Steps(S, N)
  PROVE  Loops(S, base, N, step) # {}
<1>. USE DEF Steps
<1>. DEFINE Runs(m) == {f \in [0..m -> S] :
                          f[0] = base /\ \A n \in 1..m : f[n] = step[<<f[n - 1], n>>]}
            P == {m \in 0..N : Runs(m) # {}}
<1>1. 0 \in P
  <2>1. [n \in 0..0 |-> base] \in Runs(0)
    OBVIOUS
  <2>. QED
    BY <2>1
<1>2. ASSUME NEW m \in 1..N, m - 1 \in P
      PROVE  m \in P
  <2>1. PICK f \in Runs(m - 1) : TRUE
    BY <1>2
  <2>. DEFINE g == [n \in 0..m |-> IF n = m THEN step[<<f[m - 1], m>>] ELSE f[n]]
  <2>2. f \in [0..(m - 1) -> S] /\ f[0] = base
        /\ \A n \in 1..(m - 1) : f[n] = step[<<f[n - 1], n>>]
    OBVIOUS
  <2>3. m - 1 \in 0..(m - 1) /\ \A n \in 0..m : n # m => n \in 0..(m - 1)
    OBVIOUS
  <2>4. f[m - 1] \in S /\ step[<<f[m - 1], m>>] \in S
    BY <2>2, <2>3
  <2>5. g \in [0..m -> S]
    BY <2>2, <2>3, <2>4
  <2>6. g[0] = base /\ g[m] = step[<<g[m - 1], m>>]
    <3>1. 0 \in 0..m /\ 0 # m /\ m \in 0..m /\ m - 1 \in 0..m /\ m - 1 # m
      OBVIOUS
    <3>2. g[0] = f[0] /\ g[m] = step[<<f[m - 1], m>>] /\ g[m - 1] = f[m - 1]
      BY <3>1
    <3>. QED
      BY <2>2, <3>2
  <2>7. ASSUME NEW n \in 1..m, n # m
        PROVE  g[n] = step[<<g[n - 1], n>>]
    <3>1. n \in 1..(m - 1) /\ n - 1 \in 0..m /\ n - 1 # m /\ n \in 0..m
      BY <2>7
    <3>2. g[n] = f[n] /\ g[n - 1] = f[n - 1]
      BY <2>7, <3>1
    <3>. QED
      BY <2>2, <3>1, <3>2
  <2>8. g \in Runs(m)
    <3>. HIDE DEF g
    <3>. QED
      BY <2>5, <2>6, <2>7
  <2>9. m \in 0..N
    OBVIOUS
  <2>10. Runs(m) # {}
    <3>. HIDE DEF Runs, g
    <3>. QED
      BY <2>8
  <2>. QED
    BY <2>9, <2>10
<1>3. P = 0..N
  <2>1. P \in SUBSET (0..N)
    OBVIOUS
  <2>. HIDE DEF P
  <2>. QED
    BY <1>1, <1>2, <2>1, BoundedInduction
<1>4. N \in P
  BY <1>3
<1>. QED
  BY <1>4 DEF Loops
-------------------------------------------------------------------------------
\* A record with these fields; a sequence of anything.
HasFields(r, fields) == r = [x \in fields |-> r[x]]
IsSequence(s) == \E S : s \in Seq(S)

\* A sequence with one more element, whatever its elements are.
LEMMA AppendedSequence ==
  ASSUME NEW s, NEW e, IsSequence(s)
  PROVE  /\ IsSequence(Append(s, e)) /\ DOMAIN Append(s, e) = DOMAIN s \union {Len(s) + 1}
         /\ Append(s, e)[Len(s) + 1] = e /\ \A i \in DOMAIN s : Append(s, e)[i] = s[i]
<1>1. PICK S : s \in Seq(S)
  BY DEF IsSequence
<1>2. s \in Seq(S \union {e}) /\ Len(s) \in Nat /\ DOMAIN s = 1..Len(s)
  BY <1>1, LenProperties
<1>3. Append(s, e) \in Seq(S \union {e})
  BY <1>2
<1>. QED
  BY <1>2, <1>3 DEF IsSequence
===============================================================================

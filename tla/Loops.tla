-------------------------------- MODULE Loops --------------------------------
(***************************************************************************)
(* A loop of the code: what its variables are after some rounds.  Round    *)
(* gives what the i-th round makes of the variables x; p is what the loop  *)
(* leaves as it is.  Each loop is an instance of this module.              *)
(***************************************************************************)
EXTENDS Integers, WellFoundedInduction, TLAPS

CONSTANT Round(_, _, _)

\* The only element of a set of one.
Only(S) == CHOOSE y \in S : TRUE

\* The variables of a loop that starts with a, after n rounds.  (With sets of one, TLC
\* has a round behind it before it looks at the next, however many there are.)
Loop(p, a, n) ==
    LET after[i \in 0..n] ==
            IF i = 0 THEN a ELSE Only({Round(p, x, i) : x \in {after[i - 1]}})
    IN  after[n]

-----------------------------------------------------------------------------
(* What an invariant of a loop is shown with.                              *)

\* A set of numbers that is not empty has a least one.
LEMMA Least ==
    ASSUME NEW S \in SUBSET Nat, S # {}
    PROVE  \E n \in S : \A m \in S : n <= m
<1> DEFINE R == OpToRel(<, Nat)
<1>1. IsWellFoundedOn(R, Nat)
  BY NatLessThanWellFounded
<1>2. PICK n \in S : \A m \in S : ~(<<m, n>> \in R)
  <2> HIDE DEF R
  <2> QED
    BY <1>1, WFMin
<1>3. n \in Nat /\ \A m \in S : m \in Nat /\ ~(m < n)
  BY <1>2 DEF OpToRel
<1> QED
  BY <1>3

\* Induction: a set that holds 0, and with every number the next one, holds all.
LEMMA Induction ==
    ASSUME NEW S, 0 \in S, \A n \in Nat : n \in S => n + 1 \in S
    PROVE  \A n \in Nat : n \in S
<1> DEFINE Bad == {n \in Nat : n \notin S}
<1> SUFFICES ASSUME Bad # {} PROVE FALSE
  OBVIOUS
<1>1. PICK n \in Bad : \A m \in Bad : n <= m
  <2>1. Bad \in SUBSET Nat
    OBVIOUS
  <2> HIDE DEF Bad
  <2> QED
    BY <2>1, Least
<1>2. n \in Nat /\ n # 0
  BY <1>1
<1>3. n - 1 \in Nat /\ n - 1 \notin Bad
  BY <1>1, <1>2
<1>4. n - 1 \in S
  BY <1>3
<1> QED
  BY <1>1, <1>3, <1>4

-----------------------------------------------------------------------------
(* Each round of a loop makes of the variables what Round says.            *)

\* The variables after each of n rounds.
IsRun(f, p, a, n) ==
    f = [i \in 0..n |-> IF i = 0 THEN a ELSE Only({Round(p, x, i) : x \in {f[i - 1]}})]

LEMMA RunRounds ==
    ASSUME NEW f, NEW p, NEW a, NEW n \in Nat
    PROVE  IsRun(f, p, a, n) <=> f = [i \in 0..n |-> IF i = 0 THEN a ELSE Round(p, f[i - 1], i)]
<1>1. ASSUME NEW e, NEW i PROVE Only({Round(p, x, i) : x \in {e}}) = Round(p, e, i)
  <2>1. {Round(p, x, i) : x \in {e}} = {Round(p, e, i)}
    OBVIOUS
  <2>2. Only({Round(p, e, i)}) = Round(p, e, i)
    BY DEF Only
  <2> QED
    BY <2>1, <2>2
<1> QED
  BY <1>1, Zenon DEF IsRun

LEMMA RunExists ==
    ASSUME NEW p, NEW a, NEW n \in Nat
    PROVE  \E f : IsRun(f, p, a, n)
<1> DEFINE S == {m \in Nat : \E f : IsRun(f, p, a, m)}
<1>1. 0 \in S
  <2> DEFINE f == [i \in 0..0 |-> a]
  <2>1. f = [i \in 0..0 |-> IF i = 0 THEN a ELSE Round(p, f[i - 1], i)]
    OBVIOUS
  <2> HIDE DEF f
  <2>2. IsRun(f, p, a, 0)
    BY <2>1, RunRounds
  <2> QED
    BY <2>2
<1>2. ASSUME NEW m \in Nat, m \in S PROVE m + 1 \in S
  <2>1. PICK f : IsRun(f, p, a, m)
    BY <1>2
  <2> DEFINE g == [i \in 0..(m + 1) |-> IF i = m + 1 THEN Round(p, f[m], i) ELSE f[i]]
  <2>2. \A i \in 0..(m + 1) : g[i] = IF i = 0 THEN a ELSE Round(p, g[i - 1], i)
    BY <2>1, RunRounds
  <2>3. IsRun(g, p, a, m + 1)
    BY <2>2, RunRounds
  <2> QED
    BY <2>3
<1>3. n \in S
  <2> HIDE DEF S
  <2> QED
    BY <1>1, <1>2, Induction
<1> QED
  BY <1>3

LEMMA RunIsUnique ==
    ASSUME NEW p, NEW a, NEW n \in Nat, NEW m \in Nat, m <= n, NEW f, NEW g,
           IsRun(f, p, a, n), IsRun(g, p, a, m)
    PROVE  f[m] = g[m]
<1> DEFINE S == {i \in Nat : i <= m => f[i] = g[i]}
<1>1. 0 \in S
  BY RunRounds
<1>2. ASSUME NEW i \in Nat, i \in S PROVE i + 1 \in S
  <2> SUFFICES ASSUME i + 1 <= m PROVE f[i + 1] = g[i + 1]
    OBVIOUS
  <2>1. f[i] = g[i]
    BY <1>2
  <2>2. f[i + 1] = Round(p, f[i], i + 1)
    BY RunRounds
  <2>3. g[i + 1] = Round(p, g[i], i + 1)
    BY RunRounds
  <2> QED
    BY <2>1, <2>2, <2>3
<1>3. m \in S
  <2> HIDE DEF S
  <2> QED
    BY <1>1, <1>2, Induction
<1> QED
  BY <1>3

\* A loop starts with a, and each round makes of the variables what Round says, for any
\* loop of the code and any number of rounds.
THEOREM LoopRounds ==
    ASSUME NEW p, NEW a
    PROVE  /\ Loop(p, a, 0) = a
           /\ \A n \in Nat : Loop(p, a, n + 1) = Round(p, Loop(p, a, n), n + 1)
<1> DEFINE Run(n) == CHOOSE f : IsRun(f, p, a, n)
<1>1. ASSUME NEW n \in Nat PROVE IsRun(Run(n), p, a, n) /\ Loop(p, a, n) = Run(n)[n]
  <2>1. IsRun(Run(n), p, a, n)
    BY RunExists
  <2>2. Loop(p, a, n) = Run(n)[n]
    BY DEF Loop, IsRun
  <2> QED
    BY <2>1, <2>2
<1>2. Loop(p, a, 0) = a
  <2> HIDE DEF Run
  <2>1. IsRun(Run(0), p, a, 0) /\ Loop(p, a, 0) = Run(0)[0]
    BY <1>1
  <2> QED
    BY <2>1, RunRounds
<1>3. ASSUME NEW n \in Nat PROVE Loop(p, a, n + 1) = Round(p, Loop(p, a, n), n + 1)
  <2>1. n + 1 \in Nat
    OBVIOUS
  <2>2. Run(n + 1)[n] = Run(n)[n]
    <3> HIDE DEF Run
    <3> QED
      BY <1>1, <2>1, RunIsUnique
  <2>3. Run(n + 1)[n + 1] = Round(p, Run(n + 1)[n], n + 1)
    <3>1. IsRun(Run(n + 1), p, a, n + 1)
      BY <1>1, <2>1
    <3> HIDE DEF Run
    <3> QED
      BY <2>1, <3>1, RunRounds
  <2>4. Loop(p, a, n) = Run(n)[n] /\ Loop(p, a, n + 1) = Run(n + 1)[n + 1]
    <3> HIDE DEF Run
    <3> QED
      BY <1>1, <2>1
  <2> HIDE DEF Run
  <2> QED
    BY <2>2, <2>3, <2>4
<1> QED
  BY <1>2, <1>3

\* The variables after each number of rounds.
Rounds(p, a) == [n \in Nat |-> Loop(p, a, n)]

LEMMA RoundsNext ==
    ASSUME NEW p, NEW a
    PROVE  /\ Rounds(p, a)[0] = a
           /\ \A n \in Nat : Rounds(p, a)[n + 1] = Round(p, Rounds(p, a)[n], n + 1)
           /\ \A n \in Nat : Rounds(p, a)[n] = Loop(p, a, n)
<1>1. \A n \in Nat : n + 1 \in Nat /\ Rounds(p, a)[n] = Loop(p, a, n)
  BY DEF Rounds
<1>2. Rounds(p, a)[0] = a
  BY <1>1, LoopRounds
<1>3. ASSUME NEW n \in Nat PROVE Rounds(p, a)[n + 1] = Round(p, Rounds(p, a)[n], n + 1)
  <2>1. Loop(p, a, n + 1) = Round(p, Loop(p, a, n), n + 1)
    BY LoopRounds
  <2> QED
    BY <1>1, <2>1
<1> QED
  BY <1>1, <1>2, <1>3
=============================================================================

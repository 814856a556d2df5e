-------------------------- MODULE AlgorithmsProofs --------------------------
(***************************************************************************)
(* Proofs about Algorithms: what the pure functions compute, for inputs of *)
(* any length.  Loops gives, of each loop, the first round and the next    *)
(* one; an invariant of a loop is shown by induction over its rounds.      *)
(***************************************************************************)
EXTENDS Algorithms, FiniteSetTheorems, SequenceTheorems, TLAPS

\* The input is a sequence of elements of the alphabet of what is under test, whatever
\* the alphabets and the bounds.
THEOREM AlgorithmsTypeCorrect == Spec => []TypeOK
<1>1. Init => TypeOK
  BY DEF Init, TypeOK
<1>2. TypeOK /\ [Next]_vars => TypeOK'
  BY DEF TypeOK, Next, More, vars
<1> QED
  BY <1>1, <1>2, PTL DEF Spec

-----------------------------------------------------------------------------
(* Paths.                                                                  *)

\* The pieces of a text are texts.
LEMMA PiecesType ==
    ASSUME NEW S, NEW s \in Seq(S), NEW d
    PROVE  Pieces(s, d) \in Seq(Seq(S)) /\ (s # <<>> => Len(Pieces(s, d)) >= 1)
<1> DEFINE p    == [text |-> s, d |-> d]
           x    == [n \in Nat |-> Cutting!Loop(p, << <<>> >>, n)]
           Good == {n \in Nat : n <= Len(s) => x[n] \in Seq(Seq(S)) /\ Len(x[n]) >= 1}
<1>1. x[0] = << <<>> >> /\ \A n \in Nat : x[n + 1] = PieceRound(p, x[n], n + 1)
  BY Cutting!LoopRounds
<1>2. Pieces(s, d) = IF s = <<>> THEN <<>> ELSE x[Len(s)]
  BY DEF Pieces
<1> HIDE DEF x
<1>3. 0 \in Good
  <2>1. <<>> \in Seq(S) /\ \A T : \A e \in T : <<e>> \in Seq(T) /\ Len(<<e>>) = 1
    OBVIOUS
  <2>2. x[0] \in Seq(Seq(S)) /\ Len(x[0]) = 1
    BY <1>1, <2>1, Zenon
  <2>3. Len(x[0]) >= 1
    BY <2>2
  <2>4. 0 \in Nat
    OBVIOUS
  <2> QED
    BY <2>2, <2>3, <2>4, Zenon
<1>4. ASSUME NEW n \in Nat, n \in Good PROVE n + 1 \in Good
  <2> SUFFICES ASSUME n + 1 <= Len(s)
               PROVE  x[n + 1] \in Seq(Seq(S)) /\ Len(x[n + 1]) >= 1
    OBVIOUS
  <2>1. x[n] \in Seq(Seq(S)) /\ Len(x[n]) >= 1 /\ s[n + 1] \in S
    BY <1>4
  <2>2. x[n + 1] = IF s[n + 1] = d THEN Append(x[n], <<>>)
                   ELSE [x[n] EXCEPT ![Len(x[n])] = Append(@, s[n + 1])]
    BY <1>1 DEF PieceRound
  <2>3. CASE s[n + 1] = d
    <3>1. <<>> \in Seq(S)
      OBVIOUS
    <3>2. PICK y \in Seq(S) : x[n + 1] = Append(x[n], y)
      BY <2>2, <2>3, <3>1, Zenon
    <3> QED
      BY <2>1, <3>2
  <2>4. CASE s[n + 1] # d
    <3>1. Append(x[n][Len(x[n])], s[n + 1]) \in Seq(S)
      BY <2>1
    <3>2. PICK y \in Seq(S) : x[n + 1] = [x[n] EXCEPT ![Len(x[n])] = y]
      BY <2>2, <2>4, <3>1, Zenon
    <3> QED
      BY <2>1, <3>2
  <2> QED
    BY <2>3, <2>4
<1>5. Len(s) \in Good
  <2> HIDE DEF Good
  <2> QED
    BY <1>3, <1>4, Cutting!Induction
<1> QED
  BY <1>2, <1>5

\* A number more to count.
LEMMA CountNext ==
    ASSUME NEW T, NEW i \in Nat
    PROVE  LET S(n) == {j \in 1..n : j \in T}
           IN  /\ Cardinality(S(i)) \in Nat
               /\ Cardinality(S(i + 1)) = Cardinality(S(i)) + (IF i + 1 \in T THEN 1 ELSE 0)
<1> DEFINE S(n) == {j \in 1..n : j \in T}
<1> SUFFICES /\ Cardinality(S(i)) \in Nat
             /\ Cardinality(S(i + 1)) = Cardinality(S(i)) + (IF i + 1 \in T THEN 1 ELSE 0)
  OBVIOUS
<1>1. IsFiniteSet(S(i)) /\ Cardinality(S(i)) \in Nat
  <2>1. IsFiniteSet(1..i)
    BY FS_Interval
  <2>2. S(i) \in SUBSET (1..i)
    OBVIOUS
  <2> HIDE DEF S
  <2> QED
    BY <2>1, <2>2, FS_Subset, FS_CardinalityType
<1>2. CASE i + 1 \in T
  <2>1. S(i + 1) = S(i) \cup {i + 1} /\ i + 1 \notin S(i)
    BY <1>2
  <2> HIDE DEF S
  <2> QED
    BY <1>1, <1>2, <2>1, FS_AddElement
<1>3. CASE i + 1 \notin T
  <2>1. S(i + 1) = S(i)
    BY <1>3
  <2> HIDE DEF S
  <2> QED
    BY <1>1, <1>3, <2>1
<1> QED
  BY <1>2, <1>3

\* How deep a walk is after one more component.
LEMMA DepthNext ==
    ASSUME NEW names, NEW i \in Nat
    PROVE  /\ Depth(names, 0) = 0
           /\ Depth(names, i) \in Int
           /\ Depth(names, i + 1) =
                 CASE names[i + 1] \in {<<>>, <<Dot>>} -> Depth(names, i)
                   [] names[i + 1] = <<Dot, Dot>>     -> Depth(names, i) - 1
                   [] OTHER                           -> Depth(names, i) + 1
<1> DEFINE Down == {j \in Nat : names[j] \notin {<<>>, <<Dot>>, <<Dot, Dot>>}}
           Up   == {j \in Nat : names[j] = <<Dot, Dot>>}
           C(T, n) == Cardinality({j \in 1..n : j \in T})
<1>1. ASSUME NEW n \in Nat PROVE Depth(names, n) = C(Down, n) - C(Up, n)
  <2>1. {j \in 1..n : names[j] \notin {<<>>, <<Dot>>, <<Dot, Dot>>}} = {j \in 1..n : j \in Down}
    OBVIOUS
  <2>2. {j \in 1..n : names[j] = <<Dot, Dot>>} = {j \in 1..n : j \in Up}
    OBVIOUS
  <2> QED
    BY <2>1, <2>2 DEF Depth
<1>2. ASSUME NEW T
      PROVE  C(T, i) \in Nat /\ C(T, i + 1) = C(T, i) + (IF i + 1 \in T THEN 1 ELSE 0)
  BY CountNext
<1>3. C(Down, 0) = 0 /\ C(Up, 0) = 0
  <2>1. {j \in 1..0 : j \in Down} = {} /\ {j \in 1..0 : j \in Up} = {}
    OBVIOUS
  <2> QED
    BY <2>1, FS_EmptySet
<1>4. <<>> # <<Dot, Dot>> /\ <<Dot>> # <<Dot, Dot>>
  OBVIOUS
<1>5. i + 1 \in Down <=> names[i + 1] \notin {<<>>, <<Dot>>, <<Dot, Dot>>}
  OBVIOUS
<1>6. i + 1 \in Up <=> names[i + 1] = <<Dot, Dot>>
  OBVIOUS
<1>7. /\ Depth(names, 0) = C(Down, 0) - C(Up, 0)
      /\ Depth(names, i) = C(Down, i) - C(Up, i)
      /\ Depth(names, i + 1) = C(Down, i + 1) - C(Up, i + 1)
  <2>1. i + 1 \in Nat
    OBVIOUS
  <2> HIDE DEF C, Down, Up
  <2> QED
    BY <1>1, <2>1
<1>8. /\ C(Down, i) \in Nat /\ C(Up, i) \in Nat
      /\ C(Down, i + 1) = C(Down, i) + (IF i + 1 \in Down THEN 1 ELSE 0)
      /\ C(Up, i + 1) = C(Up, i) + (IF i + 1 \in Up THEN 1 ELSE 0)
  <2> HIDE DEF C, Down, Up
  <2> QED
    BY <1>2
<1> HIDE DEF C, Down, Up
<1>9. Depth(names, 0) = 0 /\ Depth(names, i) \in Int
  <2>1. Depth(names, 0) = 0
    BY <1>3, <1>7
  <2>2. Depth(names, i) \in Int
    BY <1>7, <1>8
  <2> QED
    BY <2>1, <2>2
<1>10. Depth(names, i + 1) = Depth(names, i) + (IF i + 1 \in Down THEN 1 ELSE 0)
                                             - (IF i + 1 \in Up THEN 1 ELSE 0)
  BY <1>7, <1>8
<1>11. CASE names[i + 1] \in {<<>>, <<Dot>>}
  BY <1>4, <1>5, <1>6, <1>9, <1>10, <1>11
<1>12. CASE names[i + 1] = <<Dot, Dot>>
  BY <1>4, <1>5, <1>6, <1>9, <1>10, <1>12
<1>13. CASE names[i + 1] \notin {<<>>, <<Dot>>} /\ names[i + 1] # <<Dot, Dot>>
  BY <1>5, <1>6, <1>9, <1>10, <1>13
<1> QED
  BY <1>11, <1>12, <1>13, Zenon

\* The level is the depth, until that was below 0.
LEMMA LevelIsDepth ==
    ASSUME NEW names, NEW n \in Nat
    PROVE  Climbing!Loop(names, 0, n)
               = IF \A j \in 1..n : Depth(names, j) >= 0 THEN Depth(names, n) ELSE None
<1> DEFINE level(m) == Climbing!Loop(names, 0, m)
           Above(m) == \A j \in 1..m : Depth(names, j) >= 0
           Good     == {m \in Nat : level(m) = IF Above(m) THEN Depth(names, m) ELSE None}
<1>1. level(0) = 0 /\ \A m \in Nat : level(m + 1) = LevelRound(names, level(m), m + 1)
  BY Climbing!LoopRounds
<1>2. 0 \in Good
  <2>1. Depth(names, 0) = 0
    BY DepthNext
  <2> QED
    BY <1>1, <2>1
<1>3. ASSUME NEW m \in Nat, m \in Good PROVE m + 1 \in Good
  <2>1. /\ level(m + 1) = LevelRound(names, level(m), m + 1)
        /\ level(m) = IF Above(m) THEN Depth(names, m) ELSE None
    BY <1>1, <1>3
  <2>2. Above(m + 1) <=> Above(m) /\ Depth(names, m + 1) >= 0
    OBVIOUS
  <2>3. Above(m) => Depth(names, m) >= 0
    BY DepthNext
  <2>4. /\ Depth(names, m) \in Int
        /\ Depth(names, m + 1) =
              CASE names[m + 1] \in {<<>>, <<Dot>>} -> Depth(names, m)
                [] names[m + 1] = <<Dot, Dot>>     -> Depth(names, m) - 1
                [] OTHER                           -> Depth(names, m) + 1
    BY DepthNext
  <2>5. <<>> # <<Dot, Dot>> /\ <<Dot>> # <<Dot, Dot>>
    OBVIOUS
  <2>6. level(m + 1) = IF Above(m + 1) THEN Depth(names, m + 1) ELSE None
    <3> HIDE DEF level, Above
    <3> QED
      BY <2>1, <2>2, <2>3, <2>4, <2>5 DEF LevelRound, None
  <2> QED
    BY <2>6
<1>4. n \in Good
  <2> HIDE DEF Good
  <2> QED
    BY <1>2, <1>3, Climbing!Induction
<1> QED
  BY <1>4

\* A path is valid if and only if the walk along it never leaves the directory it
\* starts from, for paths of any characters and any length (is_valid_path,
\* handle_file_request).
THEOREM PathsStayInside == Spec => []ValidPathsStayInside
<1>1. TypeOK => ValidPathsStayInside
  <2> SUFFICES ASSUME TypeOK PROVE ValidPathsStayInside
    OBVIOUS
  <2> DEFINE names == Pieces(text, Slash)
  <2>1. text \in Seq(Alphabet[subject])
    BY DEF TypeOK
  <2>2. Len(names) \in Nat /\ DOMAIN names = 1..Len(names)
    BY <2>1, PiecesType
  <2> HIDE DEF names
  <2>3. Climbing!Loop(names, 0, Len(names)) # None
            <=> \A i \in DOMAIN names : Depth(names, i) >= 0
    <3>1. Climbing!Loop(names, 0, Len(names))
             = IF \A j \in 1..Len(names) : Depth(names, j) >= 0
               THEN Depth(names, Len(names)) ELSE None
      BY <2>2, LevelIsDepth
    <3>2. (\A j \in 1..Len(names) : Depth(names, j) >= 0) => Depth(names, Len(names)) >= 0
      BY <2>2, DepthNext
    <3> QED
      BY <2>2, <3>1, <3>2 DEF None
  <2> QED
    BY <2>3 DEF ValidPathsStayInside, ValidPath, names
<1> QED
  BY <1>1, AlgorithmsTypeCorrect, PTL

-----------------------------------------------------------------------------
(* Numbers.                                                                *)

\* Digits are read as they were written.
LEMMA HexOfDigit ==
    ASSUME NEW d \in 0..15, NEW ten \in {UpperA, LowerA}
    PROVE  /\ Hex(Digit(d, ten)) = d
           /\ Digit(d, ten) \in (Zero..Nine) \cup (ten..(ten + 5))
           /\ d < 10 => Digit(d, ten) \in Zero..Nine
  BY DEF Hex, Digit, Zero, Nine, UpperA, UpperF, LowerA, LowerF, None

Bases == {10, 16}

LEMMA Division ==
    ASSUME NEW base \in Bases, NEW n \in Nat
    PROVE  /\ n \div base \in Nat /\ n % base \in 0..(base - 1)
           /\ n = base * (n \div base) + (n % base)
           /\ n >= base => n \div base >= 1 /\ n \div base < n
           /\ n < base => n \div base = 0
<1>1. CASE base = 10
  BY <1>1
<1>2. CASE base = 16
  BY <1>2
<1> QED
  BY <1>1, <1>2 DEF Bases

\* The text of k, if f gives those of lesser numbers; the texts of the numbers up to n.
TextOf(f, base, k) == IF k < base THEN <<Digit(k, LowerA)>>
                      ELSE Append(f[k \div base], Digit(k % base, LowerA))
IsTexts(f, base, n) == f = [k \in 0..n |-> TextOf(f, base, k)]

LEMMA SameText ==
    ASSUME NEW f, NEW g, NEW base, NEW k, k < base \/ f[k \div base] = g[k \div base]
    PROVE  TextOf(f, base, k) = TextOf(g, base, k)
  BY Zenon DEF TextOf

LEMMA TextsExist ==
    ASSUME NEW base \in Bases, NEW n \in Nat
    PROVE  \E f : IsTexts(f, base, n)
<1> DEFINE S == {m \in Nat : \E f : IsTexts(f, base, m)}
<1>1. 0 \in S
  <2>1. \A k \in 0..0 : TextOf([i \in 0..0 |-> <<Digit(i, LowerA)>>], base, k)
                              = <<Digit(k, LowerA)>>
    BY DEF TextOf, Bases
  <2>2. IsTexts([k \in 0..0 |-> <<Digit(k, LowerA)>>], base, 0)
    BY <2>1 DEF IsTexts
  <2> QED
    BY <2>2
<1>2. ASSUME NEW m \in Nat, m \in S PROVE m + 1 \in S
  <2>1. PICK f : IsTexts(f, base, m)
    BY <1>2
  <2> DEFINE g == [k \in 0..(m + 1) |-> IF k = m + 1 THEN TextOf(f, base, k) ELSE f[k]]
  <2>2. ASSUME NEW k \in 0..(m + 1) PROVE g[k] = TextOf(g, base, k)
    <3> DEFINE q == k \div base
    <3>1. k >= base => q \in 0..m
      BY Division
    <3>2. k \in Int /\ base \in Int
      BY DEF Bases
    <3> HIDE DEF q
    <3>3. k < base \/ g[q] = f[q]
      BY <3>1, <3>2
    <3> HIDE DEF g
    <3>4. TextOf(g, base, k) = TextOf(f, base, k)
      BY <3>3, SameText DEF q
    <3>5. k # m + 1 => f[k] = TextOf(f, base, k)
      BY <2>1 DEF IsTexts
    <3> QED
      BY <3>4, <3>5 DEF g
  <2>3. IsTexts(g, base, m + 1)
    BY <2>2 DEF IsTexts
  <2> QED
    BY <2>3
<1>3. n \in S
  <2> HIDE DEF S
  <2> QED
    BY <1>1, <1>2, Reading!Induction
<1> QED
  BY <1>3

LEMMA TextsAreUnique ==
    ASSUME NEW base \in Bases, NEW n \in Nat, NEW m \in Nat, NEW f, NEW g,
           IsTexts(f, base, n), IsTexts(g, base, m), NEW k \in 0..n, k <= m
    PROVE  f[k] = g[k]
<1> DEFINE Bad == {i \in Nat : i <= n /\ i <= m /\ f[i] # g[i]}
<1> SUFFICES ASSUME Bad # {} PROVE FALSE
  OBVIOUS
<1>1. PICK i \in Bad : \A j \in Bad : i <= j
  <2>1. Bad \in SUBSET Nat
    OBVIOUS
  <2> HIDE DEF Bad
  <2> QED
    BY <2>1, Reading!Least
<1>2. i \in Nat /\ i <= n /\ i <= m /\ f[i] # g[i]
  BY <1>1
<1>3. i >= base => f[i \div base] = g[i \div base]
  <2> SUFFICES ASSUME i >= base PROVE f[i \div base] = g[i \div base]
    OBVIOUS
  <2>1. i \div base \in Nat /\ i \div base < i
    BY <1>2, Division
  <2>2. i \div base \notin Bad
    BY <1>1, <1>2, <2>1
  <2> QED
    BY <1>2, <2>1, <2>2
<1>4. TextOf(f, base, i) = TextOf(g, base, i)
  <2>1. i < base \/ i >= base
    BY <1>2 DEF Bases
  <2> QED
    BY <1>3, <2>1, SameText
<1>5. f[i] = TextOf(f, base, i)
  <2>1. i \in 0..n
    BY <1>2
  <2> QED
    BY <2>1 DEF IsTexts
<1>6. g[i] = TextOf(g, base, i)
  <2>1. i \in 0..m
    BY <1>2
  <2> QED
    BY <2>1 DEF IsTexts
<1> QED
  BY <1>2, <1>4, <1>5, <1>6

\* The digits of a number are those of the number without the last one, and that.
LEMMA DigitsNext ==
    ASSUME NEW base \in Bases, NEW n \in Nat
    PROVE  Digits(n, base) = IF n < base THEN <<Digit(n, LowerA)>>
                             ELSE Append(Digits(n \div base, base), Digit(n % base, LowerA))
<1> DEFINE Text(m) == CHOOSE f : IsTexts(f, base, m)
<1>1. ASSUME NEW m \in Nat PROVE IsTexts(Text(m), base, m) /\ Digits(m, base) = Text(m)[m]
  <2>1. IsTexts(Text(m), base, m)
    BY TextsExist
  <2>2. Digits(m, base) = Text(m)[m]
    BY DEF Digits, IsTexts, TextOf
  <2> QED
    BY <2>1, <2>2
<1>2. n \div base \in Nat /\ (n >= base => n \div base < n)
  BY Division
<1> HIDE DEF Text
<1>3. IsTexts(Text(n), base, n) /\ Digits(n, base) = Text(n)[n]
  BY <1>1
<1>4. n >= base => Text(n)[n \div base] = Digits(n \div base, base)
  <2> SUFFICES ASSUME n >= base PROVE Text(n)[n \div base] = Digits(n \div base, base)
    OBVIOUS
  <2> DEFINE m == n \div base
  <2>1. IsTexts(Text(m), base, m) /\ Digits(m, base) = Text(m)[m]
    BY <1>1, <1>2
  <2>2. m \in 0..n /\ m \in Nat
    BY <1>2
  <2> HIDE DEF m
  <2>3. Text(n)[m] = Text(m)[m]
    BY <1>3, <2>1, <2>2, TextsAreUnique
  <2> QED
    BY <2>1, <2>3 DEF m
<1>5. Text(n)[n] = TextOf(Text(n), base, n)
  BY <1>3 DEF IsTexts
<1>6. ~(n < base) => n >= base
  BY DEF Bases
<1> QED
  BY <1>3, <1>4, <1>5, <1>6, Zenon DEF TextOf

\* Digits that are the same up to some place read the same up to there.
LEMMA SameDigits ==
    ASSUME NEW s, NEW t, NEW base, NEW n \in Nat, \A i \in 1..n : s[i] = t[i]
    PROVE  Reading!Loop([digits |-> s, base |-> base], 0, n)
               = Reading!Loop([digits |-> t, base |-> base], 0, n)
<1> DEFINE p(u)  == [digits |-> u, base |-> base]
           x     == [m \in Nat |-> Reading!Loop(p(s), 0, m)]
           y     == [m \in Nat |-> Reading!Loop(p(t), 0, m)]
           Good  == {m \in Nat : m <= n => x[m] = y[m]}
<1>1. x[0] = 0 /\ \A m \in Nat : x[m + 1] = (base * x[m]) + Hex(s[m + 1])
  BY Reading!LoopRounds DEF NumberRound
<1>2. y[0] = 0 /\ \A m \in Nat : y[m + 1] = (base * y[m]) + Hex(t[m + 1])
  BY Reading!LoopRounds DEF NumberRound
<1>3. x[n] = Reading!Loop(p(s), 0, n) /\ y[n] = Reading!Loop(p(t), 0, n)
  OBVIOUS
<1> HIDE DEF x, y
<1>4. 0 \in Good
  BY <1>1, <1>2
<1>5. ASSUME NEW m \in Nat, m \in Good PROVE m + 1 \in Good
  <2> SUFFICES ASSUME m + 1 <= n PROVE x[m + 1] = y[m + 1]
    OBVIOUS
  <2>1. x[m] = y[m] /\ s[m + 1] = t[m + 1]
    BY <1>5
  <2> QED
    BY <1>1, <1>2, <2>1
<1>6. n \in Good
  <2> HIDE DEF Good
  <2> QED
    BY <1>4, <1>5, Reading!Induction
<1> QED
  BY <1>3, <1>6

\* What is read with one more digit.
LEMMA NumberNext ==
    ASSUME NEW S, NEW s \in Seq(S), NEW c \in S, NEW base
    PROVE  /\ Number(<<>>, base) = 0
           /\ Number(Append(s, c), base) = (base * Number(s, base)) + Hex(c)
<1> DEFINE t    == Append(s, c)
           p(u) == [digits |-> u, base |-> base]
<1>1. /\ Len(s) \in Nat /\ Len(t) = Len(s) + 1 /\ t[Len(s) + 1] = c
      /\ \A i \in 1..Len(s) : s[i] = t[i]
  BY AppendProperties, LenProperties
<1> HIDE DEF t
<1>2. Reading!Loop(p(s), 0, Len(s)) = Reading!Loop(p(t), 0, Len(s))
  BY <1>1, SameDigits
<1>3. Reading!Loop(p(t), 0, Len(s) + 1)
          = (base * Reading!Loop(p(t), 0, Len(s))) + Hex(t[Len(s) + 1])
  <2>1. \A n \in Nat :
            Reading!Loop(p(t), 0, n + 1) = NumberRound(p(t), Reading!Loop(p(t), 0, n), n + 1)
    BY Reading!LoopRounds
  <2>2. Reading!Loop(p(t), 0, Len(s) + 1)
            = NumberRound(p(t), Reading!Loop(p(t), 0, Len(s)), Len(s) + 1)
    BY <1>1, <2>1
  <2> QED
    BY <2>2 DEF NumberRound
<1>4. Number(<<>>, base) = 0
  BY Reading!LoopRounds DEF Number
<1>5. Number(t, base) = (base * Number(s, base)) + Hex(c)
  BY <1>1, <1>2, <1>3 DEF Number
<1> QED
  BY <1>4, <1>5 DEF t

\* The digits of a number in some base.
DigitsOf(base) == IF base = 10 THEN Zero..Nine ELSE (Zero..Nine) \cup (LowerA..LowerF)

\* A number is read as it was written, in both bases that the code writes, whatever
\* the number (from_i_to_hex, toString; strtoul, parseInt).
THEOREM NumbersRoundTrip ==
    ASSUME NEW base \in Bases
    PROVE  \A n \in Nat : /\ Digits(n, base) \in Seq(DigitsOf(base))
                          /\ Digits(n, base) # <<>>
                          /\ Number(Digits(n, base), base) = n
<1> DEFINE Right(n) == /\ Digits(n, base) \in Seq(DigitsOf(base))
                       /\ Digits(n, base) # <<>>
                       /\ Number(Digits(n, base), base) = n
           Bad == {n \in Nat : ~Right(n)}
<1> SUFFICES ASSUME Bad # {} PROVE FALSE
  OBVIOUS
<1>1. PICK n \in Bad : \A m \in Bad : n <= m
  <2>1. Bad \in SUBSET Nat
    OBVIOUS
  <2> HIDE DEF Bad
  <2> QED
    BY <2>1, Reading!Least
<1>2. n \in Nat /\ ~Right(n)
  BY <1>1
<1>3. ASSUME NEW d \in 0..(base - 1)
      PROVE  Hex(Digit(d, LowerA)) = d /\ Digit(d, LowerA) \in DigitsOf(base)
  <2>1. d \in 0..15
    BY DEF Bases
  <2>2. /\ Hex(Digit(d, LowerA)) = d
        /\ Digit(d, LowerA) \in (Zero..Nine) \cup (LowerA..(LowerA + 5))
        /\ d < 10 => Digit(d, LowerA) \in Zero..Nine
    BY <2>1, HexOfDigit
  <2>3. LowerA + 5 = LowerF
    BY DEF LowerA, LowerF
  <2> QED
    BY <2>2, <2>3 DEF DigitsOf, Bases
<1>4. CASE n < base
  <2> DEFINE c == Digit(n, LowerA)
  <2>1. Digits(n, base) = <<c>> /\ c \in DigitsOf(base) /\ Hex(c) = n
    BY <1>2, <1>3, <1>4, DigitsNext DEF Bases
  <2> HIDE DEF c
  <2>2. <<>> \in Seq(DigitsOf(base)) /\ Append(<<>>, c) = <<c>>
    BY <2>1
  <2>3. Number(<<c>>, base) = base * 0 + n
    BY <2>1, <2>2, NumberNext
  <2>4. Number(<<c>>, base) = n
    BY <1>2, <2>3 DEF Bases
  <2>5. <<c>> \in Seq(DigitsOf(base)) /\ <<c>> # <<>>
    BY <2>1
  <2> QED
    BY <1>2, <2>1, <2>4, <2>5
<1>5. CASE ~(n < base)
  <2> DEFINE m == n \div base
             c == Digit(n % base, LowerA)
             s == Digits(m, base)
  <2>1. m \in Nat /\ m < n /\ n % base \in 0..(base - 1) /\ n = base * m + (n % base)
    BY <1>2, <1>5, Division DEF Bases
  <2>2. m \notin Bad
    <3> HIDE DEF m, Bad
    <3> QED
      BY <1>1, <1>2, <2>1
  <2>3. s \in Seq(DigitsOf(base)) /\ Number(s, base) = m
    BY <2>1, <2>2
  <2>4. Digits(n, base) = Append(s, c)
    BY <1>2, <1>5, DigitsNext DEF Bases
  <2>5. c \in DigitsOf(base) /\ Hex(c) = n % base
    BY <1>3, <2>1
  <2> HIDE DEF m, c, s
  <2>6. Number(Append(s, c), base) = base * m + (n % base)
    BY <2>3, <2>5, NumberNext
  <2>7. Append(s, c) \in Seq(DigitsOf(base)) /\ Append(s, c) # <<>>
    BY <2>3, <2>5
  <2> QED
    BY <1>2, <2>1, <2>4, <2>6, <2>7
<1> QED
  BY <1>2, <1>4, <1>5

-----------------------------------------------------------------------------
(* Sequences.                                                              *)

\* u is s and one more element; u is s and then t.
IsAppend(u, s, e, S) ==
    /\ u \in Seq(S) /\ Len(u) = Len(s) + 1 /\ Len(s) \in Nat
    /\ \A i \in 1..Len(s) : u[i] = s[i]
    /\ u[Len(s) + 1] = e
IsConcat(u, s, t, S) ==
    /\ u \in Seq(S) /\ Len(u) = Len(s) + Len(t) /\ Len(s) \in Nat /\ Len(t) \in Nat
    /\ \A i \in 1..Len(s) : u[i] = s[i]
    /\ \A i \in 1..Len(t) : u[Len(s) + i] = t[i]
LEMMA AppendFacts ==
    ASSUME NEW S, NEW s \in Seq(S), NEW e \in S
    PROVE  IsAppend(Append(s, e), s, e, S)
  BY AppendProperties, LenProperties DEF IsAppend
LEMMA ConcatFacts ==
    ASSUME NEW S, NEW s \in Seq(S), NEW t \in Seq(S)
    PROVE  IsConcat(s \o t, s, t, S)
<1> DEFINE u == s \o t
<1>1. /\ u \in Seq(S)
      /\ Len(u) = Len(s) + Len(t)
      /\ \A i \in 1..(Len(s) + Len(t)) : u[i] = IF i <= Len(s) THEN s[i] ELSE t[i - Len(s)]
  BY ConcatProperties, Zenon
<1>2. Len(s) \in Nat /\ Len(t) \in Nat
  BY LenProperties
<1> HIDE DEF u
<1>3. ASSUME NEW i \in 1..Len(t) PROVE u[Len(s) + i] = t[i]
  <2>1. /\ Len(s) + i \in 1..(Len(s) + Len(t)) /\ ~(Len(s) + i <= Len(s))
        /\ (Len(s) + i) - Len(s) = i
    BY <1>2
  <2> QED
    BY <1>1, <2>1
<1>4. \A i \in 1..Len(s) : u[i] = s[i]
  BY <1>1, <1>2
<1>5. IsConcat(u, s, t, S)
  BY <1>1, <1>2, <1>3, <1>4, Zenon DEF IsConcat
<1> QED
  BY <1>5, Zenon DEF u



\* A sequence of one value.
LEMMA AllFacts ==
    ASSUME NEW S, NEW e \in S, NEW n \in Nat
    PROVE  All(n, e) \in Seq(S) /\ Len(All(n, e)) = n /\ \A i \in 1..n : All(n, e)[i] = e
  BY DEF All

-----------------------------------------------------------------------------
(* %uXXXX                                                                  *)

\* The numbers that more and more of the digits s write.
ReadingOf(s, base) == Reading!Rounds([digits |-> s, base |-> base], 0)

LEMMA ReadingNext ==
    ASSUME NEW s, NEW base
    PROVE  /\ ReadingOf(s, base)[0] = 0
           /\ \A m \in Nat : ReadingOf(s, base)[m + 1]
                                = (base * ReadingOf(s, base)[m]) + Hex(s[m + 1])
           /\ Len(s) \in Nat => Number(s, base) = ReadingOf(s, base)[Len(s)]
<1> DEFINE p == [digits |-> s, base |-> base]
           x == Reading!Rounds(p, 0)
<1>1. /\ x[0] = 0
      /\ \A m \in Nat : x[m + 1] = NumberRound(p, x[m], m + 1)
      /\ \A m \in Nat : x[m] = Reading!Loop(p, 0, m)
  BY Reading!RoundsNext, Zenon
<1>2. p.digits = s /\ p.base = base
  OBVIOUS
<1>3. Number(s, base) = Reading!Loop(p, 0, Len(s)) /\ ReadingOf(s, base) = x
  BY DEF Number, ReadingOf
<1> HIDE DEF p, x
<1>4. \A m \in Nat : x[m + 1] = (base * x[m]) + Hex(s[m + 1])
  BY <1>1, <1>2 DEF NumberRound
<1> QED
  BY <1>1, <1>3, <1>4, Zenon

\* Zeros in front of a number do not change it.
LEMMA LeadingZeros ==
    ASSUME NEW S, NEW s \in Seq(S), Zero \in S, NEW k \in Nat, NEW base \in Bases
    PROVE  Number(All(k, Zero) \o s, base) = Number(s, base)
<1> DEFINE t    == All(k, Zero) \o s
           x    == ReadingOf(t, base)
           y    == ReadingOf(s, base)
           Naught == {m \in Nat : m <= k => x[m] = 0}
           Good == {m \in Nat : m <= Len(s) => x[k + m] = y[m]}
<1>1. /\ Len(t) = k + Len(s) /\ Len(s) \in Nat
      /\ \A i \in 1..k : t[i] = Zero
      /\ \A i \in 1..Len(s) : t[k + i] = s[i]
  <2> DEFINE z == All(k, Zero)
  <2>1. z \in Seq(S) /\ Len(z) = k /\ \A i \in 1..k : z[i] = Zero
    BY AllFacts
  <2> HIDE DEF z
  <2> DEFINE u == z \o s
  <2>2. IsConcat(u, z, s, S)
    BY <2>1, ConcatFacts, Zenon
  <2> HIDE DEF u
  <2>3. /\ Len(u) = k + Len(s) /\ Len(s) \in Nat
        /\ \A i \in 1..k : u[i] = Zero
        /\ \A i \in 1..Len(s) : u[k + i] = s[i]
    BY <2>1, <2>2 DEF IsConcat
  <2> QED
    BY <2>3, Zenon DEF u, z
<1> HIDE DEF t
<1>2. x[0] = 0 /\ \A m \in Nat : x[m + 1] = (base * x[m]) + Hex(t[m + 1])
  BY ReadingNext
<1>3. y[0] = 0 /\ \A m \in Nat : y[m + 1] = (base * y[m]) + Hex(s[m + 1])
  BY ReadingNext
<1>4. Number(t, base) = x[k + Len(s)] /\ Number(s, base) = y[Len(s)]
  <2>1. Len(t) \in Nat /\ Len(s) \in Nat
    BY <1>1
  <2>2. Number(t, base) = x[Len(t)] /\ Number(s, base) = y[Len(s)]
    BY <2>1, ReadingNext, Zenon
  <2> QED
    BY <1>1, <2>2, Zenon
<1> HIDE DEF x, y
<1>5. x[k] = 0
  <2>1. 0 \in Naught
    BY <1>2
  <2>2. ASSUME NEW m \in Nat, m \in Naught PROVE m + 1 \in Naught
    <3> SUFFICES ASSUME m + 1 <= k PROVE x[m + 1] = 0
      OBVIOUS
    <3>1. x[m] = 0 /\ t[m + 1] = Zero
      BY <1>1, <2>2
    <3>2. Hex(Zero) = 0
      BY DEF Hex, Zero, Nine, UpperA, UpperF, LowerA, LowerF
    <3>3. x[m + 1] = (base * 0) + 0
      BY <1>2, <3>1, <3>2
    <3> QED
      BY <3>3 DEF Bases
  <2>3. k \in Naught
    <3> HIDE DEF Naught
    <3> QED
      BY <2>1, <2>2, Reading!Induction
  <2> QED
    BY <2>3
<1>6. 0 \in Good
  <2>1. k + 0 = k
    OBVIOUS
  <2>2. x[k + 0] = y[0]
    BY <1>3, <1>5, <2>1, Zenon
  <2> QED
    BY <2>2
<1>7. ASSUME NEW m \in Nat, m \in Good PROVE m + 1 \in Good
  <2> SUFFICES ASSUME m + 1 <= Len(s) PROVE x[k + (m + 1)] = y[m + 1]
    OBVIOUS
  <2>1. x[k + m] = y[m] /\ t[k + (m + 1)] = s[m + 1]
    BY <1>1, <1>7
  <2>2. k + m \in Nat /\ (k + m) + 1 = k + (m + 1)
    OBVIOUS
  <2>3. x[k + (m + 1)] = (base * x[k + m]) + Hex(t[k + (m + 1)])
    BY <1>2, <2>2
  <2> QED
    BY <1>3, <2>1, <2>3
<1>8. Len(s) \in Good
  <2> HIDE DEF Good
  <2> QED
    BY <1>1, <1>6, <1>7, Reading!Induction
<1> QED
  BY <1>1, <1>4, <1>8 DEF t

\* A code of 16 bits has four digits at most.
LEMMA AtMostFour ==
    ASSUME NEW code \in FourDigitCodes
    PROVE  Len(ToHex(code)) \in Nat /\ Len(ToHex(code)) <= 4
<1>1. ASSUME NEW n \in Nat
      PROVE  /\ n < 16 => Len(ToHex(n)) = 1
             /\ n >= 16 => Len(ToHex(n)) = Len(ToHex(n \div 16)) + 1
  <2> DEFINE q == n \div 16
             r == Digit(n % 16, LowerA)
  <2>0. 16 \in Bases
    BY DEF Bases
  <2>1. ToHex(n) = IF n < 16 THEN <<Digit(n, LowerA)>> ELSE Append(ToHex(q), r)
    BY <2>0, DigitsNext, Zenon DEF ToHex
  <2>3. q \in Nat
    OBVIOUS
  <2> HIDE DEF q, r
  <2>2. /\ n < 16 => ToHex(n) = <<Digit(n, LowerA)>>
        /\ n >= 16 => ToHex(n) = Append(ToHex(q), r)
    BY <2>1
  <2>4. ToHex(q) \in Seq(Nat \cup {r})
    <3>1. ToHex(q) \in Seq(DigitsOf(16))
      BY <2>3, NumbersRoundTrip DEF ToHex, Bases
    <3>2. DigitsOf(16) \subseteq Nat \cup {r}
      BY DEF DigitsOf, Zero, Nine, LowerA, LowerF
    <3> QED
      BY <3>1, <3>2, SeqMonotonic
  <2>5. Len(Append(ToHex(q), r)) = Len(ToHex(q)) + 1
    BY <2>4, AppendProperties
  <2>6. /\ n < 16 => Len(ToHex(n)) = 1
        /\ n >= 16 => Len(ToHex(n)) = Len(ToHex(q)) + 1
    BY <2>2, <2>5
  <2> QED
    BY <2>6 DEF q
<1> DEFINE L(n) == Len(ToHex(n))
           q1 == code \div 16
           q2 == q1 \div 16
           q3 == q2 \div 16
<1>2. code \in Nat /\ q1 \in Nat /\ q2 \in Nat /\ q3 \in Nat /\ q3 < 16
  BY DEF FourDigitCodes
<1>3. \A n \in Nat : (n < 16 => L(n) = 1) /\ (n >= 16 => L(n) = L(n \div 16) + 1)
  BY <1>1
<1> HIDE DEF L
<1>4. (code < 16 => L(code) = 1) /\ (code >= 16 => L(code) = L(q1) + 1)
  BY <1>2, <1>3
<1> HIDE DEF q1
<1>5. (q1 < 16 => L(q1) = 1) /\ (q1 >= 16 => L(q1) = L(q2) + 1)
  BY <1>2, <1>3
<1> HIDE DEF q2
<1>6. (q2 < 16 => L(q2) = 1) /\ (q2 >= 16 => L(q2) = L(q3) + 1) /\ L(q3) = 1
  BY <1>2, <1>3
<1> HIDE DEF q3
<1>7. L(code) \in Nat /\ L(code) <= 4
  BY <1>2, <1>4, <1>5, <1>6
<1> QED
  BY <1>7 DEF L

\* Up to four digits with zeros in front are four.
LEMMA FourDigits ==
    ASSUME NEW S, NEW h \in Seq(S), Zero \in S, Len(h) <= 4
    PROVE  /\ All(4 - Len(h), Zero) \o h \in Seq(S)
           /\ Len(All(4 - Len(h), Zero) \o h) = 4
<1> DEFINE z == All(4 - Len(h), Zero)
           u == z \o h
<1>1. Len(h) \in Nat /\ 4 - Len(h) \in Nat
  BY LenProperties
<1>2. z \in Seq(S) /\ Len(z) = 4 - Len(h)
  BY <1>1, AllFacts
<1> HIDE DEF z
<1>3. IsConcat(u, z, h, S)
  BY <1>2, ConcatFacts, Zenon
<1> HIDE DEF u
<1>4. u \in Seq(S) /\ Len(u) = Len(z) + Len(h)
  BY <1>3, Zenon DEF IsConcat
<1>5. Len(u) = 4
  BY <1>1, <1>2, <1>4
<1> QED
  BY <1>4, <1>5, Zenon DEF u, z

\* A code with zeros in front is four digits that are read as the code.
LEMMA FourOfCode ==
    ASSUME NEW code \in FourDigitCodes
    PROVE  LET four == All(4 - Len(ToHex(code)), Zero) \o ToHex(code)
           IN  /\ four \in Seq(DigitsOf(16)) /\ Len(four) = 4
               /\ HexNumber(four) = code
<1> DEFINE h == ToHex(code)
<1>1. h \in Seq(DigitsOf(16)) /\ Number(h, 16) = code
  BY NumbersRoundTrip DEF ToHex, Bases, FourDigitCodes
<1>2. Len(h) \in Nat /\ Len(h) <= 4
  BY AtMostFour
<1>3. Zero \in DigitsOf(16)
  BY DEF DigitsOf, Zero, Nine
<1>4. 16 \in Bases
  BY DEF Bases
<1> HIDE DEF h
<1>5. 4 - Len(h) \in Nat
  BY <1>2
<1>6. Number(All(4 - Len(h), Zero) \o h, 16) = Number(h, 16)
  BY <1>1, <1>3, <1>4, <1>5, LeadingZeros, Zenon
<1>7. /\ All(4 - Len(h), Zero) \o h \in Seq(DigitsOf(16))
      /\ Len(All(4 - Len(h), Zero) \o h) = 4
  BY <1>1, <1>2, <1>3, FourDigits, Zenon
<1> QED
  BY <1>1, <1>6, <1>7, Zenon DEF HexNumber, h

LEMMA HexDigits ==
    ASSUME NEW c \in DigitsOf(16) PROVE c \in Nat /\ Hex(c) \in 0..15 /\ Hex(c) # None
  BY DEF DigitsOf, Hex, None, Zero, Nine, UpperA, UpperF, LowerA, LowerF

\* A text that has been read to its end stays as it is.
LEMMA DecodedStays ==
    ASSUME NEW p, NEW a, NEW m \in Nat, NEW n \in Nat, m <= n,
           Decoding!Loop(p, a, m).at > Len(p.text)
    PROVE  Decoding!Loop(p, a, n) = Decoding!Loop(p, a, m)
<1> DEFINE x    == [i \in Nat |-> Decoding!Loop(p, a, i)]
           Good == {i \in Nat : i >= m => x[i] = x[m]}
<1>1. \A i \in Nat : x[i + 1] = DecodeRound(p, x[i], i + 1)
  BY Decoding!LoopRounds
<1>2. x[m] = Decoding!Loop(p, a, m) /\ x[n] = Decoding!Loop(p, a, n)
  OBVIOUS
<1> HIDE DEF x
<1>3. 0 \in Good
  OBVIOUS
<1>4. ASSUME NEW i \in Nat, i \in Good PROVE i + 1 \in Good
  <2> SUFFICES ASSUME i + 1 >= m, i + 1 # m PROVE x[i + 1] = x[m]
    OBVIOUS
  <2>1. x[i] = x[m] /\ x[i].at > Len(p.text)
    BY <1>2, <1>4
  <2>2. x[i + 1] = x[i]
    BY <1>1, <2>1 DEF DecodeRound
  <2> QED
    BY <2>1, <2>2
<1>5. n \in Good
  <2> HIDE DEF Good
  <2> QED
    BY <1>3, <1>4, Decoding!Induction
<1> QED
  BY <1>2, <1>5

\* Of a text that ends with s, that end.
LEMMA EndOfText ==
    ASSUME NEW S, NEW s \in Seq(S), NEW t, NEW k \in Nat,
           \A i \in 1..Len(s) : t[k + i] = s[i]
    PROVE  SubSeq(t, k + 1, k + Len(s)) = s
<1> DEFINE u == SubSeq(t, k + 1, k + Len(s))
<1>1. Len(s) \in Nat /\ \A i \in 1..Len(s) : s[i] \in S
  BY LenProperties, ElementOfSeq
<1>2. \A i \in (k + 1)..(k + Len(s)) : t[i] \in S /\ t[i] = s[i - k]
  <2> SUFFICES ASSUME NEW i \in (k + 1)..(k + Len(s)) PROVE t[i] \in S /\ t[i] = s[i - k]
    OBVIOUS
  <2>1. i - k \in 1..Len(s) /\ k + (i - k) = i
    BY <1>1
  <2> QED
    BY <1>1, <2>1
<1>3. /\ u \in Seq(S)
      /\ Len(u) = IF k + 1 <= k + Len(s) THEN (k + Len(s)) - (k + 1) + 1 ELSE 0
      /\ \A i \in 1..((k + Len(s)) - (k + 1) + 1) : u[i] = t[(k + 1) + i - 1]
  <2> DEFINE a == k + 1
             b == k + Len(s)
  <2>1. a \in Int /\ b \in Int /\ \A i \in a..b : t[i] \in S
    BY <1>1, <1>2
  <2> HIDE DEF a, b
  <2>2. /\ SubSeq(t, a, b) \in Seq(S)
        /\ Len(SubSeq(t, a, b)) = IF a <= b THEN b - a + 1 ELSE 0
        /\ \A i \in 1..(b - a + 1) : SubSeq(t, a, b)[i] = t[a + i - 1]
    BY <2>1, SubSeqProperties
  <2> QED
    BY <2>2 DEF a, b
<1> HIDE DEF u
<1>4. Len(u) = Len(s)
  BY <1>1, <1>3
<1>5. \A i \in 1..Len(u) : u[i] = s[i]
  <2> SUFFICES ASSUME NEW i \in 1..Len(u) PROVE u[i] = s[i]
    OBVIOUS
  <2>1. u[i] = t[(k + 1) + i - 1] /\ (k + 1) + i - 1 = k + i
    BY <1>1, <1>3, <1>4
  <2> QED
    BY <1>1, <1>4, <2>1
<1>6. u = s
  BY <1>3, <1>4, <1>5, SeqEqual
<1> QED
  BY <1>6 DEF u

\* What %u and four digits are decoded to.
LEMMA DecodeCode ==
    ASSUME NEW four \in Seq(DigitsOf(16)), Len(four) = 4, HexNumber(four) \in Nat,
           ToUtf8(HexNumber(four)) \in Seq(Nat)
    PROVE  DecodeUrl(<<Percent, LowerU>> \o four, FALSE) = ToUtf8(HexNumber(four))
<1> DEFINE s    == <<Percent, LowerU>> \o four
           code == HexNumber(four)
           p    == [text |-> s, plus |-> FALSE]
           x0   == [at |-> 1, out |-> <<>>]
           x1   == [at |-> 7, out |-> ToUtf8(code)]
<1>1. /\ Len(s) = 6 /\ s[1] = Percent /\ s[2] = LowerU
      /\ \A i \in 1..4 : s[2 + i] = four[i]
  <2> DEFINE h == <<Percent, LowerU>>
  <2>1. four \in Seq(Nat)
    <3>1. DigitsOf(16) \subseteq Nat
      BY HexDigits
    <3> QED
      BY <3>1, SeqMonotonic
  <2>2. h \in Seq(Nat) /\ Len(h) = 2 /\ h[1] = Percent /\ h[2] = LowerU
    BY DEF Percent, LowerU
  <2> HIDE DEF h
  <2> DEFINE u == h \o four
  <2>3. IsConcat(u, h, four, Nat)
    BY <2>1, <2>2, ConcatFacts, Zenon
  <2> HIDE DEF u
  <2>4. Len(u) = 6 /\ u[1] = Percent /\ u[2] = LowerU /\ \A i \in 1..4 : u[2 + i] = four[i]
    BY <2>2, <2>3 DEF IsConcat
  <2> QED
    BY <2>4, Zenon DEF u, h
<1> HIDE DEF s
<1>2. SubSeq(s, 3, 6) = four
  <2>1. SubSeq(s, 2 + 1, 2 + Len(four)) = four
    BY <1>1, EndOfText
  <2> QED
    BY <2>1
<1>0. code \in Nat
  OBVIOUS
<1> HIDE DEF code
<1>3. FromHex(s, 3, 4) = code /\ code # None
  <2>1. ASSUME NEW j \in 3..6 PROVE Hex(s[j]) # None
    <3>1. j - 2 \in 1..4 /\ 2 + (j - 2) = j
      OBVIOUS
    <3>2. s[j] = four[j - 2]
      BY <1>1, <3>1
    <3>3. four[j - 2] \in DigitsOf(16)
      BY <3>1, ElementOfSeq
    <3> QED
      BY <3>2, <3>3, HexDigits
  <2>2. 3 + 4 - 1 = 6 /\ 6 <= Len(s)
    BY <1>1
  <2>3. FromHex(s, 3, 4) = HexNumber(SubSeq(s, 3, 6))
    BY <2>1, <2>2 DEF FromHex
  <2>4. code # None
    BY <1>0 DEF None
  <2> QED
    BY <1>2, <2>3, <2>4, Zenon DEF code
<1>4. DecodeRound(p, x0, 1) = x1
  <2>1. p.text = s /\ x0.at = 1 /\ x0.out = <<>>
    OBVIOUS
  <2>2. <<>> \o ToUtf8(code) = ToUtf8(code)
    BY ConcatEmptySeq DEF code
  <2> HIDE DEF p, x0
  <2>3. /\ ~(x0.at > Len(s)) /\ s[x0.at] = Percent
        /\ x0.at < Len(s) /\ s[x0.at + 1] = LowerU
        /\ FromHex(s, x0.at + 2, 4) = code
    BY <1>1, <1>3, <2>1
  <2>4. DecodeRound(p, x0, 1) = [at |-> x0.at + 6, out |-> x0.out \o ToUtf8(code)]
    BY <1>3, <2>1, <2>3 DEF DecodeRound
  <2> QED
    BY <2>1, <2>2, <2>4
<1>5. Decoding!Loop(p, x0, 1) = x1
  <2>1. /\ Decoding!Loop(p, x0, 0) = x0
        /\ \A n \in Nat :
              Decoding!Loop(p, x0, n + 1) = DecodeRound(p, Decoding!Loop(p, x0, n), n + 1)
    BY Decoding!LoopRounds
  <2>2. Decoding!Loop(p, x0, 0 + 1) = DecodeRound(p, Decoding!Loop(p, x0, 0), 0 + 1)
    BY <2>1
  <2> HIDE DEF p, x0, x1
  <2> QED
    BY <1>4, <2>1, <2>2
<1>6. Decoding!Loop(p, x0, 6) = x1
  <2>1. Decoding!Loop(p, x0, 1).at > Len(p.text)
    <3>1. x1.at = 7 /\ p.text = s
      OBVIOUS
    <3> HIDE DEF x1, p, x0
    <3>2. 7 > Len(s)
      BY <1>1
    <3> QED
      BY <1>5, <3>1, <3>2, Zenon
  <2> HIDE DEF p, x0, x1
  <2>2. Decoding!Loop(p, x0, 6) = Decoding!Loop(p, x0, 1)
    BY <2>1, DecodedStays
  <2> QED
    BY <1>5, <2>2
<1>7. DecodeUrl(s, FALSE) = Decoding!Loop(p, x0, 6).out
  BY <1>1 DEF DecodeUrl
<1>8. DecodeUrl(s, FALSE) = ToUtf8(code)
  <2>1. x1.out = ToUtf8(code)
    OBVIOUS
  <2> HIDE DEF p, x0, x1
  <2> QED
    BY <1>6, <1>7, <2>1
<1> QED
  BY <1>8 DEF s, code

\* The code that one, two and three bytes stand for.
OfTwo(a, b) == (64 * (a - 192)) + (b - 128)
OfThree(a, b, c) == (64 * ((64 * (a - 224)) + (b - 128))) + (c - 128)

LEMMA CodeOfBytes ==
    /\ \A a : CodeOf(<<a>>) = a
    /\ \A a, b : CodeOf(<<a, b>>) = OfTwo(a, b)
    /\ \A a, b, c : CodeOf(<<a, b, c>>) = OfThree(a, b, c)
<1>1. ASSUME NEW s, NEW lead
      PROVE  /\ Coding!Loop(s, lead, 0) = lead
             /\ Coding!Loop(s, lead, 1) = (64 * lead) + (s[2] - 128)
             /\ Coding!Loop(s, lead, 2) = (64 * ((64 * lead) + (s[2] - 128))) + (s[3] - 128)
  <2> DEFINE x == [n \in Nat |-> Coding!Loop(s, lead, n)]
  <2>1. x[0] = lead /\ \A n \in Nat : x[n + 1] = (64 * x[n]) + (s[n + 2] - 128)
    <3>1. x[0] = lead /\ \A n \in Nat : x[n + 1] = (64 * x[n]) + (s[n + 1 + 1] - 128)
      BY Coding!LoopRounds DEF CodeRound
    <3> QED
      BY <3>1
  <2>2. /\ x[0] = Coding!Loop(s, lead, 0) /\ x[1] = Coding!Loop(s, lead, 1)
        /\ x[2] = Coding!Loop(s, lead, 2)
    OBVIOUS
  <2> HIDE DEF x
  <2>3. x[1] = (64 * lead) + (s[2] - 128)
    BY <2>1
  <2>4. x[2] = (64 * x[1]) + (s[3] - 128)
    BY <2>1
  <2> QED
    BY <2>1, <2>2, <2>3, <2>4
<1>2. ASSUME NEW a PROVE CodeOf(<<a>>) = a
  <2>1. Coding!Loop(<<a>>, a, 0) = a
    BY <1>1
  <2> QED
    BY <2>1 DEF CodeOf
<1>3. ASSUME NEW a, NEW b PROVE CodeOf(<<a, b>>) = OfTwo(a, b)
  <2>1. Coding!Loop(<<a, b>>, a - 192, 1) = (64 * (a - 192)) + (b - 128)
    BY <1>1
  <2> QED
    BY <2>1 DEF CodeOf, OfTwo
<1>4. ASSUME NEW a, NEW b, NEW c PROVE CodeOf(<<a, b, c>>) = OfThree(a, b, c)
  <2>1. Coding!Loop(<<a, b, c>>, a - 224, 2) = (64 * ((64 * (a - 224)) + (b - 128))) + (c - 128)
    BY <1>1
  <2> QED
    BY <2>1 DEF CodeOf, OfThree
<1> QED
  BY <1>2, <1>3, <1>4, Zenon

\* What to_utf8 writes for a code of up to four digits.
LEMMA Utf8OfCode ==
    ASSUME NEW code \in FourDigitCodes
    PROVE  /\ ToUtf8(code) \in Seq(Nat)
           /\ Half(code) => ToUtf8(code) = <<>>
           /\ ~Half(code) => IsShortest(ToUtf8(code), code)
<1>1. code \in Nat /\ code < 65536
  BY DEF FourDigitCodes
<1>2. ASSUME NEW u \in Seq(Nat), ToUtf8(code) = u,
             Half(code) => u = <<>>, ~Half(code) => IsShortest(u, code)
      PROVE  /\ ToUtf8(code) \in Seq(Nat)
             /\ Half(code) => ToUtf8(code) = <<>>
             /\ ~Half(code) => IsShortest(ToUtf8(code), code)
  BY <1>2, Zenon
<1>3. CASE code < 128
  <2>1. ToUtf8(code) = <<code>>
    BY <1>1, <1>3 DEF ToUtf8, Between, Half
  <2>2. CodeOf(<<code>>) = code
    BY CodeOfBytes, Zenon
  <2>3. IsShortest(<<code>>, code)
    BY <1>1, <1>3, <2>2 DEF Least, IsShortest, Between
  <2>4. <<code>> \in Seq(Nat) /\ ~Half(code)
    BY <1>1, <1>3 DEF Half, Between
  <2> QED
    BY <1>2, <2>1, <2>3, <2>4
<1>4. CASE Between(code, 128, 2048)
  <2> DEFINE a == 192 + (code \div 64)
             b == Tail6(code)
  <2>1. /\ a \in Nat /\ a >= 192 /\ b \in Nat /\ b >= 128 /\ b < 192
        /\ code = (64 * (a - 192)) + (b - 128)
    BY <1>1, <1>4 DEF Between, Tail6
  <2>2. ToUtf8(code) = <<a, b>>
    BY <1>1, <1>4 DEF ToUtf8, Between, Half
  <2> HIDE DEF a, b
  <2>3. CodeOf(<<a, b>>) = OfTwo(a, b)
    BY CodeOfBytes, Zenon
  <2>4. CodeOf(<<a, b>>) = code
    BY <2>1, <2>3 DEF OfTwo
  <2>5. IsShortest(<<a, b>>, code)
    <3>1. Least[2] <= code
      BY <1>1, <1>4 DEF Least, Between
    <3>2. ~Between(a, 128, 192) /\ Between(b, 128, 192)
      BY <2>1 DEF Between
    <3>3. Least[Len(<<a, b>>)] <= code
      BY <3>1
    <3>4. \A i \in DOMAIN <<a, b>> : Between(<<a, b>>[i], 128, 192) <=> i > 1
      BY <3>2
    <3> QED
      BY <2>4, <3>3, <3>4, Zenon DEF IsShortest
  <2>6. <<a, b>> \in Seq(Nat) /\ ~Half(code)
    BY <1>1, <1>4, <2>1 DEF Half, Between
  <2> QED
    BY <1>2, <2>2, <2>5, <2>6
<1>5. CASE Between(code, 2048, 55296) \/ Between(code, 57344, 65536)
  <2> DEFINE a == 224 + (code \div 4096)
             b == Tail6(code \div 64)
             c == Tail6(code)
  <2>1. /\ a \in Nat /\ a >= 224 /\ b \in Nat /\ b >= 128 /\ b < 192
        /\ c \in Nat /\ c >= 128 /\ c < 192
        /\ code = (64 * ((64 * (a - 224)) + (b - 128))) + (c - 128)
    <3> DEFINE q == code \div 64
               r == q \div 64
               s == code % 64
               z == q % 64
    <3>1. /\ q \in Nat /\ r \in Nat /\ s \in Nat /\ s < 64 /\ z \in Nat /\ z < 64
          /\ code = (64 * q) + s /\ q = (64 * r) + z
      BY <1>1
    <3>2. a = 224 + (code \div 4096) /\ b = 128 + z /\ c = 128 + s
      BY DEF Tail6
    <3> HIDE DEF q, r, s, z, a, b, c
    <3>3. code = (4096 * r) + ((64 * z) + s) /\ (64 * z) + s < 4096 /\ (64 * z) + s >= 0
      BY <3>1
    <3>4. code \div 4096 = r
      BY <1>1, <3>1, <3>3
    <3> QED
      BY <3>1, <3>2, <3>4
  <2>2. ToUtf8(code) = <<a, b, c>>
    BY <1>1, <1>5 DEF ToUtf8, Between, Half
  <2> HIDE DEF a, b, c
  <2>3. CodeOf(<<a, b, c>>) = OfThree(a, b, c)
    BY CodeOfBytes, Zenon
  <2>4. CodeOf(<<a, b, c>>) = code
    BY <2>1, <2>3 DEF OfThree
  <2>5. IsShortest(<<a, b, c>>, code)
    <3>1. Least[3] <= code
      BY <1>1, <1>5 DEF Least, Between
    <3>2. ~Between(a, 128, 192) /\ Between(b, 128, 192) /\ Between(c, 128, 192)
      BY <2>1 DEF Between
    <3>3. Least[Len(<<a, b, c>>)] <= code
      BY <3>1
    <3>4. \A i \in DOMAIN <<a, b, c>> : Between(<<a, b, c>>[i], 128, 192) <=> i > 1
      BY <3>2
    <3> QED
      BY <2>4, <3>3, <3>4, Zenon DEF IsShortest
  <2>6. <<a, b, c>> \in Seq(Nat) /\ ~Half(code)
    BY <1>1, <1>5, <2>1 DEF Half, Between
  <2> QED
    BY <1>2, <2>2, <2>5, <2>6
<1>6. CASE Half(code)
  <2>1. ToUtf8(code) = <<>> /\ <<>> \in Seq(Nat)
    BY <1>1, <1>6 DEF ToUtf8, Between, Half
  <2> QED
    BY <1>6, <2>1
<1> QED
  BY <1>1, <1>3, <1>4, <1>5, <1>6 DEF Between, Half

\* %uXXXX becomes the shortest UTF-8 that stands for XXXX, for every XXXX, and nothing
\* if that stands for no character by itself (decode_url, to_utf8).
THEOREM CodesAreDecoded == Spec => []UnicodeEscapes
<1>1. TypeOK => UnicodeEscapes
  <2>1. ASSUME NEW code \in FourDigitCodes
        PROVE  LET hex  == ToHex(code)
                   four == All(4 - Len(hex), Zero) \o hex
                   utf8 == DecodeUrl(<<Percent, LowerU>> \o four, FALSE)
               IN  IF Half(code) THEN utf8 = <<>>
                   ELSE IsShortest(utf8, code)
    <3> DEFINE four == All(4 - Len(ToHex(code)), Zero) \o ToHex(code)
    <3>1. four \in Seq(DigitsOf(16)) /\ Len(four) = 4 /\ HexNumber(four) = code
      BY FourOfCode
    <3> HIDE DEF four
    <3>2. /\ ToUtf8(code) \in Seq(Nat)
          /\ Half(code) => ToUtf8(code) = <<>>
          /\ ~Half(code) => IsShortest(ToUtf8(code), code)
      BY Utf8OfCode
    <3>3. DecodeUrl(<<Percent, LowerU>> \o four, FALSE) = ToUtf8(code)
      <4>1. code \in Nat
        BY DEF FourDigitCodes
      <4> QED
        BY <3>1, <3>2, <4>1, DecodeCode, Zenon
    <3> QED
      BY <3>2, <3>3, Zenon DEF four
  <2>2. ASSUME TypeOK, subject = "code", NEW code \in Range(text)
        PROVE  code \in FourDigitCodes
    <3>1. text \in Seq(Alphabet["code"])
      BY <2>2 DEF TypeOK
    <3>2. code \in Alphabet["code"]
      BY <3>1, <2>2, RangeOfSeq
    <3> QED
      BY <3>2, AlphabetAssumption DEF AlphabetAssumption
  <2> QED
    BY <2>1, <2>2, Zenon DEF UnicodeEscapes, About
<1> QED
  BY <1>1, AlgorithmsTypeCorrect, PTL


-----------------------------------------------------------------------------
(* Workloads.                                                              *)

LEMMA Remainder ==
    ASSUME NEW a \in Nat, NEW b \in Nat, b > 0
    PROVE  a % b \in Nat /\ a % b < b
  OBVIOUS

\* The sizes of the rightnow workload.
Sizes == {7, 13, 14, 21, 26}

LEMMA SizesOfRightNow ==
    /\ Len(RightNowSizes) = 5
    /\ \A i \in 1..5 : RightNowSizes[i] \in Sizes
    /\ Range(RightNowSizes) = Sizes
<1>1. /\ Len(RightNowSizes) = 5 /\ DOMAIN RightNowSizes = 1..5
      /\ RightNowSizes[1] = 7 /\ RightNowSizes[2] = 13 /\ RightNowSizes[3] = 14
      /\ RightNowSizes[4] = 21 /\ RightNowSizes[5] = 26
  BY DEF RightNowSizes
<1>2. \A i \in 1..5 : i = 1 \/ i = 2 \/ i = 3 \/ i = 4 \/ i = 5
  OBVIOUS
<1>3. \A i \in 1..5 : RightNowSizes[i] \in Sizes
  BY <1>1, <1>2 DEF Sizes
<1>4. Range(RightNowSizes) = {RightNowSizes[i] : i \in 1..5}
  BY <1>1 DEF Range
<1>5. {RightNowSizes[i] : i \in 1..5} = Sizes
  BY <1>1, <1>3 DEF Sizes
<1> QED
  BY <1>1, <1>3, <1>4, <1>5

\* The time of a rightnow job.
RightTime(s) == s \in Nat /\ 5000 <= s /\ s <= 36000

\* The jobs of the rightnow workload, whatever is drawn.
LEMMA RightNowJobs ==
    ASSUME NEW rand \in [1..300 -> Nat], NEW start \in Nat, NEW later \in Nat,
           start + later >= 5, start + later <= 152
    PROVE  LET jobs == RightNow(rand, start, later)
           IN  /\ DOMAIN jobs = 1..(start + later)
               /\ \A k \in DOMAIN jobs : jobs[k][1] \in Sizes /\ RightTime(jobs[k][2])
               /\ \A k \in 1..5 : jobs[k][1] = RightNowSizes[k]
<1> DEFINE jobs == RightNow(rand, start, later)
           n    == start + later
           time(r) == RandInt(r, 5000, 36000)
           d(i) == 5 + (2 * (i - 5))
<1>1. ASSUME NEW r \in Nat PROVE RightTime(time(r))
  BY DEF RandInt, RightTime
<1>2. /\ DOMAIN jobs = 1..n
      /\ \A i \in 1..n : jobs[i] =
            IF i <= 5 THEN <<RightNowSizes[i], time(rand[i])>>
            ELSE <<RightNowSizes[(rand[d(i) - 1] % 5) + 1], time(rand[d(i)])>>
  BY SizesOfRightNow DEF RightNow, Job
<1> HIDE DEF jobs, time
<1>3. ASSUME NEW i \in 1..n, i <= 5
      PROVE  /\ jobs[i][1] = RightNowSizes[i] /\ jobs[i][1] \in Sizes
             /\ RightTime(jobs[i][2])
  <2>1. jobs[i] = <<RightNowSizes[i], time(rand[i])>>
    BY <1>2, <1>3
  <2>2. i \in 1..5 /\ rand[i] \in Nat
    BY <1>3
  <2> QED
    BY <1>1, <2>1, <2>2, SizesOfRightNow
<1>4. ASSUME NEW i \in 1..n, ~(i <= 5)
      PROVE  jobs[i][1] \in Sizes /\ RightTime(jobs[i][2])
  <2>1. jobs[i] = <<RightNowSizes[(rand[d(i) - 1] % 5) + 1], time(rand[d(i)])>>
    BY <1>2, <1>4
  <2>2. d(i) \in 1..300 /\ d(i) - 1 \in 1..300
    BY <1>4
  <2> HIDE DEF d
  <2>3. rand[d(i)] \in Nat /\ rand[d(i) - 1] \in Nat
    BY <2>2
  <2>4. (rand[d(i) - 1] % 5) + 1 \in 1..5
    BY <2>3
  <2>5. RightNowSizes[(rand[d(i) - 1] % 5) + 1] \in Sizes
    BY <2>4, SizesOfRightNow
  <2> QED
    BY <1>1, <2>1, <2>3, <2>5
<1>5. \A k \in 1..5 : k \in 1..n /\ k <= 5
  OBVIOUS
<1> HIDE DEF n
<1>6. \A k \in 1..n : k <= 5 \/ ~(k <= 5)
  OBVIOUS
<1> QED
  BY <1>2, <1>3, <1>4, <1>5, <1>6, Zenon DEF jobs, n

\* However jobs of these sizes fill 32 nodes, four stay free.
LEMMA FourStayFree ==
    ASSUME NEW s \in Filling!Loop(Sizes, {0}, 32)
    PROVE  s <= 28
<1> DEFINE x    == Filling!Rounds(Sizes, {0})
           Sum  == {0, 7, 13, 14, 20, 21, 26, 27, 28}
           Good == {n \in Nat : n <= 32 => x[n] \subseteq Sum}
<1>1. /\ x[0] = {0} /\ x[32] = Filling!Loop(Sizes, {0}, 32)
      /\ \A n \in Nat : x[n + 1] = FillRound(Sizes, x[n], n + 1)
  BY Filling!RoundsNext
<1> HIDE DEF x
<1>2. 0 \in Good
  BY <1>1
<1>3. ASSUME NEW n \in Nat, n \in Good PROVE n + 1 \in Good
  <2> SUFFICES ASSUME n + 1 <= 32 PROVE x[n + 1] \subseteq Sum
    OBVIOUS
  <2>1. x[n] \subseteq Sum
    BY <1>3
  <2>2. ASSUME NEW z \in Sizes, (n + 1) - z \in x[n] PROVE n + 1 \in Sum
    <3>1. PICK r \in Sum : (n + 1) - z = r
      BY <2>1, <2>2
    <3>2. z \in Int /\ r \in Int
      BY DEF Sizes
    <3>3. n + 1 = r + z
      BY <3>1, <3>2
    <3> QED
      BY <3>3 DEF Sizes
  <2>3. x[n + 1] = IF \E z \in Sizes : (n + 1) - z \in x[n] THEN x[n] \cup {n + 1} ELSE x[n]
    <3>1. x[n + 1] = FillRound(Sizes, x[n], n + 1)
      BY <1>1
    <3> QED
      BY <3>1, Zenon DEF FillRound
  <2> HIDE DEF Sum
  <2>4. CASE \E z \in Sizes : (n + 1) - z \in x[n]
    <3>1. n + 1 \in Sum
      BY <2>2, <2>4
    <3>2. x[n + 1] = x[n] \cup {n + 1}
      BY <2>3, <2>4
    <3> QED
      BY <2>1, <3>1, <3>2
  <2>5. CASE ~\E z \in Sizes : (n + 1) - z \in x[n]
    BY <2>1, <2>3, <2>5
  <2> QED
    BY <2>4, <2>5
<1>4. 32 \in Good
  <2> HIDE DEF Good
  <2> QED
    BY <1>2, <1>3, Filling!Induction
<1> QED
  BY <1>1, <1>4

\* Whatever is drawn, the rightnow workload leaves 4 of the 32 nodes free.
LEMMA FourNodesAreLeft ==
    ASSUME TypeOK, subject = "rand", text # <<>>
    PROVE  FourNodesStayFree
<1> DEFINE jobs  == RightNow(Rand, 15, 5)
           sizes == [k \in DOMAIN jobs |-> jobs[k][1]]
<1>1. Rand \in [1..300 -> Nat]
  <2>1. text \in Seq(Nat)
    <3>1. text \in Seq(Alphabet["rand"])
      BY DEF TypeOK
    <3> QED
      BY <3>1, SeqMonotonic, AlphabetAssumption DEF AlphabetAssumption
  <2>2. Len(text) \in Nat /\ Len(text) > 0
    BY <2>1
  <2>3. ASSUME NEW i \in 1..300 PROVE text[((i - 1) % Len(text)) + 1] \in Nat
    <3> DEFINE j == (i - 1) % Len(text)
    <3>1. i - 1 \in Nat
      OBVIOUS
    <3>2. j \in Nat /\ j < Len(text)
      BY <2>2, <3>1, Remainder
    <3> HIDE DEF j
    <3>3. j + 1 \in 1..Len(text)
      BY <2>2, <3>2
    <3>4. text[j + 1] \in Nat
      BY <2>1, <3>3, ElementOfSeq
    <3> QED
      BY <3>4 DEF j
  <2> QED
    BY <2>3 DEF Rand
<1>2. /\ DOMAIN jobs = 1..20
      /\ \A k \in DOMAIN jobs : jobs[k][1] \in Sizes /\ RightTime(jobs[k][2])
      /\ \A k \in 1..5 : jobs[k][1] = RightNowSizes[k]
  <2>1. 15 \in Nat /\ 5 \in Nat /\ 15 + 5 >= 5 /\ 15 + 5 <= 152
    OBVIOUS
  <2>2. /\ DOMAIN jobs = 1..(15 + 5)
        /\ \A k \in DOMAIN jobs : jobs[k][1] \in Sizes /\ RightTime(jobs[k][2])
        /\ \A k \in 1..5 : jobs[k][1] = RightNowSizes[k]
    BY <1>1, <2>1, RightNowJobs
  <2> HIDE DEF jobs
  <2> QED
    BY <2>2
<1> HIDE DEF jobs
<1>3. Range(sizes) = Sizes
  <2>1. Range(sizes) = {jobs[k][1] : k \in DOMAIN jobs}
    BY DEF Range
  <2>2. Sizes = {RightNowSizes[k] : k \in 1..5}
    <3>1. DOMAIN RightNowSizes = 1..5
      BY DEF RightNowSizes
    <3> QED
      BY <3>1, SizesOfRightNow DEF Range
  <2>3. \A k \in 1..5 : k \in DOMAIN jobs
    BY <1>2
  <2> QED
    BY <1>2, <2>1, <2>2, <2>3
<1> HIDE DEF sizes
<1>4. LeavesSpace(sizes, 32, 4)
  <2>1. \A s \in Filling!Loop(Sizes, {0}, 32) : s <= 32 - 4
    BY FourStayFree
  <2> QED
    BY <1>3, <2>1, Zenon DEF LeavesSpace, Sums
<1>5. ASSUME NEW k \in DOMAIN jobs PROVE Between(PilotJob(jobs[k]).t, 83, 601)
  <2> DEFINE s == jobs[k][2]
  <2>0. RightTime(s)
    BY <1>2, Zenon
  <2>1. s \in Nat /\ 5000 <= s /\ s <= 36000
    BY <2>0 DEF RightTime
  <2> HIDE DEF s
  <2>2. 83 <= s \div 60 /\ s \div 60 < 601
    BY <2>1
  <2> QED
    BY <2>2 DEF s, PilotJob, Between
<1> QED
  BY <1>3, <1>4, <1>5, SizesOfRightNow, Zenon DEF FourNodesStayFree, jobs, sizes

\* On n nodes, the background jobs of a simulation that starts fit the cluster.
LEMMA JobsFitNodes ==
    ASSUME NEW n \in Nat, n >= 1
    PROVE  JobsFit(n)
<1> DEFINE rand    == [i \in 1..300 |-> i]
           Fits(j) == \A k \in DOMAIN j : /\ PilotJob(j[k]).N \in 1..Cardinality(PlatformNodes(n))
                                          /\ PilotJob(j[k]).t > 0
<1>1. BatchNodes(n) = PlatformNodes(n)
  BY DEF BatchNodes, PlatformNodes
<1>2. Cardinality(PlatformNodes(n)) = n
  <2>1. Cardinality(0..(n - 1)) = IF 0 > n - 1 THEN 0 ELSE (n - 1) - 0 + 1
    BY FS_Interval
  <2> QED
    BY <2>1 DEF PlatformNodes
<1>3. Fits(<<>>)
  OBVIOUS
<1>4. ASSUME n = 32 PROVE Fits(RightNow(rand, 15, 100))
  <2> DEFINE jobs == RightNow(rand, 15, 100)
  <2>1. rand \in [1..300 -> Nat]
    OBVIOUS
  <2>2. 15 \in Nat /\ 100 \in Nat /\ 15 + 100 >= 5 /\ 15 + 100 <= 152
    OBVIOUS
  <2> HIDE DEF rand
  <2>3. \A k \in DOMAIN jobs : jobs[k][1] \in Sizes /\ RightTime(jobs[k][2])
    BY <2>1, <2>2, RightNowJobs
  <2> HIDE DEF jobs
  <2>4. ASSUME NEW k \in DOMAIN jobs
        PROVE  PilotJob(jobs[k]).N \in 1..32 /\ PilotJob(jobs[k]).t > 0
    <3> DEFINE a == jobs[k][1]
               b == jobs[k][2]
    <3>1. a \in Sizes /\ RightTime(b)
      BY <2>3, Zenon
    <3> HIDE DEF a, b
    <3>2. a \in 1..32 /\ b \div 60 > 0
      BY <3>1 DEF Sizes, RightTime
    <3> QED
      BY <3>2 DEF PilotJob, a, b
  <2> QED
    BY <1>2, <1>4, <2>4 DEF jobs
<1>5. ASSUME n = 32 PROVE Fits(BackfillingWorkload)
  <2>1. /\ DOMAIN BackfillingWorkload = 1..4
        /\ BackfillingWorkload[1] = <<16, 36100>> /\ BackfillingWorkload[2] = <<16, 21520>>
        /\ BackfillingWorkload[3] = <<32, 28824>> /\ BackfillingWorkload[4] = <<16, 180423>>
    BY DEF BackfillingWorkload, Hour
  <2>2. \A k \in 1..4 : k = 1 \/ k = 2 \/ k = 3 \/ k = 4
    OBVIOUS
  <2> QED
    BY <1>2, <1>5, <2>1, <2>2 DEF PilotJob
<1>6. ASSUME n = 32 PROVE Fits(ChoicesWorkload)
  <2>1. /\ DOMAIN ChoicesWorkload = 1..3
        /\ ChoicesWorkload[1] = <<31, 36000>> /\ ChoicesWorkload[2] = <<30, 1800>>
        /\ ChoicesWorkload[3] = <<28, 28800>>
    BY DEF ChoicesWorkload, Hour
  <2>2. \A k \in 1..3 : k = 1 \/ k = 2 \/ k = 3
    OBVIOUS
  <2> QED
    BY <1>2, <1>6, <2>1, <2>2 DEF PilotJob
<1> HIDE DEF Fits, rand
<1>7. ASSUME NEW scheme
      PROVE  \/ Workloads(scheme, n, rand) = Ends
             \/ Workloads(scheme, n, rand) = <<>>
             \/ n = 32 /\ Workloads(scheme, n, rand) \in {RightNow(rand, 15, 100),
                                                BackfillingWorkload, ChoicesWorkload}
  BY DEF Workloads
<1>8. ASSUME NEW scheme, Workloads(scheme, n, rand) # Ends PROVE Fits(Workloads(scheme, n, rand))
  BY <1>3, <1>4, <1>5, <1>6, <1>7, <1>8
<1> QED
  BY <1>1, <1>8, Zenon DEF JobsFit, Fits, rand

\* The background jobs of a simulation that starts fit the cluster, and those of the
\* scheme that promises room leave it, whatever is drawn and however large the cluster
\* is (createTraceFile).
THEOREM WorkloadsFit == Spec => []WorkloadFits
<1>1. TypeOK => WorkloadFits
  <2>1. ASSUME TypeOK, subject = "rand", text # <<>> PROVE FourNodesStayFree
    BY <2>1, FourNodesAreLeft
  <2>2. ASSUME TypeOK, subject = "nodes", NEW n \in Range(text) PROVE JobsFit(n)
    <3>1. text \in Seq(Alphabet["nodes"])
      BY <2>2 DEF TypeOK
    <3>2. n \in Alphabet["nodes"]
      BY <3>1, <2>2, RangeOfSeq
    <3>3. n \in Nat /\ n >= 1
      BY <3>2, AlphabetAssumption DEF AlphabetAssumption
    <3> QED
      BY <3>3, JobsFitNodes
  <2> QED
    BY <2>1, <2>2, Zenon DEF WorkloadFits, About
<1> QED
  BY <1>1, AlgorithmsTypeCorrect, PTL

-----------------------------------------------------------------------------
(* Bodies in chunks.                                                       *)

\* A text and another one after it, taken apart again.
LEMMA TakenApart ==
    ASSUME NEW S, NEW s \in Seq(S), NEW t \in Seq(S)
    PROVE  /\ SubSeq(s \o t, 1, Len(s)) = s
           /\ From(s \o t, Len(s) + 1) = t
<1> DEFINE u == s \o t
<1>1. IsConcat(u, s, t, S)
  BY ConcatFacts, Zenon
<1> HIDE DEF u
<1>2. /\ Len(u) = Len(s) + Len(t) /\ Len(s) \in Nat /\ Len(t) \in Nat
      /\ \A i \in 1..Len(s) : u[0 + i] = s[i]
      /\ \A i \in 1..Len(t) : u[Len(s) + i] = t[i]
  <2>1. /\ Len(u) = Len(s) + Len(t) /\ Len(s) \in Nat /\ Len(t) \in Nat
        /\ \A i \in 1..Len(s) : u[i] = s[i]
        /\ \A i \in 1..Len(t) : u[Len(s) + i] = t[i]
    BY <1>1, Zenon DEF IsConcat
  <2>2. \A i \in 1..Len(s) : 0 + i = i
    BY <2>1
  <2> QED
    BY <2>1, <2>2, Zenon
<1>3. SubSeq(u, 0 + 1, 0 + Len(s)) = s
  BY <1>2, EndOfText
<1>4. SubSeq(u, Len(s) + 1, Len(s) + Len(t)) = t
  BY <1>2, EndOfText
<1>5. SubSeq(u, 1, Len(s)) = s /\ From(u, Len(s) + 1) = t
  BY <1>2, <1>3, <1>4 DEF From
<1> QED
  BY <1>5, Zenon DEF u

\* The place of a character is the first that holds it.
LEMMA FindOne ==
    ASSUME NEW S, NEW s \in Seq(S), NEW c \in S, NEW i \in 1..Len(s),
           s[i] = c, \A j \in 1..(i - 1) : s[j] # c
    PROVE  Find(s, <<c>>) = i
<1> DEFINE at == {k \in 1..(Len(s) - Len(<<c>>) + 1) : SubSeq(s, k, k + Len(<<c>>) - 1) = <<c>>}
<1>1. Len(s) \in Nat /\ Len(<<c>>) = 1 /\ (Len(s) - 1) + 1 = Len(s)
  BY LenProperties
<1>2. ASSUME NEW k \in 1..Len(s) PROVE SubSeq(s, k, k + 1 - 1) = <<s[k]>>
  <2> DEFINE u == SubSeq(s, k, k)
  <2>1. k \in Int /\ k + 1 - 1 = k /\ \A j \in k..k : s[j] \in S
    BY <1>1, ElementOfSeq
  <2>2. u \in Seq(S) /\ Len(u) = (k - k) + 1 /\ \A j \in 1..((k - k) + 1) : u[j] = s[(k + j) - 1]
    BY <2>1, SubSeqProperties
  <2> HIDE DEF u
  <2>3. Len(u) = 1 /\ u[1] = s[k]
    BY <2>1, <2>2
  <2>4. <<s[k]>> \in Seq(S) /\ Len(<<s[k]>>) = 1 /\ <<s[k]>>[1] = s[k]
    BY <2>1
  <2>5. u = <<s[k]>>
    BY <2>2, <2>3, <2>4, SeqEqual
  <2> QED
    BY <2>1, <2>5 DEF u
<1>3. \A k : k \in at <=> k \in 1..Len(s) /\ s[k] = c
  <2>1. ASSUME NEW k PROVE k \in at <=> k \in 1..Len(s) /\ SubSeq(s, k, k + 1 - 1) = <<c>>
    BY <1>1
  <2>2. ASSUME NEW k \in 1..Len(s) PROVE <<s[k]>> = <<c>> <=> s[k] = c
    OBVIOUS
  <2> HIDE DEF at
  <2> QED
    BY <1>2, <2>1, <2>2
<1>4. Find(s, <<c>>) = IF at = {} THEN 0 ELSE CHOOSE k \in at : \A j \in at : k <= j
  BY Zenon DEF Find
<1> HIDE DEF at
<1>5. i \in at /\ \A j \in at : i <= j
  <2>1. i \in at
    BY <1>3
  <2>2. ASSUME NEW j \in at PROVE i <= j
    <3>1. j \in 1..Len(s) /\ s[j] = c
      BY <1>3
    <3>2. ~(j \in 1..(i - 1))
      BY <3>1
    <3> QED
      BY <1>1, <3>1, <3>2
  <2> QED
    BY <2>1, <2>2
<1>6. \A k \in at : (\A j \in at : k <= j) => k = i
  BY <1>1, <1>3, <1>5
<1>7. (CHOOSE k \in at : \A j \in at : k <= j) = i
  BY <1>5, <1>6
<1> QED
  BY <1>4, <1>5, <1>7

\* The line at the head of a text that holds one end of a line, or more.
LEMMA LineAtHead ==
    ASSUME NEW h \in Seq(Nat), \A i \in 1..Len(h) : h[i] # LF, NEW t \in Seq(Nat)
    PROVE  LineOf((h \o CRLF) \o t) = h \o CRLF
<1> DEFINE g == h \o CRLF
           u == g \o t
<1>0. CRLF \in Seq(Nat) /\ Len(CRLF) = 2 /\ CRLF[1] = CR /\ CRLF[2] = LF /\ CR # LF /\ LF \in Nat
  BY DEF CRLF, CR, LF
<1>1. IsConcat(g, h, CRLF, Nat)
  BY <1>0, ConcatFacts, Zenon
<1> HIDE DEF g
<1>2. /\ g \in Seq(Nat) /\ Len(g) = Len(h) + 2 /\ Len(h) \in Nat
      /\ \A i \in 1..Len(h) : g[i] = h[i]
      /\ g[Len(h) + 1] = CR /\ g[Len(h) + 2] = LF
  BY <1>0, <1>1 DEF IsConcat
<1>3. IsConcat(u, g, t, Nat)
  BY <1>2, ConcatFacts, Zenon
<1>9. SubSeq(u, 1, Len(g)) = g
  BY <1>2, TakenApart
<1> HIDE DEF u
<1>4. /\ u \in Seq(Nat) /\ Len(u) = Len(g) + Len(t) /\ Len(t) \in Nat
      /\ \A i \in 1..Len(g) : u[i] = g[i]
  BY <1>3 DEF IsConcat
<1>5. /\ Len(g) \in 1..Len(u) /\ u[Len(g)] = LF
      /\ \A j \in 1..(Len(g) - 1) : u[j] # LF
  <2>1. Len(g) \in 1..Len(g) /\ Len(g) \in 1..Len(u)
    BY <1>2, <1>4
  <2>2. u[Len(g)] = LF
    BY <1>2, <1>4, <2>1
  <2>3. ASSUME NEW j \in 1..(Len(g) - 1) PROVE u[j] # LF
    <3>1. j \in 1..Len(g) /\ u[j] = g[j]
      BY <1>2, <1>4
    <3>2. CASE j = Len(h) + 1
      BY <1>0, <1>2, <3>1, <3>2
    <3>3. CASE j # Len(h) + 1
      <4>1. j \in 1..Len(h)
        BY <1>2, <3>3
      <4> QED
        BY <1>2, <3>1, <4>1
    <3> QED
      BY <3>2, <3>3
  <2> QED
    BY <2>1, <2>2, <2>3
<1>6. Find(u, <<LF>>) = Len(g)
  BY <1>0, <1>4, <1>5, FindOne
<1>10. Len(g) # 0
  BY <1>2
<1>7. LineOf(u) = g
  BY <1>6, <1>9, <1>10, Zenon DEF LineOf
<1> QED
  BY <1>7, Zenon DEF u, g

\* The digits at the head of such a line.
LEMMA DigitsAtHead ==
    ASSUME NEW h \in Seq(Nat), \A i \in 1..Len(h) : Hex(h[i]) # None
    PROVE  HexPrefix(h \o CRLF) = h
<1> DEFINE g == h \o CRLF
           I == {i \in 1..Len(g) : Hex(g[i]) = None}
<1>0. CRLF \in Seq(Nat) /\ Len(CRLF) = 2 /\ CRLF[1] = CR /\ Hex(CR) = None
  BY DEF CRLF, CR, LF, Hex, None, Zero, Nine, UpperA, UpperF, LowerA, LowerF
<1>1. IsConcat(g, h, CRLF, Nat)
  BY <1>0, ConcatFacts, Zenon
<1>2. SubSeq(g, 1, Len(h)) = h
  BY <1>0, TakenApart
<1>3. SelectInSeq(g, LAMBDA c : Hex(c) = None) = IF I # {} THEN Min(I) ELSE 0
  BY DEF SelectInSeq
<1>4. HexPrefix(g) = IF SelectInSeq(g, LAMBDA c : Hex(c) = None) = 0 THEN g
                     ELSE SubSeq(g, 1, SelectInSeq(g, LAMBDA c : Hex(c) = None) - 1)
  BY DEF HexPrefix
<1> DEFINE n == SelectInSeq(g, LAMBDA c : Hex(c) = None)
<1>5. n = (IF I # {} THEN Min(I) ELSE 0) /\ HexPrefix(g) = IF n = 0 THEN g ELSE SubSeq(g, 1, n - 1)
  BY <1>3, <1>4, Zenon
<1>6. \A i : i \in I <=> i \in 1..Len(g) /\ Hex(g[i]) = None
  OBVIOUS
<1> HIDE DEF n, I, g
<1>7. /\ Len(g) = Len(h) + 2 /\ Len(h) \in Nat
      /\ \A i \in 1..Len(h) : g[i] = h[i]
      /\ g[Len(h) + 1] = CR
  BY <1>0, <1>1 DEF IsConcat
<1>8. Len(h) + 1 \in I /\ \A i \in I : i \in Nat /\ Len(h) + 1 <= i
  <2>1. Len(h) + 1 \in I
    BY <1>0, <1>6, <1>7
  <2>2. ASSUME NEW i \in I PROVE i \in Nat /\ Len(h) + 1 <= i
    <3>1. i \in 1..Len(g) /\ Hex(g[i]) = None
      BY <1>6
    <3>2. ~(i \in 1..Len(h))
      BY <1>7, <3>1
    <3> QED
      BY <1>7, <3>1, <3>2
  <2> QED
    BY <2>1, <2>2
<1>9. Min(I) = Len(h) + 1
  <2>1. \A i \in I : (\A j \in I : i =< j) => i = Len(h) + 1
    BY <1>7, <1>8
  <2> QED
    BY <1>8, <2>1 DEF Min
<1>10. n = Len(h) + 1 /\ n # 0 /\ n - 1 = Len(h)
  BY <1>5, <1>7, <1>8, <1>9
<1>11. HexPrefix(g) = h
  BY <1>2, <1>5, <1>10
<1> QED
  BY <1>11, Zenon DEF g

\* What the loop of read_content_chunked makes of one chunk that stands at the head of
\* what the connection holds, and of the marker at the end of a body.
Chunk(p) == ToHex(Len(p)) \o CRLF \o p \o CRLF
Marker == <<Zero>> \o CRLF \o CRLF

\* What ToHex writes.
LEMMA HexText ==
    ASSUME NEW n \in Nat
    PROVE  /\ ToHex(n) \in Seq(Nat) /\ Len(ToHex(n)) > 0 /\ HexNumber(ToHex(n)) = n
           /\ \A i \in 1..Len(ToHex(n)) : ToHex(n)[i] # LF /\ Hex(ToHex(n)[i]) # None
<1> DEFINE h == ToHex(n)
<1>1. h \in Seq(DigitsOf(16)) /\ Len(h) > 0 /\ HexNumber(h) = n
  BY NumbersRoundTrip DEF ToHex, HexNumber, Bases
<1>2. \A c \in DigitsOf(16) : c \in Nat /\ c # LF /\ Hex(c) # None
  <2>1. \A c \in DigitsOf(16) : c # LF
    BY DEF DigitsOf, LF, Zero, Nine, LowerA, LowerF
  <2> QED
    BY <2>1, HexDigits
<1> HIDE DEF h
<1>3. h \in Seq(Nat)
  <2>1. DigitsOf(16) \subseteq Nat
    BY <1>2
  <2> QED
    BY <1>1, <2>1, SeqMonotonic
<1>4. \A i \in 1..Len(h) : h[i] # LF /\ Hex(h[i]) # None
  BY <1>1, <1>2, ElementOfSeq
<1> QED
  BY <1>1, <1>3, <1>4 DEF h

LEMMA ChunkApart ==
    ASSUME NEW p \in Seq(Nat), NEW r \in Seq(Nat)
    PROVE  /\ Chunk(p) \in Seq(Nat) /\ Len(Chunk(p)) > 0
           /\ Chunk(p) \o r = (ToHex(Len(p)) \o CRLF) \o (p \o (CRLF \o r))
<1> DEFINE h == ToHex(Len(p))
           g == h \o CRLF
           u == g \o p
<1>1. h \in Seq(Nat) /\ CRLF \in Seq(Nat) /\ Len(CRLF) = 2
  <2>1. Len(p) \in Nat
    BY LenProperties
  <2> QED
    BY <2>1, HexText DEF CRLF, CR, LF
<1> HIDE DEF h
<1>2. g \in Seq(Nat)
  BY <1>1, ConcatProperties
<1>3. u \in Seq(Nat) /\ CRLF \o r \in Seq(Nat)
  <2> HIDE DEF g
  <2> QED
    BY <1>1, <1>2, ConcatProperties
<1>4. IsConcat(u \o CRLF, u, CRLF, Nat)
  <2> HIDE DEF u
  <2> QED
    BY <1>1, <1>3, ConcatFacts, Zenon
<1>5. u \o CRLF \in Seq(Nat) /\ Len(u \o CRLF) > 0
  <2> HIDE DEF u
  <2> QED
    BY <1>1, <1>4 DEF IsConcat
<1>6. (u \o CRLF) \o r = u \o (CRLF \o r)
  <2> HIDE DEF u
  <2> QED
    BY <1>1, <1>3, ConcatAssociative
<1>7. u \o (CRLF \o r) = g \o (p \o (CRLF \o r))
  <2> DEFINE e == CRLF \o r
  <2>1. e \in Seq(Nat)
    BY <1>3
  <2> HIDE DEF g, e
  <2>2. (g \o p) \o e = g \o (p \o e)
    BY <1>2, <2>1, ConcatAssociative
  <2> QED
    BY <2>2 DEF e
<1>8. Chunk(p) = u \o CRLF
  BY DEF Chunk, h
<1> QED
  BY <1>5, <1>6, <1>7, <1>8, Zenon DEF h

\* What was got of a body.
LEMMA GotFields ==
    /\ \A b, r : Got(TRUE, b, r).more /\ Got(TRUE, b, r).body = b /\ Got(TRUE, b, r).rest = r
    /\ \A b, r : /\ ~Got(FALSE, b, r).more /\ Got(FALSE, b, r).ok = TRUE
                 /\ Got(FALSE, b, r).body = b /\ Got(FALSE, b, r).rest = r
  BY Zenon DEF Got

\* CRLF and what follows it.
LEMMA AfterCRLF ==
    ASSUME NEW r \in Seq(Nat)
    PROVE  /\ CRLF \in Seq(Nat) /\ Len(CRLF) = 2 /\ CRLF \o r \in Seq(Nat) /\ CRLF \o r # <<>>
           /\ LineOf(CRLF \o r) = CRLF /\ From(CRLF \o r, 3) = r
<1>0. CRLF \in Seq(Nat) /\ Len(CRLF) = 2
  BY DEF CRLF, CR, LF
<1>1. LineOf((<<>> \o CRLF) \o r) = <<>> \o CRLF
  <2>1. <<>> \in Seq(Nat) /\ \A i \in 1..Len(<<>>) : <<>>[i] # LF
    BY EmptySeq
  <2> QED
    BY <2>1, LineAtHead, Zenon
<1>2. <<>> \o CRLF = CRLF
  BY <1>0, ConcatEmptySeq
<1>3. From(CRLF \o r, Len(CRLF) + 1) = r
  BY <1>0, TakenApart, Zenon
<1>4. Len(CRLF) + 1 = 3
  BY <1>0
<1> DEFINE u == CRLF \o r
<1>5. IsConcat(u, CRLF, r, Nat)
  BY <1>0, ConcatFacts, Zenon
<1> HIDE DEF u
<1>6. u \in Seq(Nat) /\ u # <<>>
  <2>1. u \in Seq(Nat) /\ Len(u) = 2 + Len(r) /\ Len(r) \in Nat
    BY <1>0, <1>5 DEF IsConcat
  <2>2. u # <<>>
    BY <2>1
  <2> QED
    BY <2>1, <2>2
<1> QED
  BY <1>0, <1>1, <1>2, <1>3, <1>4, <1>6, Zenon DEF u

LEMMA RoundOfChunk ==
    ASSUME NEW p \in Seq(Nat), p # <<>>, NEW r \in Seq(Nat), NEW b \in Seq(Nat), NEW q, NEW n
    PROVE  ChunkRound(q, Got(TRUE, b, Chunk(p) \o r), n) = Got(TRUE, b \o p, r)
<1> DEFINE m     == Len(p)
           h     == ToHex(m)
           line  == h \o CRLF
           after == CRLF \o r
           rest  == p \o after
           x     == Got(TRUE, b, Chunk(p) \o r)
<1>0. CRLF \in Seq(Nat) /\ m \in Nat /\ m > 0
  BY EmptySeq DEF CRLF, CR, LF
<1>1. /\ h \in Seq(Nat) /\ h # <<>> /\ HexNumber(h) = m
      /\ \A i \in 1..Len(h) : h[i] # LF /\ Hex(h[i]) # None
  <2>1. /\ h \in Seq(Nat) /\ Len(h) > 0 /\ HexNumber(h) = m
        /\ \A i \in 1..Len(h) : h[i] # LF /\ Hex(h[i]) # None
    <3> HIDE DEF m
    <3> QED
      BY <1>0, HexText, Zenon
  <2> HIDE DEF h
  <2>2. h # <<>>
    BY <2>1
  <2> QED
    BY <2>1, <2>2
<1>2. x.more /\ x.rest = line \o rest /\ x.body = b
  <2>1. Chunk(p) \o r = (ToHex(Len(p)) \o CRLF) \o (p \o (CRLF \o r))
    BY ChunkApart
  <2>2. x.more /\ x.rest = Chunk(p) \o r /\ x.body = b
    BY GotFields, Zenon
  <2> QED
    BY <2>1, <2>2, Zenon
<1>3. after \in Seq(Nat) /\ line \in Seq(Nat)
  <2> HIDE DEF h
  <2> QED
    BY <1>0, <1>1, ConcatProperties
<1>4. rest \in Seq(Nat) /\ Len(rest) = m + Len(after) /\ Len(after) \in Nat
  <2> HIDE DEF after
  <2> QED
    BY <1>3, ConcatProperties
<1>5. LineOf(line \o rest) = line /\ HexPrefix(line) = h
  <2> HIDE DEF rest, h
  <2> QED
    BY <1>1, <1>4, LineAtHead, DigitsAtHead
<1>6. From(line \o rest, Len(line) + 1) = rest
  <2> HIDE DEF rest, line
  <2> QED
    BY <1>3, <1>4, TakenApart
<1>7. SubSeq(rest, 1, m) = p /\ From(rest, m + 1) = after
  <2> HIDE DEF after
  <2> QED
    BY <1>3, TakenApart
<1>8. LineOf(after) = CRLF /\ From(after, 3) = r /\ after # <<>>
  BY AfterCRLF, Zenon
<1> HIDE DEF x, line, h, after, rest, m
<1>10. ~(Len(rest) < m) /\ m # 0
  BY <1>0, <1>4
<1>11. /\ LineOf(x.rest) = line /\ From(x.rest, Len(line) + 1) = rest
       /\ HexPrefix(line) = h /\ HexNumber(h) = m
  BY <1>1, <1>2, <1>5, <1>6, Zenon
<1>12. ChunkRound(q, x, n) = Got(TRUE, x.body \o SubSeq(rest, 1, m), From(after, 3))
  BY <1>0, <1>1, <1>2, <1>7, <1>8, <1>10, <1>11 DEF ChunkRound
<1>13. ChunkRound(q, x, n) = Got(TRUE, b \o p, r)
  BY <1>2, <1>7, <1>8, <1>12, Zenon
<1> QED
  BY <1>13, Zenon DEF x

LEMMA RoundOfMarker ==
    ASSUME NEW r \in Seq(Nat), NEW b \in Seq(Nat), NEW q, NEW n
    PROVE  ChunkRound(q, Got(TRUE, b, Marker \o r), n) = Got(FALSE, b, r)
<1> DEFINE m    == 0
           h    == <<Zero>>
           line == h \o CRLF
           rest == CRLF \o r
           x    == Got(TRUE, b, Marker \o r)
<1>0. /\ CRLF \in Seq(Nat) /\ m \in Nat /\ m = 0
      /\ h \in Seq(Nat) /\ h # <<>>
  BY DEF CRLF, CR, LF, Zero
<1>1. /\ h # <<>> /\ HexNumber(h) = m
      /\ \A i \in 1..Len(h) : h[i] # LF /\ Hex(h[i]) # None
  <2>1. ToHex(0) = h
    <3>1. Digits(0, 16) = <<Digit(0, LowerA)>>
      BY DigitsNext DEF Bases
    <3>2. Digit(0, LowerA) = Zero
      BY DEF Digit, Zero
    <3> QED
      BY <3>1, <3>2, Zenon DEF ToHex
  <2>2. /\ HexNumber(ToHex(0)) = 0
        /\ \A i \in 1..Len(ToHex(0)) : ToHex(0)[i] # LF /\ Hex(ToHex(0)[i]) # None
    BY HexText, Zenon
  <2> HIDE DEF h
  <2> QED
    BY <1>0, <2>1, <2>2
<1>2. rest \in Seq(Nat) /\ line \in Seq(Nat)
  <2> HIDE DEF h
  <2> QED
    BY <1>0, ConcatProperties
<1>3. Marker \o r = line \o rest
  <2>1. Marker = line \o CRLF
    BY DEF Marker
  <2> DEFINE e == CRLF
  <2>2. line \in Seq(Nat) /\ e \in Seq(Nat)
    BY <1>0, <1>2
  <2> HIDE DEF line, e
  <2>3. (line \o e) \o r = line \o (e \o r)
    BY <2>2, ConcatAssociative
  <2> QED
    BY <2>1, <2>3, Zenon DEF e
<1>4. x.more /\ x.rest = line \o rest /\ x.body = b
  BY <1>3, GotFields, Zenon
<1>5. LineOf(line \o rest) = line /\ HexPrefix(line) = h
  <2> HIDE DEF rest, h
  <2> QED
    BY <1>0, <1>1, <1>2, LineAtHead, DigitsAtHead
<1>6. From(line \o rest, Len(line) + 1) = rest
  <2> HIDE DEF rest, line
  <2> QED
    BY <1>2, TakenApart
<1>7. LineOf(rest) = CRLF /\ From(rest, 3) = r
  BY AfterCRLF, Zenon
<1> HIDE DEF x, line, h, rest, m
<1>9. ~(Len(rest) < m)
  BY <1>0, <1>2, LenProperties
<1>10. /\ LineOf(x.rest) = line /\ From(x.rest, Len(line) + 1) = rest
       /\ HexPrefix(line) = h /\ HexNumber(h) = m
  BY <1>1, <1>4, <1>5, <1>6, Zenon
<1>11. ChunkRound(q, x, n) = Got(FALSE, x.body, From(rest, 3))
  <2> DEFINE size  == HexNumber(HexPrefix(LineOf(x.rest)))
             left  == From(x.rest, Len(LineOf(x.rest)) + 1)
             after == From(left, size + 1)
             body  == x.body \o SubSeq(left, 1, size)
             other == From(after, Len(LineOf(after)) + 1)
  <2>1. ChunkRound(q, x, n) =
            IF ~x.more THEN x
            ELSE CASE HexPrefix(LineOf(x.rest)) = <<>> \/ Len(left) < size -> Failed
                   [] size = 0 /\ LineOf(left) = CRLF -> Got(FALSE, x.body, From(left, 3))
                   [] size = 0 /\ LineOf(left) # CRLF -> Failed
                   [] size > 0 /\ after = <<>> -> Failed
                   [] size > 0 /\ after # <<>> /\ LineOf(after) # CRLF -> Got(FALSE, body, other)
                   [] OTHER -> Got(TRUE, body, From(after, 3))
    BY DEF ChunkRound
  <2>2. x.more /\ HexPrefix(LineOf(x.rest)) # <<>> /\ left = rest /\ size = m
    BY <1>1, <1>4, <1>10, Zenon
  <2> HIDE DEF size, left, after, body, other
  <2>3. size = 0 /\ ~(Len(left) < size) /\ LineOf(left) = CRLF
    BY <1>0, <1>7, <1>9, <2>2
  <2> QED
    BY <2>1, <2>2, <2>3
<1>12. ChunkRound(q, x, n) = Got(FALSE, b, r)
  BY <1>4, <1>7, <1>11, Zenon
<1> QED
  BY <1>12, Zenon DEF x

-----------------------------------------------------------------------------
(* Sequences one after the other.                                          *)

\* The first of the sequences ss as one, more and more of them.
JoinRound(ss, x, i) == x \o ss[i]
Joining == INSTANCE Loops WITH Round <- JoinRound
Joined(ss) == Joining!Rounds(ss, <<>>)

LEMMA JoinedNext ==
    ASSUME NEW S, NEW ss \in Seq(Seq(S))
    PROVE  /\ Joined(ss)[0] = <<>>
           /\ \A k \in Nat : k < Len(ss) =>
                 /\ k + 1 \in 1..Len(ss) /\ ss[k + 1] \in Seq(S)
                 /\ Joined(ss)[k + 1] = Joined(ss)[k] \o ss[k + 1]
           /\ \A k \in Nat : k <= Len(ss) => Joined(ss)[k] \in Seq(S)
<1> DEFINE x    == Joined(ss)
           Good == {k \in Nat : k <= Len(ss) => x[k] \in Seq(S)}
<1>1. x[0] = <<>> /\ \A k \in Nat : x[k + 1] = JoinRound(ss, x[k], k + 1)
  BY Joining!RoundsNext DEF Joined
<1> HIDE DEF x
<1>2. Len(ss) \in Nat
  BY LenProperties
<1>3. ASSUME NEW k \in Nat, k < Len(ss)
      PROVE  k + 1 \in 1..Len(ss) /\ ss[k + 1] \in Seq(S) /\ x[k + 1] = x[k] \o ss[k + 1]
  <2>1. k + 1 \in 1..Len(ss)
    BY <1>2, <1>3
  <2>2. ss[k + 1] \in Seq(S)
    BY <2>1, ElementOfSeq
  <2>3. x[k + 1] = JoinRound(ss, x[k], k + 1)
    BY <1>1
  <2> QED
    BY <2>1, <2>2, <2>3, Zenon DEF JoinRound
<1>4. 0 \in Good
  BY <1>1, EmptySeq
<1>5. ASSUME NEW k \in Nat, k \in Good PROVE k + 1 \in Good
  <2> SUFFICES ASSUME k + 1 <= Len(ss) PROVE x[k + 1] \in Seq(S)
    OBVIOUS
  <2>1. x[k] \in Seq(S) /\ k < Len(ss)
    BY <1>2, <1>5
  <2>2. ss[k + 1] \in Seq(S) /\ x[k + 1] = x[k] \o ss[k + 1]
    BY <1>3, <2>1
  <2>3. x[k] \o ss[k + 1] \in Seq(S)
    BY <2>1, <2>2, ConcatProperties
  <2> QED
    BY <2>2, <2>3
<1>6. \A k \in Nat : k \in Good
  <2> HIDE DEF Good
  <2> QED
    BY <1>4, <1>5, Joining!Induction
<1> QED
  BY <1>1, <1>3, <1>6 DEF x

\* FlattenSeq is the last of these.
LEMMA Flattened ==
    ASSUME NEW S, NEW ss \in Seq(Seq(S))
    PROVE  FlattenSeq(ss) = Joined(ss)[Len(ss)]
<1> DEFINE n     == Len(ss)
           x     == Joined(ss)
           Is(f) == f = [i \in 1..n |-> IF i = 1 THEN ss[i] ELSE f[i - 1] \o ss[i]]
<1>1. n \in Nat
  BY LenProperties
<1>2. /\ x[0] = <<>>
      /\ \A k \in Nat : k < n =>
            k + 1 \in 1..n /\ ss[k + 1] \in Seq(S) /\ x[k + 1] = x[k] \o ss[k + 1]
  BY JoinedNext, Zenon
<1>3. CASE n = 0
  <2>1. FlattenSeq(ss) = ss
    BY <1>3 DEF FlattenSeq
  <2>2. ss = <<>>
    BY <1>3, EmptySeq
  <2> QED
    BY <1>2, <1>3, <2>1, <2>2, Zenon
<1>4. CASE n # 0
  <2>1. FlattenSeq(ss) = (CHOOSE f : Is(f))[n]
    BY <1>4 DEF FlattenSeq
  <2> HIDE DEF x, n
  <2>2. ASSUME NEW i \in 1..n, i # 1 PROVE i - 1 \in 1..n /\ x[i] = x[i - 1] \o ss[i]
    <3>1. i - 1 \in Nat /\ i - 1 < n /\ (i - 1) + 1 = i /\ i - 1 \in 1..n
      BY <1>1, <2>2
    <3> QED
      BY <1>2, <3>1
  <2>3. x[1] = ss[1]
    <3>1. 0 < n /\ 0 \in Nat
      BY <1>1, <1>4
    <3>2. x[0 + 1] = x[0] \o ss[0 + 1] /\ ss[0 + 1] \in Seq(S)
      BY <1>2, <3>1
    <3>3. x[1] = <<>> \o ss[1] /\ ss[1] \in Seq(S)
      BY <1>2, <3>2
    <3> QED
      BY <3>3, ConcatEmptySeq
  <2>4. \E f : Is(f)
    <3> DEFINE f == [i \in 1..n |-> x[i]]
    <3>1. ASSUME NEW i \in 1..n PROVE f[i] = IF i = 1 THEN ss[i] ELSE f[i - 1] \o ss[i]
      BY <2>2, <2>3
    <3>2. f = [i \in 1..n |-> IF i = 1 THEN ss[i] ELSE f[i - 1] \o ss[i]]
      BY <3>1
    <3> QED
      BY <3>2, Zenon
  <2>5. PICK f : Is(f) /\ FlattenSeq(ss) = f[n]
    <3> HIDE DEF Is
    <3> QED
      BY <2>1, <2>4
  <2>6. \A i \in 1..n : f[i] = IF i = 1 THEN ss[i] ELSE f[i - 1] \o ss[i]
    BY <2>5
  <2> DEFINE Good == {k \in Nat : k > 0 /\ k <= n => f[k] = x[k]}
  <2>7. 0 \in Good
    OBVIOUS
  <2>8. ASSUME NEW k \in Nat, k \in Good PROVE k + 1 \in Good
    <3> SUFFICES ASSUME k + 1 <= n PROVE f[k + 1] = x[k + 1]
      OBVIOUS
    <3>1. k + 1 \in 1..n
      BY <1>1
    <3>2. CASE k = 0
      BY <2>3, <2>6, <3>1, <3>2
    <3>3. CASE k # 0
      <4>1. k + 1 # 1 /\ (k + 1) - 1 = k /\ k > 0 /\ k <= n
        BY <1>1, <3>3
      <4>2. f[k] = x[k]
        BY <2>8, <4>1
      <4>3. f[k + 1] = f[(k + 1) - 1] \o ss[k + 1]
        BY <2>6, <3>1, <4>1
      <4>4. x[k + 1] = x[(k + 1) - 1] \o ss[k + 1]
        BY <2>2, <3>1, <4>1
      <4> QED
        BY <4>1, <4>2, <4>3, <4>4
    <3> QED
      BY <3>2, <3>3
  <2>9. n \in Good
    <3> HIDE DEF Good
    <3> QED
      BY <1>1, <2>7, <2>8, Joining!Induction
  <2>10. f[n] = x[n]
    BY <1>1, <1>4, <2>9
  <2> QED
    BY <2>5, <2>10 DEF x, n
<1> QED
  BY <1>3, <1>4

\* What follows the first k of the sequences, if they and e are one.
AfterJoined(ss, e, k) == From(FlattenSeq(ss) \o e, Len(Joined(ss)[k]) + 1)

LEMMA AfterJoinedNext ==
    ASSUME NEW S, NEW ss \in Seq(Seq(S)), NEW e \in Seq(S)
    PROVE  /\ AfterJoined(ss, e, 0) = FlattenSeq(ss) \o e
           /\ AfterJoined(ss, e, Len(ss)) = e
           /\ \A k \in Nat : k <= Len(ss) => AfterJoined(ss, e, k) \in Seq(S)
           /\ \A k \in Nat : k < Len(ss) =>
                 AfterJoined(ss, e, k) = ss[k + 1] \o AfterJoined(ss, e, k + 1)
<1> DEFINE n    == Len(ss)
           x    == Joined(ss)
           all  == FlattenSeq(ss) \o e
           Rest(k) == From(all, Len(x[k]) + 1)
           Has(i) == \E r \in Seq(S) : all = x[n - i] \o r
           Good == {i \in Nat : i <= n => Has(i)}
<1>1. /\ n \in Nat /\ x[0] = <<>>
      /\ \A k \in Nat : k < n =>
            k + 1 \in 1..n /\ ss[k + 1] \in Seq(S) /\ x[k + 1] = x[k] \o ss[k + 1]
      /\ \A k \in Nat : k <= n => x[k] \in Seq(S)
  BY JoinedNext, LenProperties, Zenon
<1>2. all = x[n] \o e
  BY Flattened, Zenon
<1>3. \A k : AfterJoined(ss, e, k) = Rest(k)
  BY DEF AfterJoined
<1>0. all = FlattenSeq(ss) \o e
  OBVIOUS
<1> HIDE DEF n, x, all
<1>4. ASSUME NEW k \in Nat, k <= n, NEW r \in Seq(S), all = x[k] \o r PROVE r = Rest(k)
  BY <1>1, <1>4, TakenApart
<1>5. ASSUME NEW k \in Nat, k < n, NEW r \in Seq(S), all = x[k + 1] \o r
      PROVE  ss[k + 1] \o r \in Seq(S) /\ all = x[k] \o (ss[k + 1] \o r)
  <2>1. x[k] \in Seq(S) /\ ss[k + 1] \in Seq(S) /\ x[k + 1] = x[k] \o ss[k + 1]
    <3>1. k <= n /\ k < n
      BY <1>1, <1>5
    <3> QED
      BY <1>1, <3>1, Zenon
  <2> DEFINE y == x[k]
             s == ss[k + 1]
  <2>2. y \in Seq(S) /\ s \in Seq(S) /\ all = (y \o s) \o r
    BY <1>5, <2>1
  <2> HIDE DEF y, s
  <2>3. (y \o s) \o r = y \o (s \o r) /\ s \o r \in Seq(S)
    BY <2>2, ConcatAssociative, ConcatProperties
  <2> QED
    BY <2>2, <2>3, Zenon DEF y, s
<1>6. 0 \in Good
  <2>1. n - 0 = n
    BY <1>1
  <2>2. Has(0)
    BY <1>2, <2>1
  <2> HIDE DEF Has
  <2> QED
    BY <2>2
<1>7. ASSUME NEW i \in Nat, i \in Good PROVE i + 1 \in Good
  <2> SUFFICES ASSUME i + 1 <= n PROVE Has(i + 1)
    <3> HIDE DEF Has
    <3> QED
      OBVIOUS
  <2>0. Has(i)
    <3> HIDE DEF Has
    <3> QED
      BY <1>1, <1>7
  <2>1. PICK r \in Seq(S) : all = x[n - i] \o r
    BY <2>0
  <2> DEFINE k == n - (i + 1)
  <2>2. k \in Nat /\ k < n /\ k + 1 = n - i
    BY <1>1
  <2> HIDE DEF k
  <2>3. ss[k + 1] \o r \in Seq(S) /\ all = x[k] \o (ss[k + 1] \o r)
    BY <1>5, <2>1, <2>2
  <2> QED
    BY <2>3 DEF k
<1>8. ASSUME NEW k \in Nat, k <= n PROVE \E r \in Seq(S) : all = x[k] \o r
  <2>1. n - k \in Nat /\ n - k <= n /\ n - (n - k) = k
    BY <1>1, <1>8
  <2>2. \A i \in Nat : i \in Good
    <3> HIDE DEF Good
    <3> QED
      BY <1>6, <1>7, Joining!Induction
  <2>3. Has(n - k)
    <3> HIDE DEF Has
    <3> QED
      BY <2>1, <2>2
  <2> QED
    BY <2>1, <2>3
<1>9. ASSUME NEW k \in Nat, k <= n PROVE Rest(k) \in Seq(S) /\ all = x[k] \o Rest(k)
  <2>1. PICK r \in Seq(S) : all = x[k] \o r
    BY <1>8, <1>9
  <2>2. r = Rest(k)
    BY <1>4, <1>9, <2>1
  <2> QED
    BY <2>1, <2>2
<1>10. ASSUME NEW k \in Nat, k < n PROVE Rest(k) = ss[k + 1] \o Rest(k + 1)
  <2>1. k + 1 \in Nat /\ k + 1 <= n /\ k <= n
    BY <1>1, <1>10
  <2>2. Rest(k + 1) \in Seq(S) /\ all = x[k + 1] \o Rest(k + 1)
    BY <1>9, <2>1
  <2> DEFINE r == Rest(k + 1)
  <2> HIDE DEF Rest
  <2>3. ss[k + 1] \o r \in Seq(S) /\ all = x[k] \o (ss[k + 1] \o r)
    BY <1>5, <1>10, <2>2
  <2> QED
    BY <1>4, <2>1, <2>3
<1>11. Rest(n) = e
  <2>1. n <= n
    BY <1>1
  <2> QED
    BY <1>1, <1>2, <1>4, <2>1
<1>12. Rest(0) = all
  <2>1. 0 \in Nat /\ 0 <= n
    BY <1>1
  <2>2. Rest(0) \in Seq(S) /\ all = <<>> \o Rest(0)
    BY <1>1, <1>9, <2>1
  <2> HIDE DEF Rest
  <2> QED
    BY <2>2, ConcatEmptySeq
<1> HIDE DEF Rest
<1> QED
  BY <1>0, <1>3, <1>9, <1>10, <1>11, <1>12, Zenon DEF n

-----------------------------------------------------------------------------
(* Bodies in chunks, read back.                                            *)

\* Sequences none of which is empty make one that is as long as they are many.
LEMMA JoinedIsLong ==
    ASSUME NEW S, NEW ss \in Seq(Seq(S)), \A k \in 1..Len(ss) : Len(ss[k]) > 0
    PROVE  /\ FlattenSeq(ss) \in Seq(S)
           /\ Len(FlattenSeq(ss)) >= Len(ss)
<1> DEFINE n    == Len(ss)
           x    == Joined(ss)
           Good == {k \in Nat : k <= n => Len(x[k]) >= k}
<1>1. /\ n \in Nat /\ x[0] = <<>>
      /\ \A k \in Nat : k < n =>
            k + 1 \in 1..n /\ ss[k + 1] \in Seq(S) /\ x[k + 1] = x[k] \o ss[k + 1]
      /\ \A k \in Nat : k <= n => x[k] \in Seq(S)
      /\ \A k \in 1..n : Len(ss[k]) > 0
  BY JoinedNext, LenProperties, Zenon
<1>2. FlattenSeq(ss) = x[n]
  BY Flattened, Zenon
<1> HIDE DEF n, x
<1>3. 0 \in Good
  BY <1>1, EmptySeq
<1>4. ASSUME NEW k \in Nat, k \in Good PROVE k + 1 \in Good
  <2> SUFFICES ASSUME k + 1 <= n PROVE Len(x[k + 1]) >= k + 1
    OBVIOUS
  <2>1. k < n /\ k <= n
    BY <1>1
  <2>2. /\ x[k] \in Seq(S) /\ Len(x[k]) >= k /\ ss[k + 1] \in Seq(S) /\ Len(ss[k + 1]) > 0
        /\ x[k + 1] = x[k] \o ss[k + 1]
    <3>1. k + 1 \in 1..n
      BY <1>1, <2>1
    <3> QED
      BY <1>1, <1>4, <2>1, <3>1
  <2>3. IsConcat(x[k] \o ss[k + 1], x[k], ss[k + 1], S)
    BY <2>2, ConcatFacts, Zenon
  <2>4. IsConcat(x[k + 1], x[k], ss[k + 1], S)
    BY <2>2, <2>3, Zenon
  <2> DEFINE a == Len(x[k])
             b == Len(x[k + 1])
             c == Len(ss[k + 1])
  <2>5. b = a + c /\ a \in Nat /\ c \in Nat
    BY <2>4 DEF IsConcat
  <2>6. a >= k /\ c > 0
    BY <2>2
  <2> HIDE DEF a, b, c
  <2>7. b >= k + 1
    BY <2>5, <2>6
  <2> QED
    BY <2>7 DEF b
<1>5. n \in Good
  <2> HIDE DEF Good
  <2> QED
    BY <1>1, <1>3, <1>4, Joining!Induction
<1>6. n <= n
  BY <1>1
<1>7. x[n] \in Seq(S) /\ Len(x[n]) >= n
  BY <1>1, <1>5, <1>6
<1> QED
  BY <1>2, <1>7 DEF n

\* What is written in chunks, and what follows it.
LEMMA WrittenInChunks ==
    ASSUME NEW payloads \in Seq(Seq(Nat) \ {<<>>}), NEW ss, NEW follows \in Seq(Nat),
           ss = [k \in DOMAIN payloads |-> Chunk(payloads[k])]
    PROVE  /\ ss \in Seq(Seq(Nat)) /\ Len(ss) = Len(payloads)
           /\ \A k \in 1..Len(ss) : ss[k] = Chunk(payloads[k]) /\ Len(ss[k]) > 0
           /\ Marker \o follows \in Seq(Nat) /\ Len(Marker \o follows) > 0
           /\ WriteChunked(payloads) \o follows = FlattenSeq(ss) \o (Marker \o follows)
<1> DEFINE n == Len(payloads)
           F == FlattenSeq(ss)
<1>1. /\ n \in Nat /\ DOMAIN payloads = 1..n
      /\ \A k \in 1..n : payloads[k] \in Seq(Nat) /\ payloads[k] # <<>>
  BY LenProperties, ElementOfSeq
<1>2. \A k \in 1..n : Chunk(payloads[k]) \in Seq(Nat) /\ Len(Chunk(payloads[k])) > 0
  <2> HIDE DEF n
  <2>1. <<>> \in Seq(Nat)
    BY EmptySeq
  <2> QED
    BY <1>1, <2>1, ChunkApart, Zenon
<1>3. ss \in Seq(Seq(Nat)) /\ Len(ss) = n /\ \A k \in 1..n : ss[k] = Chunk(payloads[k])
  <2> HIDE DEF n
  <2>1. ss = [k \in 1..n |-> Chunk(payloads[k])]
    BY <1>1
  <2> QED
    BY <1>1, <1>2, <2>1
<1>4. \A k \in 1..Len(ss) : ss[k] = Chunk(payloads[k]) /\ Len(ss[k]) > 0
  <2> HIDE DEF n
  <2> QED
    BY <1>2, <1>3
<1>5. F \in Seq(Nat)
  BY <1>3, <1>4, JoinedIsLong, Zenon
<1>6. <<Zero>> \in Seq(Nat) /\ CRLF \in Seq(Nat)
  BY DEF Zero, CRLF, CR, LF
<1> DEFINE z == <<Zero>>
           c == CRLF
<1>7. WriteChunked(payloads) = ((F \o z) \o c) \o c
  <2>1. ss = [k \in DOMAIN payloads |->
                 IF payloads[k] = <<>> THEN <<>>
                 ELSE ToHex(Len(payloads[k])) \o CRLF \o payloads[k] \o CRLF]
    <3>1. ASSUME NEW k \in DOMAIN payloads
          PROVE  Chunk(payloads[k])
                   = IF payloads[k] = <<>> THEN <<>>
                     ELSE ToHex(Len(payloads[k])) \o CRLF \o payloads[k] \o CRLF
      <4>1. payloads[k] # <<>>
        BY <1>1, Zenon
      <4> QED
        BY <4>1, Zenon DEF Chunk
    <3> QED
      BY <3>1, Zenon
  <2> QED
    BY <2>1, Zenon DEF WriteChunked
<1>8. Marker = (z \o c) \o c
  BY DEF Marker
<1> HIDE DEF F, z, c
<1>9. F \in Seq(Nat) /\ z \in Seq(Nat) /\ c \in Seq(Nat)
  BY <1>5, <1>6 DEF z, c
<1>10. z \o c \in Seq(Nat)
  BY <1>9, ConcatProperties
<1>0. \A s, t, u \in Seq(Nat) : (s \o t) \o u = s \o (t \o u)
  BY ConcatAssociative
<1>11. ((F \o z) \o c) \o c = F \o ((z \o c) \o c) /\ (z \o c) \o c \in Seq(Nat)
  <2>1. (F \o z) \o c = F \o (z \o c)
    BY <1>9, ConcatAssociative
  <2> DEFINE y == z \o c
  <2>2. y \in Seq(Nat)
    BY <1>10
  <2> HIDE DEF y
  <2>3. (F \o y) \o c = F \o (y \o c)
    BY <1>0, <1>9, <2>2, Zenon
  <2>4. y \o c \in Seq(Nat)
    BY <1>9, <2>2, ConcatProperties
  <2> QED
    BY <2>1, <2>3, <2>4, Zenon DEF y
<1>12. Marker \in Seq(Nat) /\ WriteChunked(payloads) = F \o Marker
  BY <1>7, <1>8, <1>11, Zenon
<1>13. (F \o Marker) \o follows = F \o (Marker \o follows)
  BY <1>9, <1>12, <1>0, Zenon
<1>14. Marker \o follows \in Seq(Nat) /\ Len(Marker \o follows) > 0
  <2> DEFINE y == z \o c
             m == y \o c
             u == m \o follows
  <2>1. y \in Seq(Nat)
    BY <1>10
  <2> HIDE DEF y
  <2>2. IsConcat(m, y, c, Nat)
    BY <1>9, <2>1, ConcatFacts, Zenon
  <2> HIDE DEF m
  <2>3. m \in Seq(Nat) /\ Len(m) >= Len(c)
    BY <2>2 DEF IsConcat
  <2>4. IsConcat(u, m, follows, Nat)
    BY <2>3, ConcatFacts, Zenon
  <2> HIDE DEF u
  <2>5. u \in Seq(Nat) /\ Len(u) >= Len(m) /\ Len(m) \in Nat
    BY <2>4 DEF IsConcat
  <2>6. Len(c) = 2
    BY DEF c, CRLF
  <2>7. Len(u) > 0
    BY <2>3, <2>4, <2>5, <2>6 DEF IsConcat
  <2>8. Marker = m
    BY <1>8, Zenon DEF m, y
  <2> QED
    BY <2>5, <2>7, <2>8, Zenon DEF u
<1> QED
  BY <1>3, <1>4, <1>12, <1>13, <1>14, Zenon DEF F

\* A body that was written in chunks is read back whole, whatever its bytes, however
\* many they are and however it was cut, and what follows it on the connection is left
\* there (write_content_chunked, read_content_chunked).
THEOREM BodiesAreReadBack ==
    ASSUME NEW payloads \in Seq(Seq(Nat) \ {<<>>}), NEW follows \in Seq(Nat)
    PROVE  ReadChunked(WriteChunked(payloads) \o follows)
                = [ok |-> TRUE, body |-> FlattenSeq(payloads), rest |-> follows]
<1> DEFINE ss      == [k \in DOMAIN payloads |-> Chunk(payloads[k])]
           n       == Len(payloads)
           e       == Marker \o follows
           full    == FlattenSeq(ss) \o e
           Rest(k) == AfterJoined(ss, e, k)
           body    == Joined(payloads)
           start   == Got(TRUE, <<>>, full)
           y       == Receiving!Rounds(<<>>, start)
           last    == Got(FALSE, body[n], follows)
           Is(k)   == y[k] = Got(TRUE, body[k], Rest(k))
           Good    == {k \in Nat : k <= n => Is(k)}
           Done    == {k \in Nat : k >= n + 1 => y[k] = last}
<1>1. /\ ss \in Seq(Seq(Nat)) /\ Len(ss) = n
      /\ \A k \in 1..Len(ss) : ss[k] = Chunk(payloads[k]) /\ Len(ss[k]) > 0
      /\ e \in Seq(Nat) /\ Len(e) > 0
      /\ WriteChunked(payloads) \o follows = full
  <2> HIDE DEF ss, n
  <2>1. ss = [k \in DOMAIN payloads |-> Chunk(payloads[k])]
    BY DEF ss
  <2> QED
    BY <2>1, WrittenInChunks, Zenon DEF n
<1>2. n \in Nat /\ \A k \in 1..n : payloads[k] \in Seq(Nat) /\ payloads[k] # <<>>
  BY LenProperties, ElementOfSeq
<1>3. payloads \in Seq(Seq(Nat))
  <2>1. Seq(Nat) \ {<<>>} \subseteq Seq(Nat)
    OBVIOUS
  <2> QED
    BY <2>1, SeqMonotonic
<1>4. /\ Rest(0) = full /\ Rest(n) = e
      /\ \A k \in Nat : k <= n => Rest(k) \in Seq(Nat)
      /\ \A k \in Nat : k < n => Rest(k) = ss[k + 1] \o Rest(k + 1)
  <2> HIDE DEF ss, n, e
  <2>1. /\ AfterJoined(ss, e, 0) = FlattenSeq(ss) \o e
        /\ AfterJoined(ss, e, Len(ss)) = e
        /\ \A k \in Nat : k <= Len(ss) => AfterJoined(ss, e, k) \in Seq(Nat)
        /\ \A k \in Nat : k < Len(ss) =>
              AfterJoined(ss, e, k) = ss[k + 1] \o AfterJoined(ss, e, k + 1)
    BY <1>1, AfterJoinedNext, Zenon
  <2> QED
    BY <1>1, <2>1, Zenon
<1>5. /\ body[0] = <<>>
      /\ \A k \in Nat : k < n => k + 1 \in 1..n /\ body[k + 1] = body[k] \o payloads[k + 1]
      /\ \A k \in Nat : k <= n => body[k] \in Seq(Nat)
  BY <1>3, JoinedNext, Zenon
<1>6. FlattenSeq(payloads) = body[n]
  BY <1>3, Flattened, Zenon
<1>7. /\ y[0] = start
      /\ \A k \in Nat : y[k + 1] = ChunkRound(<<>>, y[k], k + 1)
      /\ \A k \in Nat : y[k] = Receiving!Loop(<<>>, start, k)
  BY Receiving!RoundsNext
<1>8. Len(full) \in Nat /\ Len(full) >= n + 1
  <2> DEFINE F == FlattenSeq(ss)
             u == F \o e
  <2>1. F \in Seq(Nat) /\ Len(F) >= n
    <3> HIDE DEF ss, n
    <3>1. FlattenSeq(ss) \in Seq(Nat) /\ Len(FlattenSeq(ss)) >= Len(ss)
      BY <1>1, JoinedIsLong, Zenon
    <3> QED
      BY <1>1, <3>1, Zenon
  <2>2. full = u
    BY Zenon
  <2> HIDE DEF F, e, n, full
  <2>3. IsConcat(u, F, e, Nat)
    BY <1>1, <2>1, ConcatFacts, Zenon
  <2> HIDE DEF u
  <2>4. Len(u) \in Nat /\ Len(u) >= n + 1
    BY <1>1, <1>2, <2>1, <2>3 DEF IsConcat
  <2> QED
    BY <2>2, <2>4
<1>9. start = Got(TRUE, <<>>, full)
  OBVIOUS
<1>10. last = Got(FALSE, body[n], follows)
  OBVIOUS
<1>11. e = Marker \o follows
  OBVIOUS
<1>12. ReadChunked(full)
         = [ok |-> y[Len(full)].ok, body |-> y[Len(full)].body, rest |-> y[Len(full)].rest]
  <2> DEFINE z == Receiving!Loop(<<>>, Got(TRUE, <<>>, full), Len(full))
  <2>1. ReadChunked(full) = [ok |-> z.ok, body |-> z.body, rest |-> z.rest]
    BY Zenon DEF ReadChunked
  <2>2. y[Len(full)] = z
    BY <1>7, <1>8, Zenon
  <2> HIDE DEF z, y
  <2> QED
    BY <2>1, <2>2, Zenon
<1> HIDE DEF ss, n, e, full, body, start, y, last, Rest
<1>13. 0 \in Good
  <2>1. y[0] = Got(TRUE, body[0], Rest(0))
    BY <1>4, <1>5, <1>7, <1>9, Zenon
  <2> QED
    BY <2>1
<1>14. ASSUME NEW k \in Nat, k \in Good PROVE k + 1 \in Good
  <2> SUFFICES ASSUME k + 1 <= n PROVE Is(k + 1)
    <3> HIDE DEF Is
    <3> QED
      OBVIOUS
  <2>1. k < n /\ k <= n /\ k + 1 \in Nat /\ k + 1 \in 1..n
    BY <1>2
  <2>2. y[k] = Got(TRUE, body[k], Rest(k))
    <3>1. Is(k)
      <4> HIDE DEF Is
      <4> QED
        BY <1>14, <2>1
    <3> QED
      BY <3>1
  <2>3. Rest(k) = Chunk(payloads[k + 1]) \o Rest(k + 1)
    <3>1. ss[k + 1] = Chunk(payloads[k + 1])
      BY <1>1, <2>1, Zenon
    <3> QED
      BY <1>4, <2>1, <3>1, Zenon
  <2>4. /\ payloads[k + 1] \in Seq(Nat) /\ payloads[k + 1] # <<>> /\ Rest(k + 1) \in Seq(Nat)
        /\ body[k] \in Seq(Nat)
    BY <1>2, <1>4, <1>5, <2>1, Zenon
  <2> DEFINE p == payloads[k + 1]
             r == Rest(k + 1)
             b == body[k]
  <2>5. \A q, i : ChunkRound(q, Got(TRUE, b, Chunk(p) \o r), i) = Got(TRUE, b \o p, r)
    <3>1. p \in Seq(Nat) /\ p # <<>> /\ r \in Seq(Nat) /\ b \in Seq(Nat)
      BY <2>4, Zenon
    <3> HIDE DEF p, r, b
    <3> QED
      BY <3>1, RoundOfChunk, Zenon
  <2>6. body[k + 1] = b \o p
    BY <1>5, <2>1, Zenon
  <2>7. y[k + 1] = ChunkRound(<<>>, y[k], k + 1)
    BY <1>7, Zenon
  <2> QED
    BY <2>2, <2>3, <2>5, <2>6, <2>7, Zenon
<1>15. n \in Good
  <2> HIDE DEF Good
  <2> QED
    BY <1>2, <1>13, <1>14, Receiving!Induction
<1>16. y[n + 1] = last
  <2>1. n <= n
    BY <1>2
  <2>2. y[n] = Got(TRUE, body[n], Marker \o follows)
    <3>1. y[n] = Got(TRUE, body[n], Rest(n))
      BY <1>15, <2>1
    <3> QED
      BY <1>4, <1>11, <3>1, Zenon
  <2>3. y[n + 1] = ChunkRound(<<>>, y[n], n + 1)
    BY <1>2, <1>7, Zenon
  <2>4. body[n] \in Seq(Nat)
    BY <1>2, <1>5, <2>1, Zenon
  <2> DEFINE b == body[n]
  <2>5. \A q, i : ChunkRound(q, Got(TRUE, b, Marker \o follows), i) = Got(FALSE, b, follows)
    <3>1. b \in Seq(Nat)
      BY <2>4, Zenon
    <3> HIDE DEF b
    <3> QED
      BY <3>1, RoundOfMarker, Zenon
  <2> QED
    BY <1>10, <2>2, <2>3, <2>5, Zenon
<1>17. 0 \in Done
  BY <1>2
<1>18. ASSUME NEW k \in Nat, k \in Done PROVE k + 1 \in Done
  <2> SUFFICES ASSUME k + 1 >= n + 1, k + 1 # n + 1 PROVE y[k + 1] = last
    BY <1>2, <1>16
  <2>1. y[k] = last
    BY <1>2, <1>18
  <2>2. ~last.more
    BY <1>10, GotFields, Zenon
  <2>3. y[k + 1] = ChunkRound(<<>>, last, k + 1)
    BY <1>7, <2>1, Zenon
  <2> QED
    BY <2>2, <2>3 DEF ChunkRound
<1>19. Len(full) \in Done
  <2> HIDE DEF Done
  <2> QED
    BY <1>8, <1>17, <1>18, Receiving!Induction
<1>20. y[Len(full)] = last
  BY <1>8, <1>19
<1>21. last.ok = TRUE /\ last.body = FlattenSeq(payloads) /\ last.rest = follows
  BY <1>6, <1>10, GotFields, Zenon
<1> QED
  BY <1>1, <1>12, <1>20, <1>21, Zenon

\* A body sent in chunks is read back whole, whatever the chunks' lengths and even if
\* they hold ends of lines, and what follows on the connection is left there
\* (write_content_chunked, read_content_chunked).
THEOREM ChunksAreReadBack == Spec => []ChunksRoundTrip
<1>1. TypeOK => ChunksRoundTrip
  <2> SUFFICES ASSUME TypeOK, About("chunks") PROVE ChunksRoundTrip
    BY DEF ChunksRoundTrip
  <2> DEFINE content(n) == [i \in 1..n |-> IF i % 2 = 1 THEN CR ELSE LF]
             payloads   == [k \in DOMAIN text |-> content(text[k])]
             follows    == <<UpperA>> \o CRLF
  <2>1. text \in Seq(Nat \ {0})
    <3>1. text \in Seq(Alphabet["chunks"]) /\ Alphabet["chunks"] \subseteq Nat \ {0}
      BY AlphabetAssumption DEF TypeOK, About
    <3> QED
      BY <3>1, SeqMonotonic
  <2>2. follows \in Seq(Nat)
    BY DEF UpperA, CRLF, CR, LF
  <2>3. ASSUME NEW n \in Nat \ {0} PROVE content(n) \in Seq(Nat) \ {<<>>}
    BY DEF CR, LF
  <2>4. payloads \in Seq(Seq(Nat) \ {<<>>})
    <3>1. DOMAIN text = 1..Len(text) /\ Len(text) \in Nat
      BY <2>1, LenProperties
    <3>2. \A k \in 1..Len(text) : content(text[k]) \in Seq(Nat) \ {<<>>}
      <4>1. \A k \in 1..Len(text) : text[k] \in Nat \ {0}
        BY <2>1, ElementOfSeq
      <4> HIDE DEF content
      <4> QED
        BY <2>3, <4>1
    <3> HIDE DEF content
    <3> QED
      BY <3>1, <3>2
  <2> HIDE DEF payloads, follows
  <2>5. ReadChunked(WriteChunked(payloads) \o follows)
            = [ok |-> TRUE, body |-> FlattenSeq(payloads), rest |-> follows]
    BY <2>2, <2>4, BodiesAreReadBack, Zenon
  <2> QED
    BY <2>5, Zenon DEF ChunksRoundTrip, payloads, follows
<1> QED
  BY <1>1, AlgorithmsTypeCorrect, PTL

-----------------------------------------------------------------------------
(* The pieces of a text.                                                   *)

\* The pieces of more and more of the text s; all of them.
CutOf(s, d) == Cutting!Rounds([text |-> s, d |-> d], << <<>> >>)
AllPieces(s, d) == CutOf(s, d)[Len(s)]

\* The last of the pieces q has a character more.
Longer(q, c) == [q EXCEPT ![Len(q)] = Append(@, c)]

LEMMA CutNext ==
    ASSUME NEW s, NEW d
    PROVE  /\ CutOf(s, d)[0] = << <<>> >>
           /\ \A k \in Nat : s[k + 1] = d => CutOf(s, d)[k + 1] = Append(CutOf(s, d)[k], <<>>)
           /\ \A k \in Nat :
                 s[k + 1] # d => CutOf(s, d)[k + 1] = Longer(CutOf(s, d)[k], s[k + 1])
<1> DEFINE p == [text |-> s, d |-> d]
           x == Cutting!Rounds(p, << <<>> >>)
<1>1. /\ x[0] = << <<>> >>
      /\ \A k \in Nat : x[k + 1] = PieceRound(p, x[k], k + 1)
  BY Cutting!RoundsNext
<1>2. p.text = s /\ p.d = d /\ CutOf(s, d) = x
  BY DEF CutOf
<1> HIDE DEF p, x
<1>3. ASSUME NEW k \in Nat, s[k + 1] = d PROVE x[k + 1] = Append(x[k], <<>>)
  BY <1>1, <1>2, <1>3, Zenon DEF PieceRound
<1>4. ASSUME NEW k \in Nat, s[k + 1] # d
      PROVE  x[k + 1] = Longer(x[k], s[k + 1])
  BY <1>1, <1>2, <1>4, Zenon DEF PieceRound, Longer
<1> QED
  BY <1>1, <1>2, <1>3, <1>4, Zenon

\* A text that is not empty has these pieces.
LEMMA PiecesOf ==
    ASSUME NEW S, NEW s \in Seq(S), NEW d
    PROVE  /\ s # <<>> => Pieces(s, d) = AllPieces(s, d)
           /\ s = <<>> => Pieces(s, d) = <<>>
<1> DEFINE p == [text |-> s, d |-> d]
           a == << <<>> >>
<1>1. Len(s) \in Nat
  BY LenProperties
<1>2. \A k \in Nat : Cutting!Rounds(p, a)[k] = Cutting!Loop(p, a, k)
  BY Cutting!RoundsNext
<1>3. Cutting!Rounds(p, a)[Len(s)] = Cutting!Loop(p, a, Len(s))
  BY <1>1, <1>2, Zenon
<1> QED
  BY <1>3, Zenon DEF Pieces, AllPieces, CutOf

\* A piece that a character more belongs to.
LEMMA LongerPiece ==
    ASSUME NEW S, NEW P \in Seq(Seq(S)), NEW y \in Seq(S), NEW c \in S
    PROVE  Longer(Append(P, y), c) = Append(P, Append(y, c))
<1> DEFINE q == Append(P, y)
           z == Append(y, c)
           t == Append(P, z)
           n == Len(q)
           r == [q EXCEPT ![n] = z]
<1>1. IsAppend(q, P, y, Seq(S))
  BY AppendFacts, Zenon
<1>2. z \in Seq(S)
  BY AppendProperties
<1> HIDE DEF z
<1>3. IsAppend(t, P, z, Seq(S))
  BY <1>2, AppendFacts, Zenon
<1> HIDE DEF q, t
<1>4. /\ q \in Seq(Seq(S)) /\ n = Len(P) + 1 /\ Len(P) \in Nat /\ q[n] = y
      /\ \A i \in 1..Len(P) : q[i] = P[i]
      /\ t \in Seq(Seq(S)) /\ Len(t) = n /\ t[n] = z
      /\ \A i \in 1..Len(P) : t[i] = P[i]
  BY <1>1, <1>3 DEF IsAppend
<1>5. n \in 1..Len(q)
  BY <1>4
<1>6. /\ r \in Seq(Seq(S)) /\ Len(r) = n
      /\ \A j \in 1..n : r[j] = IF j = n THEN z ELSE q[j]
  <2>1. Len(q) = n
    OBVIOUS
  <2> HIDE DEF n
  <2> QED
    BY <1>2, <1>4, <1>5, <2>1, ExceptSeq
<1> HIDE DEF r, n
<1>7. ASSUME NEW j \in 1..n PROVE r[j] = t[j]
  <2>1. CASE j = n
    BY <1>4, <1>6, <2>1
  <2>2. CASE j # n
    <3>1. j \in 1..Len(P)
      BY <1>4, <2>2
    <3> QED
      BY <1>4, <1>6, <2>2, <3>1
  <2> QED
    BY <2>1, <2>2
<1>8. r = t
  BY <1>4, <1>6, <1>7, SeqEqual
<1>9. Longer(q, c) = r
  <2>1. [q EXCEPT ![n] = Append(@, c)] = r
    BY <1>4 DEF r, z
  <2> QED
    BY <2>1, Zenon DEF Longer, n
<1> QED
  BY <1>8, <1>9, Zenon DEF q, t, n, z

\* The first j + 1 elements of a sequence are its first j and one more.
LEMMA OneMore ==
    ASSUME NEW S, NEW a \in Seq(S), NEW j \in Nat, j < Len(a)
    PROVE  /\ SubSeq(a, 1, j) \in Seq(S) /\ j + 1 \in 1..Len(a) /\ a[j + 1] \in S
           /\ SubSeq(a, 1, j + 1) = Append(SubSeq(a, 1, j), a[j + 1])
<1>1. j + 1 \in 1..Len(a) /\ Len(a) \in Nat /\ 1 \in 1..Len(a) /\ j + 1 \in 1..Len(a)
      /\ (j + 1) - 1 = j /\ \A i \in 1..j : i \in 1..Len(a)
  BY LenProperties
<1>2. a[j + 1] \in S
  BY <1>1, ElementOfSeq
<1>3. SubSeq(a, 1, j) \in Seq(S)
  <2>1. \A i \in 1..j : a[i] \in S
    BY <1>1, ElementOfSeq
  <2> QED
    BY <2>1, SubSeqProperties
<1>4. SubSeq(a, 1, j + 1) = SubSeq(a, 1, (j + 1) - 1) \o <<a[j + 1]>>
  <2> DEFINE n == j + 1
  <2>1. n \in 1..Len(a) /\ 1 \in 1..Len(a)
    BY <1>1
  <2> HIDE DEF n
  <2>2. SubSeq(a, 1, n) = SubSeq(a, 1, n - 1) \o <<a[n]>>
    BY <2>1, SubSeqRecursiveSecond
  <2> QED
    BY <2>2 DEF n
<1>5. Append(SubSeq(a, 1, j), a[j + 1]) = SubSeq(a, 1, j) \o <<a[j + 1]>>
  BY <1>2, <1>3, AppendIsConcat
<1> QED
  BY <1>1, <1>2, <1>3, <1>4, <1>5, Zenon

\* A piece of s, after its first k characters; s and t begin in the same way.
IsPiece(s, d, k, a) == \A i \in 1..Len(a) : s[k + i] = a[i] /\ a[i] # d
SameStart(s, t, n) == \A i \in 1..n : s[i] = t[i]
\* The pieces after k characters of s.
CutInto(s, d, k, P) == CutOf(s, d)[k] = P
SameCutAt(s, t, d, k) == CutOf(s, d)[k] = CutOf(t, d)[k]

\* A piece is read to its end.
LEMMA PieceRead ==
    ASSUME NEW S, NEW s, NEW d, NEW k \in Nat, NEW a \in Seq(S), NEW P \in Seq(Seq(S)),
           IsPiece(s, d, k, a), CutInto(s, d, k, Append(P, <<>>))
    PROVE  CutInto(s, d, k + Len(a), Append(P, a))
<1> DEFINE x    == CutOf(s, d)
           y(j) == SubSeq(a, 1, j)
           Is(j) == x[k + j] = Append(P, y(j))
           Good == {j \in Nat : j <= Len(a) => Is(j)}
<1>1. /\ x[k] = Append(P, <<>>)
      /\ \A i \in Nat : s[i + 1] # d => x[i + 1] = Longer(x[i], s[i + 1])
  BY CutNext, Zenon DEF CutInto
<1> HIDE DEF x
<1>2. Len(a) \in Nat
  BY LenProperties
<1>3. 0 \in Good
  <2>1. y(0) = <<>>
    BY SubSeqEmpty
  <2>2. k + 0 = k
    OBVIOUS
  <2> HIDE DEF y
  <2>3. Is(0)
    BY <1>1, <2>1, <2>2, Zenon
  <2> HIDE DEF Is
  <2> QED
    BY <2>3
<1>4. ASSUME NEW j \in Nat, j \in Good PROVE j + 1 \in Good
  <2> SUFFICES ASSUME j + 1 <= Len(a) PROVE Is(j + 1)
    <3> HIDE DEF Is
    <3> QED
      OBVIOUS
  <2>1. j < Len(a) /\ j <= Len(a) /\ j + 1 \in 1..Len(a)
    BY <1>2
  <2>2. x[k + j] = Append(P, y(j))
    <3>1. Is(j)
      <4> HIDE DEF Is
      <4> QED
        BY <1>4, <2>1
    <3> QED
      BY <3>1
  <2>3. /\ y(j) \in Seq(S) /\ a[j + 1] \in S
        /\ y(j + 1) = Append(y(j), a[j + 1])
    BY <2>1, OneMore, Zenon
  <2>4. k + j \in Nat /\ (k + j) + 1 = k + (j + 1)
    OBVIOUS
  <2>5. s[(k + j) + 1] = a[j + 1] /\ a[j + 1] # d
    BY <2>1, <2>4 DEF IsPiece
  <2> DEFINE q == x[k + j]
             c == a[j + 1]
             z == y(j)
  <2>6. x[(k + j) + 1] = Longer(q, c)
    <3>1. x[(k + j) + 1] = Longer(q, s[(k + j) + 1])
      BY <1>1, <2>4, <2>5, Zenon
    <3> QED
      BY <2>5, <3>1, Zenon
  <2>7. q = Append(P, z) /\ c \in S /\ z \in Seq(S)
    BY <2>2, <2>3, Zenon
  <2> HIDE DEF q, c, z
  <2>8. Longer(q, c) = Append(P, Append(z, c))
    BY <2>7, LongerPiece
  <2> QED
    BY <2>3, <2>4, <2>6, <2>8, Zenon DEF c, z
<1>5. Len(a) \in Good
  <2> HIDE DEF Good
  <2> QED
    BY <1>2, <1>3, <1>4, Cutting!Induction
<1>6. Is(Len(a))
  <2>1. Len(a) <= Len(a)
    BY <1>2
  <2> HIDE DEF Is
  <2> QED
    BY <1>2, <1>5, <2>1
<1>7. y(Len(a)) = a
  BY SubSeqFull
<1> QED
  BY <1>6, <1>7, Zenon DEF x, CutInto

\* The pieces of the first n characters depend on these only.
LEMMA SameCut ==
    ASSUME NEW s, NEW t, NEW d, NEW n \in Nat, SameStart(s, t, n)
    PROVE  SameCutAt(s, t, d, n)
<1> DEFINE x    == CutOf(s, d)
           y    == CutOf(t, d)
           Good == {k \in Nat : k <= n => x[k] = y[k]}
<1>1. /\ x[0] = << <<>> >>
      /\ \A k \in Nat : s[k + 1] = d => x[k + 1] = Append(x[k], <<>>)
      /\ \A k \in Nat : s[k + 1] # d => x[k + 1] = Longer(x[k], s[k + 1])
  BY CutNext, Zenon
<1>2. /\ y[0] = << <<>> >>
      /\ \A k \in Nat : t[k + 1] = d => y[k + 1] = Append(y[k], <<>>)
      /\ \A k \in Nat : t[k + 1] # d => y[k + 1] = Longer(y[k], t[k + 1])
  BY CutNext, Zenon
<1> HIDE DEF x, y
<1>3. 0 \in Good
  BY <1>1, <1>2
<1>4. ASSUME NEW k \in Nat, k \in Good PROVE k + 1 \in Good
  <2> SUFFICES ASSUME k + 1 <= n PROVE x[k + 1] = y[k + 1]
    OBVIOUS
  <2>1. x[k] = y[k] /\ s[k + 1] = t[k + 1]
    BY <1>4 DEF SameStart
  <2> QED
    BY <1>1, <1>2, <2>1, Zenon
<1>5. n \in Good
  <2> HIDE DEF Good
  <2> QED
    BY <1>3, <1>4, Cutting!Induction
<1> QED
  BY <1>5 DEF x, y, SameCutAt

\* A text without a d is one piece; and after a d, a text without one is one more.
LEMMA OnePiece ==
    ASSUME NEW S, NEW a \in Seq(S), NEW d, \A i \in 1..Len(a) : a[i] # d
    PROVE  AllPieces(a, d) = <<a>>
<1>1. Len(a) \in Nat /\ 0 + Len(a) = Len(a) /\ IsPiece(a, d, 0, a) /\ 0 \in Nat
  BY LenProperties DEF IsPiece
<1>2. CutInto(a, d, 0, Append(<<>>, <<>>))
  <2>1. CutOf(a, d)[0] = << <<>> >>
    BY CutNext, Zenon
  <2>2. Append(<<>>, <<>>) = << <<>> >>
    OBVIOUS
  <2> QED
    BY <2>1, <2>2 DEF CutInto
<1>3. <<>> \in Seq(Seq(S))
  OBVIOUS
<1>4. CutInto(a, d, 0 + Len(a), Append(<<>>, a))
  BY <1>1, <1>2, <1>3, PieceRead, Zenon
<1>5. Append(<<>>, a) = <<a>>
  OBVIOUS
<1> QED
  BY <1>1, <1>4, <1>5 DEF AllPieces, CutInto

LEMMA MorePieces ==
    ASSUME NEW S, NEW u \in Seq(S), NEW d \in S, NEW a \in Seq(S), NEW P \in Seq(Seq(S)),
           AllPieces(u, d) = P, \A i \in 1..Len(a) : a[i] # d
    PROVE  AllPieces((u \o <<d>>) \o a, d) = Append(P, a)
<1> DEFINE e == <<d>>
           v == u \o e
           s == v \o a
           n == Len(u)
<1>1. e \in Seq(S) /\ Len(e) = 1 /\ e[1] = d
  OBVIOUS
<1> HIDE DEF e
<1>2. IsConcat(v, u, e, S)
  BY <1>1, ConcatFacts, Zenon
<1> HIDE DEF v
<1>3. v \in Seq(S) /\ Len(v) = n + 1 /\ n \in Nat /\ v[n + 1] = d /\ \A i \in 1..n : v[i] = u[i]
  BY <1>1, <1>2 DEF IsConcat
<1>4. IsConcat(s, v, a, S)
  BY <1>3, ConcatFacts, Zenon
<1> HIDE DEF s, n
<1>5. /\ Len(s) = (n + 1) + Len(a) /\ Len(a) \in Nat /\ s[n + 1] = d
      /\ \A i \in 1..n : s[i] = u[i]
      /\ \A i \in 1..Len(a) : s[(n + 1) + i] = a[i]
  <2>1. /\ Len(s) = Len(v) + Len(a) /\ Len(a) \in Nat
        /\ \A i \in 1..Len(v) : s[i] = v[i]
        /\ \A i \in 1..Len(a) : s[Len(v) + i] = a[i]
    BY <1>4 DEF IsConcat
  <2>2. n + 1 \in 1..(n + 1) /\ \A i \in 1..n : i \in 1..(n + 1)
    BY <1>3
  <2> QED
    BY <1>3, <2>1, <2>2
<1>6. CutOf(s, d)[n] = P
  <2>1. CutOf(s, d)[n] = CutOf(u, d)[n]
    <3>1. n \in Nat /\ SameStart(s, u, n)
      BY <1>3, <1>5, Zenon DEF SameStart
    <3>2. SameCutAt(s, u, d, n)
      BY <3>1, SameCut, Zenon
    <3> QED
      BY <3>2 DEF SameCutAt
  <2> QED
    BY <2>1, Zenon DEF AllPieces, n
<1>7. CutInto(s, d, n + 1, Append(P, <<>>))
  <2>1. \A k \in Nat : s[k + 1] = d => CutOf(s, d)[k + 1] = Append(CutOf(s, d)[k], <<>>)
    BY CutNext, Zenon
  <2> QED
    BY <1>3, <1>5, <1>6, <2>1, Zenon DEF CutInto
<1>8. CutInto(s, d, (n + 1) + Len(a), Append(P, a))
  <2>1. n + 1 \in Nat /\ \A i \in 1..Len(a) : s[(n + 1) + i] = a[i] /\ a[i] # d
    BY <1>3, <1>5
  <2> QED
    <3>1. IsPiece(s, d, n + 1, a)
      BY <2>1, Zenon DEF IsPiece
    <3> QED
      BY <1>7, <2>1, <3>1, PieceRead, Zenon
<1>9. AllPieces(s, d) = Append(P, a)
  BY <1>5, <1>8 DEF AllPieces, CutInto
<1> QED
  BY <1>9, Zenon DEF s, v, e

LEMMA Pair ==
    ASSUME NEW T
    PROVE  /\ \A a, b \in T : /\ <<a>> \in Seq(T) /\ Append(<<a>>, b) = <<a, b>>
                              /\ <<a, b>> \in Seq(T)
           /\ \A a, b, c \in T : Append(<<a, b>>, c) = <<a, b, c>> /\ <<a, b, c>> \in Seq(T)
<1>1. ASSUME NEW a \in T, NEW b \in T, NEW c \in T
      PROVE  /\ Append(<<a>>, b) = <<a, b>> /\ Append(<<a, b>>, c) = <<a, b, c>>
             /\ <<a>> \in Seq(T) /\ <<a, b>> \in Seq(T) /\ <<a, b, c>> \in Seq(T)
  <2>1. <<a>> \in Seq(T)
    OBVIOUS
  <2>2. <<a, b>> \in Seq(T)
    OBVIOUS
  <2>3. <<a, b, c>> \in Seq(T)
    OBVIOUS
  <2>4. Append(<<a>>, b) = <<a, b>>
    <3> DEFINE p == <<a>>
               r == <<a, b>>
               q == Append(p, b)
    <3>1. p \in Seq(T) /\ Len(p) = 1 /\ p[1] = a
      BY <2>1
    <3>2. r \in Seq(T) /\ Len(r) = 2 /\ r[1] = a /\ r[2] = b
      BY <2>2
    <3> HIDE DEF p, r
    <3>3. IsAppend(q, p, b, T)
      BY <3>1, AppendFacts, Zenon
    <3> HIDE DEF q
    <3>4. q \in Seq(T) /\ Len(q) = 2 /\ q[1] = a /\ q[2] = b
      BY <3>1, <3>3 DEF IsAppend
    <3>5. \A i \in 1..2 : q[i] = r[i]
      BY <3>2, <3>4
    <3>6. q = r
      BY <3>2, <3>4, <3>5, SeqEqual
    <3> QED
      BY <3>6, Zenon DEF p, q, r
  <2>5. Append(<<a, b>>, c) = <<a, b, c>>
    <3> DEFINE p == <<a, b>>
               r == <<a, b, c>>
               q == Append(p, c)
    <3>1. p \in Seq(T) /\ Len(p) = 2 /\ p[1] = a /\ p[2] = b
      BY <2>2
    <3>2. r \in Seq(T) /\ Len(r) = 3 /\ r[1] = a /\ r[2] = b /\ r[3] = c
      BY <2>3
    <3> HIDE DEF p, r
    <3>3. IsAppend(q, p, c, T)
      BY <3>1, AppendFacts, Zenon
    <3> HIDE DEF q
    <3>4. q \in Seq(T) /\ Len(q) = 3 /\ q[1] = a /\ q[2] = b /\ q[3] = c
      BY <3>1, <3>3 DEF IsAppend
    <3>5. \A i \in 1..3 : q[i] = r[i]
      BY <3>2, <3>4
    <3>6. q = r
      BY <3>2, <3>4, <3>5, SeqEqual
    <3> QED
      BY <3>6, Zenon DEF p, q, r
  <2> QED
    BY <2>1, <2>2, <2>3, <2>4, <2>5, Zenon
<1> QED
  BY <1>1, Zenon

\* The texts between two ds; and those around one.
LEMMA TwoPieces ==
    ASSUME NEW S, NEW a \in Seq(S), NEW b \in Seq(S), NEW d \in S,
           \A i \in 1..Len(a) : a[i] # d, \A i \in 1..Len(b) : b[i] # d
    PROVE  /\ (a \o <<d>>) \o b \in Seq(S)
           /\ AllPieces((a \o <<d>>) \o b, d) = <<a, b>>
           /\ Pieces((a \o <<d>>) \o b, d) = <<a, b>>
<1> DEFINE e == <<d>>
           v == a \o e
           s == v \o b
<1>1. AllPieces(a, d) = <<a>>
  BY OnePiece
<1>2. <<a>> \in Seq(Seq(S)) /\ Append(<<a>>, b) = <<a, b>>
  BY Pair, Zenon
<1>3. AllPieces(s, d) = <<a, b>>
  <2>1. AllPieces((a \o <<d>>) \o b, d) = Append(<<a>>, b)
    BY <1>1, <1>2, MorePieces
  <2> QED
    BY <1>2, <2>1, Zenon
<1>4. e \in Seq(S) /\ Len(e) = 1
  OBVIOUS
<1> HIDE DEF e
<1>5. IsConcat(v, a, e, S)
  BY <1>4, ConcatFacts, Zenon
<1> HIDE DEF v
<1>6. v \in Seq(S) /\ Len(v) > 0
  BY <1>4, <1>5 DEF IsConcat
<1>7. IsConcat(s, v, b, S)
  BY <1>6, ConcatFacts, Zenon
<1> HIDE DEF s
<1>8. s \in Seq(S) /\ Len(s) > 0
  BY <1>6, <1>7 DEF IsConcat
<1>9. s # <<>>
  BY <1>8
<1>10. Pieces(s, d) = <<a, b>>
  BY <1>3, <1>8, <1>9, PiecesOf, Zenon
<1> QED
  BY <1>3, <1>8, <1>10, Zenon DEF s, v, e

LEMMA ThreePieces ==
    ASSUME NEW S, NEW a \in Seq(S), NEW b \in Seq(S), NEW c \in Seq(S), NEW d \in S,
           \A i \in 1..Len(a) : a[i] # d, \A i \in 1..Len(b) : b[i] # d,
           \A i \in 1..Len(c) : c[i] # d
    PROVE  Pieces((((a \o <<d>>) \o b) \o <<d>>) \o c, d) = <<a, b, c>>
<1> DEFINE e == <<d>>
           w == (a \o <<d>>) \o b
           v == w \o e
           s == v \o c
<1>1. w \in Seq(S) /\ AllPieces(w, d) = <<a, b>>
  BY TwoPieces, Zenon
<1>2. <<a, b>> \in Seq(Seq(S)) /\ Append(<<a, b>>, c) = <<a, b, c>>
  BY Pair, Zenon
<1> HIDE DEF w
<1>3. AllPieces((w \o <<d>>) \o c, d) = Append(<<a, b>>, c)
  BY <1>1, <1>2, MorePieces
<1>4. e \in Seq(S) /\ Len(e) = 1 /\ e = <<d>>
  OBVIOUS
<1> HIDE DEF e
<1>5. IsConcat(v, w, e, S)
  BY <1>1, <1>4, ConcatFacts, Zenon
<1>11. s = (w \o <<d>>) \o c
  BY <1>4
<1> HIDE DEF v
<1>6. v \in Seq(S) /\ Len(v) > 0
  BY <1>4, <1>5 DEF IsConcat
<1>7. IsConcat(s, v, c, S)
  BY <1>6, ConcatFacts, Zenon
<1> HIDE DEF s
<1>8. s \in Seq(S) /\ Len(s) > 0
  BY <1>6, <1>7 DEF IsConcat
<1>9. s # <<>>
  BY <1>8
<1>10. Pieces(s, d) = <<a, b, c>>
  BY <1>2, <1>3, <1>8, <1>9, <1>11, PiecesOf, Zenon
<1> QED
  BY <1>10, <1>11, Zenon DEF w

-----------------------------------------------------------------------------
(* What a user types.                                                      *)

\* A text of digits.
DigitText(s) == s \in Seq(DigitsOf(10)) /\ s # <<>>

LEMMA DigitFacts ==
    /\ DigitsOf(10) = Zero..Nine /\ DigitsOf(10) \subseteq Nat /\ Zero \in DigitsOf(10)
    /\ \A c \in DigitsOf(10) : c # Space /\ c # Colon /\ c # Plus /\ c # Dash
    /\ Colon \in Nat
  BY DEF DigitsOf, Zero, Nine, Space, Colon, Plus, Dash

\* A number that begins with digits has a value; and what parseInt reads is a number
\* or none.
LEMMA NumberType ==
    ASSUME NEW s \in Seq(Nat), NEW base \in Bases
    PROVE  Number(s, base) \in Int
<1> DEFINE x    == ReadingOf(s, base)
           Good == {k \in Nat : k <= Len(s) => x[k] \in Int}
<1>1. /\ x[0] = 0
      /\ \A k \in Nat : x[k + 1] = (base * x[k]) + Hex(s[k + 1])
      /\ Len(s) \in Nat => Number(s, base) = x[Len(s)]
  BY ReadingNext, Zenon
<1>2. Len(s) \in Nat
  BY LenProperties
<1> HIDE DEF x
<1>3. 0 \in Good
  BY <1>1
<1>4. ASSUME NEW k \in Nat, k \in Good PROVE k + 1 \in Good
  <2> SUFFICES ASSUME k + 1 <= Len(s) PROVE x[k + 1] \in Int
    OBVIOUS
  <2>1. x[k] \in Int /\ k + 1 \in 1..Len(s)
    BY <1>2, <1>4
  <2>2. s[k + 1] \in Nat
    BY <2>1, ElementOfSeq
  <2> DEFINE c == s[k + 1]
  <2>3. Hex(c) \in Int
    <3> HIDE DEF c
    <3>1. c \in Nat
      BY <2>2 DEF c
    <3> QED
      BY <3>1 DEF Hex, None, Zero, Nine, UpperA, UpperF, LowerA, LowerF
  <2>4. x[k + 1] = (base * x[k]) + Hex(c)
    BY <1>1, Zenon
  <2> HIDE DEF c
  <2>5. base \in Nat
    BY DEF Bases
  <2>6. base * x[k] \in Int
    BY <2>1, <2>5
  <2> QED
    BY <2>3, <2>4, <2>6
<1>5. Len(s) \in Good
  <2> HIDE DEF Good
  <2> QED
    BY <1>2, <1>3, <1>4, Reading!Induction
<1> QED
  BY <1>1, <1>2, <1>5

\* What is left of a text without the spaces around it.
LEMMA TrimType ==
    ASSUME NEW S, NEW s \in Seq(S)
    PROVE  Trim(s) \in Seq(S)
<1> DEFINE kept == {i \in DOMAIN s : s[i] # Space}
           low  == CHOOSE i \in kept : \A j \in kept : i <= j
           high == CHOOSE i \in kept : \A j \in kept : i >= j
<1>1. CASE kept = {}
  BY <1>1 DEF Trim
<1>2. CASE kept # {}
  <2>1. kept \in SUBSET (1..Len(s)) /\ Len(s) \in Nat
    BY LenProperties
  <2>2. low \in kept
    <3>1. \E i \in kept : \A j \in kept : i <= j
      <4>1. kept \in SUBSET Nat
        BY <2>1
      <4> HIDE DEF kept
      <4> QED
        BY <1>2, <4>1, Cutting!Least
    <3> HIDE DEF kept
    <3> QED
      BY <3>1
  <2>3. \E i \in kept : \A j \in kept : i >= j
    <3> DEFINE back == {n \in Nat : \E i \in kept : n = Len(s) - i}
    <3>1. back \in SUBSET Nat /\ back # {}
      <4>1. PICK i \in kept : TRUE
        BY <1>2
      <4>2. i \in 1..Len(s)
        BY <2>1
      <4>3. Len(s) - i \in back
        BY <2>1, <4>1, <4>2
      <4> QED
        BY <4>3
    <3>2. PICK n \in back : \A m \in back : n <= m
      <4> HIDE DEF back
      <4> QED
        BY <3>1, Cutting!Least
    <3>3. PICK i \in kept : n = Len(s) - i
      BY <3>2
    <3>4. ASSUME NEW j \in kept PROVE i >= j
      <4>1. i \in 1..Len(s) /\ j \in 1..Len(s)
        BY <2>1
      <4>2. Len(s) - j \in back
        BY <2>1, <4>1
      <4>3. n <= Len(s) - j
        BY <3>2, <4>2
      <4> QED
        BY <2>1, <3>3, <4>1, <4>3
    <3> QED
      BY <3>4
  <2>4. high \in kept
    <3> HIDE DEF kept
    <3> QED
      BY <2>3
  <2>5. Trim(s) = SubSeq(s, low, high)
    BY <1>2 DEF Trim
  <2>6. low \in 1..Len(s) /\ high \in 1..Len(s)
    BY <2>1, <2>2, <2>4
  <2> HIDE DEF low, high, kept
  <2>7. \A i \in low..high : s[i] \in S
    BY <2>1, <2>6, ElementOfSeq
  <2>8. SubSeq(s, low, high) \in Seq(S)
    BY <2>6, <2>7, SubSeqProperties
  <2> QED
    BY <2>5, <2>8
<1> QED
  BY <1>1, <1>2


LEMMA TrimKeeps ==
    ASSUME NEW S, NEW s \in Seq(S), \A i \in 1..Len(s) : s[i] # Space
    PROVE  Trim(s) = s
<1> DEFINE kept == {i \in DOMAIN s : s[i] # Space}
           low  == CHOOSE i \in kept : \A j \in kept : i <= j
           high == CHOOSE i \in kept : \A j \in kept : i >= j
           n    == Len(s)
<1>1. kept = 1..n /\ n \in Nat
  <2>1. DOMAIN s = 1..n /\ n \in Nat
    BY LenProperties
  <2> QED
    BY <2>1
<1>2. CASE n = 0
  <2>1. kept = {}
    BY <1>1, <1>2
  <2>2. s = <<>>
    BY <1>2, EmptySeq
  <2> QED
    BY <2>1, <2>2 DEF Trim
<1>3. CASE n > 0
  <2>1. kept # {} /\ 1 \in kept /\ n \in kept
    BY <1>1, <1>3
  <2>2. Trim(s) = SubSeq(s, low, high)
    BY <2>1 DEF Trim
  <2> HIDE DEF kept, n
  <2>3. low \in kept /\ \A j \in kept : low <= j
    <3>1. \A j \in kept : 1 <= j
      BY <1>1
    <3> QED
      BY <2>1, <3>1
  <2>4. high \in kept /\ \A j \in kept : high >= j
    <3>1. \A j \in kept : n >= j
      BY <1>1
    <3> QED
      BY <2>1, <3>1
  <2> HIDE DEF low, high
  <2>5. low = 1 /\ high = n
    BY <1>1, <1>3, <2>3, <2>4
  <2>6. SubSeq(s, 1, n) = s
    BY SubSeqFull DEF n
  <2> QED
    BY <2>2, <2>5, <2>6, Zenon
<1> QED
  BY <1>1, <1>2, <1>3

\* Mid-way through parseInt: the place of the first character that is no digit.
NonDigit(t) == SelectInSeq(t, LAMBDA c : c \notin Zero..Nine)
DigitsAhead(t) == IF NonDigit(t) = 0 THEN t ELSE SubSeq(t, 1, NonDigit(t) - 1)
Signed(t) == t # <<>> /\ t[1] \in {Plus, Dash}
AfterSign(t) == IF Signed(t) THEN Tail(t) ELSE t

LEMMA ParseParts ==
    ASSUME NEW s
    PROVE  ParseInt(s) =
             IF DigitsAhead(AfterSign(Trim(s))) = <<>> THEN NaN
             ELSE <<IF Signed(Trim(s)) /\ Trim(s)[1] = Dash
                    THEN -Number(DigitsAhead(AfterSign(Trim(s))), 10)
                    ELSE Number(DigitsAhead(AfterSign(Trim(s))), 10)>>
  BY Zenon DEF ParseInt, DigitsAhead, AfterSign, Signed, NonDigit

LEMMA NonDigitFacts ==
    ASSUME NEW S, NEW t \in Seq(S)
    PROVE  /\ NonDigit(t) \in 0..Len(t) /\ Len(t) \in Nat
           /\ (\A i \in 1..Len(t) : t[i] \in Zero..Nine) => NonDigit(t) = 0
<1> DEFINE I == {i \in 1..Len(t) : t[i] \notin Zero..Nine}
<1>1. NonDigit(t) = IF I # {} THEN CHOOSE x \in I : \A y \in I : x <= y ELSE 0
  BY Zenon DEF NonDigit, SelectInSeq, Min
<1>2. Len(t) \in Nat
  BY LenProperties
<1>3. I \in SUBSET (1..Len(t)) /\ ((\A i \in 1..Len(t) : t[i] \in Zero..Nine) => I = {})
  OBVIOUS
<1> HIDE DEF I
<1>4. I # {} => (CHOOSE x \in I : \A y \in I : x <= y) \in I
  <2> SUFFICES ASSUME I # {} PROVE (CHOOSE x \in I : \A y \in I : x <= y) \in I
    OBVIOUS
  <2>1. I \in SUBSET Nat
    BY <1>2, <1>3
  <2>2. \E x \in I : \A y \in I : x <= y
    BY <2>1, Cutting!Least
  <2> QED
    BY <2>2
<1> DEFINE m == CHOOSE x \in I : \A y \in I : x <= y
<1> HIDE DEF m
<1>5. NonDigit(t) = IF I # {} THEN m ELSE 0
  BY <1>1 DEF m
<1>6. I # {} => m \in I
  BY <1>4 DEF m
<1>7. NonDigit(t) \in 0..Len(t)
  <2> DEFINE n == Len(t)
  <2>1. n \in Nat /\ I \in SUBSET (1..n)
    BY <1>2, <1>3
  <2> HIDE DEF n
  <2>2. CASE I = {}
    <3>1. NonDigit(t) = 0
      BY <1>5, <2>2
    <3>2. 0 \in 0..n
      BY <2>1
    <3> QED
      BY <3>1, <3>2, Zenon DEF n
  <2>3. CASE I # {}
    <3>1. NonDigit(t) = m
      BY <1>5, <2>3, Zenon
    <3>2. m \in 1..n
      BY <1>6, <2>1, <2>3, Zenon
    <3>3. m \in 0..n
      BY <2>1, <3>2
    <3> QED
      BY <3>1, <3>3, Zenon DEF n
  <2> QED
    BY <2>2, <2>3
<1> QED
  BY <1>2, <1>3, <1>5, <1>7

\* What parseInt makes of digits, and of any text.
LEMMA ParseDigits ==
    ASSUME NEW s, DigitText(s)
    PROVE  ParseInt(s) = <<Number(s, 10)>>
<1>1. s \in Seq(DigitsOf(10)) /\ s # <<>>
  BY DEF DigitText
<1>2. \A i \in 1..Len(s) : s[i] \in DigitsOf(10)
  BY <1>1, ElementOfSeq
<1>3. \A i \in 1..Len(s) : s[i] # Space /\ s[i] # Plus /\ s[i] # Dash /\ s[i] \in Zero..Nine
  BY <1>2, DigitFacts, Zenon
<1>4. Trim(s) = s
  BY <1>1, <1>3, TrimKeeps, Zenon
<1>5. ~Signed(s)
  <2>1. 1 \in 1..Len(s)
    BY <1>1, EmptySeq
  <2> QED
    BY <1>3, <2>1, Zenon DEF Signed
<1>6. AfterSign(s) = s
  BY <1>5, Zenon DEF AfterSign
<1>7. NonDigit(s) = 0
  BY <1>1, <1>3, NonDigitFacts, Zenon
<1>8. DigitsAhead(s) = s
  BY <1>7, Zenon DEF DigitsAhead
<1> QED
  BY <1>1, <1>4, <1>5, <1>6, <1>8, ParseParts, Zenon

LEMMA ParseType ==
    ASSUME NEW s \in Seq(Nat)
    PROVE  ParseInt(s) = NaN \/ \E v \in Int : ParseInt(s) = <<v>>
<1> DEFINE t == Trim(s)
           u == AfterSign(t)
           d == DigitsAhead(u)
           n == Number(d, 10)
<1>1. t \in Seq(Nat)
  BY TrimType
<1>2. u \in Seq(Nat)
  <2> HIDE DEF t
  <2>1. CASE Signed(t)
    <3>1. t # <<>>
      BY <2>1 DEF Signed
    <3>2. Tail(t) \in Seq(Nat)
      BY <1>1, <3>1, HeadTailProperties
    <3> QED
      BY <2>1, <3>2 DEF AfterSign
  <2>2. CASE ~Signed(t)
    BY <1>1, <2>2 DEF AfterSign
  <2> QED
    BY <2>1, <2>2
<1> HIDE DEF u
<1>3. d \in Seq(Nat)
  <2>1. NonDigit(u) \in 0..Len(u) /\ Len(u) \in Nat
    BY <1>2, NonDigitFacts, Zenon
  <2>2. CASE NonDigit(u) = 0
    BY <1>2, <2>2 DEF DigitsAhead
  <2>3. CASE NonDigit(u) # 0
    <3> DEFINE m == NonDigit(u) - 1
    <3>1. m \in Nat /\ m <= Len(u)
      BY <2>1, <2>3
    <3> HIDE DEF m
    <3>2. \A i \in 1..m : u[i] \in Nat
      BY <1>2, <2>1, <3>1, ElementOfSeq
    <3>3. SubSeq(u, 1, m) \in Seq(Nat)
      BY <3>1, <3>2, SubSeqProperties
    <3> QED
      BY <2>3, <3>3 DEF DigitsAhead, m
  <2> QED
    BY <2>2, <2>3
<1> HIDE DEF d
<1>4. n \in Int
  <2>1. 10 \in Bases
    BY DEF Bases
  <2> QED
    BY <1>3, <2>1, NumberType
<1> HIDE DEF n
<1>5. ParseInt(s) = IF d = <<>> THEN NaN ELSE <<IF Signed(t) /\ t[1] = Dash THEN -n ELSE n>>
  BY ParseParts, Zenon DEF d, u, n
<1> HIDE DEF t
<1>6. -n \in Int
  BY <1>4
<1> QED
  BY <1>4, <1>5, <1>6


\* What a number is written as, with a zero in front or not, is read as the number.
LEMMA NumberIsRead ==
    ASSUME NEW v \in Nat
    PROVE  /\ NumberText(<<v>>) = Decimal(v)
           /\ DigitText(Decimal(v)) /\ ParseInt(Decimal(v)) = <<v>>
           /\ DigitText(padZero(Decimal(v))) /\ ParseInt(padZero(Decimal(v))) = <<v>>
<1> DEFINE s == Decimal(v)
<1>1. NumberText(<<v>>) = s
  <2> HIDE DEF s
  <2>1. <<v>> # NaN /\ ~(<<v>>[1] < 0) /\ <<v>>[1] = v
    BY DEF NaN
  <2> DEFINE x == <<v>>
  <2>2. x # NaN /\ ~(x[1] < 0) /\ x[1] = v
    BY <2>1
  <2> HIDE DEF x
  <2>3. NumberText(x) = Decimal(x[1])
    BY <2>2, Zenon DEF NumberText
  <2>4. NumberText(x) = s
    BY <2>2, <2>3, Zenon DEF s
  <2> QED
    BY <2>4, Zenon DEF x
<1>2. s \in Seq(DigitsOf(10)) /\ s # <<>> /\ Number(s, 10) = v
  <2>1. 10 \in Bases
    BY DEF Bases
  <2> QED
    BY <2>1, NumbersRoundTrip, Zenon DEF Decimal
<1> HIDE DEF s
<1>3. DigitText(s) /\ ParseInt(s) = <<v>>
  <2>1. DigitText(s)
    BY <1>2 DEF DigitText
  <2> QED
    BY <1>2, <2>1, ParseDigits, Zenon
<1>4. DigitText(padZero(s)) /\ ParseInt(padZero(s)) = <<v>>
  <2>1. CASE Len(s) # 1
    BY <1>3, <2>1, Zenon DEF padZero
  <2>2. CASE Len(s) = 1
    <3> DEFINE z == <<Zero>>
               u == z \o s
    <3>1. padZero(s) = u
      BY <2>2, Zenon DEF padZero
    <3>2. All(1, Zero) = z
      BY DEF All
    <3>3. 10 \in Bases /\ 1 \in Nat
      BY DEF Bases
    <3>4. Number(All(1, Zero) \o s, 10) = Number(s, 10)
      BY <1>2, <3>3, DigitFacts, LeadingZeros, Zenon
    <3>5. Number(u, 10) = v
      BY <1>2, <3>2, <3>4, Zenon
    <3>6. z \in Seq(DigitsOf(10)) /\ Len(z) = 1
      BY DigitFacts
    <3> HIDE DEF z
    <3>7. IsConcat(u, z, s, DigitsOf(10))
      BY <1>2, <3>6, ConcatFacts, Zenon
    <3> HIDE DEF u
    <3>8. u \in Seq(DigitsOf(10)) /\ u # <<>>
      BY <3>6, <3>7 DEF IsConcat
    <3>9. DigitText(u)
      BY <3>8, Zenon DEF DigitText
    <3>10. ParseInt(u) = <<v>>
      BY <3>5, <3>9, ParseDigits, Zenon
    <3> QED
      BY <3>1, <3>9, <3>10, Zenon
  <2> QED
    BY <2>1, <2>2
<1> QED
  BY <1>1, <1>3, <1>4, Zenon DEF s

LEMMA TrimDigits ==
    ASSUME NEW s, DigitText(s)
    PROVE  Trim(s) = s
<1>1. s \in Seq(DigitsOf(10))
  BY DEF DigitText
<1>2. \A i \in 1..Len(s) : s[i] \in DigitsOf(10)
  BY <1>1, ElementOfSeq
<1> QED
  BY <1>1, <1>2, DigitFacts, TrimKeeps, Zenon

\* Three texts of digits, with colons between them, are taken apart again.
ApartAre(f, q) == Split(Colons(f), Colon) = q
LEMMA ColonsApart ==
    ASSUME NEW a, NEW b, NEW c, DigitText(a), DigitText(b), DigitText(c),
           NEW f, f[1] = a, f[2] = b, f[3] = c
    PROVE  ApartAre(f, <<a, b, c>>)
<1> DEFINE S == Nat
           s == (((a \o <<Colon>>) \o b) \o <<Colon>>) \o c
<1>1. /\ a \in Seq(S) /\ b \in Seq(S) /\ c \in Seq(S)
      /\ \A i \in 1..Len(a) : a[i] # Colon
      /\ \A i \in 1..Len(b) : b[i] # Colon
      /\ \A i \in 1..Len(c) : c[i] # Colon
  <2>1. ASSUME NEW t, DigitText(t)
        PROVE  t \in Seq(S) /\ \A i \in 1..Len(t) : t[i] # Colon
    <3>1. t \in Seq(DigitsOf(10))
      BY <2>1 DEF DigitText
    <3>2. \A i \in 1..Len(t) : t[i] \in DigitsOf(10)
      BY <3>1, ElementOfSeq
    <3>3. t \in Seq(S)
      BY <3>1, DigitFacts, SeqMonotonic
    <3> QED
      BY <3>2, <3>3, DigitFacts, Zenon
  <2> QED
    BY <2>1, Zenon
<1>2. Pieces(s, Colon) = <<a, b, c>>
  <2> HIDE DEF S
  <2>1. Colon \in S
    BY DigitFacts DEF S
  <2> QED
    BY <1>1, <2>1, ThreePieces
<1>3. Colons(f) = s
  BY Zenon DEF Colons
<1> DEFINE q == <<a, b, c>>
<1>4. Split(Colons(f), Colon) = [k \in DOMAIN q |-> Trim(q[k])]
  BY <1>2, <1>3, Zenon DEF Split
<1>5. DOMAIN q = 1..3 /\ q[1] = a /\ q[2] = b /\ q[3] = c /\ q = [k \in 1..3 |-> q[k]]
  OBVIOUS
<1> HIDE DEF q
<1>6. Trim(a) = a /\ Trim(b) = b /\ Trim(c) = c
  BY TrimDigits
<1>7. \A k \in 1..3 : Trim(q[k]) = q[k]
  BY <1>5, <1>6
<1> QED
  BY <1>4, <1>5, <1>7 DEF q, ApartAre


-----------------------------------------------------------------------------
(* The form of the batch editor, and sleep.                                *)

\* What the editor shows for the numbers in its fields, and whether it can be saved.
Shown(nodes, hms) ==
    [disabled |-> SaveDisabled(nodes, hms),
     file |-> [nodes |-> NumberText(nodes),
               time |-> Colons([i \in 1..3 |-> padZero(NumberText(hms[i]))])]]

LEMMA ChangeIsShown ==
    ASSUME NEW fields
    PROVE  ChangeBatch(fields) =
              Shown(ParseInt(fields.nodes), [i \in 1..3 |-> ParseInt(fields.time[i])])
  BY Zenon DEF ChangeBatch, Shown

LEMMA ShownFields ==
    ASSUME NEW nodes, NEW hms
    PROVE  /\ Shown(nodes, hms).disabled = SaveDisabled(nodes, hms)
           /\ Shown(nodes, hms).file.nodes = NumberText(nodes)
           /\ Shown(nodes, hms).file.time
                 = Colons([i \in 1..3 |-> padZero(NumberText(hms[i]))])
  BY DEF Shown


IsTyped(v) == v = NaN \/ \E n \in Int : v = <<n>>

LEMMA AtLeastNumber ==
    ASSUME NEW v, IsTyped(v), NEW low \in Nat, AtLeast(v, low)
    PROVE  \E n \in Nat : v = <<n>> /\ n >= low
<1>1. PICK n \in Int : v = <<n>>
  BY DEF AtLeast, IsTyped
<1>2. n >= low
  <2>1. v[1] >= low
    BY DEF AtLeast
  <2>2. v[1] = n
    BY <1>1
  <2> QED
    BY <2>1, <2>2
<1>3. n \in Nat
  BY <1>1, <1>2
<1> QED
  BY <1>1, <1>2, <1>3

LEMMA SavedFields ==
    ASSUME NEW nodes, NEW a, NEW b, NEW c, NEW hms,
           IsTyped(nodes), IsTyped(a), IsTyped(b), IsTyped(c),
           hms = [i \in 1..3 |-> <<a, b, c>>[i]], ~SaveDisabled(nodes, hms)
    PROVE  \E n, h, m, s \in Nat :
              /\ n >= 1 /\ nodes = <<n>> /\ a = <<h>> /\ b = <<m>> /\ c = <<s>>
              /\ h > 0 \/ m > 0 \/ s > 0
<1>1. DOMAIN hms = 1..3 /\ hms[1] = a /\ hms[2] = b /\ hms[3] = c
  OBVIOUS
<1>2. /\ AtLeast(nodes, 1)
      /\ \A i \in DOMAIN hms : AtLeast(hms[i], 0)
      /\ \E i \in DOMAIN hms : hms[i] # <<0>>
  BY DEF SaveDisabled
<1>3. AtLeast(a, 0) /\ AtLeast(b, 0) /\ AtLeast(c, 0)
  <2>1. 1 \in 1..3 /\ 2 \in 1..3 /\ 3 \in 1..3
    OBVIOUS
  <2> QED
    BY <1>1, <1>2, <2>1, Zenon
<1>4. a # <<0>> \/ b # <<0>> \/ c # <<0>>
  BY <1>1, <1>2
<1>5. 0 \in Nat /\ 1 \in Nat
  OBVIOUS
<1>6. PICK n \in Nat : nodes = <<n>> /\ n >= 1
  BY <1>2, <1>5, AtLeastNumber, Zenon
<1>7. PICK h \in Nat : a = <<h>>
  BY <1>3, <1>5, AtLeastNumber, Zenon
<1>8. PICK m \in Nat : b = <<m>>
  BY <1>3, <1>5, AtLeastNumber, Zenon
<1>9. PICK s \in Nat : c = <<s>>
  BY <1>3, <1>5, AtLeastNumber, Zenon
<1>10. h > 0 \/ m > 0 \/ s > 0
  BY <1>4, <1>7, <1>8, <1>9
<1> QED
  BY <1>6, <1>7, <1>8, <1>9, <1>10, Zenon

\* The three fields of a time; what a file says; what sbatch asks for.
Hms(h, m, s) == [i \in 1..3 |-> <<<<h>>, <<m>>, <<s>>>>[i]]
Says(file, n, h, m, s) ==
    /\ ParseInt(file.nodes) = <<n>> /\ ParseInt(Trim(file.nodes)) = <<n>>
    /\ DOMAIN Split(file.time, Colon) = 1..3
    /\ ParseInt(Split(file.time, Colon)[1]) = <<h>>
    /\ ParseInt(Split(file.time, Colon)[2]) = <<m>>
    /\ ParseInt(Split(file.time, Colon)[3]) = <<s>>
AsksFor(job, n, h, m, s) == job.nodes = n /\ job.sec = (3600 * h) + (60 * m) + s
ShownAgain(file, shown) == ChangeBatch(EditBatchFile(file)) = shown

\* What is shown for numbers is read again, by sbatch and by the form.
LEMMA ShownIsRead ==
    ASSUME NEW n \in Nat, NEW h \in Nat, NEW m \in Nat, NEW s \in Nat
    PROVE  Says(Shown(<<n>>, Hms(h, m, s)).file, n, h, m, s)
<1> DEFINE hms == Hms(h, m, s)
           a == padZero(Decimal(h))
           b == padZero(Decimal(m))
           c == padZero(Decimal(s))
           x == Decimal(n)
           f == [i \in 1..3 |-> padZero(NumberText(hms[i]))]
           q == <<a, b, c>>
<1>1. /\ DigitText(a) /\ ParseInt(a) = <<h>> /\ DigitText(b) /\ ParseInt(b) = <<m>>
      /\ DigitText(c) /\ ParseInt(c) = <<s>> /\ DigitText(x) /\ ParseInt(x) = <<n>>
      /\ NumberText(<<n>>) = x
  BY NumberIsRead, Zenon
<1>2. f[1] = a /\ f[2] = b /\ f[3] = c
  <2>1. hms[1] = <<h>> /\ hms[2] = <<m>> /\ hms[3] = <<s>>
    BY DEF Hms
  <2>2. /\ f[1] = padZero(NumberText(hms[1]))
        /\ f[2] = padZero(NumberText(hms[2]))
        /\ f[3] = padZero(NumberText(hms[3]))
    OBVIOUS
  <2>3. NumberText(<<h>>) = Decimal(h) /\ NumberText(<<m>>) = Decimal(m)
        /\ NumberText(<<s>>) = Decimal(s)
    BY NumberIsRead, Zenon
  <2> QED
    BY <2>1, <2>2, <2>3, Zenon
<1> HIDE DEF a, b, c, x, hms
<1>3. Shown(<<n>>, hms).file.nodes = x /\ Shown(<<n>>, hms).file.time = Colons(f)
  <2>1. Shown(<<n>>, hms).file.nodes = NumberText(<<n>>)
    BY ShownFields
  <2>2. Shown(<<n>>, hms).file.time = Colons(f)
    BY ShownFields
  <2> QED
    BY <1>1, <2>1, <2>2, Zenon
<1> HIDE DEF f
<1>4. Trim(x) = x
  BY <1>1, TrimDigits, Zenon
<1>5. Split(Colons(f), Colon) = q
  <2>1. ApartAre(f, <<a, b, c>>)
    BY <1>1, <1>2, ColonsApart, Zenon
  <2> QED
    BY <2>1, Zenon DEF ApartAre, q
<1>6. DOMAIN q = 1..3 /\ q[1] = a /\ q[2] = b /\ q[3] = c
  OBVIOUS
<1> HIDE DEF q
<1> QED
  BY <1>1, <1>3, <1>4, <1>5, <1>6, Zenon DEF Says, hms


\* What sbatch asks for, and what the form shows again.
LEMMA FileIsSent ==
    ASSUME NEW n \in Nat, NEW h \in Nat, NEW m \in Nat, NEW s \in Nat, NEW file,
           Says(file, n, h, m, s)
    PROVE  AsksFor(SendBatch(file), n, h, m, s)
<1> DEFINE q   == Split(file.time, Colon)
           dur == [i \in DOMAIN q |-> ParseInt(q[i])]
<1>1. DOMAIN q = 1..3 /\ ParseInt(q[1]) = <<h>> /\ ParseInt(q[2]) = <<m>>
      /\ ParseInt(q[3]) = <<s>> /\ ParseInt(file.nodes) = <<n>>
  BY Zenon DEF Says
<1>2. SendBatch(file) = [nodes |-> ParseInt(file.nodes)[1],
                         sec   |-> (3600 * dur[1][1]) + (60 * dur[2][1]) + dur[3][1]]
  BY Zenon DEF SendBatch
<1> HIDE DEF q
<1>3. dur[1] = <<h>> /\ dur[2] = <<m>> /\ dur[3] = <<s>>
  BY <1>1
<1> HIDE DEF dur
<1>4. dur[1][1] = h /\ dur[2][1] = m /\ dur[3][1] = s /\ ParseInt(file.nodes)[1] = n
  BY <1>1, <1>3
<1> QED
  BY <1>2, <1>4 DEF AsksFor

LEMMA FileIsShown ==
    ASSUME NEW n \in Nat, NEW h \in Nat, NEW m \in Nat, NEW s \in Nat, NEW file,
           Says(file, n, h, m, s)
    PROVE  ShownAgain(file, Shown(<<n>>, Hms(h, m, s)))
<1> DEFINE hms == Hms(h, m, s)
           q == Split(file.time, Colon)
           e == EditBatchFile(file)
           f == [i \in 1..3 |-> ParseInt(e.time[i])]
<1>1. DOMAIN q = 1..3 /\ ParseInt(q[1]) = <<h>> /\ ParseInt(q[2]) = <<m>>
      /\ ParseInt(q[3]) = <<s>> /\ ParseInt(Trim(file.nodes)) = <<n>>
  BY Zenon DEF Says
<1>2. e.nodes = Trim(file.nodes) /\ e.time = q
  BY DEF EditBatchFile
<1> HIDE DEF e
<1>3. ChangeBatch(e) = Shown(ParseInt(e.nodes), f)
  BY ChangeIsShown
<1> HIDE DEF q
<1>4. f = hms
  <2>1. f = [i \in 1..3 |-> ParseInt(q[i])]
    BY <1>2
  <2>2. ASSUME NEW i \in 1..3 PROVE ParseInt(q[i]) = <<<<h>>, <<m>>, <<s>>>>[i]
    <3>1. i = 1 \/ i = 2 \/ i = 3
      OBVIOUS
    <3> QED
      BY <1>1, <3>1
  <2> HIDE DEF f
  <2> QED
    BY <2>1, <2>2 DEF Hms
<1> HIDE DEF f, hms
<1>5. ChangeBatch(e) = Shown(<<n>>, hms)
  BY <1>1, <1>2, <1>3, <1>4, Zenon
<1> QED
  BY <1>5, Zenon DEF ShownAgain, hms, e

\* A form that can be saved is sent as it is meant.
LEMMA FormsAreSent ==
    ASSUME text \in Seq(Seq(Nat)), Len(text) = 4
    PROVE  FormIsSent
<1> DEFINE fields  == [nodes |-> text[1], time |-> SubSeq(text, 2, 4)]
           changed == ChangeBatch(fields)
           job     == SendBatch(changed.file)
           meant(i) == ParseInt(text[i])[1]
           nodes   == ParseInt(text[1])
           a       == ParseInt(text[2])
           b       == ParseInt(text[3])
           c       == ParseInt(text[4])
           hms     == [i \in 1..3 |-> <<a, b, c>>[i]]
<1>1. \A i \in 1..4 : text[i] \in Seq(Nat)
  BY ElementOfSeq
<1>2. IsTyped(nodes) /\ IsTyped(a) /\ IsTyped(b) /\ IsTyped(c)
  <2>1. /\ text[1] \in Seq(Nat) /\ text[2] \in Seq(Nat) /\ text[3] \in Seq(Nat)
        /\ text[4] \in Seq(Nat)
    BY <1>1
  <2> QED
    BY <2>1, ParseType, Zenon DEF IsTyped
<1>3. changed = Shown(nodes, hms)
  <2>1. fields.nodes = text[1] /\ fields.time = SubSeq(text, 2, 4)
    OBVIOUS
  <2>2. /\ SubSeq(text, 2, 4)[1] = text[2] /\ SubSeq(text, 2, 4)[2] = text[3]
        /\ SubSeq(text, 2, 4)[3] = text[4]
    OBVIOUS
  <2> HIDE DEF fields
  <2>3. changed = Shown(ParseInt(fields.nodes), [i \in 1..3 |-> ParseInt(fields.time[i])])
    BY ChangeIsShown
  <2> DEFINE f == [i \in 1..3 |-> ParseInt(fields.time[i])]
             t == fields.time
  <2>4. ParseInt(t[1]) = a /\ ParseInt(t[2]) = b /\ ParseInt(t[3]) = c
    BY <2>1, <2>2, Zenon
  <2>5. f = [i \in 1..3 |-> ParseInt(t[i])]
    OBVIOUS
  <2> HIDE DEF t, a, b, c, f
  <2>6. ASSUME NEW i \in 1..3 PROVE ParseInt(t[i]) = <<a, b, c>>[i]
    <3>1. i = 1 \/ i = 2 \/ i = 3
      OBVIOUS
    <3> QED
      BY <2>4, <3>1
  <2>7. f = hms
    BY <2>5, <2>6
  <2> QED
    BY <2>1, <2>3, <2>7, Zenon DEF f
<1> HIDE DEF fields, changed
<1> SUFFICES ASSUME ~changed.disabled
             PROVE  /\ job.nodes = meant(1) /\ job.nodes >= 1
                    /\ job.sec = (3600 * meant(2)) + (60 * meant(3)) + meant(4) /\ job.sec >= 1
                    /\ 60 * Minutes(job.sec) \in job.sec..(job.sec + 59)
                    /\ ChangeBatch(EditBatchFile(changed.file)) = changed
  BY DEF FormIsSent, fields, changed
<1>4. ~SaveDisabled(nodes, hms)
  BY <1>3, ShownFields, Zenon
<1> HIDE DEF nodes, a, b, c
<1>5. PICK n, h, m, s \in Nat :
          /\ n >= 1 /\ nodes = <<n>> /\ a = <<h>> /\ b = <<m>> /\ c = <<s>>
          /\ h > 0 \/ m > 0 \/ s > 0
  BY <1>2, <1>4, SavedFields
<1>6. changed = Shown(<<n>>, Hms(h, m, s))
  <2>1. hms = Hms(h, m, s)
    BY <1>5, Zenon DEF Hms
  <2> QED
    BY <1>3, <1>5, <2>1, Zenon
<1> HIDE DEF hms
<1> DEFINE file == changed.file
<1>7. Says(file, n, h, m, s)
  <2>1. Says(Shown(<<n>>, Hms(h, m, s)).file, n, h, m, s)
    BY ShownIsRead, Zenon
  <2> QED
    BY <1>6, <2>1, Zenon
<1>8. job.nodes = n /\ job.sec = (3600 * h) + (60 * m) + s
  <2> HIDE DEF file
  <2>1. AsksFor(SendBatch(file), n, h, m, s)
    BY <1>7, FileIsSent, Zenon
  <2>2. AsksFor(job, n, h, m, s)
    BY <2>1, Zenon DEF file
  <2> HIDE DEF job
  <2> QED
    BY <2>2 DEF AsksFor
<1>9. meant(1) = n /\ meant(2) = h /\ meant(3) = m /\ meant(4) = s
  <2>1. nodes[1] = n /\ a[1] = h /\ b[1] = m /\ c[1] = s
    BY <1>5
  <2> QED
    BY <2>1, Zenon DEF nodes, a, b, c
<1>10. ChangeBatch(EditBatchFile(file)) = changed
  <2> HIDE DEF file
  <2>1. ShownAgain(file, Shown(<<n>>, Hms(h, m, s)))
    BY <1>7, FileIsShown, Zenon
  <2> QED
    BY <1>6, <2>1, Zenon DEF ShownAgain
<1> HIDE DEF job, meant
<1>11. job.sec \in Nat /\ job.sec >= 1
  BY <1>5, <1>8
<1>12. 60 * Minutes(job.sec) \in job.sec..(job.sec + 59)
  BY <1>11 DEF Minutes
<1> QED
  BY <1>5, <1>8, <1>9, <1>10, <1>11, <1>12 DEF file


\* A number up to another.
UpTo(v, bound) == v \in Nat /\ v <= bound

\* The most seconds that the hours, the minutes and the seconds of a sleep stand for.
MostInHours   == 360000
MostInMinutes == 600000
MostInSeconds == 1000000

\* What sleep adds up stays below what addTime can multiply.
LEMMA SleepFits ==
    ASSUME NEW tokens \in Seq(Seq(Nat)), SleepTime(tokens) # NaN
    PROVE  ~Overflows(SleepTime(tokens)[1])
<1> DEFINE n        == Len(tokens)
           x        == Timing!Rounds(tokens, 0)
           value(i) == ParseInt(tokens[i])[1]
           unit(i)  == Unit(tokens, i)
<1>1. /\ n <= 3 /\ SleepTime(tokens) = <<Timing!Loop(tokens, 0, n)>>
      /\ \A i \in 1..n : AtLeast(ParseInt(tokens[i]), 0) /\ value(i) <= Limit(unit(i))
  BY Zenon DEF SleepTime
<1>2. n \in Nat
  BY LenProperties
<1>3. /\ x[0] = 0
      /\ \A i \in Nat : x[i + 1] = x[i] + (unit(i + 1) * value(i + 1))
      /\ \A i \in Nat : x[i] = Timing!Loop(tokens, 0, i)
  BY Timing!RoundsNext, Zenon DEF SleepRound
<1>4. SleepTime(tokens)[1] = x[n]
  <2>1. SleepTime(tokens) = <<x[n]>>
    BY <1>1, <1>2, <1>3, Zenon
  <2> HIDE DEF x
  <2> QED
    BY <2>1
<1> HIDE DEF x
<1>5. \A i \in 1..n : value(i) \in Nat
  <2> SUFFICES ASSUME NEW i \in 1..n PROVE value(i) \in Nat
    OBVIOUS
  <2>1. tokens[i] \in Seq(Nat)
    BY ElementOfSeq
  <2>2. IsTyped(ParseInt(tokens[i]))
    BY <2>1, ParseType, Zenon DEF IsTyped
  <2>3. 0 \in Nat /\ AtLeast(ParseInt(tokens[i]), 0)
    BY <1>1
  <2>4. PICK v \in Nat : ParseInt(tokens[i]) = <<v>>
    BY <2>2, <2>3, AtLeastNumber, Zenon
  <2> QED
    BY <2>4
<1> HIDE DEF value
<1>6. \A i \in 1..n : /\ unit(i) \in {1, 60, 3600}
                      /\ i = n => unit(i) = 1
                      /\ i = n - 1 => unit(i) = 60
                      /\ i = n - 2 => unit(i) = 3600
  BY <1>1, <1>2 DEF Unit
<1> HIDE DEF unit, n
<1>7. Limit(1) = 1000000 /\ Limit(60) = 10000 /\ Limit(3600) = 100
  BY DEF Limit
<1>8. ASSUME NEW i \in 1..n
      PROVE  /\ i = n => UpTo(unit(i) * value(i), MostInSeconds)
             /\ i = n - 1 => UpTo(unit(i) * value(i), MostInMinutes)
             /\ i = n - 2 => UpTo(unit(i) * value(i), MostInHours)
  <2> DEFINE v == value(i)
             u == unit(i)
  <2>1. v \in Nat /\ v <= Limit(u)
    BY <1>1, <1>5
  <2>2. /\ i = n => u = 1
        /\ i = n - 1 => u = 60
        /\ i = n - 2 => u = 3600
    BY <1>6
  <2> HIDE DEF v, u
  <2>3. u = 1 => UpTo(u * v, MostInSeconds)
    BY <1>7, <2>1 DEF UpTo, MostInSeconds
  <2>4. u = 60 => UpTo(u * v, MostInMinutes)
    BY <1>7, <2>1 DEF UpTo, MostInMinutes
  <2>5. u = 3600 => UpTo(u * v, MostInHours)
    BY <1>7, <2>1 DEF UpTo, MostInHours
  <2>6. /\ i = n => UpTo(u * v, MostInSeconds)
        /\ i = n - 1 => UpTo(u * v, MostInMinutes)
        /\ i = n - 2 => UpTo(u * v, MostInHours)
    BY <2>2, <2>3, <2>4, <2>5
  <2> QED
    BY <2>6 DEF u, v
<1>9. UpTo(x[n], (MostInHours + MostInMinutes) + MostInSeconds)
  <2> DEFINE y(i) == unit(i) * value(i)
  <2>1. /\ \A i \in 1..n : /\ i = n => UpTo(y(i), MostInSeconds)
                           /\ i = n - 1 => UpTo(y(i), MostInMinutes)
                           /\ i = n - 2 => UpTo(y(i), MostInHours)
        /\ \A i \in Nat : x[i + 1] = x[i] + y(i + 1)
    BY <1>3, <1>8, Zenon
  <2> HIDE DEF y
  <2>2. n = 0 \/ n = 1 \/ n = 2 \/ n = 3
    BY <1>1, <1>2
  <2>3. x[1] = x[0] + y(1) /\ x[2] = x[1] + y(2) /\ x[3] = x[2] + y(3)
    <3>1. 0 \in Nat /\ 1 \in Nat /\ 2 \in Nat /\ 0 + 1 = 1 /\ 1 + 1 = 2 /\ 2 + 1 = 3
      OBVIOUS
    <3> QED
      BY <2>1, <3>1, Zenon
  <2>8. MostInHours \in Nat /\ MostInMinutes \in Nat /\ MostInSeconds \in Nat
    BY DEF MostInHours, MostInMinutes, MostInSeconds
  <2>10. x[0] = 0
    BY <1>3, Zenon
  <2>4. CASE n = 0
    BY <2>10, <2>4, <2>8 DEF UpTo
  <2>5. CASE n = 1
    <3>1. UpTo(y(1), MostInSeconds)
      BY <2>1, <2>5
    <3> QED
      BY <2>10, <2>3, <2>5, <2>8, <3>1 DEF UpTo
  <2>6. CASE n = 2
    <3>1. UpTo(y(2), MostInSeconds) /\ UpTo(y(1), MostInMinutes)
      BY <2>1, <2>6
    <3> QED
      BY <2>10, <2>3, <2>6, <2>8, <3>1 DEF UpTo
  <2>7. CASE n = 3
    <3>1. UpTo(y(3), MostInSeconds) /\ UpTo(y(2), MostInMinutes) /\ UpTo(y(1), MostInHours)
      BY <2>1, <2>7
    <3> QED
      BY <2>10, <2>3, <2>7, <2>8, <3>1 DEF UpTo
  <2> QED
    BY <2>2, <2>4, <2>5, <2>6, <2>7
<1>10. ~Overflows(x[n])
  BY <1>9 DEF Overflows, UpTo, MostInHours, MostInMinutes, MostInSeconds
<1> QED
  BY <1>4, <1>10, Zenon

\* Whatever is typed into the form and after sleep, character by character: what the
\* form lets one save is what sbatch asks the server for, and the form shows it again;
\* and sleep stays below the numbers that overflow in addTime.
THEOREM TypedAsSent == Spec => []TypedIsSent
<1>1. TypeOK => TypedIsSent
  <2> SUFFICES ASSUME TypeOK PROVE TypedIsSent
    OBVIOUS
  <2>1. ASSUME About("fields"), Len(text) = 4 PROVE FormIsSent
    <3>1. text \in Seq(Alphabet["fields"]) /\ Alphabet["fields"] \subseteq Seq(Nat)
      BY <2>1, AlphabetAssumption DEF About, TypeOK
    <3>2. text \in Seq(Seq(Nat))
      BY <3>1, SeqMonotonic, Zenon
    <3> QED
      BY <2>1, <3>2, FormsAreSent
  <2>2. ASSUME About("sleep"), SleepTime(text) # NaN PROVE ~Overflows(SleepTime(text)[1])
    <3>1. text \in Seq(Alphabet["sleep"]) /\ Alphabet["sleep"] \subseteq Seq(Nat)
      BY <2>2, AlphabetAssumption DEF About, TypeOK
    <3>2. text \in Seq(Seq(Nat))
      BY <3>1, SeqMonotonic, Zenon
    <3> QED
      BY <2>2, <3>2, SleepFits, Zenon
  <2> QED
    BY <2>1, <2>2, Zenon DEF TypedIsSent
<1> QED
  BY <1>1, AlgorithmsTypeCorrect, PTL


-----------------------------------------------------------------------------
(* Escaped texts.                                                          *)

\* u holds p after its first a elements.
Holds(u, a, p) ==
    /\ a \in Nat /\ Len(p) \in Nat /\ Len(u) \in Nat /\ a + Len(p) <= Len(u)
    /\ \A j \in 1..Len(p) : u[a + j] = p[j]

LEMMA HoldsMore ==
    ASSUME NEW S, NEW u \in Seq(S), NEW e \in Seq(S), NEW a, NEW p, Holds(u, a, p)
    PROVE  Holds(u \o e, a, p)
<1> DEFINE v == u \o e
<1>1. IsConcat(v, u, e, S)
  BY ConcatFacts, Zenon
<1> HIDE DEF v
<1>2. /\ Len(v) = Len(u) + Len(e) /\ Len(u) \in Nat /\ Len(e) \in Nat
      /\ \A i \in 1..Len(u) : v[i] = u[i]
  BY <1>1 DEF IsConcat
<1>3. v \in Seq(S) /\ Len(v) \in Nat
  BY <1>1, LenProperties DEF IsConcat
<1> DEFINE n == Len(u)
           l == Len(p)
           m == Len(v)
<1>4. a \in Nat /\ l \in Nat /\ a + l <= n /\ n \in Nat /\ m >= n /\ m \in Nat
  BY <1>2, <1>3 DEF Holds
<1>5. \A j \in 1..l : a + j \in 1..n /\ u[a + j] = p[j]
  <2>1. \A j \in 1..l : u[a + j] = p[j]
    BY DEF Holds
  <2> HIDE DEF n, l, m
  <2>2. \A j \in 1..l : a + j \in 1..n
    BY <1>4
  <2> QED
    BY <2>1, <2>2, Zenon
<1>6. \A j \in 1..l : v[a + j] = p[j]
  BY <1>2, <1>5, Zenon
<1>7. a + l <= m
  <2> HIDE DEF n, l, m
  <2> QED
    BY <1>4
<1> QED
  BY <1>4, <1>6, <1>7, Zenon DEF Holds, v

LEMMA HoldsLast ==
    ASSUME NEW S, NEW u \in Seq(S), NEW p \in Seq(S)
    PROVE  Holds(u \o p, Len(u), p) /\ Len(u \o p) = Len(u) + Len(p)
<1> DEFINE v == u \o p
<1>1. IsConcat(v, u, p, S)
  BY ConcatFacts, Zenon
<1> HIDE DEF v
<1>2. /\ Len(v) = Len(u) + Len(p) /\ Len(u) \in Nat /\ Len(p) \in Nat
      /\ \A j \in 1..Len(p) : v[Len(u) + j] = p[j]
  BY <1>1, Zenon DEF IsConcat
<1> DEFINE n == Len(u)
           l == Len(p)
           m == Len(v)
<1>3. n + l <= m /\ m \in Nat
  <2>1. m = n + l /\ n \in Nat /\ l \in Nat
    BY <1>2
  <2> HIDE DEF n, l, m
  <2> QED
    BY <2>1
<1> QED
  BY <1>2, <1>3, Zenon DEF Holds, v

\* Where the k-th of some sequences is in all of them, one behind the other.
LEMMA UnitInText ==
    ASSUME NEW S, NEW ss \in Seq(Seq(S)), NEW k \in Nat, k < Len(ss)
    PROVE  /\ Holds(FlattenSeq(ss), Len(Joined(ss)[k]), ss[k + 1])
           /\ Len(Joined(ss)[k + 1]) = Len(Joined(ss)[k]) + Len(ss[k + 1])
<1> DEFINE n    == Len(ss)
           x    == Joined(ss)
           a    == Len(x[k])
           p    == ss[k + 1]
           Good == {m \in Nat : k < m /\ m <= n => Holds(x[m], a, p)}
<1>1. /\ \A m \in Nat : m < n =>
            m + 1 \in 1..n /\ ss[m + 1] \in Seq(S) /\ x[m + 1] = x[m] \o ss[m + 1]
      /\ \A m \in Nat : m <= n => x[m] \in Seq(S)
  BY JoinedNext, Zenon
<1>2. n \in Nat
  BY LenProperties
<1>0. k < n
  OBVIOUS
<1> HIDE DEF x, n
<1>3. /\ x[k] \in Seq(S) /\ p \in Seq(S) /\ x[k + 1] = x[k] \o p /\ k < n /\ k <= n
  <2>1. k <= n
    BY <1>0, <1>2
  <2> QED
    BY <1>0, <1>1, <2>1, Zenon
<1>4. Holds(x[k + 1], a, p) /\ Len(x[k + 1]) = a + Len(p)
  BY <1>3, HoldsLast, Zenon
<1> HIDE DEF a, p
<1>5. 0 \in Good
  OBVIOUS
<1>6. ASSUME NEW m \in Nat, m \in Good PROVE m + 1 \in Good
  <2> SUFFICES ASSUME k < m + 1, m + 1 <= n PROVE Holds(x[m + 1], a, p)
    OBVIOUS
  <2>1. CASE m = k
    BY <1>4, <2>1, Zenon
  <2>2. CASE m # k
    <3>1. k < m /\ m <= n /\ m < n
      BY <1>2, <2>2
    <3>2. Holds(x[m], a, p)
      BY <1>6, <3>1
    <3>3. x[m] \in Seq(S) /\ ss[m + 1] \in Seq(S) /\ x[m + 1] = x[m] \o ss[m + 1]
      BY <1>1, <3>1, Zenon
    <3>4. Holds(x[m] \o ss[m + 1], a, p)
      BY <3>2, <3>3, HoldsMore, Zenon
    <3> QED
      BY <3>3, <3>4, Zenon
  <2> QED
    BY <2>1, <2>2
<1>7. n \in Good
  <2> HIDE DEF Good
  <2> QED
    BY <1>2, <1>5, <1>6, Joining!Induction
<1>8. Holds(x[n], a, p)
  BY <1>2, <1>3, <1>7
<1>9. FlattenSeq(ss) = x[n]
  BY Flattened DEF x, n
<1> QED
  BY <1>4, <1>8, <1>9, Zenon DEF x, a, p


\* The characters of an escape.
HexChars == {Percent} \cup (Zero..Nine) \cup (UpperA..UpperF)

\* An escape: a % and the two digits of a byte.
LEMMA EscapeFacts ==
    ASSUME NEW c \in Nat, c < 256
    PROVE  /\ Escape(c) \in Seq(HexChars) /\ Len(Escape(c)) = 3 /\ Escape(c)[1] = Percent
           /\ Escape(c)[2] # LowerU
           /\ Hex(Escape(c)[2]) = c \div 16 /\ Hex(Escape(c)[3]) = c % 16
           /\ Hex(Escape(c)[2]) # None /\ Hex(Escape(c)[3]) # None
<1> DEFINE a == Digit(c \div 16, UpperA)
           b == Digit(c % 16, UpperA)
<1>1. c \div 16 \in 0..15 /\ c % 16 \in 0..15
  OBVIOUS
<1>2. /\ Hex(a) = c \div 16 /\ Hex(b) = c % 16
      /\ a \in (Zero..Nine) \cup (UpperA..(UpperA + 5))
      /\ b \in (Zero..Nine) \cup (UpperA..(UpperA + 5))
  BY <1>1, HexOfDigit
<1> HIDE DEF a, b
<1>3. a \in HexChars /\ b \in HexChars /\ Percent \in HexChars /\ a # LowerU
  BY <1>2 DEF HexChars, Zero, Nine, UpperA, UpperF, LowerU
<1>4. Hex(a) # None /\ Hex(b) # None
  BY <1>1, <1>2 DEF None
<1>5. Escape(c) = <<Percent, a, b>>
  BY DEF Escape, a, b
<1> QED
  BY <1>2, <1>3, <1>4, <1>5

LEMMA HexCharFacts ==
    /\ HexChars \subseteq Nat
    /\ \A c \in HexChars : c # Space /\ c # Amp /\ c # Equals
  BY DEF HexChars, Percent, Zero, Nine, UpperA, UpperF, Space, Amp, Equals

\* The number that two digits at a place of a text write.
LEMMA TwoDigits ==
    ASSUME NEW S, NEW s \in Seq(S), NEW i \in Nat, i >= 1, i + 1 <= Len(s),
           Hex(s[i]) \in 0..15, Hex(s[i + 1]) \in 0..15
    PROVE  FromHex(s, i, 2) = (16 * Hex(s[i])) + Hex(s[i + 1])
<1> DEFINE q == SubSeq(s, i, i + 1)
           x == ReadingOf(q, 16)
           b == Hex(s[i])
           c == Hex(s[i + 1])
<1>1. Len(s) \in Nat
  BY LenProperties
<1>2. i \in 1..Len(s) /\ i + 1 \in 1..Len(s)
  <2> DEFINE n == Len(s)
  <2>1. n \in Nat /\ i + 1 <= n
    BY <1>1
  <2> HIDE DEF n
  <2>2. i \in 1..n /\ i + 1 \in 1..n
    BY <2>1
  <2> QED
    BY <2>2, Zenon DEF n
<1>3. Len(q) = 2 /\ q[1] = s[i] /\ q[2] = s[i + 1]
  <2> DEFINE m == i + 1
  <2>1. m \in Int /\ i \in Int /\ m - i + 1 = 2 /\ i <= m /\ i + 1 - 1 = i /\ i + 2 - 1 = m
    OBVIOUS
  <2>2. \A k \in i..m : s[k] \in S
    <3>1. \A k \in i..m : k = i \/ k = i + 1
      OBVIOUS
    <3> QED
      BY <1>2, <3>1, ElementOfSeq
  <2> HIDE DEF m
  <2>3. /\ Len(SubSeq(s, i, m)) = IF i <= m THEN m - i + 1 ELSE 0
        /\ \A k \in 1..(m - i + 1) : SubSeq(s, i, m)[k] = s[i + k - 1]
    BY <2>1, <2>2, SubSeqProperties
  <2>4. /\ Len(SubSeq(s, i, m)) = 2 /\ SubSeq(s, i, m)[1] = s[i] /\ SubSeq(s, i, m)[2] = s[m]
    BY <2>1, <2>3
  <2> QED
    BY <2>4, Zenon DEF m
<1>4. FromHex(s, i, 2) = HexNumber(q)
  <2>1. i + 2 - 1 = i + 1 /\ i + 1 <= Len(s)
    BY <1>1
  <2>2. \A j \in i..(i + 1) : Hex(s[j]) # None
    <3>1. Hex(s[i]) # None /\ Hex(s[i + 1]) # None
      BY DEF None
    <3>2. \A k \in i..(i + 1) : k = i \/ k = i + 1
      OBVIOUS
    <3> QED
      BY <3>1, <3>2, Zenon
  <2> QED
    BY <2>1, <2>2, Zenon DEF FromHex
<1> HIDE DEF q
<1>5. /\ x[0] = 0 /\ \A m \in Nat : x[m + 1] = (16 * x[m]) + Hex(q[m + 1])
      /\ Number(q, 16) = x[2]
  <2>1. /\ x[0] = 0 /\ \A m \in Nat : x[m + 1] = (16 * x[m]) + Hex(q[m + 1])
        /\ Len(q) \in Nat => Number(q, 16) = x[Len(q)]
    BY ReadingNext, Zenon
  <2>2. 2 \in Nat
    OBVIOUS
  <2> QED
    BY <1>3, <2>1, <2>2, Zenon
<1> HIDE DEF x
<1>6. x[1] = (16 * x[0]) + b /\ x[2] = (16 * x[1]) + c
  <2>1. 0 \in Nat /\ 1 \in Nat /\ 0 + 1 = 1 /\ 1 + 1 = 2
    OBVIOUS
  <2> QED
    BY <1>3, <1>5, <2>1, Zenon
<1>7. b \in Nat /\ c \in Nat
  OBVIOUS
<1> HIDE DEF b, c
<1>8. x[2] = (16 * b) + c
  BY <1>5, <1>6, <1>7
<1> QED
  BY <1>4, <1>5, <1>8, Zenon DEF HexNumber, b, c


\* How a byte may be written: as an escape, or as it is unless that says something else.
Codes(u, c) == u = Escape(c) \/ (u = <<c>> /\ c # Percent /\ c # Plus)

\* Where decode_url is, and what it has written.
Decoded(at, out) == [at |-> at, out |-> out]
Plussed(s) == [text |-> s, plus |-> TRUE]
GoesOn(s, x, n, y) == DecodeRound(Plussed(s), x, n) = y

LEMMA DecodeUnit ==
    ASSUME NEW s \in Seq(Nat), NEW a, NEW u, NEW c \in Nat, c < 256, Codes(u, c),
           Holds(s, a, u), NEW out, NEW n
    PROVE  GoesOn(s, Decoded(a + 1, out), n, Decoded((a + Len(u)) + 1, Append(out, c)))
<1> DEFINE p == Plussed(s)
           x == Decoded(a + 1, out)
           l == Len(s)
<1>1. p.text = s /\ p.plus = TRUE /\ x.at = a + 1 /\ x.out = out
  BY DEF Plussed, Decoded
<1>2. /\ a \in Nat /\ l \in Nat /\ Len(u) \in Nat /\ a + Len(u) <= l
      /\ \A j \in 1..Len(u) : s[a + j] = u[j]
  BY Zenon DEF Holds
<1> HIDE DEF p, x
<1>3. CASE u = Escape(c)
  <2>1. /\ Len(u) = 3 /\ u[1] = Percent /\ u[2] # LowerU
        /\ Hex(u[2]) = c \div 16 /\ Hex(u[3]) = c % 16
    BY <1>3, EscapeFacts, Zenon
  <2>2. c \div 16 \in 0..15 /\ c % 16 \in 0..15 /\ c = (16 * (c \div 16)) + (c % 16)
    OBVIOUS
  <2>3. s[a + 1] = u[1] /\ s[a + 2] = u[2] /\ s[a + 3] = u[3]
    <3>1. 1 \in 1..Len(u) /\ 2 \in 1..Len(u) /\ 3 \in 1..Len(u)
      BY <2>1
    <3> QED
      BY <1>2, <3>1, Zenon
  <2> DEFINE i == a + 2
  <2>4. i \in Nat /\ i >= 1 /\ i + 1 <= l /\ i + 1 = a + 3 /\ i = (a + 1) + 1
        /\ ~(a + 1 > l) /\ a + 1 < l /\ (a + 1) + 3 = (a + 3) + 1
    <3> HIDE DEF l
    <3> QED
      BY <1>2, <2>1
  <2>5. FromHex(s, i, 2) = c
    <3>1. Hex(s[i]) = c \div 16 /\ Hex(s[i + 1]) = c % 16
      BY <2>1, <2>3, <2>4, Zenon
    <3> HIDE DEF i
    <3>2. FromHex(s, i, 2) = (16 * Hex(s[i])) + Hex(s[i + 1])
      BY <2>2, <2>4, <3>1, TwoDigits DEF l
    <3> QED
      BY <2>2, <3>1, <3>2, Zenon
  <2>6. c # None
    BY DEF None
  <2>7. s[a + 1] = Percent /\ s[(a + 1) + 1] # LowerU
    BY <2>1, <2>3, <2>4, Zenon
  <2>8. DecodeRound(p, x, n) = [at |-> x.at + 3, out |-> Append(x.out, c)]
    <3> DEFINE wide  == x.at < Len(s) /\ s[x.at + 1] = LowerU
               value == IF s[x.at] # Percent THEN None
                        ELSE IF wide THEN FromHex(s, x.at + 2, 4) ELSE FromHex(s, x.at + 1, 2)
    <3>1. DecodeRound(p, x, n) =
             IF x.at > Len(s) THEN x
             ELSE IF value = None
             THEN [at |-> x.at + 1,
                   out |-> Append(x.out, IF p.plus /\ s[x.at] = Plus THEN Space ELSE s[x.at])]
             ELSE IF wide THEN [at |-> x.at + 6, out |-> x.out \o ToUtf8(value)]
             ELSE [at |-> x.at + 3, out |-> Append(x.out, value)]
      BY <1>1, Zenon DEF DecodeRound
    <3>2. ~wide
      BY <1>1, <2>7, Zenon
    <3>3. value = c
      BY <1>1, <2>4, <2>5, <2>7, <3>2, Zenon
    <3>4. ~(x.at > Len(s))
      BY <1>1, <2>4, Zenon
    <3> HIDE DEF wide, value
    <3> QED
      BY <2>6, <3>1, <3>2, <3>3, <3>4
  <2> QED
    BY <1>1, <2>1, <2>4, <2>8, Zenon DEF Decoded, GoesOn, p, x
<1>4. CASE u = <<c>> /\ c # Percent /\ c # Plus
  <2>1. Len(u) = 1 /\ u[1] = c
    BY <1>4
  <2>2. s[a + 1] = c
    BY <1>2, <2>1
  <2>3. ~(a + 1 > l)
    <3> HIDE DEF l
    <3> QED
      BY <1>2, <2>1
  <2>4. DecodeRound(p, x, n) = [at |-> x.at + 1, out |-> Append(x.out, c)]
    <3>1. s[x.at] = c /\ ~(x.at > Len(s))
      BY <1>1, <2>2, <2>3, Zenon
    <3> QED
      BY <1>1, <1>4, <3>1 DEF DecodeRound
  <2> QED
    BY <1>1, <2>1, <2>4, Zenon DEF Decoded, GoesOn, p, x
<1> QED
  BY <1>3, <1>4, Zenon DEF Codes

\* What is written byte by byte is decoded to these bytes.
LEMMA DecodeCoded ==
    ASSUME NEW ss \in Seq(Seq(Nat)), NEW cs \in Seq(Nat), Len(ss) = Len(cs),
           \A i \in 1..Len(cs) : cs[i] < 256 /\ Codes(ss[i], cs[i])
    PROVE  DecodeUrl(FlattenSeq(ss), TRUE) = cs
<1> DEFINE s    == FlattenSeq(ss)
           n    == Len(cs)
           at(k) == Len(Joined(ss)[k]) + 1
           out(k) == SubSeq(cs, 1, k)
           x    == Decoding!Rounds(Plussed(s), Decoded(1, <<>>))
           Is(k) == x[k] = Decoded(at(k), out(k))
           Good == {k \in Nat : k <= n => Is(k)}
<1>1. /\ x[0] = Decoded(1, <<>>)
      /\ \A k \in Nat : x[k + 1] = DecodeRound(Plussed(s), x[k], k + 1)
      /\ \A k \in Nat : x[k] = Decoding!Loop(Plussed(s), Decoded(1, <<>>), k)
  BY Decoding!RoundsNext, Zenon
<1> HIDE DEF x
<1>2. n \in Nat
  BY LenProperties
<1>3. \A i \in 1..n : Len(ss[i]) > 0
  <2> SUFFICES ASSUME NEW i \in 1..n PROVE Len(ss[i]) > 0
    OBVIOUS
  <2>1. cs[i] \in Nat /\ cs[i] < 256 /\ Codes(ss[i], cs[i])
    BY ElementOfSeq
  <2>2. CASE ss[i] = Escape(cs[i])
    <3>1. Len(Escape(cs[i])) = 3
      BY <2>1, EscapeFacts, Zenon
    <3> QED
      BY <2>2, <3>1
  <2>3. CASE ss[i] = <<cs[i]>>
    BY <2>3
  <2> QED
    BY <2>1, <2>2, <2>3 DEF Codes
<1>4. s \in Seq(Nat) /\ Len(s) \in Nat /\ Len(s) >= n
  <2>1. s \in Seq(Nat) /\ Len(s) >= Len(ss)
    BY <1>3, JoinedIsLong
  <2> QED
    BY <2>1, LenProperties
<1>5. 0 \in Good
  <2>1. Joined(ss)[0] = <<>>
    BY JoinedNext, Zenon
  <2>2. at(0) = 1 /\ out(0) = <<>>
    BY <2>1, SubSeqEmpty
  <2> HIDE DEF at, out
  <2>3. Is(0)
    BY <1>1, <2>2, Zenon
  <2> HIDE DEF Is
  <2> QED
    BY <2>3
<1>6. ASSUME NEW k \in Nat, k \in Good PROVE k + 1 \in Good
  <2> SUFFICES ASSUME k + 1 <= n PROVE Is(k + 1)
    <3> HIDE DEF Is
    <3> QED
      OBVIOUS
  <2>1. k <= n /\ k < n /\ k + 1 \in 1..n /\ k < Len(ss)
    BY <1>2
  <2>2. x[k] = Decoded(at(k), out(k))
    <3>1. Is(k)
      <4> HIDE DEF Is
      <4> QED
        BY <1>6, <2>1
    <3> QED
      BY <3>1
  <2> DEFINE a == Len(Joined(ss)[k])
             u == ss[k + 1]
             c == cs[k + 1]
  <2>3. Holds(s, a, u) /\ Len(Joined(ss)[k + 1]) = a + Len(u)
    BY <2>1, UnitInText, Zenon
  <2>4. c \in Nat /\ c < 256 /\ Codes(u, c) /\ out(k + 1) = Append(out(k), c)
    <3>1. c \in Nat /\ out(k + 1) = Append(out(k), c)
      BY <2>1, OneMore, Zenon
    <3> QED
      BY <2>1, <3>1, Zenon
  <2>5. x[k + 1] = DecodeRound(Plussed(s), x[k], k + 1)
    BY <1>1, Zenon
  <2> HIDE DEF s, u, c
  <2>6. GoesOn(s, Decoded(a + 1, out(k)), k + 1, Decoded((a + Len(u)) + 1, Append(out(k), c)))
    BY <1>4, <2>3, <2>4, DecodeUnit, Zenon
  <2> QED
    BY <2>2, <2>3, <2>4, <2>5, <2>6, Zenon DEF GoesOn
<1>7. Is(n)
  <2>1. n \in Good
    <3> HIDE DEF Good
    <3> QED
      BY <1>2, <1>5, <1>6, Decoding!Induction
  <2> HIDE DEF Is
  <2> QED
    BY <1>2, <2>1
<1>8. out(n) = cs
  BY SubSeqFull
<1>9. at(n) > Len(s)
  <2>1. s = Joined(ss)[n]
    BY Flattened
  <2>2. at(n) = Len(s) + 1
    BY <2>1, Zenon
  <2> HIDE DEF at, s
  <2> QED
    BY <1>4, <2>2
<1>10. DecodeUrl(s, TRUE) = Decoding!Loop(Plussed(s), Decoded(1, <<>>), Len(s)).out
  BY Zenon DEF DecodeUrl, Plussed, Decoded
<1>11. Decoding!Loop(Plussed(s), Decoded(1, <<>>), n) = Decoded(at(n), cs)
  <2> HIDE DEF out, at, n, s
  <2> QED
    BY <1>1, <1>2, <1>7, <1>8, Zenon
<1> DEFINE p == Plussed(s)
           q == Decoded(1, <<>>)
<1>12. Decoding!Loop(p, q, Len(s)) = Decoding!Loop(p, q, n)
  <2>1. Decoding!Loop(p, q, n).at > Len(p.text)
    <3>1. Decoded(at(n), cs).at = at(n) /\ p.text = s
      BY DEF Decoded, Plussed
    <3> HIDE DEF at, s
    <3> QED
      BY <1>9, <1>11, <3>1, Zenon
  <2> HIDE DEF p, q, s, n
  <2> QED
    BY <1>2, <1>4, <2>1, DecodedStays
<1>13. Decoded(at(n), cs).out = cs
  BY DEF Decoded
<1> HIDE DEF at, n, s
<1> QED
  BY <1>10, <1>11, <1>12, <1>13, Zenon DEF s


\* What encode_url writes is read back.
LEMMA EncodedIsRead ==
    ASSUME NEW s \in Seq(Nat),
           \A i \in 1..Len(s) : s[i] >= 1 /\ s[i] < 256 /\ s[i] # Percent
    PROVE  DecodeUrl(EncodeUrl(s), TRUE) = s
<1> DEFINE n     == Len(s)
           unit(c) == IF Escaped(c) THEN Escape(c) ELSE <<c>>
           ss    == [i \in 1..n |-> unit(s[i])]
<1>1. n \in Nat /\ \A i \in 1..n : s[i] \in Nat /\ s[i] >= 1 /\ s[i] < 256 /\ s[i] # Percent
  BY LenProperties, ElementOfSeq
<1>2. Find(s, << 0 >>) = 0
  <2>1. {i \in 1..(Len(s) - Len(<< 0 >>) + 1) : SubSeq(s, i, i + Len(<< 0 >>) - 1) = << 0 >>} = {}
    <3> SUFFICES ASSUME NEW i \in 1..(Len(s) - Len(<< 0 >>) + 1),
                        SubSeq(s, i, i + Len(<< 0 >>) - 1) = << 0 >>
                 PROVE  FALSE
      OBVIOUS
    <3>1. Len(<< 0 >>) = 1 /\ i \in 1..n /\ i + Len(<< 0 >>) - 1 = i
      <4>1. Len(<< 0 >>) = 1
        OBVIOUS
      <4> HIDE DEF n
      <4> QED
        BY <1>1, <4>1 DEF n
    <3>2. SubSeq(s, i, i)[1] = s[i]
      <4>1. i \in Int /\ \A k \in i..i : s[k] \in Nat
        BY <1>1, <3>1
      <4>2. i - i + 1 = 1 /\ i + 1 - 1 = i
        BY <3>1
      <4>3. \A k \in 1..(i - i + 1) : SubSeq(s, i, i)[k] = s[i + k - 1]
        BY <4>1, SubSeqProperties
      <4> QED
        BY <4>2, <4>3
    <3>3. SubSeq(s, i, i) = << 0 >> /\ << 0 >>[1] = 0
      BY <3>1
    <3>4. s[i] = 0
      BY <3>2, <3>3, Zenon
    <3> QED
      BY <1>1, <3>1, <3>4
  <2> QED
    BY <2>1 DEF Find
<1>3. EncodeUrl(s) = FlattenSeq(ss)
  BY <1>2, Zenon DEF EncodeUrl
<1>4. ASSUME NEW c \in Nat, c >= 1, c < 256, c # Percent
      PROVE  unit(c) \in Seq(Nat) /\ Codes(unit(c), c)
  <2>1. CASE Escaped(c)
    <3>1. Escape(c) \in Seq(HexChars)
      BY <1>4, EscapeFacts, Zenon
    <3>2. Escape(c) \in Seq(Nat)
      BY <3>1, HexCharFacts, SeqMonotonic
    <3> QED
      BY <2>1, <3>2, Zenon DEF Codes
  <2>2. CASE ~Escaped(c)
    <3>1. c # Plus
      BY <2>2 DEF Escaped
    <3>2. unit(c) = <<c>>
      BY <2>2, Zenon
    <3>3. <<c>> \in Seq(Nat)
      OBVIOUS
    <3> QED
      BY <1>4, <3>1, <3>2, <3>3, Zenon DEF Codes
  <2> QED
    BY <2>1, <2>2
<1> HIDE DEF unit
<1>5. ss \in Seq(Seq(Nat)) /\ Len(ss) = n /\ \A i \in 1..n : ss[i] = unit(s[i])
  <2>1. \A i \in 1..n : unit(s[i]) \in Seq(Nat)
    BY <1>1, <1>4, Zenon
  <2> HIDE DEF n
  <2>2. ss \in Seq(Seq(Nat))
    BY <1>1, <2>1, IsASeq
  <2> QED
    BY <1>1, <2>2
<1>6. \A i \in 1..n : s[i] < 256 /\ Codes(ss[i], s[i])
  BY <1>1, <1>4, <1>5, Zenon
<1> HIDE DEF ss
<1>7. DecodeUrl(FlattenSeq(ss), TRUE) = s
  BY <1>5, <1>6, DecodeCoded
<1> QED
  BY <1>3, <1>7, Zenon

\* A text of which every character is escaped.
AllEscaped(s) == FlattenSeq([i \in DOMAIN s |-> Escape(s[i])])

IsByte(c) == c \in Nat /\ c < 256

LEMMA EscapedIsRead ==
    ASSUME NEW s \in Seq(Nat), \A i \in 1..Len(s) : IsByte(s[i])
    PROVE  /\ AllEscaped(s) \in Seq(HexChars)
           /\ Len(AllEscaped(s)) >= Len(s)
           /\ DecodeUrl(AllEscaped(s), TRUE) = s
<1> DEFINE n  == Len(s)
           ss == [i \in 1..n |-> Escape(s[i])]
<1>1. n \in Nat /\ DOMAIN s = 1..n
  BY LenProperties
<1>2. \A i \in 1..n : s[i] \in Nat /\ s[i] < 256
  BY Zenon DEF IsByte
<1>3. AllEscaped(s) = FlattenSeq(ss)
  BY <1>1, Zenon DEF AllEscaped
<1>4. \A i \in 1..n : Escape(s[i]) \in Seq(HexChars) /\ Len(Escape(s[i])) = 3
  BY <1>2, EscapeFacts, Zenon
<1> HIDE DEF n
<1>5. Len(ss) = n /\ \A i \in 1..n : ss[i] = Escape(s[i])
  <2> DEFINE e(i) == Escape(s[i])
             tt   == [i \in 1..n |-> e(i)]
  <2> HIDE DEF e
  <2>1. Len(tt) = n /\ \A i \in 1..n : tt[i] = e(i)
    BY <1>1
  <2> QED
    BY <2>1 DEF e
<1>6. ss \in Seq(Seq(HexChars))
  BY <1>1, <1>4, IsASeq
<1>7. ss \in Seq(Seq(Nat))
  <2>1. \A i \in 1..n : Escape(s[i]) \in Seq(Nat)
    BY <1>4, HexCharFacts, SeqMonotonic
  <2> QED
    BY <1>1, <2>1, IsASeq
<1> HIDE DEF ss
<1>8. \A i \in 1..Len(ss) : Len(ss[i]) > 0
  <2> SUFFICES ASSUME NEW i \in 1..n PROVE Len(ss[i]) > 0
    BY <1>5, Zenon
  <2>1. Len(ss[i]) = 3
    BY <1>4, <1>5, Zenon
  <2> QED
    BY <2>1
<1>9. FlattenSeq(ss) \in Seq(HexChars) /\ Len(FlattenSeq(ss)) >= n
  <2>1. FlattenSeq(ss) \in Seq(HexChars) /\ Len(FlattenSeq(ss)) >= Len(ss)
    BY <1>6, <1>8, JoinedIsLong
  <2> QED
    BY <1>5, <2>1, Zenon
<1>10. \A i \in 1..n : s[i] < 256 /\ Codes(ss[i], s[i])
  BY <1>2, <1>5, Zenon DEF Codes
<1>11. DecodeUrl(FlattenSeq(ss), TRUE) = s
  BY <1>5, <1>7, <1>10, DecodeCoded DEF n
<1> QED
  BY <1>3, <1>9, <1>11, Zenon DEF n


\* A text that split takes apart into some pieces, none of which is blank.
SplitsInto(s, d, pieces) == Split(s, d) = pieces /\ ~Crossed(s, d)
Lacking(s, d) == \A i \in 1..Len(s) : s[i] # d

LEMMA SplitTwo ==
    ASSUME NEW S, NEW a \in Seq(S), NEW b \in Seq(S), NEW d \in S,
           Lacking(a, d), Lacking(b, d), Lacking(a, Space), Lacking(b, Space)
    PROVE  SplitsInto((a \o <<d>>) \o b, d, <<a, b>>)
<1> DEFINE s == (a \o <<d>>) \o b
           q == <<a, b>>
<1>1. Pieces(s, d) = q
  BY TwoPieces DEF Lacking
<1>2. Trim(a) = a /\ Trim(b) = b
  BY TrimKeeps, Zenon DEF Lacking
<1> HIDE DEF s
<1>3. Split(s, d) = [k \in DOMAIN q |-> Trim(q[k])]
  BY <1>1, Zenon DEF Split
<1>4. DOMAIN q = 1..2 /\ q[1] = a /\ q[2] = b /\ q = [k \in 1..2 |-> q[k]]
  OBVIOUS
<1> HIDE DEF q
<1>5. \A k \in 1..2 : Trim(q[k]) = q[k]
  BY <1>2, <1>4
<1>6. Split(s, d) = q
  BY <1>3, <1>4, <1>5
<1>7. ~Blank(a) /\ ~Blank(b)
  <2>1. ASSUME NEW x \in Seq(S), Lacking(x, Space), Blank(x)
        PROVE  FALSE
    <3>1. Len(x) \in Nat /\ Len(x) # 0
      BY <2>1, EmptySeq DEF Blank
    <3>2. 1 \in 1..Len(x)
      BY <3>1
    <3> QED
      BY <2>1, <3>2, Zenon DEF Lacking, Blank
  <2> QED
    BY <2>1, Zenon
<1>8. \A k \in DOMAIN q : ~Blank(q[k])
  <2>1. \A k \in 1..2 : k = 1 \/ k = 2
    OBVIOUS
  <2> QED
    BY <1>4, <1>7, <2>1, Zenon
<1>9. ~Crossed(s, d)
  BY <1>1, <1>8, Zenon DEF Crossed
<1> QED
  BY <1>6, <1>9, Zenon DEF SplitsInto, s, q

\* The key and the value among the pieces of a part of a query.
FirstFull(q) == SelectInSeq(q, LAMBDA x : x # <<>>)
KeyOf(q)     == IF FirstFull(q) = 0 THEN <<>> ELSE q[FirstFull(q)]
ValueOf(q)   == IF FirstFull(q) \in {0, Len(q)} THEN <<>> ELSE q[Len(q)]
PartOf(s)    == LET q == Split(s, Equals)
                IN  <<DecodeUrl(KeyOf(q), TRUE), DecodeUrl(ValueOf(q), TRUE)>>

LEMMA KeyAndValue ==
    ASSUME NEW a, NEW b, a # <<>>
    PROVE  KeyOf(<<a, b>>) = a /\ ValueOf(<<a, b>>) = b
<1> DEFINE q == <<a, b>>
           I == {i \in 1..Len(q) : q[i] # <<>>}
<1>1. Len(q) = 2 /\ q[1] = a /\ q[2] = b
  OBVIOUS
<1> HIDE DEF q
<1>2. 1 \in I /\ \A i \in I : 1 <= i /\ (i <= 1 => i = 1)
  BY <1>1
<1>3. FirstFull(q) = CHOOSE x \in I : \A y \in I : x <= y
  BY <1>2, Zenon DEF FirstFull, SelectInSeq, Min
<1> HIDE DEF I
<1>4. FirstFull(q) = 1
  BY <1>2, <1>3
<1>5. KeyOf(q) = a /\ ValueOf(q) = b
  BY <1>1, <1>4 DEF KeyOf, ValueOf
<1> QED
  BY <1>5 DEF q

\* A part of a query.
PairOf(a, b) == (a \o <<Equals>>) \o b

LEMMA PartIsRead ==
    ASSUME NEW k \in Seq(Nat), NEW v \in Seq(Nat), k # <<>>,
           \A i \in 1..Len(k) : IsByte(k[i]), \A i \in 1..Len(v) : IsByte(v[i])
    PROVE  LET t == PairOf(AllEscaped(k), AllEscaped(v))
           IN  /\ t \in Seq(Nat) /\ Lacking(t, Amp) /\ Lacking(t, Space)
               /\ PartOf(t) = <<k, v>> /\ ~Crossed(t, Equals)
<1> DEFINE a == AllEscaped(k)
           b == AllEscaped(v)
           t == PairOf(a, b)
           T == HexChars \cup {Equals}
<1>1. /\ a \in Seq(HexChars) /\ Len(a) >= Len(k) /\ DecodeUrl(a, TRUE) = k
      /\ b \in Seq(HexChars) /\ DecodeUrl(b, TRUE) = v
  BY EscapedIsRead, Zenon
<1> HIDE DEF a, b
<1>2. a # <<>>
  <2>1. Len(k) >= 1 /\ Len(k) \in Nat
    BY EmptySeq
  <2>2. Len(a) # 0
    BY <1>1, <2>1
  <2> QED
    BY <2>2
<1>3. /\ \A i \in 1..Len(a) : a[i] \in HexChars
      /\ \A i \in 1..Len(b) : b[i] \in HexChars
  BY <1>1, ElementOfSeq
<1>4. /\ Lacking(a, Equals) /\ Lacking(a, Space) /\ Lacking(b, Equals) /\ Lacking(b, Space)
  BY <1>3, HexCharFacts, Zenon DEF Lacking
<1>5. T \subseteq Nat /\ \A c \in T : c # Amp /\ c # Space
  BY HexCharFacts DEF Equals, Amp, Space
<1>6. a \in Seq(T) /\ b \in Seq(T) /\ Equals \in T
  BY <1>1, SeqMonotonic
<1> HIDE DEF T
<1>7. t \in Seq(T) /\ SplitsInto(t, Equals, <<a, b>>)
  <2>1. t \in Seq(T)
    <3> DEFINE e == <<Equals>>
               u == a \o e
    <3>1. e \in Seq(T)
      BY <1>6
    <3> HIDE DEF e
    <3>2. u \in Seq(T)
      BY <1>6, <3>1, ConcatProperties, Zenon
    <3> HIDE DEF u
    <3>3. u \o b \in Seq(T)
      BY <1>6, <3>2, ConcatProperties, Zenon
    <3> QED
      BY <3>3, Zenon DEF PairOf, u, e
  <2>2. SplitsInto((a \o <<Equals>>) \o b, Equals, <<a, b>>)
    BY <1>4, <1>6, SplitTwo, Zenon
  <2> QED
    BY <2>1, <2>2, Zenon DEF PairOf
<1> HIDE DEF t
<1>8. t \in Seq(Nat) /\ Lacking(t, Amp) /\ Lacking(t, Space)
  <2>1. \A i \in 1..Len(t) : t[i] \in T
    BY <1>7, ElementOfSeq
  <2>2. t \in Seq(Nat)
    BY <1>5, <1>7, SeqMonotonic
  <2> QED
    BY <1>5, <2>1, <2>2, Zenon DEF Lacking
<1>9. PartOf(t) = <<k, v>>
  <2> DEFINE q == <<a, b>>
  <2>1. KeyOf(q) = a /\ ValueOf(q) = b
    BY <1>2, KeyAndValue
  <2> HIDE DEF q
  <2>2. Split(t, Equals) = q
    BY <1>7, Zenon DEF SplitsInto, q
  <2>3. PartOf(t) = <<DecodeUrl(KeyOf(q), TRUE), DecodeUrl(ValueOf(q), TRUE)>>
    BY <2>2, Zenon DEF PartOf
  <2> QED
    BY <1>1, <2>1, <2>3, Zenon
<1>10. ~Crossed(t, Equals)
  BY <1>7, Zenon DEF SplitsInto
<1> QED
  BY <1>8, <1>9, <1>10, Zenon DEF t, a, b

\* A query of two parts.
LEMMA QueryIsRead ==
    ASSUME NEW k \in Seq(Nat), NEW v \in Seq(Nat), k # <<>>,
           \A i \in 1..Len(k) : IsByte(k[i]), \A i \in 1..Len(v) : IsByte(v[i])
    PROVE  ParseQuery((PairOf(AllEscaped(k), AllEscaped(v)) \o <<Amp>>)
                          \o PairOf(AllEscaped(k), AllEscaped(k)))
              = <<<<k, v>>, <<k, k>>>>
<1> DEFINE t == PairOf(AllEscaped(k), AllEscaped(v))
           u == PairOf(AllEscaped(k), AllEscaped(k))
           s == (t \o <<Amp>>) \o u
           q == <<t, u>>
<1>1. /\ t \in Seq(Nat) /\ Lacking(t, Amp) /\ Lacking(t, Space)
      /\ PartOf(t) = <<k, v>> /\ ~Crossed(t, Equals)
  BY PartIsRead, Zenon
<1>2. /\ u \in Seq(Nat) /\ Lacking(u, Amp) /\ Lacking(u, Space)
      /\ PartOf(u) = <<k, k>> /\ ~Crossed(u, Equals)
  BY PartIsRead, Zenon
<1> HIDE DEF t, u
<1>3. Amp \in Nat
  BY DEF Amp
<1>4. SplitsInto(s, Amp, q)
  BY <1>1, <1>2, <1>3, SplitTwo, Zenon
<1> HIDE DEF s
<1>5. DOMAIN q = 1..2 /\ q[1] = t /\ q[2] = u
  OBVIOUS
<1> HIDE DEF q
<1>6. ParseQuery(s) = [i \in DOMAIN q |-> PartOf(q[i])]
  <2>1. Split(s, Amp) = q /\ ~Crossed(s, Amp)
    BY <1>4, Zenon DEF SplitsInto
  <2>2. \A i \in DOMAIN q : ~Crossed(q[i], Equals)
    <3>1. \A i \in 1..2 : i = 1 \/ i = 2
      OBVIOUS
    <3> QED
      BY <1>1, <1>2, <1>5, <3>1, Zenon
  <2> QED
    BY <2>1, <2>2, Zenon DEF ParseQuery, PartOf, KeyOf, ValueOf, FirstFull
<1> DEFINE r == <<<<k, v>>, <<k, k>>>>
<1>7. r[1] = <<k, v>> /\ r[2] = <<k, k>> /\ r = [i \in 1..2 |-> r[i]]
  OBVIOUS
<1> HIDE DEF r
<1>8. \A i \in 1..2 : PartOf(q[i]) = r[i]
  <2>1. PartOf(q[1]) = r[1] /\ PartOf(q[2]) = r[2]
    BY <1>1, <1>2, <1>5, <1>7, Zenon
  <2>2. \A i \in 1..2 : i = 1 \/ i = 2
    OBVIOUS
  <2> QED
    BY <2>1, <2>2, Zenon
<1>9. ParseQuery(s) = r
  BY <1>5, <1>6, <1>7, <1>8
<1> QED
  BY <1>9, Zenon DEF s, t, u, r

\* What encode_url and an escape of every character write is read back by decode_url and
\* parse_query_text, for texts of any length of any bytes but 0, which ends a text.
THEOREM QueriesAreReadBack == Spec => []QueriesRoundTrip
<1>1. TypeOK => QueriesRoundTrip
  <2> SUFFICES ASSUME TypeOK, About("url") PROVE QueriesRoundTrip
    BY DEF QueriesRoundTrip
  <2> DEFINE escaped(s) == FlattenSeq([i \in DOMAIN s |-> Escape(s[i])])
             pair(k, v) == escaped(k) \o <<Equals>> \o escaped(v)
             n == Len(text)
  <2>1. text \in Seq(Alphabet["url"]) /\ \A c \in Alphabet["url"] : c \in Nat /\ Between(c, 1, 256)
    BY AlphabetAssumption DEF About, TypeOK
  <2>2. text \in Seq(Nat) /\ n \in Nat
    <3>1. Alphabet["url"] \subseteq Nat
      BY <2>1
    <3> QED
      BY <2>1, <3>1, SeqMonotonic, LenProperties
  <2>3. \A i \in 1..n : text[i] \in Nat /\ text[i] >= 1 /\ text[i] < 256
    <3>1. \A i \in 1..n : text[i] \in Alphabet["url"]
      BY <2>1, ElementOfSeq
    <3> QED
      BY <2>1, <3>1 DEF Between
  <2>4. ASSUME Percent \notin Range(text) PROVE DecodeUrl(EncodeUrl(text), TRUE) = text
    <3>1. \A i \in 1..n : text[i] # Percent
      <4>1. DOMAIN text = 1..n
        BY <2>1, LenProperties
      <4> QED
        BY <2>4, <4>1, Zenon DEF Range
    <3> QED
      BY <2>2, <2>3, <3>1, EncodedIsRead
  <2>5. ASSUME NEW i \in 1..n
        PROVE  LET k == SubSeq(text, 1, i)
                   v == From(text, i + 1)
               IN  ParseQuery(pair(k, v) \o <<Amp>> \o pair(k, k)) = <<<<k, v>>, <<k, k>>>>
    <3> DEFINE k == SubSeq(text, 1, i)
               v == From(text, i + 1)
    <3>1. k \in Seq(Nat) /\ k # <<>> /\ \A j \in 1..Len(k) : IsByte(k[j])
      <4> HIDE DEF n
      <4>1. \A j \in 1..i : j \in 1..n /\ text[1 + j - 1] = text[j] /\ text[j] \in Nat
        BY <2>2, <2>3
      <4>2. 1 \in Int /\ i \in Int /\ 1 <= i /\ i - 1 + 1 = i
        BY <2>2
      <4>3. /\ k \in Seq(Nat) /\ Len(k) = i
            /\ \A j \in 1..i : k[j] = text[1 + j - 1]
        <5>1. /\ k \in Seq(Nat) /\ Len(k) = IF 1 <= i THEN i - 1 + 1 ELSE 0
              /\ \A j \in 1..(i - 1 + 1) : k[j] = text[1 + j - 1]
          BY <4>1, <4>2, SubSeqProperties
        <5> QED
          BY <4>2, <5>1
      <4> HIDE DEF k
      <4>4. \A j \in 1..i : IsByte(k[j])
        BY <2>3, <4>1, <4>3, Zenon DEF IsByte
      <4>5. k # <<>>
        BY <4>2, <4>3
      <4> QED
        BY <4>3, <4>4, <4>5, Zenon
    <3>2. v \in Seq(Nat) /\ \A j \in 1..Len(v) : IsByte(v[j])
      <4> DEFINE m == i + 1
                 w == SubSeq(text, m, n)
      <4> HIDE DEF n
      <4>1. m \in Int /\ n \in Int /\ m >= 1
        BY <2>2
      <4>2. \A j \in m..n : text[j] \in Nat /\ text[j] < 256
        <5>1. \A j \in m..n : j \in 1..n
          BY <2>2, <4>1
        <5> QED
          BY <2>3, <5>1
      <4> HIDE DEF m
      <4>3. /\ w \in Seq(Nat) /\ Len(w) = IF m <= n THEN n - m + 1 ELSE 0
            /\ \A j \in 1..(n - m + 1) : w[j] = text[m + j - 1]
        BY <4>1, <4>2, SubSeqProperties
      <4> HIDE DEF w
      <4>4. ASSUME NEW j \in 1..Len(w) PROVE IsByte(w[j])
        <5>1. m <= n /\ j \in 1..(n - m + 1) /\ m + j - 1 \in m..n
          BY <4>1, <4>3
        <5> QED
          BY <4>2, <4>3, <5>1, Zenon DEF IsByte
      <4> QED
        BY <4>3, <4>4, Zenon DEF w, m, n, From
    <3> HIDE DEF k, v
    <3>3. pair(k, v) = PairOf(AllEscaped(k), AllEscaped(v))
      BY Zenon DEF PairOf, AllEscaped
    <3>4. pair(k, k) = PairOf(AllEscaped(k), AllEscaped(k))
      BY Zenon DEF PairOf, AllEscaped
    <3>5. ParseQuery((PairOf(AllEscaped(k), AllEscaped(v)) \o <<Amp>>)
                          \o PairOf(AllEscaped(k), AllEscaped(k))) = <<<<k, v>>, <<k, k>>>>
      BY <3>1, <3>2, QueryIsRead
    <3> HIDE DEF pair
    <3>6. ParseQuery((pair(k, v) \o <<Amp>>) \o pair(k, k)) = <<<<k, v>>, <<k, k>>>>
      BY <3>3, <3>4, <3>5, Zenon
    <3> QED
      BY <3>6, Zenon DEF k, v
  <2> QED
    BY <2>4, <2>5, Zenon DEF QueriesRoundTrip
<1> QED
  BY <1>1, AlgorithmsTypeCorrect, PTL

-----------------------------------------------------------------------------
(* The order of the search.                                                *)

\* The counters of k numbers, each between its bounds.
Box(k, lb, up) == {v \in [1..k -> Int] : \A i \in 1..k : lb[i] <= v[i] /\ v[i] <= up[i]}

\* Two sequences of numbers differ at a first place.
LEMMA FirstDifference ==
    ASSUME NEW k \in Nat, NEW v \in [1..k -> Int], NEW w \in [1..k -> Int], v # w
    PROVE  \E i \in 1..k : v[i] # w[i] /\ \A j \in 1..(i - 1) : v[j] = w[j]
<1> DEFINE D == {i \in 1..k : v[i] # w[i]}
<1>1. D # {} /\ D \in SUBSET Nat
  OBVIOUS
<1>2. PICK i \in D : \A j \in D : i <= j
  <2> HIDE DEF D
  <2> QED
    BY <1>1, Adding!Least
<1>3. ASSUME NEW j \in 1..(i - 1) PROVE v[j] = w[j]
  <2>1. j \in 1..k /\ ~(i <= j)
    OBVIOUS
  <2> QED
    BY <1>2, <2>1
<1> QED
  BY <1>3

LEMMA BeforeTransitive ==
    ASSUME NEW k \in Nat, NEW u \in [1..k -> Int], NEW v \in [1..k -> Int],
           NEW w \in [1..k -> Int], Before(u, v), Before(v, w)
    PROVE  Before(u, w)
<1>1. PICK i \in 1..k : u[i] < v[i] /\ \A j \in 1..(i - 1) : u[j] = v[j]
  BY DEF Before
<1>2. PICK h \in 1..k : v[h] < w[h] /\ \A j \in 1..(h - 1) : v[j] = w[j]
  BY DEF Before
<1>3. /\ \A j \in 1..k : u[j] \in Int /\ v[j] \in Int /\ w[j] \in Int
      /\ DOMAIN u = 1..k
  OBVIOUS
<1>4. CASE i <= h
  <2>1. u[i] < w[i]
    <3>1. CASE i = h
      BY <1>1, <1>2, <1>3, <3>1
    <3>2. CASE i < h
      <4>1. i \in 1..(h - 1)
        BY <3>2
      <4> QED
        BY <1>1, <1>2, <1>3, <4>1
    <3> QED
      BY <1>4, <3>1, <3>2
  <2>2. ASSUME NEW j \in 1..(i - 1) PROVE u[j] = w[j]
    <3>1. j \in 1..(h - 1)
      BY <1>4
    <3> QED
      BY <1>1, <1>2, <3>1
  <2> QED
    BY <1>3, <2>1, <2>2 DEF Before
<1>5. CASE h < i
  <2>1. u[h] < w[h]
    <3>1. h \in 1..(i - 1)
      BY <1>5
    <3> QED
      BY <1>1, <1>2, <1>3, <3>1
  <2>2. ASSUME NEW j \in 1..(h - 1) PROVE u[j] = w[j]
    <3>1. j \in 1..(i - 1)
      BY <1>5
    <3> QED
      BY <1>1, <1>2, <3>1
  <2> QED
    BY <1>3, <2>1, <2>2 DEF Before
<1> QED
  BY <1>4, <1>5

\* One sequence is before the other if, from a place on up to which they agree, its
\* numbers are as large at most and somewhere less.
LEMMA BeforeIfLess ==
    ASSUME NEW k \in Nat, NEW v \in [1..k -> Int], NEW w \in [1..k -> Int], NEW m \in Nat,
           \A j \in 1..k : j <= m => w[j] = v[j],
           \A j \in 1..k : j > m => w[j] <= v[j]
    PROVE  w = v \/ Before(w, v)
<1> SUFFICES ASSUME w # v PROVE Before(w, v)
  OBVIOUS
<1>1. PICK i \in 1..k : w[i] # v[i] /\ \A j \in 1..(i - 1) : w[j] = v[j]
  BY FirstDifference
<1>2. w[i] < v[i]
  <2>1. w[i] \in Int /\ v[i] \in Int /\ i > m
    BY <1>1
  <2> QED
    BY <1>1, <2>1
<1>3. DOMAIN w = 1..k
  OBVIOUS
<1> QED
  BY <1>1, <1>2, <1>3, Zenon DEF Before

\* What vectorIncrement makes of v is the sequence that follows v.
Follows(next, v, k, lb, up) ==
    /\ next.done \in BOOLEAN
    /\ next.done => next.counters = v /\ \A w \in Box(k, lb, up) : w = v \/ Before(w, v)
    /\ ~next.done => /\ next.counters \in Box(k, lb, up)
                     /\ Before(v, next.counters)
                     /\ \A w \in Box(k, lb, up) :
                           Before(w, next.counters) => w = v \/ Before(w, v)

LEMMA Incremented ==
    ASSUME NEW k \in Nat, NEW lb \in [1..k -> Int], NEW up \in [1..k -> Int],
           \A i \in 1..k : lb[i] <= up[i], NEW v \in Box(k, lb, up)
    PROVE  Follows(VectorIncrement(v, lb, up, All(k, 1)), v, k, lb, up)
<1> DEFINE inc  == All(k, 1)
           free == {i \in DOMAIN v : v[i] + inc[i] <= up[i]}
           last == CHOOSE i \in free : \A j \in free : j <= i
           next == VectorIncrement(v, lb, up, inc)
<1>1. /\ v \in [1..k -> Int] /\ DOMAIN v = 1..k
      /\ \A i \in 1..k : lb[i] <= v[i] /\ v[i] <= up[i]
      /\ \A i \in 1..k : v[i] \in Int /\ lb[i] \in Int /\ up[i] \in Int
  BY DEF Box
<1>2. \A i \in 1..k : inc[i] = 1
  BY DEF All
<1> HIDE DEF inc
<1>3. \A i \in 1..k : i \in free <=> v[i] < up[i]
  BY <1>1, <1>2
<1>4. free \subseteq 1..k
  BY <1>1
<1>5. CASE free = {}
  <2>1. next = [done |-> TRUE, counters |-> v]
    BY <1>5 DEF VectorIncrement
  <2> HIDE DEF next, free, last
  <2>2. next.done = TRUE /\ next.counters = v
    BY <2>1
  <2>3. ASSUME NEW w \in Box(k, lb, up) PROVE w = v \/ Before(w, v)
    <3>1. w \in [1..k -> Int] /\ \A i \in 1..k : w[i] <= v[i]
      BY <1>1, <1>3, <1>5 DEF Box
    <3>2. \A i \in 1..k : (i <= 0 => w[i] = v[i]) /\ (i > 0 => w[i] <= v[i])
      BY <3>1
    <3> QED
      BY <1>1, <3>1, <3>2, BeforeIfLess
  <2>4. Follows(next, v, k, lb, up)
    BY <2>2, <2>3, Zenon DEF Follows
  <2> QED
    BY <2>4 DEF next, inc
<1>6. CASE free # {}
  <2>1. PICK m \in free : \A j \in free : j <= m
    <3> DEFINE far == {n \in Nat : \E i \in free : n = k - i}
    <3>1. far # {} /\ far \in SUBSET Nat
      <4>1. PICK i \in free : TRUE
        BY <1>6
      <4>2. k - i \in far
        BY <1>4, <4>1
      <4> QED
        BY <4>2
    <3>2. PICK n \in far : \A m \in far : n <= m
      <4> HIDE DEF far
      <4> QED
        BY <3>1, Adding!Least
    <3>3. PICK i \in free : n = k - i
      BY <3>2
    <3> HIDE DEF free
    <3>4. ASSUME NEW j \in free PROVE j <= i
      <4>1. k - j \in far /\ j \in Int /\ i \in Int
        BY <1>4
      <4>2. n <= k - j
        BY <3>2, <4>1
      <4> QED
        BY <3>3, <4>1, <4>2
    <3> QED
      BY <3>4
  <2>2. last \in free /\ \A j \in free : j <= last
    <3> HIDE DEF free
    <3> QED
      BY <2>1
  <2> DEFINE z == [i \in DOMAIN v |-> CASE i < last -> v[i]
                                        [] i = last -> v[i] + inc[i]
                                        [] i > last -> lb[i]]
  <2>3. next = [done |-> FALSE, counters |-> z]
    BY <1>6 DEF VectorIncrement
  <2> HIDE DEF next, free
  <2>4. last \in 1..k
    BY <1>4, <2>2
  <2> HIDE DEF last
  <2>5. \A i \in 1..k : z[i] = IF i < last THEN v[i] ELSE IF i = last THEN v[i] + 1 ELSE lb[i]
    BY <1>1, <1>2, <2>4
  <2>6. z \in [1..k -> Int]
    BY <1>1, <1>2, <2>4
  <2>7. next.done = FALSE /\ next.counters = z
    BY <2>3
  <2> HIDE DEF z
  <2>8. v[last] < up[last] /\ \A i \in 1..k : i > last => v[i] = up[i]
    BY <1>1, <1>3, <2>2, <2>4
  <2>9. z \in Box(k, lb, up)
    <3>1. ASSUME NEW i \in 1..k PROVE lb[i] <= z[i] /\ z[i] <= up[i]
      <4>1. /\ lb[i] \in Int /\ up[i] \in Int /\ v[i] \in Int /\ i \in Int /\ last \in Int
            /\ lb[i] <= v[i] /\ v[i] <= up[i] /\ lb[i] <= up[i]
        BY <1>1, <2>4
      <4>2. z[i] = IF i < last THEN v[i] ELSE IF i = last THEN v[i] + 1 ELSE lb[i]
        BY <2>5
      <4>3. CASE i < last
        BY <4>1, <4>2, <4>3
      <4>4. CASE i = last
        BY <2>8, <4>1, <4>2, <4>4
      <4>5. CASE i > last
        BY <4>1, <4>2, <4>5
      <4> QED
        BY <4>1, <4>3, <4>4, <4>5
    <3> QED
      BY <2>6, <3>1 DEF Box
  <2>10. Before(v, z)
    <3>1. v[last] < z[last] /\ \A j \in 1..(last - 1) : v[j] = z[j]
      BY <1>1, <2>4, <2>5
    <3> QED
      BY <1>1, <2>4, <3>1 DEF Before
  <2>11. ASSUME NEW w \in Box(k, lb, up), Before(w, z) PROVE w = v \/ Before(w, v)
    <3>1. /\ w \in [1..k -> Int] /\ DOMAIN w = 1..k
          /\ \A i \in 1..k : w[i] \in Int /\ lb[i] <= w[i] /\ w[i] <= up[i]
      BY DEF Box
    <3>2. PICK i \in 1..k : w[i] < z[i] /\ \A j \in 1..(i - 1) : w[j] = z[j]
      BY <2>11, <3>1 DEF Before
    <3>3. CASE i < last
      <4>1. w[i] < v[i] /\ \A j \in 1..(i - 1) : w[j] = v[j]
        BY <2>4, <2>5, <3>2, <3>3
      <4> QED
        BY <3>1, <4>1 DEF Before
    <3>4. CASE i = last
      <4>1. \A j \in 1..k : j <= last - 1 => w[j] = v[j]
        BY <2>4, <2>5, <3>2, <3>4
      <4>2. w[last] <= v[last]
        BY <1>1, <2>4, <2>5, <3>1, <3>2, <3>4
      <4>3. ASSUME NEW j \in 1..k, j > last - 1 PROVE w[j] <= v[j]
        <5>1. CASE j = last
          BY <4>2, <5>1
        <5>2. CASE j # last
          <6>1. j > last
            BY <2>4, <4>3, <5>2
          <6>2. v[j] = up[j]
            BY <2>8, <6>1
          <6> QED
            BY <3>1, <6>2
        <5> QED
          BY <5>1, <5>2
      <4>4. last - 1 \in Nat
        BY <2>4
      <4> QED
        BY <1>1, <3>1, <4>1, <4>3, <4>4, BeforeIfLess
    <3>5. CASE i > last
      <4>1. z[i] = lb[i]
        BY <2>4, <2>5, <3>5
      <4>2. lb[i] <= w[i] /\ w[i] < lb[i] /\ w[i] \in Int /\ lb[i] \in Int
        BY <1>1, <3>1, <3>2, <4>1
      <4> QED
        BY <4>2
    <3> QED
      BY <2>4, <3>3, <3>4, <3>5
  <2>12. Follows(next, v, k, lb, up)
    BY <2>7, <2>9, <2>10, <2>11, Zenon DEF Follows
  <2> QED
    BY <2>12 DEF next, inc
<1> QED
  BY <1>5, <1>6

-----------------------------------------------------------------------------
(* The search stops.                                                       *)

\* There are finitely many sequences of n elements of a finite set.
LEMMA FinitelyMany ==
    ASSUME NEW S, IsFiniteSet(S), NEW n \in Nat
    PROVE  IsFiniteSet([1..n -> S])
<1> DEFINE Good == {m \in Nat : IsFiniteSet([1..m -> S])}
<1>1. 0 \in Good
  <2> DEFINE e == [i \in 1..0 |-> 0]
  <2>1. ASSUME NEW f \in [1..0 -> S] PROVE f \in {e}
    OBVIOUS
  <2>2. [1..0 -> S] \in SUBSET {e}
    BY <2>1
  <2>3. IsFiniteSet({e})
    BY FS_Singleton
  <2> QED
    BY <2>2, <2>3, FS_Subset
<1>2. ASSUME NEW m \in Nat, m \in Good PROVE m + 1 \in Good
  <2> DEFINE A == [1..(m + 1) -> S]
             B == [1..m -> S] \X S
             h == [f \in A |-> <<[i \in 1..m |-> f[i]], f[m + 1]>>]
  <2>1. IsFiniteSet(B)
    BY <1>2, FS_Product
  <2>2. ASSUME NEW f \in A PROVE h[f] \in B
    <3>1. \A i \in 1..m : i \in 1..(m + 1)
      OBVIOUS
    <3>2. m + 1 \in 1..(m + 1)
      OBVIOUS
    <3>3. [i \in 1..m |-> f[i]] \in [1..m -> S] /\ f[m + 1] \in S
      BY <3>1, <3>2
    <3> QED
      BY <3>3
  <2>3. ASSUME NEW f \in A, NEW g \in A, h[f] = h[g] PROVE f = g
    <3>1. [i \in 1..m |-> f[i]] = [i \in 1..m |-> g[i]] /\ f[m + 1] = g[m + 1]
      BY <2>3
    <3>2. ASSUME NEW i \in 1..(m + 1) PROVE f[i] = g[i]
      <4>1. CASE i = m + 1
        BY <3>1, <4>1
      <4>2. CASE i # m + 1
        <5>1. i \in 1..m
          BY <4>2
        <5>2. [j \in 1..m |-> f[j]][i] = [j \in 1..m |-> g[j]][i]
          BY <3>1
        <5> QED
          BY <5>1, <5>2
      <4> QED
        BY <4>1, <4>2
    <3> QED
      BY <3>2
  <2>4. h \in [A -> B]
    BY <2>2
  <2> HIDE DEF h, A, B
  <2>5. h \in Injection(A, B)
    BY <2>3, <2>4 DEF Injection, IsInjective
  <2>6. IsFiniteSet(A)
    BY <2>1, <2>5, FS_Injection
  <2> QED
    BY <2>6 DEF A
<1>3. n \in Good
  <2> HIDE DEF Good
  <2> QED
    BY <1>1, <1>2, Adding!Induction
<1> QED
  BY <1>3

\* A search that goes from a sequence to a later one is in a finite set for less steps
\* than the set has elements.
LEMMA SearchStops ==
    ASSUME NEW k \in Nat, NEW T \in SUBSET [1..k -> Int], IsFiniteSet(T), NEW f,
           \A m \in Nat : m <= Cardinality(T) => f[m] \in T,
           \A m \in Nat : m + 1 <= Cardinality(T) => Before(f[m], f[m + 1])
    PROVE  FALSE
<1> DEFINE n == Cardinality(T)
           g == [m \in 0..n |-> f[m]]
           Good == {m \in Nat : m <= n => \A j \in Nat : j < m => Before(f[j], f[m])}
<1>1. n \in Nat
  BY FS_CardinalityType
<1> HIDE DEF n
<1>2. 0 \in Good
  OBVIOUS
<1>3. ASSUME NEW m \in Nat, m \in Good PROVE m + 1 \in Good
  <2> SUFFICES ASSUME m + 1 <= n, NEW j \in Nat, j < m + 1 PROVE Before(f[j], f[m + 1])
    OBVIOUS
  <2>1. Before(f[m], f[m + 1])
    BY DEF n
  <2>2. CASE j = m
    BY <2>1, <2>2
  <2>3. CASE j # m
    <3>1. j < m /\ m <= n /\ j <= n /\ m + 1 \in Nat
      BY <1>1, <2>3
    <3>2. Before(f[j], f[m])
      BY <1>3, <3>1
    <3>3. f[j] \in [1..k -> Int] /\ f[m] \in [1..k -> Int] /\ f[m + 1] \in [1..k -> Int]
      BY <3>1 DEF n
    <3> HIDE DEF Good
    <3> QED
      BY <2>1, <3>2, <3>3, BeforeTransitive
  <2> QED
    BY <2>2, <2>3
<1>4. \A m \in Nat : m \in Good
  <2> HIDE DEF Good
  <2> QED
    BY <1>2, <1>3, Adding!Induction
<1>5. ASSUME NEW m \in 0..n, NEW j \in 0..n, j < m PROVE f[j] # f[m]
  <2>1. Before(f[j], f[m])
    BY <1>1, <1>4, <1>5
  <2>2. f[j] \in T /\ f[m] \in T
    BY <1>1 DEF n
  <2>3. PICK i \in 1..k : f[j][i] < f[m][i]
    BY <2>1, <2>2 DEF Before
  <2>4. f[j][i] \in Int /\ f[m][i] \in Int
    BY <2>2
  <2> QED
    BY <2>3, <2>4
<1>6. g \in [0..n -> T]
  BY <1>1 DEF n
<1>7. IsFiniteSet(0..n) /\ Cardinality(0..n) = n + 1
  BY <1>1, FS_Interval
<1>8. Cardinality(T) < Cardinality(0..n)
  BY <1>1, <1>7 DEF n
<1> HIDE DEF g
<1>9. PICK x \in 0..n, y \in 0..n : x # y /\ g[x] = g[y]
  BY <1>6, <1>7, <1>8, FS_PigeonHole
<1>10. f[x] = f[y]
  BY <1>9 DEF g
<1>11. x < y \/ y < x
  BY <1>1, <1>9
<1> QED
  BY <1>5, <1>10, <1>11

\* A loop that goes from a sequence to a later one, as long as it goes on, has stopped
\* after as many rounds as there are sequences.
LEMMA LoopStops ==
    ASSUME NEW k \in Nat, NEW T \in SUBSET [1..k -> Int], IsFiniteSet(T), NEW f, NEW M,
           \A m \in Nat : f[m] \in T,
           \A m \in Nat : m + 1 \in M => m \in M /\ Before(f[m], f[m + 1])
    PROVE  Cardinality(T) \notin M
<1> DEFINE n    == Cardinality(T)
           Back == {j \in Nat : j <= n => n - j \in M}
<1> SUFFICES ASSUME n \in M PROVE FALSE
  OBVIOUS
<1>1. n \in Nat
  BY FS_CardinalityType
<1> HIDE DEF n
<1>2. 0 \in Back
  BY <1>1
<1>3. ASSUME NEW j \in Nat, j \in Back PROVE j + 1 \in Back
  <2> SUFFICES ASSUME j + 1 <= n PROVE n - (j + 1) \in M
    OBVIOUS
  <2>1. n - (j + 1) \in Nat /\ (n - (j + 1)) + 1 = n - j /\ j <= n
    BY <1>1
  <2>2. (n - (j + 1)) + 1 \in M
    BY <1>3, <2>1
  <2> QED
    BY <2>1, <2>2
<1>4. \A j \in Nat : j \in Back
  <2> HIDE DEF Back
  <2> QED
    BY <1>2, <1>3, Adding!Induction
<1>5. ASSUME NEW m \in Nat, m <= n PROVE m \in M
  <2>1. n - m \in Nat /\ n - m <= n /\ n - (n - m) = m
    BY <1>1, <1>5
  <2>2. n - (n - m) \in M
    BY <1>4, <2>1
  <2> QED
    BY <2>1, <2>2
<1>6. \A m \in Nat : m + 1 <= n => Before(f[m], f[m + 1])
  <2>1. \A m \in Nat : m + 1 \in Nat
    OBVIOUS
  <2> QED
    BY <1>5, <2>1, Zenon
<1> QED
  BY <1>6, SearchStops, Zenon DEF n

-----------------------------------------------------------------------------
(* The inner loop looks at every way to run jobs.                          *)

\* The sequences of k numbers from a to b.
IsCube(k, a, b) ==
    /\ Box(k, All(k, a), All(k, b)) = [1..k -> a..b]
    /\ IsFiniteSet([1..k -> a..b])
    /\ All(k, a) \in [1..k -> Int] /\ All(k, b) \in [1..k -> Int]
    /\ \A i \in 1..k : All(k, a)[i] = a /\ All(k, b)[i] = b

LEMMA BoxIsFinite ==
    ASSUME NEW k \in Nat, NEW a \in Int, NEW b \in Int
    PROVE  IsCube(k, a, b)
<1>1. /\ All(k, a) \in [1..k -> Int] /\ All(k, b) \in [1..k -> Int]
      /\ \A i \in 1..k : All(k, a)[i] = a /\ All(k, b)[i] = b
  BY DEF All
<1>2. ASSUME NEW v PROVE v \in Box(k, All(k, a), All(k, b)) <=> v \in [1..k -> a..b]
  BY <1>1 DEF Box
<1>3. IsFiniteSet(a..b)
  BY FS_Interval
<1>4. IsFiniteSet([1..k -> a..b])
  BY <1>3, FinitelyMany
<1> QED
  BY <1>1, <1>2, <1>4 DEF IsCube

\* The length of a sequence of k numbers.
LEMMA LengthOf ==
    ASSUME NEW k \in Nat, NEW S, NEW v \in [1..k -> S]
    PROVE  v \in Seq(S) /\ Len(v) = k
  OBVIOUS

\* Whether the jobs w fit and take of the space to leave.
Fills(w, p) ==
    /\ Occupied(w, p.sizes) <= p.nodes
    /\ Occupied(w, p.sizes) > p.nodes - p.space_to_leave

Ways(p) == [1..Len(p.sizes) -> 0..p.nodes]

\* What the inner loop has found out.
Packed(x, p) ==
    /\ x.more \in BOOLEAN /\ x.enough \in BOOLEAN /\ x.num_jobs \in Ways(p)
    /\ x.more  => x.enough /\ \A w \in Ways(p) : Before(w, x.num_jobs) => ~Fills(w, p)
    /\ ~x.more => (x.enough <=> \A w \in Ways(p) : ~Fills(w, p))

\* The loop goes on to a later way.
GoesTo(y, x) == y.more => x.more /\ Before(x.num_jobs, y.num_jobs)

\* The fields of a record.
IsTrying(y, a, b, c) == y.more = a /\ y.enough = b /\ y.num_jobs = c

LEMMA TryingFields ==
    ASSUME NEW a, NEW b, NEW c
    PROVE  IsTrying(Trying(a, b, c), a, b, c)
  BY DEF Trying, IsTrying

LEMMA RoundOfJobs ==
    ASSUME NEW p, Len(p.sizes) \in Nat, p.nodes \in Nat, NEW x, NEW n, Packed(x, p)
    PROVE  Packed(JobsRound(p, x, n), p) /\ GoesTo(JobsRound(p, x, n), x)
<1> DEFINE k    == Len(p.sizes)
           lb   == All(k, 0)
           up   == All(k, p.nodes)
           next == VectorIncrement(x.num_jobs, lb, up, All(k, 1))
           y    == JobsRound(p, x, n)
           v    == x.num_jobs
<1>1. y = IF ~x.more THEN x ELSE IF Fills(v, p) THEN Trying(FALSE, FALSE, v)
          ELSE Trying(~next.done, x.enough, next.counters)
  BY Zenon DEF JobsRound, Fills
<1> HIDE DEF y
<1>2. CASE ~x.more
  <2>1. y = x
    BY <1>1, <1>2, Zenon
  <2>2. Packed(y, p) /\ GoesTo(y, x)
    BY <1>2, <2>1, Zenon DEF GoesTo
  <2> QED
    BY <2>2, Zenon DEF y
<1>3. CASE x.more /\ Fills(v, p)
  <2>1. y = Trying(FALSE, FALSE, v)
    BY <1>1, <1>3, Zenon
  <2>2. IsTrying(y, FALSE, FALSE, v)
    BY <2>1, TryingFields, Zenon
  <2>3. v \in Ways(p)
    BY Zenon DEF Packed
  <2>4. Packed(y, p) /\ GoesTo(y, x)
    BY <1>3, <2>2, <2>3, Zenon DEF Packed, GoesTo, IsTrying
  <2> QED
    BY <2>4, Zenon DEF y
<1>4. CASE x.more /\ ~Fills(v, p)
  <2>1. y = Trying(~next.done, x.enough, next.counters)
    BY <1>1, <1>4, Zenon
  <2> HIDE DEF next
  <2>0. IsTrying(y, ~next.done, x.enough, next.counters)
    BY <2>1, TryingFields, Zenon
  <2>2. y.more = ~next.done /\ y.enough = x.enough /\ y.num_jobs = next.counters
    BY <2>0, Zenon DEF IsTrying
  <2>3. Ways(p) = Box(k, lb, up) /\ v \in Ways(p)
    <3>1. Box(k, lb, up) = [1..k -> 0..p.nodes]
      <4>1. IsCube(k, 0, p.nodes)
        <5>1. 0 \in Int /\ p.nodes \in Int /\ k \in Nat
          OBVIOUS
        <5> HIDE DEF k
        <5> QED
          BY <5>1, BoxIsFinite, Zenon
      <4> QED
        BY <4>1, Zenon DEF IsCube
    <3> QED
      BY <3>1, Zenon DEF Ways, Packed
  <2>4. Follows(next, v, k, lb, up)
    <3>1. /\ lb \in [1..k -> Int] /\ up \in [1..k -> Int]
          /\ \A i \in 1..k : lb[i] = 0 /\ up[i] = p.nodes
      <4>1. IsCube(k, 0, p.nodes)
        <5>1. 0 \in Int /\ p.nodes \in Int /\ k \in Nat
          OBVIOUS
        <5> HIDE DEF k
        <5> QED
          BY <5>1, BoxIsFinite, Zenon
      <4> QED
        BY <4>1, Zenon DEF IsCube
    <3>2. \A i \in 1..k : lb[i] <= up[i]
      BY <3>1
    <3> HIDE DEF lb, up
    <3>3. v \in Box(k, lb, up)
      BY <2>3
    <3> QED
      BY <3>1, <3>2, <3>3, Incremented DEF next
  <2> HIDE DEF v
  <2>5. x.enough /\ \A w \in Ways(p) : Before(w, v) => ~Fills(w, p)
    BY <1>4, Zenon DEF Packed, v
  <2>6. CASE next.done
    <3>1. next.counters = v /\ \A w \in Ways(p) : w = v \/ Before(w, v)
      BY <2>3, <2>4, <2>6, Zenon DEF Follows
    <3>2. \A w \in Ways(p) : ~Fills(w, p)
      BY <1>4, <2>5, <3>1, Zenon
    <3>3. Packed(y, p) /\ GoesTo(y, x)
      BY <2>2, <2>3, <2>5, <2>6, <3>1, <3>2 DEF Packed, GoesTo
    <3> QED
      BY <3>3, Zenon DEF y
  <2>7. CASE ~next.done
    <3>1. /\ next.counters \in Ways(p) /\ Before(v, next.counters)
          /\ \A w \in Ways(p) : Before(w, next.counters) => w = v \/ Before(w, v)
      BY <2>3, <2>4, <2>7, Zenon DEF Follows
    <3>2. \A w \in Ways(p) : Before(w, next.counters) => ~Fills(w, p)
      BY <1>4, <2>5, <3>1, Zenon
    <3>3. Packed(y, p)
      BY <2>2, <2>5, <2>7, <3>1, <3>2 DEF Packed
    <3>4. GoesTo(y, x)
      BY <1>4, <2>2, <3>1 DEF GoesTo, v
    <3> QED
      BY <3>3, <3>4, Zenon DEF y
  <2> QED
    BY <2>6, <2>7
<1> QED
  BY <1>2, <1>3, <1>4

\* EnoughSpaceLeft says that no way to run jobs fits and takes of the space to leave.
LEMMA EnoughIsLeft ==
    ASSUME NEW k \in Nat, NEW nodes \in Nat, NEW space, NEW sizes \in [1..k -> Nat]
    PROVE  LET p == [sizes |-> sizes, nodes |-> nodes, space_to_leave |-> space]
           IN  EnoughSpaceLeft(sizes, nodes, space) <=> \A w \in Ways(p) : ~Fills(w, p)
<1> DEFINE p == [sizes |-> sizes, nodes |-> nodes, space_to_leave |-> space]
           a == Trying(TRUE, TRUE, All(k, 0))
           x == Packing!Rounds(p, a)
           n == Cardinality(Ways(p))
<1>1. Len(sizes) = k /\ p.sizes = sizes /\ p.nodes = nodes /\ p.space_to_leave = space
  BY LengthOf
<1>2. EnoughSpaceLeft(sizes, nodes, space) = Packing!Loop(p, a, n).enough
  BY <1>1, Zenon DEF EnoughSpaceLeft, Ways
<1> HIDE DEF p
<1>3. /\ x[0] = a
      /\ \A m \in Nat : x[m + 1] = JobsRound(p, x[m], m + 1)
      /\ \A m \in Nat : x[m] = Packing!Loop(p, a, m)
  BY Packing!RoundsNext
<1> HIDE DEF x
<1>4. Ways(p) = [1..k -> 0..nodes] /\ Ways(p) = Box(k, All(k, 0), All(k, nodes))
      /\ IsFiniteSet(Ways(p)) /\ \A i \in 1..k : All(k, 0)[i] = 0
  <2>1. Ways(p) = [1..k -> 0..nodes]
    BY <1>1 DEF Ways
  <2>2. /\ Box(k, All(k, 0), All(k, nodes)) = [1..k -> 0..nodes]
        /\ IsFiniteSet([1..k -> 0..nodes]) /\ \A i \in 1..k : All(k, 0)[i] = 0
    <3>1. IsCube(k, 0, nodes)
      <4>1. 0 \in Int /\ nodes \in Int /\ k \in Nat
        OBVIOUS
      <4> QED
        BY <4>1, BoxIsFinite, Zenon
    <3> QED
      BY <3>1, Zenon DEF IsCube
  <2> QED
    BY <2>1, <2>2
<1>5. n \in Nat
  BY <1>4, FS_CardinalityType
<1>6. Packed(x[0], p)
  <2>1. IsTrying(a, TRUE, TRUE, All(k, 0))
    BY TryingFields, Zenon
  <2> HIDE DEF a
  <2>2. All(k, 0) \in Ways(p)
    BY <1>4 DEF All
  <2>3. ASSUME NEW w \in Ways(p) PROVE ~Before(w, All(k, 0))
    <3>1. \A i \in DOMAIN w : i \in 1..k /\ w[i] \in Nat
      BY <1>4
    <3>2. \A i \in DOMAIN w : ~(w[i] < All(k, 0)[i])
      BY <1>4, <3>1
    <3> QED
      BY <3>2, Zenon DEF Before
  <2> QED
    BY <1>3, <2>1, <2>2, <2>3 DEF Packed, IsTrying
<1> HIDE DEF a
<1>7. ASSUME NEW m \in Nat, Packed(x[m], p) PROVE Packed(x[m + 1], p) /\ GoesTo(x[m + 1], x[m])
  <2>1. x[m + 1] = JobsRound(p, x[m], m + 1)
    BY <1>3
  <2>2. Packed(JobsRound(p, x[m], m + 1), p) /\ GoesTo(JobsRound(p, x[m], m + 1), x[m])
    BY <1>1, <1>7, RoundOfJobs
  <2> QED
    BY <2>1, <2>2, Zenon
<1>8. \A m \in Nat : Packed(x[m], p)
  <2> DEFINE Good == {m \in Nat : Packed(x[m], p)}
  <2>1. 0 \in Good
    BY <1>6
  <2>2. ASSUME NEW m \in Nat, m \in Good PROVE m + 1 \in Good
    BY <1>7, <2>2
  <2>3. \A m \in Nat : m \in Good
    <3> HIDE DEF Good
    <3> QED
      BY <2>1, <2>2, Adding!Induction
  <2> QED
    BY <2>3
<1>9. ~x[n].more
  <2> DEFINE M == {m \in Nat : x[m].more}
             f == [m \in Nat |-> x[m].num_jobs]
  <2>1. \A m \in Nat : f[m] \in Ways(p)
    BY <1>8, Zenon DEF Packed
  <2>2. ASSUME NEW m \in Nat, m + 1 \in M PROVE m \in M /\ Before(f[m], f[m + 1])
    <3>1. GoesTo(x[m + 1], x[m])
      BY <1>7, <1>8
    <3>2. m + 1 \in Nat /\ x[m + 1].more
      BY <2>2
    <3> QED
      BY <3>1, <3>2, Zenon DEF GoesTo
  <2>3. Ways(p) \in SUBSET [1..k -> Int]
    <3>1. \A w \in Ways(p) : w \in [1..k -> Int]
      BY <1>4
    <3> QED
      BY <3>1
  <2> HIDE DEF f, M
  <2>4. n \notin M
    BY <1>4, <2>1, <2>2, <2>3, LoopStops
  <2> QED
    BY <1>5, <2>4 DEF M
<1>10. x[n].enough <=> \A w \in Ways(p) : ~Fills(w, p)
  BY <1>5, <1>8, <1>9, Zenon DEF Packed
<1>11. EnoughSpaceLeft(sizes, nodes, space) = x[n].enough
  BY <1>2, <1>3, <1>5
<1> HIDE DEF n
<1> QED
  BY <1>10, <1>11, Zenon DEF p

-----------------------------------------------------------------------------
(* The outer loop looks at every candidate, in order.                      *)

\* The candidates.
CandidateBox(nodes, k) == Box(k, FirstCandidates(k), All(k, nodes))

\* Each is after those that were looked at before it.
InOrder(s) == \A i, j \in 1..Len(s) : i < j => Before(s[i], s[j])

\* What the outer loop has looked at.
Looked(x, B) ==
    /\ x.more \in BOOLEAN /\ x.candidates \in B /\ x.seen \in Seq(B)
    /\ InOrder(x.seen)
    /\ x.more  => /\ \A i \in 1..Len(x.seen) : Before(x.seen[i], x.candidates)
                  /\ \A w \in B : Before(w, x.candidates) => \E i \in 1..Len(x.seen) : x.seen[i] = w
    /\ ~x.more => \A w \in B : \E i \in 1..Len(x.seen) : x.seen[i] = w

\* The loop goes on to a later candidate.
LooksAt(y, x) == y.more => x.more /\ Before(x.candidates, y.candidates)

\* The fields of a record.
IsSought(y, a, b, c) == y.more = a /\ y.candidates = b /\ y.seen = c

LEMMA SoughtFields ==
    ASSUME NEW a, NEW b, NEW c
    PROVE  IsSought(Sought(a, b, c), a, b, c)
  BY DEF Sought, IsSought

LEMMA FirstCandidate ==
    ASSUME NEW k \in Nat, k # 0
    PROVE  /\ FirstCandidates(k) \in [1..k -> Int]
           /\ \A i \in 1..k : FirstCandidates(k)[i] = IF i = 1 THEN 2 ELSE 1
<1> DEFINE t == All(k - 1, 1)
           h == <<2>>
           u == h \o t
<1>1. k - 1 \in Nat /\ 1 \in Int
  OBVIOUS
<1>2. t \in Seq(Int) /\ Len(t) = k - 1 /\ \A i \in 1..(k - 1) : t[i] = 1
  BY <1>1, AllFacts
<1>3. h \in Seq(Int) /\ Len(h) = 1 /\ h[1] = 2
  OBVIOUS
<1> HIDE DEF t, h
<1>4. IsConcat(u, h, t, Int)
  BY <1>2, <1>3, ConcatFacts, Zenon
<1> HIDE DEF u
<1>5. /\ u \in Seq(Int) /\ Len(u) = k
      /\ u[1] = 2 /\ \A i \in 1..(k - 1) : u[1 + i] = 1
  <2>1. /\ u \in Seq(Int) /\ Len(u) = 1 + (k - 1)
        /\ \A i \in 1..1 : u[i] = h[i]
        /\ \A i \in 1..(k - 1) : u[1 + i] = t[i]
    BY <1>2, <1>3, <1>4, Zenon DEF IsConcat
  <2>2. 1 \in 1..1 /\ 1 + (k - 1) = k
    OBVIOUS
  <2> QED
    BY <1>2, <1>3, <2>1, <2>2
<1>6. ASSUME NEW i \in 1..k PROVE u[i] = IF i = 1 THEN 2 ELSE 1
  <2>1. CASE i = 1
    BY <1>5, <2>1
  <2>2. CASE i # 1
    <3>1. i - 1 \in 1..(k - 1) /\ 1 + (i - 1) = i
      BY <2>2
    <3> QED
      BY <1>5, <2>2, <3>1
  <2> QED
    BY <2>1, <2>2
<1>7. u \in [1..k -> Int]
  BY <1>5, LenProperties
<1> QED
  BY <1>6, <1>7, Zenon DEF u, h, t, FirstCandidates

\* With two nodes at least there are candidates.
LEMMA CandidateBounds ==
    ASSUME NEW k \in Nat, k # 0, NEW nodes \in Nat, nodes >= 2
    PROVE  /\ FirstCandidates(k) \in [1..k -> Int] /\ All(k, nodes) \in [1..k -> Int]
           /\ \A i \in 1..k : FirstCandidates(k)[i] <= All(k, nodes)[i]
           /\ FirstCandidates(k) \in CandidateBox(nodes, k)
           /\ CandidateBox(nodes, k) = {v \in [1..k -> 1..nodes] : v[1] > 1}
<1> DEFINE lb == FirstCandidates(k)
           up == All(k, nodes)
<1>1. lb \in [1..k -> Int] /\ \A i \in 1..k : lb[i] = IF i = 1 THEN 2 ELSE 1
  BY FirstCandidate
<1>2. up \in [1..k -> Int] /\ \A i \in 1..k : up[i] = nodes
  BY DEF All
<1> HIDE DEF lb, up
<1>3. \A i \in 1..k : lb[i] <= up[i]
  BY <1>1, <1>2
<1>4. lb \in Box(k, lb, up)
  BY <1>1, <1>3 DEF Box
<1>5. ASSUME NEW v
      PROVE  v \in Box(k, lb, up) <=> v \in {w \in [1..k -> 1..nodes] : w[1] > 1}
  <2>1. ASSUME v \in Box(k, lb, up) PROVE v \in [1..k -> 1..nodes] /\ v[1] > 1
    <3>1. ASSUME NEW i \in 1..k PROVE v[i] \in 1..nodes /\ (i = 1 => v[i] > 1)
      <4>1. v[i] \in Int /\ lb[i] <= v[i] /\ v[i] <= up[i]
        BY <2>1 DEF Box
      <4> QED
        BY <1>1, <1>2, <4>1
    <3>2. v \in [1..k -> Int]
      BY <2>1 DEF Box
    <3> QED
      BY <3>1, <3>2
  <2>2. ASSUME v \in [1..k -> 1..nodes], v[1] > 1 PROVE v \in Box(k, lb, up)
    <3>1. ASSUME NEW i \in 1..k PROVE lb[i] <= v[i] /\ v[i] <= up[i]
      <4>1. v[i] \in 1..nodes
        BY <2>2
      <4> QED
        BY <1>1, <1>2, <2>2, <4>1
    <3>2. v \in [1..k -> Int]
      BY <2>2
    <3> QED
      BY <3>1, <3>2 DEF Box
  <2> QED
    BY <2>1, <2>2
<1>6. Box(k, lb, up) = {v \in [1..k -> 1..nodes] : v[1] > 1}
  BY <1>5
<1> QED
  BY <1>1, <1>2, <1>3, <1>4, <1>6, Zenon DEF lb, up, CandidateBox

LEMMA RoundOfSearch ==
    ASSUME NEW k \in Nat, k # 0, NEW nodes \in Nat, nodes >= 2, NEW x, NEW n,
           Looked(x, CandidateBox(nodes, k))
    PROVE  /\ Looked(SearchRound(nodes, x, n), CandidateBox(nodes, k))
           /\ LooksAt(SearchRound(nodes, x, n), x)
<1> DEFINE B    == CandidateBox(nodes, k)
           lb   == FirstCandidates(k)
           up   == All(k, nodes)
           c    == x.candidates
           s    == x.seen
           t    == Append(s, c)
           next == VectorIncrement(c, lb, up, All(k, 1))
           y    == SearchRound(nodes, x, n)
<1>1. c \in B /\ s \in Seq(B) /\ InOrder(s)
  BY Zenon DEF Looked
<1>2. Len(c) = k
  <2>1. c \in [1..k -> Int]
    BY <1>1 DEF CandidateBox, Box
  <2> HIDE DEF c
  <2> QED
    BY <2>1, LengthOf
<1>3. y = IF ~x.more THEN x ELSE Sought(~next.done, next.counters, t)
  BY <1>2, Zenon DEF SearchRound
<1> HIDE DEF y
<1>4. CASE ~x.more
  <2>1. y = x
    BY <1>3, <1>4, Zenon
  <2>2. Looked(y, B) /\ LooksAt(y, x)
    BY <1>4, <2>1, Zenon DEF LooksAt
  <2> QED
    BY <2>2, Zenon DEF y, B
<1>5. CASE x.more
  <2>1. Follows(next, c, k, lb, up)
    <3>1. lb \in [1..k -> Int] /\ up \in [1..k -> Int] /\ \A i \in 1..k : lb[i] <= up[i]
      BY CandidateBounds
    <3>2. c \in Box(k, lb, up)
      BY <1>1 DEF CandidateBox
    <3> HIDE DEF lb, up, c
    <3> QED
      BY <3>1, <3>2, Incremented, Zenon
  <2> HIDE DEF next
  <2>2. IsSought(y, ~next.done, next.counters, t)
    <3>1. y = Sought(~next.done, next.counters, t)
      BY <1>3, <1>5, Zenon
    <3> HIDE DEF t
    <3> QED
      BY <3>1, SoughtFields, Zenon
  <2>3. IsAppend(t, s, c, B)
    <3> HIDE DEF B, s, c
    <3> QED
      BY <1>1, AppendFacts, Zenon
  <2> HIDE DEF t
  <2>4. /\ \A i \in 1..Len(s) : Before(s[i], c)
        /\ \A w \in B : Before(w, c) => \E i \in 1..Len(s) : s[i] = w
    BY <1>5, Zenon DEF Looked
  <2> HIDE DEF s
  <2>5. /\ t \in Seq(B) /\ Len(t) = Len(s) + 1 /\ Len(s) \in Nat
        /\ \A i \in 1..Len(s) : t[i] = s[i]
        /\ t[Len(s) + 1] = c
    BY <2>3, Zenon DEF IsAppend
  <2> DEFINE l == Len(s)
  <2> HIDE DEF l
  <2>6. InOrder(t)
    <3>1. \A i, j \in 1..l : i < j => Before(s[i], s[j])
      BY <1>1, Zenon DEF InOrder, l
    <3>2. ASSUME NEW i \in 1..(l + 1), NEW j \in 1..(l + 1), i < j PROVE Before(t[i], t[j])
      <4>1. l \in Nat /\ t[l + 1] = c /\ \A h \in 1..l : t[h] = s[h] /\ Before(s[h], c)
        BY <2>4, <2>5, Zenon DEF l
      <4>2. i \in 1..l
        BY <3>2, <4>1
      <4>3. CASE j = l + 1
        BY <4>1, <4>2, <4>3
      <4>4. CASE j # l + 1
        <5>1. j \in 1..l
          BY <4>1, <4>4
        <5> QED
          BY <3>1, <3>2, <4>1, <4>2, <5>1
      <4> QED
        BY <4>3, <4>4
    <3> QED
      BY <2>5, <3>2, Zenon DEF InOrder, l
  <2>7. ASSUME NEW w \in B, w = c \/ Before(w, c) PROVE \E i \in 1..Len(t) : t[i] = w
    <3>1. CASE w = c
      <4>1. Len(s) + 1 \in 1..Len(t)
        BY <2>5
      <4> QED
        BY <2>5, <3>1, <4>1, Zenon
    <3>2. CASE Before(w, c)
      <4>1. PICK i \in 1..Len(s) : s[i] = w
        BY <2>4, <3>2
      <4>2. i \in 1..Len(t) /\ t[i] = w
        BY <2>5, <4>1
      <4> QED
        BY <4>2, Zenon
    <3> QED
      BY <2>7, <3>1, <3>2
  <2> HIDE DEF c
  <2>8. CASE next.done
    <3>1. next.counters = c /\ \A w \in B : w = c \/ Before(w, c)
      BY <2>1, <2>8, Zenon DEF Follows, CandidateBox
    <3>2. \A w \in B : \E i \in 1..Len(t) : t[i] = w
      BY <2>7, <3>1, Zenon
    <3>3. y.more = FALSE /\ y.candidates = c /\ y.seen = t
      BY <2>2, <2>8, <3>1, Zenon DEF IsSought
    <3> HIDE DEF B
    <3>4. Looked(y, B) /\ LooksAt(y, x)
      BY <1>1, <2>5, <2>6, <3>2, <3>3, Zenon DEF Looked, LooksAt
    <3> QED
      BY <3>4, Zenon DEF y, B
  <2>9. CASE ~next.done
    <3>1. /\ next.counters \in B /\ Before(c, next.counters)
          /\ \A w \in B : Before(w, next.counters) => w = c \/ Before(w, c)
      BY <2>1, <2>9, Zenon DEF Follows, CandidateBox
    <3>2. y.more = TRUE /\ y.candidates = next.counters /\ y.seen = t
      BY <2>2, <2>9, Zenon DEF IsSought
    <3>3. \A w \in B : Before(w, y.candidates) => \E i \in 1..Len(t) : t[i] = w
      BY <2>7, <3>1, <3>2, Zenon
    <3>4. ASSUME NEW i \in 1..Len(t) PROVE Before(t[i], y.candidates)
      <4>1. CASE i = Len(s) + 1
        BY <2>5, <3>1, <3>2, <4>1
      <4>2. CASE i # Len(s) + 1
        <5>1. i \in 1..Len(s)
          BY <2>5, <4>2
        <5>2. t[i] = s[i] /\ Before(s[i], c)
          BY <2>4, <2>5, <5>1
        <5>3. s[i] \in B
          BY <1>1, <5>1, ElementOfSeq DEF s
        <5>4. s[i] \in [1..k -> Int] /\ c \in [1..k -> Int] /\ next.counters \in [1..k -> Int]
          BY <1>1, <3>1, <5>3 DEF CandidateBox, Box, c
        <5>5. Before(s[i], next.counters)
          BY <3>1, <5>2, <5>4, BeforeTransitive
        <5> QED
          BY <3>2, <5>2, <5>5, Zenon
      <4> QED
        BY <4>1, <4>2
    <3> HIDE DEF B
    <3>5. Looked(y, B)
      BY <2>5, <2>6, <3>1, <3>2, <3>3, <3>4, Zenon DEF Looked
    <3>6. LooksAt(y, x)
      BY <1>5, <3>1, <3>2, Zenon DEF LooksAt, c
    <3> QED
      BY <3>5, <3>6, Zenon DEF y, B
  <2> QED
    BY <2>8, <2>9
<1> QED
  BY <1>4, <1>5

\* A sequence of all candidates, in order.
HasAll(s, B) == s \in Seq(B) /\ InOrder(s) /\ \A w \in B : \E i \in 1..Len(s) : s[i] = w

LEMMA AllCandidates ==
    ASSUME NEW k \in Nat, k # 0, NEW nodes \in Nat, nodes >= 2
    PROVE  HasAll(Candidates(nodes, k), CandidateBox(nodes, k))
<1> DEFINE B  == CandidateBox(nodes, k)
           lb == FirstCandidates(k)
           a  == Sought(TRUE, lb, <<>>)
           x  == Searching!Rounds(nodes, a)
           T  == [1..k -> 1..nodes]
           n  == Cardinality(T)
<1>1. Candidates(nodes, k) = Searching!Loop(nodes, a, n).seen
  BY Zenon DEF Candidates
<1>2. /\ x[0] = a
      /\ \A m \in Nat : x[m + 1] = SearchRound(nodes, x[m], m + 1)
      /\ \A m \in Nat : x[m] = Searching!Loop(nodes, a, m)
  BY Searching!RoundsNext
<1> HIDE DEF x
<1>3. IsFiniteSet(T)
  <2>1. IsFiniteSet(1..nodes)
    BY FS_Interval
  <2> QED
    BY <2>1, FinitelyMany
<1>4. n \in Nat
  BY <1>3, FS_CardinalityType
<1>5. lb \in B /\ B \in SUBSET T /\ T \in SUBSET [1..k -> Int]
  <2>1. lb \in B /\ B = {v \in T : v[1] > 1}
    BY CandidateBounds
  <2>2. \A v \in T : v \in [1..k -> Int]
    OBVIOUS
  <2> HIDE DEF T, B, lb
  <2> QED
    BY <2>1, <2>2
<1>6. Looked(x[0], B)
  <2>1. IsSought(a, TRUE, lb, <<>>)
    BY SoughtFields, Zenon
  <2> HIDE DEF a
  <2>2. x[0].more = TRUE /\ x[0].candidates = lb /\ x[0].seen = <<>>
    BY <1>2, <2>1, Zenon DEF IsSought
  <2>3. ASSUME NEW w \in B PROVE ~Before(w, lb)
    <3>1. w \in [1..k -> Int] /\ \A i \in 1..k : lb[i] <= w[i]
      BY DEF CandidateBox, Box
    <3>2. lb \in [1..k -> Int]
      BY CandidateBounds
    <3> HIDE DEF lb
    <3>3. DOMAIN w = 1..k /\ \A i \in 1..k : ~(w[i] < lb[i])
      <4>1. \A i \in 1..k : w[i] \in Int /\ lb[i] \in Int
        BY <3>1, <3>2
      <4> QED
        BY <3>1, <4>1
    <3> QED
      BY <3>3, Zenon DEF Before
  <2> HIDE DEF lb, B
  <2>4. <<>> \in Seq(B) /\ \A i : i \notin 1..Len(<<>>)
    OBVIOUS
  <2>5. InOrder(<<>>)
    BY <2>4, Zenon DEF InOrder
  <2> QED
    BY <1>5, <2>2, <2>3, <2>4, <2>5, Zenon DEF Looked
<1>7. ASSUME NEW m \in Nat, Looked(x[m], B) PROVE Looked(x[m + 1], B) /\ LooksAt(x[m + 1], x[m])
  <2>1. x[m + 1] = SearchRound(nodes, x[m], m + 1)
    BY <1>2
  <2>2. Looked(SearchRound(nodes, x[m], m + 1), B) /\ LooksAt(SearchRound(nodes, x[m], m + 1), x[m])
    BY <1>7, RoundOfSearch
  <2> QED
    BY <2>1, <2>2, Zenon
<1> HIDE DEF B
<1>8. \A m \in Nat : Looked(x[m], B)
  <2> DEFINE Good == {m \in Nat : Looked(x[m], B)}
  <2>1. 0 \in Good
    BY <1>6
  <2>2. ASSUME NEW m \in Nat, m \in Good PROVE m + 1 \in Good
    BY <1>7, <2>2
  <2>3. \A m \in Nat : m \in Good
    <3> HIDE DEF Good
    <3> QED
      BY <2>1, <2>2, Adding!Induction
  <2> QED
    BY <2>3
<1>9. ~x[n].more
  <2> DEFINE M == {m \in Nat : x[m].more}
             f == [m \in Nat |-> x[m].candidates]
  <2>1. \A m \in Nat : f[m] \in T
    <3> HIDE DEF T
    <3> QED
      BY <1>5, <1>8, Zenon DEF Looked
  <2>2. ASSUME NEW m \in Nat, m + 1 \in M PROVE m \in M /\ Before(f[m], f[m + 1])
    <3>1. LooksAt(x[m + 1], x[m])
      BY <1>7, <1>8
    <3>2. m + 1 \in Nat /\ x[m + 1].more
      BY <2>2
    <3> QED
      BY <3>1, <3>2, Zenon DEF LooksAt
  <2> HIDE DEF f, M, T
  <2>3. n \notin M
    BY <1>3, <1>5, <2>1, <2>2, LoopStops
  <2> QED
    BY <1>4, <2>3 DEF M
<1>10. Looked(x[n], B)
  BY <1>4, <1>8
<1>11. Candidates(nodes, k) = x[n].seen
  BY <1>1, <1>2, <1>4
<1> HIDE DEF n
<1>12. HasAll(x[n].seen, B)
  BY <1>9, <1>10, Zenon DEF HasAll, Looked
<1> QED
  BY <1>11, <1>12, Zenon DEF B

\* Of the first m of the sequence s, t has those that the search finds.
Taken(t, s, m, nodes, space) ==
    /\ \A j \in 1..Len(t) : \E i \in 1..m : t[j] = s[i] /\ Found(s[i], nodes, space)
    /\ \A i \in 1..m : Found(s[i], nodes, space) => \E j \in 1..Len(t) : t[j] = s[i]
    /\ \A j \in 1..(Len(t) - 1) : Before(t[j], t[j + 1])

\* What a candidate adds to what is printed.
Line(c, nodes, space) == IF Found(c, nodes, space) THEN <<c>> ELSE <<>>

LEMMA OneMoreTaken ==
    ASSUME NEW B, NEW s \in Seq(B), InOrder(s), NEW nodes, NEW space, NEW m \in Nat, m < Len(s),
           NEW t \in Seq(B), Taken(t, s, m, nodes, space)
    PROVE  Taken(t \o Line(s[m + 1], nodes, space), s, m + 1, nodes, space)
<1> DEFINE c == s[m + 1]
           e == Line(c, nodes, space)
           u == t \o e
           l == Len(t)
<1>1. Len(s) \in Nat /\ m + 1 \in 1..Len(s) /\ Len(t) \in Nat
  BY LenProperties
<1>2. c \in B
  BY <1>1, ElementOfSeq
<1>3. /\ \A j \in 1..Len(t) : \E i \in 1..m : t[j] = s[i] /\ Found(s[i], nodes, space)
      /\ \A i \in 1..m : Found(s[i], nodes, space) => \E j \in 1..Len(t) : t[j] = s[i]
      /\ \A j \in 1..(Len(t) - 1) : Before(t[j], t[j + 1])
  BY Zenon DEF Taken
<1> HIDE DEF c, l
<1>4. \A i \in 1..m : i \in 1..(m + 1)
  OBVIOUS
<1>5. \A i \in 1..(m + 1) : i \in 1..m \/ i = m + 1
  OBVIOUS
<1>6. m + 1 \in 1..(m + 1)
  OBVIOUS
<1>7. CASE ~Found(c, nodes, space)
  <2>1. e = <<>>
    BY <1>7, Zenon DEF Line
  <2>2. u = t
    BY <2>1, ConcatEmptySeq
  <2> HIDE DEF u, e
  <2>3. Taken(u, s, m + 1, nodes, space)
    BY <1>3, <1>4, <1>5, <1>7, <2>2, Zenon DEF Taken, c
  <2> QED
    BY <2>3, Zenon DEF u, e, c
<1>8. CASE Found(c, nodes, space)
  <2>1. e = <<c>>
    BY <1>8, Zenon DEF Line
  <2> HIDE DEF e
  <2>2. e \in Seq(B) /\ Len(e) = 1 /\ e[1] = c
    BY <1>2, <2>1
  <2>3. IsConcat(u, t, e, B)
    BY <2>2, ConcatFacts, Zenon
  <2> HIDE DEF u
  <2>4. /\ Len(u) = l + 1 /\ l \in Nat /\ \A j \in 1..l : u[j] = t[j]
        /\ \A j \in 1..1 : u[l + j] = e[j]
    BY <2>2, <2>3, Zenon DEF IsConcat, l
  <2>5. 1 \in 1..1 /\ u[l + 1] = c
    BY <2>2, <2>4
  <2>6. \A j \in 1..(l + 1) : j \in 1..l \/ j = l + 1
    BY <2>4
  <2>7. \A j \in 1..l : j \in 1..(l + 1)
    BY <2>4
  <2>8. ASSUME NEW j \in 1..(l + 1)
        PROVE  \E i \in 1..(m + 1) : u[j] = s[i] /\ Found(s[i], nodes, space)
    <3>1. CASE j = l + 1
      BY <1>6, <1>8, <2>5, <3>1, Zenon DEF c
    <3>2. CASE j \in 1..l
      BY <1>3, <1>4, <2>4, <3>2, Zenon DEF l
    <3> QED
      BY <2>6, <3>1, <3>2
  <2>9. ASSUME NEW i \in 1..(m + 1), Found(s[i], nodes, space)
        PROVE  \E j \in 1..(l + 1) : u[j] = s[i]
    <3>1. CASE i = m + 1
      <4>1. l + 1 \in 1..(l + 1)
        BY <2>4
      <4> QED
        BY <2>5, <3>1, <4>1, Zenon DEF c
    <3>2. CASE i \in 1..m
      BY <1>3, <2>4, <2>7, <2>9, <3>2, Zenon DEF l
    <3> QED
      BY <1>5, <3>1, <3>2
  <2>10. ASSUME NEW j \in 1..l PROVE Before(u[j], u[j + 1])
    <3>1. CASE j = l
      <4>1. PICK i \in 1..m : t[j] = s[i]
        BY <1>3, Zenon DEF l
      <4>2. i \in 1..Len(s) /\ i < m + 1
        BY <1>1, <4>1
      <4>3. Before(s[i], c)
        BY <1>1, <4>2, Zenon DEF InOrder, c
      <4>4. u[j] = s[i] /\ u[j + 1] = c
        BY <2>4, <2>5, <3>1, <4>1, Zenon
      <4> QED
        BY <4>3, <4>4, Zenon
    <3>2. CASE j # l
      <4>1. j \in 1..(l - 1) /\ j + 1 \in 1..l
        BY <2>4, <3>2
      <4>2. Before(t[j], t[j + 1])
        BY <1>3, <4>1, Zenon DEF l
      <4>3. u[j] = t[j] /\ u[j + 1] = t[j + 1]
        BY <2>4, <4>1, Zenon
      <4> QED
        BY <4>2, <4>3, Zenon
    <3> QED
      BY <3>1, <3>2
  <2>11. Len(u) - 1 = l /\ Len(u) = l + 1
    BY <2>4
  <2>12. Taken(u, s, m + 1, nodes, space)
    BY <2>8, <2>9, <2>10, <2>11, Zenon DEF Taken
  <2> QED
    BY <2>12, Zenon DEF u, e, c
<1> QED
  BY <1>7, <1>8

LEMMA FoundArePrinted ==
    ASSUME NEW B, NEW s \in Seq(B), InOrder(s), NEW nodes, NEW space
    PROVE  LET found == FlattenSeq([i \in DOMAIN s |->
                            IF Found(s[i], nodes, space) THEN <<s[i]>> ELSE <<>>])
           IN  found \in Seq(B) /\ Taken(found, s, Len(s), nodes, space)
<1> DEFINE ss == [i \in DOMAIN s |-> Line(s[i], nodes, space)]
           x  == Joined(ss)
           n  == Len(s)
<1>1. n \in Nat /\ DOMAIN s = 1..n /\ \A i \in 1..n : s[i] \in B
  BY LenProperties, ElementOfSeq
<1>2. ASSUME NEW i \in 1..n PROVE Line(s[i], nodes, space) \in Seq(B)
  <2>1. <<s[i]>> \in Seq(B) /\ <<>> \in Seq(B)
    BY <1>1
  <2> QED
    BY <2>1, Zenon DEF Line
<1>3. ss \in Seq(Seq(B)) /\ Len(ss) = n /\ \A i \in 1..n : ss[i] = Line(s[i], nodes, space)
  <2>1. ss = [i \in 1..n |-> Line(s[i], nodes, space)]
    BY <1>1
  <2> HIDE DEF ss
  <2>2. ss \in [1..n -> Seq(B)] /\ \A i \in 1..n : ss[i] = Line(s[i], nodes, space)
    BY <1>2, <2>1
  <2> HIDE DEF n
  <2> QED
    BY <1>1, <2>2, LengthOf
<1>4. FlattenSeq(ss) = x[n]
  <2> HIDE DEF ss
  <2>1. FlattenSeq(ss) = Joined(ss)[Len(ss)]
    BY <1>3, Flattened, Zenon
  <2> QED
    BY <1>3, <2>1, Zenon
<1>5. /\ x[0] = <<>>
      /\ \A m \in Nat : m < n => x[m + 1] = x[m] \o ss[m + 1]
      /\ \A m \in Nat : m <= n => x[m] \in Seq(B)
  <2> HIDE DEF ss
  <2> QED
    BY <1>3, JoinedNext, Zenon
<1> HIDE DEF ss, x
<1> DEFINE Good == {m \in Nat : m <= n => Taken(x[m], s, m, nodes, space)}
<1>6. 0 \in Good
  <2>1. \A i : i \notin 1..0
    OBVIOUS
  <2>2. \A i : i \notin 1..Len(<<>>) /\ i \notin 1..(Len(<<>>) - 1)
    OBVIOUS
  <2>3. Taken(<<>>, s, 0, nodes, space)
    BY <2>1, <2>2, Zenon DEF Taken
  <2> QED
    BY <1>5, <2>3
<1>7. ASSUME NEW m \in Nat, m \in Good PROVE m + 1 \in Good
  <2> SUFFICES ASSUME m + 1 <= n PROVE Taken(x[m + 1], s, m + 1, nodes, space)
    OBVIOUS
  <2>1. m < n /\ m <= n /\ m + 1 \in 1..n
    BY <1>1
  <2>2. Taken(x[m], s, m, nodes, space) /\ x[m] \in Seq(B)
    BY <1>5, <1>7, <2>1
  <2>3. x[m + 1] = x[m] \o Line(s[m + 1], nodes, space)
    BY <1>3, <1>5, <2>1
  <2> HIDE DEF Good
  <2>4. Taken(x[m] \o Line(s[m + 1], nodes, space), s, m + 1, nodes, space)
    BY <2>1, <2>2, OneMoreTaken, Zenon DEF n
  <2> QED
    BY <2>3, <2>4, Zenon
<1>8. n \in Good
  <2> HIDE DEF Good
  <2> QED
    BY <1>1, <1>6, <1>7, Adding!Induction
<1>9. x[n] \in Seq(B) /\ Taken(x[n], s, n, nodes, space)
  BY <1>1, <1>5, <1>8
<1> QED
  BY <1>4, <1>9, Zenon DEF ss, n, Line

\* What is printed are the candidates that the search finds, in order.
LEMMA JobSizesFound ==
    ASSUME NEW k \in Nat, k # 0, NEW nodes \in Nat, nodes >= 2, NEW space
    PROVE  LET found == ComputeJobSizes(nodes, k, space)
           IN  /\ Range(found) = {c \in CandidateBox(nodes, k) : Found(c, nodes, space)}
               /\ \A i \in 1..(Len(found) - 1) : Before(found[i], found[i + 1])
<1> DEFINE s     == Candidates(nodes, k)
           B     == CandidateBox(nodes, k)
           found == ComputeJobSizes(nodes, k, space)
           n     == Len(s)
<1>1. HasAll(s, B)
  BY AllCandidates
<1> HIDE DEF s, B
<1>2. s \in Seq(B) /\ InOrder(s) /\ \A w \in B : \E i \in 1..n : s[i] = w
  BY <1>1, Zenon DEF HasAll
<1>3. found \in Seq(B) /\ Taken(found, s, n, nodes, space)
  BY <1>2, FoundArePrinted, Zenon DEF ComputeJobSizes, s
<1> HIDE DEF found
<1>4. DOMAIN found = 1..Len(found) /\ \A j \in 1..Len(found) : found[j] \in B
  BY <1>3, LenProperties, ElementOfSeq
<1>5. ASSUME NEW c PROVE c \in Range(found) <=> c \in B /\ Found(c, nodes, space)
  <2>1. ASSUME c \in Range(found) PROVE c \in B /\ Found(c, nodes, space)
    <3>1. PICK j \in 1..Len(found) : c = found[j]
      BY <1>4, <2>1 DEF Range
    <3> QED
      BY <1>3, <1>4, <3>1, Zenon DEF Taken
  <2>2. ASSUME c \in B, Found(c, nodes, space) PROVE c \in Range(found)
    <3>1. PICK i \in 1..n : s[i] = c
      BY <1>2, <2>2, Zenon
    <3>2. PICK j \in 1..Len(found) : found[j] = s[i]
      BY <1>3, <2>2, <3>1, Zenon DEF Taken
    <3> QED
      BY <1>4, <3>1, <3>2 DEF Range
  <2> QED
    BY <2>1, <2>2
<1>6. Range(found) = {c \in B : Found(c, nodes, space)}
  BY <1>5, Zenon
<1>7. \A i \in 1..(Len(found) - 1) : Before(found[i], found[i + 1])
  BY <1>3, Zenon DEF Taken
<1> QED
  BY <1>6, <1>7, Zenon DEF found, B

-----------------------------------------------------------------------------
(* What some jobs occupy.                                                  *)

\* What the first of the jobs w of sizes v occupy.
Occupying(w, v) == Adding!Rounds([num_jobs |-> w, sizes |-> v], 0)

\* r is what more and more of them occupy.
Adds(r, w, v, k) ==
    /\ r[0] = 0
    /\ \A i \in Nat : i < k => r[i + 1] = r[i] + (w[i + 1] * v[i + 1])
    /\ \A i \in Nat : i <= k => r[i] \in Nat
    /\ Occupied(w, v) = r[k]

LEMMA OccupiedRounds ==
    ASSUME NEW k \in Nat, NEW w \in [1..k -> Nat], NEW v \in [1..k -> Nat]
    PROVE  Adds(Occupying(w, v), w, v, k)
<1> DEFINE p    == [num_jobs |-> w, sizes |-> v]
           r    == Occupying(w, v)
           Good == {i \in Nat : i <= k => r[i] \in Nat}
<1>1. /\ r[0] = 0
      /\ \A i \in Nat : r[i + 1] = OccupiedRound(p, r[i], i + 1)
      /\ \A i \in Nat : r[i] = Adding!Loop(p, 0, i)
  BY Adding!RoundsNext DEF Occupying
<1> HIDE DEF r
<1>2. p.num_jobs = w /\ p.sizes = v /\ Len(v) = k
  BY LengthOf
<1>3. Occupied(w, v) = r[k]
  BY <1>1, <1>2 DEF Occupied
<1> HIDE DEF p
<1>4. \A i \in Nat : r[i + 1] = r[i] + (w[i + 1] * v[i + 1])
  BY <1>1, <1>2, Zenon DEF OccupiedRound
<1>5. 0 \in Good
  BY <1>1
<1>6. ASSUME NEW i \in Nat, i \in Good PROVE i + 1 \in Good
  <2> SUFFICES ASSUME i + 1 <= k PROVE r[i + 1] \in Nat
    OBVIOUS
  <2>1. i + 1 \in 1..k /\ i <= k
    OBVIOUS
  <2>2. w[i + 1] \in Nat /\ v[i + 1] \in Nat /\ r[i] \in Nat
    BY <1>6, <2>1
  <2>3. (w[i + 1] * v[i + 1]) \in Nat
    BY <2>2
  <2>4. r[i + 1] = r[i] + (w[i + 1] * v[i + 1])
    BY <1>4
  <2> DEFINE t == w[i + 1] * v[i + 1]
  <2> HIDE DEF t
  <2>5. r[i] + t \in Nat
    BY <2>2, <2>3 DEF t
  <2> QED
    BY <2>4, <2>5 DEF t
<1>7. \A i \in Nat : i \in Good
  <2> HIDE DEF Good
  <2> QED
    BY <1>5, <1>6, Adding!Induction
<1>8. Adds(r, w, v, k)
  <2>1. \A i \in Nat : i <= k => r[i] \in Nat
    BY <1>7
  <2> QED
    BY <1>1, <1>3, <1>4, <2>1, Zenon DEF Adds
<1> QED
  BY <1>8, Zenon DEF r

\* The same jobs but one more of size j.
OneMoreJob(u, w, j, k) ==
    u[j] = w[j] + 1 /\ \A i \in 1..k : i # j => u[i] = w[i]

LEMMA OneMoreOccupies ==
    ASSUME NEW k \in Nat, NEW w \in [1..k -> Nat], NEW u \in [1..k -> Nat],
           NEW v \in [1..k -> Nat], NEW j \in 1..k, OneMoreJob(u, w, j, k)
    PROVE  /\ Occupied(w, v) \in Nat /\ Occupied(u, v) \in Nat
           /\ Occupied(u, v) = Occupied(w, v) + v[j]
<1> DEFINE r    == Occupying(w, v)
           q    == Occupying(u, v)
           Good == {i \in Nat : i <= k => q[i] = IF i < j THEN r[i] ELSE r[i] + v[j]}
<1>1. /\ r[0] = 0 /\ Occupied(w, v) = r[k]
      /\ \A i \in Nat : i < k => r[i + 1] = r[i] + (w[i + 1] * v[i + 1])
      /\ \A i \in Nat : i <= k => r[i] \in Nat
  BY OccupiedRounds DEF Adds
<1>2. /\ q[0] = 0 /\ Occupied(u, v) = q[k]
      /\ \A i \in Nat : i < k => q[i + 1] = q[i] + (u[i + 1] * v[i + 1])
      /\ \A i \in Nat : i <= k => q[i] \in Nat
  BY OccupiedRounds DEF Adds
<1> HIDE DEF r, q
<1>3. 0 \in Good
  BY <1>1, <1>2
<1>4. ASSUME NEW i \in Nat, i \in Good PROVE i + 1 \in Good
  <2> SUFFICES ASSUME i + 1 <= k
               PROVE  q[i + 1] = IF i + 1 < j THEN r[i + 1] ELSE r[i + 1] + v[j]
    OBVIOUS
  <2> DEFINE a == r[i]
             b == q[i]
             c == w[i + 1]
             d == v[i + 1]
             e == u[i + 1]
             z == v[j]
  <2>1. i + 1 \in 1..k /\ i < k /\ i <= k
    OBVIOUS
  <2>2. b = IF i < j THEN a ELSE a + z
    BY <1>4, <2>1
  <2>3. r[i + 1] = a + (c * d) /\ q[i + 1] = b + (e * d)
    BY <1>1, <1>2, <2>1
  <2>4. a \in Nat /\ b \in Nat
    BY <1>1, <1>2, <2>1
  <2>5. c \in Nat /\ d \in Nat /\ e \in Nat /\ z \in Nat
    BY <2>1
  <2>6. e = IF i + 1 = j THEN c + 1 ELSE c
    BY <2>1, Zenon DEF OneMoreJob
  <2>7. i + 1 = j => d = z
    OBVIOUS
  <2> HIDE DEF a, b, c, d, e, z
  <2>8. CASE i + 1 = j
    <3>1. e * d = (c * d) + d /\ b = a /\ (c * d) \in Nat
      BY <2>2, <2>5, <2>6, <2>8
    <3>2. b + (e * d) = (a + (c * d)) + z
      BY <2>4, <2>5, <2>7, <2>8, <3>1
    <3> QED
      BY <2>3, <2>8, <3>2 DEF z
  <2>9. CASE i + 1 # j
    <3>1. e = c /\ (c * d) \in Nat
      BY <2>5, <2>6, <2>9
    <3>2. CASE i < j
      <4>1. i + 1 < j /\ b = a
        BY <2>2, <2>9, <3>2
      <4> QED
        BY <2>3, <3>1, <4>1
    <3>3. CASE ~(i < j)
      <4>1. ~(i + 1 < j) /\ b = a + z
        BY <2>2, <3>3
      <4> DEFINE f == c * d
      <4>2. f \in Nat
        BY <3>1
      <4>3. q[i + 1] = b + f /\ r[i + 1] = a + f
        BY <2>3, <3>1
      <4> HIDE DEF f
      <4>4. b + f = (a + f) + z
        BY <2>4, <2>5, <4>1, <4>2
      <4> QED
        BY <4>1, <4>3, <4>4 DEF z
    <3> QED
      BY <3>2, <3>3
  <2> QED
    BY <2>8, <2>9
<1>5. k \in Good
  <2> HIDE DEF Good
  <2> QED
    BY <1>3, <1>4, Adding!Induction
<1>6. q[k] = r[k] + v[j]
  BY <1>5
<1> QED
  BY <1>1, <1>2, <1>6

\* There are as many jobs of a size at most as nodes that all occupy.
LEMMA OccupiesEnough ==
    ASSUME NEW k \in Nat, NEW w \in [1..k -> Nat], NEW v \in [1..k -> Nat \ {0}]
    PROVE  /\ Occupied(w, v) \in Nat
           /\ \A j \in 1..k : w[j] <= Occupied(w, v)
           /\ (\A j \in 1..k : w[j] = 0) => Occupied(w, v) = 0
<1> DEFINE r    == Occupying(w, v)
           Good == {i \in Nat : i <= k => \A j \in 1..i : w[j] <= r[i]}
           Idle == {i \in Nat : i <= k => r[i] = 0}
<1>0. v \in [1..k -> Nat] /\ \A i \in 1..k : v[i] \in Nat /\ v[i] > 0
  OBVIOUS
<1>1. /\ r[0] = 0 /\ Occupied(w, v) = r[k]
      /\ \A i \in Nat : i < k => r[i + 1] = r[i] + (w[i + 1] * v[i + 1])
      /\ \A i \in Nat : i <= k => r[i] \in Nat
  BY <1>0, OccupiedRounds DEF Adds
<1> HIDE DEF r
<1>2. 0 \in Good
  OBVIOUS
<1>3. ASSUME NEW i \in Nat, i + 1 <= k
      PROVE  /\ r[i] \in Nat /\ r[i + 1] \in Nat /\ w[i + 1] \in Nat
             /\ r[i] <= r[i + 1] /\ w[i + 1] <= r[i + 1]
             /\ w[i + 1] = 0 => r[i + 1] = r[i]
  <2> DEFINE a == r[i]
             c == w[i + 1]
             d == v[i + 1]
             f == c * d
  <2>1. i + 1 \in 1..k /\ i < k /\ i <= k
    BY <1>3
  <2>2. r[i + 1] = a + f /\ a \in Nat
    BY <1>1, <2>1
  <2>3. c \in Nat /\ d \in Nat /\ d > 0
    BY <1>0, <2>1
  <2> HIDE DEF a, c, d
  <2>4. f \in Nat /\ c <= f /\ (c = 0 => f = 0)
    BY <2>3
  <2> HIDE DEF f
  <2>5. a + f \in Nat /\ a <= a + f /\ c <= a + f /\ (c = 0 => a + f = a)
    BY <2>2, <2>3, <2>4
  <2> QED
    BY <2>2, <2>3, <2>5 DEF a, c
<1>4. ASSUME NEW i \in Nat, i \in Good PROVE i + 1 \in Good
  <2> SUFFICES ASSUME i + 1 <= k, NEW j \in 1..(i + 1) PROVE w[j] <= r[i + 1]
    OBVIOUS
  <2>1. CASE j = i + 1
    BY <1>3, <2>1
  <2>2. CASE j # i + 1
    <3>1. j \in 1..i /\ j \in 1..k /\ i <= k
      BY <2>2
    <3>2. w[j] <= r[i] /\ w[j] \in Nat
      BY <1>4, <3>1
    <3>3. r[i] <= r[i + 1] /\ r[i] \in Nat /\ r[i + 1] \in Nat
      BY <1>3
    <3> QED
      BY <3>2, <3>3
  <2> QED
    BY <2>1, <2>2
<1>5. k \in Good
  <2> HIDE DEF Good
  <2> QED
    BY <1>2, <1>4, Adding!Induction
<1>6. ASSUME \A j \in 1..k : w[j] = 0 PROVE r[k] = 0
  <2>1. 0 \in Idle
    BY <1>1
  <2>2. ASSUME NEW i \in Nat, i \in Idle PROVE i + 1 \in Idle
    <3> SUFFICES ASSUME i + 1 <= k PROVE r[i + 1] = 0
      OBVIOUS
    <3>1. i + 1 \in 1..k /\ i <= k
      OBVIOUS
    <3>2. w[i + 1] = 0 /\ r[i] = 0
      BY <1>6, <2>2, <3>1
    <3> QED
      BY <1>3, <3>2
  <2>3. k \in Idle
    <3> HIDE DEF Idle
    <3> QED
      BY <2>1, <2>2, Adding!Induction
  <2> QED
    BY <2>3
<1> QED
  BY <1>1, <1>5, <1>6

-----------------------------------------------------------------------------
(* The sums that jobs reach.                                               *)

\* The sums up to more and more nodes.
SumsUpTo(v) == Filling!Rounds(Range(v), {0})

LEMMA SumsNext ==
    ASSUME NEW v
    PROVE  /\ SumsUpTo(v)[0] = {0}
           /\ \A i \in Nat : SumsUpTo(v)[i + 1] = FillRound(Range(v), SumsUpTo(v)[i], i + 1)
           /\ \A i \in Nat : Sums(v, i) = SumsUpTo(v)[i]
  BY Filling!RoundsNext DEF SumsUpTo, Sums

\* Some jobs of sizes v occupy s nodes.
Reached(s, v, k) == s \in Nat /\ \E w \in [1..k -> Nat] : Occupied(w, v) = s

LEMMA SumsAreReached ==
    ASSUME NEW k \in Nat, NEW v \in [1..k -> Nat \ {0}], NEW n \in Nat
    PROVE  \A s \in SumsUpTo(v)[n] : s <= n /\ Reached(s, v, k)
<1> DEFINE x    == SumsUpTo(v)
           Good == {i \in Nat : \A s \in x[i] : s <= i /\ Reached(s, v, k)}
<1>1. x[0] = {0} /\ \A i \in Nat : x[i + 1] = FillRound(Range(v), x[i], i + 1)
  BY SumsNext
<1> HIDE DEF x
<1>2. v \in [1..k -> Nat] /\ DOMAIN v = 1..k /\ \A i \in 1..k : v[i] \in Nat /\ v[i] > 0
  OBVIOUS
<1>3. 0 \in Good
  <2> DEFINE w == [j \in 1..k |-> 0]
  <2>1. w \in [1..k -> Nat] /\ \A j \in 1..k : w[j] = 0
    OBVIOUS
  <2> HIDE DEF w
  <2>2. Occupied(w, v) = 0
    BY <2>1, OccupiesEnough
  <2>3. Reached(0, v, k)
    BY <2>1, <2>2 DEF Reached
  <2> QED
    BY <1>1, <2>3
<1>4. ASSUME NEW i \in Nat, i \in Good PROVE i + 1 \in Good
  <2> SUFFICES ASSUME NEW s \in x[i + 1] PROVE s <= i + 1 /\ Reached(s, v, k)
    OBVIOUS
  <2>1. \A z \in x[i] : z <= i /\ Reached(z, v, k)
    BY <1>4
  <2>2. x[i + 1] = FillRound(Range(v), x[i], i + 1)
    BY <1>1
  <2>3. CASE s \in x[i]
    <3>1. s <= i /\ Reached(s, v, k) /\ s \in Nat
      BY <2>1, <2>3 DEF Reached
    <3> QED
      BY <3>1
  <2>4. CASE s \notin x[i]
    <3>1. s = i + 1 /\ \E z \in Range(v) : (i + 1) - z \in x[i]
      BY <2>2, <2>4, Zenon DEF FillRound
    <3>2. PICK j \in 1..k : (i + 1) - v[j] \in x[i]
      <4>1. PICK z \in Range(v) : (i + 1) - z \in x[i]
        BY <3>1
      <4>2. PICK j \in 1..k : z = v[j]
        BY <1>2 DEF Range
      <4> QED
        BY <4>1, <4>2, Zenon
    <3>3. Reached((i + 1) - v[j], v, k)
      BY <2>1, <3>2, Zenon
    <3>4. PICK w \in [1..k -> Nat] : Occupied(w, v) = (i + 1) - v[j]
      BY <3>3, Zenon DEF Reached
    <3> DEFINE u == [h \in 1..k |-> IF h = j THEN w[h] + 1 ELSE w[h]]
    <3>5. u \in [1..k -> Nat]
      OBVIOUS
    <3>6. OneMoreJob(u, w, j, k)
      BY DEF OneMoreJob
    <3> HIDE DEF u
    <3>7. Occupied(w, v) \in Nat /\ Occupied(u, v) = Occupied(w, v) + v[j]
      BY <1>2, <3>5, <3>6, OneMoreOccupies
    <3>8. v[j] \in Nat
      BY <1>2
    <3>9. Occupied(u, v) = i + 1
      BY <3>4, <3>7, <3>8
    <3> QED
      BY <3>1, <3>5, <3>9 DEF Reached
  <2> QED
    BY <2>3, <2>4
<1>5. n \in Good
  <2> HIDE DEF Good
  <2> QED
    BY <1>3, <1>4, Adding!Induction
<1> QED
  BY <1>5 DEF x

LEMMA ReachedAreSums ==
    ASSUME NEW k \in Nat, NEW v \in [1..k -> Nat \ {0}], NEW n \in Nat
    PROVE  \A w \in [1..k -> Nat] : Occupied(w, v) <= n => Occupied(w, v) \in SumsUpTo(v)[n]
<1> DEFINE x    == SumsUpTo(v)
           Good == {i \in Nat : \A w \in [1..k -> Nat] :
                                    Occupied(w, v) <= i => Occupied(w, v) \in x[i]}
<1>1. x[0] = {0} /\ \A i \in Nat : x[i + 1] = FillRound(Range(v), x[i], i + 1)
  BY SumsNext
<1> HIDE DEF x
<1>2. v \in [1..k -> Nat] /\ DOMAIN v = 1..k /\ \A i \in 1..k : v[i] \in Nat /\ v[i] > 0
  OBVIOUS
<1>3. 0 \in Good
  <2> SUFFICES ASSUME NEW w \in [1..k -> Nat], Occupied(w, v) <= 0 PROVE Occupied(w, v) \in x[0]
    OBVIOUS
  <2>1. Occupied(w, v) \in Nat
    BY OccupiesEnough
  <2> QED
    BY <1>1, <2>1
<1>4. ASSUME NEW i \in Nat, i \in Good PROVE i + 1 \in Good
  <2> SUFFICES ASSUME NEW w \in [1..k -> Nat], Occupied(w, v) <= i + 1
               PROVE  Occupied(w, v) \in x[i + 1]
    OBVIOUS
  <2>1. /\ Occupied(w, v) \in Nat
        /\ (\A j \in 1..k : w[j] = 0) => Occupied(w, v) = 0
    BY OccupiesEnough
  <2>2. x[i + 1] = FillRound(Range(v), x[i], i + 1)
    BY <1>1
  <2>3. CASE Occupied(w, v) <= i
    <3>1. Occupied(w, v) \in x[i]
      BY <1>4, <2>3
    <3> QED
      BY <2>2, <3>1 DEF FillRound
  <2>4. CASE Occupied(w, v) = i + 1
    <3>1. PICK j \in 1..k : w[j] # 0
      <4>1. i + 1 # 0
        OBVIOUS
      <4> QED
        BY <2>1, <2>4, <4>1
    <3> DEFINE u == [h \in 1..k |-> IF h = j THEN w[h] - 1 ELSE w[h]]
    <3>2. u \in [1..k -> Nat]
      <4>1. \A h \in 1..k : w[h] \in Nat
        OBVIOUS
      <4>2. w[j] - 1 \in Nat
        BY <3>1
      <4> QED
        BY <4>1, <4>2
    <3>3. OneMoreJob(w, u, j, k)
      <4>1. w[j] = (w[j] - 1) + 1 /\ u[j] = w[j] - 1
        BY <3>1
      <4> QED
        BY <4>1 DEF OneMoreJob
    <3> HIDE DEF u
    <3>4. Occupied(u, v) \in Nat /\ Occupied(w, v) = Occupied(u, v) + v[j]
      BY <1>2, <3>2, <3>3, OneMoreOccupies
    <3>5. v[j] \in Nat /\ v[j] > 0
      BY <1>2
    <3>6. Occupied(u, v) <= i /\ (i + 1) - v[j] = Occupied(u, v)
      BY <2>4, <3>4, <3>5
    <3>7. Occupied(u, v) \in x[i]
      BY <1>4, <3>2, <3>6
    <3>8. v[j] \in Range(v)
      BY <1>2, Zenon DEF Range
    <3>9. \E z \in Range(v) : (i + 1) - z \in x[i]
      <4>1. (i + 1) - v[j] \in x[i]
        BY <3>6, <3>7
      <4> QED
        BY <3>8, <4>1, Zenon
    <3>10. i + 1 \in x[i + 1]
      BY <2>2, <3>9, Zenon DEF FillRound
    <3> QED
      BY <2>4, <3>10
  <2> QED
    BY <2>1, <2>3, <2>4
<1>5. n \in Good
  <2> HIDE DEF Good
  <2> QED
    BY <1>3, <1>4, Adding!Induction
<1> QED
  BY <1>5 DEF x

\* The search for a way to run jobs that takes of the space says what the sums say.
LEMMA SpaceIsLeft ==
    ASSUME NEW k \in Nat, NEW v \in [1..k -> Nat \ {0}], NEW nodes \in Nat, NEW space \in Nat
    PROVE  EnoughSpaceLeft(v, nodes, space) <=> LeavesSpace(v, nodes, space)
<1> DEFINE p == [sizes |-> v, nodes |-> nodes, space_to_leave |-> space]
           W == [1..k -> 0..nodes]
           x == SumsUpTo(v)[nodes]
<1>0. v \in [1..k -> Nat]
  OBVIOUS
<1>1. EnoughSpaceLeft(v, nodes, space) <=> \A w \in Ways(p) : ~Fills(w, p)
  BY <1>0, EnoughIsLeft
<1>2. Len(v) = k /\ p.sizes = v /\ p.nodes = nodes /\ p.space_to_leave = space
  BY <1>0, LengthOf
<1>3. Ways(p) = W
  BY <1>2, Zenon DEF Ways
<1>4. \A w : Fills(w, p) <=> Occupied(w, v) <= nodes /\ Occupied(w, v) > nodes - space
  BY <1>2, Zenon DEF Fills
<1> HIDE DEF p
<1>5. Sums(v, nodes) = x
  BY SumsNext
<1>6. \A s \in x : s <= nodes /\ Reached(s, v, k)
  BY SumsAreReached
<1>7. \A w \in [1..k -> Nat] : Occupied(w, v) <= nodes => Occupied(w, v) \in x
  BY ReachedAreSums
<1> HIDE DEF x
<1>8. ASSUME \A w \in W : ~Fills(w, p), NEW s \in x PROVE s <= nodes - space
  <2>1. s \in Nat /\ s <= nodes
    BY <1>6 DEF Reached
  <2>2. PICK w \in [1..k -> Nat] : Occupied(w, v) = s
    BY <1>6, Zenon DEF Reached
  <2>3. \A j \in 1..k : w[j] <= s
    BY <2>2, OccupiesEnough
  <2>4. ASSUME NEW j \in 1..k PROVE w[j] \in 0..nodes
    <3>1. w[j] \in Nat /\ w[j] <= s
      BY <2>3
    <3> QED
      BY <2>1, <3>1
  <2>5. w \in W
    BY <2>4
  <2>6. ~(s <= nodes /\ s > nodes - space)
    BY <1>4, <1>8, <2>2, <2>5
  <2> QED
    BY <2>1, <2>6
<1>9. ASSUME \A s \in x : s <= nodes - space, NEW w \in W PROVE ~Fills(w, p)
  <2> SUFFICES ASSUME Occupied(w, v) <= nodes, Occupied(w, v) > nodes - space PROVE FALSE
    BY <1>4
  <2>1. w \in [1..k -> Nat]
    OBVIOUS
  <2>2. Occupied(w, v) \in Nat
    BY <2>1, OccupiesEnough
  <2>3. Occupied(w, v) \in x
    BY <1>7, <2>1
  <2>4. Occupied(w, v) <= nodes - space
    BY <1>9, <2>3
  <2> QED
    BY <2>2, <2>4
<1>10. LeavesSpace(v, nodes, space) <=> \A s \in x : s <= nodes - space
  BY <1>5, Zenon DEF LeavesSpace
<1> HIDE DEF W
<1> QED
  BY <1>1, <1>3, <1>8, <1>9, <1>10, Zenon

-----------------------------------------------------------------------------
(* The search.                                                             *)

\* What the search is to find.
IsSearched(found, nodes, k, space) ==
    /\ Range(found) = {v \in [1..k -> 1..nodes] :
                          /\ v[1] > 1 /\ IsInjective(v)
                          /\ \E i \in 1..k : v[i] < nodes \div 3
                          /\ LeavesSpace(v, nodes, space)}
    /\ \A i \in 1..(Len(found) - 1) : Before(found[i], found[i + 1])

LEMMA SearchOnMoreNodes ==
    ASSUME NEW k \in Nat, k # 0, NEW nodes \in Nat, nodes >= 2, NEW space \in Nat
    PROVE  IsSearched(ComputeJobSizes(nodes, k, space), nodes, k, space)
<1> DEFINE found == ComputeJobSizes(nodes, k, space)
           B     == CandidateBox(nodes, k)
           T     == [1..k -> 1..nodes]
<1>1. /\ Range(found) = {c \in B : Found(c, nodes, space)}
      /\ \A i \in 1..(Len(found) - 1) : Before(found[i], found[i + 1])
  BY JobSizesFound
<1>2. B = {v \in T : v[1] > 1}
  BY CandidateBounds
<1> HIDE DEF found, B
<1>3. ASSUME NEW v \in T
      PROVE  Found(v, nodes, space) <=> /\ IsInjective(v)
                                        /\ \E i \in 1..k : v[i] < nodes \div 3
                                        /\ LeavesSpace(v, nodes, space)
  <2>1. v \in [1..k -> Nat \ {0}] /\ DOMAIN v = 1..k
    OBVIOUS
  <2>2. EnoughSpaceLeft(v, nodes, space) <=> LeavesSpace(v, nodes, space)
    BY <2>1, SpaceIsLeft
  <2> QED
    BY <2>1, <2>2, Zenon DEF Found
<1> HIDE DEF T
<1>4. Range(found) = {v \in T : /\ v[1] > 1 /\ IsInjective(v)
                                /\ \E i \in 1..k : v[i] < nodes \div 3
                                /\ LeavesSpace(v, nodes, space)}
  BY <1>1, <1>2, <1>3, Zenon
<1> QED
  BY <1>1, <1>4, Zenon DEF IsSearched, found, T

\* On one node the search looks at one candidate, which is too large.
LEMMA SearchOnOneNode ==
    ASSUME NEW k \in Nat, k # 0, NEW space \in Nat
    PROVE  IsSearched(ComputeJobSizes(1, k, space), 1, k, space)
<1> DEFINE lb == FirstCandidates(k)
           a  == Sought(TRUE, lb, <<>>)
           x  == Searching!Rounds(1, a)
           T  == [1..k -> 1..1]
           s  == Candidates(1, k)
<1>1. s = Searching!Loop(1, a, Cardinality(T)).seen
  BY Zenon DEF Candidates
<1>2. Cardinality(T) = 1
  <2> DEFINE e == [i \in 1..k |-> 1]
  <2>1. T = {e}
    <3>1. ASSUME NEW v \in T PROVE v = e
      OBVIOUS
    <3>2. e \in T
      OBVIOUS
    <3> HIDE DEF T, e
    <3> QED
      BY <3>1, <3>2
  <2> HIDE DEF e, T
  <2> QED
    BY <2>1, FS_Singleton
<1> HIDE DEF T
<1>3. x[1] = SearchRound(1, a, 1) /\ s = x[1].seen
  <2>1. /\ x[0] = a
        /\ \A m \in Nat : x[m + 1] = SearchRound(1, x[m], m + 1)
        /\ \A m \in Nat : x[m] = Searching!Loop(1, a, m)
    BY Searching!RoundsNext
  <2> HIDE DEF x
  <2>2. 0 \in Nat /\ 0 + 1 = 1 /\ 1 \in Nat
    OBVIOUS
  <2>3. x[0 + 1] = SearchRound(1, x[0], 0 + 1)
    BY <2>1, <2>2, Zenon
  <2> QED
    BY <1>1, <1>2, <2>1, <2>2, <2>3
<1> HIDE DEF x
<1>4. lb \in [1..k -> Int] /\ Len(lb) = k
  BY FirstCandidate, LengthOf
<1>5. s = <<lb>>
  <2>1. IsSought(a, TRUE, lb, <<>>)
    BY SoughtFields, Zenon
  <2> HIDE DEF a
  <2> DEFINE next == VectorIncrement(lb, lb, All(k, 1), All(k, 1))
             t    == Append(<<>>, lb)
  <2>2. SearchRound(1, a, 1) = Sought(~next.done, next.counters, t)
    BY <1>4, <2>1, Zenon DEF SearchRound, IsSought
  <2>3. t = <<lb>>
    OBVIOUS
  <2> HIDE DEF next, t
  <2>4. IsSought(x[1], ~next.done, next.counters, t)
    BY <1>3, <2>2, SoughtFields, Zenon
  <2> QED
    BY <1>3, <2>3, <2>4, Zenon DEF IsSought
<1> HIDE DEF a
<1>6. ~Found(lb, 1, space)
  <2>1. DOMAIN lb = 1..k /\ \A i \in 1..k : lb[i] = IF i = 1 THEN 2 ELSE 1
    BY <1>4, FirstCandidate
  <2>2. 1 \div 3 = 0
    OBVIOUS
  <2>3. \A i \in 1..k : ~(lb[i] < 0)
    BY <2>1
  <2> HIDE DEF lb
  <2> QED
    BY <2>1, <2>2, <2>3, Zenon DEF Found
<1> DEFINE ss == [i \in DOMAIN s |-> IF Found(s[i], 1, space) THEN <<s[i]>> ELSE <<>>]
           B  == {lb}
<1>7. ComputeJobSizes(1, k, space) = FlattenSeq(ss)
  BY Zenon DEF ComputeJobSizes
<1> HIDE DEF lb
<1>8. s \in Seq(B) /\ Len(s) = 1 /\ s[1] = lb
  <2> HIDE DEF s
  <2>1. <<lb>> \in Seq({lb}) /\ Len(<<lb>>) = 1 /\ <<lb>>[1] = lb
    OBVIOUS
  <2> QED
    BY <1>5, <2>1, Zenon
<1> HIDE DEF s
<1>9. InOrder(s)
  <2>1. \A i, j \in 1..1 : ~(i < j)
    OBVIOUS
  <2> QED
    BY <1>8, <2>1, Zenon DEF InOrder
<1>10. FlattenSeq(ss) \in Seq(B) /\ Taken(FlattenSeq(ss), s, Len(s), 1, space)
  <2> HIDE DEF B
  <2> QED
    BY <1>8, <1>9, FoundArePrinted, Zenon
<1> DEFINE found == FlattenSeq(ss)
<1> HIDE DEF ss, B
<1>11. \A j \in 1..Len(found) : FALSE
  <2>1. \A i \in 1..1 : i = 1
    OBVIOUS
  <2> QED
    BY <1>6, <1>8, <1>10, <2>1, Zenon DEF Taken
<1> HIDE DEF found
<1>12. Range(found) = {}
  <2>1. DOMAIN found = 1..Len(found)
    BY <1>10, LenProperties DEF found
  <2> QED
    BY <1>11, <2>1, Zenon DEF Range
<1>13. {v \in [1..k -> 1..1] : /\ v[1] > 1 /\ IsInjective(v)
                               /\ \E i \in 1..k : v[i] < 1 \div 3
                               /\ LeavesSpace(v, 1, space)} = {}
  <2>1. \A v \in [1..k -> 1..1] : ~(v[1] > 1)
    OBVIOUS
  <2> QED
    BY <2>1, Zenon
<1>14. \A i \in 1..(Len(found) - 1) : Before(found[i], found[i + 1])
  <2>1. Len(found) \in Nat
    BY <1>10, LenProperties DEF found
  <2>2. \A i \in 1..(Len(found) - 1) : i \in 1..Len(found)
    BY <2>1
  <2> QED
    BY <1>11, <2>2, Zenon
<1>15. IsSearched(found, 1, k, space)
  BY <1>12, <1>13, <1>14, Zenon DEF IsSearched
<1> QED
  BY <1>7, <1>15, Zenon DEF found

\* Of the sequences of different sizes whose first is more than 1 and whose smallest is
\* less than a third of the nodes, the search finds those that leave the space, all of
\* them, each once and in order, and no other sequence, for clusters of a node at least
\* and one size at least.
THEOREM SizesAreFound == Spec => []SearchIsExact
<1>1. TypeOK => SearchIsExact
  <2> SUFFICES ASSUME TypeOK, About("sizes"), NEW input \in Range(text)
               PROVE  IsSearched(ComputeJobSizes(input[1], input[2], input[3]),
                                 input[1], input[2], input[3])
    BY Zenon DEF SearchIsExact, IsSearched
  <2>1. input \in Alphabet["sizes"]
    <3>1. text \in Seq(Alphabet["sizes"])
      BY DEF TypeOK, About
    <3>2. DOMAIN text = 1..Len(text) /\ \A i \in 1..Len(text) : text[i] \in Alphabet["sizes"]
      BY <3>1, LenProperties, ElementOfSeq
    <3> QED
      BY <3>2, Zenon DEF Range
  <2>2. input \in (Nat \ {0}) \X (Nat \ {0}) \X Nat
    BY <2>1, AlphabetAssumption
  <2> DEFINE n     == input[1]
             k     == input[2]
             space == input[3]
  <2>3. n \in Nat /\ n # 0 /\ k \in Nat /\ k # 0 /\ space \in Nat
    BY <2>2
  <2> HIDE DEF n, k, space
  <2>4. CASE n = 1
    <3>1. IsSearched(ComputeJobSizes(1, k, space), 1, k, space)
      BY <2>3, SearchOnOneNode, Zenon
    <3> QED
      BY <2>4, <3>1, Zenon DEF n, k, space
  <2>5. CASE n # 1
    <3>1. n >= 2
      BY <2>3, <2>5
    <3>2. IsSearched(ComputeJobSizes(n, k, space), n, k, space)
      BY <2>3, <3>1, SearchOnMoreNodes, Zenon
    <3> QED
      BY <3>2, Zenon DEF n, k, space
  <2> QED
    BY <2>4, <2>5
<1> QED
  BY <1>1, AlgorithmsTypeCorrect, PTL
=============================================================================

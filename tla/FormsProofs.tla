---------------------------- MODULE FormsProofs ----------------------------
(***************************************************************************)
(* Proofs about Multipart and the forms of Algorithms: what the parser of  *)
(* a form has after each piece, for contents of any length, any number of  *)
(* them, and any cut of the text into pieces.  The invariant says where in *)
(* the text the parser stands, and what it has of the content it is at.    *)
(***************************************************************************)
EXTENDS AlgorithmsProofs

-----------------------------------------------------------------------------
(* Forms, in pieces.                                                       *)

\* Of the text f, what stands between two places of it.
Window(f, a, g) == SubSeq(f, a + 1, g)
IsWindow(w, f, a, g, S) ==
    w \in Seq(S) /\ Len(w) = g - a /\ \A i \in 1..(g - a) : w[i] = f[a + i]
SameWindow(w, f, a, g) == w = Window(f, a, g)

\* What a window is: its elements, and how many.
LEMMA WindowFacts ==
    ASSUME NEW S, NEW f \in Seq(S), NEW a \in Nat, NEW g \in Nat, a <= g, g <= Len(f)
    PROVE  IsWindow(Window(f, a, g), f, a, g, S)
<1> DEFINE w == SubSeq(f, a + 1, g)
           c == a + 1
<1>1. Len(f) \in Nat /\ \A i \in 1..Len(f) : f[i] \in S
  BY LenProperties, ElementOfSeq
<1>2. c \in Int /\ g \in Int /\ \A i \in c..g : f[i] \in S
  BY <1>1
<1>3. /\ SubSeq(f, c, g) \in Seq(S)
      /\ Len(SubSeq(f, c, g)) = IF c <= g THEN g - c + 1 ELSE 0
      /\ \A i \in 1..(g - c + 1) : SubSeq(f, c, g)[i] = f[c + i - 1]
  <2> HIDE DEF c
  <2> QED
    BY <1>2, SubSeqProperties
<1>4. w \in Seq(S) /\ Len(w) = (IF c <= g THEN g - c + 1 ELSE 0)
      /\ \A i \in 1..(g - c + 1) : w[i] = f[c + i - 1]
  BY <1>3
<1> HIDE DEF w
<1>5. Len(w) = g - a
  BY <1>4
<1>6. ASSUME NEW i \in 1..(g - a) PROVE w[i] = f[a + i]
  <2>1. i \in 1..(g - c + 1) /\ c + i - 1 = a + i
    OBVIOUS
  <2> QED
    BY <1>4, <2>1
<1>7. IsWindow(w, f, a, g, S)
  BY <1>4, <1>5, <1>6, Zenon DEF IsWindow
<1> QED
  BY <1>7, Zenon DEF Window, w

\* A text with the elements of a window is that window.
LEMMA WindowIs ==
    ASSUME NEW S, NEW f \in Seq(S), NEW a \in Nat, NEW g \in Nat, a <= g, g <= Len(f),
           NEW w, IsWindow(w, f, a, g, S)
    PROVE  SameWindow(w, f, a, g)
<1> DEFINE v == Window(f, a, g)
<1>1. IsWindow(v, f, a, g, S)
  BY WindowFacts, Zenon
<1> HIDE DEF v
<1>2. /\ v \in Seq(S) /\ w \in Seq(S) /\ Len(v) = g - a /\ Len(w) = g - a
      /\ \A i \in 1..(g - a) : v[i] = w[i]
  BY <1>1, Zenon DEF IsWindow
<1>3. v = w
  BY <1>2, SeqEqual
<1> QED
  BY <1>3, Zenon DEF v, SameWindow

\* A window, cut in two.
IsCut(f, a, b, g) ==
    /\ From(Window(f, a, g), (b - a) + 1) = Window(f, b, g)
    /\ SubSeq(Window(f, a, g), 1, b - a) = Window(f, a, b)
    /\ Window(f, a, b) \o Window(f, b, g) = Window(f, a, g)

\* A window is its two parts, and each of them is what is left without the other.
LEMMA WindowCut ==
    ASSUME NEW S, NEW f \in Seq(S), NEW a \in Nat, NEW b \in Nat, NEW g \in Nat,
           a <= b, b <= g, g <= Len(f)
    PROVE  IsCut(f, a, b, g)
<1> DEFINE v == Window(f, a, b)
           w == Window(f, b, g)
           u == v \o w
<1>1. Len(f) \in Nat /\ a <= g /\ b <= Len(f)
  BY LenProperties
<1>2. IsWindow(v, f, a, b, S) /\ IsWindow(w, f, b, g, S)
  BY <1>1, WindowFacts, Zenon
<1> HIDE DEF v, w
<1>3. /\ v \in Seq(S) /\ w \in Seq(S) /\ Len(v) = b - a /\ Len(w) = g - b
      /\ \A i \in 1..(b - a) : v[i] = f[a + i]
      /\ \A i \in 1..(g - b) : w[i] = f[b + i]
  BY <1>2, Zenon DEF IsWindow
<1>4. IsConcat(u, v, w, S)
  BY <1>3, ConcatFacts, Zenon
<1>5. SubSeq(u, 1, Len(v)) = v /\ From(u, Len(v) + 1) = w
  BY <1>3, TakenApart
<1> HIDE DEF u
<1>6. /\ u \in Seq(S) /\ Len(u) = Len(v) + Len(w)
      /\ \A i \in 1..Len(v) : u[i] = v[i]
      /\ \A i \in 1..Len(w) : u[Len(v) + i] = w[i]
  BY <1>4, Zenon DEF IsConcat
<1>7. Len(u) = g - a
  BY <1>3, <1>6
<1>8. ASSUME NEW i \in 1..(g - a) PROVE u[i] = f[a + i]
  <2>1. CASE i <= b - a
    <3>1. i \in 1..(b - a) /\ i \in 1..Len(v)
      BY <1>3, <2>1
    <3> QED
      BY <1>3, <1>6, <3>1
  <2>2. CASE ~(i <= b - a)
    <3> DEFINE j == i - (b - a)
    <3>1. j \in 1..(g - b) /\ (b - a) + j = i /\ b + j = a + i
      BY <2>2
    <3> HIDE DEF j
    <3>2. u[(b - a) + j] = w[j] /\ w[j] = f[b + j]
      BY <1>3, <1>6, <3>1
    <3> QED
      BY <3>1, <3>2
  <2> QED
    BY <2>1, <2>2
<1>9. IsWindow(u, f, a, g, S)
  BY <1>6, <1>7, <1>8, Zenon DEF IsWindow
<1>10. SameWindow(u, f, a, g)
  BY <1>1, <1>9, WindowIs
<1>11. u = Window(f, a, g)
  BY <1>10, Zenon DEF SameWindow
<1>12. From(Window(f, a, g), (b - a) + 1) = w /\ SubSeq(Window(f, a, g), 1, b - a) = v
  BY <1>3, <1>5, <1>11
<1> QED
  BY <1>11, <1>12, Zenon DEF IsCut, u, v, w

\* Find, by what stands where in the text.
IsFind(i, s, p) ==
    /\ i \in Nat
    /\ i = 0 => \A a \in Nat : ~Holds(s, a, p)
    /\ i # 0 => /\ i - 1 \in Nat /\ Holds(s, i - 1, p)
                /\ \A a \in Nat : a < i - 1 => ~Holds(s, a, p)

\* Find gives the first place where the text holds the pattern, or 0 if there is none.
LEMMA FindFacts ==
    ASSUME NEW S, NEW s \in Seq(S), NEW p \in Seq(S)
    PROVE  IsFind(Find(s, p), s, p)
<1> DEFINE m  == Len(p)
           n  == Len(s)
           at == {i \in 1..(n - m + 1) : SubSeq(s, i, i + m - 1) = p}
<1>1. m \in Nat /\ n \in Nat
  BY LenProperties
<1>2. ASSUME NEW i \in 1..(n - m + 1) PROVE SubSeq(s, i, i + m - 1) = p <=> Holds(s, i - 1, p)
  <2> DEFINE a == i - 1
             g == a + m
             w == Window(s, a, g)
  <2>1. a \in Nat /\ g \in Nat /\ a <= g /\ g <= n /\ a + 1 = i /\ g = i + m - 1 /\ g - a = m
    BY <1>1
  <2>2. IsWindow(w, s, a, g, S)
    <3> HIDE DEF a, g
    <3> QED
      BY <2>1, WindowFacts
  <2>3. w = SubSeq(s, i, i + m - 1)
    <3> HIDE DEF a, g
    <3> QED
      BY <2>1 DEF Window
  <2> HIDE DEF w
  <2>4. w \in Seq(S) /\ Len(w) = m /\ \A j \in 1..m : w[j] = s[a + j]
    <3> HIDE DEF a, g
    <3> QED
      BY <2>1, <2>2 DEF IsWindow
  <2>5. w = p <=> \A j \in 1..m : w[j] = p[j]
    BY <2>4, SeqEqual
  <2>6. Holds(s, a, p) <=> \A j \in 1..m : s[a + j] = p[j]
    <3>1. a + m <= n
      <4> HIDE DEF a
      <4> QED
        BY <2>1
    <3> HIDE DEF a
    <3> QED
      BY <1>1, <2>1, <3>1 DEF Holds
  <2>7. w = p <=> Holds(s, a, p)
    <3> HIDE DEF a
    <3> QED
      BY <2>4, <2>5, <2>6, Zenon
  <2> QED
    BY <2>3, <2>7
<1>3. Find(s, p) = IF at = {} THEN 0 ELSE CHOOSE i \in at : \A j \in at : i <= j
  BY Zenon DEF Find
<1>4. \A i : i \in at <=> i \in 1..(n - m + 1) /\ Holds(s, i - 1, p)
  <2> HIDE DEF n, m
  <2> QED
    BY <1>2
<1>5. ASSUME NEW a \in Nat, Holds(s, a, p) PROVE a + 1 \in at
  <2>1. a + m <= n
    BY <1>5 DEF Holds
  <2> HIDE DEF n, m
  <2>2. a + 1 \in 1..(n - m + 1) /\ (a + 1) - 1 = a
    BY <1>1, <2>1
  <2> HIDE DEF at
  <2>3. Holds(s, (a + 1) - 1, p)
    BY <1>5, <2>2
  <2> QED
    BY <1>4, <2>2, <2>3
<1>6. at \in SUBSET Nat
  <2> HIDE DEF n, m
  <2> QED
    BY <1>1
<1> HIDE DEF at
<1>7. CASE at = {}
  <2>1. \A a \in Nat : ~Holds(s, a, p)
    BY <1>5, <1>7
  <2>2. Find(s, p) = 0
    BY <1>3, <1>7, Zenon
  <2> HIDE DEF Find
  <2> QED
    BY <2>1, <2>2 DEF IsFind
<1>8. CASE at # {}
  <2>1. PICK i \in at : (\A j \in at : i <= j) /\ Find(s, p) = i
    <3>1. \E i \in at : \A j \in at : i <= j
      BY <1>6, <1>8, Reading!Least
    <3> QED
      BY <1>3, <1>8, <3>1, Zenon
  <2>2. i \in Nat /\ i # 0 /\ Holds(s, i - 1, p) /\ i - 1 \in Nat
    <3>1. i \in 1..(n - m + 1) /\ Holds(s, i - 1, p)
      BY <1>4
    <3> HIDE DEF n, m
    <3> QED
      BY <1>1, <3>1
  <2>3. ASSUME NEW a \in Nat, a < i - 1 PROVE ~Holds(s, a, p)
    <3> SUFFICES ASSUME Holds(s, a, p) PROVE FALSE
      OBVIOUS
    <3>1. i <= a + 1
      BY <1>5, <2>1
    <3> QED
      BY <2>2, <2>3, <3>1
  <2> QED
    BY <2>1, <2>2, <2>3 DEF IsFind
<1> QED
  BY <1>7, <1>8

\* What a window holds, the text holds too.
LEMMA WindowHolds ==
    ASSUME NEW S, NEW f \in Seq(S), NEW a \in Nat, NEW g \in Nat, a <= g, g <= Len(f),
           NEW p \in Seq(S), NEW i \in Nat
    PROVE  Holds(Window(f, a, g), i, p) <=> Holds(f, a + i, p) /\ (a + i) + Len(p) <= g
<1> DEFINE w == Window(f, a, g)
           m == Len(p)
           n == Len(f)
           l == Len(w)
<1>1. IsWindow(w, f, a, g, S)
  BY WindowFacts, Zenon
<1> HIDE DEF w
<1>2. l = g - a /\ (\A j \in 1..(g - a) : w[j] = f[a + j]) /\ m \in Nat /\ n \in Nat /\ g <= n
  BY <1>1, LenProperties DEF IsWindow
<1>3. Holds(w, i, p) <=> i + m <= l /\ \A j \in 1..m : w[i + j] = p[j]
  <2>1. m \in Nat /\ l \in Nat
    BY <1>2
  <2> QED
    BY <2>1 DEF Holds
<1>4. Holds(f, a + i, p) <=> (a + i) + m <= n /\ \A j \in 1..m : f[(a + i) + j] = p[j]
  <2>1. m \in Nat /\ n \in Nat /\ a + i \in Nat
    BY <1>2
  <2> QED
    BY <2>1 DEF Holds
<1> HIDE DEF l, m, n
<1>5. i + m <= l <=> (a + i) + m <= g
  BY <1>2
<1>6. ASSUME (a + i) + m <= g, NEW j \in 1..m PROVE w[i + j] = f[(a + i) + j]
  <2>1. i + j \in 1..(g - a) /\ a + (i + j) = (a + i) + j
    BY <1>2, <1>6
  <2> QED
    BY <1>2, <2>1
<1>7. (a + i) + m <= g => (a + i) + m <= n
  BY <1>2
<1>8. Holds(w, i, p) <=> Holds(f, a + i, p) /\ (a + i) + m <= g
  BY <1>3, <1>4, <1>5, <1>6, <1>7, Zenon
<1> QED
  BY <1>8, Zenon DEF m, w

-----------------------------------------------------------------------------
(* Where the parser is in the form x.                                      *)

\* Of the form x.form: its contents, the one header line of each, the boundary, and
\* where each header line begins.
Contents(x)  == Len(x.contents)
Starting(x, k) == x.places[k] + Len(x.header) + 4
Ending(x, k)   == Starting(x, k) + Len(x.contents[k])
Final(x, k)    == Ending(x, k) + 4 + Len(x.boundary)

\* No line of it begins with two dashes, and there are not too many of the characters
\* at the end of a line in a row.
InEnd(c) == c \in {CR, LF, Dash}
Clear(c, boundary) ==
    /\ \A a \in Nat : ~Holds(c, a, CRLF \o Dashes)
    /\ \A a \in Nat : a + Len(boundary) < Len(c) =>
          \E i \in 1..(Len(boundary) + 1) : ~InEnd(c[a + i])

FormTypes(x) ==
    /\ x.form \in Seq(Nat) /\ x.contents \in Seq(Seq(Nat)) /\ x.header \in Seq(Nat)
    /\ x.boundary \in Seq(Nat)
    /\ Contents(x) >= 1 /\ Len(x.header) >= 1
    /\ \A i \in 1..Len(x.header) : x.header[i] # CR
    /\ \A k \in 1..Contents(x) : x.places[k] \in Nat /\ Clear(x.contents[k], x.boundary)

\* The k-th part of the form.
IsPart(x, k) ==
    /\ Holds(x.form, x.places[k], x.header)
    /\ Holds(x.form, x.places[k] + Len(x.header), CRLF)
    /\ Holds(x.form, x.places[k] + Len(x.header) + 2, CRLF)
    /\ Holds(x.form, Starting(x, k), x.contents[k])
    /\ Holds(x.form, Ending(x, k), CRLF \o Dashes \o x.boundary)
    /\ k < Contents(x) => /\ Holds(x.form, Final(x, k), CRLF)
                          /\ x.places[k + 1] = Final(x, k) + 2
    /\ k = Contents(x) => /\ Holds(x.form, Final(x, k), Dashes \o CRLF)
                          /\ Len(x.form) = Final(x, k) + 4

IsForm(x) ==
    /\ FormTypes(x)
    /\ Holds(x.form, 0, Dashes \o x.boundary \o CRLF)
    /\ x.places[1] = Len(x.boundary) + 4
    /\ \A k \in 1..Contents(x) : IsPart(x, k)

\* The parser has k contents; k, the last of them up to its m-th character.
HasRead(x, parts, k) ==
    parts \in Seq(Seq(Nat)) /\ Len(parts) = k /\ \A j \in 1..k : parts[j] = x.contents[j]
IsReading(x, parts, k, m) ==
    /\ parts \in Seq(Seq(Nat)) /\ Len(parts) = k
    /\ \A j \in 1..(k - 1) : parts[j] = x.contents[j]
    /\ parts[k] = Window(x.contents[k], 0, m)

\* The parser p, when got bytes have arrived: it has used up the first at, and is at the
\* k-th content.  If it has stopped, it is for lack of text.
InState(x, p, at, k) ==
    \/ p.state = "first" /\ at = 0 /\ k = 1 /\ HasRead(x, p.parts, 0)
    \/ p.state = "entry" /\ at = x.places[k] /\ HasRead(x, p.parts, k - 1)
    \/ /\ p.state = "headers" /\ HasRead(x, p.parts, k - 1)
       /\ at = x.places[k] \/ at = x.places[k] + Len(x.header) + 2
    \/ /\ p.state = "body" /\ Starting(x, k) <= at /\ at <= Ending(x, k)
       /\ IsReading(x, p.parts, k, at - Starting(x, k))
    \/ p.state = "boundary" /\ at = Final(x, k) /\ HasRead(x, p.parts, k)
    \/ /\ p.state = "done" /\ at = Len(x.form) /\ p.valid = TRUE
       /\ HasRead(x, p.parts, Contents(x))

StandsAt(x, p, at, k, got) ==
    /\ at \in Nat /\ got \in Nat /\ at <= got /\ got <= Len(x.form) /\ k \in 1..Contents(x)
    /\ p.buf = Window(x.form, at, got)
    /\ p.going \in BOOLEAN /\ (~p.going => got < Len(x.form))
    /\ InState(x, p, at, k)

\* What a round does to it.
MovesOn(x, p, q, at, k, got) ==
    \E to, l : /\ StandsAt(x, q, to, l, got)
               /\ \/ ~q.going
                  \/ p.state = "entry" /\ q.state = "headers" /\ to = at
                  \/ to >= at + 2

IsParser(p, state, buf, parts, valid, going) ==
    /\ p.state = state /\ p.buf = buf /\ p.parts = parts /\ p.valid = valid
    /\ p.going = going

\* The fields of a parser.
LEMMA ParserFields ==
    ASSUME NEW state, NEW buf, NEW parts, NEW valid, NEW going
    PROVE  IsParser(Parser(state, buf, parts, valid, going), state, buf, parts, valid, going)
  BY DEF Parser, IsParser

\* Two texts, one after the other, in a text.
LEMMA HoldsBoth ==
    ASSUME NEW S, NEW f, NEW a \in Nat, NEW p \in Seq(S), NEW q \in Seq(S)
    PROVE  Holds(f, a, p \o q) <=> Holds(f, a, p) /\ Holds(f, a + Len(p), q)
<1> DEFINE u == p \o q
           l == Len(u)
           m == Len(p)
           n == Len(q)
           t == Len(f)
<1>1. IsConcat(u, p, q, S)
  BY ConcatFacts, Zenon
<1> HIDE DEF u
<1>2. /\ l = m + n /\ m \in Nat /\ n \in Nat
      /\ \A i \in 1..m : u[i] = p[i]
      /\ \A i \in 1..n : u[m + i] = q[i]
  BY <1>1, LenProperties DEF IsConcat
<1>3. Holds(f, a, u) <=> t \in Nat /\ a + l <= t /\ \A j \in 1..l : f[a + j] = u[j]
  <2>1. l \in Nat
    BY <1>2
  <2> QED
    BY <2>1, Zenon DEF Holds
<1>4. Holds(f, a, p) <=> t \in Nat /\ a + m <= t /\ \A j \in 1..m : f[a + j] = p[j]
  BY <1>2, Zenon DEF Holds
<1>5. Holds(f, a + m, q) <=> t \in Nat /\ (a + m) + n <= t /\ \A j \in 1..n : f[(a + m) + j] = q[j]
  <2>1. a + m \in Nat
    BY <1>2
  <2> QED
    BY <1>2, <2>1, Zenon DEF Holds
<1> HIDE DEF l, m, n, t
<1>6. t \in Nat => (a + l <= t <=> (a + m) + n <= t) /\ ((a + m) + n <= t => a + m <= t)
  BY <1>2
<1>7. (\A j \in 1..l : f[a + j] = u[j]) <=>
          (\A j \in 1..m : f[a + j] = p[j]) /\ (\A j \in 1..n : f[(a + m) + j] = q[j])
  <2>1. ASSUME \A j \in 1..l : f[a + j] = u[j]
        PROVE  (\A j \in 1..m : f[a + j] = p[j]) /\ (\A j \in 1..n : f[(a + m) + j] = q[j])
    <3>1. ASSUME NEW j \in 1..m PROVE f[a + j] = p[j]
      <4>1. j \in 1..l
        BY <1>2
      <4> QED
        BY <1>2, <2>1, <4>1
    <3>2. ASSUME NEW j \in 1..n PROVE f[(a + m) + j] = q[j]
      <4>1. m + j \in 1..l /\ a + (m + j) = (a + m) + j
        BY <1>2
      <4> QED
        BY <1>2, <2>1, <4>1
    <3> QED
      BY <3>1, <3>2
  <2>2. ASSUME \A j \in 1..m : f[a + j] = p[j], \A j \in 1..n : f[(a + m) + j] = q[j],
               NEW j \in 1..l
        PROVE  f[a + j] = u[j]
    <3>1. CASE j <= m
      <4>1. j \in 1..m
        BY <1>2, <3>1
      <4> QED
        BY <1>2, <2>2, <4>1
    <3>2. CASE ~(j <= m)
      <4> DEFINE i == j - m
      <4>1. i \in 1..n /\ m + i = j /\ (a + m) + i = a + j
        BY <1>2, <3>2
      <4> HIDE DEF i
      <4> QED
        BY <1>2, <2>2, <4>1
    <3> QED
      BY <3>1, <3>2
  <2> QED
    BY <2>1, <2>2
<1>8. Holds(f, a, u) <=> Holds(f, a, p) /\ Holds(f, a + m, q)
  BY <1>3, <1>4, <1>5, <1>6, <1>7, Zenon
<1> QED
  BY <1>8, Zenon DEF u, m

\* The marks of a form.
LEMMA Marks ==
    /\ CRLF \in Seq(Nat) /\ Dashes \in Seq(Nat) /\ Len(CRLF) = 2 /\ Len(Dashes) = 2
    /\ CRLF[1] = CR /\ CRLF[2] = LF /\ Dashes[1] = Dash /\ Dashes[2] = Dash
    /\ CR \in Nat /\ LF \in Nat /\ Dash \in Nat /\ CR # LF /\ CR # Dash /\ LF # Dash
  BY DEF CRLF, Dashes, CR, LF, Dash

\* How long the patterns are that the parser looks for.
LEMMA MarkLengths ==
    ASSUME NEW b \in Seq(Nat)
    PROVE  /\ CRLF \o Dashes \in Seq(Nat) /\ Len(CRLF \o Dashes) = 4
           /\ Dashes \o CRLF \in Seq(Nat) /\ Len(Dashes \o CRLF) = 4
           /\ CRLF \o Dashes \o b \in Seq(Nat) /\ Len(CRLF \o Dashes \o b) = Len(b) + 4
           /\ Dashes \o b \o CRLF \in Seq(Nat) /\ Len(Dashes \o b \o CRLF) = Len(b) + 4
           /\ Len(b) \in Nat
<1>1. CRLF \in Seq(Nat) /\ Dashes \in Seq(Nat) /\ Len(CRLF) = 2 /\ Len(Dashes) = 2
  BY Marks
<1>2. IsConcat(CRLF \o Dashes, CRLF, Dashes, Nat) /\ IsConcat(Dashes \o CRLF, Dashes, CRLF, Nat)
      /\ IsConcat(Dashes \o b, Dashes, b, Nat)
  BY <1>1, ConcatFacts, Zenon
<1>3. CRLF \o Dashes \in Seq(Nat) /\ Dashes \o b \in Seq(Nat)
  BY <1>2, Zenon DEF IsConcat
<1>4. IsConcat((CRLF \o Dashes) \o b, CRLF \o Dashes, b, Nat)
      /\ IsConcat((Dashes \o b) \o CRLF, Dashes \o b, CRLF, Nat)
  BY <1>1, <1>3, ConcatFacts, Zenon
<1>5. Len(b) \in Nat
  BY LenProperties
<1> QED
  BY <1>1, <1>2, <1>4, <1>5 DEF IsConcat

\* Where Find finds p in a window of f, if c is the first place after a that holds it.
FoundOrNot(i, a, c, g, m) == IF c + m <= g THEN i = (c - a) + 1 ELSE i = 0

\* In a window, Find gives where the pattern is, if it is there whole.
LEMMA FindAt ==
    ASSUME NEW f \in Seq(Nat), NEW a \in Nat, NEW g \in Nat, a <= g, g <= Len(f),
           NEW p \in Seq(Nat), NEW c \in Nat, a <= c, Holds(f, c, p),
           \A b \in Nat : a <= b /\ b < c => ~Holds(f, b, p)
    PROVE  FoundOrNot(Find(Window(f, a, g), p), a, c, g, Len(p))
<1> DEFINE w == Window(f, a, g)
           i == Find(w, p)
           m == Len(p)
<1>1. w \in Seq(Nat)
  BY WindowFacts, Zenon DEF IsWindow
<1>2. IsFind(i, w, p)
  BY <1>1, FindFacts, Zenon
<1>3. ASSUME NEW j \in Nat PROVE Holds(w, j, p) <=> Holds(f, a + j, p) /\ (a + j) + m <= g
  BY WindowHolds, Zenon
<1>4. m \in Nat
  BY LenProperties
<1> HIDE DEF w, i, m
<1>5. c - a \in Nat /\ a + (c - a) = c
  OBVIOUS
<1>6. CASE c + m <= g
  <2>1. Holds(w, c - a, p)
    BY <1>3, <1>5, <1>6
  <2>2. i # 0
    BY <1>2, <1>5, <2>1 DEF IsFind
  <2>3. /\ i \in Nat /\ i - 1 \in Nat /\ Holds(w, i - 1, p)
        /\ \A b \in Nat : b < i - 1 => ~Holds(w, b, p)
    BY <1>2, <2>2, Zenon DEF IsFind
  <2>4. Holds(f, a + (i - 1), p)
    BY <1>3, <2>3
  <2>5. ~(c - a < i - 1)
    BY <1>5, <2>1, <2>3
  <2>6. ~(a + (i - 1) < c)
    <3>1. a + (i - 1) \in Nat /\ a <= a + (i - 1)
      BY <2>3
    <3> QED
      BY <2>4, <3>1
  <2>7. i = (c - a) + 1
    BY <2>3, <2>5, <2>6
  <2> QED
    BY <1>6, <2>7, Zenon DEF FoundOrNot, i, w, m
<1>7. CASE ~(c + m <= g)
  <2>1. ASSUME i # 0 PROVE FALSE
    <3>1. i \in Nat /\ i - 1 \in Nat /\ Holds(w, i - 1, p)
      BY <1>2, <2>1, Zenon DEF IsFind
    <3>2. Holds(f, a + (i - 1), p) /\ (a + (i - 1)) + m <= g
      BY <1>3, <3>1
    <3>3. a + (i - 1) \in Nat /\ a <= a + (i - 1) /\ a + (i - 1) < c
      BY <1>4, <1>7, <3>1, <3>2
    <3> QED
      BY <3>2, <3>3
  <2> QED
    BY <1>7, <2>1, Zenon DEF FoundOrNot, i, w, m
<1> QED
  BY <1>6, <1>7

\* What is found at the beginning of a window stands there, and fits into it.
LEMMA FoundFirst ==
    ASSUME NEW f \in Seq(Nat), NEW a \in Nat, NEW g \in Nat, a <= g, g <= Len(f),
           NEW p \in Seq(Nat), Find(Window(f, a, g), p) = 1
    PROVE  Holds(f, a, p) /\ a + Len(p) <= g
<1> DEFINE w == Window(f, a, g)
           i == Find(w, p)
           m == Len(p)
<1>1. w \in Seq(Nat)
  BY WindowFacts, Zenon DEF IsWindow
<1>2. IsFind(i, w, p)
  BY <1>1, FindFacts, Zenon
<1>3. Holds(w, 0, p) <=> Holds(f, a + 0, p) /\ (a + 0) + m <= g
  <2>1. 0 \in Nat
    OBVIOUS
  <2> QED
    BY <2>1, WindowHolds, Zenon
<1>4. i = 1
  OBVIOUS
<1> HIDE DEF w, i, m
<1>5. Holds(w, 0, p)
  BY <1>2, <1>4 DEF IsFind
<1>6. a + 0 = a
  OBVIOUS
<1> QED
  BY <1>3, <1>5, <1>6 DEF m

\* The places of a part, one after the other.
PlacesOf(x, k) ==
    /\ x.form \in Seq(Nat) /\ Len(x.form) \in Nat
    /\ Contents(x) \in Nat /\ Len(x.boundary) \in Nat /\ Len(x.header) \in Nat
    /\ Len(x.header) >= 1
    /\ x.contents[k] \in Seq(Nat) /\ Len(x.contents[k]) \in Nat /\ x.places[k] \in Nat
    /\ Starting(x, k) \in Nat /\ Ending(x, k) \in Nat /\ Final(x, k) \in Nat
    /\ Starting(x, k) = x.places[k] + Len(x.header) + 4
    /\ Ending(x, k) = Starting(x, k) + Len(x.contents[k])
    /\ Final(x, k) = Ending(x, k) + 4 + Len(x.boundary)
    /\ x.places[k] + 4 <= Final(x, k) /\ Final(x, k) + 2 <= Len(x.form)

\* Where the things of a part are, and that they are numbers.
LEMMA FormPlaces ==
    ASSUME NEW x, IsForm(x), NEW k \in 1..Contents(x)
    PROVE  PlacesOf(x, k) /\ IsPart(x, k)
<1>1. IsPart(x, k) /\ FormTypes(x)
  BY DEF IsForm
<1>2. /\ x.form \in Seq(Nat) /\ Len(x.form) \in Nat
      /\ Contents(x) \in Nat /\ Len(x.boundary) \in Nat /\ Len(x.header) \in Nat
      /\ Len(x.header) >= 1 /\ x.places[k] \in Nat
      /\ x.contents \in Seq(Seq(Nat))
  BY <1>1, LenProperties DEF FormTypes, Contents
<1>3. x.contents[k] \in Seq(Nat)
  BY <1>2, ElementOfSeq DEF Contents
<1>4. Len(x.contents[k]) \in Nat
  BY <1>3, LenProperties
<1>5. Starting(x, k) = x.places[k] + Len(x.header) + 4 /\ Starting(x, k) \in Nat
  BY <1>2 DEF Starting
<1>6. Ending(x, k) = Starting(x, k) + Len(x.contents[k]) /\ Ending(x, k) \in Nat
  BY <1>4, <1>5 DEF Ending
<1>7. Final(x, k) = Ending(x, k) + 4 + Len(x.boundary) /\ Final(x, k) \in Nat
  BY <1>2, <1>6 DEF Final
<1>8. Final(x, k) + 2 <= Len(x.form)
  <2>1. CASE k < Contents(x)
    <3>1. Holds(x.form, Final(x, k), CRLF)
      BY <1>1, <2>1 DEF IsPart
    <3> QED
      BY <3>1, Marks DEF Holds
  <2>2. CASE k = Contents(x)
    <3>1. Len(x.form) = Final(x, k) + 4
      BY <1>1, <2>2 DEF IsPart
    <3> QED
      BY <1>2, <1>7, <3>1
  <2> QED
    BY <1>2, <2>1, <2>2
<1>9. x.places[k] + 4 <= Final(x, k)
  <2> DEFINE a == x.places[k]
             h == Len(x.header)
             c == Len(x.contents[k])
             b == Len(x.boundary)
             f == Final(x, k)
  <2>1. a \in Nat /\ h \in Nat /\ c \in Nat /\ b \in Nat
    BY <1>2, <1>4
  <2>2. f = a + h + 4 + c + 4 + b
    BY <1>5, <1>6, <1>7
  <2> HIDE DEF a, h, c, b, f
  <2> QED
    BY <2>1, <2>2 DEF a, f
<1> QED
  BY <1>1, <1>2, <1>3, <1>4, <1>5, <1>6, <1>7, <1>8, <1>9, Zenon DEF PlacesOf

\* A parser that stops for lack of text.
LEMMA StopsHere ==
    ASSUME NEW x, NEW p, NEW at, NEW k, NEW got, StandsAt(x, p, at, k, got),
           got < Len(x.form)
    PROVE  MovesOn(x, p, Stop(p), at, k, got)
<1> DEFINE q == Stop(p)
<1>1. IsParser(q, p.state, p.buf, p.parts, p.valid, FALSE)
  BY ParserFields, Zenon DEF Stop
<1> HIDE DEF q
<1>2. /\ q.state = p.state /\ q.buf = p.buf /\ q.parts = p.parts /\ q.valid = p.valid
      /\ q.going = FALSE
  BY <1>1, Zenon DEF IsParser
<1>3. InState(x, q, at, k)
  <2>1. InState(x, p, at, k)
    BY DEF StandsAt
  <2> QED
    BY <1>2, <2>1 DEF InState
<1>4. StandsAt(x, q, at, k, got)
  BY <1>2, <1>3 DEF StandsAt
<1> QED
  BY <1>2, <1>4, Zenon DEF MovesOn, q

\* What is left of the buffer when m bytes of it are used up.
LEMMA Erased ==
    ASSUME NEW x, x.form \in Seq(Nat), NEW p, NEW at, NEW k, NEW got, StandsAt(x, p, at, k, got),
           NEW m \in Nat, at + m <= got
    PROVE  SameWindow(From(p.buf, m + 1), x.form, at + m, got)
<1> DEFINE f == x.form
           b == at + m
<1>1. /\ at \in Nat /\ got \in Nat /\ at <= got /\ got <= Len(f) /\ p.buf = Window(f, at, got)
  BY DEF StandsAt
<1>2. b \in Nat /\ at <= b /\ b <= got /\ (b - at) + 1 = m + 1
  BY <1>1
<1> HIDE DEF b, f
<1>3. IsCut(f, at, b, got)
  <2>1. f \in Seq(Nat)
    BY DEF f
  <2> QED
    BY <1>1, <1>2, <2>1, WindowCut, Zenon
<1>4. From(p.buf, m + 1) = Window(f, b, got)
  BY <1>1, <1>2, <1>3, Zenon DEF IsCut
<1> QED
  BY <1>4, Zenon DEF SameWindow, b, f

\* Some bytes are used up, which leads to a state.
LEMMA ErasedTo ==
    ASSUME NEW x, x.form \in Seq(Nat), NEW p, NEW at, NEW k, NEW got, StandsAt(x, p, at, k, got),
           NEW m \in Nat, at + m <= got, NEW q, NEW state, NEW parts, NEW valid,
           IsParser(q, state, From(p.buf, m + 1), parts, valid, p.going), NEW l \in 1..Contents(x),
           InState(x, q, at + m, l)
    PROVE  StandsAt(x, q, at + m, l, got)
<1> DEFINE to == at + m
<1>1. /\ at \in Nat /\ got \in Nat /\ at <= got /\ got <= Len(x.form)
      /\ p.going \in BOOLEAN /\ (~p.going => got < Len(x.form))
  BY DEF StandsAt
<1>2. to \in Nat /\ to <= got
  BY <1>1
<1>3. SameWindow(From(p.buf, m + 1), x.form, to, got)
  BY Erased
<1>4. q.state = state /\ q.buf = From(p.buf, m + 1) /\ q.going = p.going
  BY Zenon DEF IsParser
<1>5. InState(x, q, to, l)
  OBVIOUS
<1> HIDE DEF to
<1>6. StandsAt(x, q, to, l, got)
  BY <1>1, <1>2, <1>3, <1>4, <1>5, Zenon DEF StandsAt, SameWindow
<1> QED
  BY <1>6, Zenon DEF to

\* The parser goes on in that state.
LEMMA ErasedOn ==
    ASSUME NEW x, x.form \in Seq(Nat), NEW p, NEW at, NEW k, NEW got, StandsAt(x, p, at, k, got),
           NEW m \in Nat, at + m <= got, NEW q, NEW state, NEW parts, NEW valid,
           IsParser(q, state, From(p.buf, m + 1), parts, valid, p.going), NEW l \in 1..Contents(x),
           InState(x, q, at + m, l), m >= 2 \/ (p.state = "entry" /\ state = "headers" /\ m = 0)
    PROVE  MovesOn(x, p, q, at, k, got)
<1> DEFINE to == at + m
<1>1. StandsAt(x, q, to, l, got)
  BY ErasedTo
<1>2. q.state = state
  BY Zenon DEF IsParser
<1>3. to >= at + 2 \/ (p.state = "entry" /\ state = "headers" /\ to = at)
  BY DEF StandsAt
<1> HIDE DEF to
<1> QED
  BY <1>1, <1>2, <1>3, Zenon DEF MovesOn

\* The first boundary.
LEMMA RoundFirst ==
    ASSUME NEW x, IsForm(x), NEW p, NEW at, NEW k, NEW got, StandsAt(x, p, at, k, got),
           p.state = "first"
    PROVE  MovesOn(x, p, FirstBoundary(p, x.boundary), at, k, got)
<1> DEFINE b == x.boundary
           pattern == Dashes \o b \o CRLF
           m == Len(pattern)
           q == Erase(p, m, "entry")
<1>1. /\ at = 0 /\ k = 1 /\ HasRead(x, p.parts, 0)
  BY DEF StandsAt, InState
<1>2. /\ x.form \in Seq(Nat) /\ b \in Seq(Nat) /\ Holds(x.form, 0, pattern)
      /\ x.places[1] = Len(b) + 4
  BY DEF IsForm, FormTypes
<1>3. pattern \in Seq(Nat) /\ m = Len(b) + 4 /\ Len(b) \in Nat
  BY <1>2, MarkLengths
<1>4. /\ at \in Nat /\ got \in Nat /\ at <= got /\ got <= Len(x.form)
      /\ p.buf = Window(x.form, at, got) /\ k \in 1..Contents(x)
  BY DEF StandsAt
<1>5. Len(p.buf) = got
  <2>1. IsWindow(p.buf, x.form, at, got, Nat)
    BY <1>2, <1>4, WindowFacts, Zenon
  <2> QED
    BY <1>1, <1>4, <2>1 DEF IsWindow
<1>6. PlacesOf(x, k)
  BY <1>4, FormPlaces
<1>7. got <= Len(x.form) /\ m < Len(x.form)
  <2>1. x.places[k] + 2 <= Len(x.form)
    <3>1. /\ x.places[k] + 4 <= Final(x, k) /\ Final(x, k) + 2 <= Len(x.form)
          /\ x.places[k] \in Nat /\ Final(x, k) \in Nat /\ Len(x.form) \in Nat
      BY <1>6, Zenon DEF PlacesOf
    <3> QED
      BY <3>1
  <2>2. x.places[k] = m
    BY <1>1, <1>2, <1>3
  <2>3. Len(x.form) \in Nat
    BY <1>6 DEF PlacesOf
  <2> HIDE DEF m
  <2> QED
    BY <1>3, <1>4, <2>1, <2>2, <2>3
<1> HIDE DEF b, pattern, m
<1>8. FirstBoundary(p, b) = CASE Len(p.buf) < m -> Stop(p)
                              [] ~(Len(p.buf) < m) /\ Find(p.buf, pattern) = 1 -> q
                              [] OTHER -> Fails(p)
  BY Zenon DEF FirstBoundary, Lacks, Starts, pattern, m
<1> HIDE DEF q
<1>9. CASE Len(p.buf) < m
  <2>1. FirstBoundary(p, b) = Stop(p)
    BY <1>8, <1>9
  <2>2. got < Len(x.form)
    BY <1>3, <1>4, <1>5, <1>7, <1>9
  <2> QED
    BY <2>1, <2>2, StopsHere, Zenon DEF b
<1>10. CASE ~(Len(p.buf) < m)
  <2>1. m \in Nat /\ 0 + m <= got
    BY <1>3, <1>4, <1>5, <1>10
  <2>2. FoundOrNot(Find(Window(x.form, 0, got), pattern), 0, 0, got, m)
    <3>1. 0 \in Nat /\ 0 <= got /\ 0 <= 0 /\ \A e \in Nat : ~(0 <= e /\ e < 0)
      BY <1>4
    <3> QED
      BY <1>2, <1>3, <1>4, <3>1, FindAt DEF m
  <2>3. Find(p.buf, pattern) = 1
    <3>1. Find(Window(x.form, 0, got), pattern) = (0 - 0) + 1
      BY <2>1, <2>2 DEF FoundOrNot
    <3> QED
      BY <1>1, <1>4, <3>1
  <2>4. FirstBoundary(p, b) = q
    BY <1>8, <1>10, <2>3
  <2>5. IsParser(q, "entry", From(p.buf, m + 1), p.parts, p.valid, p.going)
    BY ParserFields, Zenon DEF q, Erase
  <2>6. InState(x, q, at + m, k)
    <3>1. q.state = "entry" /\ q.parts = p.parts
      BY <2>5, Zenon DEF IsParser
    <3>2. at + m = x.places[k] /\ k - 1 = 0
      BY <1>1, <1>2, <1>3 DEF b
    <3> QED
      BY <1>1, <3>1, <3>2 DEF InState
  <2>7. at + m <= got /\ m >= 2
    BY <1>1, <1>3, <2>1
  <2>8. MovesOn(x, p, q, at, k, got)
    BY <1>2, <1>4, <2>1, <2>5, <2>6, <2>7, ErasedOn
  <2> QED
    BY <2>4, <2>8, Zenon DEF b
<1> QED
  BY <1>9, <1>10

\* A new entry.
LEMMA RoundEntry ==
    ASSUME NEW x, IsForm(x), NEW p, NEW at, NEW k, NEW got, StandsAt(x, p, at, k, got),
           p.state = "entry"
    PROVE  MovesOn(x, p, Erase(p, 0, "headers"), at, k, got)
<1> DEFINE q == Erase(p, 0, "headers")
<1>1. at = x.places[k] /\ HasRead(x, p.parts, k - 1)
  BY DEF StandsAt, InState
<1>2. at \in Nat /\ at <= got /\ at + 0 = at /\ at + 0 <= got /\ k \in 1..Contents(x) /\ 0 \in Nat
  BY DEF StandsAt
<1>3. IsParser(q, "headers", From(p.buf, 0 + 1), p.parts, p.valid, p.going)
  BY ParserFields, Zenon DEF Erase
<1> HIDE DEF q
<1>4. InState(x, q, at + 0, k)
  <2>1. q.state = "headers" /\ q.parts = p.parts
    BY <1>3, Zenon DEF IsParser
  <2> QED
    BY <1>1, <1>2, <2>1 DEF InState
<1>5. x.form \in Seq(Nat)
  BY DEF IsForm, FormTypes
<1>6. MovesOn(x, p, q, at, k, got)
  BY <1>2, <1>3, <1>4, <1>5, ErasedOn
<1> QED
  BY <1>6, Zenon DEF q

\* A content begins.
LEMMA ReadingBegins ==
    ASSUME NEW x, IsForm(x), NEW k \in 1..Contents(x), NEW parts, HasRead(x, parts, k - 1)
    PROVE  IsReading(x, Append(parts, <<>>), k, 0)
<1> DEFINE s == Append(parts, <<>>)
           n == Len(parts)
           c == x.contents[k]
<1>1. parts \in Seq(Seq(Nat)) /\ n = k - 1 /\ \A j \in 1..(k - 1) : parts[j] = x.contents[j]
  BY Zenon DEF HasRead
<1>2. <<>> \in Seq(Nat)
  BY EmptySeq
<1>3. IsAppend(s, parts, <<>>, Seq(Nat))
  BY <1>1, <1>2, AppendFacts
<1> HIDE DEF s
<1>4. s \in Seq(Seq(Nat)) /\ Len(s) = n + 1 /\ (\A j \in 1..n : s[j] = parts[j]) /\ s[n + 1] = <<>>
  BY <1>3, Zenon DEF IsAppend
<1> HIDE DEF n
<1>5. k \in Nat /\ (k - 1) + 1 = k
  BY DEF IsForm, FormTypes, Contents
<1>6. Len(s) = k /\ (\A j \in 1..(k - 1) : s[j] = x.contents[j]) /\ s[k] = <<>>
  BY <1>1, <1>4, <1>5
<1>7. <<>> = Window(c, 0, 0)
  <2>1. c \in Seq(Nat) /\ Len(c) \in Nat
    BY FormPlaces, Zenon DEF PlacesOf
  <2> HIDE DEF c
  <2>2. IsWindow(Window(c, 0, 0), c, 0, 0, Nat)
    <3>1. 0 \in Nat /\ 0 <= 0 /\ 0 <= Len(c)
      BY <2>1
    <3> QED
      BY <2>1, <3>1, WindowFacts
  <2>3. Window(c, 0, 0) \in Seq(Nat) /\ Len(Window(c, 0, 0)) = 0
    BY <2>2 DEF IsWindow
  <2> QED
    BY <2>3, EmptySeq
<1> QED
  BY <1>4, <1>6, <1>7, Zenon DEF IsReading, s, c

\* The header line, and the empty line after it.
LEMMA RoundHeaders ==
    ASSUME NEW x, IsForm(x), NEW p, NEW at, NEW k, NEW got, StandsAt(x, p, at, k, got),
           p.state = "headers"
    PROVE  MovesOn(x, p, Header(p), at, k, got)
<1> DEFINE f == x.form
           a == x.places[k]
           h == Len(x.header)
           end == Find(p.buf, CRLF)
           body == Parser("body", From(p.buf, 3), Append(p.parts, <<>>), p.valid, p.going)
           line == Erase(p, end + 1, "headers")
<1>1. (at = a \/ at = a + h + 2) /\ HasRead(x, p.parts, k - 1)
  BY DEF StandsAt, InState
<1>2. /\ at \in Nat /\ got \in Nat /\ at <= got /\ got <= Len(f)
      /\ p.buf = Window(f, at, got) /\ k \in 1..Contents(x)
  BY DEF StandsAt
<1>3. PlacesOf(x, k) /\ IsPart(x, k)
  BY <1>2, FormPlaces
<1>4. /\ f \in Seq(Nat) /\ Len(f) \in Nat /\ a \in Nat /\ h \in Nat /\ h >= 1
      /\ Starting(x, k) = a + h + 4 /\ Starting(x, k) <= Ending(x, k)
      /\ a + h + 4 <= Len(f)
  <2> DEFINE l == Len(f)
             s == Starting(x, k)
             e == Ending(x, k)
             z == Final(x, k)
             c == Len(x.contents[k])
             b == Len(x.boundary)
  <2>1. /\ f \in Seq(Nat) /\ l \in Nat /\ a \in Nat /\ h \in Nat /\ h >= 1
        /\ s = a + h + 4 /\ e = s + c /\ c \in Nat /\ b \in Nat /\ z = e + 4 + b /\ z + 2 <= l
    BY <1>3, Zenon DEF PlacesOf
  <2> HIDE DEF l, s, e, z, c, b, a, h, f
  <2>2. s <= e /\ a + h + 4 <= l
    BY <2>1
  <2> QED
    BY <2>1, <2>2 DEF l, s, e
<1>5. Holds(f, a, x.header) /\ Holds(f, a + h, CRLF) /\ Holds(f, a + h + 2, CRLF)
  BY <1>3, Zenon DEF IsPart
<1>6. \A i \in 1..h : f[a + i] # CR
  BY <1>5 DEF IsForm, FormTypes, Holds
<1>7. ASSUME NEW b \in Nat, a <= b, b < a + h PROVE ~Holds(f, b, CRLF)
  <2> SUFFICES ASSUME Holds(f, b, CRLF) PROVE FALSE
    OBVIOUS
  <2>1. f[b + 1] = CR
    <3>1. 1 \in 1..Len(CRLF) /\ CRLF[1] = CR
      BY Marks
    <3> QED
      BY <3>1 DEF Holds
  <2> DEFINE i == (b - a) + 1
  <2>2. i \in 1..h /\ a + i = b + 1
    BY <1>4, <1>7
  <2> HIDE DEF i
  <2> QED
    BY <1>6, <2>1, <2>2
<1>8. Header(p) = CASE end = 0 -> Stop(p) [] end = 1 -> body [] OTHER -> line
  BY Zenon DEF Header
<1>9. CRLF \in Seq(Nat) /\ Len(CRLF) = 2
  BY Marks
<1>10. IsParser(body, "body", From(p.buf, 3), Append(p.parts, <<>>), p.valid, p.going)
  BY ParserFields, Zenon
<1>11. IsParser(line, "headers", From(p.buf, (end + 1) + 1), p.parts, p.valid, p.going)
  BY ParserFields, Zenon DEF Erase
<1>12. IsReading(x, Append(p.parts, <<>>), k, 0)
  BY <1>1, <1>2, ReadingBegins
<1>13. (CASE end = 0 -> Stop(p) [] end = 1 -> body [] OTHER -> line) =
       IF end = 0 THEN Stop(p) ELSE IF end = 1 THEN body ELSE line
  <2> HIDE DEF end, body, line
  <2> QED
    OBVIOUS
<1>14. end = Find(Window(f, at, got), CRLF)
  BY <1>2
<1> HIDE DEF body, line, a, h, f, end
<1>15. CASE at = a
  <2>1. FoundOrNot(end, a, a + h, got, 2)
    <3>1. a + h \in Nat /\ a <= a + h
      BY <1>4
    <3> QED
      BY <1>2, <1>4, <1>5, <1>7, <1>9, <1>14, <1>15, <3>1, FindAt, Zenon
  <2>2. CASE (a + h) + 2 <= got
    <3>1. end = h + 1
      BY <1>4, <2>1, <2>2 DEF FoundOrNot
    <3>2. Header(p) = line
      BY <1>4, <1>8, <1>13, <3>1
    <3> DEFINE m == h + 2
    <3>3. m \in Nat /\ at + m <= got /\ m >= 2 /\ end + 1 = m /\ at + m = a + h + 2
      BY <1>2, <1>4, <1>15, <2>2, <3>1
    <3> HIDE DEF m
    <3>4. InState(x, line, at + m, k)
      <4>1. line.state = "headers" /\ line.parts = p.parts
        BY <1>11, Zenon DEF IsParser
      <4> QED
        BY <1>1, <3>3, <4>1, Zenon DEF InState, a, h
    <3>5. IsParser(line, "headers", From(p.buf, m + 1), p.parts, p.valid, p.going)
      BY <1>11, <3>3, Zenon
    <3>6. MovesOn(x, p, line, at, k, got)
      BY <1>2, <1>4, <3>3, <3>4, <3>5, ErasedOn DEF f
    <3> QED
      BY <3>2, <3>6, Zenon
  <2>3. CASE ~((a + h) + 2 <= got)
    <3>1. end = 0
      BY <2>1, <2>3 DEF FoundOrNot
    <3>2. Header(p) = Stop(p)
      BY <1>8, <1>13, <3>1
    <3>3. got < Len(f)
      BY <1>2, <1>4, <2>3
    <3> QED
      BY <3>2, <3>3, StopsHere, Zenon DEF f
  <2> QED
    BY <2>2, <2>3
<1>16. CASE at = a + h + 2
  <2>1. FoundOrNot(end, at, at, got, 2)
    <3>1. at <= at /\ \A b \in Nat : ~(at <= b /\ b < at)
      BY <1>2
    <3> QED
      BY <1>2, <1>4, <1>5, <1>9, <1>14, <1>16, <3>1, FindAt, Zenon
  <2>2. CASE at + 2 <= got
    <3>1. end = 1
      BY <1>2, <2>1, <2>2 DEF FoundOrNot
    <3>2. Header(p) = body
      BY <1>8, <1>13, <3>1
    <3>3. at + 2 = Starting(x, k) /\ (at + 2) - Starting(x, k) = 0
          /\ at + 2 <= Ending(x, k) /\ Starting(x, k) <= at + 2
      BY <1>2, <1>4, <1>16
    <3>4. InState(x, body, at + 2, k)
      <4>1. body.state = "body" /\ body.parts = Append(p.parts, <<>>)
        BY <1>10, Zenon DEF IsParser
      <4> QED
        BY <1>12, <3>3, <4>1 DEF InState
    <3>5. IsParser(body, "body", From(p.buf, 2 + 1), Append(p.parts, <<>>), p.valid, p.going)
      <4>1. 2 + 1 = 3
        OBVIOUS
      <4> QED
        BY <1>10, <4>1
    <3>6. MovesOn(x, p, body, at, k, got)
      <4>1. 2 \in Nat /\ 2 >= 2
        OBVIOUS
      <4> QED
        BY <1>2, <1>4, <2>2, <3>4, <3>5, <4>1, ErasedOn DEF f
    <3> QED
      BY <3>2, <3>6, Zenon
  <2>3. CASE ~(at + 2 <= got)
    <3>1. end = 0
      BY <2>1, <2>3 DEF FoundOrNot
    <3>2. Header(p) = Stop(p)
      BY <1>8, <1>13, <3>1
    <3>3. got < Len(f)
      BY <1>2, <1>4, <1>16, <2>3
    <3> QED
      BY <3>2, <3>3, StopsHere, Zenon DEF f
  <2> QED
    BY <2>2, <2>3
<1> QED
  BY <1>1, <1>15, <1>16 DEF a, h

\* What follows a boundary.
LEMMA RoundBoundary ==
    ASSUME NEW x, IsForm(x), NEW p, NEW at, NEW k, NEW got, StandsAt(x, p, at, k, got),
           p.state = "boundary"
    PROVE  MovesOn(x, p, AfterBoundary(p), at, k, got)
<1> DEFINE f     == x.form
           last  == Dashes \o CRLF
           n     == Contents(x)
           one   == Find(p.buf, CRLF)
           two   == Find(p.buf, last)
           entry == Erase(p, 2, "entry")
           done  == Parser("done", From(p.buf, 5), p.parts, TRUE, p.going)
<1>1. at = Final(x, k) /\ HasRead(x, p.parts, k)
  BY DEF StandsAt, InState
<1>2. /\ at \in Nat /\ got \in Nat /\ at <= got /\ got <= Len(f)
      /\ p.buf = Window(f, at, got) /\ k \in 1..n
  BY DEF StandsAt
<1>3. PlacesOf(x, k) /\ IsPart(x, k)
  BY <1>2, FormPlaces
<1>4. f \in Seq(Nat) /\ Len(f) \in Nat /\ n \in Nat
  BY <1>3, Zenon DEF PlacesOf
<1>5. /\ k < n => Holds(f, at, CRLF) /\ x.places[k + 1] = at + 2
      /\ k = n => Holds(f, at, last) /\ Len(f) = at + 4
  BY <1>1, <1>3, Zenon DEF IsPart
<1>6. /\ CRLF \in Seq(Nat) /\ Len(CRLF) = 2 /\ last \in Seq(Nat) /\ Len(last) = 4
      /\ CRLF[1] = CR /\ last[1] = Dash /\ CR # Dash
  <2>1. CRLF \in Seq(Nat) /\ Dashes \in Seq(Nat) /\ Len(CRLF) = 2 /\ Len(Dashes) = 2
        /\ CRLF[1] = CR /\ Dashes[1] = Dash /\ CR # Dash
    BY Marks
  <2>2. IsConcat(last, Dashes, CRLF, Nat)
    BY <2>1, ConcatFacts, Zenon
  <2> HIDE DEF last
  <2> QED
    BY <2>1, <2>2 DEF IsConcat
<1>7. AfterBoundary(p) = CASE one = 1 -> entry [] two = 1 -> done [] OTHER -> Stop(p)
  BY Zenon DEF AfterBoundary, Starts
<1>8. IsParser(entry, "entry", From(p.buf, 2 + 1), p.parts, p.valid, p.going)
      /\ IsParser(done, "done", From(p.buf, 4 + 1), p.parts, TRUE, p.going)
  <2>1. 4 + 1 = 5
    OBVIOUS
  <2> QED
    BY <2>1, ParserFields, Zenon DEF Erase
<1>9. one = Find(Window(f, at, got), CRLF) /\ two = Find(Window(f, at, got), last)
  BY <1>2
<1>10. /\ entry.state = "entry" /\ entry.parts = p.parts
       /\ done.state = "done" /\ done.parts = p.parts /\ done.valid = TRUE
  BY <1>8, Zenon DEF IsParser
<1> HIDE DEF f, last, n, one, two, entry, done
<1>11. one = 1 => f[at + 1] = CR
  <2> SUFFICES ASSUME one = 1 PROVE f[at + 1] = CR
    OBVIOUS
  <2>1. Holds(f, at, CRLF)
    BY <1>2, <1>4, <1>6, <1>9, FoundFirst
  <2> QED
    BY <1>6, <2>1 DEF Holds
<1>12. two = 1 => f[at + 1] = Dash
  <2> SUFFICES ASSUME two = 1 PROVE f[at + 1] = Dash
    OBVIOUS
  <2>1. Holds(f, at, last)
    BY <1>2, <1>4, <1>6, <1>9, FoundFirst
  <2> QED
    BY <1>6, <2>1 DEF Holds
<1>13. at <= at /\ \A b \in Nat : ~(at <= b /\ b < at)
  BY <1>2
<1>14. CASE k < n
  <2>1. Holds(f, at, CRLF) /\ x.places[k + 1] = at + 2
    BY <1>5, <1>14
  <2>2. FoundOrNot(one, at, at, got, 2)
    BY <1>2, <1>4, <1>6, <1>9, <1>13, <2>1, FindAt, Zenon
  <2>3. two # 1
    <3>1. f[at + 1] = CR
      BY <1>6, <2>1 DEF Holds
    <3> QED
      BY <1>6, <1>12, <3>1
  <2>4. CASE at + 2 <= got
    <3>1. one = 1
      BY <1>2, <2>2, <2>4 DEF FoundOrNot
    <3>2. AfterBoundary(p) = entry
      BY <1>7, <2>3, <3>1
    <3>3. k + 1 \in 1..n /\ (k + 1) - 1 = k
      BY <1>2, <1>4, <1>14
    <3>4. InState(x, entry, at + 2, k + 1)
      BY <1>1, <1>10, <2>1, <3>3 DEF InState
    <3>5. MovesOn(x, p, entry, at, k, got)
      <4>1. 2 \in Nat /\ 2 >= 2
        OBVIOUS
      <4> QED
        BY <1>2, <1>4, <1>8, <2>4, <3>3, <3>4, <4>1, ErasedOn DEF f, n
    <3> QED
      BY <3>2, <3>5, Zenon
  <2>5. CASE ~(at + 2 <= got)
    <3>1. one = 0
      BY <2>2, <2>5 DEF FoundOrNot
    <3>2. AfterBoundary(p) = Stop(p)
      BY <1>7, <2>3, <3>1
    <3>3. got < Len(f)
      <4>1. at + 2 <= Len(f)
        BY <1>6, <2>1 DEF Holds
      <4> QED
        BY <1>2, <1>4, <2>5, <4>1
    <3> QED
      BY <3>2, <3>3, StopsHere, Zenon DEF f
  <2> QED
    BY <2>4, <2>5
<1>15. CASE k = n
  <2>1. Holds(f, at, last) /\ Len(f) = at + 4
    BY <1>5, <1>15
  <2>2. FoundOrNot(two, at, at, got, 4)
    BY <1>2, <1>4, <1>6, <1>9, <1>13, <2>1, FindAt, Zenon
  <2>3. one # 1
    <3>1. f[at + 1] = Dash
      BY <1>6, <2>1 DEF Holds
    <3> QED
      BY <1>6, <1>11, <3>1
  <2>4. CASE at + 4 <= got
    <3>1. two = 1
      BY <1>2, <2>2, <2>4 DEF FoundOrNot
    <3>2. AfterBoundary(p) = done
      BY <1>7, <2>3, <3>1
    <3>3. InState(x, done, at + 4, k)
      BY <1>1, <1>10, <1>15, <2>1 DEF InState, f, n
    <3>4. MovesOn(x, p, done, at, k, got)
      <4>1. 4 \in Nat /\ 4 >= 2
        OBVIOUS
      <4> QED
        BY <1>2, <1>4, <1>8, <2>4, <3>3, <4>1, ErasedOn DEF f, n
    <3> QED
      BY <3>2, <3>4, Zenon
  <2>5. CASE ~(at + 4 <= got)
    <3>1. two = 0
      BY <2>2, <2>5 DEF FoundOrNot
    <3>2. AfterBoundary(p) = Stop(p)
      BY <1>7, <2>3, <3>1
    <3>3. got < Len(f)
      BY <1>2, <1>4, <2>1, <2>5
    <3> QED
      BY <3>2, <3>3, StopsHere, Zenon DEF f
  <2> QED
    BY <2>4, <2>5
<1> QED
  BY <1>2, <1>4, <1>14, <1>15

\* The end of a line and two dashes after a content.
LEMMA MarkFacts ==
    /\ CRLF \o Dashes \in Seq(Nat) /\ Len(CRLF \o Dashes) = 4
    /\ (CRLF \o Dashes)[1] = CR /\ (CRLF \o Dashes)[2] = LF
    /\ (CRLF \o Dashes)[3] = Dash /\ (CRLF \o Dashes)[4] = Dash
<1>1. /\ CRLF \in Seq(Nat) /\ Dashes \in Seq(Nat) /\ Len(CRLF) = 2 /\ Len(Dashes) = 2
      /\ CRLF[1] = CR /\ CRLF[2] = LF /\ Dashes[1] = Dash /\ Dashes[2] = Dash
  BY Marks
<1> DEFINE u == CRLF \o Dashes
<1>2. IsConcat(u, CRLF, Dashes, Nat)
  BY <1>1, ConcatFacts, Zenon
<1> HIDE DEF u
<1>3. /\ u \in Seq(Nat) /\ Len(u) = 4
      /\ \A i \in 1..2 : u[i] = CRLF[i]
      /\ \A i \in 1..2 : u[2 + i] = Dashes[i]
  BY <1>1, <1>2 DEF IsConcat
<1>4. u[1] = CR /\ u[2] = LF /\ u[2 + 1] = Dash /\ u[2 + 2] = Dash
  BY <1>1, <1>3
<1>5. 2 + 1 = 3 /\ 2 + 2 = 4
  OBVIOUS
<1>6. u[3] = Dash /\ u[4] = Dash
  BY <1>4, <1>5
<1> QED
  BY <1>3, <1>4, <1>6 DEF u

\* What follows a content, and that it does not begin in it.
EndsHere(f, s, e) ==
    /\ Holds(f, e, CRLF \o Dashes)
    /\ f[e + 1] = CR /\ f[e + 2] = LF /\ f[e + 3] = Dash
    /\ \A b \in Nat : s <= b /\ b < e => ~Holds(f, b, CRLF \o Dashes)

\* A content ends where the first mark is: no place before holds one.
LEMMA ContentEnds ==
    ASSUME NEW x, IsForm(x), NEW k \in 1..Contents(x)
    PROVE  EndsHere(x.form, Starting(x, k), Ending(x, k))
<1> DEFINE f == x.form
           c == x.contents[k]
           s == Starting(x, k)
           e == Ending(x, k)
           n == Len(c)
           mark == CRLF \o Dashes
<1>1. PlacesOf(x, k) /\ IsPart(x, k)
  BY FormPlaces
<1>2. s \in Nat /\ e \in Nat /\ n \in Nat /\ e = s + n
  BY <1>1, Zenon DEF PlacesOf
<1>3. Holds(f, e, mark)
  <2>1. Holds(f, e, mark \o x.boundary)
    BY <1>1, Zenon DEF IsPart
  <2>2. mark \in Seq(Nat) /\ x.boundary \in Seq(Nat)
    BY MarkFacts DEF IsForm, FormTypes
  <2> HIDE DEF mark, e
  <2> QED
    BY <1>2, <2>1, <2>2, HoldsBoth
<1>4. /\ Len(mark) = 4 /\ mark[1] = CR /\ mark[2] = LF /\ mark[3] = Dash /\ mark[4] = Dash
  BY MarkFacts, Zenon
<1>5. Holds(f, s, c) /\ \A a \in Nat : ~Holds(c, a, mark)
  BY <1>1, Zenon DEF IsPart, IsForm, FormTypes, Clear
<1> HIDE DEF f, c, s, e, n, mark
<1>6. f[e + 1] = CR /\ f[e + 2] = LF /\ f[e + 3] = Dash
  BY <1>3, <1>4 DEF Holds
<1>7. ASSUME NEW b \in Nat, s <= b, b < e, Holds(f, b, mark) PROVE FALSE
  <2>1. f[b + 2] = LF /\ f[b + 3] = Dash /\ f[b + 4] = Dash
    BY <1>4, <1>7 DEF Holds
  <2>2. CASE b + 4 <= e
    <3> DEFINE a == b - s
    <3>1. a \in Nat /\ a + 4 <= n /\ s + a = b
      BY <1>2, <1>7, <2>2
    <3> HIDE DEF a
    <3>2. ASSUME NEW j \in 1..4 PROVE c[a + j] = mark[j]
      <4>1. a + j \in 1..n /\ s + (a + j) = b + j
        BY <1>2, <3>1
      <4>2. f[s + (a + j)] = c[a + j]
        BY <1>5, <4>1 DEF Holds, n
      <4>3. f[b + j] = mark[j]
        BY <1>4, <1>7 DEF Holds
      <4> QED
        BY <4>1, <4>2, <4>3
    <3>3. Holds(c, a, mark)
      BY <1>2, <1>4, <3>1, <3>2 DEF Holds, n
    <3> QED
      BY <1>5, <3>1, <3>3
  <2>3. CASE ~(b + 4 <= e)
    <3>1. b + 2 = e + 1 \/ b + 3 = e + 1 \/ b + 4 = e + 1
      BY <1>2, <1>7, <2>3
    <3> QED
      BY <1>6, <2>1, <3>1, Marks
  <2> QED
    BY <2>2, <2>3
<1> QED
  BY <1>3, <1>6, <1>7, Zenon DEF EndsHere, f, s, e, mark

\* How much of the buffer is content for sure: all there is of it, if the mark after it
\* has arrived; otherwise all but the last characters that may begin a mark.
IsSure(z, f, at, got, e) ==
    /\ z \in Nat /\ at + z <= got /\ at + z <= e
    /\ \/ at + z = e /\ e + 4 <= got
       \/ got < e + 4 /\ \A i \in 1..(got - at) : i > z => InEnd(f[at + i])

\* What is taken for content is no more than the content.
LEMMA SureFacts ==
    ASSUME NEW f \in Seq(Nat), NEW s \in Nat, NEW e \in Nat, EndsHere(f, s, e),
           NEW at \in Nat, s <= at, at <= e, NEW got \in Nat, at <= got, got <= Len(f)
    PROVE  IsSure(Sure(Window(f, at, got)), f, at, got, e)
<1> DEFINE w == Window(f, at, got)
           mark == CRLF \o Dashes
           found == Find(w, mark)
           kept == {i \in DOMAIN w : w[i] \notin {CR, LF, Dash}}
           high == CHOOSE i \in kept : \A j \in kept : j <= i
           z == Sure(w)
<1>1. IsWindow(w, f, at, got, Nat)
  BY WindowFacts, Zenon
<1>2. FoundOrNot(found, at, e, got, 4)
  <2>1. mark \in Seq(Nat) /\ Len(mark) = 4
    BY MarkFacts, Zenon
  <2>2. Holds(f, e, mark) /\ \A b \in Nat : s <= b /\ b < e => ~Holds(f, b, mark)
    BY Zenon DEF EndsHere
  <2>3. \A b \in Nat : at <= b /\ b < e => ~Holds(f, b, mark)
    <3> HIDE DEF mark
    <3> QED
      BY <2>2
  <2> HIDE DEF mark
  <2> QED
    BY <2>1, <2>2, <2>3, FindAt, Zenon DEF mark
<1>3. z = IF found # 0 THEN found - 1 ELSE IF kept = {} THEN 0 ELSE high
  BY Zenon DEF Sure
<1> HIDE DEF w, found, z
<1>4. DOMAIN w = 1..(got - at) /\ \A i \in 1..(got - at) : w[i] = f[at + i]
  <2>1. w \in Seq(Nat) /\ Len(w) = got - at /\ \A i \in 1..(got - at) : w[i] = f[at + i]
    BY <1>1, Zenon DEF IsWindow
  <2> QED
    BY <2>1, LenProperties
<1>5. CASE e + 4 <= got
  <2>1. found = (e - at) + 1
    BY <1>2, <1>5 DEF FoundOrNot
  <2>2. z = e - at
    <3>1. found # 0 /\ found - 1 = e - at
      BY <2>1
    <3> HIDE DEF kept, high
    <3>2. z = found - 1
      BY <1>3, <3>1, Zenon
    <3> QED
      BY <3>1, <3>2
  <2>3. IsSure(z, f, at, got, e)
    BY <1>5, <2>2 DEF IsSure
  <2> QED
    BY <2>3, Zenon DEF z, w
<1>6. CASE ~(e + 4 <= got)
  <2>1. z = IF kept = {} THEN 0 ELSE high
    <3> HIDE DEF kept, high
    <3> QED
      BY <1>2, <1>3, <1>6 DEF FoundOrNot
  <2>2. \A i : i \in kept <=> i \in 1..(got - at) /\ ~InEnd(f[at + i])
    BY <1>4 DEF InEnd
  <2>3. CASE kept = {}
    <3>1. z = 0
      BY <2>1, <2>3
    <3>2. \A i \in 1..(got - at) : InEnd(f[at + i])
      BY <2>2, <2>3
    <3>3. 0 \in Nat /\ at + 0 <= got /\ at + 0 <= e /\ got < e + 4
      BY <1>6
    <3>4. IsSure(0, f, at, got, e)
      BY <3>2, <3>3, Zenon DEF IsSure
    <3> QED
      BY <3>1, <3>4, Zenon DEF z, w
  <2>4. CASE kept # {}
    <3>1. \E i \in kept : \A j \in kept : j <= i
      <4> DEFINE back == {n \in Nat : \E i \in kept : n = (got - at) - i}
      <4>0. \A i \in kept : i \in 1..(got - at)
        BY <2>2
      <4> HIDE DEF kept
      <4>1. \A i \in kept : (got - at) - i \in back
        BY <4>0
      <4>2. back \in SUBSET Nat /\ back # {}
        BY <2>4, <4>1
      <4>3. PICK n \in back : \A m \in back : n <= m
        <5> HIDE DEF back
        <5> QED
          BY <4>2, Reading!Least
      <4>4. PICK i \in kept : n = (got - at) - i
        BY <4>3
      <4>5. ASSUME NEW j \in kept PROVE j <= i
        <5>1. n <= (got - at) - j
          BY <4>1, <4>3
        <5>2. i \in 1..(got - at) /\ j \in 1..(got - at)
          BY <4>0
        <5> QED
          BY <4>4, <5>1, <5>2
      <4> QED
        BY <4>5
    <3>2. high \in kept /\ \A j \in kept : j <= high
      <4> HIDE DEF kept
      <4> QED
        BY <3>1
    <3>3. z = high
      BY <2>1, <2>4
    <3>4. z \in kept /\ \A j \in kept : j <= z
      BY <3>2, <3>3
    <3> HIDE DEF kept, high
    <3>5. z \in 1..(got - at) /\ ~InEnd(f[at + z])
      BY <2>2, <3>4
    <3>6. at + z <= e
      <4> SUFFICES ASSUME at + z > e PROVE FALSE
        BY <3>5
      <4>1. at + z = e + 1 \/ at + z = e + 2 \/ at + z = e + 3
        BY <1>6, <3>5
      <4>2. f[e + 1] = CR /\ f[e + 2] = LF /\ f[e + 3] = Dash
        BY DEF EndsHere
      <4>3. f[at + z] = CR \/ f[at + z] = LF \/ f[at + z] = Dash
        BY <4>1, <4>2
      <4> QED
        BY <3>5, <4>3 DEF InEnd
    <3>7. ASSUME NEW i \in 1..(got - at), i > z PROVE InEnd(f[at + i])
      <4>1. i \notin kept
        BY <3>4, <3>5, <3>7
      <4> QED
        BY <2>2, <4>1
    <3>8. IsSure(z, f, at, got, e)
      BY <1>6, <3>5, <3>6, <3>7 DEF IsSure
    <3> QED
      BY <3>8, Zenon DEF z, w
  <2> QED
    BY <2>3, <2>4
<1> QED
  BY <1>5, <1>6

\* What may begin a mark is never as long as a boundary with its mark.
LEMMA TailIsShort ==
    ASSUME NEW x, IsForm(x), NEW k \in 1..Contents(x), NEW at \in Nat, NEW got \in Nat,
           Starting(x, k) <= at, NEW z, IsSure(z, x.form, at, got, Ending(x, k)),
           ~(at + z = Ending(x, k) /\ Ending(x, k) + 4 <= got)
    PROVE  got < (at + z) + 4 + Len(x.boundary)
<1> DEFINE f == x.form
           c == x.contents[k]
           s == Starting(x, k)
           e == Ending(x, k)
           n == Len(c)
           b == Len(x.boundary)
           a == (at + z) - s
<1>1. PlacesOf(x, k) /\ IsPart(x, k)
  BY FormPlaces
<1>2. s \in Nat /\ e \in Nat /\ n \in Nat /\ e = s + n /\ b \in Nat
  BY <1>1, Zenon DEF PlacesOf
<1>3. Holds(f, s, c)
  BY <1>1, Zenon DEF IsPart
<1>4. \A y \in Nat : y + b < n => \E i \in 1..(b + 1) : ~InEnd(c[y + i])
  BY Zenon DEF IsForm, FormTypes, Clear
<1>5. s <= at
  OBVIOUS
<1>6. /\ z \in Nat /\ at + z <= e /\ got < e + 4
      /\ \A i \in 1..(got - at) : i > z => InEnd(f[at + i])
  BY Zenon DEF IsSure
<1> HIDE DEF f, c, s, e, n, b
<1>12. SUFFICES got < (at + z) + 4 + b
  BY DEF b
<1>13. SUFFICES ASSUME got >= (at + z) + 4 + b PROVE FALSE
  BY <1>2, <1>6
<1>7. a \in Nat /\ a + b < n /\ s + a = at + z
  BY <1>2, <1>5, <1>6, <1>13
<1> HIDE DEF a
<1>8. PICK i \in 1..(b + 1) : ~InEnd(c[a + i])
  BY <1>4, <1>7
<1>9. a + i \in 1..n /\ s + (a + i) = at + (z + i) /\ z + i \in 1..(got - at) /\ z + i > z
  BY <1>2, <1>6, <1>7, <1>13
<1>10. f[s + (a + i)] = c[a + i]
  BY <1>3, <1>9 DEF Holds, n
<1>11. InEnd(f[at + (z + i)])
  BY <1>6, <1>9
<1> QED
  BY <1>8, <1>9, <1>10, <1>11

\* More of a content is read.
LEMMA ReadingMore ==
    ASSUME NEW x, IsForm(x), NEW k \in 1..Contents(x), NEW parts, NEW m \in Nat, NEW z \in Nat,
           m + z <= Len(x.contents[k]), IsReading(x, parts, k, m)
    PROVE  IsReading(x, [parts EXCEPT ![Len(parts)] =
                            @ \o Window(x.form, Starting(x, k) + m, Starting(x, k) + m + z)],
                     k, m + z)
<1> DEFINE f == x.form
           c == x.contents[k]
           s == Starting(x, k)
           n == Len(c)
           to == m + z
           w == Window(f, s + m, s + m + z)
           e == parts[k] \o w
           t == [parts EXCEPT ![k] = e]
<1>1. PlacesOf(x, k) /\ IsPart(x, k)
  BY FormPlaces
<1>2. s \in Nat /\ n \in Nat /\ f \in Seq(Nat) /\ Len(f) \in Nat /\ c \in Seq(Nat)
  BY <1>1, Zenon DEF PlacesOf
<1>3. Holds(f, s, c)
  BY <1>1, Zenon DEF IsPart
<1>4. /\ parts \in Seq(Seq(Nat)) /\ Len(parts) = k
      /\ \A j \in 1..(k - 1) : parts[j] = x.contents[j]
      /\ parts[k] = Window(c, 0, m)
  BY Zenon DEF IsReading
<1>5. k \in Nat /\ k \in 1..k
  BY DEF IsForm, FormTypes, Contents
<1>6. m + z <= n
  OBVIOUS
<1> HIDE DEF f, c, s, n
<1>7. s + n <= Len(f) /\ \A j \in 1..n : f[s + j] = c[j]
  BY <1>3 DEF Holds, n
<1>8. w = Window(c, m, to)
  <2> DEFINE a == s + m
             g == s + m + z
  <2>1. /\ a \in Nat /\ g \in Nat /\ a <= g /\ g <= Len(f) /\ g - a = to - m
        /\ to \in Nat /\ m <= to /\ to <= n
    BY <1>2, <1>6, <1>7
  <2>2. IsWindow(w, f, a, g, Nat)
    <3> HIDE DEF a, g
    <3>1. IsWindow(Window(f, a, g), f, a, g, Nat)
      BY <1>2, <2>1, WindowFacts
    <3> QED
      BY <3>1 DEF a, g
  <2> HIDE DEF w, to
  <2>3. w \in Seq(Nat) /\ Len(w) = to - m /\ \A j \in 1..(to - m) : w[j] = f[a + j]
    <3> HIDE DEF a, g
    <3> QED
      BY <2>1, <2>2 DEF IsWindow
  <2>4. ASSUME NEW j \in 1..(to - m) PROVE w[j] = c[m + j]
    <3>1. m + j \in 1..n /\ s + (m + j) = a + j
      BY <1>2, <2>1
    <3> QED
      BY <1>7, <2>3, <3>1
  <2>5. IsWindow(w, c, m, to, Nat)
    BY <2>3, <2>4, Zenon DEF IsWindow
  <2>6. SameWindow(w, c, m, to)
    BY <1>2, <2>1, <2>5, WindowIs DEF n
  <2> QED
    BY <2>6, Zenon DEF SameWindow
<1>9. to \in Nat /\ 0 <= m /\ m <= to /\ to <= n /\ 0 \in Nat
  BY <1>6
<1>10. e = Window(c, 0, to)
  <2> HIDE DEF to, w
  <2>1. IsCut(c, 0, m, to)
    BY <1>2, <1>9, WindowCut DEF n
  <2> QED
    BY <1>4, <1>8, <2>1, Zenon DEF IsCut
<1>11. e \in Seq(Nat)
  <2> HIDE DEF to, e
  <2>1. IsWindow(Window(c, 0, to), c, 0, to, Nat)
    BY <1>2, <1>9, WindowFacts DEF n
  <2> QED
    BY <1>10, <2>1, Zenon DEF IsWindow
<1> HIDE DEF e, to
<1>12. /\ t \in Seq(Seq(Nat)) /\ Len(t) = k
       /\ \A j \in 1..k : t[j] = IF j = k THEN e ELSE parts[j]
  <2>1. k \in 1..Len(parts)
    BY <1>4, <1>5
  <2>2. /\ t \in Seq(Seq(Nat)) /\ Len(t) = Len(parts)
        /\ \A j \in 1..Len(parts) : t[j] = IF j = k THEN e ELSE parts[j]
    BY <1>4, <1>11, <2>1, ExceptSeq
  <2> HIDE DEF t
  <2> QED
    BY <1>4, <2>2
<1>13. t = [parts EXCEPT ![Len(parts)] = @ \o w]
  <2>1. t = [parts EXCEPT ![Len(parts)] = e]
    BY <1>4
  <2> QED
    BY <1>4, <2>1 DEF e
<1> HIDE DEF t, w
<1>14. t[k] = e /\ \A j \in 1..(k - 1) : t[j] = x.contents[j]
  <2>1. t[k] = e
    BY <1>5, <1>12
  <2>2. ASSUME NEW j \in 1..(k - 1) PROVE t[j] = x.contents[j]
    <3>1. j \in 1..k /\ j # k
      BY <1>5
    <3> QED
      BY <1>4, <1>12, <3>1
  <2> QED
    BY <2>1, <2>2
<1>15. IsReading(x, t, k, to)
  BY <1>10, <1>12, <1>14, Zenon DEF IsReading, c
<1> QED
  BY <1>13, <1>15, Zenon DEF t, w, to, f, s

\* A content that is read to its end.
LEMMA ReadingEnds ==
    ASSUME NEW x, IsForm(x), NEW k \in 1..Contents(x), NEW parts,
           IsReading(x, parts, k, Len(x.contents[k]))
    PROVE  HasRead(x, parts, k)
<1> DEFINE c == x.contents[k]
           n == Len(c)
<1>1. c \in Seq(Nat) /\ n \in Nat
  BY FormPlaces, Zenon DEF PlacesOf
<1>2. /\ parts \in Seq(Seq(Nat)) /\ Len(parts) = k
      /\ \A j \in 1..(k - 1) : parts[j] = x.contents[j]
      /\ parts[k] = Window(c, 0, n)
  BY Zenon DEF IsReading
<1>3. k \in Nat
  BY DEF IsForm, FormTypes, Contents
<1>4. parts[k] = c
  <2> HIDE DEF c
  <2>1. IsWindow(c, c, 0, n, Nat)
    BY <1>1 DEF IsWindow
  <2>2. SameWindow(c, c, 0, n)
    <3>1. 0 \in Nat /\ 0 <= n /\ n <= Len(c)
      BY <1>1
    <3> QED
      BY <1>1, <2>1, <3>1, WindowIs
  <2> QED
    BY <1>2, <2>2, Zenon DEF SameWindow
<1>5. ASSUME NEW j \in 1..k PROVE parts[j] = x.contents[j]
  <2>1. CASE j = k
    BY <1>4, <2>1
  <2>2. CASE j # k
    <3>1. j \in 1..(k - 1)
      BY <1>3, <2>2
    <3> QED
      BY <1>2, <3>1
  <2> QED
    BY <2>1, <2>2
<1> QED
  BY <1>2, <1>5, Zenon DEF HasRead

\* Bytes of a content go to the content callback.
LEMMA ContentTo ==
    ASSUME NEW x, IsForm(x), NEW p, NEW at, NEW k, NEW got, StandsAt(x, p, at, k, got),
           p.state = "body", NEW z \in Nat, at + z <= got, at + z <= Ending(x, k)
    PROVE  /\ StandsAt(x, Content(p, z), at + z, k, got)
           /\ Content(p, z).state = "body" /\ Content(p, z).going = p.going
<1> DEFINE f == x.form
           s == Starting(x, k)
           e == Ending(x, k)
           n == Len(x.contents[k])
           m == at - s
           w == Window(f, at, at + z)
           longer == [p.parts EXCEPT ![Len(p.parts)] = @ \o SubSeq(p.buf, 1, z)]
           q == Content(p, z)
<1>1. s <= at /\ at <= e /\ IsReading(x, p.parts, k, m)
  BY DEF StandsAt, InState
<1>2. /\ at \in Nat /\ got \in Nat /\ at <= got /\ got <= Len(f)
      /\ p.buf = Window(f, at, got) /\ k \in 1..Contents(x)
  BY DEF StandsAt
<1>3. s \in Nat /\ e \in Nat /\ n \in Nat /\ e = s + n /\ f \in Seq(Nat) /\ Len(f) \in Nat
  BY <1>2, FormPlaces, Zenon DEF PlacesOf
<1>4. IsParser(q, p.state, From(p.buf, z + 1), longer, p.valid, p.going)
  BY ParserFields, Zenon DEF Content
<1>5. at + z <= got /\ at + z <= e
  OBVIOUS
<1> HIDE DEF q
<1>6. SubSeq(p.buf, 1, z) = w
  <2> DEFINE b == at + z
  <2>1. b \in Nat /\ at <= b /\ b <= got /\ b - at = z
    BY <1>2, <1>5
  <2> HIDE DEF b, f
  <2>2. IsCut(f, at, b, got)
    BY <1>2, <1>3, <2>1, WindowCut, Zenon
  <2>3. SubSeq(Window(f, at, got), 1, b - at) = Window(f, at, b)
    BY <2>2, Zenon DEF IsCut
  <2> QED
    BY <1>2, <2>1, <2>3 DEF b
<1>7. m \in Nat /\ m + z <= n /\ s + m = at /\ s + m + z = at + z /\ (at + z) - s = m + z
  <2> HIDE DEF s, e, n
  <2> QED
    BY <1>1, <1>2, <1>3, <1>5
<1>8. IsReading(x, longer, k, (at + z) - s)
  <2> HIDE DEF m
  <2>1. IsReading(x, [p.parts EXCEPT ![Len(p.parts)] = @ \o Window(f, s + m, s + m + z)], k, m + z)
    BY <1>1, <1>2, <1>7, ReadingMore, Zenon
  <2> HIDE DEF s
  <2> QED
    BY <1>6, <1>7, <2>1, Zenon
<1> HIDE DEF longer
<1>9. q.state = "body" /\ q.parts = longer /\ q.going = p.going
  BY <1>4, Zenon DEF IsParser
<1>10. InState(x, q, at + z, k)
  <2>1. s <= at + z
    <3> HIDE DEF s
    <3> QED
      BY <1>1, <1>2, <1>3
  <2> QED
    BY <1>5, <1>8, <1>9, <2>1, Zenon DEF InState
<1>11. StandsAt(x, q, at + z, k, got)
  BY <1>2, <1>3, <1>4, <1>5, <1>10, ErasedTo
<1> QED
  BY <1>9, <1>11, Zenon DEF q

\* How much of the text is in the buffer.
LEMMA BufferLength ==
    ASSUME NEW x, IsForm(x), NEW p, NEW at, NEW k, NEW got, StandsAt(x, p, at, k, got)
    PROVE  Len(p.buf) + at = got /\ at \in Nat /\ got \in Nat /\ Len(p.buf) \in Nat
<1>1. /\ at \in Nat /\ got \in Nat /\ at <= got /\ got <= Len(x.form)
      /\ p.buf = Window(x.form, at, got)
  BY DEF StandsAt
<1>2. x.form \in Seq(Nat)
  BY DEF IsForm, FormTypes
<1>3. IsWindow(p.buf, x.form, at, got, Nat)
  BY <1>1, <1>2, WindowFacts, Zenon
<1>4. Len(p.buf) = got - at
  BY <1>3, Zenon DEF IsWindow
<1> QED
  BY <1>1, <1>4

\* A content, and the boundary after it.
LEMMA RoundBody ==
    ASSUME NEW x, IsForm(x), NEW p, NEW at, NEW k, NEW got, StandsAt(x, p, at, k, got),
           p.state = "body"
    PROVE  MovesOn(x, p, Body(p, x.boundary), at, k, got)
<1> DEFINE f       == x.form
           s       == Starting(x, k)
           e       == Ending(x, k)
           b       == Len(x.boundary)
           mark    == CRLF \o Dashes
           pattern == mark \o x.boundary
           m       == Len(pattern)
           z       == Sure(p.buf)
           to      == at + z
           q       == Content(p, z)
           end     == Find(q.buf, pattern)
           r       == Erase(Content(q, end - 1), m, "boundary")
           again   == Content(q, m)
<1>1. s <= at /\ at <= e
  BY DEF StandsAt, InState
<1>2. /\ at \in Nat /\ got \in Nat /\ at <= got /\ got <= Len(f)
      /\ p.buf = Window(f, at, got) /\ k \in 1..Contents(x)
  BY DEF StandsAt
<1>3. PlacesOf(x, k) /\ IsPart(x, k)
  BY <1>2, FormPlaces
<1>4. /\ f \in Seq(Nat) /\ Len(f) \in Nat /\ s \in Nat /\ e \in Nat /\ b \in Nat
      /\ Final(x, k) = e + 4 + b /\ e + 4 + b < Len(f) /\ e = s + Len(x.contents[k])
  <2> DEFINE l == Len(f)
             n == Final(x, k)
  <2>1. /\ f \in Seq(Nat) /\ l \in Nat /\ s \in Nat /\ e \in Nat /\ b \in Nat /\ n \in Nat
        /\ n = e + 4 + b /\ n + 2 <= l /\ e = s + Len(x.contents[k])
    BY <1>3, Zenon DEF PlacesOf
  <2> HIDE DEF l, n, f, s, e, b
  <2>2. e + 4 + b < l
    BY <2>1
  <2> QED
    BY <2>1, <2>2 DEF l, n
<1>5. mark \in Seq(Nat) /\ Len(mark) = 4 /\ pattern \in Seq(Nat) /\ m = b + 4
  <2>1. x.boundary \in Seq(Nat)
    BY DEF IsForm, FormTypes
  <2> QED
    BY <2>1, MarkLengths, Zenon
<1>6. Holds(f, e, pattern)
  BY <1>3, Zenon DEF IsPart
<1>7. Body(p, x.boundary) =
          CASE Len(p.buf) < Len(mark) -> Stop(p)
            [] ~(Len(p.buf) < Len(mark)) /\ Len(q.buf) < m -> Stop(q)
            [] ~(Len(p.buf) < Len(mark)) /\ ~(Len(q.buf) < m) /\ end = 0 -> again
            [] OTHER -> r
  BY Zenon DEF Body, Lacks
<1>8. Len(p.buf) + at = got /\ Len(p.buf) \in Nat
  BY BufferLength
<1>9. IsSure(z, f, at, got, e)
  <2>1. EndsHere(f, s, e)
    BY <1>2, ContentEnds
  <2> HIDE DEF f, s, e
  <2>2. IsSure(Sure(Window(f, at, got)), f, at, got, e)
    BY <1>1, <1>2, <1>4, <2>1, SureFacts
  <2> QED
    BY <1>2, <2>2
<1>10. z \in Nat /\ to <= got /\ to <= e /\ to \in Nat
  <2> HIDE DEF z
  <2>1. z \in Nat /\ at + z <= got /\ at + z <= e
    BY <1>9, Zenon DEF IsSure
  <2> QED
    BY <1>2, <2>1
<1>11. StandsAt(x, q, to, k, got) /\ q.state = "body" /\ q.going = p.going
  <2> HIDE DEF z
  <2> QED
    BY <1>10, ContentTo
<1>12. Len(q.buf) + to = got /\ Len(q.buf) \in Nat
  <2> HIDE DEF q, to
  <2> QED
    BY <1>11, BufferLength
<1>13. ASSUME ~(to = e /\ e + 4 <= got) PROVE got < to + 4 + b
  <2> HIDE DEF z
  <2>1. IsSure(z, x.form, at, got, Ending(x, k)) /\ Starting(x, k) <= at
    BY <1>1, <1>9
  <2> QED
    BY <1>2, <1>13, <2>1, TailIsShort
<1> HIDE DEF f, s, e, b, mark, pattern, m, z, q, end, r, again
<1>14. CASE Len(p.buf) < Len(mark)
  <2>1. Body(p, x.boundary) = Stop(p)
    BY <1>7, <1>14
  <2>2. got < Len(f)
    BY <1>1, <1>2, <1>4, <1>5, <1>8, <1>14
  <2> QED
    BY <2>1, <2>2, StopsHere, Zenon DEF f
<1>15. CASE ~(Len(p.buf) < Len(mark)) /\ Len(q.buf) < m
  <2>1. Body(p, x.boundary) = Stop(q)
    BY <1>7, <1>15
  <2>2. got < Len(f)
    <3> HIDE DEF to
    <3> QED
      BY <1>2, <1>4, <1>5, <1>10, <1>12, <1>15
  <2>3. MovesOn(x, q, Stop(q), to, k, got)
    <3> HIDE DEF to
    <3> QED
      BY <1>11, <2>2, StopsHere DEF f
  <2>4. ~Stop(q).going
    <3>1. IsParser(Stop(q), q.state, q.buf, q.parts, q.valid, FALSE)
      BY ParserFields, Zenon DEF Stop
    <3> QED
      BY <3>1 DEF IsParser
  <2>5. MovesOn(x, p, Stop(q), at, k, got)
    BY <2>3, <2>4, Zenon DEF MovesOn
  <2> QED
    BY <2>1, <2>5, Zenon
<1>16. CASE ~(Len(p.buf) < Len(mark)) /\ ~(Len(q.buf) < m)
  <2>1. to = e
    <3> HIDE DEF to
    <3>1. ~(got < to + 4 + b)
      BY <1>2, <1>4, <1>5, <1>10, <1>12, <1>16
    <3> QED
      BY <1>13, <3>1
  <2>2. q.buf = Window(f, e, got) /\ e <= got /\ e + m <= got
    <3>1. q.buf = Window(f, to, got)
      BY <1>11 DEF StandsAt, f
    <3>2. m \in Nat
      BY <1>4, <1>5
    <3> HIDE DEF to
    <3>3. e <= got /\ e + m <= got
      <4> DEFINE l == Len(q.buf)
      <4>1. l + e = got /\ l \in Nat /\ ~(l < m) /\ e \in Nat /\ got \in Nat /\ e <= got
        BY <1>2, <1>4, <1>10, <1>12, <1>16, <2>1, Zenon
      <4> HIDE DEF l
      <4> QED
        BY <3>2, <4>1
    <3> QED
      BY <2>1, <3>1, <3>3, Zenon
  <2>3. FoundOrNot(end, e, e, got, m)
    <3>1. e <= e /\ \A y \in Nat : ~(e <= y /\ y < e)
      BY <1>4
    <3>2. FoundOrNot(Find(Window(f, e, got), pattern), e, e, got, Len(pattern))
      BY <1>2, <1>4, <1>5, <1>6, <2>2, <3>1, FindAt, Zenon
    <3> QED
      BY <2>2, <3>2, Zenon DEF end, m
  <2>4. end = 1
    BY <1>4, <2>2, <2>3 DEF FoundOrNot
  <2>5. Body(p, x.boundary) = r
    BY <1>7, <1>16, <2>4
  <2> DEFINE last == Content(q, 0)
  <2>6. r = Erase(last, m, "boundary")
    <3>1. end - 1 = 0
      BY <2>4
    <3> QED
      BY <3>1, Zenon DEF r
  <2>7. StandsAt(x, last, e, k, got) /\ last.state = "body"
    <3> HIDE DEF to
    <3>1. 0 \in Nat /\ to + 0 <= got /\ to + 0 <= Ending(x, k) /\ to + 0 = e
      BY <1>4, <2>1, <2>2 DEF e
    <3>2. StandsAt(x, last, to + 0, k, got) /\ last.state = "body"
      BY <1>11, <3>1, ContentTo
    <3> QED
      BY <3>1, <3>2
  <2> HIDE DEF last
  <2>8. IsParser(r, "boundary", From(last.buf, m + 1), last.parts, last.valid, last.going)
    BY <2>6, ParserFields, Zenon DEF Erase
  <2>9. HasRead(x, last.parts, k)
    <3>1. IsReading(x, last.parts, k, e - s)
      BY <2>7 DEF StandsAt, InState, s
    <3>2. e - s = Len(x.contents[k])
      <4> DEFINE n == Len(x.contents[k])
      <4>1. n \in Nat /\ e = s + n
        BY <1>3, <1>4, Zenon DEF PlacesOf
      <4> HIDE DEF n
      <4>2. e - s = n
        BY <1>4, <4>1
      <4> QED
        BY <4>2 DEF n
    <3> QED
      BY <1>2, <3>1, <3>2, ReadingEnds
  <2>10. InState(x, r, e + m, k)
    <3>1. r.state = "boundary" /\ r.parts = last.parts
      BY <2>8, Zenon DEF IsParser
    <3>2. e + m = Final(x, k)
      <4>1. e \in Nat /\ b \in Nat /\ m = b + 4 /\ Final(x, k) = e + 4 + b
        BY <1>4, <1>5, Zenon
      <4>2. e + (b + 4) = e + 4 + b
        BY <4>1
      <4> QED
        BY <4>1, <4>2, Zenon
    <3> QED
      BY <2>9, <3>1, <3>2, Zenon DEF InState
  <2>11. MovesOn(x, last, r, e, k, got)
    <3>1. m \in Nat /\ m >= 2
      BY <1>4, <1>5
    <3> QED
      BY <1>2, <1>4, <2>2, <2>7, <2>8, <2>10, <3>1, ErasedOn DEF f
  <2>12. PICK u, l : StandsAt(x, r, u, l, got) /\ (~r.going \/ u >= e + 2)
    BY <2>7, <2>11 DEF MovesOn
  <2>13. ~r.going \/ u >= at + 2
    <3>1. u \in Nat
      BY <2>12 DEF StandsAt
    <3> QED
      BY <1>1, <1>2, <1>4, <2>12, <3>1
  <2>14. MovesOn(x, p, r, at, k, got)
    BY <2>12, <2>13, Zenon DEF MovesOn
  <2> QED
    BY <2>5, <2>14, Zenon
<1> QED
  BY <1>14, <1>15, <1>16

\* A round, if there is text left and the parser has not stopped.
LEMMA AnyRound ==
    ASSUME NEW x, IsForm(x), NEW p, NEW at, NEW k, NEW got, StandsAt(x, p, at, k, got),
           p.going, at # got, NEW n
    PROVE  MovesOn(x, p, RunRound(x.boundary, p, n), at, k, got)
<1> DEFINE b == x.boundary
<1>1. p.buf # <<>>
  <2> DEFINE w == p.buf
  <2>1. Len(w) + at = got /\ at \in Nat
    BY BufferLength
  <2> HIDE DEF w
  <2>2. ASSUME w = <<>> PROVE FALSE
    <3>1. Len(w) = 0
      BY <2>2
    <3> QED
      BY <2>1, <3>1
  <2> QED
    BY <2>2 DEF w
<1>2. RunRound(b, p, n) = Step(p, b)
  BY <1>1, Zenon DEF RunRound
<1>3. InState(x, p, at, k)
  BY DEF StandsAt
<1>4. p.state # "done"
  <2>1. at \in Nat /\ got \in Nat /\ at <= got /\ got <= Len(x.form) /\ k \in 1..Contents(x)
    BY DEF StandsAt
  <2>2. at # Len(x.form)
    <3>1. Len(x.form) \in Nat
      BY <2>1, FormPlaces, Zenon DEF PlacesOf
    <3> QED
      BY <2>1, <3>1
  <2>3. ASSUME p.state = "done" PROVE FALSE
    BY <1>3, <2>2, <2>3 DEF InState
  <2> QED
    BY <2>3
<1>5. CASE p.state = "first"
  <2>1. Step(p, b) = FirstBoundary(p, b)
    BY <1>5 DEF Step
  <2> QED
    BY <1>2, <1>5, <2>1, RoundFirst, Zenon
<1>6. CASE p.state = "entry"
  <2>1. Step(p, b) = Erase(p, 0, "headers")
    BY <1>6 DEF Step
  <2> QED
    BY <1>2, <1>6, <2>1, RoundEntry, Zenon
<1>7. CASE p.state = "headers"
  <2>1. Step(p, b) = Header(p)
    BY <1>7 DEF Step
  <2> QED
    BY <1>2, <1>7, <2>1, RoundHeaders, Zenon
<1>8. CASE p.state = "body"
  <2>1. Step(p, b) = Body(p, b)
    BY <1>8 DEF Step
  <2> QED
    BY <1>2, <1>8, <2>1, RoundBody, Zenon
<1>9. CASE p.state = "boundary"
  <2>1. Step(p, b) = AfterBoundary(p)
    BY <1>9 DEF Step
  <2> QED
    BY <1>2, <1>9, <2>1, RoundBoundary, Zenon
<1> QED
  BY <1>3, <1>4, <1>5, <1>6, <1>7, <1>8, <1>9, Zenon DEF InState

\* Where the parser is after some rounds, if at most c are left; and when the loop ends.
Within(x, p, got, c) ==
    \E to, l, e : /\ StandsAt(x, p, to, l, got)
                  /\ \/ ~p.going \/ to = got
                     \/ e \in {0, 1} /\ (p.state = "entry" => e = 1) /\ 2 * (got - to) + e <= c
Settled(x, p, got) ==
    \E to, l : StandsAt(x, p, to, l, got) /\ (~p.going \/ to = got)

\* A round uses something up of what the loop is bounded by.
LEMMA OneLess ==
    ASSUME NEW x, IsForm(x), NEW p, NEW got, NEW c \in Int, Within(x, p, got, c), NEW n
    PROVE  Within(x, RunRound(x.boundary, p, n), got, c - 1)
<1> DEFINE q == RunRound(x.boundary, p, n)
<1>1. PICK at, k, e :
        /\ StandsAt(x, p, at, k, got)
        /\ \/ ~p.going \/ at = got
           \/ e \in {0, 1} /\ (p.state = "entry" => e = 1) /\ 2 * (got - at) + e <= c
  BY Zenon DEF Within
<1>2. CASE ~p.going \/ at = got
  <2>1. q = p
    <3>1. CASE ~p.going
      BY <3>1, Zenon DEF RunRound
    <3>2. CASE at = got
      <4> DEFINE w == p.buf
      <4>1. Len(w) + at = got /\ at \in Nat /\ got \in Nat /\ Len(w) \in Nat
        BY <1>1, BufferLength
      <4>2. w \in Seq(Nat)
        <5>1. /\ at \in Nat /\ got \in Nat /\ at <= got /\ got <= Len(x.form)
              /\ p.buf = Window(x.form, at, got)
          BY <1>1 DEF StandsAt
        <5>2. x.form \in Seq(Nat)
          BY DEF IsForm, FormTypes
        <5>3. IsWindow(p.buf, x.form, at, got, Nat)
          BY <5>1, <5>2, WindowFacts, Zenon
        <5> QED
          BY <5>3, Zenon DEF IsWindow
      <4> HIDE DEF w
      <4>3. Len(w) = 0
        BY <3>2, <4>1
      <4>4. w = <<>>
        BY <4>2, <4>3, EmptySeq
      <4> QED
        BY <4>4, Zenon DEF RunRound, w
    <3> QED
      BY <1>2, <3>1, <3>2
  <2> HIDE DEF q
  <2>2. Within(x, q, got, c - 1)
    BY <1>1, <1>2, <2>1, Zenon DEF Within
  <2> QED
    BY <2>2, Zenon DEF q
<1>3. CASE ~(~p.going \/ at = got)
  <2>1. MovesOn(x, p, q, at, k, got)
    BY <1>1, <1>3, AnyRound
  <2> HIDE DEF q
  <2>2. PICK to, l : /\ StandsAt(x, q, to, l, got)
                     /\ \/ ~q.going
                        \/ p.state = "entry" /\ q.state = "headers" /\ to = at
                        \/ to >= at + 2
    BY <2>1, Zenon DEF MovesOn
  <2>3. at \in Nat /\ got \in Nat
    BY <1>1 DEF StandsAt
  <2>4. to \in Nat
    BY <2>2 DEF StandsAt
  <2>5. e \in {0, 1} /\ (p.state = "entry" => e = 1) /\ 2 * (got - at) + e <= c
    BY <1>1, <1>3
  <2>6. CASE ~q.going
    BY <2>2, <2>6, Zenon DEF Within, q
  <2>7. CASE p.state = "entry" /\ q.state = "headers" /\ to = at
    <3>1. 2 * (got - to) + 0 <= c - 1
      BY <2>3, <2>5, <2>7
    <3>2. 0 \in {0, 1} /\ (q.state = "entry" => 0 = 1)
      BY <2>7
    <3>3. Within(x, q, got, c - 1)
      BY <2>2, <3>1, <3>2, Zenon DEF Within
    <3> QED
      BY <3>3, Zenon DEF q
  <2>8. CASE to >= at + 2
    <3>1. 2 * (got - to) + 1 <= c - 1
      BY <2>3, <2>4, <2>5, <2>8
    <3>2. 1 \in {0, 1} /\ (q.state = "entry" => 1 = 1)
      OBVIOUS
    <3>3. Within(x, q, got, c - 1)
      BY <2>2, <3>1, <3>2, Zenon DEF Within
    <3> QED
      BY <3>3, Zenon DEF q
  <2> QED
    BY <2>2, <2>6, <2>7, <2>8
<1> QED
  BY <1>2, <1>3

\* The loop ends when it is to.
LEMMA RunSettles ==
    ASSUME NEW x, IsForm(x), NEW p, NEW at, NEW k, NEW got, StandsAt(x, p, at, k, got)
    PROVE  Settled(x, Run(p, x.boundary), got)
<1> DEFINE b == x.boundary
           m == 2 * Len(p.buf) + 1
           y == Parsing!Rounds(b, p)
           Good == {i \in Nat : Within(x, y[i], got, m - i)}
<1>1. /\ y[0] = p
      /\ \A i \in Nat : y[i + 1] = RunRound(b, y[i], i + 1)
      /\ \A i \in Nat : y[i] = Parsing!Loop(b, p, i)
  BY Parsing!RoundsNext
<1>2. Len(p.buf) + at = got /\ at \in Nat /\ got \in Nat /\ Len(p.buf) \in Nat
  BY BufferLength
<1>3. m \in Nat /\ m - 0 = m /\ 2 * (got - at) + 1 <= m
  <2> DEFINE l == Len(p.buf)
  <2>1. l + at = got /\ at \in Nat /\ got \in Nat /\ l \in Nat
    BY <1>2
  <2>2. m = 2 * l + 1
    OBVIOUS
  <2> HIDE DEF l, m
  <2> QED
    BY <2>1, <2>2
<1>4. Run(p, b) = y[m + 1]
  <2>1. m + 1 = 2 * Len(p.buf) + 2 /\ m + 1 \in Nat
    <3> DEFINE l == Len(p.buf)
    <3>1. l \in Nat
      BY <1>2
    <3> HIDE DEF l
    <3> QED
      BY <3>1
  <2>2. y[m + 1] = Parsing!Loop(b, p, m + 1)
    <3> HIDE DEF m, y
    <3> QED
      BY <1>1, <2>1
  <2> HIDE DEF m, y
  <2> QED
    BY <2>1, <2>2, Zenon DEF Run
<1> HIDE DEF y, m
<1>5. 0 \in Good
  <2>1. Within(x, y[0], got, m - 0)
    <3>1. 1 \in {0, 1} /\ (p.state = "entry" => 1 = 1)
      OBVIOUS
    <3>2. Within(x, p, got, m)
      BY <1>3, <3>1, Zenon DEF Within
    <3> QED
      BY <1>1, <1>3, <3>2
  <2> QED
    BY <2>1
<1>6. ASSUME NEW i \in Nat, i \in Good PROVE i + 1 \in Good
  <2>1. Within(x, y[i], got, m - i) /\ m - i \in Int /\ (m - i) - 1 = m - (i + 1)
    BY <1>3, <1>6
  <2>2. Within(x, RunRound(b, y[i], i + 1), got, (m - i) - 1)
    <3> HIDE DEF b
    <3> QED
      BY <2>1, OneLess DEF b
  <2>3. Within(x, y[i + 1], got, m - (i + 1))
    BY <1>1, <2>1, <2>2
  <2> QED
    BY <2>3
<1>7. m + 1 \in Good
  <2>1. m + 1 \in Nat
    BY <1>3
  <2> HIDE DEF Good
  <2> QED
    BY <1>5, <1>6, <2>1, Parsing!Induction
<1> DEFINE q == y[m + 1]
<1>8. Within(x, q, got, m - (m + 1))
  BY <1>7
<1> HIDE DEF q
<1>9. PICK to, l, e :
        /\ StandsAt(x, q, to, l, got)
        /\ \/ ~q.going \/ to = got
           \/ e \in {0, 1} /\ 2 * (got - to) + e <= m - (m + 1)
  BY <1>8, Zenon DEF Within
<1>10. ~(e \in {0, 1} /\ 2 * (got - to) + e <= m - (m + 1))
  <2>1. to \in Nat /\ got \in Nat /\ to <= got
    BY <1>9 DEF StandsAt
  <2> QED
    BY <1>3, <2>1
<1>11. Settled(x, q, got)
  BY <1>9, <1>10, Zenon DEF Settled
<1> QED
  BY <1>4, <1>11, Zenon DEF q

\* One more piece of the text.
LEMMA PieceArrives ==
    ASSUME NEW x, IsForm(x), NEW p, NEW at, NEW k, NEW got, StandsAt(x, p, at, k, got),
           NEW piece \in Seq(Nat), Holds(x.form, got, piece)
    PROVE  Settled(x, Parse(p, piece, x.boundary), got + Len(piece))
<1> DEFINE f == x.form
           m == Len(piece)
           g == got + m
           q == Parser(p.state, p.buf \o piece, p.parts, p.valid, TRUE)
<1>1. /\ at \in Nat /\ got \in Nat /\ at <= got /\ got <= Len(f)
      /\ p.buf = Window(f, at, got) /\ k \in 1..Contents(x) /\ InState(x, p, at, k)
  BY DEF StandsAt
<1>2. f \in Seq(Nat) /\ Len(f) \in Nat /\ m \in Nat
  BY LenProperties DEF IsForm, FormTypes
<1>3. Holds(f, got, piece)
  OBVIOUS
<1>4. IsParser(q, p.state, p.buf \o piece, p.parts, p.valid, TRUE)
  BY ParserFields, Zenon
<1> HIDE DEF f, q
<1>5. g \in Nat /\ got <= g /\ g <= Len(f) /\ at <= g /\ g - got = m
  BY <1>1, <1>2, <1>3 DEF Holds
<1>6. piece = Window(f, got, g)
  <2>1. \A j \in 1..m : piece[j] = f[got + j]
    BY <1>3 DEF Holds
  <2> HIDE DEF g
  <2>2. IsWindow(piece, f, got, g, Nat)
    BY <1>5, <2>1, Zenon DEF IsWindow, m
  <2>3. SameWindow(piece, f, got, g)
    BY <1>1, <1>2, <1>5, <2>2, WindowIs
  <2> QED
    BY <2>3, Zenon DEF SameWindow
<1> HIDE DEF m, g
<1>7. p.buf \o piece = Window(f, at, g)
  <2>1. IsCut(f, at, got, g)
    BY <1>1, <1>2, <1>5, WindowCut
  <2> QED
    BY <1>1, <1>6, <2>1, Zenon DEF IsCut
<1>8. /\ q.state = p.state /\ q.buf = Window(f, at, g) /\ q.parts = p.parts
      /\ q.valid = p.valid /\ q.going = TRUE
  BY <1>4, <1>7, Zenon DEF IsParser
<1>9. StandsAt(x, q, at, k, g)
  <2>1. InState(x, q, at, k)
    BY <1>1, <1>8 DEF InState
  <2> QED
    BY <1>1, <1>5, <1>8, <2>1 DEF StandsAt, f
<1>10. Settled(x, Run(q, x.boundary), g)
  BY <1>9, RunSettles
<1> QED
  BY <1>10, Zenon DEF Parse, q, g, m

\* The parser is done, and has these contents.
IsParsed(p, contents) == p.valid = TRUE /\ p.parts = contents

\* A parser that has settled when all of the form has arrived is done with it.
LEMMA AllParsed ==
    ASSUME NEW x, IsForm(x), NEW p, Settled(x, p, Len(x.form))
    PROVE  IsParsed(p, x.contents)
<1> DEFINE l == Len(x.form)
           n == Contents(x)
<1>1. PICK at, k : StandsAt(x, p, at, k, l) /\ (~p.going \/ at = l)
  BY Zenon DEF Settled
<1>2. /\ k \in 1..n /\ InState(x, p, at, k) /\ p.going \in BOOLEAN /\ (~p.going => l < l)
  BY <1>1 DEF StandsAt
<1>3. PlacesOf(x, k)
  BY <1>2, FormPlaces
<1> DEFINE a == x.places[k]
           h == Len(x.header)
           s == Starting(x, k)
           c == Len(x.contents[k])
           e == Ending(x, k)
           b == Len(x.boundary)
           z == Final(x, k)
<1>4. /\ l \in Nat /\ a \in Nat /\ h \in Nat /\ s \in Nat /\ c \in Nat /\ e \in Nat /\ b \in Nat
      /\ z \in Nat /\ s = a + h + 4 /\ e = s + c /\ z = e + 4 + b /\ z + 2 <= l
  BY <1>3, Zenon DEF PlacesOf
<1>5. at = l
  <2> HIDE DEF l
  <2> QED
    BY <1>1, <1>2, <1>4
<1>6. at # 0 /\ at # a /\ at # a + h + 2 /\ ~(at <= e) /\ at # z
  <2> HIDE DEF l, a, h, s, c, e, b, z
  <2> QED
    BY <1>4, <1>5
<1>7. p.valid = TRUE /\ HasRead(x, p.parts, n)
  <2> HIDE DEF n, l
  <2> QED
    BY <1>2, <1>6, Zenon DEF InState, n
<1>8. p.parts = x.contents
  <2>1. x.contents \in Seq(Seq(Nat)) /\ n = Len(x.contents)
    BY DEF IsForm, FormTypes, Contents
  <2>2. /\ p.parts \in Seq(Seq(Nat)) /\ Len(p.parts) = n
        /\ \A j \in 1..n : p.parts[j] = x.contents[j]
    BY <1>7, Zenon DEF HasRead
  <2> HIDE DEF n
  <2> QED
    BY <2>1, <2>2, SeqEqual
<1> QED
  BY <1>7, <1>8, Zenon DEF IsParsed

\* A form, however it is cut into pieces.
LEMMA FormParsed ==
    ASSUME NEW x, IsForm(x), NEW pieces \in Seq(Seq(Nat)), FlattenSeq(pieces) = x.form
    PROVE  IsParsed(ParseAll(pieces, x.boundary), x.contents)
<1> DEFINE q    == [pieces |-> pieces, boundary |-> x.boundary]
           n    == Len(pieces)
           y    == Arriving!Rounds(q, Fresh)
           body == Joined(pieces)
           Good == {i \in Nat : i <= n => Settled(x, y[i], Len(body[i]))}
<1>1. /\ y[0] = Fresh
      /\ \A i \in Nat : y[i + 1] = ParseNext(q, y[i], i + 1)
      /\ \A i \in Nat : y[i] = Arriving!Loop(q, Fresh, i)
  BY Arriving!RoundsNext
<1>2. n \in Nat
  BY LenProperties
<1>3. /\ body[0] = <<>>
      /\ \A i \in Nat : i < n => i + 1 \in 1..n /\ pieces[i + 1] \in Seq(Nat)
      /\ x.form = body[n]
  BY JoinedNext, Flattened, Zenon
<1>4. ASSUME NEW i \in Nat, i < n
      PROVE  /\ Holds(x.form, Len(body[i]), pieces[i + 1])
             /\ Len(body[i + 1]) = Len(body[i]) + Len(pieces[i + 1])
  <2>1. /\ Holds(FlattenSeq(pieces), Len(Joined(pieces)[i]), pieces[i + 1])
        /\ Len(Joined(pieces)[i + 1]) = Len(Joined(pieces)[i]) + Len(pieces[i + 1])
    <3>1. i < Len(pieces)
      BY <1>4
    <3> QED
      BY <3>1, UnitInText, Zenon
  <2> QED
    BY <2>1
<1>5. ParseAll(pieces, x.boundary) = y[n]
  <2>1. y[n] = Arriving!Loop(q, Fresh, n)
    BY <1>1, <1>2, Zenon
  <2> QED
    BY <2>1, Zenon DEF ParseAll
<1>6. q.pieces = pieces /\ q.boundary = x.boundary
  OBVIOUS
<1> HIDE DEF q, n, y, body
<1>7. 0 \in Good
  <2>1. IsParser(Fresh, "first", <<>>, <<>>, FALSE, TRUE)
    BY ParserFields, Zenon DEF Fresh
  <2>2. /\ Fresh.state = "first" /\ Fresh.buf = <<>> /\ Fresh.parts = <<>>
        /\ Fresh.going = TRUE
    BY <2>1, Zenon DEF IsParser
  <2>3. x.form \in Seq(Nat) /\ Len(x.form) \in Nat /\ 1 \in 1..Contents(x)
    <3>1. x.form \in Seq(Nat) /\ x.contents \in Seq(Seq(Nat)) /\ Contents(x) >= 1
      BY DEF IsForm, FormTypes
    <3>2. Len(x.form) \in Nat /\ Contents(x) \in Nat
      BY <3>1, LenProperties DEF Contents
    <3> QED
      BY <3>1, <3>2
  <2>4. <<>> = Window(x.form, 0, 0)
    <3>1. IsWindow(Window(x.form, 0, 0), x.form, 0, 0, Nat)
      <4>1. 0 \in Nat /\ 0 <= 0 /\ 0 <= Len(x.form)
        BY <2>3
      <4> QED
        BY <2>3, <4>1, WindowFacts
    <3>2. Window(x.form, 0, 0) \in Seq(Nat) /\ Len(Window(x.form, 0, 0)) = 0
      BY <3>1 DEF IsWindow
    <3> QED
      BY <3>2, EmptySeq
  <2>5. HasRead(x, <<>>, 0)
    BY EmptySeq DEF HasRead
  <2>6. InState(x, Fresh, 0, 1)
    BY <2>2, <2>5 DEF InState
  <2>7. StandsAt(x, Fresh, 0, 1, 0)
    <3>1. 0 \in Nat /\ 0 <= 0 /\ 0 <= Len(x.form)
      BY <2>3
    <3>2. Fresh.going \in BOOLEAN /\ (~Fresh.going => 0 < Len(x.form))
      BY <2>2, Zenon
    <3>3. Fresh.buf = Window(x.form, 0, 0)
      BY <2>2, <2>4, Zenon
    <3> QED
      BY <2>3, <2>6, <3>1, <3>2, <3>3, Zenon DEF StandsAt
  <2>8. Settled(x, Fresh, 0)
    BY <2>7, Zenon DEF Settled
  <2>9. Len(body[0]) = 0
    BY <1>3
  <2>10. Settled(x, y[0], Len(body[0]))
    BY <1>1, <2>8, <2>9
  <2> QED
    BY <2>10
<1>8. ASSUME NEW i \in Nat, i \in Good PROVE i + 1 \in Good
  <2> SUFFICES ASSUME i + 1 <= n PROVE Settled(x, y[i + 1], Len(body[i + 1]))
    OBVIOUS
  <2>1. i < n /\ i <= n
    BY <1>2
  <2> DEFINE p     == y[i]
             got   == Len(body[i])
             piece == pieces[i + 1]
  <2>2. Settled(x, p, got) /\ Holds(x.form, got, piece) /\ piece \in Seq(Nat)
    BY <1>3, <1>4, <1>8, <2>1
  <2>3. Len(body[i + 1]) = got + Len(piece)
    BY <1>4, <2>1
  <2>4. y[i + 1] = Parse(p, piece, x.boundary)
    BY <1>1, <1>6, Zenon DEF ParseNext
  <2> HIDE DEF p, got, piece
  <2>5. PICK at, k : StandsAt(x, p, at, k, got)
    BY <2>2, Zenon DEF Settled
  <2>6. Settled(x, Parse(p, piece, x.boundary), got + Len(piece))
    BY <2>2, <2>5, PieceArrives
  <2> QED
    BY <2>3, <2>4, <2>6, Zenon
<1>9. n \in Good
  <2> HIDE DEF Good
  <2> QED
    BY <1>2, <1>7, <1>8, Arriving!Induction
<1>10. Settled(x, y[n], Len(x.form))
  BY <1>2, <1>3, <1>9
<1>11. IsParsed(y[n], x.contents)
  BY <1>10, AllParsed
<1> QED
  BY <1>5, <1>11, Zenon

-----------------------------------------------------------------------------
(* Forms, as they are sent.                                                *)

PartText(b, h, c) == Dashes \o b \o CRLF \o h \o CRLF \o CRLF \o c \o CRLF

\* What a part of a form holds, and how long it is.
IsUnit(f, a, b, h, c) ==
    /\ Holds(f, a, Dashes) /\ Holds(f, a + 2, b) /\ Holds(f, a + 2 + Len(b), CRLF)
    /\ Holds(f, a + 4 + Len(b), h) /\ Holds(f, a + 4 + Len(b) + Len(h), CRLF)
    /\ Holds(f, a + 4 + Len(b) + Len(h) + 2, CRLF)
    /\ Holds(f, a + 4 + Len(b) + Len(h) + 4, c)
    /\ Holds(f, a + 4 + Len(b) + Len(h) + 4 + Len(c), CRLF)

\* A part of a form has its bytes, its length, and holds its pieces in order.
LEMMA UnitApart ==
    ASSUME NEW f, NEW a \in Nat, NEW b \in Seq(Nat), NEW h \in Seq(Nat), NEW c \in Seq(Nat)
    PROVE  /\ PartText(b, h, c) \in Seq(Nat)
           /\ Len(PartText(b, h, c)) = 10 + Len(b) + Len(h) + Len(c)
           /\ Holds(f, a, PartText(b, h, c)) => IsUnit(f, a, b, h, c)
<1> DEFINE u1 == Dashes \o b
           u2 == u1 \o CRLF
           u3 == u2 \o h
           u4 == u3 \o CRLF
           u5 == u4 \o CRLF
           u6 == u5 \o c
           u7 == u6 \o CRLF
           lb == Len(b)
           lh == Len(h)
           lc == Len(c)
<1>1. /\ CRLF \in Seq(Nat) /\ Dashes \in Seq(Nat) /\ Len(CRLF) = 2 /\ Len(Dashes) = 2
      /\ lb \in Nat /\ lh \in Nat /\ lc \in Nat
  BY Marks, LenProperties
<1>2. PartText(b, h, c) = u7
  BY Zenon DEF PartText
<1>3. ASSUME NEW s \in Seq(Nat), NEW t \in Seq(Nat)
      PROVE  /\ s \o t \in Seq(Nat) /\ Len(s \o t) = Len(s) + Len(t)
             /\ Holds(f, a, s \o t) => Holds(f, a, s) /\ Holds(f, a + Len(s), t)
  <2>1. IsConcat(s \o t, s, t, Nat)
    BY ConcatFacts, Zenon
  <2>2. s \o t \in Seq(Nat) /\ Len(s \o t) = Len(s) + Len(t)
    BY <2>1, Zenon DEF IsConcat
  <2>3. Holds(f, a, s \o t) <=> Holds(f, a, s) /\ Holds(f, a + Len(s), t)
    BY HoldsBoth, Zenon
  <2> QED
    BY <2>2, <2>3, Zenon
<1>4. /\ u1 \in Seq(Nat) /\ Len(u1) = Len(Dashes) + lb
      /\ Holds(f, a, u1) => Holds(f, a, Dashes) /\ Holds(f, a + Len(Dashes), b)
  BY <1>1, <1>3, Zenon
<1> HIDE DEF u1
<1>5. /\ u2 \in Seq(Nat) /\ Len(u2) = Len(u1) + Len(CRLF)
      /\ Holds(f, a, u2) => Holds(f, a, u1) /\ Holds(f, a + Len(u1), CRLF)
  BY <1>1, <1>3, <1>4, Zenon
<1> HIDE DEF u2
<1>6. /\ u3 \in Seq(Nat) /\ Len(u3) = Len(u2) + lh
      /\ Holds(f, a, u3) => Holds(f, a, u2) /\ Holds(f, a + Len(u2), h)
  BY <1>3, <1>5, Zenon
<1> HIDE DEF u3
<1>7. /\ u4 \in Seq(Nat) /\ Len(u4) = Len(u3) + Len(CRLF)
      /\ Holds(f, a, u4) => Holds(f, a, u3) /\ Holds(f, a + Len(u3), CRLF)
  BY <1>1, <1>3, <1>6, Zenon
<1> HIDE DEF u4
<1>8. /\ u5 \in Seq(Nat) /\ Len(u5) = Len(u4) + Len(CRLF)
      /\ Holds(f, a, u5) => Holds(f, a, u4) /\ Holds(f, a + Len(u4), CRLF)
  BY <1>1, <1>3, <1>7, Zenon
<1> HIDE DEF u5
<1>9. /\ u6 \in Seq(Nat) /\ Len(u6) = Len(u5) + lc
      /\ Holds(f, a, u6) => Holds(f, a, u5) /\ Holds(f, a + Len(u5), c)
  BY <1>3, <1>8, Zenon
<1> HIDE DEF u6
<1>10. /\ u7 \in Seq(Nat) /\ Len(u7) = Len(u6) + Len(CRLF)
       /\ Holds(f, a, u7) => Holds(f, a, u6) /\ Holds(f, a + Len(u6), CRLF)
  BY <1>1, <1>3, <1>9, Zenon
<1> HIDE DEF u7, lb, lh, lc
<1>11. /\ Len(u1) = 2 + lb /\ Len(u2) = 4 + lb /\ Len(u3) = 4 + lb + lh
       /\ Len(u4) = 4 + lb + lh + 2 /\ Len(u5) = 4 + lb + lh + 4
       /\ Len(u6) = 4 + lb + lh + 4 + lc /\ Len(u7) = 10 + lb + lh + lc
  BY <1>1, <1>4, <1>5, <1>6, <1>7, <1>8, <1>9, <1>10
<1>12. /\ a + Len(Dashes) = a + 2 /\ a + Len(u1) = a + 2 + lb /\ a + Len(u2) = a + 4 + lb
       /\ a + Len(u3) = a + 4 + lb + lh /\ a + Len(u4) = a + 4 + lb + lh + 2
       /\ a + Len(u5) = a + 4 + lb + lh + 4 /\ a + Len(u6) = a + 4 + lb + lh + 4 + lc
  BY <1>1, <1>11
<1>13. Holds(f, a, u7) => IsUnit(f, a, b, h, c)
  <2> SUFFICES ASSUME Holds(f, a, u7) PROVE IsUnit(f, a, b, h, c)
    OBVIOUS
  <2>1. /\ Holds(f, a, Dashes) /\ Holds(f, a + Len(Dashes), b) /\ Holds(f, a + Len(u1), CRLF)
        /\ Holds(f, a + Len(u2), h) /\ Holds(f, a + Len(u3), CRLF)
        /\ Holds(f, a + Len(u4), CRLF) /\ Holds(f, a + Len(u5), c)
        /\ Holds(f, a + Len(u6), CRLF)
    BY <1>4, <1>5, <1>6, <1>7, <1>8, <1>9, <1>10, Zenon
  <2> QED
    BY <1>12, <2>1, Zenon DEF IsUnit, lb, lh, lc
<1> QED
  BY <1>2, <1>10, <1>11, <1>13 DEF lb, lh, lc

\* The end of a form.
IsTail(f, a, b) ==
    /\ Holds(f, a, Dashes) /\ Holds(f, a + 2, b) /\ Holds(f, a + 2 + Len(b), Dashes \o CRLF)
    /\ Len(f) = a + 6 + Len(b)

\* A form ends with its boundary between dashes, behind all of its parts.
LEMMA TailApart ==
    ASSUME NEW s \in Seq(Nat), NEW b \in Seq(Nat), NEW f, f = s \o Dashes \o b \o Dashes \o CRLF
    PROVE  f \in Seq(Nat) /\ Holds(f, 0, s) /\ IsTail(f, Len(s), b)
<1> DEFINE u1 == s \o Dashes
           u2 == u1 \o b
           u3 == u2 \o Dashes
           u4 == u3 \o CRLF
           ls == Len(s)
           lb == Len(b)
<1>1. /\ CRLF \in Seq(Nat) /\ Dashes \in Seq(Nat) /\ Len(CRLF) = 2 /\ Len(Dashes) = 2
      /\ lb \in Nat /\ ls \in Nat
  BY Marks, LenProperties
<1>2. f = u4
  OBVIOUS
<1>3. ASSUME NEW v \in Seq(Nat), NEW t \in Seq(Nat)
      PROVE  /\ v \o t \in Seq(Nat) /\ Len(v \o t) = Len(v) + Len(t)
             /\ Holds(f, 0, v \o t) => Holds(f, 0, v) /\ Holds(f, 0 + Len(v), t)
  <2>1. IsConcat(v \o t, v, t, Nat)
    BY ConcatFacts, Zenon
  <2>2. v \o t \in Seq(Nat) /\ Len(v \o t) = Len(v) + Len(t)
    BY <2>1, Zenon DEF IsConcat
  <2>3. 0 \in Nat
    OBVIOUS
  <2>4. Holds(f, 0, v \o t) <=> Holds(f, 0, v) /\ Holds(f, 0 + Len(v), t)
    BY <2>3, HoldsBoth, Zenon
  <2> QED
    BY <2>2, <2>4, Zenon
<1>4. /\ u1 \in Seq(Nat) /\ Len(u1) = ls + Len(Dashes)
      /\ Holds(f, 0, u1) => Holds(f, 0, s) /\ Holds(f, 0 + ls, Dashes)
  BY <1>1, <1>3, Zenon
<1> HIDE DEF u1
<1>5. /\ u2 \in Seq(Nat) /\ Len(u2) = Len(u1) + lb
      /\ Holds(f, 0, u2) => Holds(f, 0, u1) /\ Holds(f, 0 + Len(u1), b)
  BY <1>3, <1>4, Zenon
<1> HIDE DEF u2
<1>6. /\ u3 \in Seq(Nat) /\ Len(u3) = Len(u2) + Len(Dashes)
      /\ Holds(f, 0, u3) => Holds(f, 0, u2) /\ Holds(f, 0 + Len(u2), Dashes)
  BY <1>1, <1>3, <1>5, Zenon
<1> HIDE DEF u3
<1>7. /\ u4 \in Seq(Nat) /\ Len(u4) = Len(u3) + Len(CRLF)
      /\ Holds(f, 0, u4) => Holds(f, 0, u3) /\ Holds(f, 0 + Len(u3), CRLF)
  BY <1>1, <1>3, <1>6, Zenon
<1> HIDE DEF u4, ls, lb
<1>8. f \in Seq(Nat) /\ Holds(f, 0, u4)
  <2>1. f \in Seq(Nat) /\ Len(f) \in Nat
    BY <1>2, <1>7, LenProperties
  <2>2. Holds(f, 0, f)
    BY <2>1 DEF Holds
  <2> QED
    BY <1>2, <2>1, <2>2
<1>9. /\ Len(u1) = ls + 2 /\ Len(u2) = ls + 2 + lb /\ Len(u3) = ls + 4 + lb
      /\ Len(f) = ls + 6 + lb
  BY <1>1, <1>2, <1>4, <1>5, <1>6, <1>7
<1>10. /\ Holds(f, 0, s) /\ Holds(f, 0 + ls, Dashes) /\ Holds(f, 0 + Len(u1), b)
       /\ Holds(f, 0 + Len(u2), Dashes) /\ Holds(f, 0 + Len(u3), CRLF)
  BY <1>4, <1>5, <1>6, <1>7, <1>8, Zenon
<1>11. /\ 0 + ls = ls /\ 0 + Len(u1) = ls + 2 /\ 0 + Len(u2) = ls + 2 + lb
       /\ 0 + Len(u3) = (ls + 2 + lb) + 2 /\ ls + 2 + lb \in Nat
  BY <1>1, <1>9
<1>12. /\ Holds(f, ls, Dashes) /\ Holds(f, ls + 2, b) /\ Holds(f, ls + 2 + lb, Dashes)
       /\ Holds(f, (ls + 2 + lb) + 2, CRLF)
  BY <1>10, <1>11, Zenon
<1>13. Holds(f, ls + 2 + lb, Dashes \o CRLF)
  <2> DEFINE at == ls + 2 + lb
  <2>1. at \in Nat /\ Holds(f, at, Dashes) /\ Holds(f, at + 2, CRLF)
    BY <1>11, <1>12, Zenon
  <2> HIDE DEF at
  <2>2. Holds(f, at + Len(Dashes), CRLF)
    BY <1>1, <2>1, Zenon
  <2>3. Holds(f, at, Dashes \o CRLF)
    BY <1>1, <2>1, <2>2, HoldsBoth, Zenon
  <2> QED
    BY <2>3, Zenon DEF at
<1> QED
  BY <1>8, <1>9, <1>10, <1>12, <1>13, Zenon DEF IsTail, ls, lb

\* What holds two texts, one behind the other, holds both together.
LEMMA HoldsJoined ==
    ASSUME NEW f, NEW a \in Nat, NEW p \in Seq(Nat), NEW q \in Seq(Nat), NEW m, m = Len(p),
           Holds(f, a, p), Holds(f, a + m, q)
    PROVE  Holds(f, a, p \o q)
  BY HoldsBoth, Zenon

\* A part, by its unit and what follows it.
LEMMA UnitIsPart ==
    ASSUME NEW x, FormTypes(x), NEW k \in 1..Contents(x), NEW a \in Nat,
           x.places[k] = a + Len(x.boundary) + 4,
           IsUnit(x.form, a, x.boundary, x.header, x.contents[k]),
           Holds(x.form, Ending(x, k) + 2, Dashes),
           Holds(x.form, Ending(x, k) + 4, x.boundary),
           k < Contents(x) => /\ Holds(x.form, Final(x, k), CRLF)
                              /\ x.places[k + 1] = Final(x, k) + 2,
           k = Contents(x) => /\ Holds(x.form, Final(x, k), Dashes \o CRLF)
                              /\ Len(x.form) = Final(x, k) + 4
    PROVE  IsPart(x, k)
<1> DEFINE f == x.form
           b == x.boundary
           h == x.header
           c == x.contents[k]
           lb == Len(b)
           lh == Len(h)
           lc == Len(c)
           e  == Ending(x, k)
<1>1. b \in Seq(Nat) /\ h \in Seq(Nat) /\ c \in Seq(Nat)
  BY ElementOfSeq DEF FormTypes, Contents
<1>2. lb \in Nat /\ lh \in Nat /\ lc \in Nat
  BY <1>1, LenProperties
<1>3. /\ Holds(f, a + 4 + lb, h) /\ Holds(f, a + 4 + lb + lh, CRLF)
      /\ Holds(f, a + 4 + lb + lh + 2, CRLF)
      /\ Holds(f, a + 4 + lb + lh + 4, c)
      /\ Holds(f, a + 4 + lb + lh + 4 + lc, CRLF)
  BY Zenon DEF IsUnit
<1>4. /\ x.places[k] = a + lb + 4
      /\ Starting(x, k) = x.places[k] + lh + 4 /\ e = Starting(x, k) + lc
  BY Zenon DEF Starting, Ending
<1>5. Holds(f, e + 2, Dashes) /\ Holds(f, e + 4, b)
  OBVIOUS
<1> HIDE DEF f, b, h, c, lb, lh, lc, e
<1>6. /\ x.places[k] = a + 4 + lb /\ Starting(x, k) = a + 4 + lb + lh + 4
      /\ x.places[k] + lh = a + 4 + lb + lh
      /\ x.places[k] + lh + 2 = a + 4 + lb + lh + 2
      /\ e = a + 4 + lb + lh + 4 + lc /\ e \in Nat
  BY <1>2, <1>4
<1>7. /\ Holds(f, x.places[k], h) /\ Holds(f, x.places[k] + lh, CRLF)
      /\ Holds(f, x.places[k] + lh + 2, CRLF) /\ Holds(f, Starting(x, k), c)
      /\ Holds(f, e, CRLF)
  BY <1>3, <1>6, Zenon
<1>8. Holds(f, e, CRLF \o Dashes \o b)
  <2> DEFINE mark == CRLF \o Dashes
  <2>1. /\ CRLF \in Seq(Nat) /\ Dashes \in Seq(Nat) /\ Len(CRLF) = 2
        /\ mark \in Seq(Nat) /\ Len(mark) = 4
    BY Marks, MarkFacts
  <2>2. Holds(f, e, mark)
    <3>1. e \in Nat /\ Holds(f, e, CRLF) /\ Holds(f, e + 2, Dashes) /\ 2 = Len(CRLF)
      BY <1>5, <1>6, <1>7, <2>1, Zenon
    <3> QED
      BY <2>1, <3>1, HoldsJoined, Zenon
  <2> HIDE DEF mark
  <2>3. b \in Seq(Nat)
    BY <1>1
  <2>4. Holds(f, e, mark \o b)
    <3>1. e \in Nat /\ mark \in Seq(Nat) /\ 4 = Len(mark) /\ Holds(f, e + 4, b)
      BY <1>5, <1>6, <2>1, Zenon
    <3> QED
      BY <2>2, <2>3, <3>1, HoldsJoined, Zenon
  <2> QED
    BY <2>4, Zenon DEF mark
<1> QED
  BY <1>7, <1>8, Zenon DEF IsPart, f, b, h, c, lh, e

\* What is held is held where what holds it is.
LEMMA HoldsWithin ==
    ASSUME NEW f, NEW a, NEW u, NEW b, NEW p, Holds(f, a, u), Holds(u, b, p)
    PROVE  Holds(f, a + b, p)
<1> DEFINE lf == Len(f)
           lu == Len(u)
           lp == Len(p)
<1>1. /\ a \in Nat /\ b \in Nat /\ lf \in Nat /\ lu \in Nat /\ lp \in Nat
      /\ a + lu <= lf /\ b + lp <= lu
      /\ \A j \in 1..lu : f[a + j] = u[j]
      /\ \A j \in 1..lp : u[b + j] = p[j]
  BY Zenon DEF Holds
<1> HIDE DEF lf, lu, lp
<1>2. a + b \in Nat /\ (a + b) + lp <= lf
  BY <1>1
<1>3. ASSUME NEW j \in 1..lp PROVE f[(a + b) + j] = p[j]
  <2>1. b + j \in 1..lu /\ a + (b + j) = (a + b) + j
    BY <1>1
  <2>2. f[a + (b + j)] = u[b + j] /\ u[b + j] = p[j]
    BY <1>1, <2>1, Zenon
  <2> QED
    BY <2>1, <2>2, Zenon
<1> QED
  BY <1>1, <1>2, <1>3, Zenon DEF Holds, lf, lp

\* The parts of a form, and where the k-th of them ends.
UnitsOf(contents, h, b) == [k \in DOMAIN contents |-> PartText(b, h, contents[k])]
EndOf(contents, h, b, k) == Len(Joined(UnitsOf(contents, h, b))[k])

AreUnits(ss, contents, h, b, n) ==
    /\ n \in Nat /\ ss \in Seq(Seq(Nat)) /\ Len(ss) = n
    /\ \A k \in 1..n : /\ contents[k] \in Seq(Nat)
                       /\ ss[k] = PartText(b, h, contents[k])
                       /\ Len(ss[k]) = 10 + Len(b) + Len(h) + Len(contents[k])

\* The parts of a form are as many as its contents, each with its own length.
LEMMA UnitsAre ==
    ASSUME NEW contents \in Seq(Seq(Nat)), NEW h \in Seq(Nat), NEW b \in Seq(Nat)
    PROVE  AreUnits(UnitsOf(contents, h, b), contents, h, b, Len(contents))
<1> DEFINE ss == UnitsOf(contents, h, b)
           n  == Len(contents)
<1>1. /\ n \in Nat /\ DOMAIN contents = 1..n
      /\ \A k \in 1..n : contents[k] \in Seq(Nat)
  BY LenProperties, ElementOfSeq
<1>2. DOMAIN ss = 1..n /\ \A k \in 1..n : ss[k] = PartText(b, h, contents[k])
  BY <1>1, Zenon DEF UnitsOf
<1>3. ASSUME NEW k \in 1..n
      PROVE  /\ ss[k] \in Seq(Nat)
             /\ Len(ss[k]) = 10 + Len(b) + Len(h) + Len(contents[k])
  <2>1. contents[k] \in Seq(Nat) /\ ss[k] = PartText(b, h, contents[k]) /\ 0 \in Nat
    BY <1>1, <1>2
  <2>2. /\ PartText(b, h, contents[k]) \in Seq(Nat)
        /\ Len(PartText(b, h, contents[k])) = 10 + Len(b) + Len(h) + Len(contents[k])
    BY <2>1, UnitApart, Zenon
  <2> QED
    BY <2>1, <2>2, Zenon
<1>4. ss \in Seq(Seq(Nat)) /\ Len(ss) = n
  <2> DEFINE unit(k) == PartText(b, h, contents[k])
             tt      == [k \in 1..n |-> unit(k)]
  <2>1. ss = tt
    BY <1>1, Zenon DEF UnitsOf
  <2>2. \A k \in 1..n : unit(k) \in Seq(Nat)
    BY <1>2, <1>3, Zenon
  <2> HIDE DEF unit
  <2>3. tt \in Seq(Seq(Nat)) /\ Len(tt) = n
    BY <1>1, <2>2, IsASeq
  <2> QED
    BY <2>1, <2>3, Zenon
<1> HIDE DEF ss, n
<1>5. AreUnits(ss, contents, h, b, n)
  BY <1>1, <1>2, <1>3, <1>4, Zenon DEF AreUnits
<1> QED
  BY <1>5, Zenon DEF ss, n

\* A form is its parts and its end.
AreParts(f, contents, h, b, n) ==
    /\ f \in Seq(Nat) /\ n \in Nat /\ EndOf(contents, h, b, 0) = 0
    /\ \A k \in 1..n :
          /\ EndOf(contents, h, b, k - 1) \in Nat
          /\ EndOf(contents, h, b, k)
                = EndOf(contents, h, b, k - 1) + (10 + Len(b) + Len(h) + Len(contents[k]))
          /\ IsUnit(f, EndOf(contents, h, b, k - 1), b, h, contents[k])
    /\ IsTail(f, EndOf(contents, h, b, n), b)

\* A form is its parts, each behind the one before, and its end.
LEMMA FormApart ==
    ASSUME NEW contents \in Seq(Seq(Nat)), NEW h \in Seq(Nat), NEW b \in Seq(Nat)
    PROVE  AreParts(Form(contents, h, b), contents, h, b, Len(contents))
<1> DEFINE f     == Form(contents, h, b)
           n     == Len(contents)
           ss    == UnitsOf(contents, h, b)
           all   == FlattenSeq(ss)
           end(k) == EndOf(contents, h, b, k)
<1>1. /\ n \in Nat /\ ss \in Seq(Seq(Nat)) /\ Len(ss) = n
      /\ \A k \in 1..n : /\ contents[k] \in Seq(Nat)
                         /\ ss[k] = PartText(b, h, contents[k])
                         /\ Len(ss[k]) = 10 + Len(b) + Len(h) + Len(contents[k])
  <2>1. AreUnits(ss, contents, h, b, n)
    BY UnitsAre, Zenon
  <2> QED
    BY <2>1, Zenon DEF AreUnits
<1>2. \A k : end(k) = Len(Joined(ss)[k])
  BY Zenon DEF EndOf
<1>3. f = all \o Dashes \o b \o Dashes \o CRLF
  BY Zenon DEF Form, UnitsOf, PartText
<1> HIDE DEF ss, f, n
<1>4. all = Joined(ss)[n] /\ all \in Seq(Nat) /\ Joined(ss)[0] = <<>>
  <2>1. FlattenSeq(ss) = Joined(ss)[Len(ss)]
    BY <1>1, Flattened, Zenon
  <2>2. Joined(ss)[0] = <<>> /\ \A k \in Nat : k <= Len(ss) => Joined(ss)[k] \in Seq(Nat)
    BY <1>1, JoinedNext, Zenon
  <2>3. n <= Len(ss)
    BY <1>1
  <2> QED
    BY <1>1, <2>1, <2>2, <2>3, Zenon
<1> HIDE DEF all
<1>5. f \in Seq(Nat) /\ Holds(f, 0, all) /\ IsTail(f, Len(all), b)
  BY <1>3, <1>4, TailApart, Zenon
<1>6. end(0) = 0
  <2>1. Len(<<>>) = 0
    OBVIOUS
  <2> QED
    BY <1>2, <1>4, <2>1, Zenon
<1> HIDE DEF end
<1>7. ASSUME NEW k \in 1..n
      PROVE  /\ end(k - 1) \in Nat
             /\ end(k) = end(k - 1) + (10 + Len(b) + Len(h) + Len(contents[k]))
             /\ IsUnit(f, end(k - 1), b, h, contents[k])
  <2> DEFINE m == k - 1
             c == contents[k]
  <2>1. m \in Nat /\ m < Len(ss) /\ m + 1 = k
    BY <1>1
  <2>2. c \in Seq(Nat) /\ ss[k] = PartText(b, h, c) /\ Len(ss[k]) = 10 + Len(b) + Len(h) + Len(c)
    BY <1>1
  <2> HIDE DEF m, c
  <2>3. /\ Holds(FlattenSeq(ss), Len(Joined(ss)[m]), ss[m + 1])
        /\ Len(Joined(ss)[m + 1]) = Len(Joined(ss)[m]) + Len(ss[m + 1])
    BY <1>1, <2>1, UnitInText, Zenon
  <2>4. Holds(all, end(m), PartText(b, h, c)) /\ end(k) = end(m) + Len(ss[k])
    BY <1>2, <2>1, <2>2, <2>3, Zenon DEF all
  <2>5. Holds(f, 0 + end(m), PartText(b, h, c))
    BY <1>5, <2>4, HoldsWithin, Zenon
  <2>6. end(m) \in Nat
    BY <2>4, Zenon DEF Holds
  <2>7. 0 + end(m) = end(m)
    BY <2>6
  <2>8. Holds(f, end(m), PartText(b, h, c))
    BY <2>5, <2>7, Zenon
  <2>9. IsUnit(f, end(m), b, h, c)
    BY <2>2, <2>6, <2>8, UnitApart, Zenon
  <2> QED
    BY <2>2, <2>4, <2>6, <2>9, Zenon DEF m, c
<1>8. end(n) = Len(all)
  BY <1>2, <1>4, Zenon
<1>9. AreParts(f, contents, h, b, n)
  BY <1>1, <1>5, <1>6, <1>7, <1>8, Zenon DEF end, AreParts
<1> QED
  BY <1>9, Zenon DEF f, n

\* A form, and where its header lines begin.
FormOf(contents, h, b) ==
    [form |-> Form(contents, h, b), contents |-> contents, header |-> h, boundary |-> b,
     places |-> [k \in 1..Len(contents) |-> EndOf(contents, h, b, k - 1) + Len(b) + 4]]

IsFormOf(x, contents, h, b) ==
    /\ x.form = Form(contents, h, b) /\ x.contents = contents /\ x.header = h /\ x.boundary = b
    /\ \A k \in 1..Len(contents) : x.places[k] = EndOf(contents, h, b, k - 1) + Len(b) + 4

\* The fields of a form.
LEMMA FormFields ==
    ASSUME NEW contents, NEW h, NEW b
    PROVE  IsFormOf(FormOf(contents, h, b), contents, h, b)
  BY DEF FormOf, IsFormOf

\* What a client sends is a form, whose header lines are where they should be.
LEMMA FormIsForm ==
    ASSUME NEW contents \in Seq(Seq(Nat)), Len(contents) >= 1,
           NEW h \in Seq(Nat), Len(h) >= 1, \A i \in 1..Len(h) : h[i] # CR,
           NEW b \in Seq(Nat), \A k \in 1..Len(contents) : Clear(contents[k], b)
    PROVE  IsForm(FormOf(contents, h, b))
<1> DEFINE x    == FormOf(contents, h, b)
           f    == Form(contents, h, b)
           n    == Len(contents)
           e(k) == EndOf(contents, h, b, k)
           lb   == Len(b)
           lh   == Len(h)
<1>1. /\ x.form = f /\ x.contents = contents /\ x.header = h /\ x.boundary = b
      /\ \A k \in 1..n : x.places[k] = e(k - 1) + lb + 4
  <2>1. IsFormOf(x, contents, h, b)
    BY FormFields, Zenon
  <2> HIDE DEF x
  <2> QED
    BY <2>1, Zenon DEF IsFormOf
<1>2. /\ f \in Seq(Nat) /\ n \in Nat /\ e(0) = 0
      /\ \A k \in 1..n : /\ e(k - 1) \in Nat
                         /\ e(k) = e(k - 1) + (10 + lb + lh + Len(contents[k]))
                         /\ IsUnit(f, e(k - 1), b, h, contents[k])
      /\ IsTail(f, e(n), b)
  <2>1. AreParts(f, contents, h, b, n)
    BY FormApart, Zenon
  <2> QED
    BY <2>1, Zenon DEF AreParts
<1>3. lb \in Nat /\ lh \in Nat /\ \A k \in 1..n : Len(contents[k]) \in Nat
  BY LenProperties, ElementOfSeq
<1>4. n >= 1 /\ lh >= 1 /\ \A k \in 1..n : Clear(contents[k], b)
  OBVIOUS
<1>5. Contents(x) = n
  BY <1>1, Zenon DEF Contents
<1> HIDE DEF x, f, n, e
<1>6. FormTypes(x)
  <2>1. ASSUME NEW k \in 1..n PROVE x.places[k] \in Nat
    <3> DEFINE a == e(k - 1)
    <3>1. a \in Nat /\ lb \in Nat /\ x.places[k] = a + lb + 4
      BY <1>1, <1>2, <1>3, Zenon
    <3> HIDE DEF a, lb
    <3>2. a + lb + 4 \in Nat
      BY <3>1
    <3> QED
      BY <3>1, <3>2, Zenon
  <2>2. Len(x.header) = lh
    BY <1>1, Zenon
  <2>3. \A i \in 1..Len(x.header) : x.header[i] # CR
    BY <1>1, Zenon
  <2> QED
    BY <1>1, <1>2, <1>4, <1>5, <2>1, <2>2, <2>3, Zenon DEF FormTypes
<1> HIDE DEF lb, lh
<1>7. ASSUME NEW k \in 1..n PROVE IsPart(x, k)
  <2> DEFINE a  == e(k - 1)
             z  == e(k)
             c  == contents[k]
             lc == Len(c)
  <2>1. a \in Nat /\ lc \in Nat /\ z = a + (10 + lb + lh + lc) /\ IsUnit(f, a, b, h, c)
    BY <1>2, <1>3, Zenon
  <2>2. x.places[k] = a + lb + 4
    BY <1>1, Zenon
  <2>3. /\ Starting(x, k) = x.places[k] + lh + 4 /\ Ending(x, k) = Starting(x, k) + lc
        /\ Final(x, k) = Ending(x, k) + 4 + lb
    BY <1>1, Zenon DEF Starting, Ending, Final, lb, lh
  <2> HIDE DEF a, z, c, lc
  <2>4. /\ Ending(x, k) + 2 = z /\ Ending(x, k) + 4 = z + 2 /\ Final(x, k) = z + 2 + lb
        /\ Final(x, k) + 4 = z + 6 + lb /\ z + lb + 4 = Final(x, k) + 2
    <3> DEFINE pl == x.places[k]
               st == Starting(x, k)
               en == Ending(x, k)
               fi == Final(x, k)
    <3>1. /\ a \in Nat /\ lb \in Nat /\ lh \in Nat /\ lc \in Nat
          /\ z = a + (10 + lb + lh + lc) /\ pl = a + lb + 4
          /\ st = pl + lh + 4 /\ en = st + lc /\ fi = en + 4 + lb
      BY <1>3, <2>1, <2>2, <2>3, Zenon
    <3> HIDE DEF pl, st, en, fi
    <3>2. en + 2 = z /\ en + 4 = z + 2 /\ fi = z + 2 + lb /\ fi + 4 = z + 6 + lb
      BY <3>1
    <3>3. z + lb + 4 = fi + 2
      BY <3>1
    <3> QED
      BY <3>2, <3>3, Zenon DEF en, fi
  <2>5. CASE k < n
    <3>1. k + 1 \in 1..n /\ (k + 1) - 1 = k /\ k # n
      BY <1>2, <2>5
    <3>2. IsUnit(f, z, b, h, contents[k + 1])
      BY <1>2, <3>1, Zenon DEF z
    <3>3. x.places[k + 1] = z + lb + 4
      BY <1>1, <3>1, Zenon DEF z
    <3>4. Holds(f, z, Dashes) /\ Holds(f, z + 2, b) /\ Holds(f, z + 2 + lb, CRLF)
      BY <3>2, Zenon DEF IsUnit, lb
    <3>5. /\ Holds(f, Ending(x, k) + 2, Dashes) /\ Holds(f, Ending(x, k) + 4, b)
          /\ Holds(f, Final(x, k), CRLF) /\ x.places[k + 1] = Final(x, k) + 2
      BY <2>4, <3>3, <3>4, Zenon
    <3> QED
      BY <1>1, <1>5, <1>6, <2>1, <2>2, <3>1, <3>5, UnitIsPart, Zenon DEF c, lb
  <2>6. CASE ~(k < n)
    <3>1. k = n
      BY <1>2, <2>6
    <3>2. IsTail(f, z, b)
      BY <1>2, <3>1, Zenon DEF z
    <3>3. /\ Holds(f, z, Dashes) /\ Holds(f, z + 2, b) /\ Holds(f, z + 2 + lb, Dashes \o CRLF)
          /\ Len(f) = z + 6 + lb
      BY <3>2, Zenon DEF IsTail, lb
    <3>4. /\ Holds(f, Ending(x, k) + 2, Dashes) /\ Holds(f, Ending(x, k) + 4, b)
          /\ Holds(f, Final(x, k), Dashes \o CRLF) /\ Len(f) = Final(x, k) + 4
      BY <2>4, <3>3, Zenon
    <3> QED
      BY <1>1, <1>5, <1>6, <2>1, <2>2, <2>6, <3>4, UnitIsPart, Zenon DEF c, lb
  <2> QED
    BY <2>5, <2>6, Zenon
<1>8. Holds(f, 0, Dashes \o b \o CRLF) /\ x.places[1] = lb + 4
  <2>1. 1 \in 1..n /\ 1 - 1 = 0 /\ 0 + lb + 4 = lb + 4 /\ 0 + 2 = 2 /\ 0 \in Nat
    BY <1>2, <1>3, <1>4
  <2>2. x.places[1] = lb + 4 /\ IsUnit(f, 0, b, h, contents[1])
    BY <1>1, <1>2, <2>1, Zenon
  <2>3. Holds(f, 0, Dashes) /\ Holds(f, 0 + 2, b) /\ Holds(f, 0 + 2 + lb, CRLF)
    BY <2>2, Zenon DEF IsUnit, lb
  <2> DEFINE d == Dashes \o b
  <2>4. Dashes \in Seq(Nat) /\ CRLF \in Seq(Nat) /\ 2 = Len(Dashes)
    BY Marks
  <2>5. Holds(f, 0, d)
    BY <2>1, <2>3, <2>4, HoldsJoined, Zenon
  <2>6. d \in Seq(Nat) /\ 2 + lb = Len(d)
    <3>1. IsConcat(d, Dashes, b, Nat)
      BY <2>4, ConcatFacts, Zenon
    <3> QED
      BY <2>4, <3>1, Zenon DEF IsConcat, lb
  <2> HIDE DEF d
  <2>7. 0 + 2 + lb = 0 + Len(d)
    BY <1>3, <2>6
  <2>8. Holds(f, 0 + Len(d), CRLF)
    BY <2>3, <2>7, Zenon
  <2>9. Holds(f, 0, d \o CRLF)
    BY <2>1, <2>4, <2>5, <2>6, <2>8, HoldsJoined, Zenon
  <2> QED
    BY <2>2, <2>9, Zenon DEF d
<1>9. IsForm(x)
  BY <1>1, <1>5, <1>6, <1>7, <1>8, Zenon DEF IsForm, lb
<1> QED
  BY <1>9, Zenon DEF x

\* A form is taken apart into its contents, whatever the pieces in which it comes, if no
\* content has a line that begins with two dashes, or more of the characters of an end of
\* line in a row than the boundary has (MultipartFormDataParser::parse).
THEOREM FormsAreReadBack ==
    ASSUME NEW contents \in Seq(Seq(Nat)), Len(contents) >= 1,
           NEW header \in Seq(Nat), Len(header) >= 1,
           \A i \in 1..Len(header) : header[i] # CR,
           NEW boundary \in Seq(Nat),
           \A k \in 1..Len(contents) : Clear(contents[k], boundary),
           NEW pieces \in Seq(Seq(Nat)),
           FlattenSeq(pieces) = Form(contents, header, boundary)
    PROVE  IsParsed(ParseAll(pieces, boundary), contents)
<1> DEFINE x == FormOf(contents, header, boundary)
<1>1. IsForm(x)
  BY FormIsForm, Zenon
<1>2. /\ x.form = Form(contents, header, boundary)
      /\ x.contents = contents /\ x.boundary = boundary
  <2>1. IsFormOf(x, contents, header, boundary)
    BY FormFields, Zenon
  <2> HIDE DEF x
  <2> QED
    BY <2>1, Zenon DEF IsFormOf
<1> HIDE DEF x
<1>3. IsParsed(ParseAll(pieces, x.boundary), x.contents)
  BY <1>1, <1>2, FormParsed, Zenon
<1> QED
  BY <1>2, <1>3, Zenon

\* A text in pieces.
IsWhole(pieces, s, S) == pieces \in Seq(Seq(S)) /\ FlattenSeq(pieces) = s

\* A text is its bytes, one behind the other.
LEMMA ByteByByte ==
    ASSUME NEW S, NEW s \in Seq(S)
    PROVE  IsWhole([i \in DOMAIN s |-> <<s[i]>>], s, S)
<1> DEFINE n    == Len(s)
           ss   == [i \in DOMAIN s |-> <<s[i]>>]
           Is(k) == Joined(ss)[k] = SubSeq(s, 1, k)
           Good == {k \in Nat : k <= n => Is(k)}
<1>1. n \in Nat /\ DOMAIN s = 1..n /\ \A i \in 1..n : s[i] \in S
  BY LenProperties, ElementOfSeq
<1>2. ss \in Seq(Seq(S)) /\ Len(ss) = n /\ \A i \in 1..n : ss[i] = <<s[i]>>
  <2> DEFINE one(i) == <<s[i]>>
             tt     == [i \in 1..n |-> one(i)]
  <2>1. ss = tt
    BY <1>1, Zenon
  <2>2. \A i \in 1..n : one(i) \in Seq(S)
    <3> SUFFICES ASSUME NEW i \in 1..n PROVE one(i) \in Seq(S)
      OBVIOUS
    <3> DEFINE c == s[i]
    <3>1. c \in S
      BY <1>1
    <3> HIDE DEF c
    <3>2. <<c>> \in Seq(S)
      BY <3>1
    <3> QED
      BY <3>2 DEF c
  <2> HIDE DEF one, n
  <2>3. tt \in Seq(Seq(S)) /\ Len(tt) = n /\ \A i \in 1..n : tt[i] = one(i)
    BY <1>1, <2>2, IsASeq
  <2> QED
    BY <2>1, <2>3, Zenon DEF one
<1> HIDE DEF ss
<1>3. /\ Joined(ss)[0] = <<>>
      /\ \A k \in Nat : k < n => Joined(ss)[k + 1] = Joined(ss)[k] \o ss[k + 1]
  BY <1>2, JoinedNext, Zenon
<1>4. 0 \in Good
  <2>1. SubSeq(s, 1, 0) = <<>>
    BY SubSeqEmpty
  <2>2. Is(0)
    BY <1>3, <2>1, Zenon
  <2> HIDE DEF Is
  <2> QED
    BY <2>2
<1>5. ASSUME NEW k \in Nat, k \in Good PROVE k + 1 \in Good
  <2> SUFFICES ASSUME k + 1 <= n PROVE Is(k + 1)
    <3> HIDE DEF Is
    <3> QED
      OBVIOUS
  <2>1. k <= n /\ k < n /\ k + 1 \in 1..n
    BY <1>1
  <2>2. Is(k)
    <3> HIDE DEF Is
    <3> QED
      BY <1>5, <2>1
  <2> DEFINE v == SubSeq(s, 1, k)
             c == s[k + 1]
  <2>3. v \in Seq(S) /\ c \in S /\ SubSeq(s, 1, k + 1) = Append(v, c)
    BY <2>1, OneMore, Zenon
  <2>4. Joined(ss)[k + 1] = v \o <<c>>
    BY <1>2, <1>3, <2>1, <2>2, Zenon
  <2> HIDE DEF v, c
  <2>5. Append(v, c) = v \o <<c>>
    BY <2>3, AppendIsConcat
  <2> QED
    BY <2>3, <2>4, <2>5, Zenon
<1>6. Is(n)
  <2>1. n \in Good
    <3> HIDE DEF Good
    <3> QED
      BY <1>1, <1>4, <1>5, Joining!Induction
  <2> HIDE DEF Is
  <2> QED
    BY <1>1, <2>1
<1>7. FlattenSeq(ss) = Joined(ss)[n]
  <2>1. FlattenSeq(ss) = Joined(ss)[Len(ss)]
    BY <1>2, Flattened, Zenon
  <2> QED
    BY <1>2, <2>1, Zenon
<1>8. SubSeq(s, 1, n) = s
  BY SubSeqFull
<1>9. IsWhole(ss, s, S)
  BY <1>2, <1>6, <1>7, <1>8, Zenon DEF IsWhole
<1> QED
  BY <1>9, Zenon DEF ss

\* A text is its beginning and what is left.
LEMMA CutInTwo ==
    ASSUME NEW S, NEW s \in Seq(S), NEW i \in 0..Len(s)
    PROVE  IsWhole(<<SubSeq(s, 1, i), From(s, i + 1)>>, s, S)
<1> DEFINE u  == SubSeq(s, 1, i)
           v  == From(s, i + 1)
           ss == <<u, v>>
<1>1. /\ Len(s) \in Nat /\ i \in Nat /\ i <= Len(s) /\ 0 + 1 = 1 /\ i - 0 = i
      /\ 0 \in Nat /\ 0 <= i /\ 0 <= Len(s) /\ Len(s) <= Len(s)
  BY LenProperties
<1>2. u = Window(s, 0, i) /\ v = Window(s, i, Len(s)) /\ Window(s, 0, Len(s)) = s
  <2>1. SubSeq(s, 1, Len(s)) = s
    BY SubSeqFull
  <2> QED
    BY <1>1, <2>1, Zenon DEF Window, From
<1> HIDE DEF u, v
<1>3. u \in Seq(S) /\ v \in Seq(S)
  <2>1. IsWindow(Window(s, 0, i), s, 0, i, S) /\ IsWindow(Window(s, i, Len(s)), s, i, Len(s), S)
    BY <1>1, WindowFacts, Zenon
  <2> QED
    BY <1>2, <2>1, Zenon DEF IsWindow
<1>4. u \o v = s
  <2>1. IsCut(s, 0, i, Len(s))
    BY <1>1, WindowCut, Zenon
  <2> QED
    BY <1>2, <2>1, Zenon DEF IsCut
<1>5. ss \in Seq(Seq(S)) /\ Len(ss) = 2 /\ ss[1] = u /\ ss[2] = v
  <2> DEFINE T == Seq(S)
  <2>1. u \in T /\ v \in T
    BY <1>3
  <2> HIDE DEF T
  <2>2. ss \in Seq(T) /\ Len(ss) = 2 /\ ss[1] = u /\ ss[2] = v
    BY <2>1
  <2> QED
    BY <2>2, Zenon DEF T
<1> HIDE DEF ss
<1>6. FlattenSeq(ss) = s
  <2>1. /\ Joined(ss)[0] = <<>>
        /\ \A k \in Nat : k < Len(ss) => Joined(ss)[k + 1] = Joined(ss)[k] \o ss[k + 1]
    BY <1>5, JoinedNext, Zenon
  <2>2. 0 \in Nat /\ 1 \in Nat /\ 0 < 2 /\ 1 < 2 /\ 0 + 1 = 1 /\ 1 + 1 = 2
    OBVIOUS
  <2>3. Joined(ss)[1] = <<>> \o u /\ Joined(ss)[2] = Joined(ss)[1] \o v
    BY <1>5, <2>1, <2>2, Zenon
  <2>4. <<>> \o u = u
    BY <1>3, ConcatEmptySeq
  <2>5. FlattenSeq(ss) = Joined(ss)[Len(ss)]
    BY <1>5, Flattened, Zenon
  <2> QED
    BY <1>4, <1>5, <2>3, <2>4, <2>5, Zenon
<1>7. IsWhole(ss, s, S)
  BY <1>5, <1>6, Zenon DEF IsWhole
<1> QED
  BY <1>7, Zenon DEF ss, u, v

\* A text without % and + is decoded into itself.
IsPlain(c) == c \in Nat /\ c < 256 /\ c # Percent /\ c # Plus

\* Such a text is decoded into a text of bytes.
LEMMA PlainIsRead ==
    ASSUME NEW s \in Seq(Nat), \A i \in 1..Len(s) : IsPlain(s[i])
    PROVE  DecodeUrl(s, TRUE) \in Seq(Nat)
<1> DEFINE n  == Len(s)
           ss == [i \in DOMAIN s |-> <<s[i]>>]
<1>1. n \in Nat /\ DOMAIN s = 1..n /\ ss = [i \in 1..n |-> <<s[i]>>]
  BY LenProperties
<1>2. ss \in Seq(Seq(Nat)) /\ FlattenSeq(ss) = s
  <2>1. IsWhole(ss, s, Nat)
    BY ByteByByte, Zenon
  <2> QED
    BY <2>1, Zenon DEF IsWhole
<1>3. Len(ss) = n /\ \A i \in 1..n : ss[i] = <<s[i]>>
  BY <1>1, <1>2
<1> HIDE DEF ss
<1>4. \A i \in 1..Len(s) : s[i] < 256 /\ Codes(ss[i], s[i])
  BY <1>3, Zenon DEF IsPlain, Codes
<1>5. DecodeUrl(FlattenSeq(ss), TRUE) = s
  BY <1>2, <1>3, <1>4, DecodeCoded
<1> QED
  BY <1>2, <1>5, Zenon

\* The boundary of a Content-Type that is sent.
KeySent      == <<LowerU, Equals>>
TypeSent     == <<LowerA, Colon, Space>> \o KeySent \o <<Quotes, UpperA, UpperA, Quotes>>
BoundarySent == BoundaryOf(ParseHeader(TypeSent)[2], KeySent)

\* The header that names the boundary has nine plain characters, a colon among them.
LEMMA TypeSentIs ==
    /\ TypeSent \in Seq(Nat) /\ Len(TypeSent) = 9 /\ TypeSent[2] = Colon
    /\ TypeSent[4] = LowerU /\ \A i \in 1..9 : IsPlain(TypeSent[i])
<1> DEFINE s == <<97, 58, 32, 117, 61, 34, 65, 65, 34>>
<1>1. TypeSent = s
  <2> DEFINE u == <<97, 58, 32>>
             v == <<117, 61>>
             w == <<34, 65, 65, 34>>
             x == u \o v
  <2>1. TypeSent = x \o w
    BY DEF TypeSent, KeySent, LowerA, Colon, Space, LowerU, Equals, Quotes, UpperA
  <2>2. u \in Seq(Nat) /\ v \in Seq(Nat) /\ w \in Seq(Nat) /\ s \in Seq(Nat)
        /\ Len(u) = 3 /\ Len(v) = 2 /\ Len(w) = 4 /\ Len(s) = 9
    OBVIOUS
  <2>3. /\ u[1] = s[1] /\ u[2] = s[2] /\ u[3] = s[3] /\ v[1] = s[4] /\ v[2] = s[5]
        /\ w[1] = s[6] /\ w[2] = s[7] /\ w[3] = s[8] /\ w[4] = s[9]
    OBVIOUS
  <2> HIDE DEF u, v, w, s
  <2>4. /\ x \in Seq(Nat) /\ Len(x) = 5 /\ x[1] = s[1] /\ x[2] = s[2] /\ x[3] = s[3]
        /\ x[4] = s[4] /\ x[5] = s[5]
    <3>1. IsConcat(x, u, v, Nat)
      BY <2>2, ConcatFacts, Zenon
    <3> HIDE DEF x
    <3>2. /\ x \in Seq(Nat) /\ Len(x) = 3 + 2
          /\ \A i \in 1..3 : x[i] = u[i]
          /\ \A i \in 1..2 : x[3 + i] = v[i]
      BY <2>2, <3>1, Zenon DEF IsConcat
    <3>3. /\ Len(x) = 5 /\ x[1] = u[1] /\ x[2] = u[2] /\ x[3] = u[3]
          /\ x[3 + 1] = v[1] /\ x[3 + 2] = v[2]
      BY <3>2
    <3>4. x[4] = v[1] /\ x[5] = v[2]
      BY <3>3
    <3> QED
      BY <2>3, <3>2, <3>3, <3>4, Zenon
  <2> HIDE DEF x
  <2>5. /\ x \o w \in Seq(Nat) /\ Len(x \o w) = 9
        /\ \A i \in 1..9 : (x \o w)[i] = s[i]
    <3> DEFINE y == x \o w
    <3>1. IsConcat(y, x, w, Nat)
      BY <2>2, <2>4, ConcatFacts, Zenon
    <3> HIDE DEF y
    <3>2. /\ y \in Seq(Nat) /\ Len(y) = 5 + 4
          /\ \A i \in 1..5 : y[i] = x[i]
          /\ \A i \in 1..4 : y[5 + i] = w[i]
      BY <2>2, <2>4, <3>1, Zenon DEF IsConcat
    <3>3. /\ Len(y) = 9 /\ y[1] = x[1] /\ y[2] = x[2] /\ y[3] = x[3] /\ y[4] = x[4]
          /\ y[5] = x[5] /\ y[5 + 1] = w[1] /\ y[5 + 2] = w[2] /\ y[5 + 3] = w[3]
          /\ y[5 + 4] = w[4]
      BY <3>2
    <3>4. y[6] = w[1] /\ y[7] = w[2] /\ y[8] = w[3] /\ y[9] = w[4]
      BY <3>3
    <3>5. /\ y[1] = s[1] /\ y[2] = s[2] /\ y[3] = s[3] /\ y[4] = s[4] /\ y[5] = s[5]
          /\ y[6] = s[6] /\ y[7] = s[7] /\ y[8] = s[8] /\ y[9] = s[9]
      BY <2>3, <2>4, <3>3, <3>4, Zenon
    <3>6. \A i \in 1..9 : y[i] = s[i]
      BY <3>5
    <3> QED
      BY <3>2, <3>3, <3>6, Zenon DEF y
  <2>6. x \o w = s
    BY <2>2, <2>5, SeqEqual
  <2> QED
    BY <2>1, <2>6, Zenon
<1>2. s \in Seq(Nat) /\ Len(s) = 9 /\ s[2] = 58 /\ s[4] = 117
  OBVIOUS
<1>3. \A i \in 1..9 : s[i] \in Nat /\ s[i] < 256 /\ s[i] # 37 /\ s[i] # 43
  OBVIOUS
<1> HIDE DEF s
<1> QED
  BY <1>1, <1>2, <1>3 DEF IsPlain, Percent, Plus, Colon, LowerU

\* Its value is a text.
LEMMA ValueSent == ParseHeader(TypeSent)[2] \in Seq(Nat)
<1> DEFINE s     == TypeSent
           colon == Find(s, <<Colon>>)
           rest  == {i \in DOMAIN s : i > colon /\ s[i] \notin {Space, 9}}
           start == CHOOSE i \in rest : \A j \in rest : i <= j
           v     == From(s, start)
<1>1. /\ s \in Seq(Nat) /\ Len(s) = 9 /\ s[2] = Colon /\ s[4] = LowerU
      /\ \A i \in 1..9 : IsPlain(s[i])
  BY TypeSentIs, Zenon
<1>2. ParseHeader(s) =
        IF colon = 0 \/ rest = {} THEN <<>> ELSE <<SubSeq(s, 1, colon - 1), DecodeUrl(v, TRUE)>>
  BY Zenon DEF ParseHeader
<1> HIDE DEF s
<1>3. colon # 0 /\ colon \in Nat /\ colon <= 2
  <2> DEFINE p == <<Colon>>
  <2>1. p \in Seq(Nat) /\ Len(p) = 1 /\ p[1] = Colon
    BY DEF Colon
  <2> HIDE DEF p
  <2>2. IsFind(Find(s, p), s, p)
    BY <1>1, <2>1, FindFacts, Zenon
  <2>3. IsFind(colon, s, p)
    BY <2>2 DEF p
  <2> HIDE DEF colon
  <2>4. Holds(s, 1, p)
    BY <1>1, <2>1 DEF Holds
  <2>5. colon \in Nat /\ (colon = 0 => ~Holds(s, 1, p))
        /\ (colon # 0 => ~(1 < colon - 1))
    BY <2>3, <2>4 DEF IsFind
  <2> QED
    BY <2>4, <2>5
<1> HIDE DEF colon
<1>4. 4 \in rest /\ rest \in SUBSET (1..9)
  BY <1>1, <1>3 DEF LowerU, Space
<1> HIDE DEF rest
<1>5. start \in 1..9
  <2>1. rest \in SUBSET Nat /\ rest # {}
    BY <1>4
  <2>2. \E i \in rest : \A j \in rest : i <= j
    BY <2>1, Decoding!Least
  <2>3. start \in rest
    BY <2>2
  <2> QED
    BY <1>4, <2>3
<1> HIDE DEF start
<1>6. v \in Seq(Nat) /\ \A i \in 1..Len(v) : IsPlain(v[i])
  <2>1. /\ start \in Int /\ 9 \in Int /\ v = SubSeq(s, start, 9)
        /\ \A i \in start..9 : s[i] \in Nat
    <3>1. v = SubSeq(s, start, 9)
      BY <1>1, Zenon DEF From
    <3> HIDE DEF v
    <3>2. start \in Int /\ \A i \in start..9 : i \in 1..9
      BY <1>5
    <3>3. \A i \in start..9 : s[i] \in Nat
      BY <1>1, <3>2, Zenon DEF IsPlain
    <3> QED
      BY <3>1, <3>2, <3>3
  <2>2. /\ v \in Seq(Nat) /\ Len(v) = (IF start <= 9 THEN 9 - start + 1 ELSE 0)
        /\ \A i \in 1..(9 - start + 1) : v[i] = s[start + i - 1]
    BY <2>1, SubSeqProperties
  <2> HIDE DEF v
  <2>3. \A i \in 1..Len(v) : start + i - 1 \in 1..9 /\ v[i] = s[start + i - 1]
    <3> DEFINE l == 9 - start + 1
    <3>1. start <= 9 /\ \A i \in 1..l : start + i - 1 \in 1..9
      BY <1>5
    <3>2. Len(v) = l
      BY <2>2, <3>1, Zenon
    <3> QED
      BY <2>2, <3>1, <3>2, Zenon
  <2> QED
    BY <1>1, <2>2, <2>3, Zenon
<1> HIDE DEF v
<1>7. DecodeUrl(v, TRUE) \in Seq(Nat)
  BY <1>6, PlainIsRead, Zenon
<1>8. ParseHeader(s)[2] = DecodeUrl(v, TRUE)
  <2> DEFINE d == DecodeUrl(v, TRUE)
             k == SubSeq(s, 1, colon - 1)
  <2>1. ParseHeader(s) = <<k, d>>
    BY <1>2, <1>3, <1>4, Zenon
  <2> HIDE DEF d, k
  <2>2. <<k, d>>[2] = d
    OBVIOUS
  <2> QED
    BY <2>1, <2>2, Zenon DEF d
<1> QED
  BY <1>7, <1>8, Zenon DEF s

\* The boundary that is read from it is a text.
LEMMA BoundaryIsSent == BoundarySent \in Seq(Nat)
<1> DEFINE value == ParseHeader(TypeSent)[2]
           from  == Find(value, KeySent) + Len(KeySent)
           b     == From(value, from)
           c     == SubSeq(b, 2, Len(b) - 1)
<1>1. value \in Seq(Nat)
  BY ValueSent
<1> HIDE DEF value
<1>2. KeySent \in Seq(Nat) /\ Len(KeySent) = 2
  BY DEF KeySent, LowerU, Equals
<1>3. from \in Nat /\ from >= 2 /\ Len(value) \in Nat
  <2>1. IsFind(Find(value, KeySent), value, KeySent)
    BY <1>1, <1>2, FindFacts, Zenon
  <2>2. Find(value, KeySent) \in Nat
    BY <2>1, Zenon DEF IsFind
  <2> QED
    BY <1>1, <1>2, <2>2, LenProperties
<1> HIDE DEF from
<1>4. b \in Seq(Nat)
  <2>1. from \in Int /\ Len(value) \in Int /\ \A i \in from..Len(value) : value[i] \in Nat
    BY <1>1, <1>3, ElementOfSeq
  <2> QED
    BY <2>1, SubSeqProperties DEF From
<1> HIDE DEF b
<1>5. c \in Seq(Nat)
  <2> DEFINE m == Len(b) - 1
  <2>1. Len(b) \in Nat
    BY <1>4, LenProperties
  <2>2. 2 \in Int /\ m \in Int /\ \A i \in 2..m : b[i] \in Nat
    BY <1>4, <2>1, ElementOfSeq
  <2> HIDE DEF m
  <2>3. SubSeq(b, 2, m) \in Seq(Nat)
    BY <2>2, SubSeqProperties
  <2> QED
    BY <2>3 DEF m
<1>6. BoundarySent = b \/ BoundarySent = c
  BY Zenon DEF BoundarySent, BoundaryOf, value, from, b
<1> QED
  BY <1>4, <1>5, <1>6, Zenon

\* What the texts of the property are free of.
AllInEnd(w) == \A c \in Range(w) : c \in {CR, LF, Dash}

\* Such a text is clear of what may be taken for a boundary.
LEMMA TextIsClear ==
    ASSUME NEW t \in Seq(Nat), NEW b \in Seq(Nat), Find(t, CRLF \o Dashes) = 0,
           \A i \in 1..(Len(t) - Len(b)) : ~AllInEnd(SubSeq(t, i, i + Len(b)))
    PROVE  Clear(t, b)
<1> DEFINE lt == Len(t)
           lb == Len(b)
           mark == CRLF \o Dashes
<1>1. lt \in Nat /\ lb \in Nat /\ mark \in Seq(Nat)
  BY LenProperties, MarkFacts
<1>2. \A a \in Nat : ~Holds(t, a, mark)
  <2> HIDE DEF mark
  <2>1. IsFind(Find(t, mark), t, mark)
    BY <1>1, FindFacts, Zenon
  <2> QED
    BY <2>1, Zenon DEF IsFind, mark
<1>3. ASSUME NEW a \in Nat, a + lb < lt PROVE \E i \in 1..(lb + 1) : ~InEnd(t[a + i])
  <2> DEFINE z == a + 1 + lb
             w == Window(t, a, z)
  <2>1. z \in Nat /\ a <= z /\ z <= lt /\ a + 1 \in 1..(lt - lb) /\ z - a = lb + 1
    BY <1>1, <1>3
  <2> HIDE DEF lt, lb
  <2>2. w = SubSeq(t, a + 1, z)
    BY Zenon DEF Window
  <2>3. ~AllInEnd(SubSeq(t, a + 1, a + 1 + lb))
    BY <2>1, Zenon DEF lt, lb
  <2>4. ~AllInEnd(w)
    BY <2>2, <2>3, Zenon
  <2>5. IsWindow(w, t, a, z, Nat)
    BY <2>1, WindowFacts, Zenon DEF lt
  <2> HIDE DEF z, w
  <2>6. w \in Seq(Nat) /\ Len(w) = lb + 1 /\ \A i \in 1..(lb + 1) : w[i] = t[a + i]
    BY <2>1, <2>5, Zenon DEF IsWindow
  <2>7. DOMAIN w = 1..(lb + 1)
    BY <1>1, <2>6, LenProperties
  <2>8. PICK i \in DOMAIN w : w[i] \notin {CR, LF, Dash}
    BY <2>4, Zenon DEF AllInEnd, Range
  <2>9. i \in 1..(lb + 1) /\ ~InEnd(t[a + i])
    BY <2>6, <2>7, <2>8, Zenon DEF InEnd
  <2> QED
    BY <2>9, Zenon
<1> QED
  BY <1>2, <1>3, Zenon DEF Clear, lt, lb, mark

\* So is a single letter.
LEMMA LetterIsClear == ASSUME NEW b \in Seq(Nat) PROVE Clear(<<UpperA>>, b)
<1> DEFINE t == <<UpperA>>
<1>1. t \in Seq(Nat) /\ Len(t) = 1 /\ t[1] = 65 /\ Len(b) \in Nat
  BY LenProperties DEF UpperA
<1>2. Len(CRLF \o Dashes) = 4
  BY MarkFacts
<1> HIDE DEF t
<1>3. \A a \in Nat : ~Holds(t, a, CRLF \o Dashes)
  BY <1>1, <1>2 DEF Holds
<1>4. ASSUME NEW a \in Nat, a + Len(b) < Len(t)
      PROVE  \E i \in 1..(Len(b) + 1) : ~InEnd(t[a + i])
  <2>1. a + 1 = 1 /\ 1 \in 1..(Len(b) + 1)
    BY <1>1, <1>4
  <2>2. ~InEnd(t[1])
    BY <1>1 DEF InEnd, CR, LF, Dash
  <2> QED
    BY <2>1, <2>2, Zenon
<1> QED
  BY <1>3, <1>4, Zenon DEF Clear, t

\* The form that is sent.
ContentsSent(t) == <<t, <<UpperA>>>>
FormSent(t)     == Form(ContentsSent(t), <<LowerA>>, BoundarySent)

\* The contents of the form that is sent.
LEMMA ContentsAre ==
    ASSUME NEW t \in Seq(Nat)
    PROVE  /\ ContentsSent(t) \in Seq(Seq(Nat)) /\ Len(ContentsSent(t)) = 2
           /\ ContentsSent(t)[1] = t /\ ContentsSent(t)[2] = <<UpperA>>
<1> DEFINE T == Seq(Nat)
           u == <<UpperA>>
<1>1. t \in T /\ u \in T
  BY DEF UpperA
<1> HIDE DEF T, u
<1>2. <<t, u>> \in Seq(T) /\ Len(<<t, u>>) = 2 /\ <<t, u>>[1] = t /\ <<t, u>>[2] = u
  BY <1>1
<1> QED
  BY <1>2, Zenon DEF T, u, ContentsSent

\* Its header line.
LEMMA HeaderIs ==
    <<LowerA>> \in Seq(Nat) /\ Len(<<LowerA>>) = 1 /\ <<LowerA>>[1] # CR
  BY DEF LowerA, CR

\* The form that is sent is read back, whatever the pieces in which it comes.
LEMMA SentIsParsed ==
    ASSUME NEW t \in Seq(Nat), Clear(t, BoundarySent)
    PROVE  /\ FormSent(t) \in Seq(Nat)
           /\ \A pieces : IsWhole(pieces, FormSent(t), Nat) =>
                 IsParsed(ParseAll(pieces, BoundarySent), ContentsSent(t))
<1> DEFINE cs == ContentsSent(t)
           h  == <<LowerA>>
           b  == BoundarySent
<1>1. /\ cs \in Seq(Seq(Nat)) /\ Len(cs) = 2 /\ cs[1] = t /\ cs[2] = <<UpperA>>
      /\ h \in Seq(Nat) /\ Len(h) = 1 /\ h[1] # CR /\ b \in Seq(Nat)
  BY ContentsAre, HeaderIs, BoundaryIsSent, Zenon
<1>2. FormSent(t) = Form(cs, h, b)
  BY Zenon DEF FormSent
<1> HIDE DEF cs, h, b
<1>3. Clear(t, b) /\ Clear(<<UpperA>>, b)
  BY <1>1, LetterIsClear, Zenon DEF b
<1>4. /\ Len(cs) >= 1 /\ Len(h) >= 1 /\ \A i \in 1..Len(h) : h[i] # CR
      /\ \A k \in 1..Len(cs) : Clear(cs[k], b)
  <2>1. \A i \in 1..Len(h) : i = 1
    BY <1>1
  <2>2. \A k \in 1..Len(cs) : k = 1 \/ k = 2
    BY <1>1
  <2>3. Len(cs) >= 1 /\ Len(h) >= 1
    BY <1>1
  <2> QED
    BY <1>1, <1>3, <2>1, <2>2, <2>3, Zenon
<1>5. Form(cs, h, b) \in Seq(Nat)
  <2>1. AreParts(Form(cs, h, b), cs, h, b, Len(cs))
    BY <1>1, FormApart, Zenon
  <2> QED
    BY <2>1, Zenon DEF AreParts
<1>6. ASSUME NEW pieces, IsWhole(pieces, FormSent(t), Nat)
      PROVE  IsParsed(ParseAll(pieces, b), cs)
  <2>1. pieces \in Seq(Seq(Nat)) /\ FlattenSeq(pieces) = Form(cs, h, b)
    BY <1>2, <1>6, Zenon DEF IsWhole
  <2> QED
    BY <1>1, <1>4, <2>1, FormsAreReadBack, Zenon
<1> QED
  BY <1>2, <1>5, <1>6, Zenon DEF b, cs

\* A form is taken apart into its contents however it is cut in two, and byte by byte,
\* for texts of any length (parse_header, parse_multipart_boundary,
\* MultipartFormDataParser::parse).
THEOREM FormsAreTakenApart == Spec => []FormsInPieces
<1>1. TypeOK => FormsInPieces
  <2> DEFINE t        == text
             form     == FormSent(t)
             clear    == /\ Find(t, CRLF \o Dashes) = 0
                         /\ \A i \in 1..(Len(t) - Len(BoundarySent)) :
                               ~AllInEnd(SubSeq(t, i, i + Len(BoundarySent)))
             right(p) == p.valid /\ p.parts = ContentsSent(t)
  <2> SUFFICES ASSUME TypeOK, About("form"), clear
               PROVE  /\ \A i \in 0..Len(form) :
                            right(ParseAll(<<SubSeq(form, 1, i), From(form, i + 1)>>,
                                           BoundarySent))
                      /\ right(ParseAll([i \in DOMAIN form |-> <<form[i]>>], BoundarySent))
    BY Zenon DEF FormsInPieces, FormSent, ContentsSent, BoundarySent, TypeSent, KeySent,
                 AllInEnd
  <2>1. t \in Seq(Nat)
    <3>1. t \in Seq(Alphabet["form"]) /\ Alphabet["form"] \subseteq Nat
      BY AlphabetAssumption DEF TypeOK, About
    <3> QED
      BY <3>1, SeqMonotonic
  <2> HIDE DEF t
  <2>2. Clear(t, BoundarySent)
    BY <2>1, BoundaryIsSent, TextIsClear, Zenon
  <2>3. /\ form \in Seq(Nat)
        /\ \A pieces : IsWhole(pieces, form, Nat) =>
              IsParsed(ParseAll(pieces, BoundarySent), ContentsSent(t))
    BY <2>1, <2>2, SentIsParsed, Zenon
  <2> HIDE DEF form
  <2>4. ASSUME NEW pieces, IsWhole(pieces, form, Nat)
        PROVE  right(ParseAll(pieces, BoundarySent))
    <3>1. IsParsed(ParseAll(pieces, BoundarySent), ContentsSent(t))
      BY <2>3, <2>4, Zenon
    <3> QED
      BY <3>1, Zenon DEF IsParsed
  <2> HIDE DEF right
  <2>5. ASSUME NEW i \in 0..Len(form)
        PROVE  right(ParseAll(<<SubSeq(form, 1, i), From(form, i + 1)>>, BoundarySent))
    <3>1. IsWhole(<<SubSeq(form, 1, i), From(form, i + 1)>>, form, Nat)
      BY <2>3, CutInTwo, Zenon
    <3> QED
      BY <2>4, <3>1, Zenon
  <2>6. right(ParseAll([i \in DOMAIN form |-> <<form[i]>>], BoundarySent))
    <3>1. IsWhole([i \in DOMAIN form |-> <<form[i]>>], form, Nat)
      BY <2>3, ByteByByte, Zenon
    <3> QED
      BY <2>4, <3>1, Zenon
  <2> QED
    BY <2>5, <2>6, Zenon
<1> QED
  BY <1>1, AlgorithmsTypeCorrect, PTL
=============================================================================

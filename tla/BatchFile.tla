----------------------------- MODULE BatchFile -----------------------------
(***************************************************************************)
(* The numbers a user types, on their way to the server: the form of the   *)
(* batch editor, the file it writes, sbatch, and sleep (client/index.js,   *)
(* server.cpp).  A number is <<n>>, what is not one is <<>>.               *)
(***************************************************************************)
EXTENDS HttpText

NaN == <<>>

\* parseInt: spaces, a sign, and the digits that follow (of base 10 here).
ParseInt(s) ==
    LET t      == Trim(s)
        signed == t # <<>> /\ t[1] \in {Plus, Dash}
        tail   == IF signed THEN Tail(t) ELSE t
        stop   == SelectInSeq(tail, LAMBDA c : c \notin Zero..Nine)
        digits == IF stop = 0 THEN tail ELSE SubSeq(tail, 1, stop - 1)
        value  == Number(digits, 10)
    IN  IF digits = <<>> THEN NaN
        ELSE <<IF signed /\ t[1] = Dash THEN -value ELSE value>>

Decimal(n) == Digits(n, 10)

\* toString
NumberText(v) ==
    CASE v = NaN                 -> <<78, 97, 78>>
      [] v # NaN /\ v[1] < 0     -> <<Dash>> \o Decimal(-v[1])
      [] OTHER                   -> Decimal(v[1])

padZero(s) == IF Len(s) = 1 THEN <<Zero>> \o s ELSE s

-----------------------------------------------------------------------------
(* The batch editor: four fields, and the lines of the file that hold them, *)
(* the second and the fifth.                                                *)

Colons(parts) == parts[1] \o <<Colon>> \o parts[2] \o <<Colon>> \o parts[3]

AtLeast(v, n) == v # NaN /\ v[1] >= n

\* Mutant of SaveDisabled: looks for what is not a number only.
SaveDisabledNaN(nodes, hms) == nodes = NaN \/ NaN \in Range(hms)

\* A field is marked: it is no number, too small, or the whole time is 0.  (The marks
\* of a negative number of seconds go to the minutes.)
SaveDisabled(nodes, hms) ==
    \/ ~AtLeast(nodes, 1)
    \/ \E i \in DOMAIN hms : ~AtLeast(hms[i], 0)
    \/ \A i \in DOMAIN hms : hms[i] = <<0>>

\* changeBatch: the text the editor shows, and whether it can be saved.
ChangeBatch(fields) ==
    LET nodes == ParseInt(fields.nodes)
        hms   == [i \in 1..3 |-> ParseInt(fields.time[i])]
    IN  [disabled |-> SaveDisabled(nodes, hms),
         file |-> [nodes |-> NumberText(nodes),
                   time  |-> Colons([i \in 1..3 |-> padZero(NumberText(hms[i]))])]]

\* editBatchFile: the fields that a file gives.
EditBatchFile(file) == [nodes |-> Trim(file.nodes), time |-> Split(file.time, Colon)]

\* sendBatch: what a file asks for; and the minutes that addJob makes of the seconds.
SendBatch(file) ==
    LET dur == [i \in DOMAIN Split(file.time, Colon) |-> ParseInt(Split(file.time, Colon)[i])]
    IN  [nodes |-> ParseInt(file.nodes)[1],
         sec   |-> (3600 * dur[1][1]) + (60 * dur[2][1]) + dur[3][1]]

Minutes(sec) == (sec + 59) \div 60

-----------------------------------------------------------------------------
(* sleep [[h:]m:]s                                                         *)

\* What may be asked of each unit.
Limit(unit) == CASE unit = 1 -> 1000000 [] unit = 60 -> 10000 [] unit = 3600 -> 100

\* The seconds of the unit that the i-th of the tokens counts.
Unit(tokens, i) == <<3600, 60, 1>>[i + 3 - Len(tokens)]

SleepRound(tokens, sum, i) == sum + (Unit(tokens, i) * ParseInt(tokens[i])[1])
Timing == INSTANCE Loops WITH Round <- SleepRound

\* processCommand: the seconds to sleep, or none if the argument is no good.
SleepTime(tokens) ==
    LET n    == Len(tokens)
        good == /\ n <= 3
                /\ \A i \in 1..n : LET v == ParseInt(tokens[i])
                                    IN  AtLeast(v, 0) /\ v[1] <= Limit(Unit(tokens, i))
    IN  IF good THEN <<Timing!Loop(tokens, 0, n)>> ELSE NaN

\* addTime: the milliseconds of the increment are an int.
Overflows(increment) == increment > 2147483647 \div 1000
=============================================================================

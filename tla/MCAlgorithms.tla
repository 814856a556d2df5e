---------------------------- MODULE MCAlgorithms ----------------------------
(* Values of the constants of Algorithms that a cfg cannot write.          *)
EXTENDS Algorithms

MCSubjects == {"url", "code", "path", "chunks", "form", "sizes", "rand", "nodes",
               "fields", "sleep"}

MCAlphabet ==
    [url    |-> {Space, Plus, Percent, LowerU, Zero + 4, Equals, Amp, 233},
     code   |-> {1, 127, 128, 2047, 2048, 55295, 55296, 57343, 57344, 65535},
     path   |-> {Dot, Slash, LowerA},
     chunks |-> {1, 2, 15, 16, 17, 33},
     form   |-> {LowerA, CR, LF, Dash},
     sizes  |-> {1, 2, 6, 7, 9} \X {1, 2} \X {1, 2, 3},
     rand   |-> {0, 3, 31000, 31001, 2147483647},
     nodes  |-> {1, 2, 4, 31, 32, 33, 64},
     fields |-> {<<>>, <<Zero>>, <<Zero + 7>>, <<Zero, Zero + 8>>, <<Nine, Nine>>,
                 <<Dash, Zero + 1>>, <<Zero + 1, LowerA>>, <<LowerA>>},
     sleep  |-> {<<>>, <<LowerA>>, <<Dash, Zero + 1>>}
                    \cup {Decimal(n) : n \in {0, 100, 101, 10000, 10001, 1000000, 1000001}}]

MCMaxLength ==
    [url |-> 5, code |-> 1, path |-> 8, chunks |-> 3, form |-> 5,
     sizes |-> 1, rand |-> 3, nodes |-> 1, fields |-> 4, sleep |-> 4]
=============================================================================

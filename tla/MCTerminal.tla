----------------------------- MODULE MCTerminal -----------------------------
(* Values of the constants of Terminal that a cfg cannot write. *)
EXTENDS Terminal

MCArguments ==
    {[absolute |-> FALSE, parts |-> <<p>>] : p \in {"a.slurm", "j.out", Up}}
    \cup {[absolute |-> TRUE, parts |-> s] :
             s \in {<<"a.slurm">>, <<pp_name>>}}

MCFewArguments == {[absolute |-> FALSE, parts |-> <<p>>] : p \in {"a.slurm", "j.out"}}
=============================================================================

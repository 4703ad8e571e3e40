------------------------------ MODULE MCUtils -------------------------------
(***************************************************************************)
(* Short texts and configuration files for TLC, with a 4-bit int and a     *)
(* 5-bit size_t.                                                           *)
(***************************************************************************)
EXTENDS UtilsCorrectness

McTokens == {Bar, Newline, Word("xxx"), Number(3)}

McNumbers == {-8, -1, 0, 3, 4, 7}

McElements ==
    [name : {"client"}, key : {<<Word("xxx")>>, <<Word("yyy")>>}, complete : {TRUE},
     limits : {[memory_limit |-> 3, cpu_limit |-> 0, processes_limit |-> 7],
               [memory_limit |-> 4, cpu_limit |-> 1, processes_limit |-> 3]}]
    \cup {[name |-> "<xmlcomment>", key |-> <<Word("xxx")>>, complete |-> FALSE,
           limits |-> NoLimits]}
=============================================================================

------------------------------ MODULE MCSystem ------------------------------
(***************************************************************************)
(* A small instance of client and server for TLC.                          *)
(***************************************************************************)
EXTENDS SysInfoSystem

KeyX == <<Word("xxx")>>
KeyU == <<Word("unknown")>>

McConfigFiles ==
    {<< [name |-> "client", key |-> KeyX, complete |-> TRUE,
         limits |-> [memory_limit |-> 3, cpu_limit |-> 5, processes_limit |-> 5]] >>}

Report(k, m) == [key |-> k, memory |-> m, cpu |-> 2, processes |-> 3, time |-> "noon"]

\* What the client reports under either key.
McReports == {Report(KeyX, 4), Report(KeyU, 1)}

McClientKeys == {KeyX, KeyU}

\* Lines arrive whole, so that none of this is ever read.
McJunk == {[curr_memory_pct |-> 7, curr_cpu_pct |-> 7, curr_processes_cnt |-> 7,
            str_dt_time |-> <<Word("junk")>>]}
=============================================================================

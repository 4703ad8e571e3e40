------------------------------ MODULE MCServer ------------------------------
(***************************************************************************)
(* Small instances of the server for TLC.  int is scaled to 4 bits and     *)
(* size_t to 5.                                                            *)
(***************************************************************************)
EXTENDS ServerCorrectness

KeyX == <<Word("xxx")>>
KeyU == <<Word("unknown")>>

Limits(m) == [memory_limit |-> m, cpu_limit |-> 5, processes_limit |-> 5]

\* The element for xxx appears twice, as after an edit; the last one counts.
GoodFile ==
    << [name |-> "client", key |-> KeyX, limits |-> Limits(1), complete |-> TRUE],
       [name |-> "comment", key |-> KeyU, limits |-> Limits(0), complete |-> FALSE],
       [name |-> "client", key |-> KeyX, limits |-> Limits(3), complete |-> TRUE] >>

\* An element without its limits.
BadFile == << [name |-> "client", key |-> KeyX, limits |-> Limits(0), complete |-> FALSE] >>

McConfigFiles == {GoodFile, BadFile}

Report(k, m) == [key |-> k, memory |-> m, cpu |-> 2, processes |-> 3, time |-> "noon"]

\* A report with a configured key, and one with an unknown key.
McReports == {Report(KeyX, 4), Report(KeyU, 1)}

\* A number below zero becomes a large size_t, which the column refuses.
McSignedReports == {Report(KeyX, 4), Report(KeyX, -1), Report(KeyU, 1)}

\* An unknown key whose two halves are a configured one: cut there, the rest is a
\* complete line of that client.
McSplitReports == {Report(KeyX \o KeyX, 1)}

McKnownReports == {Report(KeyX, 4)}

McJunk == {[curr_memory_pct |-> 7, curr_cpu_pct |-> 7, curr_processes_cnt |-> 7,
            str_dt_time |-> <<Word("junk")>>]}
=============================================================================

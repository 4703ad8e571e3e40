-------------------------- MODULE UtilsCorrectness --------------------------
(***************************************************************************)
(* The functions of utils.cpp against reference definitions.  The machine  *)
(* grows either a text, read as a line or as a client key, or the elements *)
(* of a configuration file, so that TLC visits every short one.            *)
(***************************************************************************)
EXTENDS SysInfoUtils

CONSTANTS
    Tokens,      \* what texts are made of
    MaxTokens,   \* bound on the length of a text
    Elements,    \* what configuration files are made of
    MaxElements, \* bound on the number of elements
    Numbers      \* the numbers that are reported

\* The reported numbers are ints.  A client element has a key that a line can
\* carry, and limits that no number below zero is taken for.
ASSUME UtilsAssumption ==
    /\ IntMax >= 1
    /\ Numbers \subseteq (-(IntMax + 1))..IntMax
    /\ \A e \in Elements :
          e.name = "client" =>
              /\ e.key \in Seq(Range(e.key)) /\ ~ Contains(e.key, Bar)
              /\ {e.limits.memory_limit, e.limits.cpu_limit, e.limits.processes_limit}
                    \subseteq 0..(SizeMod - IntMax - 2)

VARIABLES text, xml

vars == <<text, xml>>

Init == text = << >> /\ xml = << >>

GrowText ==
    /\ xml = << >> /\ Len(text) < MaxTokens
    /\ \E token \in Tokens : text' = Append(text, token)
    /\ UNCHANGED xml

GrowFile ==
    /\ text = << >> /\ Len(xml) < MaxElements
    /\ \E element \in Elements : xml' = Append(xml, element)
    /\ UNCHANGED text

Next == GrowText \/ GrowFile

Spec == Init /\ [][Next]_vars

NoJunk == [curr_memory_pct |-> 0, curr_cpu_pct |-> 0, curr_processes_cnt |-> 0,
           str_dt_time |-> << >>]

Fits(n) == n \in 0..IntMax

-----------------------------------------------------------------------------
\* Two fields, or what was joined before and a field, with the delimiter between.
Joined(a, b) == a \o <<Bar>> \o b

\* split cuts at every delimiter and nowhere else: its fields hold none, and
\* joined with the delimiter they give the line back.
SplitIsInverseOfJoin ==
    LET fields == split(text)
    IN  /\ \A i \in DOMAIN fields : ~ Contains(fields[i], Bar)
        /\ FoldLeft(Joined, fields[1], Tail(fields)) = text

\* From the client's generate_random_sys_info_data to the row: what the table
\* accepts is what was reported, under the reported key, and a number that does
\* not survive the conversions through int and size_t is refused.  A key that
\* contains the delimiter is never stored or looked up under its own name.
RowsSurviveTheWire ==
    \A m, p \in Numbers :
        LET line == generate_random_sys_info_data(text, m, 1, p, "noon")
            row  == generate_insert_str_for(parse_to_client_detail(line, NoJunk))
        IN  /\ ~ IsShort(line)
            /\ Contains(text, Bar) <=> row.CLIENT_KEY # text
            /\ ~ Contains(text, Bar) =>
                  /\ FitsColumns(row) <=> Fits(m) /\ Fits(p)
                  /\ FitsColumns(row) =>
                        row = [CLIENT_KEY |-> text, MEMORY_PCT |-> m, CPU_PCT |-> 1,
                               NO_PROCESSES |-> p, DT_TIME |-> <<Word("noon")>>]

\* One assignment to the map, as reading an element makes it.
Assigned(clients, e) ==
    IF e.name = "client"
    THEN [k \in DOMAIN clients \cup {e.key} |-> IF k = e.key THEN e.limits ELSE clients[k]]
    ELSE clients

\* The map a configuration file gives is what its elements, assigned one after
\* the other, leave: a later client element replaces the limits of an earlier
\* one, and other elements have no effect.
ConfigIsLastAssignment ==
    get_authorized_clients_and_details(xml) = FoldLeft(Assigned, << >>, xml)

\* An email is due exactly when a reported number is above the limit that the
\* file's last element for the key sets.  A number below zero, which size_t
\* turns into a large one, always is.
EmailIffLimitCrossed ==
    LET clients == get_authorized_clients_and_details(xml)
    IN  \A key \in DOMAIN clients, m, p \in Numbers :
            LET line  == generate_random_sys_info_data(key, m, 1, p, "noon")
                above(n, limit) == n < 0 \/ n > limit
            IN  should_send_email(clients, key, parse_to_client_detail(line, NoJunk))
                  <=> \/ above(m, clients[key].memory_limit)
                      \/ above(1, clients[key].cpu_limit)
                      \/ above(p, clients[key].processes_limit)
=============================================================================

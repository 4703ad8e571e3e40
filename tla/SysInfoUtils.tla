---------------------------- MODULE SysInfoUtils ----------------------------
(***************************************************************************)
(* The functions of utils.cpp, shared by the server and the client.        *)
(*                                                                         *)
(* Text is a sequence of tokens: the delimiter, a newline, a word, or a    *)
(* decimal number.  Adjacent words and numbers are set apart by a blank; a *)
(* cut inside one is not represented.                                      *)
(***************************************************************************)
EXTENDS Integers, Sequences, FiniteSets, SequencesExt

CONSTANTS
    IntMax,   \* INT_MAX, also the largest value of a PostgreSQL INTEGER column
    SizeMod   \* 2^w, w the width of std::size_t

ASSUME WidthAssumption ==
    /\ IntMax \in Nat
    /\ SizeMod \in Nat
    /\ SizeMod >= 2 * (IntMax + 1)

Bar       == <<"|">>
Newline   == <<"newline">>
Word(w)   == <<"word", w>>
Number(n) == <<"number", n>>

\* The line a client sends; asctime() ends its text with a newline.
generate_random_sys_info_data(client_key, memory, cpu, processes, time) ==
    client_key \o << Bar, Number(memory), Bar, Number(cpu), Bar,
                     Number(processes), Bar, Word(time), Newline >>

\* The number of a set that has k smaller ones in it.
Nth(S, k) == CHOOSE i \in S : Cardinality({j \in S : j < i}) = k

\* Mutant of split: a trailing empty field is dropped.
DropsLastEmpty(line) ==
    LET ends == ({i \in DOMAIN line : line[i] = Bar} \ {Len(line)}) \cup {0, Len(line) + 1}
    IN  [k \in 1..(Cardinality(ends) - 1) |->
            SubSeq(line, Nth(ends, k - 1) + 1, Nth(ends, k) - 1)]

\* boost::split on is_any_of("|"): always at least one field.
split(line) ==
    LET ends == {i \in DOMAIN line : line[i] = Bar} \cup {0, Len(line) + 1}
    IN  [k \in 1..(Cardinality(ends) - 1) |->
            SubSeq(line, Nth(ends, k - 1) + 1, Nth(ends, k) - 1)]

\* boost::replace_all of a token by nothing.
replace_all(field, token) ==
    LET kept == {i \in DOMAIN field : field[i] # token}
    IN  [k \in 1..Cardinality(kept) |-> field[Nth(kept, k - 1)]]

\* atoi: skips white space, then reads a number, and is 0 where there is none.
atoi(field) ==
    LET i == SelectInSeq(field, LAMBDA token : token # Newline)
    IN  IF i # 0 /\ field[i] \in {"number"} \X Int THEN field[i][2] ELSE 0

\* The conversion of an int to std::size_t.
to_size(n) == n % SizeMod

\* Mutant of FieldCount: the parser reads info[5].
OneFieldMore == 6

FieldCount == 5

\* Fewer fields than info[4] needs: the code indexes past the vector's end.
IsShort(line) == Len(split(line)) < FieldCount

\* Mutant of parse_to_client_detail: the newline of asctime() is kept.
KeepsNewline(line, junk) ==
    LET info == split(line)
        Size(i, otherwise) ==
            IF i <= Len(info) THEN to_size(atoi(info[i])) ELSE otherwise
    IN  [ client_key         |-> info[1],
          curr_memory_pct    |-> Size(2, junk.curr_memory_pct),
          curr_cpu_pct       |-> Size(3, junk.curr_cpu_pct),
          curr_processes_cnt |-> Size(4, junk.curr_processes_cnt),
          str_dt_time        |-> IF 5 <= Len(info) THEN info[5] ELSE junk.str_dt_time ]

\* A field past the end is an arbitrary value, here that of junk.
parse_to_client_detail(line, junk) ==
    LET info == split(line)
        Size(i, otherwise) ==
            IF i <= Len(info) THEN to_size(atoi(info[i])) ELSE otherwise
    IN  [ client_key         |-> info[1],
          curr_memory_pct    |-> Size(2, junk.curr_memory_pct),
          curr_cpu_pct       |-> Size(3, junk.curr_cpu_pct),
          curr_processes_cnt |-> Size(4, junk.curr_processes_cnt),
          str_dt_time        |-> IF 5 <= Len(info) THEN replace_all(info[5], Newline)
                                 ELSE junk.str_dt_time ]

\* Mutant of generate_insert_str_for: two columns swapped.
SwapsColumns(c_detail) ==
    [ CLIENT_KEY   |-> c_detail.client_key,
      MEMORY_PCT   |-> c_detail.curr_cpu_pct,
      CPU_PCT      |-> c_detail.curr_memory_pct,
      NO_PROCESSES |-> c_detail.curr_processes_cnt,
      DT_TIME      |-> c_detail.str_dt_time ]

\* The row the INSERT statement names, one column per value of the struct.
generate_insert_str_for(c_detail) ==
    [ CLIENT_KEY   |-> c_detail.client_key,
      MEMORY_PCT   |-> c_detail.curr_memory_pct,
      CPU_PCT      |-> c_detail.curr_cpu_pct,
      NO_PROCESSES |-> c_detail.curr_processes_cnt,
      DT_TIME      |-> c_detail.str_dt_time ]

\* PostgreSQL refuses a number outside the range of the column's type.
FitsColumns(row) ==
    \A v \in {row.MEMORY_PCT, row.CPU_PCT, row.NO_PROCESSES} : v <= IntMax

-----------------------------------------------------------------------------
(* The authorized clients: a map from client key to limits.                *)

\* server_config.xml is a sequence of elements [name, key, limits, complete];
\* an element with a missing child makes ptree throw.
ConfigThrows(xml) ==
    \E i \in DOMAIN xml : xml[i].name = "client" /\ ~ xml[i].complete

\* Mutant of get_authorized_clients_and_details: map::insert keeps the first.
FirstElementWins(xml) ==
    LET clients  == {i \in DOMAIN xml : xml[i].name = "client"}
        first(k) == Min({i \in clients : xml[i].key = k})
    IN  [k \in {xml[i].key : i \in clients} |-> xml[first(k)].limits]

\* Every element assigns its entry: the last one with a key wins.
get_authorized_clients_and_details(xml) ==
    LET clients == {i \in DOMAIN xml : xml[i].name = "client"}
        last(k) == Max({i \in clients : xml[i].key = k})
    IN  [k \in {xml[i].key : i \in clients} |-> xml[last(k)].limits]

\* Mutant of is_client_authorized: find() == end() for find() != end().
UnknownIsAuthorized(authorized_clients, client_key) ==
    client_key \notin DOMAIN authorized_clients

is_client_authorized(authorized_clients, client_key) ==
    client_key \in DOMAIN authorized_clients

NoLimits == [memory_limit |-> 0, cpu_limit |-> 0, processes_limit |-> 0]

\* std::map::operator[] enters a value-initialized entry for an absent key.
Subscripted(authorized_clients, client_key) ==
    [k \in DOMAIN authorized_clients \cup {client_key} |->
        IF k \in DOMAIN authorized_clients THEN authorized_clients[k] ELSE NoLimits]

\* Mutant of should_send_email: a limit that is only reached.
EmailAtLimit(authorized_clients, client_key, c_detail) ==
    LET c_config == Subscripted(authorized_clients, client_key)[client_key]
    IN  \/ c_detail.curr_memory_pct >= c_config.memory_limit
        \/ c_detail.curr_cpu_pct > c_config.cpu_limit
        \/ c_detail.curr_processes_cnt > c_config.processes_limit

should_send_email(authorized_clients, client_key, c_detail) ==
    LET c_config == Subscripted(authorized_clients, client_key)[client_key]
    IN  \/ c_detail.curr_memory_pct > c_config.memory_limit
        \/ c_detail.curr_cpu_pct > c_config.cpu_limit
        \/ c_detail.curr_processes_cnt > c_config.processes_limit
=============================================================================

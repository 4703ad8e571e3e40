----------------------------- MODULE Collector ------------------------------
(***************************************************************************)
(* What the server promises, without threads, sockets, operations or main: *)
(* it takes one report at a time, of a client it knows, stores or loses    *)
(* it, acknowledges it, and closes only between two reports.               *)
(***************************************************************************)
EXTENDS Integers, Sequences

CONSTANTS
    Conns,  \* the connections that reports come from
    Keys    \* the client keys of the configuration

VARIABLES
    phase,  \* "open" or "closed"
    job,    \* NoJob, or the report in hand: [conn, row, done]
    table,  \* what was stored, in order: [conn, row]
    lost,   \* per connection, the accepted reports that are not in the table
    acks    \* per connection, the acknowledged reports

vars == <<phase, job, table, lost, acks>>

NoJob == << >>

Init ==
    /\ phase = "open" /\ job = NoJob /\ table = << >>
    /\ lost = [c \in Conns |-> 0] /\ acks = [c \in Conns |-> 0]

\* A report is taken in hand.  The insertion may be dropped at once.
Accept ==
    /\ phase = "open" /\ job = NoJob /\ job' # NoJob
    /\ job'.conn \in Conns /\ job'.row.CLIENT_KEY \in Keys
    /\ \/ ~ job'.done /\ UNCHANGED lost
       \/ job'.done /\ lost' = [lost EXCEPT ![job'.conn] = @ + 1]
    /\ UNCHANGED <<phase, table, acks>>

Resolve ==
    /\ job # NoJob /\ ~ job.done
    /\ job' = [job EXCEPT !.done = TRUE]
    /\ \/ /\ table' = Append(table, [conn |-> job.conn, row |-> job.row])
          /\ UNCHANGED lost
       \/ /\ lost' = [lost EXCEPT ![job.conn] = @ + 1]
          /\ UNCHANGED table
    /\ UNCHANGED <<phase, acks>>

Acknowledge ==
    /\ job # NoJob /\ job.done
    /\ acks' = [acks EXCEPT ![job.conn] = @ + 1]
    /\ job' = NoJob
    /\ UNCHANGED <<phase, table, lost>>

Close ==
    /\ phase = "open" /\ job = NoJob
    /\ phase' = "closed"
    /\ UNCHANGED <<job, table, lost, acks>>

Next == Accept \/ Resolve \/ Acknowledge \/ Close

Spec == Init /\ [][Next]_vars

\* A report in hand is resolved and acknowledged, also when the server is told
\* to stop meanwhile.
FairSpec == Spec /\ WF_vars(Resolve \/ Acknowledge)
=============================================================================

---------------------------- MODULE ServerProofs ----------------------------
(***************************************************************************)
(* The safety of the server process, for every set of connections, every   *)
(* set of reports and every bound.                                         *)
(***************************************************************************)
EXTENDS ServerCorrectness, ParsingProofs

USE DEF READ_SUCCESS, READ_FAILURE, NOT_AUTHORIZED

\* What the parser returns, and the rows made of it.
Details == {parse_to_client_detail(line, junk) : line \in Seq(Tokens), junk \in Junk}
Inserts == [conn : Conns, row : {generate_insert_str_for(d) : d \in Details}]

\* TypeOK with the contents of the handler, the INSERTs and the table.
TypeInv ==
    /\ TypeOK
    /\ txns \subseteq Inserts /\ table \in Seq(Inserts)

\* The steps of the peers, also those after the end of the server process.
PeerActs ==
    /\ \E c \in Conns :
          \/ Listening /\ PeerConnect(c)
          \/ \E r \in Reports : PeerSend(c, r)
          \/ PeerClose(c)
    /\ UNCHANGED <<mainVars, srvVars>>

\* The server among peers that may outlive it: what Next and the composition
\* with a client process have in common.
OpenNext ==
    \/ MainNext \/ Console
    \/ Thread(ServiceNext) \/ Thread(DbNext)
    \/ NetNext \/ PeerActs \/ Idle

\* Every step of the server process is one among such peers.
LEMMA NextIsOpen == [Next]_vars => [OpenNext]_vars
BY DEF Next, OpenNext, PeerNext, PeerActs

\* A line a peer sends is a sequence of the tokens that peers' lines consist of.
LEMMA LineType ==
    ASSUME NEW r \in Reports
    PROVE  LineOf(r) \in Seq(Tokens)
<1> DEFINE tail == << Bar, Number(r.memory), Bar, Number(r.cpu), Bar,
                     Number(r.processes), Bar, Word(r.time), Newline >>
           S == Range(r.key) \cup Range(tail)
<1>1. r.key \in Seq(Range(r.key))
  BY PeersAssumption
<1>2. tail \in Seq(Range(tail))
  BY DEF Range
<1>3. r.key \in Seq(S) /\ tail \in Seq(S)
  <2> HIDE DEF tail
  <2> QED  BY <1>1, <1>2, SeqMonotonic
<1>4. LineOf(r) = r.key \o tail
  BY DEF LineOf, generate_random_sys_info_data
<1>5. LineOf(r) \in Seq(S)
  <2> HIDE DEF tail, S
  <2> QED  BY <1>3, <1>4, ConcatProperties
<1>6. LineOf(r) \in Seq(Range(LineOf(r)))
  BY <1>5, SeqOfRange
<1>7. Range(LineOf(r)) \subseteq Tokens
  BY DEF Tokens
<1> QED  BY <1>6, <1>7, SeqMonotonic

-----------------------------------------------------------------------------
(* Types.                                                                  *)

\* A read gives at most what was received, and at least nothing.
LEMMA ReadSizeType ==
    ASSUME TypeInv, NEW c \in Conns, NEW n \in ReadSizes(c, MaxLength)
    PROVE  n \in 0..Len(inbox[c])
<1>1. inbox[c] \in Seq(Tokens)
  BY DEF TypeInv, TypeOK, TcpTypeOK
<1>2. Len(inbox[c]) \in Nat /\ MaxLength \in Nat
  BY <1>1, LenProperties, ServerAssumption
<1> DEFINE most == Min({Len(inbox[c]), MaxLength})
<1>3. most \in {Len(inbox[c]), MaxLength} /\ most <= Len(inbox[c])
  BY <1>1, <1>2 DEF Min
<1>4. n \in 1..most \/ n = most
  BY DEF ReadSizes
<1> QED  BY <1>1, <1>2, <1>3, <1>4

\* What a read handler reads, and what it leaves, are texts of the peers.
LEMMA ReadType ==
    ASSUME TypeInv, NEW c \in Conns, NEW n \in ReadSizes(c, MaxLength), Receive(c, n)
    PROVE  /\ inbox' \in [Conns -> Seq(Tokens)]
           /\ data_copy(c, n) \in Seq(Tokens)
           /\ Parsed(c, n) \subseteq Details
<1>1. inbox \in [Conns -> Seq(Tokens)]
  BY DEF TypeInv, TypeOK, TcpTypeOK
<1>2. n \in Nat /\ Len(inbox[c]) \in Nat /\ n <= Len(inbox[c])
  BY <1>1, ReadSizeType
<1>3. \A i \in 1..Len(inbox[c]) : inbox[c][i] \in Tokens
  BY <1>1, ElementOfSeq
<1>4. SubSeq(inbox[c], n + 1, Len(inbox[c])) \in Seq(Tokens)
  <2>1. \A i \in (n + 1)..Len(inbox[c]) : inbox[c][i] \in Tokens
    BY <1>2, <1>3
  <2> QED  BY <1>2, <2>1, SubSeqProperties
<1>5. data_copy(c, n) \in Seq(Tokens)
  <2>1. \A i \in 1..n : inbox[c][i] \in Tokens
    BY <1>2, <1>3
  <2> QED  BY <1>2, <2>1, SubSeqProperties DEF data_copy
<1>6. inbox' \in [Conns -> Seq(Tokens)]
  BY <1>1, <1>4 DEF Receive
<1> QED  BY <1>5, <1>6 DEF Parsed, Details

\* A reply that is sent keeps the types of the sockets.
LEMMA TransmitType ==
    ASSUME TypeInv, NEW c \in Conns, NEW reply \in Replies, Transmit(c, reply)
    PROVE  outbox' \in [Conns -> Seq(Replies)] /\ rst' \subseteq Conns
<1>1. outbox \in [Conns -> Seq(Replies)] /\ rst \subseteq Conns
  BY DEF TypeInv, TypeOK, TcpTypeOK
<1>2. Append(outbox[c], reply) \in Seq(Replies)
  BY <1>1, AppendProperties
<1> QED  BY <1>1, <1>2 DEF Transmit

\* The types of a part depend on its own variables only.
LEMMA ServerTypesKept ==
    ASSUME TypeInv, UNCHANGED srvVars
    PROVE  ServerTypeOK' /\ txns' \subseteq Inserts /\ table' \in Seq(Inserts)
<1>1. UNCHANGED asioVars /\ UNCHANGED dbVars /\ acks' = acks
  BY DEF srvVars
<1>2. UNCHANGED <<svc, stopped, cur, accepting, ops, txns, table, lost>>
  BY <1>1 DEF asioVars, dbVars
<1> QED  BY <1>1, <1>2 DEF TypeInv, TypeOK, ServerTypeOK

\* A step that leaves the connections alone keeps their types.
LEMMA TcpTypesKept ==
    ASSUME TypeInv, UNCHANGED tcpVars
    PROVE  TcpTypeOK'
BY DEF TypeInv, TypeOK, TcpTypeOK, tcpVars

\* A counter per connection stays one.
LEMMA CountType ==
    ASSUME NEW f \in [Conns -> Nat], NEW c \in Conns
    PROVE  [f EXCEPT ![c] = @ + 1] \in [Conns -> Nat]
OBVIOUS

\* Every entry of the table came over a connection.
LEMMA EntryType ==
    ASSUME NEW s \in Seq(Inserts)
    PROVE  \A i \in DOMAIN s : s[i].conn \in Conns
<1>1. \A i \in DOMAIN s : s[i] \in Inserts
  BY ElementOfSeq, LenProperties
<1> QED  BY <1>1 DEF Inserts

\* What a session starts is an operation.
LEMMA OperationType ==
    ASSUME NEW c \in Conns
    PROVE  Reading(c) \in Operations /\ Written(c) \in Operations /\ Broken(c) \in Operations
BY DEF Operations, Reading, Written, Broken

\* Every step keeps the types.
LEMMA TypeStep ==
    ASSUME TypeInv, [OpenNext]_vars
    PROVE  TypeInv'
<1> USE DEF TypeInv, TypeOK, ServerTypeOK, TcpTypeOK, mainVars, asioVars, dbVars,
            srvVars, tcpVars
<1>1. CASE MainNext
  <2> USE DEF MainStep
  <2>1. CASE LoadConfig \/ ConnectDb \/ StartupFails
    BY <2>1 DEF LoadConfig, ConnectDb, StartupFails
  <2>2. CASE start \/ start_server \/ StartServerThrows
    BY <2>2 DEF start, start_server, StartServerThrows
  <2>3. CASE finish_work_before_quiting \/ DeleteDb \/ LeaveScope
    BY <2>3 DEF finish_work_before_quiting, DeleteDb, LeaveScope
  <2> QED  BY <1>1, <2>1, <2>2, <2>3 DEF MainNext
<1>2. CASE Console
  BY <1>2 DEF Console, MainStep, UserQuits, ConsoleEof
<1>3. CASE Thread(ServiceNext)
  <2>1. ASSUME NEW c \in Conns, HandleAccept(c), UNCHANGED mainVars
        PROVE  TypeInv'
    BY <2>1, OperationType DEF HandleAccept
  <2>2. ASSUME NEW c \in Conns, NEW n \in ReadSizes(c, MaxLength), ReadSome(c, n),
               NEW d \in Parsed(c, n), RefuseReport(c, d), UNCHANGED mainVars
        PROVE  TypeInv'
    <3>1. inbox' \in [Conns -> Seq(Tokens)]
      BY <2>2, ReadType DEF ReadSome
    <3>2. outbox' \in [Conns -> Seq(Replies)] /\ rst' \subseteq Conns
      BY <2>2, TransmitType DEF RefuseReport, do_write, Replies
    <3>3. ops' \subseteq Operations
      BY <2>2, OperationType DEF RefuseReport, do_write
    <3>4. ServerTypeOK'
      BY <2>2, <3>3 DEF RefuseReport
    <3>5. TcpTypeOK'
      BY <2>2, <3>1, <3>2 DEF RefuseReport
    <3> HIDE DEF ServerTypeOK, TcpTypeOK
    <3> QED  BY <2>2, <3>4, <3>5 DEF RefuseReport
  <2>3. ASSUME NEW c \in Conns, NEW n \in ReadSizes(c, MaxLength), ReadSome(c, n),
               NEW d \in Parsed(c, n), AdmitReport(c, d), UNCHANGED mainVars
        PROVE  TypeInv'
    <3>1. inbox' \in [Conns -> Seq(Tokens)] /\ d \in Details
      BY <2>3, ReadType DEF ReadSome
    <3>2. [conn |-> c, row |-> generate_insert_str_for(d)] \in Inserts
      BY <3>1 DEF Inserts
    <3>3. txns' \subseteq Inserts
      BY <2>3, <3>2 DEF AdmitReport, write_to_db
    <3>4. lost' \in [Conns -> Nat]
      <4>1. lost \in [Conns -> Nat] /\ c \in Conns
        BY <2>3
      <4> HIDE DEF TypeInv
      <4> QED  BY <2>3, <4>1, CountType DEF AdmitReport, write_to_db
    <3>5. \A t \in txns' : t.conn \in Conns
      BY <3>3 DEF Inserts
    <3>6. ServerTypeOK'
      BY <2>3, <3>4, <3>5 DEF AdmitReport
    <3>7. TcpTypeOK'
      BY <2>3, <3>1 DEF AdmitReport
    <3> HIDE DEF ServerTypeOK, TcpTypeOK
    <3> QED  BY <2>3, <3>3, <3>6, <3>7 DEF AdmitReport
  <2>4. ASSUME NEW c \in Conns, NEW n \in ReadSizes(c, MaxLength), ReadSome(c, n),
               ParseCrashes(c, n), UNCHANGED mainVars
        PROVE  TypeInv'
    <3>1. inbox' \in [Conns -> Seq(Tokens)]
      BY <2>4, ReadType DEF ReadSome
    <3>2. ServerTypeOK'
      BY <2>4 DEF ParseCrashes
    <3>3. TcpTypeOK'
      BY <2>4, <3>1 DEF ParseCrashes
    <3> HIDE DEF ServerTypeOK, TcpTypeOK
    <3> QED  BY <2>4, <3>2, <3>3 DEF ParseCrashes
  <2>5. ASSUME NEW c \in Conns, HandleReadError(c), UNCHANGED mainVars
        PROVE  TypeInv'
    <3>1. outbox' \in [Conns -> Seq(Replies)] /\ rst' \subseteq Conns
      BY <2>5, TransmitType DEF HandleReadError, do_write, Replies
    <3>2. ops' \subseteq Operations
      BY <2>5, OperationType DEF HandleReadError, do_write
    <3>3. ServerTypeOK'
      BY <2>5, <3>2 DEF HandleReadError
    <3>4. TcpTypeOK'
      BY <2>5, <3>1 DEF HandleReadError
    <3> HIDE DEF ServerTypeOK, TcpTypeOK
    <3> QED  BY <2>5, <3>3, <3>4 DEF HandleReadError
  <2>6. ASSUME NEW c \in Conns, HandleWrite(c), UNCHANGED mainVars
        PROVE  TypeInv'
    <3>1. ops' \subseteq Operations
      <4>1. ops \subseteq Operations /\ c \in Conns
        BY <2>6
      <4> HIDE DEF TypeInv
      <4> QED  BY <2>6, <4>1, OperationType DEF HandleWrite
    <3>2. UNCHANGED <<svc, stopped, cur, c_detail, accepting, authorized_clients,
                      acks, dbVars, tcpVars>>
      BY <2>6 DEF HandleWrite
    <3>3. TcpTypeOK' /\ ServerTypeOK'
      BY <3>1, <3>2
    <3> QED  BY <2>6, <3>2, <3>3
  <2>7. ASSUME HandleAcceptError \/ ServiceReturns, UNCHANGED mainVars
        PROVE  TypeInv'
    <3>1. ServerTypeOK'
      BY <2>7 DEF HandleAcceptError, ServiceReturns
    <3>2. TcpTypeOK'
      BY <2>7, TcpTypesKept DEF HandleAcceptError, ServiceReturns
    <3> HIDE DEF ServerTypeOK, TcpTypeOK
    <3> QED  BY <2>7, <3>1, <3>2 DEF HandleAcceptError, ServiceReturns
  <2>8. ASSUME FinishReport, UNCHANGED mainVars
        PROVE  TypeInv'
    <3>1. cur \in Conns
      BY <2>8 DEF FinishReport
    <3>2. outbox' \in [Conns -> Seq(Replies)] /\ rst' \subseteq Conns
      BY <2>8, <3>1, TransmitType DEF FinishReport, do_write, Replies
    <3>3. ops' \subseteq Operations /\ acks' \in [Conns -> Nat]
      BY <2>8, <3>1, OperationType, CountType DEF FinishReport, do_write
    <3>4. ServerTypeOK'
      BY <2>8, <3>3 DEF FinishReport
    <3>5. TcpTypeOK'
      BY <2>8, <3>2 DEF FinishReport
    <3> HIDE DEF ServerTypeOK, TcpTypeOK
    <3> QED  BY <2>8, <3>4, <3>5 DEF FinishReport
  <2> QED  BY <1>3, <2>1, <2>2, <2>3, <2>4, <2>5, <2>6, <2>7, <2>8
           DEF Thread, ServiceNext, HandlerOf, HandleRead
<1>4. CASE Thread(DbNext)
  <2>1. PICK t \in txns : Execute(t)
    BY <1>4 DEF Thread, DbNext
  <2>2. t \in Inserts /\ t.conn \in Conns
    BY DEF Inserts
  <2>3. /\ txns' = txns \ {t}
        /\ UNCHANGED <<mainVars, asioVars, authorized_clients, acks, tcpVars>>
    BY <1>4, <2>1 DEF Thread, Execute
  <2>4. CASE table' = Append(table, t) /\ UNCHANGED lost
    <3>1. table' \in Seq(Inserts)
      BY <2>2, <2>4, AppendProperties
    <3>2. \A i \in DOMAIN table' : table'[i].conn \in Conns
      BY <3>1, EntryType
    <3>3. ServerTypeOK'
      BY <2>3, <2>4, <3>1, <3>2
    <3> QED  BY <2>3, <3>1, <3>3, TcpTypesKept
  <2>5. CASE lost' = [lost EXCEPT ![t.conn] = @ + 1] /\ UNCHANGED table
    <3>1. lost' \in [Conns -> Nat]
      BY <2>2, <2>5, CountType
    <3>2. ServerTypeOK'
      BY <2>3, <2>5, <3>1
    <3> QED  BY <2>3, <2>5, <3>2, TcpTypesKept
  <2> QED  BY <2>1, <2>4, <2>5 DEF Execute
<1>5. ASSUME TcpTypeOK', UNCHANGED <<mainVars, srvVars>>
      PROVE  TypeInv'
  <2>1. UNCHANGED srvVars
    BY <1>5
  <2>2. ServerTypeOK' /\ txns' \subseteq Inserts /\ table' \in Seq(Inserts)
    <3> HIDE DEF TypeInv, srvVars
    <3> QED  BY <2>1, ServerTypesKept
  <2> HIDE DEF srvVars, ServerTypeOK, TcpTypeOK
  <2> QED  BY <1>5, <2>2
<1>6. CASE NetNext
  <2>1. TcpTypeOK'
    BY <1>6 DEF NetNext, ResetArrives
  <2> QED  BY <1>5, <1>6, <2>1 DEF NetNext
<1>7. CASE PeerActs
  <2>1. ASSUME NEW c \in Conns, NEW r \in Reports, PeerSend(c, r)
        PROVE  TcpTypeOK'
    <3>1. inbox[c] \o LineOf(r) \in Seq(Tokens)
      BY LineType, ConcatProperties
    <3>2. sent' \in [Conns -> Nat]
      BY <2>1, CountType DEF PeerSend
    <3> QED  BY <2>1, <3>1, <3>2 DEF PeerSend
  <2>2. ASSUME NEW c \in Conns, PeerConnect(c) \/ PeerClose(c)
        PROVE  TcpTypeOK'
    BY <2>2 DEF PeerConnect, PeerClose
  <2>3. TcpTypeOK'
    BY <1>7, <2>1, <2>2 DEF PeerActs
  <2> QED  BY <1>5, <1>7, <2>3 DEF PeerActs
<1>8. CASE UNCHANGED vars
  <2>1. UNCHANGED <<mainVars, srvVars>> /\ UNCHANGED tcpVars
    BY <1>8 DEF vars
  <2>2. TcpTypeOK'
    BY <2>1, TcpTypesKept
  <2> QED  BY <1>5, <2>1, <2>2
<1> QED  BY <1>1, <1>2, <1>3, <1>4, <1>6, <1>7, <1>8 DEF OpenNext, Idle

\* The process starts with every variable in its type.
LEMMA TypeInit == Init => TypeInv
<1> SUFFICES ASSUME Init PROVE TypeInv
  OBVIOUS
<1>1. txns \subseteq Inserts /\ table \in Seq(Inserts) /\ DOMAIN table = {}
  BY EmptySeq DEF Init, ServerInit
<1>2. ServerTypeOK
  BY <1>1 DEF Init, ServerInit, ServerTypeOK
<1>3. TcpTypeOK
  BY EmptySeq DEF Init, TcpInit, TcpTypeOK
<1> QED  BY <1>1, <1>2, <1>3 DEF Init, TypeInv, TypeOK

\* Types hold in every behaviour, those of the table's contents included.
LEMMA TypesHold == Spec => []TypeInv
<1>1. TypeInv /\ [Next]_vars => TypeInv'
  BY TypeStep, NextIsOpen
<1> QED  BY <1>1, TypeInit, PTL DEF Spec

\* The server's threads, operations, handles and sockets are in states the code
\* knows, in every behaviour.
THEOREM TypeCorrect == Spec => []TypeOK
<1>1. TypeInv => TypeOK
  BY DEF TypeInv
<1> QED  BY <1>1, TypesHold, PTL

-----------------------------------------------------------------------------
(* Safety: SafetyInv is inductive.                                         *)

\* What a thread of the service may do, seen from the invariant's parts: it
\* leaves the main thread alone, and a handler starts only inside run().
LEMMA LifetimeStep ==
    ASSUME TypeInv, LifetimeInv, [OpenNext]_vars
    PROVE  LifetimeInv'
<1> USE DEF LifetimeInv, SafeLifetimes, SingleTransaction, Listening
<1>0. cur = NoConn => txns = {}
  BY ServerAssumption DEF TypeInv, TypeOK, ServerTypeOK
<1>1. CASE MainNext
  <2> USE DEF MainStep, asioVars, dbVars, srvVars
  <2>1. CASE LoadConfig
    BY <2>1 DEF LoadConfig
  <2>2. CASE ConnectDb
    BY <2>2 DEF ConnectDb
  <2>3. CASE StartupFails
    BY <2>3 DEF StartupFails
  <2>4. CASE start \/ start_server \/ StartServerThrows
    BY <2>4 DEF start, start_server, StartServerThrows
  <2>5. CASE finish_work_before_quiting
    BY <2>5 DEF finish_work_before_quiting
  <2>6. CASE DeleteDb \/ LeaveScope
    BY <2>6 DEF DeleteDb, LeaveScope
  <2> QED  BY <1>1, <2>1, <2>2, <2>3, <2>4, <2>5, <2>6 DEF MainNext
<1>2. CASE Console
  BY <1>2 DEF Console, MainStep, UserQuits, ConsoleEof, Running, asioVars, dbVars, srvVars
<1>3. CASE Thread(ServiceNext)
  <2> USE DEF mainVars
  <2>1. ASSUME NEW c \in Conns, HandleAccept(c) \/ HandleReadError(c) \/ HandleWrite(c),
               UNCHANGED mainVars
        PROVE  LifetimeInv'
    BY <2>1 DEF HandleAccept, HandleReadError, HandleWrite, do_write, dbVars
  <2>2. ASSUME NEW c \in Conns, NEW n, ReadSome(c, n), NEW d, RefuseReport(c, d),
               UNCHANGED mainVars
        PROVE  LifetimeInv'
    BY <2>2 DEF ReadSome, RefuseReport, do_write, dbVars
  <2>3. ASSUME NEW c \in Conns, NEW n, ReadSome(c, n), NEW d, AdmitReport(c, d),
               UNCHANGED mainVars
        PROVE  LifetimeInv'
    <3>1. svc = "run" /\ txns = {} /\ ops # {}
      BY <1>0, <2>3 DEF ReadSome, MayRun
    <3>2. \A t \in txns' : t = [conn |-> c, row |-> generate_insert_str_for(d)]
      BY <2>3, <3>1 DEF AdmitReport, write_to_db
    <3>3. Listening /\ db_handle = "open"
      BY <3>1 DEF TypeInv, TypeOK
    <3> QED  BY <2>3, <3>1, <3>2, <3>3 DEF AdmitReport
  <2>4. ASSUME NEW c \in Conns, NEW n, ReadSome(c, n), ParseCrashes(c, n),
               UNCHANGED mainVars
        PROVE  LifetimeInv'
    BY <1>0, <2>4 DEF ReadSome, MayRun, ParseCrashes, dbVars
  <2>5. ASSUME HandleAcceptError \/ ServiceReturns, UNCHANGED mainVars
        PROVE  LifetimeInv'
    BY <1>0, <2>5 DEF HandleAcceptError, ServiceReturns, dbVars
  <2>6. ASSUME FinishReport, UNCHANGED mainVars
        PROVE  LifetimeInv'
    BY <2>6 DEF FinishReport, do_write, dbVars
  <2> QED  BY <1>3, <2>1, <2>2, <2>3, <2>4, <2>5, <2>6
           DEF Thread, ServiceNext, HandlerOf, HandleRead
<1>4. CASE Thread(DbNext)
  BY <1>4 DEF Thread, DbNext, Execute, mainVars, asioVars
<1>5. ASSUME UNCHANGED <<mainVars, srvVars>>
      PROVE  LifetimeInv'
  <2>1. UNCHANGED mainVars /\ UNCHANGED asioVars /\ UNCHANGED dbVars
    BY <1>5 DEF srvVars
  <2> QED  BY <2>1 DEF mainVars, asioVars, dbVars
<1>6. CASE NetNext \/ PeerActs \/ UNCHANGED vars
  BY <1>5, <1>6 DEF NetNext, PeerActs, vars
<1> QED  BY <1>1, <1>2, <1>3, <1>4, <1>6 DEF OpenNext, Idle

\* A session whose operation ends and that starts a new one has just that one,
\* and the operations of the other sessions stay as they are.
LEMMA OpsReplaced ==
    ASSUME NEW c \in Conns, NEW new \in {Reading(c), Written(c), Broken(c)},
           NEW gone, OpsOf(c) \subseteq gone, gone \subseteq {Reading(c), Written(c), Broken(c)},
           ops' = (ops \ gone) \cup {new}
    PROVE  /\ OpsOf(c)' = {new}
           /\ \A d \in Conns \ {c} : OpsOf(d)' = OpsOf(d)
BY DEF OpsOf, Reading, Written, Broken

\* A session whose operation ends without another has none left.
LEMMA OpsRemoved ==
    ASSUME NEW c \in Conns, NEW gone,
           OpsOf(c) \subseteq gone, gone \subseteq {Reading(c), Written(c), Broken(c)},
           ops' = ops \ gone
    PROVE  /\ OpsOf(c)' = {}
           /\ \A d \in Conns \ {c} : OpsOf(d)' = OpsOf(d)
BY DEF OpsOf, Reading, Written, Broken

\* The operation that a handler completes is the only one of its session.
LEMMA OnlyOp ==
    ASSUME SessionInv, NEW c \in Conns, NEW op \in {Reading(c), Written(c), Broken(c)},
           op \in ops
    PROVE  /\ OpsOf(c) \subseteq {op}
           /\ c # cur /\ c \notin backlog /\ conn[c] # "idle"
BY DEF SessionInv, OneOperation, OpsOf

\* No step gives a session a second operation, an operation beside its running
\* read handler, or one before it was accepted.
LEMMA SessionStep ==
    ASSUME TypeInv, SessionInv, [OpenNext]_vars
    PROVE  SessionInv'
<1>1. ASSUME UNCHANGED <<cur, ops, conn, backlog>>
      PROVE  SessionInv'
  BY <1>1 DEF SessionInv, OneOperation, OpsOf
<1>2. ASSUME NEW c \in Conns, NEW new, OpsOf(c)' = {new},
             \A d \in Conns \ {c} : OpsOf(d)' = OpsOf(d),
             conn' = conn, backlog' \subseteq backlog, c \notin backlog',
             conn[c] # "idle", cur' = NoConn
      PROVE  SessionInv'
  <2>1. NoConn \notin backlog' /\ \A d \in Conns : d # NoConn
    BY <1>2, ServerAssumption DEF TypeInv, TypeOK, TcpTypeOK
  <2>2. OneOperation'
    BY <1>2, <2>1 DEF SessionInv, OneOperation
  <2> QED  BY <1>2, <2>1, <2>2 DEF SessionInv
<1>3. ASSUME NEW c \in Conns, OpsOf(c)' = {},
             \A d \in Conns \ {c} : OpsOf(d)' = OpsOf(d),
             conn' = conn, backlog' = backlog, cur' \in {c, cur},
             conn[c] # "idle", c \notin backlog
      PROVE  SessionInv'
  BY <1>3 DEF SessionInv, OneOperation
<1>4. CASE MainNext
  <2>1. CASE LeaveScope
    BY <2>1 DEF LeaveScope, SessionInv, OneOperation, OpsOf, tcpVars
  <2>2. CASE LoadConfig \/ ConnectDb \/ StartupFails \/ start \/ start_server
             \/ StartServerThrows \/ finish_work_before_quiting \/ DeleteDb
    BY <1>1, <2>2
       DEF LoadConfig, ConnectDb, StartupFails, start, start_server, StartServerThrows,
           finish_work_before_quiting, DeleteDb, asioVars, srvVars, tcpVars
  <2> QED  BY <1>4, <2>1, <2>2 DEF MainNext
<1>5. CASE Console
  BY <1>1, <1>5 DEF Console, UserQuits, ConsoleEof, asioVars, srvVars, tcpVars
<1>6. CASE Thread(ServiceNext)
  <2>1. ASSUME NEW c \in Conns, HandleAccept(c)
        PROVE  SessionInv'
    <3>1. OpsOf(c) \subseteq {} /\ conn[c] # "idle" /\ cur = NoConn
      BY <2>1 DEF HandleAccept, MayRun, SessionInv, OneOperation
    <3>2. ops' = (ops \ {}) \cup {Reading(c)}
      BY <2>1 DEF HandleAccept
    <3>3. OpsOf(c)' = {Reading(c)} /\ \A d \in Conns \ {c} : OpsOf(d)' = OpsOf(d)
      BY <3>1, <3>2, OpsReplaced
    <3> QED  BY <1>2, <2>1, <3>1, <3>3 DEF HandleAccept
  <2>2. ASSUME NEW c \in Conns, NEW reply, MayRun, Reading(c) \in ops,
               do_write(c, reply, ops \ {Reading(c)}),
               UNCHANGED <<cur, conn, backlog>>
        PROVE  SessionInv'
    <3> DEFINE new == IF WriteFails(c) THEN Broken(c) ELSE Written(c)
    <3>1. OpsOf(c) \subseteq {Reading(c)} /\ c \notin backlog /\ conn[c] # "idle"
      BY <2>2, OnlyOp
    <3>2. OpsOf(c)' = {new} /\ \A d \in Conns \ {c} : OpsOf(d)' = OpsOf(d)
      BY <2>2, <3>1, OpsReplaced DEF do_write
    <3> HIDE DEF new
    <3> QED  BY <1>2, <2>2, <3>1, <3>2 DEF MayRun
  <2>3. ASSUME NEW c \in Conns, NEW n, ReadSome(c, n), NEW d, RefuseReport(c, d)
        PROVE  SessionInv'
    BY <2>2, <2>3 DEF ReadSome, RefuseReport
  <2>4. ASSUME NEW c \in Conns, HandleReadError(c)
        PROVE  SessionInv'
    BY <2>2, <2>4 DEF HandleReadError
  <2>5. ASSUME NEW c \in Conns, NEW n, ReadSome(c, n), NEW d, AdmitReport(c, d)
        PROVE  SessionInv'
    <3>1. OpsOf(c) \subseteq {Reading(c)} /\ c \notin backlog /\ conn[c] # "idle"
      BY <2>5, OnlyOp DEF ReadSome
    <3>2. OpsOf(c)' = {} /\ \A e \in Conns \ {c} : OpsOf(e)' = OpsOf(e)
      BY <2>5, <3>1, OpsRemoved DEF AdmitReport
    <3> QED  BY <1>3, <2>5, <3>1, <3>2 DEF AdmitReport
  <2>6. ASSUME NEW c \in Conns, NEW n, ParseCrashes(c, n)
        PROVE  SessionInv'
    BY <1>1, <2>6 DEF ParseCrashes
  <2>7. ASSUME NEW c \in Conns, HandleWrite(c)
        PROVE  SessionInv'
    <3>1. cur' = cur /\ cur = NoConn /\ conn' = conn /\ backlog' = backlog
      BY <2>7 DEF HandleWrite, MayRun, tcpVars
    <3>2. CASE Written(c) \in ops /\ ops' = (ops \ {Written(c)}) \cup {Reading(c)}
      <4>1. OpsOf(c) \subseteq {Written(c)} /\ c \notin backlog /\ conn[c] # "idle"
        BY <3>2, OnlyOp
      <4>2. OpsOf(c)' = {Reading(c)} /\ \A d \in Conns \ {c} : OpsOf(d)' = OpsOf(d)
        BY <3>2, <4>1, OpsReplaced
      <4> QED  BY <1>2, <3>1, <4>1, <4>2
    <3>3. CASE Broken(c) \in ops /\ ops' = ops \ {Broken(c)}
      <4>1. OpsOf(c) \subseteq {Broken(c)} /\ c \notin backlog /\ conn[c] # "idle"
        BY <3>3, OnlyOp
      <4>2. OpsOf(c)' = {} /\ \A d \in Conns \ {c} : OpsOf(d)' = OpsOf(d)
        BY <3>3, <4>1, OpsRemoved
      <4> QED  BY <1>3, <3>1, <4>1, <4>2
    <3> QED  BY <2>7, <3>2, <3>3 DEF HandleWrite
  <2>8. CASE HandleAcceptError \/ ServiceReturns
    BY <1>1, <2>8 DEF HandleAcceptError, ServiceReturns, tcpVars
  <2>9. CASE FinishReport
    <3> DEFINE new == IF WriteFails(cur) THEN Broken(cur) ELSE Written(cur)
    <3>1. cur \in Conns
      BY <2>9 DEF FinishReport, TypeInv, TypeOK, ServerTypeOK
    <3>2. OpsOf(cur) \subseteq {} /\ cur \notin backlog /\ conn[cur] # "idle"
      BY <3>1 DEF SessionInv, OneOperation
    <3>3. ops' = (ops \ {}) \cup {new} /\ UNCHANGED <<conn, backlog>> /\ cur' = NoConn
      BY <2>9 DEF FinishReport, do_write
    <3>4. new \in {Reading(cur), Written(cur), Broken(cur)}
      OBVIOUS
    <3> HIDE DEF new
    <3>5. PICK c \in Conns : c = cur
      BY <3>1
    <3>6. OpsOf(c)' = {new} /\ \A d \in Conns \ {c} : OpsOf(d)' = OpsOf(d)
      BY <3>2, <3>3, <3>4, <3>5, OpsReplaced
    <3> QED  BY <1>2, <3>2, <3>3, <3>5, <3>6
  <2> QED  BY <1>6, <2>1, <2>3, <2>4, <2>5, <2>6, <2>7, <2>8, <2>9
           DEF Thread, ServiceNext, HandlerOf, HandleRead
<1>7. CASE Thread(DbNext)
  BY <1>1, <1>7 DEF Thread, DbNext, Execute, asioVars, tcpVars
<1>8. CASE UNCHANGED srvVars /\ conn' = conn /\ backlog' = backlog
  <2>1. UNCHANGED asioVars
    BY <1>8 DEF srvVars
  <2> QED  BY <1>1, <1>8, <2>1 DEF asioVars
<1>9. CASE NetNext \/ PeerActs
  <2>1. UNCHANGED srvVars
    BY <1>9 DEF NetNext, PeerActs
  <2>2. cur' = cur /\ ops' = ops
    <3>1. UNCHANGED asioVars
      BY <2>1 DEF srvVars
    <3> QED  BY <3>1 DEF asioVars
  <2>3. \A d \in Conns : OpsOf(d)' = OpsOf(d)
    BY <2>2 DEF OpsOf
  <2>4. ASSUME NEW c \in Conns, PeerConnect(c)
        PROVE  SessionInv'
    BY <2>2, <2>3, <2>4
       DEF PeerConnect, SessionInv, OneOperation, TypeInv, TypeOK, TcpTypeOK
  <2>5. ASSUME NEW c \in Conns, ResetArrives(c) \/ PeerClose(c)
        PROVE  SessionInv'
    BY <2>2, <2>3, <2>5
       DEF ResetArrives, PeerClose, SessionInv, OneOperation, TypeInv, TypeOK, TcpTypeOK
  <2>6. ASSUME NEW c \in Conns, NEW r, PeerSend(c, r)
        PROVE  SessionInv'
    BY <1>1, <2>2, <2>6 DEF PeerSend
  <2> QED  BY <1>9, <2>4, <2>5, <2>6 DEF NetNext, PeerActs
<1>10. CASE UNCHANGED vars
  <2>1. UNCHANGED srvVars /\ UNCHANGED tcpVars
    BY <1>10 DEF vars
  <2> QED  BY <1>8, <2>1 DEF tcpVars
<1> QED  BY <1>4, <1>5, <1>6, <1>7, <1>9, <1>10 DEF OpenNext, Idle

\* operator[] on a key of the map leaves the map's keys as they are.
LEMMA SubscriptedKeys ==
    ASSUME NEW m, NEW key \in DOMAIN m
    PROVE  DOMAIN Subscripted(m, key) = DOMAIN m
BY DEF Subscripted

\* Every step keeps the map within the configured keys, and what is on its way
\* to the table too.
LEMMA ConfigStep ==
    ASSUME TypeInv, LifetimeInv, ConfigInv, [OpenNext]_vars
    PROVE  ConfigInv'
<1>1. ASSUME UNCHANGED <<cur, c_detail, authorized_clients, txns, table>>
      PROVE  ConfigInv'
  BY <1>1 DEF ConfigInv, OnlyConfiguredStored
<1>2. CASE MainNext
  <2>1. CASE LoadConfig
    <3>1. DOMAIN authorized_clients' \subseteq ConfiguredKeys
      BY <2>1 DEF LoadConfig, get_authorized_clients_and_details, ConfiguredKeys
    <3>2. cur = NoConn /\ cur' = cur /\ UNCHANGED <<txns, table>>
      BY <2>1
         DEF LoadConfig, MainStep, LifetimeInv, SafeLifetimes, Listening, asioVars, dbVars
    <3> QED  BY <3>1, <3>2 DEF ConfigInv, OnlyConfiguredStored
  <2>2. CASE ConnectDb \/ StartupFails \/ start \/ start_server
             \/ StartServerThrows \/ finish_work_before_quiting \/ DeleteDb \/ LeaveScope
    BY <1>1, <2>2
       DEF ConnectDb, StartupFails, start, start_server, StartServerThrows,
           finish_work_before_quiting, DeleteDb, LeaveScope, asioVars, dbVars, srvVars
  <2> QED  BY <1>2, <2>1, <2>2 DEF MainNext
<1>3. CASE Console
  BY <1>1, <1>3 DEF Console, UserQuits, ConsoleEof, asioVars, dbVars, srvVars
<1>4. CASE Thread(ServiceNext)
  <2>1. ASSUME NEW c \in Conns,
               HandleAccept(c) \/ HandleReadError(c) \/ HandleWrite(c)
        PROVE  ConfigInv'
    BY <1>1, <2>1 DEF HandleAccept, HandleReadError, HandleWrite, dbVars
  <2>2. ASSUME NEW c \in Conns, NEW n, NEW d, RefuseReport(c, d) \/ ParseCrashes(c, n)
        PROVE  ConfigInv'
    BY <1>1, <2>2 DEF RefuseReport, ParseCrashes, dbVars
  <2>3. ASSUME NEW c \in Conns, NEW d, AdmitReport(c, d)
        PROVE  ConfigInv'
    <3>1. d.client_key \in DOMAIN authorized_clients /\ d.client_key \in ConfiguredKeys
      BY <2>3 DEF AdmitReport, is_client_authorized, ConfigInv, OnlyConfiguredStored
    <3>2. \A t \in txns' : t \in txns
                          \/ t = [conn |-> c, row |-> generate_insert_str_for(d)]
      BY <2>3 DEF AdmitReport, write_to_db
    <3>3. \A t \in txns' : t.row.CLIENT_KEY \in ConfiguredKeys
      BY <3>1, <3>2 DEF ConfigInv, generate_insert_str_for
    <3> QED  BY <2>3, <3>1, <3>3 DEF AdmitReport, ConfigInv, OnlyConfiguredStored
  <2>4. CASE HandleAcceptError \/ ServiceReturns
    BY <1>1, <2>4 DEF HandleAcceptError, ServiceReturns, dbVars
  <2>5. CASE FinishReport
    <3>1. DOMAIN authorized_clients' = DOMAIN authorized_clients
      BY <2>5, SubscriptedKeys DEF FinishReport, ConfigInv
    <3> QED  BY <2>5, <3>1 DEF FinishReport, ConfigInv, OnlyConfiguredStored, dbVars
  <2> QED  BY <1>4, <2>1, <2>2, <2>3, <2>4, <2>5
           DEF Thread, ServiceNext, HandlerOf, HandleRead
<1>5. CASE Thread(DbNext)
  <2>1. PICK t \in txns : Execute(t)
    BY <1>5 DEF Thread, DbNext
  <2>2. UNCHANGED <<cur, c_detail, authorized_clients>> /\ txns' \subseteq txns
    BY <2>1 DEF Execute, asioVars
  <2>3. \A i \in DOMAIN table' : table'[i].row.CLIENT_KEY \in ConfiguredKeys
    <3>1. CASE table' = table
      BY <3>1 DEF ConfigInv, OnlyConfiguredStored
    <3>2. CASE table' = Append(table, t)
      <4>1. table \in Seq(Inserts) /\ t \in Inserts /\ t.row.CLIENT_KEY \in ConfiguredKeys
        BY DEF TypeInv, ConfigInv
      <4>2. \A i \in 1..Len(table) : table[i].row.CLIENT_KEY \in ConfiguredKeys
        BY <4>1, LenProperties DEF ConfigInv, OnlyConfiguredStored
      <4>3. /\ DOMAIN table' = 1..(Len(table) + 1) /\ Len(table) \in Nat
            /\ \A i \in 1..Len(table) : table'[i] = table[i]
            /\ table'[Len(table) + 1] = t
        BY <3>2, <4>1, AppendProperties, LenProperties
      <4>4. \A i \in DOMAIN table' : i \in 1..Len(table) \/ i = Len(table) + 1
        BY <4>3
      <4> QED  BY <4>1, <4>2, <4>3, <4>4
    <3> QED  BY <2>1, <3>1, <3>2 DEF Execute
  <2> QED  BY <2>2, <2>3 DEF ConfigInv, OnlyConfiguredStored
<1>6. CASE UNCHANGED srvVars
  <2>1. UNCHANGED asioVars /\ UNCHANGED dbVars /\ UNCHANGED authorized_clients
    BY <1>6 DEF srvVars
  <2> QED  BY <1>1, <2>1 DEF asioVars, dbVars
<1>7. CASE NetNext \/ PeerActs \/ UNCHANGED vars
  BY <1>6, <1>7 DEF NetNext, PeerActs, vars
<1> QED  BY <1>2, <1>3, <1>4, <1>5, <1>7 DEF OpenNext, Idle

\* The process starts without sessions, INSERTs and keys.
LEMMA SafetyInit == Init => SafetyInv
<1> SUFFICES ASSUME Init PROVE SafetyInv
  OBVIOUS
<1>1. LifetimeInv
  BY DEF Init, ServerInit, LifetimeInv, SafeLifetimes, SingleTransaction, Listening
<1>2. SessionInv
  BY ServerAssumption DEF Init, ServerInit, TcpInit, SessionInv, OneOperation, OpsOf
<1>3. ConfigInv
  BY DEF Init, ServerInit, ConfigInv, OnlyConfiguredStored
<1> QED  BY <1>1, <1>2, <1>3 DEF SafetyInv

\* Whatever order the main thread, the service thread, the INSERT threads and the
\* peers run in, SafetyInv holds.
THEOREM Safe == Spec => []SafetyInv
<1>1. TypeInv /\ SafetyInv /\ [Next]_vars => (TypeInv /\ SafetyInv)'
  BY NextIsOpen, TypeStep, LifetimeStep, SessionStep, ConfigStep DEF SafetyInv
<1> QED  BY <1>1, TypeInit, SafetyInit, PTL DEF Spec

\* The database handle, the server and the sessions outlive every handler and
\* every INSERT that uses them.
THEOREM LifetimesAreSafe == Spec => []SafeLifetimes
<1>1. SafetyInv => SafeLifetimes
  BY DEF SafetyInv, LifetimeInv
<1> QED  BY <1>1, Safe, PTL

\* Two INSERTs never share the pqxx connection at the same time.
THEOREM TransactionsAreSingle == Spec => []SingleTransaction
<1>1. SafetyInv => SingleTransaction
  BY DEF SafetyInv, LifetimeInv
<1> QED  BY <1>1, Safe, PTL

\* A session never has two operations outstanding, nor one beside its handler.
THEOREM OperationsAreSingle == Spec => []OneOperation
<1>1. SafetyInv => OneOperation
  BY DEF SafetyInv, SessionInv
<1> QED  BY <1>1, Safe, PTL

\* Reports of unknown clients are never stored, and never become known.
THEOREM StrangersAreNotStored == Spec => []OnlyConfiguredStored
<1>1. SafetyInv => OnlyConfiguredStored
  BY DEF SafetyInv, ConfigInv
<1> QED  BY <1>1, Safe, PTL

\* After the join nothing is stored, acknowledged or sent, and no handler starts.
THEOREM JoinedIsQuiet == Spec => QuietAfterJoin
<1>1. ASSUME TypeInv, SafetyInv, [Next]_vars, main \in {"joined", "deleted", "done"}
      PROVE  UNCHANGED <<dbVars, acks, outbox, cur>>
  <2> USE DEF SafetyInv, LifetimeInv, SafeLifetimes
  <2>1. CASE main = "done"
    <3>1. ~ Running
      BY <1>1, <2>1 DEF Running
    <3>2. UNCHANGED vars
      BY <1>1, <3>1 DEF Next, MainNext, Console, Thread, NetNext, PeerNext, Idle
    <3>3. UNCHANGED srvVars /\ UNCHANGED tcpVars
      BY <3>2 DEF vars
    <3> QED  BY <3>3 DEF srvVars, asioVars, tcpVars
  <2>2. CASE main \in {"joined", "deleted"}
    <3>1. svc = "exited" /\ cur = NoConn /\ txns = {}
      BY <1>1, <2>2
    <3>2. CASE MainNext \/ Console
      BY <2>2, <3>2
         DEF MainNext, Console, MainStep, LoadConfig, ConnectDb, StartupFails, start,
             start_server, StartServerThrows, UserQuits, ConsoleEof,
             finish_work_before_quiting, DeleteDb, LeaveScope, srvVars, asioVars, tcpVars
    <3>3. ~ Thread(ServiceNext) /\ ~ Thread(DbNext)
      BY <3>1
         DEF Thread, DbNext, ServiceNext, HandlerOf, HandleAccept, HandleRead, ReadSome,
             HandleReadError, HandleWrite, HandleAcceptError, FinishReport,
             ServiceReturns, MayRun
    <3>4. CASE NetNext \/ PeerNext
      <4>1. UNCHANGED srvVars /\ UNCHANGED outbox
        BY <3>4 DEF NetNext, PeerNext, ResetArrives, PeerConnect, PeerSend, PeerClose
      <4> QED  BY <4>1 DEF srvVars, asioVars
    <3>5. CASE UNCHANGED vars
      <4>1. UNCHANGED srvVars /\ UNCHANGED tcpVars
        BY <3>5 DEF vars
      <4> QED  BY <4>1 DEF srvVars, asioVars, tcpVars
    <3> QED  BY <1>1, <3>2, <3>3, <3>4, <3>5 DEF Next, Idle
  <2> QED  BY <1>1, <2>1, <2>2
<1>2. TypeInv /\ SafetyInv /\ [Next]_vars
        => [(main \in {"joined", "deleted", "done"})
              => UNCHANGED <<dbVars, acks, outbox, cur>>]_vars
  BY <1>1
<1> QED  BY <1>2, TypesHold, Safe, PTL DEF Spec, QuietAfterJoin

-----------------------------------------------------------------------------
(***************************************************************************)
(* The server process implements Collector: one report in hand at a time,  *)
(* of a configured client, stored or lost before it is acknowledged, and   *)
(* none in hand when the server closes.                                    *)
(***************************************************************************)
\* Only the handler that starts an INSERT changes c_detail, and another handler
\* starts when the INSERT has ended.
LEMMA JobStep ==
    ASSUME TypeInv, LifetimeInv, JobInv, [OpenNext]_vars
    PROVE  JobInv'
<1>0. cur = NoConn => txns = {}
  BY ServerAssumption DEF TypeInv, TypeOK, ServerTypeOK, LifetimeInv
<1>1. ASSUME c_detail' = c_detail, txns' \subseteq txns
      PROVE  JobInv'
  BY <1>1 DEF JobInv
<1>2. CASE MainNext \/ Console
  BY <1>1, <1>2
     DEF MainNext, Console, LoadConfig, ConnectDb, StartupFails, start, start_server,
         StartServerThrows, finish_work_before_quiting, DeleteDb, LeaveScope,
         UserQuits, ConsoleEof, asioVars, dbVars, srvVars
<1>3. CASE Thread(ServiceNext)
  <2>1. ASSUME NEW c \in Conns,
               HandleAccept(c) \/ HandleReadError(c) \/ HandleWrite(c)
        PROVE  JobInv'
    BY <1>1, <2>1 DEF HandleAccept, HandleReadError, HandleWrite, dbVars
  <2>2. ASSUME NEW c \in Conns, NEW n, NEW d, RefuseReport(c, d) \/ ParseCrashes(c, n)
        PROVE  JobInv'
    BY <1>1, <2>2 DEF RefuseReport, ParseCrashes, dbVars
  <2>3. ASSUME NEW c \in Conns, NEW n, ReadSome(c, n), NEW d, AdmitReport(c, d)
        PROVE  JobInv'
    <3>1. txns = {} /\ c_detail' = d
      BY <1>0, <2>3 DEF ReadSome, MayRun, AdmitReport
    <3>2. \A t \in txns' : t.row = generate_insert_str_for(d)
      BY <2>3, <3>1 DEF AdmitReport, write_to_db
    <3> QED  BY <3>1, <3>2 DEF JobInv
  <2>4. CASE HandleAcceptError \/ ServiceReturns
    BY <1>1, <2>4 DEF HandleAcceptError, ServiceReturns, dbVars
  <2>5. CASE FinishReport
    <3>1. txns = {} /\ txns' = txns
      BY <2>5 DEF FinishReport, LifetimeInv, dbVars
    <3> QED  BY <3>1 DEF JobInv
  <2> QED  BY <1>3, <2>1, <2>2, <2>3, <2>4, <2>5
           DEF Thread, ServiceNext, HandlerOf, HandleRead
<1>4. CASE Thread(DbNext)
  BY <1>1, <1>4 DEF Thread, DbNext, Execute, asioVars
<1>5. CASE UNCHANGED srvVars
  <2>1. UNCHANGED asioVars /\ UNCHANGED dbVars
    BY <1>5 DEF srvVars
  <2> QED  BY <1>1, <2>1 DEF asioVars, dbVars
<1>6. CASE NetNext \/ PeerActs \/ UNCHANGED vars
  BY <1>5, <1>6 DEF NetNext, PeerActs, vars
<1> QED  BY <1>2, <1>3, <1>4, <1>6 DEF OpenNext, Idle

-----------------------------------------------------------------------------
(* The state of the collector.                                             *)

Closed == main \in {"joined", "deleted", "done"} \/ svc = "crashed"
Job    == [conn |-> cur, row |-> generate_insert_str_for(c_detail), done |-> (txns = {})]

\* A report in hand is not the absence of one.
LEMMA JobIsSome ==
    ASSUME NEW c, NEW row, NEW done
    PROVE  [conn |-> c, row |-> row, done |-> done] # << >>
<1>1. "conn" \in DOMAIN [conn |-> c, row |-> row, done |-> done]
  OBVIOUS
<1>2. DOMAIN << >> = {}
  OBVIOUS
<1> QED  BY <1>1, <1>2

\* The process starts as an open collector with nothing in hand.
LEMMA CollectorInit == Init => Abstract!Init
BY DEF Init, ServerInit, Abstract!Init, Abstract!NoJob

\* What does not touch the report in hand, the table and the counters, and does
\* not close the collector, is not seen by it.
LEMMA CollectorStutters ==
    ASSUME UNCHANGED <<cur, c_detail, txns, table, lost, acks>>, Closed' = Closed
    PROVE  UNCHANGED Abstract!vars
BY DEF Abstract!vars, Closed

\* Closing, with no report in hand.
LEMMA CollectorCloses ==
    ASSUME UNCHANGED <<cur, txns, table, lost, acks>>, cur = NoConn, ~ Closed, Closed'
    PROVE  Abstract!Close
BY DEF Abstract!Close, Abstract!NoJob, Closed

\* A report that the handler admits is taken in hand by the collector; a deferred
\* INSERT is lost at once.
LEMMA CollectorAccepts ==
    ASSUME TypeInv, LifetimeInv, ConfigInv, Running, NEW c \in Conns, NEW n, NEW d,
           ReadSome(c, n), AdmitReport(c, d), UNCHANGED mainVars
    PROVE  Abstract!Accept
<1>1. /\ cur = NoConn /\ cur' = c /\ c # NoConn /\ c_detail' = d
      /\ UNCHANGED <<table, acks, svc, main>>
  BY ServerAssumption DEF ReadSome, MayRun, AdmitReport, mainVars
<1>2. ~ Closed /\ ~ Closed'
  BY <1>1 DEF ReadSome, MayRun, Running, LifetimeInv, Closed
<1>3. txns = {}
  BY <1>1, ServerAssumption DEF TypeInv, TypeOK, ServerTypeOK, LifetimeInv
<1>4. Job'.conn = c /\ Job'.row = generate_insert_str_for(d) /\ Job'.done = (txns' = {})
  BY <1>1 DEF Job
<1>5. Job'.row.CLIENT_KEY \in ConfiguredKeys
  BY <1>4 DEF AdmitReport, is_client_authorized, ConfigInv, OnlyConfiguredStored,
              generate_insert_str_for
<1>6. Job' # << >>
  BY JobIsSome DEF Job
<1>7. \/ ~ Job'.done /\ UNCHANGED lost
      \/ Job'.done /\ lost' = [lost EXCEPT ![c] = @ + 1]
  BY <1>3, <1>4 DEF AdmitReport, write_to_db
<1> QED  BY <1>1, <1>2, <1>4, <1>5, <1>6, <1>7 DEF Abstract!Accept, Abstract!NoJob, Closed, Job

\* The end of the INSERT resolves the report in hand.
LEMMA CollectorResolves ==
    ASSUME TypeInv, LifetimeInv, JobInv, NEW t \in txns, Execute(t), UNCHANGED mainVars
    PROVE  Abstract!Resolve
<1>1. t \in Inserts /\ t.conn = cur /\ cur \in Conns /\ cur # NoConn
  BY ServerAssumption DEF TypeInv, TypeOK, ServerTypeOK, LifetimeInv, Inserts
<1>2. txns' = {} /\ txns # {} /\ UNCHANGED <<cur, c_detail, acks, svc, main>>
  BY DEF Execute, asioVars, LifetimeInv, SingleTransaction, mainVars
<1>3. t.row = generate_insert_str_for(c_detail)
  BY DEF JobInv
<1>4. t = [conn |-> Job.conn, row |-> Job.row]
  BY <1>1, <1>3 DEF Job, Inserts
<1>5. Job # << >> /\ ~ Job.done /\ Job.conn = cur
  BY <1>2, JobIsSome DEF Job
<1>6. Job' = [Job EXCEPT !.done = TRUE]
  <2>1. PICK x : x = (txns = {})
    OBVIOUS
  <2>2. Job = [conn |-> cur, row |-> generate_insert_str_for(c_detail), done |-> x]
    BY <2>1, Zenon DEF Job
  <2>3. (txns' = {}) = TRUE
    BY <1>2
  <2>4. PICK y : y = TRUE
    OBVIOUS
  <2>5. Job' = [conn |-> cur, row |-> generate_insert_str_for(c_detail), done |-> y]
    BY <1>2, <2>3, <2>4, Zenon DEF Job
  <2>6. Job' = [Job EXCEPT !.done = y]
    BY <2>2, <2>5
  <2> QED  BY <2>4, <2>6, Zenon
<1>7. \/ table' = Append(table, [conn |-> Job.conn, row |-> Job.row]) /\ UNCHANGED lost
      \/ lost' = [lost EXCEPT ![Job.conn] = @ + 1] /\ UNCHANGED table
  BY <1>1, <1>4, <1>5 DEF Execute
<1> QED  BY <1>1, <1>2, <1>5, <1>6, <1>7 DEF Abstract!Resolve, Abstract!NoJob, Job

\* The success reply acknowledges the report in hand.
LEMMA CollectorAcknowledges ==
    ASSUME LifetimeInv, FinishReport, UNCHANGED mainVars
    PROVE  Abstract!Acknowledge
<1>1. /\ cur # NoConn /\ cur' = NoConn /\ acks' = [acks EXCEPT ![cur] = @ + 1]
      /\ UNCHANGED <<txns, table, lost, svc, main>>
  BY DEF FinishReport, dbVars, mainVars
<1>2. txns = {}
  BY DEF FinishReport, LifetimeInv
<1>3. Job # << >> /\ Job.done /\ Job.conn = cur
  BY <1>2, JobIsSome DEF Job
<1> QED  BY <1>1, <1>3 DEF Abstract!Acknowledge, Abstract!NoJob, Job

\* Every step of every thread is a step of the collector, or none.
LEMMA CollectorStep ==
    ASSUME TypeInv, LifetimeInv, ConfigInv, JobInv, [OpenNext]_vars
    PROVE  [Abstract!Next]_(Abstract!vars)
<1>1. CASE MainNext
  <2> USE DEF MainStep, Closed, asioVars, dbVars, srvVars
  <2>1. CASE LoadConfig \/ ConnectDb \/ start \/ start_server
    BY <1>1, <2>1, CollectorStutters
       DEF MainNext, Running, LoadConfig, ConnectDb, start, start_server
  <2>2. CASE StartupFails \/ StartServerThrows
    <3>1. cur = NoConn
      BY <2>2 DEF StartupFails, StartServerThrows, LifetimeInv, SafeLifetimes, Listening
    <3>2. ~ Closed /\ Closed'
      BY <1>1, <2>2 DEF StartupFails, StartServerThrows, MainNext, Running
    <3> QED  BY <2>2, <3>1, <3>2, CollectorCloses
             DEF StartupFails, StartServerThrows, Abstract!Next
  <2>3. CASE finish_work_before_quiting
    <3>1. cur = NoConn
      BY <2>3 DEF finish_work_before_quiting, LifetimeInv, SafeLifetimes
    <3> QED  BY <2>3, <3>1, CollectorCloses DEF finish_work_before_quiting, Abstract!Next
  <2>4. CASE DeleteDb \/ LeaveScope
    BY <2>4, CollectorStutters DEF DeleteDb, LeaveScope
  <2> QED  BY <1>1, <2>1, <2>2, <2>3, <2>4 DEF MainNext
<1>2. CASE Console
  BY <1>2, CollectorStutters
     DEF Console, UserQuits, ConsoleEof, MainStep, Closed, asioVars, dbVars, srvVars
<1>3. CASE Thread(ServiceNext)
  <2>1. UNCHANGED mainVars /\ main' = main /\ Running
    BY <1>3 DEF Thread, mainVars
  <2>2. ASSUME NEW c \in Conns,
               HandleAccept(c) \/ HandleReadError(c) \/ HandleWrite(c)
        PROVE  UNCHANGED Abstract!vars
    BY <2>1, <2>2, CollectorStutters
       DEF HandleAccept, HandleReadError, HandleWrite, Closed, dbVars
  <2>3. ASSUME NEW c \in Conns, NEW d, RefuseReport(c, d)
        PROVE  UNCHANGED Abstract!vars
    BY <2>1, <2>3, CollectorStutters DEF RefuseReport, Closed, dbVars
  <2>4. ASSUME NEW c \in Conns, NEW n, ReadSome(c, n), NEW d, AdmitReport(c, d)
        PROVE  Abstract!Accept
    BY <2>1, <2>4, CollectorAccepts
  <2>5. ASSUME NEW c \in Conns, NEW n, ReadSome(c, n), ParseCrashes(c, n)
        PROVE  Abstract!Close
    <3>1. cur = NoConn /\ ~ Closed /\ Closed'
      BY <2>1, <2>5 DEF ReadSome, MayRun, ParseCrashes, Running, LifetimeInv, Closed
    <3> QED  BY <2>5, <3>1, CollectorCloses DEF ParseCrashes, dbVars
  <2>6. ASSUME HandleAcceptError \/ ServiceReturns
        PROVE  UNCHANGED Abstract!vars
    BY <2>1, <2>6, CollectorStutters DEF HandleAcceptError, ServiceReturns, Closed, dbVars
  <2>7. ASSUME FinishReport
        PROVE  Abstract!Acknowledge
    BY <2>1, <2>7, CollectorAcknowledges
  <2> QED  BY <1>3, <2>2, <2>3, <2>4, <2>5, <2>6, <2>7
           DEF Thread, ServiceNext, HandlerOf, HandleRead, Abstract!Next
<1>4. CASE Thread(DbNext)
  BY <1>4, CollectorResolves DEF Thread, DbNext, Abstract!Next
<1>5. ASSUME UNCHANGED <<mainVars, srvVars>>
      PROVE  UNCHANGED Abstract!vars
  <2>1. UNCHANGED mainVars /\ UNCHANGED asioVars /\ UNCHANGED dbVars /\ acks' = acks
    BY <1>5 DEF srvVars
  <2> QED  BY <2>1, CollectorStutters DEF mainVars, asioVars, dbVars, Closed
<1>6. CASE NetNext \/ PeerActs \/ UNCHANGED vars
  BY <1>5, <1>6 DEF NetNext, PeerActs, vars
<1> QED  BY <1>1, <1>2, <1>3, <1>4, <1>6 DEF OpenNext, Idle

\* Whatever main, the service thread, the INSERT threads and the peers do, and
\* whatever fails, the server does what Collector promises.
THEOREM CollectorImplemented == Spec => ImplementsCollector
<1>1. SafetyInv => LifetimeInv /\ ConfigInv
  BY DEF SafetyInv
<1>2. Init => JobInv
  BY DEF Init, ServerInit, JobInv
<1>3. TypeInv /\ LifetimeInv /\ JobInv /\ [Next]_vars => JobInv'
  BY NextIsOpen, JobStep
<1>4. TypeInv /\ LifetimeInv /\ ConfigInv /\ JobInv /\ [Next]_vars
        => [Abstract!Next]_(Abstract!vars)
  BY NextIsOpen, CollectorStep
<1> QED  BY <1>1, <1>2, <1>3, <1>4, CollectorInit, TypesHold, Safe, PTL
         DEF Spec, ImplementsCollector, Abstract!Spec

-----------------------------------------------------------------------------
(* Rows and acknowledgements.                                              *)

\* The rows of a connection are finitely many.
LEMMA RowsAreFinite ==
    ASSUME TypeInv, NEW c \in Conns
    PROVE  IsFiniteSet(RowsOf(c)) /\ Cardinality(RowsOf(c)) \in Nat
<1>1. Len(table) \in Nat /\ DOMAIN table = 1..Len(table)
  BY LenProperties DEF TypeInv
<1>2. IsFiniteSet(1..Len(table)) /\ RowsOf(c) \subseteq 1..Len(table)
  BY <1>1, FS_Interval DEF RowsOf
<1> QED  BY <1>2, FS_Subset, FS_CardinalityType

\* An INSERT that is executed adds one row, to those of its connection.
LEMMA RowAdded ==
    ASSUME TypeInv, NEW t \in Inserts, table' = Append(table, t), NEW c \in Conns
    PROVE  Cardinality(RowsOf(c)') = Cardinality(RowsOf(c)) + (IF t.conn = c THEN 1 ELSE 0)
<1> DEFINE l == Len(table)
<1>1. /\ l \in Nat /\ DOMAIN table = 1..l /\ DOMAIN table' = 1..(l + 1)
      /\ \A i \in 1..l : table'[i] = table[i]
      /\ table'[l + 1] = t
  BY AppendProperties, LenProperties DEF TypeInv
<1>2. IsFiniteSet(RowsOf(c)) /\ Cardinality(RowsOf(c)) \in Nat
  BY RowsAreFinite
<1>3. l + 1 \notin RowsOf(c)
  BY <1>1 DEF RowsOf
<1>4. CASE t.conn = c
  <2>1. RowsOf(c)' = RowsOf(c) \cup {l + 1}
    BY <1>1, <1>4 DEF RowsOf
  <2> QED  BY <1>2, <1>3, <1>4, <2>1, FS_AddElement
<1>5. CASE t.conn # c
  <2>1. RowsOf(c)' = RowsOf(c)
    BY <1>1, <1>5 DEF RowsOf
  <2> QED  BY <1>2, <1>5, <2>1
<1> QED  BY <1>4, <1>5

\* Every step keeps rows, losses and acknowledgements in balance.
LEMMA AcksStep ==
    ASSUME TypeInv, LifetimeInv, AcksMatchInserts, [OpenNext]_vars
    PROVE  AcksMatchInserts'
<1>types. /\ acks \in [Conns -> Nat] /\ lost \in [Conns -> Nat]
          /\ cur \in Conns \cup {NoConn} /\ NoConn \notin Conns
  BY ServerAssumption DEF TypeInv, TypeOK, ServerTypeOK
<1>rows. \A c \in Conns : Cardinality(RowsOf(c)) \in Nat
  BY RowsAreFinite
<1>1. ASSUME UNCHANGED <<cur, acks, txns, table, lost>>
      PROVE  AcksMatchInserts'
  BY <1>1 DEF AcksMatchInserts, RowsOf
<1>2. CASE MainNext \/ Console
  BY <1>1, <1>2
     DEF MainNext, Console, LoadConfig, ConnectDb, StartupFails, start, start_server,
         StartServerThrows, finish_work_before_quiting, DeleteDb, LeaveScope,
         UserQuits, ConsoleEof, asioVars, dbVars, srvVars
<1>3. CASE Thread(ServiceNext)
  <2>1. ASSUME NEW c \in Conns,
               HandleAccept(c) \/ HandleReadError(c) \/ HandleWrite(c)
        PROVE  AcksMatchInserts'
    BY <1>1, <2>1 DEF HandleAccept, HandleReadError, HandleWrite, dbVars
  <2>2. ASSUME NEW c \in Conns, NEW n, NEW d, RefuseReport(c, d) \/ ParseCrashes(c, n)
        PROVE  AcksMatchInserts'
    BY <1>1, <2>2 DEF RefuseReport, ParseCrashes, dbVars
  <2>3. ASSUME NEW c \in Conns, NEW n, ReadSome(c, n), NEW d, AdmitReport(c, d)
        PROVE  AcksMatchInserts'
    <3>1. /\ cur = NoConn /\ txns = {} /\ cur' = c /\ acks' = acks
          /\ \A e \in Conns : RowsOf(e)' = RowsOf(e)
      <4>1. cur = NoConn /\ txns = {}
        BY <2>3, <1>types
           DEF ReadSome, MayRun, LifetimeInv, TypeInv, TypeOK, ServerTypeOK
      <4>2. cur' = c /\ acks' = acks /\ table' = table
        BY <2>3 DEF AdmitReport
      <4> QED  BY <4>1, <4>2 DEF RowsOf
    <3>2. \A e \in Conns : Cardinality(RowsOf(e)) + lost[e] = acks[e]
      BY <1>types, <1>rows, <3>1 DEF AcksMatchInserts
    <3>3. CASE txns' = {[conn |-> c, row |-> generate_insert_str_for(d)]} /\ lost' = lost
      BY <1>types, <1>rows, <3>1, <3>2, <3>3 DEF AcksMatchInserts
    <3>4. CASE txns' = {} /\ lost' = [lost EXCEPT ![c] = @ + 1]
      BY <1>types, <1>rows, <3>1, <3>2, <3>4 DEF AcksMatchInserts
    <3> QED  BY <2>3, <3>1, <3>3, <3>4 DEF AdmitReport, write_to_db
  <2>4. CASE HandleAcceptError \/ ServiceReturns
    BY <1>1, <2>4 DEF HandleAcceptError, ServiceReturns, dbVars
  <2>5. CASE FinishReport
    <3>1. /\ cur \in Conns /\ \A t \in txns : t.conn # cur
          /\ cur' = NoConn /\ acks' = [acks EXCEPT ![cur] = @ + 1]
          /\ txns' = txns /\ lost' = lost
          /\ \A e \in Conns : RowsOf(e)' = RowsOf(e)
      BY <1>types, <2>5 DEF FinishReport, dbVars, RowsOf
    <3> QED  BY <1>types, <1>rows, <3>1 DEF AcksMatchInserts
  <2> QED  BY <1>3, <2>1, <2>2, <2>3, <2>4, <2>5
           DEF Thread, ServiceNext, HandlerOf, HandleRead
<1>4. CASE Thread(DbNext)
  <2>1. PICK t \in txns : Execute(t)
    BY <1>4 DEF Thread, DbNext
  <2>2. t \in Inserts /\ t.conn = cur /\ cur \in Conns
    BY <1>types DEF TypeInv, Inserts, LifetimeInv
  <2>3. txns' = {} /\ cur' = cur /\ acks' = acks
    BY <2>1 DEF Execute, asioVars, LifetimeInv, SingleTransaction
  <2>4. \A e \in Conns : Cardinality(RowsOf(e)) + lost[e] = acks[e]
    BY <1>types, <1>rows, <2>2 DEF AcksMatchInserts
  <2>5. CASE table' = Append(table, t) /\ lost' = lost
    <3>1. \A e \in Conns : Cardinality(RowsOf(e)')
                             = Cardinality(RowsOf(e)) + (IF e = cur THEN 1 ELSE 0)
      BY <2>2, <2>5, RowAdded
    <3> QED  BY <1>types, <1>rows, <2>3, <2>4, <2>5, <3>1 DEF AcksMatchInserts
  <2>6. CASE table' = table /\ lost' = [lost EXCEPT ![cur] = @ + 1]
    <3>1. \A e \in Conns : RowsOf(e)' = RowsOf(e)
      BY <2>6 DEF RowsOf
    <3> QED  BY <1>types, <1>rows, <2>2, <2>3, <2>4, <2>6, <3>1 DEF AcksMatchInserts
  <2> QED  BY <2>1, <2>2, <2>5, <2>6 DEF Execute
<1>5. CASE UNCHANGED srvVars
  <2>1. UNCHANGED asioVars /\ UNCHANGED dbVars /\ acks' = acks
    BY <1>5 DEF srvVars
  <2> QED  BY <1>1, <2>1 DEF asioVars, dbVars
<1>6. CASE NetNext \/ PeerActs \/ UNCHANGED vars
  BY <1>5, <1>6 DEF NetNext, PeerActs, vars
<1> QED  BY <1>2, <1>3, <1>4, <1>6 DEF OpenNext, Idle

\* At the start nothing is stored, lost or acknowledged.
LEMMA AcksInit == Init => AcksMatchInserts
<1> SUFFICES ASSUME Init PROVE AcksMatchInserts
  OBVIOUS
<1>1. \A c \in Conns : RowsOf(c) = {} /\ lost[c] = 0 /\ acks[c] = 0 /\ c # cur
  BY ServerAssumption DEF Init, ServerInit, RowsOf
<1> QED  BY <1>1, FS_EmptySet DEF AcksMatchInserts

\* Every success reply stands for exactly one finished INSERT, whatever faults
\* happen and whenever stop() arrives.
THEOREM AcksAreInserts == Spec => []AcksMatchInserts
<1>1. SafetyInv => LifetimeInv
  BY DEF SafetyInv
<1>2. TypeInv /\ LifetimeInv /\ AcksMatchInserts /\ [Next]_vars => AcksMatchInserts'
  BY NextIsOpen, AcksStep
<1> QED  BY <1>1, <1>2, AcksInit, TypesHold, Safe, PTL DEF Spec

-----------------------------------------------------------------------------
(* A start that fails.                                                     *)

\* Every step keeps the service idle until the acceptor exists.
LEMMA StartStep ==
    ASSUME TypeInv, LifetimeInv, StartInv, [OpenNext]_vars
    PROVE  StartInv'
<1> DEFINE early == main \in {"start", "db", "service", "server"}
                      \/ outcome \in {"exit1", "terminated"}
           nobody == /\ \A c \in Conns : conn[c] = "idle"
                     /\ table = << >> /\ txns = {} /\ cur = NoConn /\ ops = {} /\ ~ accepting
<1>0. /\ outcome # "running" => main = "done"
      /\ early => nobody
  BY DEF StartInv
<1>1. ASSUME UNCHANGED <<main, outcome>>, ~ early
      PROVE  StartInv'
  BY <1>0, <1>1 DEF StartInv
<1>2. ASSUME UNCHANGED <<main, outcome, conn, table, txns, cur, ops, accepting>>
      PROVE  StartInv'
  BY <1>2 DEF StartInv
<1>3. CASE MainNext
  <2> USE DEF MainStep
  <2>1. ASSUME UNCHANGED <<conn, table, txns, cur, ops, accepting>>, early, outcome = "running",
               outcome' # "running" => main' = "done"
        PROVE  StartInv'
    BY <1>0, <2>1 DEF StartInv
  <2>2. outcome = "running"
    BY <1>3 DEF MainNext, Running
  <2>3. CASE LoadConfig \/ ConnectDb \/ StartupFails \/ start \/ StartServerThrows
    BY <2>1, <2>2, <2>3
       DEF LoadConfig, ConnectDb, StartupFails, start, StartServerThrows,
           asioVars, dbVars, srvVars, tcpVars
  <2>4. CASE start_server \/ finish_work_before_quiting \/ DeleteDb
    BY <2>2, <2>4 DEF start_server, finish_work_before_quiting, DeleteDb, StartInv
  <2>5. CASE LeaveScope
    BY <2>5 DEF LeaveScope, StartInv
  <2> QED  BY <1>3, <2>3, <2>4, <2>5 DEF MainNext
<1>4. CASE Console
  BY <1>4 DEF Console, Running, UserQuits, ConsoleEof, MainStep, StartInv
<1>5. CASE Thread(ServiceNext)
  <2>1. UNCHANGED <<main, outcome>>
    BY <1>5 DEF Thread, mainVars
  <2>2. nobody => ~ ServiceNext \/ UNCHANGED <<conn, table, txns, cur, ops, accepting>>
    BY DEF ServiceNext, HandlerOf, HandleAccept, HandleRead, ReadSome, HandleReadError,
           HandleWrite, HandleAcceptError, FinishReport, ServiceReturns, dbVars, tcpVars
  <2> QED  BY <1>0, <1>1, <1>2, <1>5, <2>1, <2>2 DEF Thread
<1>6. CASE Thread(DbNext)
  <2>1. UNCHANGED <<main, outcome>> /\ txns # {}
    BY <1>6 DEF Thread, mainVars, DbNext
  <2> QED  BY <1>0, <1>1, <2>1
<1>7. CASE NetNext \/ PeerActs
  <2>1. UNCHANGED <<main, outcome>>
    BY <1>7 DEF NetNext, PeerActs, mainVars
  <2>2. early => ~ Listening
    BY <1>0 DEF Listening
  <2>3. nobody /\ ~ Listening => FALSE
    BY <1>7 DEF NetNext, PeerActs, ResetArrives, PeerSend, PeerClose
  <2> QED  BY <1>0, <1>1, <2>1, <2>2, <2>3
<1>8. CASE UNCHANGED vars
  <2>1. UNCHANGED mainVars /\ UNCHANGED srvVars /\ UNCHANGED tcpVars
    BY <1>8 DEF vars
  <2>2. UNCHANGED asioVars /\ UNCHANGED dbVars
    BY <2>1 DEF srvVars
  <2> QED  BY <1>2, <2>1, <2>2 DEF mainVars, asioVars, dbVars, tcpVars
<1> QED  BY <1>3, <1>4, <1>5, <1>6, <1>7, <1>8 DEF OpenNext, Idle

\* The process starts with nothing to do.
LEMMA StartInit == Init => StartInv
BY DEF Init, ServerInit, TcpInit, StartInv

\* A server whose arguments, files, database or port are wrong ends without
\* anybody having been connected and without a row.
THEOREM FailedStartsAreClean == Spec => []FailedStartServesNobody
<1>1. SafetyInv => LifetimeInv
  BY DEF SafetyInv
<1>2. TypeInv /\ LifetimeInv /\ StartInv /\ [Next]_vars => StartInv'
  BY NextIsOpen, StartStep
<1>3. StartInv => FailedStartServesNobody
  BY DEF StartInv, FailedStartServesNobody
<1> QED  BY <1>1, <1>2, <1>3, StartInit, TypesHold, Safe, PTL DEF Spec

-----------------------------------------------------------------------------
(* Replies.                                                                *)

\* A reply that is sent is the last one in the outbox of its connection, and
\* reaches only a peer that is there.
LEMMA TransmitAdds ==
    ASSUME TypeInv, NEW c \in Conns, NEW reply \in Replies, Transmit(c, reply)
    PROVE  /\ \A e \in Conns : e # c => outbox'[e] = outbox[e]
           /\ \/ outbox'[c] = outbox[c]
              \/ /\ conn[c] = "open"
                 /\ outbox'[c] = Append(outbox[c], reply)
                 /\ Len(outbox[c]) \in Nat /\ Len(outbox'[c]) = Len(outbox[c]) + 1
                 /\ DOMAIN outbox'[c] = 1..(Len(outbox[c]) + 1)
                 /\ DOMAIN outbox[c] = 1..Len(outbox[c])
                 /\ \A i \in DOMAIN outbox[c] : outbox'[c][i] = outbox[c][i]
                 /\ outbox'[c][Len(outbox[c]) + 1] = reply
<1>1. outbox \in [Conns -> Seq(Replies)] /\ outbox[c] \in Seq(Replies)
  BY DEF TypeInv, TypeOK, TcpTypeOK
<1>2. /\ Len(outbox[c]) \in Nat
      /\ Append(outbox[c], reply) \in Seq(Replies)
      /\ Len(Append(outbox[c], reply)) = Len(outbox[c]) + 1
      /\ \A i \in 1..Len(outbox[c]) : Append(outbox[c], reply)[i] = outbox[c][i]
      /\ Append(outbox[c], reply)[Len(outbox[c]) + 1] = reply
  BY <1>1, AppendProperties, LenProperties
<1>3. /\ DOMAIN Append(outbox[c], reply) = 1..(Len(outbox[c]) + 1)
      /\ DOMAIN outbox[c] = 1..Len(outbox[c])
  BY <1>1, <1>2, LenProperties
<1>4. CASE conn[c] = "open"
  <2>1. outbox' = [outbox EXCEPT ![c] = Append(@, reply)]
    BY <1>4 DEF Transmit
  <2>2. outbox'[c] = Append(outbox[c], reply) /\ \A e \in Conns : e # c => outbox'[e] = outbox[e]
    BY <1>1, <2>1
  <2> QED  BY <1>2, <1>3, <1>4, <2>2
<1>5. CASE conn[c] # "open"
  BY <1>5 DEF Transmit
<1> QED  BY <1>4, <1>5

\* Every step keeps READ_FAILURE from the peers that are there, and counts the
\* successes it sends them.
LEMMA ReplyStep ==
    ASSUME TypeInv, ReplyInv, [OpenNext]_vars
    PROVE  ReplyInv'
<1> USE DEF READ_SUCCESS, READ_FAILURE, NOT_AUTHORIZED
<1>types. acks \in [Conns -> Nat] /\ cur \in Conns \cup {NoConn}
  BY DEF TypeInv, TypeOK, ServerTypeOK
<1>1. ASSUME outbox' = outbox, acks' = acks
      PROVE  ReplyInv'
  BY <1>1 DEF ReplyInv
<1>2. ASSUME NEW c \in Conns, NEW reply \in {"0", "2"}, Transmit(c, reply),
             \A e \in Conns : acks'[e] \in Nat /\ acks'[e] >= acks[e],
             reply = "0" => acks'[c] >= 1
      PROVE  ReplyInv'
  <2>1. reply \in Replies /\ reply # "1"
    BY DEF Replies
  <2>2. /\ \A e \in Conns : e # c => outbox'[e] = outbox[e]
        /\ \/ outbox'[c] = outbox[c]
           \/ /\ DOMAIN outbox'[c] = 1..(Len(outbox[c]) + 1) /\ Len(outbox[c]) \in Nat
              /\ DOMAIN outbox[c] = 1..Len(outbox[c])
              /\ \A i \in DOMAIN outbox[c] : outbox'[c][i] = outbox[c][i]
              /\ outbox'[c][Len(outbox[c]) + 1] = reply
    BY <1>2, <2>1, TransmitAdds
  <2>3. \A e \in Conns : \A i \in DOMAIN outbox[e] :
           outbox[e][i] # "1" /\ (outbox[e][i] = "0" => acks'[e] >= 1)
    BY <1>types, <1>2 DEF ReplyInv
  <2>4. \A i \in DOMAIN outbox'[c] :
           outbox'[c][i] # "1" /\ (outbox'[c][i] = "0" => acks'[c] >= 1)
    <3>1. CASE outbox'[c] = outbox[c]
      BY <2>3, <3>1
    <3>2. CASE outbox'[c] # outbox[c]
      <4>1. \A i \in DOMAIN outbox'[c] : i \in DOMAIN outbox[c] \/ i = Len(outbox[c]) + 1
        BY <2>2, <3>2
      <4> QED  BY <1>2, <2>1, <2>2, <2>3, <3>2, <4>1
    <3> QED  BY <3>1, <3>2
  <2>5. \A e \in Conns : \A i \in DOMAIN outbox'[e] :
           outbox'[e][i] # "1" /\ (outbox'[e][i] = "0" => acks'[e] >= 1)
    BY <2>2, <2>3, <2>4, Zenon
  <2> QED  BY <2>5, Zenon DEF ReplyInv
<1>3. CASE MainNext \/ Console
  BY <1>1, <1>3
     DEF MainNext, Console, LoadConfig, ConnectDb, StartupFails, start, start_server,
         StartServerThrows, finish_work_before_quiting, DeleteDb, LeaveScope,
         UserQuits, ConsoleEof, tcpVars, srvVars
<1>4. CASE Thread(ServiceNext)
  <2>1. ASSUME NEW c \in Conns, HandleAccept(c) \/ HandleWrite(c)
        PROVE  ReplyInv'
    BY <1>1, <2>1 DEF HandleAccept, HandleWrite, tcpVars
  <2>2. ASSUME NEW c \in Conns, HandleReadError(c)
        PROVE  ReplyInv'
    BY <1>1, <2>2 DEF HandleReadError, ReadFails, do_write, Transmit
  <2>3. ASSUME NEW c \in Conns, NEW d, RefuseReport(c, d)
        PROVE  ReplyInv'
    <3>1. acks' = acks /\ Transmit(c, "2")
      BY <2>3 DEF RefuseReport, do_write
    <3> QED  BY <1>types, <1>2, <3>1
  <2>4. ASSUME NEW c \in Conns, NEW n, NEW d, AdmitReport(c, d) \/ ParseCrashes(c, n)
        PROVE  ReplyInv'
    BY <1>1, <2>4 DEF AdmitReport, ParseCrashes
  <2>5. CASE HandleAcceptError \/ ServiceReturns
    BY <1>1, <2>5 DEF HandleAcceptError, ServiceReturns, tcpVars
  <2>6. CASE FinishReport
    <3>1. /\ cur \in Conns /\ Transmit(cur, "0")
          /\ acks' = [acks EXCEPT ![cur] = @ + 1]
      BY <1>types, <2>6 DEF FinishReport, do_write
    <3>2. /\ \A e \in Conns : acks'[e] \in Nat /\ acks'[e] >= acks[e]
          /\ acks'[cur] >= 1
      BY <1>types, <3>1
    <3> QED  BY <1>2, <3>1, <3>2
  <2> QED  BY <1>4, <2>1, <2>2, <2>3, <2>4, <2>5, <2>6
           DEF Thread, ServiceNext, HandlerOf, HandleRead
<1>5. CASE Thread(DbNext)
  BY <1>1, <1>5 DEF Thread, DbNext, Execute, tcpVars
<1>6. ASSUME UNCHANGED srvVars
      PROVE  acks' = acks
  BY <1>6 DEF srvVars
<1>7. CASE NetNext \/ PeerActs
  BY <1>1, <1>6, <1>7
     DEF NetNext, PeerActs, ResetArrives, PeerConnect, PeerSend, PeerClose
<1>8. CASE UNCHANGED vars
  <2>1. UNCHANGED tcpVars /\ UNCHANGED srvVars
    BY <1>8 DEF vars
  <2> QED  BY <1>1, <1>6, <2>1 DEF tcpVars
<1> QED  BY <1>3, <1>4, <1>5, <1>7, <1>8 DEF OpenNext, Idle

\* No reply is there at the start.
LEMMA ReplyInit == Init => ReplyInv
BY DEF Init, TcpInit, ReplyInv

-----------------------------------------------------------------------------
(* Whole lines.                                                            *)

\* The line of a report has nine tokens and its key.
LEMMA LineIsNotEmpty ==
    ASSUME NEW r \in Reports
    PROVE  LineOf(r) # << >> /\ Len(LineOf(r)) \in Nat
<1>1. r.key \in Seq(Range(r.key))
  BY PeersAssumption
<1>2. Len(r.key) \in Nat /\ Len(LineOf(r)) = Len(r.key) + 9
  BY <1>1, LineTokens DEF LineOf
<1> QED  BY <1>2

\* A read of a connection on which a line waits reads that line to its end.
LEMMA WholeRead ==
    ASSUME WholeLines, TypeInv, LineInv, NEW c \in Conns,
           NEW n \in ReadSizes(c, MaxLength), Receive(c, n)
    PROVE  /\ inbox[c] # << >> /\ inbox'[c] = << >>
           /\ \A e \in Conns : e # c => inbox'[e] = inbox[e]
           /\ \E r \in Reports : inbox[c] = LineOf(r) /\ data_copy(c, n) = LineOf(r)
<1>1. inbox \in [Conns -> Seq(Tokens)] /\ inbox[c] \in Seq(Tokens)
  BY DEF TypeInv, TypeOK, TcpTypeOK
<1>2. inbox[c] # << >>
  BY DEF Receive
<1>3. PICK r \in Reports : inbox[c] = LineOf(r)
  BY <1>2 DEF LineInv
<1>4. Len(inbox[c]) \in Nat /\ MaxLength \in Nat /\ Len(inbox[c]) <= MaxLength
  BY <1>1, <1>3, LenProperties, ServerAssumption DEF WholeLines
<1>5. n = Len(inbox[c])
  <2> DEFINE sizes == {Len(inbox[c]), MaxLength}
  <2>1. Len(inbox[c]) \in sizes /\ \A i \in sizes : i \in Nat /\ Len(inbox[c]) <= i
    BY <1>4
  <2>2. n = Min(sizes)
    BY DEF ReadSizes, WholeLines
  <2> HIDE DEF sizes
  <2> QED  BY <1>4, <2>1, <2>2 DEF Min
<1>6. data_copy(c, n) = inbox[c]
  BY <1>1, <1>5, SubSeqFull DEF data_copy
<1>7. SubSeq(inbox[c], n + 1, Len(inbox[c])) = << >>
  BY <1>1, <1>4, <1>5
<1>8. inbox'[c] = << >> /\ \A e \in Conns : e # c => inbox'[e] = inbox[e]
  BY <1>1, <1>7 DEF Receive
<1> QED  BY <1>2, <1>3, <1>6, <1>8

\* A line that waits is never answered twice and never lost: each step moves it
\* from the inbox to the handler and from there to a reply.
LEMMA LineStep ==
    ASSUME WholeLines, TypeInv, LifetimeInv, LineInv, [OpenNext]_vars
    PROVE  LineInv'
<1> DEFINE answered(c) == Len(outbox[c])
           line(c)     == inbox[c] # << >> => \E r \in Reports : inbox[c] = LineOf(r)
           balance(c)  == /\ answered(c) + Waiting(c) + InHand(c) <= sent[c]
                          /\ acks[c] + Waiting(c) + InHand(c) <= sent[c]
<1>types. /\ acks \in [Conns -> Nat] /\ sent \in [Conns -> Nat]
          /\ inbox \in [Conns -> Seq(Tokens)] /\ outbox \in [Conns -> Seq(Replies)]
          /\ \A c \in Conns : answered(c) \in Nat /\ acks[c] \in Nat /\ sent[c] \in Nat
          /\ cur \in Conns \cup {NoConn} /\ NoConn \notin Conns
  BY ServerAssumption, LenProperties DEF TypeInv, TypeOK, ServerTypeOK, TcpTypeOK
<1>inv. \A c \in Conns : line(c) /\ balance(c)
  BY DEF LineInv
<1>kept. ASSUME NEW e \in Conns, inbox'[e] = inbox[e], outbox'[e] = outbox[e],
                sent'[e] = sent[e], acks'[e] = acks[e], (e = cur') <=> (e = cur)
         PROVE  line(e)' /\ balance(e)'
  <2>1. answered(e)' = answered(e) /\ Waiting(e)' = Waiting(e) /\ InHand(e)' = InHand(e)
    BY <1>kept DEF Waiting, InHand
  <2>2. line(e)'
    BY <1>inv, <1>kept
  <2> HIDE DEF answered, line
  <2>3. balance(e)'
    BY <1>inv, <1>kept, <2>1
  <2> QED  BY <2>2, <2>3
<1>one. ASSUME NEW c \in Conns,
               \A e \in Conns \ {c} : /\ inbox'[e] = inbox[e]
                                      /\ outbox'[e] = outbox[e]
                                      /\ sent'[e] = sent[e]
                                      /\ acks'[e] = acks[e]
                                      /\ (e = cur') <=> (e = cur),
               line(c)' /\ balance(c)'
        PROVE  LineInv'
  <2>1. \A e \in Conns : e # c => line(e)' /\ balance(e)'
    <3> HIDE DEF line, balance
    <3> QED  BY <1>kept, <1>one
  <2>2. \A e \in Conns : line(e)' /\ balance(e)'
    <3> HIDE DEF line, balance
    <3> QED  BY <1>one, <2>1
  <2> QED  BY <2>2 DEF LineInv
<1> HIDE DEF answered
<1>1. ASSUME UNCHANGED <<inbox, outbox, sent, cur, acks>>
      PROVE  LineInv'
  BY <1>1 DEF LineInv, Waiting, InHand
<1>2. CASE MainNext \/ Console
  BY <1>1, <1>2
     DEF MainNext, Console, LoadConfig, ConnectDb, StartupFails, start, start_server,
         StartServerThrows, finish_work_before_quiting, DeleteDb, LeaveScope,
         UserQuits, ConsoleEof, asioVars, srvVars, tcpVars
<1>3. CASE Thread(ServiceNext)
  <2>1. ASSUME NEW c \in Conns, HandleAccept(c) \/ HandleWrite(c)
        PROVE  LineInv'
    BY <1>1, <2>1 DEF HandleAccept, HandleWrite, tcpVars
  <2>2. ASSUME NEW c \in Conns, HandleReadError(c)
        PROVE  LineInv'
    BY <1>1, <2>2 DEF HandleReadError, ReadFails, do_write, Transmit
  <2>3. ASSUME NEW c \in Conns, NEW n \in ReadSizes(c, MaxLength), ReadSome(c, n),
               NEW d, RefuseReport(c, d)
        PROVE  LineInv'
    <3>1. /\ inbox[c] # << >> /\ inbox'[c] = << >>
          /\ \A e \in Conns : e # c => inbox'[e] = inbox[e]
      BY <2>3, WholeRead DEF ReadSome
    <3>2. UNCHANGED <<sent, cur, acks>> /\ Transmit(c, "2") /\ "2" \in Replies
      BY <2>3 DEF RefuseReport, do_write, NOT_AUTHORIZED, Replies
    <3>3. /\ \A e \in Conns : e # c => outbox'[e] = outbox[e]
          /\ outbox'[c] = outbox[c] \/ Len(outbox'[c]) = Len(outbox[c]) + 1
      BY <3>2, TransmitAdds
    <3>4. Waiting(c) = 1 /\ Waiting(c)' = 0 /\ InHand(c)' = InHand(c) /\ InHand(c) \in Nat
      BY <3>1, <3>2 DEF Waiting, InHand
    <3>5. answered(c)' \in {answered(c), answered(c) + 1}
      BY <3>3 DEF answered
    <3>a. /\ acks'[c] = acks[c] /\ sent'[c] = sent[c] /\ line(c) /\ balance(c)
          /\ answered(c) \in Nat /\ acks[c] \in Nat /\ sent[c] \in Nat
      BY <1>types, <1>inv, <3>2
    <3>6. line(c)' /\ balance(c)'
      BY <3>a, <3>1, <3>4, <3>5
    <3> QED  BY <1>one, <3>1, <3>2, <3>3, <3>6
  <2>4. ASSUME NEW c \in Conns, NEW n \in ReadSizes(c, MaxLength), ReadSome(c, n),
               NEW d, AdmitReport(c, d)
        PROVE  LineInv'
    <3>1. /\ inbox[c] # << >> /\ inbox'[c] = << >>
          /\ \A e \in Conns : e # c => inbox'[e] = inbox[e]
      BY <2>4, WholeRead DEF ReadSome
    <3>2. UNCHANGED <<sent, acks, outbox>> /\ cur' = c /\ cur = NoConn
      BY <2>4 DEF AdmitReport, ReadSome, MayRun
    <3>3. Waiting(c) = 1 /\ Waiting(c)' = 0 /\ InHand(c) = 0 /\ InHand(c)' = 1
      BY <1>types, <3>1, <3>2 DEF Waiting, InHand
    <3>4. answered(c)' = answered(c)
      BY <3>2 DEF answered
    <3>5. line(c)' /\ balance(c)'
      BY <1>types, <1>inv, <3>1, <3>2, <3>3, <3>4
    <3> QED  BY <1>types, <1>one, <3>1, <3>2, <3>5
  <2>5. ASSUME NEW c \in Conns, NEW n \in ReadSizes(c, MaxLength), ReadSome(c, n),
               ParseCrashes(c, n)
        PROVE  LineInv'
    <3>1. /\ inbox[c] # << >> /\ inbox'[c] = << >>
          /\ \A e \in Conns : e # c => inbox'[e] = inbox[e]
      BY <2>5, WholeRead DEF ReadSome
    <3>2. UNCHANGED <<sent, acks, outbox, cur>>
      BY <2>5 DEF ParseCrashes
    <3>3. Waiting(c) = 1 /\ Waiting(c)' = 0 /\ InHand(c)' = InHand(c) /\ InHand(c) \in Nat
      BY <3>1, <3>2 DEF Waiting, InHand
    <3>4. answered(c)' = answered(c)
      BY <3>2 DEF answered
    <3>5. line(c)' /\ balance(c)'
      BY <1>types, <1>inv, <3>1, <3>2, <3>3, <3>4
    <3> QED  BY <1>one, <3>1, <3>2, <3>5
  <2>6. CASE HandleAcceptError \/ ServiceReturns
    BY <1>1, <2>6 DEF HandleAcceptError, ServiceReturns, tcpVars
  <2>7. CASE FinishReport
    <3>1. /\ cur \in Conns /\ cur' = NoConn /\ acks' = [acks EXCEPT ![cur] = @ + 1]
          /\ UNCHANGED <<inbox, sent>> /\ Transmit(cur, "0") /\ "0" \in Replies
      BY <1>types, <2>7 DEF FinishReport, do_write, READ_SUCCESS, Replies
    <3>2. /\ \A e \in Conns : e # cur => outbox'[e] = outbox[e]
          /\ outbox'[cur] = outbox[cur] \/ Len(outbox'[cur]) = Len(outbox[cur]) + 1
      BY <3>1, TransmitAdds
    <3>3. PICK c \in Conns : c = cur
      BY <3>1
    <3>4. /\ Waiting(c)' = Waiting(c) /\ Waiting(c) \in Nat
          /\ InHand(c) = 1 /\ InHand(c)' = 0
      BY <1>types, <3>1, <3>3 DEF Waiting, InHand
    <3>5. answered(c)' \in {answered(c), answered(c) + 1}
      BY <3>2, <3>3 DEF answered
    <3>6. acks'[c] = acks[c] + 1 /\ \A e \in Conns : e # c => acks'[e] = acks[e]
      BY <1>types, <3>1, <3>3
    <3>a. /\ inbox'[c] = inbox[c] /\ sent'[c] = sent[c] /\ line(c) /\ balance(c)
          /\ answered(c) \in Nat /\ acks[c] \in Nat /\ sent[c] \in Nat
      BY <1>types, <1>inv, <3>1
    <3>7. line(c)' /\ balance(c)'
      BY <3>a, <3>4, <3>5, <3>6
    <3> QED  BY <1>types, <1>one, <3>1, <3>2, <3>3, <3>6, <3>7
  <2> QED  BY <1>3, <2>1, <2>2, <2>3, <2>4, <2>5, <2>6, <2>7
           DEF Thread, ServiceNext, HandlerOf, HandleRead
<1>4. CASE Thread(DbNext)
  BY <1>1, <1>4 DEF Thread, DbNext, Execute, asioVars, tcpVars
<1>5. ASSUME UNCHANGED srvVars
      PROVE  UNCHANGED <<cur, acks>>
  <2>1. UNCHANGED asioVars /\ acks' = acks
    BY <1>5 DEF srvVars
  <2> QED  BY <2>1 DEF asioVars
<1>6. CASE NetNext \/ PeerActs
  <2>1. UNCHANGED <<cur, acks>>
    BY <1>5, <1>6 DEF NetNext, PeerActs
  <2>2. ASSUME NEW c \in Conns, ResetArrives(c) \/ PeerConnect(c) \/ PeerClose(c)
        PROVE  LineInv'
    BY <1>1, <2>1, <2>2 DEF ResetArrives, PeerConnect, PeerClose
  <2>3. ASSUME NEW c \in Conns, NEW r \in Reports, PeerSend(c, r)
        PROVE  LineInv'
    <3>1. /\ Len(outbox[c]) >= sent[c] /\ outbox' = outbox
          /\ inbox' = [inbox EXCEPT ![c] = @ \o LineOf(r)]
          /\ sent' = [sent EXCEPT ![c] = @ + 1]
      BY <2>3 DEF PeerSend
    <3>2. inbox[c] = << >> /\ c # cur /\ Waiting(c) = 0 /\ InHand(c) = 0
      <4>1. answered(c) >= sent[c]
        BY <3>1 DEF answered
      <4>2. Waiting(c) \in Nat /\ InHand(c) \in Nat
        BY DEF Waiting, InHand
      <4>3. Waiting(c) = 0 /\ InHand(c) = 0
        BY <1>types, <1>inv, <4>1, <4>2
      <4> QED  BY <4>3 DEF Waiting, InHand
    <3>3. inbox'[c] = LineOf(r) /\ \A e \in Conns : e # c => inbox'[e] = inbox[e]
      <4>1. << >> \o LineOf(r) = LineOf(r)
        BY LineType, ConcatEmptySeq
      <4> QED  BY <1>types, <3>1, <3>2, <4>1
    <3>4. Waiting(c)' = 1 /\ InHand(c)' = 0 /\ answered(c)' = answered(c)
      BY <2>1, <3>1, <3>2, <3>3, LineIsNotEmpty DEF Waiting, InHand, answered
    <3>5. sent'[c] = sent[c] + 1 /\ \A e \in Conns : e # c => sent'[e] = sent[e]
      BY <1>types, <3>1
    <3>6. line(c)' /\ balance(c)'
      BY <1>types, <1>inv, <2>1, <3>2, <3>3, <3>4, <3>5
    <3> QED  BY <1>one, <2>1, <3>1, <3>3, <3>5, <3>6
  <2> QED  BY <1>6, <2>2, <2>3 DEF NetNext, PeerActs
<1>7. CASE UNCHANGED vars
  <2>1. UNCHANGED srvVars /\ UNCHANGED tcpVars
    BY <1>7 DEF vars
  <2> QED  BY <1>1, <1>5, <2>1 DEF tcpVars
<1> QED  BY <1>2, <1>3, <1>4, <1>6, <1>7 DEF OpenNext, Idle

\* No connection has a line before its peer sends one.
LEMMA LineInit == Init => LineInv
<1> SUFFICES ASSUME Init PROVE LineInv
  OBVIOUS
<1>1. \A c \in Conns : /\ inbox[c] = << >> /\ Len(outbox[c]) = 0
                       /\ sent[c] = 0 /\ acks[c] = 0 /\ c # cur
  BY ServerAssumption DEF Init, ServerInit, TcpInit
<1>2. \A c \in Conns : Waiting(c) = 0 /\ InHand(c) = 0
  BY <1>1 DEF Waiting, InHand
<1> QED  BY <1>1, <1>2 DEF LineInv

\* A line that was stored or lost was sent, and no longer waits.
LEMMA StoredBound ==
    ASSUME TypeInv, AcksMatchInserts, LineInv
    PROVE  StoredAtMostOnce
<1> SUFFICES ASSUME NEW c \in Conns
             PROVE  Cardinality(RowsOf(c)) + lost[c] <= sent[c]
  BY DEF StoredAtMostOnce
<1>1. acks[c] \in Nat /\ sent[c] \in Nat /\ lost[c] \in Nat
  BY DEF TypeInv, TypeOK, ServerTypeOK, TcpTypeOK
<1>2. Cardinality(RowsOf(c)) \in Nat
  BY RowsAreFinite
<1>3. acks[c] + Waiting(c) + InHand(c) <= sent[c]
  BY DEF LineInv
<1>4. Waiting(c) \in Nat /\ InHand(c) \in Nat /\ (c = cur => InHand(c) = 1)
  BY DEF Waiting, InHand
<1>5. \/ c = cur /\ Cardinality(RowsOf(c)) + lost[c] = acks[c] + 1
      \/ Cardinality(RowsOf(c)) + lost[c] = acks[c]
  BY <1>1, <1>2 DEF AcksMatchInserts
<1> QED  BY <1>1, <1>2, <1>3, <1>4, <1>5

\* Where lines arrive whole, each has been stored or lost at most once.
THEOREM StoredOnce == WholeLines => (Spec => []StoredAtMostOnce)
<1> SUFFICES ASSUME WholeLines PROVE Spec => []StoredAtMostOnce
  OBVIOUS
<1>1. SafetyInv => LifetimeInv
  BY DEF SafetyInv
<1>2. TypeInv /\ LifetimeInv /\ LineInv /\ [Next]_vars => LineInv'
  BY NextIsOpen, LineStep
<1>3. TypeInv /\ AcksMatchInserts /\ LineInv => StoredAtMostOnce
  BY StoredBound
<1> QED  BY <1>1, <1>2, <1>3, LineInit, AcksAreInserts, TypesHold, Safe, PTL DEF Spec

\* A step that reads a whole line does not crash the process.
LEMMA NoCrashStep ==
    ASSUME WholeLines, TypeInv, LineInv, NoCrashWhileServing, [OpenNext]_vars
    PROVE  NoCrashWhileServing'
<1> USE DEF NoCrashWhileServing
<1>1. CASE MainNext \/ Console
  BY <1>1
     DEF MainNext, Console, LoadConfig, ConnectDb, StartupFails, start, start_server,
         StartServerThrows, finish_work_before_quiting, DeleteDb, LeaveScope,
         UserQuits, ConsoleEof, asioVars, srvVars
<1>2. CASE Thread(ServiceNext)
  <2>1. ASSUME NEW c \in Conns,
               HandleAccept(c) \/ HandleReadError(c) \/ HandleWrite(c)
        PROVE  svc' = svc
    BY <2>1 DEF HandleAccept, HandleReadError, HandleWrite
  <2>2. ASSUME NEW c \in Conns, NEW d, RefuseReport(c, d) \/ AdmitReport(c, d)
        PROVE  svc' = svc
    BY <2>2 DEF RefuseReport, AdmitReport
  <2>3. ASSUME NEW c \in Conns, NEW n \in ReadSizes(c, MaxLength), ReadSome(c, n)
        PROVE  ~ ParseCrashes(c, n)
    <3>1. PICK r \in Reports : data_copy(c, n) = LineOf(r)
      BY <2>3, WholeRead DEF ReadSome
    <3>2. r.key \in Seq(Range(r.key))
      BY PeersAssumption
    <3>3. ~ IsShort(LineOf(r))
      BY <3>2, LineIsNotShort DEF LineOf
    <3> QED  BY <3>1, <3>3 DEF ParseCrashes
  <2>4. CASE HandleAcceptError \/ FinishReport \/ ServiceReturns
    BY <2>4 DEF HandleAcceptError, FinishReport, ServiceReturns
  <2> QED  BY <1>2, <2>1, <2>2, <2>3, <2>4
           DEF Thread, ServiceNext, HandlerOf, HandleRead
<1>3. CASE Thread(DbNext)
  BY <1>3 DEF Thread, DbNext, Execute, asioVars
<1>4. ASSUME UNCHANGED srvVars
      PROVE  svc' = svc
  <2>1. UNCHANGED asioVars
    BY <1>4 DEF srvVars
  <2> QED  BY <2>1 DEF asioVars
<1>5. CASE NetNext \/ PeerActs \/ UNCHANGED vars
  BY <1>4, <1>5 DEF NetNext, PeerActs, vars
<1> QED  BY <1>1, <1>2, <1>3, <1>5 DEF OpenNext, Idle

\* Where lines arrive whole, the parser never runs past its vector, whatever the
\* keys are made of: the process never crashes while it serves.
THEOREM WholeLinesAreSafe == WholeLines => (Spec => []NoCrashWhileServing)
<1> SUFFICES ASSUME WholeLines PROVE Spec => []NoCrashWhileServing
  OBVIOUS
<1>1. SafetyInv => LifetimeInv
  BY DEF SafetyInv
<1>2. TypeInv /\ LifetimeInv /\ LineInv /\ [Next]_vars => LineInv'
  BY NextIsOpen, LineStep
<1>3. TypeInv /\ LineInv /\ NoCrashWhileServing /\ [Next]_vars => NoCrashWhileServing'
  BY NextIsOpen, NoCrashStep
<1>4. Init => NoCrashWhileServing
  BY DEF Init, ServerInit, NoCrashWhileServing
<1> QED  BY <1>1, <1>2, <1>3, <1>4, LineInit, TypesHold, Safe, PTL DEF Spec

-----------------------------------------------------------------------------
(* The contents of the rows.                                               *)

\* What the parser makes of a report's line: the key of the report, and a row
\* that is the report's if the columns accept it.
LEMMA ReportIsParsed ==
    ASSUME CleanReports, NEW r \in Reports, NEW junk
    PROVE  /\ parse_to_client_detail(LineOf(r), junk).client_key = r.key
           /\ FitsColumns(generate_insert_str_for(parse_to_client_detail(LineOf(r), junk)))
                => generate_insert_str_for(parse_to_client_detail(LineOf(r), junk))
                     = ReportedRow(r)
<1> DEFINE d == parse_to_client_detail(LineOf(r), junk)
<1>1. /\ r.key \in Seq(Range(r.key)) /\ ~ Contains(r.key, Bar)
      /\ r.memory \in (-(IntMax + 1))..IntMax /\ r.cpu \in (-(IntMax + 1))..IntMax
      /\ r.processes \in (-(IntMax + 1))..IntMax
  BY PeersAssumption DEF CleanReports
<1>2. r.memory \in Int /\ r.cpu \in Int /\ r.processes \in Int
  BY <1>1, SizeOfInt
<1>3. d = [ client_key         |-> r.key,
            curr_memory_pct    |-> to_size(r.memory),
            curr_cpu_pct       |-> to_size(r.cpu),
            curr_processes_cnt |-> to_size(r.processes),
            str_dt_time        |-> <<Word(r.time)>> ]
  BY <1>1, <1>2, LineIsParsed DEF LineOf
<1>4. /\ to_size(r.memory) <= IntMax => to_size(r.memory) = r.memory
      /\ to_size(r.cpu) <= IntMax => to_size(r.cpu) = r.cpu
      /\ to_size(r.processes) <= IntMax => to_size(r.processes) = r.processes
  BY <1>1, SizeOfInt
<1> HIDE DEF d
<1>5. d.client_key = r.key
  BY <1>3
<1>6. FitsColumns(generate_insert_str_for(d)) => generate_insert_str_for(d) = ReportedRow(r)
  BY <1>3, <1>4 DEF FitsColumns, generate_insert_str_for, ReportedRow
<1> QED  BY <1>5, <1>6 DEF d

\* Every INSERT that is started is that of a report, and so is every row.
LEMMA ContentStep ==
    ASSUME WholeLines, CleanReports, TypeInv, LineInv, ContentInv, [OpenNext]_vars
    PROVE  ContentInv'
<1>1. ASSUME UNCHANGED <<txns, table>>
      PROVE  ContentInv'
  BY <1>1 DEF ContentInv, RowsAreReports
<1>2. CASE MainNext \/ Console
  BY <1>1, <1>2
     DEF MainNext, Console, LoadConfig, ConnectDb, StartupFails, start, start_server,
         StartServerThrows, finish_work_before_quiting, DeleteDb, LeaveScope,
         UserQuits, ConsoleEof, dbVars, srvVars
<1>3. CASE Thread(ServiceNext)
  <2>1. ASSUME NEW c \in Conns,
               HandleAccept(c) \/ HandleReadError(c) \/ HandleWrite(c)
        PROVE  ContentInv'
    BY <1>1, <2>1 DEF HandleAccept, HandleReadError, HandleWrite, dbVars
  <2>2. ASSUME NEW c \in Conns, NEW n, NEW d, RefuseReport(c, d) \/ ParseCrashes(c, n)
        PROVE  ContentInv'
    BY <1>1, <2>2 DEF RefuseReport, ParseCrashes, dbVars
  <2>3. ASSUME NEW c \in Conns, NEW n \in ReadSizes(c, MaxLength), ReadSome(c, n),
               NEW d \in Parsed(c, n), AdmitReport(c, d)
        PROVE  ContentInv'
    <3>1. PICK r \in Reports : data_copy(c, n) = LineOf(r)
      BY <2>3, WholeRead DEF ReadSome
    <3>2. PICK junk \in Junk : d = parse_to_client_detail(LineOf(r), junk)
      BY <2>3, <3>1 DEF Parsed
    <3>3. FitsColumns(generate_insert_str_for(d)) => generate_insert_str_for(d) = ReportedRow(r)
      BY <3>2, ReportIsParsed
    <3>4. \A t \in txns' : t \in txns \/ t.row = generate_insert_str_for(d)
      BY <2>3 DEF AdmitReport, write_to_db
    <3>5. table' = table
      BY <2>3 DEF AdmitReport
    <3> QED  BY <3>3, <3>4, <3>5 DEF ContentInv, RowsAreReports
  <2>4. CASE HandleAcceptError \/ FinishReport \/ ServiceReturns
    BY <1>1, <2>4 DEF HandleAcceptError, FinishReport, ServiceReturns, dbVars
  <2> QED  BY <1>3, <2>1, <2>2, <2>3, <2>4
           DEF Thread, ServiceNext, HandlerOf, HandleRead
<1>4. CASE Thread(DbNext)
  <2>1. PICK t \in txns : Execute(t)
    BY <1>4 DEF Thread, DbNext
  <2>2. txns' \subseteq txns
    BY <2>1 DEF Execute
  <2>3. CASE FitsColumns(t.row) /\ table' = Append(table, t)
    <3>1. \E r \in Reports : t.row = ReportedRow(r)
      BY <2>3 DEF ContentInv
    <3>2. /\ DOMAIN table' = 1..(Len(table) + 1) /\ DOMAIN table = 1..Len(table)
          /\ Len(table) \in Nat
          /\ \A i \in 1..Len(table) : table'[i] = table[i]
          /\ table'[Len(table) + 1] = t
      BY <2>3, AppendProperties, LenProperties DEF TypeInv
    <3>3. \A i \in DOMAIN table' : i \in DOMAIN table \/ i = Len(table) + 1
      BY <3>2
    <3> QED  BY <2>2, <3>1, <3>2, <3>3 DEF ContentInv, RowsAreReports
  <2>4. CASE table' = table
    BY <2>2, <2>4 DEF ContentInv, RowsAreReports
  <2> QED  BY <2>1, <2>3, <2>4 DEF Execute
<1>5. CASE UNCHANGED srvVars
  <2>1. UNCHANGED dbVars
    BY <1>5 DEF srvVars
  <2> QED  BY <1>1, <2>1 DEF dbVars
<1>6. CASE NetNext \/ PeerActs \/ UNCHANGED vars
  BY <1>5, <1>6 DEF NetNext, PeerActs, vars
<1> QED  BY <1>2, <1>3, <1>4, <1>6 DEF OpenNext, Idle

\* Where lines arrive whole, and carry ints and keys without the delimiter, every
\* row is, number for number, a report that a peer sent.
THEOREM RowsAreExact == WholeLines /\ CleanReports => (Spec => []RowsAreReports)
<1> SUFFICES ASSUME WholeLines, CleanReports PROVE Spec => []RowsAreReports
  OBVIOUS
<1>1. SafetyInv => LifetimeInv
  BY DEF SafetyInv
<1>2. TypeInv /\ LifetimeInv /\ LineInv /\ [Next]_vars => LineInv'
  BY NextIsOpen, LineStep
<1>3. TypeInv /\ LineInv /\ ContentInv /\ [Next]_vars => ContentInv'
  BY NextIsOpen, ContentStep
<1>4. Init => ContentInv
  BY DEF Init, ServerInit, ContentInv, RowsAreReports
<1>5. ContentInv => RowsAreReports
  BY DEF ContentInv
<1> QED  BY <1>1, <1>2, <1>3, <1>4, <1>5, LineInit, TypesHold, Safe, PTL DEF Spec

=============================================================================

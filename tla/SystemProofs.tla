---------------------------- MODULE SystemProofs ----------------------------
(***************************************************************************)
(* What a client process and the server process do together, for every     *)
(* set of connections, every client key and every configuration.           *)
(***************************************************************************)
EXTENDS SysInfoSystem, ServerProofs

\* The steps of the server process and of the network.
ServerActs ==
    \/ MainNext \/ Console
    \/ Thread(ServiceNext) \/ Thread(DbNext)
    \/ NetNext

\* What the two processes do together: a socket call of the client, a step of
\* the client alone, or one of the server.
LEMMA SysCases ==
    ASSUME [SysNext]_sysVars
    PROVE  \/ \E c \in Conns : Connect(c)
           \/ Write \/ Read \/ Throw
           \/ TaskAlone \/ ClientMain \/ ClientConsole \/ ClientClock
           \/ ServerActs /\ UNCHANGED clientSide
           \/ UNCHANGED sysVars
BY DEF SysNext, ClientTask, ServerStep, Rest, ServerActs

\* The client alone leaves the server, its sockets and its own key as they are.
LEMMA AloneKeepsServer ==
    ASSUME TaskAlone \/ ClientMain \/ ClientConsole \/ ClientClock
    PROVE  UNCHANGED vars /\ client_key' = client_key /\ link' = link
BY DEF TaskAlone, ClientMain, ClientConsole, ClientClock

\* The server sees the client as one of the peers it may meet.
LEMMA SysIsOpen ==
    ASSUME LinkInv, [SysNext]_sysVars
    PROVE  [OpenNext]_vars /\ client_key' = client_key
<1>1. ASSUME NEW c \in Conns, Connect(c)
      PROVE  PeerActs /\ client_key' = client_key
  BY <1>1 DEF Connect, PeerActs, serverSide
<1>2. CASE Write
  <2>1. link \in Conns /\ client_key' = client_key
    BY <1>2 DEF Write, Client!write, LinkInv
  <2>2. \E r \in Reports : PeerSend(link, r)
    BY <1>2 DEF Write
  <2> QED  BY <1>2, <2>1, <2>2 DEF Write, PeerActs, OpenNext, serverSide
<1>3. CASE Read
  <2>1. link \in Conns /\ client_key' = client_key
    BY <1>3 DEF Read, Client!read, LinkInv
  <2> QED  BY <1>3, <2>1 DEF Read, PeerActs, OpenNext, serverSide
<1>4. CASE Throw
  <2>1. CASE UNCHANGED tcpVars
    BY <1>4, <2>1 DEF Throw, serverSide, vars
  <2>2. CASE call \in {"write", "read"} /\ PeerClose(link)
    <3>1. link \in Conns
      BY <2>2 DEF LinkInv
    <3> QED  BY <1>4, <2>2, <3>1 DEF Throw, PeerActs, OpenNext, serverSide
  <2> QED  BY <1>4, <2>1, <2>2 DEF Throw
<1>5. CASE TaskAlone \/ ClientMain \/ ClientConsole \/ ClientClock
  BY <1>5, AloneKeepsServer
<1>6. CASE ServerActs /\ UNCHANGED clientSide
  BY <1>6 DEF ServerActs, OpenNext, clientSide
<1>7. CASE UNCHANGED sysVars
  BY <1>7 DEF sysVars, clientSide
<1> QED  BY <1>1, <1>2, <1>3, <1>4, <1>5, <1>6, <1>7, SysCases DEF OpenNext

-----------------------------------------------------------------------------
(* The connections of the client.                                          *)

\* The server sends no lines and opens no connections, and takes back no reply.
LEMMA ServerGrows ==
    ASSUME TypeInv, ServerActs
    PROVE  /\ sent' = sent
           /\ \A c \in Conns : (conn'[c] = "idle") <=> (conn[c] = "idle")
           /\ \A c \in Conns : outbox[c] # << >> =>
                 outbox'[c] # << >> /\ outbox'[c][1] = outbox[c][1]
<1> DEFINE grows == \A c \in Conns : outbox[c] # << >> =>
                       outbox'[c] # << >> /\ outbox'[c][1] = outbox[c][1]
<1>types. /\ cur \in Conns \cup {NoConn}
          /\ conn \in [Conns -> {"idle", "open", "closed", "reset"}]
          /\ outbox \in [Conns -> Seq(Replies)]
  BY DEF TypeInv, TypeOK, ServerTypeOK, TcpTypeOK
<1>1. ASSUME NEW c \in Conns, NEW byte \in Replies, Transmit(c, byte)
      PROVE  grows
  <2>1. /\ \A e \in Conns : e # c => outbox'[e] = outbox[e]
        /\ \/ outbox'[c] = outbox[c]
           \/ /\ DOMAIN outbox'[c] = 1..(Len(outbox[c]) + 1)
              /\ Len(outbox[c]) \in Nat
              /\ DOMAIN outbox[c] = 1..Len(outbox[c])
              /\ \A i \in DOMAIN outbox[c] : outbox'[c][i] = outbox[c][i]
    BY <1>1, TransmitAdds
  <2>2. outbox[c] # << >> => 1 \in DOMAIN outbox[c]
    BY <1>types, EmptySeq, LenProperties
  <2>3. 1 \in DOMAIN outbox'[c] => outbox'[c] # << >>
    OBVIOUS
  <2>4. outbox[c] # << >> => outbox'[c] # << >> /\ outbox'[c][1] = outbox[c][1]
    BY <2>1, <2>2, <2>3
  <2> QED  BY <2>1, <2>4
<1>2. CASE UNCHANGED tcpVars
  BY <1>2 DEF tcpVars
<1>3. CASE MainNext \/ Console
  BY <1>2, <1>3
     DEF MainNext, Console, LoadConfig, ConnectDb, StartupFails, start, start_server,
         StartServerThrows, finish_work_before_quiting, DeleteDb, LeaveScope,
         UserQuits, ConsoleEof
<1>4. CASE Thread(ServiceNext)
  <2> USE DEF READ_SUCCESS, READ_FAILURE, NOT_AUTHORIZED, Replies
  <2>1. ASSUME NEW c \in Conns, HandleAccept(c)
        PROVE  sent' = sent /\ conn' = conn /\ grows
    BY <2>1 DEF HandleAccept
  <2>2. ASSUME NEW c \in Conns, HandleReadError(c)
        PROVE  sent' = sent /\ conn' = conn /\ grows
    BY <1>1, <2>2 DEF HandleReadError, do_write
  <2>3. ASSUME NEW c \in Conns, NEW d, RefuseReport(c, d)
        PROVE  sent' = sent /\ conn' = conn /\ grows
    BY <1>1, <2>3 DEF RefuseReport, do_write
  <2>4. ASSUME NEW c \in Conns, NEW n, NEW d, AdmitReport(c, d) \/ ParseCrashes(c, n)
        PROVE  sent' = sent /\ conn' = conn /\ grows
    BY <2>4 DEF AdmitReport, ParseCrashes
  <2>5. ASSUME NEW c \in Conns, HandleWrite(c)
        PROVE  sent' = sent /\ conn' = conn /\ grows
    BY <2>5 DEF HandleWrite, tcpVars
  <2>6. CASE HandleAcceptError \/ ServiceReturns
    BY <1>2, <2>6 DEF HandleAcceptError, ServiceReturns
  <2>7. CASE FinishReport
    <3>1. cur \in Conns /\ Transmit(cur, "0") /\ sent' = sent /\ conn' = conn
      BY <1>types, <2>7 DEF FinishReport, do_write
    <3> QED  BY <1>1, <3>1
  <2> HIDE DEF grows
  <2> QED  BY <1>4, <2>1, <2>2, <2>3, <2>4, <2>5, <2>6, <2>7
           DEF Thread, ServiceNext, HandlerOf, HandleRead, grows
<1>5. CASE Thread(DbNext)
  BY <1>2, <1>5 DEF Thread, DbNext, Execute
<1>6. CASE NetNext
  BY <1>types, <1>6 DEF NetNext, ResetArrives
<1> QED  BY <1>3, <1>4, <1>5, <1>6 DEF ServerActs

\* The client opens a connection per report and leaves it when the reply is there
\* or when it ends, and the reply it takes is the first of that connection.
LEMMA LinkStep ==
    ASSUME TypeInv, LinkInv, [SysNext]_sysVars
    PROVE  LinkInv'
<1>types. /\ conn \in [Conns -> {"idle", "open", "closed", "reset"}]
          /\ sent \in [Conns -> Nat] /\ outbox \in [Conns -> Seq(Replies)]
          /\ NoConn \notin Conns
  BY ServerAssumption DEF TypeInv, TypeOK, TcpTypeOK
<1>1. ASSUME NEW c \in Conns, Connect(c)
      PROVE  LinkInv'
  <2>1. /\ call = "connect" /\ call' = "write" /\ timer' = timer
        /\ link' = c /\ conn[c] = "idle" /\ conn' = [conn EXCEPT ![c] = "open"]
        /\ UNCHANGED <<sent, outbox>>
    BY <1>1 DEF Connect, Client!connect, Client!timerVars, PeerConnect
  <2>2. sent[c] = 0 /\ c # link
    BY <1>types, <2>1 DEF LinkInv
  <2> QED  BY <1>types, <2>1, <2>2 DEF LinkInv, Answered
<1>2. CASE Write
  <2>1. /\ call = "write" /\ call' = "read" /\ UNCHANGED <<timer, link, conn, outbox>>
        /\ sent' = [sent EXCEPT ![link] = @ + 1] /\ timer = "working"
        /\ link \in Conns /\ sent[link] = 0
    BY <1>2 DEF Write, Client!write, Client!timerVars, PeerSend, LinkInv
  <2>2. sent'[link] = 1 /\ \A c \in Conns : c # link => sent'[c] = sent[c]
    BY <1>types, <2>1
  <2> QED  BY <1>types, <2>1, <2>2 DEF LinkInv, Answered
<1>3. CASE Read
  <2>1. /\ call = "read" /\ call' = "none" /\ timer' = "worked"
        /\ outbox[link] # << >> /\ reply' = Head(outbox[link])
        /\ conn' = [conn EXCEPT ![link] = "closed"]
        /\ UNCHANGED <<link, sent, outbox>> /\ link \in Conns
    BY <1>3 DEF Read, Client!read, PeerClose, LinkInv
  <2>2. Head(outbox[link]) = outbox[link][1]
    BY <1>types, <2>1
  <2> QED  BY <1>types, <2>1, <2>2 DEF LinkInv, Answered
<1>4. CASE Throw
  <2>1. call' = "none" /\ timer' = "done" /\ link' = link
    BY <1>4 DEF Throw, Client!RequestThrows
  <2>2. UNCHANGED <<sent, outbox>>
    BY <1>4 DEF Throw, PeerClose, tcpVars
  <2>3. \A c \in Conns : (conn'[c] = "idle") <=> (conn[c] = "idle")
    BY <1>types, <1>4 DEF Throw, PeerClose, tcpVars
  <2> QED  BY <2>1, <2>2, <2>3 DEF LinkInv, Answered
<1>5. ASSUME UNCHANGED <<conn, sent, outbox, link, reply, call, timer>>
      PROVE  LinkInv'
  BY <1>5 DEF LinkInv, Answered
<1>6. ASSUME UNCHANGED vars
      PROVE  UNCHANGED <<conn, sent, outbox>>
  <2>1. UNCHANGED tcpVars
    BY <1>6 DEF vars
  <2> QED  BY <2>1 DEF tcpVars
<1>7. CASE TaskAlone
  <2>1. UNCHANGED <<conn, sent, outbox, link>>
    BY <1>6, <1>7, AloneKeepsServer
  <2>2. \/ call' = call /\ timer = "none" /\ timer' = "armed"
        \/ call' = "connect" /\ timer = "armed" /\ timer' = "working"
        \/ call' = call /\ timer = "worked" /\ timer' \in {"armed", "done"}
    BY <1>7 DEF TaskAlone, Client!BeginTask, Client!start_timer, Client!BeginRequest,
                Client!BeginWork, Client!RepeatOrEnd, Client!Repeat
  <2> QED  BY <2>1, <2>2 DEF LinkInv, Answered
<1>8. CASE ClientMain \/ ClientConsole \/ ClientClock
  <2>1. UNCHANGED <<conn, sent, outbox, link>>
    BY <1>6, <1>8, AloneKeepsServer
  <2>2. UNCHANGED <<reply, call, timer>>
    BY <1>8 DEF ClientMain, ClientConsole, ClientClock, Client!MainNext, Client!UsageError,
                Client!StartTask, Client!Get, Client!Console, Client!UserQuits,
                Client!ConsoleEof, Client!Clock, Client!Tick, Client!clientVars,
                Client!timerVars
  <2> QED  BY <1>5, <2>1, <2>2
<1>9. CASE ServerActs /\ UNCHANGED clientSide
  <2>1. UNCHANGED <<link, reply, call, timer>>
    BY <1>9 DEF clientSide
  <2>2. /\ sent' = sent
        /\ \A c \in Conns : (conn'[c] = "idle") <=> (conn[c] = "idle")
        /\ \A c \in Conns : outbox[c] # << >> =>
              outbox'[c] # << >> /\ outbox'[c][1] = outbox[c][1]
    BY <1>9, ServerGrows
  <2> QED  BY <2>1, <2>2 DEF LinkInv, Answered
<1>10. CASE UNCHANGED sysVars
  BY <1>5, <1>6, <1>10 DEF sysVars, clientSide
<1> QED  BY <1>1, <1>2, <1>3, <1>4, <1>7, <1>8, <1>9, <1>10, SysCases

\* At the start the client has no connection.
LEMMA LinkInit == SysInit => LinkInv
<1> SUFFICES ASSUME SysInit PROVE LinkInv
  OBVIOUS
<1>1. /\ call = "none" /\ timer = "none" /\ link = NoConn
      /\ \A c \in Conns : sent[c] = 0
  BY DEF SysInit, Client!Init, Client!TimerInit, Init, TcpInit
<1> QED  BY <1>1 DEF LinkInv, Answered

-----------------------------------------------------------------------------
(* What holds of both processes whatever the network does to the lines.    *)

\* The invariants of the server, among such peers, with those of the client's
\* connections.
SysInv ==
    /\ TypeInv /\ SafetyInv /\ AcksMatchInserts /\ ReplyInv /\ LinkInv
    /\ FailureIsNeverSeen

\* The client never takes a failure for the reply: the only replies that it could
\* read are those of its connection.
LEMMA FailureStep ==
    ASSUME TypeInv, LinkInv, ReplyInv, FailureIsNeverSeen, [SysNext]_sysVars
    PROVE  FailureIsNeverSeen'
<1> USE DEF FailureIsNeverSeen
<1>1. ASSUME reply' = reply
      PROVE  FailureIsNeverSeen'
  BY <1>1
<1>2. CASE Read
  <2>1. outbox[link] # << >> /\ reply' = Head(outbox[link]) /\ link \in Conns
    BY <1>2 DEF Read, Client!read, LinkInv
  <2>2. outbox[link] \in Seq(Replies)
    BY <2>1 DEF TypeInv, TypeOK, TcpTypeOK
  <2>3. 1 \in DOMAIN outbox[link] /\ reply' = outbox[link][1]
    BY <2>1, <2>2
  <2> QED  BY <2>1, <2>3 DEF ReplyInv
<1>3. ASSUME NEW c \in Conns, Connect(c)
      PROVE  reply' = reply
  BY <1>3 DEF Connect, Client!connect
<1>4. CASE Write \/ Throw
  BY <1>4 DEF Write, Throw, Client!write, Client!RequestThrows
<1>5. CASE TaskAlone
  BY <1>5 DEF TaskAlone, Client!BeginTask, Client!BeginRequest, Client!RepeatOrEnd,
              READ_FAILURE
<1>6. CASE ClientMain \/ ClientConsole \/ ClientClock
  BY <1>6 DEF ClientMain, ClientConsole, ClientClock, Client!MainNext, Client!UsageError,
              Client!StartTask, Client!Get, Client!Console, Client!UserQuits,
              Client!ConsoleEof, Client!Clock, Client!clientVars
<1>7. CASE UNCHANGED clientSide
  BY <1>7 DEF clientSide
<1> QED  BY <1>1, <1>2, <1>3, <1>4, <1>5, <1>6, <1>7, SysCases DEF sysVars

\* Together the two processes keep what each of them relies on.
LEMMA SysHolds == SysSpec => []SysInv
<1>1. SysInit => SysInv
  <2> SUFFICES ASSUME SysInit PROVE SysInv
    OBVIOUS
  <2>1. Init /\ reply = "none"
    BY DEF SysInit, Client!Init
  <2> QED  BY <2>1, TypeInit, SafetyInit, AcksInit, ReplyInit, LinkInit
           DEF SysInv, FailureIsNeverSeen, READ_FAILURE
<1>2. SysInv /\ [SysNext]_sysVars => SysInv'
  <2> SUFFICES ASSUME SysInv, [SysNext]_sysVars PROVE SysInv'
    OBVIOUS
  <2>1. [OpenNext]_vars
    BY SysIsOpen DEF SysInv
  <2>2. TypeInv' /\ SafetyInv'
    BY <2>1, TypeStep, LifetimeStep, SessionStep, ConfigStep DEF SysInv, SafetyInv
  <2>3. AcksMatchInserts' /\ ReplyInv'
    BY <2>1, AcksStep, ReplyStep DEF SysInv, SafetyInv
  <2>4. LinkInv' /\ FailureIsNeverSeen'
    BY LinkStep, FailureStep DEF SysInv
  <2> QED  BY <2>2, <2>3, <2>4 DEF SysInv
<1> QED  BY <1>1, <1>2, PTL DEF SysSpec

\* READ_FAILURE, which the server sends when a read fails, never reaches a client
\* that still listens, whatever TCP does to the lines and whatever fails.
THEOREM FailureStaysUnseen == SysSpec => []FailureIsNeverSeen
<1>1. SysInv => FailureIsNeverSeen
  BY DEF SysInv
<1> QED  BY <1>1, SysHolds, PTL

\* The lifetimes, transactions, operations and rows of the server are as safe
\* with a client process that may outlive it.
THEOREM SafeWithClient == SysSpec => [](SafetyInv /\ AcksMatchInserts)
<1>1. SysInv => SafetyInv /\ AcksMatchInserts
  BY DEF SysInv
<1> QED  BY <1>1, SysHolds, PTL

-----------------------------------------------------------------------------
(* What holds where lines arrive whole.                                    *)

\* A connection the client has not sent on has no rows, and no line in hand.
LEMMA NothingSent ==
    ASSUME TypeInv, AcksMatchInserts, LineInv, NEW c \in Conns, sent[c] = 0
    PROVE  RowsOf(c) = {} /\ inbox[c] = << >> /\ c # cur
<1>1. Cardinality(RowsOf(c)) \in Nat /\ IsFiniteSet(RowsOf(c)) /\ lost[c] \in Nat
  BY RowsAreFinite DEF TypeInv, TypeOK, ServerTypeOK
<1>2. Cardinality(RowsOf(c)) + lost[c] <= sent[c]
  BY StoredBound DEF StoredAtMostOnce
<1>3. Cardinality(RowsOf(c)) = 0
  BY <1>1, <1>2
<1>4. acks[c] \in Nat /\ acks[c] + Waiting(c) + InHand(c) <= 0
  BY DEF LineInv, TypeInv, TypeOK, ServerTypeOK
<1>5. Waiting(c) \in Nat /\ InHand(c) \in Nat
  BY DEF Waiting, InHand
<1>6. Waiting(c) = 0 /\ InHand(c) = 0
  BY <1>4, <1>5
<1>7. inbox[c] = << >> /\ c # cur
  BY <1>6 DEF Waiting, InHand
<1> QED  BY <1>1, <1>3, <1>7, FS_EmptySet

\* The report that is being stored is that of the client's last connection, which
\* has no row yet: the connections before it were answered.
LEMMA LastInHand ==
    ASSUME TypeInv, LifetimeInv, AcksMatchInserts, LineInv, LinkInv, txns # {}
    PROVE  cur \in Conns /\ cur = link /\ RowsOf(cur) = {}
<1>1. PICK t \in txns : t.conn = cur
  BY DEF LifetimeInv
<1>2. cur \in Conns
  BY <1>1 DEF TypeInv, Inserts
<1>3. PICK c \in Conns : c = cur
  BY <1>2
<1>4. /\ acks[c] \in Nat /\ lost[c] \in Nat /\ sent[c] \in Nat /\ sent[c] <= 1
      /\ outbox[c] \in Seq(Replies)
  BY DEF TypeInv, TypeOK, ServerTypeOK, TcpTypeOK, LinkInv
<1> DEFINE answered == Len(outbox[c])
<1>5. answered \in Nat /\ (answered = 0 => outbox[c] = << >>)
  BY <1>4, EmptySeq, LenProperties
<1>6. answered + Waiting(c) + InHand(c) <= sent[c] /\ acks[c] + Waiting(c) + InHand(c) <= sent[c]
  BY DEF LineInv
<1>7. Waiting(c) \in Nat /\ InHand(c) = 1
  BY <1>3 DEF Waiting, InHand
<1> HIDE DEF answered
<1>8. sent[c] = 1 /\ acks[c] = 0 /\ answered = 0
  BY <1>4, <1>5, <1>6, <1>7
<1>9. c = link
  BY <1>5, <1>8 DEF LinkInv
<1>10. Cardinality(RowsOf(c)) \in Nat /\ IsFiniteSet(RowsOf(c))
  BY RowsAreFinite
<1>11. Cardinality(RowsOf(c)) + lost[c] = acks[c]
  BY <1>1, <1>3, <1>4, <1>10 DEF AcksMatchInserts
<1>12. Cardinality(RowsOf(c)) = 0
  BY <1>4, <1>8, <1>10, <1>11
<1> QED  BY <1>3, <1>9, <1>10, <1>12, FS_EmptySet

\* Only an INSERT adds a row.
LEMMA TableStep ==
    ASSUME [OpenNext]_vars
    PROVE  table' = table \/ \E t \in txns : Execute(t)
<1>1. CASE MainNext \/ Console
  BY <1>1
     DEF MainNext, Console, LoadConfig, ConnectDb, StartupFails, start, start_server,
         StartServerThrows, finish_work_before_quiting, DeleteDb, LeaveScope,
         UserQuits, ConsoleEof, dbVars, srvVars
<1>2. CASE Thread(ServiceNext)
  BY <1>2 DEF Thread, ServiceNext, HandlerOf, HandleAccept, HandleRead, RefuseReport,
              AdmitReport, ParseCrashes, HandleReadError, HandleWrite, HandleAcceptError,
              FinishReport, ServiceReturns, dbVars
<1>3. CASE Thread(DbNext)
  BY <1>3 DEF Thread, DbNext
<1>4. CASE UNCHANGED srvVars
  <2>1. UNCHANGED dbVars
    BY <1>4 DEF srvVars
  <2> QED  BY <2>1 DEF dbVars
<1>5. CASE NetNext \/ PeerActs \/ UNCHANGED vars
  BY <1>4, <1>5 DEF NetNext, PeerActs, vars
<1> QED  BY <1>1, <1>2, <1>3, <1>5 DEF OpenNext, Idle

\* The client's connection changes only with Connect.
LEMMA LinkKept ==
    ASSUME [SysNext]_sysVars
    PROVE  link' = link \/ \E c \in Conns : Connect(c)
<1>1. CASE Write \/ Read \/ Throw
  BY <1>1 DEF Write, Read, Throw
<1>2. CASE UNCHANGED clientSide
  BY <1>2 DEF clientSide
<1> QED  BY <1>1, <1>2, SysCases, AloneKeepsServer DEF sysVars

\* The row of the client's connection is the last one.
LastRow == \A i \in DOMAIN table : table[i].conn = link => i = Len(table)

\* Rows stay in the order of the reports.
LEMMA OrderStep ==
    ASSUME TypeInv, LifetimeInv, AcksMatchInserts, LineInv, LinkInv,
           LastRow, [SysNext]_sysVars
    PROVE  LastRow'
<1> USE DEF LastRow
<1>1. ASSUME NEW c \in Conns, Connect(c)
      PROVE  LastRow'
  <2>1. link' = c /\ conn[c] = "idle" /\ UNCHANGED srvVars
    BY <1>1 DEF Connect, PeerConnect, serverSide
  <2>2. table' = table
    <3>1. UNCHANGED dbVars
      BY <2>1 DEF srvVars
    <3> QED  BY <3>1 DEF dbVars
  <2>3. sent[c] = 0
    BY <2>1 DEF LinkInv
  <2>4. RowsOf(c) = {}
    BY <2>3, NothingSent
  <2> QED  BY <2>1, <2>2, <2>4 DEF RowsOf
<1>2. ASSUME NEW t \in txns, Execute(t), link' = link
      PROVE  LastRow'
  <2>1. cur \in Conns /\ cur = link /\ RowsOf(link) = {}
    BY LastInHand
  <2>2. CASE table' = Append(table, t)
    <3>1. /\ Len(table) \in Nat /\ DOMAIN table = 1..Len(table)
          /\ DOMAIN table' = 1..(Len(table) + 1) /\ Len(table') = Len(table) + 1
          /\ \A i \in 1..Len(table) : table'[i] = table[i]
      BY <2>2, AppendProperties, LenProperties DEF TypeInv
    <3>2. \A i \in DOMAIN table' : i \in DOMAIN table \/ i = Len(table')
      BY <3>1
    <3> QED  BY <1>2, <2>1, <3>1, <3>2 DEF RowsOf
  <2>3. CASE table' = table
    BY <1>2, <2>3
  <2> QED  BY <1>2, <2>2, <2>3 DEF Execute
<1>3. [OpenNext]_vars
  BY SysIsOpen
<1>4. CASE table' = table /\ link' = link
  BY <1>4
<1> QED  BY <1>1, <1>2, <1>3, <1>4, LinkKept, TableStep

\* Where lines arrive whole, the balance of lines is kept too, and the order.
LEMMA LinesHold == WholeLines => (SysSpec => [](LineInv /\ LastRow))
<1> SUFFICES ASSUME WholeLines PROVE SysSpec => [](LineInv /\ LastRow)
  OBVIOUS
<1>1. SysInit => LineInv /\ LastRow
  BY LineInit DEF SysInit, Init, ServerInit, LastRow
<1>2. SysInv /\ LineInv /\ LastRow /\ [SysNext]_sysVars => (LineInv /\ LastRow)'
  BY SysIsOpen, LineStep, OrderStep DEF SysInv, SafetyInv
<1> QED  BY <1>1, <1>2, SysHolds, PTL DEF SysSpec

\* Where lines arrive whole, a report leaves at most one row, and the rows are in
\* the order of the reports, whether or not the client lived to read the replies.
THEOREM RowsAreOrdered == WholeLines => (SysSpec => []RowsInOrder)
<1> SUFFICES ASSUME WholeLines PROVE SysSpec => []RowsInOrder
  OBVIOUS
<1>1. SysInv /\ LineInv /\ LastRow => RowsInOrder
  <2> SUFFICES ASSUME SysInv, LineInv, LastRow PROVE RowsInOrder
    OBVIOUS
  <2>1. StoredAtMostOnce /\ TypeInv /\ LinkInv
    BY StoredBound DEF SysInv
  <2>2. ASSUME NEW c \in Conns
        PROVE  Cardinality(RowsOf(c)) <= 1
    <3>1. Cardinality(RowsOf(c)) \in Nat /\ lost[c] \in Nat /\ sent[c] \in Nat
      BY <2>1, RowsAreFinite DEF TypeInv, TypeOK, ServerTypeOK, TcpTypeOK
    <3>2. Cardinality(RowsOf(c)) + lost[c] <= sent[c] /\ sent[c] <= 1
      BY <2>1 DEF StoredAtMostOnce, LinkInv
    <3> QED  BY <3>1, <3>2
  <2> QED  BY <2>2 DEF RowsInOrder, LastRow
<1> QED  BY <1>1, SysHolds, LinesHold, PTL

-----------------------------------------------------------------------------
(* Whose rows they are, and who is refused.                                *)

\* What the parser makes of a line of the client has the client's key.
LEMMA ClientIsParsed ==
    ASSUME WholeLines, CleanReports, TypeInv, LineInv, KeyInv, NEW c \in Conns,
           NEW n \in ReadSizes(c, MaxLength), ReadSome(c, n), NEW d \in Parsed(c, n)
    PROVE  d.client_key = client_key
<1>1. inbox[c] # << >> /\ data_copy(c, n) = inbox[c]
  BY WholeRead DEF ReadSome
<1>2. PICK r \in Reports : r.key = client_key /\ inbox[c] = LineOf(r)
  BY <1>1 DEF KeyInv
<1>3. PICK junk \in Junk : d = parse_to_client_detail(LineOf(r), junk)
  BY <1>1, <1>2 DEF Parsed
<1> QED  BY <1>2, <1>3, ReportIsParsed

\* Every step keeps lines, INSERTs and rows the client's.
LEMMA KeyStep ==
    ASSUME WholeLines, CleanReports, TypeInv, AcksMatchInserts, LineInv, LinkInv, KeyInv,
           [SysNext]_sysVars
    PROVE  KeyInv'
<1>0. client_key' = client_key
  BY SysIsOpen
<1>types. inbox \in [Conns -> Seq(Tokens)]
  BY DEF TypeInv, TypeOK, TcpTypeOK
<1>1. ASSUME UNCHANGED <<txns, table>>,
             \A c \in Conns : inbox'[c] = << >> \/ inbox'[c] = inbox[c]
      PROVE  KeyInv'
  BY <1>0, <1>1 DEF KeyInv
<1>2. ASSUME UNCHANGED srvVars
      PROVE  UNCHANGED <<txns, table>>
  <2>1. UNCHANGED dbVars
    BY <1>2 DEF srvVars
  <2> QED  BY <2>1 DEF dbVars
<1>3. ASSUME NEW c \in Conns, Connect(c)
      PROVE  KeyInv'
  BY <1>1, <1>2, <1>3 DEF Connect, PeerConnect, serverSide
<1>4. CASE Write
  <2>1. link \in Conns /\ sent[link] = 0 /\ UNCHANGED srvVars
    BY <1>4 DEF Write, Client!write, LinkInv, serverSide
  <2>2. PICK r \in Reports : r.key = client_key /\ PeerSend(link, r)
    BY <1>4 DEF Write
  <2>3. inbox[link] = << >>
    BY <2>1, NothingSent
  <2>4. << >> \o LineOf(r) = LineOf(r)
    BY LineType, ConcatEmptySeq
  <2>5. inbox'[link] = LineOf(r) /\ \A c \in Conns : c # link => inbox'[c] = inbox[c]
    BY <1>types, <2>1, <2>2, <2>3, <2>4 DEF PeerSend
  <2> QED  BY <1>0, <1>2, <2>1, <2>2, <2>5 DEF KeyInv
<1>5. CASE Read \/ Throw
  <2>1. inbox' = inbox /\ UNCHANGED srvVars
    BY <1>5 DEF Read, Throw, PeerClose, tcpVars, serverSide
  <2> QED  BY <1>1, <1>2, <2>1
<1>6. CASE UNCHANGED vars
  <2>1. UNCHANGED tcpVars /\ UNCHANGED srvVars
    BY <1>6 DEF vars
  <2> QED  BY <1>1, <1>2, <2>1 DEF tcpVars
<1>7. CASE MainNext \/ Console
  BY <1>1, <1>7
     DEF MainNext, Console, LoadConfig, ConnectDb, StartupFails, start, start_server,
         StartServerThrows, finish_work_before_quiting, DeleteDb, LeaveScope,
         UserQuits, ConsoleEof, dbVars, srvVars, tcpVars
<1>8. CASE Thread(ServiceNext)
  <2>1. ASSUME NEW c \in Conns,
               HandleAccept(c) \/ HandleReadError(c) \/ HandleWrite(c)
        PROVE  KeyInv'
    BY <1>1, <2>1 DEF HandleAccept, HandleReadError, HandleWrite, dbVars, tcpVars
  <2>2. ASSUME NEW c \in Conns, NEW n \in ReadSizes(c, MaxLength), ReadSome(c, n)
        PROVE  \A e \in Conns : inbox'[e] = << >> \/ inbox'[e] = inbox[e]
    BY <2>2, WholeRead DEF ReadSome
  <2>3. ASSUME NEW c \in Conns, NEW n \in ReadSizes(c, MaxLength), ReadSome(c, n),
               NEW d, RefuseReport(c, d) \/ ParseCrashes(c, n)
        PROVE  KeyInv'
    BY <1>1, <2>2, <2>3 DEF RefuseReport, ParseCrashes, dbVars
  <2>4. ASSUME NEW c \in Conns, NEW n \in ReadSizes(c, MaxLength), ReadSome(c, n),
               NEW d \in Parsed(c, n), AdmitReport(c, d)
        PROVE  KeyInv'
    <3>1. d.client_key = client_key
      BY <2>4, ClientIsParsed
    <3>2. \A t \in txns' : t \in txns
                          \/ t = [conn |-> c, row |-> generate_insert_str_for(d)]
      BY <2>4 DEF AdmitReport, write_to_db
    <3>3. \A t \in txns' : t.row.CLIENT_KEY = client_key
      BY <3>1, <3>2 DEF KeyInv, generate_insert_str_for
    <3>4. table' = table
      BY <2>4 DEF AdmitReport
    <3>5. \A e \in Conns : inbox'[e] = << >> \/ inbox'[e] = inbox[e]
      BY <2>2, <2>4
    <3> QED  BY <1>0, <3>3, <3>4, <3>5 DEF KeyInv
  <2>5. CASE HandleAcceptError \/ FinishReport \/ ServiceReturns
    BY <1>1, <2>5 DEF HandleAcceptError, FinishReport, ServiceReturns, dbVars, tcpVars
  <2> QED  BY <1>8, <2>1, <2>3, <2>4, <2>5
           DEF Thread, ServiceNext, HandlerOf, HandleRead
<1>9. CASE Thread(DbNext)
  <2>1. PICK t \in txns : Execute(t)
    BY <1>9 DEF Thread, DbNext
  <2>2. txns' \subseteq txns /\ inbox' = inbox /\ t.row.CLIENT_KEY = client_key
    BY <2>1 DEF Execute, tcpVars, KeyInv
  <2>3. CASE table' = table
    BY <1>0, <2>2, <2>3 DEF KeyInv
  <2>4. CASE table' = Append(table, t)
    <3>1. /\ Len(table) \in Nat /\ DOMAIN table = 1..Len(table)
          /\ DOMAIN table' = 1..(Len(table) + 1)
          /\ \A i \in 1..Len(table) : table'[i] = table[i]
          /\ table'[Len(table) + 1] = t
      BY <2>4, AppendProperties, LenProperties DEF TypeInv
    <3>2. \A i \in DOMAIN table' : i \in DOMAIN table \/ i = Len(table) + 1
      BY <3>1
    <3> QED  BY <1>0, <2>2, <3>1, <3>2 DEF KeyInv
  <2> QED  BY <2>1, <2>3, <2>4 DEF Execute
<1>10. CASE NetNext
  BY <1>1, <1>2, <1>10 DEF NetNext, ResetArrives
<1> QED  BY <1>3, <1>4, <1>5, <1>6, <1>7, <1>8, <1>9, <1>10, SysCases, AloneKeepsServer
         DEF ServerActs, sysVars

\* The keys of the one file are those that its map has.
LEMMA KeysOfFile ==
    ASSUME OneFile, NEW xml \in ConfigFiles
    PROVE  DOMAIN get_authorized_clients_and_details(xml) = ConfiguredKeys
<1>1. ConfigFiles = {xml}
  BY DEF OneFile
<1>2. ConfiguredKeys = {xml[i].key : i \in {j \in DOMAIN xml : xml[j].name = "client"}}
  BY <1>1 DEF ConfiguredKeys
<1> QED  BY <1>2 DEF get_authorized_clients_and_details

\* Every step refuses only clients that the file does not name.
LEMMA RefusalStep ==
    ASSUME WholeLines, CleanReports, OneFile, TypeInv, LifetimeInv, ConfigInv, LineInv,
           LinkInv, KeyInv, RefusalInv, [SysNext]_sysVars
    PROVE  RefusalInv'
<1>0. client_key' = client_key /\ [OpenNext]_vars
  BY SysIsOpen
<1>1. ASSUME UNCHANGED <<main, authorized_clients, outbox>>
      PROVE  RefusalInv'
  BY <1>0, <1>1 DEF RefusalInv
<1>2. ASSUME NEW c \in Conns, NEW byte \in Replies, Transmit(c, byte),
             byte = NOT_AUTHORIZED => client_key \notin ConfiguredKeys,
             main' = main, DOMAIN authorized_clients' = DOMAIN authorized_clients
      PROVE  RefusalInv'
  <2>1. /\ \A e \in Conns : e # c => outbox'[e] = outbox[e]
        /\ \/ outbox'[c] = outbox[c]
           \/ /\ DOMAIN outbox'[c] = 1..(Len(outbox[c]) + 1) /\ Len(outbox[c]) \in Nat
              /\ DOMAIN outbox[c] = 1..Len(outbox[c])
              /\ \A i \in DOMAIN outbox[c] : outbox'[c][i] = outbox[c][i]
              /\ outbox'[c][Len(outbox[c]) + 1] = byte
    BY <1>2, TransmitAdds
  <2>2. \A i \in DOMAIN outbox'[c] :
           outbox'[c][i] = NOT_AUTHORIZED => client_key \notin ConfiguredKeys
    <3>1. CASE outbox'[c] = outbox[c]
      BY <3>1 DEF RefusalInv
    <3>2. CASE outbox'[c] # outbox[c]
      <4>1. \A i \in DOMAIN outbox'[c] : i \in DOMAIN outbox[c] \/ i = Len(outbox[c]) + 1
        BY <2>1, <3>2
      <4> QED  BY <1>2, <2>1, <3>2, <4>1 DEF RefusalInv
    <3> QED  BY <3>1, <3>2
  <2>3. \A e \in Conns : \A i \in DOMAIN outbox'[e] :
           outbox'[e][i] = NOT_AUTHORIZED => client_key \notin ConfiguredKeys
    BY <2>1, <2>2 DEF RefusalInv
  <2> QED  BY <1>0, <1>2, <2>3 DEF RefusalInv
<1>3. CASE MainNext
  <2> USE DEF MainStep
  <2>1. CASE LoadConfig
    <3>1. outbox' = outbox /\ DOMAIN authorized_clients' = ConfiguredKeys
      BY <2>1, KeysOfFile DEF LoadConfig, tcpVars
    <3> QED  BY <1>0, <3>1 DEF RefusalInv
  <2>2. CASE StartupFails \/ StartServerThrows \/ LeaveScope
    <3>1. outbox' = outbox /\ main' = "done"
      BY <2>2 DEF StartupFails, StartServerThrows, LeaveScope, tcpVars
    <3> QED  BY <1>0, <3>1 DEF RefusalInv
  <2>3. CASE ConnectDb \/ start \/ start_server \/ finish_work_before_quiting \/ DeleteDb
    <3>1. /\ outbox' = outbox /\ authorized_clients' = authorized_clients
          /\ main \notin {"start", "done"}
      BY <2>3 DEF ConnectDb, start, start_server, finish_work_before_quiting, DeleteDb,
                  srvVars, tcpVars
    <3> QED  BY <1>0, <3>1 DEF RefusalInv
  <2> QED  BY <1>3, <2>1, <2>2, <2>3 DEF MainNext
<1>4. CASE Console
  <2>1. /\ outbox' = outbox /\ authorized_clients' = authorized_clients
        /\ main = "waiting"
    BY <1>4 DEF Console, UserQuits, ConsoleEof, MainStep, srvVars, tcpVars
  <2> QED  BY <1>0, <2>1 DEF RefusalInv
<1>5. CASE Thread(ServiceNext)
  <2> USE DEF READ_SUCCESS, READ_FAILURE, NOT_AUTHORIZED, Replies
  <2>0. main' = main
    BY <1>5 DEF Thread, mainVars
  <2>1. ASSUME NEW c \in Conns, HandleAccept(c) \/ HandleWrite(c)
        PROVE  RefusalInv'
    BY <1>1, <2>0, <2>1 DEF HandleAccept, HandleWrite, tcpVars
  <2>2. ASSUME NEW c \in Conns, HandleReadError(c)
        PROVE  RefusalInv'
    BY <1>2, <2>0, <2>2 DEF HandleReadError, do_write
  <2>3. ASSUME NEW c \in Conns, NEW n \in ReadSizes(c, MaxLength), ReadSome(c, n),
               NEW d \in Parsed(c, n), RefuseReport(c, d)
        PROVE  RefusalInv'
    <3>1. d.client_key = client_key
      BY <2>3, ClientIsParsed
    <3>2. main \notin {"start", "done"}
      BY <2>3 DEF ReadSome, LifetimeInv, Listening
    <3>3. client_key \notin ConfiguredKeys
      BY <2>3, <3>1, <3>2 DEF RefuseReport, is_client_authorized, RefusalInv
    <3>4. Transmit(c, "2") /\ authorized_clients' = authorized_clients
      BY <2>3 DEF RefuseReport, do_write
    <3> QED  BY <1>2, <2>0, <3>3, <3>4
  <2>4. ASSUME NEW c \in Conns, NEW n, NEW d, AdmitReport(c, d) \/ ParseCrashes(c, n)
        PROVE  RefusalInv'
    BY <1>1, <2>0, <2>4 DEF AdmitReport, ParseCrashes
  <2>5. CASE HandleAcceptError \/ ServiceReturns
    BY <1>1, <2>0, <2>5 DEF HandleAcceptError, ServiceReturns, tcpVars
  <2>6. CASE FinishReport
    <3>1. cur \in Conns /\ Transmit(cur, "0")
      BY <2>6 DEF FinishReport, do_write, TypeInv, TypeOK, ServerTypeOK
    <3>2. DOMAIN authorized_clients' = DOMAIN authorized_clients
      BY <2>6, SubscriptedKeys DEF FinishReport, ConfigInv
    <3> QED  BY <1>2, <2>0, <3>1, <3>2
  <2> QED  BY <1>5, <2>1, <2>2, <2>3, <2>4, <2>5, <2>6
           DEF Thread, ServiceNext, HandlerOf, HandleRead
<1>6. CASE Thread(DbNext)
  BY <1>1, <1>6 DEF Thread, DbNext, Execute, mainVars, tcpVars
<1>7. CASE NetNext \/ PeerActs
  <2>1. UNCHANGED mainVars /\ UNCHANGED srvVars /\ outbox' = outbox
    BY <1>7 DEF NetNext, PeerActs, ResetArrives, PeerConnect, PeerSend, PeerClose
  <2> QED  BY <1>1, <2>1 DEF mainVars, srvVars
<1>8. CASE UNCHANGED vars
  <2>1. UNCHANGED mainVars /\ UNCHANGED srvVars /\ UNCHANGED tcpVars
    BY <1>8 DEF vars
  <2> QED  BY <1>1, <2>1 DEF mainVars, srvVars, tcpVars
<1> QED  BY <1>0, <1>3, <1>4, <1>5, <1>6, <1>7, <1>8 DEF OpenNext, Idle

\* Before the first step nothing is on its way.
LEMMA KeyInit == SysInit => KeyInv /\ RefusalInv
BY DEF SysInit, Init, ServerInit, TcpInit, KeyInv, RefusalInv

\* Where lines arrive whole and carry what they are made for, all there is came
\* from the client.
LEMMA KeysHold == WholeLines /\ CleanReports => (SysSpec => []KeyInv)
<1> SUFFICES ASSUME WholeLines, CleanReports PROVE SysSpec => []KeyInv
  OBVIOUS
<1>1. SysInv /\ LineInv /\ KeyInv /\ [SysNext]_sysVars => KeyInv'
  BY KeyStep DEF SysInv
<1>2. SysInit => KeyInv
  BY KeyInit
<1> QED  BY <1>1, <1>2, SysHolds, LinesHold, PTL DEF SysSpec

\* The client reads its reply on a connection on which there is one.
LEMMA AnsweredHasReply ==
    ASSUME TypeInv, LinkInv, Answered
    PROVE  link \in Conns /\ 1 \in DOMAIN outbox[link] /\ reply = outbox[link][1]
<1>1. link \in Conns /\ reply = outbox[link][1] /\ outbox[link] # << >>
  BY DEF LinkInv, Answered
<1>2. outbox[link] \in Seq(Replies)
  BY <1>1 DEF TypeInv, TypeOK, TcpTypeOK
<1> QED  BY <1>1, <1>2, EmptySeq, LenProperties

\* What the client takes for delivered was handed to the database exactly once,
\* under the client's key, for every key and every configuration.
THEOREM DeliveredExactlyOnce == WholeLines /\ CleanReports => (SysSpec => []DeliveredOnce)
<1> SUFFICES ASSUME WholeLines, CleanReports PROVE SysSpec => []DeliveredOnce
  OBVIOUS
<1>1. SysInv /\ LineInv /\ KeyInv => DeliveredOnce
  <2> SUFFICES ASSUME SysInv, LineInv, KeyInv, Answered, reply = READ_SUCCESS
               PROVE  /\ Cardinality(RowsOf(link)) + lost[link] = 1
                      /\ \A i \in RowsOf(link) : table[i].row.CLIENT_KEY = client_key
    BY DEF DeliveredOnce
  <2>1. PICK c \in Conns : c = link /\ acks[c] >= 1 /\ sent[c] <= 1
    BY AnsweredHasReply DEF SysInv, ReplyInv, LinkInv
  <2>2. acks[c] \in Nat /\ lost[c] \in Nat /\ sent[c] \in Nat
    BY DEF SysInv, TypeInv, TypeOK, ServerTypeOK, TcpTypeOK
  <2>3. Waiting(c) \in Nat /\ InHand(c) \in Nat /\ acks[c] + Waiting(c) + InHand(c) <= sent[c]
    BY DEF LineInv, Waiting, InHand
  <2>4. acks[c] = 1 /\ InHand(c) = 0
    BY <2>1, <2>2, <2>3
  <2>5. c # cur
    BY <2>4 DEF InHand
  <2>6. Cardinality(RowsOf(c)) \in Nat
    BY RowsAreFinite DEF SysInv
  <2>7. Cardinality(RowsOf(c)) + lost[c] = acks[c]
    BY <2>2, <2>5, <2>6 DEF SysInv, AcksMatchInserts
  <2> QED  BY <2>1, <2>4, <2>7 DEF KeyInv, RowsOf
<1> QED  BY <1>1, SysHolds, LinesHold, KeysHold, PTL

\* A client is refused only when the configuration does not name it, and then
\* nothing of it is in the table.
THEOREM RefusalsAreJust ==
    WholeLines /\ CleanReports /\ OneFile => (SysSpec => []RefusedLeavesNothing)
<1> SUFFICES ASSUME WholeLines, CleanReports, OneFile PROVE SysSpec => []RefusedLeavesNothing
  OBVIOUS
<1>1. SysInv /\ LineInv /\ KeyInv /\ RefusalInv /\ [SysNext]_sysVars => RefusalInv'
  BY RefusalStep DEF SysInv, SafetyInv
<1>2. SysInit => RefusalInv
  BY KeyInit
<1>3. SysInv /\ RefusalInv => RefusedLeavesNothing
  <2> SUFFICES ASSUME SysInv, RefusalInv, Answered, reply = NOT_AUTHORIZED
               PROVE  /\ \A i \in DOMAIN table : table[i].row.CLIENT_KEY # client_key
                      /\ client_key \notin ConfiguredKeys
    BY DEF RefusedLeavesNothing
  <2>1. client_key \notin ConfiguredKeys
    BY AnsweredHasReply DEF SysInv, RefusalInv
  <2> QED  BY <2>1 DEF SysInv, SafetyInv, ConfigInv, OnlyConfiguredStored
<1> QED  BY <1>1, <1>2, <1>3, SysHolds, LinesHold, KeysHold, PTL DEF SysSpec

-----------------------------------------------------------------------------
(* What each process is to the other.                                      *)

\* Beside a client process the server still does what Collector promises.
THEOREM CollectorWithClient == SysSpec => ImplementsCollector
<1>1. SysInit => JobInv /\ Abstract!Init
  BY CollectorInit DEF SysInit, Init, ServerInit, JobInv
<1>2. SysInv /\ JobInv /\ [SysNext]_sysVars
        => JobInv' /\ [Abstract!Next]_(Abstract!vars)
  BY SysIsOpen, JobStep, CollectorStep DEF SysInv, SafetyInv
<1> QED  BY <1>1, <1>2, SysHolds, PTL
         DEF SysSpec, ImplementsCollector, Abstract!Spec

\* The client that talks to the server is the client of SysInfoClient: what is
\* proved of that one, for any replies, holds here.
THEOREM ClientImplemented == SysSpec => Client!Spec
<1>1. SysInit => Client!Init
  BY DEF SysInit
<1>2. [SysNext]_sysVars => [Client!Next]_(Client!vars)
  <2> SUFFICES ASSUME [SysNext]_sysVars PROVE [Client!Next]_(Client!vars)
    OBVIOUS
  <2>1. ASSUME NEW c \in Conns, Connect(c)
        PROVE  Client!connect
    BY <2>1 DEF Connect
  <2>2. CASE Write \/ Read \/ Throw \/ TaskAlone
    BY <2>2 DEF Write, Read, Throw, TaskAlone, Client!Next, Client!TaskNext
  <2>3. CASE ClientMain \/ ClientConsole \/ ClientClock
    BY <2>3 DEF ClientMain, ClientConsole, ClientClock, Client!Next
  <2>4. CASE UNCHANGED clientSide
    BY <2>4 DEF clientSide, Client!vars, Client!clientVars, Client!timerVars,
                Client!clockVars
  <2> QED  BY <2>1, <2>2, <2>3, <2>4, SysCases DEF Client!Next, Client!TaskNext, sysVars
<1> QED  BY <1>1, <1>2, PTL DEF SysSpec, Client!Spec

\* The client of ClientProofs, with the variables that it has here.
Proved == INSTANCE ClientProofs WITH
    main <- cmain, outcome <- coutcome, Faults <- ClientFaults

\* It is the same client, and its constants meet its assumptions.
LEMMA SameClient ==
    /\ Client!Spec => Proved!Spec
    /\ ClientFaults \subseteq Proved!AllFaults
    /\ /\ Interval \in Nat \ {0}
       /\ MaxLag \in Nat
<1>1. Client!Init => Proved!Init
  BY Zenon DEF Client!Init, Proved!Init, Client!TimerInit, Proved!TimerInit
<1>2. Client!Next => Proved!Next
  BY Zenon DEF Client!vars, Proved!vars, Client!clientVars, Proved!clientVars,
               Client!timerVars, Proved!timerVars, Client!clockVars, Proved!clockVars,
               Client!Next, Proved!Next, Client!MainNext, Proved!MainNext,
               Client!Console, Proved!Console, Client!TaskNext, Proved!TaskNext,
               Client!Clock, Proved!Clock, Client!Idle, Proved!Idle,
               Client!UsageError, Proved!UsageError,
               Client!StartTask, Proved!StartTask, Client!Get, Proved!Get,
               Client!UserQuits, Proved!UserQuits,
               Client!ConsoleEof, Proved!ConsoleEof,
               Client!BeginTask, Proved!BeginTask,
               Client!BeginRequest, Proved!BeginRequest,
               Client!RequestThrows, Proved!RequestThrows,
               Client!connect, Proved!connect, Client!write, Proved!write,
               Client!read, Proved!read, Client!RepeatOrEnd, Proved!RepeatOrEnd,
               Client!MainStep, Proved!MainStep,
               Client!start_timer, Proved!start_timer,
               Client!BeginWork, Proved!BeginWork, Client!Repeat, Proved!Repeat,
               Client!Tick, Proved!Tick, Client!Replies, Proved!Replies
<1>3. UNCHANGED Client!vars => UNCHANGED Proved!vars
  BY Zenon DEF Client!vars, Proved!vars, Client!clientVars, Proved!clientVars,
               Client!timerVars, Proved!timerVars, Client!clockVars, Proved!clockVars
<1>4. [Client!Next]_(Client!vars) => [Proved!Next]_(Proved!vars)
  BY <1>2, <1>3
<1>5. Client!Spec => Proved!Spec
  BY <1>1, <1>4, PTL DEF Client!Spec, Proved!Spec
<1>6. ClientFaults \subseteq Proved!AllFaults
  BY SystemAssumption DEF Proved!AllFaults, Client!AllFaults
<1> QED  BY <1>5, <1>6, SystemAssumption

\* Beside the server, too, the client keeps to its schedule whatever the server
\* answers, begins at most one report after stop is set, and outlives its task.
THEOREM ClientSafeWithServer ==
    SysSpec => [](Proved!ScheduleKept /\ Proved!AtMostOneLateReport
                    /\ Proved!TaskEndsBeforeMain)
<1>1. ClientFaults \subseteq Proved!AllFaults
  BY SameClient
<1>2. /\ Interval \in Nat \ {0}
      /\ MaxLag \in Nat
  BY SameClient
<1>3. Client!Spec => Proved!Spec
  BY SameClient
<1>4. Proved!Spec => []Proved!ClientInv
  BY <1>1, <1>2, Proved!StagesFit, PTL
<1>5. Proved!ClientInv
        => Proved!ScheduleKept /\ Proved!AtMostOneLateReport /\ Proved!TaskEndsBeforeMain
  BY DEF Proved!ClientInv
<1> QED  BY <1>3, <1>4, <1>5, ClientImplemented, PTL
=============================================================================

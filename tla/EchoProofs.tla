----------------------------- MODULE EchoProofs -----------------------------
(***************************************************************************)
(* Theorems about Echo, for any set of clients, any packet, buffer and     *)
(* socket sizes and any number of transactions.                            *)
(***************************************************************************)
EXTENDS Echo, TLAPS

Types == TypeOK /\ ServesClient /\ TxnLeft

(* Nothing is connected at first. *)
LEMMA TypesInit == Init => Types
  BY ConstantsAssumption DEF Init, Types, TypeOK, ServesClient, TxnLeft

(* The steps of the clients keep the types. *)
LEMMA TypesClient ==
    ASSUME Types, NEW c \in Clients, Client(c) \/ Kill(c)
    PROVE  Types'
  <1> USE ConstantsAssumption DEF Types, TypeOK, ServesClient, TxnLeft, Wake,
        client, buffer, cnt, stream, events
  <1>1. CASE tcp_connect(c)
    BY <1>1 DEF tcp_connect
  <1>2. CASE write_all(c)
    BY <1>2 DEF write_all, Least
  <1>3. CASE read_all(c)
    BY <1>3 DEF read_all, Least
  <1>4. CASE ClientFails(c)
    BY <1>4 DEF ClientFails
  <1>5. CASE Kill(c)
    BY <1>5 DEF Kill
  <1> QED BY <1>1, <1>2, <1>3, <1>4, <1>5 DEF Client

(* The steps of the server keep the types. *)
LEMMA TypesServer ==
    ASSUME Types, Server
    PROVE  Types'
  <1> USE ConstantsAssumption DEF Types, TypeOK, ServesClient, TxnLeft,
        client, buffer, cnt, stream, events
  <1>1. CASE EpollWait
    BY <1>1 DEF EpollWait
  <1>2. CASE EventsDone
    BY <1>2 DEF EventsDone
  <1>3. CASE NewConnections
    BY <1>3 DEF NewConnections
  <1>4. CASE Accepted
    BY <1>4 DEF Accepted
  <1>5. CASE \E c \in Clients : Accept(c)
    BY <1>5 DEF Accept, Backlog
  <1>6. CASE \E c \in Clients : ConnectionEvent(c)
    BY <1>6 DEF ConnectionEvent, close_fd
  <1>7. CASE ReadData
    BY <1>7 DEF ReadData, Least, Count
  <1>8. CASE ReadAgain
    BY <1>8 DEF ReadAgain, Count
  <1>9. CASE ReadEnd
    BY <1>9 DEF ReadEnd, Count, close_fd
  <1>10. CASE WriteData
    BY <1>10 DEF WriteData, Least, Count
  <1>11. CASE WriteAgain
    BY <1>11 DEF WriteAgain, Count, Error, EAGAIN
  <1>12. CASE WriteToClosed
    BY <1>12 DEF WriteToClosed, Count
  <1>13. CASE WriteError
    BY <1>13 DEF WriteError, Count, Error, ECONNRESET, close_fd
  <1>14. CASE SigPipe
    BY <1>14 DEF SigPipe
  <1>15. CASE AcceptError
    BY <1>15 DEF AcceptError
  <1>16. CASE \E c \in Clients : Refuse(c)
    BY <1>16 DEF Refuse, Backlog
  <1> QED
    BY <1>1, <1>2, <1>3, <1>4, <1>5, <1>6, <1>7, <1>8, <1>9, <1>10, <1>11,
       <1>12, <1>13, <1>14, <1>15, <1>16 DEF Server

(* Every step of the server, of the clients and of the shortcuts keeps the *)
(* types.                                                                  *)
LEMMA TypesStep == Types /\ [Next]_vars => Types'
  <1> SUFFICES ASSUME Types, [Next]_vars PROVE Types'
    OBVIOUS
  <1>1. CASE Server
    BY <1>1, TypesServer
  <1>2. CASE \E c \in Clients : Client(c) \/ Kill(c)
    BY <1>2, TypesClient
  <1>3. CASE UNCHANGED vars
    BY <1>3 DEF vars, client, buffer, cnt, stream, events, Types, TypeOK, ServesClient, TxnLeft
  <1> QED BY <1>1, <1>2, <1>3 DEF Next

(* The connections, the clients and the locals of esrv.c and eclnt.c stay  *)
(* in their types: no stream holds more than its capacity, the server's    *)
(* buffer is not overrun, no client does a transaction too many.           *)
THEOREM TypeCorrect == Spec => []TypeOK
  <1>1. Types => TypeOK
    BY DEF Types
  <1> QED BY <1>1, TypesInit, TypesStep, PTL DEF Spec
-----------------------------------------------------------------------------
(* Who closes: for the plain build and for the one with the shortcuts. *)

Closing ==
    GoneFirst /\ ClosedLast /\ HupGone /\ Unserved /\ FailsOnlyWithServer /\ NotYet

(* At first nothing has gone and nothing is closed. *)
LEMMA ClosingInit == Init => Closing
  BY DEF Init, Closing, GoneFirst, ClosedLast, HupGone, Unserved, FailsOnlyWithServer, NotYet

(* A client that the server has not closed does not fail; one that ends or *)
(* is killed has gone before the server can close it.                      *)
LEMMA ClosingClient ==
    ASSUME Types, Closing, NEW c \in Clients, Client(c) \/ Kill(c)
    PROVE  Closing'
  <1> USE DEF Types, TypeOK, Closing, GoneFirst, ClosedLast, HupGone, Unserved,
        FailsOnlyWithServer, NotYet, Shut, client, buffer, cnt, stream, events
  <1>1. CASE tcp_connect(c)
    BY <1>1 DEF tcp_connect
  <1>2. CASE write_all(c)
    BY <1>2 DEF write_all
  <1>3. CASE read_all(c)
    <2>1. cpc[c] = "read" /\ conn[c] \in {"open", "closed"}
      BY <1>3 DEF read_all, Least
    <2>2. /\ UNCHANGED <<conn, spc, evs, hup, fd>>
          /\ \A d \in Clients \ {c} :
               UNCHANGED <<cpc[d], peer[d], down[d], txn[d]>>
      BY <1>3 DEF read_all
    <2>3. cpc'[c] \in {"read", "write", "exit"} /\ (peer'[c] = peer[c] \/ cpc'[c] = "exit")
      BY <1>3, <2>1 DEF read_all
    <2>4. peer[c] # "up" => peer'[c] # "up"
      BY <1>3 DEF read_all
    <2> QED BY <2>1, <2>2, <2>3, <2>4
  <1>4. CASE ClientFails(c)
    BY <1>4 DEF ClientFails
  <1>5. CASE Kill(c)
    BY <1>5 DEF Kill
  <1> QED BY <1>1, <1>2, <1>3, <1>4, <1>5 DEF Client

(* The server closes a connection only when its socket knows that the      *)
(* client has gone; no step of a dead server is left.                      *)
LEMMA ClosingServer ==
    ASSUME Types, Closing, Server
    PROVE  Closing'
  <1> USE DEF Types, TypeOK, ServesClient, Closing, GoneFirst, ClosedLast,
        HupGone, Unserved, FailsOnlyWithServer, NotYet, client, buffer, cnt, stream, events
  <1>1. CASE EpollWait \/ EventsDone \/ NewConnections \/ Accepted \/ AcceptError
    <2>1. CASE EpollWait
      <3>1. /\ \A c \in Clients : c \in evs' => conn[c] = "open"
            /\ \A c \in hup' : peer[c] # "up"
            /\ spc' = "next" /\ UNCHANGED <<conn, peer, cpc, txn, down>>
            /\ spc = "wait"
        BY <2>1, ConstantsAssumption DEF EpollWait, Readable
      <3> QED BY <3>1
    <2>2. CASE EventsDone \/ NewConnections \/ Accepted \/ AcceptError
      BY <2>2 DEF EventsDone, NewConnections, Accepted, AcceptError
    <2> QED BY <1>1, <2>1, <2>2
  <1>2. CASE \E c \in Clients : Accept(c)
    BY <1>2 DEF Accept, Backlog
  <1>3. CASE \E c \in Clients : ConnectionEvent(c)
    BY <1>3 DEF ConnectionEvent, close_fd
  <1>4. CASE ReadData \/ ReadAgain
    BY <1>4 DEF ReadData, ReadAgain
  <1>5. CASE ReadEnd
    BY <1>5 DEF ReadEnd, close_fd
  <1>6. CASE WriteData \/ WriteAgain
    BY <1>6 DEF WriteData, WriteAgain
  <1>7. CASE WriteToClosed
    BY <1>7 DEF WriteToClosed
  <1>8. CASE WriteError
    BY <1>8 DEF WriteError, close_fd
  <1>9. CASE SigPipe
    BY <1>9 DEF SigPipe
  <1>10. CASE \E c \in Clients : Refuse(c)
    BY <1>10 DEF Refuse, Backlog
  <1> QED
    BY <1>1, <1>2, <1>3, <1>4, <1>5, <1>6, <1>7, <1>8, <1>9, <1>10 DEF Server

(* No step closes a connection before its client has gone. *)
LEMMA ClosingStep == Types /\ Closing /\ [Next]_vars => Closing'
  <1> SUFFICES ASSUME Types, Closing, [Next]_vars PROVE Closing'
    OBVIOUS
  <1>1. CASE Server
    BY <1>1, ClosingServer
  <1>2. CASE \E c \in Clients : Client(c) \/ Kill(c)
    BY <1>2, ClosingClient
  <1>3. CASE UNCHANGED vars
    BY <1>3 DEF vars, client, stream, events, Closing, GoneFirst, ClosedLast, HupGone, Unserved, FailsOnlyWithServer, NotYet
  <1> QED BY <1>1, <1>2, <1>3 DEF Next

(* In every build of esrv.c, a client whose write_all or read_all fails    *)
(* has lost the whole server, or was refused when it was accepted, before  *)
(* a byte was read; a connection that is registered is not dropped.        *)
THEOREM NoClientDropped == Spec => []FailsOnlyWithServer
  <1>1. Closing => FailsOnlyWithServer
    BY DEF Closing
  <1> QED BY <1>1, TypesInit, TypesStep, ClosingInit, ClosingStep, PTL DEF Spec
-----------------------------------------------------------------------------
(* Bytes, for the build with read and write. *)

(* No byte is on its way at first. *)
LEMMA ConservedInit == Init => Conserved
  BY DEF Init, Conserved, Outstanding, InServer

(* A client's bytes move between what it wants and its two streams. *)
LEMMA ConservedClient ==
    ASSUME Types, Closing, Conserved, NEW c \in Clients, Client(c) \/ Kill(c)
    PROVE  Conserved'
  <1> USE ConstantsAssumption DEF Types, TypeOK, Conserved, Outstanding, InServer, Shut,
        client, buffer, cnt, stream, events
  <1>1. CASE tcp_connect(c)
    BY <1>1 DEF tcp_connect, Closing, NotYet, GoneFirst
  <1>2. CASE write_all(c)
    <2>1. PICK k \in 1..Least(left[c], Cap - up[c]) :
             /\ up' = [up EXCEPT ![c] = @ + k]
             /\ left' = [left EXCEPT ![c] = IF @ = k THEN P ELSE @ - k]
             /\ cpc' = [cpc EXCEPT ![c] = IF left[c] = k THEN "read" ELSE "write"]
      BY <1>2 DEF write_all
    <2>2. /\ cpc[c] = "write" /\ ~Shut(c)
          /\ UNCHANGED <<conn, peer, down, spc, fd, nr, sent>>
      BY <1>2 DEF write_all
    <2>3. k \in Nat /\ left[c] \in Nat /\ up[c] \in Nat
      BY <2>1 DEF Least
    <2>4. CASE left[c] = k
      <3>1. left' = [left EXCEPT ![c] = P] /\ cpc' = [cpc EXCEPT ![c] = "read"]
        BY <2>1, <2>4
      <3> QED BY <2>1, <2>2, <2>3, <2>4, <3>1
    <2>5. CASE left[c] # k
      <3>1. left' = [left EXCEPT ![c] = @ - k] /\ cpc' = cpc
        BY <2>1, <2>2, <2>5
      <3>2. Outstanding(c)' = Outstanding(c) + k /\ InServer(c)' = InServer(c)
        BY <2>2, <2>3, <3>1
      <3>3. up'[c] = up[c] + k /\ down'[c] = down[c]
        BY <2>1, <2>2
      <3>4. \A d \in Clients \ {c} :
               /\ up'[d] = up[d] /\ down'[d] = down[d]
               /\ Outstanding(d)' = Outstanding(d) /\ InServer(d)' = InServer(d)
        BY <2>1, <2>2, <3>1
      <3>5. InServer(c) \in Int /\ Outstanding(c) \in Int
        OBVIOUS
      <3> HIDE DEF Outstanding, InServer
      <3> QED BY <2>2, <2>3, <3>2, <3>3, <3>4, <3>5
    <2> QED BY <2>4, <2>5
  <1>3. CASE read_all(c)
    <2> DEFINE k == Least(left[c], down[c])
    <2>1. k \in Nat /\ k <= left[c] /\ k <= down[c]
      BY DEF Least
    <2>2. /\ cpc[c] = "read" /\ down' = [down EXCEPT ![c] = @ - k]
          /\ UNCHANGED <<conn, up, spc, fd, nr, sent>>
      BY <1>3 DEF read_all
    <2>3. CASE left[c] > k
      <3>1. left' = [left EXCEPT ![c] = @ - k] /\ UNCHANGED <<cpc, peer>>
        BY <1>3, <2>3 DEF read_all
      <3> QED BY <2>1, <2>2, <3>1
    <2>4. CASE ~(left[c] > k)
      <3>1. left[c] = k
        BY <2>1, <2>4
      <3>2. CASE txn[c] + 1 = Txns[c]
        <4>1. /\ \E x : cpc' = [cpc EXCEPT ![c] = x]
              /\ \E x : left' = [left EXCEPT ![c] = x]
              /\ peer'[c] # "up" /\ \A d \in Clients \ {c} : peer'[d] = peer[d]
          BY <1>3, <2>4, <3>2 DEF read_all
        <4> QED BY <2>2, <4>1
      <3>3. CASE txn[c] + 1 # Txns[c]
        <4>1. /\ cpc' = [cpc EXCEPT ![c] = "write"] /\ left' = [left EXCEPT ![c] = P]
              /\ UNCHANGED peer
          BY <1>3, <2>4, <3>3 DEF read_all
        <4> QED BY <2>1, <2>2, <3>1, <4>1
      <3> QED BY <3>2, <3>3
    <2> QED BY <2>3, <2>4
  <1>4. CASE ClientFails(c)
    BY <1>4 DEF ClientFails
  <1>5. CASE Kill(c)
    BY <1>5 DEF Kill
  <1> QED BY <1>1, <1>2, <1>3, <1>4, <1>5 DEF Client

(* The server moves bytes of one client from up to its buffer to down; a   *)
(* buffer is given up only for a client that has gone.                     *)
LEMMA ConservedServer ==
    ASSUME Cut = "none", Types, Conserved, Server
    PROVE  Conserved'
  <1> USE ConstantsAssumption DEF Types, TypeOK, ServesClient, Conserved, Outstanding,
        InServer, Shut, client, buffer, cnt, stream, events
  <1>1. CASE EpollWait \/ EventsDone \/ NewConnections \/ Accepted \/ AcceptError
    BY <1>1 DEF EpollWait, EventsDone, NewConnections, Accepted, AcceptError
  <1>2. CASE \E c \in Clients : Accept(c)
    BY <1>2 DEF Accept, Backlog
  <1>3. CASE \E c \in Clients : ConnectionEvent(c)
    BY <1>3 DEF ConnectionEvent, close_fd
  <1>4. CASE ReadData
    BY <1>4 DEF ReadData, Least
  <1>5. CASE ReadAgain
    BY <1>5 DEF ReadAgain
  <1>6. CASE ReadEnd
    BY <1>6 DEF ReadEnd, close_fd, Error, Shortcut
  <1>7. CASE WriteData
    BY <1>7 DEF WriteData, Least
  <1>8. CASE WriteAgain
    BY <1>8 DEF WriteAgain, Error, Shortcut
  <1>9. CASE WriteToClosed
    BY <1>9 DEF WriteToClosed
  <1>10. CASE WriteError
    BY <1>10 DEF WriteError, close_fd, Error, Shortcut
  <1>11. CASE SigPipe
    BY <1>11 DEF SigPipe
  <1>12. CASE \E c \in Clients : Refuse(c)
    BY <1>12 DEF Refuse, Backlog
  <1> QED
    BY <1>1, <1>2, <1>3, <1>4, <1>5, <1>6, <1>7, <1>8, <1>9, <1>10, <1>11, <1>12 DEF Server

(* Without the shortcuts esrv.c echoes every byte once: whatever the       *)
(* packet, buffer and socket sizes and however many clients there are,     *)
(* what a client is waiting for is in a stream or in the server's buffer.  *)
THEOREM EchoesEverything ==
    ASSUME Cut = "none"
    PROVE  Spec => []Conserved
  <1>1. Types /\ Closing /\ Conserved /\ [Next]_vars => Conserved'
    <2> SUFFICES ASSUME Types, Closing, Conserved, [Next]_vars PROVE Conserved'
      OBVIOUS
    <2>1. CASE Server
      BY <2>1, ConservedServer
    <2>2. CASE \E c \in Clients : Client(c) \/ Kill(c)
      BY <2>2, ConservedClient
    <2>3. CASE UNCHANGED vars
      BY <2>3 DEF vars, client, buffer, stream, events, Conserved, Outstanding, InServer, Shut
    <2> QED BY <2>1, <2>2, <2>3 DEF Next
  <1> QED
    BY <1>1, TypesInit, TypesStep, ClosingInit, ClosingStep, ConservedInit, PTL DEF Spec
-----------------------------------------------------------------------------
(* Echo without the shortcuts implements EchoService. *)

Known == Types /\ Closing /\ Conserved
Sound == Served /\ Ended

(* What the mapping needs holds at first. *)
LEMMA SoundInit == Init => Sound
  BY DEF Init, Sound, Served, Ended

(* The clients' steps. *)
LEMMA SoundClient ==
    ASSUME Known, Sound, NEW c \in Clients, Client(c) \/ Kill(c)
    PROVE  Sound'
  <1> USE ConstantsAssumption DEF Known, Types, TypeOK, Sound, Served, Ended,
        Outstanding, Shut, client, buffer, cnt, stream, events
  <1>1. CASE tcp_connect(c)
    <2>1. CASE spc = "dead"
      BY <1>1, <2>1 DEF tcp_connect
    <2>2. CASE spc # "dead"
      <3>1. conn[c] = "new" /\ cpc[c] = "connect"
        BY <1>1 DEF tcp_connect, Closing, NotYet
      <3>2. /\ conn' = [conn EXCEPT ![c] = "backlog"] /\ cpc' = [cpc EXCEPT ![c] = "write"]
            /\ left' = [left EXCEPT ![c] = P]
            /\ UNCHANGED <<peer, up, down, spc, evs, fd, nr, sent>>
        BY <1>1, <2>2 DEF tcp_connect
      <3>3. Served'
        BY <2>2, <3>1, <3>2
      <3>4. Ended'
        BY <2>2, <3>1, <3>2
      <3> QED BY <3>3, <3>4
    <2> QED BY <2>1, <2>2
  <1>2. CASE write_all(c)
    BY <1>2 DEF write_all, Least
  <1>3. CASE read_all(c)
    <2> DEFINE k == Least(left[c], down[c])
    <2>1. k \in Nat /\ k <= left[c] /\ k <= down[c] /\ cpc[c] = "read"
      BY <1>3 DEF read_all, Least
    <2>2. down' = [down EXCEPT ![c] = @ - k] /\ UNCHANGED <<conn, up, spc, evs, fd, nr, sent>>
      BY <1>3 DEF read_all
    <2>3. CASE left[c] > k
      <3>1. left' = [left EXCEPT ![c] = @ - k] /\ UNCHANGED <<cpc, peer>>
        BY <1>3, <2>3 DEF read_all
      <3> QED BY <2>1, <2>2, <3>1
    <2>4. CASE ~(left[c] > k) /\ txn[c] + 1 # Txns[c]
      <3>1. /\ cpc' = [cpc EXCEPT ![c] = "write"] /\ left' = [left EXCEPT ![c] = P]
            /\ UNCHANGED peer
        BY <1>3, <2>4 DEF read_all
      <3>2. left[c] = k /\ (Shut(c) => left[c] = up[c] + down[c])
        BY <2>1, <2>4
      <3>3. Shut(c) => up[c] = 0 /\ down'[c] = 0
        BY <2>1, <2>2, <3>2
      <3>4. Served'
        BY <2>2
      <3>5. cpc'[c] = "write" /\ left'[c] = P /\ UNCHANGED <<conn, up, spc, fd, peer>>
        BY <2>2, <3>1
      <3>6. Shut(c) => Outstanding(c)' = up'[c] + down'[c]
        BY <3>3, <3>5
      <3>7. \A d \in Clients \ {c} : cpc'[d] = cpc[d] /\ left'[d] = left[d] /\ down'[d] = down[d]
        BY <2>2, <3>1
      <3>8. Ended'
        BY <2>1, <3>5, <3>6, <3>7
      <3> QED BY <3>4, <3>8
    <2>5. CASE ~(left[c] > k) /\ txn[c] + 1 = Txns[c]
      <3>1. /\ cpc' = [cpc EXCEPT ![c] = "exit"] /\ left' = [left EXCEPT ![c] = 0]
            /\ peer'[c] # "up" /\ \A d \in Clients \ {c} : peer'[d] = peer[d]
        BY <1>3, <2>5 DEF read_all
      <3>2. left[c] = k /\ left[c] <= down[c]
        BY <2>1, <2>5
      <3>3. spc # "dead" => up[c] = 0 /\ ~(spc = "write" /\ fd = c)
        BY <2>1, <3>2 DEF Closing, GoneFirst, ClosedLast, Conserved, Outstanding, InServer
      <3> QED BY <2>1, <2>2, <3>1, <3>3
    <2> QED BY <2>3, <2>4, <2>5
  <1>4. CASE ClientFails(c)
    BY <1>4 DEF ClientFails
  <1>5. CASE Kill(c)
    BY <1>5 DEF Kill
  <1> QED BY <1>1, <1>2, <1>3, <1>4, <1>5 DEF Client

(* The server's steps. *)
LEMMA SoundServer ==
    ASSUME Cut = "none", Known, Sound, Server
    PROVE  Sound'
  <1> USE ConstantsAssumption DEF Known, Types, TypeOK, ServesClient, Sound, Served, Ended,
        Outstanding, Shut, client, buffer, cnt, stream, events
  <1>1. CASE EpollWait \/ EventsDone \/ NewConnections \/ Accepted \/ AcceptError
    BY <1>1 DEF EpollWait, EventsDone, NewConnections, Accepted, AcceptError, Readable
  <1>2. CASE \E c \in Clients : Accept(c)
    BY <1>2 DEF Accept, Backlog
  <1>3. CASE \E c \in Clients : ConnectionEvent(c)
    BY <1>3 DEF ConnectionEvent, close_fd, Closing, GoneFirst, HupGone
  <1>4. CASE ReadData
    BY <1>4 DEF ReadData, Least
  <1>5. CASE ReadAgain
    BY <1>5 DEF ReadAgain
  <1>6. CASE ReadEnd
    BY <1>6 DEF ReadEnd, close_fd, Error, Shortcut, Closing, GoneFirst
  <1>7. CASE WriteData
    BY <1>7 DEF WriteData, Least
  <1>8. CASE WriteAgain
    BY <1>8 DEF WriteAgain, Error, Shortcut
  <1>9. CASE WriteToClosed
    BY <1>9 DEF WriteToClosed
  <1>10. CASE WriteError
    BY <1>10 DEF WriteError, close_fd, Error, Shortcut, Closing, GoneFirst
  <1>11. CASE SigPipe
    BY <1>11 DEF SigPipe, Closing, GoneFirst, Conserved, Outstanding, InServer
  <1>12. CASE \E c \in Clients : Refuse(c)
    BY <1>12 DEF Refuse, Backlog, Closing, GoneFirst, Unserved, Conserved, Outstanding, InServer
  <1> QED
    BY <1>1, <1>2, <1>3, <1>4, <1>5, <1>6, <1>7, <1>8, <1>9, <1>10, <1>11, <1>12 DEF Server

(* Every step keeps what the mapping needs. *)
LEMMA SoundStep ==
    ASSUME Cut = "none", Known, Sound, [Next]_vars
    PROVE  Sound'
  <1>1. CASE Server
    BY <1>1, SoundServer
  <1>2. CASE \E c \in Clients : Client(c) \/ Kill(c)
    BY <1>2, SoundClient
  <1>3. CASE UNCHANGED vars
    BY <1>3 DEF vars, client, buffer, stream, events, Sound, Served, Ended, Outstanding, Shut
  <1> QED BY <1>1, <1>2, <1>3 DEF Next
-----------------------------------------------------------------------------
(* Steps *)

(* A step that leaves every client's status, what it is owed and what was  *)
(* echoed to it alone does not show.                                       *)
LEMMA Hidden ==
    ASSUME \A c \in Clients : Status(c)' = Status(c) /\ Owed(c)' = Owed(c),
           down' = down, spc' = "dead" <=> spc = "dead"
    PROVE  UNCHANGED Service!vars
  BY DEF Service!vars

(* The initial state maps to the abstract one. *)
LEMMA ServiceInit == Init => Service!Init
  BY DEF Init, Service!Init, Status, Owed

(* connect joins, write_all asks, read_all takes or, with the last byte of *)
(* the last answer, finishes, a kill aborts.                               *)
LEMMA ClientRefines ==
    ASSUME Known, Sound, NEW c \in Clients, Client(c) \/ Kill(c)
    PROVE  [Service!Next]_(Service!vars)
  <1> USE ConstantsAssumption DEF Known, Types, TypeOK
  <1>1. CASE tcp_connect(c)
    <2>1. conn[c] = "new" /\ cpc[c] = "connect" /\ peer[c] = "up"
      BY <1>1 DEF tcp_connect, Closing, NotYet, GoneFirst
    <2>2. CASE spc = "dead"
      <3>1. UNCHANGED <<conn, up, down, spc, fd, nr, sent>> /\ cpc' = [cpc EXCEPT ![c] = "fail"]
        BY <1>1, <2>2 DEF tcp_connect, stream, buffer
      <3>2. \A d \in Clients : Status(d)' = Status(d) /\ Owed(d)' = Owed(d)
        BY <2>1, <3>1 DEF Status, Owed, InServer, Shut
      <3> QED BY <3>1, <3>2, Hidden
    <2>3. CASE spc # "dead"
      <3>1. /\ conn' = [conn EXCEPT ![c] = "backlog"] /\ cpc' = [cpc EXCEPT ![c] = "write"]
            /\ UNCHANGED <<up, down, spc, fd, nr, sent>>
        BY <1>1, <2>3 DEF tcp_connect, stream, buffer
      <3>2. up[c] = 0 /\ InServer(c) = 0
        BY <2>1 DEF Conserved, Outstanding, InServer, Shut
      <3>3. /\ Status(c) = "out" /\ Status(c)' = "waiting"
            /\ Owed(c) = 0 /\ Owed(c)' = 0
        BY <2>1, <3>1, <3>2 DEF Status, Owed, InServer, Shut
      <3>4. \A d \in Clients \ {c} : Status(d)' = Status(d) /\ Owed(d)' = Owed(d)
        BY <3>1 DEF Status, Owed, InServer, Shut
      <3>5. Service!Join(c)
        BY <2>3, <3>1, <3>3, <3>4 DEF Service!Join
      <3> QED BY <3>5 DEF Service!Next
    <2> QED BY <2>2, <2>3
  <1>2. CASE write_all(c)
    <2>1. PICK k \in 1..Least(left[c], Cap - up[c]) :
             /\ up' = [up EXCEPT ![c] = @ + k]
             /\ cpc' = [cpc EXCEPT ![c] = IF left[c] = k THEN "read" ELSE "write"]
      BY <1>2 DEF write_all
    <2>2. k \in 1..P /\ k <= left[c] /\ left[c] \in Nat /\ up[c] \in Nat /\ down[c] \in Nat
      BY <2>1 DEF Least
    <2>3. /\ cpc[c] = "write" /\ ~Shut(c) /\ conn[c] # "new" /\ peer[c] = "up"
          /\ UNCHANGED <<conn, down, spc, fd, nr, sent>>
      BY <1>2 DEF write_all, Sound, Ended, Closing, GoneFirst, buffer
    <2>4. InServer(c) \in Int /\ P - left[c] = up[c] + down[c] + InServer(c)
      BY <2>3 DEF Conserved, Outstanding, InServer
    <2>5. \A d \in Clients : InServer(d)' = InServer(d)
      BY <2>3 DEF InServer
    <2>6. /\ Status(c) \in {"waiting", "in"} /\ Status(c)' = Status(c)
          /\ \A d \in Clients \ {c} : Status(d)' = Status(d)
      BY <2>1, <2>3 DEF Status, Shut
    <2>7. Owed(c) = up[c] + InServer(c) /\ Owed(c)' = up[c] + k + InServer(c)
      BY <2>1, <2>5, <2>6 DEF Owed
    <2>8. \A d \in Clients \ {c} : Owed(d)' = Owed(d)
      BY <2>1, <2>5, <2>6 DEF Owed
    <2>9. Owed(c)' = Owed(c) + k /\ Owed(c) + down[c] + k <= P
      BY <2>2, <2>4, <2>7
    <2>10. Service!Ask(c, k)
      BY <2>3, <2>6, <2>8, <2>9 DEF Service!Ask
    <2> QED BY <2>2, <2>10 DEF Service!Next
  <1>3. CASE read_all(c)
    <2> DEFINE k == Least(left[c], down[c])
    <2>1. k \in 1..P /\ k <= left[c] /\ k <= down[c] /\ cpc[c] = "read" /\ conn[c] # "new"
      BY <1>3 DEF read_all, Least, Sound, Ended
    <2>2. down' = [down EXCEPT ![c] = @ - k] /\ UNCHANGED <<conn, up, spc, fd, nr, sent>>
      BY <1>3 DEF read_all, buffer
    <2>3. Status(c) \in {"in", "lost"} /\ (Status(c) = "lost" <=> Shut(c))
      BY <2>1 DEF Status, Shut, Closing, Unserved
    <2>4. \A d \in Clients : InServer(d)' = InServer(d)
      BY <2>2 DEF InServer
    <2> HIDE DEF k
    <2>5. CASE left[c] > k \/ txn[c] + 1 # Txns[c]
      <3>1. cpc' = cpc \/ cpc' = [cpc EXCEPT ![c] = "write"]
        BY <1>3, <2>5 DEF read_all, k
      <3>2. \A d \in Clients : Status(d)' = Status(d)
        BY <2>1, <2>2, <3>1 DEF Status, Shut
      <3>3. \A d \in Clients : Owed(d)' = Owed(d)
        BY <2>2, <2>4, <3>2 DEF Owed
      <3>4. Service!Take(c, k)
        BY <2>1, <2>2, <2>3, <3>2, <3>3 DEF Service!Take
      <3> QED BY <2>1, <3>4 DEF Service!Next
    <2>6. CASE ~(left[c] > k) /\ txn[c] + 1 = Txns[c]
      <3>1. cpc' = [cpc EXCEPT ![c] = "exit"] /\ left[c] = k
        BY <1>3, <2>1, <2>6 DEF read_all, k
      <3>2. Owed(c) = 0 /\ down[c] = k
        <4>1. CASE Shut(c)
          <5>1. left[c] = up[c] + down[c]
            BY <2>1, <4>1 DEF Sound, Ended, Outstanding
          <5>2. InServer(c) = 0
            BY <2>1, <4>1 DEF Sound, Served, InServer, Shut
          <5>3. down[c] = k /\ up[c] + InServer(c) = 0
            BY <2>1, <3>1, <5>1, <5>2
          <5> QED BY <5>3 DEF Owed
        <4>2. CASE ~Shut(c)
          <5>1. left[c] = up[c] + down[c] + InServer(c) /\ InServer(c) \in Nat
            BY <2>1, <4>2 DEF Conserved, Outstanding, InServer, Closing, GoneFirst
          <5>2. down[c] = k /\ up[c] + InServer(c) = 0
            BY <2>1, <3>1, <5>1
          <5> QED BY <5>2 DEF Owed
        <4> QED BY <4>1, <4>2
      <3>3. down'[c] = 0
        BY <2>1, <2>2, <3>2
      <3>4. Status(c)' = "done" /\ \A d \in Clients \ {c} : Status(d)' = Status(d)
        BY <2>1, <2>2, <3>1 DEF Status, Shut
      <3>5. \A d \in Clients : Owed(d)' = Owed(d)
        BY <2>2, <2>4, <3>2, <3>4 DEF Owed
      <3>6. Service!Finish(c)
        BY <2>2, <2>3, <3>2, <3>3, <3>4, <3>5 DEF Service!Finish
      <3> QED BY <3>6 DEF Service!Next
    <2> QED BY <2>5, <2>6
  <1>4. CASE ClientFails(c)
    <2>1. /\ Shut(c) /\ cpc[c] \in {"write", "read"}
          /\ cpc' = [cpc EXCEPT ![c] = "fail"]
          /\ UNCHANGED <<conn, up, down, spc, fd, nr, sent>>
      BY <1>4 DEF ClientFails, stream, buffer
    <2>2. \A d \in Clients : Status(d)' = Status(d) /\ Owed(d)' = Owed(d)
      BY <2>1 DEF Status, Owed, InServer, Shut
    <2> QED BY <2>1, <2>2, Hidden
  <1>5. CASE Kill(c)
    <2>1. /\ c \in Killable /\ ~Shut(c) /\ conn[c] # "new"
          /\ cpc[c] \in {"write", "read"} /\ cpc' = [cpc EXCEPT ![c] = "killed"]
          /\ down' = [down EXCEPT ![c] = 0]
          /\ UNCHANGED <<conn, up, spc, fd, nr, sent>>
      BY <1>5 DEF Kill, Sound, Ended, buffer
    <2>2. /\ Status(c) \in {"waiting", "in"} /\ Status(c)' = "killed"
          /\ \A d \in Clients \ {c} : Status(d)' = Status(d)
      BY <2>1 DEF Status, Shut
    <2>3. Owed(c)' = 0 /\ \A d \in Clients \ {c} : Owed(d)' = Owed(d)
      BY <2>1, <2>2 DEF Owed, InServer
    <2>4. Service!Abort(c)
      BY <2>1, <2>2, <2>3 DEF Service!Abort
    <2> QED BY <2>4 DEF Service!Next
  <1> QED BY <1>1, <1>2, <1>3, <1>4, <1>5 DEF Client

(* Of the server's steps only the write of some bytes and the SIGPIPE      *)
(* show; a read moves bytes from the stream to the buffer.                 *)
LEMMA ServerRefines ==
    ASSUME Cut = "none", Known, Sound, Server
    PROVE  [Service!Next]_(Service!vars)
  <1> USE ConstantsAssumption DEF Known, Types, TypeOK, ServesClient, client, buffer,
        cnt, stream, events
  <1>1. CASE EpollWait \/ EventsDone \/ NewConnections \/ Accepted \/ AcceptError
    <2>1. /\ UNCHANGED <<conn, cpc, up, down, fd, nr, sent>>
          /\ spc \in {"wait", "next", "accept"} /\ spc' \in {"wait", "next", "accept"}
      BY <1>1 DEF EpollWait, EventsDone, NewConnections, Accepted, AcceptError
    <2>2. \A d \in Clients : Status(d)' = Status(d) /\ Owed(d)' = Owed(d)
      BY <2>1 DEF Status, Owed, InServer, Shut
    <2> QED BY <2>1, <2>2, Hidden
  <1>2. CASE \E c \in Clients : Accept(c)
    <2>1. PICK c \in Clients : Accept(c)
      BY <1>2
    <2>2. conn[c] = "backlog" /\ conn' = [conn EXCEPT ![c] = "open"]
      BY <2>1 DEF Accept, Backlog
    <2>3. UNCHANGED <<cpc, up, down, spc, fd, nr, sent>>
      BY <2>1 DEF Accept
    <2>4. \A d \in Clients \ {c} : Status(d)' = Status(d)
      BY <2>2, <2>3 DEF Status, Shut
    <2>5. CASE Status(c) \in {"done", "killed"}
      <3>1. Status(c)' = Status(c)
        BY <2>2, <2>3, <2>5 DEF Status, Shut
      <3>2. \A d \in Clients : Status(d)' = Status(d)
        BY <2>4, <3>1
      <3>3. \A d \in Clients : Owed(d)' = Owed(d)
        BY <2>3, <3>2 DEF Owed, InServer
      <3> QED BY <2>3, <3>2, <3>3, Hidden
    <2>6. CASE Status(c) \notin {"done", "killed"}
      <3>1. Status(c) = "waiting" /\ Status(c)' = "in"
        BY <2>2, <2>3, <2>6 DEF Status, Shut
      <3>2. \A d \in Clients : Owed(d)' = Owed(d)
        BY <2>3, <2>4, <3>1 DEF Owed, InServer
      <3>3. spc = "accept"
        BY <2>1 DEF Accept
      <3>4. Service!LetIn(c)
        BY <2>3, <2>4, <3>1, <3>2, <3>3 DEF Service!LetIn
      <3> QED BY <3>4 DEF Service!Next
    <2> QED BY <2>5, <2>6
  <1>3. CASE \E c \in Clients : ConnectionEvent(c)
    <2>1. PICK c \in Clients : ConnectionEvent(c)
      BY <1>3
    <2>2. /\ spc = "next" /\ spc' \in {"next", "read"}
          /\ UNCHANGED <<cpc, up, down, nr, sent>>
          /\ conn' = conn \/ (peer[c] # "up" /\ conn' = [conn EXCEPT ![c] = "closed"])
      BY <2>1 DEF ConnectionEvent, close_fd, Closing, HupGone
    <2>3. \A d \in Clients : Status(d)' = Status(d)
      BY <2>2 DEF Status, Shut, Closing, GoneFirst, Sound, Ended
    <2>4. \A d \in Clients : Owed(d)' = Owed(d)
      BY <2>2, <2>3 DEF Owed, InServer
    <2> QED BY <2>2, <2>3, <2>4, Hidden
  <1>4. CASE ReadData
    <2>1. /\ spc = "read" /\ spc' = "write" /\ UNCHANGED <<conn, cpc, down, fd>>
          /\ nr' \in Nat /\ sent' = 0 /\ up' = [up EXCEPT ![fd] = @ - nr'] /\ fd \in Clients
      BY <1>4 DEF ReadData, Least
    <2>2. \A d \in Clients : Status(d)' = Status(d)
      BY <2>1 DEF Status, Shut
    <2>3. \A d \in Clients : up'[d] + InServer(d)' = up[d] + InServer(d)
      BY <2>1 DEF InServer
    <2>4. \A d \in Clients : Owed(d)' = Owed(d)
      BY <2>2, <2>3 DEF Owed
    <2> QED BY <2>1, <2>2, <2>4, Hidden
  <1>5. CASE ReadAgain
    <2>1. spc = "read" /\ spc' = "next" /\ UNCHANGED <<conn, cpc, up, down, fd, nr, sent>>
      BY <1>5 DEF ReadAgain
    <2>2. \A d \in Clients : Status(d)' = Status(d) /\ Owed(d)' = Owed(d)
      BY <2>1 DEF Status, Owed, InServer, Shut
    <2> QED BY <2>1, <2>2, Hidden
  <1>6. CASE ReadEnd
    <2>1. /\ spc = "read" /\ spc' = "next" /\ UNCHANGED <<cpc, up, down, fd, nr, sent>>
          /\ peer[fd] # "up" /\ fd \in Clients /\ conn' = [conn EXCEPT ![fd] = "closed"]
      BY <1>6 DEF ReadEnd, close_fd, Error, Shortcut
    <2>2. \A d \in Clients : Status(d)' = Status(d)
      BY <2>1 DEF Status, Shut, Closing, GoneFirst, Sound, Ended
    <2>3. \A d \in Clients : Owed(d)' = Owed(d)
      BY <2>1, <2>2 DEF Owed, InServer
    <2> QED BY <2>1, <2>2, <2>3, Hidden
  <1>7. CASE WriteData
    <2> DEFINE k == Least(nr - sent, Cap - down[fd])
    <2>1. /\ spc = "write" /\ spc' \in {"read", "write"} /\ UNCHANGED <<conn, cpc, up, fd, nr>>
          /\ fd \in Clients /\ peer[fd] = "up" /\ conn[fd] = "open"
          /\ k \in Nat \ {0} /\ k <= nr - sent
          /\ sent' = sent + k /\ down' = [down EXCEPT ![fd] = @ + k]
          /\ spc' = IF sent + k = nr THEN "read" ELSE "write"
      BY <1>7 DEF WriteData, Least, Sound, Served
    <2> HIDE DEF k
    <2>2. \A d \in Clients : Status(d)' = Status(d)
      BY <2>1 DEF Status, Shut
    <2>3. Status(fd) = "in"
      BY <2>1 DEF Status, Shut, Sound, Ended
    <2>4. InServer(fd) = nr - sent /\ InServer(fd)' = InServer(fd) - k
      BY <2>1 DEF InServer
    <2>5. \A d \in Clients \ {fd} : InServer(d)' = InServer(d)
      BY <2>1 DEF InServer
    <2>6. Owed(fd) = up[fd] + (nr - sent) /\ Owed(fd)' = up[fd] + (nr - sent - k)
      BY <2>1, <2>2, <2>3, <2>4 DEF Owed
    <2>7. \A d \in Clients \ {fd} : Owed(d)' = Owed(d)
      BY <2>1, <2>2, <2>5 DEF Owed
    <2>8. Owed(fd)' = Owed(fd) - k /\ k <= Owed(fd)
      BY <2>1, <2>6
    <2>9. k \in 1..P
      <3>1. Outstanding(fd) = up[fd] + down[fd] + (nr - sent) /\ Outstanding(fd) <= P
        BY <2>1, <2>4 DEF Conserved, Outstanding, Shut
      <3> QED BY <2>1, <3>1
    <2>10. Service!EchoBytes(fd, k)
      BY <2>1, <2>2, <2>3, <2>7, <2>8 DEF Service!EchoBytes
    <2> QED BY <2>1, <2>9, <2>10 DEF Service!Next
  <1>8. CASE WriteAgain
    <2>1. UNCHANGED <<conn, cpc, up, down, spc, fd, nr, sent>>
      BY <1>8 DEF WriteAgain, Error, Shortcut
    <2>2. \A d \in Clients : Status(d)' = Status(d) /\ Owed(d)' = Owed(d)
      BY <2>1 DEF Status, Owed, InServer, Shut
    <2> QED BY <2>1, <2>2, Hidden
  <1>9. CASE WriteToClosed
    <2>1. /\ spc = "write" /\ spc' = "read" /\ UNCHANGED <<conn, cpc, up, down, fd, nr>>
          /\ fd \in Clients /\ peer[fd] # "up"
      BY <1>9 DEF WriteToClosed
    <2>2. \A d \in Clients : Status(d)' = Status(d)
      BY <2>1 DEF Status, Shut
    <2>3. Status(fd) \in {"done", "killed"}
      BY <2>1 DEF Status, Shut, Closing, GoneFirst, Sound, Ended
    <2>4. \A d \in Clients : Owed(d)' = Owed(d)
      BY <2>1, <2>2, <2>3 DEF Owed, InServer
    <2> QED BY <2>1, <2>2, <2>4, Hidden
  <1>10. CASE WriteError
    <2>1. /\ spc = "write" /\ spc' = "next" /\ UNCHANGED <<cpc, up, down, fd, nr, sent>>
          /\ peer[fd] # "up" /\ fd \in Clients /\ conn' = [conn EXCEPT ![fd] = "closed"]
      BY <1>10 DEF WriteError, close_fd, Error, Shortcut
    <2>2. \A d \in Clients : Status(d)' = Status(d)
      BY <2>1 DEF Status, Shut, Closing, GoneFirst, Sound, Ended
    <2>3. Status(fd) \in {"done", "killed"}
      BY <2>1 DEF Status, Shut, Closing, GoneFirst, Sound, Ended
    <2>4. \A d \in Clients : Owed(d)' = Owed(d)
      BY <2>1, <2>2, <2>3 DEF Owed, InServer
    <2> QED BY <2>1, <2>2, <2>4, Hidden
  <1>11. CASE SigPipe
    <2>1. /\ spc = "write" /\ spc' = "dead" /\ UNCHANGED <<cpc, up, down, fd, nr, sent>>
          /\ conn' = [c \in Clients |->
                       IF conn[c] \in {"new", "refused"} THEN conn[c] ELSE "closed"]
          /\ fd \in Clients /\ peer[fd] = "pipe" /\ conn[fd] = "open"
      BY <1>11 DEF SigPipe, Sound, Served
    <2>2. Status(fd) = "killed"
      BY <2>1 DEF Status, Shut, Closing, GoneFirst, Sound, Ended
    <2>3. \A c \in Clients :
             Status(c)' = IF Status(c) \in {"waiting", "in"} THEN "lost" ELSE Status(c)
      BY <2>1 DEF Status, Shut
    <2>4. \A c \in Clients : Owed(c)' = Owed(c)
      BY <2>1, <2>2, <2>3 DEF Owed, InServer
    <2>5. Service!Die
      BY <2>1, <2>2, <2>3, <2>4 DEF Service!Die
    <2> QED BY <2>5 DEF Service!Next
  <1>12. CASE \E c \in Clients : Refuse(c)
    <2>1. PICK c \in Clients : Refuse(c)
      BY <1>12
    <2>2. conn[c] = "backlog" /\ conn' = [conn EXCEPT ![c] = "refused"]
      BY <2>1 DEF Refuse, Backlog
    <2>3. spc = "accept" /\ UNCHANGED <<cpc, up, down, spc, fd, nr, sent>>
      BY <2>1 DEF Refuse
    <2>4. \A d \in Clients \ {c} : Status(d)' = Status(d)
      BY <2>2, <2>3 DEF Status, Shut
    <2>5. CASE Status(c) \in {"done", "killed"}
      <3>1. Status(c)' = Status(c)
        BY <2>2, <2>3, <2>5 DEF Status, Shut
      <3>2. \A d \in Clients : Status(d)' = Status(d)
        BY <2>4, <3>1
      <3>3. \A d \in Clients : Owed(d)' = Owed(d)
        BY <2>3, <3>2 DEF Owed, InServer
      <3> QED BY <2>3, <3>2, <3>3, Hidden
    <2>6. CASE Status(c) \notin {"done", "killed"}
      <3>1. Status(c) = "waiting" /\ Status(c)' = "lost" /\ down[c] = 0
        BY <2>2, <2>3, <2>6 DEF Status, Shut, Closing, Unserved
      <3>2. \A d \in Clients : Owed(d)' = Owed(d)
        BY <2>3, <2>4, <3>1 DEF Owed, InServer
      <3>3. Service!TurnAway(c)
        BY <2>3, <2>4, <3>1, <3>2 DEF Service!TurnAway
      <3> QED BY <3>3 DEF Service!Next
    <2> QED BY <2>5, <2>6
  <1> QED
    BY <1>1, <1>2, <1>3, <1>4, <1>5, <1>6, <1>7, <1>8, <1>9, <1>10, <1>11, <1>12 DEF Server

(* Without the shortcuts esrv.c and its clients implement EchoService:     *)
(* every step of the server and of a client is a step of the abstract      *)
(* service or does not show.                                               *)
THEOREM ServesRefines ==
    ASSUME Cut = "none"
    PROVE  Spec => Serves
  <1>1. Known /\ Sound /\ [Next]_vars => Sound'
    BY SoundStep
  <1>2. Known /\ Sound /\ [Next]_vars => [Service!Next]_(Service!vars)
    <2> SUFFICES ASSUME Known, Sound, [Next]_vars PROVE [Service!Next]_(Service!vars)
      OBVIOUS
    <2>1. CASE Server
      BY <2>1, ServerRefines
    <2>2. CASE \E c \in Clients : Client(c) \/ Kill(c)
      BY <2>2, ClientRefines
    <2>3. CASE UNCHANGED vars
      <3>1. \A c \in Clients : Status(c)' = Status(c) /\ Owed(c)' = Owed(c)
        BY <2>3 DEF vars, client, stream, buffer, Status, Shut, Owed, InServer
      <3> QED BY <2>3, <3>1, Hidden DEF vars, stream
    <2> QED BY <2>1, <2>2, <2>3 DEF Next
  <1>3. Spec => []Known
    <2>1. Types /\ Closing /\ Conserved => Known
      BY DEF Known
    <2>2. Spec => []Types
      BY TypesInit, TypesStep, PTL DEF Spec
    <2>3. Spec => []Closing
      BY <2>2, ClosingInit, ClosingStep, PTL DEF Spec
    <2> QED BY <2>1, <2>2, <2>3, EchoesEverything, PTL
  <1> QED
    BY <1>1, <1>2, <1>3, SoundInit, ServiceInit, PTL DEF Spec, Serves, Service!Spec
=============================================================================

-------------------------------- MODULE Echo --------------------------------
(***************************************************************************)
(* examples/kcuttcp: the echo server esrv.c, one thread around an edge     *)
(* triggered epoll, and its ping-pong clients eclnt.c.  The server may be  *)
(* built with the kernel shortcuts of kcuttest/kcut_tcpmsg.h in place of   *)
(* read and write.  Sockets are external: two byte streams of bounded      *)
(* capacity per connection, of which only the lengths matter.              *)
(***************************************************************************)
EXTENDS Integers, FiniteSets

CONSTANTS
    Clients,
    P,          \* pkt_size: bytes per transaction
    Txns,       \* max_txns of each client: its transactions
    Buf,        \* BUF_SIZE of the server
    Cap,        \* what one direction of a connection can hold
    Cut,        \* the build: "none", or "counted" with shortcuts
    KCUT_THRESHOLD,
    Killable,   \* clients that may be killed in a transaction
    MaxErrors,  \* calls of accept that may fail
    Listener, NoFd

ASSUME ConstantsAssumption ==
    /\ P \in Nat \ {0} /\ Txns \in [Clients -> Nat \ {0}] /\ Buf \in Nat \ {0} /\ Cap \in Nat \ {0}
    /\ Cut \in {"none", "counted"} /\ KCUT_THRESHOLD \in Nat /\ MaxErrors \in Nat
    /\ Killable \subseteq Clients /\ Listener \notin Clients /\ NoFd \notin Clients

VARIABLES
    conn,       \* the server's end: "new", "backlog", "open", "closed", or
                \* "refused": closed before it was registered
    peer,       \* what the server's socket knows of the client's end
    up, down,   \* bytes on the way to the server, and back
    cpc,        \* where each client is
    left,       \* bytes the client's write_all or read_all still wants
    txn,        \* transactions done
    ready,      \* connections on epoll's ready list
    spc,        \* where the server is
    evs,        \* reported events not handled yet
    hup,        \* those of them with EPOLLERR or EPOLLHUP
    errors,     \* calls of accept that failed
    fd,         \* connection being served
    nr, sent,   \* its locals
    rcnt, wcnt  \* the static kcut_cnt of kcut_tcp_read and kcut_tcp_write

stream == <<up, down>>
client == <<cpc, left, txn>>
events == <<evs, hup, errors>>
buffer == <<nr, sent>>
cnt == <<rcnt, wcnt>>
vars == <<conn, peer, stream, client, ready, spc, events, fd, buffer, cnt>>

(* Error numbers of the kernel. *)
EAGAIN == 11
ECONNRESET == 104

(* Types of the connections, of the clients and of the server's locals. *)
TypeOK ==
    /\ conn \in [Clients -> {"new", "backlog", "open", "closed", "refused"}]
    /\ peer \in [Clients -> {"up", "fin", "rst", "pipe"}]
    /\ up \in [Clients -> 0..Cap] /\ down \in [Clients -> 0..Cap]
    /\ cpc \in [Clients -> {"connect", "write", "read", "exit", "fail", "killed"}]
    /\ left \in [Clients -> 0..P] /\ txn \in [Clients -> Nat]
    /\ \A c \in Clients : txn[c] <= Txns[c]
    /\ ready \subseteq Clients /\ evs \subseteq Clients \cup {Listener}
    /\ hup \subseteq Clients /\ errors \in 0..MaxErrors
    /\ spc \in {"wait", "next", "accept", "read", "write", "dead"}
    /\ fd \in Clients \cup {NoFd} /\ nr \in 0..Buf /\ sent \in Int /\ sent <= nr
    /\ rcnt \in 0..KCUT_THRESHOLD /\ wcnt \in 0..KCUT_THRESHOLD

Init ==
    /\ conn = [c \in Clients |-> "new"] /\ peer = [c \in Clients |-> "up"]
    /\ up = [c \in Clients |-> 0] /\ down = [c \in Clients |-> 0]
    /\ cpc = [c \in Clients |-> "connect"]
    /\ left = [c \in Clients |-> 0] /\ txn = [c \in Clients |-> 0]
    /\ ready = {} /\ spc = "wait" /\ evs = {} /\ hup = {} /\ errors = 0 /\ fd = NoFd
    /\ nr = 0 /\ sent = 0 /\ rcnt = 0 /\ wcnt = 0

(* The server's end is gone. *)
Shut(c) == conn[c] \in {"closed", "refused"}

Least(a, b) == IF a <= b THEN a ELSE b

(* epoll puts a registered socket on its list whenever something arrives. *)
Wake(c) == ready' = IF conn[c] = "open" THEN ready \cup {c} ELSE ready
-----------------------------------------------------------------------------
(* eclnt.c *)

tcp_connect(c) ==
    /\ cpc[c] = "connect"
    /\ IF spc = "dead"
       THEN cpc' = [cpc EXCEPT ![c] = "fail"] /\ UNCHANGED <<conn, left>>
       ELSE /\ conn' = [conn EXCEPT ![c] = "backlog"]
            /\ cpc' = [cpc EXCEPT ![c] = "write"] /\ left' = [left EXCEPT ![c] = P]
    /\ UNCHANGED <<peer, stream, txn, ready, spc, events, fd, buffer, cnt>>

(* One write of write_all takes what there is room for; an error ends the  *)
(* client.                                                                 *)
write_all(c) ==
    /\ cpc[c] = "write" /\ ~Shut(c)
    /\ \E k \in 1..Least(left[c], Cap - up[c]) :
        /\ up' = [up EXCEPT ![c] = @ + k]
        /\ left' = [left EXCEPT ![c] = IF @ = k THEN P ELSE @ - k]
        /\ cpc' = [cpc EXCEPT ![c] = IF left[c] = k THEN "read" ELSE "write"]
    /\ Wake(c)
    /\ UNCHANGED <<conn, peer, down, txn, spc, events, fd, buffer, cnt>>

(* Mutant of read_all: one transaction more than asked for. *)
read_allOneMore(c) ==
    LET k == Least(left[c], down[c])
        last == txn[c] = Txns[c]
    IN
    /\ cpc[c] = "read" /\ k > 0
    /\ down' = [down EXCEPT ![c] = @ - k]
    /\ left' = [left EXCEPT ![c] = IF @ > k THEN @ - k ELSE IF last THEN 0 ELSE P]
    /\ txn' = [txn EXCEPT ![c] = IF left[c] > k THEN @ ELSE @ + 1]
    /\ cpc' = [cpc EXCEPT ![c] =
                 IF left[c] > k THEN @ ELSE IF last THEN "exit" ELSE "write"]
    /\ UNCHANGED <<conn, peer, up, ready, spc, events, fd, buffer, cnt>>

(* One read of read_all; the last one ends the transaction, and the last   *)
(* transaction closes the connection.                                      *)
read_all(c) ==
    LET k == Least(left[c], down[c])
        last == txn[c] + 1 = Txns[c]
    IN
    /\ cpc[c] = "read" /\ k > 0
    /\ down' = [down EXCEPT ![c] = @ - k]
    /\ IF left[c] > k
       THEN /\ left' = [left EXCEPT ![c] = @ - k]
            /\ UNCHANGED <<cpc, txn, peer, ready>>
       ELSE /\ left' = [left EXCEPT ![c] = IF last THEN 0 ELSE P]
            /\ txn' = [txn EXCEPT ![c] = @ + 1]
            /\ cpc' = [cpc EXCEPT ![c] = IF last THEN "exit" ELSE "write"]
            /\ IF last /\ peer[c] = "up"
               THEN peer' = [peer EXCEPT ![c] = "fin"] /\ Wake(c)
               ELSE UNCHANGED <<peer, ready>>
    /\ UNCHANGED <<conn, up, spc, events, fd, buffer, cnt>>

(* write to a closed connection fails; read does when nothing is left. *)
ClientFails(c) ==
    /\ Shut(c)
    /\ cpc[c] = "write" \/ (cpc[c] = "read" /\ down[c] = 0)
    /\ cpc' = [cpc EXCEPT ![c] = "fail"]
    /\ UNCHANGED <<conn, peer, stream, left, txn, ready, spc, events, fd, buffer, cnt>>

(* A kill closes the socket: a reset if there was something to read. *)
Kill(c) ==
    /\ c \in Killable /\ cpc[c] \in {"write", "read"} /\ ~Shut(c)
    /\ cpc' = [cpc EXCEPT ![c] = "killed"]
    /\ peer' = [peer EXCEPT ![c] = IF down[c] > 0 THEN "rst" ELSE "fin"]
    /\ down' = [down EXCEPT ![c] = 0]
    /\ Wake(c)
    /\ UNCHANGED <<conn, up, left, txn, spc, events, fd, buffer, cnt>>
-----------------------------------------------------------------------------
(* esrv.c *)

Readable(c) == conn[c] = "open" /\ (up[c] > 0 \/ peer[c] # "up")
Backlog == {c \in Clients : conn[c] = "backlog"}

(* epoll_wait: level for the listener, edge for the connections. *)
EpollWait ==
    LET found == {c \in ready : Readable(c)}
                 \cup (IF Backlog = {} THEN {} ELSE {Listener})
    IN
    /\ spc = "wait" /\ found # {}
    /\ evs' = found /\ hup' = {c \in Clients \cap found : peer[c] \in {"rst", "pipe"}}
    /\ ready' = {} /\ spc' = "next"
    /\ UNCHANGED <<conn, peer, stream, client, errors, fd, buffer, cnt>>

close_fd(c) == conn' = [conn EXCEPT ![c] = "closed"]

EventsDone ==
    /\ spc = "next" /\ evs = {} /\ spc' = "wait"
    /\ UNCHANGED <<conn, peer, stream, client, ready, events, fd, buffer, cnt>>

NewConnections ==
    /\ spc = "next" /\ Listener \in evs
    /\ evs' = evs \ {Listener} /\ spc' = "accept"
    /\ UNCHANGED <<conn, peer, stream, client, ready, hup, errors, fd, buffer, cnt>>

(* EPOLL_CTL_ADD reports what is there already. *)
Accept(c) ==
    /\ spc = "accept" /\ c \in Backlog
    /\ conn' = [conn EXCEPT ![c] = "open"]
    /\ ready' = IF up[c] > 0 \/ peer[c] # "up" THEN ready \cup {c} ELSE ready
    /\ UNCHANGED <<peer, stream, client, spc, events, fd, buffer, cnt>>

Accepted ==
    /\ spc = "accept" /\ Backlog = {} /\ spc' = "next"
    /\ UNCHANGED <<conn, peer, stream, client, ready, events, fd, buffer, cnt>>

(* An accept that fails leaves the backlog to the next epoll_wait. *)
AcceptError ==
    /\ spc = "accept" /\ errors < MaxErrors
    /\ errors' = errors + 1 /\ spc' = "next"
    /\ UNCHANGED <<conn, peer, stream, client, ready, evs, hup, fd, buffer, cnt>>

(* set_nonblock or EPOLL_CTL_ADD fails: the new connection is closed.      *)
Refuse(c) ==
    /\ spc = "accept" /\ c \in Backlog
    /\ conn' = [conn EXCEPT ![c] = "refused"]
    /\ UNCHANGED <<peer, stream, client, ready, spc, events, fd, buffer, cnt>>

(* Hang-up and error, as epoll_wait reported them, are looked at first.    *)
ConnectionEvent(c) ==
    /\ spc = "next" /\ c \in evs /\ evs' = evs \ {c} /\ hup' = hup \ {c}
    /\ IF c \in hup
       THEN close_fd(c) /\ UNCHANGED <<spc, fd>>
       ELSE spc' = "read" /\ fd' = c /\ UNCHANGED conn
    /\ UNCHANGED <<peer, stream, client, ready, errors, buffer, cnt>>

(* kcut_tcp_read and kcut_tcp_write make a system call when their counter  *)
(* is zero and set it again, else they take the shortcut and count down.   *)
Shortcut(n) == Cut = "counted" /\ n > 0
Count(n) ==
    IF Cut = "none" THEN n ELSE IF n > 0 THEN n - 1 ELSE KCUT_THRESHOLD

(* A failed system call returns -1 and sets errno; the shortcuts return    *)
(* what tcp_recvmsg and tcp_sendmsg returned.                              *)
Error(n, errno) == IF Shortcut(n) THEN 0 - errno ELSE -1

(* Data arrived; the shortcut does the same. *)
ReadData ==
    /\ spc = "read" /\ up[fd] > 0
    /\ nr' = Least(up[fd], Buf) /\ sent' = 0
    /\ up' = [up EXCEPT ![fd] = @ - nr']
    /\ spc' = "write" /\ rcnt' = Count(rcnt)
    /\ UNCHANGED <<conn, peer, down, client, ready, events, fd, wcnt>>

(* Mutant of ReadAgain: the connection is closed. *)
ReadAgainCloses ==
    /\ spc = "read" /\ up[fd] = 0 /\ peer[fd] = "up" /\ ~Shortcut(rcnt)
    /\ spc' = "next" /\ rcnt' = Count(rcnt)
    /\ close_fd(fd)
    /\ UNCHANGED <<peer, stream, client, ready, events, fd, buffer, wcnt>>

(* EAGAIN, "fully drained".  The shortcut passes no MSG_DONTWAIT: it waits *)
(* for data.                                                               *)
ReadAgain ==
    /\ spc = "read" /\ up[fd] = 0 /\ peer[fd] = "up" /\ ~Shortcut(rcnt)
    /\ spc' = "next" /\ rcnt' = Count(rcnt)
    /\ UNCHANGED <<conn, peer, stream, client, ready, events, fd, buffer, wcnt>>

(* Mutant of ReadEnd: end of file is taken for "nothing now". *)
ReadEndKeeps ==
    /\ spc = "read" /\ up[fd] = 0 /\ peer[fd] # "up"
    /\ spc' = "next" /\ rcnt' = Count(rcnt)
    /\ UNCHANGED <<conn, peer, stream, client, ready, events, fd, buffer, wcnt>>

(* Mutant of ReadEnd: it leaves main, not the loop. *)
ReadEndExits ==
    /\ spc = "read" /\ up[fd] = 0 /\ peer[fd] # "up"
    /\ spc' = "dead" /\ evs' = {} /\ hup' = {} /\ ready' = {} /\ rcnt' = Count(rcnt)
    /\ conn' = [c \in Clients |->
                 IF conn[c] \in {"new", "refused"} THEN conn[c] ELSE "closed"]
    /\ UNCHANGED <<peer, stream, client, errors, fd, buffer, wcnt>>

(* End of file or an error closes; the shortcut returns -ECONNRESET, which *)
(* the server takes for neither and reads on to the end of file.           *)
ReadEnd ==
    /\ spc = "read" /\ up[fd] = 0 /\ peer[fd] # "up"
    /\ rcnt' = Count(rcnt)
    /\ IF peer[fd] = "rst" /\ Error(rcnt, ECONNRESET) # -1
       THEN peer' = [peer EXCEPT ![fd] = "pipe"] /\ UNCHANGED <<conn, spc>>
       ELSE close_fd(fd) /\ spc' = "next" /\ UNCHANGED peer
    /\ UNCHANGED <<stream, client, ready, events, fd, buffer, wcnt>>

(* Mutant of WriteData: a short write counts as a whole one. *)
WriteDataOnce ==
    LET k == Least(nr - sent, Cap - down[fd]) IN
    /\ spc = "write" /\ peer[fd] = "up" /\ k > 0
    /\ down' = [down EXCEPT ![fd] = @ + k]
    /\ sent' = nr /\ wcnt' = Count(wcnt)
    /\ spc' = "read"
    /\ UNCHANGED <<conn, peer, up, client, ready, events, fd, nr, rcnt>>

(* Mutant of WriteData: back to epoll_wait before the socket is drained. *)
WriteDataLeaves ==
    LET k == Least(nr - sent, Cap - down[fd]) IN
    /\ spc = "write" /\ peer[fd] = "up" /\ k > 0
    /\ down' = [down EXCEPT ![fd] = @ + k]
    /\ sent' = sent + k /\ wcnt' = Count(wcnt)
    /\ spc' = IF sent + k = nr THEN "next" ELSE "write"
    /\ UNCHANGED <<conn, peer, up, client, ready, events, fd, nr, rcnt>>

(* What there is room for goes out; then the rest, then back to read. *)
WriteData ==
    LET k == Least(nr - sent, Cap - down[fd]) IN
    /\ spc = "write" /\ peer[fd] = "up" /\ k > 0
    /\ down' = [down EXCEPT ![fd] = @ + k]
    /\ sent' = sent + k /\ wcnt' = Count(wcnt)
    /\ spc' = IF sent + k = nr THEN "read" ELSE "write"
    /\ UNCHANGED <<conn, peer, up, client, ready, events, fd, nr, rcnt>>

(* EAGAIN from write is tried again at once.  In the shortcut msg_flags is *)
(* not initialized: it may wait, or return -EAGAIN, which the server adds  *)
(* to sent.                                                                *)
WriteAgain ==
    /\ spc = "write" /\ peer[fd] = "up" /\ down[fd] = Cap
    /\ wcnt' = Count(wcnt)
    /\ sent' = LET nw == Error(wcnt, EAGAIN) IN
                IF nw = -1 THEN sent ELSE sent + nw
    /\ UNCHANGED <<conn, peer, stream, client, ready, spc, events, fd, nr, rcnt>>

(* Writes to a client that is gone succeed until its reset arrives. *)
WriteToClosed ==
    /\ spc = "write" /\ peer[fd] = "fin"
    /\ \E p \in {"fin", "pipe"} : peer' = [peer EXCEPT ![fd] = p]
    /\ sent' = nr /\ wcnt' = Count(wcnt) /\ spc' = "read"
    /\ UNCHANGED <<conn, stream, client, ready, events, fd, nr, rcnt>>

(* After a reset write fails once; without a reset to report it is EPIPE   *)
(* with SIGPIPE, which the server neither handles nor ignores.             *)
WriteError ==
    /\ spc = "write" /\ peer[fd] = "rst"
    /\ wcnt' = Count(wcnt)
    /\ IF Error(wcnt, ECONNRESET) # -1
       THEN /\ sent' = sent + Error(wcnt, ECONNRESET)
            /\ peer' = [peer EXCEPT ![fd] = "pipe"]
            /\ UNCHANGED <<conn, spc>>
       ELSE close_fd(fd) /\ spc' = "next" /\ UNCHANGED <<sent, peer>>
    /\ UNCHANGED <<stream, client, ready, events, fd, nr, rcnt>>

SigPipe ==
    /\ spc = "write" /\ peer[fd] = "pipe"
    /\ spc' = "dead" /\ evs' = {} /\ hup' = {} /\ ready' = {}
    /\ conn' = [c \in Clients |->
                 IF conn[c] \in {"new", "refused"} THEN conn[c] ELSE "closed"]
    /\ UNCHANGED <<peer, stream, client, errors, fd, buffer, cnt>>
-----------------------------------------------------------------------------
Client(c) == tcp_connect(c) \/ write_all(c) \/ read_all(c) \/ ClientFails(c)

Server ==
    \/ EpollWait \/ EventsDone \/ NewConnections \/ Accepted
    \/ AcceptError \/ \E c \in Clients : Accept(c) \/ Refuse(c) \/ ConnectionEvent(c)
    \/ ReadData \/ ReadAgain \/ ReadEnd
    \/ WriteData \/ WriteAgain \/ WriteToClosed \/ WriteError \/ SigPipe

Next == Server \/ \E c \in Clients : Client(c) \/ Kill(c)

(* The server and every client are scheduled; nothing has to kill a client *)
(* or to fail, and accept does not fail for ever.                          *)
Spec == Init /\ [][Next]_vars
FairSpec == Spec /\ WF_vars(Server) /\ \A c \in Clients : WF_vars(Client(c))
-----------------------------------------------------------------------------
(* Properties *)

(* "echo: write everything back": what a client has sent and not got back  *)
(* is in one of the two streams or in the server's buffer, not a byte more *)
(* or less, whatever other connections do and however short the reads and  *)
(* writes are.                                                             *)
Outstanding(c) ==
    CASE cpc[c] = "write" -> P - left[c]
      [] cpc[c] = "read" -> left[c]
      [] OTHER -> 0
InServer(c) == IF spc = "write" /\ fd = c THEN nr - sent ELSE 0
Conserved ==
    \A c \in Clients : peer[c] = "up" /\ ~Shut(c) =>
        Outstanding(c) = up[c] + down[c] + InServer(c)

(* A client sees its connection fail only when the server was killed, or   *)
(* refused it before a byte of it was read: once a connection is           *)
(* registered, the server does not close it before its client has gone.    *)
FailsOnlyWithServer ==
    \A c \in Clients : cpc[c] = "fail" =>
        spc = "dead" \/ (conn[c] = "refused" /\ txn[c] = 0 /\ down[c] = 0)

(* The server and its clients implement EchoService: a client waits from   *)
(* its connect on, is in once it is accepted, and is owed what is on its   *)
(* way to the server or in the server's buffer.                            *)
Status(c) ==
    IF conn[c] = "new" THEN "out"
    ELSE IF cpc[c] = "exit" THEN "done"
    ELSE IF cpc[c] = "killed" THEN "killed"
    ELSE IF Shut(c) THEN "lost"
    ELSE IF conn[c] = "backlog" THEN "waiting" ELSE "in"
Owed(c) == IF Status(c) \in {"waiting", "in", "lost"} THEN up[c] + InServer(c) ELSE 0

Service == INSTANCE EchoService WITH
    serving <- spc # "dead",
    status <- [c \in Clients |-> Status(c)],
    owed <- [c \in Clients |-> Owed(c)],
    echoed <- down

(* No byte is echoed twice, made up or dropped, a client that ends had all *)
(* of its answer, and no client loses the server unless some client was    *)
(* killed or it was refused at the start: one that finishes its            *)
(* transactions never brings the server down.                              *)
Serves == Service!Spec

(* What the proofs need besides: the connection that is served is one of   *)
(* the clients', a client in a transaction has one left, a client that has *)
(* gone says so before the server can know, and the server closes only     *)
(* what has gone.                                                          *)
ServesClient == spc \in {"read", "write"} => fd \in Clients
TxnLeft == \A c \in Clients : cpc[c] \in {"connect", "write", "read"} => txn[c] < Txns[c]
GoneFirst == \A c \in Clients : peer[c] # "up" => cpc[c] \in {"exit", "killed"}
ClosedLast == \A c \in Clients : conn[c] = "closed" => peer[c] # "up" \/ spc = "dead"
HupGone == \A c \in hup : peer[c] # "up"
Unserved == \A c \in Clients : conn[c] \in {"new", "backlog", "refused"} =>
    txn[c] = 0 /\ down[c] = 0 /\ ~(spc \in {"read", "write"} /\ fd = c) /\ c \notin evs
NotYet == \A c \in Clients : cpc[c] = "connect" => conn[c] = "new"

(* And for the refinement: a reported or served connection is open and is  *)
(* served once, a client that has ended had everything back, one that the  *)
(* dead server left can find no more in its socket than it waits for.      *)
Served ==
    /\ \A c \in Clients : c \in evs => conn[c] = "open"
    /\ spc \in {"read", "write"} => conn[fd] = "open" /\ fd \notin evs
    /\ spc = "write" => sent < nr
    /\ spc = "dead" => \A c \in Clients : conn[c] \in {"new", "closed", "refused"}
Ended ==
    \A c \in Clients :
        /\ cpc[c] \in {"write", "read", "exit", "killed"} => conn[c] # "new"
        /\ cpc[c] \in {"exit", "killed"} => peer[c] # "up"
        /\ cpc[c] = "exit" /\ spc # "dead" => up[c] = 0 /\ ~(spc = "write" /\ fd = c)
        /\ Shut(c) /\ cpc[c] \in {"write", "read"} => Outstanding(c) = up[c] + down[c]

(* Every client that connects ends: no edge of epoll is missed, and write  *)
(* of one side does not wait for ever on write of the other, as long as a  *)
(* packet has at most 2 * Cap + 1 bytes: what the two streams hold, and    *)
(* the one byte at least that a server that waits in write has taken.      *)
ClientsEnd ==
    \A c \in Clients : cpc[c] = "write" ~> cpc[c] \in {"exit", "fail", "killed"}

(* The server gives the descriptor of a client that has ended back. *)
ConnectionsClosed ==
    \A c \in Clients : cpc[c] \in {"exit", "killed"} ~> Shut(c)
=============================================================================

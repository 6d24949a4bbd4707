---------------------------- MODULE EchoService ----------------------------
(***************************************************************************)
(* What kcuttcp's echo server promises its clients, without sockets,       *)
(* buffers or epoll: every byte asked is owed until it is echoed, once; a  *)
(* client that leaves of itself was owed nothing; clients that were let in *)
(* lose the service all together, and only after one of them was killed.   *)
(* A client that waits may be turned away, before anything was echoed.     *)
(***************************************************************************)
EXTENDS Integers

CONSTANTS
    Clients,
    P,          \* bytes of a request
    Killable    \* clients that may be killed

VARIABLES
    serving,    \* the server runs
    status,     \* "out", "waiting", "in", "done", "killed", "lost"
    owed,       \* bytes the server has to send back to it
    echoed      \* bytes sent back that the client has not taken yet

vars == <<serving, status, owed, echoed>>

Init ==
    /\ serving = TRUE
    /\ status = [c \in Clients |-> "out"]
    /\ owed = [c \in Clients |-> 0] /\ echoed = [c \in Clients |-> 0]

Join(c) ==
    /\ serving /\ status[c] = "out"
    /\ status' = [status EXCEPT ![c] = "waiting"]
    /\ UNCHANGED <<serving, owed, echoed>>

LetIn(c) ==
    /\ serving /\ status[c] = "waiting"
    /\ status' = [status EXCEPT ![c] = "in"]
    /\ UNCHANGED <<serving, owed, echoed>>

TurnAway(c) ==
    /\ serving /\ status[c] = "waiting" /\ echoed[c] = 0
    /\ status' = [status EXCEPT ![c] = "lost"]
    /\ UNCHANGED <<serving, owed, echoed>>

(* A request is at most P bytes, and the next one follows its answer. *)
Ask(c, k) ==
    /\ status[c] \in {"waiting", "in"} /\ owed[c] + echoed[c] + k <= P
    /\ owed' = [owed EXCEPT ![c] = @ + k]
    /\ UNCHANGED <<serving, status, echoed>>

EchoBytes(c, k) ==
    /\ serving /\ status[c] = "in" /\ k <= owed[c]
    /\ owed' = [owed EXCEPT ![c] = @ - k]
    /\ echoed' = [echoed EXCEPT ![c] = @ + k]
    /\ UNCHANGED <<serving, status>>

(* What was echoed can be taken even when the server is gone. *)
Take(c, k) ==
    /\ status[c] \in {"in", "lost"} /\ k <= echoed[c]
    /\ echoed' = [echoed EXCEPT ![c] = @ - k]
    /\ UNCHANGED <<serving, status, owed>>

(* A client takes its last bytes and leaves. *)
Finish(c) ==
    /\ status[c] \in {"in", "lost"} /\ owed[c] = 0
    /\ status' = [status EXCEPT ![c] = "done"]
    /\ echoed' = [echoed EXCEPT ![c] = 0]
    /\ UNCHANGED <<serving, owed>>

(* A killed client gives up what it was owed. *)
Abort(c) ==
    /\ c \in Killable /\ status[c] \in {"waiting", "in"}
    /\ status' = [status EXCEPT ![c] = "killed"]
    /\ owed' = [owed EXCEPT ![c] = 0] /\ echoed' = [echoed EXCEPT ![c] = 0]
    /\ UNCHANGED serving

(* SIGPIPE: only a client that was killed takes the server down; what the  *)
(* others were owed stays owed.                                            *)
Die ==
    /\ serving /\ \E c \in Clients : status[c] = "killed"
    /\ serving' = FALSE
    /\ status' = [c \in Clients |->
                   IF status[c] \in {"waiting", "in"} THEN "lost" ELSE status[c]]
    /\ UNCHANGED <<owed, echoed>>

Next ==
    \/ Die
    \/ \E c \in Clients :
        \/ Join(c) \/ LetIn(c) \/ TurnAway(c) \/ Finish(c) \/ Abort(c)
        \/ \E k \in 1..P : Ask(c, k) \/ EchoBytes(c, k) \/ Take(c, k)

Spec == Init /\ [][Next]_vars
=============================================================================

------------------------------ MODULE KldLoop -------------------------------
(***************************************************************************)
(* examples/tools/src/kld: the event loop of kldfs.c.  One epoll instance  *)
(* watches a signalfd (edge triggered, sigproc.c) and the FUSE device      *)
(* (level triggered, fs.c).  Handlers run one after the other; a handler   *)
(* may end the loop.  Signals, requests and an unmount come at any time.   *)
(***************************************************************************)
EXTENDS Naturals, Sequences, FiniteSets

CONSTANTS
    Signals,    \* signals that are sent, of those sigAddTermSignals blocks
    Reqs        \* identities of FUSE requests, each outstanding once

(* The cases of sigEvent's switch: ALRM, TERM, INT, HUP, KILL, USR1,       *)
(* VTALRM, USR2, PIPE, IO.  sigAddTermSignals blocks QUIT and not KILL.    *)
Handled == {14, 15, 2, 1, 9, 10, 26, 12, 13, 29}
sigAddTermSignals == {14, 15, 2, 1, 3, 10, 26, 12, 13, 29}

ASSUME SignalsAssumption == Signals \subseteq sigAddTermSignals

VARIABLES
    pending,    \* signals sent and not read
    ready,      \* the signalfd is on epoll's ready list
    queue,      \* FUSE requests not answered yet
    gone,       \* the file system was unmounted by someone else
    watched,    \* epoll_ctl succeeded for the FUSE device
    pc,         \* "init", "wait", "dispatch", "done", "down", "abort"
    events      \* event sources reported and not handled yet

env == <<queue, gone, watched>>
vars == <<pending, ready, env, pc, events>>

(* Types of what epoll knows, of what is outstanding and of the loop. *)
TypeOK ==
    /\ pending \subseteq Signals /\ ready \in BOOLEAN
    /\ queue \in Seq(Reqs) /\ gone \in BOOLEAN /\ watched \in BOOLEAN
    /\ pc \in {"init", "wait", "dispatch", "done", "down", "abort"}
    /\ events \in {<<>>, <<"sig">>, <<"fuse">>, <<"sig", "fuse">>, <<"fuse", "sig">>}

Init ==
    /\ pending = {} /\ ready = FALSE /\ queue = <<>> /\ gone = FALSE
    /\ watched = FALSE /\ pc = "init" /\ events = <<>>

Up == pc \in {"init", "wait", "dispatch"}
Queued(r) == \E n \in 1..Len(queue) : queue[n] = r
-----------------------------------------------------------------------------
(* The environment. *)

(* A standard signal is pending at most once; sending it wakes the         *)
(* signalfd's waiters, and epoll with them once it watches.                *)
Send(s) ==
    /\ Up /\ s \notin pending
    /\ pending' = pending \cup {s}
    /\ ready' = (ready \/ pc # "init")
    /\ UNCHANGED <<env, pc, events>>

Request(r) ==
    /\ Up /\ ~gone /\ ~Queued(r)
    /\ queue' = Append(queue, r)
    /\ UNCHANGED <<pending, ready, gone, watched, pc, events>>

(* The kernel ends outstanding requests when the connection goes. *)
UnmountedElsewhere ==
    /\ Up /\ ~gone /\ gone' = TRUE /\ queue' = <<>>
    /\ UNCHANGED <<pending, ready, watched, pc, events>>
-----------------------------------------------------------------------------
(* sigprocRegisterEvents asserts that epoll_ctl succeeds; what             *)
(* fsRegisterEvents returns is not looked at.                              *)
RegisterEvents ==
    /\ pc = "init" /\ pc' = "wait"
    /\ ready' = (pending # {})
    /\ watched' \in BOOLEAN
    /\ UNCHANGED <<pending, queue, gone, events>>

(* Level: the device is reported as long as there is something to read or  *)
(* it is in error.                                                         *)
FuseReady == watched /\ (queue # <<>> \/ gone)

(* Mutant of EpollWait: the loop runs over an entry that was not filled. *)
EpollWaitStale ==
    /\ pc = "wait"
    /\ (ready /\ pending # {}) \/ FuseReady
    /\ events' \in {<<"sig", "sig">>, <<"fuse", "fuse">>}
    /\ ready' = FALSE /\ pc' = "dispatch"
    /\ UNCHANGED <<pending, env>>

(* epoll_wait: what is ready, in any order; an edge is reported once. *)
EpollWait ==
    LET sig == ready /\ pending # {} IN
    /\ pc = "wait"
    /\ sig \/ FuseReady
    /\ events' \in CASE sig /\ FuseReady -> {<<"sig", "fuse">>, <<"fuse", "sig">>}
                     [] sig -> {<<"sig">>}
                     [] OTHER -> {<<"fuse">>}
    /\ ready' = FALSE /\ pc' = "dispatch"
    /\ UNCHANGED <<pending, env>>

(* A signalfd gives the pending signal with the lowest number. *)
NextSignal == CHOOSE s \in pending : \A t \in pending : s <= t

NextEvent ==
    /\ events' = Tail(events)
    /\ pc' = IF Len(events) = 1 THEN "wait" ELSE "dispatch"

(* Mutant of sigEvent: the event is not taken off. *)
sigEventAgain ==
    /\ pc = "dispatch" /\ Head(events) = "sig"
    /\ IF pending = {}
       THEN pc' = "abort" /\ UNCHANGED <<pending, events>>
       ELSE /\ pending' = pending \ {NextSignal}
            /\ IF NextSignal \in Handled THEN pc' = "done" /\ events' = <<>>
               ELSE UNCHANGED <<pc, events>>
    /\ UNCHANGED <<ready, env>>

(* Mutant of sigEvent: only SIGTERM ends the loop. *)
sigEventTermOnly ==
    /\ pc = "dispatch" /\ Head(events) = "sig"
    /\ IF pending = {}
       THEN pc' = "abort" /\ UNCHANGED <<pending, events>>
       ELSE /\ pending' = pending \ {NextSignal}
            /\ IF NextSignal = 15 THEN pc' = "done" /\ events' = <<>>
               ELSE NextEvent
    /\ UNCHANGED <<ready, env>>

(* sigEvent reads one signal; a short read fails its assertion. *)
sigEvent ==
    /\ pc = "dispatch" /\ Head(events) = "sig"
    /\ IF pending = {}
       THEN pc' = "abort" /\ UNCHANGED <<pending, events>>
       ELSE /\ pending' = pending \ {NextSignal}
            /\ IF NextSignal \in Handled THEN pc' = "done" /\ events' = <<>>
               ELSE NextEvent
    /\ UNCHANGED <<ready, env>>

(* Mutant of fsEvent: what was received is not processed. *)
fsEventIdle ==
    /\ pc = "dispatch" /\ Head(events) = "fuse"
    /\ NextEvent
    /\ UNCHANGED <<pending, ready, env>>

(* fsEvent receives and processes one request if there is one; hang-up and *)
(* error are only logged.                                                  *)
fsEvent ==
    /\ pc = "dispatch" /\ Head(events) = "fuse"
    /\ queue' = IF queue = <<>> THEN queue ELSE Tail(queue)
    /\ NextEvent
    /\ UNCHANGED <<pending, ready, gone, watched>>

(* epoll_create1 fails, or epoll_wait with an error other than EINTR and   *)
(* EINVAL: the loop returns false and the program exits.                   *)
LoopFails ==
    /\ pc \in {"init", "wait"} /\ pc' = "done"
    /\ UNCHANGED <<pending, ready, env, events>>

(* exit runs cleanup: unmount, close the signalfd. *)
cleanup ==
    /\ pc = "done" /\ pc' = "down" /\ queue' = <<>>
    /\ UNCHANGED <<pending, ready, gone, watched, events>>
-----------------------------------------------------------------------------
kldfsLoop == RegisterEvents \/ EpollWait \/ sigEvent \/ fsEvent \/ cleanup

Next ==
    \/ kldfsLoop \/ LoopFails \/ UnmountedElsewhere
    \/ \E s \in Signals : Send(s)
    \/ \E r \in Reqs : Request(r)

(* The process is scheduled; no signal, request, unmount or failure has to *)
(* come.                                                                   *)
Spec == Init /\ [][Next]_vars /\ WF_vars(kldfsLoop)
-----------------------------------------------------------------------------
(* Properties *)

(* epoll reports the signalfd only when sigEvent has a signal to read: its *)
(* assertion on the size read never fails.                                 *)
ReadsSignal ==
    /\ pc # "abort"
    /\ pc = "dispatch" /\ (\E n \in 1..Len(events) : events[n] = "sig") => pending # {}

(* A request for the watched device is answered, or the process exits, or  *)
(* the file system was unmounted: signals and the order of events do not   *)
(* starve it.                                                              *)
RequestsServed ==
    \A r \in Reqs : watched /\ Queued(r) ~> ~Queued(r)

(* If SIGQUIT is never sent, a signal sent to kld ends it, whatever else   *)
(* is pending, before or after registration, and also when the device is   *)
(* gone and reports an error for ever.                                     *)
SignalEnds ==
    [](3 \notin pending) => \A s \in Signals : s \in pending ~> pc = "down"
=============================================================================

---------------------------- MODULE KldLoopProofs ---------------------------
(* Proofs about KldLoop, for any set of signals and requests. *)
EXTENDS KldLoop, TLAPS

(* What epoll_wait can report, spelled out: at most one event per source.  *)
EventLists == {<<>>, <<"sig">>, <<"fuse">>, <<"sig", "fuse">>, <<"fuse", "sig">>}

(* Handling the head of a report leaves a report, which names a source     *)
(* other than the one just handled.                                        *)
LEMMA ReportTail ==
    ASSUME NEW e \in EventLists, e # <<>>
    PROVE  /\ Tail(e) \in EventLists /\ Len(e) \in Nat
           /\ Len(e) = 1 <=> Tail(e) = <<>>
           /\ \A n \in 1..Len(Tail(e)) : Tail(e)[n] # Head(e) /\ Tail(e)[n] = e[n+1]
           /\ 1 \in 1..Len(e) /\ e[1] = Head(e)
           /\ \A n \in 1..Len(Tail(e)) : n+1 \in 1..Len(e)
  <1>1. CASE e = <<"sig">> \/ e = <<"fuse">>
    <2>1. Len(e) = 1 /\ Tail(e) = <<>> /\ Head(e) = e[1]
      <3>1. CASE e = <<"sig">>
        BY <3>1
      <3>2. CASE e = <<"fuse">>
        BY <3>2
      <3> QED BY <1>1, <3>1, <3>2
    <2>2. Tail(e) \in EventLists
      BY <2>1 DEF EventLists
    <2>3. Len(Tail(e)) = 0
      BY <2>1
    <2> QED BY <2>1, <2>2, <2>3
  <1>2. CASE e = <<"sig", "fuse">>
    BY <1>2 DEF EventLists
  <1>3. CASE e = <<"fuse", "sig">>
    BY <1>3 DEF EventLists
  <1> QED BY <1>1, <1>2, <1>3 DEF EventLists

(* Type correctness of the event loop and its environment. *)
THEOREM TypeCorrect == Spec => []TypeOK
  <1> DEFINE IInv == TypeOK /\ (pc = "dispatch" => events # <<>>)
  <1>1. Init => IInv
    <2> SUFFICES ASSUME Init PROVE TypeOK
      BY DEF Init
    <2>1. queue \in Seq(Reqs) /\ pending \subseteq Signals
      BY DEF Init
    <2> QED BY <2>1, Zenon DEF Init, TypeOK
  <1>2. IInv /\ [Next]_vars => IInv'
    <2> SUFFICES ASSUME TypeOK, pc = "dispatch" => events # <<>>, [Next]_vars
                 PROVE  IInv'
      OBVIOUS
    <2> USE DEF TypeOK, env
    <2>1. ASSUME NEW s \in Signals, Send(s) PROVE IInv'
      BY <2>1 DEF Send
    <2>2. ASSUME NEW r \in Reqs, Request(r) PROVE IInv'
      BY <2>2 DEF Request
    <2>3. CASE UnmountedElsewhere
      BY <2>3 DEF UnmountedElsewhere
    <2>4. CASE RegisterEvents
      BY <2>4 DEF RegisterEvents
    <2>5. CASE EpollWait
      <3>1. events' \in EventLists /\ events' # <<>>
        BY <2>5 DEF EpollWait, EventLists
      <3> QED BY <2>5, <3>1 DEF EpollWait, EventLists
    <2>6. ASSUME pc = "dispatch", NextEvent
          PROVE  /\ events' \in EventLists /\ pc' \in {"wait", "dispatch"}
                 /\ pc' = "dispatch" => events' # <<>>
      <3>1. events \in EventLists /\ events # <<>>
        BY <2>6 DEF EventLists
      <3> QED BY <2>6, <3>1, ReportTail DEF NextEvent
    <2>7. CASE sigEvent
      BY <2>6, <2>7 DEF sigEvent, EventLists
    <2>8. CASE fsEvent
      <3>1. queue' \in Seq(Reqs)
        BY <2>8 DEF fsEvent
      <3> QED BY <2>6, <2>8, <3>1 DEF fsEvent, EventLists
    <2>9. CASE cleanup
      BY <2>9 DEF cleanup
    <2>10. CASE LoopFails
      BY <2>10 DEF LoopFails
    <2>11. CASE UNCHANGED vars
      BY <2>11 DEF vars
    <2> QED
      BY <2>1, <2>2, <2>3, <2>4, <2>5, <2>7, <2>8, <2>9, <2>10, <2>11 DEF Next, kldfsLoop
  <1> QED BY <1>1, <1>2, PTL DEF Spec

(* The assertion of sigEvent on the size it reads never fails: whatever is *)
(* sent, requested or unmounted between epoll_wait and the handler, and in *)
(* whatever order two events are handled, a reported edge finds a signal.  *)
(* A report names the signalfd once and only its handler takes signals.    *)
THEOREM EdgeFindsSignal == Spec => []ReadsSignal
  <1> DEFINE IInv == ReadsSignal /\ (pc = "dispatch" => events # <<>>)
  <1>1. Init => IInv
    BY DEF Init, ReadsSignal
  <1>2. TypeOK /\ IInv /\ [Next]_vars => IInv'
    <2> SUFFICES ASSUME TypeOK, ReadsSignal, pc = "dispatch" => events # <<>>, [Next]_vars
                 PROVE  IInv'
      OBVIOUS
    <2> USE DEF ReadsSignal, env
    <2>0. events \in EventLists
      BY DEF TypeOK, EventLists
    <2>1. ASSUME NEW s \in Signals, Send(s) PROVE IInv'
      BY <2>1 DEF Send
    <2>2. ASSUME NEW r \in Reqs, Request(r) PROVE IInv'
      BY <2>2 DEF Request
    <2>3. CASE UnmountedElsewhere \/ RegisterEvents \/ LoopFails \/ cleanup
      BY <2>3 DEF UnmountedElsewhere, RegisterEvents, LoopFails, cleanup
    <2>4. CASE EpollWait
      BY <2>4 DEF EpollWait
    <2>5. CASE sigEvent
      <3>1. pending # {} /\ events # <<>> /\ Head(events) = "sig"
        BY <2>0, <2>5, ReportTail DEF sigEvent
      <3>2. CASE NextEvent
        <4>1. pc' = "dispatch" => events' # <<>>
          BY <2>0, <3>1, <3>2, ReportTail DEF NextEvent
        <4>2. \A n \in 1..Len(events') : events'[n] # "sig"
          BY <2>0, <3>1, <3>2, ReportTail DEF NextEvent
        <4>3. pc' # "abort"
          BY <3>2 DEF NextEvent
        <4> QED BY <4>1, <4>2, <4>3
      <3>3. CASE pc' = "done"
        BY <3>3
      <3> QED BY <2>5, <3>1, <3>2, <3>3 DEF sigEvent
    <2>6. CASE fsEvent
      <3>1. events # <<>> /\ pc = "dispatch" /\ UNCHANGED pending /\ NextEvent
        BY <2>6 DEF fsEvent
      <3>2. pc' = "dispatch" => events' # <<>>
        BY <2>0, <3>1, ReportTail DEF NextEvent
      <3>3. \A n \in 1..Len(events') : n+1 \in 1..Len(events) /\ events'[n] = events[n+1]
        BY <2>0, <3>1, ReportTail DEF NextEvent
      <3>4. pc' # "abort"
        BY <3>1 DEF NextEvent
      <3> QED BY <3>1, <3>2, <3>3, <3>4
    <2>7. CASE UNCHANGED vars
      BY <2>7 DEF vars
    <2> QED
      BY <2>1, <2>2, <2>3, <2>4, <2>5, <2>6, <2>7 DEF Next, kldfsLoop
  <1> QED BY <1>1, <1>2, TypeCorrect, PTL DEF Spec
=============================================================================

--------------------------- MODULE EvacuateProofs ---------------------------
(* Proofs about Evacuate, for any number of tasks, CPUs and calls. *)
EXTENDS Evacuate, TLAPS, SequenceTheorems, FiniteSetTheorems, Induction

(* A new entry goes to the head and moves the others back by one. *)
LEMMA ListAdd ==
    ASSUME NEW e \in Entry, NEW s \in Seq(Entry)
    PROVE  /\ list_add(e, s) \in Seq(Entry) /\ Len(s) \in Nat
           /\ Len(list_add(e, s)) = Len(s) + 1
           /\ list_add(e, s)[1] = e
           /\ \A j \in 1..Len(s) : list_add(e, s)[j+1] = s[j]
  BY DEF list_add

(* Removing the head entry moves the others forward by one. *)
LEMMA ListPop ==
    ASSUME NEW s \in Seq(Entry), s # <<>>
    PROVE  /\ Head(s) = s[1] /\ Head(s) \in Entry /\ Len(s) \in Nat \ {0}
           /\ Tail(s) \in Seq(Entry)
           /\ Len(Tail(s)) = Len(s) - 1
           /\ \A j \in 1..Len(s)-1 : Tail(s)[j] = s[j+1]
  OBVIOUS

(* save_task_affinity adds nothing to a list or the caller's own entry. *)
LEMMA SaveType ==
    ASSUME TypeOK, NEW t \in Tasks, save_task_affinity(t)
    PROVE  saved' \in Seq(Entry) /\ lost' \subseteq Tasks
  <1>1. [task |-> t, mask |-> mask[t]] \in Entry
    BY DEF TypeOK, Entry
  <1> QED BY <1>1, ListAdd DEF save_task_affinity, TypeOK

(* Type correctness of acquire_exclusive_cpu, release_exclusive_cpu and    *)
(* their environment.                                                      *)
THEOREM TypeCorrect == Spec => []TypeOK
  <1>1. Init => TypeOK
    <2> SUFFICES ASSUME Init PROVE TypeOK
      OBVIOUS
    <2>1. mask \in [Tasks -> SUBSET CPUs] /\ base \in [Tasks -> SUBSET CPUs]
      BY DEF Init
    <2>2. saved \in Seq(Entry)
      BY DEF Init
    <2>3. pc \in [Tasks -> PCs] /\ own \in [Tasks -> CPUs \cup {NoCpu}]
      BY DEF Init, PCs, InUser
    <2>4. reserved \in CPUs
      BY ConstantsAssumption DEF Init
    <2>5. /\ alive \subseteq Tasks /\ forking \subseteq Spawnable /\ lost \subseteq Tasks
          /\ fifo \subseteq Tasks /\ sigkill \subseteq Tasks /\ todo \subseteq Tasks
      BY DEF Init
    <2>6. mode \in 0..2
      BY DEF Init
    <2>7. /\ mutex \in Tasks \cup {NoTask}
          /\ mkcnt \in BOOLEAN /\ rc \in BOOLEAN
          /\ target \in {"null", "live", "freed", "twice"}
      BY Zenon DEF Init
    <2> QED BY <2>1, <2>2, <2>3, <2>4, <2>5, <2>6, <2>7 DEF TypeOK
  <1>2. TypeOK /\ [Next]_vars => TypeOK'
    <2> SUFFICES ASSUME TypeOK, [Next]_vars PROVE TypeOK'
      OBVIOUS
    <2> USE ConstantsAssumption DEF TypeOK, procvars, hist, callvars, PCs, InUser, InMutex
    <2>1. ASSUME NEW p \in Tasks, CallAcquire(p) \/ CallRelease(p) PROVE TypeOK'
      BY <2>1 DEF CallAcquire, CallRelease
    <2>2. ASSUME NEW p \in Tasks, LockAcquire(p) PROVE TypeOK'
      BY <2>2 DEF LockAcquire
    <2>3. ASSUME NEW p \in Tasks, Pin(p) PROVE TypeOK'
      <3>1. saved' \in Seq(Entry) /\ lost' \subseteq Tasks
        BY <2>3, SaveType DEF Pin
      <3>2. mask' \in [Tasks -> SUBSET CPUs]
        <4>1. CASE UNCHANGED mask
          BY <4>1
        <4>2. CASE mask' = [mask EXCEPT ![p] = {reserved}]
          BY <2>3, <4>2 DEF Pin
        <4> QED BY <2>3, <4>1, <4>2 DEF Pin
      <3> QED BY <2>3, <3>1, <3>2 DEF Pin
    <2>4. ASSUME NEW p \in Tasks, NEW t \in todo, Scan(p, t) PROVE TypeOK'
      <3>1. t \in Tasks
        OBVIOUS
      <3>2. CASE MigrateOne(p, t) /\ UNCHANGED <<mask, saved, lost>>
        BY <2>4, <3>2 DEF Scan, MigrateOne
      <3>3. CASE MigrateOne(p, t) /\ save_task_affinity(t)
        <4>1. saved' \in Seq(Entry) /\ lost' \subseteq Tasks
          BY <3>1, <3>3, SaveType
        <4>2. mask' \in [Tasks -> SUBSET CPUs]
          BY <3>1, <3>3 DEF MigrateOne
        <4> QED BY <2>4, <3>3, <4>1, <4>2 DEF Scan, MigrateOne
      <3>4. CASE KillOne(p, t)
        BY <2>4, <3>4 DEF Scan, KillOne, Members
      <3> QED BY <2>4, <3>2, <3>3, <3>4 DEF Scan, MigrateOne
    <2>5. ASSUME NEW p \in Tasks, ScanEnd(p) PROVE TypeOK'
      BY <2>5 DEF ScanEnd
    <2>6. ASSUME NEW p \in Tasks, Boost(p) PROVE TypeOK'
      BY <2>6 DEF Boost
    <2>7. ASSUME NEW p \in Tasks, Done(p) PROVE TypeOK'
      BY <2>7 DEF Done
    <2>8. ASSUME NEW p \in Tasks, UndoEnd(p) \/ LockRelease(p) \/ ReleaseEnd(p)
          PROVE TypeOK'
      BY <2>8 DEF UndoEnd, LockRelease, ReleaseEnd
    <2>9. ASSUME NEW p \in Tasks, restore_saved_affinities(p) PROVE TypeOK'
      BY <2>9, ListPop DEF restore_saved_affinities, Entry
    <2>10. ASSUME NEW c \in Spawnable, ForkCopy(c) PROVE TypeOK'
      BY <2>10 DEF ForkCopy
    <2>11. ASSUME NEW c \in Spawnable, ForkLink(c) PROVE TypeOK'
      BY <2>11 DEF ForkLink, SeenByScan
    <2>12. ASSUME NEW t \in Tasks, Exit(t) \/ Abort(t) PROVE TypeOK'
      BY <2>12 DEF Exit, Abort, Members
    <2>13. CASE UNCHANGED vars
      BY <2>13 DEF vars
    <2> QED
      BY <2>1, <2>2, <2>3, <2>4, <2>5, <2>6, <2>7, <2>8, <2>9, <2>10, <2>11,
         <2>12, <2>13 DEF Next, Acquire, Release
  <1> QED BY <1>1, <1>2, PTL DEF Spec

(* evac_mutex serializes acquire_exclusive_cpu and release_exclusive_cpu.  *)
THEOREM MutexSerializes == Spec => []Serialized
  <1>1. Init => Serialized
    BY ConstantsAssumption DEF Init, Serialized, InMutex
  <1>2. TypeOK /\ Serialized /\ [Next]_vars => Serialized'
    <2> SUFFICES ASSUME TypeOK, Serialized, [Next]_vars PROVE Serialized'
      OBVIOUS
    <2> USE ConstantsAssumption
        DEF TypeOK, Serialized, procvars, hist, callvars, PCs, InUser, InMutex
    <2>1. ASSUME NEW p \in Tasks, CallAcquire(p) \/ CallRelease(p)
          PROVE Serialized'
      BY <2>1 DEF CallAcquire, CallRelease, AtUser
    <2>2. ASSUME NEW p \in Tasks, LockAcquire(p) \/ LockRelease(p)
          PROVE Serialized'
      BY <2>2 DEF LockAcquire, LockRelease
    <2>3. ASSUME NEW p \in Tasks, Pin(p) \/ Boost(p) PROVE Serialized'
      BY <2>3 DEF Pin, Boost
    <2>4. ASSUME NEW p \in Tasks, ScanEnd(p) PROVE Serialized'
      BY <2>4 DEF ScanEnd
    <2>5. ASSUME NEW p \in Tasks, NEW t \in todo, Scan(p, t) PROVE Serialized'
      BY <2>5 DEF Scan
    <2>6. ASSUME NEW p \in Tasks, Done(p) PROVE Serialized'
      BY <2>6 DEF Done
    <2>7. ASSUME NEW p \in Tasks, UndoEnd(p) \/ ReleaseEnd(p) PROVE Serialized'
      BY <2>7 DEF UndoEnd, ReleaseEnd
    <2>8. ASSUME NEW p \in Tasks, restore_saved_affinities(p) PROVE Serialized'
      BY <2>8 DEF restore_saved_affinities
    <2>9. ASSUME NEW c \in Spawnable, ForkCopy(c) \/ ForkLink(c)
          PROVE Serialized'
      BY <2>9 DEF ForkCopy, ForkLink
    <2>10. ASSUME NEW t \in Tasks, Exit(t) \/ Abort(t) PROVE Serialized'
      BY <2>10 DEF Exit, Abort, AtUser
    <2>11. CASE UNCHANGED vars
      BY <2>11 DEF vars
    <2> QED
      BY <2>1, <2>2, <2>3, <2>4, <2>5, <2>6, <2>7, <2>8, <2>9, <2>10, <2>11
      DEF Next, Acquire, Release
  <1> QED BY <1>1, <1>2, TypeCorrect, PTL DEF Spec
-----------------------------------------------------------------------------
(* The list keeps the original masks when an entry is put at its head ...  *)
LEMMA KeepsAdd ==
    ASSUME NEW s \in Seq(Entry), NEW e \in Entry, NEW u, NEW old, NEW new, NEW b,
           Keeps(s, u, old, b),
           IF e.task = u THEN e.mask = old ELSE new = old
    PROVE  Keeps(list_add(e, s), u, new, b)
  <1> DEFINE l == list_add(e, s)
  <1>1. /\ Len(s) \in Nat /\ Len(l) = Len(s) + 1 /\ l[1] = e
        /\ \A j \in 1..Len(s) : l[j+1] = s[j]
    BY ListAdd
  <1> HIDE DEF l
  <1>2. CASE Names(s, u)
    <2>1. PICK i \in 1..Len(s) :
            s[i].task = u /\ s[i].mask = b /\ \A j \in i+1..Len(s) : s[j].task # u
      BY <1>2 DEF Keeps, OldestMask
    <2>2. i+1 \in 1..Len(l) /\ l[i+1].task = u /\ l[i+1].mask = b
      BY <1>1, <2>1
    <2>3. ASSUME NEW j \in (i+1)+1..Len(l) PROVE l[j].task # u
      <3>1. j-1 \in i+1..Len(s) /\ j-1 \in 1..Len(s) /\ (j-1)+1 = j
        BY <1>1, <2>1
      <3> QED BY <1>1, <2>1, <3>1
    <2> QED BY <2>2, <2>3 DEF l, Keeps, Names, OldestMask
  <1>3. CASE ~Names(s, u) /\ e.task = u
    <2>1. old = b
      BY <1>3 DEF Keeps
    <2>2. 1 \in 1..Len(l) /\ l[1].task = u /\ l[1].mask = b
      BY <1>1, <1>3, <2>1
    <2>3. ASSUME NEW j \in 1+1..Len(l) PROVE l[j].task # u
      <3>1. j-1 \in 1..Len(s) /\ (j-1)+1 = j
        BY <1>1
      <3> QED BY <1>1, <1>3, <3>1 DEF Names
    <2> QED BY <2>2, <2>3 DEF l, Keeps, Names, OldestMask
  <1>4. CASE ~Names(s, u) /\ e.task # u
    <2>1. new = b
      BY <1>4 DEF Keeps
    <2>2. ASSUME NEW j \in 1..Len(l) PROVE l[j].task # u
      <3>1. j # 1 => j-1 \in 1..Len(s) /\ (j-1)+1 = j
        BY <1>1
      <3> QED BY <1>1, <1>4, <3>1 DEF Names
    <2> QED BY <2>1, <2>2 DEF l, Keeps, Names
  <1> QED BY <1>2, <1>3, <1>4

(* ... and when the head entry is applied and removed.                     *)
LEMMA KeepsPop ==
    ASSUME NEW s \in Seq(Entry), s # <<>>, NEW u, NEW old, NEW new, NEW b,
           Keeps(s, u, old, b),
           IF Head(s).task = u THEN new = Head(s).mask ELSE new = old
    PROVE  Keeps(Tail(s), u, new, b)
  <1> DEFINE l == Tail(s)
  <1>1. /\ Head(s) = s[1] /\ Len(s) \in Nat \ {0} /\ Len(l) = Len(s) - 1
        /\ \A j \in 1..Len(s)-1 : l[j] = s[j+1]
    BY ListPop
  <1> HIDE DEF l
  <1>2. CASE Names(s, u)
    <2>1. PICK i \in 1..Len(s) :
            s[i].task = u /\ s[i].mask = b /\ \A j \in i+1..Len(s) : s[j].task # u
      BY <1>2 DEF Keeps, OldestMask
    <2>2. CASE i = 1
      <3>1. new = b
        BY <1>1, <2>1, <2>2
      <3>2. ASSUME NEW j \in 1..Len(l) PROVE l[j].task # u
        BY <1>1, <2>1, <2>2
      <3> QED BY <3>1, <3>2 DEF l, Keeps, Names
    <2>3. CASE i # 1
      <3>1. i-1 \in 1..Len(l) /\ (i-1)+1 = i
        BY <1>1, <2>1, <2>3
      <3>2. l[i-1].task = u /\ l[i-1].mask = b
        BY <1>1, <2>1, <3>1
      <3>3. ASSUME NEW j \in (i-1)+1..Len(l) PROVE l[j].task # u
        BY <1>1, <2>1, <3>1
      <3> QED BY <3>1, <3>2, <3>3 DEF l, Keeps, Names, OldestMask
    <2> QED BY <2>2, <2>3
  <1>3. CASE ~Names(s, u)
    <2>1. new = b
      BY <1>1, <1>3 DEF Keeps, Names
    <2>2. ASSUME NEW j \in 1..Len(l) PROVE l[j].task # u
      BY <1>1, <1>3 DEF Names
    <2> QED BY <2>1, <2>2 DEF l, Keeps, Names
  <1> QED BY <1>2, <1>3
-----------------------------------------------------------------------------
(* Saving the mask of t, or failing to, and then changing it loses no      *)
(* other original, whatever the mask becomes.                              *)
LEMMA SaveKeeps ==
    ASSUME TypeOK, OriginalKept,
           NEW t \in Tasks, save_task_affinity(t),
           NEW m, mask' = [mask EXCEPT ![t] = m] \/ UNCHANGED mask,
           UNCHANGED <<alive, base>>
    PROVE  OriginalKept' /\ \A c \in Tasks \ {t} : Referenced(c)' => Referenced(c)
  <1>1. CASE lost' = lost \cup {t} /\ UNCHANGED saved
    <2>1. ASSUME NEW u \in alive \ lost' PROVE Keeps(saved', u, mask'[u], base'[u])
      <3>1. u \in Tasks \ {t} /\ Keeps(saved, u, mask[u], base[u])
        BY <1>1, <2>1 DEF TypeOK, OriginalKept
      <3>2. mask'[u] = mask[u]
        BY <3>1 DEF TypeOK
      <3> QED BY <1>1, <3>1, <3>2
    <2> QED BY <1>1, <2>1 DEF OriginalKept, Referenced
  <1>2. CASE saved' = list_add([task |-> t, mask |-> mask[t]], saved) /\ UNCHANGED lost
    <2> DEFINE e == [task |-> t, mask |-> mask[t]]
    <2>1. e \in Entry /\ e.task = t /\ e.mask = mask[t]
      BY DEF TypeOK, Entry
    <2>2. saved \in Seq(Entry) /\ saved' = list_add(e, saved)
      BY <1>2 DEF TypeOK
    <2> HIDE DEF e
    <2>3. ASSUME NEW u \in alive \ lost PROVE Keeps(saved', u, mask'[u], base'[u])
      <3>1. u \in Tasks /\ Keeps(saved, u, mask[u], base[u]) /\ base'[u] = base[u]
        BY DEF TypeOK, OriginalKept
      <3>2. u # t => mask'[u] = mask[u]
        BY <3>1 DEF TypeOK
      <3> QED BY <2>1, <2>2, <3>1, <3>2, KeepsAdd
    <2>4. ASSUME NEW c \in Tasks \ {t}, Referenced(c)' PROVE Referenced(c)
      <3>1. PICK i \in 1..Len(saved') : saved'[i].task = c
        BY <2>4 DEF Referenced, Names
      <3>2. /\ Len(saved) \in Nat /\ Len(saved') = Len(saved) + 1 /\ saved'[1] = e
            /\ \A j \in 1..Len(saved) : saved'[j+1] = saved[j]
        BY <2>1, <2>2, ListAdd
      <3>3. i # 1
        BY <2>1, <3>1, <3>2
      <3>4. i-1 \in 1..Len(saved) /\ (i-1)+1 = i
        BY <3>2, <3>3
      <3>5. saved[i-1].task = c
        BY <3>1, <3>2, <3>4
      <3> QED BY <3>4, <3>5 DEF Referenced, Names
    <2> QED BY <1>2, <2>3, <2>4 DEF OriginalKept
  <1> QED BY <1>1, <1>2 DEF save_task_affinity

(* The inductive invariant of the list: besides the original masks, that a *)
(* slot fork is filling is clean and that what calls work on is alive.     *)
LEMMA ListInvariant == Spec => [](OriginalKept /\ ForkClean /\ InsideAlive)
  <1> DEFINE IInv == OriginalKept /\ ForkClean /\ InsideAlive
  <1>1. Init => IInv
    BY DEF Init, OriginalKept, ForkClean, InsideAlive, Keeps, Names, InUser
  <1>2. TypeOK /\ IInv /\ [Next]_vars => IInv'
    <2> SUFFICES ASSUME TypeOK, OriginalKept, ForkClean, InsideAlive, [Next]_vars
                 PROVE  IInv'
      OBVIOUS
    <2> USE ConstantsAssumption
    <2>1. ASSUME UNCHANGED <<alive, forking, mask, base, lost, saved>>, InsideAlive'
          PROVE  IInv'
      BY <2>1 DEF OriginalKept, ForkClean, Referenced
    <2>2. ASSUME NEW p \in Tasks, CallAcquire(p) \/ CallRelease(p) PROVE IInv'
      BY <2>1, <2>2 DEF CallAcquire, CallRelease, AtUser, procvars, hist, callvars,
         InsideAlive, TypeOK
    <2>3. ASSUME NEW p \in Tasks, LockAcquire(p) \/ LockRelease(p) PROVE IInv'
      BY <2>1, <2>3 DEF LockAcquire, LockRelease, procvars, hist, callvars, InUser,
         InsideAlive, TypeOK
    <2>4. ASSUME NEW p \in Tasks, NEW t \in Tasks, t \in alive,
                 save_task_affinity(t),
                 NEW m, mask' = [mask EXCEPT ![t] = m] \/ UNCHANGED mask,
                 UNCHANGED <<alive, forking, base>>, InsideAlive'
          PROVE  IInv'
      <3>1. OriginalKept' /\ \A c \in Tasks \ {t} : Referenced(c)' => Referenced(c)
        BY <2>4, SaveKeeps
      <3>2. \A c \in forking : c \in Tasks \ {t} /\ mask'[c] = mask[c]
        BY <2>4 DEF ForkClean, TypeOK
      <3>3. ForkClean'
        BY <2>4, <3>1, <3>2 DEF ForkClean
      <3> QED BY <2>4, <3>1, <3>3
    <2>5. ASSUME NEW p \in Tasks, Pin(p) PROVE IInv'
      <3>1. InsideAlive' /\ p \in alive
        BY <2>5 DEF Pin, InsideAlive, InUser, procvars, TypeOK
      <3>2. CASE UNCHANGED <<mask, saved, lost>>
        BY <2>1, <2>5, <3>1, <3>2 DEF Pin, procvars
      <3>3. CASE save_task_affinity(p) /\ mask' = [mask EXCEPT ![p] = {reserved}]
        BY <2>4, <2>5, <3>1, <3>3 DEF Pin, procvars
      <3> QED BY <2>5, <3>2, <3>3 DEF Pin
    <2>6. ASSUME NEW p \in Tasks, NEW t \in todo, Scan(p, t) PROVE IInv'
      <3>1. InsideAlive' /\ t \in alive /\ t \in Tasks
        BY <2>6 DEF Scan, InsideAlive, TypeOK
      <3>2. UNCHANGED <<alive, forking, base>>
        BY <2>6 DEF Scan
      <3>3. CASE UNCHANGED <<mask, saved, lost>>
        BY <2>1, <3>1, <3>2, <3>3
      <3>4. CASE MigrateOne(p, t) /\ save_task_affinity(t)
        <4>1. mask' = [mask EXCEPT ![t] = mask[t] \ {reserved}] \/ UNCHANGED mask
          BY <3>4 DEF MigrateOne
        <4> QED BY <2>4, <3>1, <3>2, <3>4, <4>1
      <3> QED BY <2>6, <3>3, <3>4 DEF Scan, MigrateOne, KillOne
    <2>7. ASSUME NEW p \in Tasks, ScanEnd(p) \/ Boost(p) PROVE IInv'
      BY <2>1, <2>7 DEF ScanEnd, Boost, InsideAlive, procvars, hist, InUser, TypeOK
    <2>8. ASSUME NEW p \in Tasks, Done(p) PROVE IInv'
      BY <2>1, <2>8 DEF Done, InsideAlive, procvars, hist, InUser, TypeOK
    <2>9. ASSUME NEW p \in Tasks, UndoEnd(p) \/ ReleaseEnd(p) PROVE IInv'
      BY <2>1, <2>9 DEF UndoEnd, ReleaseEnd, InsideAlive, procvars, hist, callvars,
         InUser, TypeOK
    <2>10. ASSUME NEW p \in Tasks, restore_saved_affinities(p) PROVE IInv'
      <3>1. saved \in Seq(Entry) /\ saved # <<>> /\ saved' = Tail(saved)
        BY <2>10 DEF restore_saved_affinities, TypeOK
      <3>2. UNCHANGED <<alive, forking, base, lost, todo, pc>>
        BY <2>10 DEF restore_saved_affinities, procvars, hist, callvars
      <3>3. ASSUME NEW u \in alive \ lost PROVE Keeps(saved', u, mask'[u], base'[u])
        <4>1. u \in Tasks /\ Keeps(saved, u, mask[u], base[u]) /\ base'[u] = base[u]
          BY <3>2 DEF TypeOK, OriginalKept
        <4>2. IF Head(saved).task = u THEN mask'[u] = Head(saved).mask
              ELSE mask'[u] = mask[u]
          BY <2>10, <4>1 DEF restore_saved_affinities, TypeOK
        <4> QED BY <3>1, <4>1, <4>2, KeepsPop
      <3>4. ASSUME NEW c \in forking PROVE ~Referenced(c)' /\ mask'[c] = base'[c]
        <4>1. c \notin alive /\ c \in Tasks /\ ~Referenced(c) /\ mask[c] = base[c]
          BY DEF ForkClean, TypeOK
        <4>2. mask'[c] = mask[c]
          BY <2>10, <4>1 DEF restore_saved_affinities, TypeOK
        <4>3. ~Referenced(c)'
          BY <3>1, <4>1, ListPop DEF Referenced, Names
        <4> QED BY <3>2, <4>1, <4>2, <4>3
      <3> QED BY <3>2, <3>3, <3>4 DEF OriginalKept, ForkClean, InsideAlive
    <2>11. ASSUME NEW c \in Spawnable, ForkCopy(c) PROVE IInv'
      <3>1. /\ c \in Tasks /\ c \notin alive /\ c \notin forking /\ ~Referenced(c)
            /\ forking' = forking \cup {c} /\ lost' = lost \ {c}
            /\ UNCHANGED <<alive, saved, todo, pc>>
        BY <2>11 DEF ForkCopy, callvars
      <3>2. /\ mask'[c] = base'[c]
            /\ \A u \in Tasks \ {c} : mask'[u] = mask[u] /\ base'[u] = base[u]
        BY <2>11, <3>1 DEF ForkCopy, TypeOK
      <3>3. OriginalKept'
        BY <3>1, <3>2 DEF OriginalKept, TypeOK
      <3>4. ForkClean'
        BY <3>1, <3>2 DEF ForkClean, Referenced, TypeOK
      <3> QED BY <3>1, <3>3, <3>4 DEF InsideAlive
    <2>12. ASSUME NEW c \in Spawnable, ForkLink(c) PROVE IInv'
      <3>1. /\ c \in forking /\ forking' = forking \ {c}
            /\ UNCHANGED <<mask, base, lost, saved, pc>>
            /\ \/ UNCHANGED <<alive, todo>>
               \/ alive' = alive \cup {c} /\ todo' \subseteq todo \cup {c}
        BY <2>12 DEF ForkLink, SeenByScan, hist
      <3>2. Keeps(saved, c, mask[c], base[c])
        BY <3>1 DEF ForkClean, Keeps, Referenced
      <3>3. OriginalKept'
        BY <3>1, <3>2 DEF OriginalKept
      <3>4. ForkClean'
        BY <3>1 DEF ForkClean, Referenced
      <3> QED BY <3>1, <3>3, <3>4 DEF InsideAlive
    <2>13. ASSUME NEW t \in Tasks, Exit(t) \/ Abort(t) PROVE IInv'
      <3>1. /\ UNCHANGED <<forking, mask, base, lost, saved>> /\ alive' \subseteq alive
        BY <2>13 DEF Exit, Abort, hist
      <3>2. InsideAlive'
        BY <2>13 DEF Exit, Abort, InsideAlive, AtUser, InUser, callvars, TypeOK
      <3> QED BY <3>1, <3>2 DEF OriginalKept, ForkClean, Referenced
    <2>14. CASE UNCHANGED vars
      BY <2>1, <2>14 DEF vars, procvars, hist, callvars, InsideAlive
    <2> QED
      BY <2>2, <2>3, <2>5, <2>6, <2>7, <2>8, <2>9, <2>10, <2>11, <2>12, <2>13,
         <2>14 DEF Next, Acquire, Release
  <1> QED BY <1>1, <1>2, TypeCorrect, PTL DEF Spec

(* Whatever the calls, the owners, the forks and the exits, and whatever   *)
(* fails, the saved list holds or the task has its original mask: restoring *)
(* the list head to tail always gives back the original, to all tasks but  *)
(* those for which save_task_affinity itself failed.                       *)
THEOREM OriginalNeverLost == Spec => []OriginalKept
  BY ListInvariant, PTL
-----------------------------------------------------------------------------
(* What ReturnsClean needs: while its scan goes on, and until it returns   *)
(* success, the holder is pinned and can be found by a release; when it is *)
(* about to return success it has its priority too.                        *)
Pinned(p) == mask[p] = {reserved} /\ (Referenced(p) \/ p \in lost)
HolderPinned ==
    \A p \in Tasks : mutex = p =>
        /\ pc[p] \in {"scan", "boost"} => Pinned(p)
        /\ pc[p] = "done" /\ rc => Pinned(p) /\ p \in fifo

(* After save_task_affinity the entries that were there are there, and t   *)
(* has one or is marked.                                                   *)
LEMMA SaveRefers ==
    ASSUME TypeOK, NEW t \in Tasks, save_task_affinity(t)
    PROVE  /\ Referenced(t)' \/ t \in lost'
           /\ \A c \in Tasks : Referenced(c) \/ c \in lost => Referenced(c)' \/ c \in lost'
  <1>1. CASE saved' = list_add([task |-> t, mask |-> mask[t]], saved) /\ UNCHANGED lost
    <2> DEFINE e == [task |-> t, mask |-> mask[t]]
    <2>1. e \in Entry /\ e.task = t /\ saved \in Seq(Entry) /\ saved' = list_add(e, saved)
      BY <1>1 DEF TypeOK, Entry
    <2> HIDE DEF e
    <2>2. /\ Len(saved) \in Nat /\ Len(saved') = Len(saved) + 1 /\ saved'[1] = e
          /\ \A j \in 1..Len(saved) : saved'[j+1] = saved[j]
      BY <2>1, ListAdd
    <2>3. Referenced(t)'
      BY <2>1, <2>2 DEF Referenced, Names
    <2>4. ASSUME NEW c \in Tasks, Referenced(c) PROVE Referenced(c)'
      <3>1. PICK j \in 1..Len(saved) : saved[j].task = c
        BY <2>4 DEF Referenced, Names
      <3>2. j+1 \in 1..Len(saved') /\ saved'[j+1].task = c
        BY <2>2, <3>1
      <3> QED BY <3>2 DEF Referenced, Names
    <2> QED BY <1>1, <2>3, <2>4
  <1>2. CASE lost' = lost \cup {t} /\ UNCHANGED saved
    BY <1>2 DEF Referenced
  <1> QED BY <1>1, <1>2 DEF save_task_affinity

(* The caller of a running acquire stays pinned to the CPU it will be told *)
(* it owns, and on the list, whoever forks, exits or is moved.             *)
LEMMA PinnedInvariant == Spec => []HolderPinned
  <1>1. Init => HolderPinned
    BY ConstantsAssumption DEF Init, HolderPinned
  <1>2. TypeOK /\ Serialized /\ InsideAlive /\ HolderPinned /\ [Next]_vars => HolderPinned'
    <2> SUFFICES ASSUME TypeOK, Serialized, InsideAlive, HolderPinned, [Next]_vars
                 PROVE  HolderPinned'
      OBVIOUS
    <2> USE ConstantsAssumption DEF HolderPinned
    <2>1. ASSUME UNCHANGED <<mask, saved, reserved, lost, fifo, mutex, rc>>,
                 \A p \in Tasks : mutex = p => pc'[p] = pc[p]
          PROVE  HolderPinned'
      BY <2>1 DEF Pinned, Referenced
    <2>2. \A p \in Tasks : mutex = p => p \in alive /\ pc[p] \in InMutex
      BY DEF Serialized, InsideAlive, InMutex, InUser
    <2>3. ASSUME NEW p \in Tasks, CallAcquire(p) \/ CallRelease(p) PROVE HolderPinned'
      <3>1. \A q \in Tasks : mutex = q => pc'[q] = pc[q]
        BY <2>2, <2>3 DEF CallAcquire, CallRelease, AtUser, InUser, InMutex, TypeOK
      <3> QED BY <2>1, <2>3, <3>1 DEF CallAcquire, CallRelease, procvars, hist, callvars
    <2>4. ASSUME NEW p \in Tasks, LockAcquire(p) \/ LockRelease(p) PROVE HolderPinned'
      BY <2>4 DEF LockAcquire, LockRelease, TypeOK
    <2>5. ASSUME NEW p \in Tasks, Pin(p) PROVE HolderPinned'
      <3>1. CASE rc' = FALSE /\ pc' = [pc EXCEPT ![p] = "done"]
        BY <2>5, <3>1 DEF Pin, TypeOK
      <3>2. CASE /\ save_task_affinity(p) /\ mask' = [mask EXCEPT ![p] = {reserved}]
                 /\ pc' = [pc EXCEPT ![p] = "scan"]
        <4>1. mask'[p] = {reserved'} /\ pc'[p] = "scan" /\ mutex' = p
          BY <2>5, <3>2 DEF Pin, TypeOK
        <4>2. Referenced(p)' \/ p \in lost'
          BY <3>2, SaveRefers
        <4> QED BY <4>1, <4>2 DEF Pinned
      <3> QED BY <2>5, <3>1, <3>2 DEF Pin
    <2>6. ASSUME NEW p \in Tasks, NEW t \in todo, Scan(p, t) PROVE HolderPinned'
      <3>1. mutex' = p /\ mutex = p /\ pc[p] = "scan" /\ pc'[p] = "scan" /\ t \in Tasks
            /\ UNCHANGED reserved
        BY <2>6 DEF Scan, TypeOK
      <3>2. CASE UNCHANGED <<mask, saved, lost>>
        BY <3>1, <3>2 DEF Pinned, Referenced
      <3>3. CASE MigrateOne(p, t) /\ save_task_affinity(t)
        <4>1. CASE UNCHANGED <<mask, saved, lost>>
          BY <3>2, <4>1
        <4>2. CASE t # p
          <5>1. mask'[p] = mask[p]
            BY <3>1, <3>3, <4>2 DEF MigrateOne, TypeOK
          <5>2. Referenced(p)' \/ p \in lost'
            BY <3>1, <3>3, SaveRefers DEF Pinned
          <5> QED BY <3>1, <5>1, <5>2 DEF Pinned
        <4> QED BY <3>3, <4>1, <4>2 DEF MigrateOne, should_preserve_migrate
      <3> QED BY <2>6, <3>2, <3>3 DEF Scan, MigrateOne, KillOne
    <2>7. ASSUME NEW p \in Tasks, ScanEnd(p) PROVE HolderPinned'
      <3>1. /\ mutex' = p /\ mutex = p /\ pc[p] = "scan"
            /\ pc'[p] = "boost" \/ (pc'[p] = "done" /\ ~rc')
            /\ UNCHANGED <<mask, saved, lost, reserved>>
        BY <2>7 DEF ScanEnd, TypeOK, hist
      <3> QED BY <3>1 DEF Pinned, Referenced
    <2>8. ASSUME NEW p \in Tasks, Boost(p) PROVE HolderPinned'
      <3>1. /\ mutex' = p /\ mutex = p /\ pc[p] = "boost" /\ pc'[p] = "done"
            /\ p \in fifo' \/ ~rc'
            /\ UNCHANGED <<mask, saved, lost, reserved>>
        BY <2>8 DEF Boost, TypeOK, hist
      <3> QED BY <3>1 DEF Pinned, Referenced
    <2>9. ASSUME NEW p \in Tasks, Done(p) PROVE HolderPinned'
      BY <2>9 DEF Done, TypeOK
    <2>10. ASSUME NEW p \in Tasks, UndoEnd(p) \/ ReleaseEnd(p) PROVE HolderPinned'
      BY <2>10 DEF UndoEnd, ReleaseEnd, TypeOK
    <2>11. ASSUME NEW p \in Tasks, restore_saved_affinities(p) PROVE HolderPinned'
      <3>1. mutex' = p /\ pc'[p] \in {"undo", "rest"}
        BY <2>11 DEF restore_saved_affinities
      <3> QED BY <3>1
    <2>12. ASSUME NEW c \in Spawnable, ForkCopy(c) PROVE HolderPinned'
      <3>1. /\ c \in Tasks /\ c \notin alive
            /\ UNCHANGED <<saved, mutex, pc, reserved, rc>>
        BY <2>12 DEF ForkCopy, callvars
      <3>2. \A p \in Tasks \ {c} : /\ mask'[p] = mask[p]
                                   /\ p \in fifo => p \in fifo'
                                   /\ p \in lost => p \in lost'
        BY <2>12, <3>1 DEF ForkCopy, TypeOK
      <3> QED BY <2>2, <3>1, <3>2 DEF Pinned, Referenced
    <2>13. ASSUME NEW c \in Spawnable, ForkLink(c) PROVE HolderPinned'
      BY <2>1, <2>13 DEF ForkLink, hist
    <2>14. ASSUME NEW t \in Tasks, Exit(t) \/ Abort(t) PROVE HolderPinned'
      <3>1. \A q \in Tasks : mutex = q => pc'[q] = pc[q] /\ (q \in fifo => q \in fifo')
        BY <2>2, <2>14 DEF Exit, Abort, AtUser, InUser, InMutex, TypeOK
      <3>2. UNCHANGED <<mask, saved, reserved, lost, mutex, rc>>
        BY <2>14 DEF Exit, Abort, hist, callvars
      <3> QED BY <3>1, <3>2 DEF Pinned, Referenced
    <2>15. CASE UNCHANGED vars
      BY <2>1, <2>15 DEF vars, procvars, hist, callvars
    <2> QED
      BY <2>3, <2>4, <2>5, <2>6, <2>7, <2>8, <2>9, <2>10, <2>11, <2>12, <2>13,
         <2>14, <2>15 DEF Next, Acquire, Release
  <1> QED BY <1>1, <1>2, TypeCorrect, MutexSerializes, ListInvariant, PTL DEF Spec

(* What acquire_exclusive_cpu and release_exclusive_cpu promise when they  *)
(* return: success means pinned, boosted and listed, and a failure or a    *)
(* release leaves every living task with its original mask.                *)
THEOREM ReturnsAreClean == Spec => ReturnsClean
  <1>1. /\ TypeOK /\ Serialized /\ OriginalKept /\ HolderPinned /\ [Next]_vars
        => [\A p \in Tasks : mutex = p /\ mutex' = NoTask =>
              IF pc'[p] = "own"
              THEN mask'[p] = {reserved} /\ p \in fifo' /\ (Referenced(p)' \/ p \in lost')
              ELSE \A t \in alive' \ lost' : mask'[t] = base'[t]]_vars
    <2> SUFFICES ASSUME TypeOK, Serialized, OriginalKept, HolderPinned, Next,
                        NEW p \in Tasks, mutex = p, mutex' = NoTask
                 PROVE  IF pc'[p] = "own"
                        THEN mask'[p] = {reserved} /\ p \in fifo' /\ (Referenced(p)' \/ p \in lost')
                        ELSE \A t \in alive' \ lost' : mask'[t] = base'[t]
      OBVIOUS
    <2> USE ConstantsAssumption
    <2>1. PICK q \in Tasks : Done(q) \/ UndoEnd(q) \/ ReleaseEnd(q)
      <3>1. p # NoTask
        OBVIOUS
      <3> QED
        BY <3>1 DEF Next, Acquire, Release, CallAcquire, CallRelease, LockAcquire, Pin,
           Scan, ScanEnd, Boost, LockRelease, restore_saved_affinities, ForkCopy, ForkLink,
           Exit, Abort
    <2>2. q = p
      BY <2>1 DEF Done, UndoEnd, ReleaseEnd
    <2>3. CASE Done(p)
      <3>1. /\ pc[p] = "done" /\ rc
            /\ UNCHANGED <<mask, saved, lost, fifo>> /\ pc'[p] = "own"
        BY <2>3 DEF Done, procvars, hist, TypeOK
      <3> QED BY <3>1 DEF HolderPinned, Pinned, Referenced
    <2>4. CASE UndoEnd(p) \/ ReleaseEnd(p)
      <3>1. saved = <<>> /\ UNCHANGED <<alive, mask, base, lost>> /\ pc'[p] # "own"
        BY <2>4 DEF UndoEnd, ReleaseEnd, procvars, hist, TypeOK
      <3>2. \A t \in alive \ lost : ~Names(saved, t)
        BY <3>1 DEF Names
      <3> QED BY <3>1, <3>2 DEF OriginalKept, Keeps
    <2> QED BY <2>1, <2>2, <2>3, <2>4
  <1> QED
    BY <1>1, TypeCorrect, MutexSerializes, OriginalNeverLost, PinnedInvariant, PTL
    DEF Spec, ReturnsClean
-----------------------------------------------------------------------------
(* The walk of is_ancestor over real_parent stays within the lineage of    *)
(* the caller, by process, until it comes to init: a parent that has       *)
(* exited is replaced by a thread of its process or by init.               *)
LEMMA AncestorInLineage ==
    ASSUME NEW t \in Tasks, NEW p \in Tasks, alive \subseteq Tasks, is_ancestor(t, p)
    PROVE  t \in Lineage(p)
  <1> USE ConstantsAssumption
  <1> DEFINE K == Cardinality(Tasks)
             P(w) == IF w = InitTask THEN InitTask ELSE real_parent(w)
             Q(g) == Group[Creator[g]]
             Walk(h) == h = [n \in 0..K |-> IF n = 0 THEN p
                                ELSE IF h[n-1] = InitTask THEN InitTask
                                ELSE real_parent(h[n-1])]
             Up(h) == h = [n \in 0..K |-> IF n = 0 THEN Group[p]
                                ELSE Group[Creator[h[n-1]]]]
             walk == CHOOSE h : Walk(h)
             up == CHOOSE h : Up(h)
  <1>1. K \in Nat
    BY FS_CardinalityType
  <1> HIDE DEF K
  <1>2. \A w \in Tasks : real_parent(w) \in Tasks
    BY DEF real_parent, Members
  <1>3. Walk(walk)
    <2> DEFINE F == [w \in Tasks |-> P(w)]
    <2>1. F \in [Tasks -> Tasks]
      BY <1>2
    <2>2. PICK h : Orbit(h, Tasks, F, p, K)
      <3> HIDE DEF F
      <3> QED BY <1>1, <2>1, Iterates
    <2>3. ASSUME NEW n \in 0..K
          PROVE h[n] = IF n = 0 THEN p ELSE IF h[n-1] = InitTask THEN InitTask
                       ELSE real_parent(h[n-1])
      <3>1. n # 0 => n \in 1..K /\ n-1 \in 0..K
        BY <1>1
      <3> QED BY <2>2, <3>1 DEF Orbit
    <2>4. Walk(h)
      BY <2>2, <2>3 DEF Orbit
    <2> HIDE DEF Walk
    <2> QED BY <2>4
  <1>4. Up(up)
    <2> DEFINE F == [w \in Tasks |-> Q(w)]
    <2>1. F \in [Tasks -> Tasks] /\ Group[p] \in Tasks
      OBVIOUS
    <2>2. PICK h : Orbit(h, Tasks, F, Group[p], K)
      <3> HIDE DEF F
      <3> QED BY <1>1, <2>1, Iterates
    <2>3. ASSUME NEW n \in 0..K
          PROVE h[n] = IF n = 0 THEN Group[p] ELSE Group[Creator[h[n-1]]]
      <3>1. n # 0 => n \in 1..K /\ n-1 \in 0..K
        BY <1>1
      <3> QED BY <2>2, <3>1 DEF Orbit
    <2>4. Up(h)
      BY <2>2, <2>3 DEF Orbit
    <2> HIDE DEF Up
    <2> QED BY <2>4
  <1>5. t # InitTask /\ \E n \in DOMAIN walk : walk[n] = t
    BY Zenon DEF is_ancestor, K
  <1>6. Lineage(p) = {c \in Tasks : \E n \in DOMAIN up : up[n] = Group[c]}
    BY Zenon DEF Lineage, K
  <1> HIDE DEF walk, up
  <1>7. /\ DOMAIN walk = 0..K /\ DOMAIN up = 0..K
        /\ walk[0] = p /\ up[0] = Group[p]
    BY <1>1, <1>3, <1>4
  <1>8. ASSUME NEW n \in Nat, n + 1 \in 0..K
        PROVE  walk[n+1] = P(walk[n]) /\ up[n+1] = Q(up[n])
    <2>1. n + 1 # 0 /\ (n + 1) - 1 = n
      OBVIOUS
    <2>2. walk[n+1] = P(walk[n])
      BY ONLY <1>3, <1>8, <2>1
    <2>3. up[n+1] = Q(up[n])
      BY ONLY <1>4, <1>8, <2>1
    <2> QED BY <2>2, <2>3
  <1> HIDE DEF Walk, Up
  <1> DEFINE Along(n) == walk[n] \in Tasks /\ (walk[n] = InitTask \/ Group[walk[n]] = up[n])
             G == {n \in Nat : n \in 0..K => Along(n)}
  <1>9. 0 \in G
    BY <1>7
  <1>10. ASSUME NEW n \in Nat, n \in G PROVE n + 1 \in G
    <2> SUFFICES ASSUME n + 1 \in 0..K PROVE Along(n + 1)
      OBVIOUS
    <2>1. Along(n)
      BY <1>1, <1>10
    <2>2. walk[n+1] = P(walk[n]) /\ up[n+1] = Q(up[n])
      BY <1>8
    <2>3. CASE walk[n] = InitTask
      BY <2>2, <2>3
    <2>4. CASE walk[n] # InitTask /\ Group[walk[n]] = up[n]
      <3>1. walk[n+1] = real_parent(walk[n])
        BY <2>2, <2>4
      <3>2. \/ real_parent(walk[n]) = InitTask
            \/ Group[real_parent(walk[n])] = Group[Creator[Group[walk[n]]]]
        BY <2>1 DEF real_parent, Members
      <3> QED BY <1>2, <2>1, <2>2, <2>4, <3>1, <3>2
    <2> QED BY <2>1, <2>3, <2>4
  <1>11. Nat \subseteq G
    <2> HIDE DEF G
    <2> QED BY <1>9, <1>10, SetInduction
  <1>12. PICK n \in 0..K : walk[n] = t
    BY <1>5, <1>7
  <1>13. up[n] = Group[t]
    BY <1>1, <1>5, <1>11, <1>12
  <1> QED BY <1>6, <1>7, <1>13

(* The scan of migrateothers and killothers misses nobody: at each of its  *)
(* steps, whoever forks, exits or is orphaned meanwhile, a task that was   *)
(* on the list and is no longer to be visited has been dealt with, but for *)
(* threads that joined late.                                               *)
THEOREM ScanMissesNobody == Spec => []ScanCovers
  <1>1. Init => ScanCovers
    BY DEF Init, ScanCovers
  <1>2. TypeOK /\ Serialized /\ InsideAlive /\ ScanCovers /\ [Next]_vars => ScanCovers'
    <2> SUFFICES ASSUME TypeOK, Serialized, InsideAlive, ScanCovers, [Next]_vars
                 PROVE  ScanCovers'
      OBVIOUS
    <2> USE ConstantsAssumption
    <2> DEFINE Dealt(p, t) ==
                 \/ should_preserve_migrate(t, p)
                 \/ /\ Cardinality(CPUs) > 1
                    /\ reserved \in mask[t] => mask[t] = {reserved}
                 \/ /\ Cardinality(CPUs) = 1
                    /\ \/ t \in Lineage(p) \/ Session[t] = Session[p]
                       \/ t \in sigkill \/ (mode = 0 /\ mkcnt)
    <2>1. ASSUME NEW p \in Tasks, mutex = p, pc[p] = "scan",
                 NEW t \in alive \ (todo \cup LateThreads)
          PROVE  Dealt(p, t)
      BY <2>1 DEF ScanCovers
    <2>2. SUFFICES ASSUME NEW p \in Tasks, mutex' = p, pc'[p] = "scan",
                          NEW t \in alive' \ (todo' \cup LateThreads)
                   PROVE  Dealt(p, t)'
      BY DEF ScanCovers
    <2>3. Cardinality(CPUs) \in Nat \ {0}
      BY FS_CardinalityType, FS_EmptySet
    <2>4. ASSUME mutex = p, pc[p] = "scan", t \in alive \ (todo \cup LateThreads),
                 UNCHANGED <<reserved, mode>>, mask'[t] = mask[t],
                 t \in sigkill => t \in sigkill', mkcnt => mkcnt'
          PROVE  Dealt(p, t)'
      BY <2>1, <2>4 DEF should_preserve_migrate, Lineage
    <2>5. ASSUME NEW q \in Tasks, CallAcquire(q) \/ CallRelease(q) PROVE Dealt(p, t)'
      BY <2>2, <2>4, <2>5 DEF CallAcquire, CallRelease, procvars, hist, callvars, TypeOK
    <2>6. ASSUME NEW q \in Tasks,
                 \/ LockAcquire(q) \/ LockRelease(q) \/ ScanEnd(q) \/ Boost(q) \/ Done(q)
                 \/ UndoEnd(q) \/ ReleaseEnd(q) \/ restore_saved_affinities(q)
          PROVE  Dealt(p, t)'
      <3>1. (mutex' = q /\ pc'[q] # "scan") \/ mutex' = NoTask
        BY <2>6 DEF LockAcquire, LockRelease, ScanEnd, Boost, Done, UndoEnd, ReleaseEnd,
           restore_saved_affinities, TypeOK
      <3> QED BY <2>2, <3>1
    <2>7. ASSUME NEW q \in Tasks, Pin(q) PROVE Dealt(p, t)'
      <3>1. q = p /\ pc' # [pc EXCEPT ![p] = "done"]
        BY <2>2, <2>7 DEF Pin, TypeOK
      <3> QED BY <2>2, <2>7, <3>1 DEF Pin, procvars
    <2>8. ASSUME NEW q \in Tasks, NEW u \in todo, Scan(q, u) PROVE Dealt(p, t)'
      <3>1. /\ q = p /\ mutex = p /\ pc[p] = "scan" /\ todo' = todo \ {u} /\ u \in Tasks
            /\ UNCHANGED <<alive, reserved, mode>> /\ u \in alive
        BY <2>2, <2>8 DEF Scan, TypeOK, InsideAlive
      <3>2. CASE MigrateOne(p, u)
        <4>1. mkcnt' = mkcnt /\ sigkill' = sigkill
          BY <3>2 DEF MigrateOne
        <4>2. CASE t # u
          <5>1. mask'[t] = mask[t]
            BY <3>1, <3>2, <4>2 DEF MigrateOne, TypeOK
          <5> QED BY <2>2, <2>4, <3>1, <4>1, <4>2, <5>1
        <4>3. CASE t = u
          <5>1. Cardinality(CPUs) > 1
            BY <2>3, <3>2 DEF MigrateOne
          <5>2. should_preserve_migrate(t, p) \/ (reserved \in mask'[t] => mask'[t] = {reserved})
            BY <3>1, <3>2, <4>3 DEF MigrateOne, TypeOK
          <5> QED BY <3>1, <5>1, <5>2 DEF should_preserve_migrate
        <4> QED BY <4>2, <4>3
      <3>3. CASE KillOne(p, u)
        <4>1. (mkcnt => mkcnt') /\ sigkill \subseteq sigkill' /\ UNCHANGED mask
          BY <3>3 DEF KillOne
        <4>2. CASE t # u
          BY <2>2, <2>4, <3>1, <4>1, <4>2
        <4>3. CASE t = u
          <5>1. Cardinality(CPUs) = 1
            BY <3>3 DEF KillOne
          <5>2. CASE should_preserve_kill(t, p)
            <6>1. alive \subseteq Tasks
              BY DEF TypeOK
            <6> QED BY <3>1, <4>3, <5>1, <5>2, <6>1, AncestorInLineage
                    DEF should_preserve_kill, should_preserve_migrate, Lineage
          <5>3. CASE ~should_preserve_kill(t, p)
            <6>1. mkcnt' = TRUE /\ (mode > 0 => t \in sigkill')
              BY <3>1, <3>3, <4>3, <5>3 DEF KillOne, Members
            <6>2. mode = 0 \/ mode > 0
              BY DEF TypeOK
            <6> QED BY <3>1, <5>1, <6>1, <6>2
          <5> QED BY <5>2, <5>3
        <4> QED BY <4>2, <4>3
      <3> QED BY <2>8, <3>1, <3>2, <3>3 DEF Scan
    <2>9. ASSUME NEW c \in Spawnable, ForkCopy(c) PROVE Dealt(p, t)'
      <3>1. UNCHANGED <<alive, todo, mutex, pc, reserved, mode, mkcnt, sigkill>> /\ c \notin alive
        BY <2>9 DEF ForkCopy, callvars
      <3>2. mask'[t] = mask[t]
        BY <2>2, <2>9, <3>1 DEF ForkCopy, TypeOK
      <3> QED BY <2>2, <2>4, <3>1, <3>2
    <2>10. ASSUME NEW c \in Spawnable, ForkLink(c) PROVE Dealt(p, t)'
      <3>1. UNCHANGED <<mutex, pc, reserved, mode, mkcnt, sigkill, mask>>
        BY <2>10 DEF ForkLink
      <3>2. t = c => t \in LateThreads \/ t \in todo' \/ t \in alive
        BY <2>2, <2>10, <3>1 DEF ForkLink, SeenByScan, LateThreads
      <3>3. t \in alive \ (todo \cup LateThreads)
        BY <2>2, <2>10, <3>2 DEF ForkLink, SeenByScan
      <3> QED BY <2>2, <2>4, <3>1, <3>3
    <2>11. ASSUME NEW u \in Tasks, Exit(u) \/ Abort(u) PROVE Dealt(p, t)'
      <3>1. UNCHANGED <<mutex, reserved, mode, mkcnt, mask>>
        BY <2>11 DEF Exit, Abort, callvars
      <3>2. pc[p] = "scan" /\ t \in alive \ (todo \cup LateThreads) /\ (t \in sigkill => t \in sigkill')
        BY <2>2, <2>11 DEF Exit, Abort, callvars, TypeOK
      <3> QED BY <2>2, <2>4, <3>1, <3>2
    <2>12. CASE UNCHANGED vars
      BY <2>2, <2>4, <2>12 DEF vars, procvars, hist, callvars
    <2> QED
      BY <2>5, <2>6, <2>7, <2>8, <2>9, <2>10, <2>11, <2>12 DEF Next, Acquire, Release
  <1> QED BY <1>1, <1>2, TypeCorrect, MutexSerializes, ListInvariant, PTL DEF Spec
=============================================================================

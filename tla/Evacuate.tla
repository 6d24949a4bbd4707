------------------------------ MODULE Evacuate ------------------------------
(***************************************************************************)
(* examples/kcuttest/evacuate.kc: a task asks the kernel extension for     *)
(* exclusive use of the CPU it runs on (acquire_exclusive_cpu) and gives   *)
(* it back (release_exclusive_cpu).  Both run under one global mutex and   *)
(* work on one global list, saved_affinities, of the masks that were       *)
(* changed.  Scheduler, fork and exit are the environment: they go on      *)
(* while a task is inside the extension.                                   *)
(***************************************************************************)
EXTENDS Naturals, Sequences, FiniteSets

CONSTANTS
    Tasks,      \* slots for threads (struct task_struct)
    InitTask,   \* the task with pid 1
    KThreads,   \* tasks with PF_KTHREAD
    Callers,    \* tasks linked with the extension
    Spawnable,  \* slots that are free at first and filled by fork
    Creator,    \* Creator[t]: the task whose fork fills slot t
    Group,      \* Group[t]: the thread-group leader of t
    Session,    \* Session[t]: what task_session(t) returns
    CPUs,       \* the online CPUs
    Modes,      \* values of killifneeded: 0 migrate, 1 nicely, 2 all others
    Failing,    \* operations that may fail: "kmalloc", "cpumask", "setattr"
    MaxSaved,   \* bound: no call is made with more saved entries than this
    MaxLost,    \* bound: tasks for which kmalloc fails
    NoTask, NoCpu

ASSUME ConstantsAssumption ==
    /\ InitTask \in Tasks /\ KThreads \subseteq Tasks
    /\ Callers \subseteq Tasks \ (KThreads \cup {InitTask})
    /\ Spawnable \subseteq Tasks \ (KThreads \cup {InitTask})
    /\ Creator \in [Tasks -> Tasks] /\ Group \in [Tasks -> Tasks]
    /\ CPUs # {} /\ IsFiniteSet(CPUs) /\ IsFiniteSet(Tasks)
    /\ Modes \subseteq 0..2
    /\ MaxSaved \in Nat /\ MaxLost \in Nat
    /\ NoTask \notin Tasks /\ NoCpu \notin CPUs

VARIABLES
    alive,      \* tasks on the kernel's task list
    forking,    \* slots copied by fork and not yet on the task list
    mask,       \* cpus_mask of every task
    fifo,       \* tasks scheduled SCHED_FIFO 99
    sigkill,    \* tasks with a pending SIGKILL
    saved,      \* saved_affinities, head first
    mutex,      \* holder of evac_mutex
    pc,         \* where each task is in the extension
    own,        \* own[t]: the CPU t was last told it owns
    reserved,   \* reserved_cpu of the mutex holder
    mode,       \* killifneeded of the mutex holder
    todo,       \* tasks the holder's for_each_process has still to visit
    mkcnt,      \* whether the holder's mkcnt is positive
    rc,         \* whether the holder's rc is 0
    target,     \* the holder's target_mask: "null", "live", "freed", "twice"
    base,       \* history: the mask a task had when no one had changed it
    lost        \* history: tasks whose mask could not be saved

procvars == <<alive, forking, fifo, sigkill>>
callvars == <<reserved, mode, todo, mkcnt, rc, target>>
hist == <<base, lost>>
vars == <<procvars, mask, hist, saved, mutex, pc, own, callvars>>

Entry == [task: Tasks, mask: SUBSET CPUs]
InUser == {"user", "own", "failed"}
InMutex == {"pin", "scan", "boost", "done", "undo", "rest"}
PCs == InUser \cup {"acq", "rel"} \cup InMutex

(* Types of the task state, of saved_affinities and of the locals of the   *)
(* call that holds evac_mutex.                                             *)
TypeOK ==
    /\ alive \subseteq Tasks /\ forking \subseteq Spawnable /\ lost \subseteq Tasks
    /\ mask \in [Tasks -> SUBSET CPUs] /\ base \in [Tasks -> SUBSET CPUs]
    /\ fifo \subseteq Tasks /\ sigkill \subseteq Tasks
    /\ saved \in Seq(Entry)
    /\ mutex \in Tasks \cup {NoTask}
    /\ pc \in [Tasks -> PCs]
    /\ own \in [Tasks -> CPUs \cup {NoCpu}]
    /\ reserved \in CPUs /\ mode \in 0..2
    /\ todo \subseteq Tasks /\ mkcnt \in BOOLEAN /\ rc \in BOOLEAN
    /\ target \in {"null", "live", "freed", "twice"}

(* The system as it runs before any call: every task may use some CPUs. *)
Init ==
    /\ alive = Tasks \ Spawnable /\ forking = {}
    /\ mask \in [Tasks -> (SUBSET CPUs) \ {{}}]
    /\ \A t \in Spawnable \cup KThreads \cup {InitTask} : mask[t] = CPUs
    /\ base = mask /\ lost = {}
    /\ fifo = {} /\ sigkill = {} /\ saved = <<>> /\ mutex = NoTask
    /\ pc = [t \in Tasks |-> "user"]
    /\ own = [t \in Tasks |-> NoCpu]
    /\ reserved = (CHOOSE x \in CPUs : TRUE) /\ mode = 0 /\ todo = {}
    /\ mkcnt = FALSE /\ rc = TRUE /\ target = "null"
-----------------------------------------------------------------------------
(* The environment: fork and exit.  copy_process copies the mask and the   *)
(* policy first and puts the child on the task list at its end.            *)

Members(g) == {t \in alive : Group[t] = g}
Busy(t) == \E c \in forking : Creator[c] = t
AtUser(t) == t \in alive /\ pc[t] \in InUser /\ ~Busy(t)

(* get_task_struct/put_task_struct: a slot on the list is not reused. *)
Names(list, t) == \E i \in 1..Len(list) : list[i].task = t
Referenced(t) == Names(saved, t)

ForkCopy(c) ==
    LET p == Creator[c] IN
    /\ c \in Spawnable \ (alive \cup forking) /\ ~Referenced(c)
    /\ AtUser(p) /\ p \notin sigkill /\ pc[p] # "failed"
    /\ forking' = forking \cup {c}
    /\ mask' = [mask EXCEPT ![c] = mask[p]]
    /\ base' = [base EXCEPT ![c] = mask[p]] /\ lost' = lost \ {c}
    /\ fifo' = IF p \in fifo THEN fifo \cup {c} ELSE fifo \ {c}
    /\ UNCHANGED <<alive, sigkill, saved, mutex, pc, own, callvars>>

(* A new process goes to the tail of the list, so a scan under way meets   *)
(* it; a new thread goes to the tail of its process's list, which the scan *)
(* may have left behind.                                                   *)
SeenByScan(c) ==
    IF mutex = NoTask THEN {FALSE}
    ELSE IF pc[mutex] # "scan" THEN {FALSE}
    ELSE IF Group[c] = c \/ \E t \in todo : Group[t] = Group[c] THEN {TRUE}
    ELSE BOOLEAN

ForkLink(c) ==
    /\ c \in forking /\ forking' = forking \ {c}
    /\ \/ /\ Creator[c] \in sigkill
          /\ UNCHANGED <<alive, todo>>
       \/ /\ Creator[c] \notin sigkill
          /\ alive' = alive \cup {c}
          /\ \E b \in SeenByScan(c) : todo' = IF b THEN todo \cup {c} ELSE todo
    /\ UNCHANGED <<fifo, sigkill, mask, hist, saved, mutex, pc, own,
                   reserved, mode, mkcnt, rc, target>>

Exit(t) ==
    /\ AtUser(t) /\ t \notin KThreads \cup {InitTask}
    /\ pc[t] = "failed" => t \in sigkill
    /\ alive' = alive \ {t} /\ todo' = todo \ {t}
    /\ sigkill' = sigkill \ {t} /\ fifo' = fifo \ {t}
    /\ pc' = [pc EXCEPT ![t] = "user"] /\ own' = [own EXCEPT ![t] = NoCpu]
    /\ UNCHANGED <<forking, mask, hist, saved, mutex, reserved, mode, mkcnt,
                   rc, target>>

(* kcut_evacuate asserts rc == 0: a failed acquire aborts the process. *)
Abort(t) ==
    /\ AtUser(t) /\ pc[t] = "failed" /\ ~(Members(Group[t]) \subseteq sigkill)
    /\ sigkill' = sigkill \cup Members(Group[t])
    /\ UNCHANGED <<alive, forking, fifo, mask, hist, saved, mutex, pc, own,
                   callvars>>
-----------------------------------------------------------------------------
(* Whom the extension leaves alone. *)

(* A thread's real_parent is its process's; an orphan goes to init. *)
real_parent(t) ==
    LET q == Creator[Group[t]] IN
    IF q \in alive THEN q
    ELSE IF Members(Group[q]) # {} THEN CHOOSE r \in Members(Group[q]) : TRUE
    ELSE InitTask

is_ancestor(task, current) ==
    LET walk[n \in 0..Cardinality(Tasks)] ==
            IF n = 0 THEN current
            ELSE IF walk[n-1] = InitTask THEN InitTask
            ELSE real_parent(walk[n-1])
    IN task # InitTask /\ \E n \in DOMAIN walk : walk[n] = task

should_preserve_migrate(task, current) ==
    task = InitTask \/ task \in KThreads \/ task = current

should_preserve_kill(task, current) ==
    \/ should_preserve_migrate(task, current)
    \/ is_ancestor(task, current)
    \/ Session[task] = Session[current]
-----------------------------------------------------------------------------
(* The saved list: new entries go to the head. *)

list_add_tail(e, list) == Append(list, e)   \* mutant of list_add
list_add(e, list) == <<e>> \o list

(* Whether it succeeds is not looked at, and the mask is changed anyway. *)
save_task_affinity(t) ==
    \/ saved' = list_add([task |-> t, mask |-> mask[t]], saved) /\ UNCHANGED lost
    \/ /\ "kmalloc" \in Failing /\ Cardinality(lost) < MaxLost
       /\ lost' = lost \cup {t} /\ UNCHANGED saved

(* Mutant of the loop: the entry of a dead task stays on the list. *)
restore_living(p) ==
    /\ mutex = p /\ pc[p] \in {"undo", "rest"} /\ saved # <<>>
    /\ LET ta == Head(saved) IN
       /\ ta.task \in alive
       /\ mask' = [mask EXCEPT ![ta.task] = ta.mask]
    /\ saved' = Tail(saved)
    /\ UNCHANGED <<procvars, hist, mutex, pc, own, callvars>>

(* One turn of the loop: the head entry is applied and freed. *)
restore_saved_affinities(p) ==
    /\ mutex = p /\ pc[p] \in {"undo", "rest"} /\ saved # <<>>
    /\ LET ta == Head(saved) IN
       mask' = IF ta.task \in alive THEN [mask EXCEPT ![ta.task] = ta.mask]
               ELSE mask
    /\ saved' = Tail(saved)
    /\ UNCHANGED <<procvars, hist, mutex, pc, own, callvars>>
-----------------------------------------------------------------------------
(* acquire_exclusive_cpu *)

CallAcquire(p) ==
    /\ p \in Callers /\ AtUser(p) /\ pc[p] # "failed" /\ p \notin sigkill
    /\ Len(saved) <= MaxSaved
    /\ pc' = [pc EXCEPT ![p] = "acq"]
    /\ UNCHANGED <<procvars, mask, hist, saved, mutex, own, callvars>>

(* Mutant of LockAcquire: nr_cpu_ids passes for a CPU. *)
LockAcquireAnyCpu(p) ==
    /\ pc[p] = "acq" /\ mutex = NoTask
    /\ mutex' = p
    /\ reserved' \in 0..Cardinality(CPUs) /\ mode' \in Modes
    /\ rc' = TRUE /\ mkcnt' = FALSE /\ target' = "null"
    /\ pc' = [pc EXCEPT ![p] = "pin"]
    /\ UNCHANGED <<procvars, mask, hist, saved, own, todo>>

(* mutex_lock, and smp_processor_id, which replaces the CPU asked for. *)
LockAcquire(p) ==
    /\ pc[p] = "acq" /\ mutex = NoTask
    /\ mutex' = p
    /\ reserved' \in mask[p] /\ mode' \in Modes
    /\ rc' = TRUE /\ mkcnt' = FALSE /\ target' = "null"
    /\ pc' = [pc EXCEPT ![p] = "pin"]
    /\ UNCHANGED <<procvars, mask, hist, saved, own, todo>>

(* The two cpumask allocations, and the caller's own entry and pinning. *)
Pin(p) ==
    /\ mutex = p /\ pc[p] = "pin"
    /\ \/ /\ "cpumask" \in Failing
          /\ target' \in {"null", "freed"} /\ rc' = FALSE
          /\ pc' = [pc EXCEPT ![p] = "done"]
          /\ UNCHANGED <<mask, saved, lost, todo>>
       \/ /\ target' = "live" /\ save_task_affinity(p)
          /\ mask' = [mask EXCEPT ![p] = {reserved}]
          /\ todo' = alive
          /\ pc' = [pc EXCEPT ![p] = "scan"]
          /\ UNCHANGED rc
    /\ UNCHANGED <<procvars, base, mutex, own, reserved, mode, mkcnt>>

(* Mutants of MigrateOne: the wrong predicate, and no test for an empty    *)
(* target mask.                                                            *)
MigrateStrangers(p, t) ==
    /\ Cardinality(CPUs) # 1
    /\ UNCHANGED <<sigkill, mkcnt>>
    /\ IF should_preserve_kill(t, p) \/ reserved \notin mask[t]
       THEN UNCHANGED <<mask, saved, lost>>
       ELSE /\ save_task_affinity(t)
            /\ mask' = [mask EXCEPT ![t] = mask[t] \ {reserved}]

MigrateToNowhere(p, t) ==
    /\ Cardinality(CPUs) # 1
    /\ UNCHANGED <<sigkill, mkcnt>>
    /\ IF should_preserve_migrate(t, p) \/ reserved \notin mask[t]
       THEN UNCHANGED <<mask, saved, lost>>
       ELSE /\ save_task_affinity(t)
            /\ mask' = [mask EXCEPT ![t] = mask[t] \ {reserved}]

(* The body of migrateothers' loop for thread t. *)
MigrateOne(p, t) ==
    /\ Cardinality(CPUs) # 1
    /\ UNCHANGED <<sigkill, mkcnt>>
    /\ IF should_preserve_migrate(t, p) \/ reserved \notin mask[t]
       THEN UNCHANGED <<mask, saved, lost>>
       ELSE LET thread_target_mask == mask[t] \ {reserved} IN
            /\ save_task_affinity(t)
            /\ mask' = IF thread_target_mask = {} THEN mask
                       ELSE [mask EXCEPT ![t] = thread_target_mask]

(* Mutant of KillOne: only EVAC_KILL_ALLOTHERS sends the signal. *)
KillLate(p, t) ==
    /\ Cardinality(CPUs) = 1
    /\ UNCHANGED <<mask, saved, lost>>
    /\ IF mode < 2 /\ should_preserve_kill(t, p)
       THEN UNCHANGED <<sigkill, mkcnt>>
       ELSE /\ mkcnt' = TRUE
            /\ sigkill' = IF mode > 1 THEN sigkill \cup Members(Group[t])
                          ELSE sigkill

(* The body of killothers' loop for thread t: SIGKILL takes the process. *)
KillOne(p, t) ==
    /\ Cardinality(CPUs) = 1
    /\ UNCHANGED <<mask, saved, lost>>
    /\ IF mode < 2 /\ should_preserve_kill(t, p)
       THEN UNCHANGED <<sigkill, mkcnt>>
       ELSE /\ mkcnt' = TRUE
            /\ sigkill' = IF mode > 0 THEN sigkill \cup Members(Group[t])
                          ELSE sigkill

Scan(p, t) ==
    /\ mutex = p /\ pc[p] = "scan" /\ t \in todo
    /\ todo' = todo \ {t}
    /\ MigrateOne(p, t) \/ KillOne(p, t)
    /\ UNCHANGED <<alive, forking, fifo, base, mutex, pc, own, reserved, mode,
                   rc, target>>

ScanEnd(p) ==
    /\ mutex = p /\ pc[p] = "scan" /\ todo = {}
    /\ rc' = ~(Cardinality(CPUs) = 1 /\ mode = 0 /\ mkcnt)
    /\ pc' = [pc EXCEPT ![p] = IF rc' THEN "boost" ELSE "done"]
    /\ UNCHANGED <<procvars, mask, hist, saved, mutex, own, reserved, mode,
                   todo, mkcnt, target>>

(* Mutant of Boost: what sched_setattr returns is not looked at. *)
BoostBlind(p) ==
    /\ mutex = p /\ pc[p] = "boost"
    /\ \/ fifo' = fifo \cup {p}
       \/ "setattr" \in Failing /\ UNCHANGED fifo
    /\ pc' = [pc EXCEPT ![p] = "done"]
    /\ UNCHANGED <<alive, forking, sigkill, mask, hist, saved, mutex, own,
                   reserved, mode, todo, mkcnt, rc, target>>

Boost(p) ==
    /\ mutex = p /\ pc[p] = "boost"
    /\ \/ fifo' = fifo \cup {p} /\ UNCHANGED rc
       \/ "setattr" \in Failing /\ rc' = FALSE /\ UNCHANGED fifo
    /\ pc' = [pc EXCEPT ![p] = "done"]
    /\ UNCHANGED <<alive, forking, sigkill, mask, hist, saved, mutex, own,
                   reserved, mode, todo, mkcnt, target>>

(* Mutant of Done: a failed acquire returns without restoring the list. *)
DoneNoRestore(p) ==
    /\ mutex = p /\ pc[p] = "done"
    /\ target' = "null" /\ mutex' = NoTask
    /\ pc' = [pc EXCEPT ![p] = IF rc THEN "own" ELSE "failed"]
    /\ own' = [own EXCEPT ![p] = IF rc THEN reserved ELSE NoCpu]
    /\ UNCHANGED <<procvars, mask, hist, saved, reserved, mode, todo, mkcnt,
                   rc>>

(* The label done: free the masks, then return 0 or restore the list. *)
Done(p) ==
    /\ mutex = p /\ pc[p] = "done"
    /\ target' = CASE target = "live" -> "null"
                   [] target = "freed" -> "twice"
                   [] OTHER -> target
    /\ \/ /\ rc
          /\ mutex' = NoTask
          /\ pc' = [pc EXCEPT ![p] = "own"]
          /\ own' = [own EXCEPT ![p] = reserved]
       \/ /\ ~rc
          /\ pc' = [pc EXCEPT ![p] = "undo"]
          /\ UNCHANGED <<mutex, own>>
    /\ UNCHANGED <<procvars, mask, hist, saved, reserved, mode, todo, mkcnt,
                   rc>>

UndoEnd(p) ==
    /\ mutex = p /\ pc[p] = "undo" /\ saved = <<>>
    /\ mutex' = NoTask
    /\ pc' = [pc EXCEPT ![p] = "failed"]
    /\ own' = [own EXCEPT ![p] = NoCpu]
    /\ UNCHANGED <<procvars, mask, hist, saved, callvars>>
-----------------------------------------------------------------------------
(* release_exclusive_cpu; that the caller was not on the list is only      *)
(* logged.                                                                 *)

CallRelease(p) ==
    /\ p \in Callers /\ AtUser(p) /\ pc[p] # "failed" /\ p \notin sigkill
    /\ pc' = [pc EXCEPT ![p] = "rel"]
    /\ UNCHANGED <<procvars, mask, hist, saved, mutex, own, callvars>>

(* Mutant of LockRelease: no mutex_lock. *)
LockReleaseFree(p) ==
    /\ pc[p] = "rel"
    /\ mutex' = p
    /\ pc' = [pc EXCEPT ![p] = "rest"]
    /\ UNCHANGED <<procvars, mask, hist, saved, own, callvars>>

LockRelease(p) ==
    /\ pc[p] = "rel" /\ mutex = NoTask
    /\ mutex' = p
    /\ pc' = [pc EXCEPT ![p] = "rest"]
    /\ UNCHANGED <<procvars, mask, hist, saved, own, callvars>>

ReleaseEnd(p) ==
    /\ mutex = p /\ pc[p] = "rest" /\ saved = <<>>
    /\ fifo' = fifo \ {p}
    /\ mutex' = NoTask
    /\ pc' = [pc EXCEPT ![p] = "user"]
    /\ own' = [own EXCEPT ![p] = NoCpu]
    /\ UNCHANGED <<alive, forking, sigkill, mask, hist, saved, callvars>>
-----------------------------------------------------------------------------
Acquire(p) ==
    \/ LockAcquire(p) \/ Pin(p) \/ (\E t \in todo : Scan(p, t)) \/ ScanEnd(p)
    \/ Boost(p) \/ Done(p) \/ UndoEnd(p)

Release(p) == LockRelease(p) \/ restore_saved_affinities(p) \/ ReleaseEnd(p)

Next ==
    \/ \E p \in Tasks : CallAcquire(p) \/ CallRelease(p) \/ Acquire(p) \/ Release(p)
    \/ \E c \in Spawnable : ForkCopy(c) \/ ForkLink(c)
    \/ \E t \in Tasks : Exit(t) \/ Abort(t)

Spec == Init /\ [][Next]_vars

(* Kernel code that can go on goes on; a waiter of evac_mutex, which hands *)
(* itself over to its waiters in order, is not passed over for ever.  No   *)
(* call, fork or exit has to happen.                                       *)
FairSpec ==
    /\ Spec
    /\ \A p \in Callers :
         /\ SF_vars(LockAcquire(p)) /\ SF_vars(LockRelease(p))
         /\ WF_vars(mutex = p /\ (Acquire(p) \/ Release(p)))
    /\ \A c \in Spawnable : WF_vars(ForkLink(c))
-----------------------------------------------------------------------------
(* Properties *)

(* acquire and release are serialized by evac_mutex: a task is between     *)
(* lock and unlock exactly when it holds the mutex.                        *)
Serialized == \A p \in Tasks : pc[p] \in InMutex <=> mutex = p

(* Whatever calls were made, by however many owners and in whatever order, *)
(* the oldest entry of a task holds the mask it had before anyone touched  *)
(* it, and a task without an entry has that mask: restoring head to tail   *)
(* always ends with the original affinity, also for a task whose slot was  *)
(* used by a dead one before.  A save that fails costs that task its mask  *)
(* and no other.                                                           *)
OldestMask(list, t, m) ==
    \E i \in 1..Len(list) :
        /\ list[i].task = t /\ list[i].mask = m
        /\ \A j \in i+1..Len(list) : list[j].task # t

Keeps(list, t, now, original) ==
    IF Names(list, t) THEN OldestMask(list, t, original) ELSE now = original

OriginalKept == \A t \in alive \ lost : Keeps(saved, t, mask[t], base[t])

(* The loop invariant of migrateothers and killothers.  A visited task     *)
(* that is not preserved is off the reserved CPU unless it has no other    *)
(* one; on a single CPU it is marked for death or the acquire will fail.   *)
(* A thread that joined a process the scan had left is not visited, and a  *)
(* task of the caller's lineage may have been an ancestor when visited.    *)
LateThreads == {t \in Spawnable : Group[t] # t}

Lineage(p) ==
    LET up[n \in 0..Cardinality(Tasks)] ==
            IF n = 0 THEN Group[p] ELSE Group[Creator[up[n-1]]]
    IN {t \in Tasks : \E n \in DOMAIN up : up[n] = Group[t]}

ScanCovers ==
    \A p \in Tasks : mutex = p /\ pc[p] = "scan" =>
      \A t \in alive \ (todo \cup LateThreads) :
        \/ should_preserve_migrate(t, p)
        \/ /\ Cardinality(CPUs) > 1
           /\ reserved \in mask[t] => mask[t] = {reserved}
        \/ /\ Cardinality(CPUs) = 1
           /\ \/ t \in Lineage(p) \/ Session[t] = Session[p]
              \/ t \in sigkill \/ (mode = 0 /\ mkcnt)

(* What OriginalKept needs to be inductive: a slot that fork is filling    *)
(* has no entry and its own mask, a task inside the extension and a task   *)
(* to be visited is alive.                                                 *)
ForkClean == \A c \in forking : c \notin alive /\ ~Referenced(c) /\ mask[c] = base[c]
InsideAlive == todo \subseteq alive /\ \A p \in Tasks : pc[p] \notin InUser => p \in alive

(* What a return means.  Success: the caller is pinned to the reserved CPU *)
(* at real-time priority and is on the list, so that a release can find    *)
(* it.  Release, or failure: every living task has its original mask.      *)
(* Only a task whose save failed is excepted.                              *)
ReturnsClean ==
    [][\A p \in Tasks : mutex = p /\ mutex' = NoTask =>
          IF pc'[p] = "own"
          THEN mask'[p] = {reserved} /\ p \in fifo' /\ (Referenced(p)' \/ p \in lost')
          ELSE \A t \in alive' \ lost' : mask'[t] = base'[t]]_vars

(* A call of acquire or release that was made returns. *)
CallsReturn ==
    \A p \in Callers : pc[p] \in {"acq", "rel"} ~> pc[p] \in InUser

(* Once somebody asks for a release, every task on the list is restored.   *)
ReleaseRestores ==
    \A p \in Callers : pc[p] = "rel" ~> saved = <<>>
-----------------------------------------------------------------------------
(* What a comment of evacuate.kc says, and the code does not keep.         *)

(* "explicity add our selfs to the saved affinity list, means list should  *)
(* always at least have us on it": an owner that has not released is on    *)
(* the list.                                                               *)
OwnerListed == \A p \in alive : pc[p] = "own" => Referenced(p)
=============================================================================

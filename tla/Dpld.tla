-------------------------------- MODULE Dpld --------------------------------
(***************************************************************************)
(* examples/tools/src/dpld.c, the resolver kcc links into a program: it    *)
(* loads the kernel modules the program carries, gives them the program's  *)
(* table of callbacks and looks up each extension symbol in the kernel.    *)
(* Several processes, of one program or of several, do so at once; a       *)
(* process may end and be started again, and someone may call rmmod, as    *)
(* the scripts of the examples do.  The kernel knows a module by its name, *)
(* which kcc makes "ext" unless it is told otherwise.  All of it runs      *)
(* before main, in one thread.                                             *)
(***************************************************************************)
EXTENDS Integers, Sequences, FiniteSets, Functions

CONSTANTS
    Procs, Modules,
    Name,        \* Name[m]: what the kernel calls module m
    Binary,      \* Binary[p]: the modules p carries, in the order of modules.h
    Exports,     \* Exports[m]: the symbols kallsyms has for module m
    KernelNames, \* the symbols of vmlinux
    Wanted,      \* Wanted[p]: the extension symbols of p, in order
    Callbacks,   \* processes built with entries in app_got
    MaxFaults,   \* bound: failures of the kernel, and calls of rmmod
    NoProc, Dead, Vmlinux, NotFound, Freed

ASSUME ProgramsAssumption ==
    /\ Binary \in [Procs -> Seq(Modules)] /\ Wanted \in [Procs -> Seq(STRING)]
    /\ \A p \in Procs : Wanted[p] # <<>>
    /\ Callbacks \subseteq Procs /\ MaxFaults \in Nat /\ "set_app_got" \notin KernelNames
    /\ NoProc \notin Procs /\ Dead \notin Procs \cup {NoProc}
    /\ {Vmlinux, NotFound, Freed} \cap Modules = {} /\ Freed \notin {Vmlinux, NotFound}
    /\ Vmlinux # NotFound

VARIABLES
    pc,             \* where each process is
    n,              \* its next module, or its next symbol
    ret,            \* what load_ext_module has summed up
    set_app_got,    \* the module whose set_app_got was found
    addr,           \* where its symbols were found
    since,          \* what others have done since it was started
    list,           \* the kernel's module list, newest first
    live,           \* modules whose initialisation is over
    app_got,        \* app_got[m]: the process whose table m holds
    faults

local == <<n, ret, set_app_got, addr>>
kernel == <<list, live, app_got>>
vars == <<pc, local, since, kernel, faults>>

(* The kernel looks at its own symbols first, then at the modules, the     *)
(* newest first; a module that is still being initialised is among them.   *)
kallsyms_lookup_name(name) ==
    LET has == {i \in 1..Len(list) : name \in Exports[list[i]]}
    IN IF name \in KernelNames THEN Vmlinux
       ELSE IF has = {} THEN NotFound
       ELSE list[CHOOSE i \in has : \A j \in has : i <= j]

Init ==
    /\ pc = [p \in Procs |-> "idle"] /\ n = [p \in Procs |-> 1]
    /\ ret = [p \in Procs |-> 0] /\ since = [p \in Procs |-> {}]
    /\ set_app_got = [p \in Procs |-> NotFound] /\ addr = [p \in Procs |-> <<>>]
    /\ list = <<>> /\ live = {}
    /\ app_got = [m \in Modules |-> NoProc] /\ faults = 0

Fault == faults < MaxFaults /\ faults' = faults + 1
Goto(p, l) == pc' = [pc EXCEPT ![p] = l]

Carried(p) == Range(Binary[p])
Mod(p) == Binary[p][n[p]]
Names(p) == {Name[m] : m \in Carried(p)}

(* For the properties: what happens around the processes ps. *)
Note(ps, what) ==
    since' = [q \in Procs |->
                IF q \in ps /\ pc[q] # "idle" THEN since[q] \cup {what} ELSE since[q]]

(* kcc writes set_app_got into every module it makes. *)
Foreign(p, m) == "set_app_got" \in Exports[m] /\ Name[m] \notin Names(p)
-----------------------------------------------------------------------------
(* execve: a fresh image; its resolvers run before main. *)
Start(p) ==
    /\ pc[p] = "idle" /\ Goto(p, "start")
    /\ since' = [since EXCEPT ![p] =
                   IF \E m \in Range(list) : Foreign(p, m) THEN {"foreign"} ELSE {}]
    /\ UNCHANGED <<local, kernel, faults>>

(* exit, or the end of the program: its image is gone, its table stays     *)
(* where it is.                                                            *)
Leave(p) ==
    /\ Goto(p, "idle") /\ n' = [n EXCEPT ![p] = 1] /\ ret' = [ret EXCEPT ![p] = 0]
    /\ set_app_got' = [set_app_got EXCEPT ![p] = NotFound]
    /\ addr' = [addr EXCEPT ![p] = <<>>] /\ since' = [since EXCEPT ![p] = {}]
    /\ app_got' = [m \in Modules |-> IF app_got[m] = p THEN Dead ELSE app_got[m]]

Quit(p) == pc[p] = "run" /\ Leave(p) /\ UNCHANGED <<list, live, faults>>
-----------------------------------------------------------------------------
(* The kernel's module loader. *)

(* The modules on the list that have the name of the one p loads. *)
Same(p) == {m \in Range(list) : Name[m] = Name[Mod(p)]}

(* The module list without m: every address in it dangles. *)
list_del(m) ==
    LET at == CHOOSE i \in 1..Len(list) : list[i] = m
    IN [i \in 1..(Len(list) - 1) |-> IF i < at THEN list[i] ELSE list[i + 1]]
free_module(m) ==
    /\ list' = list_del(m)
    /\ set_app_got' = [q \in Procs |-> IF set_app_got[q] = m THEN Freed ELSE set_app_got[q]]
    /\ addr' = [q \in Procs |->
                  [i \in 1..Len(addr[q]) |-> IF addr[q][i] = m THEN Freed ELSE addr[q][i]]]
    /\ app_got' = [app_got EXCEPT ![m] = NoProc]

(* rmmod of a module that is initialised: nothing in the kernel counts the *)
(* processes that use it.                                                  *)
rmmod(m) ==
    /\ m \in live /\ Fault
    /\ live' = live \ {m} /\ free_module(m)
    /\ Note({q \in Procs : Name[m] \in Names(q)}, "unload")
    /\ UNCHANGED <<pc, n, ret>>
-----------------------------------------------------------------------------
(* load_ext_module: LOAD_ALL_MODULES goes on after a failure. *)

(* The symbols of the kernel that are needed later; it is an assertion     *)
(* that they are there.                                                    *)
force_symres_now(p) ==
    /\ pc[p] = "start"
    /\ \/ Goto(p, "load") /\ UNCHANGED <<local, since, app_got, faults>>
       \/ Fault /\ Leave(p)
    /\ UNCHANGED <<list, live>>

Returned(p, r) ==
    /\ ret' = [ret EXCEPT ![p] = @ + r] /\ n' = [n EXCEPT ![p] = @ + 1]
    /\ Goto(p, "load")

(* Mutant of init_module: a module that is being loaded is EEXIST too. *)
init_moduleEager(p) ==
    /\ pc[p] = "load" /\ n[p] <= Len(Binary[p])
    /\ \/ /\ Same(p) # {} /\ Returned(p, 0)
          /\ UNCHANGED <<list, since, faults>>
       \/ /\ Same(p) = {} /\ Goto(p, "init")
          /\ list' = <<Mod(p)>> \o list
          /\ Note({q \in Procs : Foreign(q, Mod(p))}, "foreign")
          /\ UNCHANGED <<n, ret, faults>>
       \/ Fault /\ Returned(p, -1) /\ UNCHANGED <<list, since>>
    /\ UNCHANGED <<set_app_got, addr, live, app_got>>

(* The system call: one module of that name that is live is EEXIST, which  *)
(* counts as success, one that is being loaded is waited for; otherwise    *)
(* the module goes on the list, with data of its own, and is initialised.  *)
init_module(p) ==
    /\ pc[p] = "load" /\ n[p] <= Len(Binary[p])
    /\ \/ /\ Same(p) # {} /\ Same(p) \subseteq live /\ Returned(p, 0)
          /\ UNCHANGED <<list, since, faults>>
       \/ /\ ~(Same(p) \subseteq live) /\ Goto(p, "wait")
          /\ UNCHANGED <<n, ret, list, since, faults>>
       \/ /\ Same(p) = {} /\ Goto(p, "init")
          /\ list' = <<Mod(p)>> \o list
          /\ Note({q \in Procs : Foreign(q, Mod(p))}, "foreign")
          /\ UNCHANGED <<n, ret, faults>>
       \/ Fault /\ Returned(p, -1) /\ UNCHANGED <<list, since>>  \* any other error
    /\ UNCHANGED <<set_app_got, addr, live, app_got>>

(* Mutant of Waited: the loader waits for the module to go. *)
WaitedForEver(p) ==
    /\ pc[p] = "wait" /\ Same(p) = {} /\ Returned(p, -1)
    /\ UNCHANGED <<set_app_got, addr, since, kernel, faults>>

(* The other's load is over: EEXIST if it went well, or else EBUSY. *)
Waited(p) ==
    /\ pc[p] = "wait" /\ Same(p) \subseteq live
    /\ Returned(p, IF Same(p) # {} THEN 0 ELSE -1)
    /\ UNCHANGED <<set_app_got, addr, since, kernel, faults>>

(* Mutant of ModuleInit: a module that failed stays on the list. *)
ModuleInitStays(p) ==
    /\ pc[p] = "init"
    /\ \/ /\ live' = live \cup {Mod(p)} /\ Returned(p, 0)
          /\ UNCHANGED <<list, set_app_got, addr, app_got, faults>>
       \/ Fault /\ Returned(p, -1) /\ UNCHANGED <<live, list, set_app_got, addr, app_got>>
    /\ UNCHANGED since

(* ext_init in the kernel. *)
ModuleInit(p) ==
    /\ pc[p] = "init"
    /\ \/ /\ live' = live \cup {Mod(p)} /\ Returned(p, 0)
          /\ UNCHANGED <<list, set_app_got, addr, app_got, faults>>
       \/ Fault /\ Returned(p, -1) /\ free_module(Mod(p)) /\ UNCHANGED live
    /\ UNCHANGED since

(* Mutant of Loaded: only the last module counts. *)
LoadedLast(p) ==
    /\ pc[p] = "load" /\ n[p] > Len(Binary[p])
    /\ IF Binary[p][Len(Binary[p])] \notin live THEN Leave(p)
       ELSE /\ Goto(p, IF p \in Callbacks THEN "got" ELSE "lookup")
            /\ n' = [n EXCEPT ![p] = 1]
            /\ UNCHANGED <<ret, set_app_got, addr, since, app_got>>
    /\ UNCHANGED <<list, live, faults>>

Loaded(p) ==
    /\ pc[p] = "load" /\ n[p] > Len(Binary[p])
    /\ IF ret[p] # 0 THEN Leave(p)
       ELSE /\ Goto(p, IF p \in Callbacks THEN "got" ELSE "lookup")
            /\ n' = [n EXCEPT ![p] = 1]
            /\ UNCHANGED <<ret, set_app_got, addr, since, app_got>>
    /\ UNCHANGED <<list, live, faults>>
-----------------------------------------------------------------------------
(* app_got_init, in kernel mode: find set_app_got, get memory for the      *)
(* table, fill it and hand it over.  The memory is never given back.       *)

FindSetAppGot(p) ==
    LET m == kallsyms_lookup_name("set_app_got") IN
    /\ pc[p] = "got"
    /\ \/ m = NotFound /\ Leave(p) /\ UNCHANGED faults        \* rc -1
       \/ m # NotFound /\ Fault /\ Leave(p)                   \* rc -2
       \/ /\ m # NotFound /\ Goto(p, "set")
          /\ set_app_got' = [set_app_got EXCEPT ![p] = m]
          /\ UNCHANGED <<n, ret, addr, since, app_got, faults>>
    /\ UNCHANGED <<list, live>>

(* Mutant of SetAppGot: the table is filled and not handed over. *)
SetAppGotFilled(p) ==
    /\ pc[p] = "set" /\ Goto(p, "lookup")
    /\ UNCHANGED <<local, since, kernel, faults>>

(* The module that was found may have failed to load, or been unloaded,    *)
(* meanwhile.  The call then is one into memory that was given back: the   *)
(* process dies of it, or goes on and no module has the table.             *)
SetAppGot(p) ==
    /\ pc[p] = "set"
    /\ \/ /\ set_app_got[p] # Freed /\ Goto(p, "lookup")
          /\ app_got' = [app_got EXCEPT ![set_app_got[p]] = p]
          /\ Note(Procs \ {p}, "table") /\ UNCHANGED local
       \/ /\ set_app_got[p] = Freed /\ Goto(p, "lookup")
          /\ UNCHANGED <<local, since, app_got>>
       \/ set_app_got[p] = Freed /\ Leave(p)
    /\ UNCHANGED <<list, live, faults>>
-----------------------------------------------------------------------------
(* dpld_resolver for the next symbol; one that is not found ends the       *)
(* program.                                                                *)
Resolve(p) ==
    LET a == kallsyms_lookup_name(Wanted[p][n[p]]) IN
    /\ pc[p] = "lookup"
    /\ \/ a = NotFound /\ Leave(p)
       \/ /\ a # NotFound /\ addr' = [addr EXCEPT ![p] = Append(@, a)]
          /\ n' = [n EXCEPT ![p] = @ + 1]
          /\ Goto(p, IF n[p] = Len(Wanted[p]) THEN "run" ELSE "lookup")
          /\ UNCHANGED <<ret, set_app_got, since, app_got>>
    /\ UNCHANGED <<list, live, faults>>
-----------------------------------------------------------------------------
dpld_resolver(p) ==
    \/ force_symres_now(p) \/ init_module(p) \/ Waited(p) \/ ModuleInit(p) \/ Loaded(p)
    \/ FindSetAppGot(p) \/ SetAppGot(p) \/ Resolve(p)

Next ==
    \/ \E p \in Procs : Start(p) \/ dpld_resolver(p) \/ Quit(p)
    \/ \E m \in Modules : rmmod(m)

(* A process that can go on goes on; none has to be started or to end, and *)
(* nobody has to unload a module.                                          *)
Spec == Init /\ [][Next]_vars /\ \A p \in Procs : WF_vars(dpld_resolver(p))
-----------------------------------------------------------------------------
(* Properties *)

(* Types of the processes' and the kernel's state: a name is on the list   *)
(* once, and a module there that is not live is being loaded by someone.   *)
TypeOK ==
    /\ pc \in [Procs -> {"idle", "start", "load", "wait", "init", "got", "set", "lookup", "run"}]
    /\ \A p \in Procs : n[p] \in 1..(1 + Len(Binary[p]) + Len(Wanted[p]))
    /\ set_app_got \in [Procs -> Modules \cup {NotFound, Freed}]
    /\ app_got \in [Modules -> Procs \cup {NoProc, Dead}]
    /\ live \subseteq Range(list) /\ Range(list) \subseteq Modules
    /\ \A i, j \in 1..Len(list) : Name[list[i]] = Name[list[j]] => i = j
    /\ \A m \in Range(list) \ live : \E p \in Procs : pc[p] = "init" /\ Mod(p) = m

(* A process that goes on after loading has for each of its modules one of *)
(* that name initialised, its own or another program's, whoever loaded it  *)
(* and whatever failed in between, unless it was unloaded since.           *)
Past(p) == pc[p] \in {"got", "set", "lookup", "run"}
Ready ==
    \A p \in Procs : Past(p) /\ "unload" \notin since[p] =>
        \A m \in Carried(p) : \E k \in live : Name[k] = Name[m]

(* m is after k on the list. *)
Newer(k, m) == \E i, j \in 1..Len(list) : i < j /\ list[i] = k /\ list[j] = m

(* A program with callbacks that uses its extension has given its table to *)
(* one of its modules, the newest, and that module still has it; or, if    *)
(* others gave theirs since, has the table of one of them, which may have  *)
(* ended.  This is as long as no other program's module is there and       *)
(* nobody unloads one of its own, also when modules fail to load and       *)
(* processes of this program end and start again.  Its other modules never *)
(* get the table.                                                          *)
OwnTable ==
    \A p \in Callbacks : pc[p] \in {"lookup", "run"} /\ since[p] \subseteq {"table"} =>
        LET m == set_app_got[p] IN
        /\ m \in live /\ Name[m] \in Names(p)
        /\ IF since[p] = {} THEN app_got[m] = p ELSE app_got[m] # NoProc
        /\ \A k \in Range(list) : "set_app_got" \in Exports[k] => ~Newer(k, m)
        /\ \A k \in Modules \ {m} : app_got[k] # p

(* An address that was resolved stays good while other processes load      *)
(* modules, fail to and end: it dangles only if a module of the program    *)
(* was unloaded, or if the symbol is also one of a module that has another *)
(* name than the program's, which may go away again.                       *)
Backed ==
    \A p \in Procs : \A i \in 1..Len(addr[p]) :
        addr[p][i] = Freed =>
            \/ "unload" \in since[p]
            \/ \E m \in Modules : Wanted[p][i] \in Exports[m] /\ Name[m] \notin Names(p)

(* A program that was started reaches main or exits, also when the module  *)
(* it waits for fails to load for another.                                 *)
Settles == \A p \in Procs : pc[p] = "start" ~> pc[p] \in {"run", "idle"}
=============================================================================

----------------------------- MODULE IdtAdaptor -----------------------------
(***************************************************************************)
(* examples/kcuttest: the adaptors that put handlers of an extension       *)
(* module in front of the kernel's.  idtadaptor.kc clones, activates and   *)
(* releases interrupt descriptor tables, pfadaptor.kc patches the gates    *)
(* of #PF, #DF and #GP, efadaptor.kc moves every gate that has no stack of *)
(* its own to IST7.  Every extension is a module with its own copy of the  *)
(* statics; the CPUs, their IDTRs and TSSs are shared, and no lock is held.*)
(***************************************************************************)
EXTENDS Naturals, FiniteSets

CONSTANTS
    Mods,       \* loaded extension modules
    Callers,    \* tasks that call an adaptor
    Mod,        \* Mod[u]: the module whose adaptors u calls
    CPUs,
    Pages,      \* page frames for descriptor tables
    Vecs,       \* interrupt vectors, numbers
    PfVecs,     \* those pf_adaptor_init patches: #DF, #GP, #PF
    EfVecs,     \* those ef_adaptor_init is given: #PF and the timer, or all
    IstVecs,    \* those the kernel itself runs on an IST stack
    ErrVecs,    \* those for which the CPU pushes an error code
    DF, PF,     \* the vectors of a double fault and of a page fault
    Serial,     \* TRUE: calls do not overlap
    Failing,    \* allocations that may fail: "page", "stack"
    MaxCalls,   \* bound on the number of calls
    BootIdt,    \* the kernel's own table
    NoPage

ASSUME ConstantsAssumption ==
    /\ Vecs \subseteq Nat /\ PfVecs \subseteq Vecs /\ EfVecs \subseteq Vecs
    /\ IstVecs \subseteq Vecs /\ IsFiniteSet(Mods)
    /\ ErrVecs \subseteq Vecs /\ {DF, PF} \subseteq ErrVecs /\ DF \in IstVecs
    /\ Serial \in BOOLEAN
    /\ Mod \in [Callers -> Mods] /\ MaxCalls \in Nat /\ CPUs # {}
    /\ BootIdt \notin Pages /\ NoPage \notin Pages \cup {BootIdt}

VARIABLES
    table,      \* table[p]: the gates in page p (or in the boot table)
    used,       \* pages allocated
    idtr,       \* the table each CPU uses
    ist,        \* ist[c]: tss.ist[IST_INDEX_EF] is set on CPU c
    orig_idt, current_idt,     \* statics of each module
    orig_isrs,  \* ef_adaptor_orig_isrs of each module
    df_handler_location,       \* a static of each module, too
    pc,         \* where the call of each caller is
    kind,       \* "pf" or "ef"
    idt,        \* local idt of the call
    dirty, ok,  \* local dirty # 0, and rc >= 0 (pf: no goto error)
    left,       \* CPUs that on_each_cpu has still to reach
    calls,      \* number of calls made
    doublefree, \* a page was freed that was free
    dangled     \* a page was cloned that was free

cpuvars == <<idtr, ist>>
callvars == <<kind, dirty, ok>>
seedvars == <<df_handler_location, dangled>>
vars == <<table, used, cpuvars, orig_idt, current_idt, orig_isrs,
          pc, idt, callvars, left, calls, doublefree, seedvars>>

(* Handlers: the kernel's, the pf and ef adaptors' for a vector; "none"    *)
(* is address 0, "junk" any other word.                                    *)
Kernel(v) == <<"kernel", v>>
Fix(m, v) == <<"fix", m, v>>
Isr(m, v) == <<"isr", m, v>>
None == <<"none">>
Junk == <<"junk">>
Handlers ==
    {None, Junk} \cup {Kernel(v) : v \in Vecs}
           \cup {Fix(m, v) : m \in Mods, v \in Vecs}
           \cup {Isr(m, v) : m \in Mods, v \in Vecs}

(* The IST field of a gate: 0, one of the kernel's, or IST_INDEX_EF + 1. *)
Gate == [hdlr: Handlers, ist: {"0", "kernel", "ef"}]
JunkTables == [Vecs -> [hdlr: {Junk}, ist: {"0", "kernel", "ef"}]]
BootGate(v) == [hdlr |-> Kernel(v), ist |-> IF v \in IstVecs THEN "kernel" ELSE "0"]
Tables == Pages \cup {BootIdt}
PCs == {"idle", "setup", "clone", "patch", "load", "free", "current",
        "release", "clean", "oops"}

(* Types of the tables, the statics and the calls. *)
TypeOK ==
    /\ table \in [Tables -> [Vecs -> Gate]] /\ used \subseteq Pages
    /\ idtr \in [CPUs -> Tables] /\ ist \in [CPUs -> BOOLEAN]
    /\ orig_idt \in [Mods -> Tables \cup {NoPage}]
    /\ current_idt \in [Mods -> Pages \cup {NoPage}]
    /\ orig_isrs \in [Mods -> [Vecs -> Handlers]]
    /\ df_handler_location \in [Mods -> Handlers]
    /\ pc \in [Callers -> PCs] /\ kind \in [Callers -> {"pf", "ef"}]
    /\ idt \in [Callers -> Pages \cup {NoPage}]
    /\ dirty \in [Callers -> BOOLEAN] /\ ok \in [Callers -> BOOLEAN]
    /\ left \in [Callers -> SUBSET CPUs]
    /\ calls \in 0..MaxCalls /\ doublefree \in BOOLEAN /\ dangled \in BOOLEAN

Init ==
    /\ table = [p \in Tables |-> [v \in Vecs |-> BootGate(v)]]
    /\ used = {} /\ idtr = [c \in CPUs |-> BootIdt]
    /\ ist = [c \in CPUs |-> FALSE]
    /\ orig_idt = [m \in Mods |-> NoPage] /\ current_idt = [m \in Mods |-> NoPage]
    /\ orig_isrs = [m \in Mods |-> [v \in Vecs |-> None]]
    /\ df_handler_location = [m \in Mods |-> None]
    /\ pc = [u \in Callers |-> "idle"] /\ kind = [u \in Callers |-> "pf"]
    /\ idt = [u \in Callers |-> NoPage]
    /\ dirty = [u \in Callers |-> FALSE] /\ ok = [u \in Callers |-> TRUE]
    /\ left = [u \in Callers |-> {}] /\ calls = 0 /\ doublefree = FALSE
    /\ dangled = FALSE

Goto(u, l) == pc' = [pc EXCEPT ![u] = l]
Free(p) == used' = used \ {p} /\ doublefree' = (doublefree \/ p \notin used)
-----------------------------------------------------------------------------
(* A user calls pf_adaptor_init, or the module's extension_init is run on  *)
(* CPU c: it remembers the handler of double faults of that CPU's table,   *)
(* then calls ef_adaptor_init.                                             *)
Call(u, c, k) ==
    /\ pc[u] = "idle" /\ calls < MaxCalls
    /\ Serial => \A n \in Callers : pc[n] \in {"idle", "oops"}
    /\ calls' = calls + 1
    /\ kind' = [kind EXCEPT ![u] = k]
    /\ dirty' = [dirty EXCEPT ![u] = FALSE] /\ ok' = [ok EXCEPT ![u] = TRUE]
    /\ idt' = [idt EXCEPT ![u] = NoPage]
    /\ Goto(u, IF k = "ef" THEN "setup" ELSE "clone")
    /\ left' = [left EXCEPT ![u] = IF k = "ef" THEN CPUs ELSE {}]
    /\ df_handler_location' = [df_handler_location EXCEPT ![Mod[u]] =
                                  IF k = "ef" THEN table[idtr[c]][DF].hdlr ELSE @]
    /\ UNCHANGED <<table, used, cpuvars, orig_idt, current_idt, orig_isrs,
                   doublefree, dangled>>

(* ef_adaptor_setup_tss on CPU c. *)
ef_adaptor_setup_tss(u, c) ==
    /\ pc[u] = "setup" /\ c \in left[u]
    /\ left' = [left EXCEPT ![u] = @ \ {c}]
    /\ \/ ist' = [ist EXCEPT ![c] = TRUE] /\ UNCHANGED ok
       \/ /\ ~ist[c] /\ "stack" \in Failing
          /\ ok' = [ok EXCEPT ![u] = FALSE] /\ UNCHANGED ist
    /\ UNCHANGED <<table, used, idtr, orig_idt, current_idt, orig_isrs, pc,
                   idt, kind, dirty, calls, doublefree, seedvars>>

(* Mutant of SetupEnd: the CPUs' shared rc is not looked at. *)
SetupEndBlind(u) ==
    /\ pc[u] = "setup" /\ left[u] = {}
    /\ Goto(u, "clone")
    /\ UNCHANGED <<table, used, cpuvars, orig_idt, current_idt, orig_isrs, idt,
                   callvars, left, calls, doublefree, seedvars>>

SetupEnd(u) ==
    /\ pc[u] = "setup" /\ left[u] = {}
    /\ Goto(u, IF ok[u] THEN "clone" ELSE "clean")
    /\ left' = [left EXCEPT ![u] = IF ok[u] THEN {} ELSE CPUs]
    /\ UNCHANGED <<table, used, cpuvars, orig_idt, current_idt, orig_isrs, idt,
                   callvars, calls, doublefree, seedvars>>

(* Mutant of idt_adaptor_clone: always seeded with the table found first. *)
CloneOrig(u, c, p) ==
    LET src == IF orig_idt[Mod[u]] # NoPage THEN orig_idt[Mod[u]] ELSE idtr[c] IN
    /\ pc[u] = "clone" /\ p \in Pages \ used
    /\ used' = used \cup {p}
    /\ orig_idt' = [orig_idt EXCEPT ![Mod[u]] = src]
    /\ table' = [table EXCEPT ![p] = table[src]]
    /\ idt' = [idt EXCEPT ![u] = p]
    /\ Goto(u, "patch")
    /\ UNCHANGED <<cpuvars, current_idt, orig_isrs, callvars, left, calls,
                   doublefree, seedvars>>

(* Mutant of idt_adaptor_clone: the seed is cached as the current table. *)
CloneCaches(u, c, p) ==
    LET src == IF current_idt[Mod[u]] # NoPage THEN current_idt[Mod[u]] ELSE idtr[c] IN
    /\ pc[u] = "clone" /\ p \in Pages \ used
    /\ used' = used \cup {p}
    /\ current_idt' = [current_idt EXCEPT ![Mod[u]] = src]
    /\ table' = [table EXCEPT ![p] = table[src]]
    /\ idt' = [idt EXCEPT ![u] = p]
    /\ Goto(u, "patch")
    /\ UNCHANGED <<cpuvars, orig_idt, orig_isrs, callvars, left, calls,
                   doublefree, seedvars>>

(* idt_adaptor_clone, run on CPU c.  Neither caller tests the result: the  *)
(* first read_gate of a table that was not allocated is a kernel oops.     *)
(* orig_idt may be the page of another module that has given it back since:*)
(* the clone then holds what is in that memory, the old gates or anything. *)
CloneSource(u, c) ==
    IF current_idt[Mod[u]] # NoPage THEN current_idt[Mod[u]]
    ELSE IF orig_idt[Mod[u]] # NoPage THEN orig_idt[Mod[u]] ELSE idtr[c]

Contents(t) ==
    {table[t]} \cup IF t \in used \cup {BootIdt} THEN {} ELSE JunkTables

idt_adaptor_clone(u, c, p) ==
    LET src == CloneSource(u, c) IN
    /\ pc[u] = "clone" /\ p \in Pages \ used
    /\ used' = used \cup {p}
    /\ orig_idt' = IF current_idt[Mod[u]] # NoPage THEN orig_idt
                   ELSE [orig_idt EXCEPT ![Mod[u]] = src]
    /\ \E gates \in Contents(src) : table' = [table EXCEPT ![p] = gates]
    /\ dangled' = (dangled \/ src \notin used \cup {BootIdt})
    /\ idt' = [idt EXCEPT ![u] = p]
    /\ Goto(u, "patch")
    /\ UNCHANGED <<cpuvars, current_idt, orig_isrs, df_handler_location, callvars,
                   left, calls, doublefree>>

CloneFails(u) ==
    /\ pc[u] = "clone" /\ "page" \in Failing
    /\ Goto(u, "oops")
    /\ UNCHANGED <<table, used, cpuvars, orig_idt, current_idt, orig_isrs, idt,
                   callvars, left, calls, doublefree, seedvars>>
-----------------------------------------------------------------------------
(* pf_adaptor_init: a gate with the kernel's handler gets ours, one with   *)
(* ours stays, any other is an error.                                      *)
PatchPf(u) ==
    LET gates == table[idt[u]]
        clean == {v \in PfVecs : gates[v].hdlr = Kernel(v)}
        alien == {v \in PfVecs \ clean : gates[v].hdlr # Fix(Mod[u], v)}
    IN
    /\ pc[u] = "patch" /\ kind[u] = "pf"
    /\ table' = [table EXCEPT ![idt[u]] = [v \in Vecs |->
                    IF v \in clean THEN [gates[v] EXCEPT !.hdlr = Fix(Mod[u], v)]
                    ELSE gates[v]]]
    /\ dirty' = [dirty EXCEPT ![u] = clean # {}]
    /\ ok' = [ok EXCEPT ![u] = alien = {}]
    /\ IF clean # {} /\ alien = {}
       THEN Goto(u, "load") /\ left' = [left EXCEPT ![u] = CPUs]
       ELSE Goto(u, "release") /\ UNCHANGED left
    /\ UNCHANGED <<used, cpuvars, orig_idt, current_idt, orig_isrs, idt, kind,
                   calls, doublefree, seedvars>>

(* process_vec leaves a gate alone that has a stack of its own. *)
Skips(gate) == gate.ist # "0"

(* The handler it records, read before the gate is changed; the mutant     *)
(* reads it after.                                                         *)
RecordedLate(u, v, gate) == Isr(Mod[u], v)
Recorded(u, v, gate) == gate.hdlr

(* ef_adaptor_init: process_vec on its vectors in order, up to the first  *)
(* whose recorded handler differs.                                         *)
PatchEf(u) ==
    LET gates == table[idt[u]]
        mine == {v \in EfVecs : ~Skips(gates[v])}
        hdlr(v) == Recorded(u, v, gates[v])
        bad == {v \in mine : orig_isrs[Mod[u]][v] \notin {None, hdlr(v)}}
        done == {v \in mine : \A w \in bad : v < w}
    IN
    /\ pc[u] = "patch" /\ kind[u] = "ef"
    /\ orig_isrs' = [orig_isrs EXCEPT ![Mod[u]] = [v \in Vecs |->
                        IF v \in done THEN hdlr(v) ELSE @[v]]]
    /\ table' = [table EXCEPT ![idt[u]] = [v \in Vecs |->
                    IF v \in done THEN [hdlr |-> Isr(Mod[u], v), ist |-> "ef"]
                    ELSE gates[v]]]
    /\ dirty' = [dirty EXCEPT ![u] = done # {}]
    /\ ok' = [ok EXCEPT ![u] = bad = {}]
    /\ IF bad # {} THEN Goto(u, "clean") /\ left' = [left EXCEPT ![u] = CPUs]
       ELSE IF done # {} THEN Goto(u, "load") /\ left' = [left EXCEPT ![u] = CPUs]
       ELSE Goto(u, "release") /\ UNCHANGED left
    /\ UNCHANGED <<used, cpuvars, orig_idt, current_idt, idt, kind, calls,
                   doublefree, seedvars>>
-----------------------------------------------------------------------------
(* Mutant of load_idt_wrapper: only the first CPU is reached. *)
LoadHere(u, c) ==
    /\ pc[u] = "load" /\ c \in left[u]
    /\ idtr' = [idtr EXCEPT ![c] = idt[u]]
    /\ left' = [left EXCEPT ![u] = {}]
    /\ Goto(u, "free")
    /\ UNCHANGED <<table, used, ist, orig_idt, current_idt, orig_isrs, idt,
                   callvars, calls, doublefree, seedvars>>

(* idt_adaptor_activate: load_idt_wrapper on every CPU, then free the old  *)
(* table, then remember the new one.                                       *)
load_idt_wrapper(u, c) ==
    /\ pc[u] = "load" /\ c \in left[u]
    /\ idtr' = [idtr EXCEPT ![c] = idt[u]]
    /\ left' = [left EXCEPT ![u] = @ \ {c}]
    /\ Goto(u, IF left[u] = {c} THEN "free" ELSE "load")
    /\ UNCHANGED <<table, used, ist, orig_idt, current_idt, orig_isrs, idt,
                   callvars, calls, doublefree, seedvars>>

FreeOld(u) ==
    /\ pc[u] = "free"
    /\ IF current_idt[Mod[u]] # NoPage THEN Free(current_idt[Mod[u]])
       ELSE UNCHANGED <<used, doublefree>>
    /\ Goto(u, "current")
    /\ UNCHANGED <<table, cpuvars, orig_idt, current_idt, orig_isrs, idt,
                   callvars, left, calls, seedvars>>

(* Mutant of SetCurrent: the pointer is not cached. *)
SetNothing(u) ==
    /\ pc[u] = "current" /\ Goto(u, "idle")
    /\ UNCHANGED <<table, used, cpuvars, orig_idt, current_idt, orig_isrs, idt,
                   callvars, left, calls, doublefree, seedvars>>

SetCurrent(u) ==
    /\ pc[u] = "current"
    /\ current_idt' = [current_idt EXCEPT ![Mod[u]] = idt[u]]
    /\ Goto(u, "idle")
    /\ UNCHANGED <<table, used, cpuvars, orig_idt, orig_isrs, idt, callvars,
                   left, calls, doublefree, seedvars>>

idt_adaptor_release(u) ==
    /\ pc[u] = "release"
    /\ Free(idt[u])
    /\ Goto(u, "idle")
    /\ UNCHANGED <<table, cpuvars, orig_idt, current_idt, orig_isrs, idt,
                   callvars, left, calls, seedvars>>

(* ef_adaptor_cleanup_tss on CPU c: the entry is zeroed before its value   *)
(* is used to free the stack, so the stack stays allocated.                *)
ef_adaptor_cleanup_tss(u, c) ==
    /\ pc[u] = "clean" /\ c \in left[u]
    /\ left' = [left EXCEPT ![u] = @ \ {c}]
    /\ ist' = [ist EXCEPT ![c] = FALSE]
    /\ UNCHANGED <<table, used, idtr, orig_idt, current_idt, orig_isrs, pc, idt,
                   callvars, calls, doublefree, seedvars>>

CleanEnd(u) ==
    /\ pc[u] = "clean" /\ left[u] = {}
    /\ Goto(u, IF idt[u] = NoPage THEN "idle" ELSE "release")
    /\ UNCHANGED <<table, used, cpuvars, orig_idt, current_idt, orig_isrs, idt,
                   callvars, left, calls, doublefree, seedvars>>
-----------------------------------------------------------------------------
Next ==
    \E u \in Callers :
        \/ \E c \in CPUs : \/ \E k \in {"pf", "ef"} : Call(u, c, k)
                           \/ ef_adaptor_setup_tss(u, c) \/ load_idt_wrapper(u, c)
                           \/ ef_adaptor_cleanup_tss(u, c)
                           \/ \E p \in Pages : idt_adaptor_clone(u, c, p)
        \/ SetupEnd(u) \/ CloneFails(u) \/ PatchPf(u) \/ PatchEf(u)
        \/ FreeOld(u) \/ SetCurrent(u) \/ idt_adaptor_release(u) \/ CleanEnd(u)

Spec == Init /\ [][Next]_vars
-----------------------------------------------------------------------------
(* Properties *)

(* No CPU takes an exception through a page that was given back, or that   *)
(* another call is still filling in.                                       *)
IdtrLive ==
    \A c \in CPUs :
        /\ idtr[c] \in used \cup {BootIdt}
        /\ \A u \in Callers : pc[u] \in {"patch", "release", "clean"} => idtr[c] # idt[u]

(* A gate that a CPU can take on IST7 finds a stack there on that CPU, as  *)
(* long as no table was seeded with memory that had been given back.       *)
IstBacked ==
    ~dangled => \A c \in CPUs :
        (\E v \in Vecs : table[idtr[c]][v].ist = "ef") => ist[c]

(* Where a handler may pass control.  The pf adaptors jump to the kernel's *)
(* handler, that of double faults to the one of page faults if the task is *)
(* elevated; the ef adaptors return to the handler they recorded or, when  *)
(* an exception with an error code hit the guard page of the kernel stack, *)
(* jump to df_handler_location.                                            *)
Targets(h) ==
    CASE h[1] = "fix" -> {Kernel(h[3])} \cup (IF h[3] = DF THEN {Kernel(PF)} ELSE {})
      [] h[1] = "isr" -> {orig_isrs[h[2]][h[3]]} \cup
                         (IF h[3] \in ErrVecs THEN {df_handler_location[h[2]]} ELSE {})
      [] OTHER -> {h}

(* Every exception on every CPU ends in a handler of the kernel, through   *)
(* at most one adaptor of each kind and module, as long as no table was    *)
(* seeded with memory that had been given back: a vector without an error  *)
(* code in its own handler, one with an error code in its own or in that   *)
(* of double or page faults, and its own is always one of them.            *)
Ends(v) == {Kernel(v)} \cup IF v \in ErrVecs THEN {Kernel(DF), Kernel(PF)} ELSE {}
Settles(h, v) ==
    LET K == 2 * Cardinality(Mods)
        after[n \in 0..K] ==
            IF n = 0 THEN {h} ELSE UNION {Targets(g) : g \in after[n-1]}
    IN Kernel(v) \in after[K] /\ after[K] \subseteq Ends(v)

ChainEnds ==
    ~dangled => \A c \in CPUs : \A v \in Vecs : Settles(table[idtr[c]][v].hdlr, v)

(* When no call is under way every CPU uses the same table, and the module *)
(* that activated last knows it; no page was freed twice or forgotten.     *)
Settled ==
    (\A u \in Callers : pc[u] = "idle") =>
        /\ \A c, d \in CPUs : idtr[c] = idtr[d]
        /\ ~doublefree
        /\ used = {current_idt[m] : m \in Mods} \ {NoPage}
        /\ Cardinality(Mods) = 1 => \A c \in CPUs, m \in Mods :
              idtr[c] = IF current_idt[m] = NoPage THEN BootIdt ELSE current_idt[m]

(* An adaptor that a CPU runs is never taken out again, as long as no      *)
(* table was seeded with memory that had been given back: no later call of *)
(* either adaptor, by any module and failed ones included, gives a vector  *)
(* back to the kernel's handler.                                           *)
Adapted(c, v) == table[idtr[c]][v].hdlr # Kernel(v)
AdaptorsStay ==
    [][~dangled' => \A c \in CPUs : \A v \in Vecs :
            Adapted(c, v) => Adapted(c, v)']_vars
=============================================================================

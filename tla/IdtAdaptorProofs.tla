-------------------------- MODULE IdtAdaptorProofs --------------------------
(***************************************************************************)
(* Proofs about IdtAdaptor, for any modules, callers, CPUs, pages, vectors *)
(* and failures.  What holds however calls overlap comes first, then what  *)
(* needs them not to.                                                      *)
(***************************************************************************)
EXTENDS IdtAdaptor, TLAPS, FiniteSetTheorems, Induction

(* A call that works on a table has one. *)
Holding == {"patch", "load", "free", "current", "release"}
TypeInv == TypeOK /\ \A u \in Callers : pc[u] \in Holding => idt[u] \in Pages

(* The handlers of the kernel and of the adaptors are told apart. *)
LEMMA HandlersDiffer ==
    ASSUME NEW m, NEW k, NEW v, NEW w
    PROVE  /\ Kernel(v) # Fix(m, w) /\ Kernel(v) # Isr(m, w) /\ Fix(m, v) # Isr(k, w)
           /\ None # Kernel(v) /\ None # Fix(m, v) /\ None # Isr(m, v)
  <1>1. /\ Kernel(v)[1] = "kernel" /\ None[1] = "none"
        /\ \A x, y : Fix(x, y)[1] = "fix" /\ Isr(x, y)[1] = "isr"
    BY DEF Kernel, Fix, Isr, None
  <1> QED BY <1>1

(* What the names of handlers name are handlers. *)
LEMMA HandlerTypes ==
    ASSUME NEW m \in Mods, NEW v \in Vecs
    PROVE  /\ Kernel(v) \in Handlers /\ Fix(m, v) \in Handlers /\ Isr(m, v) \in Handlers
           /\ None \in Handlers /\ Junk \in Handlers
  BY DEF Handlers

(* The gates the adaptors write are gates. *)
LEMMA GateTypes ==
    ASSUME NEW g \in Gate, NEW m \in Mods, NEW v \in Vecs
    PROVE  /\ [g EXCEPT !.hdlr = Fix(m, v)] \in Gate
           /\ [g EXCEPT !.hdlr = Fix(m, v)].hdlr = Fix(m, v)
           /\ [g EXCEPT !.hdlr = Fix(m, v)].ist = g.ist
           /\ [hdlr |-> Isr(m, v), ist |-> "ef"] \in Gate
           /\ BootGate(v) \in Gate /\ g.hdlr \in Handlers
  <1>1. Fix(m, v) \in Handlers /\ Isr(m, v) \in Handlers /\ Kernel(v) \in Handlers
    BY HandlerTypes
  <1> QED BY <1>1 DEF Gate, BootGate

(* A table in allocated memory is what was written there; any memory reads *)
(* as a table.                                                             *)
LEMMA ContentTypes ==
    ASSUME TypeOK, NEW t \in Tables
    PROVE  /\ Contents(t) \subseteq [Vecs -> Gate]
           /\ t \in used \cup {BootIdt} => Contents(t) = {table[t]}
  <1>1. table[t] \in [Vecs -> Gate] /\ Junk \in Handlers
    BY DEF TypeOK, Handlers
  <1>2. JunkTables \subseteq [Vecs -> Gate]
    BY <1>1 DEF JunkTables, Gate
  <1> QED BY <1>1, <1>2 DEF Contents

(* Type correctness: a call that patches, activates or releases a table    *)
(* has allocated one, also when other calls overlap with it.               *)
LEMMA TypeInvariant == Spec => []TypeInv
  <1> USE ConstantsAssumption
  <1>1. Init => TypeInv
    <2> SUFFICES ASSUME Init PROVE TypeInv
      OBVIOUS
    <2>1. \A v \in Vecs : BootGate(v) \in Gate
      BY DEF BootGate, Gate, Handlers
    <2>2. orig_isrs \in [Mods -> [Vecs -> Handlers]] /\ df_handler_location \in [Mods -> Handlers]
      BY DEF Init, Handlers
    <2>3. table \in [Tables -> [Vecs -> Gate]]
      BY <2>1 DEF Init
    <2>4. /\ ist \in [CPUs -> BOOLEAN] /\ dirty \in [Callers -> BOOLEAN]
          /\ ok \in [Callers -> BOOLEAN] /\ doublefree \in BOOLEAN /\ dangled \in BOOLEAN
      BY Zenon DEF Init
    <2>5. calls \in 0..MaxCalls
      BY DEF Init
    <2> QED BY <2>2, <2>3, <2>4, <2>5 DEF Init, TypeInv, TypeOK, Tables, PCs, Holding
  <1>2. TypeInv /\ [Next]_vars => TypeInv'
    <2> SUFFICES ASSUME TypeInv, [Next]_vars PROVE TypeInv'
      OBVIOUS
    <2>1. CASE UNCHANGED vars
      BY <2>1 DEF vars, cpuvars, callvars, seedvars, TypeInv, TypeOK
    <2>2. ASSUME NEW u \in Callers, NEW c \in CPUs, NEW k \in {"pf", "ef"}, Call(u, c, k)
          PROVE  TypeInv'
      <3>1. /\ pc' = [pc EXCEPT ![u] = IF k = "ef" THEN "setup" ELSE "clone"]
            /\ left' = [left EXCEPT ![u] = IF k = "ef" THEN CPUs ELSE {}]
            /\ calls' = calls + 1 /\ calls < MaxCalls
            /\ kind' = [kind EXCEPT ![u] = k] /\ idt' = [idt EXCEPT ![u] = NoPage]
            /\ UNCHANGED <<table, used, idtr, ist, orig_idt, current_idt, orig_isrs, doublefree, dangled>>
        BY <2>2 DEF Call, Goto, cpuvars
      <3>2. dirty' \in [Callers -> BOOLEAN] /\ ok' \in [Callers -> BOOLEAN]
        BY Zenon, <2>2 DEF Call, TypeInv, TypeOK
      <3>3. df_handler_location' \in [Mods -> Handlers]
        <4>1. idtr[c] \in Tables /\ DF \in Vecs /\ Mod[u] \in Mods
          BY DEF TypeInv, TypeOK
        <4>2. table[idtr[c]][DF] \in Gate
          BY <4>1 DEF TypeInv, TypeOK
        <4>3. PICK h : h = table[idtr[c]][DF].hdlr
          OBVIOUS
        <4>4. h \in Handlers
          BY <4>1, <4>2, <4>3, GateTypes
        <4>5. df_handler_location' = [df_handler_location EXCEPT ![Mod[u]] =
                                          IF k = "ef" THEN h ELSE df_handler_location[Mod[u]]]
          BY <2>2, <4>3 DEF Call
        <4> QED BY <4>1, <4>4, <4>5 DEF TypeInv, TypeOK
      <3>4. /\ pc' \in [Callers -> PCs] /\ left' \in [Callers -> SUBSET CPUs]
            /\ idt' \in [Callers -> Pages \cup {NoPage}] /\ calls' \in 0..MaxCalls
            /\ kind' \in [Callers -> {"pf", "ef"}]
        BY <3>1 DEF TypeInv, TypeOK, PCs
      <3>5. \A w \in Callers : pc'[w] \in Holding => idt'[w] \in Pages
        BY <3>1 DEF TypeInv, TypeOK, Holding
      <3> QED BY <3>1, <3>2, <3>3, <3>4, <3>5 DEF TypeInv, TypeOK
    <2>3. ASSUME NEW u \in Callers, NEW c \in CPUs,
                 ef_adaptor_setup_tss(u, c) \/ ef_adaptor_cleanup_tss(u, c)
          PROVE  TypeInv'
      <3>1. ist' \in [CPUs -> BOOLEAN] /\ ok' \in [Callers -> BOOLEAN]
        BY Zenon, <2>3 DEF ef_adaptor_setup_tss, ef_adaptor_cleanup_tss, callvars, TypeInv, TypeOK
      <3>2. left' \in [Callers -> SUBSET CPUs]
        BY <2>3 DEF ef_adaptor_setup_tss, ef_adaptor_cleanup_tss, TypeInv, TypeOK
      <3> QED BY <2>3, <3>1, <3>2 DEF ef_adaptor_setup_tss, ef_adaptor_cleanup_tss, callvars,
              seedvars, TypeInv, TypeOK
    <2>4. ASSUME NEW u \in Callers, NEW c \in CPUs, load_idt_wrapper(u, c) PROVE TypeInv'
      BY <2>4 DEF load_idt_wrapper, Goto, callvars, seedvars, TypeInv, TypeOK, PCs, Holding, Tables
    <2>5. ASSUME NEW u \in Callers, NEW c \in CPUs, NEW p \in Pages, idt_adaptor_clone(u, c, p)
          PROVE  TypeInv'
      <3> DEFINE src == CloneSource(u, c)
      <3>1. src \in Tables
        BY DEF CloneSource, TypeInv, TypeOK, Tables
      <3>2. /\ used' = used \cup {p} /\ \E gates \in Contents(src) : table' = [table EXCEPT ![p] = gates]
            /\ idt' = [idt EXCEPT ![u] = p] /\ pc' = [pc EXCEPT ![u] = "patch"]
            /\ orig_idt' = orig_idt \/ orig_idt' = [orig_idt EXCEPT ![Mod[u]] = src]
            /\ UNCHANGED <<idtr, ist, current_idt, orig_isrs, df_handler_location, kind, dirty, ok,
                           left, calls, doublefree>>
        BY <2>5 DEF idt_adaptor_clone, Goto, cpuvars, callvars
      <3>7. dangled' \in BOOLEAN
        BY Zenon, <2>5 DEF idt_adaptor_clone, TypeInv, TypeOK
      <3> HIDE DEF src
      <3>3. table' \in [Tables -> [Vecs -> Gate]]
        <4>1. PICK gates \in Contents(src) : table' = [table EXCEPT ![p] = gates]
          BY <3>2
        <4>2. gates \in [Vecs -> Gate]
          <5>1. TypeOK
            BY DEF TypeInv
          <5> QED BY <3>1, <4>1, <5>1, ContentTypes
        <4> QED BY <4>1, <4>2 DEF TypeInv, TypeOK
      <3>4. orig_idt' \in [Mods -> Tables \cup {NoPage}]
        BY <3>1, <3>2 DEF TypeInv, TypeOK
      <3>5. /\ idt' \in [Callers -> Pages \cup {NoPage}] /\ pc' \in [Callers -> PCs]
            /\ used' \subseteq Pages
        BY <3>2 DEF TypeInv, TypeOK, PCs
      <3>6. \A w \in Callers : pc'[w] \in Holding => idt'[w] \in Pages
        BY <3>2 DEF TypeInv, TypeOK
      <3> QED BY <3>2, <3>3, <3>4, <3>5, <3>6, <3>7 DEF TypeInv, TypeOK
    <2>6. ASSUME NEW u \in Callers, SetupEnd(u) \/ CloneFails(u) \/ CleanEnd(u) PROVE TypeInv'
      <3>1. left' \in [Callers -> SUBSET CPUs]
        BY <2>6 DEF SetupEnd, CloneFails, CleanEnd, TypeInv, TypeOK
      <3>2. PICK l \in {"clone", "clean", "oops", "idle", "release"} :
                pc' = [pc EXCEPT ![u] = l] /\ (l = "release" => idt[u] # NoPage)
        BY <2>6 DEF SetupEnd, CloneFails, CleanEnd, Goto
      <3>3. UNCHANGED <<table, used, idtr, ist, orig_idt, current_idt, orig_isrs, idt, kind,
                        dirty, ok, calls, doublefree, df_handler_location, dangled>>
        BY <2>6 DEF SetupEnd, CloneFails, CleanEnd, cpuvars, callvars, seedvars
      <3>4. pc' \in [Callers -> PCs]
        BY <3>2 DEF TypeInv, TypeOK, PCs
      <3>5. \A w \in Callers : pc'[w] \in Holding => idt'[w] \in Pages
        BY <3>2, <3>3 DEF TypeInv, TypeOK, Holding
      <3> QED BY <3>1, <3>3, <3>4, <3>5 DEF TypeInv, TypeOK
    <2>7. ASSUME NEW u \in Callers, PatchPf(u) PROVE TypeInv'
      <3> DEFINE gates == table[idt[u]]
                 clean == {v \in PfVecs : gates[v].hdlr = Kernel(v)}
                 new == [v \in Vecs |-> IF v \in clean THEN [gates[v] EXCEPT !.hdlr = Fix(Mod[u], v)]
                                        ELSE gates[v]]
      <3>1. idt[u] \in Pages /\ idt[u] \in Tables /\ Mod[u] \in Mods
        BY <2>7 DEF PatchPf, TypeInv, Holding, Tables
      <3>2. gates \in [Vecs -> Gate]
        BY <3>1 DEF TypeInv, TypeOK
      <3>3. new \in [Vecs -> Gate]
        BY <3>1, <3>2, GateTypes
      <3>4. /\ table' = [table EXCEPT ![idt[u]] = new]
            /\ dirty' = [dirty EXCEPT ![u] = clean # {}]
            /\ \E b \in BOOLEAN : ok' = [ok EXCEPT ![u] = b]
            /\ \/ pc' = [pc EXCEPT ![u] = "load"] /\ left' = [left EXCEPT ![u] = CPUs]
               \/ pc' = [pc EXCEPT ![u] = "release"] /\ UNCHANGED left
            /\ UNCHANGED <<used, idtr, ist, orig_idt, current_idt, orig_isrs, idt, kind, calls,
                           doublefree, df_handler_location, dangled>>
        BY Zenon, <2>7 DEF PatchPf, Goto, cpuvars, seedvars
      <3>5. table' \in [Tables -> [Vecs -> Gate]]
        <4> HIDE DEF new
        <4> QED BY <3>3, <3>4 DEF TypeInv, TypeOK
      <3>6. dirty' \in [Callers -> BOOLEAN] /\ ok' \in [Callers -> BOOLEAN]
        BY Zenon, <3>4 DEF TypeInv, TypeOK
      <3>7. pc' \in [Callers -> PCs] /\ left' \in [Callers -> SUBSET CPUs]
        <4>1. pc \in [Callers -> PCs] /\ left \in [Callers -> SUBSET CPUs]
          BY DEF TypeInv, TypeOK
        <4>2. left' = left \/ left' = [left EXCEPT ![u] = CPUs]
          BY <3>4
        <4>3. PICK l \in {"load", "release", "clean"} : pc' = [pc EXCEPT ![u] = l]
          BY <3>4
        <4>4. pc' \in [Callers -> PCs]
          BY <4>1, <4>3 DEF PCs
        <4> QED BY <4>1, <4>2, <4>4
      <3>8. \A w \in Callers : pc'[w] \in Holding => idt'[w] \in Pages
        <4>1. \A w \in Callers \ {u} : pc'[w] = pc[w]
          BY <3>4 DEF TypeInv, TypeOK
        <4> QED BY <3>1, <3>4, <4>1 DEF TypeInv
      <3> QED BY <3>4, <3>5, <3>6, <3>7, <3>8 DEF TypeInv, TypeOK
    <2>8. ASSUME NEW u \in Callers, PatchEf(u) PROVE TypeInv'
      <3>1. idt[u] \in Pages /\ idt[u] \in Tables /\ Mod[u] \in Mods
        BY <2>8 DEF PatchEf, TypeInv, Holding, Tables
      <3>2. PICK done \in SUBSET Vecs, bad \in SUBSET Vecs :
              /\ orig_isrs' = [orig_isrs EXCEPT ![Mod[u]] = [v \in Vecs |->
                    IF v \in done THEN table[idt[u]][v].hdlr ELSE orig_isrs[Mod[u]][v]]]
              /\ table' = [table EXCEPT ![idt[u]] = [v \in Vecs |->
                    IF v \in done THEN [hdlr |-> Isr(Mod[u], v), ist |-> "ef"]
                    ELSE table[idt[u]][v]]]
              /\ dirty' = [dirty EXCEPT ![u] = done # {}]
              /\ ok' = [ok EXCEPT ![u] = bad = {}]
              /\ \/ /\ pc' = [pc EXCEPT ![u] = "clean"] \/ pc' = [pc EXCEPT ![u] = "load"]
                    /\ left' = [left EXCEPT ![u] = CPUs]
                 \/ pc' = [pc EXCEPT ![u] = "release"] /\ UNCHANGED left
              /\ UNCHANGED <<used, idtr, ist, orig_idt, current_idt, idt, kind, calls, doublefree,
                             df_handler_location, dangled>>
        <4> DEFINE mine == {v \in EfVecs : ~Skips(table[idt[u]][v])}
                   bad == {v \in mine : orig_isrs[Mod[u]][v] \notin {None, table[idt[u]][v].hdlr}}
                   done == {v \in mine : \A w \in bad : v < w}
        <4>1. done \in SUBSET Vecs /\ bad \in SUBSET Vecs
          OBVIOUS
        <4> WITNESS done \in SUBSET Vecs
        <4> WITNESS bad \in SUBSET Vecs
        <4> QED BY Zenon, <2>8 DEF PatchEf, Recorded, Goto, cpuvars, seedvars
      <3> DEFINE gates == table[idt[u]]
      <3>3. gates \in [Vecs -> Gate]
        BY <3>1 DEF TypeInv, TypeOK
      <3>4. [v \in Vecs |-> IF v \in done THEN [hdlr |-> Isr(Mod[u], v), ist |-> "ef"]
                            ELSE gates[v]] \in [Vecs -> Gate]
        BY <3>1, <3>3, GateTypes
      <3>5. [v \in Vecs |-> IF v \in done THEN gates[v].hdlr ELSE orig_isrs[Mod[u]][v]]
                \in [Vecs -> Handlers]
        <4>1. orig_isrs[Mod[u]] \in [Vecs -> Handlers]
          BY <3>1 DEF TypeInv, TypeOK
        <4> HIDE DEF gates
        <4>2. \A v \in Vecs : gates[v].hdlr \in Handlers
          BY <3>1, <3>3, GateTypes
        <4> QED BY <4>1, <4>2
      <3>6. table' \in [Tables -> [Vecs -> Gate]]
        BY <3>2, <3>4 DEF TypeInv, TypeOK
      <3>7. orig_isrs' \in [Mods -> [Vecs -> Handlers]]
        BY <3>2, <3>5 DEF TypeInv, TypeOK
      <3>8. dirty' \in [Callers -> BOOLEAN] /\ ok' \in [Callers -> BOOLEAN]
        BY Zenon, <3>2 DEF TypeInv, TypeOK
      <3>9. pc' \in [Callers -> PCs] /\ left' \in [Callers -> SUBSET CPUs]
        <4>1. pc \in [Callers -> PCs] /\ left \in [Callers -> SUBSET CPUs]
          BY DEF TypeInv, TypeOK
        <4>2. left' = left \/ left' = [left EXCEPT ![u] = CPUs]
          BY <3>2
        <4>3. PICK l \in {"load", "release", "clean"} : pc' = [pc EXCEPT ![u] = l]
          BY <3>2
        <4>4. pc' \in [Callers -> PCs]
          BY <4>1, <4>3 DEF PCs
        <4> QED BY <4>1, <4>2, <4>4
      <3>10. \A w \in Callers : pc'[w] \in Holding => idt'[w] \in Pages
        <4>1. \A w \in Callers \ {u} : pc'[w] = pc[w]
          BY <3>2 DEF TypeInv, TypeOK
        <4> QED BY <3>1, <3>2, <4>1 DEF TypeInv
      <3> QED BY <3>2, <3>6, <3>7, <3>8, <3>9, <3>10 DEF TypeInv, TypeOK
    <2>9. ASSUME NEW u \in Callers, FreeOld(u) \/ idt_adaptor_release(u) PROVE TypeInv'
      <3>1. doublefree' \in BOOLEAN
        BY Zenon, <2>9 DEF FreeOld, idt_adaptor_release, Free, TypeInv, TypeOK
      <3> QED BY <2>9, <3>1 DEF FreeOld, idt_adaptor_release, Free, Goto, cpuvars, callvars,
              seedvars, TypeInv, TypeOK, PCs, Holding
    <2>10. ASSUME NEW u \in Callers, SetCurrent(u) PROVE TypeInv'
      BY <2>10 DEF SetCurrent, Goto, cpuvars, callvars, seedvars, TypeInv, TypeOK, PCs, Holding
    <2> QED BY <2>1, <2>2, <2>3, <2>4, <2>5, <2>6, <2>7, <2>8, <2>9, <2>10 DEF Next
  <1> QED BY <1>1, <1>2, PTL DEF Spec

(* Type correctness of the tables, the statics and the calls. *)
THEOREM TypeCorrect == Spec => []TypeOK
  <1>1. TypeInv => TypeOK
    BY DEF TypeInv
  <1> QED BY <1>1, TypeInvariant, PTL
-----------------------------------------------------------------------------
(* What the two adaptors do to the gates, in one place.                    *)
Clean(u) == {v \in PfVecs : table[idt[u]][v].hdlr = Kernel(v)}
Alien(u) == {v \in PfVecs \ Clean(u) : table[idt[u]][v].hdlr # Fix(Mod[u], v)}
Mine(u) == {v \in EfVecs : table[idt[u]][v].ist = "0"}
Bad(u) == {v \in Mine(u) : orig_isrs[Mod[u]][v] \notin {None, table[idt[u]][v].hdlr}}
Done(u) == {v \in Mine(u) : \A w \in Bad(u) : v < w}

(* Only the table of the call changes. *)
OnlyTable(u) ==
    /\ idt[u] \in Pages /\ \A t \in Tables : t # idt[u] => table'[t] = table[t]
    /\ UNCHANGED <<used, idtr, ist, orig_idt, current_idt, idt, kind, doublefree,
                   df_handler_location, dangled>>
PfEffect(u) ==
    /\ OnlyTable(u) /\ UNCHANGED orig_isrs
    /\ \A v \in Vecs :
         /\ v \in Clean(u) => /\ table'[idt[u]][v].hdlr = Fix(Mod[u], v)
                              /\ table'[idt[u]][v].ist = table[idt[u]][v].ist
         /\ v \notin Clean(u) => table'[idt[u]][v] = table[idt[u]][v]
    /\ IF Clean(u) # {} /\ Alien(u) = {}
       THEN pc' = [pc EXCEPT ![u] = "load"] /\ left' = [left EXCEPT ![u] = CPUs]
       ELSE pc' = [pc EXCEPT ![u] = "release"] /\ UNCHANGED left
EfEffect(u) ==
    /\ OnlyTable(u)
    /\ \A v \in Vecs :
         /\ v \in Done(u) => /\ table'[idt[u]][v].hdlr = Isr(Mod[u], v)
                             /\ table'[idt[u]][v].ist = "ef"
                             /\ orig_isrs'[Mod[u]][v] = table[idt[u]][v].hdlr
         /\ v \notin Done(u) => /\ table'[idt[u]][v] = table[idt[u]][v]
                                /\ orig_isrs'[Mod[u]][v] = orig_isrs[Mod[u]][v]
    /\ \A m \in Mods : m # Mod[u] => orig_isrs'[m] = orig_isrs[m]
    /\ IF Bad(u) # {} THEN pc' = [pc EXCEPT ![u] = "clean"] /\ left' = [left EXCEPT ![u] = CPUs]
       ELSE IF Done(u) # {}
       THEN pc' = [pc EXCEPT ![u] = "load"] /\ left' = [left EXCEPT ![u] = CPUs]
       ELSE pc' = [pc EXCEPT ![u] = "release"] /\ UNCHANGED left

(* What pf_adaptor_init's patch of a clone changes: the clone and the      *)
(* place of the call.                                                      *)
LEMMA PfEffects ==
    ASSUME TypeInv, NEW u \in Callers, PatchPf(u)
    PROVE  PfEffect(u)
  <1>1. idt[u] \in Pages /\ idt[u] \in Tables /\ Mod[u] \in Mods
    BY ConstantsAssumption DEF PatchPf, TypeInv, Holding, Tables
  <1> DEFINE gates == table[idt[u]]
             new == [v \in Vecs |-> IF v \in Clean(u) THEN [gates[v] EXCEPT !.hdlr = Fix(Mod[u], v)]
                                    ELSE gates[v]]
  <1>2. gates \in [Vecs -> Gate] /\ table \in [Tables -> [Vecs -> Gate]]
    BY <1>1 DEF TypeInv, TypeOK
  <1>3. /\ table' = [table EXCEPT ![idt[u]] = new]
        /\ UNCHANGED <<used, idtr, ist, orig_idt, current_idt, orig_isrs, idt, kind, doublefree,
                       df_handler_location, dangled>>
    BY Zenon DEF PatchPf, cpuvars, seedvars, Clean
  <1>4. IF Clean(u) # {} /\ Alien(u) = {}
        THEN pc' = [pc EXCEPT ![u] = "load"] /\ left' = [left EXCEPT ![u] = CPUs]
        ELSE pc' = [pc EXCEPT ![u] = "release"] /\ UNCHANGED left
    BY Zenon DEF PatchPf, Goto, Clean, Alien
  <1>5. \A v \in Vecs : new[v] = IF v \in Clean(u) THEN [gates[v] EXCEPT !.hdlr = Fix(Mod[u], v)]
                                 ELSE gates[v]
    OBVIOUS
  <1> HIDE DEF new
  <1>6. table'[idt[u]] = new /\ \A t \in Tables : t # idt[u] => table'[t] = table[t]
    BY <1>1, <1>2, <1>3
  <1>7. \A v \in Vecs : v \in Clean(u) => new[v].hdlr = Fix(Mod[u], v) /\ new[v].ist = gates[v].ist
    <2> SUFFICES ASSUME NEW v \in Vecs, v \in Clean(u)
                 PROVE  new[v].hdlr = Fix(Mod[u], v) /\ new[v].ist = gates[v].ist
      OBVIOUS
    <2>1. gates[v] \in Gate /\ new[v] = [gates[v] EXCEPT !.hdlr = Fix(Mod[u], v)]
      BY <1>2, <1>5
    <2> HIDE DEF gates
    <2> QED BY <1>1, <2>1, GateTypes
  <1> QED BY <1>1, <1>3, <1>4, <1>5, <1>6, <1>7 DEF PfEffect, OnlyTable

(* What ef_adaptor_init's patch of a clone changes: the clone, the         *)
(* recorded handlers and the place of the call.                            *)
LEMMA EfEffects ==
    ASSUME TypeInv, NEW u \in Callers, PatchEf(u)
    PROVE  EfEffect(u)
  <1>1. idt[u] \in Pages /\ idt[u] \in Tables /\ Mod[u] \in Mods
    BY ConstantsAssumption DEF PatchEf, TypeInv, Holding, Tables
  <1> DEFINE gates == table[idt[u]]
             new == [v \in Vecs |-> IF v \in Done(u) THEN [hdlr |-> Isr(Mod[u], v), ist |-> "ef"]
                                    ELSE gates[v]]
             isrs == [v \in Vecs |-> IF v \in Done(u) THEN gates[v].hdlr ELSE orig_isrs[Mod[u]][v]]
  <1>2. /\ gates \in [Vecs -> Gate] /\ table \in [Tables -> [Vecs -> Gate]]
        /\ orig_isrs \in [Mods -> [Vecs -> Handlers]]
    BY <1>1 DEF TypeInv, TypeOK
  <1>3. Mine(u) = {v \in EfVecs : ~Skips(gates[v])}
    BY DEF Mine, Skips
  <1> DEFINE mine == {v \in EfVecs : ~Skips(gates[v])}
             bad == {v \in mine : orig_isrs[Mod[u]][v] \notin {None, gates[v].hdlr}}
             done == {v \in mine : \A w \in bad : v < w}
  <1>4. bad = Bad(u)
    BY <1>3 DEF Bad
  <1>5. done = Done(u)
    BY <1>3, <1>4 DEF Done
  <1>6. /\ table' = [table EXCEPT ![idt[u]] = [v \in Vecs |->
                IF v \in done THEN [hdlr |-> Isr(Mod[u], v), ist |-> "ef"] ELSE gates[v]]]
        /\ orig_isrs' = [orig_isrs EXCEPT ![Mod[u]] = [v \in Vecs |->
                IF v \in done THEN gates[v].hdlr ELSE orig_isrs[Mod[u]][v]]]
        /\ UNCHANGED <<used, idtr, ist, orig_idt, current_idt, idt, kind, doublefree,
                       df_handler_location, dangled>>
        /\ IF bad # {} THEN pc' = [pc EXCEPT ![u] = "clean"] /\ left' = [left EXCEPT ![u] = CPUs]
           ELSE IF done # {}
           THEN pc' = [pc EXCEPT ![u] = "load"] /\ left' = [left EXCEPT ![u] = CPUs]
           ELSE pc' = [pc EXCEPT ![u] = "release"] /\ UNCHANGED left
    BY Zenon DEF PatchEf, Recorded, Goto, cpuvars, seedvars
  <1> HIDE DEF mine, bad, done, gates
  <1>7. /\ table' = [table EXCEPT ![idt[u]] = new]
        /\ orig_isrs' = [orig_isrs EXCEPT ![Mod[u]] = isrs]
    BY <1>5, <1>6
  <1>8. \A v \in Vecs :
          /\ new[v] = IF v \in Done(u) THEN [hdlr |-> Isr(Mod[u], v), ist |-> "ef"] ELSE gates[v]
          /\ isrs[v] = IF v \in Done(u) THEN gates[v].hdlr ELSE orig_isrs[Mod[u]][v]
    OBVIOUS
  <1> HIDE DEF new, isrs
  <1>9. /\ table'[idt[u]] = new /\ \A t \in Tables : t # idt[u] => table'[t] = table[t]
        /\ orig_isrs'[Mod[u]] = isrs /\ \A m \in Mods : m # Mod[u] => orig_isrs'[m] = orig_isrs[m]
    BY <1>1, <1>2, <1>7
  <1>10. \A v \in Vecs : v \in Done(u) => new[v].hdlr = Isr(Mod[u], v) /\ new[v].ist = "ef"
    <2> SUFFICES ASSUME NEW v \in Vecs, v \in Done(u)
                 PROVE  new[v].hdlr = Isr(Mod[u], v) /\ new[v].ist = "ef"
      OBVIOUS
    <2>1. new[v] = [hdlr |-> Isr(Mod[u], v), ist |-> "ef"]
      BY <1>8
    <2> QED BY <2>1
  <1>11. OnlyTable(u)
    BY <1>1, <1>6, <1>9 DEF OnlyTable
  <1>12. \A v \in Vecs :
         /\ v \in Done(u) => /\ table'[idt[u]][v].hdlr = Isr(Mod[u], v)
                             /\ table'[idt[u]][v].ist = "ef"
                             /\ orig_isrs'[Mod[u]][v] = table[idt[u]][v].hdlr
         /\ v \notin Done(u) => /\ table'[idt[u]][v] = table[idt[u]][v]
                                /\ orig_isrs'[Mod[u]][v] = orig_isrs[Mod[u]][v]
    BY <1>8, <1>9, <1>10 DEF gates
  <1> QED BY <1>4, <1>5, <1>6, <1>9, <1>11, <1>12 DEF EfEffect
(* A clone takes a page that was free; it is a copy of the source, unless  *)
(* the source is free itself.                                              *)
LEMMA CloneStep ==
    ASSUME TypeInv, NEW u \in Callers, NEW c \in CPUs, NEW p \in Pages, idt_adaptor_clone(u, c, p)
    PROVE  /\ pc[u] = "clone" /\ pc'[u] = "patch" /\ p \notin used /\ used' = used \cup {p}
           /\ \A w \in Callers : w # u => pc'[w] = pc[w]
           /\ idt'[u] = p /\ CloneSource(u, c) \in Tables
           /\ CloneSource(u, c) \in used \cup {BootIdt} =>
                  table'[p] = table[CloneSource(u, c)] /\ dangled' = dangled
           /\ ~dangled' => CloneSource(u, c) \in used \cup {BootIdt} /\ ~dangled
           /\ \A t \in Tables : t # p => table'[t] = table[t]
           /\ \A m \in Mods : orig_idt'[m] = IF m = Mod[u] /\ current_idt[m] = NoPage
                                             THEN CloneSource(u, c) ELSE orig_idt[m]
           /\ UNCHANGED <<idtr, ist, current_idt, orig_isrs, df_handler_location, kind, ok, left,
                          doublefree>>
  <1>1. CloneSource(u, c) \in Tables /\ Mod[u] \in Mods /\ p \in Tables
    BY ConstantsAssumption DEF CloneSource, TypeInv, TypeOK, Tables
  <1> DEFINE src == CloneSource(u, c)
             live == src \in used \cup {BootIdt}
  <1>2. PICK gates \in Contents(src) : table' = [table EXCEPT ![p] = gates]
    BY DEF idt_adaptor_clone
  <1>3. live => gates = table[src]
    BY <1>1, <1>2, ContentTypes DEF TypeInv
  <1>4. dangled' = (dangled \/ ~live) /\ dangled \in BOOLEAN
    BY DEF idt_adaptor_clone, TypeInv, TypeOK
  <1>5. (~dangled' => live /\ ~dangled) /\ (live => dangled' = dangled)
    BY Zenon, <1>4
  <1>6. table'[p] = gates /\ \A t \in Tables : t # p => table'[t] = table[t]
    BY <1>1, <1>2 DEF TypeInv, TypeOK
  <1>7. /\ pc[u] = "clone" /\ pc'[u] = "patch" /\ p \notin used /\ used' = used \cup {p}
        /\ \A w \in Callers : w # u => pc'[w] = pc[w]
        /\ idt'[u] = p
        /\ \A m \in Mods : orig_idt'[m] = IF m = Mod[u] /\ current_idt[m] = NoPage
                                          THEN src ELSE orig_idt[m]
        /\ UNCHANGED <<idtr, ist, current_idt, orig_isrs, df_handler_location, kind, ok, left,
                       doublefree>>
    BY <1>1 DEF idt_adaptor_clone, Goto, cpuvars, callvars, TypeInv, TypeOK
  <1> QED BY <1>1, <1>3, <1>5, <1>6, <1>7

(* What extension_init remembers. *)
LEMMA CallRemembers ==
    ASSUME TypeInv, NEW u \in Callers, NEW c \in CPUs, NEW k \in {"pf", "ef"}, Call(u, c, k)
    PROVE  \A m \in Mods : df_handler_location'[m] =
               IF m = Mod[u] /\ k = "ef" THEN table[idtr[c]][DF].hdlr ELSE df_handler_location[m]
  BY ConstantsAssumption DEF Call, TypeInv, TypeOK
-----------------------------------------------------------------------------
(* Every gate of every table, in use or not, holds the kernel's handler or *)
(* one of an adaptor; the gates on IST7 are those of the ef adaptors; and  *)
(* what an ef adaptor recorded, the handler of double faults included, is  *)
(* the kernel's handler or a pf adaptor's.                                 *)
Base(v) == {Kernel(v)} \cup {Fix(m, v) : m \in Mods}
Recorder(m, v) == orig_isrs[m][v] \in Base(v) /\ df_handler_location[m] \in Base(DF)
Chained(gate, v) ==
    /\ \/ gate.hdlr \in Base(v) /\ gate.ist # "ef"
       \/ \E m \in Mods : gate.hdlr = Isr(m, v) /\ gate.ist = "ef" /\ Recorder(m, v)
    /\ v \in IstVecs => gate.ist = "kernel"
Chains ==
    /\ \A t \in Tables, v \in Vecs : Chained(table[t][v], v)
    /\ \A m \in Mods, v \in Vecs : orig_isrs[m][v] \in Base(v) \cup {None}
    /\ \A m \in Mods : df_handler_location[m] \in Base(DF) \cup {None}
    /\ \A u \in Callers : pc[u] # "idle" /\ kind[u] = "ef" => df_handler_location[Mod[u]] \in Base(DF)
ChainsInv == ~dangled => Chains

(* What was recorded well stays so when the records only get better. *)
LEMMA ChainedKept ==
    ASSUME NEW g, NEW v \in Vecs, Chained(g, v),
           \A m \in Mods : Recorder(m, v) => Recorder(m, v)'
    PROVE  Chained(g, v)'
  BY DEF Chained, Base

(* A page that was free is never forgotten to have been cloned. *)
LEMMA DangledStays ==
    ASSUME TypeInv, Next, ~dangled'
    PROVE  ~dangled
  <1>1. CASE \E u \in Callers, c \in CPUs, p \in Pages : idt_adaptor_clone(u, c, p)
    BY <1>1, CloneStep
  <1>2. CASE \E u \in Callers : PatchPf(u) \/ PatchEf(u)
    BY <1>2, PfEffects, EfEffects DEF PfEffect, EfEffect, OnlyTable
  <1> QED BY <1>1, <1>2 DEF Next, Call, ef_adaptor_setup_tss, load_idt_wrapper,
          ef_adaptor_cleanup_tss, SetupEnd, CloneFails, FreeOld, SetCurrent,
          idt_adaptor_release, CleanEnd, seedvars

(* Every gate is chained to the kernel's handlers, and so is what the ef   *)
(* adaptors recorded.                                                      *)
LEMMA ChainsInvariant == Spec => []ChainsInv
  <1> USE ConstantsAssumption
  <1>1. Init => ChainsInv
    <2> SUFFICES ASSUME Init PROVE Chains
      BY DEF ChainsInv
    <2>1. ASSUME NEW t \in Tables, NEW v \in Vecs PROVE Chained(table[t][v], v)
      <3>1. table[t][v] = BootGate(v)
        BY DEF Init
      <3> QED BY <3>1 DEF BootGate, Chained, Base
    <2> QED BY <2>1 DEF Init, Chains
  <1>2. TypeInv /\ ChainsInv /\ [Next]_vars => ChainsInv'
    <2> SUFFICES ASSUME TypeInv, ChainsInv, [Next]_vars, ~dangled' PROVE Chains'
      BY DEF ChainsInv
    <2>0. Chains
      BY DangledStays DEF ChainsInv, vars, seedvars
    <2>1. CASE /\ UNCHANGED <<table, orig_isrs, df_handler_location, kind>>
               /\ \A u \in Callers : pc'[u] # "idle" => pc[u] # "idle"
      <3>1. \A m \in Mods, v \in Vecs : Recorder(m, v) => Recorder(m, v)'
        BY <2>1 DEF Recorder, Base
      <3>2. \A t \in Tables, v \in Vecs : Chained(table[t][v], v)'
        BY <2>0, <2>1, <3>1 DEF Chains, Chained, Base
      <3> QED BY <2>0, <2>1, <3>2 DEF Chains, Base
    <2>2. ASSUME NEW u \in Callers, NEW c \in CPUs, NEW p \in Pages, idt_adaptor_clone(u, c, p)
          PROVE  Chains'
      <3>1. /\ CloneSource(u, c) \in Tables /\ UNCHANGED <<orig_isrs, df_handler_location, kind>>
            /\ table'[p] = table[CloneSource(u, c)]
            /\ \A t \in Tables : t # p => table'[t] = table[t]
            /\ \A w \in Callers : pc'[w] # "idle" => pc[w] # "idle"
        BY <2>2, CloneStep
      <3>2. \A t \in Tables : \E s \in Tables : table'[t] = table[s]
        BY <3>1
      <3>3. \A m \in Mods, v \in Vecs : Recorder(m, v) => Recorder(m, v)'
        BY <3>1 DEF Recorder, Base
      <3>4. ASSUME NEW t \in Tables, NEW v \in Vecs PROVE Chained(table[t][v], v)'
        <4>1. PICK s \in Tables : table'[t] = table[s]
          BY <3>2
        <4>2. Chained(table[s][v], v)
          BY <2>0 DEF Chains
        <4> QED BY <3>3, <4>1, <4>2 DEF Chained, Base
      <3> QED BY <2>0, <3>1, <3>4 DEF Chains, Base
    <2>3. ASSUME NEW u \in Callers, PatchPf(u) PROVE Chains'
      <3>1. PfEffect(u) /\ Mod[u] \in Mods /\ pc[u] = "patch" /\ pc \in [Callers -> PCs]
        BY <2>3, PfEffects DEF PatchPf, TypeInv, TypeOK
      <3>2. \A m \in Mods, v \in Vecs : Recorder(m, v) => Recorder(m, v)'
        BY <3>1 DEF PfEffect, OnlyTable, Recorder, Base
      <3>3. ASSUME NEW t \in Tables, NEW v \in Vecs PROVE Chained(table[t][v], v)'
        <4>1. CASE t = idt[u] /\ v \in Clean(u)
          <5>1. table[t][v].hdlr = Kernel(v) /\ Chained(table[t][v], v)
            BY <2>0, <4>1 DEF Clean, Chains
          <5>2. table[t][v].ist # "ef" /\ (v \in IstVecs => table[t][v].ist = "kernel")
            BY <5>1, HandlersDiffer DEF Chained
          <5>3. /\ table'[t][v].hdlr = Fix(Mod[u], v) /\ table'[t][v].ist = table[t][v].ist
            BY <3>1, <4>1 DEF PfEffect
          <5> QED BY <3>1, <5>2, <5>3 DEF Chained, Base
        <4>2. CASE ~(t = idt[u] /\ v \in Clean(u))
          <5>1. table'[t][v] = table[t][v] /\ Chained(table[t][v], v)
            BY <2>0, <3>1, <4>2 DEF PfEffect, OnlyTable, Chains
          <5> QED BY <3>2, <5>1 DEF Chained, Base
        <4> QED BY <4>1, <4>2
      <3>4. /\ UNCHANGED <<orig_isrs, df_handler_location, kind>>
            /\ \A w \in Callers : pc'[w] # "idle" => pc[w] # "idle"
        BY <3>1 DEF PfEffect, OnlyTable
      <3> QED BY <2>0, <3>3, <3>4 DEF Chains, Base
    <2>4. ASSUME NEW u \in Callers, PatchEf(u) PROVE Chains'
      <3>1. EfEffect(u) /\ Mod[u] \in Mods /\ pc[u] = "patch" /\ kind[u] = "ef" /\ pc \in [Callers -> PCs]
        BY <2>4, EfEffects DEF PatchEf, TypeInv, TypeOK
      <3>2. ASSUME NEW v \in Done(u) PROVE v \in Vecs /\ v \notin IstVecs /\ table[idt[u]][v].hdlr \in Base(v)
        <4>1. v \in Vecs /\ table[idt[u]][v].ist = "0" /\ idt[u] \in Tables
          BY <3>1 DEF Done, Mine, EfEffect, OnlyTable, Tables
        <4> QED BY <2>0, <4>1 DEF Chains, Chained
      <3>3. df_handler_location[Mod[u]] \in Base(DF) /\ UNCHANGED <<df_handler_location, kind>>
        BY <2>0, <3>1 DEF Chains, EfEffect, OnlyTable
      <3>4. ASSUME NEW m \in Mods, NEW v \in Vecs
            PROVE  /\ orig_isrs'[m][v] \in Base(v) \cup {None}
                   /\ Recorder(m, v) => Recorder(m, v)'
        <4>1. /\ orig_isrs'[m][v] \in Base(v) \cup {None}
              /\ orig_isrs[m][v] \in Base(v) => orig_isrs'[m][v] \in Base(v)
          BY <2>0, <3>1, <3>2 DEF EfEffect, Chains
        <4> QED BY <3>3, <4>1 DEF Recorder, Base
      <3>5. ASSUME NEW t \in Tables, NEW v \in Vecs PROVE Chained(table[t][v], v)'
        <4>1. CASE t = idt[u] /\ v \in Done(u)
          <5>1. /\ table'[t][v].hdlr = Isr(Mod[u], v) /\ table'[t][v].ist = "ef"
                /\ orig_isrs'[Mod[u]][v] \in Base(v) /\ v \notin IstVecs
            BY <3>1, <3>2, <4>1 DEF EfEffect
          <5>2. Recorder(Mod[u], v)'
            BY <3>3, <5>1 DEF Recorder, Base
          <5> QED BY <3>1, <5>1, <5>2 DEF Chained
        <4>2. CASE ~(t = idt[u] /\ v \in Done(u))
          <5>1. table'[t][v] = table[t][v] /\ Chained(table[t][v], v)
            BY <2>0, <3>1, <4>2 DEF EfEffect, OnlyTable, Chains
          <5> QED BY <3>4, <5>1 DEF Chained, Base
        <4> QED BY <4>1, <4>2
      <3>6. \A w \in Callers : pc'[w] # "idle" => pc[w] # "idle"
        BY <3>1 DEF EfEffect
      <3> QED BY <2>0, <3>3, <3>4, <3>5, <3>6 DEF Chains, Base
    <2>5. ASSUME NEW u \in Callers, NEW c \in CPUs, NEW k \in {"pf", "ef"}, Call(u, c, k) PROVE Chains'
      <3>1. /\ UNCHANGED <<table, orig_isrs>> /\ kind'[u] = k /\ Mod[u] \in Mods
            /\ \A w \in Callers : w # u => pc'[w] = pc[w] /\ kind'[w] = kind[w]
            /\ \A m \in Mods : df_handler_location'[m] =
                  IF m = Mod[u] /\ k = "ef" THEN table[idtr[c]][DF].hdlr ELSE df_handler_location[m]
        BY <2>5, CallRemembers DEF Call, Goto, TypeInv, TypeOK
      <3>2. table[idtr[c]][DF].hdlr \in Base(DF)
        <4>1. idtr[c] \in Tables /\ DF \in Vecs
          BY DEF TypeInv, TypeOK
        <4>2. Chained(table[idtr[c]][DF], DF)
          BY <2>0, <4>1 DEF Chains
        <4> QED BY <4>2 DEF Chained
      <3>3. /\ \A m \in Mods : /\ df_handler_location'[m] \in Base(DF) \cup {None}
                               /\ df_handler_location[m] \in Base(DF) => df_handler_location'[m] \in Base(DF)
            /\ k = "ef" => df_handler_location'[Mod[u]] \in Base(DF)
        BY <2>0, <3>1, <3>2 DEF Chains
      <3>4. \A m \in Mods, v \in Vecs : Recorder(m, v) => Recorder(m, v)'
        BY <3>1, <3>3 DEF Recorder, Base
      <3>5. \A t \in Tables, v \in Vecs : Chained(table[t][v], v)'
        BY <2>0, <3>1, <3>4 DEF Chains, Chained, Base
      <3>6. \A w \in Callers : pc'[w] # "idle" /\ kind'[w] = "ef" =>
                 df_handler_location'[Mod[w]] \in Base(DF)
        BY <2>0, <3>1, <3>3 DEF Chains
      <3> QED BY <2>0, <3>1, <3>3, <3>5, <3>6 DEF Chains, Base
    <2>6. ASSUME NEW u \in Callers, NEW c \in CPUs,
                 ef_adaptor_setup_tss(u, c) \/ load_idt_wrapper(u, c) \/ ef_adaptor_cleanup_tss(u, c)
          PROVE  Chains'
      <3>1. pc \in [Callers -> PCs]
        BY DEF TypeInv, TypeOK
      <3> QED BY <2>1, <2>6, <3>1 DEF ef_adaptor_setup_tss, load_idt_wrapper,
              ef_adaptor_cleanup_tss, Goto, callvars, seedvars
    <2>7. ASSUME NEW u \in Callers,
                 SetupEnd(u) \/ CloneFails(u) \/ FreeOld(u) \/ SetCurrent(u)
                 \/ idt_adaptor_release(u) \/ CleanEnd(u)
          PROVE  Chains'
      <3>1. pc \in [Callers -> PCs]
        BY DEF TypeInv, TypeOK
      <3> QED BY <2>1, <2>7, <3>1 DEF SetupEnd, CloneFails, FreeOld, SetCurrent,
              idt_adaptor_release, CleanEnd, Goto, callvars, seedvars
    <2>8. CASE UNCHANGED vars
      BY <2>1, <2>8 DEF vars, callvars, seedvars
    <2> QED BY <2>2, <2>3, <2>4, <2>5, <2>6, <2>7, <2>8 DEF Next
  <1> QED BY <1>1, <1>2, TypeInvariant, PTL DEF Spec

(* Where each kind of handler passes control. *)
LEMMA WhereTo ==
    ASSUME NEW m, NEW v
    PROVE  /\ Targets(Kernel(v)) = {Kernel(v)}
           /\ Targets(Fix(m, v)) = {Kernel(v)} \cup (IF v = DF THEN {Kernel(PF)} ELSE {})
           /\ Targets(Isr(m, v)) = {orig_isrs[m][v]} \cup
                                   (IF v \in ErrVecs THEN {df_handler_location[m]} ELSE {})
  <1>1. Targets(Kernel(v)) = {Kernel(v)}
    BY DEF Targets, Kernel
  <1>2. Targets(Fix(m, v)) = {Kernel(v)} \cup (IF v = DF THEN {Kernel(PF)} ELSE {})
    <2>1. Fix(m, v)[1] = "fix" /\ Fix(m, v)[3] = v
      BY DEF Fix
    <2> QED BY <2>1 DEF Targets
  <1>3. Targets(Isr(m, v)) = {orig_isrs[m][v]} \cup
                             (IF v \in ErrVecs THEN {df_handler_location[m]} ELSE {})
    <2>1. Isr(m, v)[1] = "isr" /\ Isr(m, v)[2] = m /\ Isr(m, v)[3] = v
      BY DEF Isr
    <2> QED BY <2>1 DEF Targets
  <1> QED BY <1>1, <1>2, <1>3

(* One jump from any of a set of handlers. *)
Jump(S) == UNION {Targets(g) : g \in S}

(* A handler from which two jumps lead to the kernel's settles there. *)
LEMMA TwoStepsSettle ==
    ASSUME NEW h, NEW v, Kernel(v) \in Jump(Jump({h})), Jump(Jump({h})) \subseteq Ends(v),
           Mods = {} => h = Kernel(v)
    PROVE  Settles(h, v)
  <1> USE ConstantsAssumption
  <1> DEFINE K == 2 * Cardinality(Mods)
             E == Jump(Jump({h}))
             After(f) == f = [n \in 0..K |-> IF n = 0 THEN {h} ELSE UNION {Targets(g) : g \in f[n-1]}]
             after == CHOOSE f : After(f)
  <1>1. K \in Nat /\ (K = 0 => Mods = {}) /\ K # 1
    BY FS_CardinalityType, FS_EmptySet
  <1>2. Settles(h, v) <=> Kernel(v) \in after[K] /\ after[K] \subseteq Ends(v)
    BY Zenon DEF Settles
  <1> HIDE DEF K
  <1>10. Jump(E) = E
    <2>1. \A g \in E : Targets(g) = {g}
      <3>1. \A w : Targets(Kernel(w)) = {Kernel(w)}
        BY WhereTo
      <3> QED BY <3>1 DEF Ends
    <2> HIDE DEF E
    <2> QED BY <2>1 DEF Jump
  <1> HIDE DEF E
  <1>3. After(after)
    <2> DEFINE f == [n \in 0..K |-> IF n = 0 THEN {h} ELSE IF n = 1 THEN Jump({h}) ELSE E]
    <2>1. ASSUME NEW n \in 0..K PROVE f[n] = IF n = 0 THEN {h} ELSE Jump(f[n-1])
      <3>1. CASE n = 0
        BY <3>1
      <3>2. CASE n = 1
        BY <1>1, <3>2
      <3>3. CASE n > 1
        <4>1. n-1 \in 0..K /\ n-1 # 0 /\ n # 1 /\ n # 0
          BY <1>1, <3>3
        <4>2. f[n] = E /\ (f[n-1] = Jump({h}) \/ f[n-1] = E)
          BY <4>1
        <4> QED BY <1>10, <4>1, <4>2 DEF E
      <3> QED BY <1>1, <3>1, <3>2, <3>3
    <2>2. After(f)
      <3>1. f = [n \in 0..K |-> IF n = 0 THEN {h} ELSE Jump(f[n-1])]
        BY <2>1
      <3> QED BY Zenon, <3>1 DEF Jump
    <2> HIDE DEF After
    <2> QED BY <2>2
  <1> HIDE DEF after
  <1>4. DOMAIN after = 0..K /\ after[0] = {h}
    BY <1>1, <1>3
  <1>5. ASSUME NEW n \in Nat, n + 1 \in 0..K PROVE after[n+1] = Jump(after[n])
    <2>1. n + 1 # 0 /\ (n + 1) - 1 = n
      OBVIOUS
    <2>2. \A i \in 0..K : after[i] = IF i = 0 THEN {h} ELSE UNION {Targets(g) : g \in after[i-1]}
      BY Zenon, <1>3
    <2>3. after[n+1] = UNION {Targets(g) : g \in after[(n+1)-1]}
      <3> HIDE DEF After
      <3> QED BY <1>5, <2>1, <2>2
    <2> QED BY <2>1, <2>3 DEF Jump
  <1> HIDE DEF After
  <1> DEFINE G == {n \in Nat : n + 2 \in 0..K => after[n + 2] = E}
  <1>6. 0 \in G
    <2> SUFFICES ASSUME 2 \in 0..K PROVE after[2] = E
      OBVIOUS
    <2>1. 0 + 1 \in 0..K /\ 1 + 1 \in 0..K /\ 0 + 1 = 1 /\ 1 + 1 = 2
      BY <1>1
    <2>2. after[1] = Jump(after[0]) /\ after[2] = Jump(after[1])
      <3>1. after[0 + 1] = Jump(after[0]) /\ after[1 + 1] = Jump(after[1])
        BY <1>5, <2>1
      <3> QED BY <2>1, <3>1
    <2> QED BY <1>4, <2>2 DEF E
  <1>7. ASSUME NEW n \in Nat, n \in G PROVE n + 1 \in G
    <2> SUFFICES ASSUME (n + 1) + 2 \in 0..K PROVE after[(n + 1) + 2] = E
      OBVIOUS
    <2>1. n + 2 \in Nat /\ n + 2 \in 0..K /\ (n + 2) + 1 \in 0..K /\ (n + 1) + 2 = (n + 2) + 1
      BY <1>1
    <2>2. after[n + 2] = E
      BY <1>7, <2>1
    <2>3. after[(n + 2) + 1] = Jump(after[n + 2])
      BY <1>5, <2>1
    <2> QED BY <1>10, <2>1, <2>2, <2>3
  <1>8. Nat \subseteq G
    <2> HIDE DEF G
    <2> QED BY <1>6, <1>7, SetInduction
  <1>9. after[K] = E \/ after[K] = {Kernel(v)}
    <2>1. CASE K = 0
      BY <1>1, <1>4, <2>1
    <2>2. CASE K # 0
      <3>1. K - 2 \in Nat /\ (K - 2) + 2 = K /\ K \in 0..K
        BY <1>1, <2>2
      <3>2. K - 2 \in G
        <4> HIDE DEF G
        <4> QED BY <1>8, <3>1
      <3> QED BY <3>1, <3>2
    <2> QED BY <2>1, <2>2
  <1> QED BY <1>2, <1>9 DEF E, Ends

(* Calls that do not overlap leave every exception on every CPU with a way *)
(* to the kernel's own handler for its vector, however many modules have   *)
(* put adaptors in front of it, and with no way elsewhere but to that of   *)
(* double or page faults; unless a freed table was cloned.                 *)
THEOREM ExceptionsEnd == ASSUME Serial = TRUE PROVE Spec => []ChainEnds
  <1>1. TypeInv /\ ChainsInv => ChainEnds
    <2> SUFFICES ASSUME TypeInv, Chains, NEW c \in CPUs, NEW v \in Vecs
                 PROVE  Settles(table[idtr[c]][v].hdlr, v)
      BY DEF ChainEnds, ChainsInv
    <2> DEFINE gate == table[idtr[c]][v]
    <2>1. Chained(gate, v) /\ DF \in ErrVecs
      BY ConstantsAssumption DEF Chains, TypeInv, TypeOK
    <2> HIDE DEF gate
    <2>2. ASSUME NEW w, NEW g \in Base(w) PROVE Kernel(w) \in Targets(g) /\ Targets(g) \subseteq Ends(w)
      <3>1. Targets(Kernel(w)) = {Kernel(w)}
        BY WhereTo
      <3>2. \A m \in Mods :
              Targets(Fix(m, w)) = {Kernel(w)} \cup (IF w = DF THEN {Kernel(PF)} ELSE {})
        BY WhereTo
      <3>3. g = Kernel(w) \/ \E m \in Mods : g = Fix(m, w)
        BY <2>2 DEF Base
      <3> QED BY <2>1, <3>1, <3>2, <3>3 DEF Ends
    <2>3. \A g \in Ends(v) : Targets(g) = {g}
      <3>1. \A w : Targets(Kernel(w)) = {Kernel(w)}
        BY WhereTo
      <3> QED BY <3>1 DEF Ends
    <2>4. Kernel(v) \in Ends(v) /\ (v \in ErrVecs => Ends(DF) \subseteq Ends(v))
      BY DEF Ends
    <2>5. Kernel(v) \in Jump(Jump({gate.hdlr})) /\ Jump(Jump({gate.hdlr})) \subseteq Ends(v)
      <3>1. CASE gate.hdlr \in Base(v)
        <4>1. Jump({gate.hdlr}) = Targets(gate.hdlr)
          BY DEF Jump
        <4>2. Kernel(v) \in Jump({gate.hdlr}) /\ Jump({gate.hdlr}) \subseteq Ends(v)
          BY <2>2, <3>1, <4>1
        <4> QED BY <2>3, <4>2 DEF Jump
      <3>2. CASE \E m \in Mods : gate.hdlr = Isr(m, v) /\ Recorder(m, v)
        <4>1. PICK m \in Mods : gate.hdlr = Isr(m, v) /\ Recorder(m, v)
          BY <3>2
        <4>2. Jump({gate.hdlr}) = {orig_isrs[m][v]} \cup
                                  (IF v \in ErrVecs THEN {df_handler_location[m]} ELSE {})
          BY <4>1, WhereTo DEF Jump
        <4>3. /\ Kernel(v) \in Targets(orig_isrs[m][v]) /\ Targets(orig_isrs[m][v]) \subseteq Ends(v)
              /\ v \in ErrVecs => Targets(df_handler_location[m]) \subseteq Ends(v)
          BY <2>2, <2>4, <4>1 DEF Recorder
        <4> QED BY <4>2, <4>3 DEF Jump
      <3> QED BY <2>1, <3>1, <3>2 DEF Chained
    <2>6. Mods = {} => gate.hdlr = Kernel(v)
      BY <2>1 DEF Chained, Base
    <2>7. Settles(gate.hdlr, v)
      BY <2>5, <2>6, TwoStepsSettle
    <2> QED BY <2>7 DEF gate
  <1> QED BY <1>1, TypeInvariant, ChainsInvariant, PTL
-----------------------------------------------------------------------------
(* Calls that do not overlap.                                              *)

Step(u) ==
    \/ \E c \in CPUs, k \in {"pf", "ef"} : Call(u, c, k)
    \/ \E c \in CPUs : \/ ef_adaptor_setup_tss(u, c) \/ load_idt_wrapper(u, c)
                       \/ ef_adaptor_cleanup_tss(u, c)
                       \/ \E p \in Pages : idt_adaptor_clone(u, c, p)
    \/ SetupEnd(u) \/ CloneFails(u) \/ PatchPf(u) \/ PatchEf(u)
    \/ FreeOld(u) \/ SetCurrent(u) \/ idt_adaptor_release(u) \/ CleanEnd(u)

Busy(u) == pc[u] \notin {"idle", "oops"}
Switching(u) == pc[u] \in {"load", "free", "current"}
One == \A u, w \in Callers : Busy(u) /\ Busy(w) => u = w

(* Nobody but u is in a call, and nobody but u moves. *)
Alone(u) == \A w \in Callers : w # u => pc[w] \in {"idle", "oops"} /\ pc'[w] = pc[w]

(* With calls that do not overlap, a step of a call is taken while all     *)
(* others are idle.                                                        *)
LEMMA StepIsAlone ==
    ASSUME Serial = TRUE, TypeInv, One, NEW u \in Callers, Step(u)
    PROVE  Alone(u)
  <1>1. pc \in [Callers -> PCs]
    BY DEF TypeInv, TypeOK
  <1>2. PICK l \in PCs : pc' = pc \/ pc' = [pc EXCEPT ![u] = l]
    <2>1. CASE (\E c \in CPUs, k \in {"pf", "ef"} : Call(u, c, k)) \/ SetupEnd(u) \/ CloneFails(u)
               \/ FreeOld(u) \/ SetCurrent(u) \/ idt_adaptor_release(u) \/ CleanEnd(u)
      BY <2>1 DEF Call, SetupEnd, CloneFails, FreeOld, SetCurrent, idt_adaptor_release,
         CleanEnd, Goto, PCs
    <2>2. CASE PatchPf(u)
      BY <2>2, PfEffects DEF PfEffect, PCs
    <2>3. CASE PatchEf(u)
      BY <2>3, EfEffects DEF EfEffect, PCs
    <2>4. CASE \E c \in CPUs : \/ ef_adaptor_setup_tss(u, c) \/ load_idt_wrapper(u, c)
                               \/ ef_adaptor_cleanup_tss(u, c)
                               \/ \E p \in Pages : idt_adaptor_clone(u, c, p)
      BY <2>4 DEF ef_adaptor_setup_tss, load_idt_wrapper, ef_adaptor_cleanup_tss,
         idt_adaptor_clone, Goto, PCs
    <2> QED BY <2>1, <2>2, <2>3, <2>4 DEF Step
  <1>3. CASE \E c \in CPUs, k \in {"pf", "ef"} : Call(u, c, k)
    BY <1>1, <1>2, <1>3 DEF Call, Alone
  <1>4. CASE Busy(u)
    BY <1>1, <1>2, <1>4 DEF One, Busy, Alone
  <1>5. Busy(u) \/ \E c \in CPUs, k \in {"pf", "ef"} : Call(u, c, k)
    BY DEF Busy, Step, SetupEnd, CloneFails, FreeOld, SetCurrent, idt_adaptor_release,
       CleanEnd, PatchPf, PatchEf, ef_adaptor_setup_tss, load_idt_wrapper,
       ef_adaptor_cleanup_tss, idt_adaptor_clone
  <1> QED BY <1>3, <1>4, <1>5

(* Calls that do not overlap stay so. *)
LEMMA OneStep ==
    ASSUME NEW u \in Callers, Alone(u)
    PROVE  One'
  BY DEF Alone, One, Busy

(* The pages in use: those the modules remember, and the one of the call   *)
(* that is under way.  It is in no table register until it is activated,   *)
(* and no module remembers it.                                             *)
Current == {current_idt[m] : m \in Mods} \ {NoPage}
PagesOf(u) ==
    IF idt[u] = NoPage THEN Current
    ELSE IF pc[u] = "current" THEN (Current \ {current_idt[Mod[u]]}) \cup {idt[u]}
    ELSE Current \cup {idt[u]}
AccountOf(u) ==
    /\ Busy(u) => used = PagesOf(u)
    /\ pc[u] \in Holding => idt[u] \notin Current
    /\ pc[u] \in {"setup", "clone", "clean"} => idt[u] = NoPage
Accounts ==
    /\ doublefree = FALSE
    /\ (\A u \in Callers : ~Busy(u)) => used = Current
    /\ \A m, k \in Mods : current_idt[m] = current_idt[k] /\ current_idt[m] # NoPage => m = k
    /\ \A u \in Callers : AccountOf(u)

(* The table all CPUs use, except during a switch: the boot table, as long *)
(* as no module has activated one, or the table of some module.            *)
Active(t) ==
    \/ t = BootIdt /\ \A m \in Mods : current_idt[m] = NoPage
    \/ t # NoPage /\ \E m \in Mods : current_idt[m] = t
IdtrOf(u) ==
    /\ pc[u] = "load" => \E t \in Tables : Active(t) /\
           \A c \in CPUs : idtr[c] = IF c \in left[u] THEN t ELSE idt[u]
    /\ pc[u] \in {"free", "current"} => \A c \in CPUs : idtr[c] = idt[u]
Idtrs ==
    /\ (\A u \in Callers : ~Switching(u)) =>
           \E t \in Tables : Active(t) /\ \A c \in CPUs : idtr[c] = t
    /\ \A u \in Callers : IdtrOf(u)

(* As soon as some table has a gate on IST7, every CPU has the stack, and  *)
(* no call that takes stacks away is under way.                            *)
HasEf == \E t \in Tables, v \in Vecs : table[t][v].ist = "ef"
StacksOf(u) ==
    /\ pc[u] \in {"clone", "patch"} /\ kind[u] = "ef" => \A c \in CPUs : ist[c]
    /\ pc[u] = "setup" /\ ok[u] => \A c \in CPUs \ left[u] : ist[c]
    /\ pc[u] = "setup" /\ ~ok[u] => ~HasEf
    /\ pc[u] = "clean" => ~HasEf
Stacks ==
    /\ HasEf => \A c \in CPUs : ist[c]
    /\ \A u \in Callers : StacksOf(u)

(* A module that has recorded handlers has none left to record: all its    *)
(* vectors have a stack of their own in the table it remembers, or in the  *)
(* one it is activating.                                                   *)
EfDone(t) == \A v \in EfVecs : table[t][v].ist # "0"
RecordOf(m) ==
    \/ \A v \in Vecs : orig_isrs[m][v] = None
    \/ current_idt[m] # NoPage /\ EfDone(current_idt[m])
    \/ \E u \in Callers : Mod[u] = m /\ Switching(u) /\ EfDone(idt[u])
Inherits(u) ==
    /\ pc[u] = "patch" \/ Switching(u)
    /\ current_idt[Mod[u]] # NoPage /\ EfDone(current_idt[Mod[u]])
    => EfDone(idt[u])
Records == (\A m \in Mods : RecordOf(m)) /\ \A u \in Callers : Inherits(u)

SerialInv == One /\ Accounts /\ Idtrs /\ Records /\ (~dangled => Stacks)

(* The invariant for calls that do not overlap holds at boot. *)
LEMMA SerialInit == Init => SerialInv
  <1> SUFFICES ASSUME Init PROVE SerialInv
    OBVIOUS
  <1> USE ConstantsAssumption DEF Init
  <1>1. One
    BY DEF One, Busy
  <1>2. Current = {}
    BY DEF Current
  <1>3. Accounts
    BY <1>2 DEF Accounts, AccountOf, Busy, Holding
  <1>4. Idtrs
    BY DEF Idtrs, IdtrOf, Active, Tables, Switching
  <1>5. ~HasEf
    <2>1. \A t \in Tables, v \in Vecs : table[t][v] = BootGate(v)
      OBVIOUS
    <2> QED BY <2>1 DEF HasEf, BootGate
  <1>6. Stacks
    BY <1>5 DEF Stacks, StacksOf
  <1>7. Records
    BY DEF Records, RecordOf, Inherits, Switching
  <1> QED BY <1>1, <1>3, <1>4, <1>6, <1>7 DEF SerialInv

(* With one call at a time process_vec never finds another handler than    *)
(* the one it recorded.                                                    *)
LEMMA NothingBad ==
    ASSUME TypeInv, SerialInv, NEW u \in Callers, Alone(u), PatchEf(u)
    PROVE  Bad(u) = {} /\ Done(u) = Mine(u)
  <1>1. pc[u] = "patch" /\ Mod[u] \in Mods
    BY ConstantsAssumption DEF PatchEf
  <1>2. \A w \in Callers : ~Switching(w)
    BY <1>1 DEF Alone, Switching
  <1>3. CASE \A v \in Vecs : orig_isrs[Mod[u]][v] = None
    BY <1>3, ConstantsAssumption DEF Bad, Mine, Done
  <1>4. CASE current_idt[Mod[u]] # NoPage /\ EfDone(current_idt[Mod[u]])
    <2>1. EfDone(idt[u])
      BY <1>1, <1>4 DEF SerialInv, Records, Inherits
    <2> QED BY <2>1 DEF EfDone, Bad, Mine, Done
  <1> QED BY <1>1, <1>2, <1>3, <1>4 DEF SerialInv, Records, RecordOf

(* The steps that leave the pages alone. *)
Quiet(u) ==
    /\ UNCHANGED <<used, current_idt, idt, doublefree>>
    /\ <<pc[u], pc'[u]>> \in {<<"setup", "setup">>, <<"setup", "clone">>, <<"setup", "clean">>,
            <<"clone", "oops">>, <<"patch", "load">>, <<"patch", "release">>, <<"load", "load">>,
            <<"load", "free">>, <<"clean", "clean">>, <<"clean", "idle">>}

(* All steps but these leave the pages alone. *)
LEMMA QuietSteps ==
    ASSUME TypeInv, SerialInv, NEW u \in Callers, Alone(u), Step(u),
           ~\E c \in CPUs, k \in {"pf", "ef"} : Call(u, c, k),
           ~\E c \in CPUs, p \in Pages : idt_adaptor_clone(u, c, p),
           ~FreeOld(u), ~SetCurrent(u), ~idt_adaptor_release(u)
    PROVE  Quiet(u)
  <1>1. pc \in [Callers -> PCs]
    BY DEF TypeInv, TypeOK
  <1>2. CASE PatchPf(u)
    <2>1. pc[u] = "patch"
      BY <1>2 DEF PatchPf
    <2> QED BY <1>1, <1>2, <2>1, PfEffects DEF PfEffect, OnlyTable, Quiet
  <1>3. CASE PatchEf(u)
    <2>1. pc[u] = "patch"
      BY <1>3 DEF PatchEf
    <2> QED BY <1>1, <1>3, <2>1, EfEffects, NothingBad DEF EfEffect, OnlyTable, Quiet
  <1>4. CASE \E c \in CPUs : ef_adaptor_setup_tss(u, c) \/ ef_adaptor_cleanup_tss(u, c)
    BY <1>1, <1>4 DEF ef_adaptor_setup_tss, ef_adaptor_cleanup_tss, Quiet
  <1>5. CASE \E c \in CPUs : load_idt_wrapper(u, c)
    BY <1>1, <1>5 DEF load_idt_wrapper, Goto, Quiet
  <1>6. CASE SetupEnd(u) \/ CloneFails(u)
    BY <1>1, <1>6 DEF SetupEnd, CloneFails, Goto, Quiet
  <1>7. CASE CleanEnd(u)
    <2>1. pc[u] = "clean" /\ idt[u] = NoPage
      BY <1>7 DEF CleanEnd, SerialInv, Accounts, AccountOf
    <2> QED BY <1>1, <1>7, <2>1 DEF CleanEnd, Goto, Quiet
  <1> QED BY <1>2, <1>3, <1>4, <1>5, <1>6, <1>7 DEF Step

(* A call, its clone, and the three steps that give a page up. *)
LEMMA CallStep ==
    ASSUME TypeInv, NEW u \in Callers, NEW c \in CPUs, NEW k \in {"pf", "ef"}, Call(u, c, k)
    PROVE  /\ pc[u] = "idle" /\ pc'[u] = IF k = "ef" THEN "setup" ELSE "clone"
           /\ idt'[u] = NoPage /\ kind'[u] = k /\ ok'[u] = TRUE /\ dirty'[u] = FALSE
           /\ left'[u] = IF k = "ef" THEN CPUs ELSE {}
           /\ UNCHANGED <<table, used, idtr, ist, orig_idt, current_idt, orig_isrs, doublefree>>
  BY DEF Call, Goto, cpuvars, TypeInv, TypeOK

(* Every step keeps the account of pages. *)
LEMMA AccountsStep ==
    ASSUME TypeInv, TypeInv', SerialInv, NEW u \in Callers, Alone(u), Step(u)
    PROVE  Accounts'
  <1> USE ConstantsAssumption
  <1>1. \A w \in Callers : w # u => AccountOf(w)'
    BY DEF Alone, AccountOf, Busy, Holding
  <1>2. /\ Accounts /\ AccountOf(u) /\ doublefree = FALSE /\ Mod[u] \in Mods
        /\ (~Busy(u) => used = Current) /\ (Busy(u) => used = PagesOf(u))
    BY DEF SerialInv, Accounts, AccountOf, Alone, Busy
  <1>3. ASSUME Quiet(u) PROVE Accounts'
    <2>1. Current' = Current
      BY <1>3 DEF Current, Quiet
    <2>2. Busy(u)' => used' = PagesOf(u)'
      BY <1>2, <1>3, <2>1 DEF Quiet, PagesOf, Busy
    <2>3. ~Busy(u)' => used' = Current'
      BY <1>2, <1>3, <2>1 DEF Quiet, PagesOf, Busy, AccountOf
    <2>4. AccountOf(u)'
      BY <1>2, <1>3, <2>1, <2>2 DEF Quiet, AccountOf, Holding
    <2> QED BY <1>1, <1>2, <1>3, <2>3, <2>4 DEF Accounts, Quiet
  <1>4. ASSUME NEW c \in CPUs, NEW k \in {"pf", "ef"}, Call(u, c, k) PROVE Accounts'
    <2>1. Current' = Current
      BY <1>4, CallStep DEF Current
    <2>2. used = Current
      BY <1>2, <1>4, CallStep DEF Busy
    <2>3. AccountOf(u)' /\ Busy(u)'
      BY <1>4, <2>1, <2>2, CallStep DEF AccountOf, Busy, PagesOf, Holding
    <2>4. UNCHANGED <<current_idt, doublefree>>
      BY <1>4, CallStep
    <2> QED BY <1>1, <1>2, <2>3, <2>4 DEF Accounts
  <1>5. ASSUME NEW c \in CPUs, NEW p \in Pages, idt_adaptor_clone(u, c, p) PROVE Accounts'
    <2>1. Current' = Current
      BY <1>5, CloneStep DEF Current
    <2>2. used = Current /\ p \notin Current
      BY <1>2, <1>5, CloneStep DEF Busy, AccountOf, PagesOf
    <2>3. AccountOf(u)' /\ Busy(u)'
      BY <1>5, <2>1, <2>2, CloneStep DEF AccountOf, Busy, PagesOf, Holding
    <2> QED BY <1>1, <1>2, <1>5, <2>3, CloneStep DEF Accounts
  <1>6. ASSUME FreeOld(u) PROVE Accounts'
    <2>1. /\ pc[u] = "free" /\ pc'[u] = "current" /\ UNCHANGED <<current_idt, idt>>
          /\ IF current_idt[Mod[u]] # NoPage
             THEN /\ used' = used \ {current_idt[Mod[u]]}
                  /\ doublefree' = (doublefree \/ current_idt[Mod[u]] \notin used)
             ELSE UNCHANGED <<used, doublefree>>
      BY <1>6 DEF FreeOld, Free, Goto, TypeInv, TypeOK
    <2>2. Current' = Current /\ NoPage \notin Current
      BY <2>1 DEF Current
    <2>3. used = Current \cup {idt[u]} /\ idt[u] \notin Current /\ idt[u] \in Pages
      BY <1>2, <2>1 DEF Busy, AccountOf, PagesOf, Holding, TypeInv
    <2>4. current_idt[Mod[u]] # NoPage => current_idt[Mod[u]] \in Current
      BY <1>2 DEF Current
    <2>5. doublefree' = FALSE
      BY <1>2, <2>1, <2>3, <2>4
    <2>6. used' = (Current \ {current_idt[Mod[u]]}) \cup {idt[u]}
      BY <2>1, <2>2, <2>3, <2>4
    <2>7. AccountOf(u)' /\ Busy(u)'
      BY <2>1, <2>2, <2>3, <2>6 DEF AccountOf, Busy, PagesOf, Holding
    <2> QED BY <1>1, <1>2, <2>1, <2>5, <2>7 DEF Accounts
  <1>7. ASSUME SetCurrent(u) PROVE Accounts'
    <2>1. /\ pc[u] = "current" /\ pc'[u] = "idle" /\ UNCHANGED <<used, doublefree>>
          /\ \A m \in Mods : current_idt'[m] = IF m = Mod[u] THEN idt[u] ELSE current_idt[m]
      BY <1>7 DEF SetCurrent, Goto, TypeInv, TypeOK
    <2>2. /\ idt[u] \notin Current /\ idt[u] \in Pages
          /\ used = (Current \ {current_idt[Mod[u]]}) \cup {idt[u]}
      BY <1>2, <2>1 DEF Busy, AccountOf, PagesOf, Holding, TypeInv
    <2>3. \A m, k \in Mods : current_idt'[m] = current_idt'[k] /\ current_idt'[m] # NoPage => m = k
      <3>1. \A m \in Mods : current_idt[m] # idt[u]
        BY <2>2 DEF Current
      <3> QED BY <1>2, <2>1, <3>1 DEF Accounts
    <2>4. used' = Current'
      <3>1. ASSUME NEW x \in Current' PROVE x \in used
        <4>1. PICK m \in Mods : x = current_idt'[m] /\ x # NoPage
          BY <3>1 DEF Current
        <4>2. m # Mod[u] => current_idt[m] # current_idt[Mod[u]]
          BY <1>2, <2>1, <4>1 DEF Accounts
        <4> QED BY <2>1, <2>2, <4>1, <4>2 DEF Current
      <3>2. ASSUME NEW x \in used PROVE x \in Current'
        <4>1. CASE x = idt[u]
          BY <1>2, <2>1, <2>2, <4>1 DEF Current
        <4>2. CASE x \in Current \ {current_idt[Mod[u]]}
          <5>1. PICK m \in Mods : x = current_idt[m] /\ x # NoPage
            BY <4>2 DEF Current
          <5> QED BY <2>1, <4>2, <5>1 DEF Current
        <4> QED BY <2>2, <4>1, <4>2
      <3> QED BY <2>1, <3>1, <3>2
    <2>5. AccountOf(u)'
      BY <2>1 DEF AccountOf, Busy, Holding
    <2> QED BY <1>1, <1>2, <2>1, <2>3, <2>4, <2>5 DEF Accounts
  <1>8. ASSUME idt_adaptor_release(u) PROVE Accounts'
    <2>1. /\ pc[u] = "release" /\ pc'[u] = "idle" /\ UNCHANGED current_idt
          /\ used' = used \ {idt[u]} /\ doublefree' = (doublefree \/ idt[u] \notin used)
      BY <1>8 DEF idt_adaptor_release, Free, Goto, TypeInv, TypeOK
    <2>2. used = Current \cup {idt[u]} /\ idt[u] \notin Current
      BY <1>2, <2>1 DEF Busy, AccountOf, PagesOf, Holding, TypeInv
    <2>3. Current' = Current /\ used' = Current /\ doublefree' = FALSE
      BY <1>2, <2>1, <2>2 DEF Current
    <2>4. AccountOf(u)'
      BY <2>1 DEF AccountOf, Busy, Holding
    <2> QED BY <1>1, <1>2, <2>1, <2>3, <2>4 DEF Accounts
  <1> QED BY <1>3, <1>4, <1>5, <1>6, <1>7, <1>8, QuietSteps

(* Every step keeps the IDTRs on the table of the call or on the one it    *)
(* replaces.                                                               *)
LEMMA IdtrsStep ==
    ASSUME TypeInv, SerialInv, NEW u \in Callers, Alone(u), Step(u)
    PROVE  Idtrs'
  <1>1. \A w \in Callers : w # u => ~Switching(w) /\ ~Switching(w)' /\ IdtrOf(w)'
    BY DEF Alone, Switching, IdtrOf
  <1>2. /\ IdtrOf(u) /\ Mod[u] \in Mods
        /\ ~Switching(u) => \E t \in Tables : Active(t) /\ \A c \in CPUs : idtr[c] = t
    BY <1>1, ConstantsAssumption DEF SerialInv, Idtrs
  <1>3. CASE UNCHANGED <<idtr, current_idt>> /\ ~Switching(u) /\ ~Switching(u)'
    <2>1. \A t : Active(t)' <=> Active(t)
      BY <1>3 DEF Active
    <2>2. \E t \in Tables : Active(t)' /\ \A c \in CPUs : idtr'[c] = t
      BY <1>2, <1>3, <2>1
    <2>3. IdtrOf(u)'
      BY <1>3 DEF IdtrOf, Switching
    <2> QED BY <1>1, <2>2, <2>3 DEF Idtrs
  <1>4. CASE PatchPf(u) \/ PatchEf(u)
    <2>1. pc \in [Callers -> PCs] /\ left \in [Callers -> SUBSET CPUs]
      BY DEF TypeInv, TypeOK
    <2>2. pc[u] = "patch" /\ UNCHANGED <<idtr, current_idt>>
          /\ (pc'[u] = "release" \/ (pc'[u] = "load" /\ left'[u] = CPUs))
      <3>1. CASE PatchPf(u)
        <4>1. PfEffect(u) /\ pc[u] = "patch"
          BY <3>1, PfEffects DEF PatchPf
        <4> QED BY <2>1, <4>1 DEF PfEffect, OnlyTable
      <3>2. CASE PatchEf(u)
        <4>1. EfEffect(u) /\ pc[u] = "patch" /\ Bad(u) = {}
          BY <3>2, EfEffects, NothingBad DEF PatchEf
        <4> QED BY <2>1, <4>1 DEF EfEffect, OnlyTable
      <3> QED BY <1>4, <3>1, <3>2
    <2>3. CASE pc'[u] = "release"
      BY <1>3, <2>2, <2>3 DEF Switching
    <2>4. CASE pc'[u] = "load" /\ left'[u] = CPUs
      <3>1. PICK t \in Tables : Active(t) /\ \A c \in CPUs : idtr[c] = t
        BY <1>2, <2>2 DEF Switching
      <3>2. Active(t)' /\ \A c \in CPUs : idtr'[c] = IF c \in left'[u] THEN t ELSE idt'[u]
        BY <2>2, <2>4, <3>1 DEF Active
      <3>3. IdtrOf(u)' /\ Switching(u)'
        BY <2>4, <3>2 DEF IdtrOf, Switching
      <3> QED BY <1>1, <3>3 DEF Idtrs
    <2> QED BY <2>2, <2>3, <2>4
  <1>5. CASE \E c \in CPUs : load_idt_wrapper(u, c)
    <2>1. PICK c \in CPUs : load_idt_wrapper(u, c)
      BY <1>5
    <2>2. /\ pc[u] = "load" /\ c \in left[u] /\ UNCHANGED <<current_idt, idt>>
          /\ left'[u] = left[u] \ {c} /\ pc'[u] = IF left[u] = {c} THEN "free" ELSE "load"
          /\ \A d \in CPUs : idtr'[d] = IF d = c THEN idt[u] ELSE idtr[d]
      BY <2>1 DEF load_idt_wrapper, Goto, TypeInv, TypeOK
    <2>3. PICK t \in Tables : Active(t) /\
              \A d \in CPUs : idtr[d] = IF d \in left[u] THEN t ELSE idt[u]
      BY <1>2, <2>2 DEF IdtrOf
    <2>4. /\ Active(t)'
          /\ \A d \in CPUs : idtr'[d] = IF d \in left'[u] THEN t ELSE idt'[u]
      BY <2>2, <2>3 DEF Active
    <2>5. left[u] = {c} => \A d \in CPUs : idtr'[d] = idt'[u]
      BY <2>2, <2>4
    <2>6. IdtrOf(u)' /\ Switching(u)'
      BY <2>2, <2>4, <2>5 DEF IdtrOf, Switching
    <2> QED BY <1>1, <2>6 DEF Idtrs
  <1>6. CASE FreeOld(u)
    <2>1. pc[u] = "free" /\ pc'[u] = "current" /\ UNCHANGED <<idtr, idt>>
      BY <1>6 DEF FreeOld, Goto, cpuvars, TypeInv, TypeOK
    <2>2. IdtrOf(u)' /\ Switching(u)'
      BY <1>2, <2>1 DEF IdtrOf, Switching
    <2> QED BY <1>1, <2>2 DEF Idtrs
  <1>7. CASE SetCurrent(u)
    <2>1. /\ pc[u] = "current" /\ pc'[u] = "idle" /\ UNCHANGED idtr
          /\ current_idt'[Mod[u]] = idt[u] /\ idt[u] \in Pages
      BY <1>2, <1>7 DEF SetCurrent, Goto, cpuvars, TypeInv, TypeOK, Holding
    <2>2. PICK t \in Tables : t = idt[u]
      BY <2>1 DEF Tables
    <2>3. Active(t)' /\ \A c \in CPUs : idtr'[c] = t
      BY <1>2, <2>1, <2>2, ConstantsAssumption DEF Active, IdtrOf
    <2>4. IdtrOf(u)'
      BY <2>1 DEF IdtrOf
    <2> QED BY <1>1, <2>3, <2>4 DEF Idtrs
  <1>8. CASE \/ \E c \in CPUs, k \in {"pf", "ef"} : Call(u, c, k)
             \/ \E c \in CPUs : \/ ef_adaptor_setup_tss(u, c) \/ ef_adaptor_cleanup_tss(u, c)
                                \/ \E p \in Pages : idt_adaptor_clone(u, c, p)
             \/ SetupEnd(u) \/ CloneFails(u) \/ idt_adaptor_release(u) \/ CleanEnd(u)
    <2>1. pc \in [Callers -> PCs]
      BY DEF TypeInv, TypeOK
    <2>2. UNCHANGED <<idtr, current_idt>> /\ ~Switching(u) /\ ~Switching(u)'
      BY <1>8, <2>1 DEF Call, ef_adaptor_setup_tss, ef_adaptor_cleanup_tss, idt_adaptor_clone,
         SetupEnd, CloneFails, idt_adaptor_release, CleanEnd, Goto, cpuvars, Switching
    <2> QED BY <1>3, <2>2
  <1> QED BY <1>4, <1>5, <1>6, <1>7, <1>8 DEF Step

(* A copy of a table, or a pf adaptor's, puts no gate on IST7. *)
LEMMA NoNewEf ==
    ASSUME NEW u \in Callers, \A t \in Tables : \E s \in Tables : \A v \in Vecs :
               table'[t][v].ist = table[s][v].ist
    PROVE  HasEf' => HasEf
  BY DEF HasEf

(* Every step keeps a stack behind the gates on IST7. *)
LEMMA StacksStep ==
    ASSUME TypeInv, SerialInv, NEW u \in Callers, Alone(u), Step(u), ~dangled'
    PROVE  Stacks'
  <1>1. \A w \in Callers : w # u => StacksOf(w)'
    BY DEF Alone, StacksOf
  <1>2. StacksOf(u) /\ (HasEf => \A c \in CPUs : ist[c])
    <2>1. Next
      BY DEF Step, Next
    <2>2. ~dangled
      BY <2>1, DangledStays
    <2> QED BY <2>2 DEF SerialInv, Stacks
  <1>3. ASSUME NEW c \in CPUs, ef_adaptor_setup_tss(u, c) PROVE Stacks'
    <2>1. /\ pc[u] = "setup" /\ c \in left[u] /\ UNCHANGED <<table, pc, kind>>
          /\ left'[u] = left[u] \ {c}
      BY <1>3 DEF ef_adaptor_setup_tss, TypeInv, TypeOK
    <2>2. HasEf' <=> HasEf
      BY <2>1 DEF HasEf
    <2>3. CASE ist' = [ist EXCEPT ![c] = TRUE] /\ UNCHANGED ok
      <3>1. \A d \in CPUs : d = c \/ ist[d] => ist'[d]
        BY <2>3 DEF TypeInv, TypeOK
      <3> QED BY <1>1, <1>2, <2>1, <2>2, <2>3, <3>1 DEF Stacks, StacksOf
    <2>4. CASE ~ist[c] /\ ok' = [ok EXCEPT ![u] = FALSE] /\ UNCHANGED ist
      <3>1. ~HasEf /\ ~ok'[u]
        BY <1>2, <2>4 DEF TypeInv, TypeOK
      <3> QED BY <1>1, <2>1, <2>2, <3>1 DEF Stacks, StacksOf
    <2> QED BY <1>3, <2>3, <2>4 DEF ef_adaptor_setup_tss
  <1>4. ASSUME NEW c \in CPUs, ef_adaptor_cleanup_tss(u, c) PROVE Stacks'
    <2>1. pc[u] = "clean" /\ UNCHANGED <<table, pc>>
      BY <1>4 DEF ef_adaptor_cleanup_tss
    <2>2. ~HasEf' /\ ~HasEf
      BY <1>2, <2>1 DEF HasEf, StacksOf
    <2> QED BY <1>1, <2>1, <2>2 DEF Stacks, StacksOf
  <1>5. ASSUME SetupEnd(u) PROVE Stacks'
    <2>1. /\ pc[u] = "setup" /\ left[u] = {} /\ UNCHANGED <<table, ist, ok>>
          /\ pc'[u] = IF ok[u] THEN "clone" ELSE "clean"
      BY <1>5 DEF SetupEnd, Goto, cpuvars, callvars, TypeInv, TypeOK
    <2>2. HasEf' <=> HasEf
      BY <2>1 DEF HasEf
    <2> QED BY <1>1, <1>2, <2>1, <2>2 DEF Stacks, StacksOf
  <1>6. ASSUME NEW c \in CPUs, NEW p \in Pages, idt_adaptor_clone(u, c, p) PROVE Stacks'
    <2>1. \A t \in Tables : \E s \in Tables : table'[t] = table[s]
      BY <1>6, CloneStep
    <2>2. HasEf' => HasEf
      BY <2>1, NoNewEf
    <2>3. pc[u] = "clone" /\ pc'[u] = "patch" /\ UNCHANGED <<ist, kind>>
      BY <1>6, CloneStep
    <2> QED BY <1>1, <1>2, <2>2, <2>3 DEF Stacks, StacksOf
  <1>7. ASSUME PatchPf(u) PROVE Stacks'
    <2>1. PfEffect(u) /\ pc[u] = "patch" /\ pc \in [Callers -> PCs]
      BY <1>7, PfEffects DEF PatchPf, TypeInv, TypeOK
    <2>2. \A t \in Tables, v \in Vecs : table'[t][v].ist = table[t][v].ist
      BY <2>1 DEF PfEffect, OnlyTable
    <2>3. HasEf' => HasEf
      BY <2>2, NoNewEf
    <2>4. UNCHANGED ist /\ pc'[u] \in {"load", "release"}
      BY <2>1 DEF PfEffect, OnlyTable
    <2> QED BY <1>1, <1>2, <2>3, <2>4 DEF Stacks, StacksOf
  <1>8. ASSUME PatchEf(u) PROVE Stacks'
    <2>1. EfEffect(u) /\ Bad(u) = {} /\ pc[u] = "patch" /\ kind[u] = "ef" /\ pc \in [Callers -> PCs]
      BY <1>8, EfEffects, NothingBad DEF PatchEf, TypeInv, TypeOK
    <2>2. UNCHANGED ist /\ pc'[u] \in {"load", "release"}
      BY <2>1 DEF EfEffect, OnlyTable
    <2>3. \A c \in CPUs : ist[c]
      BY <1>2, <2>1 DEF StacksOf
    <2> QED BY <1>1, <2>2, <2>3 DEF Stacks, StacksOf
  <1>9. ASSUME NEW c \in CPUs, NEW k \in {"pf", "ef"}, Call(u, c, k) PROVE Stacks'
    <2>1. /\ pc'[u] = IF k = "ef" THEN "setup" ELSE "clone"
          /\ kind'[u] = k /\ ok'[u] = TRUE /\ left'[u] = (IF k = "ef" THEN CPUs ELSE {})
          /\ UNCHANGED <<table, ist>>
      BY <1>9, CallStep
    <2>2. HasEf' <=> HasEf
      BY <2>1 DEF HasEf
    <2> QED BY <1>1, <1>2, <2>1, <2>2 DEF Stacks, StacksOf
  <1>10. ASSUME \/ \E c \in CPUs : load_idt_wrapper(u, c)
                \/ CloneFails(u) \/ FreeOld(u) \/ SetCurrent(u) \/ idt_adaptor_release(u)
                \/ CleanEnd(u)
         PROVE  Stacks'
    <2>1. /\ UNCHANGED <<table, ist>>
          /\ pc'[u] \in {"oops", "load", "free", "current", "idle", "release"}
      BY <1>10 DEF load_idt_wrapper, CloneFails, FreeOld, SetCurrent, idt_adaptor_release,
         CleanEnd, Goto, cpuvars, TypeInv, TypeOK
    <2>2. HasEf' <=> HasEf
      BY <2>1 DEF HasEf
    <2> QED BY <1>1, <1>2, <2>1, <2>2 DEF Stacks, StacksOf
  <1> QED BY <1>3, <1>4, <1>5, <1>6, <1>7, <1>8, <1>9, <1>10 DEF Step

(* Every step keeps what the modules recorded in line with their tables. *)
LEMMA RecordsStep ==
    ASSUME TypeInv, SerialInv, NEW u \in Callers, Alone(u), Step(u)
    PROVE  Records'
  <1> USE ConstantsAssumption
  <1>1. \A w \in Callers : w # u => ~Switching(w) /\ ~Switching(w)' /\ Inherits(w)'
    BY DEF Alone, Switching, Inherits
  <1>2. Inherits(u) /\ Mod[u] \in Mods /\ \A m \in Mods : RecordOf(m)
    BY DEF SerialInv, Records
  <1>3. \A m \in Mods : current_idt[m] # NoPage => current_idt[m] \in Current /\ current_idt[m] \in Tables
    BY DEF Current, TypeInv, TypeOK, Tables
  (* When neither the records nor the tables the modules remember change. *)
  <1>4. ASSUME UNCHANGED <<orig_isrs, current_idt>>,
               \A m \in Mods : current_idt[m] # NoPage =>
                    \A v \in Vecs : table'[current_idt[m]][v].ist = table[current_idt[m]][v].ist,
               Switching(u) => Switching(u)' /\ (EfDone(idt[u]) => EfDone(idt[u])')
        PROVE  \A m \in Mods : RecordOf(m)' /\ (current_idt'[m] # NoPage =>
                    (EfDone(current_idt[m])' <=> EfDone(current_idt[m])))
    <2> SUFFICES ASSUME NEW m \in Mods
                 PROVE  RecordOf(m)' /\ (current_idt'[m] # NoPage =>
                            (EfDone(current_idt[m])' <=> EfDone(current_idt[m])))
      OBVIOUS
    <2>1. current_idt[m] # NoPage => (EfDone(current_idt[m])' <=> EfDone(current_idt[m]))
      BY <1>4 DEF EfDone
    <2>2. CASE \A v \in Vecs : orig_isrs[m][v] = None
      BY <1>4, <2>1, <2>2 DEF RecordOf
    <2>3. CASE current_idt[m] # NoPage /\ EfDone(current_idt[m])
      BY <1>4, <2>1, <2>3 DEF RecordOf
    <2>4. CASE \E w \in Callers : Mod[w] = m /\ Switching(w) /\ EfDone(idt[w])
      <3>1. Mod[u] = m /\ Switching(u) /\ EfDone(idt[u])
        BY <1>1, <2>4
      <3> QED BY <1>4, <2>1, <3>1 DEF RecordOf
    <2> QED BY <1>2, <2>2, <2>3, <2>4 DEF RecordOf
  <1>5. ASSUME UNCHANGED <<table, orig_isrs, current_idt, idt>>,
               Switching(u) => Switching(u)',
               pc'[u] = "patch" \/ Switching(u)' => pc[u] = "patch" \/ Switching(u)
        PROVE  Records'
    <2>1. EfDone(idt[u])' <=> EfDone(idt[u])
      BY <1>5 DEF EfDone
    <2>2. \A m \in Mods : RecordOf(m)' /\ (current_idt'[m] # NoPage =>
                    (EfDone(current_idt[m])' <=> EfDone(current_idt[m])))
      BY <1>4, <1>5, <2>1
    <2>3. Inherits(u)'
      BY <1>2, <1>5, <2>1, <2>2 DEF Inherits
    <2> QED BY <1>1, <2>2, <2>3 DEF Records
  <1>6. ASSUME NEW c \in CPUs, NEW k \in {"pf", "ef"}, Call(u, c, k) PROVE Records'
    <2>1. /\ pc[u] = "idle" /\ pc'[u] \in {"setup", "clone"}
          /\ UNCHANGED <<table, orig_isrs, current_idt>>
      BY <1>6, CallStep
    <2>2. \A m \in Mods : RecordOf(m)'
      BY <1>4, <2>1 DEF Switching
    <2>3. Inherits(u)'
      BY <2>1 DEF Inherits, Switching
    <2> QED BY <1>1, <2>2, <2>3 DEF Records
  <1>7. ASSUME NEW c \in CPUs, NEW p \in Pages, idt_adaptor_clone(u, c, p) PROVE Records'
    <2>1. /\ pc[u] = "clone" /\ pc'[u] = "patch" /\ p \notin used /\ idt'[u] = p
          /\ \A t \in Tables : t # p => table'[t] = table[t]
          /\ CloneSource(u, c) \in used \cup {BootIdt} => table'[p] = table[CloneSource(u, c)]
          /\ UNCHANGED <<orig_isrs, current_idt>>
      BY <1>7, CloneStep
    <2>2. used = Current
      BY <2>1 DEF SerialInv, Accounts, AccountOf, Busy, PagesOf
    <2>3. \A m \in Mods : current_idt[m] # NoPage => table'[current_idt[m]] = table[current_idt[m]]
      BY <1>3, <2>1, <2>2
    <2>4. \A m \in Mods : RecordOf(m)'
      BY <1>4, <2>1, <2>3 DEF Switching
    <2>5. current_idt[Mod[u]] # NoPage => table'[idt'[u]] = table'[current_idt'[Mod[u]]]
      BY <1>2, <1>3, <2>1, <2>2, <2>3 DEF CloneSource
    <2>6. Inherits(u)'
      BY <2>1, <2>5 DEF Inherits, EfDone
    <2> QED BY <1>1, <2>4, <2>6 DEF Records
  <1>8. ASSUME PatchPf(u) PROVE Records'
    <2>1. PfEffect(u) /\ pc[u] = "patch"
      BY <1>8, PfEffects DEF PatchPf
    <2>2. \A t \in Tables, v \in Vecs : table'[t][v].ist = table[t][v].ist
      BY <2>1 DEF PfEffect, OnlyTable
    <2>3. UNCHANGED <<orig_isrs, current_idt, idt>> /\ idt[u] \in Tables
      BY <2>1 DEF PfEffect, OnlyTable, Tables
    <2>4. \A m \in Mods : RecordOf(m)' /\ (current_idt'[m] # NoPage =>
                    (EfDone(current_idt[m])' <=> EfDone(current_idt[m])))
      BY <1>3, <1>4, <2>1, <2>2, <2>3 DEF Switching
    <2>5. EfDone(idt[u])' <=> EfDone(idt[u])
      BY <2>2, <2>3 DEF EfDone
    <2>6. Inherits(u)'
      BY <1>2, <2>1, <2>3, <2>4, <2>5 DEF Inherits
    <2> QED BY <1>1, <2>4, <2>6 DEF Records
  <1>9. ASSUME PatchEf(u) PROVE Records'
    <2>1. EfEffect(u) /\ pc[u] = "patch" /\ Bad(u) = {} /\ Done(u) = Mine(u)
          /\ pc \in [Callers -> PCs]
      BY <1>9, EfEffects, NothingBad DEF PatchEf, TypeInv, TypeOK
    <2>2. UNCHANGED <<current_idt, idt>> /\ idt[u] \in Tables /\ idt[u] \notin Current
      BY <2>1 DEF EfEffect, OnlyTable, Tables, SerialInv, Accounts, AccountOf, Holding
    <2>3. \A m \in Mods : current_idt[m] # NoPage => table'[current_idt[m]] = table[current_idt[m]]
      BY <1>3, <2>1, <2>2 DEF EfEffect, OnlyTable
    <2>4. EfDone(idt[u])'
      <3> SUFFICES ASSUME NEW v \in EfVecs PROVE table'[idt[u]][v].ist # "0"
        BY <2>2 DEF EfDone
      <3>1. CASE v \in Mine(u)
        BY <2>1, <3>1 DEF EfEffect
      <3>2. CASE v \notin Mine(u)
        BY <2>1, <3>2 DEF EfEffect, Mine
      <3> QED BY <3>1, <3>2
    <2>5. Inherits(u)'
      BY <2>4 DEF Inherits
    <2>6. CASE Done(u) = {}
      <3>1. \A m \in Mods, v \in Vecs : orig_isrs'[m][v] = orig_isrs[m][v]
        BY <2>1, <2>6 DEF EfEffect
      <3>2. ~Switching(u)
        BY <2>1 DEF Switching
      <3>3. ASSUME NEW m \in Mods PROVE RecordOf(m)'
        <4>1. CASE \A v \in Vecs : orig_isrs[m][v] = None
          BY <3>1, <4>1 DEF RecordOf
        <4>2. CASE current_idt[m] # NoPage /\ EfDone(current_idt[m])
          BY <2>2, <2>3, <4>2 DEF RecordOf, EfDone
        <4> QED BY <1>1, <1>2, <3>2, <4>1, <4>2 DEF RecordOf
      <3> QED BY <1>1, <2>5, <3>3 DEF Records
    <2>7. CASE Done(u) # {}
      <3>1. Switching(u)' /\ ~Switching(u)
        BY <2>1, <2>7 DEF EfEffect, Switching
      <3>2. ASSUME NEW m \in Mods PROVE RecordOf(m)'
        <4>1. CASE m = Mod[u]
          BY <2>4, <3>1, <4>1 DEF RecordOf
        <4>2. CASE m # Mod[u] /\ \A v \in Vecs : orig_isrs[m][v] = None
          BY <2>1, <4>2 DEF RecordOf, EfEffect
        <4>3. CASE current_idt[m] # NoPage /\ EfDone(current_idt[m])
          BY <2>2, <2>3, <4>3 DEF RecordOf, EfDone
        <4> QED BY <1>1, <1>2, <3>1, <4>1, <4>2, <4>3 DEF RecordOf
      <3> QED BY <1>1, <2>5, <3>2 DEF Records
    <2> QED BY <2>6, <2>7
  <1>10. ASSUME SetCurrent(u) PROVE Records'
    <2>1. /\ pc[u] = "current" /\ pc'[u] = "idle" /\ UNCHANGED <<table, orig_isrs>>
          /\ \A m \in Mods : current_idt'[m] = IF m = Mod[u] THEN idt[u] ELSE current_idt[m]
          /\ idt[u] \in Pages
      BY <1>10 DEF SetCurrent, Goto, TypeInv, TypeOK, Holding
    <2>2. ASSUME NEW m \in Mods PROVE RecordOf(m)'
      <3>1. CASE \A v \in Vecs : orig_isrs[m][v] = None
        BY <2>1, <3>1 DEF RecordOf
      <3>2. CASE m = Mod[u] /\ ~\A v \in Vecs : orig_isrs[m][v] = None
        <4>1. EfDone(idt[u])
          BY <1>1, <1>2, <2>1, <3>2 DEF RecordOf, Inherits, Switching
        <4>2. current_idt'[m] # NoPage /\ EfDone(current_idt[m])'
          BY <2>1, <3>2, <4>1 DEF EfDone
        <4> QED BY <4>2 DEF RecordOf
      <3>3. CASE m # Mod[u] /\ current_idt[m] # NoPage /\ EfDone(current_idt[m])
        BY <2>1, <3>3 DEF RecordOf, EfDone
      <3> QED BY <1>1, <1>2, <3>1, <3>2, <3>3 DEF RecordOf
    <2>3. Inherits(u)'
      BY <2>1 DEF Inherits, Switching
    <2> QED BY <1>1, <2>2, <2>3 DEF Records
  <1>11. CASE \/ \E c \in CPUs : \/ ef_adaptor_setup_tss(u, c) \/ ef_adaptor_cleanup_tss(u, c)
                                 \/ load_idt_wrapper(u, c)
              \/ SetupEnd(u) \/ CloneFails(u) \/ FreeOld(u) \/ idt_adaptor_release(u) \/ CleanEnd(u)
    <2>1. pc \in [Callers -> PCs]
      BY DEF TypeInv, TypeOK
    <2>2. /\ UNCHANGED <<table, orig_isrs, current_idt, idt>>
          /\ Switching(u) => Switching(u)'
          /\ pc'[u] = "patch" \/ Switching(u)' => pc[u] = "patch" \/ Switching(u)
      BY <1>11, <2>1 DEF load_idt_wrapper, ef_adaptor_setup_tss, ef_adaptor_cleanup_tss,
         SetupEnd, CloneFails, FreeOld, idt_adaptor_release, CleanEnd, Goto, Switching
    <2> QED BY <1>5, <2>2
  <1> QED BY <1>6, <1>7, <1>8, <1>9, <1>10, <1>11 DEF Step

(* The invariant for calls that do not overlap holds throughout. *)
LEMMA SerialInvariant ==
    ASSUME Serial = TRUE PROVE Spec => []SerialInv
  <1>1. TypeInv /\ TypeInv' /\ SerialInv /\ [Next]_vars => SerialInv'
    <2> SUFFICES ASSUME TypeInv, TypeInv', SerialInv, [Next]_vars PROVE SerialInv'
      OBVIOUS
    <2>1. CASE UNCHANGED vars
      <3>1. One' /\ Accounts'
        BY <2>1 DEF vars, SerialInv, One, Busy, Accounts, AccountOf, PagesOf, Current
      <3>2. Idtrs'
        BY <2>1 DEF vars, cpuvars, SerialInv, Idtrs, IdtrOf, Active, Switching
      <3>3. ~dangled' => Stacks'
        BY <2>1 DEF vars, cpuvars, callvars, SerialInv, Stacks, StacksOf, HasEf, seedvars
      <3>4. Records'
        BY <2>1 DEF vars, SerialInv, Records, RecordOf, Inherits, Switching, EfDone
      <3> QED BY <3>1, <3>2, <3>3, <3>4 DEF SerialInv
    <2>2. ASSUME NEW u \in Callers, Step(u) PROVE SerialInv'
      <3>1. Alone(u)
        BY <2>2, StepIsAlone DEF SerialInv
      <3> QED BY <2>2, <3>1, OneStep, AccountsStep, IdtrsStep, StacksStep, RecordsStep DEF SerialInv
    <2> QED BY <2>1, <2>2 DEF Next, Step
  <1> QED BY <1>1, SerialInit, TypeInvariant, PTL DEF Spec

(* What a caller that is in a call knows of the others. *)
LEMMA OnlyBusy ==
    ASSUME One, NEW u \in Callers, Busy(u)
    PROVE  \A w \in Callers : w # u => ~Busy(w) /\ ~Switching(w)
  BY DEF One, Busy, Switching

(* The bookkeeping implies that the tables in use are allocated. *)
LEMMA BookedTables ==
    ASSUME TypeInv, SerialInv PROVE IdtrLive
  <1> USE ConstantsAssumption
  <1>1. \A t \in Tables : Active(t) => t = BootIdt \/ t \in Current
    BY DEF Active, Current
  <1>2. CASE \A u \in Callers : ~Busy(u)
    <2>1. used = Current /\ \A u \in Callers : ~Switching(u)
      BY <1>2 DEF SerialInv, Accounts, Busy, Switching
    <2>2. \A c \in CPUs : idtr[c] \in used \cup {BootIdt}
      BY <1>1, <2>1 DEF SerialInv, Idtrs
    <2> QED BY <1>2, <2>2 DEF IdtrLive, Busy
  <1>3. ASSUME NEW u \in Callers, Busy(u) PROVE IdtrLive
    <2>1. /\ \A w \in Callers : w # u => ~Busy(w) /\ ~Switching(w)
          /\ AccountOf(u) /\ IdtrOf(u) /\ used = PagesOf(u)
      BY <1>3, OnlyBusy DEF SerialInv, Accounts, AccountOf, Idtrs
    <2>2. CASE ~Switching(u)
      <3>1. PICK t \in Tables : Active(t) /\ \A c \in CPUs : idtr[c] = t
        BY <2>1, <2>2 DEF SerialInv, Idtrs
      <3>2. Current \subseteq used
        BY <2>1, <2>2 DEF PagesOf, Switching
      <3>3. pc[u] \in {"patch", "release", "clean"} => t # idt[u]
        BY <1>1, <2>1, <3>1 DEF AccountOf, Holding, TypeInv, Tables
      <3> QED BY <1>1, <2>1, <3>1, <3>2, <3>3 DEF IdtrLive, Busy
    <2>3. CASE Switching(u)
      <3>1. idt[u] \in Pages /\ idt[u] \in used
        BY <2>1, <2>3 DEF PagesOf, Switching, TypeInv, Holding
      <3>2. pc[u] = "load" => Current \subseteq used
        BY <2>1 DEF PagesOf
      <3>3. \A c \in CPUs : idtr[c] \in used \cup {BootIdt}
        BY <1>1, <2>1, <2>3, <3>1, <3>2 DEF IdtrOf, Switching
      <3> QED BY <2>1, <2>3, <3>3 DEF IdtrLive, Busy, Switching
    <2> QED BY <2>2, <2>3
  <1> QED BY <1>2, <1>3

(* No CPU ever takes an exception through a table that was given back, nor *)
(* through one that a call is still filling in.                            *)
THEOREM TablesStayAlive == ASSUME Serial = TRUE PROVE Spec => []IdtrLive
  BY BookedTables, TypeInvariant, SerialInvariant, PTL

(* A gate that a CPU can take on IST7 finds a stack there on that CPU,     *)
(* also after allocations of stacks have failed for this or another call,  *)
(* unless a freed table was cloned.                                        *)
THEOREM StacksAreThere == ASSUME Serial = TRUE PROVE Spec => []IstBacked
  <1>1. TypeInv /\ SerialInv => IstBacked
    BY DEF TypeInv, TypeOK, SerialInv, Stacks, HasEf, IstBacked
  <1> QED BY <1>1, TypeInvariant, SerialInvariant, PTL

(* Between calls all CPUs use one table, that of the module that activated *)
(* last, and no page was freed twice or forgotten.                         *)
THEOREM CallsSettle == ASSUME Serial = TRUE PROVE Spec => []Settled
  <1>1. TypeInv /\ SerialInv => Settled
    <2> SUFFICES ASSUME TypeInv, SerialInv, \A u \in Callers : pc[u] = "idle"
                 PROVE  /\ \A c, d \in CPUs : idtr[c] = idtr[d]
                        /\ ~doublefree
                        /\ used = Current
                        /\ Cardinality(Mods) = 1 => \A c \in CPUs, m \in Mods :
                              idtr[c] = IF current_idt[m] = NoPage THEN BootIdt ELSE current_idt[m]
      BY DEF Settled, Current
    <2>1. \A u \in Callers : ~Busy(u) /\ ~Switching(u)
      BY DEF Busy, Switching
    <2>2. used = Current /\ ~doublefree
      BY <2>1 DEF SerialInv, Accounts
    <2>3. PICK t \in Tables : Active(t) /\ \A c \in CPUs : idtr[c] = t
      BY <2>1 DEF SerialInv, Idtrs
    <2>4. ASSUME Cardinality(Mods) = 1, NEW c \in CPUs, NEW m \in Mods
          PROVE  idtr[c] = IF current_idt[m] = NoPage THEN BootIdt ELSE current_idt[m]
      <3>1. Mods = {m}
        BY <2>4, FS_Singleton, ConstantsAssumption
      <3> QED BY <2>3, <3>1 DEF Active
    <2> QED BY <2>2, <2>3, <2>4
  <1> QED BY <1>1, TypeInvariant, SerialInvariant, PTL
-----------------------------------------------------------------------------
(* Adaptors stay: an argument about the vectors a table has adapted.       *)

EfMine == EfVecs \ IstVecs
AllVecs == PfVecs \cup EfMine
TwoKinds == PfVecs # {} /\ EfMine # {}
Ad(gates) == {v \in Vecs : gates[v].hdlr # Kernel(v)}

(* The pf adaptor leaves no vector of its own with the kernel, the ef      *)
(* adaptor none without a stack.                                           *)
Shape(gates) ==
    /\ \A v \in Vecs : gates[v].ist = "kernel" <=> v \in IstVecs
    /\ \A v \in Vecs, m \in Mods : gates[v].hdlr = Fix(m, v) =>
           v \in PfVecs /\ PfVecs \subseteq Ad(gates)
    /\ \A v \in Vecs : gates[v].ist = "ef" =>
           v \in EfMine /\ \A w \in EfMine : gates[w].ist = "ef"
    /\ \A v \in Vecs : gates[v].ist = "ef" <=> \E m \in Mods : gates[v].hdlr = Isr(m, v)
    /\ \A v \in Vecs : v \in Ad(gates) =>
           gates[v].ist = "ef" \/ \E m \in Mods : gates[v].hdlr = Fix(m, v)

(* A table that was ever activated has an adaptor, and the one that is     *)
(* being activated has all of those in use.                                *)
Adapts ==
    /\ \A t \in Tables : Shape(table[t])
    /\ Ad(table[BootIdt]) = {}
    /\ \A m \in Mods : current_idt[m] # NoPage => Ad(table[current_idt[m]]) # {}
    /\ \A u \in Callers : Switching(u) =>
           /\ Ad(table[idt[u]]) # {}
           /\ \A c \in CPUs : Ad(table[idtr[c]]) \subseteq Ad(table[idt[u]])

(* The table a module found first is cloned again as long as it has not    *)
(* activated one of its own.  It may be stale, or given back and taken by  *)
(* another call, but it has an adaptor if any table in use has.            *)
OriginOf(m) ==
    orig_idt[m] # NoPage /\ current_idt[m] = NoPage =>
        \/ Ad(table[orig_idt[m]]) # {}
        \/ \E u \in Callers : /\ Mod[u] = m
                              /\ Switching(u) \/ (pc[u] = "patch" /\ Ad(table[idt[u]]) = {})
Origins ==
    /\ \A m \in Mods : orig_idt[m] \notin {NoPage, BootIdt} => \E k \in Mods : current_idt[k] # NoPage
    /\ TwoKinds => \A m \in Mods : OriginOf(m)
    /\ TwoKinds => \A u \in Callers : pc[u] = "patch" =>
           Ad(table[idt[u]]) # {} \/ \A c \in CPUs : Ad(table[idtr[c]]) = {}
AdaptsInv == ~dangled => Adapts /\ Origins

(* What the ef adaptor leaves as it is counts too: a table without a gate  *)
(* on IST7 has all of EfMine to be done.                                   *)
LEMMA ShapeFacts ==
    ASSUME NEW g \in [Vecs -> Gate], Shape(g)
    PROVE  /\ Ad(g) \subseteq AllVecs
           /\ \A v \in EfMine : g[v].ist \in {"0", "ef"}
           /\ \A v \in EfVecs : g[v].ist = "0" => v \in EfMine
           /\ \A v \in Vecs : g[v].ist = "ef" => EfMine \subseteq Ad(g)
  <1> USE ConstantsAssumption
  <1>1. Ad(g) \subseteq AllVecs
    BY DEF Shape, Ad, AllVecs
  <1>2. \A v \in EfMine : g[v].ist \in {"0", "ef"}
    BY DEF Shape, EfMine, Gate
  <1>3. \A v \in EfVecs : g[v].ist = "0" => v \in EfMine
    BY DEF Shape, EfMine
  <1>4. ASSUME NEW v \in Vecs, g[v].ist = "ef", NEW w \in EfMine PROVE w \in Ad(g)
    <2>1. w \in Vecs /\ g[w].ist = "ef"
      BY <1>4 DEF Shape, EfMine
    <2>2. PICK m \in Mods : g[w].hdlr = Isr(m, w)
      BY <2>1 DEF Shape
    <2> QED BY <2>1, <2>2, HandlersDiffer DEF Ad
  <1> QED BY <1>1, <1>2, <1>3, <1>4

(* What a patch adds to a table: it keeps its shape and its adaptors; if   *)
(* it is then activated it has all adaptors there can be, or it had none   *)
(* before; and one that had none is activated if both kinds have vectors.  *)
Adds(u) ==
    LET g == table[idt[u]]
        h == table'[idt[u]]
    IN /\ Shape(h) /\ Ad(g) \subseteq Ad(h)
       /\ pc'[u] = "load" => Ad(h) # {} /\ (AllVecs \subseteq Ad(h) \/ (TwoKinds /\ Ad(g) = {}))
       /\ TwoKinds /\ Ad(g) = {} => pc'[u] = "load"

(* pf_adaptor_init's patch keeps every gate that is adapted. *)
LEMMA PfAdds ==
    ASSUME TypeInv, TypeInv', Adapts, NEW u \in Callers, PatchPf(u)
    PROVE  Adds(u)
  <1> USE ConstantsAssumption
  <1> DEFINE g == table[idt[u]]
             h == table'[idt[u]]
  <1>1. PfEffect(u) /\ Mod[u] \in Mods /\ idt[u] \in Tables
    BY PfEffects DEF PfEffect, OnlyTable, Tables
  <1>2. g \in [Vecs -> Gate] /\ h \in [Vecs -> Gate] /\ Shape(g)
    BY <1>1 DEF TypeInv, TypeOK, Adapts
  <1>3. \A v \in Vecs : /\ v \in Clean(u) => h[v].hdlr = Fix(Mod[u], v) /\ h[v].ist = g[v].ist
                        /\ v \notin Clean(u) => h[v] = g[v]
    BY <1>1 DEF PfEffect
  <1>4. Clean(u) = PfVecs \ Ad(g)
    BY DEF Clean, Ad
  <1>5. (Clean(u) # {} /\ Alien(u) = {}) <=> pc'[u] = "load"
    <2>1. pc \in [Callers -> PCs]
      BY DEF TypeInv, TypeOK
    <2>2. pc' = [pc EXCEPT ![u] = IF Clean(u) # {} /\ Alien(u) = {} THEN "load" ELSE "release"]
      BY <1>1 DEF PfEffect
    <2> QED BY <2>1, <2>2
  <1>6. Ad(g) = {} => Clean(u) = PfVecs /\ Alien(u) = {}
    BY <1>4 DEF Alien
  <1> HIDE DEF g, h
  <1>7. Ad(h) = Ad(g) \cup PfVecs
    <2>1. ASSUME NEW v \in Vecs PROVE v \in Ad(h) <=> v \in Ad(g) \/ v \in Clean(u)
      <3>1. CASE v \in Clean(u)
        <4>1. h[v].hdlr # Kernel(v)
          BY <1>3, <3>1, HandlersDiffer
        <4> QED BY <3>1, <4>1 DEF Ad
      <3>2. CASE v \notin Clean(u)
        BY <1>3, <3>2 DEF Ad
      <3> QED BY <3>1, <3>2
    <2>2. Ad(h) \subseteq Vecs /\ Ad(g) \subseteq Vecs
      BY DEF Ad
    <2> QED BY <1>4, <2>1, <2>2
  <1>8. \A v \in Vecs : h[v].ist = g[v].ist
    BY <1>3
  <1>9. Shape(h)
    <2>1. \A v \in Vecs : h[v].ist = "kernel" <=> v \in IstVecs
      BY <1>2, <1>8 DEF Shape
    <2>2. \A v \in Vecs, m \in Mods : h[v].hdlr = Fix(m, v) =>
             v \in PfVecs /\ PfVecs \subseteq Ad(h)
      BY <1>2, <1>3, <1>4, <1>7 DEF Shape
    <2>3. \A v \in Vecs : h[v].ist = "ef" =>
             v \in EfMine /\ \A w \in EfMine : h[w].ist = "ef"
      BY <1>2, <1>8 DEF Shape, EfMine
    <2>4. ASSUME NEW v \in Vecs PROVE h[v].ist = "ef" <=> \E m \in Mods : h[v].hdlr = Isr(m, v)
      <3>1. CASE v \in Clean(u)
        <4>1. g[v].hdlr = Kernel(v) /\ h[v].hdlr = Fix(Mod[u], v)
          BY <1>3, <3>1 DEF Clean, g
        <4>2. \A m \in Mods : g[v].hdlr # Isr(m, v) /\ h[v].hdlr # Isr(m, v)
          BY <4>1, HandlersDiffer
        <4> QED BY <1>2, <1>8, <4>2 DEF Shape
      <3>2. CASE v \notin Clean(u)
        BY <1>2, <1>3, <3>2 DEF Shape
      <3> QED BY <3>1, <3>2
    <2>5. \A v \in Vecs : v \in Ad(h) =>
             h[v].ist = "ef" \/ \E m \in Mods : h[v].hdlr = Fix(m, v)
      BY <1>1, <1>2, <1>3, <1>4, <1>7 DEF Shape
    <2> QED BY <2>1, <2>2, <2>3, <2>4, <2>5 DEF Shape
  <1>10. ASSUME Clean(u) # {}
         PROVE  Ad(h) # {} /\ (AllVecs \subseteq Ad(h) \/ (TwoKinds /\ Ad(g) = {}))
    <2>1. CASE Ad(g) = {}
      BY <1>4, <1>7, <1>10, <2>1 DEF AllVecs, TwoKinds
    <2>2. CASE Ad(g) # {}
      <3>1. PICK v \in Vecs : v \in Ad(g)
        BY <2>2 DEF Ad
      <3>2. g[v].ist = "ef"
        BY <1>2, <1>4, <1>10, <3>1 DEF Shape
      <3> QED BY <1>2, <1>7, <3>1, <3>2, ShapeFacts DEF AllVecs
    <2> QED BY <2>1, <2>2
  <1>11. Shape(h) /\ Ad(g) \subseteq Ad(h)
    BY <1>7, <1>9
  <1>12. pc'[u] = "load" => Ad(h) # {} /\ (AllVecs \subseteq Ad(h) \/ (TwoKinds /\ Ad(g) = {}))
    BY <1>5, <1>10
  <1>13. TwoKinds /\ Ad(g) = {} => pc'[u] = "load"
    BY <1>5, <1>6 DEF TwoKinds
  <1> QED BY <1>11, <1>12, <1>13 DEF Adds, g, h

(* ef_adaptor_init's patch keeps every gate that is adapted. *)
LEMMA EfAdds ==
    ASSUME TypeInv, TypeInv', Adapts, SerialInv, NEW u \in Callers, Alone(u), PatchEf(u)
    PROVE  Adds(u)
  <1> USE ConstantsAssumption
  <1> DEFINE g == table[idt[u]]
             h == table'[idt[u]]
  <1>1. /\ EfEffect(u) /\ Mod[u] \in Mods /\ idt[u] \in Tables
        /\ Bad(u) = {} /\ Done(u) = Mine(u)
    BY EfEffects, NothingBad DEF EfEffect, OnlyTable, Tables
  <1>2. g \in [Vecs -> Gate] /\ h \in [Vecs -> Gate] /\ Shape(g)
    BY <1>1 DEF TypeInv, TypeOK, Adapts
  <1>3. \A v \in Vecs : /\ v \in Mine(u) => h[v].hdlr = Isr(Mod[u], v) /\ h[v].ist = "ef"
                        /\ v \notin Mine(u) => h[v] = g[v]
    BY <1>1 DEF EfEffect
  <1>4. Mine(u) = {v \in EfVecs : g[v].ist = "0"}
    BY DEF Mine
  <1>5. Mine(u) # {} <=> pc'[u] = "load"
    <2>1. pc \in [Callers -> PCs]
      BY DEF TypeInv, TypeOK
    <2>2. pc' = [pc EXCEPT ![u] = IF Mine(u) # {} THEN "load" ELSE "release"]
      BY <1>1 DEF EfEffect
    <2> QED BY <2>1, <2>2
  <1> HIDE DEF g, h
  <1>6. Mine(u) \subseteq EfMine /\ Mine(u) \subseteq Vecs
    BY <1>2, <1>4, ShapeFacts
  <1>7. Ad(h) = Ad(g) \cup Mine(u)
    <2>1. ASSUME NEW v \in Vecs PROVE v \in Ad(h) <=> v \in Ad(g) \/ v \in Mine(u)
      <3>1. CASE v \in Mine(u)
        <4>1. h[v].hdlr # Kernel(v)
          BY <1>3, <3>1, HandlersDiffer
        <4> QED BY <3>1, <4>1 DEF Ad
      <3>2. CASE v \notin Mine(u)
        BY <1>3, <3>2 DEF Ad
      <3> QED BY <3>1, <3>2
    <2>2. Ad(h) \subseteq Vecs /\ Ad(g) \subseteq Vecs
      BY DEF Ad
    <2> QED BY <1>6, <2>1, <2>2
  <1>8. Mine(u) # {} => Mine(u) = EfMine /\ \A v \in Vecs : g[v].ist # "ef"
    <2> SUFFICES ASSUME Mine(u) # {} PROVE Mine(u) = EfMine /\ \A v \in Vecs : g[v].ist # "ef"
      OBVIOUS
    <2>1. PICK w \in Mine(u) : w \in EfMine /\ g[w].ist = "0"
      BY <1>4, <1>6
    <2>2. \A v \in Vecs : g[v].ist # "ef"
      BY <1>2, <2>1 DEF Shape
    <2>3. EfMine \subseteq Mine(u)
      <3> SUFFICES ASSUME NEW v \in EfMine PROVE v \in Mine(u)
        OBVIOUS
      <3>1. v \in EfVecs /\ v \in Vecs /\ g[v].ist \in {"0", "ef"}
        BY <1>2, ShapeFacts DEF EfMine
      <3> QED BY <1>4, <2>2, <3>1
    <2> QED BY <1>6, <2>2, <2>3
  <1>9. Ad(g) = {} => \A v \in Vecs : g[v].ist # "ef"
    <2> SUFFICES ASSUME Ad(g) = {}, NEW v \in Vecs, g[v].ist = "ef" PROVE FALSE
      OBVIOUS
    <2>1. v \in EfMine /\ EfMine \subseteq Ad(g)
      BY <1>2, ShapeFacts DEF Shape
    <2> QED BY <2>1
  <1>10. Shape(h)
    <2>1. CASE Mine(u) = {}
      <3>1. h = [v \in Vecs |-> h[v]] /\ g = [v \in Vecs |-> g[v]]
        BY <1>2
      <3>2. [v \in Vecs |-> h[v]] = [v \in Vecs |-> g[v]]
        BY <1>3, <2>1
      <3>3. h = g
        BY <3>1, <3>2
      <3> QED BY <1>2, <3>3
    <2>2. CASE Mine(u) # {}
      <3>1. \A v \in Vecs : h[v].ist = "ef" <=> v \in EfMine
        BY <1>3, <1>8, <2>2
      <3>2. \A v \in Vecs : h[v].ist = "kernel" <=> v \in IstVecs
        BY <1>2, <1>3, <1>8, <2>2 DEF Shape, EfMine
      <3>3. ASSUME NEW v \in Vecs, NEW m \in Mods, h[v].hdlr = Fix(m, v)
            PROVE  v \in PfVecs /\ PfVecs \subseteq Ad(h)
        <4>1. v \notin Mine(u)
          BY <1>3, <3>3, HandlersDiffer
        <4>2. g[v].hdlr = Fix(m, v)
          BY <1>3, <3>3, <4>1
        <4> QED BY <1>2, <1>7, <4>2 DEF Shape
      <3>4. ASSUME NEW v \in Vecs PROVE h[v].ist = "ef" <=> \E m \in Mods : h[v].hdlr = Isr(m, v)
        <4>1. CASE v \in Mine(u)
          BY <1>1, <1>3, <4>1
        <4>2. CASE v \notin Mine(u)
          BY <1>2, <1>3, <4>2 DEF Shape
        <4> QED BY <4>1, <4>2
      <3>5. ASSUME NEW v \in Vecs, v \in Ad(h)
            PROVE  h[v].ist = "ef" \/ \E m \in Mods : h[v].hdlr = Fix(m, v)
        <4>1. CASE v \in Mine(u)
          BY <1>3, <4>1
        <4>2. CASE v \notin Mine(u)
          BY <1>2, <1>3, <1>7, <3>5, <4>2 DEF Shape
        <4> QED BY <4>1, <4>2
      <3>6. EfMine \subseteq Vecs
        BY DEF EfMine
      <3> QED BY <3>1, <3>2, <3>3, <3>4, <3>5, <3>6 DEF Shape
    <2> QED BY <2>1, <2>2
  <1>11. ASSUME Mine(u) # {}
         PROVE  Ad(h) # {} /\ (AllVecs \subseteq Ad(h) \/ (TwoKinds /\ Ad(g) = {}))
    <2>1. CASE Ad(g) = {}
      BY <1>7, <1>8, <1>11, <2>1 DEF AllVecs, TwoKinds
    <2>2. CASE Ad(g) # {}
      <3>1. PICK v \in Vecs : v \in Ad(g)
        BY <2>2 DEF Ad
      <3>2. PfVecs \subseteq Ad(g)
        BY <1>2, <1>8, <1>11, <3>1 DEF Shape
      <3> QED BY <1>7, <1>8, <1>11, <3>1, <3>2 DEF AllVecs
    <2> QED BY <2>1, <2>2
  <1>12. Ad(g) = {} => Mine(u) = EfMine
    <2> SUFFICES ASSUME Ad(g) = {}, NEW v \in EfMine PROVE v \in Mine(u)
      BY <1>6
    <2>1. v \in EfVecs /\ v \in Vecs /\ g[v].ist \in {"0", "ef"}
      BY <1>2, ShapeFacts DEF EfMine
    <2> QED BY <1>4, <1>9, <2>1
  <1>13. TwoKinds /\ Ad(g) = {} => pc'[u] = "load"
    BY <1>5, <1>12 DEF TwoKinds
  <1>14. Ad(g) \subseteq Ad(h)
    BY <1>7
  <1> QED BY <1>5, <1>10, <1>11, <1>13, <1>14 DEF Adds, g, h

(* No gate is adapted at boot. *)
LEMMA AdaptsInit == Init => Adapts /\ Origins
  <1> SUFFICES ASSUME Init PROVE Adapts /\ Origins
    OBVIOUS
  <1> USE ConstantsAssumption
  <1>1. ASSUME NEW t \in Tables PROVE Ad(table[t]) = {} /\ Shape(table[t])
    <2>1. \A v \in Vecs : /\ table[t][v].hdlr = Kernel(v)
                          /\ table[t][v].ist = IF v \in IstVecs THEN "kernel" ELSE "0"
      <3>1. \A v \in Vecs : table[t][v] = BootGate(v)
        BY DEF Init
      <3> SUFFICES ASSUME NEW v \in Vecs
                   PROVE  /\ table[t][v].hdlr = Kernel(v)
                          /\ table[t][v].ist = IF v \in IstVecs THEN "kernel" ELSE "0"
        OBVIOUS
      <3>2. table[t][v] = [hdlr |-> Kernel(v), ist |-> IF v \in IstVecs THEN "kernel" ELSE "0"]
        BY <3>1 DEF BootGate
      <3> HIDE DEF Kernel
      <3> QED BY <3>2
    <2>2. Ad(table[t]) = {}
      BY <2>1 DEF Ad
    <2>3. \A v \in Vecs, m \in Mods : table[t][v].hdlr # Fix(m, v) /\ table[t][v].hdlr # Isr(m, v)
      BY <2>1, HandlersDiffer
    <2> QED BY <2>1, <2>2, <2>3 DEF Shape
  <1>2. \A u \in Callers : ~Switching(u)
    BY DEF Init, Switching
  <1>3. Adapts
    BY <1>1, <1>2 DEF Init, Adapts, Tables
  <1>4. Origins
    BY DEF Init, Origins, OriginOf
  <1> QED BY <1>3, <1>4

(* The steps that touch neither a table nor what names one. *)
LEMMA AdaptsSame ==
    ASSUME Adapts, Origins, NEW u \in Callers, Alone(u),
           UNCHANGED <<table, current_idt, orig_idt, idtr>>,
           pc[u] # "patch", pc'[u] # "patch", ~Switching(u), ~Switching(u)'
    PROVE  Adapts' /\ Origins'
  <1>1. \A w \in Callers : ~Switching(w)' /\ ~Switching(w) /\ pc'[w] # "patch" /\ pc[w] # "patch"
    BY DEF Alone, Switching
  <1>2. Adapts'
    BY <1>1 DEF Adapts
  <1>3. \A m \in Mods : OriginOf(m) => OriginOf(m)'
    BY <1>1 DEF OriginOf
  <1>4. Origins'
    BY <1>1, <1>3 DEF Origins
  <1> QED BY <1>2, <1>4

(* A clone has the gates of the table it was made of. *)
LEMMA AdaptsClone ==
    ASSUME TypeInv, SerialInv, Adapts, Origins, NEW u \in Callers, Alone(u),
           NEW c \in CPUs, NEW p \in Pages, idt_adaptor_clone(u, c, p), ~dangled'
    PROVE  Adapts' /\ Origins'
  <1> USE ConstantsAssumption
  <1> DEFINE src == CloneSource(u, c)
  <1>1. /\ pc[u] = "clone" /\ pc'[u] = "patch" /\ p \notin used /\ idt'[u] = p /\ src \in Tables
        /\ table'[p] = table[src] /\ \A t \in Tables : t # p => table'[t] = table[t]
        /\ \A m \in Mods : orig_idt'[m] = IF m = Mod[u] /\ current_idt[m] = NoPage
                                          THEN src ELSE orig_idt[m]
        /\ UNCHANGED <<idtr, current_idt>>
    BY CloneStep
  <1>2. /\ src = IF current_idt[Mod[u]] # NoPage THEN current_idt[Mod[u]]
                 ELSE IF orig_idt[Mod[u]] # NoPage THEN orig_idt[Mod[u]] ELSE idtr[c]
    BY DEF CloneSource
  <1> HIDE DEF src
  <1>3. /\ used = Current /\ Mod[u] \in Mods /\ BootIdt # p /\ BootIdt \in Tables
        /\ \A m \in Mods : current_idt[m] # NoPage => current_idt[m] # p /\ current_idt[m] \in Tables
    <2>1. used = Current
      BY <1>1 DEF SerialInv, Accounts, AccountOf, Busy, PagesOf
    <2> QED BY <1>1, <2>1 DEF Current, TypeInv, TypeOK, Tables
  <1>4. \A w \in Callers : /\ ~Switching(w)' /\ ~Switching(w) /\ pc[w] # "patch"
                           /\ pc'[w] = "patch" => w = u
    BY <1>1 DEF Alone, Switching
  <1>5. PICK t \in Tables : Active(t) /\ \A d \in CPUs : idtr[d] = t
    BY <1>4 DEF SerialInv, Idtrs
  <1>6. t # p
    BY <1>3, <1>5 DEF Active
  <1>7. Adapts'
    <2>1. \A s \in Tables : Shape(table'[s])
      BY <1>1 DEF Adapts
    <2>2. Ad(table'[BootIdt]) = {}
      BY <1>1, <1>3 DEF Adapts
    <2>3. \A m \in Mods : current_idt'[m] # NoPage => Ad(table'[current_idt'[m]]) # {}
      BY <1>1, <1>3 DEF Adapts
    <2> QED BY <1>4, <2>1, <2>2, <2>3 DEF Adapts
  <1>8. ASSUME NEW m \in Mods, orig_idt'[m] \notin {NoPage, BootIdt}
        PROVE  \E k \in Mods : current_idt'[k] # NoPage
    BY <1>1, <1>2, <1>5, <1>8 DEF Origins, Active
  <1>9. ASSUME TwoKinds
        PROVE  Ad(table[src]) # {} \/ (Ad(table[t]) = {} /\ \A k \in Mods : current_idt[k] = NoPage)
    <2>1. CASE current_idt[Mod[u]] # NoPage
      BY <1>2, <1>3, <2>1 DEF Adapts
    <2>2. CASE current_idt[Mod[u]] = NoPage /\ orig_idt[Mod[u]] # NoPage
      <3>1. OriginOf(Mod[u])
        BY <1>3, <1>9 DEF Origins
      <3> QED BY <1>2, <1>4, <2>2, <3>1 DEF OriginOf
    <2>3. CASE current_idt[Mod[u]] = NoPage /\ orig_idt[Mod[u]] = NoPage
      <3>1. src = t
        BY <1>2, <1>5, <2>3
      <3> QED BY <1>5, <3>1 DEF Active, Adapts
    <2> QED BY <2>1, <2>2, <2>3
  <1>10. ASSUME TwoKinds, NEW m \in Mods PROVE OriginOf(m)'
    <2> SUFFICES ASSUME orig_idt'[m] # NoPage, current_idt'[m] = NoPage, Ad(table'[orig_idt'[m]]) = {}
                 PROVE  m = Mod[u] /\ Ad(table'[p]) = {}
      BY <1>1 DEF OriginOf
    <2>1. CASE m = Mod[u]
      <3>1. orig_idt'[m] = src
        BY <1>1, <2>1
      <3>2. table'[src] = table[src]
        BY <1>1
      <3> QED BY <1>1, <2>1, <3>1, <3>2
    <2>2. CASE m # Mod[u]
      <3>1. orig_idt[m] # NoPage /\ current_idt[m] = NoPage /\ orig_idt'[m] = orig_idt[m]
        BY <1>1, <2>2
      <3>2. OriginOf(m)
        BY <1>10 DEF Origins
      <3>3. Ad(table[orig_idt[m]]) # {}
        BY <1>4, <3>1, <3>2 DEF OriginOf
      <3>4. orig_idt[m] \in Tables
        BY <3>1 DEF TypeInv, TypeOK
      <3>5. orig_idt[m] = p
        BY <1>1, <3>1, <3>3, <3>4
      <3>6. \E k \in Mods : current_idt[k] # NoPage
        BY <1>3, <3>1, <3>5 DEF Origins
      <3> QED BY <1>1, <1>9, <1>10, <3>1, <3>5, <3>6
    <2> QED BY <2>1, <2>2
  <1>11. ASSUME TwoKinds PROVE Ad(table'[p]) # {} \/ \A d \in CPUs : Ad(table'[idtr'[d]]) = {}
    BY <1>1, <1>5, <1>6, <1>9, <1>11
  <1>12. Origins'
    BY <1>1, <1>4, <1>8, <1>10, <1>11 DEF Origins
  <1> QED BY <1>7, <1>12

(* Patching a clone leaves the tables in use alone. *)
LEMMA AdaptsPatch ==
    ASSUME TypeInv, TypeInv', SerialInv, Adapts, Origins, NEW u \in Callers, Alone(u),
           PatchPf(u) \/ PatchEf(u)
    PROVE  Adapts' /\ Origins'
  <1> USE ConstantsAssumption
  <1>1. Adds(u) /\ OnlyTable(u) /\ pc[u] = "patch" /\ Mod[u] \in Mods
    BY PfAdds, EfAdds, PfEffects, EfEffects DEF PfEffect, EfEffect, PatchPf, PatchEf
  <1>2. pc'[u] \in {"load", "release"}
    <2>1. pc \in [Callers -> PCs]
      BY DEF TypeInv, TypeOK
    <2>2. CASE PatchPf(u)
      BY <2>1, <2>2, PfEffects DEF PfEffect
    <2>3. CASE PatchEf(u)
      BY <2>1, <2>3, EfEffects, NothingBad DEF EfEffect
    <2> QED BY <2>2, <2>3
  <1>3. /\ idt[u] \in Pages /\ idt[u] \in Tables /\ idt[u] # BootIdt
        /\ \A t \in Tables : t # idt[u] => table'[t] = table[t]
        /\ UNCHANGED <<idtr, orig_idt, current_idt, idt>>
    BY <1>1 DEF OnlyTable, Tables
  <1>4. \A m \in Mods : current_idt[m] # NoPage => current_idt[m] # idt[u] /\ current_idt[m] \in Tables
    BY <1>1 DEF SerialInv, Accounts, AccountOf, Holding, Current, TypeInv, TypeOK, Tables
  <1>5. \A d \in CPUs : idtr[d] # idt[u] /\ idtr[d] \in Tables
    BY <1>1, BookedTables DEF IdtrLive, TypeInv, TypeOK
  <1>6. /\ Shape(table'[idt[u]]) /\ Ad(table[idt[u]]) \subseteq Ad(table'[idt[u]])
        /\ pc'[u] = "load" => /\ Ad(table'[idt[u]]) # {}
                              /\ \/ AllVecs \subseteq Ad(table'[idt[u]])
                                 \/ TwoKinds /\ Ad(table[idt[u]]) = {}
        /\ TwoKinds /\ Ad(table[idt[u]]) = {} => pc'[u] = "load"
    BY <1>1 DEF Adds
  <1>7. \A w \in Callers : w # u => ~Switching(w)' /\ ~Switching(w) /\ pc'[w] # "patch" /\ pc[w] # "patch"
    BY DEF Alone, Switching
  <1>8. ~Switching(u) /\ (Switching(u)' <=> pc'[u] = "load") /\ pc'[u] # "patch"
    BY <1>1, <1>2 DEF Switching
  <1>9. \A t \in Tables : Ad(table[t]) \subseteq Ad(table'[t])
    BY <1>3, <1>6
  <1>10. ASSUME pc'[u] = "load", NEW d \in CPUs PROVE Ad(table'[idtr'[d]]) \subseteq Ad(table'[idt'[u]])
    <2>1. table'[idtr'[d]] = table[idtr[d]] /\ idt'[u] = idt[u]
      BY <1>3, <1>5
    <2>2. CASE AllVecs \subseteq Ad(table'[idt[u]])
      <3>1. table[idtr[d]] \in [Vecs -> Gate] /\ Shape(table[idtr[d]])
        BY <1>5 DEF TypeInv, TypeOK, Adapts
      <3>2. Ad(table[idtr[d]]) \subseteq AllVecs
        BY <3>1, ShapeFacts
      <3> QED BY <2>1, <2>2, <3>2
    <2>3. CASE TwoKinds /\ Ad(table[idt[u]]) = {}
      BY <1>1, <2>1, <2>3 DEF Origins
    <2> QED BY <1>6, <1>10, <2>2, <2>3
  <1>11. Adapts'
    <2>1. \A t \in Tables : Shape(table'[t])
      BY <1>3, <1>6 DEF Adapts
    <2>2. Ad(table'[BootIdt]) = {}
      BY <1>3 DEF Adapts, Tables
    <2>3. \A m \in Mods : current_idt'[m] # NoPage => Ad(table'[current_idt'[m]]) # {}
      BY <1>3, <1>4 DEF Adapts
    <2>4. Switching(u)' => Ad(table'[idt'[u]]) # {}
      BY <1>3, <1>6, <1>8
    <2> QED BY <1>7, <1>8, <1>10, <2>1, <2>2, <2>3, <2>4 DEF Adapts
  <1>12. ASSUME TwoKinds, NEW m \in Mods PROVE OriginOf(m)'
    <2> SUFFICES ASSUME orig_idt[m] # NoPage, current_idt[m] = NoPage
                 PROVE  \/ Ad(table'[orig_idt[m]]) # {}
                        \/ Mod[u] = m /\ Switching(u)'
      BY <1>3 DEF OriginOf
    <2>1. orig_idt[m] \in Tables
      BY DEF TypeInv, TypeOK
    <2>2. Ad(table[orig_idt[m]]) # {} \/ (Mod[u] = m /\ Ad(table[idt[u]]) = {})
      <3>1. OriginOf(m)
        BY <1>12 DEF Origins
      <3> QED BY <1>7, <1>8, <3>1 DEF OriginOf
    <2> QED BY <1>6, <1>8, <1>9, <1>12, <2>1, <2>2
  <1>13. Origins'
    BY <1>3, <1>7, <1>8, <1>12 DEF Origins
  <1> QED BY <1>11, <1>13

(* Switching a CPU takes it to a table with all the gates of its old one,  *)
(* and more.                                                               *)
LEMMA AdaptsSwitch ==
    ASSUME TypeInv, SerialInv, Adapts, Origins, NEW u \in Callers, Alone(u),
           (\E c \in CPUs : load_idt_wrapper(u, c)) \/ FreeOld(u) \/ SetCurrent(u)
    PROVE  Adapts' /\ Origins'
  <1> USE ConstantsAssumption
  <1>1. Switching(u) /\ idt[u] \in Pages /\ UNCHANGED <<table, orig_idt, idt>> /\ Mod[u] \in Mods
    BY DEF load_idt_wrapper, FreeOld, SetCurrent, Switching, TypeInv, Holding
  <1>2. \A w \in Callers : w # u => ~Switching(w)' /\ ~Switching(w) /\ pc'[w] # "patch" /\ pc[w] # "patch"
    BY DEF Alone, Switching
  <1>3. /\ Ad(table[idt[u]]) # {}
        /\ \A d \in CPUs : Ad(table[idtr[d]]) \subseteq Ad(table[idt[u]])
    BY <1>1 DEF Adapts
  <1>4. CASE (\E c \in CPUs : load_idt_wrapper(u, c)) \/ FreeOld(u)
    <2>1. /\ UNCHANGED current_idt /\ Switching(u)' /\ pc'[u] # "patch"
          /\ \A d \in CPUs : idtr'[d] = idtr[d] \/ idtr'[d] = idt[u]
      BY <1>4 DEF load_idt_wrapper, FreeOld, Goto, Switching, cpuvars, TypeInv, TypeOK
    <2>2. \A d \in CPUs : Ad(table'[idtr'[d]]) \subseteq Ad(table'[idt'[u]])
      BY <1>1, <1>3, <2>1
    <2>3. Adapts'
      BY <1>1, <1>2, <1>3, <2>1, <2>2 DEF Adapts
    <2>4. \A m \in Mods : OriginOf(m) => OriginOf(m)'
      BY <1>1, <1>2, <2>1 DEF OriginOf
    <2>5. Origins'
      BY <1>1, <1>2, <2>1, <2>4 DEF Origins
    <2> QED BY <2>3, <2>5
  <1>5. CASE SetCurrent(u)
    <2>1. /\ pc'[u] = "idle" /\ UNCHANGED idtr
          /\ \A m \in Mods : current_idt'[m] = IF m = Mod[u] THEN idt[u] ELSE current_idt[m]
      BY <1>5 DEF SetCurrent, Goto, cpuvars, TypeInv, TypeOK
    <2>2. ~Switching(u)' /\ pc'[u] # "patch"
      BY <2>1 DEF Switching
    <2>3. \A m \in Mods : current_idt'[m] # NoPage => Ad(table'[current_idt'[m]]) # {}
      BY <1>1, <1>3, <2>1 DEF Adapts
    <2>4. Adapts'
      BY <1>1, <1>2, <2>2, <2>3 DEF Adapts
    <2>5. \A m \in Mods : OriginOf(m) => OriginOf(m)'
      BY <1>1, <1>2, <2>1 DEF OriginOf
    <2>6. Origins'
      BY <1>1, <1>2, <2>1, <2>2, <2>5 DEF Origins
    <2> QED BY <2>4, <2>6
  <1> QED BY <1>4, <1>5

(* Adapted gates are kept, throughout. *)
LEMMA AdaptsInvariant ==
    ASSUME Serial = TRUE PROVE Spec => []AdaptsInv
  <1>1. TypeInv /\ TypeInv' /\ SerialInv /\ AdaptsInv /\ [Next]_vars => AdaptsInv'
    <2> SUFFICES ASSUME TypeInv, TypeInv', SerialInv, AdaptsInv, [Next]_vars, ~dangled'
                 PROVE  Adapts' /\ Origins'
      BY DEF AdaptsInv
    <2>0. Adapts /\ Origins
      BY DangledStays DEF AdaptsInv, vars, seedvars
    <2>1. CASE UNCHANGED vars
      <3>1. Adapts'
        BY <2>0, <2>1 DEF vars, cpuvars, Adapts, Switching
      <3>2. Origins'
        BY <2>0, <2>1 DEF vars, cpuvars, Origins, OriginOf, Switching
      <3> QED BY <3>1, <3>2
    <2>2. ASSUME NEW u \in Callers, Step(u) PROVE Adapts' /\ Origins'
      <3>1. Alone(u)
        BY <2>2, StepIsAlone DEF SerialInv
      <3>2. CASE \/ \E c \in CPUs, k \in {"pf", "ef"} : Call(u, c, k)
                 \/ \E c \in CPUs : ef_adaptor_setup_tss(u, c) \/ ef_adaptor_cleanup_tss(u, c)
                 \/ SetupEnd(u) \/ CloneFails(u) \/ idt_adaptor_release(u) \/ CleanEnd(u)
        <4>1. pc \in [Callers -> PCs]
          BY DEF TypeInv, TypeOK
        <4>2. /\ UNCHANGED <<table, current_idt, orig_idt, idtr>> /\ pc[u] # "patch"
              /\ pc'[u] # "patch" /\ ~Switching(u) /\ ~Switching(u)'
          BY <3>2, <4>1 DEF Call, ef_adaptor_setup_tss, ef_adaptor_cleanup_tss, SetupEnd,
             CloneFails, idt_adaptor_release, CleanEnd, Goto, cpuvars, Switching
        <4> QED BY <2>0, <3>1, <4>2, AdaptsSame
      <3> QED BY <2>0, <2>2, <3>1, <3>2, AdaptsClone, AdaptsPatch, AdaptsSwitch DEF Step
    <2> QED BY <2>1, <2>2 DEF Next, Step
  <1>2. Init => AdaptsInv
    BY AdaptsInit DEF AdaptsInv
  <1> QED BY <1>1, <1>2, TypeInvariant, SerialInvariant, PTL DEF Spec

(* The only module there is never clones memory that was given back, so    *)
(* that what is said of tables that were not seeded with such memory holds *)
(* for it without a condition.                                             *)
THEOREM SoleModuleSeeds ==
    ASSUME Serial = TRUE, Cardinality(Mods) = 1 PROVE Spec => []~dangled
  <1> USE ConstantsAssumption
  <1>1. Init => ~dangled
    BY DEF Init
  <1>2. TypeInv /\ SerialInv /\ AdaptsInv /\ ~dangled /\ [Next]_vars => ~dangled'
    <2> SUFFICES ASSUME TypeInv, SerialInv, Origins, ~dangled, [Next]_vars PROVE ~dangled'
      BY DEF AdaptsInv
    <2>1. CASE UNCHANGED vars
      BY <2>1 DEF vars, seedvars
    <2>2. ASSUME NEW u \in Callers, NEW c \in CPUs, NEW p \in Pages, idt_adaptor_clone(u, c, p)
          PROVE  ~dangled'
      <3>1. PICK m \in Mods : Mods = {m}
        BY FS_Singleton
      <3>2. /\ Mod[u] = m /\ pc[u] = "clone" /\ \A w \in Callers : w # u => ~Busy(w)
            /\ used = Current
        <4>1. pc[u] = "clone" /\ Busy(u)
          BY <2>2 DEF idt_adaptor_clone, Busy
        <4>2. used = Current
          BY <4>1 DEF SerialInv, Accounts, AccountOf, PagesOf
        <4> QED BY <3>1, <4>1, <4>2, OnlyBusy DEF SerialInv
      <3>3. PICK t \in Tables : Active(t) /\ \A d \in CPUs : idtr[d] = t
        BY <3>2 DEF SerialInv, Idtrs, Switching, Busy
      <3>4. current_idt[m] # NoPage => current_idt[m] \in used
        BY <3>2 DEF Current
      <3>5. current_idt[m] = NoPage => orig_idt[m] \in {NoPage, BootIdt} /\ idtr[c] = BootIdt
        BY <3>1, <3>3 DEF Origins, Active
      <3>6. CloneSource(u, c) \in used \cup {BootIdt}
        BY <3>2, <3>4, <3>5 DEF CloneSource
      <3> QED BY <2>2, <3>6, CloneStep
    <2>3. CASE \E u \in Callers : PatchPf(u) \/ PatchEf(u)
      BY <2>3, PfEffects, EfEffects DEF PfEffect, EfEffect, OnlyTable
    <2> QED BY <2>1, <2>2, <2>3 DEF Next, Call, ef_adaptor_setup_tss, load_idt_wrapper,
            ef_adaptor_cleanup_tss, SetupEnd, CloneFails, FreeOld, SetCurrent,
            idt_adaptor_release, CleanEnd, seedvars
  <1> QED BY <1>1, <1>2, TypeInvariant, SerialInvariant, AdaptsInvariant, PTL DEF Spec

(* No call of either adaptor, by any module and failed ones included,      *)
(* gives a vector that a CPU runs through an adaptor back to the kernel's  *)
(* handler, unless a freed table was cloned.                               *)
THEOREM AdaptorsAreKept == ASSUME Serial = TRUE PROVE Spec => AdaptorsStay
  <1>1. TypeInv /\ SerialInv /\ AdaptsInv /\ [Next]_vars
          => [~dangled' => \A c \in CPUs : \A v \in Vecs :
                  Adapted(c, v) => Adapted(c, v)']_vars
    <2> SUFFICES ASSUME TypeInv, SerialInv, AdaptsInv, NEW u \in Callers, Step(u), ~dangled',
                        NEW c \in CPUs, NEW v \in Vecs, v \in Ad(table[idtr[c]])
                 PROVE  v \in Ad(table'[idtr'[c]])
      BY DEF Next, Step, Adapted, Ad
    <2>0. Next
      BY DEF Next, Step
    <2>6. Adapts
      BY <2>0, DangledStays DEF AdaptsInv
    <2>1. idtr[c] \in used \cup {BootIdt} /\ idtr[c] \in Tables
          /\ (pc[u] = "patch" => idtr[c] # idt[u])
      BY BookedTables DEF IdtrLive, TypeInv, TypeOK
    <2>2. CASE \E d \in CPUs, p \in Pages : idt_adaptor_clone(u, d, p)
      <3>1. PICK p \in Pages : /\ p \notin used /\ UNCHANGED idtr
                               /\ \A t \in Tables : t # p => table'[t] = table[t]
        BY <2>2, CloneStep
      <3> QED BY <2>1, <3>1, ConstantsAssumption
    <2>3. CASE PatchPf(u) \/ PatchEf(u)
      <3>1. OnlyTable(u) /\ pc[u] = "patch"
        BY <2>3, PfEffects, EfEffects DEF PfEffect, EfEffect, PatchPf, PatchEf
      <3> QED BY <2>1, <3>1 DEF OnlyTable
    <2>4. CASE \E d \in CPUs : load_idt_wrapper(u, d)
      <3>1. UNCHANGED table /\ Switching(u) /\ (idtr'[c] = idtr[c] \/ idtr'[c] = idt[u])
        BY <2>4 DEF load_idt_wrapper, Switching, TypeInv, TypeOK
      <3> QED BY <2>6, <3>1 DEF Adapts
    <2>5. CASE \/ \E d \in CPUs, k \in {"pf", "ef"} : Call(u, d, k)
               \/ \E d \in CPUs : ef_adaptor_setup_tss(u, d) \/ ef_adaptor_cleanup_tss(u, d)
               \/ SetupEnd(u) \/ CloneFails(u) \/ idt_adaptor_release(u) \/ CleanEnd(u)
               \/ FreeOld(u) \/ SetCurrent(u)
      <3>1. UNCHANGED <<table, idtr>>
        BY <2>5 DEF Call, ef_adaptor_setup_tss, ef_adaptor_cleanup_tss, SetupEnd, CloneFails,
           idt_adaptor_release, CleanEnd, FreeOld, SetCurrent, cpuvars
      <3> QED BY <3>1
    <2> QED BY <2>2, <2>3, <2>4, <2>5 DEF Step
  <1> QED BY <1>1, TypeInvariant, SerialInvariant, AdaptsInvariant, PTL DEF Spec, AdaptorsStay
=============================================================================

----------------------------- MODULE DpldProofs -----------------------------
(* Proofs about Dpld, for any processes, modules, names and failures. *)
EXTENDS Dpld, TLAPS, SequenceTheorems, Induction

(* A name is on the kernel's list once. *)
Unique == \A i, j \in 1..Len(list) : Name[list[i]] = Name[list[j]] => i = j

(* What kallsyms_lookup_name finds beyond vmlinux is the newest module on  *)
(* the list that has the name.                                             *)
LEMMA LookupFinds ==
    ASSUME NEW name, list \in Seq(Modules), NEW m, m = kallsyms_lookup_name(name),
           m # NotFound, name \notin KernelNames
    PROVE  /\ m \in Modules /\ m \in Range(list) /\ name \in Exports[m]
           /\ Unique => \A k \in Range(list) : name \in Exports[k] => ~Newer(k, m)
  <1> DEFINE has == {i \in 1..Len(list) : name \in Exports[list[i]]}
             at == CHOOSE i \in has : \A j \in has : i <= j
  <1>1. has # {} /\ m = list[at]
    BY DEF kallsyms_lookup_name
  <1>2. has \subseteq Nat
    OBVIOUS
  <1>3. at \in has /\ \A j \in has : at <= j
    <2> HIDE DEF has
    <2> QED BY <1>1, <1>2, LeastElement
  <1> HIDE DEF at
  <1>4. at \in 1..Len(list) /\ name \in Exports[m]
    BY <1>1, <1>3
  <1>5. m \in Modules /\ m \in Range(list)
    BY <1>1, <1>4 DEF Range
  <1>6. ASSUME Unique, NEW k \in Range(list), name \in Exports[k], Newer(k, m) PROVE FALSE
    <2>1. PICK i, j \in 1..Len(list) : i < j /\ list[i] = k /\ list[j] = m
      BY <1>6 DEF Newer
    <2>2. j = at
      BY <1>1, <1>4, <1>6, <2>1 DEF Unique
    <2>3. i \in has
      BY <1>6, <2>1
    <2> QED BY <1>2, <1>3, <2>1, <2>2, <2>3
  <1> QED BY <1>4, <1>5, <1>6

(* An address is in vmlinux, or in such a module. *)
LEMMA LookupRange ==
    ASSUME NEW name, list \in Seq(Modules), NEW m, m = kallsyms_lookup_name(name), m # NotFound
    PROVE  m = Vmlinux \/ (m \in Modules /\ m \in Range(list) /\ name \in Exports[m])
  <1>1. CASE name \in KernelNames
    BY <1>1 DEF kallsyms_lookup_name
  <1>2. CASE name \notin KernelNames
    BY <1>2, LookupFinds
  <1> QED BY <1>1, <1>2
-----------------------------------------------------------------------------
(* A module whose name is new goes on the list at its head ...             *)
LEMMA ListPush ==
    ASSUME list \in Seq(Modules), Unique, NEW m \in Modules,
           \A k \in Range(list) : Name[k] # Name[m], list' = <<m>> \o list
    PROVE  /\ list' \in Seq(Modules) /\ Unique'
           /\ Range(list') = Range(list) \cup {m}
           /\ \A a, b : Newer(a, b)' => a = m \/ Newer(a, b)
  <1> PICK l : l = list'
    OBVIOUS
  <1>1. /\ l \in Seq(Modules) /\ Len(list) \in Nat /\ Len(l) = Len(list) + 1 /\ l[1] = m
        /\ \A j \in 1..Len(list) : l[j+1] = list[j]
    OBVIOUS
  <1>2. DOMAIN l = 1..Len(l) /\ DOMAIN list = 1..Len(list)
    BY <1>1
  <1>3. ASSUME NEW i \in 1..Len(l)
        PROVE  i = 1 \/ (i-1 \in 1..Len(list) /\ l[i] = list[i-1] /\ l[i] \in Range(list))
    <2>1. i # 1 => i-1 \in 1..Len(list) /\ (i-1)+1 = i
      BY <1>1
    <2>2. i # 1 => l[i] = list[i-1]
      BY <1>1, <2>1
    <2> QED BY <1>2, <2>1, <2>2 DEF Range
  <1>4. ASSUME NEW i \in 1..Len(l), NEW j \in 1..Len(l), Name[l[i]] = Name[l[j]] PROVE i = j
    <2>1. i = 1 <=> j = 1
      BY <1>1, <1>3, <1>4
    <2>2. CASE i # 1 /\ j # 1
      <3>0. i-1 \in 1..Len(list) /\ j-1 \in 1..Len(list) /\ Name[list[i-1]] = Name[list[j-1]]
        BY Zenon, <1>3, <1>4, <2>2
      <3>1. i-1 = j-1
        BY <3>0 DEF Unique
      <3> QED BY <1>1, <3>1
    <2> QED BY <2>1, <2>2
  <1>5. Range(l) = Range(list) \cup {m}
    <2>1. ASSUME NEW x \in Range(l) PROVE x \in Range(list) \cup {m}
      BY <1>1, <1>2, <1>3 DEF Range
    <2>2. ASSUME NEW x \in Range(list) PROVE x \in Range(l)
      <3>1. PICK j \in 1..Len(list) : x = list[j]
        BY <1>2 DEF Range
      <3>2. j+1 \in 1..Len(l) /\ l[j+1] = x
        BY <1>1, <3>1
      <3> QED BY <1>2, <3>2 DEF Range
    <2>3. m \in Range(l)
      <3>1. 1 \in 1..Len(l)
        BY <1>1
      <3> QED BY <1>1, <1>2, <3>1 DEF Range
    <2> QED BY <2>1, <2>2, <2>3
  <1>6. ASSUME NEW a, NEW b, Newer(a, b)' PROVE a = m \/ Newer(a, b)
    <2>1. PICK i, j \in 1..Len(l) : i < j /\ l[i] = a /\ l[j] = b
      BY <1>6 DEF Newer
    <2>2. CASE i # 1
      <3>1. i-1 \in 1..Len(list) /\ j-1 \in 1..Len(list) /\ i-1 < j-1
        BY <1>1, <2>1, <2>2
      <3>2. list[i-1] = a /\ list[j-1] = b
        BY <1>3, <2>1, <2>2, <3>1
      <3> QED BY <3>1, <3>2 DEF Newer
    <2> QED BY <1>1, <2>1, <2>2
  <1>7. Unique'
    BY <1>4 DEF Unique
  <1> QED BY <1>1, <1>5, <1>6, <1>7

(* ... and when its initialisation failed or someone unloads it, it is     *)
(* taken off, and no other.                                                *)
LEMMA ListDel ==
    ASSUME list \in Seq(Modules), NEW m \in Range(list), Unique, list' = list_del(m)
    PROVE  /\ list' \in Seq(Modules) /\ Unique'
           /\ Range(list') = Range(list) \ {m}
           /\ \A a, b : Newer(a, b)' => Newer(a, b)
  <1> DEFINE at == CHOOSE i \in 1..Len(list) : list[i] = m
             l == [i \in 1..(Len(list) - 1) |-> IF i < at THEN list[i] ELSE list[i + 1]]
  <1>1. l = list'
    BY DEF list_del
  <1>2. at \in 1..Len(list) /\ list[at] = m /\ Len(list) \in Nat
    BY DEF Range
  <1> HIDE DEF at
  <1> DEFINE o(i) == IF i < at THEN i ELSE i + 1
  <1>3. ASSUME NEW i \in 1..(Len(list) - 1)
        PROVE  o(i) \in 1..Len(list) /\ o(i) # at /\ l[i] = list[o(i)]
    BY <1>2
  <1>4. DOMAIN l = 1..(Len(list) - 1) /\ DOMAIN list = 1..Len(list)
    OBVIOUS
  <1>5. \A i, j \in 1..(Len(list) - 1) : (o(i) = o(j) => i = j) /\ (i < j => o(i) < o(j))
    BY <1>2
  <1>6. ASSUME NEW k \in 1..Len(list), k # at
        PROVE  \E i \in 1..(Len(list) - 1) : o(i) = k
    <2>1. CASE k < at
      <3>1. k \in 1..(Len(list) - 1) /\ o(k) = k
        BY <1>2, <2>1
      <3> QED BY <3>1
    <2>2. CASE k > at
      <3>1. k - 1 \in 1..(Len(list) - 1) /\ o(k - 1) = k
        BY <1>2, <2>2
      <3> QED BY <3>1
    <2> QED BY <1>2, <1>6, <2>1, <2>2
  <1>7. l \in Seq(Modules) /\ Len(l) = Len(list) - 1
    <2>1. \A i \in 1..(Len(list) - 1) : l[i] \in Modules
      BY <1>3
    <2>2. Len(list) - 1 \in Nat
      BY <1>2
    <2> QED BY <2>1, <2>2
  <1> HIDE DEF l, o
  <1>8. Unique'
    <2>1. \A i, j \in 1..(Len(list) - 1) : Name[l[i]] = Name[l[j]] => i = j
      BY <1>3, <1>5 DEF Unique
    <2> QED BY <1>1, <1>7, <2>1 DEF Unique
  <1>9. Range(l) = Range(list) \ {m}
    <2>1. ASSUME NEW x \in Range(l) PROVE x \in Range(list) \ {m}
      <3>1. PICK i \in 1..(Len(list) - 1) : x = l[i]
        BY <1>4 DEF Range
      <3>2. o(i) \in 1..Len(list) /\ o(i) # at /\ x = list[o(i)]
        BY <1>3, <3>1
      <3>3. x # m
        BY <1>2, <3>2 DEF Unique
      <3> QED BY <1>4, <3>2, <3>3 DEF Range
    <2>2. ASSUME NEW x \in Range(list) \ {m} PROVE x \in Range(l)
      <3>1. PICK k \in 1..Len(list) : x = list[k]
        BY <1>4 DEF Range
      <3>2. PICK i \in 1..(Len(list) - 1) : o(i) = k
        BY <1>2, <1>6, <3>1
      <3> QED BY <1>3, <1>4, <3>1, <3>2 DEF Range
    <2> QED BY <2>1, <2>2
  <1>10. ASSUME NEW a, NEW b, Newer(a, b)' PROVE Newer(a, b)
    <2>1. PICK i, j \in 1..(Len(list) - 1) : i < j /\ l[i] = a /\ l[j] = b
      BY <1>1, <1>7, <1>10 DEF Newer
    <2>2. /\ o(i) \in 1..Len(list) /\ o(j) \in 1..Len(list) /\ o(i) < o(j)
          /\ list[o(i)] = a /\ list[o(j)] = b
      BY <1>3, <1>5, <2>1
    <2> QED BY <2>2 DEF Newer
  <1> QED BY <1>1, <1>7, <1>8, <1>9, <1>10
-----------------------------------------------------------------------------
(* The types TypeOK leaves out, and the kernel's bookkeeping: a module on  *)
(* the list is live or is being loaded by one process.                     *)
Places == {"idle", "start", "load", "wait", "init", "got", "set", "lookup", "run"}
ProcTypes ==
    /\ pc \in [Procs -> Places] /\ n \in [Procs -> Nat] /\ ret \in [Procs -> Int]
    /\ set_app_got \in [Procs -> Modules \cup {NotFound, Freed}]
    /\ addr \in [Procs -> Seq(Modules \cup {Vmlinux, Freed})]
    /\ since \in [Procs -> SUBSET {"foreign", "table", "unload"}]
KernelTypes ==
    /\ list \in Seq(Modules) /\ Unique /\ live \subseteq Range(list)
    /\ app_got \in [Modules -> Procs \cup {NoProc, Dead}]
    /\ \A p \in Procs : set_app_got[p] \in Range(list) \cup {NotFound, Freed}
Loading ==
    /\ \A p \in Procs : pc[p] = "init" => Mod(p) \in Range(list) \ live
    /\ \A p, q \in Procs : pc[p] = "init" /\ pc[q] = "init" /\ Mod(p) = Mod(q) => p = q
    /\ \A m \in Range(list) \ live : \E p \in Procs : pc[p] = "init" /\ Mod(p) = m

(* The counter of a process is within the table its place counts through.  *)
Counts(p) ==
    /\ n[p] \in 1..(1 + Len(Binary[p]) + Len(Wanted[p])) /\ ret[p] <= 0
    /\ pc[p] \in {"idle", "start", "got", "set"} => n[p] = 1
    /\ pc[p] \in {"idle", "start"} => ret[p] = 0
    /\ pc[p] = "load" => n[p] <= Len(Binary[p]) + 1
    /\ pc[p] \in {"wait", "init"} => n[p] <= Len(Binary[p])
    /\ pc[p] = "lookup" => n[p] <= Len(Wanted[p])
    /\ pc[p] = "set" => set_app_got[p] # NotFound

TypeInv == ProcTypes /\ KernelTypes /\ Loading /\ \A p \in Procs : Counts(p)

(* The tables of a program have a length, and its modules are modules. *)
LEMMA Programs ==
    ASSUME NEW p \in Procs
    PROVE  /\ Len(Binary[p]) \in Nat /\ Len(Wanted[p]) \in Nat \ {0}
           /\ \A k \in 1..Len(Binary[p]) : Binary[p][k] \in Modules /\ Binary[p][k] \in Carried(p)
  <1>1. Binary[p] \in Seq(Modules) /\ Wanted[p] \in Seq(STRING) /\ Wanted[p] # <<>>
    BY ProgramsAssumption
  <1> QED BY <1>1 DEF Carried, Range

(* Where a count starts. *)
LEMMA FirstOf == \A a, b \in Nat : 1 \in 1..(1 + a + b)
  OBVIOUS

(* A process that leaves gives up all it had. *)
LEMMA TypesLeave ==
    ASSUME TypeInv, NEW p \in Procs, Leave(p)
    PROVE  /\ ProcTypes' /\ Counts(p)' /\ pc'[p] = "idle" /\ set_app_got'[p] = NotFound
           /\ app_got' \in [Modules -> Procs \cup {NoProc, Dead}]
           /\ \A q \in Procs \ {p} :
                /\ pc'[q] = pc[q] /\ n'[q] = n[q] /\ ret'[q] = ret[q]
                /\ set_app_got'[q] = set_app_got[q]
  <1> USE DEF TypeInv, ProcTypes, Leave, Goto
  <1>1. ProcTypes'
    BY DEF Places
  <1>2. n'[p] = 1 /\ ret'[p] = 0 /\ pc'[p] = "idle" /\ set_app_got'[p] = NotFound
    OBVIOUS
  <1>3. Counts(p)'
    <2> HIDE DEF TypeInv, ProcTypes, Leave, Goto
    <2>0. Len(Binary[p]) \in Nat /\ Len(Wanted[p]) \in Nat
      BY Programs
    <2>1. 1 \in 1..(1 + Len(Binary[p]) + Len(Wanted[p]))
      BY Zenon, <2>0, FirstOf
    <2>2. ret'[p] <= 0
      BY <1>2
    <2> QED BY <1>2, <2>1, <2>2 DEF Counts
  <1>4. app_got' \in [Modules -> Procs \cup {NoProc, Dead}]
    BY DEF KernelTypes
  <1> QED BY <1>1, <1>2, <1>3, <1>4

(* A call of init_module that returns counts on to the next module. *)
LEMMA TypesReturned ==
    ASSUME TypeInv, NEW p \in Procs, Returned(p, 0) \/ Returned(p, -1),
           n[p] \in 1..Len(Binary[p])
    PROVE  /\ pc' \in [Procs -> Places] /\ n' \in [Procs -> Nat] /\ ret' \in [Procs -> Int]
           /\ pc'[p] = "load" /\ Counts(p)'
           /\ \A q \in Procs \ {p} : pc'[q] = pc[q] /\ n'[q] = n[q] /\ ret'[q] = ret[q]
  <1>1. PICK r \in {-1, 0} : Returned(p, r)
    BY Zenon
  <1>2. /\ ret' = [ret EXCEPT ![p] = ret[p] + r] /\ n' = [n EXCEPT ![p] = n[p] + 1]
        /\ pc' = [pc EXCEPT ![p] = "load"] /\ r \in Int /\ r <= 0
    BY <1>1 DEF Returned, Goto
  <1>3. pc' \in [Procs -> Places] /\ n' \in [Procs -> Nat] /\ ret' \in [Procs -> Int]
    BY <1>2 DEF TypeInv, ProcTypes, Places
  <1>4. n'[p] = n[p] + 1 /\ pc'[p] = "load" /\ ret'[p] = ret[p] + r
    BY <1>2 DEF TypeInv, ProcTypes
  <1>5. ret[p] \in Int /\ ret[p] <= 0 /\ n[p] \in Nat
    BY DEF TypeInv, ProcTypes, Counts
  <1>6. Len(Binary[p]) \in Nat /\ Len(Wanted[p]) \in Nat
    BY Programs
  <1>7. ret'[p] <= 0
    BY <1>2, <1>4, <1>5
  <1>8. /\ n'[p] \in 1..(1 + Len(Binary[p]) + Len(Wanted[p]))
        /\ n'[p] <= Len(Binary[p]) + 1
    <2> DEFINE b == Len(Binary[p])
               w == Len(Wanted[p])
    <2>1. b \in Nat /\ w \in Nat /\ n[p] \in 1..b /\ n'[p] = n[p] + 1
      BY <1>4, <1>6
    <2> HIDE DEF b, w
    <2>2. n'[p] \in 1..(1 + b + w) /\ n'[p] <= b + 1
      BY <2>1
    <2> QED BY <2>2 DEF b, w
  <1>9. Counts(p)'
    BY <1>4, <1>7, <1>8 DEF Counts
  <1>10. \A q \in Procs \ {p} : pc'[q] = pc[q] /\ n'[q] = n[q] /\ ret'[q] = ret[q]
    BY <1>2 DEF TypeInv, ProcTypes
  <1> QED BY <1>3, <1>4, <1>9, <1>10

(* What is noted about the processes is one of three things. *)
LEMMA TypesNote ==
    ASSUME TypeInv, NEW ps, NEW what \in {"foreign", "table", "unload"}, Note(ps, what)
    PROVE  since' \in [Procs -> SUBSET {"foreign", "table", "unload"}]
  BY DEF TypeInv, ProcTypes, Note

(* The types of a step in which only p counts and the list is as it was.   *)
LEMMA TypesQuiet ==
    ASSUME TypeInv, NEW p \in Procs, ProcTypes', Counts(p)', UNCHANGED <<list, live>>,
           app_got' \in [Modules -> Procs \cup {NoProc, Dead}],
           set_app_got'[p] \in Range(list) \cup {NotFound, Freed},
           pc[p] # "init", pc'[p] # "init",
           \A q \in Procs \ {p} :
                /\ pc'[q] = pc[q] /\ n'[q] = n[q] /\ ret'[q] = ret[q]
                /\ set_app_got'[q] = set_app_got[q]
    PROVE  TypeInv'
  <1>1. \A q \in Procs \ {p} : Counts(q)'
    BY DEF TypeInv, Counts
  <1>2. KernelTypes'
    BY DEF TypeInv, KernelTypes, Unique
  <1>3. Loading'
    BY DEF TypeInv, Loading, Mod
  <1> QED BY <1>1, <1>2, <1>3 DEF TypeInv

(* A module that is freed leaves the list, and no pointer into it stays. *)
LEMMA TypesFreed ==
    ASSUME TypeInv, NEW m \in Range(list), free_module(m)
    PROVE  /\ list' \in Seq(Modules) /\ Unique' /\ Range(list') = Range(list) \ {m}
           /\ \A a, b : Newer(a, b)' => Newer(a, b)
           /\ set_app_got' \in [Procs -> Modules \cup {NotFound, Freed}]
           /\ addr' \in [Procs -> Seq(Modules \cup {Vmlinux, Freed})]
           /\ app_got' \in [Modules -> Procs \cup {NoProc, Dead}]
           /\ \A q \in Procs :
                /\ set_app_got'[q] \in Range(list') \cup {NotFound, Freed}
                /\ set_app_got'[q] = IF set_app_got[q] = m THEN Freed ELSE set_app_got[q]
                /\ Len(addr'[q]) = Len(addr[q])
                /\ \A i \in 1..Len(addr[q]) :
                     addr'[q][i] = IF addr[q][i] = m THEN Freed ELSE addr[q][i]
  <1>1. list \in Seq(Modules) /\ Unique
    BY DEF TypeInv, KernelTypes
  <1>2. list' = list_del(m)
    BY DEF free_module
  <1>3. /\ list' \in Seq(Modules) /\ Unique' /\ Range(list') = Range(list) \ {m}
        /\ \A a, b : Newer(a, b)' => Newer(a, b)
    BY <1>1, <1>2, ListDel
  <1>4. set_app_got' = [q \in Procs |-> IF set_app_got[q] = m THEN Freed ELSE set_app_got[q]]
    BY DEF free_module
  <1>5. /\ set_app_got' \in [Procs -> Modules \cup {NotFound, Freed}]
        /\ app_got' \in [Modules -> Procs \cup {NoProc, Dead}]
    BY <1>4 DEF free_module, TypeInv, ProcTypes, KernelTypes
  <1>6. ASSUME NEW q \in Procs
        PROVE  /\ set_app_got'[q] \in Range(list') \cup {NotFound, Freed}
               /\ set_app_got'[q] = IF set_app_got[q] = m THEN Freed ELSE set_app_got[q]
    BY <1>3, <1>4 DEF TypeInv, KernelTypes
  <1>7. ASSUME NEW q \in Procs
        PROVE  /\ addr'[q] \in Seq(Modules \cup {Vmlinux, Freed}) /\ Len(addr'[q]) = Len(addr[q])
               /\ \A i \in 1..Len(addr[q]) :
                     addr'[q][i] = IF addr[q][i] = m THEN Freed ELSE addr[q][i]
    <2> DEFINE s == [i \in 1..Len(addr[q]) |-> IF addr[q][i] = m THEN Freed ELSE addr[q][i]]
    <2>1. addr'[q] = s
      BY DEF free_module
    <2>2. addr[q] \in Seq(Modules \cup {Vmlinux, Freed})
      BY DEF TypeInv, ProcTypes
    <2>3. Len(addr[q]) \in Nat /\ \A i \in 1..Len(addr[q]) : addr[q][i] \in Modules \cup {Vmlinux, Freed}
      BY <2>2
    <2>4. s \in Seq(Modules \cup {Vmlinux, Freed}) /\ Len(s) = Len(addr[q])
      BY <2>3
    <2> QED BY <2>1, <2>4
  <1>8. addr' \in [Procs -> Seq(Modules \cup {Vmlinux, Freed})]
    <2>1. addr' = [q \in Procs |-> addr'[q]]
      BY DEF free_module
    <2> QED BY <1>7, <2>1
  <1> QED BY <1>3, <1>5, <1>6, <1>7, <1>8

(* Type correctness of the resolver and of the kernel's module list: in    *)
(* particular no name is on the list twice, and no module stays there      *)
(* unloaded and with nobody loading it.                                    *)
LEMMA TypeInvariant == Spec => []TypeInv
  <1> USE ProgramsAssumption
  <1>1. Init => TypeInv
    <2> SUFFICES ASSUME Init PROVE TypeInv
      OBVIOUS
    <2>1. ProcTypes
      BY DEF Init, ProcTypes, Places
    <2>2. KernelTypes /\ Loading
      BY DEF Init, KernelTypes, Unique, Range, Loading
    <2>3. \A p \in Procs : Counts(p)
      <3>1. \A p \in Procs : 1 \in 1..(1 + Len(Binary[p]) + Len(Wanted[p]))
        BY Programs
      <3> QED BY <3>1 DEF Init, Counts
    <2> QED BY <2>1, <2>2, <2>3 DEF TypeInv
  <1>2. TypeInv /\ [Next]_vars => TypeInv'
    <2> SUFFICES ASSUME TypeInv, [Next]_vars PROVE TypeInv'
      OBVIOUS
    <2>1. CASE UNCHANGED vars
      BY <2>1 DEF vars, local, kernel, TypeInv, ProcTypes, KernelTypes, Loading, Unique, Counts, Mod
    <2>2. ASSUME NEW p \in Procs, Leave(p), UNCHANGED <<list, live>>, pc[p] # "init"
          PROVE  TypeInv'
      BY <2>2, TypesLeave, TypesQuiet
    <2>3. ASSUME NEW p \in Procs, UNCHANGED <<list, live, addr, set_app_got>>,
                 UNCHANGED since \/ Note(Procs \ {p}, "table") \/ Start(p),
                 app_got' \in [Modules -> Procs \cup {NoProc, Dead}],
                 NEW l \in Places \ {"init"}, Goto(p, l), pc[p] # "init",
                 \/ UNCHANGED <<n, ret>> 
                 \/ n' = [n EXCEPT ![p] = 1] /\ UNCHANGED ret,
                 Counts(p)'
          PROVE  TypeInv'
      <3>1. since' \in [Procs -> SUBSET {"foreign", "table", "unload"}]
        <4>1. CASE Start(p)
          BY <4>1 DEF Start, TypeInv, ProcTypes
        <4> QED BY <2>3, <4>1, TypesNote DEF TypeInv, ProcTypes
      <3>2. /\ pc' = [pc EXCEPT ![p] = l] /\ pc'[p] = l
            /\ \A q \in Procs \ {p} : pc'[q] = pc[q] /\ n'[q] = n[q] /\ ret'[q] = ret[q]
        BY <2>3 DEF Goto, TypeInv, ProcTypes
      <3>3. ProcTypes'
        BY <2>3, <3>1, <3>2 DEF TypeInv, ProcTypes
      <3>4. set_app_got'[p] \in Range(list) \cup {NotFound, Freed}
        BY <2>3 DEF TypeInv, KernelTypes
      <3> QED BY <2>3, <3>2, <3>3, <3>4, TypesQuiet
    <2>4. ASSUME NEW p \in Procs, Start(p) PROVE TypeInv'
      <3>1. Counts(p)'
        BY <2>4 DEF Start, Goto, local, TypeInv, ProcTypes, Counts
      <3> QED BY <2>3, <2>4, <3>1 DEF Start, Goto, local, kernel, TypeInv, KernelTypes, Places
    <2>5. ASSUME NEW p \in Procs, Quit(p) PROVE TypeInv'
      BY <2>2, <2>5 DEF Quit
    <2>6. ASSUME NEW p \in Procs, force_symres_now(p) PROVE TypeInv'
      <3>1. CASE Leave(p)
        BY <2>2, <2>6, <3>1 DEF force_symres_now
      <3>2. CASE Goto(p, "load") /\ UNCHANGED <<local, since, app_got>>
        <4>1. Counts(p)'
          BY <2>6, <3>2, Programs DEF force_symres_now, Goto, local, TypeInv, ProcTypes, Counts
        <4> QED BY <2>3, <2>6, <3>2, <4>1
                DEF force_symres_now, local, TypeInv, KernelTypes, Places
      <3> QED BY <2>6, <3>1, <3>2 DEF force_symres_now
    <2>7. ASSUME NEW p \in Procs, Loaded(p) PROVE TypeInv'
      <3>1. CASE Leave(p)
        BY <2>2, <2>7, <3>1 DEF Loaded
      <3>2. CASE ~Leave(p)
        <4>1. PICK l \in {"got", "lookup"} : Goto(p, l)
          BY <2>7, <3>2 DEF Loaded
        <4>2. /\ n' = [n EXCEPT ![p] = 1] /\ pc[p] = "load"
              /\ UNCHANGED <<ret, set_app_got, addr, since, app_got, list, live>>
          BY <2>7, <3>2 DEF Loaded
        <4>3. n'[p] = 1 /\ pc'[p] \in {"got", "lookup"} /\ ret'[p] = ret[p] /\ ret[p] <= 0
          BY <4>1, <4>2 DEF Goto, TypeInv, ProcTypes, Counts
        <4>4. 1 \in 1..(1 + Len(Binary[p]) + Len(Wanted[p])) /\ 1 <= Len(Wanted[p])
          BY Programs
        <4>5. Counts(p)'
          BY <4>3, <4>4 DEF Counts
        <4> QED BY <2>3, <4>1, <4>2, <4>5 DEF TypeInv, KernelTypes, Places
      <3> QED BY <3>1, <3>2
    <2>8. ASSUME NEW p \in Procs, SetAppGot(p) PROVE TypeInv'
      <3>1. CASE Leave(p)
        BY <2>2, <2>8, <3>1 DEF SetAppGot
      <3>2. CASE ~Leave(p)
        <4>1. /\ pc[p] = "set" /\ Goto(p, "lookup") /\ UNCHANGED <<local, list, live>>
              /\ UNCHANGED since \/ Note(Procs \ {p}, "table")
              /\ \/ UNCHANGED app_got
                 \/ app_got' = [app_got EXCEPT ![set_app_got[p]] = p]
          BY <2>8, <3>2 DEF SetAppGot
        <4>2. app_got' \in [Modules -> Procs \cup {NoProc, Dead}]
          BY <4>1 DEF TypeInv, KernelTypes
        <4>3. n[p] = 1 /\ n'[p] = 1 /\ pc'[p] = "lookup" /\ ret'[p] = ret[p] /\ ret[p] <= 0
          BY <4>1 DEF Goto, local, TypeInv, ProcTypes, Counts
        <4>4. 1 \in 1..(1 + Len(Binary[p]) + Len(Wanted[p])) /\ 1 <= Len(Wanted[p])
          BY Programs
        <4>5. Counts(p)'
          BY <4>3, <4>4 DEF Counts
        <4> QED BY <2>3, <4>1, <4>2, <4>5 DEF local, Places
      <3> QED BY <3>1, <3>2
    <2>9. ASSUME NEW p \in Procs, FindSetAppGot(p) PROVE TypeInv'
      <3> PICK m : m = kallsyms_lookup_name("set_app_got")
        OBVIOUS
      <3>1. CASE Leave(p)
        BY <2>2, <2>9, <3>1 DEF FindSetAppGot
      <3>2. CASE ~Leave(p)
        <4>1. /\ pc[p] = "got" /\ pc' = [pc EXCEPT ![p] = "set"] /\ m # NotFound
              /\ set_app_got' = [set_app_got EXCEPT ![p] = m]
              /\ UNCHANGED <<n, ret, addr, since, app_got, list, live>>
          BY <2>9, <3>2 DEF FindSetAppGot, Goto
        <4>2. m \in Modules /\ m \in Range(list)
          BY <4>1, LookupFinds DEF TypeInv, KernelTypes
        <4>3. ProcTypes'
          BY <4>1, <4>2 DEF TypeInv, ProcTypes, Places
        <4>4. set_app_got'[p] = m /\ pc'[p] = "set"
          BY <4>1 DEF TypeInv, ProcTypes
        <4>5. Counts(p)'
          BY <4>1, <4>4 DEF TypeInv, Counts
        <4>6. \A q \in Procs \ {p} : pc'[q] = pc[q] /\ set_app_got'[q] = set_app_got[q]
          BY <4>1 DEF TypeInv, ProcTypes
        <4>7. app_got' \in [Modules -> Procs \cup {NoProc, Dead}]
          BY <4>1 DEF TypeInv, KernelTypes
        <4> QED BY <4>1, <4>2, <4>3, <4>4, <4>5, <4>6, <4>7, TypesQuiet
      <3> QED BY <3>1, <3>2
    <2>10. ASSUME NEW p \in Procs, Resolve(p) PROVE TypeInv'
      <3> PICK a : a = kallsyms_lookup_name(Wanted[p][n[p]])
        OBVIOUS
      <3>1. CASE Leave(p)
        BY <2>2, <2>10, <3>1 DEF Resolve
      <3>2. CASE ~Leave(p)
        <4>1. PICK l \in {"run", "lookup"} :
                 /\ pc' = [pc EXCEPT ![p] = l] /\ (l = "lookup" => n[p] # Len(Wanted[p]))
          BY <2>10, <3>2 DEF Resolve, Goto
        <4>2. /\ pc[p] = "lookup" /\ a # NotFound /\ n' = [n EXCEPT ![p] = n[p] + 1]
              /\ addr' = [addr EXCEPT ![p] = Append(addr[p], a)]
              /\ UNCHANGED <<ret, set_app_got, since, app_got, list, live>>
          BY <2>10, <3>2 DEF Resolve
        <4>3. a \in Modules \cup {Vmlinux, Freed}
          BY <4>2, LookupRange DEF TypeInv, KernelTypes
        <4>4. Append(addr[p], a) \in Seq(Modules \cup {Vmlinux, Freed})
          BY <4>3 DEF TypeInv, ProcTypes
        <4>5. ProcTypes'
          BY <4>1, <4>2, <4>4 DEF TypeInv, ProcTypes, Places
        <4>6. n'[p] = n[p] + 1 /\ pc'[p] = l /\ n[p] \in Nat
          BY <4>1, <4>2 DEF TypeInv, ProcTypes
        <4>7. n'[p] \in 1..(1 + Len(Binary[p]) + Len(Wanted[p]))
                /\ (l = "lookup" => n'[p] <= Len(Wanted[p]))
          BY <4>1, <4>2, <4>6, Programs DEF TypeInv, Counts
        <4>8. Counts(p)'
          BY <4>1, <4>2, <4>6, <4>7 DEF TypeInv, Counts
        <4>9. \A q \in Procs \ {p} : pc'[q] = pc[q] /\ n'[q] = n[q]
          BY <4>1, <4>2 DEF TypeInv, ProcTypes
        <4>10. /\ app_got' \in [Modules -> Procs \cup {NoProc, Dead}]
               /\ set_app_got'[p] \in Range(list) \cup {NotFound, Freed}
          BY <4>2 DEF TypeInv, KernelTypes
        <4> QED BY <4>1, <4>2, <4>5, <4>6, <4>8, <4>9, <4>10, TypesQuiet
      <3> QED BY <3>1, <3>2
    <2>11. ASSUME NEW p \in Procs, Returned(p, 0) \/ Returned(p, -1), pc[p] \in {"load", "wait"},
                  n[p] <= Len(Binary[p]),
                  UNCHANGED <<set_app_got, addr, since, list, live, app_got>>
           PROVE  TypeInv'
      <3>1. n[p] \in 1..Len(Binary[p])
        BY <2>11, Programs DEF TypeInv, ProcTypes, Counts
      <3>2. ProcTypes'
        BY <2>11, <3>1, TypesReturned DEF TypeInv, ProcTypes
      <3>3. /\ app_got' \in [Modules -> Procs \cup {NoProc, Dead}]
            /\ set_app_got'[p] \in Range(list) \cup {NotFound, Freed}
        BY <2>11 DEF TypeInv, KernelTypes
      <3> QED BY <2>11, <3>1, <3>2, <3>3, TypesReturned, TypesQuiet
    <2>12. ASSUME NEW p \in Procs, Waited(p) PROVE TypeInv'
      <3>1. (Returned(p, 0) \/ Returned(p, -1)) /\ n[p] <= Len(Binary[p])
        BY <2>12 DEF Waited, TypeInv, Counts
      <3> QED BY <2>11, <2>12, <3>1 DEF Waited, kernel
    <2>13. ASSUME NEW p \in Procs, init_module(p) PROVE TypeInv'
      <3>1. /\ pc[p] = "load" /\ n[p] <= Len(Binary[p]) /\ n[p] \in 1..Len(Binary[p])
            /\ UNCHANGED <<set_app_got, addr, live, app_got>>
        BY <2>13, Programs DEF init_module, TypeInv, ProcTypes, Counts
      <3>2. CASE (Returned(p, 0) \/ Returned(p, -1)) /\ UNCHANGED <<list, since>>
        BY <2>11, <3>1, <3>2
      <3>3. CASE Goto(p, "wait") /\ UNCHANGED <<n, ret, list, since>>
        <4>1. Counts(p)'
          BY <3>1, <3>3 DEF Goto, TypeInv, ProcTypes, Counts
        <4>2. app_got' \in [Modules -> Procs \cup {NoProc, Dead}]
          BY <3>1 DEF TypeInv, KernelTypes
        <4> QED BY <2>3, <3>1, <3>3, <4>1, <4>2 DEF Places
      <3>4. CASE /\ Same(p) = {} /\ Goto(p, "init") /\ list' = <<Mod(p)>> \o list
                 /\ Note({q \in Procs : Foreign(q, Mod(p))}, "foreign") /\ UNCHANGED <<n, ret>>
        <4>1. PICK m : m = Mod(p)
          OBVIOUS
        <4>2. m \in Modules /\ \A k \in Range(list) : Name[k] # Name[m]
          BY <3>1, <3>4, <4>1, Programs DEF Mod, Same
        <4>3. /\ list' \in Seq(Modules) /\ Unique' /\ Range(list') = Range(list) \cup {m}
          BY <3>4, <4>1, <4>2, ListPush DEF TypeInv, KernelTypes
        <4>4. m \notin Range(list)
          BY <4>2
        <4>5. /\ pc' = [pc EXCEPT ![p] = "init"] /\ pc'[p] = "init"
              /\ \A q \in Procs \ {p} : pc'[q] = pc[q]
          BY <3>4 DEF Goto, TypeInv, ProcTypes
        <4>6. ProcTypes'
          BY <3>1, <3>4, <4>5, TypesNote DEF TypeInv, ProcTypes, Places
        <4>7. KernelTypes'
          BY <3>1, <4>3 DEF TypeInv, KernelTypes
        <4>8. \A q \in Procs : Mod(q)' = Mod(q)
          BY <3>4 DEF Mod
        <4>9. Loading'
          <5>0. /\ Mod(p)' = m /\ m \notin live
                /\ \A q \in Procs \ {p} : pc'[q] = "init" => pc[q] = "init"
                /\ \A q \in Procs : pc[q] = "init" => Mod(q)' = Mod(q) /\ pc'[q] = "init"
            BY <3>1, <4>1, <4>4, <4>5, <4>8 DEF TypeInv, KernelTypes
          <5>1. ASSUME NEW q \in Procs, pc'[q] = "init"
                PROVE  /\ q = p => Mod(q)' = m
                       /\ q # p => pc[q] = "init" /\ Mod(q)' = Mod(q) /\ Mod(q) \in Range(list) \ live
            BY <5>0, <5>1 DEF TypeInv, Loading
          <5>2. \A q \in Procs : pc'[q] = "init" => Mod(q)' \in Range(list') \ live'
            BY Zenon, <3>1, <4>3, <5>0, <5>1
          <5>3. ASSUME NEW q \in Procs, NEW r \in Procs, pc'[q] = "init", pc'[r] = "init",
                       Mod(q)' = Mod(r)'
                PROVE  q = r
            <6>1. q = p <=> r = p
              BY <4>4, <5>1, <5>3
            <6> QED BY <5>1, <5>3, <6>1 DEF TypeInv, Loading
          <5>4. ASSUME NEW k \in Range(list') \ live' 
                PROVE  \E q \in Procs : pc'[q] = "init" /\ Mod(q)' = k
            <6>1. k = m \/ k \in Range(list) \ live
              BY <3>1, <4>3
            <6>2. CASE k = m
              BY <4>5, <5>0, <6>2
            <6>3. CASE k \in Range(list) \ live
              <7>1. PICK q \in Procs : pc[q] = "init" /\ Mod(q) = k
                BY <6>3 DEF TypeInv, Loading
              <7> QED BY <5>0, <7>1
            <6> QED BY <6>1, <6>2, <6>3
          <5> QED BY <5>2, <5>3, <5>4 DEF Loading
        <4>10. \A q \in Procs : Counts(q)'
          BY <3>1, <3>4, <4>5 DEF TypeInv, Counts
        <4> QED BY <4>6, <4>7, <4>9, <4>10 DEF TypeInv
      <3> QED BY <2>13, <3>2, <3>3, <3>4 DEF init_module
    <2>14. ASSUME NEW p \in Procs, ModuleInit(p) PROVE TypeInv'
      <3>1. PICK m : m = Mod(p)
        OBVIOUS
      <3>2. /\ pc[p] = "init" /\ n[p] \in 1..Len(Binary[p]) /\ m \in Range(list) \ live
            /\ UNCHANGED since /\ (Returned(p, 0) \/ Returned(p, -1))
        BY <2>14, <3>1, Programs DEF ModuleInit, TypeInv, ProcTypes, Counts, Loading
      <3>3. /\ pc' \in [Procs -> Places] /\ n' \in [Procs -> Nat] /\ ret' \in [Procs -> Int]
            /\ pc'[p] = "load" /\ Counts(p)'
            /\ \A q \in Procs \ {p} : pc'[q] = pc[q] /\ n'[q] = n[q] /\ ret'[q] = ret[q]
        BY <3>2, TypesReturned
      <3>4. \A q \in Procs \ {p} : Mod(q)' = Mod(q)
        BY <3>3 DEF Mod
      <3>5. CASE live' = live \cup {m} /\ UNCHANGED <<list, set_app_got, addr, app_got>>
        <4>1. ProcTypes' /\ KernelTypes'
          BY <3>2, <3>3, <3>5 DEF TypeInv, ProcTypes, KernelTypes, Unique
        <4>2. Loading'
          <5>1. \A q \in Procs : pc'[q] = "init" => q # p /\ Mod(q)' = Mod(q) /\ Mod(q) # m
            BY <3>1, <3>2, <3>3, <3>4, <3>5 DEF TypeInv, Loading
          <5>2. \A q \in Procs : pc'[q] = "init" => Mod(q)' \in Range(list') \ live'
            <6>1. \A q \in Procs : pc'[q] = "init" => Mod(q) \in Range(list) \ live
              BY <3>1, <3>2, <3>3, <3>4, <3>5, <5>1 DEF TypeInv, Loading
            <6> QED BY <3>1, <3>2, <3>3, <3>4, <3>5, <5>1, <6>1
          <5>3. ASSUME NEW q \in Procs, NEW r \in Procs, pc'[q] = "init", pc'[r] = "init",
                       Mod(q)' = Mod(r)'
                PROVE  q = r
            <6>1. Mod(q) = Mod(r) /\ pc[q] = "init" /\ pc[r] = "init"
              BY <3>1, <3>2, <3>3, <3>4, <3>5, <5>1, <5>3
            <6> QED BY <6>1 DEF TypeInv, Loading
          <5>4. ASSUME NEW k \in Range(list') \ live'
                PROVE  \E q \in Procs : pc'[q] = "init" /\ Mod(q)' = k
            <6>1. k # m /\ k \in Range(list) \ live
              BY <3>1, <3>2, <3>3, <3>4, <3>5
            <6>2. PICK q \in Procs : pc[q] = "init" /\ Mod(q) = k
              BY <6>1 DEF TypeInv, Loading
            <6>3. q # p
              BY <3>1, <6>1, <6>2
            <6> QED BY <3>3, <3>4, <6>2, <6>3
          <5> QED BY <5>2, <5>3, <5>4 DEF Loading
        <4>3. \A q \in Procs : Counts(q)'
          BY <3>3, <3>5 DEF TypeInv, Counts
        <4> QED BY <4>1, <4>2, <4>3 DEF TypeInv
      <3>6. CASE free_module(m) /\ UNCHANGED live
        <4>1. ProcTypes'
          BY <3>2, <3>3, <3>6, TypesFreed DEF TypeInv, ProcTypes
        <4>2. KernelTypes'
          BY <3>2, <3>6, TypesFreed DEF TypeInv, KernelTypes
        <4>3. Range(list') = Range(list) \ {m}
          BY <3>2, <3>6, TypesFreed
        <4>4. Loading'
          <5>1. \A q \in Procs : pc'[q] = "init" => q # p /\ Mod(q)' = Mod(q) /\ Mod(q) # m
            BY <3>1, <3>2, <3>3, <3>4, <3>6, <4>3 DEF TypeInv, Loading
          <5>2. \A q \in Procs : pc'[q] = "init" => Mod(q)' \in Range(list') \ live'
            <6>1. \A q \in Procs : pc'[q] = "init" => Mod(q) \in Range(list) \ live
              BY <3>1, <3>2, <3>3, <3>4, <3>6, <4>3, <5>1 DEF TypeInv, Loading
            <6> QED BY <3>1, <3>2, <3>3, <3>4, <3>6, <4>3, <5>1, <6>1
          <5>3. ASSUME NEW q \in Procs, NEW r \in Procs, pc'[q] = "init", pc'[r] = "init",
                       Mod(q)' = Mod(r)'
                PROVE  q = r
            <6>1. Mod(q) = Mod(r) /\ pc[q] = "init" /\ pc[r] = "init"
              BY <3>1, <3>2, <3>3, <3>4, <3>6, <4>3, <5>1, <5>3
            <6> QED BY <6>1 DEF TypeInv, Loading
          <5>4. ASSUME NEW k \in Range(list') \ live'
                PROVE  \E q \in Procs : pc'[q] = "init" /\ Mod(q)' = k
            <6>1. k # m /\ k \in Range(list) \ live
              BY <3>1, <3>2, <3>3, <3>4, <3>6, <4>3
            <6>2. PICK q \in Procs : pc[q] = "init" /\ Mod(q) = k
              BY <6>1 DEF TypeInv, Loading
            <6>3. q # p
              BY <3>1, <6>1, <6>2
            <6> QED BY <3>3, <3>4, <6>2, <6>3
          <5> QED BY <5>2, <5>3, <5>4 DEF Loading
        <4>5. \A q \in Procs : set_app_got[q] # NotFound => set_app_got'[q] # NotFound
          BY <3>2, <3>6, TypesFreed
        <4>6. \A q \in Procs : Counts(q)'
          BY <3>3, <4>5 DEF TypeInv, Counts
        <4> QED BY <4>1, <4>2, <4>4, <4>6 DEF TypeInv
      <3> QED BY <2>14, <3>1, <3>5, <3>6 DEF ModuleInit
    <2>15. ASSUME NEW m \in Modules, rmmod(m) PROVE TypeInv'
      <3>1. /\ m \in live /\ m \in Range(list) /\ live' = live \ {m} /\ free_module(m)
            /\ Note({q \in Procs : Name[m] \in Names(q)}, "unload") /\ UNCHANGED <<pc, n, ret>>
        BY <2>15 DEF rmmod, TypeInv, KernelTypes
      <3>2. ProcTypes'
        BY <3>1, TypesFreed, TypesNote DEF TypeInv, ProcTypes
      <3>3. Range(list') = Range(list) \ {m}
        BY <3>1, TypesFreed
      <3>4. KernelTypes'
        BY <3>1, <3>3, TypesFreed DEF TypeInv, KernelTypes
      <3>5. Loading'
        <4>1. \A q \in Procs : Mod(q)' = Mod(q) /\ pc'[q] = pc[q]
          BY <3>1 DEF Mod
        <4>2. Range(list') \ live' = Range(list) \ live
          BY <3>1, <3>3
        <4>3. \A q \in Procs : pc'[q] = "init" => Mod(q)' \in Range(list') \ live'
          BY <4>1, <4>2 DEF TypeInv, Loading
        <4>4. ASSUME NEW q \in Procs, NEW r \in Procs, pc'[q] = "init", pc'[r] = "init",
                     Mod(q)' = Mod(r)'
              PROVE  q = r
          <5>1. Mod(q) = Mod(r) /\ pc[q] = "init" /\ pc[r] = "init"
            BY <4>1, <4>4
          <5> QED BY <5>1 DEF TypeInv, Loading
        <4>5. ASSUME NEW k \in Range(list') \ live'
              PROVE  \E q \in Procs : pc'[q] = "init" /\ Mod(q)' = k
          <5>1. PICK q \in Procs : pc[q] = "init" /\ Mod(q) = k
            BY <4>2 DEF TypeInv, Loading
          <5> QED BY <4>1, <5>1
        <4> QED BY <4>3, <4>4, <4>5 DEF Loading
      <3>6. \A q \in Procs : set_app_got[q] # NotFound => set_app_got'[q] # NotFound
        BY <3>1, TypesFreed
      <3>7. \A q \in Procs : Counts(q)'
        BY <3>1, <3>6 DEF TypeInv, Counts
      <3> QED BY <3>2, <3>4, <3>5, <3>7 DEF TypeInv
    <2> QED
      BY <2>1, <2>4, <2>5, <2>6, <2>7, <2>8, <2>9, <2>10, <2>12, <2>13, <2>14, <2>15
         DEF Next, dpld_resolver
  <1> QED BY <1>1, <1>2, PTL DEF Spec

(* Type correctness, for any number of processes and modules. *)
THEOREM TypeCorrect == Spec => []TypeOK
  <1>1. TypeInv => TypeOK
    <2> SUFFICES ASSUME TypeInv PROVE TypeOK
      OBVIOUS
    <2>1. Range(list) \subseteq Modules
      BY DEF TypeInv, KernelTypes, Range
    <2> QED BY <2>1 DEF TypeInv, ProcTypes, KernelTypes, Loading, Unique, Counts, TypeOK, Places
  <1> QED BY <1>1, TypeInvariant, PTL
-----------------------------------------------------------------------------
(* Loading *)

Step(p) == Start(p) \/ dpld_resolver(p) \/ Quit(p)

(* A process moves alone. *)
LEMMA OthersStay ==
    ASSUME TypeInv, NEW p \in Procs, Step(p)
    PROVE  \A q \in Procs \ {p} : pc'[q] = pc[q] /\ n'[q] = n[q] /\ ret'[q] = ret[q]
  <1> USE DEF TypeInv, ProcTypes, Goto, local
  <1>1. CASE Leave(p)
    BY <1>1 DEF Leave
  <1>2. ASSUME NEW r \in {-1, 0}, Returned(p, r)
        PROVE  \A q \in Procs \ {p} : pc'[q] = pc[q] /\ n'[q] = n[q] /\ ret'[q] = ret[q]
    BY <1>2 DEF Returned
  <1>3. CASE Start(p)
    BY <1>3 DEF Start
  <1>4. CASE Quit(p)
    BY <1>1, <1>4 DEF Quit
  <1>5. CASE force_symres_now(p)
    BY <1>1, <1>5 DEF force_symres_now
  <1>6. CASE init_module(p)
    BY <1>2, <1>6 DEF init_module
  <1>7. CASE Waited(p)
    BY <1>2, <1>7 DEF Waited
  <1>8. CASE ModuleInit(p)
    BY <1>2, <1>8 DEF ModuleInit
  <1>9. CASE Loaded(p)
    BY <1>1, <1>9 DEF Loaded
  <1>10. CASE FindSetAppGot(p)
    BY <1>1, <1>10 DEF FindSetAppGot
  <1>11. CASE SetAppGot(p)
    BY <1>1, <1>11 DEF SetAppGot
  <1>12. CASE Resolve(p)
    BY <1>1, <1>12 DEF Resolve
  <1> QED
    BY <1>3, <1>4, <1>5, <1>6, <1>7, <1>8, <1>9, <1>10, <1>11, <1>12 DEF Step, dpld_resolver

(* What is noted about a process stays noted while it runs. *)
LEMMA NotedStays ==
    ASSUME TypeInv, Next, NEW q \in Procs, pc[q] # "idle", pc'[q] # "idle"
    PROVE  since[q] \subseteq since'[q]
  <1> USE DEF TypeInv, ProcTypes
  <1>1. CASE UNCHANGED since
    BY <1>1
  <1>2. ASSUME NEW ps, NEW what, Note(ps, what) PROVE since[q] \subseteq since'[q]
    BY <1>2 DEF Note
  <1>3. ASSUME NEW p \in Procs, Leave(p) PROVE since[q] \subseteq since'[q]
    BY <1>3 DEF Leave, Goto
  <1>4. ASSUME NEW p \in Procs, Start(p) PROVE since[q] \subseteq since'[q]
    BY <1>4 DEF Start
  <1>5. ASSUME NEW p \in Procs, force_symres_now(p) \/ Quit(p) PROVE since[q] \subseteq since'[q]
    BY <1>1, <1>3, <1>5 DEF force_symres_now, Quit
  <1>6. ASSUME NEW p \in Procs, init_module(p) PROVE since[q] \subseteq since'[q]
    BY <1>1, <1>2, <1>6 DEF init_module
  <1>7. ASSUME NEW p \in Procs, Waited(p) \/ ModuleInit(p) PROVE since[q] \subseteq since'[q]
    BY <1>1, <1>7 DEF Waited, ModuleInit
  <1>8. ASSUME NEW p \in Procs, Loaded(p) \/ FindSetAppGot(p) \/ Resolve(p)
        PROVE  since[q] \subseteq since'[q]
    BY <1>1, <1>3, <1>8 DEF Loaded, FindSetAppGot, Resolve
  <1>9. ASSUME NEW p \in Procs, SetAppGot(p) PROVE since[q] \subseteq since'[q]
    BY <1>1, <1>2, <1>3, <1>9 DEF SetAppGot
  <1>10. ASSUME NEW m \in Modules, rmmod(m) PROVE since[q] \subseteq since'[q]
    BY <1>2, <1>10 DEF rmmod
  <1> QED
    BY <1>4, <1>5, <1>6, <1>7, <1>8, <1>9, <1>10 DEF Next, dpld_resolver

(* A live module that has a name of the program's stays live, or the       *)
(* program is noted to have had one unloaded.                              *)
LEMMA LiveStays ==
    ASSUME TypeInv, Next, NEW q \in Procs, pc[q] # "idle", pc'[q] # "idle",
           "unload" \notin since'[q]
    PROVE  \A k \in live : Name[k] \in Names(q) => k \in live'
  <1>1. ASSUME NEW p \in Procs, Step(p) PROVE live \subseteq live'
    BY <1>1 DEF Step, dpld_resolver, Start, Quit, force_symres_now, init_module, Waited,
        ModuleInit, Loaded, FindSetAppGot, SetAppGot, Resolve, kernel
  <1>2. ASSUME NEW m \in Modules, rmmod(m), NEW k \in live, Name[k] \in Names(q)
        PROVE  k \in live'
    <2>1. live' = live \ {m} /\ Note({r \in Procs : Name[m] \in Names(r)}, "unload")
      BY <1>2 DEF rmmod
    <2>2. Name[m] \notin Names(q)
      BY <2>1 DEF Note
    <2> QED BY <1>2, <2>1, <2>2
  <1> QED BY <1>1, <1>2 DEF Next, Step

(* The names a process has to do with, up to where it is in its modules,   *)
(* are those of live modules, as long as nothing failed.                   *)
HasLive(m) == \E k \in live : Name[k] = Name[m]
LoadedSoFar(p) ==
    "unload" \notin since[p] =>
        /\ pc[p] \in {"load", "wait", "init"} /\ ret[p] = 0 =>
             \A i \in 1..Len(Binary[p]) : i < n[p] => HasLive(Binary[p][i])
        /\ Past(p) => \A m \in Carried(p) : HasLive(m)

LEMMA LoadedInvariant == Spec => [](\A p \in Procs : LoadedSoFar(p))
  <1> DEFINE Inv == \A p \in Procs : LoadedSoFar(p)
  <1>1. Init => Inv
    BY DEF Init, LoadedSoFar, Past
  <1>2. TypeInv /\ Inv /\ [Next]_vars => Inv'
    <2> SUFFICES ASSUME TypeInv, Inv, [Next]_vars, NEW p \in Procs PROVE LoadedSoFar(p)'
      OBVIOUS
    <2>1. CASE UNCHANGED vars
      BY <2>1 DEF vars, local, kernel, LoadedSoFar, Past, HasLive
    <2>2. CASE Next /\ pc[p] # "idle" /\ pc'[p] # "idle" /\ "unload" \notin since'[p]
      <3>1. "unload" \notin since[p]
        BY <2>2, NotedStays
      <3>2. \A k \in live : Name[k] \in Names(p) => k \in live'
        BY <2>2, LiveStays
      <3>3. ASSUME NEW m \in Carried(p), HasLive(m) PROVE HasLive(m)'
        <4>1. PICK k \in live : Name[k] = Name[m]
          BY <3>3 DEF HasLive
        <4>2. k \in live'
          BY <3>2, <4>1 DEF Names
        <4> QED BY <4>1, <4>2 DEF HasLive
      <3>4. \A i \in 1..Len(Binary[p]) : Binary[p][i] \in Carried(p)
        BY Programs
      <3>5. /\ pc[p] \in {"load", "wait", "init"} /\ ret[p] = 0 =>
                 \A i \in 1..Len(Binary[p]) : i < n[p] => HasLive(Binary[p][i])'
            /\ Past(p) => \A m \in Carried(p) : HasLive(m)'
        BY <3>1, <3>3, <3>4 DEF LoadedSoFar
      <3>6. SUFFICES
              /\ pc'[p] \in {"load", "wait", "init"} /\ ret'[p] = 0 =>
                   \A i \in 1..Len(Binary[p]) : i < n'[p] => HasLive(Binary[p][i])'
              /\ Past(p)' => \A m \in Carried(p) : HasLive(m)'
        BY DEF LoadedSoFar
      <3>7. CASE pc'[p] = pc[p] /\ n'[p] = n[p] /\ ret'[p] = ret[p]
        BY <3>5, <3>7 DEF Past
      <3>8. CASE \E q \in Procs \ {p} : Step(q)
        BY <3>7, <3>8, OthersStay
      <3>9. CASE \E m \in Modules : rmmod(m)
        BY <3>7, <3>9 DEF rmmod
      <3>10. CASE Past(p) /\ Past(p)'
        BY <3>5, <3>10 DEF Past
      <3>11. ASSUME (\E k \in live' : Name[k] = Name[Mod(p)]) \/ ~Returned(p, 0), pc[p] \in {"load", "wait", "init"},
                    Returned(p, 0) \/ Returned(p, -1)
             PROVE  LoadedSoFar(p)'
        <4>1. PICK r \in {-1, 0} : Returned(p, r) /\ (r = 0 => \E k \in live' : Name[k] = Name[Mod(p)])
          BY <3>11
        <4>2. pc'[p] = "load" /\ n'[p] = n[p] + 1 /\ ret'[p] = ret[p] + r
          BY <4>1 DEF Returned, Goto, TypeInv, ProcTypes
        <4>3. ret[p] \in Int /\ ret[p] <= 0 /\ n[p] \in Nat
          BY DEF TypeInv, ProcTypes, Counts
        <4>4. ASSUME ret'[p] = 0, NEW i \in 1..Len(Binary[p]), i < n'[p]
              PROVE  HasLive(Binary[p][i])'
          <5>1. r = 0 /\ ret[p] = 0 /\ (i < n[p] \/ i = n[p])
            BY <4>2, <4>3, <4>4, Programs
          <5>2. CASE i < n[p]
            BY <3>5, <3>11, <5>1, <5>2
          <5>3. CASE i = n[p]
            <6>1. Binary[p][i] = Mod(p)
              BY <5>3 DEF Mod
            <6> QED BY <4>1, <5>1, <6>1 DEF HasLive
          <5> QED BY <5>1, <5>2, <5>3
        <4> QED BY <4>2, <4>4 DEF LoadedSoFar, Past
      <3>12. CASE force_symres_now(p)
        <4>1. pc'[p] = "load" /\ n'[p] = 1
          BY <2>2, <3>12 DEF force_symres_now, Leave, Goto, local, TypeInv, ProcTypes, Counts
        <4>2. \A i \in 1..Len(Binary[p]) : ~(i < n'[p])
          BY <4>1, Programs
        <4> QED BY <4>1, <4>2 DEF Past
      <3>13. CASE init_module(p)
        <4>1. pc[p] = "load" /\ UNCHANGED live
          BY <3>13 DEF init_module
        <4>2. CASE Returned(p, 0) /\ Same(p) # {} /\ Same(p) \subseteq live
          BY <2>2, <3>11, <4>1, <4>2 DEF Same, LoadedSoFar
        <4>3. CASE Returned(p, -1) /\ ~Returned(p, 0)
          BY <2>2, <3>11, <4>1, <4>3 DEF LoadedSoFar
        <4>4. CASE UNCHANGED <<n, ret>> /\ (Goto(p, "wait") \/ Goto(p, "init"))
          <5>1. pc'[p] \in {"wait", "init"}
            BY <4>4 DEF Goto, TypeInv, ProcTypes
          <5> QED BY <3>5, <4>1, <4>4, <5>1 DEF Past
        <4>5. Returned(p, -1) => ~Returned(p, 0)
          BY DEF Returned, TypeInv, ProcTypes
        <4> QED BY <3>13, <4>2, <4>3, <4>4, <4>5 DEF init_module
      <3>14. CASE Waited(p)
        <4>1. pc[p] = "wait" /\ Same(p) \subseteq live /\ UNCHANGED live
          BY <3>14 DEF Waited, kernel
        <4>2. Returned(p, -1) => ~Returned(p, 0)
          BY DEF Returned, TypeInv, ProcTypes
        <4>3. (Returned(p, 0) /\ Same(p) # {}) \/ Returned(p, -1)
          BY <3>14 DEF Waited
        <4> QED BY <2>2, <3>11, <4>1, <4>2, <4>3 DEF Same, LoadedSoFar
      <3>15. CASE ModuleInit(p)
        <4>1. Returned(p, -1) => ~Returned(p, 0)
          BY DEF Returned, TypeInv, ProcTypes
        <4>2. /\ pc[p] = "init"
              /\ (Returned(p, 0) /\ live' = live \cup {Mod(p)}) \/ Returned(p, -1)
          BY <3>15 DEF ModuleInit
        <4> QED BY <2>2, <3>11, <4>1, <4>2 DEF LoadedSoFar
      <3>16. CASE Loaded(p)
        <4>1. /\ pc[p] = "load" /\ n[p] > Len(Binary[p]) /\ ret[p] = 0
              /\ pc'[p] \in {"got", "lookup"}
          BY <2>2, <3>16 DEF Loaded, Leave, Goto, TypeInv, ProcTypes
        <4>2. \A i \in 1..Len(Binary[p]) : i < n[p]
          BY <4>1, Programs DEF TypeInv, ProcTypes
        <4>3. \A i \in 1..Len(Binary[p]) : HasLive(Binary[p][i])'
          BY <3>5, <4>1, <4>2
        <4>4. ASSUME NEW m \in Carried(p) PROVE HasLive(m)'
          <5>1. PICK i \in 1..Len(Binary[p]) : m = Binary[p][i]
            <6>1. Binary[p] \in Seq(Modules)
              BY ProgramsAssumption
            <6> QED BY <6>1 DEF Carried, Range
          <5> QED BY <4>3, <5>1
        <4> QED BY <4>1, <4>4
      <3>17. CASE FindSetAppGot(p) \/ SetAppGot(p) \/ Resolve(p)
        <4>1. pc[p] \in {"got", "set", "lookup"} /\ (Leave(p) \/ pc'[p] \in {"set", "lookup", "run"})
          BY <3>17 DEF FindSetAppGot, SetAppGot, Resolve, Goto, TypeInv, ProcTypes
        <4>2. pc'[p] \in {"set", "lookup", "run"}
          BY <2>2, <4>1 DEF Leave, Goto, TypeInv, ProcTypes
        <4> QED BY <3>10, <4>1, <4>2 DEF Past
      <3>18. ~Start(p) /\ ~Quit(p)
        BY <2>2 DEF Start, Quit, Leave, Goto, TypeInv, ProcTypes
      <3> QED
        BY <2>2, <3>8, <3>9, <3>12, <3>13, <3>14, <3>15, <3>16, <3>17, <3>18
           DEF Next, Step, dpld_resolver
    <2>3. CASE Next /\ pc[p] = "idle"
      <3>1. pc'[p] \in {"idle", "start"}
        <4>1. CASE \E q \in Procs \ {p} : Step(q)
          BY <2>3, <4>1, OthersStay
        <4>2. CASE \E m \in Modules : rmmod(m)
          BY <2>3, <4>2 DEF rmmod
        <4>3. CASE Step(p)
          BY <2>3, <4>3 DEF Step, dpld_resolver, Start, Quit, force_symres_now, init_module,
             Waited, ModuleInit, Loaded, FindSetAppGot, SetAppGot, Resolve, Goto, TypeInv, ProcTypes
        <4> QED BY <2>3, <4>1, <4>2, <4>3 DEF Next, Step
      <3> QED BY <3>1 DEF LoadedSoFar, Past
    <2>4. CASE pc'[p] = "idle" \/ "unload" \in since'[p]
      BY <2>4 DEF LoadedSoFar, Past
    <2> QED BY <2>1, <2>2, <2>3, <2>4
  <1> QED BY <1>1, <1>2, TypeInvariant, PTL DEF Spec

(* A process that goes on after loading its modules has for each of them a *)
(* live one of that name, whoever loaded it, whatever failed and whoever   *)
(* else was loading it, unless one of its names was unloaded since.        *)
THEOREM LoadedIsReady == Spec => []Ready
  <1>1. (\A p \in Procs : LoadedSoFar(p)) => Ready
    BY DEF LoadedSoFar, HasLive, Ready
  <1> QED BY <1>1, LoadedInvariant, PTL
-----------------------------------------------------------------------------
(* What a step does to the kernel and to the pointers into it: nothing, or *)
(* a module goes on the list or off it, or a process leaves, or gives its  *)
(* table.                                                                  *)
Quiet ==
    /\ UNCHANGED <<list, app_got>> /\ live \subseteq live'
    /\ UNCHANGED set_app_got \/ \E p \in Procs : FindSetAppGot(p) /\ ~Leave(p)
    /\ UNCHANGED addr \/ \E p \in Procs : Resolve(p) /\ ~Leave(p)
Pushed(m) ==
    /\ \A k \in Range(list) : Name[k] # Name[m]
    /\ list' = <<m>> \o list /\ Note({q \in Procs : Foreign(q, m)}, "foreign")
    /\ UNCHANGED <<set_app_got, addr, live, app_got>>
Taken(m) ==
    /\ free_module(m)
    /\ \/ m \notin live /\ UNCHANGED live
       \/ live' = live \ {m} /\ Note({q \in Procs : Name[m] \in Names(q)}, "unload")
Left(p) == Leave(p) /\ UNCHANGED <<list, live>>
Given(p) ==
    /\ pc[p] = "set" /\ set_app_got[p] # Freed /\ Goto(p, "lookup")
    /\ app_got' = [app_got EXCEPT ![set_app_got[p]] = p]
    /\ Note(Procs \ {p}, "table") /\ UNCHANGED <<local, list, live>>

LEMMA Effects ==
    ASSUME TypeInv, Next
    PROVE  \/ Quiet \/ (\E m \in Modules : Pushed(m)) \/ (\E m \in Range(list) : Taken(m))
           \/ \E p \in Procs : Left(p) \/ Given(p)
  <1>1. ASSUME NEW p \in Procs, Start(p) \/ Waited(p) PROVE Quiet
    BY <1>1 DEF Start, Waited, Quiet, local, kernel
  <1>2. ASSUME NEW p \in Procs, Quit(p) PROVE Left(p)
    BY <1>2 DEF Quit, Left
  <1>3. ASSUME NEW p \in Procs, force_symres_now(p) PROVE Quiet \/ Left(p)
    BY <1>3 DEF force_symres_now, Quiet, Left, local
  <1>4. ASSUME NEW p \in Procs, init_module(p) PROVE Quiet \/ \E m \in Modules : Pushed(m)
    <2>0. /\ n[p] \in 1..(1 + Len(Binary[p]) + Len(Wanted[p])) /\ n[p] <= Len(Binary[p])
          /\ Len(Binary[p]) \in Nat /\ Len(Wanted[p]) \in Nat
      BY <1>4, Programs DEF init_module, TypeInv, Counts
    <2>1. n[p] \in 1..Len(Binary[p])
      BY <2>0
    <2>2. Mod(p) \in Modules
      BY <2>1, Programs DEF Mod
    <2>3. CASE UNCHANGED list
      BY <1>4, <2>3 DEF init_module, Quiet
    <2>4. CASE ~UNCHANGED list
      <3>1. /\ Same(p) = {} /\ list' = <<Mod(p)>> \o list
            /\ Note({q \in Procs : Foreign(q, Mod(p))}, "foreign")
            /\ UNCHANGED <<set_app_got, addr, live, app_got>>
        BY <1>4, <2>4 DEF init_module
      <3>2. Pushed(Mod(p))
        BY <3>1 DEF Same, Pushed
      <3> QED BY <2>2, <3>2
    <2> QED BY <2>3, <2>4
  <1>5. ASSUME NEW p \in Procs, ModuleInit(p) PROVE Quiet \/ \E m \in Range(list) : Taken(m)
    <2>1. Mod(p) \in Range(list) \ live
      BY <1>5 DEF ModuleInit, TypeInv, Loading
    <2>2. CASE UNCHANGED <<list, set_app_got, addr, app_got>> /\ live' = live \cup {Mod(p)}
      BY <2>2 DEF Quiet
    <2>3. CASE free_module(Mod(p)) /\ UNCHANGED live
      BY <2>1, <2>3 DEF Taken
    <2> QED BY <1>5, <2>2, <2>3 DEF ModuleInit
  <1>6. ASSUME NEW p \in Procs, Loaded(p) PROVE Quiet \/ Left(p)
    BY <1>6 DEF Loaded, Quiet, Left
  <1>7. ASSUME NEW p \in Procs, FindSetAppGot(p) PROVE Quiet \/ Left(p)
    <2>1. CASE Leave(p)
      BY <1>7, <2>1 DEF FindSetAppGot, Left
    <2>2. CASE ~Leave(p)
      <3>1. UNCHANGED <<list, live, app_got, addr>>
        BY <1>7, <2>2 DEF FindSetAppGot
      <3> QED BY <1>7, <2>2, <3>1 DEF Quiet
    <2> QED BY <2>1, <2>2
  <1>8. ASSUME NEW p \in Procs, SetAppGot(p) PROVE Quiet \/ Left(p) \/ Given(p)
    BY <1>8 DEF SetAppGot, Quiet, Left, Given, local
  <1>9. ASSUME NEW p \in Procs, Resolve(p) PROVE Quiet \/ Left(p)
    <2>1. CASE Leave(p)
      BY <1>9, <2>1 DEF Resolve, Left
    <2>2. CASE ~Leave(p)
      <3>1. UNCHANGED <<list, live, app_got, set_app_got>>
        BY <1>9, <2>2 DEF Resolve
      <3> QED BY <1>9, <2>2, <3>1 DEF Quiet
    <2> QED BY <2>1, <2>2
  <1>10. ASSUME NEW m \in Modules, rmmod(m) PROVE \E k \in Range(list) : Taken(k)
    <2>1. m \in Range(list) /\ Taken(m)
      BY <1>10 DEF rmmod, Taken, TypeInv, KernelTypes
    <2> QED BY <2>1
  <1> QED
    BY Zenon, <1>1, <1>2, <1>3, <1>4, <1>5, <1>6, <1>7, <1>8, <1>9, <1>10 DEF Next, dpld_resolver
-----------------------------------------------------------------------------
(* The program's table *)

(* While no module of another program is noted, there is none. *)
NoForeign(p) ==
    pc[p] # "idle" /\ "foreign" \notin since[p] => \A k \in Range(list) : ~Foreign(p, k)

LEMMA ForeignInvariant == Spec => [](\A p \in Procs : NoForeign(p))
  <1> DEFINE Inv == \A p \in Procs : NoForeign(p)
  <1>1. Init => Inv
    BY DEF Init, NoForeign
  <1>2. TypeInv /\ Inv /\ [Next]_vars => Inv'
    <2> SUFFICES ASSUME TypeInv, Inv, [Next]_vars, NEW p \in Procs,
                        pc'[p] # "idle", "foreign" \notin since'[p], NEW k \in Range(list')
                 PROVE  ~Foreign(p, k)
      BY DEF NoForeign
    <2>1. CASE UNCHANGED vars
      BY <2>1 DEF vars, kernel, NoForeign
    <2>2. CASE Next /\ pc[p] # "idle"
      <3>1. \A j \in Range(list) : ~Foreign(p, j)
        BY <2>2, NotedStays DEF NoForeign
      <3>2. CASE UNCHANGED list
        BY <3>1, <3>2
      <3>3. ASSUME NEW m \in Modules, Pushed(m) PROVE ~Foreign(p, k)
        <4>1. k \in Range(list) \cup {m}
          BY <3>3, ListPush DEF Pushed, TypeInv, KernelTypes
        <4>2. ~Foreign(p, m)
          BY <2>2, <3>3 DEF Pushed, Note
        <4> QED BY <3>1, <4>1, <4>2
      <3>4. ASSUME NEW m \in Range(list), Taken(m) PROVE ~Foreign(p, k)
        <4>1. k \in Range(list)
          BY <3>4, TypesFreed DEF Taken
        <4> QED BY <3>1, <4>1
      <3> QED BY <2>2, <3>2, <3>3, <3>4, Effects DEF Quiet, Left, Given
    <2>3. CASE Next /\ pc[p] = "idle"
      <3>1. Start(p)
        <4>1. CASE \E q \in Procs \ {p} : Step(q)
          BY <2>3, <4>1, OthersStay
        <4>2. CASE \E m \in Modules : rmmod(m)
          BY <2>3, <4>2 DEF rmmod
        <4>3. CASE Step(p)
          BY <2>3, <4>3 DEF Step, dpld_resolver, Quit, force_symres_now, init_module,
             Waited, ModuleInit, Loaded, FindSetAppGot, SetAppGot, Resolve
        <4> QED BY <2>3, <4>1, <4>2, <4>3 DEF Next, Step
      <3>2. UNCHANGED list /\ since'[p] = IF \E m \in Range(list) : Foreign(p, m) THEN {"foreign"} ELSE {}
        BY <3>1 DEF Start, kernel, TypeInv, ProcTypes
      <3> QED BY <3>2
    <2> QED BY <2>1, <2>2, <2>3
  <1> QED BY <1>1, <1>2, TypeInvariant, PTL DEF Spec

(* The module whose set_app_got a program has found is one of its own,     *)
(* initialised, and the newest that has the symbol.                        *)
Newest(m) == \A k \in Range(list) : "set_app_got" \in Exports[k] => ~Newer(k, m)
Chosen(p) ==
    p \in Callbacks /\ pc[p] \in {"set", "lookup", "run"} /\ since[p] \subseteq {"table"} =>
        LET m == set_app_got[p] IN m \in live /\ Name[m] \in Names(p) /\ Newest(m)

(* A program is past the choice because it has just chosen, or was before. *)
LEMMA ChosenBefore ==
    ASSUME TypeInv, Next, NEW p \in Procs, p \in Callbacks, pc'[p] \in {"set", "lookup", "run"}
    PROVE  \/ FindSetAppGot(p) /\ ~Leave(p)
           \/ /\ pc[p] \in {"set", "lookup", "run"}
              /\ \/ set_app_got'[p] = set_app_got[p]
                 \/ \E m \in Range(list) : Taken(m) /\ set_app_got[p] = m
  <1>1. CASE \E q \in Procs \ {p} : Step(q)
    <2>1. pc[p] \in {"set", "lookup", "run"}
      BY <1>1, OthersStay
    <2>2. CASE \E m \in Range(list) : Taken(m)
      BY <2>1, <2>2, TypesFreed DEF Taken
    <2>3. CASE (\E m \in Modules : Pushed(m)) \/ \E q \in Procs : Given(q)
      BY <2>1, <2>3 DEF Pushed, Given, local
    <2>4. ASSUME NEW q \in Procs, Left(q) PROVE set_app_got'[p] = set_app_got[p]
      <3>1. q # p
        BY <2>4 DEF Left, Leave, Goto, TypeInv, ProcTypes
      <3> QED BY <2>4, <3>1 DEF Left, Leave, TypeInv, ProcTypes
    <2>5. CASE Quiet
      <3>1. CASE UNCHANGED set_app_got
        BY <2>1, <3>1
      <3>2. CASE \E r \in Procs : FindSetAppGot(r) /\ ~Leave(r)
        <4>1. PICK r \in Procs : FindSetAppGot(r) /\ ~Leave(r)
          BY <3>2
        <4>2. r # p
          BY <2>1, <4>1 DEF FindSetAppGot
        <4>3. set_app_got'[p] = set_app_got[p]
          BY <4>1, <4>2 DEF FindSetAppGot, TypeInv, ProcTypes
        <4> QED BY <2>1, <4>3
      <3> QED BY <2>5, <3>1, <3>2 DEF Quiet
    <2> QED BY Zenon, <2>1, <2>2, <2>3, <2>4, <2>5, Effects
  <1>2. ASSUME NEW m \in Modules, rmmod(m)
        PROVE  /\ pc[p] \in {"set", "lookup", "run"}
               /\ \/ set_app_got'[p] = set_app_got[p]
                  \/ \E k \in Range(list) : Taken(k) /\ set_app_got[p] = k
    <2>1. m \in Range(list) /\ Taken(m) /\ UNCHANGED pc
      BY <1>2 DEF rmmod, Taken, TypeInv, KernelTypes
    <2> QED BY <2>1, TypesFreed DEF Taken
  <1>3. CASE Step(p)
    <2>1. ~Leave(p)
      BY DEF Leave, Goto, TypeInv, ProcTypes
    <2>2. ~Returned(p, 0) /\ ~Returned(p, -1)
      BY DEF Returned, Goto, TypeInv, ProcTypes
    <2>3. pc' # [pc EXCEPT ![p] = "start"] /\ pc' # [pc EXCEPT ![p] = "load"]
          /\ pc' # [pc EXCEPT ![p] = "wait"] /\ pc' # [pc EXCEPT ![p] = "init"]
          /\ pc' # [pc EXCEPT ![p] = "got"]
      BY DEF TypeInv, ProcTypes
    <2>4. ~Start(p) /\ ~Quit(p) /\ ~force_symres_now(p)
      BY <2>1, <2>3 DEF Start, Quit, force_symres_now, Goto
    <2>5. ~init_module(p) /\ ~Waited(p) /\ ~ModuleInit(p)
      BY <2>2, <2>3 DEF init_module, Waited, ModuleInit, Goto
    <2>6. ~Loaded(p)
      BY <2>1, <2>3 DEF Loaded, Goto
    <2>7. CASE SetAppGot(p)
      BY <2>1, <2>7 DEF SetAppGot, local
    <2>8. CASE Resolve(p)
      BY <2>1, <2>8 DEF Resolve
    <2> QED BY <1>3, <2>1, <2>4, <2>5, <2>6, <2>7, <2>8 DEF Step, dpld_resolver
  <1> QED BY <1>1, <1>2, <1>3 DEF Next, Step

LEMMA ChosenInvariant == Spec => [](\A p \in Procs : Chosen(p))
  <1> DEFINE Inv == \A p \in Procs : Chosen(p)
             Loads == \A p \in Procs : LoadedSoFar(p)
             Alone == \A p \in Procs : NoForeign(p)
             Rest == TypeInv /\ Loads /\ Alone
  <1>1. Init => Inv
    BY DEF Init, Chosen
  <1>2. Rest /\ Inv /\ [Next]_vars => Inv'
    <2> SUFFICES ASSUME Rest, Inv, [Next]_vars, NEW p \in Procs, p \in Callbacks,
                        pc'[p] \in {"set", "lookup", "run"}, since'[p] \subseteq {"table"}
                 PROVE  /\ set_app_got'[p] \in live' /\ Name[set_app_got'[p]] \in Names(p)
                        /\ Newest(set_app_got[p])'
      BY DEF Chosen
    <2>1. CASE UNCHANGED vars
      <3>1. UNCHANGED <<pc, set_app_got, since, list, live>>
        BY <2>1 DEF vars, local, kernel
      <3>2. set_app_got[p] \in live /\ Name[set_app_got[p]] \in Names(p) /\ Newest(set_app_got[p])
        BY <3>1 DEF Chosen
      <3> QED BY <3>1, <3>2 DEF Newest, Newer
    <2>2. CASE FindSetAppGot(p) /\ ~Leave(p)
      <3>1. PICK m : m = kallsyms_lookup_name("set_app_got")
        OBVIOUS
      <3>2. /\ pc[p] = "got" /\ m # NotFound /\ set_app_got' = [set_app_got EXCEPT ![p] = m]
            /\ UNCHANGED <<since, list, live>>
        BY <2>2, <3>1 DEF FindSetAppGot
      <3>3. list \in Seq(Modules) /\ Unique /\ live \subseteq Range(list)
        BY DEF TypeInv, KernelTypes
      <3>4. m \in Modules /\ m \in Range(list) /\ "set_app_got" \in Exports[m] /\ Newest(m)
        BY <3>1, <3>2, <3>3, LookupFinds, ProgramsAssumption DEF Newest
      <3>5. since[p] \subseteq {"table"}
        BY <3>2
      <3>6. Name[m] \in Names(p)
        BY <3>2, <3>4, <3>5 DEF NoForeign, Foreign
      <3>7. PICK c \in Carried(p) : Name[c] = Name[m]
        BY <3>6 DEF Names
      <3>8. PICK k \in live : Name[k] = Name[c]
        BY <3>2, <3>5 DEF LoadedSoFar, Past, HasLive
      <3>9. k = m
        BY <3>3, <3>4, <3>7, <3>8 DEF Range, Unique
      <3>10. set_app_got'[p] = m
        BY <3>2 DEF TypeInv, ProcTypes
      <3> QED BY <3>2, <3>4, <3>6, <3>8, <3>9, <3>10 DEF Newest, Newer
    <2>3. CASE Next /\ ~(FindSetAppGot(p) /\ ~Leave(p))
      <3>1. PICK m : m = set_app_got[p]
        OBVIOUS
      <3>2. /\ pc[p] \in {"set", "lookup", "run"}
            /\ set_app_got'[p] = m \/ (\E k \in Range(list) : Taken(k) /\ m = k)
        BY <2>3, <3>1, ChosenBefore
      <3>3. since[p] \subseteq {"table"} /\ "unload" \notin since'[p] /\ "foreign" \notin since'[p]
        BY <2>3, <3>2, NotedStays
      <3>4. m \in live /\ Name[m] \in Names(p) /\ Newest(m)
        BY <3>1, <3>2, <3>3 DEF Chosen
      <3>5. m \in live'
        BY <2>3, <3>2, <3>3, <3>4, LiveStays
      <3>6. ~Taken(m)
        BY <3>2, <3>3, <3>4 DEF Taken, Note
      <3>7. set_app_got'[p] = m
        BY <3>2, <3>6
      <3>8. ASSUME NEW k \in Range(list'), "set_app_got" \in Exports[k], Newer(k, m)' PROVE FALSE
        <4>1. ~(k \in Range(list) /\ Newer(k, m))
          BY <3>4, <3>8 DEF Newest
        <4>2. CASE UNCHANGED list
          BY <3>8, <4>1, <4>2 DEF Newer
        <4>3. ASSUME NEW j \in Range(list), Taken(j) PROVE FALSE
          BY <3>8, <4>1, <4>3, TypesFreed DEF Taken
        <4>4. ASSUME NEW j \in Modules, Pushed(j) PROVE FALSE
          <5>1. list \in Seq(Modules) /\ Unique /\ live \subseteq Range(list)
            BY DEF TypeInv, KernelTypes
          <5>2. /\ Range(list') = Range(list) \cup {j}
                /\ \A a, b : Newer(a, b)' => a = j \/ Newer(a, b)
            BY <4>4, <5>1, ListPush DEF Pushed
          <5>3. k = j
            BY <3>8, <4>1, <5>2
          <5>4. ~Foreign(p, j)
            BY <3>2, <3>3, <4>4 DEF Pushed, Note
          <5>5. PICK c \in Carried(p) : Name[c] = Name[j]
            BY <3>8, <5>3, <5>4 DEF Foreign, Names
          <5>6. PICK i \in live : Name[i] = Name[c]
            BY <3>2, <3>3 DEF LoadedSoFar, Past, HasLive
          <5> QED BY <4>4, <5>1, <5>5, <5>6 DEF Pushed
        <4> QED BY <2>3, <4>2, <4>3, <4>4, Effects DEF Quiet, Left, Given
      <3>9. Newest(set_app_got[p])'
        BY <3>7, <3>8 DEF Newest, Newer
      <3> QED BY <3>4, <3>5, <3>7, <3>9
    <2> QED BY <2>1, <2>2, <2>3
  <1>3. Spec => []Loads /\ []Alone
    BY LoadedInvariant, ForeignInvariant
  <1> QED BY <1>1, <1>2, <1>3, TypeInvariant, PTL DEF Spec

(* A module that has the table of a process that runs was given it by that *)
(* process, which knows of no other.                                       *)
Holds(p) ==
    \A k \in Modules : app_got[k] = p => pc[p] \in {"lookup", "run"} /\ set_app_got[p] = k

LEMMA HoldsInvariant == Spec => [](\A p \in Procs : Holds(p))
  <1> DEFINE Inv == \A p \in Procs : Holds(p)
  <1>1. Init => Inv
    BY ProgramsAssumption DEF Init, Holds
  <1>2. TypeInv /\ Inv /\ [Next]_vars => Inv'
    <2> SUFFICES ASSUME TypeInv, Inv, [Next]_vars, NEW p \in Procs, NEW k \in Modules,
                        app_got'[k] = p
                 PROVE  pc'[p] \in {"lookup", "run"} /\ set_app_got'[p] = k
      BY DEF Holds
    <2>1. CASE UNCHANGED vars
      BY <2>1 DEF vars, local, kernel, Holds
    <2>2. ASSUME NEW q \in Procs, Given(q), app_got[k] # p
          PROVE  pc'[p] \in {"lookup", "run"} /\ set_app_got'[p] = k
      <3>1. q = p /\ set_app_got[q] = k
        BY <2>2 DEF Given, TypeInv, KernelTypes
      <3> QED BY <2>2, <3>1 DEF Given, Goto, local, TypeInv, ProcTypes
    <2>3. CASE Next /\ app_got[k] # p
      <3>1. ASSUME NEW q \in Procs, Left(q) PROVE FALSE
        BY <2>3, <3>1, ProgramsAssumption DEF Left, Leave
      <3>2. ASSUME NEW m \in Range(list), Taken(m) PROVE FALSE
        BY <2>3, <3>2, ProgramsAssumption DEF Taken, free_module, TypeInv, KernelTypes
      <3>3. ASSUME NEW m \in Modules, Pushed(m) PROVE FALSE
        BY <2>3, <3>3 DEF Pushed
      <3>4. ~Quiet
        BY <2>3 DEF Quiet
      <3> QED BY <2>2, <2>3, <3>1, <3>2, <3>3, <3>4, Effects
    <2>4. CASE Next /\ app_got[k] = p
      <3>1. pc[p] \in {"lookup", "run"} /\ set_app_got[p] = k
        BY <2>4 DEF Holds
      <3>2. ~Leave(p)
        BY <3>1, ProgramsAssumption DEF Leave
      <3>4. pc'[p] \in {"lookup", "run"}
        <4>1. CASE Step(p)
          <5>1. Resolve(p)
            BY <3>1, <3>2, <4>1 DEF Step, dpld_resolver, Start, Quit, force_symres_now,
               init_module, Waited, ModuleInit, Loaded, FindSetAppGot, SetAppGot
          <5> QED BY <3>2, <5>1 DEF Resolve, Goto, TypeInv, ProcTypes
        <4>2. CASE \E q \in Procs \ {p} : Step(q)
          BY <3>1, <4>2, OthersStay
        <4>3. CASE \E m \in Modules : rmmod(m)
          BY <3>1, <4>3 DEF rmmod
        <4> QED BY <2>4, <4>1, <4>2, <4>3 DEF Next, Step
      <3>5. ASSUME NEW m \in Range(list), Taken(m) PROVE set_app_got'[p] = k
        <4>1. m # k
          BY <3>5, ProgramsAssumption DEF Taken, free_module, TypeInv, KernelTypes
        <4> QED BY <3>1, <3>5, <4>1, TypesFreed DEF Taken
      <3>6. ASSUME NEW q \in Procs, Left(q) PROVE set_app_got'[p] = k
        <4>1. q # p
          BY <3>2, <3>6 DEF Left
        <4> QED BY <3>1, <3>6, <4>1 DEF Left, Leave, TypeInv, ProcTypes
      <3>7. ASSUME (\E q \in Procs : Given(q)) \/ \E m \in Modules : Pushed(m)
            PROVE  set_app_got'[p] = k
        BY <3>1, <3>7 DEF Given, Pushed, local
      <3>8. ASSUME Quiet PROVE set_app_got'[p] = k
        <4>1. ASSUME NEW r \in Procs, FindSetAppGot(r), ~Leave(r) PROVE set_app_got'[p] = k
          BY <3>1, <4>1 DEF FindSetAppGot, TypeInv, ProcTypes
        <4> QED BY <3>1, <3>8, <4>1 DEF Quiet
      <3>9. set_app_got'[p] = k
        BY Zenon, <2>4, <3>5, <3>6, <3>7, <3>8, <3>1, Effects
      <3> QED BY <3>4, <3>9
    <2> QED BY <2>1, <2>3, <2>4
  <1> QED BY <1>1, <1>2, TypeInvariant, PTL DEF Spec

(* The module a program has given its table to has it, or another's that   *)
(* came later.                                                             *)
Told(p) ==
    p \in Callbacks /\ pc[p] \in {"lookup", "run"} /\ since[p] \subseteq {"table"} =>
        LET m == set_app_got[p]
        IN IF since[p] = {} THEN app_got[m] = p ELSE app_got[m] # NoProc

LEMMA ToldInvariant == Spec => [](\A p \in Procs : Told(p))
  <1> DEFINE Inv == \A p \in Procs : Told(p)
             Known == \A p \in Procs : Chosen(p)
  <1>1. Init => Inv
    BY DEF Init, Told
  <1>2. TypeInv /\ TypeInv' /\ Known /\ Known' /\ Inv /\ [Next]_vars => Inv'
    <2> SUFFICES ASSUME TypeInv, TypeInv', Known, Known', Inv, [Next]_vars,
                        NEW p \in Procs, p \in Callbacks,
                        pc'[p] \in {"lookup", "run"}, since'[p] \subseteq {"table"}
                 PROVE  IF since'[p] = {} THEN app_got'[set_app_got'[p]] = p
                                          ELSE app_got'[set_app_got'[p]] # NoProc
      BY DEF Told
    <2> PICK m : m = set_app_got'[p]
      OBVIOUS
    <2> USE ProgramsAssumption
    <2>1. CASE UNCHANGED vars
      BY <2>1 DEF vars, local, kernel, Told
    <2>2. CASE Next
      <3>1. m \in live'
        BY DEF Chosen
      <3>2. m \in Modules /\ m # Freed
        BY <3>1 DEF TypeInv, KernelTypes, Range
      <3>3. ~(FindSetAppGot(p) /\ ~Leave(p))
        BY DEF FindSetAppGot, Goto, TypeInv, ProcTypes
      <3>4. \A k \in Range(list) : Taken(k) => set_app_got[p] # k
        BY <3>2, TypesFreed DEF Taken
      <3>5. pc[p] \in {"set", "lookup", "run"} /\ set_app_got[p] = m
        BY <2>2, <3>3, <3>4, ChosenBefore
      <3>6. since[p] \subseteq since'[p]
        BY <2>2, <3>5, NotedStays
      <3>7. CASE pc[p] = "set"
        <4>1. SetAppGot(p)
          <5>1. CASE \E q \in Procs \ {p} : Step(q)
            BY <3>7, <5>1, OthersStay
          <5>2. CASE \E k \in Modules : rmmod(k)
            BY <3>7, <5>2 DEF rmmod
          <5>3. CASE Step(p)
            BY <3>7, <5>3 DEF Step, dpld_resolver, Start, Quit, force_symres_now,
               init_module, Waited, ModuleInit, Loaded, FindSetAppGot, Resolve
          <5> QED BY <2>2, <5>1, <5>2, <5>3 DEF Next, Step
        <4>2. ~Leave(p)
          BY DEF Leave, Goto, TypeInv, ProcTypes
        <4>3. app_got' = [app_got EXCEPT ![m] = p]
          BY <3>2, <3>5, <4>1, <4>2 DEF SetAppGot
        <4> QED BY <3>2, <4>3 DEF TypeInv, KernelTypes
      <3>8. CASE pc[p] # "set"
        <4>1. IF since[p] = {} THEN app_got[m] = p ELSE app_got[m] # NoProc
          BY <3>5, <3>6, <3>8 DEF Told
        <4>2. SUFFICES \/ app_got'[m] = app_got[m]
                       \/ app_got'[m] # NoProc /\ app_got[m] # p
                       \/ app_got'[m] # NoProc /\ since'[p] # {}
          BY <3>6, <4>1
        <4>3. ASSUME NEW q \in Procs, Left(q)
              PROVE  app_got'[m] = app_got[m] \/ (app_got'[m] # NoProc /\ app_got[m] # p)
          <5>1. q # p
            BY <4>3 DEF Left, Leave, Goto, TypeInv, ProcTypes
          <5> QED BY <3>2, <4>3, <5>1 DEF Left, Leave
        <4>4. ASSUME NEW q \in Procs, Given(q) PROVE app_got'[m] # NoProc /\ since'[p] # {}
          <5>1. q # p
            BY <3>8, <4>4 DEF Given
          <5>2. "table" \in since'[p]
            BY <3>5, <4>4, <5>1 DEF Given, Note
          <5>3. app_got'[m] = q \/ app_got'[m] = app_got[m]
            BY <3>2, <4>4 DEF Given, TypeInv, KernelTypes
          <5> QED BY <4>1, <5>2, <5>3
        <4>5. ASSUME NEW k \in Range(list), Taken(k) PROVE app_got'[m] = app_got[m]
          BY <3>2, <3>4, <3>5, <4>5 DEF Taken, free_module, TypeInv, KernelTypes
        <4>6. ASSUME Quiet \/ \E k \in Modules : Pushed(k) PROVE app_got'[m] = app_got[m]
          BY <4>6 DEF Quiet, Pushed
        <4> QED BY Zenon, <2>2, <4>3, <4>4, <4>5, <4>6, Effects
      <3> QED BY <3>7, <3>8
    <2> QED BY <2>1, <2>2
  <1>3. Spec => []Known
    BY ChosenInvariant
  <1> QED BY <1>1, <1>2, <1>3, TypeInvariant, PTL DEF Spec

(* A program with callbacks has its own table in the newest of its own     *)
(* modules, or the table of a process that gave one later, for any number  *)
(* of processes, modules and failures, as long as no other program's       *)
(* module is loaded and none of its own is unloaded.                       *)
THEOREM TableIsOwn == Spec => []OwnTable
  <1> DEFINE Known == \A p \in Procs : Chosen(p)
             Kept == \A p \in Procs : Holds(p)
             Got == \A p \in Procs : Told(p)
  <1>1. Known /\ Kept /\ Got => OwnTable
    BY ProgramsAssumption DEF Chosen, Holds, Told, OwnTable, Newest
  <1>2. Spec => []Known /\ []Kept /\ []Got
    BY ChosenInvariant, HoldsInvariant, ToldInvariant
  <1> QED BY <1>1, <1>2, PTL
-----------------------------------------------------------------------------
(* The program's symbols *)

(* A program has an address for each symbol it has counted. *)
Sized(p) ==
    /\ pc[p] \notin {"lookup", "run"} => Len(addr[p]) = 0
    /\ pc[p] = "lookup" => Len(addr[p]) = n[p] - 1

(* The addresses of another process, and how many a process has, are       *)
(* touched by no step but its own.                                         *)
LEMMA AddrStays ==
    ASSUME TypeInv, Next, NEW p \in Procs
    PROVE  \/ addr'[p] = addr[p] \/ Left(p) \/ (Resolve(p) /\ ~Leave(p))
           \/ \E m \in Range(list) : Taken(m) /\ Len(addr'[p]) = Len(addr[p])
  <1>1. ASSUME NEW m \in Range(list), Taken(m)
        PROVE  Taken(m) /\ Len(addr'[p]) = Len(addr[p])
    BY <1>1, TypesFreed DEF Taken
  <1>2. ASSUME NEW q \in Procs, Left(q) PROVE addr'[p] = addr[p] \/ Left(p)
    BY <1>2 DEF Left, Leave, TypeInv, ProcTypes
  <1>3. ASSUME Quiet PROVE addr'[p] = addr[p] \/ (Resolve(p) /\ ~Leave(p))
    <2>1. ASSUME NEW q \in Procs, Resolve(q), ~Leave(q)
          PROVE  addr'[p] = addr[p] \/ (Resolve(p) /\ ~Leave(p))
      BY <2>1 DEF Resolve, TypeInv, ProcTypes
    <2> QED BY <1>3, <2>1 DEF Quiet
  <1>4. ASSUME (\E m \in Modules : Pushed(m)) \/ \E q \in Procs : Given(q)
        PROVE  addr'[p] = addr[p]
    BY <1>4 DEF Pushed, Given, local
  <1> QED BY Zenon, <1>1, <1>2, <1>3, <1>4, Effects

LEMMA SizedInvariant == Spec => [](\A p \in Procs : Sized(p))
  <1> DEFINE Inv == \A p \in Procs : Sized(p)
  <1>1. Init => Inv
    BY DEF Init, Sized
  <1>2. TypeInv /\ Inv /\ [Next]_vars => Inv'
    <2> SUFFICES ASSUME TypeInv, Inv, [Next]_vars, NEW p \in Procs PROVE Sized(p)'
      OBVIOUS
    <2>1. CASE UNCHANGED vars
      BY <2>1 DEF vars, local, Sized
    <2>2. CASE Next
      <3>1. CASE Left(p)
        <4>1. pc'[p] = "idle" /\ addr'[p] = <<>>
          BY <3>1 DEF Left, Leave, Goto, TypeInv, ProcTypes
        <4> QED BY <4>1 DEF Sized
      <3>2. CASE Resolve(p) /\ ~Leave(p)
        <4>1. PICK a : a = kallsyms_lookup_name(Wanted[p][n[p]])
          OBVIOUS
        <4>2. /\ pc[p] = "lookup" /\ n'[p] = n[p] + 1 /\ addr'[p] = Append(addr[p], a)
              /\ pc'[p] \in {"lookup", "run"} /\ n[p] \in Nat
              /\ addr[p] \in Seq(Modules \cup {Vmlinux, Freed})
          BY <3>2, <4>1 DEF Resolve, Goto, TypeInv, ProcTypes
        <4>3. Len(addr'[p]) = Len(addr[p]) + 1
          BY <4>2
        <4> QED BY <4>2, <4>3 DEF Sized
      <3>3. CASE ~Left(p) /\ ~(Resolve(p) /\ ~Leave(p))
        <4>1. Len(addr'[p]) = Len(addr[p])
          BY <2>2, <3>3, AddrStays
        <4>2. CASE pc'[p] = pc[p] /\ n'[p] = n[p]
          BY <4>1, <4>2 DEF Sized
        <4>3. CASE \E q \in Procs \ {p} : Step(q)
          BY <4>2, <4>3, OthersStay
        <4>4. CASE \E m \in Modules : rmmod(m)
          BY <4>2, <4>4 DEF rmmod
        <4>5. CASE pc[p] \notin {"lookup", "run"} /\ pc'[p] \notin {"lookup", "run"}
          BY <4>1, <4>5 DEF Sized
        <4>6. CASE pc[p] \notin {"lookup", "run"} /\ pc'[p] = "lookup" /\ n'[p] = 1
          BY <4>1, <4>6 DEF Sized
        <4>7. CASE Step(p)
          <5>1. CASE Start(p) \/ force_symres_now(p)
            BY <3>3, <4>5, <5>1 DEF Start, force_symres_now, Left, Goto, TypeInv, ProcTypes
          <5>2. CASE init_module(p)
            <6>1. pc[p] = "load" /\ pc'[p] \in {"load", "wait", "init"}
              BY <5>2 DEF init_module, Returned, Goto, TypeInv, ProcTypes
            <6> QED BY <4>5, <6>1
          <5>3. CASE Waited(p) \/ ModuleInit(p)
            <6>1. pc[p] \in {"wait", "init"} /\ pc'[p] = "load"
              BY <5>3 DEF Waited, ModuleInit, Returned, Goto, TypeInv, ProcTypes
            <6> QED BY <4>5, <6>1
          <5>4. CASE Loaded(p)
            <6>1. pc[p] = "load" /\ pc'[p] \in {"got", "lookup"} /\ n'[p] = 1
              BY <3>3, <5>4 DEF Loaded, Left, Goto, TypeInv, ProcTypes
            <6> QED BY <4>5, <4>6, <6>1
          <5>5. CASE FindSetAppGot(p)
            <6>1. pc[p] = "got" /\ pc'[p] = "set"
              BY <3>3, <5>5 DEF FindSetAppGot, Left, Goto, TypeInv, ProcTypes
            <6> QED BY <4>5, <6>1
          <5>6. CASE SetAppGot(p)
            <6>1. pc[p] = "set" /\ pc'[p] = "lookup" /\ n'[p] = n[p]
              BY <3>3, <5>6 DEF SetAppGot, Left, Goto, local, TypeInv, ProcTypes
            <6>2. n[p] = 1
              BY <6>1 DEF TypeInv, Counts
            <6> QED BY <4>6, <6>1, <6>2
          <5>7. ~Quit(p) /\ ~Resolve(p)
            BY <3>3 DEF Quit, Resolve, Left
          <5> QED BY <4>7, <5>1, <5>2, <5>3, <5>4, <5>5, <5>6, <5>7 DEF Step, dpld_resolver
        <4> QED BY <2>2, <4>3, <4>4, <4>7 DEF Next, Step
      <3> QED BY <3>1, <3>2, <3>3
    <2> QED BY <2>1, <2>2
  <1> QED BY <1>1, <1>2, TypeInvariant, PTL DEF Spec

(* An address is in vmlinux, in a module on the list that has the symbol,  *)
(* or dangles for one of the reasons that Backed allows; a module of the   *)
(* program's own names is past its initialisation, so that only rmmod can  *)
(* take it away.                                                           *)
Resolved(p) ==
    \A i \in 1..Len(addr[p]) :
        /\ addr[p][i] \in Modules =>
             /\ addr[p][i] \in Range(list) /\ Wanted[p][i] \in Exports[addr[p][i]]
             /\ \/ "unload" \in since[p] \/ Name[addr[p][i]] \notin Names(p)
                \/ addr[p][i] \in live
        /\ addr[p][i] = Freed =>
             \/ "unload" \in since[p]
             \/ \E m \in Modules : Wanted[p][i] \in Exports[m] /\ Name[m] \notin Names(p)

LEMMA ResolvedInvariant == Spec => [](\A p \in Procs : Resolved(p))
  <1> DEFINE Inv == \A p \in Procs : Resolved(p)
             Loads == \A p \in Procs : LoadedSoFar(p)
             Sizes == \A p \in Procs : Sized(p)
  <1>1. Init => Inv
    BY DEF Init, Resolved
  <1>2. TypeInv /\ Loads /\ Sizes /\ Sizes' /\ Inv /\ [Next]_vars => Inv'
    <2> SUFFICES ASSUME TypeInv, Loads, Sizes, Sizes', Inv, [Next]_vars, NEW p \in Procs,
                        NEW i \in 1..Len(addr'[p])
                 PROVE  /\ addr'[p][i] \in Modules =>
                             /\ addr'[p][i] \in Range(list')
                             /\ Wanted[p][i] \in Exports[addr'[p][i]]
                             /\ \/ "unload" \in since'[p] \/ Name[addr'[p][i]] \notin Names(p)
                                \/ addr'[p][i] \in live'
                        /\ addr'[p][i] = Freed =>
                             \/ "unload" \in since'[p]
                             \/ \E m \in Modules : /\ Wanted[p][i] \in Exports[m]
                                                   /\ Name[m] \notin Names(p)
      BY DEF Resolved
    <2> USE ProgramsAssumption
    <2>1. CASE UNCHANGED vars
      BY <2>1 DEF vars, local, kernel, Resolved
    <2>2. CASE Next
      <3>0. list \in Seq(Modules) /\ Unique /\ live \subseteq Range(list) /\ Range(list) \subseteq Modules
        BY DEF TypeInv, KernelTypes, Range
      <3>1. pc'[p] \in {"lookup", "run"}
        <4>1. Len(addr'[p]) # 0
          OBVIOUS
        <4> QED BY <4>1 DEF Sized
      <3>2. ~Left(p)
        BY <3>1 DEF Left, Leave, Goto, TypeInv, ProcTypes
      <3>3. CASE Resolve(p) /\ ~Leave(p)
        <4>1. PICK a : a = kallsyms_lookup_name(Wanted[p][n[p]])
          OBVIOUS
        <4>2. /\ pc[p] = "lookup" /\ a # NotFound /\ addr'[p] = Append(addr[p], a)
              /\ UNCHANGED <<since, list, live>>
              /\ addr[p] \in Seq(Modules \cup {Vmlinux, Freed})
          BY <3>3, <4>1 DEF Resolve, TypeInv, ProcTypes
        <4>3. n[p] \in Nat /\ Len(addr[p]) = n[p] - 1
          BY <4>2 DEF Sized, TypeInv, ProcTypes
        <4>4. (i \in 1..Len(addr[p]) /\ addr'[p][i] = addr[p][i]) \/ (i = n[p] /\ addr'[p][i] = a)
          BY <4>2, <4>3
        <4>5. CASE i \in 1..Len(addr[p]) /\ addr'[p][i] = addr[p][i]
          BY <4>2, <4>5 DEF Resolved
        <4>6. CASE i = n[p] /\ addr'[p][i] = a
          <5>1. a = Vmlinux \/ (a \in Modules /\ a \in Range(list) /\ Wanted[p][i] \in Exports[a])
            BY <3>0, <4>1, <4>2, <4>6, LookupRange
          <5>2. ASSUME a \in Range(list), "unload" \notin since[p], Name[a] \in Names(p)
                PROVE  a \in live
            <6>1. PICK c \in Carried(p) : Name[c] = Name[a]
              BY <5>2 DEF Names
            <6>2. PICK k \in live : Name[k] = Name[c]
              BY <4>2, <5>2 DEF LoadedSoFar, Past, HasLive
            <6>3. k \in Range(list) /\ Name[k] = Name[a]
              BY <3>0, <6>1, <6>2
            <6>4. PICK x, y \in 1..Len(list) : k = list[x] /\ a = list[y]
              BY <3>0, <5>2, <6>3 DEF Range
            <6>5. k = a
              BY <3>0, <6>3, <6>4 DEF Unique
            <6> QED BY <6>5
          <5> QED BY <4>2, <4>6, <5>1, <5>2
        <4> QED BY <4>4, <4>5, <4>6
      <3>4. CASE addr'[p] = addr[p] /\ ~\E m \in Range(list) : Taken(m)
        <4>1. Len(addr[p]) # 0 /\ pc[p] \in {"lookup", "run"}
          <5>1. Len(addr[p]) # 0
            BY <3>4
          <5> QED BY <5>1 DEF Sized
        <4>2. since[p] \subseteq since'[p]
          BY <2>2, <3>1, <4>1, NotedStays
        <4>3. ASSUME NEW m \in Modules, Pushed(m)
              PROVE  Range(list) \subseteq Range(list') /\ live \subseteq live'
          BY <3>0, <4>3, ListPush DEF Pushed
        <4>4. ASSUME Quiet \/ \E q \in Procs : Left(q) \/ Given(q)
              PROVE  Range(list) \subseteq Range(list') /\ live \subseteq live'
          BY <4>4 DEF Quiet, Left, Given
        <4>5. Range(list) \subseteq Range(list') /\ live \subseteq live'
          BY <2>2, <3>4, <4>3, <4>4, Effects
        <4> QED BY <3>4, <4>2, <4>5 DEF Resolved
      <3>5. ASSUME NEW m \in Range(list), Taken(m)
            PROVE  /\ addr'[p][i] \in Modules =>
                        /\ addr'[p][i] \in Range(list')
                        /\ Wanted[p][i] \in Exports[addr'[p][i]]
                        /\ \/ "unload" \in since'[p] \/ Name[addr'[p][i]] \notin Names(p)
                           \/ addr'[p][i] \in live'
                   /\ addr'[p][i] = Freed =>
                        \/ "unload" \in since'[p]
                        \/ \E k \in Modules : /\ Wanted[p][i] \in Exports[k]
                                              /\ Name[k] \notin Names(p)
        <4>1. /\ Len(addr'[p]) = Len(addr[p]) /\ Range(list') = Range(list) \ {m}
              /\ addr'[p][i] = IF addr[p][i] = m THEN Freed ELSE addr[p][i]
          BY <3>5, TypesFreed DEF Taken
        <4>2. pc[p] \in {"lookup", "run"}
          <5>1. Len(addr[p]) # 0
            BY <4>1
          <5> QED BY <5>1 DEF Sized
        <4>3. since[p] \subseteq since'[p]
          BY <2>2, <3>1, <4>2, NotedStays
        <4>4. CASE addr[p][i] = m
          <5>1. addr'[p][i] = Freed /\ m \in Modules /\ Wanted[p][i] \in Exports[m]
            BY <3>0, <4>1, <4>4 DEF Resolved
          <5>2. "unload" \in since[p] \/ Name[m] \notin Names(p) \/ m \in live
            BY <3>0, <4>1, <4>4 DEF Resolved
          <5>3. m \in live /\ Name[m] \in Names(p) => "unload" \in since'[p]
            BY <3>5, <4>2 DEF Taken, Note
          <5> QED BY <4>3, <5>1, <5>2, <5>3
        <4>5. CASE addr[p][i] # m
          <5>1. addr'[p][i] = addr[p][i] /\ (addr[p][i] \in live => addr[p][i] \in live')
            BY <3>5, <4>1, <4>5 DEF Taken
          <5> QED BY <4>1, <4>3, <4>5, <5>1 DEF Resolved
        <4> QED BY <4>4, <4>5
      <3> QED BY <2>2, <3>2, <3>3, <3>4, <3>5, AddrStays
    <2> QED BY <2>1, <2>2
  <1>3. Spec => []Loads /\ []Sizes
    BY LoadedInvariant, SizedInvariant
  <1> QED BY <1>1, <1>2, <1>3, TypeInvariant, PTL DEF Spec

(* An address the resolver has written into the program dangles only after *)
(* a module of the program's names was unloaded, or if a module of another *)
(* name has the symbol too: other processes' loads, failed loads and exits *)
(* never take it away.                                                     *)
THEOREM AddressesBacked == Spec => []Backed
  <1>1. (\A p \in Procs : Resolved(p)) => Backed
    BY DEF Resolved, Backed
  <1> QED BY <1>1, ResolvedInvariant, PTL
=============================================================================

------------------------------- MODULE KldElf -------------------------------
(***************************************************************************)
(* examples/tools/src/kld/elf.c: the symbols kld reads from a kernel       *)
(* object, and the shared library it makes of a list of symbols.  A name   *)
(* is a value with a length; addresses are values.                         *)
(***************************************************************************)
EXTENDS Integers, Sequences, SequencesExt, Functions

CONSTANTS
    NameLen     \* strlen of every symbol name

ASSUME NameLenAssumption == \A s \in DOMAIN NameLen : NameLen[s] \in Nat

(* SymbolEntry; size is 0 in every entry kld makes. *)
SymbolEntry(name, addr, bind, type) ==
    [name |-> name, addr |-> addr, bind |-> bind, type |-> type]

(* Bytes the names of es need, with their terminators. *)
nmstrlen(es) ==
    LET n[k \in 0..Len(es)] == IF k = 0 THEN 0 ELSE n[k - 1] + NameLen[es[k].name] + 1
    IN n[Len(es)]

(* The elements of s that are in S, in order. *)
Among(s, S) ==
    LET f[k \in 0..Len(s)] ==
            IF k = 0 THEN <<>> ELSE IF s[k] \in S THEN Append(f[k - 1], s[k]) ELSE f[k - 1]
    IN f[Len(s)]
-----------------------------------------------------------------------------
(* elf_generate_elf_mmap *)

(* Mutant of sym_offsets: the terminator is not counted. *)
sym_offsetsTight(es) ==
    LET off[i \in 1..(Len(es) + 1)] ==
            IF i = 1 THEN 1 ELSE off[i - 1] + NameLen[es[i - 1].name]
    IN off

(* add_str puts one name after the other behind the empty string; the last *)
(* offset is the top of the table.                                         *)
sym_offsets(es) ==
    LET off[i \in 1..(Len(es) + 1)] ==
            IF i = 1 THEN 1 ELSE off[i - 1] + NameLen[es[i - 1].name] + 1
    IN off

(* A buffer after its strings were copied in order: the offsets at which a *)
(* whole name is left, where no later one was copied over it.              *)
strtab(es) ==
    LET off == sym_offsets(es)
        Ends(i) == off[i] + NameLen[es[i].name]
        Whole(i) == \A j \in (i + 1)..Len(es) : off[j] > Ends(i)
    IN [o \in {off[i] : i \in {j \in 1..Len(es) : Whole(j)}} |->
            es[CHOOSE i \in 1..Len(es) : off[i] = o /\ Whole(i)].name]

(* Entry i + 1 of the table; entry 0 is all zero. *)
Sym(e, off) ==
    [st_name |-> off, st_value |-> e.addr,
     bind |-> IF e.bind = "WEAK" THEN "STB_WEAK" ELSE "STB_GLOBAL",
     type |-> IF e.type = "FUNC" THEN "STT_FUNC" ELSE "STT_OBJECT"]

(* Mutant of h_buf: the bucket leads to the first symbol. *)
h_bufBucket(n) == <<1, n + 1, 1>> \o [i \in 1..n |-> i]

(* nbucket, nchain, the bucket, and the chain: n + 3 words. *)
h_buf(n) == <<1, n + 1, 0>> \o [i \in 1..n |-> i]

(* The sections: one string table and one symbol table, each twice. *)
elf_image(es, len) ==
    [buf |-> len + 1, top |-> sym_offsets(es)[Len(es) + 1], strtab |-> strtab(es),
     dynsym |-> [i \in 1..Len(es) |-> Sym(es[i], sym_offsets(es)[i])],
     hash |-> h_buf(Len(es))]
-----------------------------------------------------------------------------
(* elf_read_syms.  A kernel object is a sequence of sections, each a       *)
(* sequence of symbols when it is a symbol table.                          *)

seInit(sym) ==
    SymbolEntry(sym.name, IF sym.undef THEN 0 ELSE sym.value, "GLOBAL", "ABS")

elf_read_syms(sections) ==
    LET tabs == Among(sections, {s \in Range(sections) : s.type \in {"SYMTAB", "DYNSYM"}})
        syms == FlattenSeq([i \in 1..Len(tabs) |-> tabs[i].syms])
        ents == Among(syms, {s \in Range(syms) : ~(s.name = "" /\ s.value = 0)})
    IN  [i \in 1..Len(ents) |-> seInit(ents[i])]
-----------------------------------------------------------------------------
(* What others make of an image. *)

(* A symbol as a linker reads it through the two tables. *)
SymbolAt(img, i) ==
    LET s == img.dynsym[i]
    IN [name |-> IF s.st_name \in DOMAIN img.strtab THEN img.strtab[s.st_name] ELSE "?",
        addr |-> s.st_value, weak |-> s.bind = "STB_WEAK", func |-> s.type = "STT_FUNC"]

(* The walk of a dynamic linker that looks for a name that is not there:   *)
(* the bucket, then the chain, until symbol 0; -1 is a read outside.       *)
HashWalk(img) ==
    LET chain(i) == IF 4 + i <= Len(img.hash) THEN img.hash[4 + i] ELSE -1
        walk[k \in 0..(Len(img.dynsym) + 1)] ==
            IF k = 0 THEN img.hash[3]
            ELSE IF walk[k - 1] <= 0 THEN walk[k - 1] ELSE chain(walk[k - 1])
    IN walk
=============================================================================

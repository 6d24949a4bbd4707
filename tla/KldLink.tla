------------------------------ MODULE KldLink -------------------------------
(***************************************************************************)
(* examples/tools/src/kld/main.c: one run of kld, from its command line to *)
(* its exit.  It makes a library for each kernel object it is given, the   *)
(* table of those objects, and a library for the kernel and each loaded    *)
(* module out of /proc/kallsyms.  Up to MaxFaults system calls fail.       *)
(***************************************************************************)
EXTENDS KldElf, FiniteSets

CONSTANTS
    Dirs, Cwd,      \* directories; the working directory
    Paths,          \* what may be given to -K
    Tree,           \* <<directory, file>> |-> full path, for files that open
    Objects,        \* full path |-> sections, for files that are ELF
    Specs,          \* what may be given to -k
    Lines,          \* lines /proc/kallsyms may have
    DirMax, SymMax, \* first sizes of the arrays (256, 1024)
    MaxArgs, MaxLines, MaxFaults    \* bounds

ASSUME ConstantsAssumption ==
    /\ DirMax \in Nat \ {0} /\ SymMax \in Nat \ {0}
    /\ MaxArgs \in Nat /\ MaxLines \in Nat /\ MaxFaults \in Nat
    /\ \A s \in Specs : s \in Seq(Range(s)) /\ s # <<>>
    /\ \A f \in DOMAIN Tree : Tree[f] # <<>>
    /\ \A ko \in DOMAIN Objects :
          Objects[ko] \in Seq([type : STRING, syms : Seq([name : DOMAIN NameLen, value : Nat,
                                                          undef : BOOLEAN])])
    /\ Lines \subseteq [name : DOMAIN NameLen, addr : Nat, type : STRING, module : STRING]

None == "none"
NoPath == <<>>
Torn == <<NoPath, None>>    \* a line of the table that is not whole
Wild == -2      \* an int no one initialised

VARIABLES
    pc, i,          \* where the program is; loop counter
    dirs, kospec,   \* -K and -k, in order
    dirmax, kospecmax,
    prockallsyms,   \* no -N
    bos,            \* binary objects, in the order of the hash table
    fds,            \* open descriptors: number |-> what it is open on
    files,          \* libraries opened by this run: path |-> image or state
    kotblf, kotbl,  \* lines given to the stream; lines in the file
    klines,         \* lines read from kallsyms
    kern, mods,     \* symbols of the kernel; modules in hash order
    unseen,         \* failures that no one looks at: "ko", "kotbl"
    status,         \* exit status
    faults,         \* calls that failed
    wild            \* an uninitialised descriptor was used

opts == <<dirs, kospec, dirmax, kospecmax, prockallsyms>>
tables == <<kotblf, kotbl, klines, kern, mods, unseen>>
vars == <<pc, i, opts, bos, fds, files, tables, status, faults, wild>>

(* An array that doubles when it is full. *)
Grow(n, max, first) == IF n < max THEN max ELSE IF max = 0 THEN first ELSE 2 * max

NoSyms == [name |-> None, entries |-> <<>>, max |-> 0, nmstrlen |-> 0]

Init ==
    /\ pc = "init" /\ i = 1
    /\ dirs = <<>> /\ kospec = <<>> /\ dirmax = 0 /\ kospecmax = 0
    /\ prockallsyms = TRUE /\ bos = <<>> /\ fds = << >> /\ files = << >>
    /\ kotblf = <<>> /\ kotbl = <<>> /\ klines = <<>> /\ kern = NoSyms /\ mods = <<>>
    /\ status = None /\ faults = 0 /\ unseen = {} /\ wild = FALSE

Fails(n) == faults + n <= MaxFaults /\ faults' = faults + n
Fault == faults < MaxFaults /\ faults' = faults + 1
NoFault == faults' = faults

(* exit; cleanup runs only after main has registered it. *)
Exit(s) == status' = s /\ pc' = IF pc \in {"init", "opts", "bos"} THEN "down" ELSE "cleanup"
-----------------------------------------------------------------------------
(* Descriptors; 0, 1 and 2 are the standard streams. *)
Lowest(F) == CHOOSE n \in 3..(3 + Cardinality(DOMAIN F)) :
                n \notin DOMAIN F /\ \A m \in 3..(n - 1) : m \in DOMAIN F
OpenFd(F, what) == [n \in DOMAIN F \cup {Lowest(F)} |-> IF n = Lowest(F) THEN what ELSE F[n]]
CloseFd(F, n) == Restrict(F, DOMAIN F \ {n})
-----------------------------------------------------------------------------
(* Options *)

(* The array of directories after dir was added, or not. *)
addDir(dir) ==
    IF dir \in Dirs THEN dirs' = Append(dirs, dir) /\ dirmax' = Grow(Len(dirs), dirmax, DirMax)
    ELSE UNCHANGED <<dirs, dirmax>>

Getcwd ==
    /\ pc = "init"
    /\ \/ NoFault /\ addDir(Cwd) /\ pc' = "opts" /\ UNCHANGED status
       \/ Fault /\ pc' = "opts" /\ UNCHANGED <<dirs, dirmax, status>>  \* stat fails
       \/ Fault /\ Exit("failure") /\ UNCHANGED <<dirs, dirmax>>               \* getcwd fails
    /\ UNCHANGED <<i, kospec, kospecmax, prockallsyms, bos, fds, files, tables, wild>>

Args == Len(dirs) + Len(kospec) + IF prockallsyms THEN 0 ELSE 1

Option(A) ==
    /\ pc = "opts" /\ Args < MaxArgs /\ A
    /\ UNCHANGED <<i, bos, fds, files, tables, faults, wild>>

optK(dir) == Option(/\ addDir(dir)
                    /\ UNCHANGED <<pc, kospec, kospecmax, prockallsyms, status>>)
optk(spec) == Option(/\ kospec' = Append(kospec, spec)
                     /\ kospecmax' = Grow(Len(kospec), kospecmax, 2)
                     /\ UNCHANGED <<pc, dirs, dirmax, prockallsyms, status>>)
optN == Option(prockallsyms' = FALSE /\ UNCHANGED <<pc, dirs, kospec, dirmax, kospecmax, status>>)
usage == Option(Exit("failure") /\ UNCHANGED opts)      \* -h, an unknown option

EndOfOptions ==
    /\ pc = "opts" /\ pc' = "bos"
    /\ UNCHANGED <<i, opts, bos, fds, files, tables, status, faults, wild>>
-----------------------------------------------------------------------------
(* Binary objects.  A file name is a stem and an extension. *)

modnmfromfnm(f) == IF f[2] = "ko" /\ f[1] # "" THEN <<f[1], "">> ELSE f

(* A specification has as many fields as it has commas and one more; a     *)
(* missing or an empty field takes its default.                            *)
parsekospec(spec) ==
    LET Given(n) == Len(spec) >= n /\ spec[n] # ""
    IN [ok |-> Len(spec) <= 3, fnm |-> spec[1],
        modnm |-> IF Given(2) THEN <<spec[2], "">> ELSE modnmfromfnm(spec[1]),
        kldopts |-> IF Given(3) THEN spec[3] ELSE "EXCLUSIVE"]

(* Directories that have the file, from n on. *)
Has(f, n) == {m \in n..Len(dirs) : <<dirs[m], f>> \in DOMAIN Tree}

(* Mutant of openko: the last directory that has the file. *)
openkoLast(f, n) ==
    LET has == Has(f, n + 1)
    IN IF has = {} THEN NoPath ELSE Tree[<<dirs[CHOOSE j \in has : \A k \in has : k <= j], f>>]

(* The full path of the file in the first directory that has it, after the *)
(* first n were tried.  An open that fails where the file is, for whatever *)
(* reason, sends the search on like one that finds none.                   *)
openko(f, n) ==
    LET has == Has(f, n + 1)
    IN IF has = {} THEN NoPath ELSE Tree[<<dirs[CHOOSE j \in has : \A k \in has : j <= k], f>>]

(* lib<modnm>.so next to the kernel object. *)
sofullpath(ko, modnm) == <<ko[1], modnm>>

AddFails(F, L) == fds' = F /\ files' = L /\ Exit("failure") /\ UNCHANGED <<i, bos>>

(* Mutant of Release: the library stays open. *)
ReleaseKo(F, kofd, sofd) == CloseFd(F, kofd)

(* The end of addbo when it fails. *)
Release(F, kofd, sofd) == CloseFd(CloseFd(F, kofd), sofd)

(* A library that was opened with O_TRUNC. *)
Truncated(so) == [f \in DOMAIN files \cup {so} |-> IF f = so THEN <<"empty">> ELSE files[f]]

(* addbo opens and truncates the library before it looks the object up; an *)
(* object that is there fails like an error, and everything opened for it  *)
(* is closed.  With no directory at all openko returns an uninitialised    *)
(* int, which is closed once openso has failed.                            *)
addbo ==
    /\ pc = "bos" /\ i <= Len(kospec)
    /\ \E n \in 0..Len(dirs) :
       LET p == parsekospec(kospec[i])
           passed == Cardinality(Has(p.fnm, 1) \ Has(p.fnm, n + 1))
           ko == openko(p.fnm, n)
           so == IF ko = NoPath THEN NoPath ELSE sofullpath(ko, p.modnm)
           kofd == Lowest(fds)
           F == OpenFd(fds, <<"ko", ko>>)
           sofd == Lowest(F)
           G == OpenFd(F, <<"so", so>>)
       IN /\ unseen' = IF passed = 0 THEN unseen ELSE unseen \cup {"ko"}
          /\ \/ /\ ~p.ok \/ (ko = NoPath /\ dirs # <<>>)
                /\ AddFails(fds, files) /\ Fails(passed) /\ UNCHANGED wild
             \/ /\ p.ok /\ dirs = <<>> /\ Fails(passed) /\ wild' = TRUE
                /\ \E w \in DOMAIN fds \cup {Wild} : AddFails(Release(fds, w, -1), files)
             \/ /\ p.ok /\ ko # NoPath /\ UNCHANGED wild
                /\ \/ AddFails(Release(F, kofd, -1), files) /\ Fails(passed + 1)  \* realpath or openso fails
                   \/ /\ \E b \in Range(bos) : b.kofnm = ko
                      /\ AddFails(Release(G, kofd, sofd), Truncated(so)) /\ Fails(passed)
                   \/ /\ \A b \in Range(bos) : b.kofnm # ko
                      /\ bos' = Append(bos, [kofnm |-> ko, kldopts |-> p.kldopts,
                                   kofd |-> kofd, sofnm |-> so, sofd |-> sofd])
                      /\ fds' = G /\ files' = Truncated(so) /\ i' = i + 1 /\ Fails(passed)
                      /\ UNCHANGED <<pc, status>>
    /\ UNCHANGED <<opts, kotblf, kotbl, klines, kern, mods>>

EndOfSpecs ==
    /\ pc = "bos" /\ i > Len(kospec) /\ pc' = "exec"
    /\ UNCHANGED <<i, opts, bos, fds, files, tables, status, faults, wild>>

(* Whatever fails, elf_open_secdata leaves no descriptor behind; with the  *)
(* section found it is open until elf_close_secdata.                       *)
elf_open_secdata(F) == {F, OpenFd(F, <<"exec">>)}
elf_close_secdata(F, n) == CloseFd(F, n)

(* prcExec looks for the .kotbl section of the program, if there is one,   *)
(* and lets it go; its result is not used.                                 *)
prcExec ==
    /\ pc = "exec" /\ pc' = "open" /\ NoFault
    /\ \E F \in elf_open_secdata(fds) :
          fds' = IF F = fds THEN fds ELSE elf_close_secdata(F, Lowest(fds))
    /\ UNCHANGED <<i, opts, bos, files, tables, status, wild>>
-----------------------------------------------------------------------------
(* Writing a library through fd, or through path when fd is -1. *)

Put(L, what, img) == IF what[1] = "so" THEN [L EXCEPT ![what[2]] = img] ELSE L

(* elf_generate_elf_mmap returns NULL when there is no memory file, and    *)
(* writeso takes that for a mapping: nothing is written, an arbitrary      *)
(* range may be unmapped and an arbitrary descriptor is closed.  When mmap *)
(* fails the memory file stays open.  What write returns is not looked at. *)
writeso(path, fd, es, len) ==
    LET img == elf_image(es, len)
        mfd == Lowest(fds)
        M == OpenFd(fds, <<"mem">>)
        L == IF fd = -1 THEN Truncated(path) ELSE files
        target == IF fd = -1 THEN <<"so", path>>
                  ELSE IF fd \in DOMAIN M THEN M[fd] ELSE <<None>>
    IN  \/ /\ fds' = CloseFd(M, mfd) /\ UNCHANGED <<wild, status>>
           /\ \/ NoFault /\ files' = Put(L, target, <<"whole", img>>)
              \/ Fault /\ files' = Put(L, target, <<"torn">>)      \* write is short or fails
              \/ Fault /\ fd = -1 /\ files' = files            \* open fails
        \/ Fault /\ fds' = M /\ UNCHANGED <<files, wild, status>>   \* mmap fails
        \/ /\ Fault /\ wild' = TRUE /\ files' = L               \* no memory file
           /\ \E n \in DOMAIN fds \cup {Wild} : fds' = CloseFd(fds, n)
           /\ status' \in {status, "crash"}

AfterWrite(next) == pc' = IF status' = "crash" THEN "down" ELSE next
-----------------------------------------------------------------------------
(* The table of objects *)

OpenKotbl ==
    /\ pc = "open" /\ i' = 1
    /\ \/ bos = <<>> /\ pc' = "kallsyms" /\ NoFault /\ UNCHANGED <<fds, status>>
       \/ bos # <<>> /\ pc' = "prc" /\ fds' = OpenFd(fds, <<"kotbl">>) /\ NoFault /\ UNCHANGED status
       \/ bos # <<>> /\ Fault /\ Exit("failure") /\ UNCHANGED fds
    /\ UNCHANGED <<opts, bos, files, tables, wild>>

(* What is left of a table that lost a stretch that ends before line b. *)
Cut(s, b) == {SubSeq(s, 1, a) \o t \o SubSeq(s, b, Len(s)) : a \in 0..(b - 1), t \in {<<>>, <<Torn>>}}

(* prcBO reads the object through its descriptor; if it cannot, the        *)
(* library stays empty, and the object is listed all the same.  What the   *)
(* stream holds is lost when kld crashes.                                  *)
prcBO ==
    /\ pc = "prc" /\ i <= Len(bos) /\ i' = i + 1
    /\ LET b == bos[i]
           es == elf_read_syms(Objects[b.kofnm])
           readable == /\ b.kofd \in DOMAIN fds /\ fds[b.kofd] = <<"ko", b.kofnm>>
                       /\ b.kofnm \in DOMAIN Objects
       IN /\ kotblf' = Append(kotblf, <<b.kofnm, b.kldopts>>)
          /\ IF readable THEN writeso(b.sofnm, b.sofd, es, nmstrlen(es))
             ELSE NoFault /\ UNCHANGED <<fds, files, wild, status>>
    /\ AfterWrite("prc")
    /\ kotbl' \in IF status' = "crash" THEN Cut(kotblf, Len(kotblf) + 1) ELSE {kotbl}
    /\ UNCHANGED <<opts, bos, klines, kern, mods, unseen>>

(* Mutant of CloseKotbl: the stream is flushed and stays open. *)
CloseKotblFlush ==
    /\ pc = "prc" /\ i > Len(bos) /\ pc' = "kallsyms" /\ kotbl' = kotblf
    /\ UNCHANGED <<i, opts, bos, fds, files, kotblf, klines, kern, mods, unseen, status, faults, wild>>

(* fclose writes what the stream holds, if its descriptor is still there.  *)
(* Nobody looks at what fprintf and fclose return: a write that fails, now *)
(* or when the buffer was full before, loses a stretch of the table.       *)
CloseKotbl ==
    /\ pc = "prc" /\ i > Len(bos) /\ pc' = "kallsyms"
    /\ LET k == {n \in DOMAIN fds : fds[n] = <<"kotbl">>}
           end == Len(kotblf) + 1
       IN /\ \/ k # {} /\ kotbl' = kotblf /\ NoFault /\ UNCHANGED unseen
             \/ /\ k # {} /\ Fault /\ unseen' = unseen \cup {"kotbl"}
                /\ \E b \in 1..end : kotbl' \in Cut(kotblf, b)
             \/ /\ k = {} /\ NoFault /\ unseen' = unseen \cup {"kotbl"}
                /\ kotbl' \in Cut(kotblf, end)
          /\ fds' = Restrict(fds, DOMAIN fds \ k)
    /\ UNCHANGED <<i, opts, bos, files, kotblf, klines, kern, mods, status, wild>>
-----------------------------------------------------------------------------
(* /proc/kallsyms *)

(* openKallsyms, and mkpath for the directory of the libraries: when that  *)
(* fails the file stays open and kld ends with success.                    *)
OpenKallsyms ==
    /\ pc = "kallsyms"
    /\ \/ ~prockallsyms /\ NoFault /\ Exit("success") /\ UNCHANGED fds
       \/ prockallsyms /\ Fault /\ Exit("failure") /\ UNCHANGED fds
       \/ /\ prockallsyms /\ fds' = OpenFd(fds, <<"kallsyms">>)
          /\ \/ NoFault /\ pc' = "lines" /\ UNCHANGED status
             \/ Fault /\ Exit("success")
    /\ UNCHANGED <<i, opts, bos, files, tables, wild>>

(* The types initSE knows, by letter; it asserts on any other. *)
initSE ==
    LET Of(b, t) == [bind |-> b, type |-> t] IN
    [A |-> Of("GLOBAL", "ABS"),    B |-> Of("GLOBAL", "BSS"),  D |-> Of("GLOBAL", "DATA"),
     R |-> Of("GLOBAL", "RODATA"), T |-> Of("GLOBAL", "FUNC"), V |-> Of("WEAK", "FUNC"),
     W |-> Of("WEAK", "FUNC")]

AddSym(m, l) ==
    [m EXCEPT !.max = Grow(Len(m.entries), m.max, SymMax),
              !.nmstrlen = @ + NameLen[l.name] + 1,
              !.entries = Append(@, SymbolEntry(l.name, l.addr, initSE[l.type].bind,
                                                initSE[l.type].type))]

(* A symbol goes to the kernel or to its module, which is made when its    *)
(* first symbol comes.                                                     *)
AddLine(l) ==
    LET at == {n \in 1..Len(mods) : mods[n].name = l.module} IN
    IF l.module = None THEN kern' = AddSym(kern, l) /\ UNCHANGED mods
    ELSE /\ mods' = IF at = {} THEN Append(mods, AddSym([NoSyms EXCEPT !.name = l.module], l))
                    ELSE [n \in 1..Len(mods) |-> IF n \in at THEN AddSym(mods[n], l) ELSE mods[n]]
         /\ UNCHANGED kern

GetLine(l) ==
    /\ pc = "lines" /\ Len(klines) < MaxLines
    /\ klines' = Append(klines, l)
    /\ IF l.type \in DOMAIN initSE
       THEN AddLine(l) /\ UNCHANGED <<pc, status>>
       ELSE pc' = "down" /\ status' = "crash" /\ UNCHANGED <<kern, mods>>
    /\ UNCHANGED <<i, opts, bos, fds, files, kotblf, kotbl, unseen, faults, wild>>

kdir == "libk"
libkern == <<kdir, <<"kern", "">>>>

(* libkern.so, if the kernel has symbols. *)
WriteKern ==
    /\ pc = "lines" /\ i' = 1
    /\ IF kern.entries # <<>> THEN writeso(libkern, -1, kern.entries, kern.nmstrlen)
       ELSE NoFault /\ UNCHANGED <<fds, files, wild, status>>
    /\ AfterWrite("mods")
    /\ UNCHANGED <<opts, bos, tables>>

WriteMod ==
    /\ pc = "mods" /\ i <= Len(mods) /\ i' = i + 1
    /\ writeso(<<kdir, <<mods[i].name, "">>>>, -1, mods[i].entries, mods[i].nmstrlen)
    /\ AfterWrite("mods")
    /\ UNCHANGED <<opts, bos, tables>>

(* prcKallsyms closes the file and leaves by EEXIT. *)
EndOfKallsyms ==
    /\ pc = "mods" /\ i > Len(mods) /\ Exit("failure")
    /\ fds' = Restrict(fds, {n \in DOMAIN fds : fds[n] # <<"kallsyms">>})
    /\ UNCHANGED <<i, opts, bos, files, tables, faults, wild>>

(* cleanup, bosCleanup, deletebo *)
cleanup ==
    /\ pc = "cleanup" /\ pc' = "down" /\ bos' = <<>>
    /\ fds' = Restrict(fds, DOMAIN fds \ UNION {{b.kofd, b.sofd} : b \in Range(bos)})
    /\ UNCHANGED <<i, opts, files, tables, status, faults, wild>>
-----------------------------------------------------------------------------
main ==
    \/ Getcwd \/ EndOfOptions \/ addbo \/ EndOfSpecs \/ prcExec
    \/ OpenKotbl \/ prcBO \/ CloseKotbl
    \/ OpenKallsyms \/ WriteKern \/ WriteMod \/ EndOfKallsyms \/ cleanup

Next ==
    \/ main \/ optN \/ usage
    \/ \E d \in Paths : optK(d)
    \/ \E s \in Specs : optk(s)
    \/ \E l \in Lines : GetLine(l)

Spec == Init /\ [][Next]_vars
-----------------------------------------------------------------------------
(* Properties *)

IsImage(f) == f[1] = "whole"

(* Types of the program's place, its arrays and its descriptors. *)
TypeOK ==
    /\ pc \in {"init", "opts", "bos", "exec", "open", "prc", "kallsyms", "lines", "mods",
               "cleanup", "down"}
    /\ i \in Nat \ {0} /\ faults \in 0..MaxFaults
    /\ Range(dirs) \subseteq Dirs /\ Range(kospec) \subseteq Specs
    /\ DOMAIN fds \subseteq 3..(3 + 2 * Len(kospec) + MaxFaults)
    /\ Range(klines) \subseteq Lines /\ prockallsyms \in BOOLEAN /\ wild \in BOOLEAN
    /\ status \in {None, "success", "failure", "crash"} /\ (status # None <=> pc \in {"cleanup", "down"})

(* Whatever failed, the descriptors open on objects and on their libraries *)
(* are those of the objects in the table, each open on the file it was     *)
(* opened for, until cleanup closes them all; unless an uninitialised      *)
(* descriptor was closed.                                                  *)
Owned ==
    ~wild =>
        /\ \A b \in Range(bos) :
              /\ {b.kofd, b.sofd} \subseteq DOMAIN fds
              /\ fds[b.kofd] = <<"ko", b.kofnm>> /\ fds[b.sofd] = <<"so", b.sofnm>>
        /\ Cardinality({n \in DOMAIN fds : fds[n][1] \in {"ko", "so"}}) = 2 * Len(bos)
        /\ pc = "down" /\ status # "crash" => Cardinality(DOMAIN fds) <= 2 * Len(bos) + faults

(* A line for specification s: its options, and a file of that name along  *)
(* the search path, the first one unless an open failed.                   *)
LineFor(s, l) ==
    LET found == Among(dirs, {d \in Dirs : <<d, s[1]>> \in DOMAIN Tree}) IN
    /\ l[2] = IF Len(s) = 3 /\ s[3] # "" THEN s[3] ELSE "EXCLUSIVE"
    /\ \E n \in 1..Len(found) : l[1] = Tree[<<found[n], s[1]>>] /\ ("ko" \notin unseen => n = 1)

(* A table whose own writing did not fail has a line for every -k in the   *)
(* order given, or is not there at all; so an object named twice or not    *)
(* found leaves no table, and one that cannot be read has its line.  When  *)
(* its writing failed or kld crashed, what is there are whole lines for    *)
(* some -k in that order and at most one other, and kld reports success or *)
(* goes on as if nothing were.                                             *)
KotblRight ==
    LET whole == {n \in 1..Len(kotbl) : kotbl[n] # Torn} IN
    /\ \A a, b \in whole : a < b =>
          /\ kotbl[a][1] # kotbl[b][1]
          /\ \E j, k \in 1..Len(kospec) : j < k /\ LineFor(kospec[j], kotbl[a]) /\ LineFor(kospec[k], kotbl[b])
    /\ \A n \in whole : \E k \in 1..Len(kospec) : LineFor(kospec[k], kotbl[n])
    /\ \A a, b \in (1..Len(kotbl)) \ whole : a = b
    /\ "kotbl" \notin unseen /\ status # "crash" =>
          /\ kotbl # <<>> \/ pc \in {"kallsyms", "lines", "mods"} => Len(kotbl) = Len(kospec)
          /\ \A n \in 1..Len(kotbl) : LineFor(kospec[n], kotbl[n])

(* The symbols a library has to have, straight from what was read: those   *)
(* of a kernel object, undefined ones at 0, and those of kallsyms with one *)
(* module, in order.                                                       *)
KoSymbols(ko) ==
    LET syms == FlattenSeq([n \in 1..Len(Objects[ko]) |->
                    IF Objects[ko][n].type \in {"SYMTAB", "DYNSYM"} THEN Objects[ko][n].syms ELSE <<>>])
        named == Among(syms, {s \in Range(syms) : s.name # "" \/ s.value # 0})
    IN [n \in 1..Len(named) |-> [name |-> named[n].name, weak |-> FALSE, func |-> FALSE,
                                addr |-> IF named[n].undef THEN 0 ELSE named[n].value]]
LineSymbols(module) ==
    LET ls == Among(klines, {l \in Lines : l.module = module})
    IN [n \in 1..Len(ls) |-> [name |-> ls[n].name, addr |-> ls[n].addr,
                             weak |-> ls[n].type \in {"V", "W"},
                             func |-> ls[n].type \in {"T", "V", "W"}]]

(* Every library that was written in full reads back, through its string   *)
(* table, as the symbols of an object or a module that it is the library   *)
(* of; and when nothing failed, every library of an object that is ELF, of *)
(* a module and of the kernel has been written in full.                    *)
LibsRight ==
    LET Read(img) == [n \in 1..Len(img.dynsym) |-> SymbolAt(img, n)]
        Sources(p) ==
            {KoSymbols(b.kofnm) : b \in {c \in Range(bos) : c.sofnm = p /\ c.kofnm \in DOMAIN Objects}}
            \cup {LineSymbols(m) : m \in {l.module : l \in {k \in Range(klines) :
                     p = <<kdir, <<IF k.module = None THEN "kern" ELSE k.module, "">>>>}}}
    IN /\ pc # "down" =>
            \A p \in DOMAIN files : IsImage(files[p]) => Read(files[p][2]) \in Sources(p)
       /\ faults = 0 /\ pc = "cleanup" =>
            /\ \A b \in Range(bos) : b.kofnm \in DOMAIN Objects => IsImage(files[b.sofnm])
            /\ \A l \in Range(klines) : \E p \in DOMAIN files :
                  /\ p = <<kdir, <<IF l.module = None THEN "kern" ELSE l.module, "">>>>
                  /\ IsImage(files[p])

(* The buffers sized before they are filled are large enough: a library's  *)
(* string table fits, arrays are never filled past their end, and the      *)
(* links of the hash table are symbols of the library.  How much of it a   *)
(* dynamic linker maps is not in here.                                     *)
Inside ==
    /\ \A p \in DOMAIN files : IsImage(files[p]) =>
          /\ files[p][2].top <= files[p][2].buf
          /\ \A k \in DOMAIN HashWalk(files[p][2]) : HashWalk(files[p][2])[k] \in 0..Len(files[p][2].dynsym)
    /\ Len(dirs) <= dirmax /\ Len(kospec) <= kospecmax
    /\ \A m \in Range(mods) \cup {kern} : Len(m.entries) <= m.max
=============================================================================

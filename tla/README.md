# A verification project for Symbi-OS

This directory holds TLA+ models of the parts of the repository that have state
worth checking, the TLC configurations that check them on small instances, and
proofs that TLAPS checks for every instance. `PROJECT.json` lists the
components, the runs, the source lines each definition stands for, the hazards
the properties are aimed at, and the theorems.

Run a check with `tlc -config MCEvacuateTwo.cfg MCEvacuate`, a proof with
`tlapm EvacuateProofs.tla`.

## 1. Inventory

Symbi-OS lets application threads run in supervisor mode. The kernel, Symlib and
the C library are submodules whose contents are not in the repository; what is
here are the extensions (`examples/kcuttest`), the tools that build them
(`examples/tools`), programs that use them (`examples/kcuttcp`, patches for
memcached and valkey), small kernel-module demonstrations and experiments
(`tests`, `explore`).

| Part | State it keeps | Operations | Interacts with | Hard because |
|---|---|---|---|---|
| CPU evacuation, `evacuate.kc`, `evacuate.h` | global list `saved_affinities`, `evac_mutex` | `acquire_exclusive_cpu`, `release_exclusive_cpu` | every task of the system, fork, exit, the scheduler | several owners share one list; fork and exit go on during the scan; allocations and `sched_setattr` fail half way |
| IDT adaptors, `idtadaptor.kc`, `pfadaptor.kc`, `efadaptor.kc` | statics `orig_idt`, `current_idt`, `ef_adaptor_orig_isrs` per module; IDTR and TSS of each CPU | `idt_adaptor_clone`, `_activate`, `_release`, `pf_adaptor_init`, `ef_adaptor_init` | all CPUs, other modules that do the same | no lock; CPUs switch one after the other; a page is freed while CPUs may use it; failures after some CPUs were changed |
| kld file system, `kld/fs.c` | inode table with an intrusive free list, file objects, two hash tables per directory | create, remove (recursive), FUSE callbacks, cleanup at exit | kldfs, the FUSE kernel module | inode reuse; recursion into parents while the table is scanned; assertions instead of error paths |
| kld event loop, `kld/kldfs.c`, `kld/sigproc.c` | epoll set, signalfd, FUSE descriptor | register, wait, `sigEvent`, `fsEvent`, exit | signals, FUSE requests, unmount by others | edge and level triggering mixed; one signal read per edge |
| Echo server and client, `kcuttcp`, with the shortcuts of `kcut_tcpmsg` | connections, buffer, the static counters of the shortcuts | accept, read, write, close; connect, `write_all`, `read_all` | each other through sockets | one thread, edge triggered, busy retry; short reads and writes; clients that die; error values of the shortcuts |
| kld linker, `kld/main.c`, `kld/elf.c` | options, the table of binary objects with two descriptors each, the symbols of the kernel and of each module | parse options, add an object, write the table of objects, read kallsyms, write a library | files, `/proc/kallsyms`, the linker that reads the libraries | any system call may fail; a descriptor has one owner on some paths and another on others; buffers are sized before they are filled |
| dpld, `tools/src/dpld.c`, with what `kcc` and `genmodsheader` write | `module_loaded`, the resolved symbols; in the kernel the module list and each module's `app_got` | load modules, hand over the table of callbacks, resolve a symbol | the kernel's module loader and kallsyms, other processes that do the same | several processes load one module at once; loads fail half way; modules are told apart by name only and may be unloaded; names are looked up in the kernel and all modules |
| kldso, modlogger, generators, demonstrations, tests | little or none | | | |

The properties that make each modelled part correct are in section 3.

## 2. Modules

| Module | What it is |
|---|---|
| `Evacuate` | the evacuation extension, with fork, exit and the scheduler as its environment |
| `MCEvacuate`, `MCEvacuate*.cfg` | instances of it |
| `EvacuateProofs` | theorems about it |
| `IdtAdaptor`, `MCIdtAdaptor`, `MCIdt*.cfg` | the IDT adaptors; calls that do not overlap (`Serial`) or that do |
| `KldFs`, `MCKldFs`, `MCKldFs.cfg` | the file system of kld |
| `KldLoop`, `MCKldLoop`, `MCKldLoop.cfg` | the event loop of kld |
| `KldElf` | `elf.c` as operators: symbols read from an object, the library made of symbols |
| `KldLink`, `MCKldLink`, `MCKldLink.cfg` | a run of kld, on top of `KldElf` |
| `Dpld`, `MCDpld`, `MCDpld.cfg` | the resolver of a program, in several processes at once |
| `Echo`, `MCEcho`, `MCEcho*.cfg` | echo server, clients and shortcuts |
| `EchoService` | what the echo server promises, without sockets, buffers and epoll |
| `EchoProofs` | theorems about `Echo`, and that it implements `EchoService` |
| `IdtAdaptorProofs`, `KldFsProofs`, `KldLoopProofs`, `KldLinkProofs`, `DpldProofs` | theorems about the modules they are named after |
| `Induction` | induction over the naturals and recursive functions, which five of the proof modules use |

Definitions that a bug could plausibly turn into are written next to the
definition they vary, marked "Mutant of"; nothing in a specification uses them.
For every property of a passing run `PROJECT.json` names one that breaks it.

### Evacuate

State: the task list (`alive`, `forking`), masks, policy and pending SIGKILLs of
the tasks; `saved` and `mutex` are the two globals of `evacuate.kc`; `reserved`,
`mode`, `todo`, `mkcnt`, `rc`, `target` are the locals of whichever call holds
the mutex. `pc` says where a task is: one value per stretch of code between two
points at which another task can matter. `base` and `lost` are history variables:
the mask a task had before the extension touched it, and the tasks whose entry
`kmalloc` refused.

`LockAcquire`, `Pin`, `Scan` (one thread of `for_each_process_thread` per step,
with the body of `migrateothers` or `killothers`), `ScanEnd`, `Boost`, `Done`,
`restore_saved_affinities` (one list entry per step) and `UndoEnd` are
`acquire_exclusive_cpu`; `LockRelease`, the same loop and `ReleaseEnd` are
`release_exclusive_cpu`. `kcut_evacuate`'s assertion is `Abort`. Fork is two
steps: `copy_process` copies the mask before it links the child, and a scan can
pass in between. A new process is linked at the tail, where a scan still meets
it; a new thread joins its group, which the scan may have left.

What is left out: `sched_setaffinity` by others and CPU hotplug (the extension
does not defend against either), and that the code sleeps while it walks the
task list under RCU.

### IdtAdaptor

State: pages with descriptor tables, the table each CPU's IDTR names, whether
IST7 has a stack on each CPU, and the statics of each module. Patching a fresh
clone is one step, since nobody else can see that page; loading a table is one
step per CPU; freeing the old page and caching the new one are separate steps.
`process_vec`'s test handler is 0 at its only call and is left out. A clone that
could not be allocated is dereferenced by both callers: `CloneFails` leads to a
state `oops` in which that call stays. The exception stacks are not in the state,
only whether a CPU has one: `ef_adaptor_cleanup_tss` never gives one back.

Handlers are names, so that `ChainEnds` can follow who passes control to whom.
`Targets` is what the stubs may do: a pf adaptor jumps to the kernel's handler,
the one of #DF to that of #PF if the task is elevated (`pfasm.kS:113`); an ef
adaptor returns to the handler it recorded or, for an exception with an error
code, jumps to `df_handler_location` (`pfasm.kS:215`), which `extension_init`
took from the table in use when the module was loaded.

A page that was given back may be used for anything. Cloning one (`dangled`)
gives the old gates or arbitrary ones (`Contents`, `JunkTables`), and three of
the properties speak of runs in which this did not happen; section 3 has the
sequence in which it does. Left out is
that a module with adaptors is unloaded: kcuttest has no `extension_exit`, so an
`rmmod` (`kcuttest/kcuttest:9`) leaves its handlers in the gates, and what an
exception then finds there is not in the model.

### KldFs

State: the table (`file` and `next` of each inode, `freelist`, `numfree`), heap
cells for file objects, and what the FUSE kernel module knows. `RemoveOne` is
one level of `fsRemoveitem`; its recursive call is a tail call. An assertion
that fails, or a pointer to a freed object that is followed, ends the process:
`failed` says which; that FUSE gives no session (`fs.c:688`) is one of these.
The history `hist` records whether a client ever removed an
item or reused a name, since two of the properties are for clients that do not.
kld sets up the file system only if `GBLS.startfs` is set, which no option does
yet ("This support has not been completed", `main.c:737`); the models say what
will happen when it does.

### KldLoop

State: pending signals, whether the signalfd is on epoll's ready list (an edge),
outstanding FUSE requests (a level), whether someone else has unmounted, and the
events reported but not handled. `sigEvent` and `fsEvent` are whole handlers.
`LoopFails` is the error exits of `epoll_create1` and `epoll_wait`; that
`epoll_ctl` takes the signalfd is asserted, and taken for granted.

### Echo

State: for each connection the length of the two byte streams, what the server
knows of the other end (`up`, `fin`, `rst`, or `pipe` once a write will raise
SIGPIPE), the client's position, and the server's locals. Only the number of
bytes matters: streams keep order. Every read and write of the server is one
step; a client's `write` may take any part of what there is room for. `Cut`
chooses the build: plain, or with the shortcuts, which count down
`KCUT_THRESHOLD` calls between two system calls. Up to `MaxErrors` connections
meet an error when they are accepted: `accept` itself fails and the connection
stays in the backlog (`AcceptError`), or `set_nonblock` or `EPOLL_CTL_ADD` fails
and the server closes it (`Refuse`). Left out are pacing, warm-up, the end by
duration and statistics, and the error exits of the server's set-up and of
`epoll_wait`, after which there is no server. An event is judged by the state of
the connection when it is handled, not by the word `epoll_wait` recorded: what
came in between has its own edge.

`EchoService` has for each client a status, the bytes it is owed and the bytes
echoed to it. `Service` in `Echo` maps to it: a client waits from its connect on
and is in once it is accepted, and it is owed what is on its way to the server or
in the server's buffer; once it has ended it is owed nothing. Reads and waits do
not show. The abstract `Die` is enabled only when a client was killed, `Finish`
only when nothing is owed, and a client is turned away only while it waits, so
the refinement says more than that bytes are counted right.

### KldElf and KldLink

`KldElf` keeps what a reader of a library can tell: where each name starts in
the string table, which names were copied over, the fields of each symbol that
depend on the entry, the words of the hash table, and the size the buffer was
given. A name is a value with a length. `Among` is the loop that picks sections
and symbols, as a recursive function. The ELF header, the program headers and
the section headers are the same for every library and are left out; so is that
the one PT_LOAD segment has 0x1000 bytes whatever the size of the image
(`elf.c:156`): a dynamic linker does not map the whole of a larger library, and
*Inside* does not speak of that.

`KldLink` is one run of the program. `fds` maps descriptor numbers to what they
are open on, and a new descriptor gets the lowest number, so a descriptor closed
by mistake can come back as another file. `pc` goes from the options over the
binary objects (`addbo`), the executable (`prcExec`), the table of objects
(`OpenKotbl`, `prcBO`, `CloseKotbl`) and kallsyms (`GetLine`, `WriteKern`,
`WriteMod`) to the exit handler (`cleanup`). Up to `MaxFaults` system calls fail.
Two paths use a variable nobody set: `openko` without any directory, and
`writeso` when no memory file can be made. They close an arbitrary descriptor,
and `wild` records that; the second may also end the process.

Failures nobody looks at count as failing calls too, and `unseen` records them:
`openko` takes an open that fails for a file that is not there and goes on to the
next directory; a write of the table of objects that fails or is short, while it
is filled, when it is closed, or because its descriptor was closed by mistake,
leaves some of its lines and at most one torn one (`Cut`). A crash loses what is
still in the stream's buffer in the same way.

Left out: `-v`, lines of kallsyms that `sscanf` does not match, damaged ELF
files, malloc failures (the code tests none), what else may be written into a
file that got the number of a descriptor closed by mistake, and what comes after
`startfs`, which `KldFs` and `KldLoop` model.

### Dpld

State: for each process where its resolver is, the next module or symbol and
what it has found; for the kernel the list of modules, newest first, which of
them are initialised, and whose table of callbacks a module has. A resolver runs
before `main`, in one thread, so a process has one place. A process may end and
start again, and modules stay; its table stays in them, and is that of a dead
process then.

The kernel tells modules apart by name, and kcc calls a module `ext` unless it is
told otherwise (`kcc:59`). `init_module` of a name that is there is EEXIST, which
dpld takes for success: the module may be another program's. A name that is being
loaded is waited for, and when that load fails the kernel answers EBUSY (kernels
since 6.2; kcuttest calls `vmalloc_noprof`, which is younger). A symbol is
looked up in vmlinux, then in the modules, the newest first. So the `set_app_got`
a process finds may be that of another program's module, which may fail and be
freed before it is called; that call ends the process, or it goes on and no
module has its table.

`rmmod` takes an initialised module away at any moment, as the scripts do
(`back_linkage/do:2`, `cpu_migration/do:2`, `kcuttest/kcuttest:9`); nothing counts
the processes that use it. `since` is a history: what has happened around a
process since it started, a module of its names unloaded, another program's
module there, another table given.

## 3. Runs

### Passing

- `evac_two`: two owners and a child that may be forked at any time, two CPUs,
  cpumask allocation and `sched_setattr` fail at will, `kmalloc` of an entry
  `MaxLost` times. *Serialized*: between
  lock and unlock there is one task, the holder. *OriginalKept*: however many
  owners acquire in turn, the oldest entry of a task is its original mask, so
  restoring head to tail ends there; only a task whose own entry could not be
  allocated can lose it. *ScanCovers*: the loop invariant of the
  scan. *ReturnsClean*: what a success, a failure and a release leave behind.
- `evac_one`: one CPU, where `killothers` runs instead; threads, sessions and
  all three modes.
- `evac_live`: every call returns and a release empties the list, with two
  callers competing. Forks are left out here: a system that forks for ever can
  prolong a scan for ever.
- `idt_one`: two modules, each with both adaptors, five calls one after the
  other, pages and stacks failing at will. *IdtrLive*: no CPU uses a page that
  was given back or is being filled in. *IstBacked*: a gate on IST7 has a stack
  on every CPU that can take it. *ChainEnds*: through whatever adaptors, every
  vector can reach the kernel's own handler for it, and only one with an error
  code another, that of #DF or #PF. *Settled*: between calls all CPUs agree and no
  page is lost or freed twice. *AdaptorsStay*: no call gives a vector back. The
  three about the contents of tables hold as long as no freed table was cloned;
  the run has states in which one was, and what a CPU then does is arbitrary.
- `fs`: every sequence of creations, removals, requests and exit over five
  inodes. *FreeListSound*, *TreeSound*, *NoAssert* and *CleanupComplete*.
- `loop`: signals, requests, a foreign unmount and a failing loop in every order.
  *ReadsSignal*: an edge always finds a signal. *RequestsServed* and
  *SignalEnds*, under fairness of the process.
- `echo`: two clients, of which one may be killed, and one error when a connection
  is accepted; a packet of `2 * Cap + 1` bytes, the largest that cannot stop both
  sides. *Conserved*: no byte is lost or made up. *FailsOnlyWithServer*: a client
  fails only with the server, or when it is refused before a byte of it was read.
  *ClientsEnd*, *ConnectionsClosed*, and *Serves*: `Echo` implements
  `EchoService`.
- `link`: four options, three lines of kallsyms and one failing call, those nobody
  looks at included, in every combination. *Owned*: the descriptors open on
  objects and libraries are those of the objects in the table. *KotblRight*: the
  table of objects is complete, in order and, unless an open failed, with the
  first file along the search path, or it is not there; a table whose writing
  failed has only right lines in the right order, and at most a torn one.
  *LibsRight*: a library reads back as the symbols it was made of. *Inside*:
  string tables and arrays fit what they were sized for, and the links of the
  hash table are symbols of the library.
- `dpld`: three processes of three programs; x and y are different modules, both
  called ext, x is in two programs, one of which has z beside it; two symbols are
  in two modules, one is in vmlinux; one failure of the kernel or one `rmmod`
  anywhere. *Ready*: nobody goes on without a live module for each of its names,
  unless one was unloaded. *OwnTable*: as long as no other program's module is
  there and none of its own is unloaded, the newest of a program's modules has its
  table, or, if others gave theirs later, one of those. *Backed*: an address
  dangles only if one of the program's names was unloaded, or if a module of
  another name has the symbol too; loads, failures and exits of others do not
  take it away. *Settles*: a start ends in `main` or in an exit.

### Violated

Each states what a comment or an assertion says; TLC shows the code does
otherwise.

- `evac_listed`: "list should always at least have us on it" (`evacuate.kc:275`).
  A release by another task empties the global list.
- `idt_overlap`: "make it current" (`idtadaptor.kc:53`). Two overlapping calls of
  one module end with the cached pointer and the CPUs on different pages.
- `echo_kcut`: "read / write compatible interface" (`kcut_tcpmsg.h:55`). The
  shortcut returns a negative errno and not -1; the server adds it to `sent`.

### Read in the code, without a run

- `evacuate.kc:264`: when the second mask cannot be allocated the first is freed
  there and again at `done`.
- `evacuate.kc:187`: a mask that could not be saved is changed all the same, and
  is never restored; *OriginalKept* says that this is the only loss.
- `evacuate.kc:168`: a child copied before its parent was visited and linked
  after the scan keeps the reserved CPU. A thread of an ancestor is no ancestor,
  and the SIGKILL sent to it takes the ancestor (`evacuate.kc:124`).
- `evacuate.kc:323`: an owner whose second acquire fails stays SCHED_FIFO.
- `evacuate.kc:311`: a task that has only the reserved CPU in its mask can be
  told that it owns a CPU that is owned.
- `kcuttest/kcuttest:9`: `rmmod ext` takes the code of installed adaptors away; no
  `extension_exit` puts the kernel's gates back first.
- `efadaptor.kc:186`: the IST entry is zeroed before the stack to free is read
  from it; and since the entry is shared, a failed call of one module takes it
  from under another's gates when calls overlap.
- `idtadaptor.kc:28`: `orig_idt` may dangle. A module that finds another's page in
  the IDTR and whose own call is then refused keeps the address of that page as
  `orig_idt`; when the other module activates its next table it frees the page
  (`:55`), and the first module's next clone is seeded with whatever is there now
  (`:31`) and may be loaded on all CPUs. The comment at `:22` says "seed new idt
  with current idt or orig_idt". With a single module it cannot happen (theorem
  *SoleModuleSeeds*).
- `pfasm.kS:115`: an elevated task's double fault is passed to the kernel's #PF
  handler, with whatever error code was changed on the way; by *ChainEnds* no
  other handler than its own, #DF's or #PF's gets an exception.
- `esrv.c:162`: SIGPIPE is not ignored, so one client that dies at the wrong
  moment ends the server.
- `esrv.c:171`: a packet of more bytes than the two directions of a connection
  hold and one more can stop client and server for good, each waiting in write:
  the server may have taken only one byte when it begins to wait, whatever the
  size of its buffer. *ClientsEnd* is checked at exactly that size.
- `fs.c:116`: `assert(id->file==NULL)` fails in create, remove, create, since
  `fsRemoveitem` does not clear the inode it frees. kld removes items only at
  exit, and *NoAssert* is about clients that do not remove.
- `sigproc.c:28`: SIGQUIT is blocked but has no case; it uses up the edge, and a
  SIGTERM pending with it is not read until another signal comes. *SignalEnds*
  is about runs without SIGQUIT.
- `kld/main.c:220`: "already specified ignoring" is printed, but kld then ends
  with a failure, and the library of the first object has been truncated.
- `kld/main.c:612` and `:515`: after kallsyms were processed kld leaves by
  `EEXIT`, so success is a failure status, while a directory that cannot be made
  is a success.
- `kld/elf.c:122`: the one bucket of the hash table is empty, so a dynamic linker
  finds no symbol, and the chain has a word less than `nchain`, which it
  therefore does not come to.
- `kld/main.c:56` and `:721`: an open that fails makes kld take another file of that
  name without a word, and a table of objects that could not be written in full
  is no failure.
- `dpld.c:53`: a program whose module has the name of one that is loaded goes on
  with that one. kcuttest and back_linkage both make a module `ext`, and both
  have `kernel_add` and `current_pid`: the second program calls the first's.
- `dpld.c:177` and `:265`: names are looked up in the kernel and in all modules,
  the newest first. A symbol that a module of another name has too is resolved to
  that one if it was loaded later; `set_app_got`, which every module made by kcc
  has, is that of the newest module, which may be another program's, or be freed
  before the call, and the other modules of the program never get its table.
- `back_linkage/do:2` and the other scripts: `rmmod` succeeds while programs use the
  module; their addresses dangle.
- `dpld.c:194`: each process that starts replaces the module's table of
  callbacks, with addresses of its own image, and the table stays after it has
  ended.

## 4. Bounds and fairness

- `Evacuate`: two callers are enough for every order of two calls; `MaxSaved`
  bounds the list when a call starts, so that owners can acquire twice; `MaxLost`
  = 1 entry that cannot be allocated.
- `IdtAdaptor`: `MaxCalls` = 5 lets each module run each adaptor and one again,
  three pages hold two current tables and a clone, three vectors are one the
  kernel runs on a stack of its own and that pf patches, one both adaptors
  patch, and one only ef patches; two of them have an error code. They are enough
  for a module to clone a table that was freed.
- `KldFs`: `N` = 5 inodes, of which three can be items: a directory in a
  directory, and a table that is full. Symmetric in objects and names.
- `KldLoop`: a signal that ends, SIGQUIT with a number between it and SIGTERM,
  and SIGTERM, since a signalfd gives the lowest number first.
- `Echo`: streams of three bytes and a buffer of two, so that a read leaves
  something behind, a write is short and every buffer is full at times; one client
  has two transactions, so that one begins where another ended, and the one that
  may be killed has one; `MaxErrors` = 1, so that of two clients one is served
  after the other was refused.
- `KldLink`: `MaxArgs` = 4 options make two objects with two more directories, a
  duplicate and a shared library; `MaxLines` = 3 lines fill an array of first
  size 1 twice over; `MaxFaults` = 1, since every path after a failure is short,
  and the theorems are for any number.
- `Dpld`: two programs with one module in common, of which one has another module
  too, and a third program with a module of the same name are enough for every
  order of two loads, for a load that meets a stranger and for lookups that meet
  others; `MaxFaults` = 1 failure or `rmmod`, the theorems are for any number.

Fairness. Evacuate: code in the kernel that can go on does (weak); a waiter gets
`evac_mutex` in the end (strong), because a Linux mutex hands itself over to a
waiter that has been passed over. KldLoop: the process is scheduled (weak).
Echo: server and clients are scheduled (weak). Dpld:
a process whose resolver can go on is scheduled (weak); one that waits for the
module another is loading cannot. Nothing is assumed of callers,
signals, requests, forks, exits and kills. Deadlock is not checked: in each
system the environment may stop asking, and the liveness properties say what
must not stop.

## 5. Proofs

`EvacuateProofs`, for any tasks, CPUs, modes and number of calls:
- *TypeCorrect*: `Spec => []TypeOK`.
- *MutexSerializes*: `Spec => []Serialized`.
- *OriginalNeverLost*: `Spec => []OriginalKept`, whatever fails.
  `OriginalKept` is not inductive by itself. A slot that fork is filling must not
  be on the list and must have its own mask (`ForkClean`), or linking it would
  break the invariant; and what the scan and the calls work on must be alive
  (`InsideAlive`), since the invariant is about living tasks. The three together
  are. The lemmas about lists say what adding at and removing from the head do
  to the oldest entry of a task.
- *ReturnsAreClean*: `Spec => ReturnsClean`. For a failure and a release it
  follows from `OriginalKept`: when the list is empty nobody has an entry. For a
  success it needs `HolderPinned`: from the scan on until it returns, the holder
  is pinned and has an entry (or is marked as lost), and before it returns
  success it is boosted. No restore can undo that, since only the holder of the
  mutex restores.
- *ScanMissesNobody*: `Spec => []ScanCovers`, with the type invariant,
  `Serialized` and `InsideAlive`. The hard step is a task that `is_ancestor`
  spared and that is no ancestor any more because a parent in between has exited:
  lemma `AncestorInLineage` shows, by induction over the walk along
  `real_parent`, that it stays in the caller's lineage by creation.

`IdtAdaptorProofs`, for any modules, CPUs, vectors, pages and number of calls.
With any calls, overlapping ones too: *TypeCorrect*.

With calls that do not overlap (`Serial = TRUE`):
- *ExceptionsEnd* (`ChainEnds`). The invariant `Chains`, for runs in which no freed
  table was cloned, is about every table, in use or not: a gate holds the kernel's
  handler or a pf adaptor's, or an ef adaptor's that has recorded one of these and
  whose module knows such a handler for #DF. So a table cloned from a stale one is
  as good as any. A pf adaptor's targets are the kernel's, so what is behind any
  number of modules after two hops is the kernel's handler of the vector, of #DF
  or of #PF, and stays so.
- *TablesStayAlive* (`IdtrLive`), *StacksAreThere* (`IstBacked`), *CallsSettle*
  (`Settled`). None of the three is inductive. `SerialInv` has five parts: one
  call at a time (`One`); the pages in use are those the modules remember and
  that of the call (`Accounts`); the CPUs use one table that a module remembers,
  or during a switch two, of which one is the new one (`Idtrs`); as soon as any
  table has a gate on IST7 every CPU has the stack and no call is about to take
  one away (`Stacks`); and a module that has recorded handlers has nothing more
  to record (`Records`), so that `process_vec` never meets a handler that
  differs, and never fails after the stacks were set up. The parts that speak of
  gates are for runs in which no freed table was cloned; that the tables in use
  are alive, and that pages are accounted for, does not depend on it.
- *AdaptorsAreKept*: `Spec => AdaptorsStay`. A module may clone the table it
  found first, which may be stale. `Adapts` says which gates a table can have and
  that the table that is being activated has every adaptor in use; `Origins` says
  that the table a module would clone again has an adaptor if any table in use has
  one, and an adaptor on a table that has one leaves nothing of its own kind to do.
- *SoleModuleSeeds*: if there is one module only, no freed table is ever cloned,
  so that for it the three theorems about gates hold without a condition.

The hypothesis is needed: `idt_overlap` shows what becomes of `Settled` when two
calls overlap. The code has no lock that excludes it. As the repository uses the
adaptors calls do not overlap: a module calls `ef_adaptor_init` in its
`extension_init` (`efadaptor.kc:357`), once and before the program that loads it
goes on, so only two processes that load different modules at once could.

`KldFsProofs`, for a table of any size and any items:
- *TypeCorrect*, *FreeListIsSound* (`FreeListSound`), *TreeIsSound* (`TreeSound`)
  and *CleanupIsComplete* (`CleanupComplete`) rest on one invariant, `Sound`. Its
  core is `FreeList`: some sequence of different inodes spells the list out along
  `next`, and its entries are exactly the inodes no item has. `ListPop` and
  `ListPush` say what `inoalloc` and `inofree` do to it, and `FreeListIs`, by
  induction, that walking the list as `OnFreeList` does visits just these.
  `Items` is what holds of an item, of the directory that lists it and of the
  table; `Stages` is what the stages of the program add. That the count
  `ino_numfree` is right follows from the list, not from the counting.
- *CreatingIsSafe* (`NoAssert`), for clients that remove nothing and use no name
  twice, has a second invariant, `Orderly`. Inodes are handed out in ascending
  order, so a child has a larger one than its directory (`Growing`), the kernel
  knows of living items only (`Told`), and behind the scan of `fsCleanup` only
  directories that still list something are left (`Scanned`). At the end of the
  scan there is none: of the items left, the directory with the largest inode
  would have to list a younger one (`NoneLeft`). Hence the assertions of
  `fsCleanup` and of `fsRemoveitem` hold.

`KldLoopProofs`, for any signals and requests:
- *TypeCorrect* and *EdgeFindsSignal*: `Spec => []ReadsSignal`. The invariant adds
  that a report that is being handled is not empty; a report names the signalfd
  once, and only its own handler takes signals away.

`DpldProofs`, for any processes, programs and modules:
- *TypeCorrect*, where the list of modules is a sequence without repetitions,
  from and into which `list_del` and loading take and put (`ListDel`, `ListPush`).
- *LoadedIsReady*: `Spec => []Ready`, whatever else is loaded. A process knows
  that the names it has counted are those of live modules (`LoadedSoFar`), and no
  step but an `rmmod` that is noted takes that away.
- *TableIsOwn*: `Spec => []OwnTable`. As long as no other program's module is noted
  there is none on the list (`NoForeign`); so the module whose `set_app_got` was
  found is of one of the program's names, live since `LoadedSoFar`, and the newest,
  since what comes later would be another program's (`Chosen`). A module that has
  the table of a running process was given it by that process (`Holds`), and it
  keeps it until another table is noted (`Told`).
- *AddressesBacked*: `Spec => []Backed`. An address is in vmlinux, in a module on
  the list that has the symbol, or dangles for a reason that was noted
  (`Resolved`); a module of the program's names is past its initialisation, so a
  failing load cannot take it away.
- Lemma `Effects` sums up what a step can do to the kernel and to the pointers
  into it, so that each of these invariants is proved by five cases.

`EchoProofs`, for any clients and sizes:
- *TypeCorrect*, which needs that the served connection is a client's
  (`ServesClient`) and that a client in a transaction has one left (`TxnLeft`).
- *NoClientDropped*: `Spec => []FailsOnlyWithServer`, in both builds. The
  argument: a client has gone before the server's socket says so (`GoneFirst`),
  and as long as the server lives it closes, of what it registered, only what has
  gone (`ClosedLast`); a connection it refuses was never served (`Unserved`).
- *EchoesEverything*: without the shortcuts, `Spec => []Conserved`. With them
  `echo_kcut` refutes it.
- *ServesRefines*: without the shortcuts, `Spec => Serves`. The initial states
  map to the abstract one; a step of a client is `Join`, `Ask`, `Take`, `Finish`
  or `Abort`, an accept `LetIn` or `TurnAway`, a write of the server `EchoBytes`,
  the SIGPIPE `Die`; lemma
  `Hidden` is for all other steps. Besides `Conserved` the mapping needs that a
  connection that is served or reported is open and comes up once (`Served`),
  and that a client that has ended had everything back (`Ended`): without it the
  server might be writing to it, and die of it.

`KldLinkProofs`, for any directories, files, objects, specifications and lines,
any lengths of names, any number of options and any number of failing calls:
- *TypeCorrect*, *DescriptorsAreOwned* (`Owned`), *TableIsRight* (`KotblRight`),
  *LibrariesReadBack* (`LibsRight`) and *NothingOverruns* (`Inside`) rest on one
  invariant, `Sound` (theorem *SoundAlways*), since none of them is inductive. Its
  parts, each kept by every step with the help of the ones before it:
  - `Arrays` and `Place`: types, room, and what the program has not come to yet
    at each place; an uninitialised descriptor was used only after a failure, or
    on the way out.
  - `Objs`: the objects are those of the first specifications, each once, and
    each is one the specification can mean (`LineFor`).
  - `Descriptors`: each open number is a stream or belongs to one object, on its
    own file; numbers of different objects differ; what is open beyond two for
    each object and the stream in use stands for a failed call. That a number
    just given is the lowest free one is why it can belong to nobody else. The
    library's theorems on cardinality do the counting.
  - `Table`: the stream has the lines of the objects gone through, and the file is
    right. When the stream is lost in part, what is left of it embeds into it:
    there is a map from the lines left to the lines written that keeps their order
    and is the identity on all but the torn one (`CutEmbeds`).
  - `Symbols`: the entries of the kernel and of each module are what the lines of
    that module make, and their length is that of their names; there is a module
    for each name that came, and one only.
  - `Libraries`: what is written in full is the image of the entries of a source
    the library may have; everything else is empty or torn. A library can be
    written twice, when two objects share it or an object is called like a module,
    so the source is one of several.
  - `Complete`: as long as nothing failed, everything gone through has its library.
- Under it lie the lemmas about `KldElf`: `OffsetsApart` (names are put one behind
  the other, each after the end of those before it), `StrtabReads` (so each is
  found where its symbol points), `ImageReads` (an image reads back as its
  entries, and its string table ends where the buffer does), `WalkEnds` (the
  walk ends at the empty bucket) and `ObjectEntries` (picking the tables first,
  as `elf_read_syms` does, gives the symbols in the order of the object).

`Induction` derives induction over the naturals for sets from the library's
theorem that a well-founded relation has minimal elements; the library's own
induction rule takes a predicate as a parameter, which the provers cannot
instantiate. `LeastElement` and `Iterates` (a function can be iterated any number
of times) follow from it, and `Recursion`: the function on 0..n with a given
first value and given steps exists. With these, what `OnFreeList`, `Lineage`, the
chain of handlers, `sym_offsets` and `Among` compute can be proved of, since they
are functions on 0..n. (`SelectSeq` of the standard library is not: the prover
knows no definition of it. That is why `KldElf` has `Among`.)

Assumptions are the named ASSUMEs of the modules, types of the constants, and
the hypotheses in the theorems.

Every invariant, action property and refinement the passing runs check is also
proved. Only model-checked is liveness (*Settles*, *ClientsEnd*,
*ConnectionsClosed*, *RequestsServed*, *SignalEnds* and *CallsReturn* and
*ReleaseRestores* of `evac_live`), since fairness is beyond the prover.

## 6. Not modelled, and the plan

Next: an abstract CPU reservation that `Evacuate` implements for one owner.

Not modelled:
- of the exception stubs `pfasm.kS` and `efasm.kS` the arithmetic on the registers
  and the stack of one exception, which leaves no state behind; `IdtAdaptor` models
  where they pass control;
- the interposer module `idtr_interposer`: an earlier form of the adaptors, one
  table that is cloned, patched and loaded once;
- `kcuttest/main.c`, a test driver that calls the extensions and measures, and
  `newmain.c`, which is in no Makefile and does not compile;
- `readsymtbl.c` and `listlibs.c`, which print what they read;
- shell and Python generators (what `kcc` and `genmodsheader` put into a program
  is part of `Dpld`), kldso and modlogger, the kernel-module demonstrations,
  notebooks, patches of third-party programs, which have no state of their own to
  check; and the submodules, which are not in the repository.

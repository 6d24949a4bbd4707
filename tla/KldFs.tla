------------------------------- MODULE KldFs --------------------------------
(***************************************************************************)
(* examples/tools/src/kld/fs.c: the synthetic file system of kld.  A table *)
(* of inodes with an intrusive free list names heap objects, fs_file_t; a  *)
(* directory keeps its items in two hash tables, by inode and by name.     *)
(* Clients create items (kldfsCreate does) and may remove them, the FUSE   *)
(* callbacks look them up, fsCleanup takes everything down at exit.  One   *)
(* thread runs it all; a failed assertion or a bad pointer ends it.        *)
(***************************************************************************)
EXTENDS Naturals, FiniteSets

CONSTANTS
    N,          \* ino_num: entries of the table, 256 in the code
    Objs,       \* heap cells for file objects
    Names,      \* names of items
    RootName,   \* "."
    Null

ASSUME ConstantsAssumption ==
    N \in Nat /\ N > 2 /\ Null \notin Nat \cup Objs /\ RootName \notin Names

INVALID_INO == 0
ROOT_INO == 1
Inos == 0..N-1

VARIABLES
    file,       \* id->file of each inode
    next,       \* id->next of each inode
    freelist,   \* ino_freelist
    numfree,    \* ino_numfree
    live,       \* file objects that are allocated
    obj,        \* contents of each heap cell
    known,      \* inodes the FUSE kernel module was told of
    opened,     \* inodes it has opened
    pc,         \* what the thread does
    cur,        \* item of the fsRemoveitem under way
    purge, back,    \* its argument purgeemptydir, and where it returns to
    i, removed, allocated,  \* locals of fsCleanup
    failed,     \* the assertion that ended the process, or "none"
    hist        \* history: "remove", "dup" once a client did that

table == <<file, next, freelist, numfree>>
heap == <<live, obj>>
kernel == <<known, opened>>
removing == <<cur, purge, back>>
cleaning == <<i, removed, allocated>>
vars == <<table, heap, kernel, pc, removing, cleaning, failed, hist>>

Types == {"REGULAR", "SYMLINK", "DIRECTORY"}
File == [name: Names \cup {RootName}, ino: Inos, dir: Inos, type: Types,
         ino_files: SUBSET Objs, nm_files: SUBSET Objs]
Failures == {"none", "full", "readlink", "inoalloc", "inofree", "containing",
             "listed", "scan", "getattr", "open", "read", "count", "pointer", "session"}

(* Types of the table, of the heap and of the thread's locals. *)
TypeOK ==
    /\ file \in [Inos -> Objs \cup {Null}] /\ next \in [Inos -> Inos \cup {Null}]
    /\ freelist \in Inos \cup {Null} /\ numfree \in 0..N
    /\ live \subseteq Objs /\ obj \in [Objs -> File]
    /\ known \subseteq Inos /\ opened \subseteq known
    /\ pc \in {"start", "build", "serve", "remove", "scan", "down"}
    /\ cur \in Objs \cup {Null} /\ purge \in BOOLEAN
    /\ back \in {"build", "serve", "scan"}
    /\ i \in 0..N /\ removed \in 0..N+1 /\ allocated \in 0..N
    /\ failed \in Failures /\ hist \subseteq {"remove", "dup"}

(* init_inotable: every entry on the list, in order. *)
Init ==
    /\ file = [n \in Inos |-> Null]
    /\ next = [n \in Inos |-> IF n = N-1 THEN Null ELSE n+1]
    /\ freelist = 0 /\ numfree = N
    /\ live = {} /\ obj = [o \in Objs |-> [name |-> RootName, ino |-> 0, dir |-> 0,
                         type |-> "REGULAR", ino_files |-> {}, nm_files |-> {}]]
    /\ known = {} /\ opened = {} /\ pc = "start"
    /\ cur = Null /\ purge = FALSE /\ back = "serve"
    /\ i = 0 /\ removed = 0 /\ allocated = 0 /\ failed = "none" /\ hist = {}

Running(l) == pc = l /\ failed = "none"

(* assert(0), or a pointer that leads nowhere: nothing else happens. *)
Fail(l) ==
    /\ failed' = l
    /\ UNCHANGED <<table, heap, kernel, pc, removing, cleaning, hist>>
-----------------------------------------------------------------------------
(* file_init *)
NewFile(n, ino, d, t) ==
    [name |-> n, ino |-> ino, dir |-> d, type |-> t, ino_files |-> {}, nm_files |-> {}]

(* Mutant of dir_add: the test by name is forgotten. *)
dir_add_unchecked(heapv, d, o) ==
    [heapv EXCEPT ![d].ino_files = @ \cup {o}, ![d].nm_files = @ \cup {o}]

(* dir_add changes nothing when the inode or the name is there already;    *)
(* its callers do not look at what it returns.                             *)
dir_add(heapv, d, o) ==
    IF \/ \E x \in heapv[d].ino_files : heapv[x].ino = heapv[o].ino
       \/ \E x \in heapv[d].nm_files : heapv[x].name = heapv[o].name
    THEN heapv
    ELSE [heapv EXCEPT ![d].ino_files = @ \cup {o}, ![d].nm_files = @ \cup {o}]

(* Mutant of inoalloc: the entry behind the head is taken for its next. *)
inoalloc_behind ==
    /\ freelist' = freelist + 1
    /\ next' = [next EXCEPT ![freelist] = Null]
    /\ numfree' = numfree - 1

(* inoalloc takes the head of the list; there is no way to grow the table. *)
inoalloc ==
    /\ freelist' = next[freelist]
    /\ next' = [next EXCEPT ![freelist] = Null]
    /\ numfree' = numfree - 1

(* fsCreatedir and fsCreatefile for a client that names a living directory *)
(* d by its inode.                                                         *)
Create(d, n, t, o) ==
    LET ino == freelist
        new == [obj EXCEPT ![o] = NewFile(n, ino, obj[d].ino, t)]
    IN
    /\ pc \in {"build", "serve"} /\ failed = "none"
    /\ d \in live /\ obj[d].type = "DIRECTORY" /\ o \in Objs \ live
    /\ freelist # Null
    /\ IF file[ino] # Null THEN Fail("inoalloc")
       ELSE /\ inoalloc
            /\ live' = live \cup {o}
            /\ obj' = dir_add(new, d, o)
            /\ file' = [file EXCEPT ![ino] = o]
            /\ hist' = IF \E x \in obj[d].nm_files : obj[x].name = n
                       THEN hist \cup {"dup"} ELSE hist
            /\ UNCHANGED <<kernel, pc, removing, cleaning, failed>>

grow_inotable ==
    /\ pc \in {"build", "serve"} /\ failed = "none" /\ freelist = Null
    /\ Fail("full")

fsCreatedir(d, n, o) == Create(d, n, "DIRECTORY", o)
fsCreatefile(d, n, o) == \E t \in {"REGULAR", "SYMLINK"} : Create(d, n, t, o)
-----------------------------------------------------------------------------
(* fsCreate: without the mount point the exit handler finds nothing to do; *)
(* otherwise inode 0 is set aside and inode 1 is the root directory, then  *)
(* createfsfunc runs, and mounting may fail; that there is a session to    *)
(* mount is only asserted.                                                 *)
MkdirFails ==
    /\ Running("start") /\ pc' = "down"
    /\ UNCHANGED <<table, heap, kernel, removing, cleaning, failed, hist>>

fsCreate(o) ==
    /\ Running("start") /\ pc' = "build"
    /\ file' = [file EXCEPT ![ROOT_INO] = o]
    /\ next' = [next EXCEPT ![INVALID_INO] = Null, ![ROOT_INO] = Null]
    /\ freelist' = ROOT_INO + 1 /\ numfree' = N - 2
    /\ live' = {o}
    /\ obj' = [obj EXCEPT ![o] = NewFile(RootName, ROOT_INO, INVALID_INO, "DIRECTORY")]
    /\ UNCHANGED <<kernel, removing, cleaning, failed, hist>>

SessionFails == Running("build") /\ Fail("session")

Mount ==
    /\ Running("build") /\ pc' = "serve" /\ known' = {ROOT_INO}
    /\ UNCHANGED <<table, heap, opened, removing, cleaning, failed, hist>>
-----------------------------------------------------------------------------
(* inofree *)
(* Mutant of inofree: the head is replaced, not pushed down. *)
inofree_unlinked(ino) ==
    /\ freelist' = ino /\ numfree' = numfree + 1
    /\ UNCHANGED next

inofree(ino) ==
    /\ next' = [next EXCEPT ![ino] = freelist]
    /\ freelist' = ino /\ numfree' = numfree + 1

(* A client removes an item it holds. *)
fsRemoveitem(o, p) ==
    /\ pc \in {"build", "serve"} /\ failed = "none" /\ o \in live
    /\ cur' = o /\ purge' = p /\ back' = pc /\ pc' = "remove"
    /\ hist' = hist \cup {"remove"}
    /\ UNCHANGED <<table, heap, kernel, cleaning, failed>>

Return ==
    /\ pc' = back /\ cur' = Null
    /\ UNCHANGED <<table, heap, kernel, purge, back, cleaning, failed, hist>>

(* Mutant of Freed: the object is taken for one that was not malloced. *)
Kept(o) == live
Freed(o) == live \ {o}

(* Unlink cur from its directory d, give its inode and its memory back, go *)
(* on with d if that is empty now.  id->file is left as it is.             *)
Unlink(d) ==
    LET item == obj[cur]
        emptied == d # Null /\ obj[d].ino_files = {cur} /\ purge
    IN
    /\ inofree(item.ino)
    /\ obj' = IF d = Null THEN obj
              ELSE [obj EXCEPT ![d].ino_files = @ \ {cur}, ![d].nm_files = @ \ {cur}]
    /\ live' = Freed(cur)
    /\ pc' = IF emptied THEN pc ELSE back
    /\ cur' = IF emptied THEN d ELSE Null
    /\ UNCHANGED <<file, kernel, purge, back, cleaning, failed, hist>>

(* One level of fsRemoveitem; the recursive call is its last statement. *)
RemoveOne ==
    LET item == obj[cur]
        d == file[item.dir]
        root == item.type = "DIRECTORY" /\ item.ino = ROOT_INO
    IN
    /\ Running("remove")
    /\ IF cur \notin live THEN Fail("pointer")
       ELSE IF item.type = "DIRECTORY" /\ item.ino_files # {} THEN Return
       ELSE IF next[item.ino] # Null THEN Fail("inofree")
       ELSE IF root THEN Unlink(Null)
       ELSE IF next[item.dir] # Null \/ d = Null THEN Fail("containing")
       ELSE IF d \notin live THEN Fail("pointer")
       ELSE IF obj[d].type # "DIRECTORY" THEN Fail("containing")
       ELSE IF cur \notin obj[d].ino_files \cap obj[d].nm_files THEN Fail("listed")
       ELSE Unlink(d)
-----------------------------------------------------------------------------
(* The FUSE callbacks: requests for inodes the kernel was told of. *)

(* Outcome of reaching the file object of an inode. *)
Reaches(ino) == file[ino] # Null /\ file[ino] \in live

fs_fuse_lookup(ino, n) ==
    /\ Running("serve") /\ ino \in known
    /\ IF next[ino] = Null /\ ~Reaches(ino) THEN Fail("pointer")
       ELSE /\ next[ino] = Null /\ obj[file[ino]].type = "DIRECTORY"
            /\ \E x \in obj[file[ino]].nm_files :
                 obj[x].name = n /\ known' = known \cup {obj[x].ino}
            /\ UNCHANGED <<table, heap, opened, pc, removing, cleaning, failed, hist>>

(* getattr, readdir and the xattr calls reply and change nothing: only     *)
(* their assertions matter.                                                *)
fs_fuse_getattr(ino) ==
    /\ Running("serve") /\ ino \in known /\ next[ino] = Null
    /\ ~Reaches(ino) /\ Fail(IF file[ino] = Null THEN "getattr" ELSE "pointer")

fs_fuse_readdir(ino) ==
    /\ Running("serve") /\ ino \in known /\ next[ino] = Null
    /\ ~Reaches(ino) /\ Fail("pointer")

fs_fuse_xattr(ino) ==
    /\ Running("serve") /\ ino \in known
    /\ file[ino] = Null \/ next[ino] # Null
    /\ Fail("open")

fs_fuse_readlink(ino) ==
    /\ Running("serve") /\ ino \in known /\ Reaches(ino)
    /\ next[ino] = Null /\ obj[file[ino]].type = "SYMLINK"
    /\ Fail("readlink")

(* A regular file is opened, read-only; the kernel follows symbolic links  *)
(* itself and a directory is EISDIR.                                       *)
fs_fuse_open(ino) ==
    /\ Running("serve") /\ ino \in known
    /\ IF file[ino] = Null \/ next[ino] # Null THEN Fail("open")
       ELSE IF file[ino] \notin live THEN Fail("pointer")
       ELSE /\ obj[file[ino]].type = "REGULAR"
            /\ opened' = opened \cup {ino}
            /\ UNCHANGED <<table, heap, known, pc, removing, cleaning, failed, hist>>

(* read asserts that the file has a read operation: regular files do. *)
fs_fuse_read(ino) ==
    /\ Running("serve") /\ ino \in opened
    /\ IF file[ino] = Null \/ next[ino] # Null THEN Fail("open")
       ELSE IF file[ino] \notin live THEN Fail("pointer")
       ELSE obj[file[ino]].type # "REGULAR" /\ Fail("read")
-----------------------------------------------------------------------------
(* fsCleanup at exit, mounted or not: unmount, then scan the table. *)
Unmount ==
    /\ pc \in {"build", "serve"} /\ failed = "none"
    /\ pc' = "scan" /\ known' = {} /\ opened' = {}
    /\ i' = 0 /\ removed' = 0 /\ allocated' = N - numfree
    /\ UNCHANGED <<table, heap, removing, failed, hist>>

(* Mutant of Scan: empty directories are not purged. *)
ScanNoPurge ==
    /\ Running("scan") /\ i < N
    /\ IF file[i] # Null /\ next[i] # Null THEN Fail("scan")
       ELSE /\ i' = i + 1
            /\ IF file[i] = Null THEN UNCHANGED <<pc, removing, removed>>
               ELSE /\ removed' = removed + 1 /\ pc' = "remove"
                    /\ cur' = file[i] /\ purge' = FALSE /\ back' = "scan"
            /\ UNCHANGED <<table, heap, kernel, allocated, failed, hist>>

Scan ==
    /\ Running("scan") /\ i < N
    /\ IF file[i] # Null /\ next[i] # Null THEN Fail("scan")
       ELSE /\ i' = i + 1
            /\ IF file[i] = Null THEN UNCHANGED <<pc, removing, removed>>
               ELSE /\ removed' = removed + 1 /\ pc' = "remove"
                    /\ cur' = file[i] /\ purge' = TRUE /\ back' = "scan"
            /\ UNCHANGED <<table, heap, kernel, allocated, failed, hist>>

CleanupEnd ==
    /\ Running("scan") /\ i = N
    /\ IF next[INVALID_INO] # Null THEN Fail("inofree")
       ELSE IF removed + 1 # allocated \/ numfree + 1 # N THEN Fail("count")
       ELSE /\ inofree(INVALID_INO) /\ removed' = removed + 1
            /\ pc' = "down"
            /\ UNCHANGED <<file, heap, kernel, removing, i, allocated, failed, hist>>
-----------------------------------------------------------------------------
Next ==
    \/ MkdirFails \/ Mount \/ RemoveOne \/ Unmount \/ Scan \/ CleanupEnd
    \/ grow_inotable \/ SessionFails
    \/ \E o \in Objs :
        \/ fsCreate(o) \/ \E p \in BOOLEAN : fsRemoveitem(o, p)
        \/ \E d \in live, n \in Names : fsCreatedir(d, n, o) \/ fsCreatefile(d, n, o)
    \/ \E ino \in known :
        \/ fs_fuse_getattr(ino) \/ fs_fuse_readdir(ino) \/ fs_fuse_xattr(ino)
        \/ fs_fuse_readlink(ino) \/ fs_fuse_open(ino) \/ fs_fuse_read(ino)
        \/ \E n \in Names : fs_fuse_lookup(ino, n)

Spec == Init /\ [][Next]_vars
-----------------------------------------------------------------------------
(* Properties *)

(* The inodes on the free list, in list order up to N hops. *)
OnFreeList ==
    LET hop[k \in 0..N] ==
            IF k = 0 THEN freelist
            ELSE IF hop[k-1] = Null THEN Null ELSE next[hop[k-1]]
    IN {hop[k] : k \in 0..N} \ {Null}

(* Whatever is created and removed, and in whatever order, the free list   *)
(* of inoalloc and inofree has ino_numfree entries, and an inode that is   *)
(* off the list is not linked to one that is on it.                        *)
FreeListSound ==
    /\ Cardinality(OnFreeList) = numfree
    /\ \A n \in Inos \ OnFreeList : next[n] = Null

(* Every item is the one its inode's entry names, and that inode is not    *)
(* free.  A directory lists the same living items by inode and by name, no *)
(* name twice.  As long as no client used a name twice, every item is also *)
(* listed in its directory.                                                *)
TreeSound ==
    \A o \in live :
        /\ file[obj[o].ino] = o /\ obj[o].ino \notin OnFreeList
        /\ obj[o].ino_files = obj[o].nm_files /\ obj[o].ino_files \subseteq live
        /\ \A x, y \in obj[o].nm_files : obj[x].name = obj[y].name => x = y
        /\ "dup" \notin hist /\ obj[o].ino # ROOT_INO =>
              LET d == file[obj[o].dir] IN d \in live /\ o \in obj[d].ino_files

(* A client that never removes an item nor reuses a name sees no assertion *)
(* of fs.c fail and no freed object used, at exit included; what remains   *)
(* are the table that cannot grow, the readlink that is not written and a  *)
(* session that FUSE refuses.                                              *)
NoAssert == hist = {} => failed \in {"none", "full", "readlink", "session"}

(* When fsCleanup returns every file object has been freed and every inode *)
(* is back on the list, also when the mount failed half way.               *)
CleanupComplete == pc = "down" => live = {} /\ numfree = N
=============================================================================

---------------------------- MODULE KldFsProofs -----------------------------
(***************************************************************************)
(* Proofs about KldFs: the free list of the inode table stays a list of    *)
(* all the inodes no item has, the tree of items stays sound, fsCleanup    *)
(* takes everything down, and a client that only creates meets no failed   *)
(* assertion.                                                              *)
(***************************************************************************)
EXTENDS KldFs, TLAPS, FiniteSetTheorems, Induction

(* f spells the list out, from its last entry f[1] to its head f[n]. *)
Spells(nx, hd, n, f) ==
    /\ \A j, k \in 1..n : f[j] = f[k] => j = k
    /\ hd = IF n = 0 THEN Null ELSE f[n]
    /\ \A k \in 1..n : nx[f[k]] = IF k = 1 THEN Null ELSE f[k-1]

Entries(n, f) == {f[k] : k \in 1..n}

(* From hd on, along nx, lie the n inodes of E, and the others have no     *)
(* successor.                                                              *)
HasList(nx, hd, n, E) ==
    /\ n \in Nat
    /\ \E f \in [1..n -> Inos] : Spells(nx, hd, n, f) /\ Entries(n, f) = E
    /\ \A m \in Inos \ E : nx[m] = Null

(* The entries of a list are inodes, as many as the list is long. *)
LEMMA ListLength ==
    ASSUME NEW nx, NEW hd, NEW n, NEW E, HasList(nx, hd, n, E)
    PROVE  /\ n \in 0..N /\ E \subseteq Inos
           /\ IsFiniteSet(E) /\ Cardinality(E) = n
           /\ (hd = Null <=> n = 0) /\ (hd # Null => hd \in E)
  <1> USE ConstantsAssumption
  <1>1. n \in Nat
    BY DEF HasList
  <1>2. PICK f \in [1..n -> Inos] : Spells(nx, hd, n, f) /\ Entries(n, f) = E
    BY DEF HasList
  <1>3. E \subseteq Inos
    BY <1>2 DEF Entries
  <1>4. IsFiniteSet(Inos) /\ Cardinality(Inos) = N
    BY FS_Interval DEF Inos
  <1>5. IsFiniteSet(1..n) /\ Cardinality(1..n) = n
    BY <1>1, FS_Interval
  <1>6. f \in Bijection(1..n, E)
    <2>1. f \in [1..n -> E] /\ \A e \in E : \E k \in 1..n : f[k] = e
      BY <1>2 DEF Entries
    <2>2. \A j, k \in 1..n : f[j] = f[k] => j = k
      BY <1>2 DEF Spells
    <2> QED BY <2>1, <2>2 DEF Bijection, Injection, IsInjective, Surjection
  <1>7. IsFiniteSet(E) /\ Cardinality(E) = n
    BY <1>5, <1>6, FS_Bijection DEF ExistsBijection
  <1>8. n <= N
    BY <1>3, <1>4, <1>7, FS_Subset
  <1>9. (hd = Null <=> n = 0) /\ (hd # Null => hd \in E)
    BY <1>1, <1>2 DEF Spells, Entries, Inos
  <1> QED BY <1>1, <1>3, <1>7, <1>8, <1>9

(* inoalloc: without its head the list is the list of the others. *)
LEMMA ListPop ==
    ASSUME NEW nx \in [Inos -> Inos \cup {Null}], NEW hd, NEW n, NEW E,
           HasList(nx, hd, n, E), hd # Null
    PROVE  HasList([nx EXCEPT ![hd] = Null], nx[hd], n - 1, E \ {hd})
  <1> USE ConstantsAssumption
  <1>1. n \in Nat /\ n > 0 /\ hd \in E /\ E \subseteq Inos
    BY ListLength
  <1>2. PICK f \in [1..n -> Inos] : Spells(nx, hd, n, f) /\ Entries(n, f) = E
    BY DEF HasList
  <1>3. hd = f[n]
    BY <1>1, <1>2 DEF Spells
  <1> DEFINE g == [k \in 1..n-1 |-> f[k]]
             new == [nx EXCEPT ![hd] = Null]
  <1>4. g \in [1..n-1 -> Inos] /\ \A k \in 1..n-1 : g[k] = f[k] /\ f[k] # hd
    BY <1>1, <1>2, <1>3 DEF Spells
  <1>5. new \in [Inos -> Inos \cup {Null}] /\ new[hd] = Null
        /\ \A m \in Inos : m # hd => new[m] = nx[m]
    BY <1>1
  <1> HIDE DEF g, new
  <1>6. Entries(n-1, g) = E \ {hd}
    <2>1. ASSUME NEW m \in Entries(n-1, g) PROVE m \in E \ {hd}
      <3>1. PICK k \in 1..n-1 : m = g[k]
        BY DEF Entries
      <3> QED BY <1>1, <1>2, <1>4, <3>1 DEF Entries
    <2>2. ASSUME NEW m \in E \ {hd} PROVE m \in Entries(n-1, g)
      <3>1. PICK k \in 1..n : m = f[k]
        BY <1>2 DEF Entries
      <3>2. k \in 1..n-1
        BY <1>1, <1>3, <3>1
      <3> QED BY <1>4, <3>1, <3>2 DEF Entries
    <2> QED BY <2>1, <2>2
  <1>7. Spells(new, nx[hd], n-1, g)
    <2>1. \A j, k \in 1..n-1 : g[j] = g[k] => j = k
      BY <1>1, <1>2, <1>4 DEF Spells
    <2>2. nx[hd] = IF n-1 = 0 THEN Null ELSE g[n-1]
      BY <1>1, <1>2, <1>3, <1>4 DEF Spells
    <2>3. ASSUME NEW k \in 1..n-1 PROVE new[g[k]] = IF k = 1 THEN Null ELSE g[k-1]
      <3>1. k \in 1..n /\ nx[f[k]] = IF k = 1 THEN Null ELSE f[k-1]
        BY <1>1, <1>2 DEF Spells
      <3>2. new[g[k]] = nx[f[k]]
        BY <1>4, <1>5
      <3> QED BY <1>1, <1>4, <3>1, <3>2
    <2> QED BY <2>1, <2>2, <2>3 DEF Spells
  <1>8. \A m \in Inos \ (E \ {hd}) : new[m] = Null
    BY <1>5 DEF HasList
  <1> QED BY <1>1, <1>4, <1>6, <1>7, <1>8 DEF HasList, new

(* inofree: an inode that is not on the list becomes its head. *)
LEMMA ListPush ==
    ASSUME NEW nx \in [Inos -> Inos \cup {Null}], NEW hd, NEW n, NEW E,
           HasList(nx, hd, n, E), NEW ino \in Inos \ E
    PROVE  HasList([nx EXCEPT ![ino] = hd], ino, n + 1, E \cup {ino})
  <1> USE ConstantsAssumption
  <1>1. n \in Nat /\ E \subseteq Inos /\ (n > 0 => hd \in E) /\ (n = 0 => hd = Null)
    BY ListLength
  <1>2. PICK f \in [1..n -> Inos] : Spells(nx, hd, n, f) /\ Entries(n, f) = E
    BY DEF HasList
  <1> DEFINE g == [k \in 1..n+1 |-> IF k = n+1 THEN ino ELSE f[k]]
             new == [nx EXCEPT ![ino] = hd]
  <1>3. /\ g \in [1..n+1 -> Inos] /\ g[n+1] = ino
        /\ \A k \in 1..n : g[k] = f[k] /\ f[k] # ino /\ f[k] \in Inos
    BY <1>1, <1>2 DEF Entries
  <1>4. new[ino] = hd /\ \A m \in Inos : m # ino => new[m] = nx[m]
    BY <1>1
  <1> HIDE DEF g, new
  <1>5. Entries(n+1, g) = E \cup {ino}
    <2>1. ASSUME NEW m \in Entries(n+1, g) PROVE m \in E \cup {ino}
      <3>1. PICK k \in 1..n+1 : m = g[k]
        BY DEF Entries
      <3>2. k = n+1 \/ k \in 1..n
        BY <1>1
      <3> QED BY <1>1, <1>2, <1>3, <3>1, <3>2 DEF Entries
    <2>2. ASSUME NEW m \in E PROVE m \in Entries(n+1, g)
      <3>1. PICK k \in 1..n : m = f[k]
        BY <1>2 DEF Entries
      <3> QED BY <1>1, <1>3, <3>1 DEF Entries
    <2>3. ino \in Entries(n+1, g)
      BY <1>1, <1>3 DEF Entries
    <2> QED BY <2>1, <2>2, <2>3
  <1>6. Spells(new, ino, n+1, g)
    <2>1. ASSUME NEW j \in 1..n+1, NEW k \in 1..n+1, g[j] = g[k] PROVE j = k
      <3>1. (j = n+1 \/ j \in 1..n) /\ (k = n+1 \/ k \in 1..n)
        BY <1>1
      <3> QED BY <1>2, <1>3, <2>1, <3>1 DEF Spells
    <2>2. ASSUME NEW k \in 1..n+1 PROVE new[g[k]] = IF k = 1 THEN Null ELSE g[k-1]
      <3>1. CASE k = n+1
        <4>1. hd = IF k = 1 THEN Null ELSE f[k-1]
          BY <1>1, <1>2, <3>1 DEF Spells
        <4>2. k = 1 \/ k-1 \in 1..n
          BY <1>1
        <4> QED BY <1>3, <1>4, <3>1, <4>1, <4>2
      <3>2. CASE k # n+1
        <4>1. k \in 1..n /\ (k = 1 \/ k-1 \in 1..n)
          BY <1>1, <3>2
        <4>2. new[g[k]] = nx[f[k]]
          BY <1>3, <1>4, <4>1
        <4> QED BY <1>2, <1>3, <4>1, <4>2 DEF Spells
      <3> QED BY <3>1, <3>2
    <2> QED BY <1>1, <1>3, <2>1, <2>2 DEF Spells
  <1>7. \A m \in Inos \ (E \cup {ino}) : new[m] = Null
    BY <1>4 DEF HasList
  <1> QED BY <1>1, <1>3, <1>5, <1>6, <1>7 DEF HasList, new

(* OnFreeList collects the entries of the list: k hops lead from the head  *)
(* to the entry k places below it, and from the last entry to Null.        *)
LEMMA FreeListIs ==
    ASSUME NEW E, HasList(next, freelist, numfree, E),
           next \in [Inos -> Inos \cup {Null}]
    PROVE  OnFreeList = E
  <1> USE ConstantsAssumption
  <1> DEFINE Hop(h) == h = [k \in 0..N |->
                               IF k = 0 THEN freelist
                               ELSE IF h[k-1] = Null THEN Null ELSE next[h[k-1]]]
             hop == CHOOSE h : Hop(h)
  <1>1. numfree \in 0..N /\ E \subseteq Inos
    BY ListLength
  <1>2. PICK f \in [1..numfree -> Inos] :
             Spells(next, freelist, numfree, f) /\ Entries(numfree, f) = E
    BY DEF HasList
  <1> DEFINE g == [k \in 0..N |-> IF k < numfree THEN f[numfree - k] ELSE Null]
  <1>3. OnFreeList = {hop[k] : k \in 0..N} \ {Null}
    BY Zenon DEF OnFreeList
  <1>4. ASSUME NEW k \in 0..N
        PROVE g[k] = IF k = 0 THEN freelist
                     ELSE IF g[k-1] = Null THEN Null ELSE next[g[k-1]]
    <2>1. CASE k = 0
      BY <1>1, <1>2, <2>1 DEF Spells
    <2>2. CASE k # 0 /\ k-1 < numfree
      <3>1. k-1 \in 0..N /\ numfree - (k-1) \in 1..numfree /\ (numfree - (k-1)) - 1 = numfree - k
        BY <1>1, <2>2
      <3>2. g[k-1] = f[numfree - (k-1)] /\ g[k-1] \in Inos /\ g[k-1] # Null
        BY <1>2, <2>2, <3>1 DEF Inos
      <3>3. next[g[k-1]] = IF numfree - (k-1) = 1 THEN Null ELSE f[numfree - k]
        BY <1>2, <3>1, <3>2 DEF Spells
      <3>4. g[k] = IF numfree - (k-1) = 1 THEN Null ELSE f[numfree - k]
        BY <1>1, <2>2
      <3> HIDE DEF g
      <3> QED BY <2>2, <3>2, <3>3, <3>4
    <2>3. CASE k # 0 /\ ~(k-1 < numfree)
      <3>1. k-1 \in 0..N /\ ~(k < numfree)
        BY <1>1, <2>3
      <3> QED BY <2>3, <3>1
    <2> QED BY <2>1, <2>2, <2>3
  <1>5. Hop(hop)
    <2>1. Hop(g)
      BY <1>4
    <2> HIDE DEF Hop, g
    <2> QED BY <2>1
  <1> HIDE DEF hop
  <1>6. hop[0] = freelist /\ g[0] = freelist
    <2>1. hop[0] = freelist
      BY <1>5
    <2>2. 0 \in 0..N
      OBVIOUS
    <2> HIDE DEF g
    <2> QED BY <1>4, <2>1, <2>2
  <1> DEFINE G == {k \in Nat : k \in 0..N => hop[k] = g[k]}
  <1>7. 0 \in G
    BY <1>6
  <1>8. ASSUME NEW k \in Nat, k \in G PROVE k + 1 \in G
    <2> SUFFICES ASSUME k + 1 \in 0..N PROVE hop[k+1] = g[k+1]
      OBVIOUS
    <2>1. k \in 0..N /\ k + 1 # 0 /\ (k + 1) - 1 = k
      OBVIOUS
    <2>2. hop[k+1] = IF hop[k] = Null THEN Null ELSE next[hop[k]]
      BY ONLY <1>5, <2>1, k + 1 \in 0..N
    <2>3. g[k+1] = IF g[k] = Null THEN Null ELSE next[g[k]]
      <3> HIDE DEF g
      <3> QED BY <1>4, <2>1
    <2>4. hop[k] = g[k]
      <3> HIDE DEF g
      <3> QED BY <1>8, <2>1
    <2> HIDE DEF g
    <2> QED BY <2>2, <2>3, <2>4
  <1>9. \A k \in 0..N : hop[k] = g[k]
    <2> HIDE DEF G
    <2>1. Nat \subseteq G
      BY <1>7, <1>8, SetInduction
    <2>2. \A k \in 0..N : k \in Nat
      OBVIOUS
    <2> HIDE DEF g
    <2> QED BY <2>1, <2>2 DEF G
  <1>10. ASSUME NEW m \in OnFreeList PROVE m \in E
    <2>1. PICK k \in 0..N : m = g[k] /\ m # Null
      BY <1>3, <1>9
    <2>2. numfree - k \in 1..numfree /\ m = f[numfree - k]
      BY <1>1, <2>1
    <2> QED BY <1>2, <2>2 DEF Entries
  <1>11. ASSUME NEW m \in E PROVE m \in OnFreeList
    <2>1. PICK j \in 1..numfree : m = f[j]
      BY <1>2 DEF Entries
    <2>2. numfree - j \in 0..N /\ numfree - j < numfree /\ numfree - (numfree - j) = j
      BY <1>1
    <2>3. g[numfree - j] = m /\ m # Null
      BY <1>1, <2>1, <2>2 DEF Inos
    <2> HIDE DEF g
    <2> QED BY <1>3, <1>9, <2>2, <2>3
  <1> QED BY <1>10, <1>11
-----------------------------------------------------------------------------
Idle == pc \in {"start", "down"}

(* Inodes that are taken: the one set aside, and one for each item. *)
InUse == IF Idle THEN {} ELSE {INVALID_INO} \cup {obj[o].ino : o \in live}

(* The free list holds the inodes that are not taken. *)
FreeList == HasList(next, freelist, numfree, Inos \ InUse)

(* The table names the item; only the root directory has the root inode.   *)
Entry(o) ==
    /\ file[obj[o].ino] = o /\ obj[o].ino # INVALID_INO
    /\ obj[o].ino = ROOT_INO => obj[o].type = "DIRECTORY"

(* What a directory lists are items that name it as theirs. *)
Contents(o) ==
    /\ obj[o].ino_files = obj[o].nm_files
    /\ obj[o].type # "DIRECTORY" => obj[o].ino_files = {}
    /\ \A x \in obj[o].ino_files :
          x \in live /\ obj[x].dir = obj[o].ino /\ obj[x].ino # ROOT_INO
    /\ \A x, y \in obj[o].ino_files : obj[x].name = obj[y].name => x = y

(* An item is listed, unless a name was used twice. *)
InDir(o) ==
    "dup" \notin hist /\ obj[o].ino # ROOT_INO =>
        file[obj[o].dir] \in live /\ o \in obj[file[obj[o].dir]].ino_files

Items == \A o \in live : Entry(o) /\ Contents(o) /\ InDir(o)

(* The kernel was told of nothing yet. *)
Unmounted == pc \in {"start", "build"} \/ (pc = "remove" /\ back = "build")

(* Before fsCreate and after fsCleanup there is no item; in between the    *)
(* root's entry names one.                                                 *)
Stages ==
    /\ Idle => live = {}
    /\ ~Idle => file[ROOT_INO] # Null
    /\ pc = "start" => /\ file = [n \in Inos |-> Null]
                       /\ next = [n \in Inos |-> IF n = N-1 THEN Null ELSE n+1]
                       /\ i = 0 /\ removed = 0
    /\ pc # "down" => removed <= i
    /\ pc = "remove" => cur \in Objs
    /\ Unmounted => known = {} /\ opened = {}

Sound == TypeOK /\ FreeList /\ Items /\ Stages
Shape == FreeList /\ Items

(* Steps that leave the table and the heap alone. *)
LEMMA QuietStep ==
    ASSUME Sound, UNCHANGED <<table, heap>>, hist \subseteq hist', Idle' <=> Idle
    PROVE  Shape'
  <1>1. /\ file' = file /\ next' = next /\ freelist' = freelist
        /\ numfree' = numfree /\ live' = live /\ obj' = obj
    BY DEF table, heap
  <1>2. InUse' = InUse
    BY <1>1 DEF InUse
  <1>3. FreeList'
    BY <1>1, <1>2 DEF Sound, FreeList
  <1>4. Items'
    <2> SUFFICES ASSUME NEW o \in live PROVE (Entry(o) /\ Contents(o) /\ InDir(o))'
      BY <1>1 DEF Items
    <2>1. Entry(o) /\ Contents(o) /\ InDir(o)
      BY DEF Sound, Items
    <2>2. Entry(o)'
      BY <1>1, <2>1 DEF Entry
    <2>3. Contents(o)'
      BY <1>1, <2>1 DEF Contents
    <2>4. InDir(o)'
      BY <1>1, <2>1 DEF InDir
    <2> QED BY <2>2, <2>3, <2>4
  <1> QED BY <1>3, <1>4 DEF Shape

(* A failed assertion leaves the table and the heap alone. *)
LEMMA FailStep ==
    ASSUME Sound, NEW l, Fail(l)
    PROVE  Shape'
  <1>1. UNCHANGED <<table, heap>> /\ hist' = hist /\ pc' = pc
    BY DEF Fail
  <1> QED BY <1>1, QuietStep DEF Idle

(* No item that directory d lists has the name of o. *)
IsNewIn(h, d, o) == \A x \in h[d].nm_files : h[x].name # h[o].name

(* Heap g is h with o listed in d, if its name is new there. *)
AddedTo(h, g, d, o) ==
    /\ g \in [Objs -> File]
    /\ \A x \in Objs : /\ x # d => g[x] = h[x]
                       /\ g[x].name = h[x].name /\ g[x].ino = h[x].ino
                       /\ g[x].dir = h[x].dir /\ g[x].type = h[x].type
    /\ ~IsNewIn(h, d, o) => g = h
    /\ IsNewIn(h, d, o) => /\ g[d].ino_files = h[d].ino_files \cup {o}
                           /\ g[d].nm_files = h[d].nm_files \cup {o}

(* What dir_add does to a heap in which the item's inode is new. *)
LEMMA DirAdd ==
    ASSUME NEW h \in [Objs -> File], NEW d \in Objs, NEW o \in Objs,
           \A x \in h[d].ino_files : h[x].ino # h[o].ino,
           NEW g, g = dir_add(h, d, o)
    PROVE  AddedTo(h, g, d, o)
  <1>1. CASE ~IsNewIn(h, d, o)
    <2>1. g = h
      BY <1>1 DEF dir_add, IsNewIn
    <2> QED BY <1>1, <2>1 DEF AddedTo
  <1>2. CASE IsNewIn(h, d, o)
    <2> DEFINE r == [name |-> h[d].name, ino |-> h[d].ino, dir |-> h[d].dir,
                     type |-> h[d].type, ino_files |-> h[d].ino_files \cup {o},
                     nm_files |-> h[d].nm_files \cup {o}]
    <2>1. g = [h EXCEPT ![d].ino_files = @ \cup {o}, ![d].nm_files = @ \cup {o}]
      BY <1>2 DEF dir_add, IsNewIn
    <2>2. h[d] \in File
      OBVIOUS
    <2>3. /\ r \in File /\ r.ino_files = h[d].ino_files \cup {o}
          /\ r.nm_files = h[d].nm_files \cup {o}
          /\ r.name = h[d].name /\ r.ino = h[d].ino /\ r.dir = h[d].dir /\ r.type = h[d].type
      BY <2>2 DEF File
    <2>4. g = [h EXCEPT ![d] = r]
      BY <2>1, <2>2 DEF File
    <2> HIDE DEF r
    <2>5. g \in [Objs -> File] /\ g[d] = r /\ \A x \in Objs : x # d => g[x] = h[x]
      BY <2>3, <2>4
    <2> QED BY <1>2, <2>3, <2>5 DEF AddedTo
  <1> QED BY <1>1, <1>2

(* An inode that is free is nobody's. *)
LEMMA HeadIsFree ==
    ASSUME Sound, ~Idle, freelist # Null
    PROVE  /\ freelist \in Inos /\ freelist # INVALID_INO /\ numfree \in 1..N
           /\ \A x \in live : obj[x].ino # freelist
  <1>1. freelist \in Inos \ InUse /\ numfree \in 1..N
    BY ListLength DEF Sound, FreeList
  <1> QED BY <1>1 DEF InUse

(* What the heap is after a file was created: the others keep all but the  *)
(* list of the directory, which has the new one if the name was new.       *)
LEMMA Created ==
    ASSUME Sound, NEW d \in live, NEW n \in Names, NEW t \in Types, NEW o \in Objs,
           Create(d, n, t, o), file[freelist] = Null
    PROVE  /\ d # o /\ o \notin live /\ live' = live \cup {o} /\ obj' \in [Objs -> File]
           /\ obj'[o] = NewFile(n, freelist, obj[d].ino, t)
           /\ \A x \in live : /\ x # d => obj'[x] = obj[x]
                              /\ obj'[x].name = obj[x].name /\ obj'[x].ino = obj[x].ino
                              /\ obj'[x].dir = obj[x].dir /\ obj'[x].type = obj[x].type
           /\ \/ obj'[d] = obj[d] /\ "dup" \in hist'
              \/ /\ obj'[d].ino_files = obj[d].ino_files \cup {o}
                 /\ obj'[d].nm_files = obj[d].nm_files \cup {o}
                 /\ \A x \in obj[d].nm_files : obj[x].name # n
           /\ file' = [file EXCEPT ![freelist] = o] /\ hist \subseteq hist'
  <1> DEFINE h == [obj EXCEPT ![o] = NewFile(n, freelist, obj[d].ino, t)]
  <1>1. /\ pc \in {"build", "serve"} /\ freelist # Null /\ o \notin live
        /\ live' = live \cup {o} /\ obj' = dir_add(h, d, o)
        /\ file' = [file EXCEPT ![freelist] = o]
        /\ hist' = IF \E x \in obj[d].nm_files : obj[x].name = n
                   THEN hist \cup {"dup"} ELSE hist
    BY DEF Create
  <1>2. d \in Objs /\ d # o /\ live \subseteq Objs /\ obj \in [Objs -> File]
    BY <1>1 DEF Sound, TypeOK
  <1>3. freelist \in Inos /\ \A x \in live : obj[x].ino # freelist
    BY <1>1, HeadIsFree DEF Idle
  <1>4. obj[d] \in File /\ obj[d].ino \in Inos
    BY <1>2 DEF File
  <1>5. NewFile(n, freelist, obj[d].ino, t) \in File
    BY <1>3, <1>4 DEF NewFile, File
  <1>6. NewFile(n, freelist, obj[d].ino, t).ino = freelist /\ NewFile(n, freelist, obj[d].ino, t).name = n
    BY DEF NewFile
  <1> HIDE DEF NewFile
  <1>7. /\ h \in [Objs -> File] /\ h[o] = NewFile(n, freelist, obj[d].ino, t)
        /\ \A x \in Objs : x # o => h[x] = obj[x]
    BY <1>2, <1>5
  <1> HIDE DEF h
  <1>8. /\ obj[d].ino_files = obj[d].nm_files
        /\ \A x \in obj[d].ino_files : x \in live /\ x # o /\ x \in Objs
    BY <1>1, <1>2 DEF Sound, Items, Contents
  <1>9. \A x \in h[d].ino_files : h[x].ino # h[o].ino
    BY <1>2, <1>3, <1>6, <1>7, <1>8
  <1>10. IsNewIn(h, d, o) <=> \A x \in obj[d].nm_files : obj[x].name # n
    BY <1>2, <1>6, <1>7, <1>8 DEF IsNewIn
  <1>11. /\ obj' \in [Objs -> File]
         /\ \A x \in Objs : /\ x # d => obj'[x] = h[x]
                            /\ obj'[x].name = h[x].name /\ obj'[x].ino = h[x].ino
                            /\ obj'[x].dir = h[x].dir /\ obj'[x].type = h[x].type
         /\ ~IsNewIn(h, d, o) => obj' = h
         /\ IsNewIn(h, d, o) => /\ obj'[d].ino_files = h[d].ino_files \cup {o}
                                /\ obj'[d].nm_files = h[d].nm_files \cup {o}
    <2>1. AddedTo(h, obj', d, o)
      BY <1>1, <1>2, <1>7, <1>9, DirAdd
    <2> QED BY <2>1 DEF AddedTo
  <1>12. hist \subseteq hist' /\ (~IsNewIn(h, d, o) => "dup" \in hist')
    BY <1>1, <1>10
  <1>13. \A x \in live : x \in Objs /\ x # o
    BY <1>1, <1>2
  <1>14. \/ obj'[d] = obj[d] /\ "dup" \in hist'
         \/ /\ obj'[d].ino_files = obj[d].ino_files \cup {o}
            /\ obj'[d].nm_files = obj[d].nm_files \cup {o}
            /\ \A x \in obj[d].nm_files : obj[x].name # n
    BY <1>2, <1>7, <1>10, <1>11, <1>12
  <1>15. \A x \in live : /\ x # d => obj'[x] = obj[x]
                         /\ obj'[x].name = obj[x].name /\ obj'[x].ino = obj[x].ino
                         /\ obj'[x].dir = obj[x].dir /\ obj'[x].type = obj[x].type
    BY <1>7, <1>11, <1>13
  <1>16. obj'[o] = NewFile(n, freelist, obj[d].ino, t)
    BY <1>2, <1>7, <1>11
  <1> QED BY <1>1, <1>2, <1>11, <1>12, <1>14, <1>15, <1>16

(* A file or directory is created. *)
LEMMA CreateShape ==
    ASSUME Sound, NEW d \in live, NEW n \in Names, NEW t \in Types, NEW o \in Objs,
           Create(d, n, t, o)
    PROVE  Shape'
  <1>1. CASE file[freelist] # Null
    BY <1>1, FailStep DEF Create
  <1>2. CASE file[freelist] = Null
    <2> DEFINE ino == freelist
    <2>1. /\ freelist # Null /\ ~Idle /\ ~Idle' /\ freelist' = next[freelist]
          /\ next' = [next EXCEPT ![freelist] = Null] /\ numfree' = numfree - 1
      BY <1>2 DEF Create, inoalloc, Idle
    <2>2. /\ ino \in Inos /\ ino # INVALID_INO /\ \A x \in live : obj[x].ino # ino
      BY <2>1, HeadIsFree
    <2>3. /\ d # o /\ o \notin live /\ live' = live \cup {o} /\ obj' \in [Objs -> File]
          /\ obj'[o] = NewFile(n, ino, obj[d].ino, t)
          /\ \A x \in live : /\ x # d => obj'[x] = obj[x]
                             /\ obj'[x].name = obj[x].name /\ obj'[x].ino = obj[x].ino
                             /\ obj'[x].dir = obj[x].dir /\ obj'[x].type = obj[x].type
          /\ \/ obj'[d] = obj[d] /\ "dup" \in hist'
             \/ /\ obj'[d].ino_files = obj[d].ino_files \cup {o}
                /\ obj'[d].nm_files = obj[d].nm_files \cup {o}
                /\ \A x \in obj[d].nm_files : obj[x].name # n
          /\ file' = [file EXCEPT ![ino] = o] /\ hist \subseteq hist'
      BY <1>2, Created
    <2>4. /\ obj'[o].name = n /\ obj'[o].ino = ino /\ obj'[o].dir = obj[d].ino
          /\ obj'[o].type = t /\ obj'[o].ino_files = {} /\ obj'[o].nm_files = {}
      BY <2>3 DEF NewFile
    <2>5. file'[ino] = o /\ \A m \in Inos : m # ino => file'[m] = file[m]
      BY <2>2, <2>3 DEF Sound, TypeOK
    <2>6. FreeList'
      <3>1. InUse' = InUse \cup {ino}
        BY <2>1, <2>3, <2>4 DEF InUse
      <3>2. HasList(next', freelist', numfree', (Inos \ InUse) \ {freelist})
        BY <2>1, ListPop DEF Sound, TypeOK, FreeList
      <3>3. Inos \ (InUse \cup {ino}) = (Inos \ InUse) \ {freelist}
        OBVIOUS
      <3> QED BY <3>1, <3>2, <3>3 DEF FreeList
    <2>7. /\ ino # ROOT_INO /\ obj[d].ino \in Inos /\ obj[d].ino # ino
          /\ file[obj[d].ino] = d /\ obj[d].type = "DIRECTORY"
      <3>1. d \in Objs /\ obj[d] \in File
        BY DEF Sound, TypeOK
      <3> QED BY <1>2, <2>1, <2>2, <3>1 DEF Sound, Stages, Items, Entry, File, Create
    <2>8. (Entry(o) /\ Contents(o) /\ InDir(o))'
      <3>1. Entry(o)'
        BY <2>2, <2>4, <2>5, <2>7 DEF Entry
      <3>2. Contents(o)'
        BY <2>4 DEF Contents
      <3>3. InDir(o)'
        <4>1. file'[obj'[o].dir] = d /\ d \in live'
          BY <2>3, <2>4, <2>5, <2>7
        <4>2. "dup" \notin hist' => o \in obj'[d].ino_files
          BY <2>3
        <4> QED BY <4>1, <4>2 DEF InDir
      <3> QED BY <3>1, <3>2, <3>3
    <2>9. ASSUME NEW x \in live PROVE (Entry(x) /\ Contents(x) /\ InDir(x))'
      <3>1. /\ Entry(x) /\ Contents(x) /\ InDir(x) /\ x \in Objs /\ x # o
            /\ obj[x].ino \in Inos /\ obj[x].dir \in Inos
        <4>1. x \in Objs /\ obj[x] \in File
          BY DEF Sound, TypeOK
        <4> QED BY <2>3, <4>1 DEF Sound, Items, File
      <3>2. Entry(x)'
        BY <2>2, <2>3, <2>5, <3>1 DEF Entry
      <3>3. Contents(x)'
        <4>1. CASE obj'[x].ino_files = obj[x].ino_files /\ obj'[x].nm_files = obj[x].nm_files
          BY <2>3, <3>1, <4>1 DEF Contents
        <4>2. CASE /\ x = d /\ obj'[d].ino_files = obj[d].ino_files \cup {o}
                   /\ obj'[d].nm_files = obj[d].nm_files \cup {o}
                   /\ \A y \in obj[d].nm_files : obj[y].name # n
          <5>1. obj'[x].ino_files = obj'[x].nm_files /\ obj'[x].type = "DIRECTORY"
            BY <2>3, <2>7, <3>1, <4>2 DEF Contents
          <5>2. ASSUME NEW y \in obj'[x].ino_files
                PROVE  y \in live' /\ obj'[y].dir = obj'[x].ino /\ obj'[y].ino # ROOT_INO
            BY <2>3, <2>4, <2>7, <3>1, <4>2 DEF Contents
          <5>3. ASSUME NEW y \in obj'[x].ino_files, NEW z \in obj'[x].ino_files,
                       obj'[y].name = obj'[z].name
                PROVE  y = z
            BY <2>3, <2>4, <3>1, <4>2, <5>3 DEF Contents
          <5> QED BY <5>1, <5>2, <5>3 DEF Contents
        <4> QED BY <2>3, <4>1, <4>2
      <3>4. InDir(x)'
        <4> SUFFICES ASSUME "dup" \notin hist', obj'[x].ino # ROOT_INO
                     PROVE  file'[obj'[x].dir] \in live' /\ x \in obj'[file'[obj'[x].dir]].ino_files
          BY DEF InDir
        <4> DEFINE e == file[obj[x].dir]
        <4>1. e \in live /\ x \in obj[e].ino_files
          BY <2>3, <3>1 DEF InDir
        <4>2. obj[x].dir = obj[e].ino
          BY <4>1 DEF Sound, Items, Contents
        <4>3. obj[x].dir # ino
          BY <2>2, <4>1, <4>2
        <4>4. file'[obj'[x].dir] = e
          BY <2>3, <2>5, <3>1, <4>3
        <4>5. x \in obj'[e].ino_files
          BY <2>3, <4>1
        <4> HIDE DEF e
        <4> QED BY <2>3, <4>1, <4>4, <4>5
      <3> QED BY <3>2, <3>3, <3>4
    <2>10. Items'
      BY <2>3, <2>8, <2>9 DEF Items
    <2> QED BY <2>6, <2>10 DEF Shape
  <1> QED BY <1>1, <1>2

(* init_inotable makes a list of the whole table; fsCreate takes the first *)
(* two entries off it.                                                     *)
LEMMA OrderedList ==
    ASSUME NEW a \in 0..N, NEW nx,
           \A m \in Inos : nx[m] = IF m < a \/ m = N-1 THEN Null ELSE m+1
    PROVE  HasList(nx, IF a = N THEN Null ELSE a, N - a, a..N-1)
  <1> USE ConstantsAssumption DEF Inos
  <1> DEFINE n == N - a
             f == [k \in 1..n |-> N - k]
  <1>1. n \in Nat /\ n <= N
    OBVIOUS
  <1>2. f \in [1..n -> Inos] /\ \A k \in 1..n : f[k] = N - k
    OBVIOUS
  <1>3. Entries(n, f) = a..N-1
    <2>1. ASSUME NEW m \in Entries(n, f) PROVE m \in a..N-1
      BY DEF Entries
    <2>2. ASSUME NEW m \in a..N-1 PROVE m \in Entries(n, f)
      <3>1. N - m \in 1..n /\ N - (N - m) = m
        OBVIOUS
      <3>2. f[N - m] = m
        BY <3>1
      <3> HIDE DEF f, n
      <3> QED BY <3>1, <3>2 DEF Entries
    <2> QED BY <2>1, <2>2
  <1>4. Spells(nx, IF a = N THEN Null ELSE a, n, f)
    <2>1. \A j, k \in 1..n : f[j] = f[k] => j = k
      OBVIOUS
    <2>2. (IF a = N THEN Null ELSE a) = IF n = 0 THEN Null ELSE f[n]
      OBVIOUS
    <2>3. ASSUME NEW k \in 1..n PROVE nx[f[k]] = IF k = 1 THEN Null ELSE f[k-1]
      <3>1. N - k \in Inos /\ ~(N - k < a) /\ (N - k = N-1 <=> k = 1) /\ (N - k) + 1 = N - (k-1)
        OBVIOUS
      <3>2. k # 1 => k-1 \in 1..n /\ f[k-1] = N - (k-1)
        OBVIOUS
      <3>3. nx[N - k] = IF k = 1 THEN Null ELSE N - (k-1)
        BY <3>1
      <3> QED BY <1>2, <3>2, <3>3
    <2> QED BY <2>1, <2>2, <2>3 DEF Spells
  <1>5. \A m \in Inos \ (a..N-1) : nx[m] = Null
    OBVIOUS
  <1> QED BY <1>1, <1>2, <1>3, <1>4, <1>5 DEF HasList

(* The mount point cannot be made: nothing was set up. *)
LEMMA MkdirShape ==
    ASSUME Sound, MkdirFails
    PROVE  Shape'
  <1>1. UNCHANGED <<table, heap>> /\ hist' = hist /\ Idle /\ Idle'
    BY DEF MkdirFails, Running, Idle
  <1> QED BY <1>1, QuietStep

(* The root directory is made. *)
LEMMA RootShape ==
    ASSUME Sound, NEW o \in Objs, fsCreate(o)
    PROVE  Shape'
  <1> USE ConstantsAssumption
  <1>1. /\ pc = "start" /\ ~Idle' /\ live' = {o} /\ freelist' = 2 /\ numfree' = N - 2
        /\ file' = [file EXCEPT ![ROOT_INO] = o]
        /\ next' = [next EXCEPT ![INVALID_INO] = Null, ![ROOT_INO] = Null]
        /\ obj' = [obj EXCEPT ![o] = NewFile(RootName, ROOT_INO, INVALID_INO, "DIRECTORY")]
    BY DEF fsCreate, Running, Idle, ROOT_INO
  <1>2. /\ obj'[o].name = RootName /\ obj'[o].ino = ROOT_INO /\ obj'[o].dir = INVALID_INO
        /\ obj'[o].type = "DIRECTORY" /\ obj'[o].ino_files = {} /\ obj'[o].nm_files = {}
    <2>1. obj'[o] = NewFile(RootName, ROOT_INO, INVALID_INO, "DIRECTORY")
      BY <1>1 DEF Sound, TypeOK
    <2> QED BY <2>1 DEF NewFile
  <1>3. 0 \in Inos /\ 1 \in Inos /\ file'[ROOT_INO] = o
    BY <1>1 DEF Sound, TypeOK, ROOT_INO, Inos
  <1>4. InUse' = {0, 1}
    BY <1>1, <1>2 DEF InUse, INVALID_INO, ROOT_INO
  <1>5. \A m \in Inos : next'[m] = IF m < 2 \/ m = N-1 THEN Null ELSE m+1
    <2>1. next = [m \in Inos |-> IF m = N-1 THEN Null ELSE m+1]
      BY <1>1 DEF Sound, Stages
    <2>2. ASSUME NEW m \in Inos PROVE next'[m] = IF m < 2 \/ m = N-1 THEN Null ELSE m+1
      <3>1. m < 2 <=> m = 0 \/ m = 1
        BY DEF Inos
      <3> QED BY <1>1, <1>3, <2>1, <3>1 DEF INVALID_INO, ROOT_INO
    <2> QED BY <2>2
  <1>6. Inos \ InUse' = 2..N-1
    BY <1>4 DEF Inos
  <1>7. HasList(next', 2, N - 2, 2..N-1)
    <2>1. 2 \in 0..N
      OBVIOUS
    <2>2. HasList(next', IF 2 = N THEN Null ELSE 2, N - 2, 2..N-1)
      BY <1>5, <2>1, OrderedList
    <2>3. (IF 2 = N THEN Null ELSE 2) = 2
      OBVIOUS
    <2> QED BY <2>2, <2>3
  <1>8. FreeList'
    BY <1>1, <1>6, <1>7 DEF FreeList
  <1>9. (Entry(o) /\ Contents(o) /\ InDir(o))'
    <2>1. Entry(o)'
      BY <1>2, <1>3 DEF Entry, INVALID_INO, ROOT_INO
    <2>2. Contents(o)'
      BY <1>2 DEF Contents
    <2>3. InDir(o)'
      BY <1>2 DEF InDir
    <2> QED BY <2>1, <2>2, <2>3
  <1> QED BY <1>1, <1>8, <1>9 DEF Shape, Items

(* The inode set aside is given back once no item is left. *)
LEMMA CleanupShape ==
    ASSUME Sound, CleanupEnd
    PROVE  Shape' /\ (Idle' => live' = {})
  <1> USE ConstantsAssumption
  <1>1. pc = "scan" /\ ~Idle
    BY DEF CleanupEnd, Running, Idle
  <1>2. CASE \E l : Fail(l)
    <2>1. PICK l : Fail(l)
      BY <1>2
    <2>2. ~Idle'
      BY <1>1, <2>1 DEF Fail, Idle
    <2> QED BY <2>1, <2>2, FailStep
  <1>3. CASE ~\E l : Fail(l)
    <2>1. /\ numfree + 1 = N /\ next' = [next EXCEPT ![INVALID_INO] = freelist]
          /\ freelist' = INVALID_INO /\ numfree' = numfree + 1 /\ Idle'
          /\ live' = live /\ obj' = obj /\ pc' = "down"
      BY <1>3 DEF CleanupEnd, inofree, Idle, heap
    <2> DEFINE E == Inos \ InUse
    <2>2. HasList(next, freelist, numfree, E) /\ next \in [Inos -> Inos \cup {Null}]
      BY DEF Sound, FreeList, TypeOK
    <2>3. INVALID_INO \in Inos /\ INVALID_INO \in InUse
      BY <1>1 DEF INVALID_INO, Inos, InUse
    <2>4. IsFiniteSet(E) /\ Cardinality(E) = N - 1 /\ E \subseteq Inos
      BY <2>1, <2>2, ListLength
    <2>5. E \cup {INVALID_INO} = Inos
      <3>1. IsFiniteSet(Inos) /\ Cardinality(Inos) = N
        BY FS_Interval DEF Inos
      <3>2. INVALID_INO \notin E
        BY <2>3
      <3> HIDE DEF E
      <3>3. /\ IsFiniteSet(E \cup {INVALID_INO}) /\ E \cup {INVALID_INO} \subseteq Inos
            /\ Cardinality(E \cup {INVALID_INO}) = N
        BY <2>3, <2>4, <3>2, FS_AddElement
      <3> QED BY <3>1, <3>3, FS_Subset
    <2>6. live = {}
      <3> SUFFICES ASSUME NEW o \in live PROVE FALSE
        OBVIOUS
      <3>1. obj[o].ino \in Inos
        <4>1. obj[o] \in File
          BY DEF Sound, TypeOK
        <4> QED BY <4>1 DEF File
      <3>2. obj[o].ino \in InUse /\ obj[o].ino # INVALID_INO
        BY <1>1 DEF InUse, Sound, Items, Entry
      <3> QED BY <2>5, <3>1, <3>2
    <2>7. FreeList'
      <3>1. HasList(next', freelist', numfree', E \cup {INVALID_INO})
        <4>1. INVALID_INO \in Inos \ E
          BY <2>3
        <4> HIDE DEF E
        <4> QED BY <2>1, <2>2, <4>1, ListPush
      <3>2. InUse' = {}
        BY <2>1 DEF InUse
      <3> QED BY <2>5, <3>1, <3>2 DEF FreeList
    <2>8. Items'
      BY <2>1, <2>6 DEF Items
    <2> QED BY <2>1, <2>6, <2>7, <2>8 DEF Shape
  <1> QED BY <1>2, <1>3

(* What a removal that goes through has found out: the item lists nothing, *)
(* and is either the root or listed in the living directory d.             *)
Removable(d) ==
    /\ cur \in live /\ obj[cur].ino_files = {}
    /\ \/ d = Null /\ obj[cur].ino = ROOT_INO
       \/ /\ d \in live /\ d # cur /\ d = file[obj[cur].dir]
          /\ cur \in obj[d].ino_files /\ obj[cur].dir = obj[d].ino

(* One level of fsRemoveitem fails, returns or unlinks the item. *)
LEMMA RemoveCases ==
    ASSUME Sound, RemoveOne
    PROVE  \/ \E l : Fail(l)
           \/ Return
           \/ \E d : Removable(d) /\ Unlink(d)
  <1> USE ConstantsAssumption
  <1> DEFINE d == file[obj[cur].dir]
             root == obj[cur].type = "DIRECTORY" /\ obj[cur].ino = ROOT_INO
  <1> SUFFICES ASSUME ~(\E l : Fail(l)), ~Return PROVE \E e : Removable(e) /\ Unlink(e)
    OBVIOUS
  <1>1. /\ cur \in live /\ ~(obj[cur].type = "DIRECTORY" /\ obj[cur].ino_files # {})
        /\ IF root THEN Unlink(Null)
           ELSE /\ d # Null /\ d \in live
                /\ cur \in obj[d].ino_files \cap obj[d].nm_files
                /\ Unlink(d)
    BY DEF RemoveOne
  <1>2. obj[cur].ino_files = {}
    BY <1>1 DEF Sound, Items, Contents
  <1>3. CASE root
    <2>1. Removable(Null)
      BY <1>1, <1>2, <1>3 DEF Removable
    <2> QED BY <1>1, <1>3, <2>1
  <1>4. CASE ~root
    <2>1. obj[cur].dir = obj[d].ino
      BY <1>1, <1>4 DEF Sound, Items, Contents
    <2>2. Removable(d)
      BY <1>1, <1>2, <1>4, <2>1 DEF Removable
    <2> QED BY <1>1, <1>4, <2>2
  <1> QED BY <1>3, <1>4

(* What the heap is after an item was removed: the others keep all but the *)
(* list of the directory, which loses the item.                            *)
LEMMA Unlinked ==
    ASSUME Sound, NEW d, Removable(d), Unlink(d)
    PROVE  /\ live' = live \ {cur} /\ obj' \in [Objs -> File] /\ file' = file /\ hist' = hist
           /\ \A x \in live : /\ x # d => obj'[x] = obj[x]
                              /\ obj'[x].name = obj[x].name /\ obj'[x].ino = obj[x].ino
                              /\ obj'[x].dir = obj[x].dir /\ obj'[x].type = obj[x].type
                              /\ obj'[x].ino_files = obj[x].ino_files \ {cur}
                              /\ obj'[x].nm_files = obj[x].nm_files \ {cur}
  <1> USE ConstantsAssumption
  <1>1. live' = live \ {cur} /\ file' = file /\ hist' = hist
    BY DEF Unlink, Freed
  <1>2. live \subseteq Objs /\ obj \in [Objs -> File] /\ cur \in live
    BY DEF Sound, TypeOK, Removable
  <1>3. \A x \in live : Entry(x) /\ Contents(x)
    BY DEF Sound, Items
  <1>4. ASSUME NEW x \in live, x # d PROVE cur \notin obj[x].ino_files /\ cur \notin obj[x].nm_files
    <2>1. cur \in obj[x].ino_files => obj[cur].dir = obj[x].ino /\ obj[cur].ino # ROOT_INO
      BY <1>3 DEF Contents
    <2>2. file[obj[x].ino] = x
      BY <1>3 DEF Entry
    <2> QED BY <1>3, <1>4, <2>1, <2>2 DEF Removable, Contents
  <1>5. CASE d = Null
    <2>1. obj' = obj
      BY <1>5 DEF Unlink
    <2>2. d \notin live
      BY <1>2, <1>5
    <2> QED BY <1>1, <1>2, <1>4, <2>1, <2>2
  <1>6. CASE d # Null
    <2> DEFINE r == [obj[d] EXCEPT !.ino_files = @ \ {cur}, !.nm_files = @ \ {cur}]
    <2>1. obj' = [obj EXCEPT ![d].ino_files = @ \ {cur}, ![d].nm_files = @ \ {cur}]
      BY <1>6 DEF Unlink
    <2>2. d \in live /\ d \in Objs
      BY <1>2, <1>6 DEF Removable
    <2>3. obj[d] \in File
      BY <1>2, <2>2
    <2>4. /\ r \in File /\ r.ino_files = obj[d].ino_files \ {cur}
          /\ r.nm_files = obj[d].nm_files \ {cur}
          /\ r.name = obj[d].name /\ r.ino = obj[d].ino /\ r.dir = obj[d].dir /\ r.type = obj[d].type
      <3> DEFINE A == obj[d].ino_files \ {cur}
                 B == obj[d].nm_files \ {cur}
      <3>1. A \in SUBSET Objs /\ B \in SUBSET Objs
        BY <2>3 DEF File
      <3>2. r = [obj[d] EXCEPT !.ino_files = A, !.nm_files = B]
        BY Zenon
      <3> HIDE DEF A, B, r
      <3>3. r \in File
        BY <2>3, <3>1, <3>2 DEF File
      <3>4. /\ r.name = obj[d].name /\ r.ino = obj[d].ino /\ r.dir = obj[d].dir
            /\ r.type = obj[d].type /\ r.ino_files = A /\ r.nm_files = B
        BY <2>3, <3>2 DEF File
      <3> QED BY <3>3, <3>4 DEF A, B
    <2>5. obj' = [obj EXCEPT ![d] = r]
      BY <1>2, <2>1, <2>2
    <2> HIDE DEF r
    <2>6. obj' \in [Objs -> File] /\ obj'[d] = r /\ \A x \in Objs : x # d => obj'[x] = obj[x]
      BY <1>2, <2>2, <2>4, <2>5
    <2>7. ASSUME NEW x \in live
          PROVE  /\ x # d => obj'[x] = obj[x]
                 /\ obj'[x].name = obj[x].name /\ obj'[x].ino = obj[x].ino
                 /\ obj'[x].dir = obj[x].dir /\ obj'[x].type = obj[x].type
                 /\ obj'[x].ino_files = obj[x].ino_files \ {cur}
                 /\ obj'[x].nm_files = obj[x].nm_files \ {cur}
      <3>1. CASE x = d
        BY <2>4, <2>6, <3>1
      <3>2. CASE x # d
        <4>1. obj'[x] = obj[x] /\ cur \notin obj[x].ino_files /\ cur \notin obj[x].nm_files
          BY <1>2, <1>4, <2>6, <3>2
        <4> QED BY <3>2, <4>1
      <3> QED BY <3>1, <3>2
    <2> QED BY <1>1, <2>6, <2>7
  <1> QED BY <1>5, <1>6

(* One level of fsRemoveitem. *)
LEMMA RemoveShape ==
    ASSUME Sound, RemoveOne
    PROVE  Shape'
  <1> USE ConstantsAssumption
  <1>1. pc = "remove" /\ ~Idle /\ back \in {"build", "serve", "scan"}
    BY DEF RemoveOne, Running, Idle, Sound, TypeOK
  <1>2. CASE \E l : Fail(l)
    BY <1>2, FailStep
  <1>3. CASE Return
    <2>1. UNCHANGED <<table, heap>> /\ hist' = hist /\ ~Idle'
      BY <1>1, <1>3 DEF Return, Idle
    <2> QED BY <1>1, <2>1, QuietStep
  <1>4. CASE \E d : Removable(d) /\ Unlink(d)
    <2>1. PICK d : Removable(d) /\ Unlink(d)
      BY <1>4
    <2>2. /\ live' = live \ {cur} /\ obj' \in [Objs -> File] /\ file' = file /\ hist' = hist
          /\ \A x \in live : /\ x # d => obj'[x] = obj[x]
                             /\ obj'[x].name = obj[x].name /\ obj'[x].ino = obj[x].ino
                             /\ obj'[x].dir = obj[x].dir /\ obj'[x].type = obj[x].type
                             /\ obj'[x].ino_files = obj[x].ino_files \ {cur}
                             /\ obj'[x].nm_files = obj[x].nm_files \ {cur}
      BY <2>1, Unlinked
    <2>3. /\ next' = [next EXCEPT ![obj[cur].ino] = freelist]
          /\ freelist' = obj[cur].ino /\ numfree' = numfree + 1
      BY <2>1 DEF Unlink, inofree
    <2>4. ~Idle'
      BY <1>1, <2>1 DEF Unlink, Idle
    <2>5. \A x \in live : Entry(x) /\ Contents(x) /\ InDir(x)
      BY DEF Sound, Items
    <2>6. cur \in live /\ obj[cur].ino \in Inos /\ obj[cur].ino # INVALID_INO
      <3>1. cur \in live
        BY <2>1 DEF Removable
      <3>2. obj[cur] \in File
        BY <3>1 DEF Sound, TypeOK
      <3> QED BY <2>5, <3>1, <3>2 DEF File, Entry
    <2>7. FreeList'
      <3>1. InUse = {INVALID_INO} \cup {obj[o].ino : o \in live}
        BY <1>1 DEF InUse
      <3>2. InUse' = InUse \ {obj[cur].ino}
        <4>1. InUse' = {INVALID_INO} \cup {obj'[o].ino : o \in live \ {cur}}
          BY <2>2, <2>4 DEF InUse
        <4>2. ASSUME NEW m \in InUse' PROVE m \in InUse /\ m # obj[cur].ino
          <5>1. CASE m = INVALID_INO
            BY <2>6, <3>1, <5>1
          <5>2. CASE m # INVALID_INO
            <6>1. PICK o \in live \ {cur} : m = obj[o].ino
              BY <2>2, <4>1, <4>2, <5>2
            <6> QED BY <2>5, <2>6, <3>1, <6>1 DEF Entry
          <5> QED BY <5>1, <5>2
        <4>3. ASSUME NEW m \in InUse, m # obj[cur].ino PROVE m \in InUse'
          BY <2>2, <3>1, <4>1, <4>3
        <4> QED BY <4>2, <4>3
      <3>3. obj[cur].ino \in InUse
        BY <2>6, <3>1
      <3>4. Inos \ InUse' = (Inos \ InUse) \cup {obj[cur].ino}
        BY <2>6, <3>2
      <3>5. HasList(next', freelist', numfree', (Inos \ InUse) \cup {obj[cur].ino})
        <4> DEFINE E == Inos \ InUse
        <4>1. HasList(next, freelist, numfree, E) /\ next \in [Inos -> Inos \cup {Null}]
          BY DEF Sound, TypeOK, FreeList
        <4>2. obj[cur].ino \in Inos \ E
          BY <2>6, <3>3
        <4> HIDE DEF E
        <4>3. HasList([next EXCEPT ![obj[cur].ino] = freelist], obj[cur].ino, numfree + 1,
                      E \cup {obj[cur].ino})
          BY <4>1, <4>2, ListPush
        <4> QED BY <2>3, <4>3 DEF E
      <3> QED BY <3>4, <3>5 DEF FreeList
    <2>8. ASSUME NEW x \in live, x # cur PROVE (Entry(x) /\ Contents(x) /\ InDir(x))'
      <3>1. Entry(x) /\ Contents(x) /\ InDir(x)
        BY <2>5
      <3>2. Entry(x)'
        BY <2>2, <3>1 DEF Entry
      <3>3. Contents(x)'
        <4>1. /\ obj'[x].ino_files = obj'[x].nm_files
              /\ obj'[x].type # "DIRECTORY" => obj'[x].ino_files = {}
          <5>1. /\ obj[x].ino_files = obj[x].nm_files
                /\ obj[x].type # "DIRECTORY" => obj[x].ino_files = {}
            BY <3>1 DEF Contents
          <5>2. /\ obj'[x].type = obj[x].type
                /\ obj'[x].ino_files = obj[x].ino_files \ {cur}
                /\ obj'[x].nm_files = obj[x].nm_files \ {cur}
            BY <2>2
          <5> QED BY ONLY <5>1, <5>2
        <4>2. ASSUME NEW y \in obj'[x].ino_files
              PROVE  /\ y \in obj[x].ino_files /\ y \in live' /\ obj'[y].dir = obj'[x].ino
                     /\ obj'[y].ino # ROOT_INO /\ obj'[y].name = obj[y].name
          <5>1. y \in obj[x].ino_files /\ y # cur
            BY <2>2
          <5>2. y \in live /\ obj[y].dir = obj[x].ino /\ obj[y].ino # ROOT_INO
            BY <3>1, <5>1 DEF Contents
          <5> QED BY <2>2, <5>1, <5>2
        <4>3. \A y, z \in obj'[x].ino_files : obj'[y].name = obj'[z].name => y = z
          BY <3>1, <4>2 DEF Contents
        <4> QED BY <4>1, <4>2, <4>3 DEF Contents
      <3>4. InDir(x)'
        <4> SUFFICES ASSUME "dup" \notin hist', obj'[x].ino # ROOT_INO
                     PROVE  file'[obj'[x].dir] \in live' /\ x \in obj'[file'[obj'[x].dir]].ino_files
          BY DEF InDir
        <4> DEFINE e == file[obj[x].dir]
        <4>1. e \in live /\ x \in obj[e].ino_files
          BY <2>2, <3>1 DEF InDir
        <4>2. e # cur
          BY <2>1, <4>1 DEF Removable
        <4>3. file'[obj'[x].dir] = e
          BY <2>2
        <4>4. x \in obj'[e].ino_files
          BY <2>2, <2>8, <4>1
        <4> HIDE DEF e
        <4> QED BY <2>2, <4>1, <4>2, <4>3, <4>4
      <3> QED BY <3>2, <3>3, <3>4
    <2>9. Items'
      BY <2>2, <2>8 DEF Items
    <2> QED BY <2>7, <2>9 DEF Shape
  <1> QED BY <1>2, <1>3, <1>4, RemoveCases
-----------------------------------------------------------------------------
(* Before anything happens the whole table is on the list. *)
LEMMA SoundInit == Init => Sound
  <1> SUFFICES ASSUME Init PROVE Sound
    OBVIOUS
  <1> USE ConstantsAssumption
  <1>1. TypeOK
    <2>1. [name |-> RootName, ino |-> 0, dir |-> 0, type |-> "REGULAR",
           ino_files |-> {}, nm_files |-> {}] \in File
      BY DEF File, Types, Inos
    <2>2. obj \in [Objs -> File]
      BY <2>1 DEF Init
    <2>3. file \in [Inos -> Objs \cup {Null}] /\ next \in [Inos -> Inos \cup {Null}]
      BY DEF Init, Inos
    <2>4. purge \in BOOLEAN
      BY DEF Init
    <2>5. /\ freelist \in Inos /\ numfree \in 0..N /\ live \subseteq Objs
          /\ known \subseteq Inos /\ opened \subseteq known
          /\ i \in 0..N /\ removed \in 0..N+1 /\ allocated \in 0..N
      BY DEF Init, Inos
    <2>6. /\ pc = "start" /\ cur = Null /\ back = "serve" /\ failed \in Failures
          /\ hist \subseteq {"remove", "dup"}
      BY DEF Init, Failures
    <2> QED BY <2>2, <2>3, <2>4, <2>5, <2>6 DEF TypeOK
  <1>2. Idle
    BY DEF Init, Idle
  <1>3. FreeList
    <2>1. \A m \in Inos : next[m] = IF m < 0 \/ m = N-1 THEN Null ELSE m+1
      BY DEF Init, Inos
    <2>2. HasList(next, IF 0 = N THEN Null ELSE 0, N - 0, 0..N-1)
      BY <2>1, OrderedList
    <2>3. (IF 0 = N THEN Null ELSE 0) = freelist /\ N - 0 = numfree /\ Inos \ InUse = 0..N-1
      BY <1>2 DEF Init, InUse, Inos
    <2> QED BY <2>2, <2>3 DEF FreeList
  <1>4. Items
    BY DEF Init, Items
  <1>5. Stages
    BY <1>2 DEF Init, Stages, Unmounted
  <1> QED BY <1>1, <1>3, <1>4, <1>5 DEF Sound

(* A failed assertion leaves everything else as it is. *)
LEMMA SoundFail ==
    ASSUME Sound, NEW l \in Failures, Fail(l)
    PROVE  Sound'
  <1>1. /\ failed' = l /\ file' = file /\ next' = next /\ freelist' = freelist
        /\ numfree' = numfree /\ live' = live /\ obj' = obj /\ known' = known
        /\ opened' = opened /\ pc' = pc /\ cur' = cur /\ back' = back /\ i' = i
        /\ removed' = removed /\ allocated' = allocated /\ hist' = hist
    BY DEF Fail, table, heap, kernel, removing, cleaning
  <1>2. purge' = purge
    BY DEF Fail, removing
  <1>3. purge' \in BOOLEAN
    BY Zenon, <1>2 DEF Sound, TypeOK
  <1>4. TypeOK'
    BY <1>1, <1>3 DEF Sound, TypeOK
  <1>5. Stages'
    BY <1>1 DEF Sound, Stages, Unmounted, Idle
  <1> QED BY <1>4, <1>5, FailStep DEF Sound, Shape

(* The number of free entries fits in the table. *)
LEMMA FreeFits ==
    ASSUME FreeList'
    PROVE  numfree' \in 0..N
  BY ListLength DEF FreeList

(* What the removal leaves of the types. *)
LEMMA SoundRemove ==
    ASSUME Sound, RemoveOne
    PROVE  Sound'
  <1> USE ConstantsAssumption
  <1>1. Shape' /\ pc = "remove" /\ failed = "none"
    BY RemoveShape DEF RemoveOne, Running
  <1>2. CASE \E l \in Failures : Fail(l)
    BY <1>2, SoundFail
  <1>3. CASE Return
    <2>1. /\ file' = file /\ next' = next /\ freelist' = freelist
          /\ numfree' = numfree /\ live' = live /\ obj' = obj /\ known' = known
          /\ opened' = opened /\ pc' = back /\ cur' = Null /\ back' = back /\ i' = i
          /\ removed' = removed /\ allocated' = allocated /\ hist' = hist /\ failed' = failed
      BY <1>3 DEF Return, table, heap, kernel, cleaning
    <2>2. purge' \in BOOLEAN
      BY Zenon, <1>3 DEF Return, Sound, TypeOK
    <2>3. TypeOK'
      BY <2>1, <2>2 DEF Sound, TypeOK
    <2>4. Stages'
      BY <1>1, <2>1 DEF Sound, Stages, Unmounted, Idle, TypeOK
    <2> QED BY <1>1, <2>3, <2>4 DEF Sound, Shape
  <1>4. CASE \E d : Removable(d) /\ Unlink(d)
    <2>1. PICK d : Removable(d) /\ Unlink(d)
      BY <1>4
    <2>2. /\ file' = file /\ next' = [next EXCEPT ![obj[cur].ino] = freelist]
          /\ freelist' = obj[cur].ino /\ numfree' = numfree + 1
          /\ known' = known /\ opened' = opened /\ back' = back /\ i' = i
          /\ removed' = removed /\ allocated' = allocated /\ hist' = hist /\ failed' = failed
          /\ (pc' = back /\ cur' = Null) \/ (pc' = pc /\ cur' = d /\ d # Null)
      BY <2>1 DEF Unlink, inofree, kernel, cleaning
    <2>3. purge' \in BOOLEAN
      BY Zenon, <2>1 DEF Unlink, Sound, TypeOK
    <2>4. live' \subseteq Objs /\ obj' \in [Objs -> File]
      BY <2>1, Unlinked DEF Sound, TypeOK
    <2>5. numfree' \in 0..N
      BY <1>1, FreeFits DEF Shape
    <2>6. cur \in Objs /\ obj[cur].ino \in Inos
      <3>1. cur \in Objs /\ obj[cur] \in File
        BY <2>1 DEF Removable, Sound, TypeOK
      <3> QED BY <3>1 DEF File
    <2>7. d # Null => d \in Objs
      BY <2>1 DEF Removable, Sound, TypeOK
    <2>8. TypeOK'
      BY <2>2, <2>3, <2>4, <2>5, <2>6, <2>7 DEF Sound, TypeOK
    <2>9. Stages'
      BY <1>1, <2>2, <2>7 DEF Sound, Stages, Unmounted, Idle, TypeOK
    <2> QED BY <1>1, <2>8, <2>9 DEF Sound, Shape
  <1>5. (\E l : Fail(l)) => \E l \in Failures : Fail(l)
    <2>1. ASSUME ~Return, ~(\E d : Unlink(d)) PROVE \E l \in Failures : Fail(l)
      BY <2>1 DEF RemoveOne, Failures
    <2>2. ASSUME NEW l, Fail(l), Return PROVE FALSE
      BY <1>1, <2>2 DEF Fail, Return, Sound, TypeOK
    <2>3. ASSUME NEW l, Fail(l), NEW d, Unlink(d) PROVE FALSE
      <3>1. numfree' = numfree + 1 /\ numfree' = numfree /\ numfree \in Nat
        BY <2>3 DEF Fail, Unlink, inofree, table, Sound, TypeOK
      <3> QED BY <3>1
    <2> QED BY <2>1, <2>2, <2>3
  <1> QED BY <1>2, <1>3, <1>4, <1>5, RemoveCases

(* The steps that take or give no inode and touch no item. *)
LEMMA SoundQuiet ==
    ASSUME Sound, UNCHANGED <<table, heap>>, Shape',
           known' \subseteq Inos, opened' \subseteq known',
           pc' \in {"build", "serve", "remove", "scan"}, ~Idle, failed' \in Failures,
           Unmounted' => known' = {} /\ opened' = {},
           cur' \in Objs \cup {Null}, pc' = "remove" => cur' \in Objs,
           purge' \in BOOLEAN, back' \in {"build", "serve", "scan"},
           i' \in 0..N, removed' \in 0..N, removed' <= i', allocated' \in 0..N,
           hist' \subseteq {"remove", "dup"}
    PROVE  Sound'
  <1> USE ConstantsAssumption
  <1>1. /\ file' = file /\ next' = next /\ freelist' = freelist
        /\ numfree' = numfree /\ live' = live /\ obj' = obj
    BY DEF table, heap
  <1>2. TypeOK'
    <2>1. removed' \in 0..N+1
      OBVIOUS
    <2> QED BY <1>1, <2>1 DEF Sound, TypeOK
  <1>3. Stages'
    BY <1>1 DEF Sound, Stages, Unmounted, Idle
  <1> QED BY <1>2, <1>3 DEF Sound, Shape

(* Every step keeps the table, the tree and the types. *)
LEMMA SoundStep == Sound /\ [Next]_vars => Sound'
  <1> SUFFICES ASSUME Sound, [Next]_vars PROVE Sound'
    OBVIOUS
  <1> USE ConstantsAssumption
  <1>1. /\ known \subseteq Inos /\ opened \subseteq known /\ cur \in Objs \cup {Null}
        /\ pc \in {"start", "build", "serve", "remove", "scan", "down"}
        /\ back \in {"build", "serve", "scan"} /\ i \in 0..N /\ allocated \in 0..N
        /\ hist \subseteq {"remove", "dup"} /\ failed \in Failures
        /\ numfree \in 0..N /\ live \subseteq Objs /\ obj \in [Objs -> File]
        /\ file \in [Inos -> Objs \cup {Null}] /\ next \in [Inos -> Inos \cup {Null}]
        /\ freelist \in Inos \cup {Null} /\ removed \in 0..N+1
    BY DEF Sound, TypeOK
  <1>2. purge \in BOOLEAN
    BY Zenon DEF Sound, TypeOK
  <1>3. pc # "down" => removed \in 0..N /\ removed <= i
    BY <1>1 DEF Sound, Stages
  <1>4. CASE UNCHANGED vars
    <2>1. /\ file' = file /\ next' = next /\ freelist' = freelist
          /\ numfree' = numfree /\ live' = live /\ obj' = obj /\ known' = known
          /\ opened' = opened /\ pc' = pc /\ cur' = cur /\ back' = back /\ i' = i
          /\ removed' = removed /\ allocated' = allocated /\ hist' = hist /\ failed' = failed
      BY <1>4 DEF vars, table, heap, kernel, removing, cleaning
    <2>2. purge' \in BOOLEAN
      BY Zenon, <1>2, <1>4 DEF vars, removing
    <2>3. Shape'
      BY <2>1, QuietStep DEF Idle, table, heap
    <2>4. TypeOK'
      BY <1>1, <2>1, <2>2 DEF TypeOK
    <2>5. Stages'
      BY <2>1 DEF Sound, Stages, Unmounted, Idle
    <2> QED BY <2>3, <2>4, <2>5 DEF Sound, Shape
  <1>5. CASE MkdirFails
    <2>1. /\ file' = file /\ next' = next /\ freelist' = freelist
          /\ numfree' = numfree /\ live' = live /\ obj' = obj /\ known' = known
          /\ opened' = opened /\ cur' = cur /\ back' = back /\ i' = i
          /\ removed' = removed /\ allocated' = allocated /\ hist' = hist /\ failed' = failed
          /\ pc = "start" /\ pc' = "down"
      BY <1>5 DEF MkdirFails, Running, table, heap, kernel, removing, cleaning
    <2>2. purge' \in BOOLEAN
      BY Zenon, <1>2, <1>5 DEF MkdirFails, removing
    <2>3. TypeOK'
      BY <1>1, <2>1, <2>2 DEF TypeOK
    <2>4. Stages'
      BY <2>1 DEF Sound, Stages, Unmounted, Idle
    <2> QED BY <1>5, <2>3, <2>4, MkdirShape DEF Sound, Shape
  <1>6. CASE RemoveOne
    BY <1>6, SoundRemove
  <1>7. CASE CleanupEnd
    <2>1. pc = "scan" /\ failed = "none" /\ i = N
      BY <1>7 DEF CleanupEnd, Running
    <2>2. CASE \E l \in Failures : Fail(l)
      BY <2>2, SoundFail
    <2>3. CASE ~\E l \in Failures : Fail(l)
      <3>1. /\ next' = [next EXCEPT ![INVALID_INO] = freelist]
            /\ freelist' = INVALID_INO /\ numfree' = numfree + 1 /\ removed' = removed + 1
            /\ file' = file /\ live' = live /\ obj' = obj /\ known' = known
            /\ opened' = opened /\ cur' = cur /\ back' = back /\ i' = i
            /\ allocated' = allocated /\ hist' = hist /\ failed' = failed /\ pc' = "down"
        BY <1>7, <2>3 DEF CleanupEnd, inofree, Failures, heap, kernel, removing
      <3>2. purge' \in BOOLEAN
        <4>1. purge' = purge
          BY <1>7, <2>3 DEF CleanupEnd, Failures, removing
        <4> QED BY Zenon, <1>2, <4>1
      <3>3. Shape' /\ live' = {}
        BY <1>7, <3>1, CleanupShape DEF Idle
      <3>4. numfree' \in 0..N /\ INVALID_INO \in Inos /\ removed' \in 0..N+1
        BY <1>3, <2>1, <3>1, <3>3, FreeFits DEF Shape, INVALID_INO, Inos
      <3>5. TypeOK'
        BY <1>1, <3>1, <3>2, <3>4 DEF TypeOK
      <3>6. Stages'
        BY <3>1, <3>3 DEF Stages, Unmounted, Idle
      <3> QED BY <3>3, <3>5, <3>6 DEF Sound, Shape
    <2> QED BY <2>2, <2>3
  <1>8. CASE Mount
    <2>1. /\ UNCHANGED <<table, heap>> /\ hist' = hist /\ pc = "build" /\ pc' = "serve"
          /\ known' = {ROOT_INO} /\ opened' = opened /\ cur' = cur /\ back' = back /\ i' = i
          /\ removed' = removed /\ allocated' = allocated /\ failed' = failed
      BY <1>8 DEF Mount, Running, removing, cleaning
    <2>2. purge' \in BOOLEAN
      BY Zenon, <1>2, <1>8 DEF Mount, removing
    <2>3. Shape' /\ ~Idle
      BY <2>1, QuietStep DEF Idle
    <2>4. opened = {} /\ ROOT_INO \in Inos
      BY <2>1 DEF Sound, Stages, Unmounted, ROOT_INO, Inos
    <2> QED BY <1>1, <1>3, <2>1, <2>2, <2>3, <2>4, SoundQuiet DEF Unmounted
  <1>9. CASE Unmount
    <2>1. /\ UNCHANGED <<table, heap>> /\ hist' = hist /\ pc \in {"build", "serve"} /\ pc' = "scan"
          /\ known' = {} /\ opened' = {} /\ cur' = cur /\ back' = back /\ i' = 0
          /\ removed' = 0 /\ allocated' = N - numfree /\ failed' = failed
      BY <1>9 DEF Unmount, removing
    <2>2. purge' \in BOOLEAN
      BY Zenon, <1>2, <1>9 DEF Unmount, removing
    <2>3. Shape' /\ ~Idle
      BY <2>1, QuietStep DEF Idle
    <2>4. allocated' \in 0..N /\ removed' \in 0..N /\ i' \in 0..N /\ removed' <= i'
      BY <1>1, <2>1
    <2> QED BY <1>1, <2>1, <2>2, <2>3, <2>4, SoundQuiet DEF Unmounted
  <1>10. CASE Scan
    <2>1. pc = "scan" /\ failed = "none" /\ i < N
      BY <1>10 DEF Scan, Running
    <2>2. CASE Fail("scan")
      BY <2>2, SoundFail DEF Failures
    <2>3. CASE ~Fail("scan")
      <3>1. /\ UNCHANGED <<table, heap>> /\ hist' = hist /\ i' = i + 1 /\ failed' = failed
            /\ known' = known /\ opened' = opened /\ allocated' = allocated
            /\ \/ /\ pc' = pc /\ cur' = cur /\ back' = back /\ removed' = removed
               \/ /\ pc' = "remove" /\ cur' = file[i] /\ file[i] # Null /\ back' = "scan"
                  /\ removed' = removed + 1
        BY <1>10, <2>3 DEF Scan, kernel, removing
      <3>2. purge' \in BOOLEAN
        <4>1. purge' = purge \/ purge' = TRUE
          BY <1>10, <2>3 DEF Scan, removing
        <4> QED BY Zenon, <1>2, <4>1
      <3>3. Shape' /\ ~Idle
        BY <2>1, <3>1, QuietStep DEF Idle
      <3>4. i' \in 0..N /\ removed' \in 0..N /\ removed' <= i'
        BY <1>1, <1>3, <2>1, <3>1
      <3>5. file[i] # Null => file[i] \in Objs
        BY <1>1, <2>1 DEF Inos
      <3> QED BY <1>1, <2>1, <3>1, <3>2, <3>3, <3>4, <3>5, SoundQuiet DEF Unmounted
    <2> QED BY <2>2, <2>3
  <1>11. CASE grow_inotable \/ SessionFails
    BY <1>11, SoundFail DEF grow_inotable, SessionFails, Failures
  <1>12. ASSUME NEW o \in Objs, fsCreate(o) PROVE Sound'
    <2>1. /\ pc = "start" /\ pc' = "build" /\ file' = [file EXCEPT ![ROOT_INO] = o]
          /\ next' = [next EXCEPT ![INVALID_INO] = Null, ![ROOT_INO] = Null]
          /\ freelist' = 2 /\ numfree' = N - 2 /\ live' = {o}
          /\ obj' = [obj EXCEPT ![o] = NewFile(RootName, ROOT_INO, INVALID_INO, "DIRECTORY")]
          /\ known' = known /\ opened' = opened /\ cur' = cur /\ back' = back /\ i' = i
          /\ removed' = removed /\ allocated' = allocated /\ hist' = hist /\ failed' = failed
      BY <1>12 DEF fsCreate, Running, kernel, removing, cleaning, ROOT_INO
    <2>2. purge' \in BOOLEAN
      BY Zenon, <1>2, <1>12 DEF fsCreate, removing
    <2>3. ROOT_INO \in Inos /\ INVALID_INO \in Inos /\ 2 \in Inos /\ N - 2 \in 0..N
      BY DEF ROOT_INO, INVALID_INO, Inos
    <2>4. NewFile(RootName, ROOT_INO, INVALID_INO, "DIRECTORY") \in File
      BY <2>3 DEF NewFile, File, Types
    <2>5. /\ obj' \in [Objs -> File] /\ file' \in [Inos -> Objs \cup {Null}]
          /\ next' \in [Inos -> Inos \cup {Null}]
      <3> HIDE DEF NewFile
      <3> QED BY <1>1, <2>1, <2>3, <2>4
    <2>6. TypeOK'
      BY <1>1, <2>1, <2>2, <2>3, <2>5 DEF TypeOK
    <2>7. file'[ROOT_INO] # Null
      BY <1>1, <2>1, <2>3
    <2>8. Stages'
      BY <2>1, <2>7 DEF Sound, Stages, Unmounted, Idle
    <2> QED BY <1>12, <2>6, <2>8, RootShape DEF Sound, Shape
  <1>13. ASSUME NEW o \in Objs, NEW p \in BOOLEAN, fsRemoveitem(o, p) PROVE Sound'
    <2>1. /\ UNCHANGED <<table, heap>> /\ hist' = hist \cup {"remove"}
          /\ pc \in {"build", "serve"} /\ pc' = "remove" /\ back' = pc /\ cur' = o
          /\ known' = known /\ opened' = opened /\ i' = i
          /\ removed' = removed /\ allocated' = allocated /\ failed' = failed
      BY <1>13 DEF fsRemoveitem, kernel, cleaning
    <2>2. purge' \in BOOLEAN
      BY Zenon, <1>13 DEF fsRemoveitem
    <2>3. Shape' /\ ~Idle
      BY <2>1, QuietStep DEF Idle
    <2>4. pc = "build" => known = {} /\ opened = {}
      BY DEF Sound, Stages, Unmounted
    <2> QED BY <1>1, <1>3, <2>1, <2>2, <2>3, <2>4, SoundQuiet DEF Unmounted
  <1>14. ASSUME NEW o \in Objs, NEW d \in live, NEW n \in Names, NEW t \in Types,
                Create(d, n, t, o)
         PROVE  Sound'
    <2>1. Shape' /\ pc \in {"build", "serve"} /\ freelist # Null
      BY <1>14, CreateShape DEF Create
    <2>2. CASE file[freelist] # Null
      BY <1>14, <2>2, SoundFail DEF Create, Failures
    <2>3. CASE file[freelist] = Null
      <3>1. /\ freelist' = next[freelist] /\ next' = [next EXCEPT ![freelist] = Null]
            /\ numfree' = numfree - 1 /\ live' = live \cup {o}
            /\ file' = [file EXCEPT ![freelist] = o] /\ hist' \in {hist, hist \cup {"dup"}}
            /\ known' = known /\ opened' = opened /\ cur' = cur /\ back' = back /\ i' = i
            /\ removed' = removed /\ allocated' = allocated /\ pc' = pc /\ failed' = failed
        BY <1>14, <2>3 DEF Create, inoalloc, kernel, removing, cleaning
      <3>2. purge' \in BOOLEAN
        <4>1. purge' = purge
          BY <1>14, <2>3 DEF Create, removing
        <4> QED BY Zenon, <1>2, <4>1
      <3>3. obj' \in [Objs -> File]
        BY <1>14, <2>3, Created
      <3>4. freelist \in Inos /\ numfree' \in 0..N
        BY <1>1, <2>1, FreeFits DEF Shape
      <3>5. TypeOK'
        BY <1>1, <3>1, <3>2, <3>3, <3>4 DEF TypeOK
      <3>6. file'[ROOT_INO] # Null
        <4>1. file[ROOT_INO] # Null /\ ROOT_INO \in Inos
          BY <2>1 DEF Sound, Stages, Idle, ROOT_INO, Inos
        <4> QED BY <1>1, <3>1, <3>4, <4>1
      <3>7. Stages'
        BY <2>1, <3>1, <3>6 DEF Sound, Stages, Unmounted, Idle
      <3> QED BY <2>1, <3>5, <3>7 DEF Sound, Shape
    <2> QED BY <2>2, <2>3
  <1>15. ASSUME NEW ino \in known, NEW n \in Names, fs_fuse_lookup(ino, n) PROVE Sound'
    <2>1. pc = "serve" /\ failed = "none"
      BY <1>15 DEF fs_fuse_lookup, Running
    <2>2. CASE Fail("pointer")
      BY <2>2, SoundFail DEF Failures
    <2>3. CASE ~Fail("pointer")
      <3>1. /\ UNCHANGED <<table, heap>> /\ hist' = hist /\ pc' = pc /\ cur' = cur /\ back' = back
            /\ opened' = opened /\ i' = i /\ removed' = removed /\ allocated' = allocated
            /\ failed' = failed /\ Reaches(ino)
            /\ \E x \in obj[file[ino]].nm_files : known' = known \cup {obj[x].ino}
        BY <1>15, <2>3 DEF fs_fuse_lookup, removing, cleaning
      <3>2. purge' \in BOOLEAN
        <4>1. purge' = purge
          BY <1>15, <2>3 DEF fs_fuse_lookup, removing
        <4> QED BY Zenon, <1>2, <4>1
      <3>3. Shape' /\ ~Idle
        BY <2>1, <3>1, QuietStep DEF Idle
      <3>4. known' \subseteq Inos /\ opened' \subseteq known'
        <4>1. PICK x \in obj[file[ino]].nm_files : known' = known \cup {obj[x].ino}
          BY <3>1
        <4>2. x \in live
          BY <3>1 DEF Reaches, Sound, Items, Contents
        <4>3. obj[x] \in File
          BY <1>1, <4>2
        <4> QED BY <1>1, <3>1, <4>1, <4>3 DEF File
      <3> QED BY <1>1, <1>3, <2>1, <3>1, <3>2, <3>3, <3>4, SoundQuiet DEF Unmounted
    <2> QED BY <2>2, <2>3
  <1>16. ASSUME NEW ino \in known, fs_fuse_open(ino) PROVE Sound'
    <2>1. pc = "serve" /\ failed = "none"
      BY <1>16 DEF fs_fuse_open, Running
    <2>2. CASE Fail("open") \/ Fail("pointer")
      BY <2>2, SoundFail DEF Failures
    <2>3. CASE ~(Fail("open") \/ Fail("pointer"))
      <3>1. /\ UNCHANGED <<table, heap>> /\ hist' = hist /\ pc' = pc /\ cur' = cur /\ back' = back
            /\ opened' = opened \cup {ino} /\ i' = i /\ removed' = removed
            /\ allocated' = allocated /\ failed' = failed /\ known' = known
        BY <1>16, <2>3 DEF fs_fuse_open, removing, cleaning
      <3>2. purge' \in BOOLEAN
        <4>1. purge' = purge
          BY <1>16, <2>3 DEF fs_fuse_open, removing
        <4> QED BY Zenon, <1>2, <4>1
      <3>3. Shape' /\ ~Idle
        BY <2>1, <3>1, QuietStep DEF Idle
      <3> QED BY <1>1, <1>3, <2>1, <3>1, <3>2, <3>3, SoundQuiet DEF Unmounted
    <2> QED BY <2>2, <2>3
  <1>17. ASSUME NEW ino \in known,
                \/ fs_fuse_getattr(ino) \/ fs_fuse_readdir(ino) \/ fs_fuse_xattr(ino)
                \/ fs_fuse_readlink(ino) \/ fs_fuse_read(ino)
         PROVE  Sound'
    <2>1. \E l \in Failures : Fail(l)
      BY <1>17 DEF fs_fuse_getattr, fs_fuse_readdir, fs_fuse_xattr, fs_fuse_readlink,
                   fs_fuse_read, Failures
    <2> QED BY <2>1, SoundFail
  <1>18. CASE Next
    <2>1. \A o \in Objs, d \in live, n \in Names :
             fsCreatedir(d, n, o) \/ fsCreatefile(d, n, o) => \E t \in Types : Create(d, n, t, o)
      BY DEF fsCreatedir, fsCreatefile, Types
    <2> QED BY <1>5, <1>6, <1>7, <1>8, <1>9, <1>10, <1>11, <1>12, <1>13, <1>14, <1>15,
               <1>16, <1>17, <1>18, <2>1 DEF Next
  <1> QED BY <1>4, <1>18

(* The table, the tree and the types hold throughout. *)
LEMMA SoundAlways == Spec => []Sound
  <1>1. Init => Sound
    BY SoundInit
  <1>2. Sound /\ [Next]_vars => Sound'
    BY SoundStep
  <1> QED BY <1>1, <1>2, PTL DEF Spec

(* Types of the table, of the heap and of the locals; ino_numfree never    *)
(* leaves 0..N although inoalloc and inofree count it blindly.             *)
THEOREM TypeCorrect == Spec => []TypeOK
  <1>1. Sound => TypeOK
    BY DEF Sound
  <1> QED BY <1>1, SoundAlways, PTL

(* However items are created and removed, the free list threaded through   *)
(* the table by inoalloc and inofree has exactly ino_numfree entries and   *)
(* no inode off the list points into it.                                   *)
THEOREM FreeListIsSound == Spec => []FreeListSound
  <1>1. Sound => FreeListSound
    <2> SUFFICES ASSUME Sound PROVE FreeListSound
      OBVIOUS
    <2>1. HasList(next, freelist, numfree, Inos \ InUse) /\ next \in [Inos -> Inos \cup {Null}]
      BY DEF Sound, FreeList, TypeOK
    <2>2. OnFreeList = Inos \ InUse
      BY <2>1, FreeListIs
    <2>3. Cardinality(Inos \ InUse) = numfree
      BY <2>1, ListLength
    <2>4. \A m \in Inos \ (Inos \ InUse) : next[m] = Null
      BY <2>1 DEF HasList
    <2> QED BY <2>2, <2>3, <2>4 DEF FreeListSound
  <1> QED BY <1>1, SoundAlways, PTL

(* Every item is the one its inode names and its inode is taken; the two   *)
(* lists of a directory agree, hold living items under different names,    *)
(* and hold every item as long as no name was used twice.                  *)
THEOREM TreeIsSound == Spec => []TreeSound
  <1>1. Sound => TreeSound
    <2> SUFFICES ASSUME Sound PROVE TreeSound
      OBVIOUS
    <2>1. HasList(next, freelist, numfree, Inos \ InUse) /\ next \in [Inos -> Inos \cup {Null}]
      BY DEF Sound, FreeList, TypeOK
    <2>2. OnFreeList = Inos \ InUse
      BY <2>1, FreeListIs
    <2>3. ASSUME NEW o \in live PROVE obj[o].ino \notin OnFreeList
      <3>1. ~Idle
        BY DEF Sound, Stages
      <3>2. obj[o].ino \in InUse
        BY <3>1 DEF InUse
      <3> QED BY <2>2, <3>2
    <2>4. \A o \in live : Entry(o) /\ Contents(o) /\ InDir(o)
      BY DEF Sound, Items
    <2>5. ASSUME NEW o \in live
          PROVE  /\ file[obj[o].ino] = o
                 /\ obj[o].ino_files = obj[o].nm_files /\ obj[o].ino_files \subseteq live
                 /\ \A x, y \in obj[o].nm_files : obj[x].name = obj[y].name => x = y
                 /\ "dup" \notin hist /\ obj[o].ino # ROOT_INO =>
                       LET d == file[obj[o].dir] IN d \in live /\ o \in obj[d].ino_files
      BY <2>4 DEF Entry, Contents, InDir
    <2> HIDE DEF OnFreeList
    <2> QED BY <2>3, <2>5 DEF TreeSound
  <1> QED BY <1>1, SoundAlways, PTL

(* When fsCleanup has returned nothing is left: fsCleanup only counts, but *)
(* with every free inode on the list the count says that no item is left.  *)
THEOREM CleanupIsComplete == Spec => []CleanupComplete
  <1>1. Sound => CleanupComplete
    <2> SUFFICES ASSUME Sound, pc = "down" PROVE live = {} /\ numfree = N
      BY DEF CleanupComplete
    <2>1. Idle /\ live = {} /\ InUse = {}
      BY DEF Idle, InUse, Sound, Stages
    <2>2. Inos \ InUse = Inos /\ Cardinality(Inos) = N
      BY <2>1, FS_Interval, ConstantsAssumption DEF Inos
    <2>3. Cardinality(Inos \ InUse) = numfree
      BY ListLength DEF Sound, FreeList
    <2> QED BY <2>1, <2>2, <2>3
  <1> QED BY <1>1, SoundAlways, PTL
-----------------------------------------------------------------------------
(* A client that only creates, and no name twice. *)

(* Children are younger than their directory. *)
Ascending == \A o \in live : \A x \in obj[o].ino_files : obj[x].ino > obj[o].ino

(* The entries 1..a-1 were used in order; those from b on name a living    *)
(* item still.                                                             *)
Named(fl, lv, ob, a, b) ==
    \A n \in Inos :
        IF n \in 1..a-1
        THEN fl[n] # Null /\ (n >= b => fl[n] \in lv /\ ob[fl[n]].ino = n)
        ELSE fl[n] = Null

(* While the tree grows, the free list is the rest of the table in order. *)
Growing ==
    pc \in {"build", "serve"} =>
        /\ N - numfree \in 2..N /\ Named(file, live, obj, N - numfree, 0) /\ Ascending
        /\ freelist = IF numfree = 0 THEN Null ELSE N - numfree
        /\ \A n \in (N - numfree)..(N-1) : next[n] = IF n = N-1 THEN Null ELSE n+1

(* The kernel knows of living items only, and opened regular files only. *)
Told ==
    pc = "serve" => /\ \A n \in known : n \in 1..(N - numfree)-1
                    /\ \A n \in opened : obj[file[n]].type = "REGULAR"

(* Behind the scan of fsCleanup only directories that list something are   *)
(* left; the one under removal may have become empty.                      *)
Scanned ==
    pc \in {"scan", "remove"} =>
        /\ allocated \in 2..N /\ Named(file, live, obj, allocated, i) /\ Ascending
        /\ removed = IF i = 0 THEN 0 ELSE IF i <= allocated THEN i-1 ELSE allocated-1
        /\ \A o \in live : obj[o].ino < i /\ (pc = "remove" => o # cur) =>
                 obj[o].type = "DIRECTORY" /\ obj[o].ino_files # {}
        /\ pc = "remove" => cur \in live /\ obj[cur].ino < i /\ purge = TRUE /\ back = "scan"

Calm == failed \in {"none", "full", "readlink", "session"}
Orderly == Growing /\ Told /\ Scanned /\ Calm
Clean == hist = {} => Orderly

(* The inode of an item has no successor. *)
LEMMA TakenHasNoNext ==
    ASSUME Sound, ~Idle
    PROVE  /\ next[INVALID_INO] = Null
           /\ \A o \in live : next[obj[o].ino] = Null /\ obj[o].ino \in Inos
  <1> USE ConstantsAssumption
  <1>1. \A m \in Inos \ (Inos \ InUse) : next[m] = Null
    BY DEF Sound, FreeList, HasList
  <1>2. INVALID_INO \in Inos /\ INVALID_INO \in InUse
    BY DEF INVALID_INO, Inos, InUse
  <1>3. ASSUME NEW o \in live PROVE obj[o].ino \in Inos /\ obj[o].ino \in InUse
    <2>1. obj[o] \in File
      BY DEF Sound, TypeOK
    <2> QED BY <2>1 DEF File, InUse
  <1> QED BY <1>1, <1>2, <1>3

(* Whatever is known to the kernel can be reached. *)
LEMMA KnownIsThere ==
    ASSUME Sound, Growing, Told, pc = "serve", NEW ino \in known
    PROVE  /\ ino \in Inos /\ file[ino] \in live /\ file[ino] # Null /\ Reaches(ino)
           /\ obj[file[ino]].ino = ino /\ next[ino] = Null
  <1> USE ConstantsAssumption
  <1>1. ino \in Inos /\ ino \in 1..(N - numfree)-1 /\ ino >= 0
    BY DEF Sound, TypeOK, Told, Inos
  <1>2. file[ino] \in live /\ file[ino] # Null /\ obj[file[ino]].ino = ino
    BY <1>1 DEF Growing, Named
  <1>3. next[ino] = Null
    BY <1>2, TakenHasNoNext DEF Idle
  <1> QED BY <1>1, <1>2, <1>3 DEF Reaches

(* A tree in which every item lists a younger one is empty. *)
LEMMA NoneLeft ==
    ASSUME Sound, Ascending, \A o \in live : obj[o].ino_files # {}
    PROVE  live = {}
  <1> USE ConstantsAssumption
  <1> SUFFICES ASSUME live # {} PROVE FALSE
    OBVIOUS
  <1>1. \A o \in live : obj[o].ino \in 0..N-1
    <2>1. \A o \in live : obj[o] \in File
      BY DEF Sound, TypeOK
    <2> QED BY <2>1 DEF File, Inos
  <1> DEFINE T == {N - obj[o].ino : o \in live}
  <1>2. T \subseteq Nat /\ T # {}
    BY <1>1
  <1>3. PICK m \in T : \A j \in T : m <= j
    <2> HIDE DEF T
    <2> QED BY <1>2, LeastElement
  <1>4. PICK o \in live : m = N - obj[o].ino
    OBVIOUS
  <1>5. PICK x \in obj[o].ino_files : TRUE
    OBVIOUS
  <1>6. x \in live /\ obj[x].ino > obj[o].ino
    BY <1>5 DEF Ascending, Sound, Items, Contents
  <1>7. N - obj[x].ino \in T
    BY <1>6
  <1>8. m <= N - obj[x].ino
    <2> HIDE DEF T
    <2> QED BY <1>3, <1>7
  <1> QED BY <1>1, <1>4, <1>6, <1>8

(* The root directory is the first of the tree. *)
LEMMA RootOrderly ==
    ASSUME Sound, Orderly, NEW o \in Objs, fsCreate(o)
    PROVE  Orderly'
  <1> USE ConstantsAssumption
  <1>1. /\ pc = "start" /\ pc' = "build" /\ file' = [file EXCEPT ![ROOT_INO] = o]
        /\ next' = [next EXCEPT ![INVALID_INO] = Null, ![ROOT_INO] = Null]
        /\ freelist' = 2 /\ numfree' = N - 2 /\ live' = {o} /\ failed' = failed
        /\ obj' = [obj EXCEPT ![o] = NewFile(RootName, ROOT_INO, INVALID_INO, "DIRECTORY")]
    BY DEF fsCreate, Running, ROOT_INO
  <1>2. obj'[o].ino = 1 /\ obj'[o].ino_files = {}
    <2>1. obj'[o] = NewFile(RootName, ROOT_INO, INVALID_INO, "DIRECTORY")
      BY <1>1 DEF Sound, TypeOK
    <2> QED BY <2>1 DEF NewFile, ROOT_INO
  <1>3. /\ file = [n \in Inos |-> Null]
        /\ next = [n \in Inos |-> IF n = N-1 THEN Null ELSE n+1]
    BY <1>1 DEF Sound, Stages
  <1>4. /\ 1 \in Inos /\ file'[1] = o /\ o # Null
        /\ \A n \in Inos : n # 1 => file'[n] = Null
    BY <1>1, <1>3 DEF Inos, ROOT_INO
  <1>5. N - numfree' = 2 /\ numfree' # 0
    BY <1>1
  <1>6. Named(file', live', obj', 2, 0)
    <2>1. \A n : n \in 1..1 <=> n = 1
      OBVIOUS
    <2> QED BY <1>1, <1>2, <1>4, <2>1 DEF Named
  <1>7. Ascending'
    BY <1>1, <1>2 DEF Ascending
  <1>8. \A n \in 2..(N-1) : next'[n] = IF n = N-1 THEN Null ELSE n+1
    <2> SUFFICES ASSUME NEW n \in 2..(N-1) PROVE next'[n] = IF n = N-1 THEN Null ELSE n+1
      OBVIOUS
    <2>1. n \in Inos /\ n # INVALID_INO /\ n # ROOT_INO
      BY DEF Inos, INVALID_INO, ROOT_INO
    <2>2. next'[n] = next[n]
      BY <1>1, <1>3, <2>1
    <2> QED BY <1>3, <2>1, <2>2
  <1>9. Growing'
    <2>1. freelist' = 2 /\ 2 \in 2..N
      BY <1>1
    <2> QED BY <1>5, <1>6, <1>7, <1>8, <2>1 DEF Growing
  <1>10. Told' /\ Scanned' /\ Calm'
    BY <1>1 DEF Told, Scanned, Calm, Orderly
  <1> QED BY <1>9, <1>10 DEF Orderly

(* The next entry of the table is taken, and the list goes on behind it. *)
LEMMA CreateOrderly ==
    ASSUME Sound, Orderly, NEW d \in live, NEW n \in Names, NEW t \in Types, NEW o \in Objs,
           Create(d, n, t, o)
    PROVE  Orderly'
  <1> USE ConstantsAssumption
  <1> DEFINE a == N - numfree
  <1>1. pc \in {"build", "serve"} /\ freelist # Null /\ failed = "none" /\ ~Idle
    BY DEF Create, Idle
  <1>2. numfree \in 0..N /\ numfree # 0 /\ a \in 2..N-1 /\ freelist = a /\ a \in Inos
    BY <1>1 DEF Orderly, Growing, Sound, TypeOK, Inos
  <1>3. Named(file, live, obj, a, 0) /\ Ascending
    BY <1>1 DEF Orderly, Growing
  <1>4. file[freelist] = Null
    <2>1. a \notin 1..a-1
      BY <1>2
    <2> HIDE DEF a
    <2> QED BY <1>2, <1>3, <2>1 DEF Named
  <1>5. /\ freelist' = next[freelist] /\ next' = [next EXCEPT ![freelist] = Null]
        /\ numfree' = numfree - 1 /\ known' = known /\ opened' = opened
        /\ pc' = pc /\ failed' = failed
    BY <1>4 DEF Create, inoalloc, kernel
  <1>6. /\ d # o /\ o \notin live /\ live' = live \cup {o} /\ obj' \in [Objs -> File]
        /\ obj'[o] = NewFile(n, freelist, obj[d].ino, t)
        /\ \A x \in live : /\ x # d => obj'[x] = obj[x]
                           /\ obj'[x].ino = obj[x].ino /\ obj'[x].type = obj[x].type
        /\ obj'[d] = obj[d] \/ obj'[d].ino_files = obj[d].ino_files \cup {o}
        /\ file' = [file EXCEPT ![freelist] = o]
    BY <1>4, Created
  <1>7. obj'[o].ino = a /\ obj'[o].ino_files = {}
    BY <1>2, <1>6 DEF NewFile
  <1>8. N - numfree' = a + 1 /\ (numfree' = 0 <=> a = N-1)
    BY <1>2, <1>5
  <1>9. ASSUME NEW x \in live PROVE obj[x].ino \in 1..a-1 /\ obj[x].ino < a
    <2>1. obj[x].ino \in Inos /\ file[obj[x].ino] = x /\ x # Null
      BY <1>1, TakenHasNoNext DEF Sound, TypeOK, Items, Entry
    <2>2. obj[x].ino \in 1..a-1
      <3> HIDE DEF a
      <3> QED BY <1>3, <2>1 DEF Named
    <2> QED BY <1>2, <2>2
  <1>10. file'[a] = o /\ o # Null /\ \A m \in Inos : m # a => file'[m] = file[m]
    <2>1. file \in [Inos -> Objs \cup {Null}]
      BY DEF Sound, TypeOK
    <2> HIDE DEF a
    <2> QED BY <1>2, <1>6, <2>1
  <1> HIDE DEF a
  <1>11. Named(file', live', obj', a + 1, 0)
    <2> SUFFICES ASSUME NEW m \in Inos
                 PROVE  IF m \in 1..(a+1)-1
                        THEN file'[m] # Null /\ (m >= 0 => file'[m] \in live' /\ obj'[file'[m]].ino = m)
                        ELSE file'[m] = Null
      BY DEF Named
    <2>1. CASE m = a
      <3>1. m \in 1..(a+1)-1
        BY <1>2, <2>1
      <3> QED BY <1>6, <1>7, <1>10, <2>1, <3>1
    <2>2. CASE m # a /\ m \in 1..a-1
      <3>1. file[m] # Null /\ file[m] \in live /\ obj[file[m]].ino = m /\ m \in 1..(a+1)-1
        BY <1>2, <1>3, <2>2 DEF Named
      <3> QED BY <1>6, <1>10, <2>2, <3>1
    <2>3. CASE m # a /\ m \notin 1..a-1
      <3>1. file[m] = Null /\ m \notin 1..(a+1)-1
        BY <1>2, <1>3, <2>3 DEF Named, Inos
      <3> QED BY <1>10, <2>3, <3>1
    <2> QED BY <2>1, <2>2, <2>3
  <1>12. Ascending'
    <2> SUFFICES ASSUME NEW x \in live', NEW y \in obj'[x].ino_files
                 PROVE  obj'[y].ino > obj'[x].ino
      BY DEF Ascending
    <2>1. x \in live
      BY <1>6, <1>7
    <2>2. CASE y = o
      BY <1>2, <1>6, <1>7, <1>9, <2>1, <2>2
    <2>3. CASE y # o
      <3>1. y \in obj[x].ino_files
        BY <1>6, <2>1, <2>3
      <3>2. y \in live /\ obj[y].ino > obj[x].ino
        BY <1>3, <2>1, <3>1 DEF Ascending, Sound, Items, Contents
      <3> QED BY <1>6, <2>1, <3>2
    <2> QED BY <2>2, <2>3
  <1>13. \A m \in a..(N-1) : next[m] = IF m = N-1 THEN Null ELSE m+1
    BY <1>1 DEF Orderly, Growing, a
  <1>14. freelist' = IF numfree' = 0 THEN Null ELSE a + 1
    <2>1. next[a] = IF a = N-1 THEN Null ELSE a+1
      BY <1>2, <1>13
    <2> QED BY <1>2, <1>5, <1>8, <2>1
  <1>15. ASSUME NEW m \in (a+1)..(N-1) PROVE next'[m] = IF m = N-1 THEN Null ELSE m+1
    <2>1. m \in a..(N-1) /\ m # a /\ m \in Inos
      BY <1>2 DEF Inos
    <2>2. next'[m] = next[m]
      BY <1>2, <1>5, <2>1 DEF Sound, TypeOK
    <2> QED BY <1>13, <2>1, <2>2
  <1>16. Growing'
    <2>1. a + 1 \in 2..N
      BY <1>2
    <2> QED BY <1>8, <1>11, <1>12, <1>14, <1>15, <2>1 DEF Growing
  <1>17. Told'
    <2> SUFFICES ASSUME pc = "serve" PROVE /\ \A m \in known : m \in 1..(a+1)-1
                                           /\ \A m \in opened : obj'[file'[m]].type = "REGULAR"
      BY <1>5, <1>8 DEF Told
    <2>1. ASSUME NEW m \in known PROVE m \in 1..a-1 /\ m \in 1..(a+1)-1 /\ m \in Inos /\ m # a
      BY <1>2 DEF Orderly, Told, a, Inos
    <2>2. ASSUME NEW m \in opened PROVE obj'[file'[m]].type = "REGULAR"
      <3>1. m \in known /\ obj[file[m]].type = "REGULAR"
        BY DEF Orderly, Told, Sound, TypeOK
      <3>2. file[m] \in live
        BY <3>1, KnownIsThere DEF Orderly
      <3> QED BY <1>6, <1>10, <2>1, <3>1, <3>2
    <2> QED BY <2>1, <2>2
  <1>18. Scanned' /\ Calm'
    BY <1>1, <1>5 DEF Scanned, Calm
  <1> QED BY <1>16, <1>17, <1>18 DEF Orderly

(* fsCleanup visits the next entry: its item is there, and has no          *)
(* successor on the free list.                                             *)
LEMMA ScanOrderly ==
    ASSUME Sound, Orderly, Scan
    PROVE  Orderly'
  <1> USE ConstantsAssumption
  <1>1. pc = "scan" /\ failed = "none" /\ i \in 0..N-1 /\ i \in Inos /\ ~Idle
    BY DEF Scan, Running, Sound, TypeOK, Inos, Idle
  <1>2. /\ allocated \in 2..N /\ Named(file, live, obj, allocated, i) /\ Ascending
        /\ removed = IF i = 0 THEN 0 ELSE IF i <= allocated THEN i-1 ELSE allocated-1
        /\ \A o \in live : obj[o].ino < i => obj[o].type = "DIRECTORY" /\ obj[o].ino_files # {}
    BY <1>1 DEF Orderly, Scanned
  <1>3. ASSUME file[i] # Null
        PROVE  i \in 1..allocated-1 /\ file[i] \in live /\ obj[file[i]].ino = i /\ next[i] = Null
    <2>1. i \in 1..allocated-1 /\ file[i] \in live /\ obj[file[i]].ino = i
      BY <1>1, <1>2, <1>3 DEF Named
    <2> QED BY <1>1, <2>1, TakenHasNoNext
  <1>4. /\ UNCHANGED <<table, heap>> /\ i' = i + 1 /\ allocated' = allocated
        /\ failed' = failed
        /\ IF file[i] = Null THEN UNCHANGED <<pc, removed>>
           ELSE removed' = removed + 1 /\ pc' = "remove" /\ cur' = file[i] /\ back' = "scan"
    BY <1>3 DEF Scan
  <1>5. file[i] # Null => purge' = TRUE
    BY <1>3 DEF Scan
  <1>6. file' = file /\ live' = live /\ obj' = obj
    BY <1>4 DEF table, heap
  <1>7. Named(file, live, obj, allocated, i + 1)
    BY <1>1, <1>2 DEF Named, Inos
  <1>8. ASSUME NEW o \in live, obj[o].ino < i + 1
        PROVE  file[i] = o \/ (obj[o].type = "DIRECTORY" /\ obj[o].ino_files # {})
    <2>1. obj[o].ino \in Inos /\ file[obj[o].ino] = o
      BY <1>1, TakenHasNoNext DEF Sound, Items, Entry
    <2>2. obj[o].ino = i \/ obj[o].ino < i
      BY <1>1, <1>8, <2>1 DEF Inos
    <2> QED BY <1>2, <2>1, <2>2
  <1>9. live \subseteq Objs /\ Null \notin Objs
    BY DEF Sound, TypeOK
  <1>10. Ascending'
    BY <1>2, <1>6 DEF Ascending
  <1>11. Scanned'
    <2>1. CASE file[i] = Null
      <3>1. pc' = "scan" /\ removed' = removed
        BY <1>1, <1>4, <2>1
      <3>2. i \notin 1..allocated-1
        BY <1>1, <1>2, <2>1 DEF Named
      <3>3. removed' = IF i' = 0 THEN 0 ELSE IF i' <= allocated THEN i'-1 ELSE allocated-1
        BY <1>1, <1>2, <1>4, <3>1, <3>2
      <3>4. \A o \in live : obj[o].ino < i + 1 => obj[o].type = "DIRECTORY" /\ obj[o].ino_files # {}
        BY <1>8, <1>9, <2>1
      <3> QED BY <1>2, <1>4, <1>6, <1>7, <1>10, <3>1, <3>3, <3>4 DEF Scanned
    <2>2. CASE file[i] # Null
      <3>1. pc' = "remove" /\ removed' = removed + 1 /\ cur' = file[i] /\ back' = "scan"
        BY <1>4, <2>2
      <3>2. i \in 1..allocated-1 /\ cur' \in live /\ obj[cur'].ino < i + 1
        BY <1>1, <1>3, <2>2, <3>1
      <3>3. removed' = IF i' = 0 THEN 0 ELSE IF i' <= allocated THEN i'-1 ELSE allocated-1
        BY <1>1, <1>2, <1>4, <3>1, <3>2
      <3>4. \A o \in live : obj[o].ino < i + 1 /\ o # cur' =>
                               obj[o].type = "DIRECTORY" /\ obj[o].ino_files # {}
        BY <1>8, <3>1
      <3> QED BY <1>2, <1>4, <1>5, <1>6, <1>7, <1>10, <2>2, <3>1, <3>2, <3>3, <3>4 DEF Scanned
    <2> QED BY <2>1, <2>2
  <1>12. Growing' /\ Told'
    BY <1>1, <1>4 DEF Growing, Told
  <1> QED BY <1>1, <1>4, <1>11, <1>12 DEF Orderly, Calm

(* During fsCleanup fsRemoveitem meets a directory that is not empty, or   *)
(* unlinks the item.                                                       *)
LEMMA RemoveMeets ==
    ASSUME Sound, Orderly, hist = {}, RemoveOne
    PROVE  \/ Return /\ obj[cur].type = "DIRECTORY" /\ obj[cur].ino_files # {}
           \/ \E d : Removable(d) /\ Unlink(d)
  <1> USE ConstantsAssumption
  <1>1. pc = "remove" /\ cur \in live /\ ~Idle
    BY DEF RemoveOne, Running, Orderly, Scanned, Idle
  <1>2. \A x \in live : Entry(x) /\ Contents(x) /\ InDir(x)
    BY DEF Sound, Items
  <1>3. \A x \in live : next[obj[x].ino] = Null
    BY <1>1, TakenHasNoNext
  <1> DEFINE d == file[obj[cur].dir]
             root == obj[cur].type = "DIRECTORY" /\ obj[cur].ino = ROOT_INO
  <1>4. CASE obj[cur].type = "DIRECTORY" /\ obj[cur].ino_files # {}
    BY <1>1, <1>4 DEF RemoveOne
  <1>5. CASE ~(obj[cur].type = "DIRECTORY" /\ obj[cur].ino_files # {})
    <2>1. obj[cur].ino_files = {}
      BY <1>1, <1>2, <1>5 DEF Contents
    <2>2. CASE root
      <3>1. Unlink(Null)
        BY <1>1, <1>3, <1>5, <2>2 DEF RemoveOne
      <3>2. Removable(Null)
        BY <1>1, <2>1, <2>2 DEF Removable
      <3> QED BY <3>1, <3>2
    <2>3. CASE ~root
      <3>1. obj[cur].ino # ROOT_INO
        BY <1>1, <1>2, <2>3 DEF Entry
      <3>2. d \in live /\ cur \in obj[d].ino_files
        BY <1>1, <1>2, <3>1 DEF InDir
      <3>3. /\ obj[d].ino_files = obj[d].nm_files /\ obj[d].type = "DIRECTORY"
            /\ obj[cur].dir = obj[d].ino /\ d # cur
        BY <1>2, <2>1, <3>2 DEF Contents
      <3>4. next[obj[cur].dir] = Null /\ d # Null
        BY <1>3, <3>2, <3>3 DEF Sound, TypeOK
      <3>5. Unlink(d)
        BY <1>1, <1>3, <1>5, <2>3, <3>2, <3>3, <3>4 DEF RemoveOne
      <3>6. Removable(d)
        BY <1>1, <2>1, <3>2, <3>3 DEF Removable
      <3> HIDE DEF d
      <3> QED BY <3>5, <3>6
    <2> QED BY <2>2, <2>3
  <1> QED BY <1>4, <1>5

(* One level of fsRemoveitem during fsCleanup. *)
LEMMA RemoveOrderly ==
    ASSUME Sound, Orderly, hist = {}, RemoveOne
    PROVE  Orderly'
  <1> USE ConstantsAssumption
  <1>1. pc = "remove" /\ failed = "none"
    BY DEF RemoveOne, Running
  <1>2. /\ allocated \in 2..N /\ Named(file, live, obj, allocated, i) /\ Ascending
        /\ removed = IF i = 0 THEN 0 ELSE IF i <= allocated THEN i-1 ELSE allocated-1
        /\ \A o \in live : obj[o].ino < i /\ o # cur =>
                              obj[o].type = "DIRECTORY" /\ obj[o].ino_files # {}
        /\ cur \in live /\ obj[cur].ino < i /\ back = "scan"
    BY <1>1 DEF Orderly, Scanned
  <1>3. purge = TRUE
    BY <1>1 DEF Orderly, Scanned
  <1>4. CASE Return /\ obj[cur].type = "DIRECTORY" /\ obj[cur].ino_files # {}
    <2>1. /\ pc' = "scan" /\ file' = file /\ live' = live /\ obj' = obj /\ failed' = failed
          /\ i' = i /\ removed' = removed /\ allocated' = allocated
      BY <1>2, <1>4 DEF Return, table, heap, cleaning
    <2>2. Ascending'
      BY <1>2, <2>1 DEF Ascending
    <2>3. Scanned'
      BY <1>2, <1>4, <2>1, <2>2 DEF Scanned
    <2>4. Growing' /\ Told' /\ Calm'
      BY <1>1, <2>1 DEF Growing, Told, Calm
    <2> QED BY <2>3, <2>4 DEF Orderly
  <1>5. CASE \E d : Removable(d) /\ Unlink(d)
    <2>1. PICK d : Removable(d) /\ Unlink(d)
      BY <1>5
    <2>2. /\ live' = live \ {cur} /\ file' = file
          /\ \A x \in live : /\ x # d => obj'[x] = obj[x]
                             /\ obj'[x].ino = obj[x].ino /\ obj'[x].type = obj[x].type
                             /\ obj'[x].ino_files = obj[x].ino_files \ {cur}
      BY <2>1, Unlinked
    <2>3. i' = i /\ removed' = removed /\ allocated' = allocated /\ failed' = failed /\ back' = back
      BY <2>1 DEF Unlink, cleaning
    <2>4. purge' = TRUE
      BY <1>3, <2>1 DEF Unlink
    <2>5. IF d # Null /\ obj[d].ino_files = {cur} THEN pc' = "remove" /\ cur' = d
          ELSE pc' = "scan"
      BY <1>1, <1>2, <1>3, <2>1 DEF Unlink
    <2>6. d # Null => d \in live /\ d # cur /\ cur \in obj[d].ino_files /\ obj[d].ino < i
      <3>1. d # Null => d \in live /\ d # cur /\ cur \in obj[d].ino_files
        BY <2>1 DEF Removable
      <3>2. d # Null => obj[cur].ino > obj[d].ino
        BY <1>2, <3>1 DEF Ascending
      <3>3. d # Null => obj[d].ino \in Nat /\ obj[cur].ino \in Nat /\ i \in Nat
        <4>1. ~Idle
          BY <1>1 DEF Idle
        <4> QED BY <1>2, <3>1, <4>1, TakenHasNoNext DEF Inos, Sound, TypeOK
      <3> QED BY <1>2, <3>1, <3>2, <3>3
    <2>7. Named(file', live', obj', allocated, i)
      <3> SUFFICES ASSUME NEW m \in Inos
                   PROVE  IF m \in 1..allocated-1
                          THEN file'[m] # Null /\ (m >= i => file'[m] \in live' /\ obj'[file'[m]].ino = m)
                          ELSE file'[m] = Null
        BY DEF Named
      <3>1. IF m \in 1..allocated-1
            THEN file[m] # Null /\ (m >= i => file[m] \in live /\ obj[file[m]].ino = m)
            ELSE file[m] = Null
        BY <1>2 DEF Named
      <3>2. m >= i => m # obj[cur].ino
        <4>1. m \in Nat /\ i \in Nat
          BY DEF Inos, Sound, TypeOK
        <4> QED BY <1>2, <4>1
      <3> QED BY <2>2, <3>1, <3>2
    <2>8. Ascending'
      <3> SUFFICES ASSUME NEW x \in live', NEW y \in obj'[x].ino_files
                   PROVE  obj'[y].ino > obj'[x].ino
        BY DEF Ascending
      <3>1. x \in live /\ y \in obj[x].ino_files
        BY <2>2
      <3>2. y \in live /\ obj[y].ino > obj[x].ino
        BY <1>2, <3>1 DEF Ascending, Sound, Items, Contents
      <3> QED BY <2>2, <3>1, <3>2
    <2>9. ASSUME NEW o \in live', obj'[o].ino < i, pc' = "remove" => o # cur'
          PROVE  obj'[o].type = "DIRECTORY" /\ obj'[o].ino_files # {}
      <3>1. o \in live /\ o # cur /\ obj[o].ino < i
        BY <2>2, <2>9
      <3>2. obj[o].type = "DIRECTORY" /\ obj[o].ino_files # {}
        BY <1>2, <3>1
      <3>3. CASE o # d
        BY <2>2, <3>1, <3>2, <3>3
      <3>4. CASE o = d
        <4>1. d # Null
          BY <3>1, <3>4 DEF Sound, TypeOK
        <4>2. obj[d].ino_files # {cur}
          BY <2>5, <2>9, <3>4, <4>1
        <4>3. obj'[d].ino_files = obj[d].ino_files \ {cur}
          BY <2>2, <3>1, <3>4
        <4>4. PICK y \in obj[d].ino_files : y # cur
          BY <2>6, <4>1, <4>2
        <4>5. y \in obj'[d].ino_files
          BY <4>3, <4>4
        <4> QED BY <2>2, <3>1, <3>2, <3>4, <4>5
      <3> QED BY <3>3, <3>4
    <2>10. pc' = "remove" => cur' \in live' /\ obj'[cur'].ino < i
      BY <2>2, <2>5, <2>6
    <2>11. Scanned'
      BY <1>2, <2>3, <2>4, <2>7, <2>8, <2>9, <2>10 DEF Scanned
    <2>12. Growing' /\ Told' /\ Calm'
      BY <1>1, <2>3, <2>5 DEF Growing, Told, Calm
    <2> QED BY <2>11, <2>12 DEF Orderly
  <1> QED BY <1>4, <1>5, RemoveMeets

(* Once the scan has passed the whole table nothing is left, and the       *)
(* counts agree.                                                           *)
LEMMA CleanupOrderly ==
    ASSUME Sound, Orderly, CleanupEnd
    PROVE  Orderly'
  <1> USE ConstantsAssumption
  <1>1. pc = "scan" /\ failed = "none" /\ i = N /\ ~Idle
    BY DEF CleanupEnd, Running, Idle
  <1>2. /\ allocated \in 2..N /\ Ascending
        /\ removed = IF i = 0 THEN 0 ELSE IF i <= allocated THEN i-1 ELSE allocated-1
        /\ \A o \in live : obj[o].ino < i => obj[o].type = "DIRECTORY" /\ obj[o].ino_files # {}
    BY <1>1 DEF Orderly, Scanned
  <1>3. live = {}
    <2>1. \A o \in live : obj[o].ino \in Inos /\ obj[o].ino < i
      BY <1>1, TakenHasNoNext DEF Inos
    <2> QED BY <1>2, <2>1, NoneLeft
  <1>4. numfree + 1 = N
    <2>1. InUse = {INVALID_INO}
      BY <1>1, <1>3 DEF InUse
    <2>2. Inos \ InUse = 1..N-1
      BY <2>1 DEF Inos, INVALID_INO
    <2>3. Cardinality(1..N-1) = N-1
      BY FS_Interval
    <2>4. Cardinality(Inos \ InUse) = numfree
      BY ListLength DEF Sound, FreeList
    <2>5. numfree = N-1
      BY Zenon, <2>2, <2>3, <2>4
    <2> QED BY <2>5
  <1>5. removed + 1 = allocated
    BY <1>1, <1>2
  <1>6. next[INVALID_INO] = Null
    BY <1>1, TakenHasNoNext
  <1>7. pc' = "down" /\ failed' = failed
    BY <1>4, <1>5, <1>6 DEF CleanupEnd
  <1> QED BY <1>1, <1>7 DEF Orderly, Growing, Told, Scanned, Calm

(* An allowed failure stops the process and changes nothing. *)
LEMMA FailOrderly ==
    ASSUME Orderly, NEW l \in {"full", "readlink", "session"}, Fail(l)
    PROVE  Orderly'
  <1>1. /\ failed' = l /\ file' = file /\ next' = next /\ freelist' = freelist
        /\ numfree' = numfree /\ live' = live /\ obj' = obj /\ known' = known
        /\ opened' = opened /\ pc' = pc /\ cur' = cur /\ back' = back /\ i' = i
        /\ removed' = removed /\ allocated' = allocated
    BY DEF Fail, table, heap, kernel, removing, cleaning
  <1>2. purge' = purge
    BY DEF Fail, removing
  <1>3. Growing'
    BY <1>1 DEF Orderly, Growing, Ascending
  <1>4. Told'
    BY <1>1 DEF Orderly, Told
  <1>5. Scanned'
    BY <1>1, <1>2 DEF Orderly, Scanned, Ascending
  <1> QED BY <1>1, <1>3, <1>4, <1>5 DEF Orderly, Calm

(* A FUSE request reaches its file. *)
LEMMA FuseOrderly ==
    ASSUME Sound, Orderly, NEW ino \in known,
           \/ fs_fuse_getattr(ino) \/ fs_fuse_readdir(ino) \/ fs_fuse_xattr(ino)
           \/ fs_fuse_readlink(ino) \/ fs_fuse_open(ino) \/ fs_fuse_read(ino)
           \/ \E n \in Names : fs_fuse_lookup(ino, n)
    PROVE  Orderly'
  <1> USE ConstantsAssumption
  <1>1. pc = "serve" /\ failed = "none"
    BY DEF fs_fuse_getattr, fs_fuse_readdir, fs_fuse_xattr, fs_fuse_readlink, fs_fuse_open,
           fs_fuse_read, fs_fuse_lookup, Running
  <1>2. /\ ino \in Inos /\ file[ino] \in live /\ file[ino] # Null /\ Reaches(ino)
        /\ next[ino] = Null
    BY <1>1, KnownIsThere DEF Orderly
  <1>3. ~fs_fuse_getattr(ino) /\ ~fs_fuse_readdir(ino) /\ ~fs_fuse_xattr(ino)
    BY <1>2 DEF fs_fuse_getattr, fs_fuse_readdir, fs_fuse_xattr
  <1>4. ~fs_fuse_read(ino)
    <2> SUFFICES ASSUME fs_fuse_read(ino) PROVE FALSE
      OBVIOUS
    <2>1. ino \in opened /\ obj[file[ino]].type # "REGULAR"
      BY <1>2 DEF fs_fuse_read
    <2> QED BY <1>1, <2>1 DEF Orderly, Told
  <1>5. CASE fs_fuse_readlink(ino)
    BY <1>5, FailOrderly DEF fs_fuse_readlink
  <1>6. ASSUME pc' = pc, failed' = failed, UNCHANGED <<table, heap>> PROVE Growing' /\ Scanned' /\ Calm'
    <2>1. /\ file' = file /\ next' = next /\ freelist' = freelist
          /\ numfree' = numfree /\ live' = live /\ obj' = obj
      BY <1>6 DEF table, heap
    <2>2. Growing'
      BY <1>6, <2>1 DEF Orderly, Growing, Ascending
    <2> QED BY <1>1, <1>6, <2>2 DEF Scanned, Calm
  <1>7. CASE fs_fuse_open(ino)
    <2>1. /\ opened' = opened \cup {ino} /\ known' = known /\ obj[file[ino]].type = "REGULAR"
          /\ pc' = pc /\ failed' = failed /\ UNCHANGED <<table, heap>>
      BY <1>2, <1>7 DEF fs_fuse_open
    <2>2. Told'
      BY <2>1 DEF Orderly, Told, table, heap
    <2> QED BY <1>6, <2>1, <2>2 DEF Orderly
  <1>8. ASSUME NEW n \in Names, fs_fuse_lookup(ino, n) PROVE Orderly'
    <2>1. PICK x \in obj[file[ino]].nm_files : known' = known \cup {obj[x].ino}
      BY <1>2, <1>8 DEF fs_fuse_lookup
    <2>2. opened' = opened /\ pc' = pc /\ failed' = failed /\ UNCHANGED <<table, heap>>
      BY <1>2, <1>8 DEF fs_fuse_lookup
    <2>3. x \in live
      BY <1>2 DEF Sound, Items, Contents
    <2>4. obj[x].ino \in 1..(N - numfree)-1
      <3>1. obj[x].ino \in Inos /\ file[obj[x].ino] = x /\ x # Null
        BY <1>1, <2>3, TakenHasNoNext DEF Idle, Sound, TypeOK, Items, Entry
      <3>2. Named(file, live, obj, N - numfree, 0)
        BY <1>1 DEF Orderly, Growing
      <3> QED BY <3>1, <3>2 DEF Named
    <2>5. Told'
      BY <2>1, <2>2, <2>4 DEF Orderly, Told, table, heap
    <2> QED BY <1>6, <2>2, <2>5 DEF Orderly
  <1> QED BY <1>3, <1>4, <1>5, <1>7, <1>8

(* What a client did is not forgotten. *)
LEMMA HistGrows == Next => hist \subseteq hist'
  <1> SUFFICES ASSUME Next PROVE hist \subseteq hist'
    OBVIOUS
  <1>1. ASSUME NEW l, Fail(l) PROVE hist \subseteq hist'
    BY <1>1 DEF Fail
  <1>2. CASE MkdirFails \/ Mount \/ Unmount \/ CleanupEnd \/ Scan \/ grow_inotable
        \/ SessionFails
    BY <1>1, <1>2 DEF MkdirFails, Mount, Unmount, CleanupEnd, Scan, grow_inotable, SessionFails
  <1>3. CASE RemoveOne
    <2>1. ASSUME NEW d, Unlink(d) PROVE hist \subseteq hist'
      BY <2>1 DEF Unlink
    <2>2. ASSUME Return PROVE hist \subseteq hist'
      BY <2>2 DEF Return
    <2> QED BY <1>1, <1>3, <2>1, <2>2 DEF RemoveOne
  <1>4. ASSUME NEW o \in Objs, fsCreate(o) PROVE hist \subseteq hist'
    BY <1>4 DEF fsCreate
  <1>5. ASSUME NEW o \in Objs, NEW p \in BOOLEAN, fsRemoveitem(o, p) PROVE hist \subseteq hist'
    BY <1>5 DEF fsRemoveitem
  <1>6. ASSUME NEW o, NEW d, NEW n, NEW t, Create(d, n, t, o) PROVE hist \subseteq hist'
    BY <1>1, <1>6 DEF Create
  <1>7. ASSUME NEW ino \in known,
               \/ fs_fuse_getattr(ino) \/ fs_fuse_readdir(ino) \/ fs_fuse_xattr(ino)
               \/ fs_fuse_readlink(ino) \/ fs_fuse_open(ino) \/ fs_fuse_read(ino)
               \/ \E n \in Names : fs_fuse_lookup(ino, n)
        PROVE  hist \subseteq hist'
    BY <1>1, <1>7 DEF fs_fuse_getattr, fs_fuse_readdir, fs_fuse_xattr, fs_fuse_readlink,
                      fs_fuse_open, fs_fuse_read, fs_fuse_lookup
  <1> QED BY <1>2, <1>3, <1>4, <1>5, <1>6, <1>7 DEF Next, fsCreatedir, fsCreatefile

(* Every step keeps the order, unless the client removes an item or uses a *)
(* name twice.                                                             *)
LEMMA OrderlyStep ==
    ASSUME Sound, Orderly, hist = {}, hist' = {}, Next
    PROVE  Orderly'
  <1> USE ConstantsAssumption
  <1>1. CASE MkdirFails
    BY <1>1 DEF MkdirFails, Running, Orderly, Growing, Told, Scanned, Calm
  <1>2. CASE Mount
    <2>1. /\ pc = "build" /\ pc' = "serve" /\ known' = {ROOT_INO} /\ opened' = opened
          /\ failed' = failed /\ file' = file /\ next' = next /\ freelist' = freelist
          /\ numfree' = numfree /\ live' = live /\ obj' = obj
      BY <1>2 DEF Mount, Running, table, heap
    <2>2. Growing'
      BY <2>1 DEF Orderly, Growing, Ascending
    <2>3. Told'
      <3>1. opened = {}
        BY <2>1 DEF Sound, Stages, Unmounted
      <3>2. ROOT_INO \in 1..(N - numfree)-1
        BY <2>1 DEF Orderly, Growing, ROOT_INO
      <3> QED BY <2>1, <3>1, <3>2 DEF Told
    <2> QED BY <2>1, <2>2, <2>3 DEF Orderly, Scanned, Calm
  <1>3. CASE Unmount
    <2>1. /\ pc \in {"build", "serve"} /\ pc' = "scan" /\ i' = 0 /\ removed' = 0
          /\ allocated' = N - numfree /\ failed' = failed
          /\ file' = file /\ live' = live /\ obj' = obj
      BY <1>3 DEF Unmount, table, heap
    <2>2. allocated' \in 2..N /\ Named(file', live', obj', allocated', i') /\ Ascending'
      BY <2>1 DEF Orderly, Growing, Ascending
    <2>3. \A o \in live : ~(obj[o].ino < 0)
      <3>1. \A o \in live : obj[o].ino \in Inos
        BY <2>1, TakenHasNoNext DEF Idle
      <3> QED BY <3>1 DEF Inos
    <2>4. Scanned'
      BY <2>1, <2>2, <2>3 DEF Scanned
    <2> QED BY <2>1, <2>4 DEF Orderly, Growing, Told, Calm
  <1>4. CASE grow_inotable \/ SessionFails
    BY <1>4, FailOrderly DEF grow_inotable, SessionFails
  <1>5. ASSUME NEW o \in Objs, NEW p \in BOOLEAN, fsRemoveitem(o, p) PROVE FALSE
    BY <1>5 DEF fsRemoveitem
  <1>6. \A o \in Objs, d \in live, n \in Names :
           fsCreatedir(d, n, o) \/ fsCreatefile(d, n, o) => \E t \in Types : Create(d, n, t, o)
    BY DEF fsCreatedir, fsCreatefile, Types
  <1> QED BY <1>1, <1>2, <1>3, <1>4, <1>5, <1>6, RootOrderly, CreateOrderly, ScanOrderly,
             RemoveOrderly, CleanupOrderly, FuseOrderly DEF Next

(* A client that never removes an item nor uses a name twice meets none of *)
(* the assertions of fs.c and no freed object, up to the end of fsCleanup: *)
(* inodes are then handed out in ascending order, so that the scan meets   *)
(* every directory before what it holds and purges it with the last of it. *)
THEOREM CreatingIsSafe == Spec => []NoAssert
  <1>1. Init => Clean
    BY DEF Init, Clean, Orderly, Growing, Told, Scanned, Calm
  <1>2. Sound /\ Clean /\ [Next]_vars => Clean'
    <2> SUFFICES ASSUME Sound, Clean, [Next]_vars, hist' = {} PROVE Orderly'
      BY DEF Clean
    <2>1. CASE UNCHANGED vars
      <3>1. /\ file' = file /\ next' = next /\ freelist' = freelist
            /\ numfree' = numfree /\ live' = live /\ obj' = obj /\ known' = known
            /\ opened' = opened /\ pc' = pc /\ cur' = cur /\ back' = back /\ i' = i
            /\ removed' = removed /\ allocated' = allocated /\ hist' = hist /\ failed' = failed
        BY <2>1 DEF vars, table, heap, kernel, removing, cleaning
      <3>2. purge' = purge
        BY <2>1 DEF vars, removing
      <3>3. Orderly
        BY <3>1 DEF Clean
      <3>4. Growing'
        BY <3>1, <3>3 DEF Orderly, Growing, Ascending
      <3>5. Told'
        BY <3>1, <3>3 DEF Orderly, Told
      <3>6. Scanned'
        BY <3>1, <3>2, <3>3 DEF Orderly, Scanned, Ascending
      <3> QED BY <3>1, <3>3, <3>4, <3>5, <3>6 DEF Orderly, Calm
    <2>2. CASE Next
      <3>1. hist \subseteq hist'
        BY <2>2, HistGrows
      <3>2. hist = {} /\ Orderly
        BY <3>1 DEF Clean
      <3> QED BY <2>2, <3>2, OrderlyStep
    <2> QED BY <2>1, <2>2
  <1>3. Clean => NoAssert
    BY DEF Clean, Orderly, Calm, NoAssert
  <1> QED BY <1>1, <1>2, <1>3, SoundAlways, PTL DEF Spec
=============================================================================

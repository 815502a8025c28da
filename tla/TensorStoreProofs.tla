-------------------------- MODULE TensorStoreProofs --------------------------
(***************************************************************************)
(* Proofs about MMapFile and TensorStore, for any number of objects, any   *)
(* file and chunk sizes, any page size and any width of a word.            *)
(*                                                                         *)
(* That no descriptor and no mapping is lost or released twice is about    *)
(* who owns which: the books of the objects agree with those of the        *)
(* system, and no two objects name the same resource (Books).  That the    *)
(* slices tile the file holds while they are being cut, for the part that  *)
(* is cut (Cut).                                                           *)
(***************************************************************************)
EXTENDS TensorStore, FiniteSetTheorems, SequenceTheorems, TLAPS

OwnersIn(a, fs) == {o \in a : fs[o].data # NoData}

File == [fd : Fds \cup {NoFd}, data : Mappings \cup {NoData}, size : Nat]

\* Objects a with members fs own the descriptors ds and the mappings ms.
Books(a, fs, ds, ms) ==
    /\ a \subseteq Objects /\ fs \in [Objects -> File]
    /\ \A o \in Objects \ OwnersIn(a, fs) : fs[o] = Closed
    /\ \A o \in OwnersIn(a, fs) : fs[o].fd \in Fds
    /\ \A o, p \in OwnersIn(a, fs) :
          fs[o].fd = fs[p].fd \/ fs[o].data = fs[p].data => o = p
    /\ ds = {fs[o].fd : o \in OwnersIn(a, fs)}
    /\ DOMAIN ms = {fs[o].data : o \in OwnersIn(a, fs)}
    /\ \A o \in OwnersIn(a, fs) : ms[fs[o].data] = fs[o].size

MMapInv == IsFiniteSet(alive) /\ Books(alive, files, fds, maps)

Slice(i) == [id |-> i - 1, offset |-> (i - 1) * chunk,
             bytes |-> Least(chunk, FileSize - (i - 1) * chunk)]

\* The slices cut so far, and where the loop is.
Cut ==
    /\ store \in {"none", "cutting", "ready"} /\ chunk \in Nat /\ cut \in Nat
    /\ slices \in Seq([id : Nat, offset : Nat, bytes : Nat])
    /\ store = "none" => slices = <<>> /\ cut = 0
    /\ store # "none" =>
          /\ cut = Least(Len(slices) * chunk, FileSize)
          /\ \A i \in 1 .. Len(slices) : slices[i] = Slice(i) /\ (i - 1) * chunk < FileSize
    /\ store = "ready" => chunk > 0 /\ cut >= FileSize

StoreInv == MMapInv /\ AdviceCoversRequest /\ Cut

-----------------------------------------------------------------------------
(***************************************************************************)
(* Ownership.                                                              *)
(***************************************************************************)
\* As many resources as owners, as no two share one.
LEMMA OneEach ==
    ASSUME NEW S, IsFiniteSet(S), NEW T, NEW f \in [S -> T], T = {f[s] : s \in S},
           \A s, t \in S : f[s] = f[t] => s = t
    PROVE  Cardinality(T) = Cardinality(S)
<1>1. f \in Bijection(S, T)
  BY DEF Bijection, Injection, Surjection, IsInjective
<1>2. ExistsBijection(S, T)
  BY <1>1 DEF ExistsBijection
<1> QED  BY <1>2, FS_Bijection

LEMMA OwnedOnce == MMapInv => EveryResourceIsOwnedOnce
<1> SUFFICES ASSUME MMapInv PROVE EveryResourceIsOwnedOnce
  OBVIOUS
<1>1. Owners = OwnersIn(alive, files) /\ IsFiniteSet(Owners) /\ Owners \subseteq Objects
  <2>1. Owners = OwnersIn(alive, files)
    BY DEF Owners, OwnersIn
  <2>2. Owners \in SUBSET alive /\ alive \subseteq Objects
    BY DEF Owners, MMapInv, Books
  <2> QED  BY <2>1, <2>2, FS_Subset DEF MMapInv
<1>2. Cardinality(fds) = Cardinality(Owners)
  <2> DEFINE f == [o \in Owners |-> files[o].fd]
  <2>1. f \in [Owners -> fds] /\ fds = {f[o] : o \in Owners}
    BY <1>1 DEF MMapInv, Books
  <2>2. \A o, p \in Owners : f[o] = f[p] => o = p
    BY <1>1 DEF MMapInv, Books
  <2> HIDE DEF f
  <2> QED  BY <1>1, <2>1, <2>2, OneEach
<1>3. Cardinality(DOMAIN maps) = Cardinality(Owners)
  <2> DEFINE f == [o \in Owners |-> files[o].data]
  <2>1. f \in [Owners -> DOMAIN maps] /\ DOMAIN maps = {f[o] : o \in Owners}
    BY <1>1 DEF MMapInv, Books
  <2>2. \A o, p \in Owners : f[o] = f[p] => o = p
    BY <1>1 DEF MMapInv, Books
  <2> HIDE DEF f
  <2> QED  BY <1>1, <2>1, <2>2, OneEach
<1> QED  BY <1>1, <1>2, <1>3 DEF MMapInv, Books, EveryResourceIsOwnedOnce

\* close(): the object's descriptor and mapping go, and no other.
LEMMA Released ==
    ASSUME Books(alive, files, fds, maps), NEW o \in Objects
    PROVE  /\ Books(alive, [files EXCEPT ![o] = Closed], FdsAfterClose(files[o]),
                    MapsAfterClose(files[o]))
           /\ \A m \in DOMAIN MapsAfterClose(files[o]) : MapsAfterClose(files[o])[m] = maps[m]
<1> DEFINE fs == [files EXCEPT ![o] = Closed]
           own == OwnersIn(alive, files)
           rest == OwnersIn(alive, fs)
           ms == MapsAfterClose(files[o])
<1> USE MMapAssumption DEF Books
<1>1. /\ fs \in [Objects -> File] /\ fs[o] = Closed /\ Closed.data = NoData
      /\ \A p \in Objects : p # o => fs[p] = files[p]
  BY DEF Closed, File
<1>2. rest = own \ {o}
  BY <1>1 DEF OwnersIn
<1>3. /\ own \subseteq Objects
      /\ \A p \in own : files[p].fd \in Fds /\ files[p].data \in Mappings
  BY DEF OwnersIn, File
<1>4. FdsAfterClose(files[o]) = {fs[p].fd : p \in rest}
  <2> HIDE DEF fs, rest
  <2>1. fds = {files[p].fd : p \in own}
    OBVIOUS
  <2>2. ASSUME NEW p \in rest PROVE fs[p].fd \in fds /\ fs[p].fd # files[o].fd
    <3>1. p \in own /\ p # o /\ fs[p] = files[p]
      BY <1>1, <1>2, <1>3
    <3>2. CASE o \in own
      BY <2>1, <3>1, <3>2
    <3>3. CASE o \notin own
      <4>1. files[o].fd = NoFd
        BY <3>3 DEF Closed
      <4> QED  BY <1>3, <2>1, <3>1, <4>1
    <3> QED  BY <3>2, <3>3
  <2>3. ASSUME NEW d \in fds, d # files[o].fd PROVE d \in {fs[p].fd : p \in rest}
    <3>1. PICK p \in own : d = files[p].fd
      BY <2>1
    <3>2. p \in rest /\ fs[p] = files[p]
      BY <1>1, <1>2, <1>3, <2>3, <3>1
    <3> QED  BY <3>1, <3>2
  <2>4. {fs[p].fd : p \in rest} \subseteq fds \ {files[o].fd}
    BY <2>2
  <2>5. fds \ {files[o].fd} \subseteq {fs[p].fd : p \in rest}
    BY <2>3
  <2> QED  BY <2>4, <2>5 DEF FdsAfterClose
<1>5. /\ DOMAIN ms = {fs[p].data : p \in rest}
      /\ \A m \in DOMAIN ms : m \in DOMAIN maps /\ m # files[o].data /\ ms[m] = maps[m]
  <2>1. DOMAIN ms = {m \in DOMAIN maps : m # files[o].data \/ maps[m] # files[o].size}
    BY DEF MapsAfterClose
  <2>2. CASE o \in own
    <3>1. DOMAIN ms = DOMAIN maps \ {files[o].data}
      BY <2>1, <2>2
    <3>2. \A m \in DOMAIN ms : m \in DOMAIN maps /\ m # files[o].data /\ ms[m] = maps[m]
      BY <2>1, <3>1 DEF MapsAfterClose
    <3>3. DOMAIN maps = {files[p].data : p \in own}
      OBVIOUS
    <3> HIDE DEF fs, rest, ms
    <3>4. ASSUME NEW p \in rest PROVE fs[p].data \in DOMAIN ms
      <4>1. p \in own /\ p # o /\ fs[p] = files[p]
        BY <1>1, <1>2, <1>3
      <4> QED  BY <2>2, <3>1, <3>3, <4>1
    <3>5. ASSUME NEW m \in DOMAIN ms PROVE m \in {fs[p].data : p \in rest}
      <4>1. PICK p \in own : m = files[p].data
        BY <3>2, <3>3
      <4>2. p \in rest /\ fs[p] = files[p]
        BY <1>1, <1>2, <1>3, <3>2, <4>1
      <4> QED  BY <4>1, <4>2
    <3>6. /\ {fs[p].data : p \in rest} \subseteq DOMAIN ms
          /\ DOMAIN ms \subseteq {fs[p].data : p \in rest}
      BY <3>4, <3>5
    <3>7. DOMAIN ms = {fs[p].data : p \in rest}
      BY <3>6
    <3> QED  BY <3>2, <3>7
  <2>3. CASE o \notin own
    <3>1. files[o].data = NoData
      BY <2>3 DEF Closed
    <3>2. \A m \in DOMAIN maps : m # NoData
      BY <1>3
    <3>3. DOMAIN ms = DOMAIN maps
      BY <2>1, <3>1, <3>2
    <3>4. \A m \in DOMAIN ms : m # files[o].data /\ ms[m] = maps[m]
      BY <2>1, <3>1, <3>2, <3>3 DEF MapsAfterClose
    <3>6. DOMAIN maps = {files[p].data : p \in own}
      OBVIOUS
    <3> HIDE DEF fs, rest, ms
    <3>5. rest = own /\ \A p \in own : fs[p] = files[p]
      <4> HIDE DEF own
      <4> QED  BY <1>1, <1>2, <1>3, <2>3
    <3> QED  BY <3>3, <3>4, <3>5, <3>6
  <2> QED  BY <2>2, <2>3
<1>6. \A p \in Objects \ rest : fs[p] = Closed
  BY <1>1, <1>2
<1>7. /\ \A p \in rest : fs[p].fd \in Fds
      /\ \A p, r \in rest : fs[p].fd = fs[r].fd \/ fs[p].data = fs[r].data => p = r
  BY <1>1, <1>2, <1>3
<1>8. \A p \in rest : ms[fs[p].data] = fs[p].size
  <2> TAKE p \in rest
  <2>1. p \in own /\ fs[p] = files[p] /\ fs[p].data \in DOMAIN ms
    BY <1>1, <1>2, <1>3, <1>5
  <2> QED  BY <2>1, <1>5
<1> HIDE DEF fs, rest, ms
<1> QED  BY <1>1, <1>4, <1>5, <1>6, <1>7, <1>8 DEF fs, rest, ms

\* open(): a closed object takes a descriptor and a mapping nobody has.
LEMMA Acquired ==
    ASSUME NEW a, NEW fs, NEW ds, NEW ms, Books(a, fs, ds, ms), NEW o \in a, fs[o] = Closed,
           NEW fd \in Fds \ ds, NEW data \in Mappings \ DOMAIN ms, NEW size \in Nat,
           NEW mm, DOMAIN mm = DOMAIN ms \cup {data}, mm[data] = size,
           \A m \in DOMAIN ms : mm[m] = ms[m]
    PROVE  Books(a, [fs EXCEPT ![o] = [fd |-> fd, data |-> data, size |-> size]],
                 ds \cup {fd}, mm)
<1> DEFINE gs == [fs EXCEPT ![o] = [fd |-> fd, data |-> data, size |-> size]]
           own == OwnersIn(a, fs)
           all == OwnersIn(a, gs)
<1> USE MMapAssumption DEF Books
<1>1. /\ gs \in [Objects -> File]
      /\ gs[o].fd = fd /\ gs[o].data = data /\ gs[o].size = size /\ data # NoData
      /\ \A p \in Objects : p # o => gs[p] = fs[p]
  BY DEF File
<1>2. o \notin own /\ own \subseteq Objects
  BY DEF OwnersIn, Closed
<1>3. all = own \cup {o}
  BY <1>1, <1>2 DEF OwnersIn
<1>4. \A p \in own : gs[p] = fs[p] /\ fs[p].fd \in ds /\ fs[p].data \in DOMAIN ms
  BY <1>1, <1>2
<1> HIDE DEF gs, all
<1>5. \A p \in Objects \ all : gs[p] = Closed
  BY <1>1, <1>3
<1>6. /\ \A p \in all : gs[p].fd \in Fds
      /\ \A p, r \in all : gs[p].fd = gs[r].fd \/ gs[p].data = gs[r].data => p = r
  BY <1>1, <1>3, <1>4
<1>7. ds \cup {fd} = {gs[p].fd : p \in all}
  BY <1>1, <1>3, <1>4
<1>8. DOMAIN mm = {gs[p].data : p \in all}
  BY <1>1, <1>3, <1>4
<1>9. \A p \in all : mm[gs[p].data] = gs[p].size
  BY <1>1, <1>3, <1>4
<1> QED  BY <1>1, <1>5, <1>6, <1>7, <1>8, <1>9 DEF gs, all

\* An object that owns nothing comes into existence, or goes.
LEMMA ClosedObject ==
    ASSUME NEW a, NEW fs, NEW ds, NEW ms, Books(a, fs, ds, ms), NEW o \in Objects,
           fs[o] = Closed
    PROVE  Books(a \cup {o}, fs, ds, ms) /\ Books(a \ {o}, fs, ds, ms)
<1>1. OwnersIn(a \cup {o}, fs) = OwnersIn(a, fs) /\ OwnersIn(a \ {o}, fs) = OwnersIn(a, fs)
  BY DEF OwnersIn, Closed
<1> QED  BY <1>1 DEF Books

\* A move: one object gives what it owns to one that owns nothing.
LEMMA Moved ==
    ASSUME NEW a, NEW fs, NEW ds, NEW ms, Books(a, fs, ds, ms),
           NEW o \in a, NEW from \in a, o # from, fs[o] = Closed
    PROVE  Books(a, [fs EXCEPT ![o] = fs[from], ![from] = Closed], ds, ms)
<1> DEFINE gs == [fs EXCEPT ![o] = fs[from], ![from] = Closed]
           own == OwnersIn(a, fs)
           all == OwnersIn(a, gs)
<1> USE DEF Books
<1>1. /\ gs \in [Objects -> File] /\ gs[o] = fs[from] /\ gs[from] = Closed
      /\ \A p \in Objects : p # o /\ p # from => gs[p] = fs[p]
  BY MMapAssumption DEF File, Closed
<1>2. o \notin own /\ own \subseteq Objects /\ Closed.data = NoData
  BY DEF OwnersIn, Closed
<1>3. CASE from \in own
  <2>1. all = (own \ {from}) \cup {o}
    BY <1>1, <1>2, <1>3 DEF OwnersIn
  <2> HIDE DEF gs, all
  <2>2. \A p \in Objects \ all : gs[p] = Closed
    BY <1>1, <2>1
  <2>3. /\ \A p \in all : gs[p].fd \in Fds
        /\ \A p, r \in all : gs[p].fd = gs[r].fd \/ gs[p].data = gs[r].data => p = r
    BY <1>1, <1>2, <1>3, <2>1
  <2>4. ds = {gs[p].fd : p \in all} /\ DOMAIN ms = {gs[p].data : p \in all}
    BY <1>1, <1>2, <1>3, <2>1
  <2>5. \A p \in all : ms[gs[p].data] = gs[p].size
    BY <1>1, <1>2, <1>3, <2>1
  <2> QED  BY <1>1, <2>2, <2>3, <2>4, <2>5 DEF gs, all
<1>4. CASE from \notin own
  <2>1. fs[from] = Closed
    BY <1>4
  <2>2. gs = fs
    <3>1. \A p \in Objects : gs[p] = fs[p]
      BY <1>1, <1>2, <2>1
    <3> HIDE DEF gs
    <3> QED  BY <1>1, <3>1
  <2> HIDE DEF Books
  <2>3. Books(a, gs, ds, ms)
    BY <2>2, Zenon
  <2> QED  BY <2>3, Zenon
<1> QED  BY <1>3, <1>4

-----------------------------------------------------------------------------
(***************************************************************************)
(* Every operation keeps the books.                                        *)
(***************************************************************************)
LEMMA AliveKept ==
    ASSUME IsFiniteSet(alive), NEW o
    PROVE  IsFiniteSet(alive \cup {o}) /\ IsFiniteSet(alive \ {o})
BY FS_AddElement, FS_RemoveElement

LEMMA OpenKept ==
    ASSUME MMapInv, NEW o \in Objects, OpenSucceeds(o), alive' = alive \cup {o}
    PROVE  MMapInv'
<1> DEFINE fs == [files EXCEPT ![o] = Closed]
           ds == FdsAfterClose(files[o])
           ms == MapsAfterClose(files[o])
<1>1. PICK fd \in Fds \ ds, data \in Mappings \ DOMAIN ms, size \in Sizes \ {0} :
         /\ fds' = ds \cup {fd}
         /\ maps' = [m \in DOMAIN ms \cup {data} |-> IF m = data THEN size ELSE maps[m]]
         /\ files' = [files EXCEPT ![o] = [fd |-> fd, data |-> data, size |-> size]]
  BY DEF OpenSucceeds
<1>2. Books(alive, fs, ds, ms) /\ \A m \in DOMAIN ms : ms[m] = maps[m]
  BY Released DEF MMapInv
<1>3. fs[o] = Closed /\ o \in alive'
      /\ files' = [fs EXCEPT ![o] = [fd |-> fd, data |-> data, size |-> size]]
  BY <1>1 DEF MMapInv, Books
<1> HIDE DEF fs, ds, ms
<1>4. Books(alive', fs, ds, ms)
  BY <1>2, <1>3, ClosedObject
<1>5. /\ DOMAIN maps' = DOMAIN ms \cup {data} /\ maps'[data] = size
      /\ \A m \in DOMAIN ms : maps'[m] = ms[m]
  BY <1>1, <1>2
<1>6. size \in Nat
  BY MMapAssumption
<1>7. Books(alive', files', fds', maps')
  <2>1. fd \in Fds \ ds /\ data \in Mappings \ DOMAIN ms
    OBVIOUS
  <2>2. Books(alive', [fs EXCEPT ![o] = [fd |-> fd, data |-> data, size |-> size]],
              ds \cup {fd}, maps')
    BY <1>3, <1>4, <1>5, <1>6, <2>1, Acquired, Zenon
  <2> QED  BY <1>1, <1>3, <2>2, Zenon
<1> QED  BY <1>7, AliveKept DEF MMapInv

LEMMA ReleaseKept ==
    ASSUME MMapInv, NEW o \in Objects, fds' = FdsAfterClose(files[o]),
           maps' = MapsAfterClose(files[o]), files' = [files EXCEPT ![o] = Closed],
           alive' = alive \/ alive' = alive \ {o}
    PROVE  MMapInv'
<1>1. Books(alive, files', fds', maps')
  BY Released DEF MMapInv
<1>2. files'[o] = Closed
  BY DEF MMapInv, Books
<1>3. Books(alive', files', fds', maps')
  <2>1. /\ Books(alive \cup {o}, files', fds', maps')
        /\ Books(alive \ {o}, files', fds', maps')
    BY <1>1, <1>2, ClosedObject, Zenon
  <2> QED  BY <1>1, <2>1, Zenon
<1> QED  BY <1>3, AliveKept DEF MMapInv

LEMMA OpenFailsKept ==
    ASSUME MMapInv, NEW o \in Objects, OpenFails(o), UNCHANGED alive
    PROVE  MMapInv'
BY ReleaseKept DEF OpenFails, DescriptorClosed

LEMMA MoveKept ==
    ASSUME MMapInv, NEW o \in Objects, NEW from \in Objects,
           MoveConstruct(o, from) \/ MoveAssign(o, from)
    PROVE  MMapInv'
<1>1. CASE MoveConstruct(o, from)
  <2>1. /\ o \notin alive /\ from \in alive /\ alive' = alive \cup {o}
        /\ files' = [files EXCEPT ![o] = files[from], ![from] = Closed]
        /\ fds' = fds /\ maps' = maps
    BY <1>1 DEF MoveConstruct
  <2>2. files[o] = Closed /\ o # from /\ o \in alive' /\ from \in alive'
    BY <2>1 DEF MMapInv, Books, OwnersIn
  <2>3. Books(alive', files, fds, maps)
    BY <2>1, <2>2, ClosedObject DEF MMapInv
  <2>4. Books(alive', files', fds', maps')
    BY <2>1, <2>2, <2>3, Moved
  <2> QED  BY <2>1, <2>4, AliveKept DEF MMapInv
<1>2. CASE MoveAssign(o, from) /\ o = from
  BY <1>2 DEF MoveAssign, MMapInv
<1>3. CASE MoveAssign(o, from) /\ o # from
  <2> DEFINE fs == [files EXCEPT ![o] = Closed]
  <2>1. /\ o \in alive /\ from \in alive /\ alive' = alive
        /\ fds' = FdsAfterClose(files[o]) /\ maps' = MapsAfterClose(files[o])
        /\ files' = [files EXCEPT ![o] = files[from], ![from] = Closed]
    BY <1>3 DEF MoveAssign, ReleasesTarget
  <2>2. Books(alive, fs, fds', maps')
    BY <2>1, Released DEF MMapInv
  <2>3. fs[o] = Closed /\ files' = [fs EXCEPT ![o] = fs[from], ![from] = Closed]
    BY <1>3, <2>1 DEF MMapInv, Books
  <2> HIDE DEF fs
  <2>4. Books(alive, files', fds', maps')
    <3>1. Books(alive, [fs EXCEPT ![o] = fs[from], ![from] = Closed], fds', maps')
      BY <1>3, <2>1, <2>2, <2>3, Moved, Zenon
    <3> QED  BY <2>3, <3>1, Zenon
  <2> QED  BY <2>1, <2>4 DEF MMapInv
<1> QED  BY <1>1, <1>2, <1>3

LEMMA ObjectsKept ==
    ASSUME MMapInv, NEW some \in SUBSET Objects, MMapNext(some)
    PROVE  MMapInv'
<1>1. PICK o \in some :
         \/ Construct(o) \/ Open(o) \/ Close(o) \/ Destroy(o)
         \/ \E from \in some : MoveConstruct(o, from) \/ MoveAssign(o, from)
  BY DEF MMapNext
<1>2. CASE Construct(o)
  <2>1. CASE alive' = alive \cup {o} /\ UNCHANGED <<files, fds, maps, advised>>
    <3>1. files[o] = Closed
      BY <1>2 DEF Construct, MMapInv, Books, OwnersIn
    <3>2. Books(alive', files, fds, maps)
      BY <2>1, <3>1, ClosedObject DEF MMapInv
    <3> QED  BY <2>1, <3>2, AliveKept DEF MMapInv
  <2> QED  BY <1>2, <2>1, OpenKept, OpenFailsKept DEF Construct
<1>3. CASE Open(o)
  <2>1. alive' = alive \cup {o}
    BY <1>3 DEF Open
  <2> QED  BY <1>3, <2>1, OpenKept, OpenFailsKept DEF Open
<1>4. CASE Close(o) \/ Destroy(o)
  BY <1>4, ReleaseKept DEF Close, Destroy, Closes
<1> QED  BY <1>1, <1>2, <1>3, <1>4, MoveKept

-----------------------------------------------------------------------------
(***************************************************************************)
(* Advice.                                                                 *)
(***************************************************************************)
LEMMA DownToPage ==
    ASSUME NEW x \in Nat, NEW p \in Nat \ {0}
    PROVE  /\ (x \div p) * p \in Nat /\ x % p \in 0 .. (p - 1)
           /\ x = (x \div p) * p + (x % p) /\ ((x \div p) * p) % p = 0
<1>1. /\ x \div p \in Nat /\ x % p \in 0 .. (p - 1)
      /\ (x \div p) * p \in Nat /\ x = (x \div p) * p + (x % p)
  BY SMT
<1>2. \A k \in Nat : (k * p) % p = 0
  BY Z3
<1> QED  BY <1>1, <1>2

LEMMA AdviceKept ==
    ASSUME AdviceCoversRequest, NEW size \in Nat, NEW off \in Nat, NEW len \in Nat,
           Advises(size, off, len)
    PROVE  AdviceCoversRequest'
<1>1. CASE UNCHANGED advised
  BY <1>1 DEF AdviceCoversRequest
<1>2. CASE ~(UNCHANGED advised)
  <2> DEFINE end == off + Least(len, size - off)
             rem == end % Page
  <2>1. /\ len > 0 /\ off < size
        /\ advised' = [size |-> size, off |-> off, len |-> len,
                       lo |-> AdviceStart(off), hi |-> AdviceEnd(size, off, len)]
    BY <1>2 DEF Advises
  <2>2. Page \in Nat \ {0} /\ MaxU64 \in Nat
    BY MMapAssumption
  <2>3. /\ AdviceStart(off) <= off /\ AdviceStart(off) % Page = 0
        /\ off - AdviceStart(off) < Page
    <3> DEFINE lo == (off \div Page) * Page
               r == off % Page
    <3>1. lo \in Nat /\ r \in 0 .. (Page - 1) /\ off = lo + r /\ lo % Page = 0
      BY <2>2, DownToPage
    <3> HIDE DEF lo, r
    <3>2. lo <= off /\ off - lo < Page
      BY <2>2, <3>1
    <3> QED  BY <3>1, <3>2 DEF AdviceStart, lo
  <2>4. end \in Nat /\ end <= size /\ end = Least(off + len, size)
    BY <2>1 DEF Least
  <2>5. rem \in 0 .. (Page - 1)
    BY <2>2, <2>4, DownToPage
  <2>6. AdviceEnd(size, off, len) =
           Least(IF rem # 0 /\ end <= MaxU64 - (Page - rem) THEN end + (Page - rem) ELSE end, size)
    BY DEF AdviceEnd
  <2> HIDE DEF end, rem
  <2>7. /\ end <= AdviceEnd(size, off, len) /\ AdviceEnd(size, off, len) <= size
        /\ AdviceEnd(size, off, len) - end < Page
    BY <2>2, <2>4, <2>5, <2>6 DEF Least
  <2> QED  BY <2>1, <2>3, <2>4, <2>7 DEF AdviceCoversRequest
<1> QED  BY <1>1, <1>2

LEMMA OpenAdvises ==
    ASSUME AdviceCoversRequest, NEW o, OpenSucceeds(o)
    PROVE  AdviceCoversRequest'
<1>1. PICK size \in Sizes \ {0} : Advises(size, 0, size)
  BY DEF OpenSucceeds
<1>2. size \in Nat /\ 0 \in Nat
  BY MMapAssumption
<1> QED  BY <1>1, <1>2, AdviceKept

-----------------------------------------------------------------------------
(***************************************************************************)
(* The slices.                                                             *)
(***************************************************************************)
LEMMA OneMore ==
    ASSUME NEW n \in Nat, NEW c \in Nat
    PROVE  n * c \in Nat /\ (n + 1) * c = n * c + c
BY SMT

\* CutSlice appends the next slice: it starts where the others end.
LEMMA SliceKept ==
    ASSUME Cut, FileSize \in Nat, CutSlice
    PROVE  Cut'
<1> DEFINE n == Len(slices)
           s == [id |-> n, offset |-> cut, bytes |-> SliceBytes(cut)]
<1>1. /\ store = "cutting" /\ store' = store /\ chunk \in Nat \ {0} /\ chunk' = chunk
      /\ cut < FileSize /\ FileSize' = FileSize /\ slices' = Append(slices, s)
      /\ cut' = cut + SliceBytes(cut)
  BY DEF CutSlice, Cut, mmapVars, FileSize
<1>2. n \in Nat /\ slices \in Seq([id : Nat, offset : Nat, bytes : Nat])
  BY LenProperties DEF Cut
<1>3. cut = Least(n * chunk, FileSize) /\ n * chunk \in Nat
  BY <1>1, <1>2, OneMore DEF Cut
<1>4. cut = n * chunk
  BY <1>1, <1>3 DEF Least
<1>5. SliceBytes(cut) \in Nat /\ cut' = Least(n * chunk + chunk, FileSize)
      /\ SliceBytes(cut) = Least(chunk, FileSize - n * chunk)
  <2> DEFINE z == n * chunk
  <2>1. z \in Nat /\ cut = z /\ z < FileSize
    BY <1>1, <1>3, <1>4
  <2> HIDE DEF z, n
  <2>2. SliceBytes(cut) = Least(chunk, FileSize - z)
    BY <2>1 DEF SliceBytes
  <2>3. SliceBytes(cut) \in Nat /\ cut' = Least(z + chunk, FileSize)
    BY <1>1, <2>1, <2>2 DEF Least
  <2> QED  BY <2>2, <2>3 DEF z
<1>6. cut' = Least((n + 1) * chunk, FileSize)
  BY <1>1, <1>2, <1>5, OneMore
<1>7. s \in [id : Nat, offset : Nat, bytes : Nat]
  BY <1>2, <1>3, <1>4, <1>5
<1>8. s = [id |-> (n + 1) - 1, offset |-> ((n + 1) - 1) * chunk,
           bytes |-> Least(chunk, FileSize - ((n + 1) - 1) * chunk)]
  <2>1. (n + 1) - 1 = n
    BY <1>2
  <2> HIDE DEF n
  <2> QED  BY <1>4, <1>5, <2>1
<1> HIDE DEF s
<1>9. /\ slices' \in Seq([id : Nat, offset : Nat, bytes : Nat])
      /\ Len(slices') = n + 1 /\ slices'[n + 1] = s
      /\ \A i \in 1 .. n : slices'[i] = slices[i]
  BY <1>1, <1>2, <1>7, AppendProperties
<1>10. ASSUME NEW i \in 1 .. Len(slices')
       PROVE  slices'[i] = Slice(i)' /\ (i - 1) * chunk < FileSize
  <2>1. Slice(i)' = Slice(i)
    BY <1>1 DEF Slice
  <2>2. CASE i \in 1 .. n
    <3>1. slices[i] = Slice(i) /\ (i - 1) * chunk < FileSize
      BY <2>2, <1>1 DEF Cut
    <3> QED  BY <2>1, <2>2, <3>1, <1>9
  <2>3. CASE i = n + 1
    <3>1. Slice(i) = s
      BY <2>3, <1>8 DEF Slice
    <3>2. (i - 1) * chunk = cut
      BY <2>3, <1>2, <1>4
    <3> QED  BY <2>1, <2>3, <3>1, <3>2, <1>1, <1>9
  <2> QED  BY <2>2, <2>3, <1>2, <1>9
<1>11. cut' \in Nat
  BY <1>1, <1>3, <1>4, <1>5
<1> QED  BY <1>1, <1>6, <1>9, <1>10, <1>11 DEF Cut

\* What is not a step of the constructor's loop leaves the slices alone.
LEMMA CutKept ==
    ASSUME Cut, UNCHANGED storeVars, store = "none" \/ FileSize' = FileSize
    PROVE  Cut'
<1>1. CASE store = "none"
  BY <1>1 DEF Cut, storeVars
<1>2. CASE FileSize' = FileSize
  BY <1>2 DEF Cut, storeVars, Slice
<1> QED  BY <1>1, <1>2

LEMMA NoSlicesYet == <<>> \in Seq([id : Nat, offset : Nat, bytes : Nat]) /\ Len(<<>>) = 0
BY EmptySeq

\* The process opens, closes and moves only files other than the store's.
LEMMA StoreFileKept ==
    ASSUME MMapInv, MMapNext(Objects \ {StoreFile})
    PROVE  FileSize' = FileSize
<1> DEFINE some == Objects \ {StoreFile}
<1>1. StoreFile \in Objects /\ files \in [Objects -> File]
  BY StoreAssumption DEF MMapInv, Books
<1>2. PICK o \in some :
         \/ Construct(o) \/ Open(o) \/ Close(o) \/ Destroy(o)
         \/ \E from \in some : MoveConstruct(o, from) \/ MoveAssign(o, from)
  BY DEF MMapNext
<1>3. CASE Construct(o) \/ Open(o) \/ Close(o) \/ Destroy(o)
  BY <1>1, <1>3 DEF Construct, Open, Close, Destroy, Closes, OpenSucceeds, OpenFails, FileSize
<1>4. CASE \E from \in some : MoveConstruct(o, from) \/ MoveAssign(o, from)
  BY <1>1, <1>4 DEF MoveConstruct, MoveAssign, FileSize
<1> QED  BY <1>2, <1>3, <1>4

LEMMA OthersAdvise ==
    ASSUME MMapInv, AdviceCoversRequest, NEW some \in SUBSET Objects, MMapNext(some)
    PROVE  AdviceCoversRequest'
<1>1. PICK o \in some :
         \/ Construct(o) \/ Open(o) \/ Close(o) \/ Destroy(o)
         \/ \E from \in some : MoveConstruct(o, from) \/ MoveAssign(o, from)
  BY DEF MMapNext
<1>2. CASE UNCHANGED advised
  BY <1>2 DEF AdviceCoversRequest
<1>3. CASE OpenSucceeds(o)
  BY <1>3, OpenAdvises
<1> QED  BY <1>1, <1>2, <1>3
         DEF Construct, Open, OpenFails, Close, Destroy, MoveConstruct, MoveAssign

-----------------------------------------------------------------------------
LEMMA StoreStarts == StoreInit => StoreInv
<1> SUFFICES ASSUME StoreInit PROVE StoreInv
  OBVIOUS
<1>1. OwnersIn(alive, files) = {} /\ files \in [Objects -> File]
  BY DEF StoreInit, MMapInit, OwnersIn, File, Closed
<1>2. DOMAIN maps = {}
  BY DEF StoreInit, MMapInit
<1>3. Books(alive, files, fds, maps)
  BY <1>1, <1>2 DEF StoreInit, MMapInit, Books
<1>4. MMapInv
  BY <1>3, FS_EmptySet DEF StoreInit, MMapInit, MMapInv
<1>5. AdviceCoversRequest
  BY DEF StoreInit, MMapInit, NoAdvice, AdviceCoversRequest
<1>6. Cut
  BY NoSlicesYet DEF StoreInit, Cut
<1> QED  BY <1>4, <1>5, <1>6 DEF StoreInv

\* The store's members are destroyed.
LEMMA EndsKept ==
    ASSUME StoreInv, StoreEnds
    PROVE  StoreInv'
<1>1. MMapInv'
  BY ReleaseKept, StoreAssumption DEF StoreInv, StoreEnds, Destroy, Closes
<1>2. AdviceCoversRequest'
  BY DEF StoreInv, StoreEnds, Destroy, AdviceCoversRequest
<1>3. Cut'
  BY NoSlicesYet DEF StoreEnds, Cut
<1> QED  BY <1>1, <1>2, <1>3 DEF StoreInv

LEMMA StoreKept == StoreInv /\ [StoreNext]_allVars => StoreInv'
<1> SUFFICES ASSUME StoreInv, [StoreNext]_allVars PROVE StoreInv'
  OBVIOUS
<1>0. StoreFile \in Objects /\ Chunks \subseteq Nat
  BY StoreAssumption, MMapAssumption
<1>1. MMapInv /\ AdviceCoversRequest /\ Cut /\ FileSize \in Nat
  BY <1>0 DEF StoreInv, MMapInv, Books, File, FileSize
<1>2. CASE ConstructStore
  <2>1. CASE OpenSucceeds(StoreFile) /\ alive' = alive \cup {StoreFile} /\ store' = "cutting"
    <3>1. MMapInv' /\ AdviceCoversRequest'
      BY <1>0, <1>1, <2>1, OpenKept, OpenAdvises
    <3>2. FileSize' \in Nat
      BY <1>0, <3>1 DEF MMapInv, Books, File, FileSize
    <3>3. /\ chunk' \in Nat /\ cut' = 0 /\ slices' = <<>> /\ Len(slices') = 0
      BY <1>0, <1>1, <1>2, <2>1, NoSlicesYet DEF ConstructStore, Cut
    <3>4. cut' = Least(Len(slices') * chunk', FileSize')
      <4>1. \A c, f \in Nat : 0 * c = 0 /\ Least(0, f) = 0
        BY DEF Least
      <4>2. Len(slices') * chunk' = 0
        BY <3>2, <3>3, <4>1, Zenon
      <4> QED  BY <3>2, <3>3, <4>1, <4>2, Zenon
    <3>5. Cut'
      BY <2>1, <3>3, <3>4, NoSlicesYet DEF Cut
    <3> QED  BY <3>1, <3>5 DEF StoreInv
  <2>2. CASE OpenFails(StoreFile) /\ UNCHANGED <<alive, store, chunk, cut, slices>>
    <3>1. MMapInv' /\ AdviceCoversRequest'
      BY <1>0, <1>1, <2>2, OpenFailsKept DEF OpenFails, AdviceCoversRequest
    <3>2. Cut'
      BY <1>1, <1>2, <2>2, CutKept DEF ConstructStore, storeVars
    <3> QED  BY <3>1, <3>2 DEF StoreInv
  <2> QED  BY <1>2, <2>1, <2>2 DEF ConstructStore
<1>3. CASE StoreEnds
  BY <1>3, EndsKept
<1>4. CASE CutSlice
  <2>1. Cut'
    BY <1>1, <1>4, SliceKept
  <2>2. MMapInv' /\ AdviceCoversRequest'
    BY <1>1, <1>4 DEF CutSlice, mmapVars, MMapInv, AdviceCoversRequest
  <2> QED  BY <2>1, <2>2 DEF StoreInv
<1>5. CASE CutsEnd
  <2>1. UNCHANGED <<mmapVars, chunk, cut, slices>> /\ FileSize' = FileSize
    BY <1>5 DEF CutsEnd, mmapVars, FileSize
  <2>2. Cut'
    BY <1>1, <1>5, <2>1 DEF CutsEnd, Cut, Slice
  <2>3. MMapInv' /\ AdviceCoversRequest'
    BY <1>1, <2>1 DEF mmapVars, MMapInv, AdviceCoversRequest
  <2> QED  BY <2>2, <2>3 DEF StoreInv
<1>6. CASE Advise
  <2>1. PICK i \in 1 .. Len(slices) : Advises(FileSize, slices[i].offset, slices[i].bytes)
    BY <1>6 DEF Advise
  <2>2. slices[i] \in [id : Nat, offset : Nat, bytes : Nat]
    BY <1>1, ElementOfSeq DEF Cut
  <2>3. AdviceCoversRequest'
    BY <1>1, <2>1, <2>2, AdviceKept
  <2>4. Cut' /\ MMapInv'
    BY <1>1, <1>6, CutKept DEF Advise, FileSize, MMapInv
  <2> QED  BY <2>3, <2>4 DEF StoreInv
<1>7. CASE MMapNext(Objects \ {StoreFile}) /\ UNCHANGED storeVars
  <2>1. MMapInv' /\ AdviceCoversRequest'
    BY <1>1, <1>7, ObjectsKept, OthersAdvise
  <2>2. Cut'
    BY <1>1, <1>7, StoreFileKept, CutKept
  <2> QED  BY <2>1, <2>2 DEF StoreInv
<1>8. CASE UNCHANGED allVars
  BY <1>1, <1>8, CutKept
  DEF allVars, mmapVars, StoreInv, MMapInv, AdviceCoversRequest, FileSize
<1> QED  BY <1>2, <1>3, <1>4, <1>5, <1>6, <1>7, <1>8
         DEF StoreNext, RefuseChunk, CutFails, DestroyStore

LEMMA StoreAlways == StoreSpec => []StoreInv
BY StoreStarts, StoreKept, PTL DEF StoreSpec

(***************************************************************************)
(* Whatever was opened, moved, closed, or failed to open, with any number  *)
(* of objects: what the system holds is exactly what the objects that      *)
(* exist own, each descriptor and each mapping once.                       *)
(***************************************************************************)
THEOREM OwnedCorrect == StoreSpec => []EveryResourceIsOwnedOnce
<1>1. StoreInv => EveryResourceIsOwnedOnce
  BY OwnedOnce DEF StoreInv
<1> QED  BY <1>1, StoreAlways, PTL

(***************************************************************************)
(* Advice covers every byte it was asked for, from a page on, less than a  *)
(* page beyond them, and within the mapping, for every page size and even  *)
(* where rounding up would leave the word.                                 *)
(***************************************************************************)
THEOREM AdviceCorrect == StoreSpec => []AdviceCoversRequest
<1>1. StoreInv => AdviceCoversRequest
  BY DEF StoreInv
<1> QED  BY <1>1, StoreAlways, PTL

\* Once the loop is through, every byte is in the slice its offset names.
LEMMA CutTiles == ASSUME StoreInv PROVE SlicesTileFile
<1> SUFFICES ASSUME store = "ready" PROVE SlicesTileFile
  BY DEF SlicesTileFile
<1> DEFINE n == Len(slices)
<1>1. /\ chunk \in Nat \ {0} /\ FileSize \in Nat /\ cut = Least(n * chunk, FileSize)
      /\ cut >= FileSize
      /\ \A i \in 1 .. n : slices[i] = Slice(i) /\ (i - 1) * chunk < FileSize
  BY StoreAssumption DEF StoreInv, Cut, MMapInv, Books, File, FileSize
<1>2. n \in Nat
  BY LenProperties DEF StoreInv, Cut
<1> HIDE DEF n
<1>3. n * chunk \in Nat /\ FileSize <= n * chunk
  <2>1. n * chunk \in Nat
    BY <1>1, <1>2, OneMore
  <2> DEFINE z == n * chunk
  <2>2. z \in Nat /\ cut = Least(z, FileSize)
    BY <1>1, <2>1
  <2> HIDE DEF z
  <2>3. FileSize <= z
    BY <1>1, <2>2 DEF Least
  <2> QED  BY <2>2, <2>3 DEF z
<1>4. ASSUME NEW i \in 1 .. n
      PROVE  /\ (i - 1) * chunk \in Nat /\ i * chunk = (i - 1) * chunk + chunk
             /\ slices[i].id = i - 1 /\ slices[i].offset = (i - 1) * chunk
             /\ slices[i].bytes = Least(chunk, FileSize - (i - 1) * chunk)
             /\ (i - 1) * chunk < FileSize
  <2>1. i - 1 \in Nat /\ (i - 1) + 1 = i
    BY <1>2
  <2>2. (i - 1) * chunk \in Nat /\ i * chunk = (i - 1) * chunk + chunk
    BY <1>1, <2>1, OneMore
  <2>3. slices[i] = Slice(i) /\ (i - 1) * chunk < FileSize
    BY <1>1
  <2> QED  BY <2>2, <2>3 DEF Slice
<1>5. ASSUME NEW b \in 0 .. (FileSize - 1)
      PROVE  \E i \in 1 .. n : /\ slices[i].offset <= b /\ b < slices[i].offset + slices[i].bytes
                               /\ i = b \div chunk + 1
  <2> DEFINE q == b \div chunk
             z == q * chunk
  <2>1. b \in Nat /\ q \in Nat
    BY <1>1
  <2>2. z \in Nat /\ z <= b /\ b < z + chunk
    <3>1. z \in Nat /\ b % chunk \in 0 .. (chunk - 1) /\ b = z + (b % chunk)
      BY <1>1, <2>1, DownToPage
    <3> HIDE DEF z
    <3> QED  BY <1>1, <3>1
  <2>3. q < n
    <3> SUFFICES ASSUME n <= q PROVE FALSE
      BY <1>2, <2>1
    <3> HIDE DEF q
    <3>1. n * chunk <= q * chunk
      <4>1. PICK d \in Nat : q = n + d
        <5>1. q - n \in Nat /\ q = n + (q - n)
          BY <1>2, <2>1
        <5> QED  BY <5>1
      <4>2. (n + d) * chunk = n * chunk + d * chunk /\ d * chunk \in Nat
        BY <1>1, <1>2, SMT
      <4> QED  BY <1>3, <4>1, <4>2
    <3>2. q * chunk <= b
      BY <2>2
    <3> QED  BY <1>1, <1>3, <2>1, <2>2, <3>1, <3>2
  <2>4. q + 1 \in 1 .. n /\ (q + 1) - 1 = q
    BY <1>2, <2>1, <2>3
  <2>5. slices[q + 1].offset = z /\ slices[q + 1].bytes = Least(chunk, FileSize - z)
    BY <1>4, <2>4
  <2>6. b < z + Least(chunk, FileSize - z)
    <3> HIDE DEF z
    <3> QED  BY <1>1, <2>1, <2>2 DEF Least
  <2>7. slices[q + 1].offset <= b /\ b < slices[q + 1].offset + slices[q + 1].bytes
    BY <2>2, <2>5, <2>6
  <2> QED  BY <2>4, <2>7
<1>6. ASSUME NEW i \in 1 .. n
      PROVE  /\ slices[i].id = i - 1
             /\ slices[i].bytes \in 1 .. chunk
             /\ i < n => slices[i].offset + slices[i].bytes = slices[i + 1].offset
             /\ slices[i].offset + slices[i].bytes <= FileSize
  <2> DEFINE z == (i - 1) * chunk
  <2>1. /\ z \in Nat /\ i * chunk = z + chunk /\ z < FileSize /\ slices[i].id = i - 1
        /\ slices[i].offset = z /\ slices[i].bytes = Least(chunk, FileSize - z)
    BY <1>4
  <2>2. i < n => slices[i + 1].offset = z + chunk /\ z + chunk < FileSize
    <3> SUFFICES ASSUME i < n PROVE slices[i + 1].offset = z + chunk /\ z + chunk < FileSize
      OBVIOUS
    <3>1. i + 1 \in 1 .. n /\ (i + 1) - 1 = i
      BY <1>2
    <3>2. slices[i + 1].offset = i * chunk /\ i * chunk < FileSize
      BY <1>4, <3>1
    <3> QED  BY <2>1, <3>2
  <2> HIDE DEF z
  <2> QED  BY <1>1, <2>1, <2>2 DEF Least
<1> QED  BY <1>5, <1>6 DEF SlicesTileFile, n

(***************************************************************************)
(* The slices of a store tile its file, for every file and chunk size:     *)
(* every byte is in exactly the slice that its offset, divided by the      *)
(* chunk size, names.                                                      *)
(***************************************************************************)
THEOREM TilingCorrect == StoreSpec => []SlicesTileFile
BY CutTiles, StoreAlways, PTL
=============================================================================

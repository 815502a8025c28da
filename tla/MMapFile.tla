------------------------------ MODULE MMapFile ------------------------------
(***************************************************************************)
(* MMapFile (src/src/mmap_file.cpp): objects that own a descriptor and a   *)
(* mapping of the operating system, and pass them on by moves.  What the   *)
(* system holds (`fds', `maps') is kept apart from what the objects think  *)
(* they hold (`files').  The counters of advice are left out.              *)
(***************************************************************************)
EXTENDS Integers, FiniteSets

CONSTANTS
    Objects,
    Fds, Mappings,  \* what open and mmap may return
    NoFd, NoData,   \* -1 and nullptr
    Sizes,          \* sizes of files, 0 for an empty one
    Page,           \* sysconf(_SC_PAGESIZE)
    MaxU64

ASSUME MMapAssumption ==
    /\ NoFd \notin Fds /\ NoData \notin Mappings
    /\ MaxU64 \in Nat /\ Sizes \subseteq 0 .. MaxU64 /\ Page \in Nat \ {0}

VARIABLES
    alive,      \* the objects that exist
    files,      \* their fd_, data_ and size_
    fds,        \* open descriptors
    maps,       \* mapping -> number of bytes mapped
    advised     \* the last madvise, with the arguments it came from

mmapVars == <<alive, files, fds, maps, advised>>

Closed == [fd |-> NoFd, data |-> NoData, size |-> 0]
NoAdvice == [size |-> 0, off |-> 0, len |-> 0, lo |-> 0, hi |-> 0]

MMapInit ==
    /\ alive = {} /\ files = [o \in Objects |-> Closed]
    /\ fds = {} /\ maps = <<>>
    /\ advised = NoAdvice

-----------------------------------------------------------------------------
(***************************************************************************)
(* advise_range                                                            *)
(***************************************************************************)
Least(a, b) == IF a <= b THEN a ELSE b

\* Mutant: the end is rounded down, as the start is.
AdviceEndDown(size, off, len) == ((off + Least(len, size - off)) \div Page) * Page

AdviceEnd(size, off, len) ==
    LET end == off + Least(len, size - off)
        rem == end % Page
        up  == IF rem # 0 /\ end <= MaxU64 - (Page - rem) THEN end + (Page - rem) ELSE end
    IN  Least(up, size)

AdviceStart(off) == (off \div Page) * Page

\* On a mapped file of this size.
Advises(size, off, len) ==
    IF len = 0 \/ off >= size \/ AdviceEnd(size, off, len) <= AdviceStart(off)
    THEN UNCHANGED advised
    ELSE advised' = [size |-> size, off |-> off, len |-> len,
                     lo |-> AdviceStart(off), hi |-> AdviceEnd(size, off, len)]

-----------------------------------------------------------------------------
(***************************************************************************)
(* open and close                                                          *)
(***************************************************************************)
\* close() of the members f; munmap of fewer bytes leaves the rest mapped.
FdsAfterClose(f) == fds \ {f.fd}

MapsAfterClose(f) ==
    [m \in {m \in DOMAIN maps : m # f.data \/ maps[m] # f.size} |->
        IF m = f.data THEN maps[m] - f.size ELSE maps[m]]

Closes(o) ==
    /\ fds' = FdsAfterClose(files[o]) /\ maps' = MapsAfterClose(files[o])
    /\ files' = [files EXCEPT ![o] = Closed]

\* Mutant: open() throws without close().
DescriptorLeft(before, fd) == before \cup {fd}

DescriptorClosed(before, fd) == before

\* open(path) throws at ::open, or with a descriptor in hand: fstat fails,
\* the file is empty, mmap fails.
OpenFails(o) ==
    /\ \/ fds' = FdsAfterClose(files[o])
       \/ \E fd \in Fds \ FdsAfterClose(files[o]) :
             fds' = DescriptorClosed(FdsAfterClose(files[o]), fd)
    /\ maps' = MapsAfterClose(files[o])
    /\ files' = [files EXCEPT ![o] = Closed]
    /\ UNCHANGED advised

\* It ends with the advice for random access to all of the file.
OpenSucceeds(o) ==
    \E fd \in Fds \ FdsAfterClose(files[o]),
       data \in Mappings \ DOMAIN MapsAfterClose(files[o]), size \in Sizes \ {0} :
          /\ fds' = FdsAfterClose(files[o]) \cup {fd}
          /\ maps' = [m \in DOMAIN MapsAfterClose(files[o]) \cup {data} |->
                        IF m = data THEN size ELSE maps[m]]
          /\ files' = [files EXCEPT ![o] = [fd |-> fd, data |-> data, size |-> size]]
          /\ Advises(size, 0, size)

-----------------------------------------------------------------------------
(***************************************************************************)
(* The operations of one object.                                           *)
(***************************************************************************)
\* MMapFile(), MMapFile(path): when open throws, there is no object, and no
\* destructor runs.
Construct(o) ==
    /\ o \notin alive
    /\ \/ alive' = alive \cup {o} /\ UNCHANGED <<files, fds, maps, advised>>
       \/ alive' = alive \cup {o} /\ OpenSucceeds(o)
       \/ OpenFails(o) /\ UNCHANGED alive

Open(o) ==
    /\ o \in alive
    /\ OpenSucceeds(o) \/ OpenFails(o)
    /\ UNCHANGED alive

Close(o) == o \in alive /\ Closes(o) /\ UNCHANGED <<alive, advised>>

Destroy(o) == o \in alive /\ Closes(o) /\ alive' = alive \ {o} /\ UNCHANGED advised

\* MMapFile(MMapFile&&)
MoveConstruct(o, from) ==
    /\ o \notin alive /\ from \in alive
    /\ alive' = alive \cup {o}
    /\ files' = [files EXCEPT ![o] = files[from], ![from] = Closed]
    /\ UNCHANGED <<fds, maps, advised>>

ReleasesTarget(o) ==
    fds' = FdsAfterClose(files[o]) /\ maps' = MapsAfterClose(files[o])

\* operator=(MMapFile&&)
MoveAssign(o, from) ==
    /\ {o, from} \subseteq alive
    /\ IF o = from THEN UNCHANGED <<files, fds, maps>>
       ELSE /\ ReleasesTarget(o)
            /\ files' = [files EXCEPT ![o] = files[from], ![from] = Closed]
    /\ UNCHANGED <<alive, advised>>

MMapNext(objects) ==
    \E o \in objects :
        \/ Construct(o) \/ Open(o) \/ Close(o) \/ Destroy(o)
        \/ \E from \in objects : MoveConstruct(o, from) \/ MoveAssign(o, from)

-----------------------------------------------------------------------------
(***************************************************************************)
(* Properties.                                                             *)
(***************************************************************************)
(***************************************************************************)
(* Whatever was opened, moved, closed, or failed to open: the descriptors  *)
(* and mappings the system holds are exactly those of the objects that     *)
(* exist, each owned by one of them, with its full size, so that none is   *)
(* lost and none is released twice.                                        *)
(***************************************************************************)
Owners == {o \in alive : files[o].data # NoData}

EveryResourceIsOwnedOnce ==
    /\ \A o \in Objects \ Owners : files[o] = Closed
    /\ fds = {files[o].fd : o \in Owners} /\ Cardinality(fds) = Cardinality(Owners)
    /\ DOMAIN maps = {files[o].data : o \in Owners}
    /\ Cardinality(DOMAIN maps) = Cardinality(Owners)
    /\ \A o \in Owners : maps[files[o].data] = files[o].size

(***************************************************************************)
(* Advice covers every byte it was asked for, begins at a page, reaches    *)
(* less than a page beyond them, and stays within the mapping.             *)
(***************************************************************************)
AdviceCoversRequest ==
    advised.len > 0 =>
        LET end == Least(advised.off + advised.len, advised.size)
        IN  /\ advised.lo <= advised.off /\ advised.lo % Page = 0
            /\ advised.off - advised.lo < Page
            /\ end <= advised.hi /\ advised.hi <= advised.size
            /\ advised.hi - end < Page
=============================================================================

----------------------------- MODULE TensorStore -----------------------------
(***************************************************************************)
(* TensorStore (src/src/tensor_store.cpp): a mapped file cut into slices   *)
(* of chunk_bytes_, the last one shorter.  The store's file is one object  *)
(* of MMapFile, among others that the process opens, closes and moves.     *)
(* Fewer slices than ids are assumed: an id has 32 bits.                   *)
(***************************************************************************)
EXTENDS MMapFile, Sequences

CONSTANTS
    StoreFile,      \* file_
    Chunks          \* the chunk sizes asked for

ASSUME StoreAssumption == StoreFile \in Objects /\ Chunks \subseteq 0 .. MaxU64

VARIABLES
    store,          \* "none", "cutting" (in the constructor's loop), "ready"
    chunk,          \* chunk_bytes_
    cut,            \* off, of that loop
    slices          \* slices_

storeVars == <<store, chunk, cut, slices>>
allVars == <<mmapVars, storeVars>>

StoreInit ==
    /\ MMapInit
    /\ store = "none" /\ chunk = 0 /\ cut = 0 /\ slices = <<>>

FileSize == files[StoreFile].size

\* file_ is opened first.
ConstructStore ==
    /\ store = "none"
    /\ \E c \in Chunks :
          \/ /\ OpenSucceeds(StoreFile)
             /\ alive' = alive \cup {StoreFile}
             /\ store' = "cutting" /\ chunk' = c
          \/ /\ OpenFails(StoreFile)
             /\ UNCHANGED <<alive, store, chunk>>
    /\ UNCHANGED <<cut, slices>>

\* The members are destroyed.
StoreEnds ==
    /\ Destroy(StoreFile)
    /\ store' = "none" /\ chunk' = 0 /\ cut' = 0 /\ slices' = <<>>

RefuseChunk == store = "cutting" /\ chunk = 0 /\ StoreEnds

\* Mutant: the last slice is as long as the others.
SliceBytesWhole(off) == chunk

SliceBytes(off) == Least(chunk, FileSize - off)

\* slices_ is a vector: slice id is the (id + 1)-th.
CutSlice ==
    /\ store = "cutting" /\ chunk > 0
    /\ cut < FileSize
    /\ slices' = Append(slices, [id |-> Len(slices), offset |-> cut, bytes |-> SliceBytes(cut)])
    /\ cut' = cut + SliceBytes(cut)
    /\ UNCHANGED <<mmapVars, store, chunk>>

CutsEnd ==
    /\ store = "cutting"
    /\ chunk > 0 /\ cut >= FileSize
    /\ store' = "ready"
    /\ UNCHANGED <<mmapVars, chunk, cut, slices>>

\* push_back throws.
CutFails == store = "cutting" /\ chunk > 0 /\ cut < FileSize /\ StoreEnds

\* prefetch(id) and release(id): madvise on the slice's range.
Advise ==
    /\ store = "ready"
    /\ \E i \in 1 .. Len(slices) : Advises(FileSize, slices[i].offset, slices[i].bytes)
    /\ UNCHANGED <<alive, files, fds, maps, storeVars>>

DestroyStore == store = "ready" /\ StoreEnds

StoreNext ==
    \/ ConstructStore \/ RefuseChunk \/ CutSlice \/ CutsEnd \/ CutFails
    \/ Advise \/ DestroyStore
    \/ MMapNext(Objects \ {StoreFile}) /\ UNCHANGED storeVars

StoreSpec == StoreInit /\ [][StoreNext]_allVars

-----------------------------------------------------------------------------
(***************************************************************************)
(* Properties.                                                             *)
(***************************************************************************)
(***************************************************************************)
(* Every byte of the file is in exactly one slice, slices are in the order *)
(* of their ids, none is empty or longer than the chunk, and only the last *)
(* is shorter: what a stream over the ids sums up is the file.             *)
(***************************************************************************)
SlicesTileFile ==
    store = "ready" =>
        /\ \A b \in 0 .. (FileSize - 1) :
              \E i \in 1 .. Len(slices) :
                  /\ slices[i].offset <= b /\ b < slices[i].offset + slices[i].bytes
                  /\ i = b \div chunk + 1
        /\ \A i \in 1 .. Len(slices) :
              /\ slices[i].id = i - 1
              /\ slices[i].bytes \in 1 .. chunk
              /\ i < Len(slices) => slices[i].offset + slices[i].bytes = slices[i + 1].offset
              /\ slices[i].offset + slices[i].bytes <= FileSize
=============================================================================

-------------------------------- MODULE Gguf --------------------------------
(***************************************************************************)
(* GgufFile (src/src/gguf.cpp): the constructor reads a mapped file from   *)
(* front to back, with a position and a budget for what it keeps on the    *)
(* heap, and either refuses the file or ends with the metadata and an      *)
(* index of tensors that lie in the file.                                  *)
(*                                                                         *)
(* The content of the file is chosen as it is read, from the constants.    *)
(* Strings are their lengths, and array elements are not kept.  Words are  *)
(* numbers up to MaxU64; sizes of fields are those of the format.          *)
(***************************************************************************)
EXTENDS Integers, Sequences, FiniteSets

CONSTANTS
    MaxU64,
    FileSizes,              \* sizes of files
    MaxTensors, MaxMetadataItems, MaxArrayElements, MaxStringBytes,
    MaxParseHeapBytes,      \* GgufParseLimits
    AlignmentKey,           \* "general.alignment"
    Keys, Names,            \* of metadata and tensors
    LengthOf,               \* their lengths
    Headers,                \* records [magic, version, nt, nkv]
    ValueTypes,             \* type codes found in the file
    Payloads,               \* numeric type -> values read
    StringLengths, ArrayLengths,
    Shapes, GgmlTypes, Rels \* of tensor descriptors

\* The 13 type codes; any other string stands for an unknown code.
ScalarWidth ==
    [UInt8 |-> 1, Int8 |-> 1, Bool |-> 1, UInt16 |-> 2, Int16 |-> 2,
     UInt32 |-> 4, Int32 |-> 4, Float32 |-> 4,
     UInt64 |-> 8, Int64 |-> 8, Float64 |-> 8]
Unsigned == {"UInt8", "UInt16", "UInt32", "UInt64"}
Signed == {"Int8", "Int16", "Int32", "Int64"}

Word == 0 .. MaxU64
MaxI64 == MaxU64 \div 2

ASSUME GgufAssumption ==
    /\ MaxU64 \in Nat
    /\ FileSizes \subseteq Word /\ MaxParseHeapBytes \in Word
    /\ {MaxTensors, MaxMetadataItems, MaxArrayElements, MaxStringBytes} \subseteq Word
    /\ AlignmentKey \in Keys
    /\ LengthOf \in [Keys \cup Names -> Word]
    /\ \A h \in Headers : h.nt \in Word /\ h.nkv \in Word
    /\ \A t \in Unsigned : Payloads[t] \subseteq Word
    /\ \A t \in Signed : Payloads[t] \subseteq (-MaxI64 - 1) .. MaxI64
    /\ StringLengths \subseteq Word /\ ArrayLengths \subseteq Word
    /\ Shapes \subseteq Seq(Word) /\ Rels \subseteq Word

VARIABLES
    filesize,       \* n_
    off,            \* off_
    heap,           \* heap_remaining_
    pc,             \* what is read next
    header,         \* nt, nkv
    items,          \* i of the loop over metadata items
    metadata,       \* metadata_
    item,           \* the metadata item being read
    left,           \* elements of its array still to be read
    tmp,            \* descriptors read
    dataOffset,     \* data_offset_
    tensors,        \* tensors_
    index           \* tensor_index_

parts == <<header, items, metadata, item, left, tmp, dataOffset, tensors, index>>
ggufVars == <<filesize, off, heap, pc, parts>>

NoItem == [key |-> AlignmentKey, type |-> "UInt32", elem |-> "none", held |-> 0]

GgufInit ==
    /\ filesize \in FileSizes
    /\ off = 0 /\ heap = MaxParseHeapBytes
    /\ pc = "header"
    /\ header = [nt |-> 0, nkv |-> 0]
    /\ items = 0 /\ metadata = <<>> /\ item = NoItem /\ left = 0
    /\ tmp = <<>> /\ dataOffset = 0
    /\ tensors = <<>> /\ index = <<>>

\* Every exception ends the constructor.
Refuses == pc' = "refused" /\ UNCHANGED <<filesize, off, heap, parts>>

-----------------------------------------------------------------------------
(***************************************************************************)
(* Reader.  A product that overflows (checked_mul) exceeds every budget.   *)
(***************************************************************************)
\* Mutant: without k > n_, the unsigned difference may wrap.
RequireWraps(o, k) == o <= (filesize - k) % (MaxU64 + 1)

\* require(k), at position o
Require(o, k) == k <= filesize /\ o <= filesize - k

\* charge(fixed), then str()
CanReadString(len, fixed) ==
    /\ Require(off, 8)
    /\ len <= MaxStringBytes
    /\ Require(off + 8, len)
    /\ fixed + len <= heap

\* A string, then `more' bytes of other fields.
ReadsString(len, fixed, more) ==
    /\ off' = off + 8 + len + more
    /\ heap' = heap - (fixed + len)

-----------------------------------------------------------------------------
(***************************************************************************)
(* Header and metadata.                                                    *)
(***************************************************************************)
HeaderBytes == 4 + 4 + 8 + 8
ItemBytes == 128        \* reserved for a node of metadata_

ReadHeader ==
    /\ pc = "header"
    /\ \E h \in Headers :
          IF /\ Require(off, HeaderBytes)
             /\ h.magic = "GGUF" /\ h.version \in {2, 3}
             /\ h.nt <= MaxTensors /\ h.nkv <= MaxMetadataItems
             /\ h.nkv * ItemBytes <= heap
          THEN /\ off' = off + HeaderBytes
               /\ heap' = heap - h.nkv * ItemBytes
               /\ header' = [nt |-> h.nt, nkv |-> h.nkv]
               /\ pc' = "key"
               /\ UNCHANGED <<filesize, items, metadata, item, left, tmp, dataOffset, tensors, index>>
          ELSE Refuses

ReadKey ==
    /\ pc = "key"
    /\ items < header.nkv
    /\ \E k \in Keys, t \in ValueTypes :
          IF CanReadString(LengthOf[k], 0) /\ Require(off + 8 + LengthOf[k], 4)
          THEN /\ ReadsString(LengthOf[k], 0, 4)
               /\ item' = [key |-> k, type |-> t, elem |-> "none", held |-> 0]
               /\ pc' = "value"
               /\ UNCHANGED <<filesize, header, items, metadata, left, tmp, dataOffset, tensors, index>>
          ELSE Refuses

\* metadata_.emplace; a key that is there already ends the parse.
Emplace(data, held) ==
    IF item.key \in DOMAIN metadata
    THEN pc' = "refused" /\ UNCHANGED <<items, metadata>>
    ELSE /\ pc' = "key" /\ items' = items + 1
         /\ metadata' = [k \in DOMAIN metadata \cup {item.key} |->
               IF k = item.key THEN [type |-> item.type, data |-> data, held |-> held]
               ELSE metadata[k]]

\* read_scalar, of any type but String
ReadNumber ==
    /\ pc = "value" /\ item.type \in DOMAIN ScalarWidth
    /\ \E v \in Payloads[item.type] :
          IF Require(off, ScalarWidth[item.type])
          THEN /\ off' = off + ScalarWidth[item.type]
               /\ Emplace(v, 0)
               /\ UNCHANGED <<filesize, heap, header, item, left, tmp, dataOffset, tensors, index>>
          ELSE Refuses

StringBytes == 32       \* sizeof(std::string)

ReadStringValue ==
    /\ pc = "value" /\ item.type = "String"
    /\ \E len \in StringLengths :
          IF CanReadString(len, StringBytes)
          THEN /\ ReadsString(len, StringBytes, 0)
               /\ Emplace(len, StringBytes + len)
               /\ UNCHANGED <<filesize, header, item, left, tmp, dataOffset, tensors, index>>
          ELSE Refuses

\* What an element takes in the file at least, and in memory.
ElementWidth(e) == IF e = "String" THEN 8 ELSE ScalarWidth[e]

\* Mutant: in memory, integers are as wide as in the file.
ElementBytesAsStored(e) == IF e = "String" THEN StringBytes ELSE ScalarWidth[e]

ElementBytes(e) == IF e = "String" THEN StringBytes ELSE 8

ReadArrayHeader ==
    /\ pc = "value" /\ item.type = "Array"
    /\ \E e \in ValueTypes, n \in ArrayLengths :
          IF /\ Require(off, 12)
             /\ e \in DOMAIN ScalarWidth \cup {"String"}
             /\ n <= MaxArrayElements
             /\ n * ElementWidth(e) <= filesize - (off + 12)
             /\ n * ElementBytes(e) <= heap
          THEN /\ off' = off + 12
               /\ heap' = heap - n * ElementBytes(e)
               /\ item' = [item EXCEPT !.elem = e,
                             !.held = n * (IF e = "String" THEN StringBytes ELSE 8)]
               /\ left' = n
               /\ pc' = "elements"
               /\ UNCHANGED <<filesize, header, items, metadata, tmp, dataOffset, tensors, index>>
          ELSE Refuses

ReadStringElement ==
    /\ pc = "elements" /\ left > 0 /\ item.elem = "String"
    /\ \E len \in StringLengths :
          IF CanReadString(len, 0)
          THEN /\ ReadsString(len, 0, 0)
               /\ item' = [item EXCEPT !.held = @ + len]
               /\ left' = left - 1
               /\ UNCHANGED <<filesize, pc, header, items, metadata, tmp, dataOffset, tensors, index>>
          ELSE Refuses

\* An unsigned element must fit the signed array.
ReadElement ==
    /\ pc = "elements" /\ left > 0 /\ item.elem # "String"
    /\ \E v \in Payloads[item.elem] :
          IF /\ Require(off, ScalarWidth[item.elem])
             /\ item.elem \in Unsigned => v <= MaxI64
          THEN /\ off' = off + ScalarWidth[item.elem]
               /\ left' = left - 1
               /\ UNCHANGED <<filesize, heap, pc, header, items, metadata, item, tmp,
                              dataOffset, tensors, index>>
          ELSE Refuses

ArrayDone ==
    /\ pc = "elements" /\ left = 0
    /\ Emplace(0, item.held)
    /\ UNCHANGED <<filesize, off, heap, header, item, left, tmp, dataOffset, tensors, index>>

UnknownType ==
    /\ pc = "value"
    /\ item.type \notin DOMAIN ScalarWidth \cup {"String", "Array"}
    /\ Refuses

-----------------------------------------------------------------------------
(***************************************************************************)
(* Tensor descriptors.                                                     *)
(***************************************************************************)
DescriptorBytes == 72 + 64      \* sizeof(Tmp) + 64

MetadataDone ==
    /\ pc = "key"
    /\ items = header.nkv
    /\ IF header.nt * DescriptorBytes <= heap
       THEN /\ heap' = heap - header.nt * DescriptorBytes
            /\ pc' = "descriptor"
            /\ UNCHANGED <<filesize, off, parts>>
       ELSE Refuses

\* After the name: the number of dimensions, each of them, type and offset.
FieldBytes(dims) == 4 + 8 * Len(dims) + 4 + 8

ReadDescriptor ==
    /\ pc = "descriptor"
    /\ Len(tmp) < header.nt
    /\ \E name \in Names, dims \in Shapes, type \in GgmlTypes, rel \in Rels :
          IF /\ Len(dims) \in 1 .. 4
             /\ CanReadString(LengthOf[name], 8 * Len(dims))
             /\ Require(off + 8 + LengthOf[name], FieldBytes(dims))
             /\ \A d \in DOMAIN dims : dims[d] # 0
          THEN /\ ReadsString(LengthOf[name], 8 * Len(dims), FieldBytes(dims))
               /\ tmp' = Append(tmp, [name |-> name, dims |-> dims, type |-> type, rel |-> rel])
               /\ UNCHANGED <<filesize, pc, header, items, metadata, item, left,
                              dataOffset, tensors, index>>
          ELSE Refuses

-----------------------------------------------------------------------------
(***************************************************************************)
(* The data section.                                                       *)
(***************************************************************************)
\* a & (a - 1) = 0
IsPowerOfTwo(a) == \A d \in 1 .. a : a % d = 0 => d = 1 \/ d % 2 = 0

IsInteger(v) == v.type \in Unsigned \cup Signed

\* as_unsigned throws for anything else.
IsUnsigned(v) == IsInteger(v) /\ v.data >= 0

RoundedUp(p, align) == ((p + align - 1) \div align) * align

\* Mutant: the sum is not checked.
AlignmentFitsAlways(align) == TRUE

AlignmentFits(align) == off <= MaxU64 - (align - 1)

Alignment ==
    IF AlignmentKey \in DOMAIN metadata THEN metadata[AlignmentKey].data ELSE 32

TensorBytes == 80 + 96          \* sizeof(GgufTensor) + 96

DescriptorsDone ==
    /\ pc = "descriptor"
    /\ Len(tmp) = header.nt
    /\ IF /\ AlignmentKey \in DOMAIN metadata => IsUnsigned(metadata[AlignmentKey])
          /\ Alignment # 0 /\ IsPowerOfTwo(Alignment)
          /\ AlignmentFits(Alignment)
          /\ header.nt = 0 \/ RoundedUp(off, Alignment) <= filesize
          /\ header.nt * TensorBytes <= heap
       THEN /\ dataOffset' = RoundedUp(off, Alignment)
            /\ heap' = heap - header.nt * TensorBytes
            /\ pc' = "tensor"
            /\ UNCHANGED <<filesize, off, header, items, metadata, item, left, tmp, tensors, index>>
       ELSE Refuses

Blocks32 == [Q4_0 |-> 18, Q4_1 |-> 20, Q5_0 |-> 22, Q5_1 |-> 24, Q8_0 |-> 34]
Blocks256 == [Q2_K |-> 84, Q3_K |-> 110, Q4_K |-> 144, Q5_K |-> 176, Q6_K |-> 210]
Plain == [F32 |-> 4, F16 |-> 2, BF16 |-> 2, F64 |-> 8,
          I8 |-> 1, I16 |-> 2, I32 |-> 4, I64 |-> 8]

QuantRowBlock(type) ==
    CASE type \in DOMAIN Blocks32  -> 32
      [] type \in DOMAIN Blocks256 -> 256
      [] OTHER                     -> 1

Ne(dims, i) == IF i <= Len(dims) THEN dims[i] ELSE 1

\* Mutant: the product is that of unsigned words.
ElementsWrap(dims) == (Ne(dims, 1) * Ne(dims, 2) * Ne(dims, 3) * Ne(dims, 4)) % (MaxU64 + 1)

\* elements(): dimensions are not 0, so that the product overflows when a
\* part of it does.
Elements(dims) == Ne(dims, 1) * Ne(dims, 2) * Ne(dims, 3) * Ne(dims, 4)

BlockOf(type) ==
    CASE type \in DOMAIN Blocks32  -> [qk |-> 32, bytes |-> Blocks32[type]]
      [] type \in DOMAIN Blocks256 -> [qk |-> 256, bytes |-> Blocks256[type]]
      [] type \in DOMAIN Plain     -> [qk |-> 1, bytes |-> Plain[type]]

HasSize(type, n) ==
    /\ type \in DOMAIN Blocks32 \cup DOMAIN Blocks256 \cup DOMAIN Plain
    /\ n % BlockOf(type).qk = 0

TensorNBytes(type, n) == (n \div BlockOf(type).qk) * BlockOf(type).bytes

\* Mutant: the end is computed first, and may wrap.
EndFits(offset, nbytes) == (offset + nbytes) % (MaxU64 + 1) <= filesize

InFile(offset, nbytes) == offset <= filesize /\ nbytes <= filesize - offset

Placeable(t) ==
    /\ Ne(t.dims, 1) % QuantRowBlock(t.type) = 0
    /\ t.rel <= MaxU64 - dataOffset
    /\ Elements(t.dims) <= MaxU64
    /\ HasSize(t.type, Elements(t.dims))
    /\ TensorNBytes(t.type, Elements(t.dims)) <= MaxU64
    /\ InFile(dataOffset + t.rel, TensorNBytes(t.type, Elements(t.dims)))

IsNew(name) == name \notin DOMAIN index

PlaceTensor ==
    /\ pc = "tensor"
    /\ Len(tensors) < header.nt
    /\ LET t == tmp[Len(tensors) + 1]
       IN  IF Placeable(t) /\ IsNew(t.name)
           THEN /\ index' = [n \in DOMAIN index \cup {t.name} |->
                               IF n = t.name THEN Len(tensors) ELSE index[n]]
                /\ tensors' = Append(tensors,
                      [name |-> t.name, dims |-> t.dims, type |-> t.type,
                       offset |-> dataOffset + t.rel,
                       nbytes |-> TensorNBytes(t.type, Elements(t.dims))])
                /\ UNCHANGED <<filesize, off, heap, pc, header, items, metadata, item, left,
                               tmp, dataOffset>>
           ELSE Refuses

TensorsDone ==
    /\ pc = "tensor"
    /\ Len(tensors) = header.nt
    /\ pc' = "parsed"
    /\ UNCHANGED <<filesize, off, heap, parts>>

-----------------------------------------------------------------------------
GgufNext ==
    \/ ReadHeader
    \/ ReadKey \/ ReadNumber \/ ReadStringValue \/ ReadArrayHeader
    \/ ReadStringElement \/ ReadElement \/ ArrayDone \/ UnknownType
    \/ MetadataDone \/ ReadDescriptor \/ DescriptorsDone
    \/ PlaceTensor \/ TensorsDone

GgufSpec == GgufInit /\ [][GgufNext]_ggufVars

-----------------------------------------------------------------------------
(***************************************************************************)
(* What the loaders ask of a parsed file.                                  *)
(***************************************************************************)
HasTensor(name) == name \in DOMAIN index
Tensor(name) == tensors[index[name] + 1]

-----------------------------------------------------------------------------
(***************************************************************************)
(* Properties.                                                             *)
(***************************************************************************)
(***************************************************************************)
(* The budget never falls below 0 and the data offset is a word; never     *)
(* more is kept than the header and the limits announce.                   *)
(***************************************************************************)
GgufTypeOK ==
    /\ filesize \in FileSizes /\ off \in Nat /\ heap \in 0 .. MaxParseHeapBytes
    /\ pc \in {"header", "key", "value", "elements", "descriptor", "tensor",
               "parsed", "refused"}
    /\ header \in [nt : 0 .. MaxTensors, nkv : 0 .. MaxMetadataItems]
    /\ items \in 0 .. header.nkv /\ DOMAIN metadata \subseteq Keys /\ left \in 0 .. MaxArrayElements
    /\ dataOffset \in Word
    /\ Len(tmp) <= header.nt /\ Len(tensors) <= Len(tmp)

(***************************************************************************)
(* Whatever lengths and counts the file claims, nothing is read past its   *)
(* end: every sum the parser forms is one that cannot wrap.                *)
(***************************************************************************)
ReadsWithinFile == off <= filesize

(***************************************************************************)
(* Everything the parse holds at any moment (characters of strings,        *)
(* elements of arrays as widened in memory, dimensions, nodes and          *)
(* descriptors) has been taken from the budget, but for one thing: the     *)
(* keys of tensor_index_ are second copies of the names in tensors_, and   *)
(* nothing was charged for their characters.  With them the parse may      *)
(* hold more than max_parse_heap_bytes, and never more than twice what has *)
(* been charged.                                                           *)
(***************************************************************************)
\* The sum of the values of a function to numbers: the cells of a table with a
\* row of that many for each argument.
Table(w) == UNION {{x} \X (1 .. w[x]) : x \in DOMAIN w}
Total(w) == Cardinality(Table(w))

HeldByMetadata ==
    Total([k \in DOMAIN metadata |-> ItemBytes + LengthOf[k] + metadata[k].held])

HeldByDescriptors ==
    Total([i \in DOMAIN tmp |-> DescriptorBytes + LengthOf[tmp[i].name] + 8 * Len(tmp[i].dims)])

HeldByItem ==
    IF pc \in {"value", "elements"}
    THEN ItemBytes + LengthOf[item.key] + item.held ELSE 0

\* tensor_index_[x.name] copies the name.
HeldByIndex == Total([n \in DOMAIN index |-> LengthOf[n]])

Charged == MaxParseHeapBytes - heap

ChargedHeld == HeldByMetadata + HeldByItem + HeldByDescriptors + TensorBytes * Len(tensors)

HeldIsCharged ==
    /\ ChargedHeld <= Charged
    /\ ChargedHeld + HeldByIndex <= 2 * Charged

(***************************************************************************)
(* Every tensor that was accepted lies between the start of the data       *)
(* section and the end of the file: tensor_data may be read for nbytes.    *)
(***************************************************************************)
TensorsInFile ==
    \A i \in 1 .. Len(tensors) :
        /\ dataOffset <= tensors[i].offset
        /\ tensors[i].offset + tensors[i].nbytes <= filesize

(***************************************************************************)
(* The data section begins at the first multiple of the alignment after    *)
(* the descriptors, never before their end, and that position is a word:   *)
(* the rounding has not wrapped.                                           *)
(***************************************************************************)
DataFollowsDescriptors ==
    pc \in {"tensor", "parsed"} =>
        /\ dataOffset \in Word
        /\ dataOffset >= off /\ dataOffset - off < Alignment
        /\ dataOffset % Alignment = 0

(***************************************************************************)
(* What a lookup hands out can be used without a further check: a name     *)
(* leads to the only tensor that carries it, each of the header's tensors  *)
(* can be reached, and rows are whole blocks, as many of them as the other *)
(* dimensions say filling nbytes exactly, as numbers and not only modulo   *)
(* the word: the kernels walk through a tensor row by row.                 *)
(***************************************************************************)
Rows(dims) == Ne(dims, 2) * Ne(dims, 3) * Ne(dims, 4)

RowsFill(t) ==
    LET block == BlockOf(t.type)
    IN  /\ Len(t.dims) \in 1 .. 4
        /\ t.dims[1] % block.qk = 0
        /\ t.nbytes = Rows(t.dims) * ((t.dims[1] \div block.qk) * block.bytes)

LookupsAreUsable ==
    pc = "parsed" =>
        /\ Cardinality(DOMAIN metadata) = header.nkv
        /\ Cardinality(DOMAIN index) = header.nt /\ Len(tensors) = header.nt
        /\ \A n \in DOMAIN index : Tensor(n).name = n
        /\ \A i \in 1 .. Len(tensors) :
              /\ HasTensor(tensors[i].name) /\ Tensor(tensors[i].name) = tensors[i]
              /\ RowsFill(tensors[i])
=============================================================================

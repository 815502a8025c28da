----------------------------- MODULE GgufProofs -----------------------------
(***************************************************************************)
(* What the reader of Gguf accepts lies in the file, for every file, every *)
(* content and all limits.  The type invariant is not inductive: that the  *)
(* position stays in the file depends on widths and lengths being numbers, *)
(* and that a tensor starts in the data section on dataOffset not moving   *)
(* once there are tensors.  What is kept has been charged because bulk     *)
(* charges come before it, and names and tensors are in bijection because  *)
(* each is entered with the other.                                         *)
(***************************************************************************)
EXTENDS Gguf, FiniteSetTheorems, SequenceTheorems, TLAPS

Descriptor == [name : Names, dims : Seq(Word), type : GgmlTypes, rel : Word]
Placed == [name : Names, dims : Seq(Word), type : GgmlTypes, offset : Nat, nbytes : Nat]

HasData == {"tensor", "parsed"}
Reading == {"header", "key", "value", "elements", "descriptor"}

\* Types of what the parser keeps.
PartsTyped ==
    /\ item.key \in Keys
    /\ pc = "elements" => item.elem \in DOMAIN ScalarWidth \cup {"String"}
    /\ \A k \in DOMAIN metadata : IsInteger(metadata[k]) => metadata[k].data \in Int
    /\ tmp \in Seq(Descriptor)
    /\ tensors \in Seq(Placed)

\* Where the parse is, and what there is then.
Stages ==
    /\ pc = "header" => items = 0
    /\ pc \in {"header", "key", "value", "elements"} => tmp = <<>>
    /\ pc \in {"value", "elements"} => items < header.nkv
    /\ pc \in Reading => tensors = <<>>
    /\ pc \in HasData => Len(tmp) = header.nt

GgufInv ==
    /\ GgufTypeOK /\ PartsTyped /\ Stages
    /\ ReadsWithinFile
    /\ TensorsInFile

-----------------------------------------------------------------------------
\* Every scalar has a width.
LEMMA WidthIsPositive == \A t \in DOMAIN ScalarWidth : ScalarWidth[t] \in Nat \ {0}
BY DEF ScalarWidth

\* Integers are scalars.
LEMMA IntegersAreScalars == Unsigned \cup Signed \subseteq DOMAIN ScalarWidth
BY DEF ScalarWidth, Unsigned, Signed

\* A read that require() admits ends in the file.
LEMMA RequireIsSafe ==
    ASSUME NEW o \in Nat, NEW k \in Nat, filesize \in Nat, Require(o, k)
    PROVE  o + k <= filesize
BY DEF Require

\* So do a string and the fields after it, and its cost is within the budget.
LEMMA StringIsSafe ==
    ASSUME NEW len \in Nat, NEW fixed \in Nat, NEW more \in Nat,
           filesize \in Nat, off \in Nat, heap \in 0 .. MaxParseHeapBytes,
           MaxParseHeapBytes \in Nat,
           CanReadString(len, fixed), Require(off + 8 + len, more),
           ReadsString(len, fixed, more)
    PROVE  /\ off' \in Nat /\ off' <= filesize
           /\ heap' \in 0 .. MaxParseHeapBytes
BY DEF CanReadString, ReadsString, Require

\* A charge that charge() admits leaves a budget.
LEMMA ChargeIsSafe ==
    ASSUME NEW cost \in Nat, MaxParseHeapBytes \in Nat, heap \in 0 .. MaxParseHeapBytes,
           cost <= heap, heap' = heap - cost
    PROVE  heap' \in 0 .. MaxParseHeapBytes
OBVIOUS

\* The multiple of the alignment that follows a position.
LEMMA RoundedUpBounds ==
    ASSUME NEW p \in Nat, NEW a \in Nat \ {0}
    PROVE  /\ RoundedUp(p, a) \in Nat
           /\ p <= RoundedUp(p, a) /\ RoundedUp(p, a) <= p + a - 1
BY Z3 DEF RoundedUp

-----------------------------------------------------------------------------
\* The constants that bound the parse are numbers.
LEMMA ConstantsAreNumbers ==
    /\ MaxU64 \in Nat /\ FileSizes \subseteq Nat /\ MaxParseHeapBytes \in Nat
    /\ MaxTensors \in Nat /\ MaxMetadataItems \in Nat
    /\ MaxArrayElements \in Nat /\ MaxStringBytes \in Nat
    /\ \A s \in Keys \cup Names : LengthOf[s] \in Nat
    /\ StringLengths \subseteq Nat /\ ArrayLengths \subseteq Nat
    /\ \A h \in Headers : h.nt \in Nat /\ h.nkv \in Nat
    /\ Rels \subseteq Nat /\ Word \subseteq Nat
BY GgufAssumption DEF GgufAssumption, Word

\* What is read for an integer is one.
LEMMA PayloadsAreIntegers == \A t \in Unsigned \cup Signed : Payloads[t] \subseteq Int
<1>1. \A t \in Unsigned : Payloads[t] \subseteq Word
  BY GgufAssumption DEF GgufAssumption
<1>2. \A t \in Signed : Payloads[t] \subseteq (-MaxI64 - 1) .. MaxI64
  BY GgufAssumption DEF GgufAssumption
<1>3. Word \subseteq Int /\ (-MaxI64 - 1) .. MaxI64 \subseteq Int
  BY DEF Word
<1> QED
  BY <1>1, <1>2, <1>3

\* Nothing is disturbed by an exception.
LEMMA RefusesKeepsInv ==
    ASSUME GgufInv, Refuses
    PROVE  GgufInv'
BY DEF GgufInv, Refuses, parts, GgufTypeOK, PartsTyped, IsInteger, Stages,
       ReadsWithinFile, TensorsInFile, Reading, HasData

\* Tensors stay in the file while neither they nor the data section move.
LEMMA TensorsKept ==
    ASSUME TensorsInFile, UNCHANGED <<filesize, dataOffset, tensors>>
    PROVE  TensorsInFile'
BY DEF TensorsInFile

LEMMA ReadHeaderKeepsInv ==
    ASSUME GgufInv, ReadHeader
    PROVE  GgufInv'
<1>1. PICK h \in Headers :
        IF /\ Require(off, HeaderBytes)
           /\ h.magic = "GGUF" /\ h.version \in {2, 3}
           /\ h.nt <= MaxTensors /\ h.nkv <= MaxMetadataItems
           /\ h.nkv * ItemBytes <= heap
        THEN /\ off' = off + HeaderBytes
             /\ heap' = heap - h.nkv * ItemBytes
             /\ header' = [nt |-> h.nt, nkv |-> h.nkv]
             /\ pc' = "key"
             /\ UNCHANGED <<filesize, items, metadata, item, left, tmp, dataOffset, tensors, index>>
        ELSE Refuses
  BY DEF ReadHeader
<1>2. CASE Refuses
  BY <1>2, RefusesKeepsInv
<1>3. CASE ~Refuses
  <2>1. /\ Require(off, HeaderBytes)
        /\ h.nt \in 0 .. MaxTensors /\ h.nkv \in 0 .. MaxMetadataItems
        /\ h.nkv * ItemBytes <= heap
        /\ off' = off + HeaderBytes
        /\ heap' = heap - h.nkv * ItemBytes
        /\ header' = [nt |-> h.nt, nkv |-> h.nkv]
        /\ pc' = "key"
        /\ UNCHANGED <<filesize, items, metadata, item, left, tmp, dataOffset, tensors, index>>
    BY <1>1, <1>3, ConstantsAreNumbers
  <2>2. pc = "header" /\ filesize \in Nat /\ off \in Nat
    BY ConstantsAreNumbers DEF ReadHeader, GgufInv, GgufTypeOK
  <2>3. off' \in Nat /\ ReadsWithinFile'
    BY <2>1, <2>2 DEF Require, HeaderBytes, ReadsWithinFile
  <2>4. heap' \in 0 .. MaxParseHeapBytes
    <3>1. h.nkv * ItemBytes \in Nat
      BY <2>1, ConstantsAreNumbers DEF ItemBytes
    <3>2. heap \in 0 .. MaxParseHeapBytes
      BY DEF GgufInv, GgufTypeOK
    <3> QED
      BY <2>1, <3>1, <3>2, ChargeIsSafe, ConstantsAreNumbers
  <2>5. GgufTypeOK'
    BY <2>1, <2>2, <2>3, <2>4, ConstantsAreNumbers DEF GgufInv, GgufTypeOK, Stages, Reading
  <2> QED
    BY <2>1, <2>2, <2>3, <2>5, TensorsKept DEF GgufInv, PartsTyped, IsInteger, Stages, Reading, HasData
<1> QED
  BY <1>2, <1>3

LEMMA ReadKeyKeepsInv ==
    ASSUME GgufInv, ReadKey
    PROVE  GgufInv'
<1>1. PICK k \in Keys, t \in ValueTypes :
        IF CanReadString(LengthOf[k], 0) /\ Require(off + 8 + LengthOf[k], 4)
        THEN /\ ReadsString(LengthOf[k], 0, 4)
             /\ item' = [key |-> k, type |-> t, elem |-> "none", held |-> 0]
             /\ pc' = "value"
             /\ UNCHANGED <<filesize, header, items, metadata, left, tmp, dataOffset, tensors, index>>
        ELSE Refuses
  BY DEF ReadKey
<1>2. CASE Refuses
  BY <1>2, RefusesKeepsInv
<1>3. CASE ~Refuses
  <2>1. /\ CanReadString(LengthOf[k], 0) /\ Require(off + 8 + LengthOf[k], 4)
        /\ ReadsString(LengthOf[k], 0, 4)
        /\ item' = [key |-> k, type |-> t, elem |-> "none", held |-> 0]
        /\ pc' = "value"
        /\ UNCHANGED <<filesize, header, items, metadata, left, tmp, dataOffset, tensors, index>>
    BY <1>1, <1>3
  <2>2. /\ pc = "key" /\ items < header.nkv
        /\ filesize \in Nat /\ off \in Nat /\ heap \in 0 .. MaxParseHeapBytes
        /\ LengthOf[k] \in Nat
    BY ConstantsAreNumbers DEF ReadKey, GgufInv, GgufTypeOK
  <2>3. off' \in Nat /\ off' <= filesize /\ heap' \in 0 .. MaxParseHeapBytes
    BY <2>1, <2>2, StringIsSafe, ConstantsAreNumbers
  <2>4. GgufTypeOK' /\ ReadsWithinFile'
    BY <2>1, <2>2, <2>3 DEF GgufInv, GgufTypeOK, ReadsWithinFile
  <2>5. PartsTyped' /\ Stages'
    BY <2>1, <2>2 DEF GgufInv, PartsTyped, IsInteger, Stages, Reading, HasData
  <2> QED
    BY <2>1, <2>4, <2>5, TensorsKept DEF GgufInv
<1> QED
  BY <1>2, <1>3

\* A value is stored: whatever was read for it was read within the bounds.
LEMMA EmplaceKeepsInv ==
    ASSUME GgufInv, pc \in {"value", "elements"},
           NEW data, NEW held, IsInteger(item) => data \in Int,
           Emplace(data, held),
           off' \in Nat, off' <= filesize, heap' \in 0 .. MaxParseHeapBytes,
           UNCHANGED <<filesize, header, item, left, tmp, dataOffset, tensors, index>>
    PROVE  GgufInv'
<1>1. CASE item.key \in DOMAIN metadata
  <2>1. pc' = "refused" /\ UNCHANGED <<items, metadata>>
    BY <1>1 DEF Emplace
  <2>2. GgufTypeOK' /\ ReadsWithinFile'
    BY <2>1 DEF GgufInv, GgufTypeOK, ReadsWithinFile
  <2>3. PartsTyped' /\ Stages'
    BY <2>1 DEF GgufInv, PartsTyped, IsInteger, Stages, Reading, HasData
  <2> QED
    BY <2>2, <2>3, TensorsKept DEF GgufInv
<1>2. CASE item.key \notin DOMAIN metadata
  <2> DEFINE entry == [type |-> item.type, data |-> data, held |-> held]
  <2>1. /\ pc' = "key" /\ items' = items + 1
        /\ metadata' = [k \in DOMAIN metadata \cup {item.key} |->
                          IF k = item.key THEN entry ELSE metadata[k]]
    BY <1>2 DEF Emplace
  <2>2. item.key \in Keys /\ items < header.nkv /\ header.nkv \in Nat /\ items \in Nat
    BY ConstantsAreNumbers DEF GgufInv, PartsTyped, Stages, GgufTypeOK
  <2>3. GgufTypeOK' /\ ReadsWithinFile'
    BY <2>1, <2>2 DEF GgufInv, GgufTypeOK, ReadsWithinFile
  <2>4. ASSUME NEW k \in DOMAIN metadata', IsInteger(metadata'[k])
        PROVE  metadata'[k].data \in Int
    <3>1. CASE k = item.key
      BY <2>1, <2>4, <3>1 DEF IsInteger
    <3>2. CASE k # item.key
      BY <2>1, <2>4, <3>2 DEF GgufInv, PartsTyped, IsInteger
    <3> QED
      BY <3>1, <3>2
  <2>5. PartsTyped' /\ Stages'
    BY <2>1, <2>2, <2>4 DEF GgufInv, PartsTyped, IsInteger, Stages, Reading, HasData
  <2> QED
    BY <2>3, <2>5, TensorsKept DEF GgufInv
<1> QED
  BY <1>1, <1>2

LEMMA ReadNumberKeepsInv ==
    ASSUME GgufInv, ReadNumber
    PROVE  GgufInv'
<1>1. PICK v \in Payloads[item.type] :
        IF Require(off, ScalarWidth[item.type])
        THEN /\ off' = off + ScalarWidth[item.type]
             /\ Emplace(v, 0)
             /\ UNCHANGED <<filesize, heap, header, item, left, tmp, dataOffset, tensors, index>>
        ELSE Refuses
  BY DEF ReadNumber
<1>2. CASE Refuses
  BY <1>2, RefusesKeepsInv
<1>3. CASE ~Refuses
  <2>1. /\ Require(off, ScalarWidth[item.type])
        /\ off' = off + ScalarWidth[item.type]
        /\ Emplace(v, 0)
        /\ UNCHANGED <<filesize, heap, header, item, left, tmp, dataOffset, tensors, index>>
    BY <1>1, <1>3
  <2>2. /\ pc = "value" /\ ScalarWidth[item.type] \in Nat
        /\ filesize \in Nat /\ off \in Nat /\ heap \in 0 .. MaxParseHeapBytes
    BY ConstantsAreNumbers, WidthIsPositive DEF ReadNumber, GgufInv, GgufTypeOK
  <2>3. off' \in Nat /\ off' <= filesize
    BY <2>1, <2>2 DEF Require
  <2>4. IsInteger(item) => v \in Int
    BY PayloadsAreIntegers DEF IsInteger
  <2> QED
    BY <2>1, <2>2, <2>3, <2>4, EmplaceKeepsInv
<1> QED
  BY <1>2, <1>3

LEMMA ReadStringValueKeepsInv ==
    ASSUME GgufInv, ReadStringValue
    PROVE  GgufInv'
<1>1. PICK len \in StringLengths :
        IF CanReadString(len, StringBytes)
        THEN /\ ReadsString(len, StringBytes, 0)
             /\ Emplace(len, StringBytes + len)
             /\ UNCHANGED <<filesize, header, item, left, tmp, dataOffset, tensors, index>>
        ELSE Refuses
  BY DEF ReadStringValue
<1>2. CASE Refuses
  BY <1>2, RefusesKeepsInv
<1>3. CASE ~Refuses
  <2>1. /\ CanReadString(len, StringBytes)
        /\ ReadsString(len, StringBytes, 0)
        /\ Emplace(len, StringBytes + len)
        /\ UNCHANGED <<filesize, header, item, left, tmp, dataOffset, tensors, index>>
    BY <1>1, <1>3
  <2>2. /\ pc = "value" /\ len \in Nat /\ StringBytes \in Nat
        /\ filesize \in Nat /\ off \in Nat /\ heap \in 0 .. MaxParseHeapBytes
    BY ConstantsAreNumbers DEF ReadStringValue, GgufInv, GgufTypeOK, StringBytes
  <2>3. off' \in Nat /\ off' <= filesize /\ heap' \in 0 .. MaxParseHeapBytes
    <3>1. Require(off + 8 + len, 0)
      BY <2>1, <2>2 DEF CanReadString, Require
    <3> QED
      BY <2>1, <2>2, <3>1, StringIsSafe, ConstantsAreNumbers
  <2> QED
    BY <2>1, <2>2, <2>3, EmplaceKeepsInv
<1> QED
  BY <1>2, <1>3

LEMMA ReadArrayHeaderKeepsInv ==
    ASSUME GgufInv, ReadArrayHeader
    PROVE  GgufInv'
<1>1. PICK e \in ValueTypes, n \in ArrayLengths :
        IF /\ Require(off, 12)
           /\ e \in DOMAIN ScalarWidth \cup {"String"}
           /\ n <= MaxArrayElements
           /\ n * ElementWidth(e) <= filesize - (off + 12)
           /\ n * ElementBytes(e) <= heap
        THEN /\ off' = off + 12
             /\ heap' = heap - n * ElementBytes(e)
             /\ item' = [item EXCEPT !.elem = e,
                           !.held = n * (IF e = "String" THEN StringBytes ELSE 8)]
             /\ left' = n
             /\ pc' = "elements"
             /\ UNCHANGED <<filesize, header, items, metadata, tmp, dataOffset, tensors, index>>
        ELSE Refuses
  BY DEF ReadArrayHeader
<1>2. CASE Refuses
  BY <1>2, RefusesKeepsInv
<1>3. CASE ~Refuses
  <2> DEFINE held == n * (IF e = "String" THEN StringBytes ELSE 8)
  <2>1. /\ Require(off, 12) /\ e \in DOMAIN ScalarWidth \cup {"String"}
        /\ n <= MaxArrayElements /\ n * ElementBytes(e) <= heap
        /\ off' = off + 12 /\ heap' = heap - n * ElementBytes(e)
        /\ item' = [item EXCEPT !.elem = e, !.held = held]
        /\ left' = n /\ pc' = "elements"
        /\ UNCHANGED <<filesize, header, items, metadata, tmp, dataOffset, tensors, index>>
    BY <1>1, <1>3
  <2>2. /\ pc = "value" /\ n \in Nat
        /\ filesize \in Nat /\ off \in Nat /\ heap \in 0 .. MaxParseHeapBytes
    BY ConstantsAreNumbers DEF ReadArrayHeader, GgufInv, GgufTypeOK
  <2>3. off' \in Nat /\ off' <= filesize
    BY <2>1, <2>2 DEF Require
  <2>4. heap' \in 0 .. MaxParseHeapBytes
    <3>1. n * ElementBytes(e) \in Nat
      BY <2>2 DEF ElementBytes, StringBytes
    <3> QED
      BY <2>1, <2>2, <3>1, ChargeIsSafe, ConstantsAreNumbers
  <2>5. GgufTypeOK' /\ ReadsWithinFile'
    BY <2>1, <2>2, <2>3, <2>4, ConstantsAreNumbers DEF GgufInv, GgufTypeOK, ReadsWithinFile
  <2>6. PartsTyped'
    BY <2>1, <2>2 DEF GgufInv, PartsTyped, IsInteger
  <2>7. Stages'
    BY <2>1, <2>2 DEF GgufInv, Stages, Reading, HasData
  <2> QED
    BY <2>1, <2>5, <2>6, <2>7, TensorsKept DEF GgufInv
<1> QED
  BY <1>2, <1>3

\* One element less to read.
LEMMA OneLess ==
    ASSUME GgufInv, left > 0, left' = left - 1
    PROVE  left' \in 0 .. MaxArrayElements
<1>1. left \in 0 .. MaxArrayElements
  BY DEF GgufInv, GgufTypeOK
<1>2. MaxArrayElements \in Nat
  BY ConstantsAreNumbers
<1> QED
  BY <1>1, <1>2

LEMMA ReadStringElementKeepsInv ==
    ASSUME GgufInv, ReadStringElement
    PROVE  GgufInv'
<1>1. PICK len \in StringLengths :
        IF CanReadString(len, 0)
        THEN /\ ReadsString(len, 0, 0)
             /\ item' = [item EXCEPT !.held = @ + len]
             /\ left' = left - 1
             /\ UNCHANGED <<filesize, pc, header, items, metadata, tmp, dataOffset, tensors, index>>
        ELSE Refuses
  BY DEF ReadStringElement
<1>2. CASE Refuses
  BY <1>2, RefusesKeepsInv
<1>3. CASE ~Refuses
  <2>1. /\ CanReadString(len, 0) /\ ReadsString(len, 0, 0)
        /\ item' = [item EXCEPT !.held = @ + len]
        /\ left' = left - 1
        /\ UNCHANGED <<filesize, pc, header, items, metadata, tmp, dataOffset, tensors, index>>
    BY <1>1, <1>3
  <2>2. /\ pc = "elements" /\ left > 0 /\ len \in Nat
        /\ filesize \in Nat /\ off \in Nat /\ heap \in 0 .. MaxParseHeapBytes
    BY ConstantsAreNumbers DEF ReadStringElement, GgufInv, GgufTypeOK
  <2>3. off' \in Nat /\ off' <= filesize /\ heap' \in 0 .. MaxParseHeapBytes
    <3>1. Require(off + 8 + len, 0)
      BY <2>1, <2>2 DEF CanReadString, Require
    <3> QED
      BY <2>1, <2>2, <3>1, StringIsSafe, ConstantsAreNumbers
  <2>4. left' \in 0 .. MaxArrayElements
    BY <2>1, <2>2, OneLess
  <2>5. GgufTypeOK' /\ ReadsWithinFile'
    BY <2>1, <2>3, <2>4 DEF GgufInv, GgufTypeOK, ReadsWithinFile
  <2>6. PartsTyped' /\ Stages'
    BY <2>1, <2>2 DEF GgufInv, PartsTyped, IsInteger, Stages, Reading, HasData
  <2> QED
    BY <2>1, <2>5, <2>6, TensorsKept DEF GgufInv
<1> QED
  BY <1>2, <1>3

LEMMA ReadElementKeepsInv ==
    ASSUME GgufInv, ReadElement
    PROVE  GgufInv'
<1>1. CASE Refuses
  BY <1>1, RefusesKeepsInv
<1>2. CASE ~Refuses
  <2>1. /\ Require(off, ScalarWidth[item.elem])
        /\ off' = off + ScalarWidth[item.elem]
        /\ left' = left - 1
        /\ UNCHANGED <<filesize, heap, pc, header, items, metadata, item, tmp,
                       dataOffset, tensors, index>>
    BY <1>2 DEF ReadElement
  <2>2. /\ pc = "elements" /\ left > 0 /\ ScalarWidth[item.elem] \in Nat
        /\ filesize \in Nat /\ off \in Nat
    BY ConstantsAreNumbers, WidthIsPositive DEF ReadElement, GgufInv, GgufTypeOK, PartsTyped
  <2>3. off' \in Nat /\ off' <= filesize
    BY <2>1, <2>2 DEF Require
  <2>4. left' \in 0 .. MaxArrayElements
    BY <2>1, <2>2, OneLess
  <2>5. GgufTypeOK' /\ ReadsWithinFile'
    BY <2>1, <2>3, <2>4 DEF GgufInv, GgufTypeOK, ReadsWithinFile
  <2>6. PartsTyped' /\ Stages'
    BY <2>1, <2>2 DEF GgufInv, PartsTyped, IsInteger, Stages, Reading, HasData
  <2> QED
    BY <2>1, <2>5, <2>6, TensorsKept DEF GgufInv
<1> QED
  BY <1>1, <1>2

LEMMA ArrayDoneKeepsInv ==
    ASSUME GgufInv, ArrayDone
    PROVE  GgufInv'
<1>1. /\ pc = "elements" /\ Emplace(0, item.held) /\ 0 \in Int
      /\ UNCHANGED <<filesize, off, heap, header, item, left, tmp, dataOffset, tensors, index>>
  BY DEF ArrayDone
<1>2. off' \in Nat /\ off' <= filesize /\ heap' \in 0 .. MaxParseHeapBytes
  BY <1>1 DEF GgufInv, GgufTypeOK, ReadsWithinFile
<1> QED
  BY <1>1, <1>2, EmplaceKeepsInv

LEMMA MetadataDoneKeepsInv ==
    ASSUME GgufInv, MetadataDone
    PROVE  GgufInv'
<1>1. CASE Refuses
  BY <1>1, RefusesKeepsInv
<1>2. CASE ~Refuses
  <2>1. /\ pc = "key" /\ header.nt * DescriptorBytes <= heap
        /\ heap' = heap - header.nt * DescriptorBytes
        /\ pc' = "descriptor"
        /\ UNCHANGED <<filesize, off, header, items, metadata, item, left, tmp, dataOffset,
                       tensors, index>>
    BY <1>2 DEF MetadataDone, parts
  <2>2. heap' \in 0 .. MaxParseHeapBytes
    <3>1. header.nt \in Nat /\ heap \in 0 .. MaxParseHeapBytes
      BY ConstantsAreNumbers DEF GgufInv, GgufTypeOK
    <3>2. header.nt * DescriptorBytes \in Nat
      BY <3>1 DEF DescriptorBytes
    <3> QED
      BY <2>1, <3>1, <3>2, ChargeIsSafe, ConstantsAreNumbers
  <2>3. GgufTypeOK' /\ ReadsWithinFile'
    BY <2>1, <2>2 DEF GgufInv, GgufTypeOK, ReadsWithinFile
  <2>4. PartsTyped' /\ Stages'
    BY <2>1 DEF GgufInv, PartsTyped, IsInteger, Stages, Reading, HasData
  <2> QED
    BY <2>1, <2>3, <2>4, TensorsKept DEF GgufInv
<1> QED
  BY <1>1, <1>2

LEMMA ReadDescriptorKeepsInv ==
    ASSUME GgufInv, ReadDescriptor
    PROVE  GgufInv'
<1>1. PICK name \in Names, dims \in Shapes, type \in GgmlTypes, rel \in Rels :
        IF /\ Len(dims) \in 1 .. 4
           /\ CanReadString(LengthOf[name], 8 * Len(dims))
           /\ Require(off + 8 + LengthOf[name], FieldBytes(dims))
           /\ \A d \in DOMAIN dims : dims[d] # 0
        THEN /\ ReadsString(LengthOf[name], 8 * Len(dims), FieldBytes(dims))
             /\ tmp' = Append(tmp, [name |-> name, dims |-> dims, type |-> type, rel |-> rel])
             /\ UNCHANGED <<filesize, pc, header, items, metadata, item, left,
                            dataOffset, tensors, index>>
        ELSE Refuses
  BY DEF ReadDescriptor
<1>2. CASE Refuses
  BY <1>2, RefusesKeepsInv
<1>3. CASE ~Refuses
  <2> DEFINE t == [name |-> name, dims |-> dims, type |-> type, rel |-> rel]
  <2>1. /\ CanReadString(LengthOf[name], 8 * Len(dims))
        /\ Require(off + 8 + LengthOf[name], FieldBytes(dims))
        /\ ReadsString(LengthOf[name], 8 * Len(dims), FieldBytes(dims))
        /\ tmp' = Append(tmp, t)
        /\ UNCHANGED <<filesize, pc, header, items, metadata, item, left,
                       dataOffset, tensors, index>>
    BY <1>1, <1>3
  <2>2. /\ pc = "descriptor" /\ Len(tmp) < header.nt /\ header.nt \in Nat
        /\ filesize \in Nat /\ off \in Nat /\ heap \in 0 .. MaxParseHeapBytes
    BY ConstantsAreNumbers DEF ReadDescriptor, GgufInv, GgufTypeOK
  <2>3. /\ dims \in Seq(Word) /\ Len(dims) \in Nat /\ rel \in Word
        /\ LengthOf[name] \in Nat
    BY GgufAssumption, ConstantsAreNumbers, LenProperties DEF GgufAssumption
  <2>4. 8 * Len(dims) \in Nat /\ FieldBytes(dims) \in Nat
    BY <2>3 DEF FieldBytes
  <2>5. off' \in Nat /\ off' <= filesize /\ heap' \in 0 .. MaxParseHeapBytes
    BY <2>1, <2>2, <2>3, <2>4, StringIsSafe, ConstantsAreNumbers
  <2>6. t \in Descriptor /\ tmp \in Seq(Descriptor)
    BY <2>3 DEF Descriptor, GgufInv, PartsTyped
  <2>7. /\ tmp' \in Seq(Descriptor) /\ Len(tmp') = Len(tmp) + 1 /\ Len(tmp) \in Nat
    BY <2>1, <2>6, AppendProperties, LenProperties
  <2>8. tensors = <<>> /\ Len(tensors) = 0
    BY <2>2 DEF GgufInv, Stages, Reading
  <2>9. GgufTypeOK' /\ ReadsWithinFile'
    BY <2>1, <2>2, <2>5, <2>7, <2>8 DEF GgufInv, GgufTypeOK, ReadsWithinFile
  <2>10. PartsTyped' /\ Stages'
    BY <2>1, <2>2, <2>7 DEF GgufInv, PartsTyped, IsInteger, Stages, Reading, HasData
  <2> QED
    BY <2>1, <2>9, <2>10, TensorsKept DEF GgufInv
<1> QED
  BY <1>2, <1>3

\* The alignment that as_unsigned let through is a number.
LEMMA AlignmentIsNumber ==
    ASSUME GgufInv, AlignmentKey \in DOMAIN metadata => IsUnsigned(metadata[AlignmentKey])
    PROVE  Alignment \in Nat
BY DEF GgufInv, PartsTyped, Alignment, IsUnsigned

LEMMA DescriptorsDoneKeepsInv ==
    ASSUME GgufInv, DescriptorsDone
    PROVE  GgufInv'
<1>1. CASE Refuses
  BY <1>1, RefusesKeepsInv
<1>2. CASE ~Refuses
  <2>1. /\ pc = "descriptor" /\ Len(tmp) = header.nt
        /\ AlignmentKey \in DOMAIN metadata => IsUnsigned(metadata[AlignmentKey])
        /\ Alignment # 0 /\ AlignmentFits(Alignment)
        /\ header.nt * TensorBytes <= heap
        /\ dataOffset' = RoundedUp(off, Alignment)
        /\ heap' = heap - header.nt * TensorBytes
        /\ pc' = "tensor"
        /\ UNCHANGED <<filesize, off, header, items, metadata, item, left, tmp, tensors, index>>
    BY <1>2 DEF DescriptorsDone
  <2>2. Alignment \in Nat \ {0} /\ off \in Nat /\ header.nt \in Nat
    BY <2>1, AlignmentIsNumber, ConstantsAreNumbers DEF GgufInv, GgufTypeOK
  <2>3. dataOffset' \in Word
    <3>1. /\ dataOffset' \in Nat
          /\ dataOffset' <= off + Alignment - 1
      BY <2>1, <2>2, RoundedUpBounds
    <3> QED
      BY <2>1, <2>2, <3>1, ConstantsAreNumbers DEF AlignmentFits, Word
  <2>4. heap' \in 0 .. MaxParseHeapBytes
    <3>1. header.nt * TensorBytes \in Nat
      BY <2>2 DEF TensorBytes
    <3>2. heap \in 0 .. MaxParseHeapBytes
      BY DEF GgufInv, GgufTypeOK
    <3> QED
      BY <2>1, <3>1, <3>2, ChargeIsSafe, ConstantsAreNumbers
  <2>5. tensors = <<>> /\ tensors' = <<>>
    BY <2>1 DEF GgufInv, Stages, Reading
  <2>6. GgufTypeOK' /\ ReadsWithinFile'
    BY <2>1, <2>3, <2>4 DEF GgufInv, GgufTypeOK, ReadsWithinFile
  <2>7. PartsTyped' /\ Stages'
    BY <2>1 DEF GgufInv, PartsTyped, IsInteger, Stages, Reading, HasData
  <2>8. TensorsInFile'
    BY <2>5 DEF TensorsInFile
  <2> QED
    BY <2>6, <2>7, <2>8 DEF GgufInv
<1> QED
  BY <1>1, <1>2

-----------------------------------------------------------------------------
\* Every type with a size is laid out in blocks.
LEMMA BlocksArePositive ==
    ASSUME NEW type \in DOMAIN Blocks32 \cup DOMAIN Blocks256 \cup DOMAIN Plain
    PROVE  BlockOf(type).qk \in Nat \ {0} /\ BlockOf(type).bytes \in Nat
<1>1. CASE type \in DOMAIN Blocks32
  BY <1>1 DEF Blocks32, Blocks256, Plain, BlockOf
<1>2. CASE type \in DOMAIN Blocks256
  BY <1>2 DEF Blocks32, Blocks256, Plain, BlockOf
<1>3. CASE type \in DOMAIN Plain
  BY <1>3 DEF Blocks32, Blocks256, Plain, BlockOf
<1> QED
  BY <1>1, <1>2, <1>3

\* The size of a tensor is a number.
LEMMA SizeIsNumber ==
    ASSUME NEW dims \in Seq(Word), NEW type, HasSize(type, Elements(dims))
    PROVE  TensorNBytes(type, Elements(dims)) \in Nat
<1>1. \A i \in 1 .. 4 : Ne(dims, i) \in Nat
  <2>1. Len(dims) \in Nat
    BY LenProperties
  <2>2. \A i \in 1 .. Len(dims) : dims[i] \in Nat
    BY ElementOfSeq, ConstantsAreNumbers
  <2>3. \A i \in 1 .. 4 : i <= Len(dims) => i \in 1 .. Len(dims)
    BY <2>1
  <2> QED
    BY <2>2, <2>3 DEF Ne
<1>2. \A a, b \in Nat : a * b \in Nat
  OBVIOUS
<1>3. Elements(dims) \in Nat
  BY <1>1, <1>2 DEF Elements
<1>4. \A n \in Nat, d \in Nat \ {0} : n \div d \in Nat
  OBVIOUS
<1>5. BlockOf(type).qk \in Nat \ {0} /\ BlockOf(type).bytes \in Nat
  BY BlocksArePositive DEF HasSize
<1> QED
  BY <1>2, <1>3, <1>4, <1>5 DEF TensorNBytes

LEMMA PlaceTensorKeepsInv ==
    ASSUME GgufInv, PlaceTensor
    PROVE  GgufInv'
<1>1. CASE Refuses
  BY <1>1, RefusesKeepsInv
<1>2. CASE ~Refuses
  <2> DEFINE t == tmp[Len(tensors) + 1]
             nbytes == TensorNBytes(t.type, Elements(t.dims))
             x == [name |-> t.name, dims |-> t.dims, type |-> t.type,
                   offset |-> dataOffset + t.rel, nbytes |-> nbytes]
  <2>1. /\ pc = "tensor" /\ Len(tensors) < header.nt /\ Placeable(t)
        /\ tensors' = Append(tensors, x)
        /\ UNCHANGED <<filesize, off, heap, pc, header, items, metadata, item, left,
                       tmp, dataOffset>>
    BY <1>2 DEF PlaceTensor
  <2>2. /\ tmp \in Seq(Descriptor) /\ tensors \in Seq(Placed)
        /\ Len(tmp) = header.nt /\ Len(tmp) \in Nat /\ Len(tensors) \in Nat
        /\ dataOffset \in Nat /\ filesize \in Nat
    BY <2>1, LenProperties, ConstantsAreNumbers
       DEF GgufInv, PartsTyped, Stages, HasData, GgufTypeOK
  <2>3. t \in Descriptor
    BY <2>1, <2>2, ElementOfSeq
  <2>4. /\ t.name \in Names /\ t.dims \in Seq(Word) /\ t.type \in GgmlTypes /\ t.rel \in Nat
    BY <2>3, ConstantsAreNumbers DEF Descriptor
  <2>5. nbytes \in Nat
    BY <2>1, <2>4, SizeIsNumber DEF Placeable
  <2>6. dataOffset <= dataOffset + t.rel /\ (dataOffset + t.rel) + nbytes <= filesize
    BY <2>1, <2>2, <2>4, <2>5 DEF Placeable, InFile
  <2>7. x \in Placed
    BY <2>2, <2>4, <2>5 DEF Placed
  <2>8. /\ tensors' \in Seq(Placed) /\ Len(tensors') = Len(tensors) + 1
        /\ \A i \in 1 .. Len(tensors) : tensors'[i] = tensors[i]
        /\ tensors'[Len(tensors) + 1] = x
    BY <2>1, <2>2, <2>7, AppendProperties
  <2>9. TensorsInFile'
    <3>1. ASSUME NEW i \in 1 .. Len(tensors')
          PROVE  /\ dataOffset <= tensors'[i].offset
                 /\ tensors'[i].offset + tensors'[i].nbytes <= filesize
      <4>1. CASE i = Len(tensors) + 1
        BY <2>6, <2>8, <4>1
      <4>2. CASE i \in 1 .. Len(tensors)
        BY <2>8, <4>2 DEF GgufInv, TensorsInFile
      <4> QED
        BY <2>2, <2>8, <4>1, <4>2
    <3> QED
      BY <2>1, <3>1 DEF TensorsInFile
  <2>10. GgufTypeOK' /\ ReadsWithinFile'
    BY <2>1, <2>2, <2>8 DEF GgufInv, GgufTypeOK, ReadsWithinFile
  <2>11. PartsTyped' /\ Stages'
    BY <2>1, <2>8 DEF GgufInv, PartsTyped, IsInteger, Stages, Reading, HasData
  <2> QED
    BY <2>9, <2>10, <2>11 DEF GgufInv
<1> QED
  BY <1>1, <1>2

LEMMA TensorsDoneKeepsInv ==
    ASSUME GgufInv, TensorsDone
    PROVE  GgufInv'
BY DEF GgufInv, TensorsDone, parts, GgufTypeOK, PartsTyped, IsInteger, Stages,
       ReadsWithinFile, TensorsInFile, Reading, HasData

-----------------------------------------------------------------------------
LEMMA InitHoldsInv == GgufInit => GgufInv
BY GgufAssumption, ConstantsAreNumbers
   DEF GgufAssumption, GgufInit, GgufInv, GgufTypeOK, PartsTyped, IsInteger, NoItem, Stages,
       ReadsWithinFile, TensorsInFile, Reading, HasData, Word

LEMMA StutterKeepsInv ==
    ASSUME GgufInv, UNCHANGED ggufVars
    PROVE  GgufInv'
BY DEF ggufVars, parts, GgufInv, GgufTypeOK, PartsTyped, IsInteger, Stages,
       ReadsWithinFile, TensorsInFile, Reading, HasData

(***************************************************************************)
(* The reader's invariant: it stays in the file and in its budget, and     *)
(* what it accepts lies in the file.                                       *)
(***************************************************************************)
THEOREM GgufCorrect == GgufSpec => []GgufInv
<1>1. GgufInv /\ [GgufNext]_ggufVars => GgufInv'
  <2> SUFFICES ASSUME GgufInv, [GgufNext]_ggufVars
               PROVE  GgufInv'
    OBVIOUS
  <2>1. CASE ReadHeader
    BY <2>1, ReadHeaderKeepsInv
  <2>2. CASE ReadKey
    BY <2>2, ReadKeyKeepsInv
  <2>3. CASE ReadNumber
    BY <2>3, ReadNumberKeepsInv
  <2>4. CASE ReadStringValue
    BY <2>4, ReadStringValueKeepsInv
  <2>5. CASE ReadArrayHeader
    BY <2>5, ReadArrayHeaderKeepsInv
  <2>6. CASE ReadStringElement
    BY <2>6, ReadStringElementKeepsInv
  <2>7. CASE ReadElement
    BY <2>7, ReadElementKeepsInv
  <2>8. CASE ArrayDone
    BY <2>8, ArrayDoneKeepsInv
  <2>9. CASE UnknownType
    BY <2>9, RefusesKeepsInv DEF UnknownType
  <2>10. CASE MetadataDone
    BY <2>10, MetadataDoneKeepsInv
  <2>11. CASE ReadDescriptor
    BY <2>11, ReadDescriptorKeepsInv
  <2>12. CASE DescriptorsDone
    BY <2>12, DescriptorsDoneKeepsInv
  <2>13. CASE PlaceTensor
    BY <2>13, PlaceTensorKeepsInv
  <2>14. CASE TensorsDone
    BY <2>14, TensorsDoneKeepsInv
  <2>15. CASE UNCHANGED ggufVars
    BY <2>15, StutterKeepsInv
  <2> QED
    BY <2>1, <2>2, <2>3, <2>4, <2>5, <2>6, <2>7, <2>8, <2>9, <2>10, <2>11, <2>12,
       <2>13, <2>14, <2>15 DEF GgufNext
<1> QED
  BY <1>1, InitHoldsInv, PTL DEF GgufSpec

(***************************************************************************)
(* No length or count in a file leads Reader past its end.                 *)
(***************************************************************************)
THEOREM ReadsStayInFile == GgufSpec => []ReadsWithinFile
<1>1. GgufInv => ReadsWithinFile
  BY DEF GgufInv
<1> QED
  BY <1>1, GgufCorrect, PTL

(***************************************************************************)
(* What tensor_data returns may be read for nbytes, for every tensor that  *)
(* the constructor accepted.                                               *)
(***************************************************************************)
THEOREM TensorsStayInFile == GgufSpec => []TensorsInFile
<1>1. GgufInv => TensorsInFile
  BY DEF GgufInv
<1> QED
  BY <1>1, GgufCorrect, PTL

(***************************************************************************)
(* heap_remaining_ is never decremented below 0 and the rounded data       *)
(* offset never wraps: both stay words of the machine.                     *)
(***************************************************************************)
THEOREM GgufTypeCorrect == GgufSpec => []GgufTypeOK
<1>1. GgufInv => GgufTypeOK
  BY DEF GgufInv
<1> QED
  BY <1>1, GgufCorrect, PTL

\* The rounded position is a multiple.
LEMMA RoundedUpIsMultiple ==
    ASSUME NEW p \in Nat, NEW a \in Nat \ {0}
    PROVE  RoundedUp(p, a) % a = 0
<1>1. \A q \in Nat : (q * a) % a = 0
  BY Z3
<1>2. (p + a - 1) \div a \in Nat
  OBVIOUS
<1> QED
  BY <1>1, <1>2 DEF RoundedUp

(***************************************************************************)
(* The data section of every accepted file starts at the first multiple of *)
(* the alignment behind the descriptors, for every power of two.           *)
(***************************************************************************)
THEOREM DataNeverOverlapsDescriptors == GgufSpec => []DataFollowsDescriptors
<1>1. GgufInit => DataFollowsDescriptors
  BY DEF GgufInit, DataFollowsDescriptors
<1>2. GgufInv /\ GgufInv' /\ DataFollowsDescriptors /\ [GgufNext]_ggufVars
        => DataFollowsDescriptors'
  <2> SUFFICES ASSUME GgufInv, GgufInv', DataFollowsDescriptors, [GgufNext]_ggufVars
               PROVE  DataFollowsDescriptors'
    OBVIOUS
  <2>0. dataOffset' \in Word
    BY DEF GgufInv, GgufTypeOK
  <2>1. CASE pc' \notin HasData
    BY <2>1 DEF DataFollowsDescriptors, HasData
  <2>2. CASE pc \in HasData /\ pc' \in HasData
    <3>1. UNCHANGED <<off, metadata, dataOffset>>
      BY <2>2 DEF GgufNext, ReadHeader, ReadKey, ReadNumber, ReadStringValue, ReadArrayHeader,
         ReadStringElement, ReadElement, ArrayDone, UnknownType, MetadataDone, ReadDescriptor,
         DescriptorsDone, PlaceTensor, TensorsDone, Refuses, HasData, ggufVars, parts
    <3> QED
      BY <2>2, <3>1 DEF DataFollowsDescriptors, HasData, Alignment
  <2>3. CASE pc \notin HasData /\ pc' \in HasData
    <3>1. DescriptorsDone /\ ~Refuses
      BY <2>3 DEF GgufNext, ReadHeader, ReadKey, ReadNumber, ReadStringValue, ReadArrayHeader,
         ReadStringElement, ReadElement, ArrayDone, UnknownType, MetadataDone, ReadDescriptor,
         PlaceTensor, TensorsDone, Refuses, HasData, ggufVars, Emplace
    <3>2. /\ AlignmentKey \in DOMAIN metadata => IsUnsigned(metadata[AlignmentKey])
          /\ Alignment # 0
          /\ dataOffset' = RoundedUp(off, Alignment)
          /\ UNCHANGED <<off, metadata>>
      BY <3>1 DEF DescriptorsDone
    <3>3. Alignment \in Nat \ {0} /\ off \in Nat
      BY <3>2, AlignmentIsNumber DEF GgufInv, GgufTypeOK
    <3>4. Alignment' = Alignment
      BY <3>2 DEF Alignment
    <3>5. /\ dataOffset' \in Nat
          /\ off <= dataOffset' /\ dataOffset' <= off + Alignment - 1
      BY <3>2, <3>3, RoundedUpBounds
    <3>6. \A d, o, a \in Nat : d <= o + a - 1 => d - o < a
      OBVIOUS
    <3>7. dataOffset' - off < Alignment
      BY <3>3, <3>5, <3>6
    <3>8. dataOffset' % Alignment = 0
      BY <3>2, <3>3, RoundedUpIsMultiple
    <3> QED
      BY <2>0, <3>2, <3>4, <3>5, <3>7, <3>8 DEF DataFollowsDescriptors
  <2> QED
    BY <2>1, <2>2, <2>3
<1> QED
  BY <1>1, <1>2, GgufCorrect, PTL DEF GgufSpec

-----------------------------------------------------------------------------
(***************************************************************************)
(* What look-ups and the budget rely on, over GgufInv.                     *)
(***************************************************************************)
\* The index and the list of tensors are inverse to each other, and metadata
\* and tensors have been counted as they were kept.
Lookups ==
    /\ IsFiniteSet(DOMAIN metadata) /\ Cardinality(DOMAIN metadata) = items
    /\ pc \in {"descriptor"} \cup HasData => items = header.nkv
    /\ \A j \in 1 .. Len(tmp) : Len(tmp[j].dims) \in 1 .. 4
    /\ IsFiniteSet(DOMAIN index) /\ Cardinality(DOMAIN index) = Len(tensors)
    /\ \A n \in DOMAIN index :
          index[n] \in 0 .. (Len(tensors) - 1) /\ tensors[index[n] + 1].name = n
    /\ \A j \in 1 .. Len(tensors) :
          /\ tensors[j].name \in DOMAIN index /\ index[tensors[j].name] = j - 1
          /\ RowsFill(tensors[j])
    /\ pc = "parsed" => Len(tensors) = header.nt

MetadataRows == [k \in DOMAIN metadata |-> ItemBytes + LengthOf[k] + metadata[k].held]
DescriptorRows ==
    [j \in DOMAIN tmp |-> DescriptorBytes + LengthOf[tmp[j].name] + 8 * Len(tmp[j].dims)]

\* What has been charged for what is still to come.
Advance ==
    CASE pc = "key" -> ItemBytes * (header.nkv - items)
      [] pc \in {"value", "elements"} -> ItemBytes * (header.nkv - items - 1)
      [] pc = "descriptor" -> DescriptorBytes * (header.nt - Len(tmp))
      [] pc = "tensor" -> TensorBytes * (header.nt - Len(tensors))
      [] OTHER -> 0

ItemFields == {"key", "type", "elem", "held"}

HeapBooks ==
    /\ IsFiniteSet(Table(MetadataRows)) /\ IsFiniteSet(Table(DescriptorRows))
    /\ DOMAIN item = ItemFields /\ item.held \in Nat /\ (pc = "value" => item.held = 0)
    /\ HeldByMetadata + HeldByItem + HeldByDescriptors + TensorBytes * Len(tensors) + Advance
         <= MaxParseHeapBytes - heap

UseInv == GgufInv /\ Lookups /\ HeapBooks

-----------------------------------------------------------------------------
\* A row more in a table.
LEMMA RowAdded ==
    ASSUME NEW w, IsFiniteSet(Table(w)), NEW x, x \notin DOMAIN w, NEW v \in Nat,
           NEW w2, DOMAIN w2 = DOMAIN w \cup {x}, w2[x] = v, \A y \in DOMAIN w : w2[y] = w[y]
    PROVE  IsFiniteSet(Table(w2)) /\ Total(w2) = Total(w) + v /\ Total(w) \in Nat
<1> DEFINE row == {x} \X (1 .. v)
<1>1. Table(w2) = Table(w) \cup row
  BY DEF Table
<1>2. Table(w) \cap row = {}
  BY DEF Table
<1>3. IsFiniteSet(row) /\ Cardinality(row) = v
  <2> DEFINE one == {x}
             all == 1 .. v
  <2>1. IsFiniteSet(one) /\ Cardinality(one) = 1
    BY FS_Singleton
  <2>2. IsFiniteSet(all) /\ Cardinality(all) = v
    <3>1. /\ IsFiniteSet(1 .. v)
          /\ Cardinality(1 .. v) = IF 1 > v THEN 0 ELSE v - 1 + 1
      BY FS_Interval, 1 \in Int, v \in Int, Zenon
    <3>2. (IF 1 > v THEN 0 ELSE v - 1 + 1) = v
      OBVIOUS
    <3> QED  BY <3>1, <3>2
  <2> HIDE DEF one, all
  <2>3. IsFiniteSet(one \X all) /\ Cardinality(one \X all) = Cardinality(one) * Cardinality(all)
    BY <2>1, <2>2, FS_Product
  <2>4. IsFiniteSet(one \X all) /\ Cardinality(one \X all) = v
    BY <2>1, <2>2, <2>3
  <2> QED  BY <2>4 DEF one, all
<1> HIDE DEF row
<1>4. /\ IsFiniteSet(Table(w) \cup row)
      /\ Cardinality(Table(w) \cup row)
           = Cardinality(Table(w)) + Cardinality(row) - Cardinality(Table(w) \cap row)
  BY <1>3, FS_Union
<1>5. Cardinality(Table(w)) \in Nat
  BY FS_CardinalityType
<1>6. Cardinality(Table(w) \cap row) = 0
  BY <1>2, FS_EmptySet
<1>7. Cardinality(Table(w) \cup row) = Cardinality(Table(w)) + v
  BY <1>3, <1>4, <1>5, <1>6
<1> QED  BY <1>1, <1>4, <1>5, <1>7, Zenon DEF Total

\* Without rows a table is empty.
LEMMA NoRows ==
    ASSUME NEW w, DOMAIN w = {}
    PROVE  IsFiniteSet(Table(w)) /\ Total(w) = 0
<1>1. Table(w) = {}
  BY DEF Table
<1> QED  BY <1>1, FS_EmptySet DEF Total

-----------------------------------------------------------------------------
\* A step that keeps nothing and stays in its stage, or ends one that is
\* complete.
LEMMA LookupsStay ==
    ASSUME Lookups, UNCHANGED <<metadata, items, tmp, index, tensors>>,
           pc' \in {"descriptor"} \cup HasData => items = header'.nkv,
           pc' = "parsed" => Len(tensors) = header'.nt
    PROVE  Lookups'
BY Zenon DEF Lookups

\* A metadata item more.
LEMMA LookupsEmplace ==
    ASSUME UseInv, pc \in {"value", "elements"}, NEW data, NEW held, Emplace(data, held),
           UNCHANGED <<header, tmp, tensors, index>>
    PROVE  Lookups'
<1>1. Lookups /\ items \in Nat
  BY ConstantsAreNumbers DEF UseInv, GgufInv, GgufTypeOK
<1>2. CASE item.key \in DOMAIN metadata
  <2>1. pc' = "refused" /\ UNCHANGED <<items, metadata>>
    BY <1>2 DEF Emplace
  <2> QED  BY <1>1, <2>1, LookupsStay DEF HasData
<1>3. CASE item.key \notin DOMAIN metadata
  <2>1. pc' = "key" /\ items' = items + 1 /\ DOMAIN metadata' = DOMAIN metadata \cup {item.key}
    BY <1>3 DEF Emplace
  <2>2. IsFiniteSet(DOMAIN metadata') /\ Cardinality(DOMAIN metadata') = items'
    <3> DEFINE D == DOMAIN metadata
    <3>1. IsFiniteSet(D) /\ Cardinality(D) = items
      BY <1>1 DEF Lookups
    <3> HIDE DEF D
    <3>2. item.key \notin D
      BY <1>3 DEF D
    <3>3. IsFiniteSet(D \cup {item.key}) /\ Cardinality(D \cup {item.key}) = items + 1
      BY <3>1, <3>2, FS_AddElement
    <3> QED  BY <2>1, <3>3 DEF D
  <2>3. pc' \notin {"descriptor", "parsed"} \cup HasData
    BY <2>1 DEF HasData
  <2> QED  BY <1>1, <2>2, <2>3, Zenon DEF Lookups
<1> QED  BY <1>2, <1>3

\* What is in a refused or accepted descriptor.
LEMMA LookupsDescriptor ==
    ASSUME UseInv, ReadDescriptor
    PROVE  Lookups'
<1>1. Lookups
  BY DEF UseInv
<1>2. CASE Refuses
  BY <1>1, <1>2, LookupsStay DEF Refuses, parts, HasData
<1>3. CASE ~Refuses
  <2>1. PICK name \in Names, dims \in Shapes, type \in GgmlTypes, rel \in Rels :
          /\ Len(dims) \in 1 .. 4
          /\ tmp' = Append(tmp, [name |-> name, dims |-> dims, type |-> type, rel |-> rel])
          /\ UNCHANGED <<pc, header, items, metadata, tensors, index>>
    BY <1>3, Zenon DEF ReadDescriptor
  <2>2. tmp \in Seq(Descriptor)
    BY DEF UseInv, GgufInv, PartsTyped
  <2> DEFINE x == [name |-> name, dims |-> dims, type |-> type, rel |-> rel]
  <2>3. /\ Len(tmp') = Len(tmp) + 1 /\ Len(tmp) \in Nat
        /\ \A j \in 1 .. Len(tmp) : tmp'[j] = tmp[j]
        /\ tmp'[Len(tmp) + 1] = x
    BY <2>1, <2>2
  <2>4. ASSUME NEW j \in 1 .. Len(tmp') PROVE Len(tmp'[j].dims) \in 1 .. 4
    <3>1. CASE j \in 1 .. Len(tmp)
      BY <1>1, <2>3, <3>1 DEF Lookups
    <3>2. CASE j = Len(tmp) + 1
      BY <2>1, <2>3, <3>2
    <3> QED  BY <2>3, <2>4, <3>1, <3>2
  <2> QED  BY <1>1, <2>1, <2>4, Zenon DEF Lookups
<1> QED  BY <1>2, <1>3

-----------------------------------------------------------------------------
BlockSizes == {1, 32, 256}

\* Rows of whole blocks: the elements of a tensor, divided into blocks.
LEMMA BlocksOfRows ==
    ASSUME NEW qk \in BlockSizes, NEW n \in Nat, n % qk = 0, NEW r \in Nat
    PROVE  (n * r) \div qk = r * (n \div qk)
<1>1. PICK m \in Nat : n = qk * m /\ n \div qk = m
  <2>1. n = qk * (n \div qk) + (n % qk) /\ n \div qk \in Nat
    BY DEF BlockSizes
  <2>2. n = qk * (n \div qk)
    BY <2>1 DEF BlockSizes
  <2> QED  BY <2>1, <2>2
<1>2. n * r = qk * (m * r)
  BY <1>1 DEF BlockSizes
<1>3. m * r \in Nat
  <2>1. \A a, b \in Nat : a * b \in Nat
    OBVIOUS
  <2> QED  BY <2>1
<1> DEFINE mr == m * r
<1> HIDE DEF mr
<1>4. mr \in Nat => (qk * mr) \div qk = mr
  BY DEF BlockSizes
<1> QED
  <2>1. (n * r) \div qk = m * r
    BY <1>2, <1>3, <1>4 DEF mr
  <2>2. m * r = r * m
    OBVIOUS
  <2> QED  BY <1>1, <2>1, <2>2

\* The block by which a row is checked is that of the size.
LEMMA RowBlocks ==
    ASSUME NEW type \in DOMAIN Blocks32 \cup DOMAIN Blocks256 \cup DOMAIN Plain
    PROVE  BlockOf(type).qk = QuantRowBlock(type) /\ BlockOf(type).qk \in BlockSizes
<1>1. CASE type \in DOMAIN Blocks32
  BY <1>1 DEF Blocks32, Blocks256, Plain, BlockOf, QuantRowBlock, BlockSizes
<1>2. CASE type \in DOMAIN Blocks256
  BY <1>2 DEF Blocks32, Blocks256, Plain, BlockOf, QuantRowBlock, BlockSizes
<1>3. CASE type \in DOMAIN Plain
  BY <1>3 DEF Blocks32, Blocks256, Plain, BlockOf, QuantRowBlock, BlockSizes
<1> QED  BY <1>1, <1>2, <1>3

\* A tensor that was placed is made of whole rows.
LEMMA PlacedRowsFill ==
    ASSUME NEW t \in Descriptor, Placeable(t), Len(t.dims) \in 1 .. 4, NEW offset
    PROVE  RowsFill([name |-> t.name, dims |-> t.dims, type |-> t.type, offset |-> offset,
                     nbytes |-> TensorNBytes(t.type, Elements(t.dims))])
<1> DEFINE block == BlockOf(t.type)
           n == t.dims[1]
<1>1. t.dims \in Seq(Word)
  BY DEF Descriptor
<1>2. \A j \in 1 .. 4 : Ne(t.dims, j) \in Nat
  <2>1. \A j \in 1 .. Len(t.dims) : t.dims[j] \in Nat
    BY <1>1, ElementOfSeq, ConstantsAreNumbers
  <2> QED  BY <2>1 DEF Ne
<1>3. Ne(t.dims, 1) = n
  BY DEF Ne
<1>4. Rows(t.dims) \in Nat
  <2>1. \A a, b \in Nat : a * b \in Nat
    OBVIOUS
  <2> QED  BY <1>2, <2>1 DEF Rows
<1>5. Elements(t.dims) = n * Rows(t.dims)
  <2>1. \A a, b, c, e \in Nat : a * b * c * e = a * (b * c * e)
    OBVIOUS
  <2>2. Ne(t.dims, 1) \in Nat /\ Ne(t.dims, 2) \in Nat /\ Ne(t.dims, 3) \in Nat /\ Ne(t.dims, 4) \in Nat
    BY <1>2
  <2> QED  BY <1>3, <2>1, <2>2 DEF Elements, Rows
<1>6. /\ block.qk \in BlockSizes /\ block.bytes \in Nat /\ n % block.qk = 0
  BY <1>3, RowBlocks, BlocksArePositive DEF Placeable, HasSize
<1>7. n \in Nat
  BY <1>2, <1>3
<1> HIDE DEF block, n
<1>8. (n * Rows(t.dims)) \div block.qk = Rows(t.dims) * (n \div block.qk)
  <2>1. \A qk \in BlockSizes, m, r \in Nat : m % qk = 0 => (m * r) \div qk = r * (m \div qk)
    BY BlocksOfRows
  <2> DEFINE r == Rows(t.dims)
             q == block.qk
  <2>2. r \in Nat /\ q \in BlockSizes /\ n % q = 0
    BY <1>4, <1>6
  <2> HIDE DEF r, q
  <2>3. (n * r) \div q = r * (n \div q)
    BY <1>7, <2>1, <2>2, Zenon
  <2> QED  BY <2>3 DEF r, q
<1>9. TensorNBytes(t.type, Elements(t.dims)) = (Rows(t.dims) * (n \div block.qk)) * block.bytes
  BY <1>5, <1>8 DEF TensorNBytes, block
<1>10. (Rows(t.dims) * (n \div block.qk)) * block.bytes
         = Rows(t.dims) * ((n \div block.qk) * block.bytes)
  <2>1. \A a, b, c \in Nat : (a * b) * c = a * (b * c)
    OBVIOUS
  <2>2. n \div block.qk \in Nat
    BY <1>6, <1>7 DEF BlockSizes
  <2> QED  BY <1>4, <1>6, <2>1, <2>2
<1> QED  BY <1>6, <1>9, <1>10 DEF RowsFill, block, n

\* A tensor more, under a new name.
LEMMA LookupsPlace ==
    ASSUME UseInv, PlaceTensor
    PROVE  Lookups'
<1>1. Lookups
  BY DEF UseInv
<1>2. CASE Refuses
  BY <1>1, <1>2, LookupsStay DEF Refuses, parts, HasData
<1>3. CASE ~Refuses
  <2> DEFINE t == tmp[Len(tensors) + 1]
             x == [name |-> t.name, dims |-> t.dims, type |-> t.type, offset |-> dataOffset + t.rel,
                   nbytes |-> TensorNBytes(t.type, Elements(t.dims))]
  <2>1. /\ pc = "tensor" /\ Len(tensors) < header.nt /\ Placeable(t) /\ t.name \notin DOMAIN index
        /\ index' = [n \in DOMAIN index \cup {t.name} |->
                       IF n = t.name THEN Len(tensors) ELSE index[n]]
        /\ tensors' = Append(tensors, x)
        /\ UNCHANGED <<pc, header, items, metadata, tmp>>
    BY <1>3 DEF PlaceTensor, IsNew
  <2>2. /\ tmp \in Seq(Descriptor) /\ tensors \in Seq(Placed)
        /\ Len(tmp) = header.nt /\ Len(tensors) \in Nat
    BY <2>1 DEF UseInv, GgufInv, PartsTyped, Stages, HasData
  <2>3. t \in Descriptor /\ Len(t.dims) \in 1 .. 4
    <3>1. Len(tensors) + 1 \in 1 .. Len(tmp)
      BY <2>1, <2>2
    <3> QED  BY <1>1, <2>2, <3>1, ElementOfSeq DEF Lookups
  <2>4. RowsFill(x)
    BY <2>1, <2>3, PlacedRowsFill
  <2> HIDE DEF t
  <2>5. x.name = t.name
    OBVIOUS
  <2> HIDE DEF x
  <2>6. /\ Len(tensors') = Len(tensors) + 1
        /\ \A j \in 1 .. Len(tensors) : tensors'[j] = tensors[j]
        /\ tensors'[Len(tensors) + 1] = x
    BY <2>1, <2>2
  <2>7. IsFiniteSet(DOMAIN index') /\ Cardinality(DOMAIN index') = Len(tensors')
    <3> DEFINE D == DOMAIN index
    <3>1. IsFiniteSet(D) /\ Cardinality(D) = Len(tensors) /\ t.name \notin D
      BY <1>1, <2>1 DEF Lookups
    <3>2. DOMAIN index' = D \cup {t.name}
      BY <2>1
    <3> HIDE DEF D
    <3>3. IsFiniteSet(D \cup {t.name}) /\ Cardinality(D \cup {t.name}) = Len(tensors) + 1
      BY <3>1, FS_AddElement
    <3> QED  BY <2>6, <3>2, <3>3
  <2>8. ASSUME NEW n \in DOMAIN index'
        PROVE  index'[n] \in 0 .. (Len(tensors') - 1) /\ tensors'[index'[n] + 1].name = n
    <3>1. CASE n = t.name
      BY <2>1, <2>2, <2>5, <2>6, <3>1
    <3>2. CASE n # t.name
      <4>1. n \in DOMAIN index /\ index'[n] = index[n]
        BY <2>1, <3>2
      <4>2. index[n] \in 0 .. (Len(tensors) - 1) /\ tensors[index[n] + 1].name = n
        BY <1>1, <4>1 DEF Lookups
      <4>3. index[n] + 1 \in 1 .. Len(tensors) /\ index[n] \in 0 .. (Len(tensors') - 1)
        BY <2>2, <2>6, <4>2
      <4> QED  BY <2>6, <4>1, <4>2, <4>3
    <3> QED  BY <3>1, <3>2
  <2>9. ASSUME NEW j \in 1 .. Len(tensors')
        PROVE  /\ tensors'[j].name \in DOMAIN index' /\ index'[tensors'[j].name] = j - 1
               /\ RowsFill(tensors'[j])
    <3>1. CASE j = Len(tensors) + 1
      BY <2>1, <2>2, <2>4, <2>5, <2>6, <3>1
    <3>2. CASE j \in 1 .. Len(tensors)
      <4>1. /\ tensors[j].name \in DOMAIN index /\ index[tensors[j].name] = j - 1
            /\ RowsFill(tensors[j])
        BY <1>1, <3>2 DEF Lookups
      <4>2. tensors'[j] = tensors[j] /\ tensors[j].name # t.name
        BY <2>1, <2>6, <3>2, <4>1
      <4> QED  BY <2>1, <4>1, <4>2
    <3> QED  BY <2>2, <2>6, <2>9, <3>1, <3>2
  <2>10. pc' # "parsed"
    BY <2>1
  <2> QED  BY <1>1, <2>1, <2>7, <2>8, <2>9, <2>10, Zenon DEF Lookups
<1> QED  BY <1>2, <1>3

LEMMA LookupsKept ==
    ASSUME UseInv, [GgufNext]_ggufVars
    PROVE  Lookups'
<1>1. Lookups
  BY DEF UseInv
<1>2. CASE Refuses
  BY <1>1, <1>2, LookupsStay DEF Refuses, parts, HasData
<1>3. CASE ReadNumber /\ ~Refuses
  <2>1. pc = "value" /\ UNCHANGED <<header, tmp, tensors, index>> /\ \E v : Emplace(v, 0)
    BY <1>3, Zenon DEF ReadNumber
  <2> QED  BY <2>1, LookupsEmplace
<1>4. CASE ReadStringValue /\ ~Refuses
  <2>1. pc = "value" /\ UNCHANGED <<header, tmp, tensors, index>> /\ \E v, n : Emplace(v, n)
    BY <1>4, Zenon DEF ReadStringValue
  <2> QED  BY <2>1, LookupsEmplace
<1>5. CASE ArrayDone
  BY <1>5, LookupsEmplace DEF ArrayDone
<1>6. CASE ReadDescriptor
  BY <1>6, LookupsDescriptor
<1>7. CASE PlaceTensor
  BY <1>7, LookupsPlace
<1>8. CASE (ReadHeader \/ ReadKey \/ ReadArrayHeader \/ ReadStringElement \/ ReadElement) /\ ~Refuses
  <2>1. /\ UNCHANGED <<metadata, items, tmp, index, tensors>>
        /\ pc' \in {"key", "value", "elements"}
    BY <1>8 DEF ReadHeader, ReadKey, ReadArrayHeader, ReadStringElement, ReadElement
  <2> QED  BY <1>1, <2>1, LookupsStay DEF HasData
<1>9. CASE (MetadataDone \/ DescriptorsDone \/ TensorsDone) /\ ~Refuses
  <2>1. /\ UNCHANGED <<metadata, items, tmp, index, tensors, header>>
        /\ pc = "key" => items = header.nkv
        /\ pc \in {"key", "descriptor", "tensor"}
        /\ pc' = "parsed" => Len(tensors) = header.nt
    BY <1>9 DEF MetadataDone, DescriptorsDone, TensorsDone, parts
  <2>2. items = header'.nkv
    BY <1>1, <2>1 DEF Lookups, HasData
  <2> QED  BY <1>1, <2>1, <2>2, LookupsStay
<1>10. CASE UNCHANGED ggufVars
  BY <1>1, <1>10, Zenon DEF Lookups, ggufVars, parts
<1> QED
  BY <1>2, <1>3, <1>4, <1>5, <1>6, <1>7, <1>8, <1>9, <1>10, Zenon DEF GgufNext, UnknownType

-----------------------------------------------------------------------------
\* The sums of the heap account are numbers.
LEMMA HeldAreNumbers ==
    ASSUME UseInv
    PROVE  /\ HeldByMetadata \in Nat /\ HeldByDescriptors \in Nat /\ HeldByItem \in Nat
           /\ Len(tensors) \in Nat /\ Len(tmp) \in Nat /\ Advance \in Nat
           /\ items \in Nat /\ header.nkv \in Nat /\ header.nt \in Nat
           /\ items <= header.nkv /\ Len(tmp) <= header.nt /\ Len(tensors) <= Len(tmp)
           /\ pc \in {"value", "elements"} => items + 1 <= header.nkv
           /\ LengthOf[item.key] \in Nat /\ item.held \in Nat /\ item.key \in Keys
           /\ heap \in Nat /\ MaxParseHeapBytes \in Nat
<1>1. /\ Len(tensors) \in Nat /\ Len(tmp) \in Nat
      /\ items \in Nat /\ header.nkv \in Nat /\ header.nt \in Nat
      /\ items <= header.nkv /\ Len(tmp) <= header.nt /\ Len(tensors) <= Len(tmp)
      /\ pc \in {"value", "elements"} => items + 1 <= header.nkv
      /\ heap \in Nat /\ MaxParseHeapBytes \in Nat
  BY ConstantsAreNumbers DEF UseInv, GgufInv, GgufTypeOK, PartsTyped, Stages
<1>2. LengthOf[item.key] \in Nat /\ item.held \in Nat /\ item.key \in Keys
  BY ConstantsAreNumbers DEF UseInv, GgufInv, PartsTyped, HeapBooks
<1>3. HeldByMetadata \in Nat /\ HeldByDescriptors \in Nat
  <2>1. HeldByMetadata = Cardinality(Table(MetadataRows))
        /\ HeldByDescriptors = Cardinality(Table(DescriptorRows))
    BY Zenon DEF HeldByMetadata, HeldByDescriptors, MetadataRows, DescriptorRows, Total
  <2>2. IsFiniteSet(Table(MetadataRows)) /\ IsFiniteSet(Table(DescriptorRows))
    BY DEF UseInv, HeapBooks
  <2> QED  BY <2>1, <2>2, FS_CardinalityType
<1>4. HeldByItem \in Nat
  BY <1>2 DEF HeldByItem, ItemBytes
<1>5. Advance \in Nat
  <2>1. CASE pc = "key"
    BY <1>1, <2>1 DEF Advance, ItemBytes
  <2>2. CASE pc \in {"value", "elements"}
    BY <1>1, <2>2, SMTT(60) DEF Advance, ItemBytes
  <2>3. CASE pc = "descriptor"
    BY <1>1, <2>3 DEF Advance, DescriptorBytes
  <2>4. CASE pc = "tensor"
    <3>1. Len(tensors) <= header.nt
      BY <1>1
    <3> QED  BY <1>1, <2>4, <3>1 DEF Advance, TensorBytes
  <2>5. CASE pc \notin {"key", "value", "elements", "descriptor", "tensor"}
    BY <2>5 DEF Advance
  <2> QED  BY <2>1, <2>2, <2>3, <2>4, <2>5
<1> QED  BY <1>1, <1>2, <1>3, <1>4, <1>5

\* Sums over what is not touched.
LEMMA MetadataHeld ==
    ASSUME UNCHANGED metadata
    PROVE  MetadataRows' = MetadataRows /\ HeldByMetadata' = HeldByMetadata
BY Zenon DEF MetadataRows, HeldByMetadata, Total, Table

LEMMA DescriptorsHeld ==
    ASSUME UNCHANGED tmp
    PROVE  DescriptorRows' = DescriptorRows /\ HeldByDescriptors' = HeldByDescriptors
BY Zenon DEF DescriptorRows, HeldByDescriptors, Total, Table

\* A step that keeps nothing more of metadata and descriptors than before.
LEMMA BooksMove ==
    ASSUME UseInv, UNCHANGED <<metadata, tmp>>,
           DOMAIN item' = ItemFields, item'.held \in Nat, pc' = "value" => item'.held = 0,
           NEW cost \in Nat, heap' = heap - cost,
           HeldByItem' + TensorBytes * Len(tensors') + Advance'
             <= HeldByItem + TensorBytes * Len(tensors) + Advance + cost,
           HeldByItem' \in Nat, Len(tensors') \in Nat, Advance' \in Nat
    PROVE  HeapBooks'
<1>1. /\ MetadataRows' = MetadataRows /\ HeldByMetadata' = HeldByMetadata
      /\ DescriptorRows' = DescriptorRows /\ HeldByDescriptors' = HeldByDescriptors
  BY MetadataHeld, DescriptorsHeld
<1>2. HeldByMetadata + HeldByItem + HeldByDescriptors + TensorBytes * Len(tensors) + Advance
        <= MaxParseHeapBytes - heap
  BY DEF UseInv, HeapBooks
<1>3. HeldByMetadata' + HeldByItem' + HeldByDescriptors' + TensorBytes * Len(tensors') + Advance'
        <= MaxParseHeapBytes - heap'
  <2> DEFINE m == HeldByMetadata
             d == HeldByDescriptors
             i == HeldByItem
             n == Len(tensors)
             a == Advance
             i2 == HeldByItem'
             n2 == Len(tensors')
             a2 == Advance'
             x == MaxParseHeapBytes
             h == heap
             h2 == heap'
  <2>1. /\ m \in Nat /\ d \in Nat /\ i \in Nat /\ n \in Nat /\ a \in Nat
        /\ i2 \in Nat /\ n2 \in Nat /\ a2 \in Nat /\ x \in Nat /\ h \in Nat
    BY HeldAreNumbers
  <2>2. m + i + d + 176 * n + a <= x - h
    BY <1>2 DEF TensorBytes
  <2>3. i2 + 176 * n2 + a2 <= i + 176 * n + a + cost /\ h2 = h - cost
    BY DEF TensorBytes
  <2>4. m + i2 + d + 176 * n2 + a2 <= x - h2
    <3> HIDE DEF m, d, i, n, a, i2, n2, a2, x, h, h2
    <3> QED  BY <2>1, <2>2, <2>3
  <2> QED  BY <1>1, <2>4 DEF TensorBytes
<1>4. IsFiniteSet(Table(MetadataRows))' /\ IsFiniteSet(Table(DescriptorRows))'
  BY <1>1, Zenon DEF UseInv, HeapBooks, Table
<1> QED  BY <1>3, <1>4 DEF HeapBooks

\* An exception keeps nothing more.
LEMMA BooksRefused ==
    ASSUME UseInv, pc' = "refused", UNCHANGED <<metadata, tmp, tensors, item>>,
           NEW cost \in Nat, heap' = heap - cost
    PROVE  HeapBooks'
<1>1. HeldByItem' = 0 /\ Advance' = 0
  BY DEF HeldByItem, Advance
<1>2. HeldByItem' + TensorBytes * Len(tensors') + Advance'
        <= HeldByItem + TensorBytes * Len(tensors) + Advance + cost
  BY <1>1, HeldAreNumbers DEF TensorBytes
<1>3. DOMAIN item' = ItemFields
  BY DEF UseInv, HeapBooks
<1> QED  BY <1>1, <1>2, <1>3, HeldAreNumbers, BooksMove

\* An item becomes a node of metadata_.
LEMMA BooksEmplace ==
    ASSUME UseInv, pc \in {"value", "elements"}, NEW data, NEW more \in Nat,
           Emplace(data, item.held + more), heap' = heap - more,
           UNCHANGED <<header, item, tmp, tensors>>
    PROVE  HeapBooks'
<1>1. CASE item.key \in DOMAIN metadata
  BY <1>1, BooksRefused DEF Emplace
<1>2. CASE item.key \notin DOMAIN metadata
  <2> DEFINE entry == [type |-> item.type, data |-> data, held |-> item.held + more]
             row == ItemBytes + LengthOf[item.key] + (item.held + more)
  <2>1. /\ pc' = "key" /\ items' = items + 1
        /\ metadata' = [k \in DOMAIN metadata \cup {item.key} |->
                          IF k = item.key THEN entry ELSE metadata[k]]
    BY <1>2 DEF Emplace
  <2>2. row \in Nat
    <3>1. LengthOf[item.key] \in Nat /\ item.held \in Nat
      BY HeldAreNumbers
    <3> QED  BY <3>1 DEF ItemBytes
  <2>3. /\ DOMAIN MetadataRows = DOMAIN metadata
        /\ DOMAIN MetadataRows' = DOMAIN metadata \cup {item.key}
        /\ MetadataRows'[item.key] = row
        /\ \A y \in DOMAIN metadata : MetadataRows'[y] = MetadataRows[y]
    BY <1>2, <2>1 DEF MetadataRows
  <2> DEFINE before == MetadataRows
             after == MetadataRows'
             key == item.key
  <2>4. /\ DOMAIN after = DOMAIN before \cup {key} /\ key \notin DOMAIN before
        /\ after[key] = row /\ \A y \in DOMAIN before : after[y] = before[y]
        /\ IsFiniteSet(Table(before))
    BY <1>2, <2>3 DEF UseInv, HeapBooks
  <2> HIDE DEF before, after, row, key
  <2>5. IsFiniteSet(Table(after)) /\ Total(after) = Total(before) + row
    BY <2>2, <2>4, RowAdded, Zenon
  <2>6. Total(before) = HeldByMetadata /\ Total(after) = HeldByMetadata'
    BY Zenon DEF before, after, MetadataRows, HeldByMetadata, Total, Table
  <2>7. IsFiniteSet(Table(MetadataRows))'
    BY <2>5 DEF after, Table
  <2>8. IsFiniteSet(Table(DescriptorRows))' /\ HeldByDescriptors' = HeldByDescriptors
    BY DescriptorsHeld, Zenon DEF UseInv, HeapBooks, Table
  <2>9. HeldByItem' = 0 /\ Advance' = ItemBytes * (header.nkv - (items + 1))
    BY <2>1 DEF HeldByItem, Advance
  <2>10. /\ HeldByItem = ItemBytes + LengthOf[item.key] + item.held
         /\ Advance = ItemBytes * (header.nkv - items - 1)
    BY DEF HeldByItem, Advance
  <2>11. HeldByMetadata + HeldByItem + HeldByDescriptors + TensorBytes * Len(tensors) + Advance
           <= MaxParseHeapBytes - heap
    BY DEF UseInv, HeapBooks
  <2>12. HeldByMetadata' = HeldByMetadata + (ItemBytes + LengthOf[item.key] + item.held) + more
    <3>1. HeldByMetadata' = HeldByMetadata + row
      BY <2>5, <2>6
    <3>2. \A m, i, l, e, c \in Nat : m + (i + l + (e + c)) = m + (i + l + e) + c
      OBVIOUS
    <3>3. /\ HeldByMetadata \in Nat /\ LengthOf[item.key] \in Nat /\ item.held \in Nat
          /\ ItemBytes \in Nat
      BY HeldAreNumbers DEF ItemBytes
    <3> QED  BY <3>1, <3>2, <3>3 DEF row
  <2>13. HeldByMetadata' + HeldByItem' + HeldByDescriptors' + TensorBytes * Len(tensors') + Advance'
           <= MaxParseHeapBytes - heap'
    <3> DEFINE m == HeldByMetadata
               m2 == HeldByMetadata'
               d == HeldByDescriptors
               l == LengthOf[item.key]
               e == item.held
               n == Len(tensors)
               x == MaxParseHeapBytes
               h == heap
               h2 == heap'
               z == header.nkv
               y == items
    <3>1. /\ m \in Nat /\ d \in Nat /\ l \in Nat /\ e \in Nat /\ n \in Nat /\ x \in Nat
          /\ h \in Nat /\ z \in Nat /\ y \in Nat
      BY HeldAreNumbers
    <3>2. m + (128 + l + e) + d + 176 * n + 128 * (z - y - 1) <= x - h
      BY <2>10, <2>11 DEF TensorBytes, ItemBytes
    <3>3. m2 = m + (128 + l + e) + more /\ h2 = h - more
      BY <2>12 DEF ItemBytes
    <3>4. m2 + 0 + d + 176 * n + 128 * (z - (y + 1)) <= x - h2
      <4> HIDE DEF m, m2, d, l, e, n, x, h, h2, z, y
      <4> QED  BY <3>1, <3>2, <3>3
    <3>5. Len(tensors') = n
      OBVIOUS
    <3> QED  BY <2>8, <2>9, <3>4, <3>5 DEF TensorBytes, ItemBytes
  <2>14. DOMAIN item' = ItemFields /\ item'.held \in Nat /\ pc' # "value"
    BY <2>1 DEF UseInv, HeapBooks
  <2> QED  BY <2>7, <2>8, <2>13, <2>14, Zenon DEF HeapBooks
<1> QED  BY <1>1, <1>2

\* A descriptor is kept.
LEMMA BooksDescriptor ==
    ASSUME UseInv, ReadDescriptor
    PROVE  HeapBooks'
<1>1. CASE Refuses
  BY <1>1, BooksRefused, HeldAreNumbers DEF Refuses, parts
<1>2. CASE ~Refuses
  <2>1. PICK name \in Names, dims \in Shapes, type \in GgmlTypes, rel \in Rels :
          /\ Len(dims) \in 1 .. 4
          /\ ReadsString(LengthOf[name], 8 * Len(dims), FieldBytes(dims))
          /\ tmp' = Append(tmp, [name |-> name, dims |-> dims, type |-> type, rel |-> rel])
          /\ UNCHANGED <<pc, header, items, metadata, item, tensors>>
    BY <1>2, Zenon DEF ReadDescriptor
  <2>2. tmp \in Seq(Descriptor) /\ LengthOf[name] \in Nat /\ pc = "descriptor" /\ Len(tmp) < header.nt
    BY ConstantsAreNumbers DEF UseInv, GgufInv, PartsTyped, ReadDescriptor
  <2> DEFINE x == [name |-> name, dims |-> dims, type |-> type, rel |-> rel]
             row == DescriptorBytes + LengthOf[name] + 8 * Len(dims)
             n == Len(tmp) + 1
             before == DescriptorRows
             after == DescriptorRows'
  <2>3. /\ Len(tmp') = n /\ \A j \in 1 .. Len(tmp) : tmp'[j] = tmp[j]
        /\ tmp'[n] = x /\ DOMAIN tmp = 1 .. Len(tmp) /\ DOMAIN tmp' = 1 .. n /\ Len(tmp) \in Nat
    BY <2>1, <2>2
  <2>4. DOMAIN tmp' = DOMAIN tmp \cup {n} /\ n \notin DOMAIN tmp
    BY <2>3
  <2>5. row \in Nat
    BY <2>1, <2>2 DEF DescriptorBytes
  <2>6. /\ DOMAIN after = DOMAIN before \cup {n} /\ n \notin DOMAIN before
        /\ after[n] = row /\ \A y \in DOMAIN before : after[y] = before[y]
        /\ IsFiniteSet(Table(before))
    <3>1. DOMAIN after = DOMAIN tmp' /\ DOMAIN before = DOMAIN tmp
      BY Zenon DEF DescriptorRows
    <3>2. after[n] = row
      BY <2>3 DEF DescriptorRows
    <3>3. ASSUME NEW y \in DOMAIN tmp
          PROVE  after[y] = before[y]
      BY <2>3, <2>4 DEF DescriptorRows
    <3> QED  BY <2>4, <3>1, <3>2, <3>3, Zenon DEF UseInv, HeapBooks
  <2> HIDE DEF before, after, row, n
  <2>7. IsFiniteSet(Table(after)) /\ Total(after) = Total(before) + row
    BY <2>5, <2>6, RowAdded, Zenon
  <2>8. Total(before) = HeldByDescriptors /\ Total(after) = HeldByDescriptors'
    BY Zenon DEF before, after, DescriptorRows, HeldByDescriptors, Total, Table
  <2>9. IsFiniteSet(Table(DescriptorRows))'
    BY <2>7 DEF after, Table
  <2>10. IsFiniteSet(Table(MetadataRows))' /\ HeldByMetadata' = HeldByMetadata
    BY <2>1, MetadataHeld, Zenon DEF UseInv, HeapBooks, Table
  <2>11. /\ HeldByItem' = HeldByItem
         /\ Advance = DescriptorBytes * (header.nt - Len(tmp))
         /\ Advance' = DescriptorBytes * (header.nt - (Len(tmp) + 1))
    BY <2>1, <2>2, <2>3 DEF HeldByItem, Advance, n
  <2>12. HeldByMetadata + HeldByItem + HeldByDescriptors + TensorBytes * Len(tensors) + Advance
           <= MaxParseHeapBytes - heap
    BY DEF UseInv, HeapBooks
  <2>13. heap' = heap - (8 * Len(dims) + LengthOf[name])
    BY <2>1 DEF ReadsString
  <2>14. HeldByDescriptors' = HeldByDescriptors + (DescriptorBytes + LengthOf[name] + 8 * Len(dims))
    BY <2>7, <2>8 DEF row
  <2>15. HeldByMetadata' + HeldByItem' + HeldByDescriptors' + TensorBytes * Len(tensors') + Advance'
           <= MaxParseHeapBytes - heap'
    <3> DEFINE m == HeldByMetadata
               i == HeldByItem
               d == HeldByDescriptors
               d2 == HeldByDescriptors'
               s == Len(tensors)
               b == MaxParseHeapBytes
               h == heap
               h2 == heap'
               l == LengthOf[name]
               k == Len(dims)
               z == header.nt
               y == Len(tmp)
    <3>1. /\ m \in Nat /\ d \in Nat /\ i \in Nat /\ s \in Nat /\ b \in Nat /\ h \in Nat
          /\ l \in Nat /\ k \in Nat /\ z \in Nat /\ y \in Nat
      BY <2>1, <2>2, HeldAreNumbers
    <3>2. m + i + d + 176 * s + 136 * (z - y) <= b - h
      BY <2>11, <2>12 DEF TensorBytes, DescriptorBytes
    <3>3. d2 = d + (136 + l + 8 * k) /\ h2 = h - (8 * k + l)
      BY <2>13, <2>14 DEF DescriptorBytes
    <3>4. m + i + d2 + 176 * s + 136 * (z - (y + 1)) <= b - h2
      <4> HIDE DEF m, i, d, d2, s, b, h, h2, l, k, z, y
      <4> QED  BY <3>1, <3>2, <3>3
    <3>5. Len(tensors') = s
      BY <2>1
    <3> QED  BY <2>10, <2>11, <3>4, <3>5 DEF TensorBytes, DescriptorBytes
  <2>16. DOMAIN item' = ItemFields /\ item'.held \in Nat /\ pc' # "value"
    BY <2>1, <2>2 DEF UseInv, HeapBooks
  <2> QED  BY <2>9, <2>10, <2>15, <2>16, Zenon DEF HeapBooks
<1> QED  BY <1>1, <1>2

\* The costs of the actions that move the account, where they do not refuse.
LEMMA BooksHeader ==
    ASSUME UseInv, ReadHeader
    PROVE  HeapBooks'
<1>1. CASE Refuses
  BY <1>1, BooksRefused, HeldAreNumbers DEF Refuses, parts
<1>2. CASE ~Refuses
  <2>1. PICK h \in Headers :
          /\ heap' = heap - h.nkv * ItemBytes /\ header' = [nt |-> h.nt, nkv |-> h.nkv]
          /\ pc = "header" /\ pc' = "key" /\ UNCHANGED <<items, metadata, item, tmp, tensors>>
    BY <1>2, Zenon DEF ReadHeader
  <2>2. items = 0 /\ h.nkv \in Nat /\ header'.nkv = h.nkv
    BY <2>1, ConstantsAreNumbers DEF UseInv, GgufInv, Stages
  <2> DEFINE cost == h.nkv * ItemBytes
  <2>3. cost \in Nat
    BY <2>2 DEF ItemBytes
  <2>4. /\ HeldByItem = 0 /\ HeldByItem' = 0 /\ Advance = 0 /\ Advance' = cost
        /\ Len(tensors') = Len(tensors)
    BY <2>1, <2>2 DEF HeldByItem, Advance, ItemBytes
  <2>5. HeldByItem' + TensorBytes * Len(tensors') + Advance'
          <= HeldByItem + TensorBytes * Len(tensors) + Advance + cost
    <3> HIDE DEF cost
    <3> QED  BY <2>3, <2>4, HeldAreNumbers DEF TensorBytes
  <2>6. /\ heap' = heap - cost /\ pc' # "value" /\ item'.held \in Nat /\ Len(tensors') \in Nat
        /\ DOMAIN item' = ItemFields
    BY <2>1, HeldAreNumbers DEF UseInv, HeapBooks
  <2> HIDE DEF cost
  <2> QED  BY <2>1, <2>3, <2>4, <2>5, <2>6, BooksMove
<1> QED  BY <1>1, <1>2

LEMMA BooksKey ==
    ASSUME UseInv, ReadKey
    PROVE  HeapBooks'
<1>1. CASE Refuses
  BY <1>1, BooksRefused, HeldAreNumbers DEF Refuses, parts
<1>2. CASE ~Refuses
  <2>1. PICK k \in Keys, t \in ValueTypes :
          /\ ReadsString(LengthOf[k], 0, 4)
          /\ item' = [key |-> k, type |-> t, elem |-> "none", held |-> 0]
          /\ pc = "key" /\ pc' = "value" /\ items < header.nkv
          /\ UNCHANGED <<header, items, metadata, tmp, tensors>>
    BY <1>2, Zenon DEF ReadKey
  <2> DEFINE cost == LengthOf[k]
  <2>2. cost \in Nat /\ heap' = heap - cost
    BY <2>1, ConstantsAreNumbers, HeldAreNumbers DEF ReadsString
  <2>3. /\ HeldByItem = 0 /\ HeldByItem' = ItemBytes + cost
        /\ Advance = ItemBytes * (header.nkv - items)
        /\ Advance' = ItemBytes * (header.nkv - items - 1)
        /\ Len(tensors') = Len(tensors) /\ item'.held = 0 /\ DOMAIN item' = ItemFields
    BY <2>1, <2>2 DEF HeldByItem, Advance, ItemBytes, ItemFields
  <2>4. /\ items \in Nat /\ header.nkv \in Nat /\ items + 1 <= header.nkv /\ Len(tensors) \in Nat
    BY <2>1, HeldAreNumbers
  <2> HIDE DEF cost
  <2>5. HeldByItem' + TensorBytes * Len(tensors') + Advance'
          <= HeldByItem + TensorBytes * Len(tensors) + Advance + cost
    <3> DEFINE s == Len(tensors)
               z == header.nkv
               y == items
    <3>1. 128 + cost + 176 * s + 128 * (z - y - 1) <= 0 + 176 * s + 128 * (z - y) + cost
      <4>1. s \in Nat /\ z \in Nat /\ y \in Nat
        BY <2>4
      <4> HIDE DEF s, z, y
      <4> QED  BY <2>2, <4>1
    <3> QED  BY <2>3, <3>1 DEF TensorBytes, ItemBytes
  <2>6. HeldByItem' \in Nat /\ Len(tensors') \in Nat /\ Advance' \in Nat /\ item'.held \in Nat
    BY <2>2, <2>3, <2>4 DEF ItemBytes
  <2> QED  BY <2>1, <2>2, <2>3, <2>5, <2>6, BooksMove
<1> QED  BY <1>1, <1>2

\* The item grows by what is charged for it.
LEMMA BooksItem ==
    ASSUME UseInv, pc \in {"value", "elements"}, pc' = "elements",
           NEW cost \in Nat, heap' = heap - cost, item'.key = item.key,
           item'.held = item.held + cost, DOMAIN item' = ItemFields,
           UNCHANGED <<header, items, metadata, tmp, tensors>>
    PROVE  HeapBooks'
<1>1. /\ HeldByItem = ItemBytes + LengthOf[item.key] + item.held
      /\ HeldByItem' = ItemBytes + LengthOf[item.key] + (item.held + cost)
      /\ Advance' = Advance /\ Len(tensors') = Len(tensors)
  BY DEF HeldByItem, Advance
<1>2. /\ LengthOf[item.key] \in Nat /\ item.held \in Nat /\ Len(tensors) \in Nat
      /\ Advance \in Nat /\ TensorBytes \in Nat /\ ItemBytes \in Nat
  BY HeldAreNumbers DEF TensorBytes, ItemBytes
<1>3. HeldByItem' + TensorBytes * Len(tensors') + Advance'
        <= HeldByItem + TensorBytes * Len(tensors) + Advance + cost
  <2> DEFINE b == LengthOf[item.key]
             e == item.held
             n == Len(tensors)
             a == Advance
  <2>1. (128 + b + (e + cost)) + 176 * n + a <= (128 + b + e) + 176 * n + a + cost
    <3>1. b \in Nat /\ e \in Nat /\ n \in Nat /\ a \in Nat
      BY <1>2
    <3> HIDE DEF b, e, n, a
    <3> QED  BY <3>1
  <2> QED  BY <1>1, <2>1 DEF TensorBytes, ItemBytes
<1>4. HeldByItem' \in Nat /\ Len(tensors') \in Nat /\ Advance' \in Nat /\ item'.held \in Nat
  <2>1. \A i, l, e \in Nat : i + l + (e + cost) \in Nat /\ e + cost \in Nat
    OBVIOUS
  <2> QED  BY <1>1, <1>2, <2>1
<1> QED  BY <1>3, <1>4, BooksMove

LEMMA BooksArray ==
    ASSUME UseInv, ReadArrayHeader \/ ReadStringElement \/ ReadElement
    PROVE  HeapBooks'
<1>1. CASE Refuses
  BY <1>1, BooksRefused, HeldAreNumbers DEF Refuses, parts
<1>2. CASE ReadArrayHeader /\ ~Refuses
  <2>1. PICK e \in ValueTypes, n \in ArrayLengths :
          /\ heap' = heap - n * ElementBytes(e)
          /\ item' = [item EXCEPT !.elem = e,
                        !.held = n * (IF e = "String" THEN StringBytes ELSE 8)]
          /\ pc = "value" /\ pc' = "elements"
          /\ UNCHANGED <<header, items, metadata, tmp, tensors>>
    BY <1>2, Zenon DEF ReadArrayHeader
  <2> DEFINE cost == n * ElementBytes(e)
  <2>2. n \in Nat /\ ElementBytes(e) \in {8, 32}
    BY ConstantsAreNumbers DEF ElementBytes, StringBytes
  <2>3. cost \in Nat
    <3>1. cost = n * 8 \/ cost = n * 32
      BY <2>2
    <3> QED  BY <2>2, <3>1
  <2>4. /\ item'.key = item.key /\ item'.held = item.held + cost /\ DOMAIN item' = ItemFields
    <3>1. "held" \in DOMAIN item /\ "key" \in DOMAIN item
      BY DEF UseInv, HeapBooks, ItemFields
    <3>2. item.held = 0
      BY <2>1 DEF UseInv, HeapBooks
    <3>3. n * (IF e = "String" THEN StringBytes ELSE 8) = cost
      BY DEF ElementBytes
    <3> QED  BY <2>1, <2>3, <3>1, <3>2, <3>3 DEF UseInv, HeapBooks
  <2> HIDE DEF cost
  <2> QED  BY <2>1, <2>3, <2>4, BooksItem DEF cost
<1>3. CASE ReadStringElement /\ ~Refuses
  <2>1. PICK len \in StringLengths :
          /\ ReadsString(len, 0, 0) /\ item' = [item EXCEPT !.held = @ + len]
          /\ pc = "elements" /\ UNCHANGED <<pc, header, items, metadata, tmp, tensors>>
    BY <1>3, Zenon DEF ReadStringElement
  <2>2. len \in Nat /\ heap' = heap - len
    BY <2>1, ConstantsAreNumbers, HeldAreNumbers DEF ReadsString
  <2>3. item'.key = item.key /\ item'.held = item.held + len /\ DOMAIN item' = ItemFields
    BY <2>1 DEF UseInv, HeapBooks, ItemFields
  <2> QED  BY <2>1, <2>2, <2>3, BooksItem
<1>4. CASE ReadElement /\ ~Refuses
  <2>1. pc = "elements" /\ UNCHANGED <<pc, heap, item, header, items, metadata, tmp, tensors>>
    BY <1>4, Zenon DEF ReadElement
  <2>2. heap \in Nat /\ item.held \in Nat
    BY HeldAreNumbers
  <2>3. heap' = heap - 0 /\ item'.held = item.held + 0
    BY <2>1, <2>2
  <2>4. DOMAIN item' = ItemFields
    BY <2>1 DEF UseInv, HeapBooks
  <2> QED  BY <2>1, <2>3, <2>4, BooksItem
<1> QED  BY <1>1, <1>2, <1>3, <1>4

\* The bulk charges for descriptors and tensors, and the steps that charge nothing.
LEMMA BooksBulk ==
    ASSUME UseInv, MetadataDone \/ DescriptorsDone \/ PlaceTensor \/ TensorsDone
    PROVE  HeapBooks'
<1>1. CASE Refuses
  BY <1>1, BooksRefused, HeldAreNumbers DEF Refuses, parts
<1>2. CASE MetadataDone /\ ~Refuses
  <2>1. /\ pc = "key" /\ pc' = "descriptor" /\ items = header.nkv
        /\ heap' = heap - header.nt * DescriptorBytes
        /\ UNCHANGED <<header, items, metadata, item, tmp, tensors>>
    BY <1>2 DEF MetadataDone, parts
  <2>2. tmp = <<>>
    BY <2>1 DEF UseInv, GgufInv, Stages
  <2> DEFINE cost == header.nt * DescriptorBytes
  <2>3. /\ cost \in Nat /\ HeldByItem = 0 /\ HeldByItem' = 0
        /\ Advance = 0 /\ Advance' = cost /\ Len(tensors') = Len(tensors)
    BY <2>1, <2>2, HeldAreNumbers, SMTT(60) DEF HeldByItem, Advance, DescriptorBytes, ItemBytes
  <2> HIDE DEF cost
  <2>4. HeldByItem' + TensorBytes * Len(tensors') + Advance'
          <= HeldByItem + TensorBytes * Len(tensors) + Advance + cost
    BY <2>3, HeldAreNumbers DEF TensorBytes
  <2>5. /\ DOMAIN item' = ItemFields /\ item'.held \in Nat /\ pc' # "value"
        /\ Len(tensors') \in Nat /\ heap' = heap - cost
    BY <2>1, HeldAreNumbers DEF UseInv, HeapBooks, cost
  <2> QED  BY <2>1, <2>3, <2>4, <2>5, BooksMove
<1>3. CASE DescriptorsDone /\ ~Refuses
  <2>1. /\ pc = "descriptor" /\ pc' = "tensor" /\ Len(tmp) = header.nt
        /\ heap' = heap - header.nt * TensorBytes
        /\ UNCHANGED <<header, items, metadata, item, tmp, tensors>>
    BY <1>3 DEF DescriptorsDone
  <2>2. tensors = <<>>
    BY <2>1 DEF UseInv, GgufInv, Stages, Reading
  <2> DEFINE cost == header.nt * TensorBytes
  <2>3. /\ cost \in Nat /\ HeldByItem = 0 /\ HeldByItem' = 0
        /\ Advance = 0 /\ Advance' = cost /\ Len(tensors') = Len(tensors)
    BY <2>1, <2>2, HeldAreNumbers, SMTT(60) DEF HeldByItem, Advance, DescriptorBytes, TensorBytes
  <2> HIDE DEF cost
  <2>4. HeldByItem' + TensorBytes * Len(tensors') + Advance'
          <= HeldByItem + TensorBytes * Len(tensors) + Advance + cost
    BY <2>3, HeldAreNumbers DEF TensorBytes
  <2>5. /\ DOMAIN item' = ItemFields /\ item'.held \in Nat /\ pc' # "value"
        /\ Len(tensors') \in Nat /\ heap' = heap - cost
    BY <2>1, HeldAreNumbers DEF UseInv, HeapBooks, cost
  <2> QED  BY <2>1, <2>3, <2>4, <2>5, BooksMove
<1>4. CASE PlaceTensor /\ ~Refuses
  <2>1. /\ pc = "tensor" /\ pc' = "tensor" /\ Len(tensors) < header.nt
        /\ \E x : tensors' = Append(tensors, x)
        /\ UNCHANGED <<heap, header, items, metadata, item, tmp>>
    BY <1>4, Zenon DEF PlaceTensor
  <2>2. Len(tensors') = Len(tensors) + 1 /\ Len(tensors) \in Nat /\ header.nt \in Nat
    BY <2>1, HeldAreNumbers DEF UseInv, GgufInv, PartsTyped
  <2>3. /\ HeldByItem = 0 /\ HeldByItem' = 0
        /\ Advance = TensorBytes * (header.nt - Len(tensors))
        /\ Advance' = TensorBytes * (header.nt - (Len(tensors) + 1))
    BY <2>1, <2>2 DEF HeldByItem, Advance
  <2>4. HeldByItem' + TensorBytes * Len(tensors') + Advance'
          <= HeldByItem + TensorBytes * Len(tensors) + Advance + 0
    <3> DEFINE n == Len(tensors)
               z == header.nt
    <3>1. 0 + 176 * (n + 1) + 176 * (z - (n + 1)) <= 0 + 176 * n + 176 * (z - n) + 0
      <4>1. n \in Nat /\ z \in Nat
        BY <2>2
      <4> HIDE DEF n, z
      <4> QED  BY <4>1
    <3> QED  BY <2>2, <2>3, <3>1 DEF TensorBytes
  <2>5. Advance' \in Nat
    <3>1. Len(tensors) + 1 <= header.nt
      BY <2>1, <2>2
    <3> QED  BY <2>2, <2>3, <3>1 DEF TensorBytes
  <2>6. /\ DOMAIN item' = ItemFields /\ item'.held \in Nat /\ pc' # "value"
        /\ Len(tensors') \in Nat /\ heap' = heap - 0
    <3>1. heap \in Nat
      BY HeldAreNumbers
    <3>2. DOMAIN item = ItemFields /\ item.held \in Nat
      BY DEF UseInv, HeapBooks
    <3> QED  BY <2>1, <2>2, <3>1, <3>2
  <2> QED  BY <2>1, <2>3, <2>4, <2>5, <2>6, BooksMove
<1>5. CASE TensorsDone
  <2>1. /\ pc = "tensor" /\ pc' = "parsed"
        /\ UNCHANGED <<heap, metadata, item, tmp, tensors>>
    BY <1>5 DEF TensorsDone, parts
  <2>2. HeldByItem = 0 /\ HeldByItem' = 0 /\ Advance' = 0 /\ Len(tensors') = Len(tensors)
    BY <2>1 DEF HeldByItem, Advance
  <2>3. HeldByItem' + TensorBytes * Len(tensors') + Advance'
          <= HeldByItem + TensorBytes * Len(tensors) + Advance + 0
    BY <2>2, HeldAreNumbers DEF TensorBytes
  <2>4. /\ DOMAIN item' = ItemFields /\ item'.held \in Nat /\ pc' # "value"
        /\ Len(tensors') \in Nat /\ heap' = heap - 0
    BY <2>1, HeldAreNumbers DEF UseInv, HeapBooks
  <2> QED  BY <2>1, <2>2, <2>3, <2>4, BooksMove
<1> QED  BY <1>1, <1>2, <1>3, <1>4, <1>5

LEMMA BooksKept ==
    ASSUME UseInv, [GgufNext]_ggufVars
    PROVE  HeapBooks'
<1>1. CASE Refuses
  BY <1>1, BooksRefused, HeldAreNumbers DEF Refuses, parts
<1>2. CASE ReadNumber /\ ~Refuses
  <2>1. PICK v \in Payloads[item.type] :
          /\ pc = "value" /\ Emplace(v, 0) /\ UNCHANGED <<heap, header, item, tmp, tensors>>
    BY <1>2, Zenon DEF ReadNumber
  <2>2. item.held = 0
    BY <2>1 DEF UseInv, HeapBooks
  <2>3. Emplace(v, item.held + 0) /\ heap' = heap - 0
    BY <2>1, <2>2, HeldAreNumbers
  <2> QED  BY <2>1, <2>3, BooksEmplace
<1>3. CASE ReadStringValue /\ ~Refuses
  <2>1. PICK len \in StringLengths :
          /\ pc = "value" /\ Emplace(len, StringBytes + len) /\ ReadsString(len, StringBytes, 0)
          /\ UNCHANGED <<header, item, tmp, tensors>>
    BY <1>3, Zenon DEF ReadStringValue
  <2>2. item.held = 0 /\ len \in Nat
    BY <2>1, ConstantsAreNumbers DEF UseInv, HeapBooks
  <2> DEFINE cost == StringBytes + len
  <2>3. cost \in Nat /\ item.held + cost = StringBytes + len
    BY <2>2 DEF StringBytes
  <2>4. Emplace(len, item.held + cost)
    BY <2>1, <2>3
  <2>5. heap' = heap - cost
    BY <2>1 DEF ReadsString
  <2> HIDE DEF cost
  <2> QED  BY <2>1, <2>3, <2>4, <2>5, BooksEmplace
<1>4. CASE ArrayDone
  <2>1. /\ pc = "elements" /\ Emplace(0, item.held)
        /\ UNCHANGED <<heap, header, item, tmp, tensors>>
    BY <1>4 DEF ArrayDone
  <2>2. Emplace(0, item.held + 0) /\ heap' = heap - 0
    BY <2>1, HeldAreNumbers
  <2> QED  BY <2>1, <2>2, BooksEmplace
<1>5. CASE UNCHANGED ggufVars
  BY <1>5, Zenon DEF UseInv, HeapBooks, MetadataRows, DescriptorRows, HeldByMetadata,
     HeldByDescriptors, HeldByItem, Advance, Total, Table, ggufVars, parts
<1> QED
  BY <1>1, <1>2, <1>3, <1>4, <1>5, BooksHeader, BooksKey, BooksArray, BooksDescriptor, BooksBulk,
     Zenon DEF GgufNext, UnknownType

-----------------------------------------------------------------------------
LEMMA UseStarts == GgufInit => Lookups /\ HeapBooks
<1> SUFFICES ASSUME GgufInit
             PROVE  Lookups /\ HeapBooks
  OBVIOUS
<1>1. /\ metadata = <<>> /\ tmp = <<>> /\ tensors = <<>> /\ index = <<>> /\ items = 0
      /\ pc = "header" /\ item = NoItem /\ heap = MaxParseHeapBytes
      /\ DOMAIN metadata = {} /\ DOMAIN tmp = {} /\ DOMAIN index = {}
      /\ Len(tmp) = 0 /\ Len(tensors) = 0
  BY DEF GgufInit
<1>2. Lookups
  BY <1>1, FS_EmptySet DEF Lookups, HasData
<1>3. /\ DOMAIN MetadataRows = {} /\ DOMAIN DescriptorRows = {}
  BY <1>1 DEF MetadataRows, DescriptorRows
<1>4. /\ IsFiniteSet(Table(MetadataRows)) /\ Total(MetadataRows) = 0
      /\ IsFiniteSet(Table(DescriptorRows)) /\ Total(DescriptorRows) = 0
  BY <1>3, NoRows
<1>5. HeldByMetadata = 0 /\ HeldByDescriptors = 0
  BY <1>4, Zenon DEF HeldByMetadata, HeldByDescriptors, MetadataRows, DescriptorRows
<1>6. HeldByItem = 0 /\ Advance = 0
  BY <1>1 DEF HeldByItem, Advance
<1>7. DOMAIN item = ItemFields /\ item.held = 0
  BY <1>1 DEF NoItem, ItemFields
<1>8. TensorBytes * Len(tensors) = 0 /\ heap \in Nat /\ MaxParseHeapBytes = heap
  BY <1>1, ConstantsAreNumbers DEF TensorBytes
<1>9. HeapBooks
  BY <1>1, <1>4, <1>5, <1>6, <1>7, <1>8 DEF HeapBooks
<1> QED  BY <1>2, <1>9

(***************************************************************************)
(* The index, the list of tensors and the account of what is held agree    *)
(* with each other at every step of the constructor.                       *)
(***************************************************************************)
THEOREM UseCorrect == GgufSpec => []UseInv
<1>1. GgufInit => Lookups /\ HeapBooks
  BY UseStarts
<1>2. GgufInv /\ (Lookups /\ HeapBooks) /\ [GgufNext]_ggufVars => (Lookups /\ HeapBooks)'
  BY LookupsKept, BooksKept DEF UseInv
<1>3. GgufInv /\ (Lookups /\ HeapBooks) => UseInv
  BY DEF UseInv
<1> QED
  BY <1>1, <1>2, <1>3, GgufCorrect, PTL DEF GgufSpec

-----------------------------------------------------------------------------
\* A tensor keeps the name of its descriptor.
SameNames == \A j \in 1 .. Len(tensors) : tensors[j].name = tmp[j].name

LEMMA SameNamesKept ==
    ASSUME UseInv, SameNames, [GgufNext]_ggufVars
    PROVE  SameNames'
<1>1. /\ tmp \in Seq(Descriptor) /\ tensors \in Seq(Placed)
      /\ Len(tensors) \in Nat /\ Len(tmp) \in Nat /\ Len(tensors) <= Len(tmp)
  BY HeldAreNumbers DEF UseInv, GgufInv, PartsTyped
<1>2. CASE UNCHANGED <<tmp, tensors>>
  BY <1>2, Zenon DEF SameNames
<1>3. CASE ReadDescriptor /\ ~Refuses
  <2>1. PICK x : tmp' = Append(tmp, x) /\ tensors' = tensors
    BY <1>3, Zenon DEF ReadDescriptor
  <2>2. \A j \in 1 .. Len(tensors) : tmp'[j] = tmp[j]
    BY <1>1, <2>1
  <2> QED  BY <2>1, <2>2, Zenon DEF SameNames
<1>4. CASE PlaceTensor /\ ~Refuses
  <2> DEFINE x == tmp[Len(tensors) + 1]
  <2>1. PICK off0, n :
          tensors' = Append(tensors, [name |-> x.name, dims |-> x.dims, type |-> x.type,
                                      offset |-> off0, nbytes |-> n])
          /\ tmp' = tmp
    BY <1>4, Zenon DEF PlaceTensor
  <2> HIDE DEF x
  <2>2. /\ Len(tensors') = Len(tensors) + 1
        /\ \A j \in 1 .. Len(tensors) : tensors'[j] = tensors[j]
        /\ tensors'[Len(tensors) + 1].name = x.name
    BY <1>1, <2>1
  <2>3. ASSUME NEW j \in 1 .. Len(tensors') PROVE tensors'[j].name = tmp'[j].name
    <3>1. CASE j = Len(tensors) + 1
      BY <2>1, <2>2, <3>1 DEF x
    <3>2. CASE j \in 1 .. Len(tensors)
      BY <2>1, <2>2, <3>2 DEF SameNames
    <3> QED  BY <1>1, <2>2, <3>1, <3>2
  <2> QED  BY <2>3 DEF SameNames
<1>5. CASE ~(UNCHANGED <<tmp, tensors>>)
  <2>1. ~Refuses
    BY <1>5 DEF Refuses, parts
  <2>2. ReadDescriptor \/ PlaceTensor
    BY <1>5, <2>1, Zenon DEF GgufNext, ReadHeader, ReadKey, ReadNumber, ReadStringValue,
       ReadArrayHeader, ReadStringElement, ReadElement, ArrayDone, UnknownType, MetadataDone,
       DescriptorsDone, TensorsDone, ggufVars, parts
  <2> QED  BY <1>3, <1>4, <2>1, <2>2
<1> QED
  BY <1>2, <1>5

\* The characters of the index's keys are as many as some of those that were
\* charged for: each cell of its table is one of its descriptor's row.
LEMMA IndexWithinDescriptors ==
    ASSUME UseInv, SameNames
    PROVE  HeldByIndex \in Nat /\ HeldByIndex <= HeldByDescriptors
<1> DEFINE w == [n \in DOMAIN index |-> LengthOf[n]]
           S == Table(w)
           T == Table(DescriptorRows)
           f == [cell \in S |-> <<index[cell[1]] + 1, cell[2]>>]
<1>1. ASSUME NEW n \in DOMAIN index
      PROVE  /\ index[n] \in Nat /\ index[n] + 1 \in DOMAIN tmp
             /\ tmp[index[n] + 1].name = n
             /\ LengthOf[n] \in Nat /\ DescriptorRows[index[n] + 1] \in Nat
             /\ LengthOf[n] <= DescriptorRows[index[n] + 1]
  <2> DEFINE j == index[n] + 1
  <2>1. index[n] \in 0 .. (Len(tensors) - 1) /\ tensors[j].name = n
    BY DEF UseInv, Lookups
  <2>2. tmp \in Seq(Descriptor) /\ Len(tensors) \in Nat /\ Len(tensors) <= Len(tmp) /\ Len(tmp) \in Nat
    BY HeldAreNumbers DEF UseInv, GgufInv, PartsTyped
  <2>3. j \in 1 .. Len(tensors) /\ j \in 1 .. Len(tmp) /\ index[n] \in Nat
    BY <2>1, <2>2
  <2> HIDE DEF j
  <2>4. tmp[j].name = n /\ DOMAIN tmp = 1 .. Len(tmp)
    BY <2>1, <2>2, <2>3 DEF SameNames
  <2>5. tmp[j] \in Descriptor /\ Len(tmp[j].dims) \in 1 .. 4
    BY <2>2, <2>3, ElementOfSeq DEF UseInv, Lookups
  <2>6. n \in Names
    BY <2>4, <2>5 DEF Descriptor
  <2>7. LengthOf[n] \in Nat
    BY <2>6, ConstantsAreNumbers
  <2>8. DescriptorRows[j] = DescriptorBytes + LengthOf[n] + 8 * Len(tmp[j].dims)
    BY <2>3, <2>4 DEF DescriptorRows
  <2>9. DescriptorRows[j] \in Nat /\ LengthOf[n] <= DescriptorRows[j]
    BY <2>5, <2>7, <2>8 DEF DescriptorBytes
  <2> QED  BY <2>3, <2>4, <2>7, <2>9 DEF j
<1>2. DOMAIN DescriptorRows = DOMAIN tmp
  BY DEF DescriptorRows
<1>3. ASSUME NEW cell \in S
      PROVE  /\ cell = <<cell[1], cell[2]>> /\ cell[1] \in DOMAIN index
             /\ cell[2] \in 1 .. LengthOf[cell[1]]
  BY DEF Table
<1>4. ASSUME NEW cell \in S
      PROVE  f[cell] \in T
  <2> DEFINE n == cell[1]
             k == cell[2]
             j == index[n] + 1
  <2>1. n \in DOMAIN index /\ k \in 1 .. LengthOf[n]
    BY <1>3
  <2>2. j \in DOMAIN DescriptorRows /\ k \in 1 .. DescriptorRows[j]
    BY <1>1, <1>2, <2>1
  <2>3. <<j, k>> \in {j} \X (1 .. DescriptorRows[j])
    BY <2>2
  <2>4. <<j, k>> \in T
    BY <2>2, <2>3, Zenon DEF Table
  <2> QED  BY <2>4
<1>5. ASSUME NEW c \in S, NEW d \in S, f[c] = f[d]
      PROVE  c = d
  <2>1. index[c[1]] + 1 = index[d[1]] + 1 /\ c[2] = d[2]
    BY <1>5
  <2>2. c[1] \in DOMAIN index /\ d[1] \in DOMAIN index
    BY <1>3
  <2>3. c[1] = d[1]
    BY <1>1, <2>1, <2>2
  <2> QED  BY <1>3, <2>1, <2>3, Zenon
<1> HIDE DEF w
<1>6. f \in [S -> T]
  BY <1>4
<1>7. f \in Injection(S, T)
  BY <1>5, <1>6 DEF Injection, IsInjective
<1>8. IsFiniteSet(T)
  BY DEF UseInv, HeapBooks
<1> HIDE DEF S, T, f
<1>9. IsFiniteSet(S) /\ Cardinality(S) <= Cardinality(T)
  BY ONLY <1>7, <1>8, FS_Injection
<1>10. Cardinality(S) \in Nat
  BY ONLY <1>9, FS_CardinalityType
<1>11. HeldByIndex = Cardinality(S) /\ HeldByDescriptors = Cardinality(T)
  BY Zenon DEF HeldByIndex, HeldByDescriptors, DescriptorRows, Total, S, T, w
<1> QED  BY <1>9, <1>10, <1>11

(***************************************************************************)
(* What the parse keeps has been taken from max_parse_heap_bytes, for      *)
(* every file: bulk charges come before what they pay for, and an array is *)
(* charged for its elements as wide as they are in memory.  The copies of  *)
(* the names that the index makes are not paid for, but each is of a name  *)
(* that was, so that the parse never holds twice what it charged.          *)
(***************************************************************************)
THEOREM HeapCorrect == GgufSpec => []HeldIsCharged
<1>1. GgufInit => SameNames
  BY DEF GgufInit, SameNames
<1>2. UseInv /\ SameNames /\ [GgufNext]_ggufVars => SameNames'
  BY SameNamesKept
<1>3. UseInv /\ SameNames => HeldIsCharged
  <2> SUFFICES ASSUME UseInv, SameNames
               PROVE  HeldIsCharged
    OBVIOUS
  <2> DEFINE sum == HeldByMetadata + HeldByItem + HeldByDescriptors + TensorBytes * Len(tensors)
             rest == MaxParseHeapBytes - heap
             a == Advance
             d == HeldByDescriptors
             x == HeldByIndex
  <2>1. sum + a <= rest
    BY DEF UseInv, HeapBooks
  <2>2. sum \in Nat /\ rest \in Int /\ a \in Nat /\ d \in Nat /\ d <= sum
    <3>1. \A m, i, e, n \in Nat : m + i + e + 176 * n \in Nat /\ e <= m + i + e + 176 * n
      OBVIOUS
    <3>2. TensorBytes = 176
      BY DEF TensorBytes
    <3>3. /\ HeldByMetadata \in Nat /\ HeldByItem \in Nat /\ HeldByDescriptors \in Nat
          /\ Len(tensors) \in Nat
      BY HeldAreNumbers
    <3>4. sum \in Nat /\ d <= sum
      <4> DEFINE m == HeldByMetadata
                 i == HeldByItem
                 n == Len(tensors)
      <4>1. m + i + d + 176 * n \in Nat /\ d <= m + i + d + 176 * n
        BY <3>1, <3>3
      <4> QED  BY <3>2, <4>1
    <3>5. rest \in Int /\ a \in Nat
      BY HeldAreNumbers
    <3> QED  BY <3>3, <3>4, <3>5
  <2>3. x \in Nat /\ x <= d
    BY IndexWithinDescriptors
  <2>4. sum <= rest /\ sum + x <= 2 * rest
    <3> HIDE DEF sum, rest, a, d, x
    <3> QED  BY <2>1, <2>2, <2>3
  <2> QED  BY <2>4, Zenon DEF HeldIsCharged, ChargedHeld, Charged
<1> QED
  BY <1>1, <1>2, <1>3, UseCorrect, PTL DEF GgufSpec

(***************************************************************************)
(* find() and tensor_data() of a parsed file need no check: names and      *)
(* tensors are in bijection, and every tensor is whole rows of whole       *)
(* blocks filling nbytes, for every shape, type and size of word.          *)
(***************************************************************************)
THEOREM LookupsCorrect == GgufSpec => []LookupsAreUsable
<1>1. UseInv => LookupsAreUsable
  <2> SUFFICES ASSUME UseInv, pc = "parsed"
               PROVE  /\ Cardinality(DOMAIN metadata) = header.nkv
                      /\ Cardinality(DOMAIN index) = header.nt /\ Len(tensors) = header.nt
                      /\ \A n \in DOMAIN index : Tensor(n).name = n
                      /\ \A i \in 1 .. Len(tensors) :
                            /\ HasTensor(tensors[i].name) /\ Tensor(tensors[i].name) = tensors[i]
                            /\ RowsFill(tensors[i])
    BY Zenon DEF LookupsAreUsable
  <2>1. Lookups
    BY DEF UseInv
  <2>2. ASSUME NEW i \in 1 .. Len(tensors)
        PROVE  /\ HasTensor(tensors[i].name) /\ Tensor(tensors[i].name) = tensors[i]
               /\ RowsFill(tensors[i])
    <3>1. /\ tensors[i].name \in DOMAIN index /\ index[tensors[i].name] = i - 1
          /\ RowsFill(tensors[i])
      BY <2>1 DEF Lookups
    <3>2. (i - 1) + 1 = i
      OBVIOUS
    <3> QED  BY <3>1, <3>2 DEF HasTensor, Tensor
  <2> QED  BY <2>1, <2>2 DEF Lookups, HasData, Tensor
<1> QED
  BY <1>1, UseCorrect, PTL
=============================================================================

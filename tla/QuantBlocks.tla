---------------------------- MODULE QuantBlocks -----------------------------
(***************************************************************************)
(* The rows of a weight matrix and the loops that read them                *)
(* (src/src/gguf_kernels.cpp).  Arithmetic is left out: a dot product is   *)
(* which stored weight each turn of its loops multiplies with which        *)
(* activation, so that a weight skipped, taken twice or paired with the    *)
(* wrong activation shows.                                                 *)
(*                                                                         *)
(* A weight is the place it is stored at.  Sizes are those of the code     *)
(* divided by a common factor: 32 elements of a Q4_0 or Q8_0 block become  *)
(* QK, 256 of a Q6_K block 8 * Q6Run, and 8 SIMD lanes Lanes.              *)
(***************************************************************************)
EXTENDS Naturals, FiniteSets

CONSTANTS QK, Q6Run, Lanes

ASSUME QuantBlocksAssumption ==
    /\ Lanes \in Nat \ {0} /\ Q6Run \in Nat \ {0}
    /\ QK \in Nat \ {0} /\ QK % (2 * Lanes) = 0

Half == QK \div 2
Q6Block == 8 * Q6Run

\* The types with a kernel; the parser knows many more.
KnownTypes == {"F32", "F16", "Q4_0", "Q8_0", "Q6_K"}
BlockOf(type) == CASE type \in {"Q4_0", "Q8_0"} -> QK
                   [] type = "Q6_K" -> Q6Block
                   [] OTHER -> 1

Below(n) == 0 .. (n - 1)
\* The counters of `for (k = 0; k + by <= n; k += by)'.
Strides(n, by) == {k \in Below(n) : k % by = 0 /\ k + by <= n}
\* Where it stops, and what it leaves to the loop after it.
Stop(n, by) == n - (n % by)
Rest(n, by) == Stop(n, by) .. (n - 1)

-----------------------------------------------------------------------------
(***************************************************************************)
(* Where the weights of a row are, in the order of its elements: what      *)
(* tensor_read_row_f32 decodes.                                            *)
(***************************************************************************)
Nibble(block, byte, high) == <<"q4", block, byte, high>>

Q4Row(cols) ==
    [c \in Below(cols) |-> Nibble(c \div QK, (c % QK) % Half, (c % QK) \div Half)]

\* q6_k_value: the byte and shift of the low four and of the high two bits.
Q6Bits(i) ==
    LET run == i \div Q6Run
        j == i % Q6Run
        group == run \div 4
        local == run % 4
    IN  [ql |-> <<group * 2 * Q6Run + (local % 2) * Q6Run + j, local \div 2>>,
         qh |-> <<group * Q6Run + j, local>>]

Q6Row(cols) == [c \in Below(cols) |-> <<"q6", c \div Q6Block, Q6Bits(c % Q6Block)>>]

Plain(cols) == [c \in Below(cols) |-> <<"plain", c>>]

Row(type, cols) == CASE type = "Q4_0" -> Q4Row(cols)
                     [] type = "Q6_K" -> Q6Row(cols)
                     [] OTHER -> Plain(cols)

-----------------------------------------------------------------------------
(***************************************************************************)
(* The loops of the dot products: from a turn of the loop, named by its    *)
(* counters, to the weight and the activation it multiplies.               *)
(***************************************************************************)
\* Blocks, the two halves of the nibbles, and a vector register at a time.
Q4Turns(cols) == Below(cols \div QK) \X {0, 1} \X Strides(Half, Lanes) \X Below(Lanes)

DotQ4(cols) ==
    [t \in Q4Turns(cols) |->
        <<Nibble(t[1], t[3] + t[4], t[2]), t[1] * QK + t[2] * Half + t[3] + t[4]>>]

Q8Turns(cols) == Below(cols \div QK) \X Strides(QK, Lanes) \X Below(Lanes)

DotQ8(cols) ==
    [t \in Q8Turns(cols) |->
        LET c == t[1] * QK + t[2] + t[3] IN <<<<"plain", c>>, c>>]

DotQ6(cols) ==
    [t \in Below(cols \div Q6Block) \X Below(Q6Block) |->
        <<<<"q6", t[1], Q6Bits(t[2])>>, t[1] * Q6Block + t[2]>>]

F32Turns(cols) ==
    (Strides(cols, Lanes) \X Below(Lanes)) \cup (Rest(cols, Lanes) \X {0})

DotF32(cols) == [t \in F32Turns(cols) |-> <<<<"plain", t[1] + t[2]>>, t[1] + t[2]>>]

DotF16(cols) == [c \in Below(cols) |-> <<<<"plain", c>>, c>>]

\* quantize_q8: activation k of a block, and the scale it was divided by.
Quantized(cols) == [c \in Below(cols) |-> <<c, c \div QK>>]

\* Each block against its scale, low nibbles against the first half.
DotQ4Q8(cols) ==
    [t \in Below(cols \div QK) \X {0, 1} \X Below(Half) |->
        LET k == t[2] * Half + t[3]
        IN  <<Nibble(t[1], t[3], t[2]), <<t[1] * QK + k, t[1]>>>>]

Dot(kernel, cols) ==
    CASE kernel = "q4_fp32" -> DotQ4(cols)
      [] kernel = "q4_q8" -> DotQ4Q8(cols)
      [] kernel = "q8_fp32" -> DotQ8(cols)
      [] kernel = "q6_fp32" -> DotQ6(cols)
      [] kernel = "f32" -> DotF32(cols)
      [] kernel = "f16" -> DotF16(cols)

-----------------------------------------------------------------------------
(***************************************************************************)
(* The product of a row with its activations: each of the row's weights,   *)
(* no two of them stored in the same bits, with the activation of its      *)
(* column, once.                                                           *)
(***************************************************************************)
KernelNames == {"q4_fp32", "q4_q8", "q8_fp32", "q6_fp32", "f32", "f16"}
TypeOfKernel(kernel) ==
    CASE kernel \in {"q4_fp32", "q4_q8"} -> "Q4_0"
      [] kernel = "q6_fp32" -> "Q6_K"
      [] OTHER -> "F32"

\* No two weights share a nibble, or a pair of high bits.
Apart(row) ==
    LET Low(w) == IF w[1] = "q6" THEN <<w[2], w[3].ql>> ELSE w
        High(w) == IF w[1] = "q6" THEN <<w[2], w[3].qh>> ELSE w
        all == DOMAIN row
    IN  /\ Cardinality({Low(row[c]) : c \in all}) = Cardinality(all)
        /\ Cardinality({High(row[c]) : c \in all}) = Cardinality(all)

IsProduct(kernel, cols) ==
    LET turns == Dot(kernel, cols)
        row == Row(TypeOfKernel(kernel), cols)
        act == IF kernel = "q4_q8" THEN Quantized(cols) ELSE [c \in Below(cols) |-> c]
    IN  /\ Apart(row)
        /\ {turns[t] : t \in DOMAIN turns} = {<<row[c], act[c]>> : c \in Below(cols)}
        /\ Cardinality(DOMAIN turns) = cols
=============================================================================

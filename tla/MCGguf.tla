------------------------------- MODULE MCGguf -------------------------------
(***************************************************************************)
(* Words of ten bits.  Descriptors of one or two tensors end beyond the    *)
(* smallest file; the others hold the data of some shapes and not of       *)
(* others.  <<32, 32>> has 1024 elements, one more than a word can count.  *)
(* The name b is so long that with its copy in the index, which is not     *)
(* charged, the parse can hold more than its budget.                       *)
(***************************************************************************)
EXTENDS Gguf

MCKeys == {"align", "k"}
MCNames == {"a", "b"}
MCLengthOf == [s \in MCKeys \cup MCNames |-> CASE s = "align" -> 17 [] s = "b" -> 150 [] OTHER -> 1]

Header(magic, version, nt, nkv) ==
    [magic |-> magic, version |-> version, nt |-> nt, nkv |-> nkv]
MCHeaders ==
    {Header("GGUF", 3, c[1], c[2]) : c \in {<<0, 2>>, <<1, 1>>, <<2, 0>>, <<3, 0>>, <<0, 3>>}}
        \cup {Header("GGUF", 1, 1, 0), Header("GGML", 3, 1, 0)}

MCValueTypes == {"UInt8", "UInt64", "Int32", "Float64", "Bool", "String", "Array", "unknown"}
MCPayloads ==
    [t \in DOMAIN ScalarWidth |->
        CASE t = "UInt8" -> {16}
          [] t = "UInt64" -> {0, 24, 512, 1000}
          [] t \in Signed -> {-1, 8}
          [] OTHER -> {0}]

MCShapes == {<<>>, <<32>>, <<16, 2>>, <<32, 32>>, <<3, 0>>, <<1, 1, 1, 1, 1>>, <<256>>}
MCGgmlTypes == {"F32", "Q8_0", "Q4_K", "IQ4_NL"}
=============================================================================

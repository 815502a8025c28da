--------------------------- MODULE MCLlamaSession ---------------------------
(***************************************************************************)
(* Two tokens (1 ends a generation) and 2, which is out of range.  The     *)
(* context is three positions in pages of two: one prompt fills it, two in *)
(* a row overflow it.  Batches of three exceed the workspace.              *)
(***************************************************************************)
EXTENDS LlamaSession

MCPrompts == {<<>>, <<0>>, <<2>>, <<0, 1>>, <<0, 2>>, <<1, 0, 0>>}
=============================================================================

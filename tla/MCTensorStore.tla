---------------------------- MODULE MCTensorStore ----------------------------
(***************************************************************************)
(* A store and two more files, with one descriptor and one mapping less    *)
(* than they could use.  Pages of three bytes; files of one page and less, *)
(* and of more than one with a rest.  The largest word lies between the    *)
(* end of the longest file and the end of its last page.                   *)
(***************************************************************************)
EXTENDS TensorStore
=============================================================================

---------------------------- MODULE PagedKVCache ----------------------------
(***************************************************************************)
(* PagedKVCache (src/src/llama_model.cpp): the keys and values of one      *)
(* layer, a row per position, in pages that are allocated when a row of    *)
(* theirs is first written.  A cache is a record, for the model has one    *)
(* per layer.  Key and value of a position are written and read together:  *)
(* one slot stands for both, in whichever of the three formats.            *)
(***************************************************************************)
EXTENDS Integers, Sequences

CONSTANTS
    CfgPageTokens,   \* the constructor's page_tokens
    Positions,       \* the positions of the context
    Unwritten        \* content of a row nobody has written

PageTokens == IF CfgPageTokens = 0 THEN 128 ELSE CfgPageTokens
PageOf(t) == t \div PageTokens

EmptyKV == [pages |-> {}, slot |-> [t \in Positions |-> Unwritten]]

\* Mutant: only the page of the first row is allocated.
WrittenFirstPage(kv, first, rows) ==
    LET touched == first .. (first + Len(rows) - 1)
    IN  [pages |-> kv.pages \cup {PageOf(first)},
         slot  |-> [t \in Positions |->
                      IF t \in touched THEN rows[t - first + 1] ELSE kv.slot[t]]]

\* write(first), write(first + 1), ...: one row after the other.
Written(kv, first, rows) ==
    LET touched == first .. (first + Len(rows) - 1)
    IN  [pages |-> kv.pages \cup {PageOf(t) : t \in touched},
         slot  |-> [t \in Positions |->
                      IF t \in touched THEN rows[t - first + 1] ELSE kv.slot[t]]]

\* The caches in which such a sequence of writes may stop because ensure()
\* cannot allocate the next page.
WrittenInPart(kv, first, rows) ==
    {Written(kv, first, SubSeq(rows, 1, b)) :
        b \in {b \in 0 .. (Len(rows) - 1) :
                 /\ PageOf(first + b) \notin kv.pages
                 /\ b = 0 \/ PageOf(first + b) # PageOf(first + b - 1)}}

\* dot_key and add_value find the page of position t.
Readable(kv, t) == PageOf(t) \in kv.pages
=============================================================================

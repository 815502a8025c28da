--------------------------- MODULE SentencePiece ---------------------------
(***************************************************************************)
(* GgufTokenizer::encode_sentencepiece (src/src/llama_model.cpp): the      *)
(* characters of the text are nodes of a doubly linked list in an array; a *)
(* priority queue holds the pairs that could be merged when they were      *)
(* added, and a pair that no longer is what it was is dropped when it      *)
(* comes to the top.                                                       *)
(*                                                                         *)
(* Strings are sequences of characters (utf8_at takes a byte that belongs  *)
(* to none for one), Bytes gives their encoding.  Tokens are <<"piece",    *)
(* string>>, <<"byte", byte>> and <<"unk">>.  A token <0xXX> is in the     *)
(* piece table like any other: it is <<"piece", "<0xXX>">> where it was    *)
(* found there and <<"byte", byte>> where a byte was looked up.            *)
(***************************************************************************)
EXTENDS Strings

CONSTANTS
    Texts,          \* what encode is called with
    Space, Marker,  \* " " and U+2581
    Bytes,          \* character -> sequence of bytes
    Vocabularies    \* records [score, byteOf, unk, prefix, control], see voc

ASSUME SentencePieceAssumption ==
    /\ Texts \subseteq Seq(DOMAIN Bytes)
    /\ Marker \in DOMAIN Bytes /\ Space # Marker
    /\ Bytes \in [DOMAIN Bytes -> Seq(UNION {{Bytes[c][i] : i \in DOMAIN Bytes[c]} : c \in DOMAIN Bytes})]
    /\ Space \in DOMAIN Bytes /\ Len(Bytes[Space]) = 1
    /\ \A v \in Vocabularies :
          /\ v.score \in [DOMAIN v.score -> Int] /\ v.prefix \in BOOLEAN
          /\ DOMAIN v.byteOf \subseteq DOMAIN v.score

VARIABLES
    voc,        \* score: piece -> score (token_to_id_, scores_); byteOf: pieces of
                \* type 6, spelled <0xXX> -> byte; unk: unk_ >= 0; prefix:
                \* add_space_prefix_; control: pieces of type 3
    text,       \* the argument
    s,          \* the text with markers
    symbols,    \* records [prev, next, off, len]
    work,       \* the queue's pairs, records [left, right, score, size]
    sp,         \* "idle", "merging", "merged", "done", "threw"
    ids

spVars == <<voc, text, s, symbols, work, sp, ids>>

SpInit ==
    /\ voc \in Vocabularies
    /\ text = <<>> /\ s = <<>> /\ symbols = <<>> /\ work = {}
    /\ sp = "idle" /\ ids = <<>>

Prepared(t, prefix) ==
    (IF prefix THEN <<Marker>> ELSE <<>>)
        \o [i \in DOMAIN t |-> IF t[i] = Space THEN Marker ELSE t[i]]

Nodes(n) ==
    [i \in 0 .. (n - 1) |->
        [prev |-> i - 1, next |-> IF i + 1 < n THEN i + 1 ELSE -1, off |-> i, len |-> 1]]

\* s.substr(off, len)
Substr(str, off, len) == SubSeq(str, off + 1, off + len)

\* Two nodes that follow each other; a merged node has length 0.
Linked(y, l, r) ==
    /\ l >= 0 /\ r >= 0
    /\ y[l].len > 0 /\ y[r].len > 0
    /\ y[l].next = r /\ y[r].prev = l

\* try_add: the pairs it adds, none or one.
Candidates(y, str, l, r) ==
    IF Linked(y, l, r) /\ Substr(str, y[l].off, y[l].len + y[r].len) \in DOMAIN voc.score
    THEN {[left |-> l, right |-> r, size |-> y[l].len + y[r].len,
           score |-> voc.score[Substr(str, y[l].off, y[l].len + y[r].len)]]}
    ELSE {}

EncodeEmpty ==
    /\ sp = "idle"
    /\ <<>> \in Texts
    /\ sp' = "done"
    /\ UNCHANGED <<voc, text, s, symbols, work, ids>>

EncodeBegins ==
    /\ sp = "idle"
    /\ text' \in Texts \ {<<>>}
    /\ s' = Prepared(text', voc.prefix)
    /\ symbols' = Nodes(Len(s'))
    /\ work' = UNION {Candidates(symbols', s', i - 1, i) : i \in 1 .. (Len(s') - 1)}
    /\ sp' = "merging"
    /\ UNCHANGED <<voc, ids>>

-----------------------------------------------------------------------------
\* work.top(): the best score, then the leftmost.
Top(b) ==
    /\ b \in work
    /\ \A c \in work : c.score < b.score \/ (c.score = b.score /\ b.left <= c.left)

\* Mutant: a pair whose nodes have grown since it was added passes.
IsCurrentGrown(b) == Linked(symbols, b.left, b.right)

IsCurrent(b) ==
    /\ Linked(symbols, b.left, b.right)
    /\ symbols[b.left].len + symbols[b.right].len = b.size

DropStale ==
    /\ sp = "merging"
    /\ \E b \in work :
          /\ Top(b) /\ ~IsCurrent(b)
          /\ work' = work \ {b}
    /\ UNCHANGED <<voc, text, s, symbols, sp, ids>>

\* Mutant: the node behind the pair still points back at the right one.
JoinNodesOneWay(b) ==
    [i \in DOMAIN symbols |->
        CASE i = b.left -> [symbols[i] EXCEPT !.len = @ + symbols[b.right].len,
                                              !.next = symbols[b.right].next]
          [] i = b.right -> [symbols[i] EXCEPT !.len = 0]
          [] OTHER -> symbols[i]]

JoinNodes(b) ==
    [i \in DOMAIN symbols |->
        CASE i = b.left -> [symbols[i] EXCEPT !.len = @ + symbols[b.right].len,
                                              !.next = symbols[b.right].next]
          [] i = b.right -> [symbols[i] EXCEPT !.len = 0]
          [] i = symbols[b.right].next -> [symbols[i] EXCEPT !.prev = b.left]
          [] OTHER -> symbols[i]]

MergePair ==
    /\ sp = "merging"
    /\ \E b \in work :
          /\ Top(b) /\ IsCurrent(b)
          /\ symbols' = JoinNodes(b)
          /\ work' = (work \ {b})
                \cup Candidates(symbols', s, symbols'[b.left].prev, b.left)
                \cup Candidates(symbols', s, b.left, symbols'[b.left].next)
    /\ UNCHANGED <<voc, text, s, sp, ids>>

QueueEmpty ==
    /\ sp = "merging" /\ work = {}
    /\ sp' = "merged"
    /\ UNCHANGED <<voc, text, s, symbols, work, ids>>

-----------------------------------------------------------------------------
\* The strings of the nodes from the first one on, along next.
Chain ==
    LET from[i \in DOMAIN symbols] ==
            <<Substr(s, symbols[i].off, symbols[i].len)>>
                \o (IF symbols[i].next = -1 THEN <<>> ELSE from[symbols[i].next])
    IN  IF symbols = <<>> THEN <<>> ELSE from[0]

BytesOf(str) == Concat([i \in DOMAIN str |-> Bytes[str[i]]])

\* The keys of byte_token_id_.
FallbackBytes == {voc.byteOf[z] : z \in DOMAIN voc.byteOf}

TokensOf(piece) ==
    IF piece \in DOMAIN voc.score THEN << <<"piece", piece>> >>
    ELSE [i \in DOMAIN BytesOf(piece) |->
            IF BytesOf(piece)[i] \in FallbackBytes THEN <<"byte", BytesOf(piece)[i]>> ELSE <<"unk">>]

EmitTokens ==
    /\ sp = "merged"
    /\ LET out == Concat([i \in DOMAIN Chain |-> TokensOf(Chain[i])])
       IN  IF \E i \in DOMAIN out : out[i] = <<"unk">> /\ ~voc.unk
           THEN sp' = "threw" /\ UNCHANGED ids
           ELSE sp' = "done" /\ ids' = out
    /\ UNCHANGED <<voc, text, s, symbols, work>>

SpReturned == sp \in {"done", "threw"} /\ UNCHANGED spVars

SpNext ==
    \/ EncodeEmpty \/ EncodeBegins \/ DropStale \/ MergePair \/ QueueEmpty
    \/ EmitTokens \/ SpReturned

SpSpec == SpInit /\ [][SpNext]_spVars

-----------------------------------------------------------------------------
(***************************************************************************)
(* Properties.                                                             *)
(***************************************************************************)
(***************************************************************************)
(* At every step the list starts at node 0, next and prev of the nodes in  *)
(* use agree, and each begins where the one before it ends, the last at    *)
(* the end of the text: no merge, whatever stale pairs precede it, loses,  *)
(* repeats or reorders a character.                                        *)
(***************************************************************************)
Live(i) == i \in DOMAIN symbols /\ symbols[i].len > 0

ListTilesText ==
    sp # "idle" /\ s # <<>> =>
        /\ Live(0) /\ symbols[0].prev = -1 /\ symbols[0].off = 0
        /\ \A i \in DOMAIN symbols : Live(i) =>
              IF symbols[i].next = -1
              THEN symbols[i].off + symbols[i].len = Len(s)
              ELSE /\ Live(symbols[i].next)
                   /\ i < symbols[i].next
                   /\ symbols[symbols[i].next].prev = i
                   /\ symbols[symbols[i].next].off = symbols[i].off + symbols[i].len

(***************************************************************************)
(* The list and the queue with its stale entries implement BestMerge: each *)
(* merge is of the best pair of the whole text at that moment, and merging *)
(* stops only when no two neighbours make a piece.                         *)
(***************************************************************************)
Merging == INSTANCE BestMerge WITH
    Strings <- {Prepared(t, p) : t \in Texts \ {<<>>}, p \in BOOLEAN},
    score   <- voc.score,
    stage   <- CASE sp = "idle" -> "idle"
                 [] sp = "merging" -> "merging"
                 [] OTHER -> IF s = <<>> THEN "idle" ELSE "merged",
    pieces  <- Chain

ImplementsBestMerge == Merging!MergeSpec

(***************************************************************************)
(* What V071_TOKENIZER_HARDENING.md calls "Viterbi unigram segmentation":  *)
(* where the whole text is put together from pieces, no other way to do it *)
(* has a better total of scores.  Best pair first does not look ahead: a   *)
(* merge can leave a neighbour that only a bad piece can spell.            *)
(***************************************************************************)
Segmentations(str) ==
    {z \in UNION {[1 .. k -> DOMAIN voc.score] : k \in 1 .. Len(str)} : Concat(z) = str}

ScoreOf(z) ==
    LET upto[n \in 0 .. Len(z)] == IF n = 0 THEN 0 ELSE upto[n - 1] + voc.score[z[n]]
    IN  upto[Len(z)]

BestSegmentation ==
    sp = "done" /\ Chain \in Segmentations(s) =>
        \A z \in Segmentations(s) : ScoreOf(z) <= ScoreOf(Chain)
=============================================================================

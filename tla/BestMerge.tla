----------------------------- MODULE BestMerge -----------------------------
(***************************************************************************)
(* What encode_sentencepiece computes, without its linked list and its     *)
(* queue: a text falls into characters, and as long as two neighbours make *)
(* a piece of the vocabulary, the pair whose piece scores best, the first  *)
(* of them when several do, becomes one piece.                             *)
(***************************************************************************)
EXTENDS Naturals, Sequences

CONSTANT Strings        \* the texts, as sequences of characters

VARIABLES
    score,              \* piece -> score
    stage,              \* "idle", "merging", "merged"
    pieces              \* the text, in pieces

mergeVars == <<score, stage, pieces>>

MergeInit == stage = "idle" /\ pieces = <<>>

Split ==
    /\ stage = "idle"
    /\ stage' = "merging"
    /\ \E s \in Strings : pieces' = [i \in DOMAIN s |-> <<s[i]>>]
    /\ UNCHANGED score

Joined(i) == pieces[i] \o pieces[i + 1]
Pairs == {i \in 1 .. (Len(pieces) - 1) : Joined(i) \in DOMAIN score}

Best(i) ==
    /\ i \in Pairs
    /\ \A j \in Pairs :
          score[Joined(j)] < score[Joined(i)] \/ (score[Joined(j)] = score[Joined(i)] /\ i <= j)

Join ==
    /\ stage = "merging"
    /\ \E i \in Pairs :
          /\ Best(i)
          /\ pieces' = SubSeq(pieces, 1, i - 1) \o <<Joined(i)>>
                           \o SubSeq(pieces, i + 2, Len(pieces))
    /\ UNCHANGED <<score, stage>>

Stop ==
    /\ stage = "merging" /\ Pairs = {}
    /\ stage' = "merged"
    /\ UNCHANGED <<score, pieces>>

MergeSpec == MergeInit /\ [][Split \/ Join \/ Stop]_mergeVars
=============================================================================

------------------------------ MODULE Gpt2Bpe ------------------------------
(***************************************************************************)
(* GgufTokenizer::encode_gpt2 (src/src/llama_model.cpp): special tokens    *)
(* are cut out of the text, what is between them falls into words, and     *)
(* each word is merged pair by pair in the order of the merge table.  A    *)
(* vocabulary with neither merges nor all byte atoms is matched greedily.  *)
(*                                                                         *)
(* A text is a sequence of characters of one byte (longer ones stay        *)
(* together when words are cut, and are merged byte by byte like others),  *)
(* a word a sequence of pieces, a piece one of atoms: Atom is              *)
(* gpt2_encode_bytes, which gives each byte a printable character.  Tokens *)
(* are <<"special", bytes>>, <<"raw", bytes>>, <<"piece", atoms>>, <<"unk">>.*)
(***************************************************************************)
EXTENDS Strings

CONSTANTS
    Inputs,         \* what encode is called with
    Blank,          \* " "
    Kind,           \* byte -> "L" letter, "D" digit, "P" other, "S" space
    Atom,           \* byte -> character
    Contractions,   \* "'s", "'t", ...
    Bpes            \* records [merges, pieces, raws, specials, unk], see bpe

ASSUME BpeAssumption ==
    /\ DOMAIN Kind = DOMAIN Atom /\ Blank \in DOMAIN Kind
    /\ \A x, y \in DOMAIN Atom : Atom[x] = Atom[y] => x = y
    /\ Inputs \subseteq Seq(DOMAIN Atom)
    /\ \A b \in Bpes : b.specials \cup b.raws \subseteq Seq(DOMAIN Atom)
    /\ \A b \in Bpes : Len(b.merges) \in Nat /\ DOMAIN b.merges = 1 .. Len(b.merges)
    /\ Contractions \subseteq Seq(DOMAIN Atom) \ {<<>>}
    /\ \A c, d \in Contractions : c # d => ~(Len(c) <= Len(d) /\ SubSeq(d, 1, Len(c)) = c)

VARIABLES
    bpe,        \* merges: the pairs of pieces in the order of the table; pieces: the
                \* byte-encoded tokens; raws: all tokens as they are spelled (greedy_);
                \* specials: those of type 3 or 4; unk: unk_ >= 0
    input,      \* the argument
    p,          \* how much of it is done
    segment,    \* what is left of the text before the next special token
    syms,       \* the word being merged
    gp,         \* "idle", "scan", "greedy", "words", "merge", "done", "threw"
    gids        \* ids

gptVars == <<bpe, input, p, segment, syms, gp, gids>>

GptInit ==
    /\ bpe \in Bpes
    /\ input = <<>> /\ p = 0 /\ segment = <<>> /\ syms = <<>>
    /\ gp = "idle" /\ gids = <<>>

\* text.compare(at, t.size(), t) == 0, with t no longer than what is left
StartsAt(str, at, t) == at + Len(t) <= Len(str) /\ SubSeq(str, at + 1, at + Len(t)) = t

Least(S) == CHOOSE x \in S : \A y \in S : x <= y
Longest(S) == CHOOSE t \in S : \A u \in S : Len(u) <= Len(t)

\* byte_bpe_complete_
Complete == \A b \in DOMAIN Atom : <<Atom[b]>> \in bpe.pieces

GptBegins ==
    /\ gp = "idle"
    /\ input' \in Inputs
    /\ gp' = IF ~Complete /\ bpe.merges = <<>> THEN "greedy" ELSE "scan"
    /\ UNCHANGED <<bpe, p, segment, syms, gids>>

GptEnds ==
    /\ gp \in {"scan", "greedy"} /\ p = Len(input)
    /\ gp' = "done"
    /\ UNCHANGED <<bpe, input, p, segment, syms, gids>>

\* The longest token that matches; an unknown byte is skipped.
MatchGreedily ==
    /\ gp = "greedy" /\ p < Len(input)
    /\ LET hits == {t \in bpe.raws : t # <<>> /\ StartsAt(input, p, t)}
       IN  \/ /\ hits # {}
              /\ gids' = Append(gids, <<"raw", Longest(hits)>>)
              /\ p' = p + Len(Longest(hits))
              /\ UNCHANGED gp
           \/ /\ hits = {} /\ bpe.unk
              /\ gids' = Append(gids, <<"unk">>)
              /\ p' = p + 1
              /\ UNCHANGED gp
           \/ /\ hits = {} /\ ~bpe.unk
              /\ gp' = "threw"
              /\ UNCHANGED <<gids, p>>
    /\ UNCHANGED <<bpe, input, segment, syms>>

-----------------------------------------------------------------------------
\* Mutant: a special token that ends the text is overlooked.
SpecialsAtInside(at) == {t \in bpe.specials : t # <<>> /\ StartsAt(input, at, t) /\ at + Len(t) < Len(input)}

\* specials_ is sorted by length, so that the first that matches is the longest.
SpecialsAt(at) == {t \in bpe.specials : t # <<>> /\ StartsAt(input, at, t)}

EmitSpecial ==
    /\ gp = "scan" /\ p < Len(input)
    /\ SpecialsAt(p) # {}
    /\ gids' = Append(gids, <<"special", Longest(SpecialsAt(p))>>)
    /\ p' = p + Len(Longest(SpecialsAt(p)))
    /\ UNCHANGED <<bpe, input, segment, syms, gp>>

TakeSegment ==
    /\ gp = "scan" /\ p < Len(input)
    /\ SpecialsAt(p) = {}
    /\ p' = Least({q \in (p + 1) .. Len(input) : q = Len(input) \/ SpecialsAt(q) # {}})
    /\ segment' = SubSeq(input, p + 1, p')
    /\ gp' = "words"
    /\ UNCHANGED <<bpe, input, syms, gids>>

(***************************************************************************)
(* pretokenize_gpt2: where the word at the start of a text ends.           *)
(***************************************************************************)
ContractionsAt(str, at) == {c \in Contractions : StartsAt(str, at, c)}
KindAt(str, at) == Kind[str[at + 1]]
RunEnd(str, from, k) == Least({q \in from .. Len(str) : q = Len(str) \/ KindAt(str, q) # k})

WordEnd(str) ==
    IF ContractionsAt(str, 0) # {} THEN Len(Longest(ContractionsAt(str, 0)))
    ELSE IF KindAt(str, 0) # "S"
    THEN Least({q \in 1 .. Len(str) :
                    q = RunEnd(str, 1, KindAt(str, 0)) \/ ContractionsAt(str, q) # {}})
    ELSE IF str[1] = Blank /\ Len(str) > 1 /\ KindAt(str, 1) # "S"
    THEN RunEnd(str, 1, KindAt(str, 1))
    ELSE RunEnd(str, 1, "S")

NextWord ==
    /\ gp = "words"
    /\ IF segment = <<>>
       THEN gp' = "scan" /\ UNCHANGED <<segment, syms>>
       ELSE /\ gp' = "merge"
            /\ syms' = [i \in 1 .. WordEnd(segment) |-> <<Atom[segment[i]]>>]
            /\ segment' = SubSeq(segment, WordEnd(segment) + 1, Len(segment))
    /\ UNCHANGED <<bpe, input, p, gids>>

(***************************************************************************)
(* bpe_one.  merge_rank_ maps a pair to its last place in the table.       *)
(***************************************************************************)
Places(l, r) == {k \in DOMAIN bpe.merges : bpe.merges[k] = <<l, r>>}
Rank(l, r) == CHOOSE k \in Places(l, r) : \A j \in Places(l, r) : j <= k
Ranked == {i \in 1 .. (Len(syms) - 1) : Places(syms[i], syms[i + 1]) # {}}
RankAt(i) == Rank(syms[i], syms[i + 1])

\* Mutant: the last of the pairs of the lowest rank.
LowestLast(i) ==
    i \in Ranked /\ \A j \in Ranked : RankAt(i) < RankAt(j) \/ (RankAt(i) = RankAt(j) /\ j <= i)

Lowest(i) ==
    i \in Ranked /\ \A j \in Ranked : RankAt(i) < RankAt(j) \/ (RankAt(i) = RankAt(j) /\ i <= j)

MergeRanked ==
    /\ gp = "merge"
    /\ \E i \in Ranked :
          /\ Lowest(i)
          /\ syms' = SubSeq(syms, 1, i - 1) \o <<syms[i] \o syms[i + 1]>>
                         \o SubSeq(syms, i + 2, Len(syms))
    /\ UNCHANGED <<bpe, input, p, segment, gp, gids>>

\* A piece without a token is spelled by its atoms.
PieceTokens(z) ==
    IF z \in bpe.pieces THEN << <<"piece", z>> >>
    ELSE [i \in DOMAIN z |-> IF <<z[i]>> \in bpe.pieces THEN <<"piece", <<z[i]>> >> ELSE <<"unk">>]

EmitWord ==
    /\ gp = "merge" /\ Ranked = {}
    /\ LET out == Concat([i \in DOMAIN syms |-> PieceTokens(syms[i])])
       IN  IF \E i \in DOMAIN out : out[i] = <<"unk">> /\ ~bpe.unk
           THEN gp' = "threw" /\ UNCHANGED gids
           ELSE gp' = "words" /\ gids' = gids \o out
    /\ syms' = <<>>
    /\ UNCHANGED <<bpe, input, p, segment>>

\* gpt2_decode_bytes: a character that is no atom stays.
FromAtom(c) == IF \E b \in DOMAIN Atom : Atom[b] = c THEN CHOOSE b \in DOMAIN Atom : Atom[b] = c ELSE c

\* decode_piece, of a token of this encoding.
Decoded(t) == IF t[1] = "unk" THEN <<"unk">> ELSE [i \in DOMAIN t[2] |-> FromAtom(t[2][i])]

GptReturned == gp \in {"done", "threw"} /\ UNCHANGED gptVars

GptNext ==
    \/ GptBegins \/ GptEnds \/ MatchGreedily \/ EmitSpecial \/ TakeSegment
    \/ NextWord \/ MergeRanked \/ EmitWord \/ GptReturned

GptSpec == GptInit /\ [][GptNext]_gptVars

-----------------------------------------------------------------------------
(***************************************************************************)
(* Properties.                                                             *)
(***************************************************************************)
(***************************************************************************)
(* A word merged one occurrence at a time, always the first of the lowest  *)
(* rank, ends as byte-pair encoding is defined: the table is gone through  *)
(* once, and each entry merges all its occurrences from left to right.     *)
(* (For tables as training produces them: an entry adds a token, which no  *)
(* other entry makes, and follows the entries that make its parts.)        *)
(***************************************************************************)
Trained ==
    \A k \in DOMAIN bpe.merges :
        /\ \A j \in DOMAIN bpe.merges : Concat(bpe.merges[j]) = Concat(bpe.merges[k]) => j = k
        /\ \A x \in 1 .. 2 : Len(bpe.merges[k][x]) > 1 =>
              \E j \in 1 .. (k - 1) : Concat(bpe.merges[j]) = bpe.merges[k][x]

MergeAll(w, pair) ==
    LET from[i \in 1 .. (Len(w) + 1)] ==
            IF i > Len(w) THEN <<>>
            ELSE IF i < Len(w) /\ <<w[i], w[i + 1]>> = pair
            THEN <<Concat(pair)>> \o from[i + 2]
            ELSE <<w[i]>> \o from[i + 1]
    IN  from[1]

InTableOrder(w) ==
    LET after[k \in 0 .. Len(bpe.merges)] ==
            IF k = 0 THEN w ELSE MergeAll(after[k - 1], bpe.merges[k])
    IN  after[Len(bpe.merges)]

Atoms(w) == [i \in DOMAIN Concat(w) |-> <<Concat(w)[i]>>]

MergesFollowTable ==
    gp = "merge" /\ Ranked = {} /\ Trained => syms = InTableOrder(Atoms(syms))

(***************************************************************************)
(* Special tokens stand alone: where one starts in the text, at the end of *)
(* it or right behind another one too, no ordinary token reaches it, and   *)
(* of several that start there it is the longest.                          *)
(***************************************************************************)
Width(t) == Len(Decoded(t))
Offset(i) == Len(Concat([k \in 1 .. (i - 1) |-> Decoded(gids[k])]))

SpecialsStandAlone ==
    gp \in {"scan", "done"} /\ (Complete \/ bpe.merges # <<>>) =>
        \A i \in DOMAIN gids :
            IF gids[i][1] = "special"
            THEN /\ StartsAt(input, Offset(i), gids[i][2])
                 /\ \A t \in bpe.specials : StartsAt(input, Offset(i), t) => Len(t) <= Width(gids[i])
            ELSE \A at \in Offset(i) .. (Offset(i) + Width(gids[i]) - 1), t \in bpe.specials :
                    t # <<>> => ~StartsAt(input, at, t)
=============================================================================

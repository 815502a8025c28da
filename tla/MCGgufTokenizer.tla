-------------------------- MODULE MCGgufTokenizer --------------------------
(***************************************************************************)
(* SentencePiece: texts of up to four letters, some with spaces and with a *)
(* character that only bytes can spell; every choice and scoring of six    *)
(* pieces with two scores, so that ties, chains of merges and pairs that   *)
(* overlap all occur.  Byte tokens are pieces; in one vocabulary the text  *)
(* that spells one of them is merged into it.                              *)
(*                                                                         *)
(* Byte pairs: every merge table of up to three entries over a, b, aa, ab  *)
(* and ba, trained or not, and two more vocabularies: special tokens of    *)
(* which one begins another, and one to be matched greedily.               *)
(***************************************************************************)
EXTENDS GgufTokenizer, TLC

Over(chars, n) == UNION {[1 .. k -> chars] : k \in 0 .. n}

MCHex == <<"<", "0", "x", "C", "3", ">">>
MCTexts ==
    Over({"a", "b"}, 4)
        \cup {<<" ", "a">>, <<"a", " ", " ">>, <<"a", " ", "b">>, <<"e", "a">>, <<" ", "e", "a">>,
              <<"a", "b", "a", "b", "a">>, <<"_", "a">>, MCHex, <<"e", "<", "0", "x", "C", "3">>}
MCByteStrings ==
    [c \in {"a", "b", "e", " ", "_"} \cup {MCHex[i] : i \in DOMAIN MCHex} |->
        CASE c = "_" -> <<"E2", "96", "81">>
          [] c = "e" -> <<"C3", "A9">>
          [] OTHER -> <<c>>]
MCMulti ==
    {<<"a", "a">>, <<"a", "b">>, <<"b", "a">>, <<"_", "a">>, <<"a", "b", "a">>, <<"a", "a", "b">>}
MCByteOf == (MCHex :> "C3") @@ (<<"<", "0", "x", "A", "9", ">">> :> "A9")
MCVocabularyOf(f, byteOf, unk, prefix, control) ==
    [score |-> [z \in DOMAIN f \cup {<<"a">>, <<"b">>, <<"_">>} \cup DOMAIN byteOf |->
                  IF z \in DOMAIN f THEN f[z] ELSE 0],
     byteOf |-> byteOf, unk |-> unk, prefix |-> prefix, control |-> control]
MCVocabulary(f, prefix, unk, control) ==
    MCVocabularyOf(f, IF unk THEN MCHex :> "C3" ELSE MCByteOf, unk, prefix, control)
\* The characters of MCHex, and its beginnings up to a length.
MCHexPieces(n) ==
    [z \in {<<MCHex[i]>> : i \in DOMAIN MCHex} \cup {SubSeq(MCHex, 1, k) : k \in 1 .. n} |-> Len(z)]
MCScores == UNION {[D -> {1, 2}] : D \in SUBSET MCMulti}
MCVocabularies ==
    {MCVocabulary(f, TRUE, FALSE, {}) : f \in MCScores}
        \cup {MCVocabulary(f, prefix, unk, {<<"a", "b">>}) :
                f \in {g \in MCScores : DOMAIN g = {<<"a", "b">>, <<"_", "a">>}},
                prefix \in BOOLEAN, unk \in BOOLEAN}
        \cup {MCVocabulary(MCHexPieces(n), TRUE, FALSE, {}) : n \in {1, 5}}
        \cup {MCVocabularyOf(<<>>, <<>>, FALSE, FALSE, {})}

\* Scores as a unigram model has them: logarithms of probabilities, every
\* character a piece.
MCUnigramTexts == Over({"a", "b"}, 3)
MCUnigramScores ==
    (<<"a">> :> -1) @@ (<<"b">> :> -6) @@ (<<"_">> :> -1) @@ (<<"a", "a">> :> -2) @@ (<<"a", "b">> :> -3)
MCUnigramVocabularies == {MCVocabularyOf(MCUnigramScores, <<>>, FALSE, TRUE, {})}

MCBytes == {"a", "b", "<", "1", "'", "s", " "}
MCKind ==
    [c \in MCBytes |->
        CASE c = " " -> "S" [] c = "1" -> "D" [] c \in {"<", "'"} -> "P" [] OTHER -> "L"]
MCAtom == [c \in MCBytes |-> IF c = " " THEN "G" ELSE c]
MCContractions == {<<"'", "s">>}
MCPieces == {<<"a">>, <<"b">>, <<"a", "a">>, <<"a", "b">>, <<"b", "a">>}
MCTables == {<<>>} \cup UNION {[1 .. k -> MCPieces \X MCPieces] : k \in 1 .. 3}
MCTrained(t) ==
    \A k \in DOMAIN t : \A x \in 1 .. 2 :
        Len(t[k][x]) > 1 => \E j \in 1 .. (k - 1) : t[j][1] \o t[j][2] = t[k][x]
MCBpe(merges, pieces, raws, specials, unk) ==
    [merges |-> merges, pieces |-> pieces, raws |-> raws, specials |-> specials, unk |-> unk]
MCAtoms == {<<MCAtom[c]>> : c \in MCBytes}
MCSpecials == {<<"<", "a">>, <<"<", "a", "b">>, <<"b", " ", "b">>}
MCBpes ==
    {MCBpe(t, MCAtoms \cup {<<"a", "b">>, <<"a", "a", "b">>}, {}, {}, FALSE) :
        t \in {u \in MCTables : Len(u) < 3 \/ MCTrained(u)}}
        \cup {MCBpe(<< <<<<"a">>, <<"b">>>>, <<<<"G">>, <<"a">>>> >>, z, {}, MCSpecials, unk) :
                z \in {MCAtoms, MCAtoms \ {<<"1">>}}, unk \in BOOLEAN}
        \cup {MCBpe(<<>>, {}, {<<"a">>, <<"b">>, <<"a", "b">>, <<"b", " ">>, <<"<", "a">>}, {}, unk) :
                unk \in BOOLEAN}
MCUnigramBpes == {MCBpe(<<>>, MCAtoms, {}, {}, FALSE)}
MCInputs ==
    Over({"a", "b"}, 5) \cup Over({"<", "a", "b"}, 3)
        \cup {<<"a", " ", " ", "b">>, <<" ", "a", "'", "s">>, <<"a", "'", "s", "b">>,
              <<"a", "1", "'", "a">>, <<"<", "a", "b", " ", "b">>, <<"a", "b", " ", "b", "b">>,
              <<"b", " ", "<", "a", "b">>, <<" ", "1", " ">>}
=============================================================================

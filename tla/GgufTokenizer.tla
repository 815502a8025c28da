--------------------------- MODULE GgufTokenizer ---------------------------
(***************************************************************************)
(* GgufTokenizer (src/src/llama_model.cpp): encode with the algorithm that *)
(* the file's tokenizer model asks for, and decode, its inverse.           *)
(***************************************************************************)
EXTENDS SentencePiece, Gpt2Bpe

VARIABLES
    model,          \* model_: "llama" ("replit" is treated alike) or "gpt2"
    result          \* what encode returned

tokVars == <<spVars, gptVars, model, result>>

\* The vocabulary of the other algorithm is of no account.
TokInit ==
    /\ \/ model = "llama" /\ bpe = CHOOSE b \in Bpes : TRUE
       \/ model = "gpt2" /\ voc = CHOOSE v \in Vocabularies : TRUE
    /\ SpInit /\ GptInit
    /\ result = <<>>

Body == IF model = "llama" THEN ids ELSE gids

\* add_bos && bos_ >= 0 && bos_ < tokens_.size() is any Boolean.
Encode ==
    \/ model = "llama" /\ SpNext /\ UNCHANGED <<gptVars, model, result>>
    \/ model = "gpt2" /\ GptNext /\ UNCHANGED <<spVars, model, result>>
    \/ /\ result = <<>> /\ (IF model = "llama" THEN sp ELSE gp) = "done"
       /\ \E bos \in BOOLEAN : result' = (IF bos THEN << <<"bos">> >> ELSE <<>>) \o Body
       /\ UNCHANGED <<spVars, gptVars, model>>

TokSpec == TokInit /\ [][Encode]_tokVars

-----------------------------------------------------------------------------
\* decode_piece.  (A BOS token is of type 3.)
Spelling(token) ==
    IF token[1] = "bos" THEN <<"bos">>
    ELSE IF model = "gpt2" THEN Decoded(token)
    ELSE IF token[1] = "unk" THEN <<"unk">>
    ELSE IF token[1] = "byte" THEN <<token[2]>>
    ELSE IF token[2] \in DOMAIN voc.byteOf THEN <<voc.byteOf[token[2]]>>
    ELSE IF token[2] \in voc.control THEN BytesOf(token[2])
    ELSE BytesOf([i \in DOMAIN token[2] |-> IF token[2][i] = Marker THEN Space ELSE token[2][i]])

\* Mutant: a leading space is dropped whether or not one was added.
DecodeStripping(tokens) ==
    LET all == Concat([i \in DOMAIN tokens |-> Spelling(tokens[i])])
    IN  IF model = "llama" /\ all # <<>> /\ <<all[1]>> = Bytes[Space]
        THEN Tail(all) ELSE all

Decode(tokens) ==
    LET all == Concat([i \in DOMAIN tokens |-> Spelling(tokens[i])])
    IN  IF model = "llama" /\ voc.prefix /\ all # <<>> /\ <<all[1]>> = Bytes[Space]
        THEN Tail(all) ELSE all

(***************************************************************************)
(* Decoding what was encoded (without the BOS token) gives the text back,  *)
(* byte for byte, unless the unknown token had to be used: leading and     *)
(* repeated spaces survive the prefix and its removal, characters without  *)
(* a token survive the fall-back to bytes, and no special token, word or   *)
(* merge takes a byte away (tokenizer_tests.cpp:11 checks random bytes).   *)
(* For SentencePiece the marker must have a token of its own, belong to no *)
(* control token and not occur in the text: as bytes it stays a marker, as *)
(* a token it always becomes a space.  And the characters of a <0xXX> in   *)
(* the text must not have been merged into the token of that spelling,     *)
(* which stands for one byte.  For byte pairs, tokens that were matched as *)
(* they are spelled must not use a character that stands for another byte. *)
(***************************************************************************)
Contains(str, c) == \E i \in DOMAIN str : str[i] = c

Spellable ==
    IF model = "llama"
    THEN /\ sp = "done"
         /\ <<Marker>> \in DOMAIN voc.score
         /\ ~Contains(text, Marker) /\ \A c \in voc.control : ~Contains(c, Marker)
         /\ \A i \in DOMAIN ids : ids[i][1] = "piece" => ids[i][2] \notin DOMAIN voc.byteOf
    ELSE /\ gp = "done"
         /\ \A i \in DOMAIN gids : gids[i][1] \in {"special", "raw"} =>
               \A k \in DOMAIN gids[i][2] : FromAtom(gids[i][2][k]) = gids[i][2][k]

DecodeInvertsEncode ==
    Spellable /\ ~Contains(Body, <<"unk">>) =>
        Decode(Body) = IF model = "llama" THEN BytesOf(text) ELSE input
=============================================================================

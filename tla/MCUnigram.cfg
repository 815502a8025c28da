SPECIFICATION TokSpec
CONSTANTS
    Texts <- MCUnigramTexts
    Space = " "
    Marker = "_"
    Bytes <- MCByteStrings
    Vocabularies <- MCUnigramVocabularies
    Inputs <- MCInputs
    Blank = " "
    Kind <- MCKind
    Atom <- MCAtom
    Contractions <- MCContractions
    Bpes <- MCUnigramBpes
INVARIANT BestSegmentation

SPECIFICATION TokSpec
CONSTANTS
    Texts <- MCTexts
    Space = " "
    Marker = "_"
    Bytes <- MCByteStrings
    Vocabularies <- MCVocabularies
    Inputs <- MCInputs
    Blank = " "
    Kind <- MCKind
    Atom <- MCAtom
    Contractions <- MCContractions
    Bpes <- MCBpes
INVARIANTS
    ListTilesText
    DecodeInvertsEncode
    MergesFollowTable
    SpecialsStandAlone
PROPERTY ImplementsBestMerge

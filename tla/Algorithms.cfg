SPECIFICATION Spec
CONSTANTS
    Subjects <- MCSubjects
    Alphabet <- MCAlphabet
    MaxLength <- MCMaxLength
INVARIANTS
    QueriesRoundTrip
    UnicodeEscapes
    ValidPathsStayInside
    ChunksRoundTrip
    FormsInPieces
    SearchIsExact
    WorkloadFits
    TypedIsSent
CHECK_DEADLOCK FALSE

SPECIFICATION Spec
CONSTANTS
    Subjects = {"sizes"}
    Alphabet <- MCAlphabet
    MaxLength <- MCMaxLength
INVARIANTS
    HalfCapacityIsTried
CHECK_DEADLOCK FALSE

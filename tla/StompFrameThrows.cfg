SPECIFICATION Spec
CONSTANTS
    Texts <- MCTexts
    Chars <- MCChars
    Number <- MCNumber
INVARIANTS
    ResultIsStored
CHECK_DEADLOCK FALSE

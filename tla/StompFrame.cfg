SPECIFICATION Spec
CONSTANTS
    Texts <- MCTexts
    Chars <- MCChars
    Number <- MCNumber
INVARIANTS
    ParsingIsExact
    FieldsAreTheText
    IdsAreNeverEmpty
    ThrowsForLength
CHECK_DEADLOCK FALSE

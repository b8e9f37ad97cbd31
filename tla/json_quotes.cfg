SPECIFICATION Spec
CONSTANTS
    letter = letter
    Apostrophe = apostrophe
    Quote = quote
    Backslash = backslash
    Others = {letter}
    MaxLength = 7
    MaxInputBytes = 6
    BufferSizes = {0, 5, 13}
INVARIANTS
    MeansTheSame
    PlainTextUnchanged
    NormalizedOnlyOnOk
CHECK_DEADLOCK FALSE

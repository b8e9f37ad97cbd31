\* Every typed path of up to five characters and every entry's key, read by each of
\* the five exports.  The call has returned in the end: the system stops.
SPECIFICATION Spec
CONSTANTS
    Alphabet <- MCAlphabet
    Characters <- MCCharacters
    Values <- MCValues
    Documents <- MCDocuments
    MaxPath = 5
    MaxDepth = 3
    IndexModulus = 100
    LongMax = 3
    Int64Max = 31
    UInt64Max = 63
    Scale = 32
    Doubles <- MCDoubles
INVARIANTS
    ResolvesExactly
    NumbersAreNearest
CHECK_DEADLOCK FALSE

CONSTANTS
    w1 = w1
    w2 = w2
    c1 = c1
    NoWord = NoWord
    Cursors <- MCCursors
    Words <- MCWords
    Hashes <- MCHashes
    NFilter <- MCNFilter
    HashValues <- MCHashValues

SPECIFICATION Spec
PROPERTY NoFalseNegative

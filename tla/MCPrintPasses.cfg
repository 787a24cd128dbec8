CONSTANTS
    Elems <- MCElems
    Pieces <- MCPieces
    Garbage <- MCGarbage
    Alphabet <- MCAlphabet
SPECIFICATION PrintSpec
INVARIANTS
    PrintTypeOK
    WholeText
    StringFillsBlob

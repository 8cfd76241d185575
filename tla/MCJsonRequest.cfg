SPECIFICATION Spec
CONSTANTS
  MaxStructure = 8
  MaxNumber = 6
  MaxUtf8 = 4
  MaxEscapes = 4
  MaxLiterals = 4
  Inputs <- MCInputs
  Pieces <- MCPieces
INVARIANT AcceptsExactlyJson
INVARIANT HeapSound
 
 

SPECIFICATION Spec
CONSTANTS
  Word = 8
  Sizes = {0, 1, 7}
  Texts <- MCTexts
  Blocks <- MCBlocks
  Uuids <- MCUuids
  Names <- MCNames
  Types = {"Bool", "U32", "U64", "Uuid", "Identity", "Str", "BinaryBlock"}
  MaxCalls = 2
INVARIANTS
  StandardAsConfigured
  ExtReadsBack
CHECK_DEADLOCK FALSE

\* Buffers of up to 2 bytes, a usize of 2 bits.
CONSTANTS
  Signatures <- MCSignatures
  Expected <- MCExpected
  MaxLen = 2
  MaxUsize = 3
  Vals = {0, 1}
SPECIFICATION Spec
INVARIANTS
  AccessInBounds
  WholeBufferOffered
  UpdateNeverFails
  

\* Two operation values of a TA, of every class of algorithms.
CONSTANTS
  Slots = {s1, s2}
  Cells = {c1, c2}
  Algorithms = {"Sha256", "HmacSha1", "AesXts", "AesGcm", "RsaesPkcs1V15",
                "RsassaPkcs1V15Sha256", "DhDeriveSharedSecret"}
  KeyMaterial = {k1, k2}
  Chunks = {x1, x2}
  MaxFed = 2
  Null = Null
SYMMETRY Symmetry
SPECIFICATION CryptoSpec
INVARIANTS
  OneOwner
  LeaksAreFailures
  HoldsWhatWasTold
\* A TA that panicked takes no further step.
CHECK_DEADLOCK FALSE

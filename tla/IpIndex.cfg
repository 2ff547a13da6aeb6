\* Every index of up to MaxEntries decisions on tiny address spaces.
SPECIFICATION Spec
CONSTANTS
  V4Bits = 2
  V6Bits = 3
  Tags = {t1, t2}
  MaxEntries = 3
INVARIANTS LookupIsLongestPrefix IndexIsTight

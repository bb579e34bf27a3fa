SPECIFICATION Spec
CONSTANTS
  p1 = p1
  b1 = b1
  b2 = b2
  Procs <- OneProc
  NumPages = 3
  Bufs <- TwoBufs
  BufPages <- Sizes
  MaxAllocs = 2
  MaxRegs = 2
  PartialUnmap = FALSE
INVARIANTS TypeOK TranslationIsCurrent BuffersAreTheMappings HeldForEntries

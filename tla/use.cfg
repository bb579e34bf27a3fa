SPECIFICATION UseSpec
CONSTANTS
  p1 = p1
  b1 = b1
  c1 = c1
  c2 = c2
  Procs <- OneProc
  NumPages = 2
  Bufs <- OneBuf
  BufPages <- Sizes
  MaxAllocs = 2
  MaxRegs = 1
  PartialUnmap = FALSE
  Chans <- TwoChans
  MaxFlights = 2
  Careful = TRUE
SYMMETRY Either
VIEW ExceptRc
INVARIANTS UseTypeOK TransfersMeetMemory

SPECIFICATION Spec
CONSTANTS
  Accounts = {a1}
  Conns = {c1}
  Rests = {r1}
  Sids = {s1}
  Nonces = {n1, n2, n3}
  Cmds = {}
  Target <- MCTarget
  Seqs <- MCSeqs2
  Times <- MCClock
  MaxPairings = 1
  QCap = 1
  MaxTSkew = 1
  NonceTTL = 0
  None = None
SYMMETRY MCSymmetry
INVARIANTS
  NumbersWhole
  PromisesBacked
  NoFrameReplay
PROPERTIES
  LastSeqAdvancesByOne

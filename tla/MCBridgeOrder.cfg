SPECIFICATION Spec
CONSTANTS
  Accounts = {a1}
  Conns = {c1, c2}
  Rests = {}
  Sids = {s1, s2}
  Nonces = {n1, n2}
  Cmds = {}
  Target <- MCTarget
  Seqs <- MCSeqs2
  Times <- MCNow
  MaxPairings = 1
  QCap = 1
  MaxTSkew = 3
  NonceTTL = 2
  None = None
SYMMETRY MCSymmetry
CHECK_DEADLOCK FALSE
INVARIANTS
  WSOrdered

SPECIFICATION Spec
CONSTANTS
  Accounts = {a1}
  Conns = {c1}
  Rests = {r1}
  Sids = {s1}
  Nonces = {n1, n2}
  Cmds = {}
  Target <- MCTarget
  Seqs <- MCSeqs2
  Times <- MCNow
  MaxPairings = 1
  QCap = 1
  MaxTSkew = 3
  NonceTTL = 2
  None = None
SYMMETRY MCSymmetry
INVARIANTS
  SeqIngestedOnce

SPECIFICATION PortfolioSpec
CONSTANTS
  Workers = {t1, t2, t3}
  Txns = {x, y, z}
  NoTxn = NoTxn
  NoFile = NoFile
INVARIANTS KeptInOrder AloneIsKept SafeOnceRegistered
SYMMETRY WorkerSymmetry
CHECK_DEADLOCK FALSE

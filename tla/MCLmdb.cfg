SPECIFICATION CrowdedSpec
CONSTANTS
  Readers = {r1, r2}
  First = r1
  MaxPg = 6
  MaxTxn = 5
INVARIANTS SnapshotIntact RecoversWhole NoPageLost LmdbInv
CHECK_DEADLOCK FALSE

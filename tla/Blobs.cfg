SPECIFICATION BlobSpec
CONSTANTS
  Clients = {c1, c2}
  Versions = {v1, v2}
  Refused = {v2}
  Parts = 3
  None = None
  MaxBlobFaults = 1
INVARIANTS StageInOrder ServedMatchesHash AckedIsStored
 
CHECK_DEADLOCK FALSE

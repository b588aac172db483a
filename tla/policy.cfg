SPECIFICATION FairPolicySpec
CONSTANTS
  Keys = {k1, k2}
  Folders = {f1, f2}
  Requests = {r1, r2}
  Values <- MCValues
  MaxFaults = 2
  None = None
INVARIANTS RunningServerSealedAll AcceptedIsSealed
PROPERTIES SealIsFinal ServerComesUp

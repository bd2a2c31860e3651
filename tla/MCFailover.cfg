CONSTANTS
  a = a
  b = b
  c = c
  Missing = Missing
  Peers <- PeersMC
  Late = {a}
  MaxFaults = 1
  MaxLag = 1
  MaxQueue = 2
SPECIFICATION FairSpec
  
PROPERTY DeadFrontReplaced

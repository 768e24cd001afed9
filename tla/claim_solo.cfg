\* Serial invocations of one session directory, with crashes anywhere.
CONSTANTS
  w1 = w1
  w2 = w2
  w3 = w3
  r1 = r1
  Workers <- MCPair
  Readers <- MCReader
  Overwriters <- MCNone
  RunOutcomes <- MCOutcomes
  SettledOutcomes <- MCSettled
  Existing <- MCAnyFile
  Solo = TRUE
  MaxFaults = 3
SPECIFICATION FairSpec
INVARIANT TypeOK
PROPERTY ImplementsSlot
PROPERTY EventuallySettled

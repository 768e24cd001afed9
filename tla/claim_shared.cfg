\* Three invocations at once, one of them overwriting.
CONSTANTS
  w1 = w1
  w2 = w2
  w3 = w3
  r1 = r1
  Workers <- MCTrio
  Readers <- MCNone
  Overwriters <- MCOne
  RunOutcomes <- MCOutcomes
  SettledOutcomes <- MCSettled
  Existing <- MCWholeFile
  Solo = FALSE
  MaxFaults = 1
SPECIFICATION Spec
INVARIANTS FreshNeverReruns NoSessionLost
SYMMETRY MCSymmetry

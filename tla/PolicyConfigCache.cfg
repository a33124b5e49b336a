SPECIFICATION Spec
CONSTANTS
  c1 = c1
  c2 = c2
  k1 = k1
  k2 = k2
  l1 = l1
  l2 = l2
  l3 = l3
  small = small
  large = large
  huge = huge
  Undefined = Undefined
  NoEntry = NoEntry
  NoLoad = NoLoad
  Callers = {c1, c2}
  Keys = {k1, k2}
  Loads = {l1, l2, l3}
  Policies = {large, huge}
  EntrySize <- MCEntrySize
  TTL = 1
  MaxSize = 3
  MaxRetries = 1
  Edited = {}
  MaxTime = 1
SYMMETRY Symmetry
INVARIANTS TypeOK MapAndListAgree LoadsOnlyWhatIsMissing SingleFlight WaitersKeepTheirLoad SizeIsAccounted LeastRecentlyUsedFirst

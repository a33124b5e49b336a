SPECIFICATION FairSpec
CONSTANTS
  c1 = c1
  c2 = c2
  k1 = k1
  k2 = k2
  l1 = l1
  l2 = l2
  l3 = l3
  small = small
  large = large
  huge = huge
  Undefined = Undefined
  NoEntry = NoEntry
  NoLoad = NoLoad
  Callers = {c1, c2}
  Keys = {k1}
  Loads = {l1, l2}
  Policies = {large}
  EntrySize <- MCEntrySize
  TTL = 1
  MaxSize = 3
  MaxRetries = 1
  Edited = {k1}
  MaxTime = 3
PROPERTIES HitsAreRecent EveryLookupReturns

SPECIFICATION BoardSpec
CONSTANTS
  Models = {a, b, old}
  Legacy = {old}
  Curated = {a}
  OffByDefault = {}
  Sweeps = {s1, s2}
  UPSERT_CHUNK = 1
  DROP_CHUNK = 1
  MaxChanges = 1
  MaxSwitches = 1
  MaxFaults = 1
INVARIANTS BoardTypeOK OffIsExplained CacheNeverBlank
PROPERTIES ListingSettles QuietRefreshIsExact BoardHeals

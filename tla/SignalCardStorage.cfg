CONSTANTS
  Patterns = {steady, flashing}
  Steady = steady
  SeqMod = 4
  MaxChanges = 3
  MaxFaults = 2
SPECIFICATION FairSpec
INVARIANT SavedIsStored
PROPERTIES PatternChangesAtOnce CommandIsStored

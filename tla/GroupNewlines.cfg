SPECIFICATION Spec
CONSTANTS
  IntLimit = 16
  None = None
  Characters <- MCCharacters
  Subs <- MCSubs
  Offsets <- MCOffsets
  Families <- GroupFamilies
  Fragments <- GroupFragments
  Bound <- GroupBound
INVARIANT NewlinesInGroupsIgnored
CHECK_DEADLOCK FALSE

SPECIFICATION FairSpec
CONSTANTS
  WeightLists <- MCLists
  Configs <- MCConfigs
  Versions = {1}
  NoVersion = 0
  GatherMayFail = TRUE
  LoadMayFail = TRUE
INVARIANTS LoadsPrefix DoneMeansLoaded
PROPERTIES AlwaysSettles

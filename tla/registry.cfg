SPECIFICATION FairSpec
CONSTANTS
  NumChargers = 3
  Versions <- MCVersions
  States = {"DISCONNECTED", "CONNECTED"}
  Jobs = {j1}
  MaxCount = 2
  Templates <- MCTemplates
  Distributions <- MCDistributions
  Filters <- MCFilters
  Limits = {1, 2}
  NoEntry = NoEntry
INVARIANTS
  TypeOK
  CompletedJobCreated
  ListingComplete
  ListingOnce
PROPERTIES
  VersionShares
  JobsComplete

CONSTANTS
  MaxVersion = 2
  MaxMounts = 2
SPECIFICATION FairSpec
INVARIANTS OnePollChain
PROPERTIES ViewNeverGoesBack UnmountIsQuiet ViewCatchesUp
\* The page is closed.
CHECK_DEADLOCK FALSE

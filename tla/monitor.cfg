SPECIFICATION FairSpec
CONSTANTS
  Monitor = {m1, m2}
  Cron = {m1}
  Sd = {1, 2}
  MaxCrash = 1
  MaxStop = 1
INVARIANT TypeOK
INVARIANT RememberedIsOpen
PROPERTY WantedStopStays
PROPERTY ServerRestarts
PROPERTY ServerIsWatched
PROPERTY OneStays

SPECIFICATION FairSpec
INVARIANTS UndisturbedIntact BootBannerShown DeafOnlyIfEarly TrapsOnlyWhenOpened
PROPERTIES BusyEnds

SPECIFICATION FairSpec
CONSTANTS
    MaxLinks = 2
    MaxEntries = 3
    MaxPings = 3
    CommandQueue = 2
    RttRing = 2
INVARIANTS TypeOK IInv ReclaimReturnsThisEntrysWriter ParkedLinkHasNoWriter RingNeverMixesLinks
PROPERTIES CommandReachesItsEntry SameLinkKeepsRing ReclaimAnswered

\* Any number of stops, lost links and restarts.
SPECIFICATION FairSpec
INVARIANTS
    StartupInv
    ServesWhatItNeeds
PROPERTIES
    ServesInTheEnd
    LaterStartsChangeNothing

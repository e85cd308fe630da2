SPECIFICATION FairModeSpec
CHECK_DEADLOCK FALSE
INVARIANTS
    DoneReleasesAll
    SamePath
PROPERTIES
    ConsumerDecides
    ForwardEnds

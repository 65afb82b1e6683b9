CONSTANTS
    Ann = Ann
    Ben = Ben
    Cat = Cat
    None = None
    MaxSkip = 1
    Clients <- Room
    Initiators <- Starting
    Target <- Chosen
    MaxEnds = 1
    MaxTexts <- TextBound
SPECIFICATION ChatSpec
INVARIANTS
    FailsOnlyBecause
    KeysUnique
PROPERTIES
    SealedOnceHeard
CHECK_DEADLOCK FALSE

CONSTANTS
    r1 = r1
    r2 = r2
    ann = ann
    ben = ben
    cat = cat
    dan = dan
    Room <- Rooms
    Sender <- Senders
    Recipient <- Recipients
    Cap = 2
    MaxAge = 0
    MaxSeq = 2
    MaxArrived = 3
    MaxRestarts = 1
    Copied = {2}
    Horizon = 1
SPECIFICATION Spec
INVARIANTS
    ListWithinCap
    ListKeepsNewest
    TableKeepsNewest
    PassedOverByOthers
    AdaptersAgree
SYMMETRY BacklogSymmetry

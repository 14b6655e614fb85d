CONSTANTS
    Id = {n1, n2, self}
    Self = self
    Bin <- MCBins
    BinOf <- MCBinOf
    BucketSize = 2
    Addr = {a1}
    ReqTimeout = 0
    MaxInc = 2
    MaxEvictions = 1
    MaxNeighbours = 1
SYMMETRY Symmetry
SPECIFICATION Spec
INVARIANTS
    BucketsSound
    BucketsProven
    BucketsAnnounced
    SingleCheckChain
PROPERTY OnlyLateChallengersDropped

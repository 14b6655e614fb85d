CONSTANTS
    Db = {a, b}
    Hash = {h1, h2}
    MaxRefs = 2
    Overlay = {"a", "b"}
    Trie = {"t1", "t2"}
    TrieKey = {"k"}
    Uuid = {"u1", "u2"}
    Pass = {"p1", "p2"}
    Other = {"file"}
    Macs = {TRUE}
    Odd = {}
    MaxFaults = 1
    Others = {"a"}
    Self = "s"
    Endpoints <- MCEndpoints
    Public = {"public"}
    V4 = {"public", "private"}
    Reasons = {"BadProtocol"}
    Ratings <- MCRatings
    Bound = 1
    MaxFailed = 1
    Modulus = 4
    MaxDays = 5
    Start = 3
    MaxKeys = 2
    Absent = Absent
    Broken = Broken
    OddJSON = OddJSON
SYMMETRY Symmetry
SPECIFICATION MCSpec
INVARIANTS ReferencedFound SavedOnDisk KeysKnown OneLostPerFault SecretsKept
PROPERTY RestoredIsSaved

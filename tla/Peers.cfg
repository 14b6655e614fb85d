SPECIFICATION FairSpec
CONSTANTS
    Node = {m, n}
    Ideal = 1
    Prefs <- MCPrefs
    Requirable = {n}
    None = None
INVARIANT SessionsSound
PROPERTY RequiredRetried

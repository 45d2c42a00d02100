SPECIFICATION FairSpec
CONSTANTS
    s1 = s1
    s2 = s2
    v1 = v1
    v2 = v2
    vBad = vBad
    Secrets = {s1, s2}
    Versions = {v1, v2}
    Valid = {v1, v2}
    KeyOf <- MCKeyOf
    NoPart = NoPart
    Inodes = {i1, i2}
    Conds = {"ok", "io_error"}
    Volatile = {"ok", "io_error"}
    Dirs = {"systemd"}
    Names = {"k"}
    NulNames = {}
    Env <- MCEnv
    Key <- MCKey
    NoSecret = NoSecret
    NoFile = NoFile
    NoOutcome = NoOutcome
PROPERTY CorruptMeansUnparsable

SPECIFICATION Spec
CONSTANTS
    s1 = s1
    s2 = s2
    v1 = v1
    v2 = v2
    vBad = vBad
    Secrets = {s1, s2}
    Versions = {v1, v2, vBad}
    Valid = {v1, v2}
    KeyOf <- MCKeyOf
    NoPart = NoPart
    Inodes = {i1, i2}
    Conds = {"ok", "no_file", "not_a_dir", "no_read", "io_error"}
    Volatile = {"ok", "no_file", "no_read", "io_error"}
    Dirs = {"systemd"}
    Names = {"k"}
    NulNames = {}
    BackslashNames = {}
    Env <- MCEnv
    Key <- MCKey
    NoSecret = NoSecret
    NoFile = NoFile
    NoOutcome = NoOutcome
INVARIANTS TypeOK Inv
PROPERTY KeepsContract
SYMMETRY MCSymmetry

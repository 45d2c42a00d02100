SPECIFICATION ParitySpec
CONSTANTS
    sSystemd = sSystemd
    sOverride = sOverride
    sEtc = sEtc
    sCwd = sCwd
    Secrets = {sSystemd, sOverride, sEtc, sCwd}
    Versions = {v}
    Valid = {v}
    KeyOf <- MCKeyOf
    NoPart = NoPart
    Inodes = {i}
    Conds = {"ok"}
    Volatile = {}
    Dirs = {"systemd", "override", "etc", "cwd"}
    Names = {"k", "nul", "back"}
    NulNames = {"nul"}
    BackslashNames = {"back"}
    Keys <- MCKeys
    SecretIn <- MCSecretIn
    NoAnswer = NoAnswer
INVARIANTS ParityTypeOK StaysInside NoOtherDirectory StoresAgree
CHECK_DEADLOCK FALSE

SPECIFICATION Spec
CONSTANTS
    r = r
    n1 = n1
    n2 = n2
    n3 = n3
    v1 = v1
    v2 = v2
    v3 = v3
    vBad = vBad
    s1 = s1
    s2 = s2
    w1 = w1
    w2 = w2
    w3 = w3
    w4 = w4
    Nodes <- MCNodes
    Root = r
    Titles <- MCTitles
    NoTitle = NoTitle
    Pieces <- MCPieces
    Trim <- MCTrim
    Fold <- MCLower
    RootNames = {"root", "Root", "ROOT"}
    Secrets = {s1, s2}
    Versions <- MCVersions
    Valid = {v1, v2, v3}
    KeyOf <- MCKeyOf
    Calls <- MCCalls
    TreeOf <- MCTreeOf
    FieldsOf <- MCFieldsOf
    Lower <- MCLowerField
    Texts = {w1, w2, w3, w4}
    None = None
    Disks <- MCDisks
    NoSecret = NoSecret
    NoDatabase = NoDatabase
    NoEntry = NoEntry
    Running = Running
    NotRun = NotRun
INVARIANTS TypeOK OfOneInstant
PROPERTY KeepsContract

SPECIFICATION TaskFairSpec
CONSTANTS
    r = r
    n1 = n1
    n2 = n2
    n3 = n3
    v1 = v1
    v2 = v2
    v3 = v3
    s1 = s1
    s2 = s2
    w1 = w1
    w2 = w2
    w2newline = w2newline
    empty = empty
    Nodes <- MCNodes
    Root = r
    Titles <- MCTitles
    NoTitle = NoTitle
    Pieces <- MCPieces
    Trim <- MCTrim
    Fold <- MCLower
    RootNames = {"root", "Root", "ROOT"}
    Secrets = {s1, s2}
    Versions <- MCVersions
    Valid <- MCVersions
    KeyOf <- MCKeyOf
    TreeOf <- MCTreeOf
    FieldsOf <- MCFieldsOf
    Lower <- MCLowerField
    Calls <- MCCalls
    Texts = {w1, w2, w2newline, empty}
    None = None
    NoSecret = NoSecret
    Running = Running
    NotRun = NotRun
    Captured <- MCCaptured
    Disks <- MCDisks
    Passwords = {w1, w2}
    Down = Down
    NoCredential = NoCredential
    Unset = Unset
    EmptyText = empty
    Killed = Killed
INVARIANTS TaskTypeOK TaskInv ConnectsWithTheEntry
PROPERTY TaskRecovers

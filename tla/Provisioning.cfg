SPECIFICATION Spec
CONSTANTS
    Words = {p1, p2}
    Empty = Empty
    Zeros = Zeros
    MaxNewlines = 2
    Absent = Absent
    NotText = NotText
    Failed = Failed
    Replaced = Replaced
    SecretNotFound = SecretNotFound
    PermissionDenied = PermissionDenied
    NoFile = NoFile
    NoPassword = NoPassword
    NoExit = NoExit
INVARIANTS TypeOK Inv ReadersGetThePassword PlaintextIsGone

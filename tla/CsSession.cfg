SPECIFICATION SessionFairSpec
CONSTANTS
    Handles = {h1, h2}
    Entries = {e1, e2}
    Fields = {"Password", "Notes"}
    Copied = {"Password"}
    NoHandle = NoHandle
INVARIANTS SessionTypeOK SessionInv ArraysCleared
PROPERTIES EntryIsItsOwn MemoryForgets

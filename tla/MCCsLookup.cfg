SPECIFICATION Spec
CONSTANTS
    r = r
    n1 = n1
    n2 = n2
    n3 = n3
    Nodes <- MCNodes
    Root = r
    Titles <- MCTitles
    NoTitle = NoTitle
    Databases <- MCDatabases
    Paths <- MCPaths
    Pieces <- MCPieces
    Trim <- MCTrim
    Fold <- MCUpper
    Lower <- MCLower
    RootNames = {"root", "Root", "ROOT"}
    NoNode = NoNode
    NoOutcome = NoOutcome
INVARIANTS Inv AnswerIsNamed
PROPERTY LibrariesAgree

\* A load of a key file of two inodes, with up to two edits. It ends, so that
\* deadlock is not checked.
SPECIFICATION Spec
CONSTANTS
    i = i
    j = j
    Inodes = {i, j}
    Disks <- MCDisks
    NoInode = NoInode
    NoDocument = NoDocument
    NoOption = NoOption
    Unreadable = Unreadable
    Piped = Piped
    NoVariable = NoVariable
    NotUnicode = NotUnicode
    NoPassword = NoPassword
    NotEd25519 <- NoKey
    Documents <- MCDocuments
    Options <- MCOptions
    Environments <- MCEnvironments
    Typed <- MCTyped
    MaxKeyBytes = 1
    MaxPassword = 3
    MaxEdits = 2
CHECK_DEADLOCK FALSE
INVARIANTS
    TypeOK
    FirstSource
    KeyWasPrivate
    NoDowngrade
    LoadExact
PROPERTIES
    LoadSettles

SPECIFICATION Spec
CONSTANTS
    FolderNames = {a, b}
    FolderRequests <- UpTo3
    FolderBodies <- AllFolderBodies
    OnDeletes <- BothActions
    Root = root
    FileNames = {x, y}
    FileRequests <- UpTo4
    FileBodies <- AllFileBodies
    Transports <- BothTransports
    FolderIds <- SomeIds
    None = none
    Faults = TRUE
    Loads <- SomeLoads
    a = a
    b = b
    x = x
    y = y
    root = root
    none = none
INVARIANTS
    PathReached
    DuplicatesOverlap
    BreadcrumbsWhole
    FileKept
    RendersOwn

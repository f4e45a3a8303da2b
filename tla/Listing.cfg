SPECIFICATION Spec
CONSTANTS
    root = root
    dir = dir
    odd = odd
    x = x
    xBlank = xBlank
    link = link
    dot = dot
    Dirs = {root, dir, odd}
    Root = root
    Names = {x, xBlank, link, dot}
    Hidden = {dot}
    Dangling = {link}
    Trim <- MCTrim
    Lists <- MCLists
    Disks <- MCDisks
    Times = {0, 1}
    Absent = Absent
    Empty = Empty
    LsMayFail = TRUE
    MaxTime = 3
    MaxChanges = 2
INVARIANTS TypeOK RememberedEntriesAreRight
PROPERTY ReadingSeesDirectory

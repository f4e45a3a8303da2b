CONSTANTS
    Char <- MCChar
    Texts <- MCTexts
    OutPaths <- MCOutPaths
    Programs <- MCPrograms
    PipeSize = 4
    ReadSize = 2
    Closed = Closed
    Absent = Absent
SPECIFICATION FairSpec
INVARIANTS TypeOK OutputIsKept OnlyTheFileIsWritten
PROPERTY Returns

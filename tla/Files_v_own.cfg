\* Two descriptors of one process, and of parent and child.
CONSTANTS
    FileProcs = {1, 2}
    Paths = {"f", "g"}
    FileSize <- MCFileSize
    SectorBytes = 1
    LastFileFd = 4
    NInodes = 2
SPECIFICATION FilesSpec
CHECK_DEADLOCK FALSE
INVARIANT ReadsOwnFile

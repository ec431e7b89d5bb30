\* The power goes between the write of the directory and of the superblock.
CONSTANTS
    Names = {"f", "g"}
    Data = {7, 8}
    MaxFiles = 2
    MaxLen = 2
    LastSector = 6
    CrashAt = {"createSuper"}
    FailAt = {}
SPECIFICATION Spec
INVARIANT FilesDisjoint

\* The power goes while data is written or between calls; a data write fails.
CONSTANTS
    Names = {"f", "g"}
    Data = {7, 8}
    MaxFiles = 2
    MaxLen = 2
    LastSector = 6
    CrashAt = {"formatSuper", "formatDir", "idle", "data", "createDir", "deleteDir"}
    FailAt = {"formatSuper", "formatDir", "data"}
SPECIFICATION Spec
INVARIANTS TypeOK NextSectorFree FilesDisjoint MemoryIsDisk
PROPERTY IsFileStore

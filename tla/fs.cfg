SPECIFICATION Spec
CONSTANTS
  Tasks = {t1, t2}
  Slots = {s1, s2, s3}
  NrInodes = 2
  NrZones = 1
  NrEntries = 2
  Names = {n1, n2}
  Ops = {"open", "O_CREAT", "O_TRUNC", "mknod", "mkdir", "link", "unlink", "rmdir", "close", "read", "write", "sync"}
  Races = {}
  NULL = NULL
SYMMETRY Symmetry
VIEW UpToDisk
CONSTRAINT NoneHalfFreed
INVARIANTS OneInodePerNumber LinksExact BitmapsExact NoPanic
CHECK_DEADLOCK FALSE

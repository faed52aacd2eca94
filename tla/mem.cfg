SPECIFICATION Spec
CONSTANTS
  Tasks = {t1, t2, t3}
  First = t1
  NrPages = 10
  Sizes = {8, 10}
  NrDirs = 2
  Entries = {1}
  Text <- TextAddrs
  Stack <- StackAddr
  Executables = {e1, e2}
  Values = {1}
  Zero = 0
INVARIANTS CountsAreReferences WritableIsPrivate DataIsPrivate
CHECK_DEADLOCK FALSE
CONSTRAINT Explored
SYMMETRY Symmetry
VIEW UpToPages

SPECIFICATION Spec
CONSTANTS
  Tasks = {t1, t2}
  Devs = {v1, v2, v3}
  Floppies = {v1, v2, v3}
  Dirs = {2, 3}
  Supers = {s1, s2}
  NULL = NULL
SYMMETRY Symmetry
CONSTRAINT NotRaced
INVARIANTS CountsExact MountSafe

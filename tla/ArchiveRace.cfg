CONSTANTS
  Engines = {e1, e2}
  Archives = {"doom"}
  Platforms = {"posix"}
  Dirs = {"d1", "d2", "d3", "d4"}
  Cap = 1
  MaxMounts <- Mounts
  MaxCrashes = 0
SPECIFICATION Spec
INVARIANT LeaseKeepsEntry

\* One archive, on either platform.  A directory is at the path, in the trash,
\* or kept open by an engine.
CONSTANTS
  Engines = {e1, e2}
  Archives = {"doom"}
  Platforms = {"posix", "win32"}
  Dirs = {"d1", "d2", "d3", "d4"}
  Cap = 1
  MaxMounts <- Mounts
  MaxCrashes = 1
SPECIFICATION FairSpec
INVARIANTS WindowsKeepsEntry CapNearlyHolds
PROPERTY UnusedEntriesGo

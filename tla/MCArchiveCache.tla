--------------------------- MODULE MCArchiveCache ---------------------------
(***************************************************************************)
(* Two engines on one store.  A mount may begin twice, on Windows three    *)
(* times: both engines after one that died.                                *)
(***************************************************************************)
EXTENDS ArchiveCache

Mounts == [p \in Platforms |-> IF p = "win32" THEN 3 ELSE 2]
=============================================================================

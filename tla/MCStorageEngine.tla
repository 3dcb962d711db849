--------------------------- MODULE MCStorageEngine ---------------------------
(***************************************************************************)
(* StorageEngine for TLC.  Nothing is symmetric here: the runs check       *)
(* refinement and liveness too.                                            *)
(***************************************************************************)
EXTENDS StorageEngine
=============================================================================

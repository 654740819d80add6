---------------------------- MODULE MCDiskCache ----------------------------
(* Instances of DiskCache for TLC.                                         *)
EXTENDS DiskCache
=============================================================================

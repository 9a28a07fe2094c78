------------------------------ MODULE MCDiskFS ------------------------------
(* Small disks for TLC. *)
EXTENDS DiskFS
=============================================================================

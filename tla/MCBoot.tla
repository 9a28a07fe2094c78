------------------------------- MODULE MCBoot -------------------------------
(* A small machine for TLC: a table of three sectors and files of one sector. *)
EXTENDS Boot

MCNames == {"passwd", "installed", "README", "homepath"} \cup Apps
MCVals  == {"default", "flag", "text", "elf"} \cup Accounts
=============================================================================

------------------------------ MODULE MC_CDROM ------------------------------
(* The CD-ROM controller with two sector buffers instead of eight.        *)
EXTENDS CDROM
=============================================================================

------------------------ MODULE MC_CDROMAsyncReader ------------------------
(***************************************************************************)
(* Model checking of the asynchronous CD-ROM reader.  The configurations   *)
(* differ in the liberties the emulation thread takes (Interrupts, Reboot) *)
(* and in the sectors it asks for.                                         *)
(***************************************************************************)
EXTENDS CDROMAsyncReaderInv
=============================================================================

---------------------------- MODULE MC_GPUBackend ----------------------------
(***************************************************************************)
(* Model checking of the GPU command queue.  The ring holds a few commands *)
(* instead of 4 MiB; sizes keep the alignment and the header of the code.  *)
(***************************************************************************)
EXTENDS GPUBackend
=============================================================================

-------------------------- MODULE MC_MemMappedFlash --------------------------
(* An 8-bit word and a flash of 192 bytes: sizes near 2^8 wrap.            *)
EXTENDS MemMappedFlash
=============================================================================

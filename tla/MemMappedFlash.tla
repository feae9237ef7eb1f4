---------------------------- MODULE MemMappedFlash ----------------------------
(***************************************************************************)
(* mem_mapped_flash_read of src/drivers/flash/memmapped.c: a flash read   *)
(* is a pointer into the memory-mapped window, handed out after a bounds  *)
(* check made in uint32_t arithmetic.  The width of uint32_t is scaled     *)
(* down to Width bits; the check is the code's, wrap-around included.      *)
(***************************************************************************)
EXTENDS Naturals

CONSTANTS
  Width,     \* bits of uint32_t, scaled down
  FlashSize, \* flash->size
  NULL

Word == 0..(2^Width - 1)

\* uint32_t addition.
Add32(a, b) == (a + b) % 2^Width

VARIABLES
  req,    \* the last read request: [offset, size]
  result  \* what it returned: an offset into the window, or NULL

vars == <<req, result>>

\* The bounds check and the returned pointer base + offset.
MemMappedFlashRead(offset, size) ==
  IF offset > FlashSize \/ Add32(offset, size) > FlashSize THEN NULL ELSE offset

Init ==
  /\ req = [offset |-> 0, size |-> 0]
  /\ result = NULL

Read ==
  \E offset, size \in Word :
    /\ req' = [offset |-> offset, size |-> size]
    /\ result' = MemMappedFlashRead(offset, size)

Next == Read

Spec == Init /\ [][Next]_vars

(* A read that mem_mapped_flash_read grants lies wholly inside the flash:  *)
(* the caller may touch size bytes from the returned pointer.              *)
ReadWithinFlash ==
  result # NULL => req.offset + req.size <= FlashSize

=============================================================================

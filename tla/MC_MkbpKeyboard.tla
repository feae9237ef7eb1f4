--------------------------- MODULE MC_MkbpKeyboard ---------------------------
(* A 3 x 2 matrix scanned in bytes of 4 keys: byte 0 is column 0 ('a',   *)
(* Ctrl, the down arrow) and row 0 of column 1 ('b'); byte 1 is Shift and *)
(* 'c'.  A FIFO of 3 entries makes a scan stop inside byte 0 when all its *)
(* keys are down, and 'a', Ctrl and 'b' form a ghosting rectangle.         *)
EXTENDS MkbpKeyboard

MCScancodes == (0 :> 30) @@ (1 :> 29) @@ (2 :> 108) @@ (3 :> 48)
            @@ (4 :> 42) @@ (5 :> 46)

Lower == (30 :> 97) @@ (48 :> 98) @@ (46 :> 99) @@ (32 :> 100)
Upper == (30 :> 65) @@ (48 :> 66) @@ (46 :> 67) @@ (32 :> 68)

MCLayout == [m \in {"nomod", "alt"} |-> Lower] @@ [m \in {"shift", "shift_alt"} |-> Upper]

\* KEY_DOWN
MCArrowKeys == 108 :> 258
=============================================================================

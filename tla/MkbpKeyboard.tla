---------------------------- MODULE MkbpKeyboard ----------------------------
(***************************************************************************)
(* The MKBP keyboard driver of src/drivers/keyboard/mkbp/keyboard.c.      *)
(*                                                                         *)
(* The EC reports the key matrix as a bitmap, ByteBits keys per byte, key  *)
(* pos at row pos % Rows and column pos \div Rows.  read_scancodes diffs   *)
(* the scan against last_scan byte by byte to tell new presses from held  *)
(* keys, stops after max_codes keys, throws away a scan that may be        *)
(* ghosted, and hands the codes of the keys it saw to more_keys, which     *)
(* maps them through the layout chosen by the modifiers and fills the key *)
(* FIFO.  mkbp_keyboard_have_char refills the FIFO once it is drained and  *)
(* mkbp_keyboard_get_char pops it.                                         *)
(*                                                                         *)
(* The user presses and releases keys; whether the EC asserts its          *)
(* interrupt and whether the matrix scan succeeds are free choices.  A    *)
(* set is a bitmap; a byte of the bitmap is the set of its positions.      *)
(***************************************************************************)
EXTENDS Integers, Sequences, SequencesExt, FiniteSets

CONSTANTS
  Rows, Cols,      \* mkbp_keymatrix.rows / .cols
  ByteBits,        \* keys per byte of the scan bitmap (8), scaled down
  KeyFifoSize,     \* entries of key_fifo, also the max_codes of a scan
  Scancodes,       \* position -> mkbp_keymatrix.scancodes[row][col]
  MkbpLayoutSize,  \* codes the layout maps
  Layout,          \* map -> code -> ascii: mkbp_keyboard_layout
  ArrowKeys,       \* code -> KEY_DOWN / KEY_RIGHT / KEY_UP / KEY_LEFT
  MaxDown          \* bound on keys held down at once

Positions == 0..(Rows * Cols - 1)
Row(p) == p % Rows
Col(p) == p \div Rows
ByteOf(b) == {p \in Positions : p \div ByteBits = b}

\* uint8_t keys[].code = 0xffff, the marker for a key already pressed.
HeldCode == 65535 % 256

CtrlCodes == {29, 97}     \* 0x1d, 0x61
AltCodes == {56, 100}     \* 0x38, 0x64
ShiftCodes == {42, 54}    \* 0x2a, 0x36
ModifierCodes == CtrlCodes \cup AltCodes \cup ShiftCodes

VARIABLES
  matrix,      \* keys the user holds down
  last_scan,   \* keyboard->last_scan
  key_fifo,    \* key_fifo[0 .. fifo_size - 1]
  fifo_offset, \* keyboard->fifo_offset
  fresh,       \* keys pressed and not yet seen by a scan that was kept
  batch        \* what the last refill did: new presses it saw, keys it added

vars == <<matrix, last_scan, key_fifo, fifo_offset, fresh, batch>>

NoBatch == [newSeen |-> {}, added |-> 0]

-----------------------------------------------------------------------------
(* read_scancodes.                                                         *)

\* The byte loop: byte b updates last_scan, contributes its pressed keys in
\* position order, and the walk stops once max_codes keys were taken.
RECURSIVE Walk(_, _, _, _)
Walk(scan, max, b, acc) ==
  IF b * ByteBits >= Rows * Cols THEN acc
  ELSE LET inByte == SetToSortSeq(scan \cap ByteOf(b), <)
           room   == max - Len(acc.keys)
           taken  == SubSeq(inByte, 1, IF room < Len(inByte) THEN room ELSE Len(inByte))
           next   == [keys |-> acc.keys \o taken,
                      last |-> (acc.last \ ByteOf(b)) \cup (scan \cap ByteOf(b))]
       IN IF Len(next.keys) = max THEN next ELSE Walk(scan, max, b + 1, next)

\* Key i and some other key share a row, and some other key shares its
\* column: the scan may be ghosted.
Ghosted(keys) ==
  \E i \in 1..Len(keys) :
    /\ \E j \in 1..Len(keys) : j # i /\ Row(keys[j]) = Row(keys[i])
    /\ \E j \in 1..Len(keys) : j # i /\ Col(keys[j]) = Col(keys[i])

\* Mutant: keys already pressed are not marked.
KeyCode_NoHeldCheck(p, last) == Scancodes[p]

\* keys[].code: the scancode, or the held marker if the key was down in
\* last_scan's byte.
KeyCode(p, last) == IF p \in last THEN HeldCode ELSE Scancodes[p]

\* The outcome of a successful matrix scan: the keys it looked at, the new
\* last_scan, the codes it returns (count = total, or 0 if ghosted), and
\* the modifiers.  A held key's code is the truncated 0xffff, which the
\* `!= 0xffff' test on a uint8_t never filters.
ReadScancodes(scan, last, max) ==
  LET w == Walk(scan, max, 0, [keys |-> <<>>, last |-> last])
      raw == {Scancodes[w.keys[i]] : i \in 1..Len(w.keys)}
  IN [keys  |-> w.keys,
      last  |-> w.last,
      codes |-> IF Ghosted(w.keys) THEN <<>> ELSE [i \in 1..Len(w.keys) |-> KeyCode(w.keys[i], last)],
      mods  |-> {m \in {"ctrl", "alt", "shift"} :
                   \/ m = "ctrl" /\ raw \cap CtrlCodes # {}
                   \/ m = "alt" /\ raw \cap AltCodes # {}
                   \/ m = "shift" /\ raw \cap ShiftCodes # {}},
      ghost |-> Ghosted(w.keys)]

-----------------------------------------------------------------------------
(* more_keys.                                                              *)

\* add_key: nothing happens when the FIFO is full.
AddKey(f, k) == IF Len(f) = KeyFifoSize THEN f ELSE Append(f, k)

LayoutFor(mods) ==
  IF "alt" \in mods THEN IF "shift" \in mods THEN "shift_alt" ELSE "alt"
  ELSE IF "shift" \in mods THEN "shift" ELSE "nomod"

IsLetter(a) == (a >= 97 /\ a <= 122) \/ (a >= 65 /\ a <= 90)

\* One scancode: the arrow key it may be, then its ASCII value unless it is
\* a modifier or beyond the layout; Ctrl turns a letter into a control code.
AddCode(mods, f, code) ==
  LET f1 == IF code \in DOMAIN ArrowKeys THEN AddKey(f, ArrowKeys[code]) ELSE f
      ascii == Layout[LayoutFor(mods)][code]
  IN IF code \in ModifierCodes \/ code >= MkbpLayoutSize THEN f1
     ELSE AddKey(f1, IF "ctrl" \in mods /\ IsLetter(ascii) THEN ascii % 32 ELSE ascii)

FillFifo(r) == FoldLeft(LAMBDA f, c : AddCode(r.mods, f, c), <<>>, r.codes)

(* more_keys past its drained-FIFO guard: reset the FIFO; return if the  *)
(* EC interrupt is not pending, or with no codes if the matrix scan fails *)
(* (last_scan untouched); else take the scan and fill the FIFO.  `fresh'  *)
(* and `batch' record which new presses this scan saw.                    *)
Refill ==
  /\ fifo_offset' = 0
  /\ \/ /\ key_fifo' = <<>>
        /\ batch' = NoBatch
        /\ UNCHANGED <<last_scan, fresh>>
     \/ LET r    == ReadScancodes(matrix, last_scan, KeyFifoSize)
            seen == {r.keys[i] : i \in 1..Len(r.keys)}
        IN /\ last_scan' = r.last
           /\ key_fifo' = FillFifo(r)
           /\ fresh' = fresh \ seen
           /\ batch' = [newSeen |-> IF r.ghost THEN {}
                                    ELSE {p \in seen \cap fresh : Scancodes[p] \notin ModifierCodes},
                        added   |-> Len(key_fifo')]
  /\ UNCHANGED matrix

\* mkbp_keyboard_have_char: more_keys does nothing until the FIFO is drained.
MoreKeys ==
  /\ fifo_offset >= Len(key_fifo)
  /\ Refill

\* mkbp_keyboard_get_char once have_char returned true: pop the FIFO.
GetChar ==
  /\ fifo_offset < Len(key_fifo)
  /\ fifo_offset' = fifo_offset + 1
  /\ UNCHANGED <<matrix, last_scan, key_fifo, fresh, batch>>

\* The user presses a key, or releases one.  A key released and pressed
\* again between two scans is one press to a polling driver: it is fresh
\* only if the driver last saw it up.
Press(p) ==
  /\ p \notin matrix
  /\ Cardinality(matrix) < MaxDown
  /\ matrix' = matrix \cup {p}
  /\ fresh' = IF p \in last_scan THEN fresh ELSE fresh \cup {p}
  /\ UNCHANGED <<last_scan, key_fifo, fifo_offset, batch>>

Release(p) ==
  /\ p \in matrix
  /\ matrix' = matrix \ {p}
  /\ fresh' = fresh \ {p}
  /\ UNCHANGED <<last_scan, key_fifo, fifo_offset, batch>>

Init ==
  /\ matrix = {}
  /\ last_scan = {}
  /\ key_fifo = <<>>
  /\ fifo_offset = 0
  /\ fresh = {}
  /\ batch = NoBatch

Next ==
  \/ MoreKeys
  \/ GetChar
  \/ \E p \in Positions : Press(p) \/ Release(p)

Spec == Init /\ [][Next]_vars

-----------------------------------------------------------------------------
(* Properties.                                                             *)

(* A refill adds no key for a key held since the previous scan: the       *)
(* held marker, truncated to the uint8_t code, must fall outside the      *)
(* layout, so no key is repeated while it stays down.                      *)
NoPhantomKeys == batch.added <= Cardinality(batch.newSeen)

(* Every non-modifier key the user presses yields a key by the first scan *)
(* that is not thrown away as ghosted and sees it as pressed.              *)
NoPressLost == batch.added >= Cardinality(batch.newSeen)

=============================================================================

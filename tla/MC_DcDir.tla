------------------------------- MODULE MC_DcDir -------------------------------
(***************************************************************************)
(* A storage image for DcDir: an anchor at 16 whose root directory (at 32, *)
(* base 48) holds a sub-directory "ab" (Base32Offset32Length32) and a     *)
(* region "b" (Offset24Length24); the sub-directory at 128 holds a region *)
(* "a" and a pointer "ba" of an unknown type.  A second anchor at 200      *)
(* names the wrong offset.  Names are two bytes wide, so "bab" is compared *)
(* on "ba" only, and offsets wrap at 2^8: the root's unrelocated offset    *)
(* 32 - 48 wraps, as it does at 2^32 in the code.                          *)
(***************************************************************************)
EXTENDS DcDir

\* A pair as stored: name, type byte (bit 0: directory, bits 1..: variant),
\* size field and geometry.
Pair(n, type, size, off, len, base) ==
  [name |-> n, field |-> Field(n), type |-> type, size |-> size,
   off |-> off, len |-> len, base |-> base]

\* ((size field + 1) * 8 bytes, header included) for a body of the given bytes.
SizeFieldFor(bodyBytes) == (bodyBytes + HeaderSize) \div 8 - 1

RootPairs ==
  << Pair(<<"a", "b">>, 1 + 2 * 2, 1, 96, 63, 48),
     Pair(<<"b">>, 2 * 1, 0, 100, 15, 0) >>

ChildPairs ==
  << Pair(<<"a">>, 2 * 2, 1, 4, 31, 16),
     Pair(<<"b", "a">>, 2 * 3, 0, 8, 7, 0) >>

MCStorage ==
  ( 16 :> [kind |-> "anchor", sigOk |-> TRUE, version |-> 1,
           anchorOffset |-> 16, rootBase |-> 48] )
  @@ ( 200 :> [kind |-> "anchor", sigOk |-> TRUE, version |-> 1,
               anchorOffset |-> 16, rootBase |-> 0] )
  @@ ( 32 :> [kind |-> "dir", sigOk |-> TRUE, sizeField |-> SizeFieldFor(40),
              recs |-> RootPairs] )
  @@ ( 128 :> [kind |-> "dir", sigOk |-> TRUE, sizeField |-> SizeFieldFor(40),
               recs |-> ChildPairs] )

MCLookupNames == { <<"a">>, <<"a", "b">>, <<"b", "a", "b">> }

\* Heap bytes past a buffer: a pair that matches nothing, a directory pair
\* named like "a..." and a region pair named like "ba...".
MCGarbage ==
  { Pair(<<"x">>, 2, 0, 0, 0, 0),
    Pair(<<"a", "x">>, 1 + 2 * 1, 0, 4, 0, 0),
    Pair(<<"b", "a">>, 2 * 1, 0, 12, 3, 0) }
=============================================================================

------------------------------ MODULE MC_GdbPacket ------------------------------
EXTENDS GdbPacket

\* "2021...2730313233": bytes whose both nibbles are below 8, so that the
\* digits read from an odd offset are bytes below 128 too; then ",1f;a:7".
MC_Command ==
  FlattenSeq([i \in 1..12 |-> HexOf(IF i <= 8 THEN 31 + i ELSE 39 + i)])
    \o <<44, 49, 102, 59, 97, 58, 55>>

\* "OK", "E01" and the empty string.
MC_Strings == {<<79, 75>>, <<69, 48, 49>>, <<>>}

\* The host reads the registers ("g") and then continues ("c"); the stub
\* answers "1" and "2".
MC_Commands == <<<<103>>, <<109, 49>>, <<99>>>>
MC_Replies == <<<<49>>, <<79, 75>>, <<50>>>>

=============================================================================

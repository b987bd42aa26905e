------------------------ MODULE MCSendPacketHandler -------------------------
(***************************************************************************)
(* Small instances of SendPacketHandler for TLC.                           *)
(***************************************************************************)
EXTENDS SendPacketHandler

\* Less than a packet of two samples, one, and two and a half.
CutWants == {1, 2, 5}
AnyTimed == {TRUE, FALSE}
=============================================================================

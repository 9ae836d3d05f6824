------------------------------- MODULE MCDdns -------------------------------
(***************************************************************************)
(* Ddns for TLC: two forward zones and a reverse one, in pages of one, so  *)
(* that a zone can move to a page that was already read.                   *)
(***************************************************************************)
EXTENDS Ddns

CONSTANTS z1, z2, z3

MCZoneOrder == <<z1, z2, z3>>
=============================================================================

------------------------------- MODULE MCEvdns -------------------------------
(***************************************************************************)
(* Evdns for TLC: two servers in resolv.conf.                                *)
(***************************************************************************)
EXTENDS Evdns

CONSTANTS s1, s2

MCConfigured == <<s1, s2>>
=============================================================================

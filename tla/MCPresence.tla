------------------------------ MODULE MCPresence -----------------------------
(* Instances of Presence for TLC.                                          *)
EXTENDS Presence, TLC

CONSTANTS alice, olga, s1, s2, s3

MCWalk == {<<"near", FALSE>>, <<"edge", FALSE>>, <<"far", FALSE>>, <<"near", TRUE>>}
=============================================================================

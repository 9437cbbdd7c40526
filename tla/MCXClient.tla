------------------------------ MODULE MCXClient ------------------------------
(* Instances of XClient for TLC.                                           *)
EXTENDS XClient
==============================================================================

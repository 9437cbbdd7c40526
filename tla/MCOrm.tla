-------------------------------- MODULE MCOrm --------------------------------
(* An instance of Orm: tables with any of three columns, of which the      *)
(* model of Migrate has two.                                               *)
EXTENDS Orm

CONSTANTS c1, c2, c3
==============================================================================

------------------------------- MODULE MCLine -------------------------------
(* Root of the runs with several terminals: see the cfg files.             *)
EXTENDS LineDiscipline
=============================================================================

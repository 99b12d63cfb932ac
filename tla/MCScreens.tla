----------------------------- MODULE MCScreens ------------------------------
(* Root of the runs about video memory: see the cfg files.                 *)
EXTENDS Screens
=============================================================================

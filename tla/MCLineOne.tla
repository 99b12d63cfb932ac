----------------------------- MODULE MCLineOne -----------------------------
(* Root of the runs with one terminal: see the cfg files.                  *)
EXTENDS LineOneTerminal
=============================================================================

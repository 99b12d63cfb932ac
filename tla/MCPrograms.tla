----------------------------- MODULE MCPrograms -----------------------------
(* Root of the run about user programs and the library: see programs.cfg.  *)
EXTENDS UserPrograms
Glyphs == {<<"x", "y">>}
Rhythms == {<<1, 2>>, <<3, 0>>}
=============================================================================

--------------------------- MODULE MCOneTerminal ---------------------------
(* One terminal of the machine, as shipped: three shell slots, six in all. *)
EXTENDS ProcessOneTerminal
=============================================================================

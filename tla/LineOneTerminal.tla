-------------------------- MODULE LineOneTerminal --------------------------
(***************************************************************************)
(* LineDiscipline with one terminal in use: the read implements the line   *)
(* editor.                                                                 *)
(***************************************************************************)
EXTENDS LineDiscipline

ASSUME OneTerminalAssumption == AltKeys = {}

Editor == INSTANCE LineEditor WITH
  Max   <- BUF,
  Chars <- Terminals \X Syms,
  state <- CASE pc = "spin" /\ con.tflag = 1 -> "open"
             [] pc = "seen" \/ (pc = "spin" /\ con.tflag = 0) -> "ended"
             [] OTHER -> "idle",
  line  <- CASE pc \in {"spin", "seen"} -> Text(con)
             [] pc = "ret" -> got
             [] OTHER -> <<>>

(* Whatever programs print and whichever of them are killed, a read gives  *)
(* its caller the characters typed since it began, less those erased, in   *)
(* order (terminal.c:14-47, lib.c:228-311).                                *)
ImplementsEditor == Editor!Spec
=============================================================================

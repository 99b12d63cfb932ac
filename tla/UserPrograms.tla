---------------------------- MODULE UserPrograms ----------------------------
(***************************************************************************)
(* User programs and the library together: fish runs, or one of the        *)
(* functions is tried on an input.                                         *)
(***************************************************************************)
EXTENDS Blink, Programs

uvars == <<vars, input>>

UInit == Init /\ input \in {None} \cup LibraryInputs \cup GrepInputs
Fish  == input = None /\ Next /\ UNCHANGED input
Tried == input # None /\ UNCHANGED uvars
USpec == UInit /\ [][Fish \/ Tried]_uvars
=============================================================================

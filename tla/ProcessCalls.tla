---------------------------- MODULE ProcessCalls ----------------------------
(***************************************************************************)
(* What execute and halt promise a user of one terminal: programs call     *)
(* each other.  One process runs; execute suspends it until the program it *)
(* started halts, and then it is this caller that runs again.  The base    *)
(* shell never goes away.                                                  *)
(***************************************************************************)
CONSTANTS Procs, Base, None

VARIABLES
  running,   \* the process that runs
  waiting,   \* the processes suspended in execute
  caller     \* program -> the process that started it

vars == <<running, waiting, caller>>

Init == running = None /\ waiting = {} /\ caller = [p \in Procs \ {Base} |-> None]

Start == running = None /\ running' = Base /\ UNCHANGED <<waiting, caller>>

Call(p) ==
  /\ running # None /\ p \notin waiting \cup {running}
  /\ running' = p
  /\ waiting' = waiting \cup {running}
  /\ caller' = [caller EXCEPT ![p] = running]

Return ==
  /\ running \notin {None, Base}
  /\ caller[running] \in waiting
  /\ running' = caller[running]
  /\ waiting' = waiting \ {caller[running]}
  /\ UNCHANGED caller

Next == Start \/ (\E p \in Procs \ {Base} : Call(p)) \/ Return

Spec == Init /\ [][Next]_vars
=============================================================================

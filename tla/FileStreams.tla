---------------------------- MODULE FileStreams -----------------------------
(***************************************************************************)
(* What a program may rely on when it reads files: an open descriptor is a *)
(* stream that delivers the rest of the file, in order and once, however   *)
(* the reads are cut.  A program is started with the streams its caller    *)
(* has at that time, and when it ends the caller has those streams again,  *)
(* as it left them.                                                        *)
(***************************************************************************)
EXTENDS Integers, Sequences

CONSTANTS Fds, Contents   \* descriptors, the streams that can be opened

VARIABLES
  stream,  \* descriptor -> [step, rest], or Closed
  saved,   \* what each caller had when it called
  got      \* what the last call delivered

vars == <<stream, saved, got>>
Closed == [step |-> -1, rest |-> <<>>]

Init ==
  /\ stream = [i \in Fds |-> Closed]
  /\ saved = <<>>
  /\ got = <<>>

OpenStream == \E i \in Fds, s \in Contents :
  stream[i] = Closed /\ stream' = [stream EXCEPT ![i] = s] /\ got' = <<>> /\ UNCHANGED saved

CloseStream == \E i \in Fds :
  stream' = [stream EXCEPT ![i] = Closed] /\ got' = <<>> /\ UNCHANGED saved

(* A directory is delivered entry by entry, a file by any number of bytes. *)
ReadStream == \E i \in Fds : \E n \in 1 .. Len(stream[i].rest) :
  /\ stream[i].step \in {0, n}
  /\ got' = SubSeq(stream[i].rest, 1, n)
  /\ stream' = [stream EXCEPT ![i].rest = SubSeq(@, n + 1, Len(@))]
  /\ UNCHANGED saved

Other  == got' = <<>> /\ UNCHANGED <<stream, saved>>
Call   == saved' = Append(saved, stream) /\ got' = <<>> /\ UNCHANGED stream
Return ==
  /\ saved # <<>>
  /\ stream' = saved[Len(saved)]
  /\ saved' = SubSeq(saved, 1, Len(saved) - 1)
  /\ got' = <<>>

Next == OpenStream \/ CloseStream \/ ReadStream \/ Other \/ Call \/ Return
Spec == Init /\ [][Next]_vars
=============================================================================

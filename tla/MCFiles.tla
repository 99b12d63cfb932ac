------------------------------ MODULE MCFiles ------------------------------
(* A small image and the root of the runs about files.  "a" spans two      *)
(* blocks, out of order; "sh" and "t" are programs.                        *)
EXTENDS SysErr

ImgDentries ==
  <<[name |-> ".", ftype |-> 1, inode |-> 0], [name |-> "a", ftype |-> 2, inode |-> 2],
    [name |-> "sh", ftype |-> 2, inode |-> 1], [name |-> "t", ftype |-> 2, inode |-> 1],
    [name |-> "rtc", ftype |-> 0, inode |-> 0]>>
ImgInodes ==
  (0 :> [length |-> 0, dblock |-> (0 :> 0)]) @@
  (1 :> [length |-> 2, dblock |-> (0 :> 1)]) @@
  (2 :> [length |-> 3, dblock |-> (0 :> 2 @@ 1 :> 0)])
ImgBlocks ==
  (0 :> (0 :> "c" @@ 1 :> "z")) @@ (1 :> (0 :> "7f" @@ 1 :> "E")) @@ (2 :> (0 :> "a" @@ 1 :> "b"))
ImgMagic == <<"7f", "E">>
ImgCounts == {-1, 0, 2}
=============================================================================

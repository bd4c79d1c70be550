---------------------------- MODULE MCDirectory ----------------------------
(***************************************************************************)
(* Instances of Directory for TLC: one file in the rule's directory, dated *)
(* the first day, one in a subdirectory, dated the second.                 *)
(***************************************************************************)
EXTENDS Directory, TLC

CONSTANTS root, sub, f1, f2

OneSub    == {sub}
TwoFiles  == {f1, f2}
Where     == (f1 :> root) @@ (f2 :> sub)
Dates     == (f1 :> 1) @@ (f2 :> 2)
DirIdSet  == 1 .. 3
FileIdSet == 1 .. 3

Removals  == {"unlink", "rmdir", "midnight", "stop"}
Rotation  == {"rename"}
=============================================================================

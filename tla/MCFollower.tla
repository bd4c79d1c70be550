----------------------------- MODULE MCFollower -----------------------------
(***************************************************************************)
(* Instances of Follower for TLC.                                          *)
(***************************************************************************)
EXTENDS Follower

Failures        == {"stop", "crash", "dbfail", "watcherr"}
Replacements    == {"rename", "unlink", "truncate"}

NoLine     == {}
SecondLine == {2}
=============================================================================

---------------------------- MODULE LineDelivery ----------------------------
(***************************************************************************)
(* What following a file promises: its lines are taken one after the other *)
(* from some start, each is recorded or lost on the way to the database,   *)
(* and whoever starts again starts at the beginning or at a saved mark     *)
(* below which every line has been dealt with.  So each line is recorded   *)
(* at least once unless its own insert failed, and the marks, which may    *)
(* well move backwards, never skip one.  There is no buffer, no half line, *)
(* no event, no goroutine and no channel here; Follower implements it.     *)
(* The promise holds as long as the file at the path is the same one.      *)
(***************************************************************************)
EXTENDS Naturals

CONSTANTS
  Lines,       \* the lines a file may have, named by where they start
  Width,       \* the length of a line
  Unparsable   \* lines no record can be made of

VARIABLES
  same,        \* the positions were taken in the file that is at the path
  length,      \* how long the file is
  following,   \* somebody takes lines from the file
  next,        \* the line to be taken next
  flying,      \* lines whose insert is under way
  stored,      \* lines recorded
  lost,        \* lines whose insert failed or was cut off by a crash
  mark         \* the saved position

delivery == <<same, length, following, next, flying, stored, lost, mark>>

DealtWith(l) == l \in stored \cup lost \cup flying \cup Unparsable
Covered(p)   == \A l \in Lines : l + Width <= p => DealtWith(l)

Init ==
  /\ same = TRUE
  /\ length = 0
  /\ following = FALSE
  /\ next = 0
  /\ flying = {} /\ stored = {} /\ lost = {}
  /\ mark = 0

Grow ==
  /\ length' > length
  /\ UNCHANGED <<same, following, next, flying, stored, lost, mark>>

(* A reader starts at the mark, or at the beginning and then says so.      *)
Start ==
  /\ ~following
  /\ following' = TRUE
  /\ next' \in {0, mark}
  /\ mark' = next'
  /\ UNCHANGED <<same, length, flying, stored, lost>>

(* The next line, complete in the file, goes on its way to the database.   *)
Take ==
  /\ following
  /\ next + Width <= length
  /\ next' = next + Width
  /\ flying' = flying \cup ({next} \ Unparsable)
  /\ UNCHANGED <<same, length, following, stored, lost, mark>>

(* An insert ends; another copy of the line may still be under way.        *)
Landed(l) == flying' \in {flying, flying \ {l}}

Record(l) ==
  /\ l \in flying
  /\ Landed(l)
  /\ stored' = stored \cup {l}
  /\ UNCHANGED <<same, length, following, next, lost, mark>>

Lose(l) ==
  /\ l \in flying
  /\ Landed(l)
  /\ lost' = lost \cup {l}
  /\ UNCHANGED <<same, length, following, next, stored, mark>>

Save ==
  /\ Covered(mark')
  /\ UNCHANGED <<same, length, following, next, flying, stored, lost>>

Stop ==
  /\ following
  /\ following' = FALSE
  /\ next' = 0
  /\ UNCHANGED <<same, length, flying, stored, lost, mark>>

(* The process dies, and with it the inserts under way.                    *)
Crash ==
  /\ following' = FALSE
  /\ next' = 0
  /\ lost' = lost \cup flying
  /\ flying' = {}
  /\ UNCHANGED <<same, length, stored, mark>>

Next ==
  \/ same' = FALSE
  \/ Grow \/ Start \/ Take \/ Save \/ Stop \/ Crash
  \/ \E l \in flying : Record(l) \/ Lose(l)

Spec == Init /\ [][Next]_delivery
=============================================================================

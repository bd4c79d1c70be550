----------------------------- MODULE NulDiscard -----------------------------
(***************************************************************************)
(* What a tail throws away before it reads a line (follower.go:133-148):   *)
(* it looks at the next Window bytes of its file, discards them up to the  *)
(* last NUL, and looks again while the window ends with one.               *)
(***************************************************************************)
EXTENDS Naturals, SequencesExt

CONSTANTS
  Window,     \* peekSize (1024)
  MaxBytes    \* bound: bytes in the file

ASSUME NulDiscardAssumption == Window \in Nat \ {0, 1} /\ MaxBytes \in Nat

Nul == "0"
Contents == SeqOf({Nul, "x"}, MaxBytes)

VARIABLES
  bytes,       \* what the file has from the reader's position on
  discarded,
  peeking      \* the loop goes on

nul == <<bytes, discarded, peeking>>

NulInit == bytes \in Contents /\ discarded = 0 /\ peeking = TRUE

Peek == SubSeq(bytes, discarded + 1,
               IF discarded + Window < Len(bytes) THEN discarded + Window
                                                  ELSE Len(bytes))
LastNul(b) == CHOOSE i \in 0 .. Len(b) : /\ i # 0 => b[i] = Nul
                                         /\ \A j \in i + 1 .. Len(b) : b[j] # Nul

(* i counts from 1: the code, whose index counts from 0, discards from     *)
(* index 1 on only.                                                        *)
AtOnce(i) == FALSE
Again(i) == i >= Window

Discard ==
  LET i == LastNul(Peek) IN
  /\ peeking
  /\ discarded' = IF i > 1 THEN discarded + i ELSE discarded
  /\ peeking' = Again(i)
  /\ UNCHANGED bytes

NulSpec == NulInit /\ [][Discard]_nul

(* When the loop ends the NULs at the beginning are gone, but for one at   *)
(* most; and of the text only such bytes went as have a NUL after them     *)
(* within a window.  (The comment at follower.go:133 promises more: that   *)
(* leading NUL bytes are discarded, all of them and nothing else.)         *)
NulsDiscarded ==
  /\ ~peeking => \A k \in 0 .. Len(bytes) :
                   (\A j \in 1 .. k : bytes[j] = Nul) => k <= discarded + 1
  /\ \A j \in 1 .. discarded : bytes[j] # Nul =>
       \E k \in j + 1 .. discarded : bytes[k] = Nul /\ k < j + Window
=============================================================================

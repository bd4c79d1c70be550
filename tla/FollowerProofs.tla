--------------------------- MODULE FollowerProofs ---------------------------
(***************************************************************************)
(* That no line is skipped by a tail, and none by a restart, for files of  *)
(* any length and any failures.  What is saved is lastPosition, which P    *)
(* takes from T's offset, which T sets at the end of the file: each of the *)
(* three lags behind the one before, and IInv says that the last of them   *)
(* lags behind the records.  Positions are even: they are starts of lines. *)
(***************************************************************************)
EXTENDS Follower, TLAPS

(* Every line below p is handled.                                          *)
Covered(p) == LinesBelow(p) \subseteq Handled

(* Every position T, P, F and the database hold is the start of a line.    *)
Evens ==
  /\ rpos % 2 = 0 /\ toff % 2 = 0 /\ lpos % 2 = 0 /\ posDB % 2 = 0
  /\ fcopy # None => fcopy % 2 = 0
  /\ \A p \in leaked : p % 2 = 0

(* What T and P hold between two of their steps, and that they and the     *)
(* flusher exist only in a live process.                                   *)
Hands ==
  /\ tpc = "send" => line \in Lines /\ rpos = line + 2
  /\ ppc \in {"emit", "update"} => pline \in Lines
  /\ ppc = "update" => pline \in Handled
  /\ tpc \in {"watch", "read", "send", "eof", "select", "open"} => fd # 0
  /\ kpc = "none" => ppc = "none" /\ tpc = "none" /\ fcopy = None
  /\ kpc # "none" => ppc # "none" /\ tpc # "none"

(* Until the file is replaced T keeps the file it opened.                  *)
SameFileAlways ==
  ~replaced =>
    /\ path = 1
    /\ tpc \in {"watch", "read", "send", "eof", "select"} => fd = 1
    /\ tpc # "open"
    /\ \A i \in 1 .. Len(evq) : evq[i] # "gone"

(* Everything that is saved, or that a flusher may still save, is covered. *)
SavedCovered ==
  ~replaced =>
    /\ Covered(posDB)
    /\ fcopy # None => Covered(fcopy)
    /\ \A p \in leaked : Covered(p)

(* T's offset is at or before the lines T passed on, and those are handled *)
(* except for the one P is about to hand to the writer.                    *)
ReadCovered ==
  ~replaced /\ kpc # "none" =>
    /\ Covered(lpos)
    /\ toff <= Sent
    /\ LinesBelow(Sent) \subseteq Handled \cup (IF ppc = "emit" THEN {pline} ELSE {})

(* The inductive invariant.                                                *)
IInv == TypeOK /\ Evens /\ Hands /\ SameFileAlways /\ SavedCovered /\ ReadCovered

(* A line that starts at an even position takes the next two half lines.   *)
LEMMA EvenLines ==
  /\ \A p \in Nat : p % 2 = 0 => LineEnd(p) = p + 2 /\ (p + 2) % 2 = 0
  /\ \A p, q \in Nat : p % 2 = 0 /\ q % 2 = 0 /\ p < q => p + 2 <= q
  /\ 0 % 2 = 0
  BY DEF LineEnd

(* What is needed of the sets of positions, lines and files.               *)
LEMMA Bounds ==
  /\ 0 \in Positions
  /\ Positions \subseteq Nat
  /\ \A p \in Positions : p < MaxSize => p + 1 \in Positions
  /\ Lines \subseteq Positions
  /\ \A p, s \in Positions : p % 2 = 0 /\ LineEnd(p) <= s =>
       p \in Lines /\ LineEnd(p) \in Positions
  /\ \A f \in Files : f # 0
  /\ \A m \in Files : m < MaxFiles => m + 1 \in Files
  /\ \A m \in Files : 1 .. m \subseteq Files
<1>1. \A p, s \in Positions : p % 2 = 0 /\ LineEnd(p) <= s =>
        p \in Lines /\ LineEnd(p) \in Positions
  BY FollowerAssumption, EvenLines DEF Positions, Lines
<1> QED
  BY <1>1, FollowerAssumption DEF Positions, Lines, Files

(* Merging an event into the queue keeps it a queue of events.             *)
LEMMA PushedIsSeq ==
  ASSUME NEW q \in Seq(EventKinds), NEW e \in EventKinds
  PROVE  Pushed(q, e) \in Seq(EventKinds)
  BY DEF Pushed

(* Every step keeps every variable well typed.                             *)
LEMMA TypeStep == IInv /\ [Next]_vars => TypeOK'
<1> SUFFICES ASSUME IInv, [Next]_vars PROVE TypeOK'
  OBVIOUS
<1> USE FollowerAssumption DEF IInv, TypeOK, disk, tail, parser, writer, saver
<1>1. ASSUME NEW f \in Files, AppendTo(f) PROVE TypeOK'
  <2> USE <1>1 DEF AppendTo
  <2>1. evq' \in Seq(EventKinds)
    BY PushedIsSeq DEF Notify, EventKinds
  <2>2. size' \in [Files -> Positions]
    <3>1. size[f] + 1 \in Positions
      BY Bounds
    <3> QED
      BY <3>1
  <2> QED
    BY <2>1, <2>2 DEF Unseen
<1>2. CASE Truncate
  <2> USE <1>2 DEF Truncate
  <2>1. evq' \in Seq(EventKinds)
    BY PushedIsSeq DEF Notify, EventKinds
  <2> QED
    BY <2>1, Bounds DEF Unseen
<1>3. CASE Rename
  <2> USE <1>3 DEF Rename
  <2>1. evq' \in Seq(EventKinds)
    BY PushedIsSeq DEF Notify, EventKinds
  <2> QED
    BY <2>1, Bounds DEF Unseen
<1>4. CASE Unlink
  <2> USE <1>4 DEF Unlink
  <2>1. evq' \in Seq(EventKinds)
    BY PushedIsSeq DEF Notify, EventKinds
  <2> QED
    BY <2>1, Bounds DEF Unseen
<1>5. CASE Create
  <2>1. made + 1 \in Files
    BY <1>5 DEF Create, Files
  <2> QED
    BY <2>1, <1>5 DEF Create, Unseen
<1>6. CASE Resume
  <2> USE <1>6 DEF Resume, Open
  <2>1. evq' \in Seq(EventKinds)
    OBVIOUS
  <2> QED
    BY <2>1, Bounds
<1>7. CASE FromStart
  <2> USE <1>7 DEF FromStart, Open
  <2>1. evq' \in Seq(EventKinds)
    OBVIOUS
  <2> QED
    BY <2>1, Bounds
<1>8. CASE TWatch
  BY <1>8 DEF TWatch
<1>9. CASE TRead
  <2> USE <1>9 DEF TRead
  <2>1. line' \in Lines /\ rpos' \in Positions
    <3>1. size[fd] \in Positions
      BY DEF Evens, Hands
    <3> QED
      BY <3>1, Bounds DEF Evens
  <2> QED
    BY <2>1
<1>10. CASE TEndOfFile
  BY <1>10 DEF TEndOfFile, LineEnd, AfterEOF
<1>11. CASE TSelect
  BY <1>11 DEF TSelect
<1>12. CASE TTimeout
  BY <1>12 DEF TTimeout, Expired, SameFile
<1>13. CASE TReopen
  <2> USE <1>13 DEF TReopen
  <2>1. evq' \in Seq(EventKinds)
    <3>1. CASE evq' = <<>>
      BY <3>1
    <3>2. CASE evq' = evq
      BY <3>2
    <3> QED
      BY <3>1, <3>2
  <2>2. fd' \in Files \cup {0} /\ watch' \in Files \cup {0} /\ rpos' \in Positions
    BY Bounds
  <2> QED
    BY <2>1, <2>2
<1>14. CASE TChanged
  <2>1. evq' \in Seq(EventKinds)
    BY <1>14 DEF TChanged
  <2>2. toff' \in Positions /\ rpos' \in Positions
    BY <1>14, Bounds DEF TChanged
  <2> QED
    BY <2>1, <2>2, <1>14 DEF TChanged
<1>15. CASE TGone
  BY <1>15 DEF TGone
<1>16. CASE WDrop
  BY <1>16 DEF WDrop
<1>17. CASE TWatchError
  BY <1>17 DEF TWatchError
<1>18. CASE PReceive
  BY <1>18 DEF PReceive
<1>19. CASE PEmit
  BY <1>19 DEF PEmit
<1>20. CASE PUpdate
  BY <1>20 DEF PUpdate, ReachedEOF
<1>21. CASE PEnd
  BY <1>21 DEF PEnd
<1>22. CASE DInsert
  BY <1>22 DEF DInsert, Inserted
<1>23. ASSUME NEW l \in orphans, DInsertOrphan(l) PROVE TypeOK'
  BY <1>23 DEF DInsertOrphan, Inserted
<1>24. CASE FCopy
  BY <1>24 DEF FCopy
<1>25. CASE FSave
  BY <1>25 DEF FSave
<1>26. ASSUME NEW p \in leaked, FLeaked(p) PROVE TypeOK'
  BY <1>26 DEF FLeaked
<1>27. CASE KStop
  BY <1>27 DEF KStop
<1>28. CASE KClose
  BY <1>28 DEF KClose
<1>29. CASE KSave
  BY <1>29 DEF KSave
<1>30. CASE PCloseTail
  BY <1>30 DEF PCloseTail
<1>31. CASE Crash
  <2> USE <1>31 DEF Crash
  <2>1. evq' \in Seq(EventKinds)
    OBVIOUS
  <2> QED
    BY <2>1, Bounds
<1>32. CASE UNCHANGED vars
  BY <1>32 DEF vars
<1> HIDE DEF IInv, TypeOK, vars
<1> QED
  BY <1>1, <1>2, <1>3, <1>4, <1>5, <1>6, <1>7, <1>8, <1>9, <1>10, <1>11,
     <1>12, <1>13, <1>14, <1>15, <1>16, <1>17, <1>18, <1>19, <1>20, <1>21,
     <1>22, <1>23, <1>24, <1>25, <1>26, <1>27, <1>28, <1>29, <1>30, <1>31,
     <1>32
  DEF Next, World, TNext, WNext, PNext, FNext, KNext

(* Every step keeps what the goroutines hold meaningful.                   *)
LEMMA HandsStep == IInv /\ [Next]_vars => Hands'
<1> SUFFICES ASSUME IInv, [Next]_vars PROVE Hands'
  OBVIOUS
<1> USE FollowerAssumption DEF IInv, TypeOK, Hands, disk, tail, parser,
            writer, saver
<1>1. ASSUME NEW f \in Files, AppendTo(f) PROVE Hands'
  BY <1>1 DEF AppendTo, Unseen, Notify, Pushed, Handled
<1>2. CASE Truncate
  BY <1>2 DEF Truncate, Unseen, Notify, Pushed, Handled
<1>3. CASE Rename
  BY <1>3 DEF Rename, Unseen, Notify, Pushed, Handled
<1>4. CASE Unlink
  BY <1>4 DEF Unlink, Unseen, Notify, Pushed, Handled
<1>5. CASE Create
  BY <1>5 DEF Create, Unseen, Handled
<1>6. CASE Resume
  BY <1>6 DEF Resume, Open, Handled
<1>7. CASE FromStart
  BY <1>7 DEF FromStart, Open, Handled
<1>8. CASE TWatch
  BY <1>8 DEF TWatch, Handled
<1>9. CASE TRead
  <2> USE <1>9 DEF TRead
  <2>1. line' \in Lines /\ rpos' = line' + 2
    BY Bounds, EvenLines DEF Evens
  <2>2. Handled' = Handled
    BY DEF Handled
  <2> QED
    BY <2>1, <2>2
<1>10. CASE TEndOfFile
  BY <1>10 DEF TEndOfFile, LineEnd, AfterEOF, Handled
<1>11. CASE TSelect
  BY <1>11 DEF TSelect, Handled
<1>12. CASE TTimeout
  BY <1>12 DEF TTimeout, Expired, SameFile, Handled
<1>13. CASE TReopen
  BY <1>13 DEF TReopen, Handled
<1>14. CASE TChanged
  BY <1>14 DEF TChanged, Handled
<1>15. CASE TGone
  BY <1>15 DEF TGone, Handled
<1>16. CASE WDrop
  BY <1>16 DEF WDrop, Handled
<1>17. CASE TWatchError
  BY <1>17 DEF TWatchError, Handled
<1>18. CASE PReceive
  <2> USE <1>18 DEF PReceive
  <2>1. line \in Lines
    OBVIOUS
  <2>2. ppc' = "update" => pline' \in Handled'
    BY DEF Handled
  <2>3. /\ pline' \in Lines /\ tpc' = "read" /\ ppc' \in {"emit", "update"}
        /\ fd' = fd /\ kpc' = kpc /\ fd # 0 /\ kpc # "none"
    BY <2>1
  <2> QED
    BY <2>2, <2>3
<1>19. CASE PEmit
  <2> USE <1>19 DEF PEmit
  <2>1. pline # None
    BY Bounds
  <2>2. pline' \in Handled'
    BY <2>1 DEF Handled
  <2> QED
    BY <2>2
<1>20. CASE PUpdate
  BY <1>20 DEF PUpdate, ReachedEOF, Handled
<1>21. CASE PEnd
  BY <1>21 DEF PEnd, Handled
<1>22. CASE DInsert
  BY <1>22 DEF DInsert, Inserted, Handled
<1>23. ASSUME NEW l \in orphans, DInsertOrphan(l) PROVE Hands'
  BY <1>23 DEF DInsertOrphan, Inserted, Handled
<1>24. CASE FCopy
  BY <1>24 DEF FCopy, Handled
<1>25. CASE FSave
  BY <1>25 DEF FSave, Handled
<1>26. ASSUME NEW p \in leaked, FLeaked(p) PROVE Hands'
  BY <1>26 DEF FLeaked, Handled
<1>27. CASE KStop
  BY <1>27 DEF KStop, Handled
<1>28. CASE KClose
  BY <1>28 DEF KClose, Handled
<1>29. CASE KSave
  BY <1>29 DEF KSave, Handled
<1>30. CASE PCloseTail
  BY <1>30 DEF PCloseTail, Handled
<1>31. CASE Crash
  BY <1>31 DEF Crash, Handled
<1>32. CASE UNCHANGED vars
  BY <1>32 DEF vars, Handled
<1> HIDE DEF IInv, TypeOK, Hands, vars
<1> QED
  BY <1>1, <1>2, <1>3, <1>4, <1>5, <1>6, <1>7, <1>8, <1>9, <1>10, <1>11,
     <1>12, <1>13, <1>14, <1>15, <1>16, <1>17, <1>18, <1>19, <1>20, <1>21,
     <1>22, <1>23, <1>24, <1>25, <1>26, <1>27, <1>28, <1>29, <1>30, <1>31,
     <1>32
  DEF Next, World, TNext, WNext, PNext, FNext, KNext

(* Every step keeps positions at starts of lines: at the end of the file T *)
(* goes back over a partial line (follower.go:154-163).                    *)
LEMMA EvensStep == IInv /\ [Next]_vars => Evens'
<1> SUFFICES ASSUME IInv, [Next]_vars PROVE Evens'
  OBVIOUS
<1> USE FollowerAssumption, Bounds DEF IInv, TypeOK, Evens, disk, tail,
            parser, writer, saver
<1>1. ASSUME NEW f \in Files, AppendTo(f) PROVE Evens'
  BY <1>1 DEF AppendTo, Unseen, Notify, Pushed
<1>2. CASE Truncate
  BY <1>2 DEF Truncate, Unseen, Notify, Pushed
<1>3. CASE Rename
  BY <1>3 DEF Rename, Unseen, Notify, Pushed
<1>4. CASE Unlink
  BY <1>4 DEF Unlink, Unseen, Notify, Pushed
<1>5. CASE Create
  BY <1>5 DEF Create, Unseen
<1>6. CASE Resume
  BY <1>6, EvenLines DEF Resume, Open
<1>7. CASE FromStart
  BY <1>7, EvenLines DEF FromStart, Open
<1>8. CASE TWatch
  BY <1>8 DEF TWatch
<1>9. CASE TRead
  BY <1>9, EvenLines DEF TRead
<1>10. CASE TEndOfFile
  BY <1>10 DEF TEndOfFile, LineEnd, AfterEOF
<1>11. CASE TSelect
  BY <1>11 DEF TSelect
<1>12. CASE TTimeout
  BY <1>12 DEF TTimeout, Expired, SameFile
<1>13. CASE TReopen
  BY <1>13, EvenLines DEF TReopen
<1>14. CASE TChanged
  BY <1>14, EvenLines DEF TChanged
<1>15. CASE TGone
  BY <1>15 DEF TGone
<1>16. CASE WDrop
  BY <1>16 DEF WDrop
<1>17. CASE TWatchError
  BY <1>17 DEF TWatchError
<1>18. CASE PReceive
  BY <1>18 DEF PReceive
<1>19. CASE PEmit
  BY <1>19 DEF PEmit
<1>20. CASE PUpdate
  BY <1>20 DEF PUpdate, ReachedEOF
<1>21. CASE PEnd
  BY <1>21 DEF PEnd
<1>22. CASE DInsert
  BY <1>22 DEF DInsert, Inserted
<1>23. ASSUME NEW l \in orphans, DInsertOrphan(l) PROVE Evens'
  BY <1>23 DEF DInsertOrphan, Inserted
<1>24. CASE FCopy
  BY <1>24 DEF FCopy
<1>25. CASE FSave
  BY <1>25 DEF FSave
<1>26. ASSUME NEW p \in leaked, FLeaked(p) PROVE Evens'
  BY <1>26 DEF FLeaked
<1>27. CASE KStop
  BY <1>27 DEF KStop
<1>28. CASE KClose
  BY <1>28 DEF KClose
<1>29. CASE KSave
  BY <1>29 DEF KSave
<1>30. CASE PCloseTail
  BY <1>30 DEF PCloseTail
<1>31. CASE Crash
  BY <1>31, EvenLines DEF Crash
<1>32. CASE UNCHANGED vars
  BY <1>32 DEF vars
<1> HIDE DEF IInv, TypeOK, Evens, vars
<1> QED
  BY <1>1, <1>2, <1>3, <1>4, <1>5, <1>6, <1>7, <1>8, <1>9, <1>10, <1>11,
     <1>12, <1>13, <1>14, <1>15, <1>16, <1>17, <1>18, <1>19, <1>20, <1>21,
     <1>22, <1>23, <1>24, <1>25, <1>26, <1>27, <1>28, <1>29, <1>30, <1>31,
     <1>32
  DEF Next, World, TNext, WNext, PNext, FNext, KNext

(* A queue without Rename or Remove stays without when a write is merged   *)
(* in or its head is taken.                                                *)
LEMMA QuietQueues ==
  ASSUME NEW q \in Seq(EventKinds), \A i \in 1 .. Len(q) : q[i] # "gone"
  PROVE  /\ \A i \in 1 .. Len(Pushed(q, "write")) : Pushed(q, "write")[i] # "gone"
         /\ q # <<>> => \A i \in 1 .. Len(Tail(q)) : Tail(q)[i] # "gone"
         /\ q # <<>> => Head(q) # "gone"
<1>1. \A i \in 1 .. Len(Pushed(q, "write")) : Pushed(q, "write")[i] # "gone"
  BY DEF Pushed
<1>2. q # <<>> => \A i \in 1 .. Len(Tail(q)) : Tail(q)[i] # "gone"
  OBVIOUS
<1>3. q # <<>> => Head(q) # "gone"
  OBVIOUS
<1> QED
  BY <1>1, <1>2, <1>3

(* Only replacing the file makes T open another one.                       *)
LEMMA SameFileStep == IInv /\ [Next]_vars => SameFileAlways'
<1> SUFFICES ASSUME IInv, [Next]_vars PROVE SameFileAlways'
  OBVIOUS
<1> USE FollowerAssumption DEF IInv, TypeOK, Hands, SameFileAlways, disk,
            tail, parser, writer, saver
<1>1. ASSUME NEW f \in Files, AppendTo(f) PROVE SameFileAlways'
  BY <1>1, QuietQueues DEF AppendTo, Unseen, Notify
<1>2. CASE Truncate
  BY <1>2 DEF Truncate, Unseen, Notify, Pushed
<1>3. CASE Rename
  BY <1>3 DEF Rename, Unseen, Notify, Pushed
<1>4. CASE Unlink
  BY <1>4 DEF Unlink, Unseen, Notify, Pushed
<1>5. CASE Create
  BY <1>5 DEF Create, Unseen
<1>6. CASE Resume
  BY <1>6 DEF Resume, Open
<1>7. CASE FromStart
  BY <1>7 DEF FromStart, Open
<1>8. CASE TWatch
  BY <1>8 DEF TWatch
<1>9. CASE TRead
  BY <1>9 DEF TRead, LineEnd
<1>10. CASE TEndOfFile
  BY <1>10 DEF TEndOfFile, LineEnd, AfterEOF
<1>11. CASE TSelect
  BY <1>11 DEF TSelect
<1>12. CASE TTimeout
  BY <1>12 DEF TTimeout, Expired, SameFile
<1>13. CASE TReopen
  BY <1>13 DEF TReopen
<1>14. CASE TChanged
  BY <1>14, QuietQueues DEF TChanged
<1>15. CASE TGone
  BY <1>15, QuietQueues DEF TGone
<1>16. CASE WDrop
  BY <1>16, QuietQueues DEF WDrop
<1>17. CASE TWatchError
  BY <1>17 DEF TWatchError
<1>18. CASE PReceive
  BY <1>18 DEF PReceive
<1>19. CASE PEmit
  BY <1>19 DEF PEmit
<1>20. CASE PUpdate
  BY <1>20 DEF PUpdate, ReachedEOF
<1>21. CASE PEnd
  BY <1>21 DEF PEnd
<1>22. CASE DInsert
  BY <1>22 DEF DInsert, Inserted
<1>23. ASSUME NEW l \in orphans, DInsertOrphan(l) PROVE SameFileAlways'
  BY <1>23 DEF DInsertOrphan, Inserted
<1>24. CASE FCopy
  BY <1>24 DEF FCopy
<1>25. CASE FSave
  BY <1>25 DEF FSave
<1>26. ASSUME NEW p \in leaked, FLeaked(p) PROVE SameFileAlways'
  BY <1>26 DEF FLeaked
<1>27. CASE KStop
  BY <1>27 DEF KStop
<1>28. CASE KClose
  BY <1>28 DEF KClose
<1>29. CASE KSave
  BY <1>29 DEF KSave
<1>30. CASE PCloseTail
  BY <1>30 DEF PCloseTail
<1>31. CASE Crash
  BY <1>31 DEF Crash
<1>32. CASE UNCHANGED vars
  BY <1>32 DEF vars
<1> HIDE DEF IInv, SameFileAlways, TypeOK, Hands, vars
<1> QED
  BY <1>1, <1>2, <1>3, <1>4, <1>5, <1>6, <1>7, <1>8, <1>9, <1>10, <1>11,
     <1>12, <1>13, <1>14, <1>15, <1>16, <1>17, <1>18, <1>19, <1>20, <1>21,
     <1>22, <1>23, <1>24, <1>25, <1>26, <1>27, <1>28, <1>29, <1>30, <1>31,
     <1>32
  DEF Next, World, TNext, WNext, PNext, FNext, KNext

(* A line once handled stays handled, whoever crashes.                     *)
LEMMA HandledGrows == IInv /\ [Next]_vars => Handled \subseteq Handled'
<1> SUFFICES ASSUME IInv, [Next]_vars PROVE Handled \subseteq Handled'
  OBVIOUS
<1> USE FollowerAssumption DEF IInv, Handled, disk, tail, parser, writer,
            saver
<1>1. ASSUME NEW f \in Files, AppendTo(f) PROVE Handled \subseteq Handled'
  BY <1>1 DEF AppendTo, Unseen, Notify, Pushed
<1>2. CASE Truncate
  BY <1>2 DEF Truncate, Unseen, Notify, Pushed
<1>3. CASE Rename
  BY <1>3 DEF Rename, Unseen, Notify, Pushed
<1>4. CASE Unlink
  BY <1>4 DEF Unlink, Unseen, Notify, Pushed
<1>5. CASE Create
  BY <1>5 DEF Create, Unseen
<1>6. CASE Resume
  BY <1>6 DEF Resume, Open
<1>7. CASE FromStart
  BY <1>7 DEF FromStart, Open
<1>8. CASE TWatch
  BY <1>8 DEF TWatch
<1>9. CASE TRead
  BY <1>9 DEF TRead, LineEnd
<1>10. CASE TEndOfFile
  BY <1>10 DEF TEndOfFile, LineEnd, AfterEOF
<1>11. CASE TSelect
  BY <1>11 DEF TSelect
<1>12. CASE TTimeout
  BY <1>12 DEF TTimeout, Expired, SameFile
<1>13. CASE TReopen
  BY <1>13 DEF TReopen
<1>14. CASE TChanged
  BY <1>14 DEF TChanged
<1>15. CASE TGone
  BY <1>15 DEF TGone
<1>16. CASE WDrop
  BY <1>16 DEF WDrop
<1>17. CASE TWatchError
  BY <1>17 DEF TWatchError
<1>18. CASE PReceive
  BY <1>18 DEF PReceive
<1>19. CASE PEmit
  BY <1>19 DEF PEmit
<1>20. CASE PUpdate
  BY <1>20 DEF PUpdate, ReachedEOF
<1>21. CASE PEnd
  BY <1>21 DEF PEnd
<1>22. CASE DInsert
  BY <1>22 DEF DInsert, Inserted
<1>23. ASSUME NEW l \in orphans, DInsertOrphan(l) PROVE Handled \subseteq Handled'
  BY <1>23 DEF DInsertOrphan, Inserted
<1>24. CASE FCopy
  BY <1>24 DEF FCopy
<1>25. CASE FSave
  BY <1>25 DEF FSave
<1>26. ASSUME NEW p \in leaked, FLeaked(p) PROVE Handled \subseteq Handled'
  BY <1>26 DEF FLeaked
<1>27. CASE KStop
  BY <1>27 DEF KStop
<1>28. CASE KClose
  BY <1>28 DEF KClose
<1>29. CASE KSave
  BY <1>29 DEF KSave
<1>30. CASE PCloseTail
  BY <1>30 DEF PCloseTail
<1>31. CASE Crash
  BY <1>31 DEF Crash, Hands
<1>32. CASE UNCHANGED vars
  BY <1>32 DEF vars
<1> HIDE DEF IInv, Handled, vars
<1> QED
  BY <1>1, <1>2, <1>3, <1>4, <1>5, <1>6, <1>7, <1>8, <1>9, <1>10, <1>11,
     <1>12, <1>13, <1>14, <1>15, <1>16, <1>17, <1>18, <1>19, <1>20, <1>21,
     <1>22, <1>23, <1>24, <1>25, <1>26, <1>27, <1>28, <1>29, <1>30, <1>31,
     <1>32
  DEF Next, World, TNext, WNext, PNext, FNext, KNext

(* No line ends before the start of the file.                              *)
LEMMA NothingBelowZero == LinesBelow(0) = {}
  BY FollowerAssumption DEF LinesBelow, Lines, Positions

(* Every step keeps the saved positions covered.                           *)
LEMMA SavedStep == IInv /\ [Next]_vars => SavedCovered'
<1> SUFFICES ASSUME IInv, [Next]_vars PROVE SavedCovered'
  OBVIOUS
<1> USE HandledGrows, NothingBelowZero DEF IInv, SavedCovered, ReadCovered,
            Hands, Covered, disk, tail, parser, writer, saver
<1>1. ASSUME NEW f \in Files, AppendTo(f) PROVE SavedCovered'
  BY <1>1 DEF AppendTo, Unseen, Notify, Pushed
<1>2. CASE Truncate
  BY <1>2 DEF Truncate, Unseen, Notify, Pushed
<1>3. CASE Rename
  BY <1>3 DEF Rename, Unseen, Notify, Pushed
<1>4. CASE Unlink
  BY <1>4 DEF Unlink, Unseen, Notify, Pushed
<1>5. CASE Create
  BY <1>5 DEF Create, Unseen
<1>6. CASE Resume
  BY <1>6 DEF Resume, Open
<1>7. CASE FromStart
  BY <1>7 DEF FromStart, Open
<1>8. CASE TWatch
  BY <1>8 DEF TWatch
<1>9. CASE TRead
  BY <1>9 DEF TRead, LineEnd
<1>10. CASE TEndOfFile
  BY <1>10 DEF TEndOfFile, LineEnd, AfterEOF
<1>11. CASE TSelect
  BY <1>11 DEF TSelect
<1>12. CASE TTimeout
  BY <1>12 DEF TTimeout, Expired, SameFile
<1>13. CASE TReopen
  BY <1>13 DEF TReopen
<1>14. CASE TChanged
  BY <1>14 DEF TChanged
<1>15. CASE TGone
  BY <1>15 DEF TGone
<1>16. CASE WDrop
  BY <1>16 DEF WDrop
<1>17. CASE TWatchError
  BY <1>17 DEF TWatchError
<1>18. CASE PReceive
  BY <1>18 DEF PReceive
<1>19. CASE PEmit
  BY <1>19 DEF PEmit
<1>20. CASE PUpdate
  BY <1>20 DEF PUpdate, ReachedEOF
<1>21. CASE PEnd
  BY <1>21 DEF PEnd
<1>22. CASE DInsert
  BY <1>22 DEF DInsert, Inserted
<1>23. ASSUME NEW l \in orphans, DInsertOrphan(l) PROVE SavedCovered'
  BY <1>23 DEF DInsertOrphan, Inserted
<1>24. CASE FCopy
  BY <1>24 DEF FCopy
<1>25. CASE FSave
  BY <1>25 DEF FSave
<1>26. ASSUME NEW p \in leaked, FLeaked(p) PROVE SavedCovered'
  BY <1>26 DEF FLeaked
<1>27. CASE KStop
  BY <1>27 DEF KStop
<1>28. CASE KClose
  BY <1>28 DEF KClose
<1>29. CASE KSave
  BY <1>29 DEF KSave
<1>30. CASE PCloseTail
  BY <1>30 DEF PCloseTail
<1>31. CASE Crash
  BY <1>31 DEF Crash
<1>32. CASE UNCHANGED vars
  BY <1>32 DEF vars
<1> HIDE DEF IInv, SavedCovered, ReadCovered, Hands, Covered, vars
<1> QED
  BY <1>1, <1>2, <1>3, <1>4, <1>5, <1>6, <1>7, <1>8, <1>9, <1>10, <1>11,
     <1>12, <1>13, <1>14, <1>15, <1>16, <1>17, <1>18, <1>19, <1>20, <1>21,
     <1>22, <1>23, <1>24, <1>25, <1>26, <1>27, <1>28, <1>29, <1>30, <1>31,
     <1>32
  DEF Next, World, TNext, WNext, PNext, FNext, KNext

(* More lines end before a later position, and exactly one more two half   *)
(* lines on.                                                               *)
LEMMA LinesBelowGrows ==
  /\ \A p, q \in Nat : p <= q => LinesBelow(p) \subseteq LinesBelow(q)
  /\ \A l \in Lines : LinesBelow(l + 2) = LinesBelow(l) \cup {l}
<1>1. ASSUME NEW p \in Nat, NEW q \in Nat, p <= q
      PROVE  LinesBelow(p) \subseteq LinesBelow(q)
  BY <1>1, FollowerAssumption DEF LinesBelow, Lines, Positions
<1>2. ASSUME NEW l \in Lines, NEW k \in LinesBelow(l + 2), k # l
      PROVE  k \in LinesBelow(l)
  BY <1>2, FollowerAssumption, EvenLines DEF LinesBelow, Lines, Positions
<1>3. ASSUME NEW l \in Lines
      PROVE  l \in LinesBelow(l + 2) /\ LinesBelow(l) \subseteq LinesBelow(l + 2)
  BY FollowerAssumption DEF LinesBelow, Lines, Positions
<1> QED
  BY <1>1, <1>2, <1>3

(* Every step keeps what T has passed on covered.                          *)
LEMMA ReadStep == IInv /\ [Next]_vars => ReadCovered'
<1> SUFFICES ASSUME IInv, [Next]_vars PROVE ReadCovered'
  OBVIOUS
<1> USE HandledGrows, NothingBelowZero DEF IInv, SavedCovered, ReadCovered,
            Hands, Covered, SameFileAlways, Sent, TypeOK, disk, tail, parser,
            writer, saver
<1>1. ASSUME NEW f \in Files, AppendTo(f) PROVE ReadCovered'
  BY <1>1 DEF AppendTo, Unseen, Notify, Pushed
<1>2. CASE Truncate
  BY <1>2 DEF Truncate, Unseen, Notify, Pushed
<1>3. CASE Rename
  BY <1>3 DEF Rename, Unseen, Notify, Pushed
<1>4. CASE Unlink
  BY <1>4 DEF Unlink, Unseen, Notify, Pushed
<1>5. CASE Create
  BY <1>5 DEF Create, Unseen
<1>6. CASE Resume
  <2>1. /\ rpos' = posDB /\ lpos' = posDB /\ toff' = 0 /\ Sent' = posDB
        /\ posDB \in Nat /\ UNCHANGED replaced
    BY <1>6, Bounds DEF Resume, Open
  <2>2. Handled \subseteq Handled' /\ (~replaced => LinesBelow(posDB) \subseteq Handled)
    OBVIOUS
  <2> QED
    BY <2>1, <2>2 DEF LinesBelow
<1>7. CASE FromStart
  BY <1>7 DEF FromStart, Open
<1>8. CASE TWatch
  BY <1>8 DEF TWatch
<1>9. CASE TRead
  BY <1>9 DEF TRead, LineEnd
<1>10. CASE TEndOfFile
  <2>1. /\ rpos' = rpos /\ toff' = rpos /\ Sent = rpos /\ Sent' = rpos
        /\ rpos \in Nat /\ ReadCovered
        /\ UNCHANGED <<replaced, kpc, ppc, pline, lpos>> /\ Handled' = Handled
    BY <1>10, Bounds DEF TEndOfFile, AfterEOF, Handled
  <2> QED
    BY <2>1 DEF LinesBelow
<1>11. CASE TSelect
  BY <1>11 DEF TSelect
<1>12. CASE TTimeout
  BY <1>12 DEF TTimeout, Expired, SameFile
<1>13. CASE TReopen
  BY <1>13 DEF TReopen
<1>14. CASE TChanged
  BY <1>14 DEF TChanged
<1>15. CASE TGone
  BY <1>15 DEF TGone
<1>16. CASE WDrop
  BY <1>16 DEF WDrop
<1>17. CASE TWatchError
  BY <1>17 DEF TWatchError
<1>18. CASE PReceive
  <2> USE <1>18 DEF PReceive
  <2>1. Sent = line /\ Sent' = line + 2 /\ line \in Lines
    OBVIOUS
  <2>2. LinesBelow(line + 2) = LinesBelow(line) \cup {line}
    BY <2>1, LinesBelowGrows
  <2>3. line \in Handled' \cup (IF ppc' = "emit" THEN {pline'} ELSE {})
    BY DEF Handled
  <2>4. toff <= line => toff <= line + 2
    BY <2>1, Bounds
  <2> QED
    BY <2>1, <2>2, <2>3, <2>4
<1>19. CASE PEmit
  <2> USE <1>19 DEF PEmit
  <2>1. pline # None
    BY Bounds, FollowerAssumption
  <2>2. pline \in Handled'
    BY <2>1 DEF Handled
  <2> QED
    BY <2>2
<1>20. CASE PUpdate
  <2> USE <1>20 DEF PUpdate, ReachedEOF
  <2>1. Sent \in Nat /\ toff \in Nat
    BY Bounds
  <2>2. toff <= Sent => LinesBelow(toff) \subseteq LinesBelow(Sent)
    BY <2>1, LinesBelowGrows
  <2> QED
    BY <2>2
<1>21. CASE PEnd
  BY <1>21 DEF PEnd
<1>22. CASE DInsert
  BY <1>22 DEF DInsert, Inserted
<1>23. ASSUME NEW l \in orphans, DInsertOrphan(l) PROVE ReadCovered'
  BY <1>23 DEF DInsertOrphan, Inserted
<1>24. CASE FCopy
  BY <1>24 DEF FCopy
<1>25. CASE FSave
  BY <1>25 DEF FSave
<1>26. ASSUME NEW p \in leaked, FLeaked(p) PROVE ReadCovered'
  BY <1>26 DEF FLeaked
<1>27. CASE KStop
  BY <1>27 DEF KStop
<1>28. CASE KClose
  BY <1>28 DEF KClose
<1>29. CASE KSave
  BY <1>29 DEF KSave
<1>30. CASE PCloseTail
  BY <1>30 DEF PCloseTail
<1>31. CASE Crash
  BY <1>31 DEF Crash
<1>32. CASE UNCHANGED vars
  BY <1>32 DEF vars
<1> HIDE DEF IInv, SavedCovered, ReadCovered, Hands, Covered, SameFileAlways,
             Sent, TypeOK, vars
<1> QED
  BY <1>1, <1>2, <1>3, <1>4, <1>5, <1>6, <1>7, <1>8, <1>9, <1>10, <1>11,
     <1>12, <1>13, <1>14, <1>15, <1>16, <1>17, <1>18, <1>19, <1>20, <1>21,
     <1>22, <1>23, <1>24, <1>25, <1>26, <1>27, <1>28, <1>29, <1>30, <1>31,
     <1>32
  DEF Next, World, TNext, WNext, PNext, FNext, KNext

(* The process starts in the invariant.                                    *)
LEMMA InitIInv == Init => IInv
<1> SUFFICES ASSUME Init PROVE IInv
  OBVIOUS
<1> USE DEF Init
<1>1. TypeOK
  <2>1. path \in Files \cup {0} /\ made \in Files
    BY FollowerAssumption DEF Files
  <2>2. 0 \in Positions /\ 0 \in 0 .. MaxCuts
    BY FollowerAssumption DEF Positions
  <2>3. size \in [Files -> Positions] /\ cuts \in 0 .. MaxCuts /\ evq \in Seq(EventKinds)
    BY <2>2
  <2> QED
    BY <2>1, <2>2, <2>3 DEF TypeOK
<1>2. Evens
  BY EvenLines DEF Evens
<1>3. Hands
  BY DEF Hands
<1>4. SameFileAlways /\ SavedCovered /\ ReadCovered
  BY NothingBelowZero DEF SameFileAlways, SavedCovered, ReadCovered, Covered
<1> QED
  BY <1>1, <1>2, <1>3, <1>4 DEF IInv

(* Every step keeps it.                                                    *)
LEMMA NextIInv == IInv /\ [Next]_vars => IInv'
  BY TypeStep, EvensStep, HandsStep, SameFileStep, SavedStep, ReadStep DEF
     IInv

(* The inductive invariant holds in every reachable state.                 *)
THEOREM Invariance == Spec => []IInv
  BY InitIInv, NextIInv, PTL DEF Spec

(* Every variable keeps its type; records are whole lines of the file.     *)
THEOREM TypeCorrect == Spec => []TypeOK
<1>1. IInv => TypeOK
  BY DEF IInv
<1> QED
  BY <1>1, Invariance, PTL

(* A tail passes on whole lines without a gap while the file only grows    *)
(* (follower.go:150-166, file.go:92-108).                                  *)
THEOREM NoLineSkipped == Spec => []NothingSkipped
<1>1. IInv => NothingSkipped
  <2> SUFFICES ASSUME IInv, ~replaced, kpc # "none"
               PROVE  /\ Sent % 2 = 0
                      /\ LinesBelow(Sent) \subseteq Handled \cup {pline}
    BY DEF NothingSkipped
  <2>1. Sent % 2 = 0
    BY DEF IInv, Evens, Hands, Sent, Lines
  <2>2. LinesBelow(Sent) \subseteq Handled \cup {pline}
    BY DEF IInv, ReadCovered
  <2> QED
    BY <2>1, <2>2
<1> QED
  BY <1>1, Invariance, PTL

(* A restart from any position that was ever saved skips no line that was  *)
(* not recorded, unparsable, or lost with the one insert it was in         *)
(* (file.go:107-111, directory.go:113-124, 341-343).                       *)
THEOREM RestartSkipsNothing == Spec => []SavedPositionCovered
<1>1. IInv => SavedPositionCovered
  BY DEF IInv, SavedCovered, Covered, SavedPositionCovered
<1> QED
  BY <1>1, Invariance, PTL

-----------------------------------------------------------------------------
(***************************************************************************)
(* That the goroutines of a file object deliver the lines of their file as *)
(* LineDelivery says, for files of any length, any unparsable lines and    *)
(* any failures.  Init maps to Init, and each step maps to a step of       *)
(* LineDelivery or changes nothing there.  Two facts are needed beyond the *)
(* inductive invariant above: no position is behind the end of the file,   *)
(* so that T never goes back to its start, and a line P is about to hand   *)
(* over is the last one T has passed on.                                   *)
(***************************************************************************)

(* Until the file is replaced, no position is beyond its end.              *)
WithinFile ==
  ~replaced =>
    /\ rpos <= size[1] /\ toff <= size[1] /\ lpos <= size[1] /\ posDB <= size[1]
    /\ fcopy # None => fcopy <= size[1]
    /\ \A p \in leaked : p <= size[1]

(* P works only for a file object that is not closed yet; the line it      *)
(* hands to the writer can be recorded and is the last T has passed on.    *)
Passing ==
  /\ ppc \in {"select", "emit", "update"} => Following
  /\ ppc = "emit" => pline \notin Unparsable
  /\ ppc = "emit" /\ ~replaced => Sent = pline + 2

(* What holds in every reachable state and the refinement needs.           *)
RInv == IInv /\ WithinFile /\ Passing

(* The first file is one of the files.                                     *)
LEMMA FilesHaveOne == 1 \in Files
  BY FollowerAssumption DEF Files

(* Every step keeps positions within the file.                             *)
LEMMA WithinStep == RInv /\ [Next]_vars => WithinFile'
<1> SUFFICES ASSUME RInv, [Next]_vars, ~replaced' PROVE WithinFile'
  BY DEF WithinFile
<1>0. size[1] \in Nat /\ (size[1])' \in Nat /\ rpos \in Nat /\ posDB \in Nat
  <2>1. TypeOK /\ TypeOK' /\ 1 \in Files
    BY TypeStep, FollowerAssumption DEF RInv, IInv, Files
  <2> QED
    BY <2>1, Bounds DEF TypeOK
<1> USE <1>0, FollowerAssumption DEF RInv, IInv, TypeOK, SameFileAlways,
        WithinFile, disk, tail, parser, writer, saver
<1>1. ASSUME NEW f \in Files, AppendTo(f) PROVE WithinFile'
  BY <1>1 DEF AppendTo, Unseen
<1>2. CASE Truncate
  BY <1>2 DEF Truncate, Unseen
<1>3. CASE Rename
  BY <1>3 DEF Rename, Unseen
<1>4. CASE Unlink
  BY <1>4 DEF Unlink, Unseen
<1>5. CASE Create
  BY <1>5 DEF Create, Unseen
<1>6. CASE Resume
  BY <1>6 DEF Resume, Open
<1>7. CASE FromStart
  BY <1>7 DEF FromStart, Open
<1>8. CASE TWatch
  BY <1>8 DEF TWatch
<1>9. CASE TRead
  BY <1>9 DEF TRead
<1>10. CASE TEndOfFile
  BY <1>10 DEF TEndOfFile, AfterEOF
<1>11. CASE TSelect
  BY <1>11 DEF TSelect
<1>12. CASE TTimeout
  BY <1>12 DEF TTimeout, Expired, SameFile
<1>13. CASE TReopen
  BY <1>13 DEF TReopen
<1>14. CASE TChanged
  BY <1>14 DEF TChanged
<1>15. CASE TGone
  BY <1>15 DEF TGone
<1>16. CASE WDrop
  BY <1>16 DEF WDrop
<1>17. CASE TWatchError
  BY <1>17 DEF TWatchError
<1>18. CASE PReceive
  BY <1>18 DEF PReceive
<1>19. CASE PEmit
  BY <1>19 DEF PEmit
<1>20. CASE PUpdate
  BY <1>20 DEF PUpdate, ReachedEOF
<1>21. CASE PEnd
  BY <1>21 DEF PEnd
<1>22. CASE DInsert
  BY <1>22 DEF DInsert, Inserted
<1>23. ASSUME NEW l \in orphans, DInsertOrphan(l) PROVE WithinFile'
  BY <1>23 DEF DInsertOrphan, Inserted
<1>24. CASE FCopy
  BY <1>24 DEF FCopy
<1>25. CASE FSave
  BY <1>25 DEF FSave
<1>26. ASSUME NEW p \in leaked, FLeaked(p) PROVE WithinFile'
  BY <1>26 DEF FLeaked
<1>27. CASE KStop
  BY <1>27 DEF KStop
<1>28. CASE KClose
  BY <1>28 DEF KClose
<1>29. CASE KSave
  BY <1>29 DEF KSave
<1>30. CASE PCloseTail
  BY <1>30 DEF PCloseTail
<1>31. CASE Crash
  BY <1>31 DEF Crash
<1>32. CASE UNCHANGED vars
  BY <1>32 DEF vars
<1> HIDE DEF RInv, IInv, TypeOK, SameFileAlways, WithinFile, vars
<1> QED
  BY <1>1, <1>2, <1>3, <1>4, <1>5, <1>6, <1>7, <1>8, <1>9, <1>10, <1>11,
     <1>12, <1>13, <1>14, <1>15, <1>16, <1>17, <1>18, <1>19, <1>20, <1>21,
     <1>22, <1>23, <1>24, <1>25, <1>26, <1>27, <1>28, <1>29, <1>30, <1>31,
     <1>32
  DEF Next, World, TNext, WNext, PNext, FNext, KNext

(* T never finds its file shorter than it was (follower.go:195-203).       *)
LEMMA NeverCut == RInv /\ ~replaced /\ tpc = "select" => ~(toff > size[fd])
<1>1. TypeOK => toff \in Nat /\ size[1] \in Nat
  BY FilesHaveOne, Bounds DEF TypeOK
<1>2. RInv /\ ~replaced /\ tpc = "select" => fd = 1 /\ toff <= size[1] /\ TypeOK
  BY DEF RInv, IInv, SameFileAlways, WithinFile
<1> QED
  BY <1>1, <1>2

(* Every step keeps P at the last line passed on.                          *)
LEMMA PassingStep == RInv /\ [Next]_vars => Passing'
<1> SUFFICES ASSUME RInv, [Next]_vars PROVE Passing'
  OBVIOUS
<1> USE FollowerAssumption DEF RInv, IInv, TypeOK, SameFileAlways, WithinFile,
        Passing, Following, Sent, Hands, disk, tail, parser, writer, saver
<1>1. ASSUME NEW f \in Files, AppendTo(f) PROVE Passing'
  BY <1>1 DEF AppendTo, Unseen
<1>2. CASE Truncate
  BY <1>2 DEF Truncate, Unseen
<1>3. CASE Rename
  BY <1>3 DEF Rename, Unseen
<1>4. CASE Unlink
  BY <1>4 DEF Unlink, Unseen
<1>5. CASE Create
  BY <1>5 DEF Create, Unseen
<1>6. CASE Resume
  BY <1>6 DEF Resume, Open
<1>7. CASE FromStart
  BY <1>7 DEF FromStart, Open
<1>8. CASE TWatch
  BY <1>8 DEF TWatch
<1>9. CASE TRead
  BY <1>9 DEF TRead
<1>10. CASE TEndOfFile
  BY <1>10 DEF TEndOfFile, AfterEOF
<1>11. CASE TSelect
  BY <1>11 DEF TSelect
<1>12. CASE TTimeout
  BY <1>12 DEF TTimeout, Expired, SameFile
<1>13. CASE TReopen
  BY <1>13 DEF TReopen
<1>14. CASE TChanged
  <2> USE <1>14 DEF TChanged
  <2>1. ~replaced => ~(toff > size[fd])
    BY NeverCut
  <2> QED
    BY <2>1
<1>15. CASE TGone
  BY <1>15 DEF TGone
<1>16. CASE WDrop
  BY <1>16 DEF WDrop
<1>17. CASE TWatchError
  BY <1>17 DEF TWatchError
<1>18. CASE PReceive
  BY <1>18 DEF PReceive
<1>19. CASE PEmit
  BY <1>19 DEF PEmit
<1>20. CASE PUpdate
  BY <1>20 DEF PUpdate, ReachedEOF
<1>21. CASE PEnd
  BY <1>21 DEF PEnd
<1>22. CASE DInsert
  BY <1>22 DEF DInsert, Inserted
<1>23. ASSUME NEW l \in orphans, DInsertOrphan(l) PROVE Passing'
  BY <1>23 DEF DInsertOrphan, Inserted
<1>24. CASE FCopy
  BY <1>24 DEF FCopy
<1>25. CASE FSave
  BY <1>25 DEF FSave
<1>26. ASSUME NEW p \in leaked, FLeaked(p) PROVE Passing'
  BY <1>26 DEF FLeaked
<1>27. CASE KStop
  BY <1>27 DEF KStop
<1>28. CASE KClose
  BY <1>28 DEF KClose
<1>29. CASE KSave
  BY <1>29 DEF KSave
<1>30. CASE PCloseTail
  BY <1>30 DEF PCloseTail
<1>31. CASE Crash
  BY <1>31 DEF Crash
<1>32. CASE UNCHANGED vars
  BY <1>32 DEF vars
<1> HIDE DEF RInv, IInv, TypeOK, SameFileAlways, WithinFile, Passing, Following, Sent, Hands, vars
<1> QED
  BY <1>1, <1>2, <1>3, <1>4, <1>5, <1>6, <1>7, <1>8, <1>9, <1>10, <1>11,
     <1>12, <1>13, <1>14, <1>15, <1>16, <1>17, <1>18, <1>19, <1>20, <1>21,
     <1>22, <1>23, <1>24, <1>25, <1>26, <1>27, <1>28, <1>29, <1>30, <1>31,
     <1>32
  DEF Next, World, TNext, WNext, PNext, FNext, KNext

(* The positions LineDelivery calls covered are those of FollowerProofs.   *)
LEMMA SameCover == \A p \in Nat : Covered(p) => Delivery!Covered(p)
  BY FollowerAssumption
  DEF Covered, LinesBelow, Handled, Delivery!Covered, Delivery!DealtWith

(* What T has passed on is in the file.                                    *)
LEMMA LastSentWithin ==
  RInv /\ ~replaced /\ ppc = "emit" => Sent = pline + 2 /\ Sent <= size[1]
<1> SUFFICES ASSUME RInv, ~replaced, ppc = "emit"
             PROVE  Sent = pline + 2 /\ Sent <= size[1]
  OBVIOUS
<1>1. Sent = pline + 2
  BY DEF RInv, Passing
<1>2. rpos <= size[1] /\ rpos \in Nat /\ size[1] \in Nat
  BY Bounds, FilesHaveOne DEF RInv, WithinFile, IInv, TypeOK
<1>3. CASE tpc = "send"
  <2>1. line \in Nat /\ rpos = line + 2
    BY <1>3, Bounds DEF RInv, IInv, Hands
  <2> QED
    BY <1>1, <1>2, <1>3, <2>1 DEF Sent
<1>4. CASE tpc # "send"
  BY <1>1, <1>2, <1>4 DEF Sent
<1> QED
  BY <1>3, <1>4

(* Every step is one of LineDelivery or changes nothing there.             *)
LEMMA StepDelivers ==
  RInv /\ TypeOK' /\ [Next]_vars => [Delivery!Next]_(Delivery!delivery)
<1> DEFINE Maps == Delivery!Next \/ UNCHANGED Delivery!delivery
<1> SUFFICES ASSUME RInv, TypeOK', [Next]_vars, ~replaced' PROVE Maps
  BY DEF Delivery!Next
<1> USE FollowerAssumption DEF RInv, IInv, TypeOK, SameFileAlways, Passing,
        Following, Sent, Hands, Delivery!Next, Delivery!delivery, disk, tail,
        parser, writer, saver
<1>1. ASSUME NEW f \in Files, AppendTo(f) PROVE Maps
  <2> USE <1>1 DEF AppendTo, Unseen
  <2>1. CASE f = 1
    <3>1. size[1] \in Nat /\ (size[1])' = size[1] + 1
      BY <2>1, Bounds
    <3> QED
      BY <3>1 DEF Delivery!Grow
  <2>2. CASE f # 1
    <3>1. (size[1])' = size[1]
      BY <2>2, FilesHaveOne
    <3> QED
      BY <3>1
  <2> QED
    BY <2>1, <2>2
<1>2. CASE Truncate
  BY <1>2 DEF Truncate, Unseen
<1>3. CASE Rename
  BY <1>3 DEF Rename, Unseen
<1>4. CASE Unlink
  BY <1>4 DEF Unlink, Unseen
<1>5. CASE Create
  BY <1>5 DEF Create, Unseen
<1>6. CASE Resume
  BY <1>6, Bounds DEF Resume, Open, Delivery!Start
<1>7. CASE FromStart
  BY <1>7, Bounds DEF FromStart, Open, Delivery!Start
<1>8. CASE TWatch
  BY <1>8 DEF TWatch
<1>9. CASE TRead
  BY <1>9 DEF TRead
<1>10. CASE TEndOfFile
  BY <1>10 DEF TEndOfFile, AfterEOF
<1>11. CASE TSelect
  BY <1>11 DEF TSelect
<1>12. CASE TTimeout
  BY <1>12 DEF TTimeout, Expired, SameFile
<1>13. CASE TReopen
  BY <1>13 DEF TReopen
<1>14. CASE TChanged
  BY <1>14, NeverCut DEF TChanged
<1>15. CASE TGone
  BY <1>15 DEF TGone
<1>16. CASE WDrop
  BY <1>16 DEF WDrop
<1>17. CASE TWatchError
  BY <1>17 DEF TWatchError
<1>18. CASE PReceive
  <2> USE <1>18 DEF PReceive
  <2>1. line \in Lines /\ rpos = line + 2 /\ rpos <= size[1] /\ line # None
    BY Bounds DEF WithinFile
  <2>2. CASE line \in Unparsable
    BY <2>1, <2>2 DEF Delivery!Take
  <2>3. CASE line \notin Unparsable
    BY <2>1, <2>3
  <2> QED
    BY <2>2, <2>3
<1>19. CASE PEmit
  <2> USE <1>19 DEF PEmit
  <2>1. pline \in Lines /\ pline # None /\ pline \notin Unparsable
    BY Bounds
  <2>2. Sent = pline + 2 /\ Sent <= size[1]
    BY LastSentWithin
  <2>3. orphans' \cup ({dline'} \ {None}) = orphans \cup ({dline} \ {None}) \cup {pline}
    BY <2>1
  <2> QED
    BY <2>1, <2>2, <2>3 DEF Delivery!Take
<1>20. CASE PUpdate
  BY <1>20 DEF PUpdate, ReachedEOF
<1>21. CASE PEnd
  BY <1>21 DEF PEnd
<1>22. CASE DInsert
  <2> USE <1>22 DEF DInsert, Inserted
  <2>1. Delivery!Landed(dline)
    BY DEF Delivery!Landed
  <2> QED
    BY <2>1 DEF Delivery!Record, Delivery!Lose
<1>23. ASSUME NEW l \in orphans, DInsertOrphan(l) PROVE Maps
  BY <1>23 DEF DInsertOrphan, Inserted, Delivery!Record, Delivery!Lose, Delivery!Landed
<1>24. CASE FCopy
  BY <1>24 DEF FCopy
<1>25. CASE FSave
  <2> USE <1>25 DEF FSave
  <2>1. fcopy \in Nat /\ Covered(fcopy)
    BY Bounds DEF SavedCovered
  <2>2. Delivery!Covered(fcopy)
    BY <2>1, SameCover
  <2> QED
    BY <2>2 DEF Delivery!Save
<1>26. ASSUME NEW p \in leaked, FLeaked(p) PROVE Maps
  <2> USE <1>26 DEF FLeaked
  <2>1. p \in Nat /\ Covered(p)
    BY Bounds DEF SavedCovered
  <2>2. Delivery!Covered(p)
    BY <2>1, SameCover
  <2> QED
    BY <2>2 DEF Delivery!Save
<1>27. CASE KStop
  BY <1>27 DEF KStop
<1>28. CASE KClose
  BY <1>28 DEF KClose, Delivery!Stop
<1>29. CASE KSave
  <2> USE <1>29 DEF KSave
  <2>1. lpos \in Nat /\ Covered(lpos)
    BY Bounds DEF ReadCovered
  <2>2. Delivery!Covered(lpos)
    BY <2>1, SameCover
  <2> QED
    BY <2>2 DEF Delivery!Save
<1>30. CASE PCloseTail
  BY <1>30 DEF PCloseTail
<1>31. CASE Crash
  BY <1>31 DEF Crash, Delivery!Crash
<1>32. CASE UNCHANGED vars
  BY <1>32 DEF vars
<1> HIDE DEF RInv, IInv, TypeOK, SameFileAlways, Passing, Following, Sent,
             Hands, Maps, Delivery!Next, Delivery!delivery, vars
<1> QED
  BY <1>1, <1>2, <1>3, <1>4, <1>5, <1>6, <1>7, <1>8, <1>9, <1>10, <1>11,
     <1>12, <1>13, <1>14, <1>15, <1>16, <1>17, <1>18, <1>19, <1>20, <1>21,
     <1>22, <1>23, <1>24, <1>25, <1>26, <1>27, <1>28, <1>29, <1>30, <1>31,
     <1>32
  DEF Next, World, TNext, WNext, PNext, FNext, KNext

(* The process starts in the invariant, and where LineDelivery starts.     *)
LEMMA InitDelivers == Init => RInv /\ Delivery!Init
<1> SUFFICES ASSUME Init PROVE RInv /\ Delivery!Init
  OBVIOUS
<1>1. WithinFile
  <2>1. size[1] = 0
    BY FollowerAssumption DEF Init, Files
  <2> QED
    BY <2>1 DEF Init, WithinFile
<1>2. Passing
  BY DEF Init, Passing
<1>3. Delivery!Init
  <2>1. size[1] = 0
    BY FollowerAssumption DEF Init, Files
  <2> QED
    BY <2>1 DEF Init, Delivery!Init, Following
<1> QED
  BY <1>1, <1>2, <1>3, InitIInv DEF RInv

(* The inductive invariant with what the refinement adds.                  *)
THEOREM RefinementInvariant == Spec => []RInv
<1>1. Init => RInv
  BY InitDelivers
<1>2. RInv /\ [Next]_vars => RInv'
  BY NextIInv, WithinStep, PassingStep DEF RInv
<1> QED
  BY <1>1, <1>2, PTL DEF Spec

(* While the file at the path only grows, every behaviour of the tail, its *)
(* parser, its writer and its flusher is one of LineDelivery: lines are    *)
(* taken in order from a covered position and none is skipped, whatever    *)
(* fails (file.go:67-121, follower.go:140-180).                            *)
THEOREM DeliversLines == Spec => ImplementsDelivery
<1>1. Init => Delivery!Init
  BY InitDelivers
<1>2. RInv /\ [Next]_vars => [Delivery!Next]_(Delivery!delivery)
  BY StepDelivers, TypeStep DEF RInv
<1> QED
  BY <1>1, <1>2, RefinementInvariant, PTL
  DEF Spec, ImplementsDelivery, Delivery!Spec
=============================================================================

-------------------------- MODULE RuleServerProofs --------------------------
(***************************************************************************)
(* RuleServer's type invariant, its critical sections and the lifetime of  *)
(* its workers, for any number of rules, texts, handlers, directories and  *)
(* any behaviour of the database.  None of the three safety invariants is  *)
(* inductive alone: that a close reaches a track goroutine that still      *)
(* listens needs what is listed, which needs what the holder of the mutex  *)
(* has in its local variables.  IInv is their conjunction with that.       *)
(***************************************************************************)
EXTENDS RuleServer, TLAPS

(* The documents COMMIT can have written.                                  *)
GoodDocs == [value : WellFormed, isopen : BOOLEAN]

(* The local variables a handler reads are set where it reads them, and    *)
(* hold values the checks before have let through.                         *)
Locals ==
  \A h \in Handlers :
    /\ pc[h] # "idle" => call[h].rule \in Rules
    /\ pc[h] \in {"commitSet", "dropDel", "dropLib", "dropRollback"} =>
         call[h].text \in WellFormed
    /\ pc[h] \in {"startExists", "addRun", "addInsert", "startSet", "delLock",
                  "delSend", "delDelete", "stopExists", "stopSet"} =>
         call[h].p \in GoodDocs
    /\ pc[h] \in Critical => call[h].d \in Dirs

(* No handler runs before the server serves, and none after it died.       *)
Quiet == phase # "up" => mu = None /\ \A h \in Handlers : pc[h] = "idle"

(* NewServer loads documents that exist, and only while it boots.          *)
Loading == /\ \A r \in toLoad : doc[r] # None
           /\ phase # "boot" => toLoad = {}

(* Del stops the worker that is listed: nobody relists the rule meanwhile. *)
Stopping == \A h \in Handlers :
  pc[h] \in {"delSend", "delDelete"} => workers[call[h].rule] = call[h].d

(* Add is about to list a directory it made itself, for its own rule, and  *)
(* which nothing lists yet.                                                *)
Adding == \A h \in Handlers : pc[h] = "addInsert" =>
  /\ dir[call[h].d] # None
  /\ dir[call[h].d].rule = call[h].rule
  /\ dir[call[h].d].st = "mining"
  /\ \A r \in Rules : workers[r] # call[h].d

(* What relates the stores the handlers share.                             *)
Shared == Quiet /\ Loading /\ MutexHeld /\ ListedWorkerIsLive /\ Stopping /\ Adding

(* The inductive invariant.                                                *)
IInv == TypeOK /\ Locals /\ Shared

(* Setting a local variable, or clearing them all, keeps a handler's local *)
(* variables well typed.                                                   *)
LEMMA CallFieldP ==
  ASSUME call \in [Handlers -> Calls], NEW h \in Handlers, NEW p \in Docs
  PROVE  [call EXCEPT ![h].p = p] \in [Handlers -> Calls]
<1> DEFINE c == call[h]
<1>1. c \in Calls
  OBVIOUS
<1>2. [c EXCEPT !.p = p] \in Calls
  BY <1>1, SMT DEF Calls, Ops, Docs
<1> QED
  BY <1>2, Zenon

LEMMA CallFieldD ==
  ASSUME call \in [Handlers -> Calls], NEW h \in Handlers, NEW d \in Dirs \cup {None}
  PROVE  [call EXCEPT ![h].d = d] \in [Handlers -> Calls]
<1> DEFINE c == call[h]
<1>1. c \in Calls
  OBVIOUS
<1>2. [c EXCEPT !.d = d] \in Calls
  BY <1>1, SMT DEF Calls, Ops, Docs
<1> QED
  BY <1>2, Zenon

LEMMA CallReply ==
  ASSUME call \in [Handlers -> Calls], NEW h \in Handlers
  PROVE  [call EXCEPT ![h] = NoCall] \in [Handlers -> Calls]
<1>1. NoCall \in Calls
  BY SMT DEF Calls, NoCall, Ops, Docs
<1> QED
  BY <1>1, Zenon

(* Every step of the server keeps every variable well typed.               *)
LEMMA TypeStep == IInv /\ [Next]_vars => TypeOK'
<1> SUFFICES ASSUME IInv, [Next]_vars PROVE TypeOK'
  OBVIOUS
<1> USE RuleServerAssumption DEF IInv, Shared, TypeOK, Locals, Loading,
            Quiet, vars, mining, handler, boot, At, Docs, GoodDocs, DirRecs,
            NoCall, Labels, Ops, Calls, WellFormed, Critical, Outcomes
<1>a. call \in [Handlers -> Calls]
  OBVIOUS
<1>1. ASSUME NEW h \in Handlers, NEW r \in Rules, NEW t \in Texts,
           ExecSet(h, r, t)
    PROVE  TypeOK'
  BY <1>1 DEF ExecSet, Rejected
<1>2. ASSUME NEW h \in Handlers, NEW r \in Rules,
           ExecCommit(h, r)
    PROVE  TypeOK'
  BY <1>2 DEF ExecCommit, Begin
<1>3. ASSUME NEW h \in Handlers, NEW op \in {"START", "STOP"}, NEW r \in Rules,
           ExecRunner(h, op, r)
    PROVE  TypeOK'
  BY <1>3 DEF ExecRunner, Begin
<1>4. ASSUME NEW h \in Handlers, NEW r \in Rules, ExecDrop(h, r) PROVE TypeOK'
  BY <1>4 DEF ExecDrop, Begin
<1>5. ASSUME NEW h \in Handlers, NEW r \in Rules, ExecList(h, r) PROVE TypeOK'
  BY <1>5 DEF ExecList, Begin
<1>6. ASSUME NEW h \in Handlers, CommitSet(h) PROVE TypeOK'
  BY <1>6, SMTT(30) DEF CommitSet, Reply, Stored, Recorded
<1>7. ASSUME NEW h \in Handlers, RunnerGet(h) PROVE TypeOK'
  <2> USE <1>7 DEF RunnerGet
  <2>1. call' \in [Handlers -> Calls]
    <3>1. doc[call[h].rule] # None => doc[call[h].rule] \in Docs
      OBVIOUS
    <3> DEFINE p == doc[call[h].rule]
    <3>2. \/ call' = [call EXCEPT ![h] = NoCall]
          \/ p # None /\ call' = [call EXCEPT ![h].p = p]
      BY Zenon DEF Reply
    <3> HIDE DEF p
    <3>3. CASE call' = [call EXCEPT ![h] = NoCall]
      BY ONLY <3>3, <1>a, h \in Handlers, CallReply
    <3>4. CASE p # None /\ call' = [call EXCEPT ![h].p = p]
      <4>1. p \in Docs
        BY ONLY <3>1, <3>4 DEF p
      <4> QED
        BY ONLY <3>4, <4>1, <1>a, h \in Handlers, CallFieldP
    <3> QED
      BY ONLY <3>2, <3>3, <3>4, Zenon
  <2>2. pc' \in [Handlers -> Labels]
    <3>1. \E l \in Labels : pc' = [pc EXCEPT ![h] = l]
      BY Zenon DEF Reply
    <3> QED
      BY <3>1
  <2> QED
    BY <2>1, <2>2
<1>8. ASSUME NEW h \in Handlers, StartExists(h) PROVE TypeOK'
  BY <1>8 DEF StartExists, Reply, Goto, Exists
<1>9. ASSUME NEW h \in Handlers, AddRun(h) PROVE TypeOK'
  <2> USE <1>9 DEF AddRun
  <2>1. call' \in [Handlers -> Calls]
    <3>1. \/ call' = [call EXCEPT ![h] = NoCall]
          \/ \E d \in Dirs \cup {None} : call' = [call EXCEPT ![h].d = d]
      BY SMT DEF Reply, Startable, NewDir, LockFree, MuAfterFailedAdd
    <3> QED
      BY ONLY <3>1, <1>a, h \in Handlers, CallFieldD, CallReply
  <2>2. pc' \in [Handlers -> Labels]
    BY DEF Reply, Startable, NewDir, LockFree, MuAfterFailedAdd
  <2> QED
    BY <2>1, <2>2 DEF Reply, Startable, NewDir, LockFree, MuAfterFailedAdd
<1>10. ASSUME NEW h \in Handlers, AddInsert(h) PROVE TypeOK'
  <2> USE <1>10 DEF AddInsert
  <2>1. call' \in [Handlers -> Calls]
    <3> QED
      BY ONLY <1>a, h \in Handlers, CallFieldD, call' = [call EXCEPT ![h].d = None]
  <2>2. pc' \in [Handlers -> Labels]
    OBVIOUS
  <2>3. workers' \in [Rules -> Dirs \cup {None}]
    OBVIOUS
  <2> QED
    BY <2>1, <2>2, <2>3
<1>11. ASSUME NEW h \in Handlers, StartSet(h) PROVE TypeOK'
  BY <1>11, SMTT(30) DEF StartSet, Reply, Goto, Stored, StatusDoc, Recorded
<1>12. ASSUME NEW h \in Handlers, StopExists(h) PROVE TypeOK'
  <2> USE <1>12 DEF StopExists
  <2>1. call' \in [Handlers -> Calls]
    <3>1. call' = call \/ call' = [call EXCEPT ![h] = NoCall]
      BY SMT DEF Reply, Goto, Exists
    <3> QED
      BY ONLY <3>1, <1>a, h \in Handlers, CallFieldD, CallReply
  <2>2. pc' \in [Handlers -> Labels]
    <3>1. pc' = [pc EXCEPT ![h] = "idle"] \/ pc' = [pc EXCEPT ![h] = "delLock"]
      BY Zenon DEF Reply, Goto
    <3> QED
      BY <3>1
  <2> QED
    BY <2>1, <2>2
<1>13. ASSUME NEW h \in Handlers, DelLock(h) PROVE TypeOK'
  <2> USE <1>13 DEF DelLock
  <2>1. call' \in [Handlers -> Calls]
    <3>1. \/ call' = [call EXCEPT ![h] = NoCall]
          \/ \E d \in Dirs \cup {None} : call' = [call EXCEPT ![h].d = d]
      BY SMT DEF AfterDel, Reply, LockFree
    <3> QED
      BY ONLY <3>1, <1>a, h \in Handlers, CallFieldD, CallReply
  <2>2. pc' \in [Handlers -> Labels]
    <3>1. \/ pc' = [pc EXCEPT ![h] = "idle"]
          \/ pc' = [pc EXCEPT ![h] = "stopSet"]
          \/ pc' = [pc EXCEPT ![h] = "delSend"]
      BY Zenon DEF AfterDel, Reply
    <3> QED
      BY <3>1
  <2>3. mu' \in Handlers \cup {None}
    OBVIOUS
  <2> QED
    BY <2>1, <2>2, <2>3
<1>14. ASSUME NEW h \in Handlers, TrackClose(h) PROVE TypeOK'
  BY <1>14 DEF TrackClose, Goto
<1>15. ASSUME NEW h \in Handlers, DelDelete(h) PROVE TypeOK'
  <2> USE <1>15 DEF DelDelete
  <2>1. call' \in [Handlers -> Calls]
    <3>1. \/ call' = [call EXCEPT ![h] = NoCall]
          \/ \E d \in Dirs \cup {None} : call' = [call EXCEPT ![h].d = d]
      BY SMT DEF AfterDel, Reply, Unlisted
    <3> QED
      BY ONLY <3>1, <1>a, h \in Handlers, CallFieldD, CallReply
  <2>2. pc' \in [Handlers -> Labels]
    BY DEF AfterDel, Reply, Unlisted
  <2> QED
    BY <2>1, <2>2 DEF AfterDel, Reply, Unlisted
<1>16. ASSUME NEW h \in Handlers, StopSet(h) PROVE TypeOK'
  BY <1>16, SMTT(30) DEF StopSet, Reply, Stored, StatusDoc, Recorded
<1>17. ASSUME NEW h \in Handlers, DropExists(h) PROVE TypeOK'
  <2> USE <1>17 DEF DropExists
  <2>1. call' \in [Handlers -> Calls]
    <3>1. call' = call \/ call' = [call EXCEPT ![h] = NoCall]
      BY SMT DEF Reply, Goto, Exists
    <3> QED
      BY ONLY <3>1, <1>a, h \in Handlers, CallFieldD, CallReply
  <2>2. pc' \in [Handlers -> Labels]
    BY DEF Reply, Goto, Exists
  <2> QED
    BY <2>1, <2>2 DEF Reply, Goto, Exists
<1>18. ASSUME NEW h \in Handlers, DropGet(h) PROVE TypeOK'
  <2> USE <1>18 DEF DropGet
  <2>1. call' \in [Handlers -> Calls]
    <3>1. \/ call' = [call EXCEPT ![h] = NoCall]
          \/ \E t \in Texts : call' = [call EXCEPT ![h].text = t]
      BY SMT DEF Reply
    <3>2. ASSUME NEW t \in Texts PROVE [call EXCEPT ![h].text = t] \in [Handlers -> Calls]
      BY ONLY <1>a, h \in Handlers, t \in Texts, SMT DEF Calls
    <3> QED
      BY ONLY <3>1, <3>2, <1>a, h \in Handlers, CallReply
  <2>2. pc' \in [Handlers -> Labels]
    <3>1. pc' = [pc EXCEPT ![h] = "idle"] \/ pc' = [pc EXCEPT ![h] = "dropDel"]
      BY Zenon DEF Reply
    <3> QED
      BY <3>1
  <2> QED
    BY <2>1, <2>2
<1>19. ASSUME NEW h \in Handlers, DropDel(h) PROVE TypeOK'
  BY <1>19 DEF DropDel, Goto
<1>20. ASSUME NEW h \in Handlers, DropLib(h) PROVE TypeOK'
  BY <1>20 DEF DropLib, Goto, Stored
<1>21. ASSUME NEW h \in Handlers, DropRollback(h) PROVE TypeOK'
  BY <1>21 DEF DropRollback, Reply
<1>22. ASSUME NEW h \in Handlers, DropDoc(h) PROVE TypeOK'
  BY <1>22, SMTT(30) DEF DropDoc, Reply, Stored, RemoveFails, Recorded
<1>23. ASSUME NEW h \in Handlers, ListExists(h) PROVE TypeOK'
  BY <1>23 DEF ListExists, Reply, Goto, Exists
<1>24. ASSUME NEW h \in Handlers, ListRead(h) PROVE TypeOK'
  <2> USE <1>24 DEF ListRead
  <2>1. call' \in [Handlers -> Calls]
    <3>1. \/ call' = [call EXCEPT ![h] = NoCall]
          \/ call' = [hh \in Handlers |-> NoCall]
      BY SMT DEF Reply, Exists, Die
    <3> QED
      BY ONLY <3>1, <1>a, h \in Handlers, CallFieldD, CallReply
  <2>2. pc' \in [Handlers -> Labels]
    BY DEF Reply, Exists, Die
  <2> QED
    BY <2>1, <2>2 DEF Reply, Exists, Die
<1>25. ASSUME NEW d \in Dirs, FinishClose(d) PROVE TypeOK'
  BY <1>25 DEF FinishClose
<1>26. ASSUME NEW r \in Rules, Flush(r) PROVE TypeOK'
  BY <1>26 DEF Flush
<1>27. ASSUME NEW r \in Rules, BootRule(r) PROVE TypeOK'
  BY <1>27, SMTT(30) DEF BootRule, ResumeAtBoot, Startable, NewDir, Recorded
<1>28. ASSUME Crash PROVE TypeOK'
  BY <1>28 DEF Crash, Die
<1>29. ASSUME Boot PROVE TypeOK'
  BY <1>29 DEF Boot
<1>30. ASSUME Serve PROVE TypeOK'
  BY <1>30 DEF Serve
<1>31. CASE UNCHANGED vars
  BY <1>31
<1> HIDE DEF IInv, TypeOK, vars
<1> QED
  BY <1>1, <1>2, <1>3, <1>4, <1>5, <1>6, <1>7, <1>8, <1>9, <1>10, <1>11,
     <1>12, <1>13, <1>14, <1>15, <1>16, <1>17, <1>18, <1>19, <1>20, <1>21,
     <1>22, <1>23, <1>24, <1>25, <1>26, <1>27, <1>28, <1>29, <1>30, <1>31
  DEF Next, Request, Run

(* Every step keeps the local variables of the handlers meaningful.        *)
LEMMA LocalsStep == IInv /\ [Next]_vars => Locals'
<1> SUFFICES ASSUME IInv, [Next]_vars PROVE Locals'
  OBVIOUS
<1> USE RuleServerAssumption DEF Calls, Docs, IInv, Shared, TypeOK, Locals,
            Loading, Quiet, vars, mining, handler, boot, At, GoodDocs,
            WellFormed, Critical, NoCall
<1>1. ASSUME NEW h \in Handlers, NEW r \in Rules, NEW t \in Texts,
           ExecSet(h, r, t)
    PROVE  Locals'
  BY <1>1 DEF ExecSet, Rejected
<1>2. ASSUME NEW h \in Handlers, NEW r \in Rules,
           ExecCommit(h, r)
    PROVE  Locals'
  BY <1>2 DEF ExecCommit, Begin
<1>3. ASSUME NEW h \in Handlers, NEW op \in {"START", "STOP"}, NEW r \in Rules,
           ExecRunner(h, op, r)
    PROVE  Locals'
  BY <1>3 DEF ExecRunner, Begin
<1>4. ASSUME NEW h \in Handlers, NEW r \in Rules, ExecDrop(h, r) PROVE Locals'
  BY <1>4 DEF ExecDrop, Begin
<1>5. ASSUME NEW h \in Handlers, NEW r \in Rules, ExecList(h, r) PROVE Locals'
  BY <1>5 DEF ExecList, Begin
<1>6. ASSUME NEW h \in Handlers, CommitSet(h) PROVE Locals'
  BY <1>6 DEF CommitSet, Reply, Stored
<1>7. ASSUME NEW h \in Handlers, RunnerGet(h) PROVE Locals'
  BY <1>7 DEF RunnerGet, Reply
<1>8. ASSUME NEW h \in Handlers, StartExists(h) PROVE Locals'
  BY <1>8 DEF StartExists, Reply, Goto, Exists
<1>9. ASSUME NEW h \in Handlers, AddRun(h) PROVE Locals'
  BY <1>9 DEF AddRun, Reply, Startable, NewDir, LockFree, MuAfterFailedAdd
<1>10. ASSUME NEW h \in Handlers, AddInsert(h) PROVE Locals'
  BY <1>10 DEF AddInsert
<1>11. ASSUME NEW h \in Handlers, StartSet(h) PROVE Locals'
  BY <1>11 DEF StartSet, Reply, Goto, Stored, StatusDoc
<1>12. ASSUME NEW h \in Handlers, StopExists(h) PROVE Locals'
  BY <1>12 DEF StopExists, Reply, Goto, Exists
<1>13. ASSUME NEW h \in Handlers, DelLock(h) PROVE Locals'
  <2> DEFINE w == workers[call[h].rule]
  <2>1. pc[h] = "delLock" /\ call[h].rule \in Rules /\ call[h].p \in GoodDocs
    BY <1>13 DEF DelLock
  <2>2. w \in Dirs \cup {None} /\ call[h] \in Calls
    BY <2>1
  <2>3. \A k \in Handlers \ {h} : pc'[k] = pc[k] /\ call'[k] = call[k]
    BY <1>13 DEF DelLock, AfterDel, Reply
  <2>4. CASE w = None
    <3>1. \/ pc'[h] = "idle"
          \/ /\ pc'[h] = "stopSet" /\ call'[h].rule = call[h].rule
             /\ call'[h].p = call[h].p
      BY <1>13, <2>2, <2>4 DEF DelLock, AfterDel, Reply
    <3> QED
      BY <2>1, <2>3, <3>1
  <2>5. CASE w # None
    <3>1. /\ pc'[h] = "delSend" /\ call'[h].rule = call[h].rule
          /\ call'[h].p = call[h].p /\ call'[h].d = w
      BY <1>13, <2>2, <2>5 DEF DelLock
    <3> QED
      BY <2>1, <2>2, <2>3, <2>5, <3>1
  <2> QED
    BY <2>4, <2>5
<1>14. ASSUME NEW h \in Handlers, TrackClose(h) PROVE Locals'
  BY <1>14 DEF TrackClose, Goto
<1>15. ASSUME NEW h \in Handlers, DelDelete(h) PROVE Locals'
  BY <1>15 DEF DelDelete, AfterDel, Reply, Unlisted
<1>16. ASSUME NEW h \in Handlers, StopSet(h) PROVE Locals'
  BY <1>16 DEF StopSet, Reply, Stored, StatusDoc
<1>17. ASSUME NEW h \in Handlers, DropExists(h) PROVE Locals'
  BY <1>17 DEF DropExists, Reply, Goto, Exists
<1>18. ASSUME NEW h \in Handlers, DropGet(h) PROVE Locals'
  <2> USE <1>18 DEF DropGet
  <2>1. CASE cache[call[h].rule] = None
    BY <2>1 DEF Reply
  <2>2. CASE cache[call[h].rule] # None
    <3>1. /\ pc'[h] = "dropDel"
          /\ call'[h].text = cache[call[h].rule]
          /\ call'[h].rule = call[h].rule
      BY <2>2
    <3>2. cache[call[h].rule] \in WellFormed
      BY <2>2
    <3>3. \A k \in Handlers \ {h} : pc'[k] = pc[k] /\ call'[k] = call[k]
      BY <2>2
    <3> QED
      BY <3>1, <3>2, <3>3
  <2> QED
    BY <2>1, <2>2
<1>19. ASSUME NEW h \in Handlers, DropDel(h) PROVE Locals'
  BY <1>19 DEF DropDel, Goto
<1>20. ASSUME NEW h \in Handlers, DropLib(h) PROVE Locals'
  BY <1>20 DEF DropLib, Goto, Stored
<1>21. ASSUME NEW h \in Handlers, DropRollback(h) PROVE Locals'
  BY <1>21 DEF DropRollback, Reply
<1>22. ASSUME NEW h \in Handlers, DropDoc(h) PROVE Locals'
  BY <1>22 DEF DropDoc, Reply, Stored, RemoveFails
<1>23. ASSUME NEW h \in Handlers, ListExists(h) PROVE Locals'
  BY <1>23 DEF ListExists, Reply, Goto, Exists
<1>24. ASSUME NEW h \in Handlers, ListRead(h) PROVE Locals'
  BY <1>24 DEF ListRead, Reply, Exists, Die
<1>25. ASSUME NEW d \in Dirs, FinishClose(d) PROVE Locals'
  BY <1>25 DEF FinishClose
<1>26. ASSUME NEW r \in Rules, Flush(r) PROVE Locals'
  BY <1>26 DEF Flush
<1>27. ASSUME NEW r \in Rules, BootRule(r) PROVE Locals'
  BY <1>27 DEF BootRule, ResumeAtBoot, Startable, NewDir
<1>28. ASSUME Crash PROVE Locals'
  BY <1>28 DEF Crash, Die
<1>29. ASSUME Boot PROVE Locals'
  BY <1>29 DEF Boot
<1>30. ASSUME Serve PROVE Locals'
  BY <1>30 DEF Serve
<1>31. CASE UNCHANGED vars
  BY <1>31
<1> HIDE DEF IInv, Locals, vars
<1> QED
  BY <1>1, <1>2, <1>3, <1>4, <1>5, <1>6, <1>7, <1>8, <1>9, <1>10, <1>11,
     <1>12, <1>13, <1>14, <1>15, <1>16, <1>17, <1>18, <1>19, <1>20, <1>21,
     <1>22, <1>23, <1>24, <1>25, <1>26, <1>27, <1>28, <1>29, <1>30, <1>31
  DEF Next, Request, Run

(* Handler h takes a step outside the critical sections.                   *)
Elsewhere(h) ==
  /\ phase = "up"
  /\ pc[h] \notin Critical
  /\ pc'[h] \notin Critical
  /\ \A k \in Handlers \ {h} : pc'[k] = pc[k] /\ call'[k] = call[k]
  /\ UNCHANGED <<phase, toLoad, workers, dir, mu>>

(* The steps that do touch workers, directories, the mutex or the phase.   *)
Inside ==
  \/ \E h \in Handlers : \/ AddRun(h) \/ AddInsert(h) \/ DelLock(h)
                          \/ TrackClose(h) \/ DelDelete(h)
  \/ \E d \in Dirs : FinishClose(d)
  \/ \E r \in Rules : BootRule(r)
  \/ Die \/ Boot \/ Serve

(* A step is one inside the critical sections, in directories or at boot,  *)
(* one of a handler elsewhere, or changes nothing Shared is about.         *)
LEMMA StepKinds ==
  IInv /\ [Next]_vars =>
    \/ Inside
    \/ \E h \in Handlers : Elsewhere(h)
    \/ UNCHANGED <<phase, toLoad, doc, workers, dir, mu, pc, call>>
<1> SUFFICES ASSUME IInv, [Next]_vars, ~Inside
             PROVE  \/ \E h \in Handlers : Elsewhere(h)
                    \/ UNCHANGED <<phase, toLoad, doc, workers, dir, mu, pc, call>>
  OBVIOUS
<1> USE DEF IInv, Shared, TypeOK, At, mining, handler, boot, Critical
<1>1. ASSUME NEW h \in Handlers, NEW r \in Rules, NEW t \in Texts,
           ExecSet(h, r, t)
    PROVE  Elsewhere(h)
  BY <1>1 DEF Elsewhere, ExecSet
<1>2. ASSUME NEW h \in Handlers, NEW r \in Rules,
           ExecCommit(h, r)
    PROVE  Elsewhere(h)
  BY <1>2 DEF Elsewhere, ExecCommit, Begin
<1>3. ASSUME NEW h \in Handlers, NEW op \in {"START", "STOP"}, NEW r \in Rules,
           ExecRunner(h, op, r)
    PROVE  Elsewhere(h)
  BY <1>3 DEF Elsewhere, ExecRunner, Begin
<1>4. ASSUME NEW h \in Handlers, NEW r \in Rules,
           ExecDrop(h, r)
    PROVE  Elsewhere(h)
  BY <1>4 DEF Elsewhere, ExecDrop, Begin
<1>5. ASSUME NEW h \in Handlers, NEW r \in Rules,
           ExecList(h, r)
    PROVE  Elsewhere(h)
  BY <1>5 DEF Elsewhere, ExecList, Begin
<1>6. ASSUME NEW h \in Handlers, CommitSet(h) PROVE Elsewhere(h)
  BY <1>6 DEF Elsewhere, CommitSet, Reply
<1>7. ASSUME NEW h \in Handlers, RunnerGet(h) PROVE Elsewhere(h)
  BY <1>7 DEF Elsewhere, RunnerGet, Reply
<1>8. ASSUME NEW h \in Handlers, StartExists(h) PROVE Elsewhere(h)
  BY <1>8 DEF Elsewhere, StartExists, Reply, Goto
<1>9. ASSUME NEW h \in Handlers, StartSet(h) PROVE Elsewhere(h)
  BY <1>9 DEF Elsewhere, StartSet, Reply, Goto
<1>10. ASSUME NEW h \in Handlers, StopExists(h) PROVE Elsewhere(h)
  BY <1>10 DEF Elsewhere, StopExists, Reply, Goto
<1>11. ASSUME NEW h \in Handlers, StopSet(h) PROVE Elsewhere(h)
  BY <1>11 DEF Elsewhere, StopSet, Reply
<1>12. ASSUME NEW h \in Handlers, DropExists(h) PROVE Elsewhere(h)
  BY <1>12 DEF Elsewhere, DropExists, Reply, Goto
<1>13. ASSUME NEW h \in Handlers, DropGet(h) PROVE Elsewhere(h)
  BY <1>13 DEF Elsewhere, DropGet, Reply
<1>14. ASSUME NEW h \in Handlers, DropDel(h) PROVE Elsewhere(h)
  BY <1>14 DEF Elsewhere, DropDel, Goto
<1>15. ASSUME NEW h \in Handlers, DropLib(h) PROVE Elsewhere(h)
  BY <1>15 DEF Elsewhere, DropLib, Goto
<1>16. ASSUME NEW h \in Handlers, DropRollback(h) PROVE Elsewhere(h)
  BY <1>16 DEF Elsewhere, DropRollback, Reply
<1>17. ASSUME NEW h \in Handlers, DropDoc(h) PROVE Elsewhere(h)
  BY <1>17 DEF Elsewhere, DropDoc, Reply
<1>18. ASSUME NEW h \in Handlers, ListExists(h) PROVE Elsewhere(h)
  BY <1>18 DEF Elsewhere, ListExists, Reply, Goto
<1>19. ASSUME NEW h \in Handlers, ListRead(h), ~Die PROVE Elsewhere(h)
  BY <1>19 DEF Elsewhere, ListRead, Reply
<1>20. ASSUME NEW r \in Rules, Flush(r)
    PROVE  UNCHANGED <<phase, toLoad, doc, workers, dir, mu, pc, call>>
  BY <1>20 DEF Flush
<1>21. CASE UNCHANGED vars
  BY <1>21 DEF vars
<1> HIDE DEF IInv, Shared, TypeOK, At, mining, handler, boot, Critical
<1> QED
  BY <1>1, <1>2, <1>3, <1>4, <1>5, <1>6, <1>7, <1>8, <1>9, <1>10, <1>11,
     <1>12, <1>13, <1>14, <1>15, <1>16, <1>17, <1>18, <1>19, <1>20, <1>21
  DEF Next, Request, Run, Inside, Crash

(* A handler outside the critical sections disturbs nothing shared: its    *)
(* unlocked reads can mislead it, but not corrupt the workers.             *)
LEMMA ElsewhereStep ==
  ASSUME IInv, TypeOK', NEW h \in Handlers, Elsewhere(h)
  PROVE  Shared'
<1> USE DEF IInv, Shared, TypeOK, Elsewhere, Critical
<1>1. Quiet'
  BY DEF Quiet
<1>2. Loading'
  BY DEF Loading
<1>3. MutexHeld'
  BY DEF MutexHeld
<1>4. ListedWorkerIsLive'
  BY DEF ListedWorkerIsLive, MutexHeld
<1>5. Stopping'
  BY DEF Stopping, MutexHeld
<1>6. Adding'
  BY DEF Adding, MutexHeld
<1> QED
  BY <1>1, <1>2, <1>3, <1>4, <1>5, <1>6

(* The steps that lock, stop, list and create keep the shared stores       *)
(* consistent, one action at a time.                                       *)
LEMMA InsideStep ==
  ASSUME IInv, TypeOK', Locals', Inside
  PROVE  Shared'
<1> USE RuleServerAssumption DEF IInv, Shared, TypeOK, Locals, At, Critical,
            boot, mining, handler, NoCall
<1>1. ASSUME NEW h \in Handlers, AddRun(h) PROVE Shared'
  <2> USE <1>1 DEF AddRun, Reply, Startable, NewDir, LockFree, MuAfterFailedAdd
  <2>1. Quiet'
    BY DEF Quiet
  <2>2. Loading'
    BY DEF Loading
  <2>3. MutexHeld'
    BY DEF MutexHeld, Quiet
  <2>4. ListedWorkerIsLive'
    BY DEF ListedWorkerIsLive, MutexHeld, Quiet, Calls, DirRecs
  <2>5. Stopping'
    BY DEF Stopping, MutexHeld, Quiet, ListedWorkerIsLive, Calls, DirRecs
  <2>6. Adding'
    <3>1. \A k \in Handlers : pc[k] \notin Critical
      BY DEF MutexHeld
    <3>2. \A q \in Rules : workers[q] # None => dir[workers[q]] # None
      BY <3>1 DEF ListedWorkerIsLive
    <3>3. CASE pc'[h] # "addInsert"
      BY <3>1, <3>3 DEF Adding
    <3>4. CASE pc'[h] = "addInsert"
      <4>1. PICK d \in Dirs :
              /\ dir[d] = None
              /\ dir' = [dir EXCEPT ![d] = [rule |-> call[h].rule,
                                           text |-> cache[call[h].rule],
                                           st |-> "mining"]]
              /\ call' = [call EXCEPT ![h].d = d]
        BY <3>4
      <4>2. call'[h].d = d /\ call'[h].rule = call[h].rule
        BY <4>1 DEF Calls
      <4>3. \A k \in Handlers : pc'[k] = "addInsert" => k = h
        BY <3>1
      <4>4. /\ dir'[d] # None
            /\ dir'[d].rule = call[h].rule
            /\ dir'[d].st = "mining"
        <5>1. dir'[d] \in DirRecs
          BY <3>4, <4>1 DEF DirRecs, WellFormed
        <5> QED
          BY <4>1, <5>1, NoneIsNoRecord
      <4>5. \A q \in Rules : workers'[q] # d
        BY <3>2, <4>1
      <4> QED
        BY <4>2, <4>3, <4>4, <4>5 DEF Adding
    <3> QED
      BY <3>3, <3>4
  <2> QED
    BY <2>1, <2>2, <2>3, <2>4, <2>5, <2>6
<1>2. ASSUME NEW h \in Handlers, AddInsert(h) PROVE Shared'
  <2> USE <1>2 DEF AddInsert
  <2>1. Quiet'
    BY DEF Quiet
  <2>2. Loading'
    BY DEF Loading
  <2>3. MutexHeld'
    BY DEF MutexHeld, Quiet
  <2>4. ListedWorkerIsLive'
    <3> SUFFICES ASSUME NEW q \in Rules, workers'[q] # None
                 PROVE  /\ dir'[workers'[q]] # None
                        /\ dir'[workers'[q]].rule = q
                        /\ dir'[workers'[q]].st = "mining"
      BY DEF ListedWorkerIsLive
    <3>1. CASE q = call[h].rule
      BY <3>1 DEF Adding
    <3>2. CASE q # call[h].rule
      <4>1. \A k \in Handlers : pc[k] # "delDelete"
        BY DEF MutexHeld
      <4>2. workers'[q] = workers[q]
        BY <3>2
      <4> QED
        BY <4>1, <4>2 DEF ListedWorkerIsLive
    <3> QED
      BY <3>1, <3>2
  <2>5. Stopping'
    BY DEF Stopping, MutexHeld, Quiet, ListedWorkerIsLive, Calls, DirRecs
  <2>6. Adding'
    BY DEF Adding, MutexHeld, Quiet, ListedWorkerIsLive, Calls, DirRecs
  <2> QED
    BY <2>1, <2>2, <2>3, <2>4, <2>5, <2>6
<1>3. ASSUME NEW h \in Handlers, DelLock(h) PROVE Shared'
  <2> USE <1>3 DEF DelLock, AfterDel, Reply, LockFree
  <2>1. Quiet'
    BY DEF Quiet
  <2>2. Loading'
    BY DEF Loading
  <2>3. MutexHeld'
    BY DEF MutexHeld, Quiet
  <2>4. ListedWorkerIsLive'
    BY DEF ListedWorkerIsLive, MutexHeld, Quiet, Calls, DirRecs
  <2>5. Stopping'
    <3>1. mu = None /\ \A k \in Handlers : pc[k] \notin Critical
      BY DEF MutexHeld
    <3>2. workers' = workers /\ call[h] \in Calls
      OBVIOUS
    <3>3. \A k \in Handlers \ {h} : pc'[k] = pc[k] /\ call'[k] = call[k]
      OBVIOUS
    <3>4. pc'[h] \in Critical => /\ call'[h].rule = call[h].rule
                                 /\ call'[h].d = workers[call[h].rule]
      <4>1. CASE workers[call[h].rule] = None
        BY <4>1
      <4>2. CASE workers[call[h].rule] # None
        <5>1. call' = [call EXCEPT ![h].d = workers[call[h].rule]]
          BY ONLY <1>3, <4>2 DEF DelLock
        <5>2. call \in [Handlers -> Calls]
          OBVIOUS
        <5> QED
          BY ONLY <5>1, <5>2, h \in Handlers DEF Calls
      <4> QED
        BY <4>1, <4>2
    <3> QED
      BY <3>1, <3>2, <3>3, <3>4 DEF Stopping
  <2>6. Adding'
    BY DEF Adding, MutexHeld, Quiet, ListedWorkerIsLive, Calls, DirRecs
  <2> QED
    BY <2>1, <2>2, <2>3, <2>4, <2>5, <2>6
<1>4. ASSUME NEW h \in Handlers, TrackClose(h) PROVE Shared'
  <2> USE <1>4 DEF TrackClose, Goto
  <2>1. Quiet'
    BY DEF Quiet
  <2>2. Loading'
    BY DEF Loading
  <2>3. MutexHeld'
    BY DEF MutexHeld, Quiet
  <2>4. ListedWorkerIsLive'
    <3> SUFFICES ASSUME NEW q \in Rules, workers'[q] # None
                 PROVE  \/ /\ dir'[workers[q]] # None
                           /\ dir'[workers[q]].rule = q
                           /\ dir'[workers[q]].st = "mining"
                        \/ /\ pc'[h] = "delDelete"
                           /\ call'[h].rule = q
                           /\ call'[h].d = workers[q]
      BY DEF ListedWorkerIsLive
    <3>1. /\ dir[workers[q]] # None
          /\ dir[workers[q]].rule = q
          /\ dir[workers[q]].st = "mining"
      <4>1. \A k \in Handlers : pc[k] # "delDelete"
        BY DEF MutexHeld
      <4> QED
        BY <4>1 DEF ListedWorkerIsLive
    <3>2. CASE workers[q] = call[h].d
      <4>1. workers[call[h].rule] = call[h].d
        BY DEF Stopping
      <4>2. call[h].rule = q
        <5>1. call[h].rule \in Rules /\ workers[call[h].rule] # None
          BY <4>1, <3>2
        <5>2. dir[workers[call[h].rule]].rule = call[h].rule
          BY <5>1 DEF ListedWorkerIsLive, MutexHeld
        <5> QED
          BY <3>1, <3>2, <4>1, <5>2
      <4> QED
        BY <3>2, <4>2
    <3>3. CASE workers[q] # call[h].d
      BY <3>1, <3>3
    <3> QED
      BY <3>2, <3>3
  <2>5. Stopping'
    BY DEF Stopping, MutexHeld, Quiet, ListedWorkerIsLive, Calls, DirRecs
  <2>6. Adding'
    BY DEF Adding, MutexHeld, Quiet, ListedWorkerIsLive, Calls, DirRecs
  <2> QED
    BY <2>1, <2>2, <2>3, <2>4, <2>5, <2>6
<1>5. ASSUME NEW h \in Handlers, DelDelete(h) PROVE Shared'
  <2> USE <1>5 DEF DelDelete, AfterDel, Reply, Unlisted
  <2>1. Quiet'
    BY DEF Quiet
  <2>2. Loading'
    BY DEF Loading
  <2>3. MutexHeld'
    BY DEF MutexHeld, Quiet
  <2>4. ListedWorkerIsLive'
    BY DEF ListedWorkerIsLive, MutexHeld, Quiet, Calls, DirRecs
  <2>5. Stopping'
    BY DEF Stopping, MutexHeld, Quiet, ListedWorkerIsLive, Calls, DirRecs
  <2>6. Adding'
    BY DEF Adding, MutexHeld, Quiet, ListedWorkerIsLive, Calls, DirRecs
  <2> QED
    BY <2>1, <2>2, <2>3, <2>4, <2>5, <2>6
<1>6. ASSUME NEW d \in Dirs, FinishClose(d) PROVE Shared'
  <2> USE <1>6 DEF FinishClose
  <2>1. Quiet'
    BY DEF Quiet
  <2>2. Loading'
    BY DEF Loading
  <2>3. MutexHeld'
    BY DEF MutexHeld, Quiet
  <2>4. ListedWorkerIsLive'
    BY DEF ListedWorkerIsLive, MutexHeld, Quiet, Calls, DirRecs
  <2>5. Stopping'
    BY DEF Stopping, MutexHeld, Quiet, ListedWorkerIsLive, Calls, DirRecs
  <2>6. Adding'
    BY DEF Adding, MutexHeld, Quiet, ListedWorkerIsLive, Calls, DirRecs
  <2> QED
    BY <2>1, <2>2, <2>3, <2>4, <2>5, <2>6
<1>7. ASSUME NEW r \in Rules, BootRule(r) PROVE Shared'
  <2> USE <1>7 DEF BootRule, ResumeAtBoot, Startable, NewDir
  <2>1. Quiet'
    BY DEF Quiet
  <2>2. Loading'
    BY DEF Loading
  <2>3. MutexHeld'
    BY DEF MutexHeld, Quiet
  <2>4. ListedWorkerIsLive'
    <3>1. \A k \in Handlers : pc[k] # "delDelete"
      BY DEF Quiet
    <3>2. CASE UNCHANGED <<dir, workers>>
      BY <3>2 DEF ListedWorkerIsLive
    <3>3. CASE \E d \in Dirs :
                 /\ dir[d] = None
                 /\ dir' = NewDir(d, r, doc[r].value)
                 /\ workers' = [workers EXCEPT ![r] = d]
      <4>1. PICK d \in Dirs :
              /\ dir[d] = None
              /\ dir' = NewDir(d, r, doc[r].value)
              /\ workers' = [workers EXCEPT ![r] = d]
        BY <3>3
      <4>2. ASSUME NEW q \in Rules, workers'[q] # None
            PROVE  /\ dir'[workers'[q]] # None
                   /\ dir'[workers'[q]].rule = q
                   /\ dir'[workers'[q]].st = "mining"
        <5>1. CASE q = r
          <6>1. workers'[q] = d /\ dir'[d].rule = r /\ dir'[d].st = "mining"
            BY <4>1, <5>1
          <6>2. dir'[d] \in DirRecs
            BY <4>1 DEF DirRecs, WellFormed, Loading
          <6> QED
            BY <4>1, <5>1, <6>1, <6>2, NoneIsNoRecord
        <5>2. CASE q # r
          <6>1. workers'[q] = workers[q]
            BY <4>1, <5>2
          <6>2. /\ dir[workers[q]] # None
                /\ dir[workers[q]].rule = q
                /\ dir[workers[q]].st = "mining"
            BY <3>1, <4>2, <6>1 DEF ListedWorkerIsLive
          <6> QED
            BY <4>1, <6>1, <6>2
        <5> QED
          BY <5>1, <5>2
      <4> QED
        BY <4>2 DEF ListedWorkerIsLive
    <3> QED
      BY <3>2, <3>3
  <2>5. Stopping'
    BY DEF Stopping, MutexHeld, Quiet, ListedWorkerIsLive, Calls, DirRecs
  <2>6. Adding'
    BY DEF Adding, MutexHeld, Quiet, ListedWorkerIsLive, Calls, DirRecs
  <2> QED
    BY <2>1, <2>2, <2>3, <2>4, <2>5, <2>6
<1>8. CASE Die
  <2> USE <1>8 DEF Die
  <2>1. Quiet'
    BY DEF Quiet
  <2>2. Loading'
    BY DEF Loading
  <2>3. MutexHeld'
    BY DEF MutexHeld, Quiet
  <2>4. ListedWorkerIsLive'
    BY DEF ListedWorkerIsLive, MutexHeld, Quiet, Calls, DirRecs
  <2>5. Stopping'
    BY DEF Stopping, MutexHeld, Quiet, ListedWorkerIsLive, Calls, DirRecs
  <2>6. Adding'
    BY DEF Adding, MutexHeld, Quiet, ListedWorkerIsLive, Calls, DirRecs
  <2> QED
    BY <2>1, <2>2, <2>3, <2>4, <2>5, <2>6
<1>9. CASE Boot
  <2> USE <1>9 DEF Boot
  <2>1. Quiet'
    BY DEF Quiet
  <2>2. Loading'
    BY DEF Loading
  <2>3. MutexHeld'
    BY DEF MutexHeld, Quiet
  <2>4. ListedWorkerIsLive'
    BY DEF ListedWorkerIsLive, MutexHeld, Quiet, Calls, DirRecs
  <2>5. Stopping'
    BY DEF Stopping, MutexHeld, Quiet, ListedWorkerIsLive, Calls, DirRecs
  <2>6. Adding'
    BY DEF Adding, MutexHeld, Quiet, ListedWorkerIsLive, Calls, DirRecs
  <2> QED
    BY <2>1, <2>2, <2>3, <2>4, <2>5, <2>6
<1>10. CASE Serve
  <2> USE <1>10 DEF Serve
  <2>1. Quiet'
    BY DEF Quiet
  <2>2. Loading'
    BY DEF Loading
  <2>3. MutexHeld'
    BY DEF MutexHeld, Quiet
  <2>4. ListedWorkerIsLive'
    BY DEF ListedWorkerIsLive, MutexHeld, Quiet, Calls, DirRecs
  <2>5. Stopping'
    BY DEF Stopping, MutexHeld, Quiet, ListedWorkerIsLive, Calls, DirRecs
  <2>6. Adding'
    BY DEF Adding, MutexHeld, Quiet, ListedWorkerIsLive, Calls, DirRecs
  <2> QED
    BY <2>1, <2>2, <2>3, <2>4, <2>5, <2>6
<1> QED
  BY <1>1, <1>2, <1>3, <1>4, <1>5, <1>6, <1>7, <1>8, <1>9, <1>10 DEF Inside

(* The process starts in the invariant.                                    *)
LEMMA InitIInv == Init => IInv
<1> SUFFICES ASSUME Init PROVE IInv
  OBVIOUS
<1> USE DEF Init
<1>1. TypeOK
  BY RuleServerAssumption
     DEF TypeOK, Calls, Ops, NoCall, Labels
<1>2. Locals
  BY DEF Locals, Critical
<1>3. Shared
  BY RuleServerAssumption
     DEF Shared, Quiet, Loading, MutexHeld, ListedWorkerIsLive, Stopping, Adding, Critical
<1> QED
  BY <1>1, <1>2, <1>3 DEF IInv

(* Every step keeps it.                                                    *)
LEMMA NextIInv == IInv /\ [Next]_vars => IInv'
<1> SUFFICES ASSUME IInv, [Next]_vars PROVE IInv'
  OBVIOUS
<1>1. TypeOK'
  BY TypeStep
<1>2. Locals'
  BY LocalsStep
<1>3. Shared'
  <2>1. CASE Inside
    BY <1>1, <1>2, <2>1, InsideStep
  <2>2. ASSUME NEW h \in Handlers, Elsewhere(h) PROVE Shared'
    BY <1>1, <2>2, ElsewhereStep
  <2>3. CASE UNCHANGED <<phase, toLoad, doc, workers, dir, mu, pc, call>>
    BY <2>3 DEF IInv, Shared, Quiet, Loading, MutexHeld, ListedWorkerIsLive,
                Stopping, Adding
  <2> QED
    BY <2>1, <2>2, <2>3, StepKinds
<1> QED
  BY <1>1, <1>2, <1>3 DEF IInv

(* The inductive invariant holds in every reachable state.                 *)
THEOREM Invariance == Spec => []IInv
  BY InitIInv, NextIInv, PTL DEF Spec

(* Every variable keeps its type; in particular no text json.Unmarshal     *)
(* rejects reaches the cache, a document or a directory (cmds.go:88-92,    *)
(* server.go:94-98).                                                       *)
THEOREM TypeCorrect == Spec => []TypeOK
<1>1. IInv => TypeOK
  BY DEF IInv
<1> QED
  BY <1>1, Invariance, PTL

(* Between Lock and the deferred Unlock of Scheduler.Add and Del is        *)
(* exactly the handler that holds Scheduler.mu (server.go:55-78), and a    *)
(* failed run(), a failed database call or a panic never leaves it locked. *)
THEOREM SchedulerLock == Spec => []MutexHeld
<1>1. IInv => MutexHeld
  BY DEF IInv, Shared
<1> QED
  BY <1>1, Invariance, PTL

(* A worker listed in Scheduler.workers has a directory that was made for  *)
(* that rule and still takes a request to close, except while Del removes  *)
(* it (server.go:71-76).                                                   *)
THEOREM WorkersAreLive == Spec => []ListedWorkerIsLive
<1>1. IInv => ListedWorkerIsLive
  BY DEF IInv, Shared
<1> QED
  BY <1>1, Invariance, PTL

(* Del never sends a close to a track goroutine that has returned, so the  *)
(* unbuffered send under Scheduler.mu is always received (server.go:72,    *)
(* directory.go:96-98).                                                    *)
THEOREM CloseNeverHangs == Spec => []CloseIsReceived
<1>1. IInv => CloseIsReceived
  <2> SUFFICES ASSUME IInv, NEW h \in Handlers, pc[h] = "delSend"
               PROVE  dir[call[h].d] # None /\ dir[call[h].d].st = "mining"
    BY DEF CloseIsReceived
  <2>1. call[h].rule \in Rules /\ call[h].d \in Dirs
    BY DEF IInv, Locals, Critical
  <2>2. workers[call[h].rule] = call[h].d
    BY DEF IInv, Shared, Stopping
  <2>3. call[h].d # None
    BY <2>1, RuleServerAssumption
  <2>4. \A k \in Handlers : pc[k] # "delDelete"
    BY DEF IInv, Shared, MutexHeld, Critical
  <2> QED
    BY <2>1, <2>2, <2>3, <2>4 DEF IInv, Shared, ListedWorkerIsLive
<1> QED
  BY <1>1, Invariance, PTL
=============================================================================

------------------------ MODULE RuleServerSerialProofs ------------------------
(***************************************************************************)
(* What the rule server guarantees a client that sends one request at a    *)
(* time: no directory mines unseen, what is dropped is gone, only COMMIT   *)
(* persists a text, a restart resumes what ran if the documents were told, *)
(* and the server implements RuleRegistry (RuleServerRefinement).  With    *)
(* two handlers TLC finds each of the first three violated, so the         *)
(* theorems have the hypothesis OneAtATime; there is no bound on the       *)
(* rules, the texts and the directories, and database calls and the        *)
(* process may fail anywhere.  That a restart follows the documents needs  *)
(* no hypothesis.                                                          *)
(***************************************************************************)
EXTENDS RuleServerProofs

(* A client that waits for an answer before it sends the next request.     *)
OneAtATime == \A h, k \in Handlers : h = k

(* What NewServer has made of a rule it has been through.                  *)
Resumed(r) ==
  IF doc[r] = None
  THEN cache[r] = None /\ workers[r] = None
  ELSE /\ cache[r] = doc[r].value
       /\ IF doc[r].isopen /\ Startable(doc[r].value)
          THEN workers[r] # None /\ dir[workers[r]].text = doc[r].value
          ELSE workers[r] = None

(* Before the server serves, a rule is untouched or resumed.               *)
BootInv ==
  /\ phase = "down" => /\ \A r \in Rules : cache[r] = None /\ workers[r] = None
                       /\ \A d \in Dirs : dir[d] = None
  /\ phase = "boot" => \A r \in Rules :
       IF r \in toLoad THEN cache[r] = None /\ workers[r] = None ELSE Resumed(r)

(* What the one handler has found out is still so when it acts on it: its  *)
(* rule has no worker, or one, is not defined, or still has the text that  *)
(* COMMIT writes, is not dropped, and has the document that was read.      *)
Known == \A h \in Handlers :
  /\ pc[h] \in {"addRun", "addInsert", "stopSet", "dropGet", "dropDel",
                "dropLib", "dropRollback", "dropDoc"} => workers[call[h].rule] = None
  /\ pc[h] = "startSet" => workers[call[h].rule] # None
  /\ pc[h] \in {"dropLib", "dropRollback", "dropDoc"} => cache[call[h].rule] = None
  /\ pc[h] = "commitSet" => cache[call[h].rule] = call[h].text
  /\ pc[h] \notin {"idle", "dropExists", "dropGet"} => call[h].rule \notin dropped
  /\ pc[h] = "delDelete" /\ dir[call[h].d] # None => dir[call[h].d].st = "closing"
  /\ pc[h] \in {"startExists", "addRun", "addInsert", "startSet", "delLock",
                "delSend", "delDelete", "stopExists", "stopSet"} =>
       doc[call[h].rule] # None /\ doc[call[h].rule].value = call[h].p.value

(* The invariant for one request at a time.                                *)
SInv == IInv /\ BootInv /\ Known /\ NoOrphanMiner /\ DroppedIsGone

(* A handler runs only in a server that serves, which it may end.          *)
LEMMA HandlersServe ==
  ASSUME NEW h \in Handlers,
         Request(h) \/ Run(h) \/ AddRun(h) \/ DelLock(h) \/ TrackClose(h)
  PROVE  phase = "up" /\ (phase' = "up" \/ Die)
<1>1. CASE Request(h)
  BY <1>1 DEF Request, ExecSet, ExecCommit, ExecRunner, ExecDrop, ExecList, At, boot
<1>2. CASE Run(h)
  BY <1>2 DEF Run, CommitSet, RunnerGet, StartExists, AddInsert, StartSet,
     StopExists, DelDelete, StopSet, DropExists, DropGet, DropDel, DropLib,
     DropRollback, DropDoc, ListExists, ListRead, At, boot
<1>3. CASE AddRun(h) \/ DelLock(h) \/ TrackClose(h)
  BY <1>3 DEF AddRun, DelLock, TrackClose, At, boot
<1> QED
  BY <1>1, <1>2, <1>3

(* Every step keeps what NewServer has done.                               *)
LEMMA BootStep == IInv /\ BootInv /\ [Next]_vars => BootInv'
<1> SUFFICES ASSUME IInv, BootInv, [Next]_vars PROVE BootInv'
  OBVIOUS
<1>0. TypeOK'
  BY TypeStep
<1> USE RuleServerAssumption DEF IInv, Shared, TypeOK, BootInv, boot, mining, handler
<1>1. CASE Die
  BY <1>1 DEF Die
<1>2. ASSUME NEW h \in Handlers,
             Request(h) \/ Run(h) \/ AddRun(h) \/ DelLock(h) \/ TrackClose(h)
      PROVE  BootInv'
  <2>1. CASE phase' = "up"
    BY <2>1
  <2> QED
    BY <1>1, <1>2, <2>1, HandlersServe
<1>3. ASSUME NEW d \in Dirs, FinishClose(d) PROVE BootInv'
  BY <1>3 DEF FinishClose, Resumed, ListedWorkerIsLive, Quiet
<1>4. ASSUME NEW r \in Rules, Flush(r) PROVE BootInv'
  BY <1>4 DEF Flush, Resumed
<1>5. ASSUME NEW r \in Rules, BootRule(r) PROVE BootInv'
  <2> USE <1>5 DEF BootRule
  <2>1. ASSUME NEW q \in Rules \ {r}
        PROVE  IF q \in toLoad' THEN cache'[q] = None /\ workers'[q] = None ELSE Resumed(q)'
    <3>1. cache'[q] = cache[q] /\ workers'[q] = workers[q] /\ doc' = doc
      OBVIOUS
    <3>2. workers[q] # None => dir'[workers[q]] = dir[workers[q]]
      BY DEF ListedWorkerIsLive, Quiet, NewDir
    <3> QED
      BY <3>1, <3>2 DEF Resumed
  <2>2. Resumed(r)'
    <3>1. doc[r] # None /\ doc' = doc /\ cache'[r] = doc[r].value
      BY DEF Loading
    <3>2. CASE ResumeAtBoot(r) /\ Startable(doc[r].value)
      <4>1. PICK d \in Dirs : /\ dir[d] = None
                              /\ dir' = NewDir(d, r, doc[r].value)
                              /\ workers' = [workers EXCEPT ![r] = d]
        BY <3>2
      <4>2. workers'[r] = d /\ dir'[d].text = doc[r].value /\ d # None
        BY <4>1 DEF NewDir
      <4> QED
        BY <3>1, <3>2, <4>2 DEF Resumed, ResumeAtBoot
    <3>3. CASE ~(ResumeAtBoot(r) /\ Startable(doc[r].value))
      BY <3>1, <3>3 DEF Resumed, ResumeAtBoot
    <3> QED
      BY <3>2, <3>3
  <2>3. phase' = "boot" /\ r \notin toLoad'
    OBVIOUS
  <2> QED
    BY <2>1, <2>2, <2>3
<1>6. CASE Boot
  BY <1>6 DEF Boot, Resumed
<1>7. CASE Serve
  BY <1>7 DEF Serve
<1>8. CASE UNCHANGED vars
  BY <1>8 DEF vars, Resumed
<1> HIDE DEF IInv, BootInv, vars
<1> QED
  BY <1>1, <1>2, <1>3, <1>4, <1>5, <1>6, <1>7, <1>8 DEF Next, Crash

(* The document START or STOP writes back has the text it read.            *)
LEMMA StatusDocKeepsText ==
  ASSUME NEW h \in Handlers, NEW open \in BOOLEAN, call[h].p \in GoodDocs
  PROVE  /\ StatusDoc(h, open) # None
         /\ StatusDoc(h, open).value = call[h].p.value
         /\ StatusDoc(h, open).isopen = open
<1>1. StatusDoc(h, open) \in Docs
  BY DEF StatusDoc, GoodDocs, Docs, WellFormed
<1>2. StatusDoc(h, open) # None
  BY <1>1, NoneIsNoRecord
<1> QED
  BY <1>2 DEF StatusDoc

(* What the one handler knows stays true, because nobody else runs.        *)
LEMMA KnownStep ==
  ASSUME OneAtATime, SInv, [Next]_vars
  PROVE  Known'
<1> USE RuleServerAssumption DEF OneAtATime, SInv, IInv, Shared, Known, BootInv,
        DroppedIsGone, TypeOK, Locals, Quiet, Stopping, Calls, Docs, GoodDocs,
        WellFormed, Critical, NoCall, At, vars, mining, handler, boot
<1>1. ASSUME NEW h \in Handlers, NEW r \in Rules, NEW t \in Texts,
             ExecSet(h, r, t)
      PROVE  Known'
  BY <1>1 DEF ExecSet, Rejected
<1>2. ASSUME NEW h \in Handlers, NEW r \in Rules, ExecCommit(h, r) PROVE Known'
  BY <1>2 DEF ExecCommit, Begin
<1>3. ASSUME NEW h \in Handlers, NEW op \in {"START", "STOP"}, NEW r \in Rules,
             ExecRunner(h, op, r)
      PROVE  Known'
  BY <1>3 DEF ExecRunner, Begin
<1>4. ASSUME NEW h \in Handlers, NEW r \in Rules, ExecDrop(h, r) PROVE Known'
  BY <1>4 DEF ExecDrop, Begin
<1>5. ASSUME NEW h \in Handlers, NEW r \in Rules, ExecList(h, r) PROVE Known'
  BY <1>5 DEF ExecList, Begin
<1>6. ASSUME NEW h \in Handlers, CommitSet(h) PROVE Known'
  BY <1>6 DEF CommitSet, Reply, Stored
<1>7. ASSUME NEW h \in Handlers, RunnerGet(h) PROVE Known'
  BY <1>7 DEF RunnerGet, Reply
<1>8. ASSUME NEW h \in Handlers, StartExists(h) PROVE Known'
  BY <1>8 DEF StartExists, Reply, Goto, Exists
<1>9. ASSUME NEW h \in Handlers, AddRun(h) PROVE Known'
  BY <1>9 DEF AddRun, Reply, Startable, NewDir, LockFree, MuAfterFailedAdd
<1>10. ASSUME NEW h \in Handlers, AddInsert(h) PROVE Known'
  BY <1>10 DEF AddInsert
<1>11. ASSUME NEW h \in Handlers, StartSet(h) PROVE Known'
  <2> USE <1>11 DEF StartSet
  <2>1. \A k \in Handlers : k = h
    OBVIOUS
  <2>2. doc'[call[h].rule] # None /\ doc'[call[h].rule].value = call[h].p.value
    <3> DEFINE r == call[h].rule
               d == StatusDoc(h, TRUE)
    <3>1. r \in Rules /\ call[h].p \in GoodDocs /\ doc[r] # None /\ doc[r].value = call[h].p.value
      OBVIOUS
    <3>2. d # None /\ d.value = call[h].p.value
      BY ONLY <3>1, h \in Handlers, StatusDocKeepsText
    <3>3. doc'[r] = d \/ doc'[r] = doc[r]
      <4>1. doc \in [Rules -> GoodDocs \cup {None}]
        OBVIOUS
      <4>2. PICK out \in DBOutcomes : doc' = [doc EXCEPT ![r] = Stored(out, d, @)]
        BY <1>11, Zenon DEF StartSet
      <4> HIDE DEF d
      <4> QED
        BY ONLY <3>1, <4>1, <4>2 DEF Stored
    <3> HIDE DEF d
    <3> QED
      BY <3>1, <3>2, <3>3
  <2>3. pc'[h] = "idle" \/ (pc'[h] = "delLock" /\ call'[h] = call[h])
    BY DEF Reply, Goto
  <2> QED
    BY <2>1, <2>2, <2>3
<1>12. ASSUME NEW h \in Handlers, StopExists(h) PROVE Known'
  BY <1>12 DEF StopExists, Reply, Goto, Exists
<1>13. ASSUME NEW h \in Handlers, DelLock(h) PROVE Known'
  BY <1>13 DEF DelLock, AfterDel, Reply, LockFree
<1>14. ASSUME NEW h \in Handlers, TrackClose(h) PROVE Known'
  BY <1>14 DEF TrackClose, Goto
<1>15. ASSUME NEW h \in Handlers, DelDelete(h) PROVE Known'
  BY <1>15 DEF DelDelete, AfterDel, Reply, Unlisted
<1>16. ASSUME NEW h \in Handlers, StopSet(h) PROVE Known'
  BY <1>16 DEF StopSet, Reply, Stored, StatusDoc
<1>17. ASSUME NEW h \in Handlers, DropExists(h) PROVE Known'
  BY <1>17 DEF DropExists, Reply, Goto, Exists
<1>18. ASSUME NEW h \in Handlers, DropGet(h) PROVE Known'
  BY <1>18 DEF DropGet, Reply
<1>19. ASSUME NEW h \in Handlers, DropDel(h) PROVE Known'
  BY <1>19 DEF DropDel, Goto
<1>20. ASSUME NEW h \in Handlers, DropLib(h) PROVE Known'
  BY <1>20 DEF DropLib, Goto, Stored
<1>21. ASSUME NEW h \in Handlers, DropRollback(h) PROVE Known'
  BY <1>21 DEF DropRollback, Reply
<1>22. ASSUME NEW h \in Handlers, DropDoc(h) PROVE Known'
  BY <1>22 DEF DropDoc, Reply, Stored, RemoveFails
<1>23. ASSUME NEW h \in Handlers, ListExists(h) PROVE Known'
  BY <1>23 DEF ListExists, Reply, Goto, Exists
<1>24. ASSUME NEW h \in Handlers, ListRead(h) PROVE Known'
  BY <1>24 DEF ListRead, Reply, Exists, Die
<1>25. ASSUME NEW d \in Dirs, FinishClose(d) PROVE Known'
  BY <1>25 DEF FinishClose
<1>26. ASSUME NEW r \in Rules, Flush(r) PROVE Known'
  BY <1>26 DEF Flush
<1>27. ASSUME NEW r \in Rules, BootRule(r) PROVE Known'
  BY <1>27 DEF BootRule, ResumeAtBoot, Startable, NewDir
<1>28. ASSUME Crash PROVE Known'
  BY <1>28 DEF Crash, Die
<1>29. ASSUME Boot PROVE Known'
  BY <1>29 DEF Boot
<1>30. ASSUME Serve PROVE Known'
  BY <1>30 DEF Serve
<1>31. CASE UNCHANGED vars
  BY <1>31
<1> HIDE DEF SInv, Known, vars
<1> QED
  BY <1>1, <1>2, <1>3, <1>4, <1>5, <1>6, <1>7, <1>8, <1>9, <1>10, <1>11,
     <1>12, <1>13, <1>14, <1>15, <1>16, <1>17, <1>18, <1>19, <1>20, <1>21,
     <1>22, <1>23, <1>24, <1>25, <1>26, <1>27, <1>28, <1>29, <1>30, <1>31
  DEF Next, Request, Run

(* No directory is left behind: Add lists what it made where nothing was   *)
(* listed, and Del forgets only what has been told to close.               *)
LEMMA OrphanStep ==
  ASSUME OneAtATime, SInv, [Next]_vars
  PROVE  NoOrphanMiner'
<1>0. TypeOK' /\ Locals'
  BY TypeStep, LocalsStep DEF SInv
<1> USE RuleServerAssumption DEF OneAtATime, SInv, IInv, Shared, NoOrphanMiner,
        TypeOK, At, Critical, mining, handler, boot
<1>1. ASSUME NEW h \in Handlers, AddRun(h) PROVE NoOrphanMiner'
  BY <1>1, <1>0 DEF AddRun, Reply, Startable, NewDir, LockFree, MuAfterFailedAdd,
     Calls
<1>2. ASSUME NEW h \in Handlers, AddInsert(h) PROVE NoOrphanMiner'
  <2> USE <1>2 DEF AddInsert
  <2>1. \A k \in Handlers : k = h
    OBVIOUS
  <2>2. call[h].rule \in Rules /\ workers[call[h].rule] = None
    BY DEF Known, Locals
  <2>3. dir[call[h].d].rule = call[h].rule
    BY DEF Adding
  <2>4. ASSUME NEW d \in Dirs, dir[d] # None, dir[d].st = "mining"
        PROVE  workers'[dir[d].rule] = d
    <3>1. dir[d].rule \in Rules
      BY <2>4 DEF DirRecs
    <3>2. CASE call[h].d = d
      BY <2>2, <2>3, <3>2
    <3>3. CASE workers[dir[d].rule] = d
      BY <2>2, <3>1, <3>3
    <3> QED
      BY <2>1, <2>4, <3>2, <3>3
  <2> QED
    BY <2>4
<1>3. ASSUME NEW h \in Handlers, DelLock(h) PROVE NoOrphanMiner'
  BY <1>3, <1>0 DEF DelLock, AfterDel, Reply, LockFree
<1>4. ASSUME NEW h \in Handlers, TrackClose(h) PROVE NoOrphanMiner'
  BY <1>4, <1>0 DEF TrackClose, Goto,
     Stopping, Known, Locals, Calls
<1>5. ASSUME NEW h \in Handlers, DelDelete(h) PROVE NoOrphanMiner'
  BY <1>5, <1>0 DEF DelDelete, AfterDel, Reply, Unlisted,
     Known, Locals, Stopping
<1>6. ASSUME NEW d \in Dirs, FinishClose(d) PROVE NoOrphanMiner'
  BY <1>6, <1>0 DEF FinishClose
<1>7. ASSUME NEW r \in Rules, BootRule(r) PROVE NoOrphanMiner'
  BY <1>7, <1>0 DEF BootRule, ResumeAtBoot, Startable, NewDir,
     BootInv, Quiet, DirRecs
<1>8. CASE Die
  BY <1>8 DEF Die
<1>9. CASE Boot \/ Serve
  BY <1>9 DEF Boot, Serve
<1>10. ASSUME NEW h \in Handlers, Elsewhere(h) PROVE NoOrphanMiner'
  BY <1>10 DEF Elsewhere
<1>11. CASE UNCHANGED <<phase, toLoad, doc, workers, dir, mu, pc, call>>
  BY <1>11
<1> HIDE DEF NoOrphanMiner
<1> QED
  BY <1>1, <1>2, <1>3, <1>4, <1>5, <1>6, <1>7, <1>8, <1>9, <1>10, <1>11,
     StepKinds DEF Inside

(* A dropped rule stays gone until it is SET.                              *)
LEMMA DroppedStep ==
  ASSUME OneAtATime, SInv, [Next]_vars
  PROVE  DroppedIsGone'
<1> USE RuleServerAssumption DEF OneAtATime, SInv, IInv, Shared, Known, BootInv,
        DroppedIsGone, TypeOK, Locals, Quiet, Loading, Calls, WellFormed,
        Critical, NoCall, At, vars, mining, handler, boot
<1>1. ASSUME NEW h \in Handlers, NEW r \in Rules, NEW t \in Texts,
             ExecSet(h, r, t)
      PROVE  DroppedIsGone'
  BY <1>1 DEF ExecSet, Rejected
<1>2. ASSUME NEW h \in Handlers, NEW r \in Rules, ExecCommit(h, r)
      PROVE  DroppedIsGone'
  BY <1>2 DEF ExecCommit, Begin
<1>3. ASSUME NEW h \in Handlers, NEW op \in {"START", "STOP"}, NEW r \in Rules,
             ExecRunner(h, op, r)
      PROVE  DroppedIsGone'
  BY <1>3 DEF ExecRunner, Begin
<1>4. ASSUME NEW h \in Handlers, NEW r \in Rules, ExecDrop(h, r)
      PROVE  DroppedIsGone'
  BY <1>4 DEF ExecDrop, Begin
<1>5. ASSUME NEW h \in Handlers, NEW r \in Rules, ExecList(h, r)
      PROVE  DroppedIsGone'
  BY <1>5 DEF ExecList, Begin
<1>6. ASSUME NEW h \in Handlers, CommitSet(h) PROVE DroppedIsGone'
  BY <1>6 DEF CommitSet, Reply, Stored
<1>7. ASSUME NEW h \in Handlers, RunnerGet(h) PROVE DroppedIsGone'
  BY <1>7 DEF RunnerGet, Reply
<1>8. ASSUME NEW h \in Handlers, StartExists(h) PROVE DroppedIsGone'
  BY <1>8 DEF StartExists, Reply, Goto, Exists
<1>9. ASSUME NEW h \in Handlers, AddRun(h) PROVE DroppedIsGone'
  BY <1>9 DEF AddRun, Reply, Startable, NewDir, LockFree, MuAfterFailedAdd
<1>10. ASSUME NEW h \in Handlers, AddInsert(h) PROVE DroppedIsGone'
  BY <1>10 DEF AddInsert
<1>11. ASSUME NEW h \in Handlers, StartSet(h) PROVE DroppedIsGone'
  BY <1>11 DEF StartSet, Reply, Goto, Stored, StatusDoc
<1>12. ASSUME NEW h \in Handlers, StopExists(h) PROVE DroppedIsGone'
  BY <1>12 DEF StopExists, Reply, Goto, Exists
<1>13. ASSUME NEW h \in Handlers, DelLock(h) PROVE DroppedIsGone'
  BY <1>13 DEF DelLock, AfterDel, Reply, LockFree
<1>14. ASSUME NEW h \in Handlers, TrackClose(h) PROVE DroppedIsGone'
  BY <1>14 DEF TrackClose, Goto
<1>15. ASSUME NEW h \in Handlers, DelDelete(h) PROVE DroppedIsGone'
  BY <1>15 DEF DelDelete, AfterDel, Reply, Unlisted
<1>16. ASSUME NEW h \in Handlers, StopSet(h) PROVE DroppedIsGone'
  BY <1>16 DEF StopSet, Reply, Stored, StatusDoc
<1>17. ASSUME NEW h \in Handlers, DropExists(h) PROVE DroppedIsGone'
  BY <1>17 DEF DropExists, Reply, Goto, Exists
<1>18. ASSUME NEW h \in Handlers, DropGet(h) PROVE DroppedIsGone'
  BY <1>18 DEF DropGet, Reply
<1>19. ASSUME NEW h \in Handlers, DropDel(h) PROVE DroppedIsGone'
  BY <1>19 DEF DropDel, Goto
<1>20. ASSUME NEW h \in Handlers, DropLib(h) PROVE DroppedIsGone'
  BY <1>20 DEF DropLib, Goto, Stored
<1>21. ASSUME NEW h \in Handlers, DropRollback(h) PROVE DroppedIsGone'
  BY <1>21 DEF DropRollback, Reply
<1>22. ASSUME NEW h \in Handlers, DropDoc(h) PROVE DroppedIsGone'
  <2> DEFINE r == call[h].rule
  <2>1. workers[r] = None /\ cache[r] = None /\ r \in Rules
        /\ UNCHANGED <<cache, workers>>
    BY <1>22 DEF DropDoc
  <2>2. PICK out \in DBOutcomes : /\ doc' = [doc EXCEPT ![r] = Stored(out, None, @)]
                                  /\ dropped' = IF RemoveFails(r, out) THEN dropped
                                                ELSE dropped \cup ({r} \cap Remembered)
    BY <1>22 DEF DropDoc
  <2>3. \A q \in Rules \ {r} : doc'[q] = doc[q] /\ (q \in dropped' => q \in dropped)
    BY <2>2
  <2>4. r \in dropped' => doc'[r] = None
    BY <2>1, <2>2 DEF RemoveFails, Stored
  <2>5. dropped' \subseteq Rules
    BY <2>1, <2>2
  <2> HIDE DEF r
  <2> QED
    BY <2>1, <2>3, <2>4, <2>5
<1>23. ASSUME NEW h \in Handlers, ListExists(h) PROVE DroppedIsGone'
  BY <1>23 DEF ListExists, Reply, Goto, Exists
<1>24. ASSUME NEW h \in Handlers, ListRead(h) PROVE DroppedIsGone'
  BY <1>24 DEF ListRead, Reply, Exists, Die
<1>25. ASSUME NEW d \in Dirs, FinishClose(d) PROVE DroppedIsGone'
  BY <1>25 DEF FinishClose
<1>26. ASSUME NEW r \in Rules, Flush(r) PROVE DroppedIsGone'
  BY <1>26 DEF Flush
<1>27. ASSUME NEW r \in Rules, BootRule(r) PROVE DroppedIsGone'
  BY <1>27 DEF BootRule, ResumeAtBoot, Startable, NewDir
<1>28. ASSUME Crash PROVE DroppedIsGone'
  BY <1>28 DEF Crash, Die
<1>29. ASSUME Boot PROVE DroppedIsGone'
  BY <1>29 DEF Boot
<1>30. ASSUME Serve PROVE DroppedIsGone'
  BY <1>30 DEF Serve
<1>31. CASE UNCHANGED vars
  BY <1>31
<1> HIDE DEF SInv, DroppedIsGone, vars
<1> QED
  BY <1>1, <1>2, <1>3, <1>4, <1>5, <1>6, <1>7, <1>8, <1>9, <1>10, <1>11,
     <1>12, <1>13, <1>14, <1>15, <1>16, <1>17, <1>18, <1>19, <1>20, <1>21,
     <1>22, <1>23, <1>24, <1>25, <1>26, <1>27, <1>28, <1>29, <1>30, <1>31
  DEF Next, Request, Run

(* The process starts in the invariant.                                    *)
LEMMA InitSInv == Init => SInv
<1> SUFFICES ASSUME Init PROVE SInv
  OBVIOUS
<1>1. BootInv /\ NoOrphanMiner /\ DroppedIsGone
  BY DEF Init, BootInv, NoOrphanMiner, DroppedIsGone
<1>2. Known
  BY DEF Init, Known
<1> QED
  BY <1>1, <1>2, InitIInv DEF SInv

(* Every step keeps it.                                                    *)
LEMMA NextSInv ==
  ASSUME OneAtATime
  PROVE  SInv /\ [Next]_vars => SInv'
  BY NextIInv, BootStep, KnownStep, OrphanStep, DroppedStep DEF SInv

(* With one request at a time the invariant holds in every reachable state.*)
THEOREM SerialInvariance ==
  ASSUME OneAtATime
  PROVE  Spec => []SInv
  BY InitSInv, NextSInv, PTL DEF Spec

(* As long as requests come one at a time STOP can reach every directory   *)
(* that mines, whatever calls to the database fail and whenever the        *)
(* process dies (server.go:55-78, 344-422).                                *)
THEOREM EveryMinerListed ==
  ASSUME OneAtATime
  PROVE  Spec => []NoOrphanMiner
<1>1. SInv => NoOrphanMiner
  BY DEF SInv
<1> QED
  BY <1>1, SerialInvariance, PTL

(* As long as requests come one at a time a rule whose DROP answered OK is *)
(* in no store, and no restart brings it back (server.go:278-327).         *)
THEOREM DropIsFinal ==
  ASSUME OneAtATime
  PROVE  Spec => []DroppedIsGone
<1>1. SInv => DroppedIsGone
  BY DEF SInv
<1> QED
  BY <1>1, SerialInvariance, PTL

(* When NewServer is done, exactly the rules marked open whose text starts *)
(* run, with the persisted text, however many handlers there were before   *)
(* the process died (server.go:131-178).                                   *)
THEOREM RestartIsFaithful == Spec => RestartFollowsDocuments
<1> DEFINE A == phase = "boot" /\ phase' = "up" =>
       \A r \in Rules :
         /\ cache[r] = IF doc[r] = None THEN None ELSE doc[r].value
         /\ IF doc[r] # None /\ doc[r].isopen /\ Startable(doc[r].value)
            THEN workers[r] # None /\ dir[workers[r]].text = doc[r].value
            ELSE workers[r] = None
<1>1. Init => IInv /\ BootInv
  BY InitSInv DEF SInv
<1>2. IInv /\ BootInv /\ [Next]_vars => (IInv /\ BootInv)'
  BY NextIInv, BootStep
<1>3. IInv /\ BootInv /\ [Next]_vars => [A]_vars
  <2> SUFFICES ASSUME IInv, BootInv, [Next]_vars, phase = "boot", phase' = "up"
               PROVE  \A r \in Rules : Resumed(r)
    BY DEF Resumed
  <2>1. toLoad = {}
    <3>1. \A h \in Handlers :
            ~(Request(h) \/ Run(h) \/ AddRun(h) \/ DelLock(h) \/ TrackClose(h))
      BY HandlersServe
    <3>2. ~(\E d \in Dirs : FinishClose(d)) /\ ~(\E r \in Rules : Flush(r) \/ BootRule(r))
      BY DEF FinishClose, Flush, BootRule, boot
    <3>3. ~Crash /\ ~Boot /\ ~UNCHANGED vars
      BY DEF Crash, Die, Boot, vars
    <3>4. Serve
      BY <3>1, <3>2, <3>3 DEF Next
    <3> QED
      BY <3>4 DEF Serve
  <2> QED
    BY <2>1 DEF BootInv
<1> QED
  BY <1>1, <1>2, <1>3, PTL DEF Spec, RestartFollowsDocuments

(* The document of r says what is mined for it.                            *)
Agrees(r) ==
  IF doc[r] # None /\ doc[r].isopen /\ Startable(doc[r].value)
  THEN workers[r] # None /\ dir[workers[r]].text = doc[r].value
  ELSE workers[r] = None

(* Where START and STOP have the worker already, or no longer, and the     *)
(* document has not been told, and which request is where.                 *)
Telling  == {"addInsert", "startSet", "delLock", "delSend", "delDelete", "stopSet"}
Starting == {"startExists", "addRun", "addInsert", "startSet"}
Stops    == {"stopExists", "stopSet"}
Asking == \A h \in Handlers :
  /\ pc[h] \in Starting => call[h].op = "START"
  /\ pc[h] \in Stops => call[h].op = "STOP"
  /\ pc[h] \in Telling \cup {"runnerGet"} => call[h].op \in {"START", "STOP"}

(* A document that START or STOP has told says what is mined, unless they  *)
(* are at it again; what START has mined is the text in the cache; and it  *)
(* takes back only what it could not record.                               *)
Told ==
  /\ phase = "up" => \A r \in Remembered \ unrecorded :
       (\A h \in Handlers : call[h].rule = r => pc[h] \notin Telling) => Agrees(r)
  /\ \A h \in Handlers :
       /\ pc[h] = "addInsert" => /\ dir[call[h].d].text = cache[call[h].rule]
                                 /\ Startable(cache[call[h].rule])
       /\ pc[h] = "startSet" => /\ dir[workers[call[h].rule]].text = cache[call[h].rule]
                                /\ Startable(cache[call[h].rule])
       /\ call[h].op = "START" /\ pc[h] \in {"delLock", "delSend", "delDelete"} =>
            call[h].rule \notin Remembered \ unrecorded

(* A handler is where its request takes it.                                *)
LEMMA AskingStep == Asking /\ IInv /\ [Next]_vars => Asking'
<1> SUFFICES ASSUME Asking, IInv, [Next]_vars PROVE Asking'
  OBVIOUS
<1>0. pc \in [Handlers -> Labels] /\ call \in [Handlers -> Calls]
  BY DEF IInv, TypeOK
<1> USE <1>0 DEF Asking, Telling, Starting, Stops, handler, At
<1>1. ASSUME NEW h \in Handlers, Request(h) PROVE Asking'
  BY <1>1 DEF Request, ExecSet, ExecCommit, ExecRunner, ExecDrop, ExecList, Begin
<1>2. ASSUME NEW h \in Handlers,
             CommitSet(h) \/ DropRollback(h) \/ DropDoc(h) \/ StopSet(h)
      PROVE  Asking'
  BY <1>2 DEF CommitSet, DropRollback, DropDoc, StopSet, Reply, NoCall
<1>3. ASSUME NEW h \in Handlers, RunnerGet(h) PROVE Asking'
  <2>1. \/ pc'[h] = "idle" /\ call'[h] = NoCall
        \/ /\ call'[h].op = call[h].op /\ call[h].op \in {"START", "STOP"}
           /\ pc'[h] = IF call[h].op = "START" THEN "startExists" ELSE "stopExists"
    BY <1>3 DEF RunnerGet, Reply, Calls
  <2>2. \A k \in Handlers \ {h} : pc'[k] = pc[k] /\ call'[k] = call[k]
    BY <1>3 DEF RunnerGet, Reply
  <2> QED
    BY <2>1, <2>2 DEF NoCall
<1>4. ASSUME NEW h \in Handlers, StartExists(h) \/ StopExists(h) \/ ListExists(h)
      PROVE  Asking'
  BY <1>4 DEF StartExists, StopExists, ListExists, Reply, Goto, NoCall
<1>5. ASSUME NEW h \in Handlers, AddRun(h) \/ AddInsert(h) PROVE Asking'
  <2>1. \/ pc'[h] = "idle" /\ call'[h] = NoCall
        \/ /\ call'[h].op = call[h].op /\ call[h].op = "START"
           /\ pc'[h] \in {"addInsert", "startSet"}
    BY <1>5 DEF AddRun, AddInsert, Reply, Calls
  <2>2. \A k \in Handlers \ {h} : pc'[k] = pc[k] /\ call'[k] = call[k]
    BY <1>5 DEF AddRun, AddInsert, Reply
  <2> QED
    BY <2>1, <2>2 DEF NoCall
<1>6. ASSUME NEW h \in Handlers, StartSet(h) PROVE Asking'
  BY <1>6 DEF StartSet, Reply, Goto, NoCall
<1>7. ASSUME NEW h \in Handlers, DelLock(h) \/ TrackClose(h) \/ DelDelete(h)
      PROVE  Asking'
  <2>1. \/ pc'[h] = "idle" /\ call'[h] = NoCall
        \/ /\ call'[h].op = call[h].op /\ call[h].op \in {"START", "STOP"}
           /\ \/ pc'[h] \in {"delSend", "delDelete"}
              \/ pc'[h] = "stopSet" /\ call[h].op = "STOP"
    <3>1. CASE TrackClose(h)
      BY <3>1 DEF TrackClose, Goto
    <3>2. CASE AfterDel(h) /\ pc[h] \in {"delLock", "delDelete"}
      BY <3>2 DEF AfterDel, Reply, Calls
    <3>3. CASE pc[h] = "delLock" /\ \E w \in Dirs \cup {None} :
                 call' = [call EXCEPT ![h].d = w] /\ pc' = [pc EXCEPT ![h] = "delSend"]
      BY <3>3 DEF Calls
    <3>4. workers \in [Rules -> Dirs \cup {None}] /\ (pc[h] # "idle" => call[h].rule \in Rules)
      BY DEF IInv, TypeOK, Locals
    <3> QED
      BY <1>7, <3>1, <3>2, <3>3, <3>4 DEF DelLock, DelDelete
  <2>2. \A k \in Handlers \ {h} : pc'[k] = pc[k] /\ call'[k] = call[k]
    BY <1>7 DEF DelLock, TrackClose, DelDelete, AfterDel, Reply, Goto
  <2> QED
    BY <2>1, <2>2 DEF NoCall
<1>8. ASSUME NEW h \in Handlers,
             DropExists(h) \/ DropGet(h) \/ DropDel(h) \/ DropLib(h)
      PROVE  Asking'
  BY <1>8 DEF DropExists, DropGet, DropDel, DropLib, Reply, Goto, NoCall
<1>9. CASE Die
  BY <1>9 DEF Die
<1>10. ASSUME NEW h \in Handlers, ListRead(h), ~Die PROVE Asking'
  BY <1>10 DEF ListRead, Reply, NoCall
<1>11. CASE UNCHANGED handler
  BY <1>11
<1>12. ASSUME NEW d \in Dirs, FinishClose(d) PROVE UNCHANGED handler
  BY <1>12 DEF FinishClose
<1>13. ASSUME NEW r \in Rules, Flush(r) \/ BootRule(r) PROVE UNCHANGED handler
  BY <1>13 DEF Flush, BootRule
<1>14. CASE Boot \/ Serve \/ UNCHANGED vars
  BY <1>11, <1>14 DEF Boot, Serve, vars
<1> HIDE DEF Asking, handler, vars
<1> QED
  BY <1>1, <1>2, <1>3, <1>4, <1>5, <1>6, <1>7, <1>8, <1>9, <1>10, <1>11, <1>12,
     <1>13, <1>14 DEF Next, Run, Crash

(* A step with which nothing that is mined or recorded changes, and no     *)
(* START or STOP is about to tell or has told, keeps what is recorded.     *)
LEMMA ToldAside ==
  ASSUME OneAtATime, Told, NEW h \in Handlers,
         pc[h] \notin Telling, pc'[h] \notin Telling,
         UNCHANGED <<phase, doc, workers, dir, unrecorded>>
  PROVE  Told'
<1>m. Remembered \subseteq Rules
  BY RuleServerAssumption
<1> USE <1>m
<1>1. \A r \in Rules : Agrees(r)' = Agrees(r)
  BY DEF Agrees, Startable
<1> QED
  BY <1>1 DEF OneAtATime, Told, Telling

(* START and STOP are at work on r only as far as r's document goes.       *)
LEMMA ToldOthers ==
  ASSUME OneAtATime, SInv, Told, NEW h \in Handlers, phase = "up",
         NEW q \in Remembered \ unrecorded, q # call[h].rule,
         doc'[q] = doc[q], workers'[q] = workers[q],
         workers[q] # None => dir'[workers[q]] # None
                              /\ dir'[workers[q]].text = dir[workers[q]].text
  PROVE  Agrees(q)'
<1>m. Remembered \subseteq Rules
  BY RuleServerAssumption
<1> USE <1>m
<1>1. Agrees(q)
  BY DEF OneAtATime, Told
<1> QED
  BY <1>1 DEF Agrees, Startable

(* The directory of a listed worker, while no Del is at work.              *)
LEMMA ListedDir ==
  ASSUME OneAtATime, SInv, NEW q \in Rules, workers[q] # None
  PROVE  /\ workers[q] \in Dirs
         /\ (\A h \in Handlers : pc[h] # "delDelete" \/ call[h].rule # q) =>
              /\ dir[workers[q]] # None
              /\ dir[workers[q]].rule = q
              /\ dir[workers[q]].st = "mining"
  BY DEF SInv, IInv, TypeOK, Shared, ListedWorkerIsLive

(* Every step keeps documents told.                                        *)
LEMMA ToldStep ==
  ASSUME OneAtATime, SInv, Asking, Told, [Next]_vars
  PROVE  Told'
<1>m. Remembered \subseteq Rules
  BY RuleServerAssumption
<1> USE <1>m
<1>0. /\ TypeOK /\ Locals /\ Known /\ Quiet
      /\ \A h, k \in Handlers : h = k
  BY DEF SInv, IInv, Shared, OneAtATime
<1>a. ASSUME NEW h \in Handlers, pc[h] # "idle" PROVE call[h].rule \in Rules
  BY <1>0, <1>a DEF Locals
<1>b. pc \in [Handlers -> Labels] /\ call \in [Handlers -> Calls]
  BY <1>0 DEF TypeOK
<1>1. ASSUME NEW h \in Handlers, Request(h) PROVE Told'
  BY <1>1, <1>b, ToldAside DEF Request, ExecSet, ExecCommit, ExecRunner, ExecDrop,
     ExecList, Begin, At, Telling, mining, boot, handler
<1>2. ASSUME NEW h \in Handlers,
             RunnerGet(h) \/ StartExists(h) \/ DropExists(h) \/ DropGet(h)
               \/ DropDel(h) \/ DropLib(h) \/ DropRollback(h) \/ ListExists(h)
      PROVE  Told'
  <2>1. UNCHANGED <<phase, doc, workers, dir, unrecorded>> /\ pc[h] \notin Telling
    BY <1>2 DEF RunnerGet, StartExists, DropExists, DropGet, DropDel, DropLib,
       DropRollback, ListExists, At, Telling, mining, boot
  <2>2. pc'[h] \notin Telling
    BY <1>2, <1>b DEF RunnerGet, StartExists, DropExists, DropGet, DropDel,
       DropLib, DropRollback, ListExists, Telling, Reply, Goto
  <2> QED
    BY <2>1, <2>2, ToldAside
<1>3. ASSUME NEW h \in Handlers, StopExists(h) PROVE Told'
  <2>1. UNCHANGED <<phase, doc, workers, dir, unrecorded>> /\ pc[h] = "stopExists"
    BY <1>3 DEF StopExists, At, mining, boot
  <2>2. CASE ~Exists(call[h].rule)
    BY <1>3, <1>b, <2>1, <2>2, ToldAside DEF StopExists, Reply, Telling
  <2>3. CASE Exists(call[h].rule)
    <3>1. pc'[h] = "delLock" /\ call' = call /\ call[h].op = "STOP"
      BY <1>3, <1>b, <2>1, <2>3 DEF StopExists, Goto, Asking, Stops
    <3>2. \A r \in Rules : Agrees(r)' = Agrees(r)
      BY <2>1 DEF Agrees, Startable
    <3> QED
      BY <1>0, <2>1, <3>1, <3>2 DEF Told, Telling
  <2> QED
    BY <2>2, <2>3
<1>4. ASSUME NEW h \in Handlers, AddRun(h) PROVE Told'
  <2> DEFINE r == call[h].rule
  <2>1. /\ pc[h] = "addRun" /\ phase = "up" /\ r \in Rules
        /\ UNCHANGED <<phase, cache, doc, workers, unrecorded>>
    BY <1>4, <1>a DEF AddRun, At, boot
  <2>2. CASE ~Startable(cache[r])
    BY <1>4, <1>b, <2>1, <2>2, ToldAside DEF AddRun, Reply, Telling
  <2>3. CASE Startable(cache[r])
    <3>1. PICK d \in Dirs : /\ dir[d] = None
                            /\ dir' = NewDir(d, r, cache[r])
                            /\ call' = [call EXCEPT ![h].d = d]
      BY <1>4, <2>3 DEF AddRun
    <3>2. /\ call'[h].d = d /\ call'[h].rule = r /\ pc'[h] = "addInsert"
          /\ \A e \in Dirs \ {d} : dir'[e] = dir[e]
          /\ dir'[d].text = cache[r]
      BY <1>4, <1>b, <1>0, <2>3, <3>1 DEF AddRun, NewDir, TypeOK, Calls
    <3>3. ASSUME NEW q \in Remembered \ unrecorded, q # r PROVE Agrees(q)'
      <4>1. workers[q] # None => dir[workers[q]] # None /\ workers[q] \in Dirs
        BY <2>1, ListedDir DEF OneAtATime
      <4> QED
        BY <2>1, <3>1, <3>2, <3>3, <4>1, ToldOthers
    <3> QED
      BY <1>0, <2>1, <2>3, <3>2, <3>3 DEF Told, Telling, Startable
  <2> QED
    BY <2>2, <2>3
<1>5. ASSUME NEW h \in Handlers, AddInsert(h) PROVE Told'
  <2> DEFINE r == call[h].rule
  <2>1. /\ pc[h] = "addInsert" /\ phase = "up" /\ r \in Rules
        /\ UNCHANGED <<phase, cache, doc, dir, unrecorded>>
        /\ workers' = [workers EXCEPT ![r] = call[h].d]
    BY <1>5, <1>a DEF AddInsert, At, boot
  <2>2. pc'[h] = "startSet" /\ call'[h].rule = r
    BY <1>5, <1>b DEF AddInsert, Calls
  <2>3. workers'[r] = call[h].d /\ \A q \in Rules \ {r} : workers'[q] = workers[q]
    BY <1>0, <2>1 DEF TypeOK
  <2>4. dir[call[h].d].text = cache[r] /\ Startable(cache[r])
    BY <2>1 DEF Told
  <2>5. ASSUME NEW q \in Remembered \ unrecorded, q # r PROVE Agrees(q)'
    <3>1. workers[q] # None => dir[workers[q]] # None
      BY <2>1, ListedDir DEF OneAtATime
    <3> QED
      BY <2>1, <2>3, <2>5, <3>1, ToldOthers
  <2> QED
    BY <1>0, <2>1, <2>2, <2>3, <2>4, <2>5 DEF Told, Telling, Startable
<1>6. ASSUME NEW h \in Handlers, StartSet(h) PROVE Told'
  <2>0. pc[h] # "idle"
    BY <1>6 DEF StartSet, At
  <2>r. PICK r \in Rules : r = call[h].rule
    BY <1>a, <2>0
  <2>1. /\ pc[h] = "startSet" /\ phase = "up" /\ r \in Rules
        /\ UNCHANGED <<phase, cache, workers, dir>>
        /\ workers[r] # None /\ call[h].p \in GoodDocs
        /\ dir[workers[r]].text = cache[r] /\ Startable(cache[r])
    BY <2>r, <1>6, <1>a, <1>0 DEF StartSet, At, boot, mining, Known, Locals, Told
  <2>2. PICK out \in DBOutcomes :
          /\ doc' = [doc EXCEPT ![r] = Stored(out, StatusDoc(h, TRUE), @)]
          /\ unrecorded' = Recorded(r, out = "ok" /\ call[h].p.value = cache[r])
          /\ IF out = "ok" THEN Reply(h) ELSE Goto(h, "delLock")
    BY <2>r, <1>6 DEF StartSet
  <2>3. ASSUME NEW q \in Remembered \ unrecorded', q # r PROVE Agrees(q)'
    <3>1. q \notin unrecorded /\ doc'[q] = doc[q]
      BY <2>r, <1>0, <2>2, <2>3 DEF Recorded, TypeOK
    <3>2. workers[q] # None => dir[workers[q]] # None
      BY <2>r, <2>1, ListedDir DEF OneAtATime
    <3> QED
      BY <2>r, <2>1, <2>3, <3>1, <3>2, ToldOthers
  <2>4. ASSUME r \in Remembered \ unrecorded' PROVE pc'[h] = "idle" /\ Agrees(r)'
    <3>1. out = "ok" /\ call[h].p.value = cache[r]
      BY <2>r, <2>2, <2>4 DEF Recorded
    <3>2. doc'[r] = StatusDoc(h, TRUE)
      BY <2>r, <1>0, <2>1, <2>2, <3>1 DEF Stored, TypeOK
    <3>3. doc'[r] # None /\ doc'[r].value = cache[r] /\ doc'[r].isopen
      BY <2>r, <2>1, <3>1, <3>2, StatusDocKeepsText
    <3>4. pc'[h] = "idle"
      BY <2>r, <1>b, <2>2, <3>1 DEF Reply
    <3> QED
      BY <2>r, <2>1, <3>3, <3>4 DEF Agrees, Startable
  <2>5. pc'[h] = "idle" \/ (pc'[h] = "delLock" /\ call' = call)
    BY <2>r, <1>b, <2>2 DEF Reply, Goto
  <2>6. pc'[h] = "delLock" => r \notin Remembered \ unrecorded'
    BY <2>r, <2>4
  <2> QED
    BY <2>r, <1>0, <2>1, <2>3, <2>4, <2>5, <2>6 DEF Told, Telling
<1>7. ASSUME NEW h \in Handlers, DelLock(h) PROVE Told'
  <2> DEFINE r == call[h].rule
  <2>1. /\ pc[h] = "delLock" /\ phase = "up" /\ r \in Rules
        /\ UNCHANGED <<phase, doc, workers, dir, unrecorded>>
        /\ call[h].op \in {"START", "STOP"}
        /\ call[h].op = "START" => r \notin Remembered \ unrecorded
    BY <1>7, <1>a DEF DelLock, At, boot, mining, Told, Asking, Telling
  <2>2. \/ pc'[h] = "idle" /\ call[h].op = "START"
        \/ pc'[h] \in {"stopSet", "delSend"} /\ call'[h].rule = r /\ call'[h].op = call[h].op
    <3>1. CASE workers[r] = None
      BY <1>7, <1>b, <2>1, <3>1 DEF DelLock, AfterDel, Reply, Calls
    <3>2. CASE workers[r] # None
      BY <1>7, <1>b, <2>1, <3>2 DEF DelLock, Calls
    <3> QED
      BY <3>1, <3>2
  <2>3. \A q \in Rules : Agrees(q)' = Agrees(q)
    BY <2>1 DEF Agrees, Startable
  <2> QED
    BY <1>0, <2>1, <2>2, <2>3 DEF Told, Telling
<1>8. ASSUME NEW h \in Handlers, TrackClose(h) PROVE Told'
  <2> DEFINE r == call[h].rule
  <2>1. /\ pc[h] = "delSend" /\ phase = "up" /\ r \in Rules
        /\ UNCHANGED <<phase, doc, workers, unrecorded>>
        /\ call[h].op = "START" => r \notin Remembered \ unrecorded
        /\ dir' = [dir EXCEPT ![call[h].d].st = "closing"]
    BY <1>8, <1>a DEF TrackClose, At, boot, Told
  <2>2. pc'[h] = "delDelete" /\ call' = call
    BY <1>8, <1>b DEF TrackClose, Goto
  <2>3. \A e \in Dirs : dir[e] # None => dir'[e] # None /\ dir'[e].text = dir[e].text
    <3>1. TypeOK'
      BY TypeStep DEF SInv
    <3>2. ASSUME NEW e \in Dirs, dir[e] # None PROVE dir'[e] # None /\ dir'[e].text = dir[e].text
      <4>1. dir[e] \in DirRecs
        BY <1>0, <3>2 DEF TypeOK
      <4>2. dir'[e] = dir[e] \/ dir'[e] = [dir[e] EXCEPT !.st = "closing"]
        BY <1>0, <2>1 DEF TypeOK
      <4>3. [dir[e] EXCEPT !.st = "closing"] \in DirRecs
            /\ [dir[e] EXCEPT !.st = "closing"].text = dir[e].text
        BY <4>1 DEF DirRecs
      <4> QED
        BY <3>2, <4>2, <4>3, NoneIsNoRecord
    <3> QED
      BY <3>2
  <2>4. ASSUME NEW q \in Remembered \ unrecorded, q # r PROVE Agrees(q)'
    <3>1. workers[q] # None => dir[workers[q]] # None /\ workers[q] \in Dirs
      BY <2>1, ListedDir DEF OneAtATime
    <3> QED
      BY <2>1, <2>3, <2>4, <3>1, ToldOthers
  <2> QED
    BY <1>0, <2>1, <2>2, <2>4 DEF Told, Telling
<1>9. ASSUME NEW h \in Handlers, DelDelete(h) PROVE Told'
  <2> DEFINE r == call[h].rule
  <2>1. /\ pc[h] = "delDelete" /\ phase = "up" /\ r \in Rules
        /\ UNCHANGED <<phase, doc, dir, unrecorded>>
        /\ workers' = [workers EXCEPT ![r] = None]
        /\ call[h].op \in {"START", "STOP"}
        /\ call[h].op = "START" => r \notin Remembered \ unrecorded
    BY <1>9, <1>a DEF DelDelete, Unlisted, At, boot, Told, Asking, Telling
  <2>2. \/ pc'[h] = "idle" /\ call[h].op = "START"
        \/ pc'[h] = "stopSet" /\ call'[h].rule = r
    BY <1>9, <1>b, <2>1 DEF DelDelete, AfterDel, Reply, Calls
  <2>3. ASSUME NEW q \in Remembered \ unrecorded, q # r PROVE Agrees(q)'
    <3>1. workers'[q] = workers[q]
      BY <1>0, <2>1, <2>3 DEF TypeOK
    <3>2. workers[q] # None => dir[workers[q]] # None
      BY <2>3, <1>0, ListedDir DEF OneAtATime
    <3> QED
      BY <2>1, <2>3, <3>1, <3>2, ToldOthers
  <2> QED
    BY <1>0, <2>1, <2>2, <2>3 DEF Told, Telling
<1>10. ASSUME NEW h \in Handlers, CommitSet(h) \/ StopSet(h) \/ DropDoc(h) PROVE Told'
  <2>0. pc[h] # "idle"
    BY <1>10 DEF CommitSet, StopSet, DropDoc, At
  <2>r. PICK r \in Rules : r = call[h].rule
    BY <1>a, <2>0
  <2>1. /\ pc[h] \in {"commitSet", "stopSet", "dropDoc"} /\ phase = "up" /\ r \in Rules
        /\ UNCHANGED <<phase, workers, dir>>
        /\ pc'[h] = "idle" /\ call'[h] = NoCall
    BY <2>r, <1>10, <1>a, <1>b DEF CommitSet, StopSet, DropDoc, At, boot, mining, Reply
  <2>2. \A q \in Rules \ {r} : doc'[q] = doc[q] /\ (q \in unrecorded' <=> q \in unrecorded)
    <3>1. \E v : doc' = [doc EXCEPT ![r] = v]
      BY <2>r, <1>10 DEF CommitSet, StopSet, DropDoc
    <3>2. \/ unrecorded' = unrecorded
          \/ unrecorded' = (unrecorded \ {r}) \cup ({r} \cap Remembered)
          \/ unrecorded' = unrecorded \ {r}
      BY <2>r, <1>10 DEF CommitSet, StopSet, DropDoc, Recorded, Stored
    <3> QED
      BY <1>0, <3>1, <3>2 DEF TypeOK
  <2>3. ASSUME NEW q \in Remembered \ unrecorded', q # r PROVE Agrees(q)'
    <3>1. workers[q] # None => dir[workers[q]] # None
      BY <2>r, <2>1, ListedDir DEF OneAtATime
    <3> QED
      BY <2>r, <2>1, <2>2, <2>3, <3>1, ToldOthers
  <2>4. ASSUME r \in Remembered \ unrecorded' PROVE Agrees(r)'
    <3>1. CASE doc'[r] = doc[r] /\ r \in Remembered \ unrecorded /\ pc[h] \notin Telling
      <4>1. Agrees(r)
        BY <2>r, <1>0, <2>1, <3>1 DEF Told
      <4> QED
        BY <2>r, <2>1, <3>1, <4>1 DEF Agrees, Startable
    <3>2. CASE workers[r] = None /\ (doc'[r] = None \/ ~doc'[r].isopen)
      BY <2>r, <2>1, <3>2 DEF Agrees
    <3>3. CASE CommitSet(h)
      <4>1. PICK out \in DBOutcomes :
              /\ doc' = [doc EXCEPT ![r] =
                           Stored(out, [value |-> call[h].text, isopen |-> FALSE], @)]
              /\ unrecorded' = Stored(out, Recorded(r, ~Exists(r)), unrecorded)
        BY <2>r, <3>3 DEF CommitSet
      <4>2. CASE out = "refused"
        BY <2>r, <1>0, <2>1, <2>4, <3>1, <3>3, <4>1, <4>2 DEF Stored, TypeOK, CommitSet, At, Telling
      <4>3. CASE out # "refused"
        <5>1. workers[r] = None
          BY <2>r, <2>4, <4>1, <4>3 DEF Stored, Recorded, Exists
        <5>2. doc'[r] = [value |-> call[h].text, isopen |-> FALSE]
          BY <2>r, <1>0, <2>1, <4>1, <4>3 DEF Stored, TypeOK
        <5> QED
          BY <2>r, <3>2, <5>1, <5>2
      <4> QED
        BY <2>r, <4>2, <4>3
    <3>4. CASE StopSet(h)
      <4>1. PICK out \in DBOutcomes :
              /\ doc' = [doc EXCEPT ![r] = Stored(out, StatusDoc(h, FALSE), @)]
              /\ unrecorded' = Recorded(r, out = "ok")
        BY <2>r, <3>4 DEF StopSet
      <4>2. out = "ok" /\ workers[r] = None /\ call[h].p \in GoodDocs
        BY <2>r, <1>0, <2>4, <3>4, <4>1 DEF Recorded, Known, StopSet, At, Locals
      <4>3. doc'[r] = StatusDoc(h, FALSE)
        BY <2>r, <1>0, <2>1, <4>1, <4>2 DEF Stored, TypeOK
      <4> QED
        BY <2>r, <3>2, <4>2, <4>3, StatusDocKeepsText
    <3>5. CASE DropDoc(h)
      <4>1. workers[r] = None /\ pc[h] = "dropDoc"
        BY <2>r, <1>0, <3>5 DEF Known, DropDoc, At
      <4>2. doc'[r] = None \/ (doc'[r] = doc[r] /\ unrecorded' = unrecorded)
        BY <2>r, <1>0, <2>1, <3>5 DEF DropDoc, Stored, RemoveFails, TypeOK
      <4> QED
        BY <2>r, <2>4, <3>1, <3>2, <4>1, <4>2 DEF Telling
    <3> QED
      BY <2>r, <1>10, <3>3, <3>4, <3>5
  <2> QED
    BY <2>r, <1>0, <2>1, <2>3, <2>4 DEF Told, Telling
<1>11. ASSUME NEW h \in Handlers, ListRead(h), ~Die PROVE Told'
  BY <1>11, <1>b, ToldAside DEF ListRead, Reply, At, Telling, mining, boot
<1>12. CASE Die
  BY <1>12 DEF Die, Told
<1>13. CASE Boot \/ \E r \in Rules : BootRule(r)
  <2>1. phase # "up" /\ phase' # "up" /\ pc' = pc
    BY <1>13 DEF Boot, BootRule, handler
  <2>2. \A h \in Handlers : pc'[h] = "idle"
    BY <1>0, <2>1 DEF Quiet
  <2> QED
    BY <2>1, <2>2 DEF Told
<1>14. CASE Serve
  <2>1. phase = "boot" /\ toLoad = {} /\ UNCHANGED <<doc, workers, dir, pc>>
    BY <1>14 DEF Serve, mining, handler
  <2>2. \A r \in Rules : Agrees(r)'
    BY <2>1 DEF SInv, BootInv, Resumed, Agrees, Startable
  <2>3. \A h \in Handlers : pc'[h] = "idle"
    BY <1>0, <2>1 DEF Quiet
  <2> QED
    BY <2>2, <2>3 DEF Told
<1>15. ASSUME NEW d \in Dirs, FinishClose(d) PROVE Told'
  <2>1. /\ dir[d] # None /\ dir[d].st = "closing"
        /\ \A e \in Dirs \ {d} : dir'[e] = dir[e]
        /\ UNCHANGED <<phase, cache, doc, workers, pc, call, unrecorded>>
    BY <1>0, <1>15 DEF FinishClose, TypeOK, boot, handler
  <2>2. ASSUME NEW q \in Rules, workers[q] # None,
               \A h \in Handlers : pc[h] # "delDelete" \/ call[h].rule # q
        PROVE  dir'[workers[q]] = dir[workers[q]]
    BY <2>1, <2>2, ListedDir DEF OneAtATime
  <2>3. ASSUME phase' = "up", NEW q \in Remembered \ unrecorded',
               \A h \in Handlers : call'[h].rule = q => pc'[h] \notin Telling
        PROVE  Agrees(q)'
    <3>1. Agrees(q)
      BY <2>1, <2>3 DEF Told
    <3>2. workers[q] # None => dir'[workers[q]] = dir[workers[q]]
      BY <2>1, <2>2, <2>3 DEF Telling
    <3> QED
      BY <2>1, <3>1, <3>2 DEF Agrees, Startable
  <2>4. ASSUME NEW h \in Handlers, pc[h] = "addInsert"
        PROVE  dir'[call[h].d] = dir[call[h].d]
    <3>1. call[h].d \in Dirs /\ dir[call[h].d].st = "mining"
      BY <1>0, <2>4 DEF Locals, SInv, IInv, Shared, Adding, Critical
    <3> QED
      BY <2>1, <3>1
  <2>5. ASSUME NEW h \in Handlers, pc[h] = "startSet"
        PROVE  dir'[workers[call[h].rule]] = dir[workers[call[h].rule]]
    <3>1. call[h].rule \in Rules /\ workers[call[h].rule] # None
      BY <1>0, <1>a, <2>5 DEF Known
    <3> QED
      BY <1>0, <2>2, <2>5, <3>1
  <2> QED
    BY <2>1, <2>3, <2>4, <2>5 DEF Told, Startable
<1>16. CASE UNCHANGED <<phase, cache, doc, workers, dir, pc, call, unrecorded>>
  <2>1. \A r \in Rules : Agrees(r)' = Agrees(r)
    BY <1>16 DEF Agrees, Startable
  <2> QED
    BY <1>16, <2>1 DEF Told, Startable
<1>17. ASSUME (\E r \in Rules : Flush(r)) \/ UNCHANGED vars
       PROVE  UNCHANGED <<phase, cache, doc, workers, dir, pc, call, unrecorded>>
  BY <1>17 DEF Flush, vars, boot, mining, handler
<1> HIDE DEF vars
<1> QED
  BY <1>1, <1>2, <1>3, <1>4, <1>5, <1>6, <1>7, <1>8, <1>9, <1>10, <1>11,
     <1>12, <1>13, <1>14, <1>15, <1>16, <1>17 DEF Next, Run, Crash

(* What is mined for a rule nobody starts or stops is what its document    *)
(* says, if that was told.                                                 *)
LEMMA MinedAsTold ==
  ASSUME OneAtATime, SInv, Asking, Told, phase = "up",
         NEW r \in Remembered \ unrecorded, AtRest(r)
  PROVE  Mined(r) = ToResume(r)
<1>m. Remembered \subseteq Rules
  BY RuleServerAssumption
<1> USE <1>m
<1>1. \A h \in Handlers : call[h].rule = r => pc[h] \notin Telling
  BY DEF AtRest, Asking
<1>2. Agrees(r)
  BY <1>1 DEF Told
<1>3. ASSUME NEW d \in Dirs, dir[d] # None, dir[d].rule = r, dir[d].st = "mining"
      PROVE  workers[r] = d
  BY <1>1, <1>3 DEF SInv, NoOrphanMiner, IInv, Shared, Adding, Telling
<1>4. workers[r] # None =>
        /\ workers[r] \in Dirs
        /\ dir[workers[r]] # None
        /\ dir[workers[r]].rule = r
        /\ dir[workers[r]].st = "mining"
  BY <1>1, ListedDir DEF Telling
<1>5. doc[r] # None /\ doc[r].isopen /\ Startable(doc[r].value) =>
        ToResume(r) = {doc[r].value}
  BY DEF ToResume
<1>6. ~(doc[r] # None /\ doc[r].isopen /\ Startable(doc[r].value)) => ToResume(r) = {}
  BY DEF ToResume
<1>7. workers[r] # None => Mined(r) = {dir[workers[r]].text}
  BY <1>3, <1>4 DEF Mined
<1>8. workers[r] = None => Mined(r) = {}
  BY <1>3, RuleServerAssumption DEF Mined
<1> QED
  BY <1>2, <1>5, <1>6, <1>7, <1>8 DEF Agrees

(* With one request at a time, a crash between requests loses no rule that *)
(* runs and starts none that does not, but for those whose document was not*)
(* told (cmds.go:64, server.go:374, 411).                                  *)
THEOREM RestartChangesNothing ==
  ASSUME OneAtATime
  PROVE  Spec => []RestartResumesRunning
<1>1. Init => SInv /\ Asking /\ Told
  <2>1. Init => Asking /\ Told
    BY DEF Init, Asking, Told, Telling, Starting, Stops, NoCall
  <2> QED
    BY <2>1, InitSInv
<1>2. SInv /\ Asking /\ Told /\ [Next]_vars => (SInv /\ Asking /\ Told)'
  <2> SUFFICES ASSUME SInv, Asking, Told, [Next]_vars PROVE SInv' /\ Asking' /\ Told'
    OBVIOUS
  <2>1. SInv'
    BY NextSInv
  <2>2. Asking'
    BY AskingStep DEF SInv
  <2> QED
    BY <2>1, <2>2, ToldStep
<1>3. SInv /\ Asking /\ Told => RestartResumesRunning
  BY MinedAsTold DEF RestartResumesRunning
<1> QED
  BY <1>1, <1>2, <1>3, PTL DEF Spec

(* A text changes in a document only when a COMMIT writes it.              *)
LEMMA TextStep ==
  ASSUME OneAtATime, SInv, [Next]_vars, NEW q \in Rules, TextChanges(q)
  PROVE  \E k \in Handlers : pc[k] = "commitSet" /\ call[k].rule = q
<1> DEFINE Goal == \E k \in Handlers : pc[k] = "commitSet" /\ call[k].rule = q
<1>1. ASSUME doc' = doc PROVE FALSE
  BY <1>1 DEF TextChanges
<1>2. ASSUME NEW h \in Handlers, CommitSet(h) PROVE Goal
  BY <1>2 DEF TextChanges, SInv, IInv, TypeOK, CommitSet, At
<1>3. ASSUME NEW h \in Handlers, StartSet(h) \/ StopSet(h) PROVE FALSE
  <2>1. /\ call[h].rule \in Rules /\ call[h].p \in GoodDocs
        /\ doc[call[h].rule] # None /\ doc[call[h].rule].value = call[h].p.value
    BY <1>3 DEF StartSet, StopSet, At, SInv, IInv, Locals, Known
  <2>2. PICK open \in BOOLEAN, out \in DBOutcomes :
          doc' = [doc EXCEPT ![call[h].rule] = Stored(out, StatusDoc(h, open), @)]
    BY <1>3 DEF StartSet, StopSet
  <2> QED
    BY <2>1, <2>2, StatusDocKeepsText DEF Stored, TextChanges, SInv, IInv, TypeOK
<1>4. ASSUME NEW h \in Handlers, DropDoc(h) PROVE FALSE
  BY <1>4 DEF DropDoc, Stored, TextChanges, SInv, IInv, TypeOK
<1>5. ASSUME NEW h \in Handlers, Request(h) PROVE doc' = doc
  BY <1>5 DEF Request, ExecSet, ExecCommit, ExecRunner, ExecDrop, ExecList
<1>6. ASSUME NEW h \in Handlers, Run(h), ~CommitSet(h), ~StartSet(h), ~StopSet(h),
             ~DropDoc(h)
      PROVE  doc' = doc
  BY <1>6 DEF Run, RunnerGet, StartExists, AddInsert, StopExists, DelDelete,
     DropExists, DropGet, DropDel, DropLib, DropRollback, ListExists, ListRead
<1>7. ASSUME NEW h \in Handlers, AddRun(h) \/ DelLock(h) \/ TrackClose(h)
      PROVE  doc' = doc
  BY <1>7 DEF AddRun, DelLock, TrackClose
<1>8. ASSUME \/ \E d \in Dirs : FinishClose(d)
             \/ \E r \in Rules : Flush(r) \/ BootRule(r)
             \/ Crash \/ Boot \/ Serve \/ UNCHANGED vars
      PROVE  doc' = doc
  BY <1>8 DEF FinishClose, Flush, BootRule, Crash, Boot, Serve, vars
<1> QED
  BY <1>1, <1>2, <1>3, <1>4, <1>5, <1>6, <1>7, <1>8 DEF Next

(* As long as requests come one at a time neither START nor STOP, which    *)
(* write the whole document back, changes the committed text of a rule     *)
(* (server.go:222-240, 329-422).                                           *)
THEOREM TextsAreCommitted ==
  ASSUME OneAtATime
  PROVE  Spec => OnlyCommitWritesText
<1> DEFINE A == \A r \in Rules : TextChanges(r) =>
                  \E h \in Handlers : pc[h] = "commitSet" /\ call[h].rule = r
<1>1. SInv /\ [Next]_vars => [A]_vars
  BY TextStep
<1> QED
  BY <1>1, SerialInvariance, PTL DEF Spec, OnlyCommitWritesText

=============================================================================

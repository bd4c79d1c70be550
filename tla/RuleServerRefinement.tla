------------------------- MODULE RuleServerRefinement -------------------------
(***************************************************************************)
(* That the rule server implements RuleRegistry for a client that sends    *)
(* one request at a time, for any rules, texts and directories and any     *)
(* failures.  running[r] is mapped to the texts that are mined for r, so   *)
(* the proof first says what is mined for a rule in each situation of the  *)
(* handler: nothing if no worker is listed, the text of the listed worker  *)
(* otherwise.                                                              *)
(***************************************************************************)
EXTENDS RuleServerSerialProofs

(* A directory mined for a rule is the listed one, unless Add is at work.  *)
LEMMA MinerIsListed ==
  ASSUME SInv, NEW d \in Dirs, dir[d] # None, dir[d].st = "mining",
         \A h \in Handlers : pc[h] # "addInsert"
  PROVE  dir[d].rule \in Rules /\ workers[dir[d].rule] = d
  BY DEF SInv, NoOrphanMiner, IInv, TypeOK, DirRecs

(* Nothing is mined for a rule without a worker.                           *)
LEMMA NothingMined ==
  ASSUME SInv, NEW r \in Rules, workers[r] = None,
         \A h \in Handlers : pc[h] # "addInsert"
  PROVE  Mined(r) = {}
  BY MinerIsListed, RuleServerAssumption DEF Mined

(* Something is mined for a rule that has a worker, while none is closed.  *)
LEMMA SomethingMined ==
  ASSUME SInv, NEW r \in Rules, workers[r] # None,
         \A h \in Handlers : pc[h] # "delDelete"
  PROVE  Mined(r) # {}
<1>1. workers[r] \in Dirs
  BY DEF SInv, IInv, TypeOK
<1>2. /\ dir[workers[r]] # None
      /\ dir[workers[r]].rule = r
      /\ dir[workers[r]].st = "mining"
  BY DEF SInv, IInv, Shared, ListedWorkerIsLive
<1> QED
  BY <1>1, <1>2 DEF Mined

(* What is mined depends on the directories alone.                         *)
LEMMA SameMined ==
  ASSUME dir' = dir
  PROVE  \A r \in Rules : Mined(r)' = Mined(r)
  BY DEF Mined

(* A new directory is mined with its text, and changes nothing else.       *)
LEMMA NewMine ==
  ASSUME SInv, NEW d \in Dirs, NEW r \in Rules, NEW t \in WellFormed,
         dir[d] = None, dir' = NewDir(d, r, t), Mined(r) = {}
  PROVE  /\ Mined(r)' = {t}
         /\ \A q \in Rules \ {r} : Mined(q)' = Mined(q)
<1> DEFINE new == [rule |-> r, text |-> t, st |-> "mining"]
<1>1. new # None
  BY NoneIsNoRecord DEF DirRecs, WellFormed
<1>2. dir'[d] = new /\ \A e \in Dirs \ {d} : dir'[e] = dir[e]
  BY DEF NewDir, SInv, IInv, TypeOK
<1>3. new.rule = r /\ new.text = t /\ new.st = "mining"
  OBVIOUS
<1> HIDE DEF new
<1>4. Mined(r)' = {t}
  BY <1>1, <1>2, <1>3 DEF Mined
<1>5. \A q \in Rules \ {r} : Mined(q)' = Mined(q)
  BY <1>1, <1>2, <1>3 DEF Mined
<1> QED
  BY <1>4, <1>5

(* Closing the only directory mined for a rule leaves nothing mined.       *)
LEMMA MineClosed ==
  ASSUME NEW d \in Dirs, NEW r \in Rules,
         dir[d].rule = r, dir'[d].st = "closing",
         \A e \in Dirs \ {d} : dir'[e] = dir[e],
         \A e \in Dirs \ {d} :
           dir[e] # None /\ dir[e].st = "mining" => dir[e].rule # r,
         dir'[d].rule = r
  PROVE  Mined(r)' = {} /\ \A q \in Rules \ {r} : Mined(q)' = Mined(q)
<1>1. Mined(r)' = {}
  BY DEF Mined
<1>2. ASSUME NEW q \in Rules \ {r} PROVE Mined(q)' = Mined(q)
  BY DEF Mined
<1> QED
  BY <1>1, <1>2

(* The end of the process is that of the registry.                         *)
LEMMA DieIsCrash == Die /\ UNCHANGED doc => Registry!Crash
<1> SUFFICES ASSUME Die, UNCHANGED doc PROVE Registry!Crash
  OBVIOUS
<1>1. \A r \in Rules : Mined(r)' = {}
  BY DEF Die, Mined
<1> QED
  BY <1>1 DEF Die, Registry!Crash

(* running of the registry, and how it changes.                            *)
Running == [r \in Rules |-> Mined(r)]

LEMMA SameRunning ==
  ASSUME dir' = dir
  PROVE  Running' = Running
  BY SameMined DEF Running

LEMMA RunningChanged ==
  ASSUME NEW r \in Rules, NEW m, Mined(r)' = m,
         \A q \in Rules \ {r} : Mined(q)' = Mined(q)
  PROVE  Running' = [Running EXCEPT ![r] = m]
  BY DEF Running

(* Recording isopen in a document is setting its field.                    *)
LEMMA SetIsOpen ==
  ASSUME SInv, NEW h \in Handlers, NEW b \in BOOLEAN, NEW r \in Rules,
         call[h].p \in GoodDocs, doc[r] # None, doc[r].value = call[h].p.value
  PROVE  StatusDoc(h, b) = [doc[r] EXCEPT !.isopen = b]
<1> DEFINE e == doc[r]
<1>1. e \in GoodDocs
  BY DEF SInv, IInv, TypeOK, GoodDocs
<1>2. e.value = call[h].p.value
  OBVIOUS
<1> HIDE DEF e
<1>3. [e EXCEPT !.isopen = b] = [value |-> e.value, isopen |-> b]
  BY <1>1 DEF GoodDocs
<1>4. StatusDoc(h, b) = [e EXCEPT !.isopen = b]
  BY <1>2, <1>3 DEF StatusDoc
<1> QED
  BY <1>4 DEF e

(* What the invariant says of a handler that is at work.                   *)
LEMMA AtWork ==
  ASSUME OneAtATime, SInv, NEW h \in Handlers, pc[h] # "idle"
  PROVE  /\ call[h].rule \in Rules
         /\ call[h].d \in Dirs \cup {None}
         /\ \A k \in Handlers : k = h
         /\ doc \in [Rules -> GoodDocs \cup {None}]
         /\ cache \in [Rules -> WellFormed \cup {None}]
         /\ pc[h] \in {"commitSet", "dropRollback"} => call[h].text \in WellFormed
         /\ pc[h] \in {"startSet", "stopSet"} => call[h].p \in GoodDocs
         /\ None \notin WellFormed
  BY RuleServerAssumption
  DEF SInv, IInv, TypeOK, Locals, OneAtATime, Calls, GoodDocs, WellFormed

(* Every step is one of RuleRegistry or changes nothing there.             *)
LEMMA RegistryStep ==
  ASSUME OneAtATime, SInv, [Next]_vars
  PROVE  [Registry!Next]_(Registry!registry)
<1> DEFINE Maps == Registry!Next \/ UNCHANGED Registry!registry
<1> USE DEF At, mining, handler, boot
<1>1. ASSUME NEW h \in Handlers, NEW r \in Rules, NEW t \in Texts,
             ExecSet(h, r, t)
      PROVE  Maps
  <2>1. dir' = dir /\ UNCHANGED <<phase, doc>> /\ phase = "up"
    BY <1>1 DEF ExecSet
  <2>2. Registry!Define(r, t)
    BY <1>1, <2>1, SameRunning DEF ExecSet, Registry!Define, Running
  <2> QED
    BY <2>2 DEF Registry!Next
<1>2. ASSUME NEW h \in Handlers, NEW r \in Rules, ExecCommit(h, r) PROVE Maps
  BY <1>2, SameRunning DEF ExecCommit, Running, Registry!registry
<1>3. ASSUME NEW h \in Handlers, NEW op \in {"START", "STOP"}, NEW r \in Rules,
             ExecRunner(h, op, r)
      PROVE  Maps
  BY <1>3, SameRunning DEF ExecRunner, Running, Registry!registry
<1>4. ASSUME NEW h \in Handlers, NEW r \in Rules, ExecDrop(h, r) PROVE Maps
  BY <1>4, SameRunning DEF ExecDrop, Running, Registry!registry
<1>5. ASSUME NEW h \in Handlers, NEW r \in Rules, ExecList(h, r) PROVE Maps
  BY <1>5, SameRunning DEF ExecList, Running, Registry!registry
<1>6. ASSUME NEW h \in Handlers, CommitSet(h) PROVE Maps
  <2> DEFINE r == call[h].rule
  <2>1. r \in Rules /\ dir' = dir /\ UNCHANGED <<phase, cache>> /\ phase = "up"
    BY <1>6, AtWork DEF CommitSet
  <2>2. cache[r] = call[h].text /\ cache[r] # None
    BY <1>6, AtWork DEF CommitSet, SInv, Known
  <2>3. PICK out \in DBOutcomes :
          doc' = [doc EXCEPT ![r] =
                    Stored(out, [value |-> call[h].text, isopen |-> FALSE], @)]
    BY <1>6 DEF CommitSet
  <2>4. CASE out = "refused"
    <3>1. doc' = doc
      BY <1>6, <2>1, <2>3, <2>4, AtWork DEF Stored, CommitSet
    <3> QED
      BY <2>1, <3>1, SameRunning DEF Registry!registry, Running
  <2>5. CASE out # "refused"
    <3>1. doc' = [doc EXCEPT ![r] = [value |-> cache[r], isopen |-> FALSE]]
      BY <2>2, <2>3, <2>5 DEF Stored
    <3>2. Registry!Commit(r)
      BY <2>1, <2>2, <3>1, SameRunning DEF Registry!Commit, Running
    <3> QED
      BY <2>1, <3>2 DEF Registry!Next
  <2> QED
    BY <2>4, <2>5
<1>7. ASSUME NEW h \in Handlers, RunnerGet(h) PROVE Maps
  BY <1>7, SameRunning DEF RunnerGet, Running, Registry!registry
<1>8. ASSUME NEW h \in Handlers, StartExists(h) PROVE Maps
  BY <1>8, SameRunning DEF StartExists, Running, Registry!registry
<1>9. ASSUME NEW h \in Handlers, AddRun(h) PROVE Maps
  <2> DEFINE r == call[h].rule
  <2>1. /\ r \in Rules /\ UNCHANGED <<phase, cache, doc>> /\ phase = "up"
        /\ doc[r] # None /\ workers[r] = None
        /\ \A k \in Handlers : pc[k] # "addInsert"
    BY <1>9, AtWork DEF AddRun, SInv, Known
  <2>2. CASE dir' = dir
    BY <2>1, <2>2, SameRunning DEF Registry!registry, Running
  <2>3. CASE dir' # dir
    <3>1. PICK d \in Dirs : dir[d] = None /\ dir' = NewDir(d, r, cache[r])
      BY <1>9, <2>3 DEF AddRun
    <3>2. cache[r] \in WellFormed /\ cache[r] \notin Unstartable
      BY <1>9, <2>3 DEF AddRun, Startable
    <3>3. Mined(r) = {}
      BY <2>1, NothingMined
    <3>4. Running' = [Running EXCEPT ![r] = {cache[r]}]
      BY <2>1, <3>1, <3>2, <3>3, NewMine, RunningChanged
    <3>5. Running[r] = {}
      BY <2>1, <3>3 DEF Running
    <3>6. Registry!Start(r)
      BY <2>1, <3>2, <3>4, <3>5 DEF Registry!Start, Running
    <3> QED
      BY <2>1, <3>6 DEF Registry!Next
  <2> QED
    BY <2>2, <2>3
<1>10. ASSUME NEW h \in Handlers, AddInsert(h) PROVE Maps
  BY <1>10, SameRunning DEF AddInsert, Running, Registry!registry
<1>11. ASSUME NEW h \in Handlers, StartSet(h) PROVE Maps
  <2> DEFINE r == call[h].rule
  <2>1. r \in Rules /\ dir' = dir /\ UNCHANGED <<phase, cache>> /\ phase = "up"
    BY <1>11, AtWork DEF StartSet
  <2>2. /\ doc[r] # None /\ doc[r].value = call[h].p.value
        /\ call[h].p \in GoodDocs /\ workers[r] # None
        /\ \A k \in Handlers : pc[k] # "delDelete"
    BY <1>11, AtWork DEF StartSet, SInv, Known
  <2>3. PICK out \in DBOutcomes :
          doc' = [doc EXCEPT ![r] = Stored(out, StatusDoc(h, TRUE), @)]
    BY <1>11 DEF StartSet
  <2>4. CASE out = "refused"
    <3>1. doc' = doc
      BY <1>11, <2>1, <2>3, <2>4, AtWork DEF Stored, StartSet
    <3> QED
      BY <2>1, <3>1, SameRunning DEF Registry!registry, Running
  <2>5. CASE out # "refused"
    <3>1. doc' = [doc EXCEPT ![r].isopen = TRUE]
      <4>1. StatusDoc(h, TRUE) = [doc[r] EXCEPT !.isopen = TRUE]
        BY <2>1, <2>2, SetIsOpen
      <4> QED
        BY <2>3, <2>5, <4>1 DEF Stored
    <3>2. (Running[r] # {}) = TRUE
      BY <2>1, <2>2, SomethingMined DEF Running
    <3>3. Registry!Record(r)
      BY <2>1, <2>2, <3>1, <3>2, SameRunning DEF Registry!Record, Running
    <3> QED
      BY <2>1, <3>3 DEF Registry!Next
  <2> QED
    BY <2>4, <2>5
<1>12. ASSUME NEW h \in Handlers, StopExists(h) PROVE Maps
  BY <1>12, SameRunning DEF StopExists, Running, Registry!registry
<1>13. ASSUME NEW h \in Handlers, DelLock(h) PROVE Maps
  BY <1>13, SameRunning DEF DelLock, Running, Registry!registry
<1>14. ASSUME NEW h \in Handlers, TrackClose(h) PROVE Maps
  <2>0. PICK r \in Rules, d \in Dirs \cup {None} : r = call[h].rule /\ d = call[h].d
    BY <1>14, AtWork DEF TrackClose
  <2>1. /\ UNCHANGED <<phase, cache, doc>> /\ phase = "up"
        /\ \A k \in Handlers : pc[k] # "addInsert" /\ pc[k] # "delDelete"
    BY <1>14, AtWork DEF TrackClose
  <2>2. workers[r] = d /\ d # None /\ d \in Dirs
    BY <1>14, <2>0, RuleServerAssumption
    DEF TrackClose, SInv, IInv, Shared, Stopping, Locals, Critical
  <2>3. dir[d] # None /\ dir[d].rule = r /\ dir[d].st = "mining" /\ dir[d] \in DirRecs
    BY <2>1, <2>2 DEF SInv, IInv, TypeOK, Shared, ListedWorkerIsLive
  <2>4. /\ dir'[d] = [dir[d] EXCEPT !.st = "closing"]
        /\ \A e \in Dirs \ {d} : dir'[e] = dir[e]
    BY <1>14, <2>0, <2>2 DEF TrackClose, SInv, IInv, TypeOK
  <2>5. dir'[d].st = "closing" /\ dir'[d].rule = r
    BY <2>3, <2>4 DEF DirRecs
  <2>6. ASSUME NEW e \in Dirs \ {d}, dir[e] # None, dir[e].st = "mining"
        PROVE  dir[e].rule # r
    BY <2>1, <2>2, <2>6, MinerIsListed
  <2>7. Mined(r)' = {} /\ \A q \in Rules \ {r} : Mined(q)' = Mined(q)
    <3>1. \A e \in Dirs \ {d} :
            dir[e] # None /\ dir[e].st = "mining" => dir[e].rule # r
      BY <2>6
    <3>2. d \in Dirs /\ dir[d].rule = r
      BY <2>2, <2>3
    <3> QED
      BY ONLY r \in Rules, <3>1, <3>2, <2>4, <2>5, MineClosed, Zenon
  <2>8. Running' = [Running EXCEPT ![r] = {}]
    BY <2>1, <2>7, RunningChanged
  <2>9. Running[r] # {}
    BY <2>1, <2>2, SomethingMined DEF Running
  <2>10. Registry!Stop(r)
    BY <2>1, <2>8, <2>9 DEF Registry!Stop, Running
  <2> QED
    BY <2>1, <2>10 DEF Registry!Next
<1>15. ASSUME NEW h \in Handlers, DelDelete(h) PROVE Maps
  BY <1>15, SameRunning DEF DelDelete, Running, Registry!registry
<1>16. ASSUME NEW h \in Handlers, StopSet(h) PROVE Maps
  <2> DEFINE r == call[h].rule
  <2>1. r \in Rules /\ dir' = dir /\ UNCHANGED <<phase, cache>> /\ phase = "up"
    BY <1>16, AtWork DEF StopSet
  <2>2. /\ doc[r] # None /\ doc[r].value = call[h].p.value
        /\ call[h].p \in GoodDocs /\ workers[r] = None
        /\ \A k \in Handlers : pc[k] # "addInsert"
    BY <1>16, AtWork DEF StopSet, SInv, Known
  <2>3. PICK out \in DBOutcomes :
          doc' = [doc EXCEPT ![r] = Stored(out, StatusDoc(h, FALSE), @)]
    BY <1>16 DEF StopSet
  <2>4. CASE out = "refused"
    <3>1. doc' = doc
      BY <1>16, <2>1, <2>3, <2>4, AtWork DEF Stored, StopSet
    <3> QED
      BY <2>1, <3>1, SameRunning DEF Registry!registry, Running
  <2>5. CASE out # "refused"
    <3>1. doc' = [doc EXCEPT ![r].isopen = FALSE]
      <4>1. StatusDoc(h, FALSE) = [doc[r] EXCEPT !.isopen = FALSE]
        BY <2>1, <2>2, SetIsOpen
      <4> QED
        BY <2>3, <2>5, <4>1 DEF Stored
    <3>2. (Running[r] # {}) = FALSE
      BY <2>1, <2>2, NothingMined DEF Running
    <3>3. Registry!Record(r)
      BY <2>1, <2>2, <3>1, <3>2, SameRunning DEF Registry!Record, Running
    <3> QED
      BY <2>1, <3>3 DEF Registry!Next
  <2> QED
    BY <2>4, <2>5
<1>17. ASSUME NEW h \in Handlers, DropExists(h) PROVE Maps
  BY <1>17, SameRunning DEF DropExists, Running, Registry!registry
<1>18. ASSUME NEW h \in Handlers, DropGet(h) PROVE Maps
  BY <1>18, SameRunning DEF DropGet, Running, Registry!registry
<1>19. ASSUME NEW h \in Handlers, DropDel(h) PROVE Maps
  <2> DEFINE r == call[h].rule
  <2>1. /\ r \in Rules /\ dir' = dir /\ UNCHANGED <<phase, doc>> /\ phase = "up"
        /\ cache' = [cache EXCEPT ![r] = None]
    BY <1>19, AtWork DEF DropDel
  <2>2. workers[r] = None /\ \A k \in Handlers : pc[k] # "addInsert"
    BY <1>19, AtWork DEF DropDel, SInv, Known
  <2>3. Running[r] = {}
    BY <2>1, <2>2, NothingMined DEF Running
  <2>4. Registry!Undefine(r)
    BY <2>1, <2>3, SameRunning DEF Registry!Undefine, Running
  <2> QED
    BY <2>1, <2>4 DEF Registry!Next
<1>20. ASSUME NEW h \in Handlers, DropLib(h) PROVE Maps
  BY <1>20, SameRunning DEF DropLib, Running, Registry!registry
<1>21. ASSUME NEW h \in Handlers, DropRollback(h) PROVE Maps
  <2> DEFINE r == call[h].rule
             t == call[h].text
  <2>1. /\ r \in Rules /\ t \in Texts
        /\ dir' = dir /\ UNCHANGED <<phase, doc>> /\ phase = "up"
        /\ cache' = [cache EXCEPT ![r] = t]
    BY <1>21, AtWork DEF DropRollback, WellFormed
  <2>2. Registry!Define(r, t)
    BY <2>1, SameRunning DEF Registry!Define, Running
  <2> QED
    BY <2>1, <2>2 DEF Registry!Next
<1>22. ASSUME NEW h \in Handlers, DropDoc(h) PROVE Maps
  <2> DEFINE r == call[h].rule
  <2>1. r \in Rules /\ dir' = dir /\ UNCHANGED <<phase, cache>> /\ phase = "up"
    BY <1>22, AtWork DEF DropDoc
  <2>2. cache[r] = None /\ workers[r] = None /\ \A k \in Handlers : pc[k] # "addInsert"
    BY <1>22, AtWork DEF DropDoc, SInv, Known
  <2>3. PICK out \in DBOutcomes : doc' = [doc EXCEPT ![r] = Stored(out, None, @)]
    BY <1>22 DEF DropDoc
  <2>4. CASE out = "refused"
    <3>1. doc' = doc
      BY <1>22, <2>1, <2>3, <2>4, AtWork DEF Stored, DropDoc
    <3> QED
      BY <2>1, <3>1, SameRunning DEF Registry!registry, Running
  <2>5. CASE out # "refused"
    <3>1. doc' = [doc EXCEPT ![r] = None]
      BY <2>3, <2>5 DEF Stored
    <3>2. Running[r] = {}
      BY <2>1, <2>2, NothingMined DEF Running
    <3>3. Registry!Erase(r)
      BY <2>1, <2>2, <3>1, <3>2, SameRunning DEF Registry!Erase, Running
    <3> QED
      BY <2>1, <3>3 DEF Registry!Next
  <2> QED
    BY <2>4, <2>5
<1>23. ASSUME NEW h \in Handlers, ListExists(h) PROVE Maps
  BY <1>23, SameRunning DEF ListExists, Running, Registry!registry
<1>24. ASSUME NEW h \in Handlers, ListRead(h) PROVE Maps
  <2>1. CASE Die
    BY <1>24, <2>1, DieIsCrash DEF ListRead, Registry!Next
  <2>2. CASE ~Die
    BY <1>24, <2>2, SameRunning DEF ListRead, Running, Registry!registry
  <2> QED
    BY <2>1, <2>2
<1>25. ASSUME NEW d \in Dirs, FinishClose(d) PROVE Maps
  <2>1. \A r \in Rules : Mined(r)' = Mined(r)
    BY <1>25 DEF FinishClose, Mined, SInv, IInv, TypeOK
  <2>2. UNCHANGED <<phase, cache, doc>>
    BY <1>25 DEF FinishClose, boot
  <2> QED
    BY <2>1, <2>2 DEF Registry!registry
<1>26. ASSUME NEW r \in Rules, Flush(r) PROVE Maps
  BY <1>26, SameRunning DEF Flush, Running, Registry!registry
<1>27. ASSUME NEW r \in Rules, BootRule(r) PROVE Maps
  <2>1. /\ doc[r] # None /\ doc[r].value \in WellFormed
        /\ cache[r] = None /\ workers[r] = None
        /\ \A h \in Handlers : pc[h] # "addInsert"
    BY <1>27 DEF BootRule, SInv, IInv, TypeOK, Shared, Loading, Quiet, BootInv
  <2>2. /\ phase = "boot" /\ UNCHANGED <<phase, doc>>
        /\ cache' = [cache EXCEPT ![r] = doc[r].value]
    BY <1>27 DEF BootRule
  <2>3. Mined(r) = {}
    BY <2>1, NothingMined
  <2>4. CASE ResumeAtBoot(r) /\ Startable(doc[r].value)
    <3>1. PICK d \in Dirs : dir[d] = None /\ dir' = NewDir(d, r, doc[r].value)
      BY <1>27, <2>4 DEF BootRule
    <3>2. Running' = [Running EXCEPT ![r] = {doc[r].value}]
      BY <2>1, <2>3, <3>1, NewMine, RunningChanged
    <3>3. doc[r].isopen /\ doc[r].value \in WellFormed \ Unstartable
      BY <2>4 DEF ResumeAtBoot, Startable
    <3>4. Registry!Load(r)
      BY <2>1, <2>2, <3>2, <3>3 DEF Registry!Load, Running
    <3> QED
      BY <3>4 DEF Registry!Next
  <2>5. CASE ~(ResumeAtBoot(r) /\ Startable(doc[r].value))
    <3>1. dir' = dir
      BY <1>27, <2>5 DEF BootRule
    <3>2. ~(doc[r].isopen /\ doc[r].value \in WellFormed \ Unstartable)
      BY <2>1, <2>5 DEF ResumeAtBoot, Startable
    <3>3. Registry!Load(r)
      BY <2>1, <2>2, <3>1, <3>2, SameRunning DEF Registry!Load, Running
    <3> QED
      BY <3>3 DEF Registry!Next
  <2> QED
    BY <2>4, <2>5
<1>28. ASSUME Crash PROVE Maps
  BY <1>28, DieIsCrash DEF Crash, Registry!Next
<1>29. ASSUME Boot PROVE Maps
  BY <1>29, SameRunning DEF Boot, Running, Registry!registry
<1>30. ASSUME Serve PROVE Maps
  <2>1. \A r \in Rules : doc[r] # None => cache[r] # None
    BY <1>30, RuleServerAssumption DEF Serve, SInv, IInv, TypeOK, BootInv, Resumed, WellFormed
  <2>2. dir' = dir /\ UNCHANGED <<cache, doc>> /\ phase' = "up"
    BY <1>30 DEF Serve
  <2>3. Registry!Serve
    BY <2>1, <2>2, SameRunning DEF Registry!Serve, Running
  <2> QED
    BY <2>3 DEF Registry!Next
<1>31. CASE UNCHANGED vars
  BY <1>31, SameRunning DEF vars, Running, Registry!registry
<1> QED
  BY <1>1, <1>2, <1>3, <1>4, <1>5, <1>6, <1>7, <1>8, <1>9, <1>10, <1>11,
     <1>12, <1>13, <1>14, <1>15, <1>16, <1>17, <1>18, <1>19, <1>20, <1>21,
     <1>22, <1>23, <1>24, <1>25, <1>26, <1>27, <1>28, <1>29, <1>30, <1>31
  DEF Next, Request, Run

(* The process starts where the registry starts.                           *)
LEMMA InitRegistry == Init => Registry!Init
<1> SUFFICES ASSUME Init PROVE Registry!Init
  OBVIOUS
<1>1. \A r \in Rules : Mined(r) = {}
  BY DEF Init, Mined
<1> QED
  BY <1>1 DEF Init, Registry!Init

(* To a client that sends one request at a time the server is the registry *)
(* of RuleRegistry: every request takes effect in one moment, or never,    *)
(* whatever fails on the way (server.go:180-458).                          *)
THEOREM ServesRegistry ==
  ASSUME OneAtATime
  PROVE  Spec => ImplementsRegistry
<1>1. Init => Registry!Init
  BY InitRegistry
<1>2. SInv /\ [Next]_vars => [Registry!Next]_(Registry!registry)
  BY RegistryStep
<1> QED
  BY <1>1, <1>2, SerialInvariance, PTL
  DEF Spec, ImplementsRegistry, Registry!Spec
===============================================================================

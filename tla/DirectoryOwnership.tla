------------------------- MODULE DirectoryOwnership -------------------------
(* Who looks after a tail.  Two objects for one subdirectory, or two tails *)
(* of one file, could come about only if a creation were dealt with by a   *)
(* directory that has dealt with it already; so the second invariant says  *)
(* what the events that wait in each queue may still report.  Its part     *)
(* about files needs that every removal is reported, which is not so of    *)
(* renames, and the whole that what start finds in a directory is not      *)
(* reported as well, which is not so of what is created while it reads.    *)
EXTENDS DirectoryProofs

(* The creations of a name in a queue of events, and its removals.         *)
Creates(q, n) == {k \in DOMAIN q : q[k].op = "create" /\ q[k].name = n}
Removes(q, n) == {k \in DOMAIN q : q[k].op = "remove" /\ q[k].name = n}

(* The events in a queue about a name make sense to who has heard of it    *)
(* (had) or not: between two creations, and before the first one if it     *)
(* has, there is a removal; and after the last, and if it has at all, if   *)
(* the name is not there any more.                                         *)
Alternates(q, n, had, present) ==
  /\ \A j, k \in Creates(q, n) : j < k => \E m \in Removes(q, n) : j < m /\ m < k
  /\ had => \A k \in Creates(q, n) : \E m \in Removes(q, n) : m < k
  /\ ~present => \A j \in Creates(q, n) : \E m \in Removes(q, n) : j < m
  /\ had /\ ~present => Removes(q, n) # {}

(* The events of a queue are numbered from 1.                              *)
LEMMA Positions ==
  ASSUME NEW q \in Seq(EventRecs), NEW n
  PROVE  /\ Len(q) \in Nat
         /\ \A k \in Creates(q, n) : k \in Nat /\ k < Len(q) + 1
         /\ \A k \in Removes(q, n) : k \in Nat /\ k < Len(q) + 1
  BY DEF Creates, Removes

(* Which events about a name a queue has once one more is put at its end.  *)
LEMMA AppendSets ==
  ASSUME NEW q \in Seq(EventRecs), NEW e \in EventRecs, NEW n
  PROVE  /\ e.op = "create" /\ e.name = n => /\ Creates(Append(q, e), n) = Creates(q, n) \cup {Len(q) + 1}
                                           /\ Removes(Append(q, e), n) = Removes(q, n)
         /\ e.op = "remove" /\ e.name = n => /\ Creates(Append(q, e), n) = Creates(q, n)
                                           /\ Removes(Append(q, e), n) = Removes(q, n) \cup {Len(q) + 1}
         /\ e.name # n => /\ Creates(Append(q, e), n) = Creates(q, n)
                          /\ Removes(Append(q, e), n) = Removes(q, n)
<1>1. Len(q) \in Nat /\ DOMAIN q = 1 .. Len(q) /\ DOMAIN Append(q, e) = 1 .. Len(q) + 1
  OBVIOUS
<1>2. Append(q, e)[Len(q) + 1] = e /\ \A k \in 1 .. Len(q) : Append(q, e)[k] = q[k]
  OBVIOUS
<1>3. ASSUME NEW k PROVE k \in Creates(Append(q, e), n) <=>
          k \in Creates(q, n) \/ (k = Len(q) + 1 /\ e.op = "create" /\ e.name = n)
  BY <1>1, <1>2 DEF Creates
<1>4. ASSUME NEW k PROVE k \in Removes(Append(q, e), n) <=>
          k \in Removes(q, n) \/ (k = Len(q) + 1 /\ e.op = "remove" /\ e.name = n)
  BY <1>1, <1>2 DEF Removes
<1> QED
  BY <1>3, <1>4

(* A creation is put behind the events of a name that is not there.        *)
LEMMA AppendCreate ==
  ASSUME NEW q \in Seq(EventRecs), NEW e \in EventRecs, NEW n, NEW had,
         e.op = "create", e.name = n, Alternates(q, n, had, FALSE)
  PROVE  Alternates(Append(q, e), n, had, TRUE)
<1> DEFINE C == Creates(q, n)
           R == Removes(q, n)
           L == Len(q) + 1
<1>1. /\ Creates(Append(q, e), n) = C \cup {L}
      /\ Removes(Append(q, e), n) = R
  BY AppendSets
<1>2. L \in Nat /\ (\A k \in C : k \in Nat /\ k < L) /\ (\A k \in R : k \in Nat /\ k < L)
  BY Positions
<1>3. /\ \A j, k \in C : j < k => \E m \in R : j < m /\ m < k
      /\ had => \A k \in C : \E m \in R : m < k
      /\ \A j \in C : \E m \in R : j < m
      /\ had => R # {}
  BY DEF Alternates
<1> HIDE DEF C, R, L
<1>4. \A j, k \in C \cup {L} : j < k => \E m \in R : j < m /\ m < k
  <2> SUFFICES ASSUME NEW j \in C \cup {L}, NEW k \in C \cup {L}, j < k PROVE \E m \in R : j < m /\ m < k
    OBVIOUS
  <2>1. j # L
    BY <1>2
  <2>2. CASE k = L
    BY <1>2, <1>3, <2>1, <2>2
  <2>3. CASE k # L
    BY <1>3, <2>1, <2>3
  <2> QED
    BY <2>2, <2>3
<1>5. had => \A k \in C \cup {L} : \E m \in R : m < k
  BY <1>2, <1>3
<1> QED
  BY <1>1, <1>4, <1>5 DEF Alternates

(* A removal is put behind the events of a name.                           *)
LEMMA AppendRemove ==
  ASSUME NEW q \in Seq(EventRecs), NEW e \in EventRecs, NEW n, NEW had, NEW p,
         e.op = "remove", e.name = n, Alternates(q, n, had, p)
  PROVE  Alternates(Append(q, e), n, had, FALSE)
<1> DEFINE C == Creates(q, n)
           R == Removes(q, n)
           L == Len(q) + 1
<1>1. /\ Creates(Append(q, e), n) = C
      /\ Removes(Append(q, e), n) = R \cup {L}
  BY AppendSets
<1>2. L \in Nat /\ (\A k \in C : k \in Nat /\ k < L) /\ (\A k \in R : k \in Nat /\ k < L)
  BY Positions
<1>3. /\ \A j, k \in C : j < k => \E m \in R : j < m /\ m < k
      /\ had => \A k \in C : \E m \in R : m < k
  BY DEF Alternates
<1> HIDE DEF C, R, L
<1>4. \A j \in C : \E m \in R \cup {L} : j < m
  BY <1>2
<1> QED
  BY <1>1, <1>3, <1>4 DEF Alternates

(* An event about another name is put behind the events of a name.         *)
LEMMA AppendOther ==
  ASSUME NEW q \in Seq(EventRecs), NEW e \in EventRecs, NEW n, NEW had, NEW p,
         e.name # n, Alternates(q, n, had, p)
  PROVE  Alternates(Append(q, e), n, had, p)
<1>1. /\ Creates(Append(q, e), n) = Creates(q, n)
      /\ Removes(Append(q, e), n) = Removes(q, n)
  BY AppendSets
<1> QED
  BY <1>1 DEF Alternates

(* The events of a name still make sense to who has heard of less, or when *)
(* the name is there.                                                      *)
LEMMA Weaker ==
  ASSUME NEW q, NEW n, NEW had, NEW p, NEW h, NEW t, Alternates(q, n, had, p), h => had, p => t
  PROVE  Alternates(q, n, h, t)
  BY DEF Alternates

(* A queue without creations of a name that is there makes sense.          *)
LEMMA NoCreates ==
  ASSUME NEW q, NEW n, NEW had, NEW p, Creates(q, n) = {}, p
  PROVE  Alternates(q, n, had, p)
  BY DEF Alternates

(* Which events about a name a queue has once its first is taken.          *)
LEMMA TailSets ==
  ASSUME NEW q \in Seq(EventRecs), q # <<>>, NEW n
  PROVE  /\ \A k \in Creates(Tail(q), n) : k \in Nat /\ k > 0 /\ k + 1 \in Creates(q, n)
         /\ \A k \in Removes(Tail(q), n) : k \in Nat /\ k > 0 /\ k + 1 \in Removes(q, n)
         /\ \A k \in Creates(q, n) : k = 1 \/ (k - 1 \in Creates(Tail(q), n))
         /\ \A k \in Removes(q, n) : k = 1 \/ (k - 1 \in Removes(Tail(q), n))
         /\ \A k \in Creates(q, n) : k \in Nat /\ k > 0
         /\ \A k \in Removes(q, n) : k \in Nat /\ k > 0
         /\ 1 \in Creates(q, n) <=> (Head(q).op = "create" /\ Head(q).name = n)
         /\ 1 \in Removes(q, n) <=> (Head(q).op = "remove" /\ Head(q).name = n)
<1>1. Tail(q) \in Seq(EventRecs) /\ Len(Tail(q)) = Len(q) - 1 /\ Len(q) \in Nat /\ Len(q) > 0
  OBVIOUS
<1>2. \A k \in 1 .. Len(q) - 1 : Tail(q)[k] = q[k + 1]
  OBVIOUS
<1>3. DOMAIN q = 1 .. Len(q) /\ DOMAIN Tail(q) = 1 .. Len(q) - 1 /\ Head(q) = q[1]
  BY <1>1
<1>4. \A k \in Creates(Tail(q), n) : k \in Nat /\ k > 0 /\ k + 1 \in Creates(q, n)
  BY <1>1, <1>2, <1>3 DEF Creates
<1>5. \A k \in Removes(Tail(q), n) : k \in Nat /\ k > 0 /\ k + 1 \in Removes(q, n)
  BY <1>1, <1>2, <1>3 DEF Removes
<1>6. \A k \in Creates(q, n) : k = 1 \/ (k - 1 \in Creates(Tail(q), n))
  BY <1>1, <1>2, <1>3 DEF Creates
<1>7. \A k \in Removes(q, n) : k = 1 \/ (k - 1 \in Removes(Tail(q), n))
  BY <1>1, <1>2, <1>3 DEF Removes
<1>8. (\A k \in Creates(q, n) : k \in Nat /\ k > 0) /\ (\A k \in Removes(q, n) : k \in Nat /\ k > 0)
  BY <1>1, <1>3 DEF Creates, Removes
<1>9. /\ 1 \in Creates(q, n) <=> (Head(q).op = "create" /\ Head(q).name = n)
      /\ 1 \in Removes(q, n) <=> (Head(q).op = "remove" /\ Head(q).name = n)
  BY <1>1, <1>3 DEF Creates, Removes
<1> QED
  BY <1>4, <1>5, <1>6, <1>7, <1>8, <1>9

(* An event is taken from a queue: a creation is only taken by who has not *)
(* heard of the name.                                                      *)
LEMMA TakeOne ==
  ASSUME NEW q \in Seq(EventRecs), q # <<>>, NEW n, NEW had, NEW p, Alternates(q, n, had, p)
  PROVE  /\ Head(q).op = "create" /\ Head(q).name = n => ~had /\ Alternates(Tail(q), n, TRUE, p)
         /\ Head(q).op = "remove" /\ Head(q).name = n => Alternates(Tail(q), n, FALSE, p)
         /\ Head(q).name # n => Alternates(Tail(q), n, had, p)
<1> DEFINE C == Creates(q, n)
           R == Removes(q, n)
           D == Creates(Tail(q), n)
           S == Removes(Tail(q), n)
<1>1.    /\ \A k \in D : k \in Nat /\ k > 0 /\ k + 1 \in C
         /\ \A k \in S : k \in Nat /\ k > 0 /\ k + 1 \in R
         /\ \A k \in C : k = 1 \/ (k - 1 \in D)
         /\ \A k \in R : k = 1 \/ (k - 1 \in S)
         /\ \A k \in C : k \in Nat /\ k > 0
         /\ \A k \in R : k \in Nat /\ k > 0
         /\ 1 \in C <=> (Head(q).op = "create" /\ Head(q).name = n)
         /\ 1 \in R <=> (Head(q).op = "remove" /\ Head(q).name = n)
  BY TailSets
<1>2. /\ \A j, k \in C : j < k => \E m \in R : j < m /\ m < k
      /\ had => \A k \in C : \E m \in R : m < k
      /\ ~p => \A j \in C : \E m \in R : j < m
      /\ had /\ ~p => R # {}
  BY DEF Alternates
<1> HIDE DEF C, R, D, S
<1>3. \A j, k \in D : j < k => \E m \in S : j < m /\ m < k
  <2> SUFFICES ASSUME NEW j \in D, NEW k \in D, j < k PROVE \E m \in S : j < m /\ m < k
    OBVIOUS
  <2>1. PICK m \in R : j + 1 < m /\ m < k + 1
    BY <1>1, <1>2
  <2>2. m - 1 \in S /\ j < m - 1 /\ m - 1 < k
    BY <1>1, <2>1
  <2> QED
    BY <2>2
<1>4. ~p => \A j \in D : \E m \in S : j < m
  <2> SUFFICES ASSUME ~p, NEW j \in D PROVE \E m \in S : j < m
    OBVIOUS
  <2>1. PICK m \in R : j + 1 < m
    BY <1>1, <1>2
  <2>2. m - 1 \in S /\ j < m - 1
    BY <1>1, <2>1
  <2> QED
    BY <2>2
<1>5. ASSUME 1 \in C
      PROVE  /\ ~had
             /\ \A k \in D : \E m \in S : m < k
             /\ ~p => S # {}
  <2>1. ~had
    BY <1>1, <1>2, <1>5
  <2>2. ASSUME NEW k \in D PROVE \E m \in S : m < k
    <3>1. PICK m \in R : 1 < m /\ m < k + 1
      BY <1>1, <1>2, <1>5
    <3>2. m - 1 \in S /\ m - 1 < k
      BY <1>1, <3>1
    <3> QED
      BY <3>2
  <2>3. ASSUME ~p PROVE S # {}
    <3>1. PICK m \in R : 1 < m
      BY <1>2, <1>5, <2>3
    <3> QED
      BY <1>1, <3>1
  <2> QED
    BY <2>1, <2>2, <2>3
<1>6. ASSUME 1 \notin C, 1 \notin R
      PROVE  /\ had => \A k \in D : \E m \in S : m < k
             /\ had /\ ~p => S # {}
  <2>1. ASSUME had, NEW k \in D PROVE \E m \in S : m < k
    <3>1. PICK m \in R : m < k + 1
      BY <1>1, <1>2, <2>1
    <3>2. m - 1 \in S /\ m - 1 < k
      BY <1>1, <1>6, <3>1
    <3> QED
      BY <3>2
  <2>2. had /\ ~p => S # {}
    BY <1>1, <1>2, <1>6
  <2> QED
    BY <2>1, <2>2
<1>7. Head(q).op = "create" /\ Head(q).name = n => ~had /\ Alternates(Tail(q), n, TRUE, p)
  BY <1>1, <1>3, <1>4, <1>5 DEF Alternates, D, S
<1>8. Head(q).op = "remove" /\ Head(q).name = n => Alternates(Tail(q), n, FALSE, p)
  BY <1>3, <1>4 DEF Alternates, D, S
<1>9. Head(q).name # n => Alternates(Tail(q), n, had, p)
  BY <1>1, <1>3, <1>4, <1>6 DEF Alternates, D, S
<1> QED
  BY <1>7, <1>8, <1>9

(* The entries of the file maps and of the directory map.                  *)
FileIn(fl, o, f) == \E i \in File(fl) : fl[i].listed /\ fl[i].dir = o /\ fl[i].path = f
SubIn(ds, s)     == \E c \in Obj(ds) : ds[c].listed /\ ds[c].path = s

(* A directory has heard of a name: it is in its map and about to stay     *)
(* there, or about to be added.                                            *)
HaveFile(ds, fl, o, f) ==
  \/ FileIn(fl, o, f) /\ ~(ds[o].track = "rmFile" /\ ds[o].arg = f)
  \/ ds[o].track = "addFile" /\ ds[o].arg = f
HaveSub(ds, o, s) ==
  \/ SubIn(ds, s) /\ ~(ds[o].track \in {"rmDir", "rmDirFiles"} /\ ds[o].arg = s)
  \/ ds[o].track \in {"addDir", "newDir"} /\ ds[o].arg = s
  \/ ds[o].start = "newDir" /\ ds[ds[o].mu].path = s

(* A queue of removals of files.                                           *)
OnlyLosses(q) == \A k \in DOMAIN q : q[k].op = "remove" /\ q[k].name \in Files

(* While the start of o reads its directory: no creation waits, nothing it *)
(* has still to look at is listed, and the subdirectories it found are     *)
(* there.                                                                  *)
ReadingOK(ds, fl, t, o) ==
  /\ OnlyLosses(ds[o].evq)
  /\ ds[o].track \in {"select", "rmFile"}
  /\ ds[o].todo \cap Subs \subseteq t
  /\ ds[o].start = "read" => ds[o].todo = {}
  /\ ds[o].start = "read" => \A f \in Files : ~FileIn(fl, o, f)
  /\ ds[o].start = "read" /\ ds[o].path = Root => \A s \in Subs : ~SubIn(ds, s)
  /\ \A f \in ds[o].todo \cap Files : ~FileIn(fl, o, f)
  /\ \A s \in ds[o].todo \cap Subs : ~SubIn(ds, s)
  /\ ds[o].start = "newDir" => ds[ds[o].mu].path \in t \ ds[o].todo
Reads(ds, fl, t) == \A o \in Obj(ds) : ~Begun(ds[o]) => ReadingOK(ds, fl, t, o)

(* A subdirectory is listed once, is not listed when it is added, and its  *)
(* events make sense to the rule's directory; each object is listed, in    *)
(* hand, or closing.                                                       *)
SubsOnce(ds) == \A c, d \in Obj(ds) :
  ds[c].listed /\ ds[d].listed /\ ds[c].path = ds[d].path => c = d
SubsNew(ds) == \A o \in Obj(ds) :
  /\ ds[o].track \in {"addDir", "newDir"} => ~SubIn(ds, ds[o].arg)
  /\ ds[o].start = "newDir" => ~SubIn(ds, ds[ds[o].mu].path)
SubsAlternate(ds, t) == \A o \in Obj(ds) : ds[o].path = Root /\ ds[o].track \notin Shut =>
  \A s \in Subs : Alternates(ds[o].evq, s, HaveSub(ds, o, s), s \in t \/ ~ds[o].watching)
Tending(ds) == \A o \in Obj(ds) :
  ds[o].listed \/ (\E p \in Obj(ds) : ds[p].mu = o) \/ ds[o].track \in Shut

(* A file is listed once in a directory, is not listed when it is added,   *)
(* and its events make sense to its directory; each live tail is listed.   *)
FilesOnce(fl) == \A i, j \in File(fl) :
  fl[i].listed /\ fl[j].listed /\ fl[i].dir = fl[j].dir /\ fl[i].path = fl[j].path => i = j
FilesNew(ds, fl) == \A o \in Obj(ds) : ds[o].track = "addFile" => ~FileIn(fl, o, ds[o].arg)
FilesAlternate(ds, fl, b) == \A o \in Obj(ds) : ds[o].track \notin Shut =>
  \A f \in Files : In[f] = ds[o].path =>
    Alternates(ds[o].evq, f, HaveFile(ds, fl, o, f), b[f] # 0 \/ ~ds[o].watching)
Unasked(fl) == \A i \in File(fl) : Live(fl[i]) => fl[i].listed

SubsInv(ds, t)      == SubsOnce(ds) /\ SubsNew(ds) /\ SubsAlternate(ds, t) /\ Tending(ds)
FilesInv(ds, fl, b) == FilesNew(ds, fl) /\ FilesAlternate(ds, fl, b) /\ Unasked(fl)

(* The second invariant, as a formula about any objects and files.         *)
OwnsOf(ds, fl, b, t) ==
  /\ Reads(ds, fl, t) /\ FilesOnce(fl) /\ SubsInv(ds, t)
  /\ "rename" \notin Events => FilesInv(ds, fl, b)

(* Objects that say no more about subdirectories than others did.          *)
LEMMA SubsShrink ==
  ASSUME NEW ds, NEW t, NEW es, NEW u, SubsInv(ds, t), t \subseteq u,
         Obj(es) \subseteq Obj(ds),
         \A o \in Obj(es) : es[o].path = ds[o].path /\ (es[o].listed => ds[o].listed),
         \A o \in Obj(es) : ds[o].track \in Shut => es[o].track \in Shut,
         \A o \in Obj(es) : /\ es[o].start = "newDir" => ds[o].start = "newDir" /\ es[es[o].mu].path = ds[ds[o].mu].path
                            /\ es[o].track \in {"addDir", "newDir"} =>
                                 ds[o].track \in {"addDir", "newDir"} /\ es[o].arg = ds[o].arg,
         \A o \in Obj(es) : es[o].path = Root /\ es[o].track \notin Shut =>
            /\ es[o].evq = ds[o].evq /\ (ds[o].watching = es[o].watching)
            /\ \A s \in Subs : HaveSub(es, o, s) => HaveSub(ds, o, s),
         Tending(es)
  PROVE  SubsInv(es, u)
<1>1. \A s : SubIn(es, s) => SubIn(ds, s)
  BY DEF SubIn
<1>2. SubsOnce(es)
  BY DEF SubsInv, SubsOnce
<1>3. SubsNew(es)
  BY <1>1 DEF SubsInv, SubsNew
<1>4. SubsAlternate(es, u)
  <2> SUFFICES ASSUME NEW o \in Obj(es), es[o].path = Root, es[o].track \notin Shut, NEW s \in Subs
               PROVE  Alternates(es[o].evq, s, HaveSub(es, o, s), s \in u \/ ~es[o].watching)
    BY DEF SubsAlternate
  <2>1. Alternates(ds[o].evq, s, HaveSub(ds, o, s), s \in t \/ ~ds[o].watching)
    BY DEF SubsInv, SubsAlternate
  <2>2. HaveSub(es, o, s) => HaveSub(ds, o, s)
    OBVIOUS
  <2>3. s \in t \/ ~ds[o].watching => s \in u \/ ~es[o].watching
    OBVIOUS
  <2> QED
    BY <2>1, <2>2, <2>3, Weaker
<1> QED
  BY <1>2, <1>3, <1>4 DEF SubsInv

(* Objects and files that say no more about files than others did.         *)
LEMMA FilesShrink ==
  ASSUME NEW ds, NEW fl, NEW es, NEW gl, NEW b, NEW a, FilesInv(ds, fl, b),
         Obj(es) \subseteq Obj(ds), File(gl) \subseteq File(fl),
         \A f \in Files : b[f] # 0 => a[f] # 0,
         \A o \in Obj(es) : es[o].path = ds[o].path,
         \A i \in File(gl) : gl[i].listed => fl[i].listed /\ gl[i].dir = fl[i].dir /\ gl[i].path = fl[i].path,
         \A i \in File(gl) : Live(gl[i]) => Live(fl[i]) /\ (fl[i].listed => gl[i].listed),
         \A o \in Obj(es) : es[o].track = "addFile" => ds[o].track = "addFile" /\ es[o].arg = ds[o].arg,
         \A o \in Obj(es) : es[o].track \notin Shut =>
            /\ ds[o].track \notin Shut
            /\ es[o].evq = ds[o].evq /\ (es[o].watching => ds[o].watching)
            /\ \A f \in Files : HaveFile(es, gl, o, f) => HaveFile(ds, fl, o, f)
  PROVE  FilesInv(es, gl, a)
<1>1. \A o, f : FileIn(gl, o, f) => FileIn(fl, o, f)
  BY DEF FileIn
<1>2. FilesNew(es, gl)
  BY <1>1 DEF FilesInv, FilesNew
<1>3. Unasked(gl)
  BY DEF FilesInv, Unasked
<1>4. FilesAlternate(es, gl, a)
  <2> SUFFICES ASSUME NEW o \in Obj(es), es[o].track \notin Shut, NEW f \in Files, In[f] = es[o].path
               PROVE  Alternates(es[o].evq, f, HaveFile(es, gl, o, f), a[f] # 0 \/ ~es[o].watching)
    BY DEF FilesAlternate
  <2>1. Alternates(ds[o].evq, f, HaveFile(ds, fl, o, f), b[f] # 0 \/ ~ds[o].watching)
    BY DEF FilesInv, FilesAlternate
  <2>2. HaveFile(es, gl, o, f) => HaveFile(ds, fl, o, f)
    OBVIOUS
  <2>3. b[f] # 0 \/ ~ds[o].watching => a[f] # 0 \/ ~es[o].watching
    OBVIOUS
  <2> QED
    BY <2>1, <2>2, <2>3, Weaker
<1> QED
  BY <1>2, <1>3, <1>4 DEF FilesInv

(* Objects of which those that still read their directory read no more     *)
(* than before.                                                            *)
LEMMA ReadsShrink ==
  ASSUME NEW ds, NEW fl, NEW es, NEW gl, NEW t, NEW u, Reads(ds, fl, t), t \subseteq u,
         Obj(es) \subseteq Obj(ds),
         \A o, f : FileIn(gl, o, f) => FileIn(fl, o, f),
         \A s : SubIn(es, s) => SubIn(ds, s),
         \A o \in Obj(es) : ~Begun(es[o]) =>
            /\ ~Begun(ds[o]) /\ es[o].path = ds[o].path
            /\ es[o].start = ds[o].start /\ es[o].todo \subseteq ds[o].todo
            /\ OnlyLosses(es[o].evq) /\ es[o].track \in {"select", "rmFile"}
            /\ es[o].start = "newDir" => es[es[o].mu].path = ds[ds[o].mu].path
  PROVE  Reads(es, gl, u)
<1> SUFFICES ASSUME NEW o \in Obj(es), ~Begun(es[o]) PROVE ReadingOK(es, gl, u, o)
  BY DEF Reads
<1>1. ReadingOK(ds, fl, t, o)
  BY DEF Reads
<1>2. /\ es[o].path = ds[o].path
      /\ es[o].start = ds[o].start /\ es[o].todo \subseteq ds[o].todo
      /\ OnlyLosses(es[o].evq) /\ es[o].track \in {"select", "rmFile"}
      /\ es[o].start = "newDir" => es[es[o].mu].path = ds[ds[o].mu].path
  OBVIOUS
<1>3. es[o].todo \cap Subs \subseteq u
  BY <1>1, <1>2 DEF ReadingOK
<1>4. es[o].start = "read" => es[o].todo = {} /\ (\A f \in Files : ~FileIn(gl, o, f))
                              /\ (es[o].path = Root => \A s \in Subs : ~SubIn(es, s))
  BY <1>1, <1>2 DEF ReadingOK
<1>5. (\A f \in es[o].todo \cap Files : ~FileIn(gl, o, f)) /\ (\A s \in es[o].todo \cap Subs : ~SubIn(es, s))
  BY <1>1, <1>2 DEF ReadingOK
<1>6. es[o].start = "newDir" => es[es[o].mu].path \in u \ es[o].todo
  BY <1>1, <1>2 DEF ReadingOK
<1> QED
  BY <1>2, <1>3, <1>4, <1>5, <1>6 DEF ReadingOK

(* Forgetting the objects nothing refers to keeps the second invariant.    *)
LEMMA BecomeOwns ==
  ASSUME NEW ds \in DirMaps, NEW fl \in FileMaps, NEW b, NEW t,
         \A o \in Obj(ds) : ds[o].mu # None => ds[o].listed,
         OwnsOf(ds, fl, b, t), Become(ds, fl), Inv'
  PROVE  OwnsOf(dirs', files', b, t)
<1>1. /\ dirs' \in DirMaps /\ files' \in FileMaps
      /\ \A i \in FileIds :
              \/ files'[i] = fl[i]
              \/ /\ files'[i] = None /\ fl[i] # None /\ ~fl[i].listed
                 /\ fl[i].tail = "dead" \/ fl[i].asked
                 /\ \A o \in DirIds : ds[o] # None => ds[o].arg # i
      /\ \A o \in DirIds :
              \/ dirs'[o] = ds[o]
              \/ /\ dirs'[o] = None /\ ds[o] # None /\ ds[o].track = "end" /\ ~ds[o].listed
                 /\ \A i \in FileIds : fl[i] # None /\ fl[i].listed => fl[i].dir # o
  BY BecomeFacts
<1>2. \A o \in Obj(dirs') : o \in Obj(ds) /\ dirs'[o] = ds[o]
  BY <1>1 DEF Obj
<1>3. \A i \in File(files') : i \in File(fl) /\ files'[i] = fl[i]
  BY <1>1 DEF File
<1>4. \A o \in Obj(ds) : ds[o].track # "end" \/ ds[o].listed => o \in Obj(dirs')
  BY <1>1 DEF Obj
<1>5. /\ DirMaps' = DirMaps
      /\ \A o \in Obj(dirs') : Local(dirs'[o]) /\ (dirs'[o].mu # None => dirs'[o].mu \in Obj(dirs'))
  BY DEF Inv, InvOf, DirInv, Locals, Holding, Held, Obj, DirMaps
<1>6. \A o \in Obj(dirs') : dirs'[o].start = "newDir" => dirs'[dirs'[o].mu] = ds[ds[o].mu]
  BY <1>2, <1>5 DEF Local
<1>7. \A o, f : FileIn(files', o, f) => FileIn(fl, o, f)
  BY <1>3 DEF FileIn
<1>8. \A s : SubIn(dirs', s) => SubIn(ds, s)
  BY <1>2 DEF SubIn
<1>9. Reads(dirs', files', t)
  <2>1. \A o \in Obj(dirs') : ~Begun(dirs'[o]) =>
            /\ ~Begun(ds[o]) /\ dirs'[o].path = ds[o].path
            /\ dirs'[o].start = ds[o].start /\ dirs'[o].todo \subseteq ds[o].todo
            /\ OnlyLosses(dirs'[o].evq) /\ dirs'[o].track \in {"select", "rmFile"}
            /\ dirs'[o].start = "newDir" => dirs'[dirs'[o].mu].path = ds[ds[o].mu].path
    BY <1>2, <1>6 DEF OwnsOf, Reads, ReadingOK
  <2> QED
    BY <1>2, <1>7, <1>8, <2>1, ReadsShrink DEF OwnsOf
<1>10. FilesOnce(files')
  BY <1>3 DEF OwnsOf, FilesOnce
<1>11. Tending(dirs')
  <2> SUFFICES ASSUME NEW o \in Obj(dirs'), ~dirs'[o].listed, dirs'[o].track \notin Shut
               PROVE  \E p \in Obj(dirs') : dirs'[p].mu = o
    BY DEF Tending
  <2>1. PICK p \in Obj(ds) : ds[p].mu = o
    BY <1>2 DEF OwnsOf, SubsInv, Tending
  <2>2. o # None
    BY DirectoryAssumption DEF Obj
  <2> QED
    BY <1>2, <1>4, <2>1, <2>2
<1>12. SubsInv(dirs', t)
  <2>1. \A o \in Obj(dirs') : /\ dirs'[o].start = "newDir" => ds[o].start = "newDir" /\ dirs'[dirs'[o].mu].path = ds[ds[o].mu].path
                              /\ dirs'[o].track \in {"addDir", "newDir"} =>
                                 ds[o].track \in {"addDir", "newDir"} /\ dirs'[o].arg = ds[o].arg
    BY <1>2, <1>6
  <2>2. ASSUME NEW o \in Obj(dirs'), dirs'[o].path = Root, dirs'[o].track \notin Shut
        PROVE  /\ dirs'[o].evq = ds[o].evq /\ (ds[o].watching = dirs'[o].watching)
               /\ \A s \in Subs : HaveSub(dirs', o, s) => HaveSub(ds, o, s)
    <3>1. dirs'[o] = ds[o] /\ o \in Obj(ds)
      BY <1>2
    <3>2. \A s : dirs'[o].start = "newDir" /\ dirs'[dirs'[o].mu].path = s => ds[o].start = "newDir" /\ ds[ds[o].mu].path = s
      BY ONLY <2>1, o \in Obj(dirs')
    <3> QED
      BY <1>8, <3>1, <3>2 DEF HaveSub
  <2>21. \A o \in Obj(dirs') : dirs'[o].path = Root /\ dirs'[o].track \notin Shut =>
            /\ dirs'[o].evq = ds[o].evq /\ (ds[o].watching = dirs'[o].watching)
            /\ \A s \in Subs : HaveSub(dirs', o, s) => HaveSub(ds, o, s)
    BY <2>2
  <2>3. Obj(dirs') \subseteq Obj(ds)
    BY <1>2
  <2>4. \A o \in Obj(dirs') : dirs'[o].path = ds[o].path /\ (dirs'[o].listed => ds[o].listed)
    BY <1>2
  <2>5. \A o \in Obj(dirs') : ds[o].track \in Shut => dirs'[o].track \in Shut
    BY <1>2
  <2>6. SubsInv(ds, t) /\ t \subseteq t
    BY DEF OwnsOf
  <2> QED
    BY ONLY <1>11, <2>1, <2>21, <2>3, <2>4, <2>5, <2>6, SubsShrink
<1>13. "rename" \notin Events => FilesInv(dirs', files', b)
  <2>1. \A o \in Obj(dirs') : \A f \in Files : HaveFile(dirs', files', o, f) => HaveFile(ds, fl, o, f)
    BY <1>2, <1>7 DEF HaveFile
  <2> QED
    BY <1>2, <1>3, <2>1, FilesShrink DEF OwnsOf
<1> QED
  BY <1>9, <1>10, <1>12, <1>13 DEF OwnsOf

(* The object o changes, and neither it nor the files list more.           *)
LEMMA Shrinks ==
  ASSUME NEW ds, NEW fl, NEW d, NEW st, NEW ps, NEW b, NEW t,
         InvOf(ds, fl, d, st, ps), OwnsOf(ds, fl, b, t),
         NEW o \in Obj(ds), NEW r \in DirRecs, NEW es, es = [ds EXCEPT ![o] = r],
         r.path = ds[o].path, r.start = ds[o].start, r.listed = ds[o].listed,
         r.todo \subseteq ds[o].todo, Begun(ds[o]) => Begun(r),
         r.mu = ds[o].mu \/ (ds[o].mu = None /\ r.start # "newDir"),
         \/ r.track \in Shut
         \/ ds[o].track \notin Shut /\ r.evq = ds[o].evq /\ r.watching = ds[o].watching,
         r.track \in {"addFile", "addDir", "newDir"} => r.track = ds[o].track /\ r.arg = ds[o].arg,
         ~Begun(r) => r.track \in {"select", "rmFile"},
         NEW gl, File(gl) \subseteq File(fl),
         \A i \in File(gl) : gl[i].listed => fl[i].listed /\ gl[i].dir = fl[i].dir /\ gl[i].path = fl[i].path,
         \A i \in File(gl) : Live(gl[i]) => Live(fl[i]) /\ (fl[i].listed => gl[i].listed),
         r.track \notin Shut =>
           /\ \A f \in Files : HaveFile(es, gl, o, f) => HaveFile(ds, fl, o, f)
           /\ \A s \in Subs : HaveSub(es, o, s) => HaveSub(ds, o, s)
  PROVE  OwnsOf(es, gl, b, t)
<1>0. ds \in DirMaps /\ o \in DirIds /\ ds[o] # None /\ ds[o] \in DirRecs /\ r # None
  BY NoneIsNoObject DEF Obj, DirMaps, InvOf
<1>1. /\ es[o] = r /\ \A p \in DirIds \ {o} : es[p] = ds[p]
      /\ Obj(es) = Obj(ds)
  BY <1>0 DEF DirMaps, Obj
<1>2. /\ \A p \in Obj(ds) : p \in DirIds /\ es[p].path = ds[p].path /\ es[p].listed = ds[p].listed /\ es[p].start = ds[p].start
      /\ \A p \in Obj(ds) : es[p].start = "newDir" => es[p].mu = ds[p].mu /\ ds[p].mu \in Obj(ds)
  BY <1>0, <1>1 DEF Obj, InvOf, DirInv, Locals, Local, Holding, Held
<1>3. \A p, f : FileIn(gl, p, f) => FileIn(fl, p, f)
  BY DEF FileIn
<1>4. \A s : SubIn(es, s) => SubIn(ds, s)
  BY <1>1, <1>2 DEF SubIn
<1>5. Reads(es, gl, t)
  <2>1. \A p \in Obj(es) : ~Begun(es[p]) =>
            /\ ~Begun(ds[p]) /\ es[p].path = ds[p].path
            /\ es[p].start = ds[p].start /\ es[p].todo \subseteq ds[p].todo
            /\ OnlyLosses(es[p].evq) /\ es[p].track \in {"select", "rmFile"}
            /\ es[p].start = "newDir" => es[es[p].mu].path = ds[ds[p].mu].path
    <3> SUFFICES ASSUME NEW p \in Obj(es), ~Begun(es[p])
        PROVE
            /\ ~Begun(ds[p]) /\ es[p].path = ds[p].path
            /\ es[p].start = ds[p].start /\ es[p].todo \subseteq ds[p].todo
            /\ OnlyLosses(es[p].evq) /\ es[p].track \in {"select", "rmFile"}
            /\ es[p].start = "newDir" => es[es[p].mu].path = ds[ds[p].mu].path
      OBVIOUS
    <3>1. ~Begun(ds[p]) /\ p \in Obj(ds)
      BY <1>1, <1>2
    <3>2. ReadingOK(ds, fl, t, p)
      BY <3>1 DEF OwnsOf, Reads
    <3>3. es[p].evq = ds[p].evq /\ es[p].track \in {"select", "rmFile"} /\ es[p].todo \subseteq ds[p].todo
      BY <1>1, <1>2, <3>2 DEF Shut, ReadingOK
    <3> QED
      BY <1>1, <1>2, <3>1, <3>2, <3>3 DEF ReadingOK
  <2>2. Reads(ds, fl, t) /\ t \subseteq t /\ Obj(es) \subseteq Obj(ds)
    BY <1>1 DEF OwnsOf
  <2> QED
    BY ONLY <1>3, <1>4, <2>1, <2>2, ReadsShrink
<1>6. FilesOnce(gl)
  BY DEF OwnsOf, FilesOnce
<1>7. Tending(es)
  <2> SUFFICES ASSUME NEW p \in Obj(ds), ~es[p].listed, es[p].track \notin Shut
               PROVE  \E q \in Obj(ds) : es[q].mu = p
    BY <1>1 DEF Tending
  <2>1. ds[p].track \notin Shut /\ ~ds[p].listed
    BY <1>1, <1>2
  <2>2. PICK q \in Obj(ds) : ds[q].mu = p
    BY <2>1 DEF OwnsOf, SubsInv, Tending
  <2>3. p # None
    BY <1>2, DirectoryAssumption
  <2> QED
    BY <1>1, <1>2, <2>2, <2>3
<1>8. ASSUME NEW p \in Obj(es), es[p].track \notin Shut
      PROVE  /\ ds[p].track \notin Shut /\ es[p].evq = ds[p].evq /\ ds[p].watching = es[p].watching
             /\ \A s \in Subs : HaveSub(es, p, s) => HaveSub(ds, p, s)
             /\ \A f \in Files : HaveFile(es, gl, p, f) => HaveFile(ds, fl, p, f)
  <2>1. CASE p = o
    BY <1>1, <1>8, <2>1
  <2>2. CASE p # o
    <3>1. es[p] = ds[p] /\ p \in Obj(ds)
      BY <1>1, <1>2, <2>2
    <3>2. \A s : es[p].start = "newDir" /\ es[es[p].mu].path = s => ds[ds[p].mu].path = s
      BY <1>2, <3>1
    <3>3. \A s \in Subs : HaveSub(es, p, s) => HaveSub(ds, p, s)
      BY <1>4, <3>1, <3>2 DEF HaveSub
    <3>4. \A f \in Files : HaveFile(es, gl, p, f) => HaveFile(ds, fl, p, f)
      BY <1>3, <3>1 DEF HaveFile
    <3> QED
      BY <1>8, <3>1, <3>3, <3>4
  <2> QED
    BY <2>1, <2>2
<1>9. SubsInv(es, t)
  <2>1. \A p \in Obj(es) : /\ es[p].start = "newDir" => ds[p].start = "newDir" /\ es[es[p].mu].path = ds[ds[p].mu].path
                           /\ es[p].track \in {"addDir", "newDir"} =>
                                 ds[p].track \in {"addDir", "newDir"} /\ es[p].arg = ds[p].arg
    BY <1>1, <1>2
  <2>2. \A p \in Obj(es) : es[p].path = Root /\ es[p].track \notin Shut =>
            /\ es[p].evq = ds[p].evq /\ (ds[p].watching = es[p].watching)
            /\ \A s \in Subs : HaveSub(es, p, s) => HaveSub(ds, p, s)
    BY <1>8
  <2>3. Obj(es) \subseteq Obj(ds) /\ SubsInv(ds, t) /\ t \subseteq t
    BY <1>1 DEF OwnsOf
  <2>4. \A p \in Obj(es) : es[p].path = ds[p].path /\ (es[p].listed => ds[p].listed)
    BY <1>1, <1>2
  <2>5. \A p \in Obj(es) : ds[p].track \in Shut => es[p].track \in Shut
    BY <1>1, <1>2
  <2> QED
    BY ONLY <1>7, <2>1, <2>2, <2>3, <2>4, <2>5, SubsShrink
<1>10. ASSUME "rename" \notin Events PROVE FilesInv(es, gl, b)
  <2>1. FilesInv(ds, fl, b)
    BY <1>10 DEF OwnsOf
  <2>2. \A p \in Obj(es) : es[p].track = "addFile" => ds[p].track = "addFile" /\ es[p].arg = ds[p].arg
    BY <1>1, <1>2
  <2>3. \A p \in Obj(es) : es[p].track \notin Shut =>
            /\ ds[p].track \notin Shut
            /\ es[p].evq = ds[p].evq /\ (es[p].watching => ds[p].watching)
            /\ \A f \in Files : HaveFile(es, gl, p, f) => HaveFile(ds, fl, p, f)
    BY <1>8
  <2> QED
    <3>1. \A p \in Obj(es) : es[p].path = ds[p].path
      BY <1>1, <1>2
    <3>2. Obj(es) \subseteq Obj(ds) /\ File(gl) \subseteq File(fl) /\ \A f \in Files : b[f] # 0 => b[f] # 0
      BY <1>1
    <3>3. \A i \in File(gl) : gl[i].listed => fl[i].listed /\ gl[i].dir = fl[i].dir /\ gl[i].path = fl[i].path
      OBVIOUS
    <3>4. \A i \in File(gl) : Live(gl[i]) => Live(fl[i]) /\ (fl[i].listed => gl[i].listed)
      OBVIOUS
    <3> QED
      BY ONLY <3>1, <3>2, <3>3, <3>4, <2>1, <2>2, <2>3, FilesShrink
<1> QED
  BY <1>5, <1>6, <1>9, <1>10 DEF OwnsOf

(* The file map lists less, and no tail that is alive loses its entry.     *)
LEMMA FilesFewer ==
  ASSUME NEW ds, NEW fl, NEW b, NEW t, OwnsOf(ds, fl, b, t),
         NEW gl, File(gl) \subseteq File(fl),
         \A i \in File(gl) : gl[i].listed => fl[i].listed /\ gl[i].dir = fl[i].dir /\ gl[i].path = fl[i].path,
         \A i \in File(gl) : Live(gl[i]) => Live(fl[i]) /\ (fl[i].listed => gl[i].listed)
  PROVE  OwnsOf(ds, gl, b, t)
<1>1. \A p, f : FileIn(gl, p, f) => FileIn(fl, p, f)
  BY DEF FileIn
<1>2. Reads(ds, gl, t)
  BY <1>1 DEF OwnsOf, Reads, ReadingOK
<1>3. FilesOnce(gl)
  BY DEF OwnsOf, FilesOnce
<1>4. \A p, f : HaveFile(ds, gl, p, f) => HaveFile(ds, fl, p, f)
  BY <1>1 DEF HaveFile
<1>5. "rename" \notin Events => FilesInv(ds, gl, b)
  BY <1>4, FilesShrink DEF OwnsOf
<1> QED
  BY <1>2, <1>3, <1>5 DEF OwnsOf

(* The second invariant.                                                   *)
Owns == OwnsOf(dirs, files, born, there)

(* The object that holds a mutex across steps is that of the rule's        *)
(* directory.                                                              *)
LEMMA ParentListed ==
  ASSUME Inv, NEW o \in Obj(dirs), dirs[o].mu # None
  PROVE  dirs[o].listed
BY DEF Inv, InvOf, DirInv, Locals, Local

(* A step that changes the object o so that it lists no more, and then     *)
(* forgets objects.                                                        *)
LEMMA ShrinkStep ==
  ASSUME Inv, Owns, Inv',
         NEW o \in Objs, NEW r \in DirRecs, NEW es, es = [dirs EXCEPT ![o] = r],
         r.path = dirs[o].path, r.start = dirs[o].start, r.listed = dirs[o].listed,
         r.todo \subseteq dirs[o].todo, Begun(dirs[o]) => Begun(r),
         r.mu = dirs[o].mu,
         \/ r.track \in Shut
         \/ dirs[o].track \notin Shut /\ r.evq = dirs[o].evq /\ r.watching = dirs[o].watching,
         r.track \in {"addFile", "addDir", "newDir"} => r.track = dirs[o].track /\ r.arg = dirs[o].arg,
         ~Begun(r) => r.track \in {"select", "rmFile"},
         NEW gl \in FileMaps, File(gl) \subseteq File(files),
         \A i \in File(gl) : gl[i].listed => files[i].listed /\ gl[i].dir = files[i].dir /\ gl[i].path = files[i].path,
         \A i \in File(gl) : Live(gl[i]) => Live(files[i]) /\ (files[i].listed => gl[i].listed),
         r.track \notin Shut =>
           /\ \A f \in Files : HaveFile(es, gl, o, f) => HaveFile(dirs, files, o, f)
           /\ \A s \in Subs : HaveSub(es, o, s) => HaveSub(dirs, o, s),
         Become(es, gl), born' = born, there' = there
  PROVE  Owns'
<1>1. o \in Obj(dirs) /\ dirs \in DirMaps
  BY Known
<1>2. InvOf(dirs, files, day, stopped, Ours) /\ OwnsOf(dirs, files, born, there)
  BY DEF Inv, Owns
<1>3. OwnsOf(es, gl, born, there)
  BY ONLY <1>1, <1>2, Shrinks,
         r \in DirRecs, es = [dirs EXCEPT ![o] = r],
         r.path = dirs[o].path, r.start = dirs[o].start, r.listed = dirs[o].listed,
         r.todo \subseteq dirs[o].todo, Begun(dirs[o]) => Begun(r),
         r.mu = dirs[o].mu,
         \/ r.track \in Shut
         \/ dirs[o].track \notin Shut /\ r.evq = dirs[o].evq /\ r.watching = dirs[o].watching,
         r.track \in {"addFile", "addDir", "newDir"} => r.track = dirs[o].track /\ r.arg = dirs[o].arg,
         ~Begun(r) => r.track \in {"select", "rmFile"},
         File(gl) \subseteq File(files),
         \A i \in File(gl) : gl[i].listed => files[i].listed /\ gl[i].dir = files[i].dir /\ gl[i].path = files[i].path,
         \A i \in File(gl) : Live(gl[i]) => Live(files[i]) /\ (files[i].listed => gl[i].listed),
         r.track \notin Shut =>
           /\ \A f \in Files : HaveFile(es, gl, o, f) => HaveFile(dirs, files, o, f)
           /\ \A s \in Subs : HaveSub(es, o, s) => HaveSub(dirs, o, s)
<1>4. es \in DirMaps
  BY <1>1 DEF DirMaps
<1>5. \A p \in Obj(es) : es[p].mu # None => es[p].listed
  BY <1>1, <1>4, ParentListed DEF Obj, DirMaps
<1>6. OwnsOf(dirs', files', born, there)
  BY <1>3, <1>4, <1>5, BecomeOwns
<1> QED
  BY <1>6 DEF Owns

(* removeFile lists one file less, whose tail is asked to end.             *)
LEMMA WithoutFileFewer ==
  ASSUME files \in FileMaps, NEW i \in Tails
  PROVE  /\ WithoutFile(i) \in FileMaps /\ File(WithoutFile(i)) \subseteq File(files)
         /\ \A j \in File(WithoutFile(i)) :
              WithoutFile(i)[j].listed => /\ j # i /\ files[j].listed
                                          /\ WithoutFile(i)[j].dir = files[j].dir /\ WithoutFile(i)[j].path = files[j].path
         /\ \A j \in File(WithoutFile(i)) :
              Live(WithoutFile(i)[j]) => Live(files[j]) /\ (files[j].listed => WithoutFile(i)[j].listed)
<1>0. i \in FileIds /\ files[i] # None /\ files[i] \in FileRecs
  BY DEF Tails, FileMaps
<1>1. WithoutFile(i) \in FileMaps
  BY WithoutFileFacts
<1>2. \A j \in FileIds \ {i} : WithoutFile(i)[j] = files[j]
  BY WithoutFileFacts
<1>3. WithoutFile(i)[i].asked /\ ~WithoutFile(i)[i].listed
  BY <1>0, WithoutFileFacts DEF FileRecs
<1> QED
  BY <1>0, <1>1, <1>2, <1>3 DEF File, Live

(* The end of a tail lists no more.                                        *)
LEMMA DeadFewer ==
  ASSUME files \in FileMaps, NEW i \in Tails, NEW gl, gl = [files EXCEPT ![i].tail = "dead"]
  PROVE  /\ gl \in FileMaps /\ File(gl) \subseteq File(files)
         /\ \A j \in File(gl) : gl[j].listed => /\ files[j].listed
                                          /\ gl[j].dir = files[j].dir /\ gl[j].path = files[j].path
         /\ \A j \in File(gl) : Live(gl[j]) => Live(files[j]) /\ (files[j].listed => gl[j].listed)
<1>0. i \in FileIds /\ files[i] # None /\ files[i] \in FileRecs
  BY DEF Tails, FileMaps
<1>1. gl[i] = [files[i] EXCEPT !.tail = "dead"] /\ \A j \in FileIds \ {i} : gl[j] = files[j]
  BY <1>0 DEF FileMaps
<1>2. gl \in FileMaps
  BY <1>0 DEF FileMaps, FileRecs
<1>3. gl[i].tail = "dead" /\ gl[i].listed = files[i].listed /\ gl[i].dir = files[i].dir /\ gl[i].path = files[i].path
  BY <1>0, <1>1 DEF FileRecs
<1> QED
  BY <1>0, <1>1, <1>2, <1>3 DEF File, Live

(* A step that lists fewer files, and then forgets objects.                *)
LEMMA FewerStep ==
  ASSUME Inv, Owns, Inv',
         NEW gl \in FileMaps, File(gl) \subseteq File(files),
         \A i \in File(gl) : gl[i].listed => files[i].listed /\ gl[i].dir = files[i].dir /\ gl[i].path = files[i].path,
         \A i \in File(gl) : Live(gl[i]) => Live(files[i]) /\ (files[i].listed => gl[i].listed),
         Become(dirs, gl), born' = born, there' = there
  PROVE  Owns'
<1>1. OwnsOf(dirs, gl, born, there)
  BY FilesFewer DEF Owns
<1>2. dirs \in DirMaps
  BY DEF Inv, InvOf
<1>3. OwnsOf(dirs', files', born, there)
  BY <1>1, <1>2, ParentListed, BecomeOwns
<1> QED
  BY <1>3 DEF Owns

(* LetGo keeps the second invariant.                                       *)
LEMMA LetGoOwns ==
  ASSUME Inv, Owns, Inv', NEW o \in Objs, NEW i \in Tails, LetGo(o, i)
  PROVE  Owns'
<1>1. files \in FileMaps
  BY DEF Inv, InvOf
<1>2. Become(dirs, WithoutFile(i)) /\ born' = born /\ there' = there
  BY DEF LetGo, fs
<1> QED
  BY <1>1, <1>2, WithoutFileFewer, FewerStep

(* A tail's own steps keep the second invariant.                           *)
LEMMA TailOwns ==
  ASSUME Inv, Owns, Inv', NEW i \in Tails, TailNext(i)
  PROVE  Owns'
<1>1. files \in FileMaps
  BY DEF Inv, InvOf
<1>2. Become(dirs, [files EXCEPT ![i].tail = "dead"]) /\ born' = born /\ there' = there
  BY DEF TailNext, TailTakesClose, TailDies, fs
<1> DEFINE gl == [files EXCEPT ![i].tail = "dead"]
<1>3. /\ gl \in FileMaps /\ File(gl) \subseteq File(files)
      /\ \A j \in File(gl) : gl[j].listed => /\ files[j].listed
                                          /\ gl[j].dir = files[j].dir /\ gl[j].path = files[j].path
      /\ \A j \in File(gl) : Live(gl[j]) => Live(files[j]) /\ (files[j].listed => gl[j].listed)
  BY <1>1, DeadFewer
<1>4. Become(dirs, gl)
  BY <1>2
<1> HIDE DEF gl
<1> QED
  BY <1>2, <1>3, <1>4, FewerStep

(* A step that changes neither objects, files nor the file system keeps    *)
(* the second invariant.                                                   *)
LEMMA IdleOwns ==
  ASSUME Owns, dirs' = dirs, files' = files, born' = born, there' = there
  PROVE  Owns'
BY DEF Owns

(* addFile keeps the second invariant if the name is not in the map of the *)
(* object that adds it (directory.go:168-229).                             *)
LEMMA WithFileOwns ==
  ASSUME NEW ds, OwnsOf(ds, files, born, there), files \in FileMaps, FileLeft,
         NEW o \in Obj(ds), NEW f \in Files,
         ds[o].track # "addFile",
         ~Begun(ds[o]) => ds[o].start # "read" /\ f \notin ds[o].todo,
         "rename" \notin Events => ~FileIn(files, o, f),
         born[f] # 0 /\ "rename" \notin Events => Alternates(ds[o].evq, f, TRUE, TRUE)
  PROVE  OwnsOf(ds, WithFile(f, o), born, there)
<1>0. o \in DirIds
  BY DEF Obj
<1>1. CASE born[f] = 0
  BY <1>0, <1>1, WithFileFacts
<1>2. CASE born[f] # 0
  <2> DEFINE fl == WithFile(f, o)
  <2>1. /\ fl[FreeFile] = NewFile(f, o) /\ fl[FreeFile] # None /\ fl[FreeFile].listed
        /\ fl[FreeFile].dir = o /\ fl[FreeFile].path = f
    BY <1>0, <1>2, WithFileFacts, NewFileType, NoneIsNoObject DEF NewFile
  <2>2. FreeFile \in FileIds /\ files[FreeFile] = None
    BY FreeFileType
  <2>3. \A i \in FileIds : i # FreeFile =>
              fl[i] = IF files[i] # None /\ files[i].dir = o /\ files[i].listed /\ files[i].path = f
                      THEN [files[i] EXCEPT !.listed = FALSE] ELSE files[i]
    BY <1>0, <1>2, WithFileFacts
  <2> HIDE DEF fl
  <2>4. ASSUME NEW i \in File(fl), i # FreeFile
        PROVE  /\ i \in File(files) /\ fl[i].dir = files[i].dir /\ fl[i].path = files[i].path
               /\ Live(fl[i]) => Live(files[i])
               /\ fl[i].listed => files[i].listed /\ ~(files[i].dir = o /\ files[i].path = f)
               /\ ~fl[i].listed => ~files[i].listed \/ (files[i].dir = o /\ files[i].path = f)
    <3>1. i \in FileIds /\ files[i] # None /\ files[i] \in FileRecs
      BY <2>3, <2>4 DEF File, FileMaps
    <3>2. CASE files[i].dir = o /\ files[i].listed /\ files[i].path = f
      <4>1. fl[i] = [files[i] EXCEPT !.listed = FALSE]
        BY <2>3, <2>4, <3>1, <3>2
      <4> QED
        BY <3>1, <3>2, <4>1 DEF FileRecs, File, Live
    <3>3. CASE ~(files[i].dir = o /\ files[i].listed /\ files[i].path = f)
      <4>1. fl[i] = files[i]
        BY <2>3, <2>4, <3>1, <3>3
      <4> QED
        BY <3>1, <3>3, <4>1 DEF File
    <3> QED
      BY <3>2, <3>3
  <2>5. \A p, g : FileIn(fl, p, g) => FileIn(files, p, g) \/ (p = o /\ g = f)
    BY <2>1, <2>4 DEF FileIn
  <2>6. Reads(ds, fl, there)
    <3> SUFFICES ASSUME NEW p \in Obj(ds), ~Begun(ds[p]) PROVE ReadingOK(ds, fl, there, p)
      BY DEF Reads
    <3>1. ReadingOK(ds, files, there, p)
      BY DEF OwnsOf, Reads
    <3>2. \A g \in Files : (ds[p].start = "read" \/ g \in ds[p].todo) => ~(p = o /\ g = f)
      OBVIOUS
    <3>3. ds[p].start = "read" => \A g \in Files : ~FileIn(fl, p, g)
      BY <2>5, <3>1, <3>2 DEF ReadingOK
    <3>4. \A g \in ds[p].todo \cap Files : ~FileIn(fl, p, g)
      BY <2>5, <3>1, <3>2 DEF ReadingOK
    <3> QED
      BY <3>1, <3>3, <3>4 DEF ReadingOK
  <2>7. FilesOnce(fl)
    <3> SUFFICES ASSUME NEW i \in File(fl), NEW j \in File(fl), fl[i].listed, fl[j].listed,
                        fl[i].dir = fl[j].dir, fl[i].path = fl[j].path
                 PROVE  i = j
      BY DEF FilesOnce
    <3>1. CASE i = FreeFile \/ j = FreeFile
      BY <2>1, <2>4, <3>1
    <3>2. CASE i # FreeFile /\ j # FreeFile
      BY <2>4, <3>2 DEF OwnsOf, FilesOnce
    <3> QED
      BY <3>1, <3>2
  <2>8. ASSUME "rename" \notin Events PROVE FilesInv(ds, fl, born)
    <3>1. FilesInv(ds, files, born) /\ ~FileIn(files, o, f) /\ Alternates(ds[o].evq, f, TRUE, TRUE)
      BY <1>2, <2>8 DEF OwnsOf
    <3>2. FilesNew(ds, fl)
      BY <2>5, <3>1 DEF FilesInv, FilesNew
    <3>3. Unasked(fl)
      BY <2>1, <2>4, <3>1 DEF FilesInv, Unasked, FileIn
    <3>4. FilesAlternate(ds, fl, born)
      <4> SUFFICES ASSUME NEW p \in Obj(ds), ds[p].track \notin Shut, NEW g \in Files, In[g] = ds[p].path
                   PROVE  Alternates(ds[p].evq, g, HaveFile(ds, fl, p, g), born[g] # 0 \/ ~ds[p].watching)
        BY DEF FilesAlternate
      <4>1. CASE p = o /\ g = f
        BY <1>2, <3>1, <4>1, Weaker
      <4>2. CASE ~(p = o /\ g = f)
        <5>1. HaveFile(ds, fl, p, g) => HaveFile(ds, files, p, g)
          BY <2>5, <4>2 DEF HaveFile
        <5>2. Alternates(ds[p].evq, g, HaveFile(ds, files, p, g), born[g] # 0 \/ ~ds[p].watching)
          BY <3>1 DEF FilesInv, FilesAlternate
        <5> QED
          BY <5>1, <5>2, Weaker
      <4> QED
        BY <4>1, <4>2
    <3> QED
      BY <3>2, <3>3, <3>4 DEF FilesInv
  <2> QED
    BY <2>6, <2>7, <2>8 DEF OwnsOf, fl
<1> QED
  BY <1>1, <1>2

(* A queue of removals only has no creation in it.                         *)
LEMMA LossesNoCreates ==
  ASSUME NEW q, OnlyLosses(q), NEW n
  PROVE  Creates(q, n) = {}
BY DEF OnlyLosses, Creates

(* start goes on to its next entry: no directory has heard of more.        *)
LEMMA EntryOwns ==
  ASSUME Inv, Owns, NEW o \in Objs, dirs[o].start = "list", NEW n \in dirs[o].todo
  PROVE  OwnsOf([dirs EXCEPT ![o] = [dirs[o] EXCEPT !.todo = @ \ {n}]], files, born, there)
<1> DEFINE r == [dirs[o] EXCEPT !.todo = @ \ {n}]
           ds == [dirs EXCEPT ![o] = r]
<1>1. /\ o \in Obj(dirs) /\ dirs[o] \in DirRecs /\ o \in DirIds /\ Local(dirs[o])
      /\ dirs \in DirMaps /\ files \in FileMaps
  BY Known
<1>2. /\ r \in DirRecs /\ r.path = dirs[o].path /\ r.start = dirs[o].start /\ r.listed = dirs[o].listed
      /\ r.todo = dirs[o].todo \ {n} /\ r.mu = dirs[o].mu /\ r.evq = dirs[o].evq /\ r.watching = dirs[o].watching
      /\ r.track = dirs[o].track /\ r.arg = dirs[o].arg /\ r.left = dirs[o].left
  BY <1>1 DEF DirRecs
<1>3. ds[o] = r /\ ds \in DirMaps /\ Obj(ds) = Obj(dirs) /\ \A p \in DirIds \ {o} : ds[p] = dirs[p]
  BY <1>1, <1>2, NoneIsNoObject DEF DirMaps, Obj
<1>4. dirs[o].start = "list" /\ ~Begun(dirs[o])
  BY DEF Begun
<1>5. ReadingOK(dirs, files, there, o)
  BY <1>1, <1>4 DEF Owns, OwnsOf, Reads
<1>8. OwnsOf(ds, files, born, there)
  <2>1. \A g \in Files : HaveFile(ds, files, o, g) => HaveFile(dirs, files, o, g)
    BY <1>2, <1>3 DEF HaveFile
  <2>2. dirs[o].track \in {"select", "rmFile"} /\ dirs[o].start # "newDir"
    BY <1>4, <1>5 DEF ReadingOK
  <2>3. \A s : SubIn(ds, s) => SubIn(dirs, s)
    BY <1>1, <1>2, <1>3 DEF SubIn, Obj
  <2>4. \A s \in Subs : HaveSub(ds, o, s) => HaveSub(dirs, o, s)
    BY <1>2, <1>3, <2>2, <2>3 DEF HaveSub
  <2>5. r.track \notin Shut /\ dirs[o].track \notin Shut
    BY <1>2, <2>2 DEF Shut
  <2>6. InvOf(dirs, files, day, stopped, Ours) /\ OwnsOf(dirs, files, born, there)
    BY DEF Inv, Owns
  <2>7. r.todo \subseteq dirs[o].todo /\ (Begun(dirs[o]) => Begun(r)) /\ r.track \in {"select", "rmFile"}
    BY <1>2, <1>4, <2>2
  <2>8. ds = [dirs EXCEPT ![o] = r]
    OBVIOUS
  <2> HIDE DEF ds, r
  <2> QED
    BY <1>1, <1>2, <2>1, <2>4, <2>5, <2>6, <2>7, <2>8, Shrinks
<1> QED
  BY <1>8

(* StartFile keeps the second invariant: while start reads, no event has   *)
(* told track of the file (directory.go:278-303).                          *)
LEMMA StartFileOwns ==
  ASSUME Inv, Owns, Inv', NEW o \in Objs, NEW f \in Files, StartFile(o, f)
  PROVE  Owns'
<1> DEFINE r == [dirs[o] EXCEPT !.todo = @ \ {f}]
           ds == [dirs EXCEPT ![o] = r]
<1>1. /\ o \in Obj(dirs) /\ dirs[o] \in DirRecs /\ o \in DirIds /\ Local(dirs[o])
      /\ dirs \in DirMaps /\ files \in FileMaps
  BY Known
<1>2. /\ r \in DirRecs /\ r.path = dirs[o].path /\ r.start = dirs[o].start /\ r.listed = dirs[o].listed
      /\ r.todo = dirs[o].todo \ {f} /\ r.mu = dirs[o].mu /\ r.evq = dirs[o].evq /\ r.watching = dirs[o].watching
      /\ r.track = dirs[o].track /\ r.arg = dirs[o].arg /\ r.left = dirs[o].left
  BY <1>1 DEF DirRecs
<1>3. ds[o] = r /\ ds \in DirMaps /\ Obj(ds) = Obj(dirs) /\ \A p \in DirIds \ {o} : ds[p] = dirs[p]
  BY <1>1, <1>2, NoneIsNoObject DEF DirMaps, Obj
<1>4. dirs[o].start = "list" /\ f \in dirs[o].todo /\ ~Begun(dirs[o])
  BY DEF StartFile, Begun
<1>5. ReadingOK(dirs, files, there, o)
  BY <1>1, <1>4 DEF Owns, OwnsOf, Reads
<1>6. born' = born /\ there' = there
  BY DEF StartFile, fs
<1>7. \/ dirs' = ds /\ files' = files
      \/ FileLeft /\ Become(ds, WithFile(f, o))
  BY <1>1 DEF StartFile, FileAdded, FileRefused, DirMaps, DirRecs
<1>8. OwnsOf(ds, files, born, there)
  BY <1>4, EntryOwns
<1>9. CASE dirs' = ds /\ files' = files
  BY <1>6, <1>8, <1>9 DEF Owns
<1>10. CASE FileLeft /\ Become(ds, WithFile(f, o))
  <2>1. OnlyLosses(ds[o].evq) /\ ds[o].track # "addFile" /\ ~FileIn(files, o, f) /\ ds[o].start # "read" /\ f \notin ds[o].todo
    BY <1>2, <1>3, <1>4, <1>5 DEF ReadingOK
  <2>2. Alternates(ds[o].evq, f, TRUE, TRUE)
    BY <2>1, LossesNoCreates, NoCreates
  <2>3. o \in Obj(ds)
    BY <1>1, <1>3
  <2>4. \A p \in Obj(ds) : ds[p].mu # None => ds[p].listed
    BY <1>1, <1>2, <1>3, ParentListed DEF Obj
  <2> HIDE DEF ds, r
  <2>5. OwnsOf(ds, WithFile(f, o), born, there)
    BY <1>1, <1>8, <1>10, <2>1, <2>2, <2>3, WithFileOwns
  <2>6. WithFile(f, o) \in FileMaps
    BY <1>1, <1>10, WithFileFacts
  <2>7. OwnsOf(dirs', files', born, there)
    BY <1>3, <1>10, <2>4, <2>5, <2>6, BecomeOwns
  <2> QED
    BY <1>6, <2>7 DEF Owns
<1> QED
  BY <1>7, <1>9, <1>10

(* The track of o goes back to its select.                                 *)
Selected(r) == [r EXCEPT !.track = "select", !.arg = None]

(* The fields of an object whose track is back in its select.              *)
LEMMA SelectFields ==
  ASSUME Inv, NEW o \in Objs
  PROVE  LET r == Selected(dirs[o]) IN
         /\ r \in DirRecs /\ r.path = dirs[o].path /\ r.start = dirs[o].start /\ r.listed = dirs[o].listed
         /\ r.todo = dirs[o].todo /\ r.mu = dirs[o].mu /\ r.evq = dirs[o].evq /\ r.watching = dirs[o].watching
         /\ r.track = "select" /\ r.left = dirs[o].left /\ Begun(r) = Begun(dirs[o])
         /\ Track(o, "select", None) = [dirs EXCEPT ![o] = r]
         /\ Track(o, "select", None)[o] = r
         /\ \A p \in DirIds \ {o} : Track(o, "select", None)[p] = dirs[p]
         /\ Obj(Track(o, "select", None)) = Obj(dirs)
         /\ Track(o, "select", None) \in DirMaps
         /\ \A s : SubIn(Track(o, "select", None), s) => SubIn(dirs, s)
<1> DEFINE r == Selected(dirs[o])
<1> SUFFICES
         /\ r \in DirRecs /\ r.path = dirs[o].path /\ r.start = dirs[o].start /\ r.listed = dirs[o].listed
         /\ r.todo = dirs[o].todo /\ r.mu = dirs[o].mu /\ r.evq = dirs[o].evq /\ r.watching = dirs[o].watching
         /\ r.track = "select" /\ r.left = dirs[o].left /\ Begun(r) = Begun(dirs[o])
         /\ Track(o, "select", None) = [dirs EXCEPT ![o] = r]
         /\ Track(o, "select", None)[o] = r
         /\ \A p \in DirIds \ {o} : Track(o, "select", None)[p] = dirs[p]
         /\ Obj(Track(o, "select", None)) = Obj(dirs)
         /\ Track(o, "select", None) \in DirMaps
         /\ \A s : SubIn(Track(o, "select", None), s) => SubIn(dirs, s)
  OBVIOUS
<1>1. /\ o \in Obj(dirs) /\ dirs[o] \in DirRecs /\ o \in DirIds /\ Local(dirs[o]) /\ dirs \in DirMaps
  BY Known
<1>2. /\ r \in DirRecs /\ r.path = dirs[o].path /\ r.start = dirs[o].start /\ r.listed = dirs[o].listed
      /\ r.todo = dirs[o].todo /\ r.mu = dirs[o].mu /\ r.evq = dirs[o].evq /\ r.watching = dirs[o].watching
      /\ r.track = "select" /\ r.left = dirs[o].left
  BY <1>1 DEF DirRecs, Selected
<1>3. Begun(r) = Begun(dirs[o])
  BY <1>2 DEF Begun
<1>4. Track(o, "select", None) = [dirs EXCEPT ![o] = r]
  BY <1>1 DEF Track, DirMaps, Selected
<1>5. /\ Track(o, "select", None)[o] = r
      /\ \A p \in DirIds \ {o} : Track(o, "select", None)[p] = dirs[p]
      /\ Track(o, "select", None) \in DirMaps
  BY <1>1, <1>2, <1>4 DEF DirMaps
<1>6. Obj(Track(o, "select", None)) = Obj(dirs)
  BY <1>1, <1>2, <1>5, NoneIsNoObject DEF Obj
<1>7. \A s : SubIn(Track(o, "select", None), s) => SubIn(dirs, s)
  <2>1. \A p \in Obj(dirs) : /\ Track(o, "select", None)[p].listed = dirs[p].listed
                             /\ Track(o, "select", None)[p].path = dirs[p].path
    BY <1>2, <1>5 DEF Obj
  <2> QED
    BY <1>6, <2>1 DEF SubIn
<1> QED
  BY <1>2, <1>3, <1>4, <1>5, <1>6, <1>7

(* While start reads, track has nothing to add.                            *)
LEMMA BeganTracks ==
  ASSUME Owns, NEW o \in Obj(dirs), dirs[o].track \notin {"select", "rmFile"}
  PROVE  Begun(dirs[o])
BY DEF Owns, OwnsOf, Reads, ReadingOK

(* AddEventFile keeps the second invariant: what a creation adds is not in *)
(* the map.                                                                *)
LEMMA AddEventFileOwns ==
  ASSUME Inv, Owns, Inv', NEW o \in Objs, AddEventFile(o)
  PROVE  Owns'
<1> DEFINE r == Selected(dirs[o])
           ds == Track(o, "select", None)
           f  == dirs[o].arg
<1>1. /\ o \in Obj(dirs) /\ dirs[o] \in DirRecs /\ o \in DirIds /\ Local(dirs[o])
      /\ dirs \in DirMaps /\ files \in FileMaps
  BY Known
<1>2. /\ r \in DirRecs /\ r.path = dirs[o].path /\ r.start = dirs[o].start /\ r.listed = dirs[o].listed
      /\ r.todo = dirs[o].todo /\ r.mu = dirs[o].mu /\ r.evq = dirs[o].evq /\ r.watching = dirs[o].watching
      /\ r.track = "select" /\ r.left = dirs[o].left /\ Begun(r) = Begun(dirs[o])
      /\ ds = [dirs EXCEPT ![o] = r] /\ ds[o] = r /\ ds \in DirMaps
      /\ \A p \in DirIds \ {o} : ds[p] = dirs[p]
      /\ Obj(ds) = Obj(dirs)
      /\ \A s : SubIn(ds, s) => SubIn(dirs, s)
  BY SelectFields
<1>3. /\ dirs[o].track = "addFile" /\ born' = born /\ there' = there
      /\ \/ FileLeft /\ Become(ds, WithFile(f, o))
         \/ dirs' = ds /\ files' = files
  BY DEF AddEventFile, FileAdded, FileRefused, fs
<1>4. Begun(dirs[o]) /\ f \in Files /\ In[f] = dirs[o].path
  BY <1>1, <1>3, BeganTracks, DirectoryAssumption DEF Local, OfFile, Names
<1>5. OwnsOf(ds, files, born, there)
  <2>1. \A g \in Files : HaveFile(ds, files, o, g) => HaveFile(dirs, files, o, g)
    BY <1>2, <1>3 DEF HaveFile
  <2>2. \A s \in Subs : HaveSub(ds, o, s) => HaveSub(dirs, o, s)
    <3>1. dirs[o].start # "newDir"
      BY <1>4 DEF Begun
    <3> QED
      BY <1>2, <1>3, <3>1 DEF HaveSub
  <2>3. r.track \notin Shut /\ dirs[o].track \notin Shut
    BY <1>2, <1>3 DEF Shut
  <2>4. InvOf(dirs, files, day, stopped, Ours) /\ OwnsOf(dirs, files, born, there)
    BY DEF Inv, Owns
  <2> HIDE DEF ds, r
  <2> QED
    BY <1>1, <1>2, <2>1, <2>2, <2>3, <2>4, Shrinks, ZenonT(60)
<1>51. CASE dirs' = ds /\ files' = files
  BY <1>3, <1>5, <1>51 DEF Owns
<1> SUFFICES ASSUME FileLeft, Become(ds, WithFile(f, o)) PROVE Owns'
  BY <1>3, <1>51
<1>6. o \in Obj(ds) /\ ds[o].track # "addFile" /\ Begun(ds[o])
  BY <1>1, <1>2, <1>4
<1>7. ASSUME "rename" \notin Events PROVE ~FileIn(files, o, f)
  BY <1>1, <1>3, <1>7 DEF Owns, OwnsOf, FilesInv, FilesNew
<1>8. ASSUME "rename" \notin Events, born[f] # 0 PROVE Alternates(ds[o].evq, f, TRUE, TRUE)
  <2>1. HaveFile(dirs, files, o, f)
    BY <1>3 DEF HaveFile
  <2>2. dirs[o].track \notin Shut
    BY <1>3 DEF Shut
  <2>3. Alternates(dirs[o].evq, f, HaveFile(dirs, files, o, f), born[f] # 0 \/ ~dirs[o].watching)
    BY <1>1, <1>4, <1>8, <2>2 DEF Owns, OwnsOf, FilesInv, FilesAlternate
  <2> QED
    BY <1>2, <2>1, <2>3, Weaker
<1>9. \A p \in Obj(ds) : ds[p].mu # None => ds[p].listed
  BY <1>1, <1>2, ParentListed DEF Obj
<1>10. WithFile(f, o) \in FileMaps
  BY <1>1, <1>3, <1>4, WithFileFacts
<1> HIDE DEF ds, r, f
<1>11. OwnsOf(ds, WithFile(f, o), born, there)
  BY <1>1, <1>3, <1>4, <1>5, <1>6, <1>7, <1>8, WithFileOwns
<1>12. OwnsOf(dirs', files', born, there)
  BY <1>2, <1>3, <1>9, <1>10, <1>11, BecomeOwns
<1> QED
  BY <1>3, <1>12 DEF Owns

(* RemoveFile keeps the second invariant.                                  *)
LEMMA RemoveFileOwns ==
  ASSUME Inv, Owns, Inv', NEW o \in Objs, RemoveFile(o)
  PROVE  Owns'
<1> DEFINE r == Selected(dirs[o])
           ds == Track(o, "select", None)
<1>1. /\ o \in Obj(dirs) /\ dirs[o] \in DirRecs /\ o \in DirIds /\ Local(dirs[o])
      /\ dirs \in DirMaps /\ files \in FileMaps
  BY Known
<1>2. /\ r \in DirRecs /\ r.path = dirs[o].path /\ r.start = dirs[o].start /\ r.listed = dirs[o].listed
      /\ r.todo = dirs[o].todo /\ r.mu = dirs[o].mu /\ r.evq = dirs[o].evq /\ r.watching = dirs[o].watching
      /\ r.track = "select" /\ r.left = dirs[o].left /\ Begun(r) = Begun(dirs[o])
      /\ ds = [dirs EXCEPT ![o] = r] /\ ds[o] = r /\ ds \in DirMaps
      /\ \A p \in DirIds \ {o} : ds[p] = dirs[p]
      /\ Obj(ds) = Obj(dirs)
      /\ \A s : SubIn(ds, s) => SubIn(dirs, s)
  BY SelectFields
<1>3. dirs[o].track = "rmFile" /\ Unlocked(o) /\ born' = born /\ there' = there
  BY DEF RemoveFile, fs
<1>4. dirs[o].start # "newDir"
  BY <1>1, <1>3 DEF Local, Unlocked, Busy
<1>5. \A s \in Subs : HaveSub(ds, o, s) => HaveSub(dirs, o, s)
  BY <1>2, <1>3, <1>4 DEF HaveSub
<1>6. r.track \notin Shut /\ dirs[o].track \notin Shut
  BY <1>2, <1>3 DEF Shut
<1>7. InvOf(dirs, files, day, stopped, Ours) /\ OwnsOf(dirs, files, born, there)
  BY DEF Inv, Owns
<1>8. \A i \in Tails : i \in FileMap(o) <=> files[i].dir = o /\ files[i].listed
  BY DEF FileMap
<1>9. CASE {i \in FileMap(o) : files[i].path = dirs[o].arg} = {}
  <2>1. dirs' = ds /\ files' = files
    BY <1>9 DEF RemoveFile
  <2>2. \A g \in Files : HaveFile(ds, files, o, g) => HaveFile(dirs, files, o, g)
    <3>1. ~FileIn(files, o, dirs[o].arg)
      BY <1>8, <1>9, ObjsSame DEF FileIn, FileMap
    <3> QED
      BY <1>2, <1>3, <3>1 DEF HaveFile
  <2> HIDE DEF ds, r
  <2>3. OwnsOf(ds, files, born, there)
    BY <1>1, <1>2, <1>5, <1>6, <1>7, <2>2, Shrinks, ZenonT(60)
  <2> QED
    BY <1>3, <2>1, <2>3 DEF Owns
<1>10. CASE {i \in FileMap(o) : files[i].path = dirs[o].arg} # {}
  <2>1. PICK i \in FileMap(o) : files[i].path = dirs[o].arg /\ Become(ds, WithoutFile(i))
    BY <1>10 DEF RemoveFile
  <2>2. i \in Tails /\ i \in File(files) /\ files[i].dir = o /\ files[i].listed
    BY <2>1, ObjsSame DEF FileMap
  <2>3. /\ WithoutFile(i) \in FileMaps /\ File(WithoutFile(i)) \subseteq File(files)
        /\ \A j \in File(WithoutFile(i)) :
              WithoutFile(i)[j].listed => /\ j # i /\ files[j].listed
                                          /\ WithoutFile(i)[j].dir = files[j].dir /\ WithoutFile(i)[j].path = files[j].path
        /\ \A j \in File(WithoutFile(i)) :
              Live(WithoutFile(i)[j]) => Live(files[j]) /\ (files[j].listed => WithoutFile(i)[j].listed)
    BY <1>1, <2>2, WithoutFileFewer
  <2>4. \A g \in Files : HaveFile(ds, WithoutFile(i), o, g) => HaveFile(dirs, files, o, g)
    <3>1. ~FileIn(WithoutFile(i), o, dirs[o].arg)
      BY <1>7, <2>1, <2>2, <2>3 DEF FileIn, OwnsOf, FilesOnce
    <3>2. \A g : FileIn(WithoutFile(i), o, g) => FileIn(files, o, g)
      BY <2>3 DEF FileIn
    <3> QED
      BY <1>2, <1>3, <3>1, <3>2 DEF HaveFile
  <2>5. ~Begun(r) => r.track \in {"select", "rmFile"}
    BY <1>2
  <2>6. Become(ds, WithoutFile(i))
    BY <2>1
  <2> HIDE DEF ds, r
  <2> QED
    BY <1>1, <1>2, <1>3, <1>5, <1>6, <2>3, <2>4, <2>5, <2>6, ShrinkStep
<1> QED
  BY <1>9, <1>10

(* RemoveDirFile keeps the second invariant.                               *)
LEMMA RemoveDirFileOwns ==
  ASSUME Inv, Owns, Inv', NEW o \in Objs, NEW i \in Tails, RemoveDirFile(o, i)
  PROVE  Owns'
<1> DEFINE r == [dirs[o] EXCEPT !.left = @ \ {i}]
           ds == [dirs EXCEPT ![o] = r]
<1>1. /\ o \in Obj(dirs) /\ dirs[o] \in DirRecs /\ o \in DirIds /\ Local(dirs[o])
      /\ dirs \in DirMaps /\ files \in FileMaps
  BY Known
<1>2. /\ r \in DirRecs /\ r.path = dirs[o].path /\ r.start = dirs[o].start /\ r.listed = dirs[o].listed
      /\ r.todo = dirs[o].todo /\ r.mu = dirs[o].mu /\ r.evq = dirs[o].evq /\ r.watching = dirs[o].watching
      /\ r.track = dirs[o].track /\ r.arg = dirs[o].arg
  BY <1>1 DEF DirRecs
<1>3. ds[o] = r /\ Obj(ds) = Obj(dirs) /\ \A p \in DirIds \ {o} : ds[p] = dirs[p]
  BY <1>1, <1>2, NoneIsNoObject DEF DirMaps, Obj
<1>4. dirs[o].track = "rmDirFiles" /\ Become(ds, WithoutFile(i)) /\ born' = born /\ there' = there
  BY DEF RemoveDirFile, fs
<1>5. Begun(r) /\ Begun(dirs[o])
  BY <1>1, <1>2, <1>4, BeganTracks DEF Begun
<1>6. /\ WithoutFile(i) \in FileMaps /\ File(WithoutFile(i)) \subseteq File(files)
      /\ \A j \in File(WithoutFile(i)) :
            WithoutFile(i)[j].listed => /\ j # i /\ files[j].listed
                                        /\ WithoutFile(i)[j].dir = files[j].dir /\ WithoutFile(i)[j].path = files[j].path
      /\ \A j \in File(WithoutFile(i)) :
            Live(WithoutFile(i)[j]) => Live(files[j]) /\ (files[j].listed => WithoutFile(i)[j].listed)
  BY <1>1, WithoutFileFewer
<1>7. \A g \in Files : HaveFile(ds, WithoutFile(i), o, g) => HaveFile(dirs, files, o, g)
  <2>1. \A g : FileIn(WithoutFile(i), o, g) => FileIn(files, o, g)
    BY <1>6 DEF FileIn
  <2> QED
    BY <1>2, <1>3, <2>1 DEF HaveFile
<1>8. \A s \in Subs : HaveSub(ds, o, s) => HaveSub(dirs, o, s)
  <2>1. \A s : SubIn(ds, s) => SubIn(dirs, s)
    BY <1>1, <1>2, <1>3 DEF SubIn, Obj
  <2>2. dirs[o].start # "newDir"
    BY <1>5 DEF Begun
  <2> QED
    BY <1>2, <1>3, <2>1, <2>2 DEF HaveSub
<1>9. r.track \notin Shut /\ dirs[o].track \notin Shut
  BY <1>2, <1>4 DEF Shut
<1>10. ds = [dirs EXCEPT ![o] = r]
  OBVIOUS
<1> HIDE DEF ds, r
<1> QED
  BY <1>2, <1>4, <1>5, <1>6, <1>7, <1>8, <1>9, <1>10, ShrinkStep

(* Without renames the second invariant speaks of files too.               *)
LEMMA FilesPart ==
  ASSUME Owns, "rename" \notin Events
  PROVE  FilesInv(dirs, files, born)
BY DEF Owns, OwnsOf

(* ReadDir keeps the second invariant: the watch was added before, and     *)
(* what it has heard of is gone (directory.go:64, 88-89, 278-283).         *)
LEMMA ReadDirOwns ==
  ASSUME Inv, Owns, there \subseteq Subs, NEW o \in Objs, ReadDir(o)
  PROVE  Owns'
<1> SUFFICES ASSUME NEW T \in {FoundIn(dirs[o].path), {}},
                    dirs' = [dirs EXCEPT ![o].start = "list", ![o].todo = T]
             PROVE  Owns'
  BY DEF ReadDir
<1> DEFINE r == [dirs[o] EXCEPT !.start = "list", !.todo = T]
           es == [dirs EXCEPT ![o] = r]
<1>0. /\ o \in Obj(dirs) /\ dirs[o] \in DirRecs /\ o \in DirIds /\ Local(dirs[o])
      /\ dirs \in DirMaps /\ files \in FileMaps
  BY Known
<1>1. dirs[o].start = "read" /\ dirs' = es /\ files' = files /\ born' = born /\ there' = there
  BY <1>0 DEF ReadDir, fs, DirMaps
<1>2. /\ T \cap Subs \subseteq there /\ (dirs[o].path # Root => T \cap Subs = {})
      /\ T \in SUBSET (Files \cup Subs)
  BY DirectoryAssumption DEF FoundIn
<1>3. /\ r \in DirRecs /\ r.start = "list" /\ r.todo = T /\ r.path = dirs[o].path
      /\ r.listed = dirs[o].listed /\ r.watching = dirs[o].watching
      /\ r.mu = dirs[o].mu /\ r.track = dirs[o].track /\ r.arg = dirs[o].arg
      /\ r.evq = dirs[o].evq
  BY <1>0, <1>2 DEF DirRecs
<1>4. es[o] = r /\ Obj(es) = Obj(dirs) /\ \A p \in DirIds \ {o} : es[p] = dirs[p]
  BY <1>0, <1>3, NoneIsNoObject DEF DirMaps, Obj
<1> HIDE DEF es, r
<1>5. ReadingOK(dirs, files, there, o)
  BY <1>0, <1>1 DEF Owns, OwnsOf, Reads, Begun
<1>6. /\ \A p \in Obj(dirs) : /\ es[p].path = dirs[p].path /\ es[p].listed = dirs[p].listed
                              /\ es[p].mu = dirs[p].mu /\ es[p].track = dirs[p].track
                              /\ es[p].arg = dirs[p].arg /\ es[p].evq = dirs[p].evq
                              /\ es[p].watching = dirs[p].watching
      /\ \A p \in Obj(dirs) : es[p].start = "newDir" => dirs[p].start = "newDir" /\ dirs[p].mu \in Obj(dirs)
  BY <1>0, <1>3, <1>4, Known, ObjsSame DEF Obj, Inv, InvOf, DirInv, Local, Holding, Held
<1>7. \A s : SubIn(es, s) => SubIn(dirs, s)
  BY <1>4, <1>6 DEF SubIn
<1>8. Reads(es, files, there)
  <2> SUFFICES ASSUME NEW p \in Obj(es), ~Begun(es[p]) PROVE ReadingOK(es, files, there, p)
    BY DEF Reads
  <2>1. CASE p = o
    BY <1>2, <1>3, <1>4, <1>5, <1>7, <1>1, <2>1, DirectoryAssumption DEF ReadingOK
  <2>2. CASE p # o
    <3>1. es[p] = dirs[p] /\ p \in Obj(dirs)
      BY <1>4, <2>2 DEF Obj
    <3>2. ReadingOK(dirs, files, there, p)
      BY <3>1 DEF Owns, OwnsOf, Reads
    <3>3. es[p].start = "newDir" => es[es[p].mu].path = dirs[dirs[p].mu].path
      BY <1>6, <3>1
    <3> QED
      BY <1>7, <3>1, <3>2, <3>3 DEF ReadingOK
  <2> QED
    BY <2>1, <2>2
<1>9. ASSUME NEW p \in Obj(es)
      PROVE  /\ \A s \in Subs : HaveSub(es, p, s) => HaveSub(dirs, p, s)
             /\ \A f \in Files : HaveFile(es, files, p, f) => HaveFile(dirs, files, p, f)
  <2>1. \A s : es[p].start = "newDir" /\ es[es[p].mu].path = s => dirs[p].start = "newDir" /\ dirs[dirs[p].mu].path = s
    BY <1>4, <1>6
  <2>2. es[p].track = dirs[p].track /\ es[p].arg = dirs[p].arg
    BY <1>4, <1>6
  <2>3. \A s \in Subs : HaveSub(es, p, s) => HaveSub(dirs, p, s)
    BY <1>7, <2>1, <2>2 DEF HaveSub
  <2> QED
    BY <2>2, <2>3 DEF HaveFile
<1>10. SubsInv(es, there)
  <2>1. \A p \in Obj(es) : /\ es[p].start = "newDir" => dirs[p].start = "newDir" /\ es[es[p].mu].path = dirs[dirs[p].mu].path
                           /\ es[p].track \in {"addDir", "newDir"} =>
                                 dirs[p].track \in {"addDir", "newDir"} /\ es[p].arg = dirs[p].arg
    BY <1>4, <1>6
  <2>2. \A p \in Obj(es) : es[p].path = Root /\ es[p].track \notin Shut =>
            /\ es[p].evq = dirs[p].evq /\ (dirs[p].watching = es[p].watching)
            /\ \A s \in Subs : HaveSub(es, p, s) => HaveSub(dirs, p, s)
    BY <1>4, <1>6, <1>9
  <2>3. Obj(es) \subseteq Obj(dirs) /\ SubsInv(dirs, there) /\ there \subseteq there
    BY <1>4 DEF OwnsOf, Owns
  <2>4. \A p \in Obj(es) : es[p].path = dirs[p].path /\ (es[p].listed => dirs[p].listed)
    BY <1>4, <1>6
  <2>5. \A p \in Obj(es) : dirs[p].track \in Shut => es[p].track \in Shut
    BY <1>4, <1>6
  <2>6. Tending(es)
    BY <1>4, <1>6 DEF Owns, OwnsOf, SubsInv, Tending
  <2> QED
    BY ONLY <2>1, <2>2, <2>3, <2>4, <2>5, <2>6, SubsShrink
<1>11. ASSUME "rename" \notin Events PROVE FilesInv(es, files, born)
  <2>1. FilesInv(dirs, files, born)
    BY <1>11 DEF OwnsOf, Owns
  <2>2. \A p \in Obj(es) : es[p].track = "addFile" => dirs[p].track = "addFile" /\ es[p].arg = dirs[p].arg
    BY <1>4, <1>6
  <2>3. \A p \in Obj(es) : es[p].track \notin Shut =>
            /\ dirs[p].track \notin Shut
            /\ es[p].evq = dirs[p].evq /\ (es[p].watching => dirs[p].watching)
            /\ \A f \in Files : HaveFile(es, files, p, f) => HaveFile(dirs, files, p, f)
    BY <1>4, <1>6, <1>9
  <2>4. \A p \in Obj(es) : es[p].path = dirs[p].path
    BY <1>4, <1>6
  <2>5. Obj(es) \subseteq Obj(dirs) /\ File(files) \subseteq File(files) /\ \A f \in Files : born[f] # 0 => born[f] # 0
    BY <1>4
  <2> QED
    BY ONLY <2>1, <2>2, <2>3, <2>4, <2>5, FilesShrink
<1> QED
  BY <1>1, <1>8, <1>10, <1>11 DEF Owns, OwnsOf

(* What an event makes track do next.                                      *)
LEMMA WantedFacts ==
  ASSUME Inv, NEW o \in Objs, NEW e \in EventRecs, e.name \in Names(dirs[o].path)
  PROVE  /\ Wanted(o, e) \in {"select", "addFile", "rmFile", "addDir", "rmDir"}
         /\ Wanted(o, e) = "addFile" => e.op = "create" /\ e.name \in Files
         /\ Wanted(o, e) = "addDir" => e.op = "create" /\ e.name \in Subs
         /\ Wanted(o, e) = "rmFile" => e.op = "remove"
         /\ Wanted(o, e) = "rmDir" => e.op = "remove" /\ e.name \in Subs
         /\ e.op = "remove" /\ e.name \in Files /\ FileIn(files, o, e.name) => Wanted(o, e) = "rmFile"
         /\ e.op = "remove" /\ e.name \in Subs /\ SubIn(dirs, e.name) => Wanted(o, e) = "rmDir"
<1>0. /\ o \in Obj(dirs) /\ dirs[o] \in DirRecs /\ dirs \in DirMaps /\ files \in FileMaps
  BY Known
<1>1. e.op \in {"create", "remove"} /\ e.name \in Files \cup Subs
  BY DEF EventRecs
<1>2. \A i \in FileMap(o) : files[i].path \in Files
  BY <1>0 DEF FileMap, Tails, FileMaps, FileRecs
<1>3. \A c \in DirMap(o) : dirs[c].path \in Subs
  BY <1>0 DEF DirMap, Objs, DirMaps, DirRecs
<1>4. CASE e.op = "create" /\ e.name \in Files
  BY <1>4, DirectoryAssumption DEF Wanted
<1>5. CASE e.op = "create" /\ e.name \in Subs
  BY <1>5, DirectoryAssumption DEF Wanted
<1>6. CASE e.op = "remove"
  <2>1. Wanted(o, e) = IF \E i \in FileMap(o) : files[i].path = e.name THEN "rmFile"
         ELSE IF \E c \in DirMap(o) : dirs[c].path = e.name THEN "rmDir" ELSE "select"
    BY <1>6 DEF Wanted
  <2>2. FileIn(files, o, e.name) => \E i \in FileMap(o) : files[i].path = e.name
    BY ObjsSame DEF FileIn, FileMap
  <2>3. e.name \in Subs => ~(\E i \in FileMap(o) : files[i].path = e.name) /\ dirs[o].path = Root
    BY <1>2, DirectoryAssumption DEF Names
  <2>4. e.name \in Subs /\ SubIn(dirs, e.name) => \E c \in DirMap(o) : dirs[c].path = e.name
    BY <2>3, ObjsSame, DirectoryAssumption DEF SubIn, DirMap
  <2> QED
    BY <1>3, <1>6, <2>1, <2>2, <2>3, <2>4
<1> QED
  BY <1>1, <1>4, <1>5, <1>6

(* TakeEvent keeps the second invariant (directory.go:305-335).            *)
LEMMA TakeEventOwns ==
  ASSUME Inv, Owns, NEW o \in Objs, TakeEvent(o)
  PROVE  Owns'
<1> DEFINE e == Head(dirs[o].evq)
           q == Tail(dirs[o].evq)
           pc == Wanted(o, e)
           a == IF pc = "select" THEN None ELSE e.name
           r == [dirs[o] EXCEPT !.evq = q, !.track = pc, !.arg = a]
           es == [dirs EXCEPT ![o] = r]
<1>0. /\ o \in Obj(dirs) /\ dirs[o] \in DirRecs /\ o \in DirIds /\ Local(dirs[o])
      /\ dirs \in DirMaps /\ files \in FileMaps
  BY Known
<1>1. /\ dirs[o].track = "select" /\ dirs[o].evq # <<>> /\ dirs' = es
      /\ files' = files /\ born' = born /\ there' = there
  BY <1>0 DEF TakeEvent, fs, DirMaps, DirRecs
<1>2. dirs[o].evq \in Seq(EventRecs) /\ q \in Seq(EventRecs) /\ e \in EventRecs /\ e = dirs[o].evq[1] /\ 1 \in DOMAIN dirs[o].evq
  BY <1>0, <1>1 DEF DirRecs
<1>3. e.name \in Names(dirs[o].path) /\ e.op \in {"create", "remove"} /\ e.name \in Files \cup Subs
  BY <1>0, <1>2 DEF Local, EventRecs
<1>4. /\ pc \in {"select", "addFile", "rmFile", "addDir", "rmDir"}
      /\ pc = "addFile" => e.op = "create" /\ e.name \in Files
      /\ pc = "addDir" => e.op = "create" /\ e.name \in Subs
      /\ pc = "rmFile" => e.op = "remove"
      /\ pc = "rmDir" => e.op = "remove" /\ e.name \in Subs
      /\ e.op = "remove" /\ e.name \in Files /\ FileIn(files, o, e.name) => pc = "rmFile"
      /\ e.op = "remove" /\ e.name \in Subs /\ SubIn(dirs, e.name) => pc = "rmDir"
  BY <1>2, <1>3, WantedFacts
<1>5. a \in Files \cup Subs \cup FileIds \cup {None} /\ (pc # "select" => a = e.name)
  BY <1>3
<1>51. \A n, had, p : Alternates(dirs[o].evq, n, had, p) =>
         /\ e.op = "create" /\ e.name = n => ~had /\ Alternates(q, n, TRUE, p)
         /\ e.op = "remove" /\ e.name = n => Alternates(q, n, FALSE, p)
         /\ e.name # n => Alternates(q, n, had, p)
  BY <1>1, <1>2, TakeOne
<1>52. OnlyLosses(dirs[o].evq) => OnlyLosses(q) /\ e.op = "remove" /\ e.name \in Files
  <2> SUFFICES ASSUME OnlyLosses(dirs[o].evq) PROVE OnlyLosses(q) /\ e.op = "remove" /\ e.name \in Files
    OBVIOUS
  <2>1. \A k \in DOMAIN q : k + 1 \in DOMAIN dirs[o].evq /\ q[k] = dirs[o].evq[k + 1]
    BY <1>1, <1>2
  <2> QED
    BY <1>2, <2>1 DEF OnlyLosses
<1> HIDE DEF e, pc, a, q
<1>6. /\ r \in DirRecs /\ r.start = dirs[o].start /\ r.todo = dirs[o].todo /\ r.path = dirs[o].path
      /\ r.listed = dirs[o].listed /\ r.watching = dirs[o].watching
      /\ r.mu = dirs[o].mu /\ r.track = pc /\ r.arg = a /\ r.left = dirs[o].left
      /\ r.evq = q
  BY <1>0, <1>2, <1>4, <1>5, ZenonT(60) DEF DirRecs
<1>7. es[o] = r /\ Obj(es) = Obj(dirs) /\ \A p \in DirIds \ {o} : es[p] = dirs[p]
  BY <1>0, <1>6, NoneIsNoObject DEF DirMaps, Obj
<1> HIDE DEF es, r
<1>8. \A p \in Obj(dirs) : /\ es[p].path = dirs[p].path /\ es[p].listed = dirs[p].listed
                           /\ es[p].mu = dirs[p].mu /\ es[p].start = dirs[p].start
                           /\ es[p].todo = dirs[p].todo
                           /\ es[p].watching = dirs[p].watching
                           /\ Begun(es[p]) = Begun(dirs[p])
                           /\ es[p].track \in Shut <=> dirs[p].track \in Shut
                           /\ es[p].start = "newDir" => dirs[p].mu \in Obj(dirs)
  <2> SUFFICES ASSUME NEW p \in Obj(dirs) PROVE
                           /\ es[p].path = dirs[p].path /\ es[p].listed = dirs[p].listed
                           /\ es[p].mu = dirs[p].mu /\ es[p].start = dirs[p].start
                           /\ es[p].todo = dirs[p].todo
                           /\ es[p].watching = dirs[p].watching
                           /\ Begun(es[p]) = Begun(dirs[p])
                           /\ es[p].track \in Shut <=> dirs[p].track \in Shut
                           /\ es[p].start = "newDir" => dirs[p].mu \in Obj(dirs)
    OBVIOUS
  <2>1. CASE p = o
    BY <1>0, <1>1, <1>4, <1>6, <1>7, <2>1 DEF Begun, Shut, Inv, InvOf, DirInv, Local, Holding, Held
  <2>2. CASE p # o
    <3>1. es[p] = dirs[p]
      BY <1>7, <2>2 DEF Obj
    <3>2. p \in Objs
      BY ObjsSame
    <3>3. es[p].start = "newDir" => dirs[p].mu \in Obj(dirs)
      BY <3>1, <3>2, Known DEF Inv, InvOf, DirInv, Local, Holding, Held
    <3> QED
      BY <3>1, <3>3
  <2> QED
    BY <2>1, <2>2
<1>9. \A s : SubIn(es, s) <=> SubIn(dirs, s)
  BY <1>7, <1>8 DEF SubIn
<1>10. \A p \in Obj(dirs) : es[p].start = "newDir" => es[es[p].mu].path = dirs[dirs[p].mu].path
  BY <1>8
<1>11. Reads(es, files, there)
  <2> SUFFICES ASSUME NEW p \in Obj(dirs), ~Begun(es[p]) PROVE ReadingOK(es, files, there, p)
    BY <1>7 DEF Reads
  <2>1. ReadingOK(dirs, files, there, p)
    BY <1>8 DEF Owns, OwnsOf, Reads
  <2>2. OnlyLosses(es[p].evq) /\ es[p].track \in {"select", "rmFile"}
    <3>1. CASE p = o
      BY <1>4, <1>6, <1>7, <1>52, <2>1, <3>1, DirectoryAssumption DEF ReadingOK
    <3>2. CASE p # o
      BY <1>7, <2>1, <3>2 DEF ReadingOK, Obj
    <3> QED
      BY <3>1, <3>2
  <2> QED
    BY <1>8, <1>9, <1>10, <2>1, <2>2 DEF ReadingOK
<1>12. dirs[o].track \notin Shut /\ es[o].track \notin Shut
  BY <1>0, <1>1, <1>8 DEF Shut
<1>13. ASSUME dirs[o].path = Root, NEW s \in Subs
       PROVE  Alternates(dirs[o].evq, s, HaveSub(dirs, o, s), s \in there \/ ~dirs[o].watching)
  BY <1>0, <1>12, <1>13 DEF Owns, OwnsOf, SubsInv, SubsAlternate
<1>14. SubsInv(es, there)
  <2>1. SubsOnce(es)
    BY <1>7, <1>8 DEF Owns, OwnsOf, SubsInv, SubsOnce
  <2>2. Tending(es)
    BY <1>7, <1>8 DEF Owns, OwnsOf, SubsInv, Tending
  <2>3. SubsNew(es)
    <3> SUFFICES ASSUME NEW p \in Obj(dirs)
                 PROVE  /\ es[p].track \in {"addDir", "newDir"} => ~SubIn(es, es[p].arg)
                        /\ es[p].start = "newDir" => ~SubIn(es, es[es[p].mu].path)
      BY <1>7 DEF SubsNew
    <3>1. es[p].start = "newDir" => ~SubIn(es, es[es[p].mu].path)
      BY <1>8, <1>9, <1>10 DEF Owns, OwnsOf, SubsInv, SubsNew
    <3>2. CASE p # o
      BY <1>7, <1>9, <3>1, <3>2 DEF Owns, OwnsOf, SubsInv, SubsNew, Obj
    <3>3. CASE p = o
      <4>1. ASSUME pc = "addDir" PROVE ~SubIn(dirs, e.name)
        <5>1. e.op = "create" /\ e.name \in Subs /\ dirs[o].path = Root
          BY <1>3, <1>4, <4>1, DirectoryAssumption DEF Names
        <5>2. ~HaveSub(dirs, o, e.name)
          BY <1>13, <1>51, <5>1
        <5> QED
          BY <1>1, <5>2 DEF HaveSub
      <4> QED
        BY <1>4, <1>5, <1>6, <1>7, <1>9, <3>1, <3>3, <4>1
    <3> QED
      BY <3>2, <3>3
  <2>4. SubsAlternate(es, there)
    <3> SUFFICES ASSUME NEW p \in Obj(dirs), es[p].path = Root, es[p].track \notin Shut, NEW s \in Subs
                 PROVE  Alternates(es[p].evq, s, HaveSub(es, p, s), s \in there \/ ~es[p].watching)
      BY <1>7 DEF SubsAlternate
    <3>1. CASE p # o
      <4>1. es[p] = dirs[p]
        BY <1>7, <3>1 DEF Obj
      <4>2. Alternates(dirs[p].evq, s, HaveSub(dirs, p, s), s \in there \/ ~dirs[p].watching)
        BY <4>1 DEF Owns, OwnsOf, SubsInv, SubsAlternate
      <4>3. \A x : es[p].start = "newDir" /\ es[es[p].mu].path = x => dirs[p].start = "newDir" /\ dirs[dirs[p].mu].path = x
        BY <1>10, <4>1
      <4>4. HaveSub(es, p, s) => HaveSub(dirs, p, s)
        BY <1>9, <4>1, <4>3 DEF HaveSub
      <4> QED
        BY <4>1, <4>2, <4>4, Weaker
    <3>2. CASE p = o
      <4>0. dirs[o].path = Root
        BY <1>8, <3>2
      <4>1. Alternates(dirs[o].evq, s, HaveSub(dirs, o, s), s \in there \/ ~dirs[o].watching)
        BY <1>13, <4>0
      <4>2. es[o].evq = q /\ es[o].watching = dirs[o].watching /\ es[o].track = pc /\ es[o].arg = a
        BY <1>6, <1>7
      <4>3. \A x : es[o].start = "newDir" /\ es[es[o].mu].path = x => dirs[o].start = "newDir" /\ dirs[dirs[o].mu].path = x
        BY <1>0, <1>8, <1>10
      <4>4. CASE e.op = "create" /\ e.name = s
        <5>1. Alternates(q, s, TRUE, s \in there \/ ~dirs[o].watching)
          BY <1>51, <4>1, <4>4
        <5> QED
          BY <3>2, <4>2, <5>1, Weaker
      <4>5. CASE e.op = "remove" /\ e.name = s
        <5>1. Alternates(q, s, FALSE, s \in there \/ ~dirs[o].watching)
          BY <1>51, <4>1, <4>5
        <5>2. dirs[o].start # "newDir"
          <6>1. Begun(dirs[o])
            BY <1>0, <1>52, <4>5, DirectoryAssumption DEF Owns, OwnsOf, Reads, ReadingOK
          <6> QED
            BY <6>1 DEF Begun
        <5>3. ~HaveSub(es, o, s)
          BY <1>4, <1>5, <1>9, <4>2, <4>3, <4>5, <5>2 DEF HaveSub
        <5> QED
          BY <3>2, <4>2, <5>1, <5>3, Weaker
      <4>6. CASE e.name # s
        <5>1. Alternates(q, s, HaveSub(dirs, o, s), s \in there \/ ~dirs[o].watching)
          BY <1>51, <4>1, <4>6
        <5>2. HaveSub(es, o, s) => HaveSub(dirs, o, s)
          BY <1>1, <1>4, <1>5, <1>9, <4>2, <4>3, <4>6 DEF HaveSub
        <5> QED
          BY <3>2, <4>2, <5>1, <5>2, Weaker
      <4> QED
        BY <1>3, <4>4, <4>5, <4>6
    <3> QED
      BY <3>1, <3>2
  <2> QED
    BY <2>1, <2>2, <2>3, <2>4 DEF SubsInv
<1>15. ASSUME "rename" \notin Events PROVE FilesInv(es, files, born)
  <2>0. FilesInv(dirs, files, born)
    BY <1>15, FilesPart
  <2>1. ASSUME NEW f \in Files, In[f] = dirs[o].path
        PROVE  Alternates(dirs[o].evq, f, HaveFile(dirs, files, o, f), born[f] # 0 \/ ~dirs[o].watching)
    BY <1>0, <1>12, <2>0, <2>1 DEF FilesInv, FilesAlternate
  <2>2. FilesNew(es, files)
    <3> SUFFICES ASSUME NEW p \in Obj(dirs), es[p].track = "addFile" PROVE ~FileIn(files, p, es[p].arg)
      BY <1>7 DEF FilesNew
    <3>1. CASE p # o
      BY <1>7, <2>0, <3>1 DEF FilesInv, FilesNew, Obj
    <3>2. CASE p = o
      <4>1. pc = "addFile" /\ es[o].arg = e.name /\ e.op = "create" /\ e.name \in Files /\ In[e.name] = dirs[o].path
        BY <1>3, <1>4, <1>5, <1>6, <1>7, <3>2, DirectoryAssumption DEF Names
      <4>2. ~HaveFile(dirs, files, o, e.name)
        BY <1>51, <2>1, <4>1
      <4> QED
        BY <1>1, <3>2, <4>1, <4>2 DEF HaveFile
    <3> QED
      BY <3>1, <3>2
  <2>3. FilesAlternate(es, files, born)
    <3> SUFFICES ASSUME NEW p \in Obj(dirs), es[p].track \notin Shut, NEW f \in Files, In[f] = es[p].path
                 PROVE  Alternates(es[p].evq, f, HaveFile(es, files, p, f), born[f] # 0 \/ ~es[p].watching)
      BY <1>7 DEF FilesAlternate
    <3>1. CASE p # o
      <4>1. es[p] = dirs[p]
        BY <1>7, <3>1 DEF Obj
      <4>2. Alternates(dirs[p].evq, f, HaveFile(dirs, files, p, f), born[f] # 0 \/ ~dirs[p].watching)
        BY <2>0, <4>1 DEF FilesInv, FilesAlternate
      <4>3. HaveFile(es, files, p, f) => HaveFile(dirs, files, p, f)
        BY <4>1 DEF HaveFile
      <4> QED
        BY <4>1, <4>2, <4>3, Weaker
    <3>2. CASE p = o
      <4>1. Alternates(dirs[o].evq, f, HaveFile(dirs, files, o, f), born[f] # 0 \/ ~dirs[o].watching)
        BY <1>8, <2>1, <3>2
      <4>2. es[o].evq = q /\ es[o].watching = dirs[o].watching /\ es[o].track = pc /\ es[o].arg = a
        BY <1>6, <1>7
      <4>4. CASE e.op = "create" /\ e.name = f
        <5>1. Alternates(q, f, TRUE, born[f] # 0 \/ ~dirs[o].watching)
          BY <1>51, <4>1, <4>4
        <5> QED
          BY <3>2, <4>2, <5>1, Weaker
      <4>5. CASE e.op = "remove" /\ e.name = f
        <5>1. Alternates(q, f, FALSE, born[f] # 0 \/ ~dirs[o].watching)
          BY <1>51, <4>1, <4>5
        <5>3. ~HaveFile(es, files, o, f)
          BY <1>4, <1>5, <4>2, <4>5 DEF HaveFile
        <5> QED
          BY <3>2, <4>2, <5>1, <5>3, Weaker
      <4>6. CASE e.name # f
        <5>1. Alternates(q, f, HaveFile(dirs, files, o, f), born[f] # 0 \/ ~dirs[o].watching)
          BY <1>51, <4>1, <4>6
        <5>2. HaveFile(es, files, o, f) => HaveFile(dirs, files, o, f)
          BY <1>1, <1>4, <1>5, <4>2, <4>6 DEF HaveFile
        <5> QED
          BY <3>2, <4>2, <5>1, <5>2, Weaker
      <4> QED
        BY <1>3, <4>4, <4>5, <4>6
    <3> QED
      BY <3>1, <3>2
  <2> QED
    BY <2>0, <2>2, <2>3 DEF FilesInv
<1> QED
  BY <1>1, <1>11, <1>14, <1>15 DEF Owns, OwnsOf

(* An object whose track closes, or has returned, says nothing about names *)
(* any more.                                                               *)
LEMMA ShutShrinks ==
  ASSUME Inv, Owns, NEW o \in Objs, Begun(dirs[o]), NEW r \in DirRecs, NEW es, es = [dirs EXCEPT ![o] = r],
         r.path = dirs[o].path, r.start = dirs[o].start, r.listed = dirs[o].listed,
         r.todo = dirs[o].todo, r.mu = dirs[o].mu, r.track \in Shut
  PROVE  OwnsOf(es, files, born, there)
<1>1. o \in Obj(dirs)
  BY ObjsSame
<1>2. InvOf(dirs, files, day, stopped, Ours) /\ OwnsOf(dirs, files, born, there)
  BY DEF Inv, Owns
<1>3. Begun(r) /\ r.track \notin {"addFile", "addDir", "newDir"}
  BY DEF Begun, Shut
<1> QED
  BY <1>1, <1>2, <1>3, Shrinks

(* The track of c takes the request to close.                              *)
LEMMA ClosingOwns ==
  ASSUME Inv, Owns, NEW o \in Objs, Begun(dirs[o])
  PROVE  OwnsOf(Closing(dirs, o), files, born, there)
<1> DEFINE r == [dirs[o] EXCEPT !.track = "closing", !.left = FileMap(o)]
<1>0. /\ o \in Obj(dirs) /\ dirs[o] \in DirRecs /\ o \in DirIds /\ dirs \in DirMaps
  BY Known
<1>1. FileMap(o) \in SUBSET FileIds
  BY DEF FileMap, Tails
<1>2. /\ r \in DirRecs /\ r.start = dirs[o].start /\ r.todo = dirs[o].todo /\ r.path = dirs[o].path
      /\ r.listed = dirs[o].listed /\ r.mu = dirs[o].mu /\ r.track = "closing"
  BY <1>0, <1>1 DEF DirRecs
<1>3. Closing(dirs, o) = [dirs EXCEPT ![o] = r]
  BY <1>0 DEF DirMaps, DirRecs, Closing
<1>4. r.track \in Shut
  BY <1>2 DEF Shut
<1> HIDE DEF r
<1> QED
  BY <1>2, <1>3, <1>4, ShutShrinks

(* TakeStop keeps the second invariant.                                    *)
LEMMA TakeStopOwns ==
  ASSUME Inv, Owns, NEW o \in Objs, TakeStop(o)
  PROVE  Owns'
<1>1. Begun(dirs[o])
  BY ObjsSame DEF TakeStop, Inv, InvOf, DirInv, Stops
<1> QED
  BY <1>1, ClosingOwns DEF TakeStop, fs, Owns

(* CloseDir keeps the second invariant.                                    *)
LEMMA CloseDirOwns ==
  ASSUME Inv, Owns, NEW o \in Objs, NEW c, CloseDir(o, c)
  PROVE  Owns'
<1>1. c \in Objs /\ dirs[c].path # Root /\ dirs[c].listed
  BY DEF CloseDir, DirMap
<1>2. Begun(dirs[c])
  BY <1>1, Known DEF Local
<1> QED
  BY <1>1, <1>2, ClosingOwns DEF CloseDir, fs, Owns

(* A directory is told to close only once its start is over.               *)
LEMMA ShutBegun ==
  ASSUME Inv, NEW o \in Objs, dirs[o].track \in Shut
  PROVE  Begun(dirs[o])
BY Known DEF Local

(* CloseFile keeps the second invariant.                                   *)
LEMMA CloseFileOwns ==
  ASSUME Inv, Owns, NEW o \in Objs, NEW i \in Tails, CloseFile(o, i)
  PROVE  Owns'
<1> DEFINE lf == dirs[o].left \ {i}
           r == [dirs[o] EXCEPT !.track = "closeFile", !.arg = i, !.left = lf]
<1>0. /\ o \in Obj(dirs) /\ dirs[o] \in DirRecs /\ o \in DirIds /\ dirs \in DirMaps
  BY Known
<1>1. i \in FileIds /\ dirs[o].track = "closing" /\ born' = born /\ there' = there /\ files' = files
  BY DEF CloseFile, FileMap, Tails, fs
<1>2. /\ r \in DirRecs /\ r.start = dirs[o].start /\ r.todo = dirs[o].todo /\ r.path = dirs[o].path
      /\ r.listed = dirs[o].listed /\ r.mu = dirs[o].mu /\ r.track = "closeFile"
  BY <1>0, <1>1 DEF DirRecs
<1>3. dirs' = [dirs EXCEPT ![o] = r]
  BY <1>0 DEF DirMaps, DirRecs, CloseFile, Track
<1>4. r.track \in Shut /\ Begun(dirs[o])
  BY <1>1, <1>2, ShutBegun DEF Shut
<1> HIDE DEF r
<1>5. OwnsOf([dirs EXCEPT ![o] = r], files, born, there)
  BY <1>2, <1>4, ShutShrinks
<1> QED
  BY <1>1, <1>3, <1>5 DEF Owns

(* FileClosed keeps the second invariant.                                  *)
LEMMA FileClosedOwns ==
  ASSUME Inv, Owns, Inv', NEW o \in Objs, FileClosed(o)
  PROVE  Owns'
<1> DEFINE i == dirs[o].arg
           gl == [files EXCEPT ![i].tail = "dead"]
           r == [dirs[o] EXCEPT !.track = "closing", !.arg = None]
           es == [dirs EXCEPT ![o] = r]
<1>0. /\ o \in Obj(dirs) /\ dirs[o] \in DirRecs /\ o \in DirIds /\ dirs \in DirMaps /\ files \in FileMaps
  BY Known
<1>1. dirs[o].track = "closeFile" /\ born' = born /\ there' = there
  BY DEF FileClosed, fs
<1>2. i \in Tails
  BY <1>0, <1>1, ObjsSame DEF Inv, InvOf, FileInv, Closers
<1>3. /\ r \in DirRecs /\ r.start = dirs[o].start /\ r.todo = dirs[o].todo /\ r.path = dirs[o].path
      /\ r.listed = dirs[o].listed /\ r.mu = dirs[o].mu /\ r.track = "closing"
  BY <1>0 DEF DirRecs
<1>4. Become(es, gl)
  <2>1. Track(o, "closing", None) = es
    BY <1>0 DEF Track, DirMaps
  <2> QED
    BY <2>1 DEF FileClosed
<1>5. r.track \in Shut /\ Begun(dirs[o])
  BY <1>1, <1>3, ShutBegun DEF Shut
<1>6. /\ gl \in FileMaps /\ File(gl) \subseteq File(files)
      /\ \A j \in File(gl) : gl[j].listed => files[j].listed /\ gl[j].dir = files[j].dir /\ gl[j].path = files[j].path
      /\ \A j \in File(gl) : Live(gl[j]) => Live(files[j]) /\ (files[j].listed => gl[j].listed)
  BY <1>0, <1>2, DeadFewer
<1>7. es = [dirs EXCEPT ![o] = r] /\ r.track \notin {"addFile", "addDir", "newDir"} /\ Begun(r)
  BY <1>3, <1>5 DEF Begun
<1> HIDE DEF r, es, gl, i
<1> QED
  BY <1>1, <1>3, <1>4, <1>5, <1>6, <1>7, ShrinkStep

(* TrackEnd keeps the second invariant.                                    *)
LEMMA TrackEndOwns ==
  ASSUME Inv, Owns, Inv', NEW o \in Objs, TrackEnd(o)
  PROVE  Owns'
<1> DEFINE r == [dirs[o] EXCEPT !.track = "end", !.arg = None, !.watching = FALSE, !.evq = <<>>, !.left = {}]
           es == [dirs EXCEPT ![o] = r]
<1>0. /\ o \in Obj(dirs) /\ dirs[o] \in DirRecs /\ o \in DirIds /\ dirs \in DirMaps /\ files \in FileMaps
  BY Known
<1>1. dirs[o].track = "closing" /\ born' = born /\ there' = there
  BY DEF TrackEnd, FilesClosed, fs
<1>3. /\ r \in DirRecs /\ r.start = dirs[o].start /\ r.todo = dirs[o].todo /\ r.path = dirs[o].path
      /\ r.listed = dirs[o].listed /\ r.mu = dirs[o].mu /\ r.track = "end"
  <2>1. <<>> \in Seq(EventRecs)
    OBVIOUS
  <2> QED
    BY <1>0, <2>1 DEF DirRecs
<1>4. Become(es, files)
  <2>1. [Track(o, "end", None) EXCEPT ![o].watching = FALSE, ![o].evq = <<>>, ![o].left = {}] = es
    BY <1>0 DEF Track, DirMaps, DirRecs
  <2> QED
    BY <2>1 DEF TrackEnd
<1>5. r.track \in Shut /\ Begun(dirs[o]) /\ dirs[o].track \in Shut
  BY <1>1, <1>3, ShutBegun DEF Shut
<1>7. es = [dirs EXCEPT ![o] = r] /\ r.track \notin {"addFile", "addDir", "newDir"} /\ Begun(r)
  BY <1>3, <1>5 DEF Begun
<1> HIDE DEF r, es
<1> QED
  BY <1>0, <1>1, <1>3, <1>4, <1>5, <1>7, ShrinkStep

(* RemoveDir keeps the second invariant.                                   *)
LEMMA RemoveDirOwns ==
  ASSUME Inv, Owns, NEW o \in Objs, NEW c, RemoveDir(o, c)
  PROVE  Owns'
<1> DEFINE r == [dirs[o] EXCEPT !.track = "rmDirFiles", !.mu = c, !.left = FileMap(c)]
           es == [dirs EXCEPT ![o] = r]
<1>0. /\ o \in Obj(dirs) /\ dirs[o] \in DirRecs /\ o \in DirIds /\ dirs \in DirMaps
  BY Known
<1>1. /\ dirs[o].track = "rmDir" /\ dirs[o].mu = None /\ c \in DirIds /\ FileMap(c) \in SUBSET FileIds
      /\ born' = born /\ there' = there /\ files' = files
  BY DEF RemoveDir, Unlocked, DirMap, Objs, FileMap, Tails, fs
<1>2. /\ r \in DirRecs /\ r.start = dirs[o].start /\ r.todo = dirs[o].todo /\ r.path = dirs[o].path
      /\ r.listed = dirs[o].listed /\ r.watching = dirs[o].watching /\ r.evq = dirs[o].evq
      /\ r.mu = c /\ r.track = "rmDirFiles" /\ r.arg = dirs[o].arg
  BY <1>0, <1>1 DEF DirRecs
<1>3. dirs' = es
  BY <1>0 DEF DirMaps, DirRecs, RemoveDir, Track
<1>4. Begun(dirs[o]) /\ Begun(r)
  BY <1>0, <1>1, <1>2, BeganTracks DEF Begun
<1>5. es[o] = r /\ Obj(es) = Obj(dirs) /\ \A p \in DirIds \ {o} : es[p] = dirs[p]
  BY <1>0, <1>2, NoneIsNoObject DEF DirMaps, Obj
<1>6. \A f \in Files : HaveFile(es, files, o, f) => HaveFile(dirs, files, o, f)
  BY <1>1, <1>2, <1>5 DEF HaveFile
<1>7. \A s \in Subs : HaveSub(es, o, s) => HaveSub(dirs, o, s)
  <2>1. \A s : SubIn(es, s) => SubIn(dirs, s)
    BY <1>0, <1>2, <1>5 DEF SubIn, Obj
  <2>2. dirs[o].start # "newDir"
    BY <1>4 DEF Begun
  <2> QED
    BY <1>1, <1>2, <1>5, <2>1, <2>2 DEF HaveSub
<1>8. r.track \notin Shut /\ dirs[o].track \notin Shut /\ r.start # "newDir" /\ r.track \notin {"addFile", "addDir", "newDir"}
  BY <1>1, <1>2, <1>4 DEF Shut, Begun
<1>9. InvOf(dirs, files, day, stopped, Ours) /\ OwnsOf(dirs, files, born, there) /\ es = [dirs EXCEPT ![o] = r]
  BY DEF Inv, Owns
<1> HIDE DEF es, r
<1>10. OwnsOf(es, files, born, there)
  BY <1>0, <1>1, <1>2, <1>4, <1>6, <1>7, <1>8, <1>9, Shrinks
<1> QED
  BY <1>1, <1>3, <1>10 DEF Owns

(* Only the object of the rule's directory holds a mutex across steps.     *)
LEMMA OnlyRootHolds ==
  ASSUME Inv, NEW o \in Obj(dirs), dirs[o].path = Root, NEW p \in Obj(dirs), p # o
  PROVE  /\ dirs[p].path # Root /\ dirs[p].mu = None /\ dirs[p].start # "newDir"
         /\ dirs[p].track \notin OfDir /\ dirs[p].todo \cap Subs = {}
<1>1. dirs[p].path # Root /\ Local(dirs[p])
  BY DEF Inv, InvOf, DirInv, Locals, OneRoot
<1> QED
  BY <1>1, DirectoryAssumption DEF Local, Names

(* DirRemoved keeps the second invariant: the removed subdirectory's track *)
(* has been told to close before its map entry goes                        *)
(* (directory.go:154-166).                                                 *)
LEMMA DirRemovedOwns ==
  ASSUME Inv, Owns, NEW o \in Objs, DirRemoved(o)
  PROVE  Owns'
<1> DEFINE c == dirs[o].mu
<1>0. /\ o \in Obj(dirs) /\ dirs[o] \in DirRecs /\ o \in DirIds /\ Local(dirs[o])
      /\ dirs \in DirMaps /\ files \in FileMaps /\ Objs = Obj(dirs)
  BY Known, ObjsSame
<1>1. /\ dirs[o].path = Root /\ c # None /\ dirs[o].start # "newDir"
      /\ dirs[o].track = "rmDirFiles" /\ dirs[c].track = "select"
      /\ c \in Obj(dirs) /\ dirs[c].path # Root /\ dirs[c].listed /\ c # o
      /\ dirs[c] \in DirRecs /\ c \in DirIds /\ Local(dirs[c]) /\ Begun(dirs[c])
      /\ dirs[c].path = dirs[o].arg
      /\ UNCHANGED <<fs, files, store>>
      /\ dirs' \in DirMaps /\ Obj(dirs') = Obj(dirs)
      /\ dirs'[o].path = dirs[o].path /\ dirs'[o].listed = dirs[o].listed /\ dirs'[o].evq = dirs[o].evq
      /\ dirs'[o].watching = dirs[o].watching
      /\ dirs'[o].start = dirs[o].start /\ dirs'[o].todo = dirs[o].todo /\ dirs'[o].track = "select" /\ dirs'[o].mu = None
      /\ dirs'[c].path = dirs[c].path /\ ~dirs'[c].listed /\ dirs'[c].evq = dirs[c].evq
      /\ dirs'[c].start = dirs[c].start /\ dirs'[c].todo = dirs[c].todo /\ dirs'[c].track = "closing" /\ dirs'[c].mu = dirs[c].mu
      /\ dirs'[c].arg = dirs[c].arg /\ dirs'[c].left = FileMap(c)
      /\ \A d \in Obj(dirs) : d # o /\ d # c => dirs'[d] = dirs[d]
  BY DirRemovedFacts
<1> HIDE DEF c
<1>2. c = dirs[o].mu
  BY DEF c
<1>3. Begun(dirs[o]) /\ born' = born /\ there' = there /\ files' = files
  BY <1>0, <1>1, BeganTracks DEF fs
<1>4. \A p \in Obj(dirs) : p # o => /\ dirs[p].path # Root /\ dirs[p].mu = None /\ dirs[p].start # "newDir"
                                    /\ dirs[p].track \notin OfDir
  BY <1>0, <1>1, OnlyRootHolds
<1>5. \A p \in Obj(dirs) : /\ dirs'[p].path = dirs[p].path /\ (dirs'[p].listed => dirs[p].listed)
                           /\ dirs'[p].start = dirs[p].start /\ dirs'[p].start # "newDir"
                           /\ dirs'[p].todo = dirs[p].todo /\ Begun(dirs'[p]) = Begun(dirs[p])
                           /\ dirs'[p].track \notin {"addDir", "newDir"}
                           /\ dirs'[p].evq = dirs[p].evq
  <2> SUFFICES ASSUME NEW p \in Obj(dirs) PROVE
                           /\ dirs'[p].path = dirs[p].path /\ (dirs'[p].listed => dirs[p].listed)
                           /\ dirs'[p].start = dirs[p].start /\ dirs'[p].start # "newDir"
                           /\ dirs'[p].todo = dirs[p].todo /\ Begun(dirs'[p]) = Begun(dirs[p])
                           /\ dirs'[p].track \notin {"addDir", "newDir"}
                           /\ dirs'[p].evq = dirs[p].evq
    OBVIOUS
  <2>1. CASE p = o
    BY <1>1, <2>1 DEF Begun
  <2>2. CASE p = c
    BY <1>1, <1>4, <2>2 DEF Begun
  <2>3. CASE p # o /\ p # c
    <3>1. dirs'[p] = dirs[p]
      BY <1>1, <2>3
    <3> QED
      BY <1>4, <2>3, <3>1 DEF OfDir
  <2> QED
    BY <2>1, <2>2, <2>3
<1>6. \A s : SubIn(dirs', s) => SubIn(dirs, s) /\ s # dirs[c].path
  BY <1>1, <1>5 DEF SubIn, Owns, OwnsOf, SubsInv, SubsOnce
<1>7. Reads(dirs', files, there)
  <2>1. \A p \in Obj(dirs') : ~Begun(dirs'[p]) =>
            /\ ~Begun(dirs[p]) /\ dirs'[p].path = dirs[p].path
            /\ dirs'[p].start = dirs[p].start /\ dirs'[p].todo \subseteq dirs[p].todo
            /\ OnlyLosses(dirs'[p].evq) /\ dirs'[p].track \in {"select", "rmFile"}
            /\ dirs'[p].start = "newDir" => dirs'[dirs'[p].mu].path = dirs[dirs[p].mu].path
    <3> SUFFICES ASSUME NEW p \in Obj(dirs'), ~Begun(dirs'[p]) PROVE
            /\ ~Begun(dirs[p]) /\ dirs'[p].path = dirs[p].path
            /\ dirs'[p].start = dirs[p].start /\ dirs'[p].todo \subseteq dirs[p].todo
            /\ OnlyLosses(dirs'[p].evq) /\ dirs'[p].track \in {"select", "rmFile"}
            /\ dirs'[p].start = "newDir" => dirs'[dirs'[p].mu].path = dirs[dirs[p].mu].path
      OBVIOUS
    <3>1. p \in Obj(dirs) /\ p # o /\ p # c
      BY <1>1, <1>3, <1>5
    <3>2. dirs'[p] = dirs[p]
      BY <1>1, <3>1
    <3>3. ReadingOK(dirs, files, there, p)
      BY <3>1, <3>2 DEF Owns, OwnsOf, Reads
    <3> QED
      BY <1>4, <3>1, <3>2, <3>3 DEF ReadingOK
  <2>2. \A s : SubIn(dirs', s) => SubIn(dirs, s)
    BY <1>6
  <2>3. Reads(dirs, files, there) /\ there \subseteq there /\ Obj(dirs') \subseteq Obj(dirs)
    BY <1>1 DEF Owns, OwnsOf
  <2>4. \A x, f : FileIn(files, x, f) => FileIn(files, x, f)
    OBVIOUS
  <2> QED
    BY ONLY <2>1, <2>2, <2>3, <2>4, ReadsShrink
<1>8. Tending(dirs')
  <2> SUFFICES ASSUME NEW p \in Obj(dirs) PROVE dirs'[p].listed \/ dirs'[p].track \in Shut
    BY <1>1 DEF Tending
  <2>1. CASE p = o
    BY <1>0, <1>1, <2>1 DEF Local
  <2>2. CASE p = c
    BY <1>1, <2>2 DEF Shut
  <2>3. CASE p # o /\ p # c
    <3>1. \A q \in Obj(dirs) : dirs[q].mu # p
      BY <1>2, <1>4, <2>3, DirectoryAssumption DEF Obj
    <3>2. dirs[p].listed \/ dirs[p].track \in Shut
      BY <3>1 DEF Owns, OwnsOf, SubsInv, Tending
    <3> QED
      BY <1>1, <2>3, <3>2
  <2> QED
    BY <2>1, <2>2, <2>3
<1>9. SubsInv(dirs', there)
  <2>1. \A p \in Obj(dirs') : /\ dirs'[p].start = "newDir" => dirs[p].start = "newDir" /\ dirs'[dirs'[p].mu].path = dirs[dirs[p].mu].path
                              /\ dirs'[p].track \in {"addDir", "newDir"} =>
                                   dirs[p].track \in {"addDir", "newDir"} /\ dirs'[p].arg = dirs[p].arg
    BY <1>1, <1>5
  <2>2. \A p \in Obj(dirs') : dirs'[p].path = Root /\ dirs'[p].track \notin Shut =>
            /\ dirs'[p].evq = dirs[p].evq /\ (dirs[p].watching = dirs'[p].watching)
            /\ \A s \in Subs : HaveSub(dirs', p, s) => HaveSub(dirs, p, s)
    <3> SUFFICES ASSUME NEW s \in Subs, HaveSub(dirs', o, s) PROVE HaveSub(dirs, o, s)
      BY <1>1, <1>4, <1>5
    <3>1. SubIn(dirs', s)
      BY <1>0, <1>1, <1>5 DEF HaveSub
    <3> QED
      BY <1>1, <1>6, <3>1 DEF HaveSub
  <2>3. Obj(dirs') \subseteq Obj(dirs) /\ SubsInv(dirs, there) /\ there \subseteq there
    BY <1>1 DEF Owns, OwnsOf
  <2>4. \A p \in Obj(dirs') : dirs'[p].path = dirs[p].path /\ (dirs'[p].listed => dirs[p].listed)
    BY <1>1, <1>5
  <2>5. \A p \in Obj(dirs') : dirs[p].track \in Shut => dirs'[p].track \in Shut
    BY <1>1 DEF Shut
  <2> QED
    BY ONLY <1>8, <2>1, <2>2, <2>3, <2>4, <2>5, SubsShrink
<1>10. ASSUME "rename" \notin Events PROVE FilesInv(dirs', files, born)
  <2>1. FilesInv(dirs, files, born)
    BY <1>10, FilesPart
  <2>2. \A p \in Obj(dirs') : dirs'[p].track = "addFile" => dirs[p].track = "addFile" /\ dirs'[p].arg = dirs[p].arg
    BY <1>1
  <2>3. \A p \in Obj(dirs') : dirs'[p].track \notin Shut =>
            /\ dirs[p].track \notin Shut
            /\ dirs'[p].evq = dirs[p].evq /\ (dirs'[p].watching => dirs[p].watching)
            /\ \A f \in Files : HaveFile(dirs', files, p, f) => HaveFile(dirs, files, p, f)
    <3> SUFFICES ASSUME NEW p \in Obj(dirs), dirs'[p].track \notin Shut PROVE
            /\ dirs[p].track \notin Shut
            /\ dirs'[p].evq = dirs[p].evq /\ (dirs'[p].watching => dirs[p].watching)
            /\ \A f \in Files : HaveFile(dirs', files, p, f) => HaveFile(dirs, files, p, f)
      BY <1>1
    <3>1. p # c
      BY <1>1 DEF Shut
    <3>2. CASE p = o
      BY <1>1, <3>2 DEF HaveFile, Shut
    <3>3. CASE p # o
      BY <1>1, <3>1, <3>3 DEF HaveFile
    <3> QED
      BY <3>2, <3>3
  <2>4. \A p \in Obj(dirs') : dirs'[p].path = dirs[p].path
    BY <1>1, <1>5
  <2>5. Obj(dirs') \subseteq Obj(dirs) /\ File(files) \subseteq File(files) /\ \A f \in Files : born[f] # 0 => born[f] # 0
    BY <1>1
  <2> QED
    BY ONLY <2>1, <2>2, <2>3, <2>4, <2>5, FilesShrink
<1> QED
  BY <1>3, <1>7, <1>9, <1>10 DEF Owns, OwnsOf

(* DirAdded keeps the second invariant: the entry it makes replaces no     *)
(* other (directory.go:145-151).                                           *)
LEMMA DirAddedOwns ==
  ASSUME Inv, Owns, Inv', NEW o \in Objs, DirAdded(o)
  PROVE  Owns'
<1> DEFINE c == dirs[o].mu
<1>0. /\ o \in Obj(dirs) /\ dirs[o] \in DirRecs /\ o \in DirIds /\ Local(dirs[o])
      /\ dirs \in DirMaps /\ files \in FileMaps /\ Objs = Obj(dirs)
  BY Known, ObjsSame
<1>1. /\ dirs[o].path = Root /\ c # None /\ dirs[o].track # "rmDirFiles"
      /\ "newDir" \in {dirs[o].start, dirs[o].track}
      /\ c \in Obj(dirs) /\ dirs[c].path # Root /\ dirs[c].track \notin Shut /\ c # o
      /\ dirs[c] \in DirRecs /\ c \in DirIds /\ Begun(dirs[c])
      /\ \E es : Added(o, c, es) /\ Become(es, files) /\ UNCHANGED <<fs, store>>
  BY DirAddedFacts
<1> HIDE DEF c
<1>2. c = dirs[o].mu
  BY DEF c
<1>3. PICK es : Added(o, c, es) /\ Become(es, files) /\ UNCHANGED <<fs, store>>
  BY <1>1
<1>4. /\ es \in DirMaps /\ Obj(es) = Obj(dirs)
      /\ es[o].path = Root /\ es[o].listed = dirs[o].listed /\ es[o].evq = dirs[o].evq
      /\ es[o].watching = dirs[o].watching
      /\ es[o].todo = dirs[o].todo /\ es[o].mu = None
      /\ es[o].start = IF dirs[o].start = "newDir" THEN "list" ELSE dirs[o].start
      /\ es[o].track = IF dirs[o].start = "newDir" THEN dirs[o].track ELSE "select"
      /\ dirs[o].start = "newDir" => es[o].arg = dirs[o].arg
      /\ es[c].listed
  BY <1>3 DEF Added
<1>5. \A d \in Obj(dirs) : d # o =>
        /\ es[d].path = dirs[d].path /\ es[d].evq = dirs[d].evq
        /\ es[d].watching = dirs[d].watching
        /\ es[d].start = dirs[d].start /\ es[d].todo = dirs[d].todo /\ es[d].track = dirs[d].track
        /\ es[d].arg = dirs[d].arg /\ es[d].mu = dirs[d].mu
        /\ d # c => (es[d].listed => dirs[d].listed)
        /\ d # c /\ es[d].listed => es[d].path # dirs[c].path
        /\ d # c /\ dirs[d].listed /\ dirs[d].path # dirs[c].path => es[d].listed
  BY <1>3 DEF Added
<1>6. \A p \in Obj(dirs) : p # o => /\ dirs[p].path # Root /\ dirs[p].mu = None /\ dirs[p].start # "newDir"
                                    /\ dirs[p].track \notin OfDir /\ dirs[p].todo \cap Subs = {}
  BY <1>0, <1>1, OnlyRootHolds
<1>7. /\ born' = born /\ there' = there
      /\ dirs[o].listed /\ Local(dirs[o]) /\ (dirs[o].track \in Busy => dirs[o].arg = dirs[c].path)
      /\ dirs[o].start = "newDir" <=> dirs[o].track \notin Busy
  BY <1>0, <1>1, <1>2, <1>3 DEF fs, Local, Inv, InvOf, DirInv, Holding, Held
<1>8. /\ dirs[o].start = "newDir" => ~Begun(dirs[o]) /\ ReadingOK(dirs, files, there, o)
      /\ dirs[o].start # "newDir" => dirs[o].track = "newDir" /\ Begun(dirs[o])
  BY <1>0, <1>1, BeganTracks DEF Begun, Owns, OwnsOf, Reads
<1>9. ~SubIn(dirs, dirs[c].path) /\ dirs[c].path \in Subs
  <2>1. dirs[c].path \in Subs
    BY <1>1 DEF DirRecs
  <2>2. SubsNew(dirs)
    BY DEF Owns, OwnsOf, SubsInv
  <2> QED
    BY <1>0, <1>2, <1>7, <1>8, <2>1, <2>2 DEF SubsNew, Busy
<1>10. es[o].start # "newDir" /\ es[o].track \in {"select", "rmFile"} /\ dirs[o].track \in {"select", "rmFile", "newDir"}
  BY <1>4, <1>8 DEF ReadingOK
<1>11. \A s : SubIn(es, s) => SubIn(dirs, s) \/ s = dirs[c].path
  <2> SUFFICES ASSUME NEW x \in Obj(dirs), es[x].listed PROVE SubIn(dirs, es[x].path) \/ es[x].path = dirs[c].path
    BY <1>4 DEF SubIn
  <2>1. CASE x = o
    BY <1>0, <1>1, <1>4, <2>1 DEF SubIn
  <2>2. CASE x = c
    BY <1>1, <1>5, <2>2
  <2>3. CASE x # o /\ x # c
    BY <1>5, <2>3 DEF SubIn
  <2> QED
    BY <2>1, <2>2, <2>3
<1>12. Reads(es, files, there)
  <2> SUFFICES ASSUME NEW p \in Obj(dirs), ~Begun(es[p]) PROVE ReadingOK(es, files, there, p)
    BY <1>4 DEF Reads
  <2>1. CASE p = o
    <3>1. dirs[o].start = "newDir" /\ ReadingOK(dirs, files, there, o)
      BY <1>4, <1>8, <2>1 DEF Begun
    <3>2. /\ es[o].evq = dirs[o].evq /\ es[o].track = dirs[o].track /\ es[o].todo = dirs[o].todo
          /\ es[o].start = "list" /\ dirs[c].path \notin es[o].todo
      BY <1>2, <1>4, <3>1 DEF ReadingOK
    <3>3. \A s \in es[o].todo \cap Subs : ~SubIn(es, s)
      BY <1>11, <3>1, <3>2 DEF ReadingOK
    <3> QED
      BY <1>4, <2>1, <3>1, <3>2, <3>3 DEF ReadingOK
  <2>2. CASE p # o
    <3>1. ~Begun(dirs[p])
      BY <1>5, <2>2 DEF Begun
    <3>2. ReadingOK(dirs, files, there, p)
      BY <3>1 DEF Owns, OwnsOf, Reads
    <3>3. /\ es[p].path = dirs[p].path /\ es[p].evq = dirs[p].evq
          /\ es[p].start = dirs[p].start /\ es[p].todo = dirs[p].todo /\ es[p].track = dirs[p].track
          /\ es[p].path # Root /\ es[p].start # "newDir" /\ es[p].todo \cap Subs = {}
      BY <1>5, <1>6, <2>2
    <3> QED
      BY <3>2, <3>3 DEF ReadingOK
  <2> QED
    BY <2>1, <2>2
<1>13. Tending(es)
  <2> SUFFICES ASSUME NEW p \in Obj(dirs) PROVE es[p].listed \/ es[p].track \in Shut
    BY <1>4 DEF Tending
  <2>1. CASE p = o
    BY <1>4, <1>7, <2>1
  <2>2. CASE p = c
    BY <1>4, <2>2
  <2>3. CASE p # o /\ p # c
    <3>1. \A q \in Obj(dirs) : dirs[q].mu # p
      BY <1>2, <1>6, <2>3, DirectoryAssumption DEF Obj
    <3>2. dirs[p].listed \/ dirs[p].track \in Shut
      BY <3>1 DEF Owns, OwnsOf, SubsInv, Tending
    <3>3. dirs[p].listed => dirs[p].path # dirs[c].path
      BY <1>9 DEF SubIn
    <3> QED
      BY <1>5, <2>3, <3>2, <3>3
  <2> QED
    BY <2>1, <2>2, <2>3
<1>14. SubsOnce(es)
  <2> SUFFICES ASSUME NEW x \in Obj(dirs), NEW y \in Obj(dirs), es[x].listed, es[y].listed, es[x].path = es[y].path
               PROVE  x = y
    BY <1>4 DEF SubsOnce
  <2>0. /\ es[x].path = dirs[x].path /\ es[y].path = dirs[y].path
        /\ x # c => dirs[x].listed /\ es[x].path # dirs[c].path
        /\ y # c => dirs[y].listed /\ es[y].path # dirs[c].path
    BY <1>0, <1>1, <1>4, <1>5
  <2>1. CASE x = c \/ y = c
    BY <2>0, <2>1
  <2>2. CASE x # c /\ y # c
    BY <2>0, <2>2 DEF Owns, OwnsOf, SubsInv, SubsOnce
  <2> QED
    BY <2>1, <2>2
<1>15. \A p \in Obj(dirs) : es[p].track \notin {"addDir", "newDir"} /\ es[p].start # "newDir"
  BY <1>5, <1>6, <1>10 DEF OfDir
<1>16. SubsNew(es)
  BY <1>4, <1>15 DEF SubsNew
<1>17. SubsAlternate(es, there)
  <2> SUFFICES ASSUME NEW p \in Obj(dirs), es[p].path = Root, NEW s \in Subs
               PROVE  Alternates(es[p].evq, s, HaveSub(es, p, s), s \in there \/ ~es[p].watching)
    BY <1>4 DEF SubsAlternate
  <2>1. p = o
    BY <1>5, <1>6
  <2>2. Alternates(dirs[o].evq, s, HaveSub(dirs, o, s), s \in there \/ ~dirs[o].watching)
    <3>1. dirs[o].track \notin Shut
      BY <1>10 DEF Shut
    <3> QED
      BY <1>0, <1>1, <3>1 DEF Owns, OwnsOf, SubsInv, SubsAlternate
  <2>3. HaveSub(es, o, s) => HaveSub(dirs, o, s)
    <3> SUFFICES ASSUME HaveSub(es, o, s) PROVE HaveSub(dirs, o, s)
      OBVIOUS
    <3>1. SubIn(es, s)
      BY <1>0, <1>15 DEF HaveSub
    <3>2. CASE s = dirs[c].path
      BY <1>2, <1>7, <1>8, <3>2 DEF HaveSub, Busy
    <3>3. CASE s # dirs[c].path
      BY <1>10, <1>11, <3>1, <3>3 DEF HaveSub
    <3> QED
      BY <3>2, <3>3
  <2> QED
    BY <1>4, <2>1, <2>2, <2>3, Weaker
<1>18. SubsInv(es, there)
  BY <1>13, <1>14, <1>16, <1>17 DEF SubsInv
<1>19. ASSUME "rename" \notin Events PROVE FilesInv(es, files, born)
  <2>1. FilesInv(dirs, files, born)
    BY <1>19, FilesPart
  <2>2. \A p \in Obj(es) : es[p].track = "addFile" => dirs[p].track = "addFile" /\ es[p].arg = dirs[p].arg
    BY <1>4, <1>5, <1>10
  <2>3. \A p \in Obj(es) : es[p].track \notin Shut =>
            /\ dirs[p].track \notin Shut
            /\ es[p].evq = dirs[p].evq /\ (es[p].watching => dirs[p].watching)
            /\ \A f \in Files : HaveFile(es, files, p, f) => HaveFile(dirs, files, p, f)
    <3> SUFFICES ASSUME NEW p \in Obj(dirs), es[p].track \notin Shut PROVE
            /\ dirs[p].track \notin Shut
            /\ es[p].evq = dirs[p].evq /\ (es[p].watching => dirs[p].watching)
            /\ \A f \in Files : HaveFile(es, files, p, f) => HaveFile(dirs, files, p, f)
      BY <1>4
    <3>2. CASE p = o
      <4>1. dirs[o].track \notin Shut
        BY <1>10 DEF Shut
      <4>2. \A f : HaveFile(es, files, o, f) => HaveFile(dirs, files, o, f)
        BY <1>4, <1>8, <1>10 DEF HaveFile
      <4> QED
        BY <1>4, <3>2, <4>1, <4>2
    <3>3. CASE p # o
      BY <1>5, <3>3 DEF HaveFile
    <3> QED
      BY <3>2, <3>3
  <2>4. \A p \in Obj(es) : es[p].path = dirs[p].path
    BY <1>1, <1>4, <1>5
  <2>5. Obj(es) \subseteq Obj(dirs) /\ File(files) \subseteq File(files) /\ \A f \in Files : born[f] # 0 => born[f] # 0
    BY <1>4
  <2> QED
    BY ONLY <2>1, <2>2, <2>3, <2>4, <2>5, FilesShrink
<1>20. OwnsOf(es, files, born, there)
  BY <1>12, <1>18, <1>19 DEF Owns, OwnsOf
<1>21. \A p \in Obj(es) : es[p].mu # None => es[p].listed
  BY <1>4, <1>5, <1>6
<1>22. OwnsOf(dirs', files', born, there)
  BY <1>0, <1>3, <1>4, <1>20, <1>21, BecomeOwns
<1> QED
  BY <1>7, <1>22 DEF Owns

(* Only the queues and watches of the objects change.                      *)
LEMMA QueuesOwn ==
  ASSUME NEW ds, NEW fl, NEW st, NEW b, NEW t, DirInv(ds, st), OwnsOf(ds, fl, b, t),
         NEW es, NEW a, NEW u, Obj(es) = Obj(ds),
         \A o \in Obj(ds) :
           /\ es[o].path = ds[o].path /\ es[o].listed = ds[o].listed
           /\ es[o].start = ds[o].start /\ es[o].todo = ds[o].todo
           /\ es[o].track = ds[o].track /\ es[o].arg = ds[o].arg /\ es[o].mu = ds[o].mu,
         \A o \in Obj(ds) : ~Begun(ds[o]) => OnlyLosses(es[o].evq) /\ (ds[o].path = Root => t \subseteq u),
         \A o \in Obj(ds) : ds[o].path = Root /\ ds[o].track \notin Shut => \A s \in Subs :
           Alternates(es[o].evq, s, HaveSub(ds, o, s), s \in u \/ ~es[o].watching),
         "rename" \notin Events => \A o \in Obj(ds) : ds[o].track \notin Shut =>
           \A f \in Files : In[f] = ds[o].path =>
             Alternates(es[o].evq, f, HaveFile(ds, fl, o, f), a[f] # 0 \/ ~es[o].watching)
  PROVE  OwnsOf(es, fl, a, u)
<1>1. \A s : SubIn(es, s) <=> SubIn(ds, s)
  BY DEF SubIn
<1>2. \A o \in Obj(ds) : ds[o].start = "newDir" => es[es[o].mu].path = ds[ds[o].mu].path
  BY DEF DirInv, Locals, Local, Holding, Held
<1>3. \A o \in Obj(ds) : ds[o].path # Root => ds[o].todo \cap Subs = {} /\ ds[o].start # "newDir"
  BY DirectoryAssumption DEF DirInv, Locals, Local, Names
<1>4. Reads(es, fl, u)
  <2> SUFFICES ASSUME NEW o \in Obj(ds), ~Begun(es[o]) PROVE ReadingOK(es, fl, u, o)
    BY DEF Reads
  <2>1. ~Begun(ds[o])
    BY DEF Begun
  <2>2. ReadingOK(ds, fl, t, o)
    BY <2>1 DEF OwnsOf, Reads
  <2>3. OnlyLosses(es[o].evq) /\ (ds[o].path = Root => t \subseteq u)
    BY <2>1
  <2>4. /\ es[o].path = ds[o].path /\ es[o].start = ds[o].start /\ es[o].todo = ds[o].todo
        /\ es[o].track = ds[o].track
    OBVIOUS
  <2>5. es[o].todo \cap Subs \subseteq u /\ (es[o].start = "newDir" => es[es[o].mu].path \in u \ es[o].todo)
    BY <1>2, <1>3, <2>2, <2>3, <2>4 DEF ReadingOK
  <2> QED
    BY <1>1, <2>2, <2>3, <2>4, <2>5 DEF ReadingOK
<1>5. \A o \in Obj(ds) : \A s \in Subs : HaveSub(es, o, s) => HaveSub(ds, o, s)
  BY <1>1, <1>2 DEF HaveSub
<1>6. SubsInv(es, u)
  <2>1. SubsOnce(es) /\ Tending(es)
    BY DEF OwnsOf, SubsInv, SubsOnce, Tending
  <2>2. SubsNew(es)
    BY <1>1, <1>2 DEF OwnsOf, SubsInv, SubsNew
  <2>3. SubsAlternate(es, u)
    <3> SUFFICES ASSUME NEW o \in Obj(ds), ds[o].path = Root, ds[o].track \notin Shut, NEW s \in Subs
                 PROVE  Alternates(es[o].evq, s, HaveSub(es, o, s), s \in u \/ ~es[o].watching)
      BY DEF SubsAlternate
    <3>1. Alternates(es[o].evq, s, HaveSub(ds, o, s), s \in u \/ ~es[o].watching)
      OBVIOUS
    <3> QED
      BY <1>5, <3>1, Weaker
  <2> QED
    BY <2>1, <2>2, <2>3 DEF SubsInv
<1>7. ASSUME "rename" \notin Events PROVE FilesInv(es, fl, a)
  <2>1. FilesInv(ds, fl, b)
    BY <1>7 DEF OwnsOf
  <2>2. FilesNew(es, fl)
    BY <2>1 DEF FilesInv, FilesNew
  <2>3. FilesAlternate(es, fl, a)
    <3> SUFFICES ASSUME NEW o \in Obj(ds), ds[o].track \notin Shut, NEW f \in Files, In[f] = ds[o].path
                 PROVE  Alternates(es[o].evq, f, HaveFile(es, fl, o, f), a[f] # 0 \/ ~es[o].watching)
      BY DEF FilesAlternate
    <3>1. Alternates(es[o].evq, f, HaveFile(ds, fl, o, f), a[f] # 0 \/ ~es[o].watching)
      BY <1>7
    <3>2. HaveFile(es, fl, o, f) => HaveFile(ds, fl, o, f)
      BY DEF HaveFile
    <3> QED
      BY <3>1, <3>2, Weaker
  <2> QED
    BY <2>1, <2>2, <2>3 DEF FilesInv
<1> QED
  BY <1>4, <1>6, <1>7 DEF OwnsOf

(* The removal of a file behind removals of files.                         *)
LEMMA AppendLoss ==
  ASSUME NEW q \in Seq(EventRecs), NEW e \in EventRecs, OnlyLosses(q), e.op = "remove", e.name \in Files
  PROVE  OnlyLosses(Append(q, e))
<1>1. \A k \in DOMAIN Append(q, e) : Append(q, e)[k] = e \/ (k \in DOMAIN q /\ Append(q, e)[k] = q[k])
  OBVIOUS
<1> QED
  BY <1>1 DEF OnlyLosses

(* What the watch of an object hears, if it hears.                         *)
LEMMA NotifiedOnce ==
  ASSUME NEW ds \in DirMaps, NEW p, NEW e \in EventRecs
  PROVE  /\ Obj(Notified(ds, p, e)) = Obj(ds)
         /\ \A o \in Obj(ds) :
              /\ Notified(ds, p, e)[o] \in DirRecs /\ ds[o] \in DirRecs
              /\ Notified(ds, p, e)[o].path = ds[o].path /\ Notified(ds, p, e)[o].listed = ds[o].listed
              /\ Notified(ds, p, e)[o].start = ds[o].start /\ Notified(ds, p, e)[o].todo = ds[o].todo
              /\ Notified(ds, p, e)[o].track = ds[o].track /\ Notified(ds, p, e)[o].arg = ds[o].arg
              /\ Notified(ds, p, e)[o].mu = ds[o].mu /\ Notified(ds, p, e)[o].watching = ds[o].watching
              /\ ds[o].path = p /\ ds[o].watching => Notified(ds, p, e)[o].evq = Append(ds[o].evq, e)
              /\ ds[o].path # p \/ ~ds[o].watching => Notified(ds, p, e)[o].evq = ds[o].evq
<1>1. \A o \in DirIds : Notified(ds, p, e)[o] = Heard(ds[o], p, e)
  BY NotifiedFacts DEF Heard
<1>2. \A o \in Obj(ds) : o \in DirIds /\ ds[o] # None /\ ds[o] \in DirRecs
  BY DEF Obj, DirMaps
<1>3. \A o \in DirIds : ds[o] = None => Notified(ds, p, e)[o] = None
  BY <1>1 DEF Heard
<1>4. \A o \in Obj(ds) :
         /\ Heard(ds[o], p, e) \in DirRecs
         /\ Heard(ds[o], p, e).path = ds[o].path /\ Heard(ds[o], p, e).listed = ds[o].listed
         /\ Heard(ds[o], p, e).watching = ds[o].watching /\ Heard(ds[o], p, e).start = ds[o].start
         /\ Heard(ds[o], p, e).todo = ds[o].todo /\ Heard(ds[o], p, e).track = ds[o].track
         /\ Heard(ds[o], p, e).arg = ds[o].arg
         /\ Heard(ds[o], p, e).mu = ds[o].mu
         /\ ds[o].path = p /\ ds[o].watching => Heard(ds[o], p, e).evq = Append(ds[o].evq, e)
         /\ ds[o].path # p \/ ~ds[o].watching => Heard(ds[o], p, e).evq = ds[o].evq
  BY <1>2, HeardFields
<1>5. Obj(Notified(ds, p, e)) = Obj(ds)
  BY <1>1, <1>2, <1>3, <1>4, NoneIsNoObject DEF Obj
<1> QED
  BY <1>1, <1>2, <1>4, <1>5

(* An object of the map is of its type.                                    *)
LEMMA InKind ==
  ASSUME NEW ds \in DirMaps, NEW o \in Obj(ds)
  PROVE  ds[o] \in DirRecs /\ ds[o].evq \in Seq(EventRecs) /\ ds[o].watching \in BOOLEAN
<1>1. ds[o] \in DirRecs
  BY DEF DirMaps, Obj
<1> QED
  BY <1>1 DEF DirRecs

(* Whether the start of an object is over.                                 *)
LEMMA StartedBegun ==
  ASSUME NEW o \in Obj(dirs)
  PROVE  Started(o) <=> Begun(dirs[o])
BY DEF Started, Begun

(* While start reads, the watch has heard of removals of files only.       *)
LEMMA ReadsAgree ==
  ASSUME NEW ds, OwnsOf(ds, files, born, there), NEW o \in Obj(ds), ~Begun(ds[o])
  PROVE  OnlyLosses(ds[o].evq)
BY DEF OwnsOf, Reads, ReadingOK

(* The events about a subdirectory make sense to the rule's directory.     *)
LEMMA SubsAgree ==
  ASSUME NEW ds, OwnsOf(ds, files, born, there), NEW o \in Obj(ds), ds[o].path = Root, ds[o].track \notin Shut, NEW s \in Subs
  PROVE  Alternates(ds[o].evq, s, HaveSub(ds, o, s), s \in there \/ ~ds[o].watching)
BY DEF OwnsOf, SubsInv, SubsAlternate

(* The events about a file make sense to the directory it is in.           *)
LEMMA FilesAgree ==
  ASSUME NEW ds, OwnsOf(ds, files, born, there), "rename" \notin Events, NEW o \in Obj(ds), ds[o].track \notin Shut,
         NEW f \in Files, In[f] = ds[o].path
  PROVE  Alternates(ds[o].evq, f, HaveFile(ds, files, o, f), born[f] # 0 \/ ~ds[o].watching)
BY DEF OwnsOf, FilesInv, FilesAlternate

(* The watches of p hear that a name has come or gone.                     *)
LEMMA NotifiedOwns ==
  ASSUME NEW ds \in DirMaps, DirInv(ds, stopped), OwnsOf(ds, files, born, there), NEW p, NEW e \in EventRecs, e.name \in Names(p), NEW a, NEW u,
         \/ e.op = "remove" /\ e.name \in Files
         \/ \A o \in Obj(ds) : ds[o].path = p => Begun(ds[o]),
         there \subseteq u \/ \A o \in Obj(ds) : ds[o].path = Root => Begun(ds[o]),
         \A s \in Subs : \/ e.name # s /\ (s \in there => s \in u)
                         \/ e.name = s /\ e.op = "create" /\ s \notin there /\ s \in u
                         \/ e.name = s /\ e.op = "remove",
         \A f \in Files : \/ e.name # f /\ (born[f] # 0 => a[f] # 0)
                          \/ e.name = f /\ e.op = "create" /\ ~(born[f] # 0) /\ a[f] # 0
                          \/ e.name = f /\ e.op = "remove"
  PROVE  OwnsOf(Notified(ds, p, e), files, a, u)
<1> DEFINE es == Notified(ds, p, e)
<1>0. ds \in DirMaps /\ DirInv(ds, stopped) /\ OwnsOf(ds, files, born, there)
  OBVIOUS
<1>1. /\ Obj(es) = Obj(ds)
      /\ \A o \in Obj(ds) :
              /\ es[o].path = ds[o].path /\ es[o].listed = ds[o].listed
              /\ es[o].start = ds[o].start /\ es[o].todo = ds[o].todo
              /\ es[o].track = ds[o].track /\ es[o].arg = ds[o].arg
              /\ es[o].mu = ds[o].mu /\ es[o].watching = ds[o].watching
              /\ ds[o].path = p /\ ds[o].watching => es[o].evq = Append(ds[o].evq, e)
              /\ ds[o].path # p \/ ~ds[o].watching => es[o].evq = ds[o].evq
  BY <1>0, NotifiedOnce
<1> HIDE DEF es
<1>2. \A o \in Obj(ds) : ~Begun(ds[o]) => OnlyLosses(es[o].evq) /\ (ds[o].path = Root => there \subseteq u)
  <2> SUFFICES ASSUME NEW o \in Obj(ds), ~Begun(ds[o])
               PROVE  OnlyLosses(es[o].evq) /\ (ds[o].path = Root => there \subseteq u)
    OBVIOUS
  <2>1. OnlyLosses(ds[o].evq)
    BY ReadsAgree
  <2>2. ds[o].path = p /\ ds[o].watching => OnlyLosses(Append(ds[o].evq, e))
    BY <2>1, AppendLoss, InKind
  <2> QED
    BY <1>1, <2>1, <2>2
<1>3. ASSUME NEW o \in Obj(ds), ds[o].path = Root, ds[o].track \notin Shut, NEW s \in Subs
      PROVE  Alternates(es[o].evq, s, HaveSub(ds, o, s), s \in u \/ ~es[o].watching)
  <2>1. Alternates(ds[o].evq, s, HaveSub(ds, o, s), s \in there \/ ~ds[o].watching)
    BY <1>3, SubsAgree
  <2>2. ds[o].evq \in Seq(EventRecs) /\ ds[o].watching \in BOOLEAN
    BY InKind
  <2>3. CASE p = Root
    <3>1. /\ ds[o].watching => es[o].evq = Append(ds[o].evq, e)
          /\ ~ds[o].watching => es[o].evq = ds[o].evq
      BY <1>1, <1>3, <2>3
    <3>11. \/ e.name # s /\ (s \in there => s \in u)
           \/ e.name = s /\ e.op = "create" /\ ~(s \in there) /\ s \in u
           \/ e.name = s /\ e.op = "remove"
      OBVIOUS
    <3>12. e \in EventRecs
      OBVIOUS
    <3>2. Alternates(es[o].evq, s, HaveSub(ds, o, s), s \in u \/ ~ds[o].watching)
      <4>1. CASE ~ds[o].watching
        BY <2>1, <3>1, <4>1, Weaker
      <4>2. CASE ds[o].watching /\ e.name # s
        <5>1. Alternates(es[o].evq, s, HaveSub(ds, o, s), s \in there \/ ~ds[o].watching)
          BY <2>1, <2>2, <3>1, <3>12, <4>2, AppendOther
        <5> QED
          BY <3>11, <4>2, <5>1, Weaker
      <4>3. CASE ds[o].watching /\ e.name = s /\ e.op = "create"
        <5>0. ~(s \in there) /\ s \in u
          BY <3>11, <4>3
        <5>1. Alternates(ds[o].evq, s, HaveSub(ds, o, s), FALSE)
          BY <2>1, <4>3, <5>0, Weaker
        <5>2. Alternates(es[o].evq, s, HaveSub(ds, o, s), TRUE)
          BY <2>2, <3>1, <3>12, <4>3, <5>1, AppendCreate
        <5> QED
          BY <5>0, <5>2, Weaker
      <4>4. CASE ds[o].watching /\ e.name = s /\ e.op = "remove"
        <5>1. Alternates(es[o].evq, s, HaveSub(ds, o, s), FALSE)
          BY <2>1, <2>2, <3>1, <3>12, <4>4, AppendRemove
        <5> QED
          BY <5>1, Weaker
      <4> QED
        BY <3>11, <4>1, <4>2, <4>3, <4>4
    <3> QED
      BY <1>1, <3>2
  <2>4. CASE p # Root
    <3>1. es[o].evq = ds[o].evq /\ es[o].watching = ds[o].watching
      BY <1>1, <1>3, <2>4
    <3>2. s \in there => s \in u
      BY <2>4, DirectoryAssumption DEF Names
    <3> QED
      BY <2>1, <3>1, <3>2, Weaker
  <2> QED
    BY <2>3, <2>4
<1>4. ASSUME "rename" \notin Events, NEW o \in Obj(ds), ds[o].track \notin Shut,
             NEW f \in Files, In[f] = ds[o].path
      PROVE  Alternates(es[o].evq, f, HaveFile(ds, files, o, f), a[f] # 0 \/ ~es[o].watching)
  <2>1. Alternates(ds[o].evq, f, HaveFile(ds, files, o, f), born[f] # 0 \/ ~ds[o].watching)
    BY <1>4, FilesAgree
  <2>2. ds[o].evq \in Seq(EventRecs) /\ ds[o].watching \in BOOLEAN
    BY InKind
  <2>3. CASE p = ds[o].path
    <3>1. /\ ds[o].watching => es[o].evq = Append(ds[o].evq, e)
          /\ ~ds[o].watching => es[o].evq = ds[o].evq
      BY <1>1, <2>3
    <3>11. \/ e.name # f /\ (born[f] # 0 => a[f] # 0)
           \/ e.name = f /\ e.op = "create" /\ ~(born[f] # 0) /\ a[f] # 0
           \/ e.name = f /\ e.op = "remove"
      OBVIOUS
    <3>12. e \in EventRecs
      OBVIOUS
    <3>2. Alternates(es[o].evq, f, HaveFile(ds, files, o, f), a[f] # 0 \/ ~ds[o].watching)
      <4>1. CASE ~ds[o].watching
        BY <2>1, <3>1, <4>1, Weaker
      <4>2. CASE ds[o].watching /\ e.name # f
        <5>1. Alternates(es[o].evq, f, HaveFile(ds, files, o, f), born[f] # 0 \/ ~ds[o].watching)
          BY <2>1, <2>2, <3>1, <3>12, <4>2, AppendOther
        <5> QED
          BY <3>11, <4>2, <5>1, Weaker
      <4>3. CASE ds[o].watching /\ e.name = f /\ e.op = "create"
        <5>0. ~(born[f] # 0) /\ a[f] # 0
          BY <3>11, <4>3
        <5>1. Alternates(ds[o].evq, f, HaveFile(ds, files, o, f), FALSE)
          BY <2>1, <4>3, <5>0, Weaker
        <5>2. Alternates(es[o].evq, f, HaveFile(ds, files, o, f), TRUE)
          BY <2>2, <3>1, <3>12, <4>3, <5>1, AppendCreate
        <5> QED
          BY <5>0, <5>2, Weaker
      <4>4. CASE ds[o].watching /\ e.name = f /\ e.op = "remove"
        <5>1. Alternates(es[o].evq, f, HaveFile(ds, files, o, f), FALSE)
          BY <2>1, <2>2, <3>1, <3>12, <4>4, AppendRemove
        <5> QED
          BY <5>1, Weaker
      <4> QED
        BY <3>11, <4>1, <4>2, <4>3, <4>4
    <3> QED
      BY <1>1, <3>2
  <2>4. CASE p # ds[o].path
    <3>1. es[o].evq = ds[o].evq /\ es[o].watching = ds[o].watching
      BY <1>1, <2>4
    <3>2. born[f] # 0 => a[f] # 0
      BY <1>4, <2>4, DirectoryAssumption DEF Names
    <3> QED
      BY <2>1, <3>1, <3>2, Weaker
  <2> QED
    BY <2>3, <2>4
<1>5. \A o \in Obj(ds) :
           /\ es[o].path = ds[o].path /\ es[o].listed = ds[o].listed
           /\ es[o].start = ds[o].start /\ es[o].todo = ds[o].todo
           /\ es[o].track = ds[o].track /\ es[o].arg = ds[o].arg /\ es[o].mu = ds[o].mu
  BY <1>1
<1>6. OwnsOf(es, files, a, u)
  BY <1>0, <1>1, <1>2, <1>3, <1>4, <1>5, QueuesOwn
<1> QED
  BY <1>6 DEF es

(* CreateFile keeps the second invariant if no file comes while its        *)
(* directory is read.                                                      *)
LEMMA CreateFileOwns ==
  ASSUME Inv, Owns, WorldOK, "early" \notin Events, NEW f \in Files, CreateFile(f) PROVE Owns'
<1> DEFINE e == Event("create", f)
<1>0. dirs \in DirMaps /\ DirInv(dirs, stopped) /\ OwnsOf(dirs, files, born, there)
  BY DEF Inv, InvOf, Owns
<1>1. e \in EventRecs /\ e.op = "create" /\ e.name = f /\ f \in Names(In[f])
  BY DEF Event, EventRecs, Names
<1>2. /\ born[f] = 0 /\ born' = [born EXCEPT ![f] = day] /\ there' = there /\ files' = files
      /\ dirs' = Notified(dirs, In[f], e)
  BY DEF CreateFile
<1>3. \A o \in Obj(dirs) : dirs[o].path = In[f] => Begun(dirs[o])
  BY ObjsSame, StartedBegun DEF CreateFile, Reading
<1>4. born'[f] # 0 /\ \A g \in Files : g # f => born'[g] = born[g]
  BY <1>2 DEF WorldOK
<1>5. \A s \in Subs : e.name # s
  BY <1>1, DirectoryAssumption
<1> HIDE DEF e
<1>6. OwnsOf(Notified(dirs, In[f], e), files, born', there)
  BY <1>0, <1>1, <1>2, <1>3, <1>4, <1>5, NotifiedOwns
<1> QED
  BY <1>2, <1>6 DEF Owns

(* MakeDir keeps the second invariant if no subdirectory comes while the   *)
(* rule's directory is read.                                               *)
LEMMA MakeDirOwns ==
  ASSUME Inv, Owns, "early" \notin Events, NEW s \in Subs, MakeDir(s) PROVE Owns'
<1> DEFINE e == Event("create", s)
<1>0. dirs \in DirMaps /\ DirInv(dirs, stopped) /\ OwnsOf(dirs, files, born, there)
  BY DEF Inv, InvOf, Owns
<1>1. e \in EventRecs /\ e.op = "create" /\ e.name = s /\ s \in Names(Root)
  BY DEF Event, EventRecs, Names
<1>2. /\ s \notin there /\ there' = there \cup {s} /\ born' = born /\ files' = files
      /\ dirs' = Notified(dirs, Root, e)
  BY DEF MakeDir
<1>3. \A o \in Obj(dirs) : dirs[o].path = Root => Begun(dirs[o])
  BY ObjsSame, StartedBegun DEF MakeDir, Reading
<1>5. \A f \in Files : e.name # f
  BY <1>1, DirectoryAssumption
<1> HIDE DEF e
<1>6. OwnsOf(Notified(dirs, Root, e), files, born, there \cup {s})
  BY <1>0, <1>1, <1>2, <1>3, <1>5, NotifiedOwns
<1> QED
  BY <1>2, <1>6 DEF Owns

(* A watch that has ended hears nothing more.                              *)
LEMMA UnwatchedOwns ==
  ASSUME Inv, Owns, NEW s \in Subs
  PROVE  OwnsOf(Unwatched(dirs, s), files, born, there)
<1> DEFINE es == Unwatched(dirs, s)
<1>0. dirs \in DirMaps /\ DirInv(dirs, stopped) /\ OwnsOf(dirs, files, born, there)
  BY DEF Inv, InvOf, Owns
<1>1. \A o \in DirIds : es[o] =
              IF dirs[o] # None /\ dirs[o].path = s THEN [dirs[o] EXCEPT !.watching = FALSE] ELSE dirs[o]
  BY <1>0, UnwatchedFacts
<1> HIDE DEF es
<1>2. \A o \in Obj(dirs) :
           /\ es[o].path = dirs[o].path /\ es[o].listed = dirs[o].listed
           /\ es[o].start = dirs[o].start /\ es[o].todo = dirs[o].todo
           /\ es[o].track = dirs[o].track /\ es[o].arg = dirs[o].arg /\ es[o].mu = dirs[o].mu
           /\ es[o].evq = dirs[o].evq /\ (es[o].watching => dirs[o].watching) /\ es[o] \in DirRecs
  <2> SUFFICES ASSUME NEW o \in Obj(dirs) PROVE
           /\ es[o].path = dirs[o].path /\ es[o].listed = dirs[o].listed
           /\ es[o].start = dirs[o].start /\ es[o].todo = dirs[o].todo
           /\ es[o].track = dirs[o].track /\ es[o].arg = dirs[o].arg /\ es[o].mu = dirs[o].mu
           /\ es[o].evq = dirs[o].evq /\ (es[o].watching => dirs[o].watching) /\ es[o] \in DirRecs
    OBVIOUS
  <2>1. o \in DirIds /\ dirs[o] # None /\ dirs[o] \in DirRecs
    BY <1>0 DEF Obj, DirMaps
  <2>2. CASE dirs[o].path = s
    <3>1. es[o] = [dirs[o] EXCEPT !.watching = FALSE]
      BY <1>1, <2>1, <2>2
    <3> QED
      BY <2>1, <3>1 DEF DirRecs
  <2>3. CASE dirs[o].path # s
    BY <1>1, <2>1, <2>3
  <2> QED
    BY <2>2, <2>3
<1>3. Obj(es) = Obj(dirs)
  BY <1>1, <1>2, NoneIsNoObject DEF Obj
<1>4. \A o \in Obj(dirs) : ~Begun(dirs[o]) => OnlyLosses(es[o].evq) /\ (dirs[o].path = Root => there \subseteq there)
  BY <1>0, <1>2, ReadsAgree
<1>5. ASSUME NEW o \in Obj(dirs), dirs[o].path = Root, dirs[o].track \notin Shut, NEW x \in Subs
      PROVE  Alternates(es[o].evq, x, HaveSub(dirs, o, x), x \in there \/ ~es[o].watching)
  <2>1. Alternates(dirs[o].evq, x, HaveSub(dirs, o, x), x \in there \/ ~dirs[o].watching)
    BY <1>0, <1>5, SubsAgree
  <2> QED
    BY <1>2, <2>1, Weaker
<1>6. ASSUME "rename" \notin Events, NEW o \in Obj(dirs), dirs[o].track \notin Shut,
             NEW f \in Files, In[f] = dirs[o].path
      PROVE  Alternates(es[o].evq, f, HaveFile(dirs, files, o, f), born[f] # 0 \/ ~es[o].watching)
  <2>1. Alternates(dirs[o].evq, f, HaveFile(dirs, files, o, f), born[f] # 0 \/ ~dirs[o].watching)
    BY <1>0, <1>6, FilesAgree
  <2> QED
    BY <1>2, <2>1, Weaker
<1>7. OwnsOf(es, files, born, there)
  BY <1>0, <1>2, <1>3, <1>4, <1>5, <1>6, QueuesOwn
<1> QED
  BY <1>7 DEF es

(* Leave keeps the second invariant; a rename nobody hears of, so with     *)
(* renames it says nothing about files.                                    *)
LEMMA LeaveOwns ==
  ASSUME Inv, Owns, NEW f \in Files, NEW how \in {"unlink", "rename"}, Leave(f, how) PROVE Owns'
<1> DEFINE e == Event("remove", f)
<1>0. dirs \in DirMaps /\ DirInv(dirs, stopped) /\ OwnsOf(dirs, files, born, there)
  BY DEF Inv, InvOf, Owns
<1>1. e \in EventRecs /\ e.op = "remove" /\ e.name = f /\ f \in Names(In[f])
  BY DEF Event, EventRecs, Names
<1>2. /\ born' = [born EXCEPT ![f] = 0] /\ there' = there /\ files' = files
      /\ dirs' = IF how = "unlink" THEN Notified(dirs, In[f], e) ELSE dirs
  BY DEF Leave
<1>3. \A g \in Files : g # f => (born[g] # 0 => born'[g] # 0)
  BY <1>2
<1>5. \A s \in Subs : e.name # s
  BY <1>1, DirectoryAssumption
<1> HIDE DEF e
<1>6. CASE how = "unlink"
  <2>1. OwnsOf(Notified(dirs, In[f], e), files, born', there)
    BY <1>0, <1>1, <1>3, <1>5, NotifiedOwns
  <2> QED
    BY <1>2, <1>6, <2>1 DEF Owns
<1>7. CASE how = "rename"
  <2>1. "rename" \in Events
    BY <1>7 DEF Leave
  <2>2. OwnsOf(dirs, files, born', there)
    BY <1>0, <2>1 DEF OwnsOf
  <2> QED
    BY <1>2, <1>7, <2>2 DEF Owns
<1> QED
  BY <1>6, <1>7

(* RemoveEmptyDir keeps the second invariant.                              *)
LEMMA RemoveEmptyDirOwns ==
  ASSUME Inv, Owns, "early" \notin Events, NEW s \in Subs, RemoveEmptyDir(s) PROVE Owns'
<1> DEFINE e == Event("remove", s)
           es == Unwatched(dirs, s)
<1>0. dirs \in DirMaps /\ InvOf(dirs, files, day, stopped, Ours)
  BY DEF Inv, InvOf
<1>1. e \in EventRecs /\ e.op = "remove" /\ e.name = s /\ s \in Names(Root) /\ s # Root
  BY DirectoryAssumption DEF Event, EventRecs, Names
<1>2. /\ born' = born /\ there' = there \ {s} /\ files' = files
      /\ dirs' = Notified(es, Root, e)
  BY DEF RemoveEmptyDir
<1>3. \A o \in Obj(dirs) : dirs[o].path = Root => Begun(dirs[o])
  BY ObjsSame, StartedBegun DEF RemoveEmptyDir, Reading
<1>4. \A o \in DirIds : es[o] =
              IF dirs[o] # None /\ dirs[o].path = s THEN [dirs[o] EXCEPT !.watching = FALSE] ELSE dirs[o]
  BY <1>0, UnwatchedFacts
<1>5. \A f \in Files : e.name # f
  BY <1>1, DirectoryAssumption
<1>6. OwnsOf(es, files, born, there)
  BY UnwatchedOwns
<1>7. InvOf(es, files, day, stopped, Ours)
  BY <1>0, UnwatchedKeeps
<1>8. es \in DirMaps /\ DirInv(es, stopped)
  BY <1>7 DEF InvOf
<1> HIDE DEF e, es
<1>9. \A o \in Obj(es) : es[o].path = Root => Begun(es[o])
  <2> SUFFICES ASSUME NEW o \in Obj(es), es[o].path = Root PROVE Begun(es[o])
    OBVIOUS
  <2>1. o \in DirIds /\ es[o] # None
    BY DEF Obj
  <2>2. CASE dirs[o] # None /\ dirs[o].path = s
    BY <1>0, <1>1, <1>4, <2>1, <2>2 DEF DirMaps, DirRecs
  <2>3. CASE ~(dirs[o] # None /\ dirs[o].path = s)
    <3>1. es[o] = dirs[o]
      BY <1>4, <2>1, <2>3
    <3> QED
      BY <1>3, <2>1, <3>1 DEF Obj
  <2> QED
    BY <2>2, <2>3
<1>10. OwnsOf(Notified(es, Root, e), files, born, there \ {s})
  BY <1>1, <1>5, <1>6, <1>8, <1>9, NotifiedOwns
<1> QED
  BY <1>2, <1>10 DEF Owns

(* The objects es that come of dirs when the root, as b, makes a new       *)
(* object F for the subdirectory s.                                        *)
Grown(o, s, b, F, es) ==
  /\ F \in DirIds /\ dirs[F] = None /\ o # F /\ F # None /\ o \in Obj(dirs)
  /\ Obj(es) = Obj(dirs) \cup {F}
  /\ es[F] = NewDir(s)
  /\ \A p \in Obj(dirs) : p # o => es[p] = dirs[p] /\ dirs[p].path # Root /\ p # F
  /\ es[o].path = Root /\ dirs[o].path = Root /\ es[o].listed = dirs[o].listed /\ es[o].watching = dirs[o].watching
  /\ es[o].start = b.start /\ es[o].todo = b.todo /\ es[o].track = b.track /\ es[o].arg = b.arg
  /\ es[o].mu = F /\ dirs[o].track \notin Shut
  /\ s \in there \/ ~dirs[o].watching => es[o].evq = dirs[o].evq
  /\ s \notin there /\ dirs[o].watching => es[o].evq = Append(dirs[o].evq, Event("create", s))
  /\ \A p \in Obj(dirs) : dirs[p].mu = None /\ dirs[p].start # "newDir"

(* What addDir does to the objects, up to the start of the new one         *)
(* (directory.go:140-145).                                                 *)
LEMMA WithDirFacts ==
  ASSUME Inv, DirLeft, NEW o \in Objs, NEW s \in Subs, NEW b \in DirRecs, NEW bs, bs = [dirs EXCEPT ![o] = b],
         b.path = dirs[o].path, b.listed = dirs[o].listed, b.watching = dirs[o].watching,
         b.evq = dirs[o].evq, dirs[o].path = Root, dirs[o].mu = None, dirs[o].track \notin Shut,
         NEW F, F = FreeDir, NEW es, es = WithDir(s, o, bs)
  PROVE  Grown(o, s, b, F, es)
<1> DEFINE ms == Made(s, bs)
<1>0. /\ o \in Obj(dirs) /\ dirs[o] \in DirRecs /\ o \in DirIds
      /\ dirs \in DirMaps /\ DirInv(dirs, stopped)
  BY Known DEF Inv, InvOf
<1>1. es = [ms EXCEPT ![F] = NewDir(s), ![o].mu = F]
  BY DEF WithDir
<1>2. F \in DirIds /\ dirs[F] = None /\ o # F /\ F # None
  BY <1>0, FreeDirType, DirectoryAssumption DEF Obj
<1>3. bs \in DirMaps /\ bs[o] = b /\ \A p \in DirIds \ {o} : bs[p] = dirs[p]
  BY <1>0 DEF DirMaps
<1>4. ms \in DirMaps /\ \A p \in DirIds : ms[p] = HeardMade(s, bs[p])
  BY <1>3, MadeFacts
<1>5. ms[o] = HeardMade(s, b)
  BY <1>0, <1>3, <1>4
<1> HIDE DEF ms
<1>6. es[F] = NewDir(s) /\ es[o] = [ms[o] EXCEPT !.mu = F] /\ \A p \in DirIds \ {o, F} : es[p] = ms[p]
  BY <1>0, <1>1, <1>2, <1>4 DEF DirMaps
<1>7. ms[o] \in DirRecs
  BY <1>5, HeardMadeFields
<1>8. /\ es[o].path = ms[o].path /\ es[o].listed = ms[o].listed /\ es[o].watching = ms[o].watching
      /\ es[o].start = ms[o].start /\ es[o].todo = ms[o].todo /\ es[o].track = ms[o].track /\ es[o].arg = ms[o].arg
      /\ es[o].mu = F /\ es[o].evq = ms[o].evq /\ es[o] # None
  BY <1>2, <1>6, <1>7, SetHold, NoneIsNoObject
<1>9. \A p \in DirIds : p # o /\ dirs[p] = None => HeardMade(s, bs[p]) = None
  BY <1>3 DEF HeardMade, Heard
<1>10. \A p \in Obj(dirs) : p # o => dirs[p].path # Root /\ p # F /\ p \in DirIds
  BY <1>0, <1>2 DEF DirInv, OneRoot, Obj
<1>11. \A p \in Obj(dirs) : p # o => es[p] = dirs[p]
  <2> SUFFICES ASSUME NEW p \in Obj(dirs), p # o PROVE es[p] = dirs[p]
    OBVIOUS
  <2>1. es[p] = HeardMade(s, dirs[p])
    BY <1>3, <1>4, <1>6, <1>10
  <2>2. dirs[p].path # Root
    BY <1>10
  <2> QED
    BY <2>1, <2>2 DEF HeardMade, Heard
<1>12. Obj(es) = Obj(dirs) \cup {F}
  <2>1. NewDir(s) # None
    BY NewDirType, NoneIsNoObject
  <2>2. ASSUME NEW p \in DirIds PROVE p \in Obj(es) <=> p \in Obj(dirs) \cup {F}
    <3>1. CASE p = o
      BY <1>0, <1>8, <3>1 DEF Obj
    <3>2. CASE p = F
      BY <1>2, <1>6, <2>1, <3>2 DEF Obj
    <3>3. CASE p # o /\ p # F
      BY <1>4, <1>6, <1>9, <1>11, <3>3 DEF Obj
    <3> QED
      BY <3>1, <3>2, <3>3
  <2> QED
    BY <1>2, <2>2 DEF Obj
<1>13. /\ ms[o].path = b.path /\ ms[o].listed = b.listed /\ ms[o].watching = b.watching
       /\ ms[o].start = b.start /\ ms[o].todo = b.todo /\ ms[o].track = b.track /\ ms[o].arg = b.arg
       /\ s \notin there /\ b.path = Root /\ b.watching => ms[o].evq = Append(b.evq, Event("create", s))
       /\ s \in there \/ b.path # Root \/ ~b.watching => ms[o].evq = b.evq
  BY <1>5, HeardMadeFields
<1>14. \A p \in Obj(dirs) : dirs[p].mu = None /\ dirs[p].start # "newDir"
  BY <1>0, <1>10 DEF DirInv, Locals, Local
<1> QED
  BY <1>0, <1>2, <1>6, <1>8, <1>10, <1>11, <1>12, <1>13, <1>14 DEF Grown

(* An empty queue makes sense to who has not heard of the name.            *)
LEMMA NoQueue == ASSUME NEW n, NEW p PROVE Alternates(<<>>, n, FALSE, p)
<1>1. Creates(<<>>, n) = {}
  BY DEF Creates
<1> QED
  BY <1>1 DEF Alternates

(* A new object for s.                                                     *)
FreshDir(r, s) == /\ r.path = s /\ ~r.listed /\ r.evq = <<>> /\ r.start = "read" /\ r.todo = {}
                  /\ r.track = "select" /\ r.mu = None /\ s # Root

(* The new object is not listed yet.                                       *)
LEMMA GrownFresh ==
  ASSUME NEW o, NEW s \in Subs, NEW b, NEW F, NEW es, Grown(o, s, b, F, es)
  PROVE  FreshDir(es[F], s) /\ \A x : SubIn(es, x) <=> SubIn(dirs, x)
<1>1. es[F] = NewDir(s)
  BY DEF Grown
<1>2. FreshDir(es[F], s)
  BY <1>1, NewDirFields, DirectoryAssumption DEF FreshDir
<1>3. \A x : SubIn(es, x) <=> SubIn(dirs, x)
  BY <1>2 DEF SubIn, Grown, FreshDir
<1> QED
  BY <1>2, <1>3

(* What the root has to satisfy once it has made the object.               *)
GrownRoot(o, s, es, u) ==
  /\ ~Begun(es[o]) => ReadingOK(es, files, u, o)
  /\ es[o].start = "newDir" => ~SubIn(es, s)
  /\ es[o].track \in {"addDir", "newDir"} => ~SubIn(es, es[o].arg)
  /\ es[o].track = "addFile" => dirs[o].track = "addFile" /\ es[o].arg = dirs[o].arg
  /\ \A x \in Subs : Alternates(es[o].evq, x, HaveSub(es, o, x), x \in u \/ ~es[o].watching)
  /\ \A f \in Files : HaveFile(es, files, o, f) => HaveFile(dirs, files, o, f)

(* addDir called by start: the subdirectory was there when the directory   *)
(* was read, and the watch has not heard of it.                            *)
LEMMA GrownInStart ==
  ASSUME Inv, Owns, NEW o \in Obj(dirs), NEW s \in Subs, NEW b, NEW F, NEW es, Grown(o, s, b, F, es),
         dirs[o].path = Root,
         dirs[o].start = "list", s \in dirs[o].todo, b.start = "newDir", b.todo = dirs[o].todo \ {s},
         b.track = dirs[o].track, b.arg = dirs[o].arg
  PROVE  GrownRoot(o, s, es, there \cup {s})
<1> DEFINE u == there \cup {s}
<1>1. FreshDir(es[F], s) /\ \A x : SubIn(es, x) <=> SubIn(dirs, x)
  BY GrownFresh
<1>2. /\ es[o].path = Root /\ es[o].watching = dirs[o].watching
      /\ es[o].start = "newDir" /\ es[o].todo = dirs[o].todo \ {s}
      /\ es[o].track = dirs[o].track /\ es[o].arg = dirs[o].arg /\ es[o].mu = F
      /\ s \in there => es[o].evq = dirs[o].evq
  BY DEF Grown
<1>3. ~Begun(dirs[o])
  BY DEF Begun
<1>4. ReadingOK(dirs, files, there, o)
  BY <1>3 DEF Owns, OwnsOf, Reads
<1>5. /\ OnlyLosses(dirs[o].evq) /\ dirs[o].track \in {"select", "rmFile"} /\ s \in there
      /\ ~SubIn(dirs, s)
  BY <1>4 DEF ReadingOK
<1>6. es[o].evq = dirs[o].evq /\ es[es[o].mu].path = s
  BY <1>1, <1>2, <1>5 DEF FreshDir
<1>7. ReadingOK(es, files, u, o)
  BY <1>1, <1>2, <1>4, <1>5, <1>6 DEF ReadingOK
<1>8. ~SubIn(es, s)
  BY <1>1, <1>5
<1>9. es[o].track \notin {"addDir", "newDir", "addFile"}
  BY <1>2, <1>5
<1>10. ASSUME NEW x \in Subs PROVE Alternates(es[o].evq, x, HaveSub(es, o, x), x \in u \/ ~es[o].watching)
  <2>1. CASE x = s
    BY <1>5, <1>6, <2>1, LossesNoCreates, NoCreates
  <2>2. CASE x # s
    <3>1. HaveSub(es, o, x) => HaveSub(dirs, o, x)
      BY <1>1, <1>2, <1>6, <2>2 DEF HaveSub
    <3>2. dirs[o].track \notin Shut
      BY <1>5 DEF Shut
    <3>3. Alternates(dirs[o].evq, x, HaveSub(dirs, o, x), x \in there \/ ~dirs[o].watching)
      BY <3>2, SubsAgree DEF Owns
    <3> QED
      BY <1>2, <1>6, <3>1, <3>3, Weaker
  <2> QED
    BY <2>1, <2>2
<1>11. \A f \in Files : HaveFile(es, files, o, f) => HaveFile(dirs, files, o, f)
  BY <1>2 DEF HaveFile
<1> QED
  BY <1>7, <1>8, <1>9, <1>10, <1>11 DEF GrownRoot

(* addDir called by track: NewDirectory may make the directory again, and  *)
(* the watch hears of it once more.                                        *)
LEMMA GrownInTrack ==
  ASSUME Inv, Owns, NEW o \in Obj(dirs), NEW s \in Subs, NEW b, NEW F, NEW es, Grown(o, s, b, F, es),
         dirs[o].path = Root,
         dirs[o].track = "addDir", dirs[o].arg = s, b.track = "newDir", b.arg = s,
         b.start = dirs[o].start, b.todo = dirs[o].todo
  PROVE  GrownRoot(o, s, es, there \cup {s})
<1> DEFINE u == there \cup {s}
           e == Event("create", s)
<1>1. FreshDir(es[F], s) /\ \A x : SubIn(es, x) <=> SubIn(dirs, x)
  BY GrownFresh
<1>2. /\ es[o].path = Root /\ es[o].watching = dirs[o].watching
      /\ es[o].start = dirs[o].start /\ es[o].todo = dirs[o].todo
      /\ es[o].track = "newDir" /\ es[o].arg = s /\ es[o].mu = F
      /\ s \in there \/ ~dirs[o].watching => es[o].evq = dirs[o].evq
      /\ s \notin there /\ dirs[o].watching => es[o].evq = Append(dirs[o].evq, e)
      /\ dirs[o].start # "newDir"
  BY DEF Grown
<1>3. e \in EventRecs /\ e.op = "create" /\ e.name = s
  BY DEF Event, EventRecs
<1> HIDE DEF e
<1>4. Begun(dirs[o]) /\ Begun(es[o])
  BY <1>2, BeganTracks DEF Begun
<1>5. ~SubIn(dirs, s)
  BY DEF Owns, OwnsOf, SubsInv, SubsNew
<1>6. dirs[o].evq \in Seq(EventRecs) /\ dirs[o].watching \in BOOLEAN
  BY InKind DEF Inv, InvOf
<1>7. ASSUME NEW x \in Subs PROVE Alternates(es[o].evq, x, HaveSub(es, o, x), x \in u \/ ~es[o].watching)
  <2>1. dirs[o].track \notin Shut
    BY DEF Shut
  <2>2. Alternates(dirs[o].evq, x, HaveSub(dirs, o, x), x \in there \/ ~dirs[o].watching)
    BY <2>1, SubsAgree DEF Owns
  <2>3. HaveSub(es, o, x) => HaveSub(dirs, o, x)
    BY <1>1, <1>2 DEF HaveSub
  <2>4. CASE s \in there \/ ~dirs[o].watching
    BY <1>2, <2>2, <2>3, <2>4, Weaker
  <2>5. CASE s \notin there /\ dirs[o].watching
    <3>0. es[o].evq = Append(dirs[o].evq, e)
      BY <1>2, <2>5
    <3>1. CASE x = s
      <4>1. Alternates(dirs[o].evq, s, HaveSub(dirs, o, s), FALSE)
        BY <2>2, <2>5, <3>1, Weaker
      <4>2. Alternates(es[o].evq, s, HaveSub(dirs, o, s), TRUE)
        BY <1>3, <1>6, <3>0, <4>1, AppendCreate
      <4> QED
        BY <2>3, <3>1, <4>2, Weaker
    <3>2. CASE x # s
      <4>1. Alternates(es[o].evq, x, HaveSub(dirs, o, x), x \in there \/ ~dirs[o].watching)
        BY <1>3, <1>6, <2>2, <3>0, <3>2, AppendOther
      <4> QED
        BY <1>2, <2>3, <4>1, Weaker
    <3> QED
      BY <3>1, <3>2
  <2> QED
    BY <2>4, <2>5
<1>8. \A f \in Files : HaveFile(es, files, o, f) => HaveFile(dirs, files, o, f)
  BY <1>2 DEF HaveFile
<1> QED
  BY <1>1, <1>2, <1>4, <1>5, <1>7, <1>8 DEF GrownRoot

(* addDir, up to the start of the new object, keeps the second invariant.  *)
LEMMA GrownOwns ==
  ASSUME Inv, Owns, NEW o \in Obj(dirs), NEW s \in Subs, NEW b, NEW F, NEW es, Grown(o, s, b, F, es),
         dirs[o].path = Root, GrownRoot(o, s, es, there \cup {s})
  PROVE  OwnsOf(es, files, born, there \cup {s})
<1> DEFINE u == there \cup {s}
           e == Event("create", s)
<1>0. /\ dirs \in DirMaps /\ DirInv(dirs, stopped) /\ OwnsOf(dirs, files, born, there)
      /\ FileInv(dirs, files, day, Ours)
  BY DEF Inv, InvOf, Owns
<1>1. FreshDir(es[F], s) /\ \A x : SubIn(es, x) <=> SubIn(dirs, x)
  BY GrownFresh
<1>2. /\ F \in DirIds /\ dirs[F] = None /\ o # F
      /\ Obj(es) = Obj(dirs) \cup {F}
      /\ \A p \in Obj(dirs) : p # o => es[p] = dirs[p] /\ dirs[p].path # Root /\ p # F
      /\ es[o].path = Root /\ es[o].listed = dirs[o].listed /\ es[o].mu = F
      /\ \A p \in Obj(dirs) : dirs[p].mu = None /\ dirs[p].start # "newDir"
  BY DEF Grown
<1>3. es[F].path = s /\ ~es[F].listed /\ es[F].track = "select" /\ es[F].start = "read" /\ s # Root
  BY <1>1 DEF FreshDir
<1>4. \A f : ~FileIn(files, F, f)
  BY <1>0, <1>2 DEF FileIn, FileInv, Placed, Obj
<1>5. Reads(es, files, u)
  <2> SUFFICES ASSUME NEW p \in Obj(es), ~Begun(es[p]) PROVE ReadingOK(es, files, u, p)
    BY DEF Reads
  <2>1. CASE p = o
    BY <2>1 DEF GrownRoot
  <2>2. CASE p = F
    BY <1>1, <1>4, <2>2 DEF ReadingOK, FreshDir, OnlyLosses
  <2>3. CASE p # o /\ p # F
    <3>1. es[p] = dirs[p] /\ p \in Obj(dirs) /\ dirs[p].start # "newDir" /\ dirs[p].path # Root
      BY <1>2, <2>3
    <3>2. ReadingOK(dirs, files, there, p)
      BY <1>0, <3>1 DEF OwnsOf, Reads
    <3> QED
      BY <1>1, <3>1, <3>2 DEF ReadingOK
  <2> QED
    BY <2>1, <2>2, <2>3
<1>6. SubsOnce(es)
  <2>1. SubsOnce(dirs)
    BY <1>0 DEF OwnsOf, SubsInv
  <2>2. \A p \in Obj(es) : es[p].listed => p \in Obj(dirs) /\ es[p].path = dirs[p].path /\ dirs[p].listed
    <3> SUFFICES ASSUME NEW p \in Obj(es), es[p].listed
                 PROVE  p \in Obj(dirs) /\ es[p].path = dirs[p].path /\ dirs[p].listed
      OBVIOUS
    <3>1. p # F
      BY <1>3
    <3> QED
      BY <1>2, <3>1
  <2> QED
    BY <2>1, <2>2 DEF SubsOnce
<1>7. SubsNew(es)
  <2> SUFFICES ASSUME NEW p \in Obj(es)
               PROVE  /\ es[p].track \in {"addDir", "newDir"} => ~SubIn(es, es[p].arg)
                      /\ es[p].start = "newDir" => ~SubIn(es, es[es[p].mu].path)
    BY DEF SubsNew
  <2>1. CASE p = o
    BY <1>2, <1>3, <2>1 DEF GrownRoot
  <2>2. CASE p = F
    BY <1>3, <2>2
  <2>3. CASE p # o /\ p # F
    <3>1. es[p] = dirs[p] /\ p \in Obj(dirs) /\ dirs[p].start # "newDir"
      BY <1>2, <2>3
    <3> QED
      BY <1>0, <1>1, <3>1 DEF OwnsOf, SubsInv, SubsNew
  <2> QED
    BY <2>1, <2>2, <2>3
<1>8. SubsAlternate(es, u)
  <2> SUFFICES ASSUME NEW p \in Obj(es), es[p].path = Root, NEW x \in Subs
               PROVE  Alternates(es[p].evq, x, HaveSub(es, p, x), x \in u \/ ~es[p].watching)
    BY DEF SubsAlternate
  <2>1. p = o
    BY <1>2, <1>3
  <2> QED
    BY <2>1 DEF GrownRoot
<1>9. Tending(es)
  <2> SUFFICES ASSUME NEW p \in Obj(es)
               PROVE  es[p].listed \/ (\E q \in Obj(es) : es[q].mu = p) \/ es[p].track \in Shut
    BY DEF Tending
  <2>1. CASE p = F
    BY <1>2, <2>1
  <2>2. CASE p = o
    <3>1. dirs[o].listed
      BY <1>0 DEF DirInv, Locals, Local
    <3> QED
      BY <1>2, <2>2, <3>1
  <2>3. CASE p # o /\ p # F
    <3>1. es[p] = dirs[p] /\ p \in Obj(dirs)
      BY <1>2, <2>3
    <3>2. p # None
      BY <3>1, DirectoryAssumption DEF Obj
    <3>3. dirs[p].listed \/ (\E q \in Obj(dirs) : dirs[q].mu = p) \/ dirs[p].track \in Shut
      BY <1>0, <3>1 DEF OwnsOf, SubsInv, Tending
    <3> QED
      BY <1>2, <3>1, <3>2, <3>3
  <2> QED
    BY <2>1, <2>2, <2>3
<1>10. ASSUME "rename" \notin Events PROVE FilesInv(es, files, born)
  <2>0. FilesInv(dirs, files, born)
    BY <1>0, <1>10 DEF OwnsOf
  <2>1. FilesNew(es, files)
    <3> SUFFICES ASSUME NEW p \in Obj(es), es[p].track = "addFile" PROVE ~FileIn(files, p, es[p].arg)
      BY DEF FilesNew
    <3>1. p \in Obj(dirs) /\ dirs[p].track = "addFile" /\ es[p].arg = dirs[p].arg
      <4>1. CASE p = o
        BY <4>1 DEF GrownRoot
      <4>2. CASE p # o
        <5>1. p # F
          BY <1>3
        <5> QED
          BY <1>2, <4>2, <5>1
      <4> QED
        BY <4>1, <4>2
    <3> QED
      BY <2>0, <3>1 DEF FilesInv, FilesNew
  <2>2. FilesAlternate(es, files, born)
    <3> SUFFICES ASSUME NEW p \in Obj(es), es[p].track \notin Shut, NEW f \in Files, In[f] = es[p].path
                 PROVE  Alternates(es[p].evq, f, HaveFile(es, files, p, f), born[f] # 0 \/ ~es[p].watching)
      BY DEF FilesAlternate
    <3>1. CASE p = F
      <4>1. ~HaveFile(es, files, F, f) /\ es[F].evq = <<>>
        BY <1>1, <1>4 DEF HaveFile, FreshDir
      <4>2. ~HaveFile(es, files, F, f) /\ \A t : Alternates(es[F].evq, f, FALSE, t)
        BY <4>1, NoQueue
      <4> QED
        BY <3>1, <4>2, Weaker
    <3>2. CASE p = o
      <4>1. HaveFile(es, files, o, f) => HaveFile(dirs, files, o, f)
        BY DEF GrownRoot
      <4>2. /\ dirs[o].track \notin Shut
            /\ s \in there \/ ~dirs[o].watching => es[o].evq = dirs[o].evq
            /\ s \notin there /\ dirs[o].watching => es[o].evq = Append(dirs[o].evq, e)
            /\ es[o].watching = dirs[o].watching
        BY DEF Grown
      <4>3. Alternates(dirs[o].evq, f, HaveFile(dirs, files, o, f), born[f] # 0 \/ ~dirs[o].watching)
        BY <1>0, <1>2, <1>10, <3>2, <4>2, FilesAgree
      <4>4. e \in EventRecs /\ e.name = s /\ s # f
        BY DirectoryAssumption DEF Event, EventRecs
      <4>5. dirs[o].evq \in Seq(EventRecs)
        BY <1>0, InKind
      <4> HIDE DEF e
      <4>6. Alternates(es[o].evq, f, HaveFile(dirs, files, o, f), born[f] # 0 \/ ~dirs[o].watching)
        <5>1. CASE s \in there \/ ~dirs[o].watching
          BY <4>2, <4>3, <5>1
        <5>2. CASE s \notin there /\ dirs[o].watching
          <6>1. es[o].evq = Append(dirs[o].evq, e)
            BY <4>2, <5>2
          <6> QED
            BY <4>3, <4>4, <4>5, <6>1, AppendOther
        <5> QED
          BY <5>1, <5>2
      <4> QED
        BY <3>2, <4>1, <4>2, <4>6, Weaker
    <3>3. CASE p # o /\ p # F
      <4>1. es[p] = dirs[p] /\ p \in Obj(dirs)
        BY <1>2, <3>3
      <4>2. Alternates(dirs[p].evq, f, HaveFile(dirs, files, p, f), born[f] # 0 \/ ~dirs[p].watching)
        BY <1>0, <1>10, <4>1, FilesAgree
      <4>3. HaveFile(es, files, p, f) => HaveFile(dirs, files, p, f)
        BY <4>1 DEF HaveFile
      <4> QED
        BY <4>1, <4>2, <4>3, Weaker
    <3> QED
      BY <3>1, <3>2, <3>3
  <2> QED
    BY <2>0, <2>1, <2>2 DEF FilesInv
<1> QED
  BY <1>0, <1>5, <1>6, <1>7, <1>8, <1>9, <1>10 DEF OwnsOf, SubsInv

(* StartDir keeps the second invariant.                                    *)
LEMMA StartDirOwns ==
  ASSUME Inv, Owns, NEW o \in Objs, NEW s \in Subs, StartDir(o, s)
  PROVE  Owns'
<1> DEFINE td == dirs[o].todo \ {s}
           b == [dirs[o] EXCEPT !.start = "newDir", !.todo = td]
           bs == [dirs EXCEPT ![o] = b]
           es == WithDir(s, o, bs)
           ts == [dirs EXCEPT ![o] = [dirs[o] EXCEPT !.todo = @ \ {s}]]
<1>0. /\ o \in Obj(dirs) /\ dirs[o] \in DirRecs /\ o \in DirIds /\ Local(dirs[o])
      /\ dirs \in DirMaps /\ files \in FileMaps
  BY Known
<1>8. CASE DirRefused(s, ts)
  <2>1. dirs[o].start = "list" /\ s \in dirs[o].todo /\ ~Begun(dirs[o])
    BY DEF StartDir, Begun
  <2>2. OwnsOf(ts, files, born, there)
    BY <2>1, EntryOwns
  <2>3. s \in there
    BY <1>0, <2>1 DEF Owns, OwnsOf, Reads, ReadingOK
  <2> HIDE DEF ts
  <2>4. dirs' = ts /\ there' = there
    BY <1>8, <2>3 DEF DirRefused, Made
  <2> QED
    BY <2>2, <2>4 DEF StartDir, Owns
<1>9. ts = [dirs EXCEPT ![o].todo = @ \ {s}]
  BY <1>0 DEF DirMaps, DirRecs
<1> SUFFICES ASSUME ~DirRefused(s, ts) PROVE Owns'
  BY <1>8
<1>1. /\ dirs[o].start = "list" /\ s \in dirs[o].todo /\ dirs[o].mu = None /\ DirLeft
      /\ dirs' = es /\ there' = there \cup {s} /\ born' = born /\ files' = files
  <2>1. bs = [dirs EXCEPT ![o].start = "newDir", ![o].todo = @ \ {s}]
    BY <1>0 DEF DirMaps, DirRecs
  <2>2. bs = [[dirs EXCEPT ![o].todo = @ \ {s}] EXCEPT ![o].start = "newDir"]
    BY <1>0 DEF DirMaps, DirRecs
  <2> HIDE DEF bs, ts
  <2> QED
    BY <1>9, <2>2 DEF StartDir, Unlocked
<1>2. dirs[o].path = Root
  BY <1>0, <1>1, DirectoryAssumption DEF Local, Names
<1>3. /\ b \in DirRecs /\ b.start = "newDir" /\ b.todo = dirs[o].todo \ {s} /\ b.path = dirs[o].path
      /\ b.listed = dirs[o].listed /\ b.watching = dirs[o].watching
      /\ b.track = dirs[o].track /\ b.arg = dirs[o].arg /\ b.evq = dirs[o].evq
  BY <1>0 DEF DirRecs
<1> HIDE DEF b
<1>4. dirs[o].track \notin Shut
  BY <1>0, <1>1 DEF Local, Begun
<1>5. Grown(o, s, b, FreeDir, es)
  BY <1>1, <1>2, <1>3, <1>4, WithDirFacts
<1> HIDE DEF es
<1>6. GrownRoot(o, s, es, there \cup {s})
  BY <1>0, <1>1, <1>2, <1>3, <1>5, GrownInStart
<1>7. OwnsOf(es, files, born, there \cup {s})
  BY <1>0, <1>2, <1>5, <1>6, GrownOwns
<1> QED
  BY <1>1, <1>7 DEF Owns

(* A NewDirectory that fails for a creation keeps the second invariant: if *)
(* it has made the directory, that is reported once more                   *)
(* (directory.go:57-67, 323-324).                                          *)
LEMMA RefusedOwns ==
  ASSUME Inv, Owns, NEW o \in Objs, dirs[o].track = "addDir",
         DirRefused(dirs[o].arg, Track(o, "select", None)), UNCHANGED <<born, stopped, files>>
  PROVE  Owns'
<1> DEFINE r == Selected(dirs[o])
           ds == Track(o, "select", None)
           s  == dirs[o].arg
           e  == Event("create", s)
<1>1. /\ o \in Obj(dirs) /\ dirs[o] \in DirRecs /\ o \in DirIds /\ Local(dirs[o])
      /\ dirs \in DirMaps /\ files \in FileMaps
  BY Known
<1>2. /\ r \in DirRecs /\ r.path = dirs[o].path /\ r.start = dirs[o].start /\ r.listed = dirs[o].listed
      /\ r.todo = dirs[o].todo /\ r.mu = dirs[o].mu /\ r.evq = dirs[o].evq /\ r.watching = dirs[o].watching
      /\ r.track = "select" /\ r.left = dirs[o].left /\ Begun(r) = Begun(dirs[o])
      /\ ds = [dirs EXCEPT ![o] = r] /\ ds[o] = r /\ ds \in DirMaps
      /\ \A p \in DirIds \ {o} : ds[p] = dirs[p]
      /\ Obj(ds) = Obj(dirs)
      /\ \A n : SubIn(ds, n) => SubIn(dirs, n)
  BY SelectFields
<1>3. Begun(dirs[o]) /\ s \in Subs /\ dirs[o].path = Root
  BY <1>1, BeganTracks DEF Local, OfDir
<1>4. InvOf(ds, files, day, stopped, Ours)
  BY ToSelect DEF Busy, Shut
<1>5. OwnsOf(ds, files, born, there)
  <2>1. \A g \in Files : HaveFile(ds, files, o, g) => HaveFile(dirs, files, o, g)
    BY <1>2 DEF HaveFile
  <2>2. \A n \in Subs : HaveSub(ds, o, n) => HaveSub(dirs, o, n)
    <3>1. dirs[o].start # "newDir"
      BY <1>3 DEF Begun
    <3> QED
      BY <1>2, <3>1 DEF HaveSub
  <2>3. r.track \notin Shut /\ dirs[o].track \notin Shut
    BY <1>2 DEF Shut
  <2>4. InvOf(dirs, files, day, stopped, Ours) /\ OwnsOf(dirs, files, born, there)
    BY DEF Inv, Owns
  <2> HIDE DEF ds, r
  <2> QED
    BY <1>1, <1>2, <2>1, <2>2, <2>3, <2>4, Shrinks, ZenonT(60)
<1>6. CASE dirs' = ds /\ there' = there
  BY <1>5, <1>6 DEF Owns
<1>7. CASE s \notin there /\ there' = there \cup {s} /\ dirs' = Notified(ds, Root, e)
  <2>1. e \in EventRecs /\ e.op = "create" /\ e.name = s /\ s \in Names(Root)
    BY <1>3 DEF Event, EventRecs, Names
  <2>2. \A p \in Obj(ds) : ds[p].path = Root => Begun(ds[p])
    <3>1. OneRoot(ds) /\ o \in Obj(ds) /\ ds[o].path = Root /\ Begun(ds[o])
      BY <1>1, <1>2, <1>3, <1>4 DEF InvOf, DirInv
    <3> HIDE DEF ds
    <3> QED
      BY <3>1 DEF OneRoot
  <2>3. \A f \in Files : e.name # f
    BY <2>1, <1>3, DirectoryAssumption
  <2>4. ds \in DirMaps /\ DirInv(ds, stopped)
    BY <1>4 DEF InvOf
  <2> HIDE DEF ds, e, s
  <2>5. OwnsOf(Notified(ds, Root, e), files, born, there \cup {s})
    BY <1>5, <1>7, <2>1, <2>2, <2>3, <2>4, NotifiedOwns
  <2> QED
    BY <1>7, <2>5 DEF Owns
<1> HIDE DEF ds
<1>8. \/ there' = there /\ dirs' = ds
      \/ there' = there \cup {s} /\ dirs' = Made(s, ds)
  BY DEF DirRefused, ds
<1>9. CASE s \in there
  BY <1>6, <1>8, <1>9 DEF Made
<1>10. CASE s \notin there
  BY <1>6, <1>7, <1>8, <1>10 DEF Made
<1> QED
  BY <1>9, <1>10

(* AddEventDir keeps the second invariant.                                 *)
LEMMA AddEventDirOwns ==
  ASSUME Inv, Owns, NEW o \in Objs, AddEventDir(o)
  PROVE  Owns'
<1> DEFINE s == dirs[o].arg
           b == [dirs[o] EXCEPT !.track = "newDir"]
           bs == [dirs EXCEPT ![o] = b]
           es == WithDir(s, o, bs)
<1>0. /\ o \in Obj(dirs) /\ dirs[o] \in DirRecs /\ o \in DirIds /\ Local(dirs[o])
      /\ dirs \in DirMaps /\ files \in FileMaps
  BY Known
<1>8. CASE DirRefused(s, Track(o, "select", None))
  <2>1. dirs[o].track = "addDir" /\ UNCHANGED <<born, stopped, files>>
    BY DEF AddEventDir
  <2> QED
    BY <1>8, <2>1, RefusedOwns
<1> SUFFICES ASSUME ~DirRefused(s, Track(o, "select", None)) PROVE Owns'
  BY <1>8
<1>1. /\ dirs[o].track = "addDir" /\ dirs[o].mu = None /\ DirLeft
      /\ dirs' = es /\ there' = there \cup {s} /\ born' = born /\ files' = files
  <2>1. bs = Track(o, "newDir", dirs[o].arg)
    BY <1>0 DEF DirMaps, DirRecs, Track
  <2> QED
    BY <2>1 DEF AddEventDir, Unlocked
<1>2. dirs[o].path = Root /\ s \in Subs
  BY <1>0, <1>1 DEF Local, OfDir
<1>3. /\ b \in DirRecs /\ b.start = dirs[o].start /\ b.todo = dirs[o].todo /\ b.path = dirs[o].path
      /\ b.listed = dirs[o].listed /\ b.watching = dirs[o].watching
      /\ b.track = "newDir" /\ b.arg = dirs[o].arg /\ b.evq = dirs[o].evq
  BY <1>0 DEF DirRecs
<1> HIDE DEF b
<1>4. dirs[o].track \notin Shut
  BY <1>1 DEF Shut
<1>5. Grown(o, s, b, FreeDir, es)
  BY <1>1, <1>2, <1>3, <1>4, WithDirFacts
<1> HIDE DEF es
<1>6. GrownRoot(o, s, es, there \cup {s})
  BY <1>0, <1>1, <1>2, <1>3, <1>5, GrownInTrack
<1>7. OwnsOf(es, files, born, there \cup {s})
  BY <1>0, <1>2, <1>5, <1>6, GrownOwns
<1> QED
  BY <1>1, <1>7 DEF Owns

(* The second invariant holds when START has made the rule's directory.    *)
LEMMA InitOwns == Init => Owns
<1> SUFFICES ASSUME Init PROVE Owns
  OBVIOUS
<1> DEFINE o == CHOOSE d \in DirIds : TRUE
<1>1. o \in DirIds /\ DirIds # {}
  BY DirectoryAssumption
<1>2. dirs = [d \in DirIds |-> IF d = o THEN NewDir(Root) ELSE None] /\ files = [i \in FileIds |-> None]
  BY DEF Init
<1> HIDE DEF o
<1>3. NewDir(Root) # None
  BY NewDirType, NoneIsNoObject
<1>4. Obj(dirs) = {o} /\ File(files) = {} /\ dirs[o] = NewDir(Root)
  BY <1>1, <1>2, <1>3 DEF Obj, File
<1>5. /\ dirs[o].path = Root /\ dirs[o].listed /\ dirs[o].evq = <<>> /\ dirs[o].start = "read"
      /\ dirs[o].todo = {} /\ dirs[o].track = "select" /\ dirs[o].mu = None
  <2>1. NewDir(Root).listed
    BY DEF NewDir
  <2> QED
    BY <1>4, <2>1 DEF NewDir
<1>6. \A p, f : ~FileIn(files, p, f)
  BY <1>4 DEF FileIn
<1>7. \A s \in Subs : ~SubIn(dirs, s)
  BY <1>4, <1>5, DirectoryAssumption DEF SubIn
<1>8. Reads(dirs, files, there)
  BY <1>4, <1>5, <1>6, <1>7 DEF Reads, ReadingOK, OnlyLosses
<1>9. FilesOnce(files) /\ Unasked(files)
  BY <1>4 DEF FilesOnce, Unasked
<1>10. SubsOnce(dirs) /\ SubsNew(dirs) /\ Tending(dirs)
  BY <1>4, <1>5 DEF SubsOnce, SubsNew, Tending
<1>11. SubsAlternate(dirs, there)
  <2> SUFFICES ASSUME NEW s \in Subs
               PROVE  Alternates(dirs[o].evq, s, HaveSub(dirs, o, s), s \in there \/ ~dirs[o].watching)
    BY <1>4 DEF SubsAlternate
  <2>1. ~HaveSub(dirs, o, s)
    BY <1>5, <1>7 DEF HaveSub
  <2>2. \A t : Alternates(dirs[o].evq, s, FALSE, t)
    BY <1>5, NoQueue
  <2> QED
    BY <2>1, <2>2, Weaker
<1>12. FilesNew(dirs, files)
  BY <1>6 DEF FilesNew
<1>13. FilesAlternate(dirs, files, born)
  <2> SUFFICES ASSUME NEW f \in Files
               PROVE  Alternates(dirs[o].evq, f, HaveFile(dirs, files, o, f), born[f] # 0 \/ ~dirs[o].watching)
    BY <1>4 DEF FilesAlternate
  <2>1. ~HaveFile(dirs, files, o, f)
    BY <1>5, <1>6 DEF HaveFile
  <2>2. \A t : Alternates(dirs[o].evq, f, FALSE, t)
    BY <1>5, NoQueue
  <2> QED
    BY <2>1, <2>2, Weaker
<1> QED
  BY <1>8, <1>9, <1>10, <1>11, <1>12, <1>13 DEF Owns, OwnsOf, SubsInv, FilesInv

(* Every step keeps the second invariant.                                  *)
LEMMA NextOwns ==
  ASSUME "early" \notin Events, Inv, WorldOK, Owns, Next
  PROVE  Owns'
<1>0. there \subseteq Subs /\ Inv'
  BY NextInv DEF WorldOK
<1>1. CASE World
  <2>1. ASSUME Midnight \/ StopRule PROVE Owns'
    BY <2>1, IdleOwns DEF Midnight, StopRule
  <2> QED
    BY <1>1, <2>1, CreateFileOwns, LeaveOwns, MakeDirOwns, RemoveEmptyDirOwns DEF World
<1>2. ASSUME NEW o \in Objs, StartNext(o) PROVE Owns'
  BY <1>0, <1>2, ReadDirOwns, DirAddedOwns, StartFileOwns, StartDirOwns DEF StartNext
<1>3. ASSUME NEW o \in Objs, TrackNext(o) PROVE Owns'
  BY <1>0, <1>3, TakeEventOwns, AddEventFileOwns, AddEventDirOwns, RemoveFileOwns, RemoveDirOwns, CloseDirOwns,
     RemoveDirFileOwns, CloseFileOwns, DirRemovedOwns, TakeStopOwns, FileClosedOwns, TrackEndOwns DEF TrackNext
<1>4. ASSUME NEW o \in Objs, Monitor(o) PROVE Owns'
  BY <1>0, <1>4, LetGoOwns DEF Monitor
<1>5. ASSUME NEW o \in Objs, Flusher(o) PROVE Owns'
  BY <1>5, IdleOwns DEF Flusher, Flush, fs
<1>6. ASSUME NEW i \in Tails, TailNext(i) PROVE Owns'
  BY <1>0, <1>6, TailOwns
<1> QED
  BY <1>1, <1>2, <1>3, <1>4, <1>5, <1>6 DEF Next

(* If nothing is created in a directory while its object reads it, then    *)
(* every name is listed at most once in each directory, the events still   *)
(* to come about it alternate with what the directory has heard, and every *)
(* object is reachable from the rule's directory or closing                *)
(* (directory.go:64-89, 140-246, 278-335).                                 *)
THEOREM Ownership == "early" \notin Events => (Spec => [](Inv /\ Owns))
<1> SUFFICES ASSUME "early" \notin Events PROVE Spec => [](Inv /\ Owns)
  OBVIOUS
<1>1. Init => Owns
  BY InitOwns
<1>2. Inv /\ WorldOK /\ Owns /\ [Next]_vars => Owns'
  <2> SUFFICES ASSUME Inv, WorldOK, Owns, [Next]_vars PROVE Owns'
    OBVIOUS
  <2>1. CASE Next
    BY <2>1, NextOwns
  <2>2. CASE UNCHANGED vars
    BY <2>2, IdleOwns DEF vars, fs
  <2> QED
    BY <2>1, <2>2
<1> QED
  BY <1>1, <1>2, Invariance, PTL DEF Spec

(* The directory of a listed file is reachable or closes its files.        *)
LEMMA SomebodyTends ==
  ASSUME Inv, Owns, NEW i \in Tails, files[i].listed
  PROVE  /\ files[i].dir \in Objs
         /\ Reachable(files[i].dir) \/ dirs[files[i].dir].track \in Shut
<1>1. files[i].dir \in Obj(dirs)
  BY ObjsSame DEF Inv, InvOf, FileInv, Placed
<1> QED
  BY <1>1, ObjsSame DEF Owns, OwnsOf, SubsInv, Tending, Reachable

(* If nothing is created in a directory while its object reads it, then    *)
(* whatever calls fail, once every removal has been dealt with the only    *)
(* positions are those of files somebody lists, those a DEL failed to      *)
(* delete, those saved before this START and those of files whose day is   *)
(* over (directory.go:113-128, 231-246, 337-348).                          *)
THEOREM Forgotten == "early" \notin Events => (Spec => []RemovedForgotten)
<1>1. Inv /\ Owns => RemovedForgotten
  <2> SUFFICES ASSUME Inv, Owns, Quiet, NEW f \in Ours, ~(Date[f] < day)
               PROVE  \E o \in Objs : Reachable(o) /\ \E i \in FileMap(o) : files[i].path = f
    BY DEF RemovedForgotten, Ours
  <2>1. PICK i \in Tails : files[i].listed /\ files[i].path = f
    BY ObjsSame DEF Inv, InvOf, FileInv, Accounted
  <2>2. files[i].dir \in Objs /\ Reachable(files[i].dir)
    BY <2>1, SomebodyTends DEF Quiet, Shut
  <2> QED
    BY <2>1, <2>2 DEF FileMap
<1> QED
  BY <1>1, Ownership, PTL

(* If moreover no file is renamed, a tail that nobody has asked to end is  *)
(* listed in a directory that is tended: STOP, a removal and the date      *)
(* monitor reach every tail (directory.go:154-246, 337-357).               *)
THEOREM NoOrphans == Events \cap {"early", "rename"} = {} => (Spec => []NoOrphanTail)
<1> SUFFICES ASSUME "early" \notin Events, "rename" \notin Events PROVE Spec => []NoOrphanTail
  OBVIOUS
<1>1. Inv /\ Owns => NoOrphanTail
  <2> SUFFICES ASSUME Inv, Owns, NEW i \in Tails, files[i].tail = "live", ~files[i].asked
               PROVE  files[i].listed /\ Tended(files[i].dir)
    BY DEF NoOrphanTail
  <2>1. files[i].listed
    BY FilesPart, ObjsSame DEF FilesInv, Unasked, Live
  <2>2. /\ files[i].dir \in Objs
        /\ Reachable(files[i].dir) \/ dirs[files[i].dir].track \in Shut
    BY <2>1, SomebodyTends
  <2>3. dirs[files[i].dir].track # "end"
    BY <2>1, <2>2, ObjsSame DEF Inv, InvOf, FileInv, Closers, Live, Shut
  <2> QED
    BY <2>1, <2>2, <2>3 DEF Tended, Shut
<1>2. Spec => [](Inv /\ Owns)
  BY Ownership
<1> QED
  BY <1>1, <1>2, PTL
=============================================================================

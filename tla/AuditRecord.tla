---------------------------- MODULE AuditRecord ----------------------------
(***************************************************************************)
(* How a line becomes an audit record: internal/runtime.go and visitor.go, *)
(* run by the goroutine of each file of a running rule (file.tailing) and  *)
(* by each TEST of the same rule; the writer of each file, which puts the  *)
(* record into the collection of the day; and the web query that finds it. *)
(* A step reads or writes one variable that goroutines may share.  A value *)
(* cut from a line is named by the line and the expression that cut it.    *)
(***************************************************************************)
EXTENDS Integers, Sequences

CONSTANTS
  Files,      \* files that are followed
  Testers,    \* clients that TEST the rule
  LinesOf,    \* the lines each of them gets
  DirOf,      \* the directory each file is in
  HostOf,     \* host and date in each file's name
  DateOf,
  Matching,   \* lines that match linePattern and linePrefixPattern
  Width,      \* the columns of each line
  Finds,      \* the expressions found in each line
  Rules,      \* texts the rule may have
  Typed,      \* spellings of systemType that name a part
  Server,     \* the parts that the server keeps for its TESTs
  LastDay,    \* bound: days that may come
  None

Actors == Files \cup Testers
Lines  == UNION {LinesOf[c] : c \in Actors}
Order  == <<"DateTime", "IpAddr", "State", "UserName">>
Names  == {Order[i] : i \in DOMAIN Order}

(* A column of the pattern: left out, an expression or a column number.    *)
Absent == [kind |-> "absent"]
Re(x)  == [kind |-> "re", re |-> x]
Col(n) == [kind |-> "col", n |-> n]

ASSUME AuditRecordAssumption ==
  /\ Files \cap Testers = {}
  /\ \A c, d \in Actors : c # d => LinesOf[c] \cap LinesOf[d] = {}
  /\ \A l \in Lines : Width[l] \in Nat \ {0}
  /\ LastDay \in Nat \ {0} /\ \A f \in Files : DateOf[f] \in 1 .. LastDay
  /\ \A r \in Rules : r.columns = None \/
       /\ DOMAIN r.columns = Names
       /\ \A n \in Names : /\ r.columns[n].kind \in {"absent", "re", "col"}
                           /\ r.columns[n].kind = "col" => r.columns[n].n \in Int

VARIABLES
  rule,      \* the text of the rule
  up,        \* the server runs
  day,       \* the date
  coll,      \* DBWrite.Collections: the day of the collection written to
  taken,     \* the lines each actor has taken so far
  at,        \* where each actor is, and its local variables
  ops,       \* RuntimeOptions.o, a pointer and a length, of each options object
  content,   \* the Content of the part of each LogParts
  writer,    \* the record that each file's writer inserts
  db,        \* the records of the database
  replies,   \* what TESTs have been answered
  dropped    \* history: lines without a record

vars == <<rule, up, day, coll, taken, at, ops, content, writer, db, replies, dropped>>

Halves  == {"ptr", "len"}
NoOp    == [h \in Halves |-> None]
Blank   == [n \in Names |-> None]
Idle    == [pc |-> "idle", line |-> None, left |-> {}, row |-> Blank, op |-> NoOp,
            data |-> None]

-----------------------------------------------------------------------------
(* Pieces of the code, each with a slip that the properties must notice.   *)

(* The options object that an actor works with: Clone gives each directory *)
(* its own, and a TEST makes one.                                          *)
NotCloned(c) == IF c \in Testers THEN c ELSE Server
OptionsOf(c) == IF c \in Testers THEN c ELSE DirOf[c]

(* Each file has its own parts; the server has one set for every TEST.     *)
PartsOf(c) == IF c \in Testers THEN Server ELSE c

(* newSS[int(v)-1] exists if the number is at least 1 and no more than the *)
(* columns of the line; the code skips numbers further off than one.       *)
NeverTooFar(n, l) == FALSE
TooFar(n, l) == Width[l] + 1 < n

(* The records of a day are in the collection named after it.              *)
OneDash(date) == 0
CollectionOf(date) == date

(* gencoll names the collection after the day.                             *)
Yesterday == day - 1
Today == day

-----------------------------------------------------------------------------
(* ColumnPattern.unMarshal.  A rule without columnPattern leaves it nil,   *)
(* but TEST begins with an empty one.                                      *)

Columns(c) == IF rule.columns = None /\ c \in Testers
              THEN [n \in Names |-> Absent] ELSE rule.columns

(* One turn of the loop over the fields.                                   *)
Field(p, l, m, name) ==
  LET e   == p[name]
      Set(v) == [m EXCEPT !.row[name] = v]
  IN IF m.pc # "loop" THEN m
     ELSE CASE e.kind = "re" /\ e.re \in Finds[l]    -> Set(<<l, e>>)
            [] e.kind = "re" /\ e.re \notin Finds[l] -> [m EXCEPT !.pc = "return"]
            [] e.kind = "col" /\ TooFar(e.n, l)      -> m
            [] e.kind = "col" /\ e.n \in 1 .. Width[l] -> Set(<<l, e>>)
            [] e.kind = "absent"                     -> Set(None)
            [] OTHER                                 -> [m EXCEPT !.pc = "panic"]

unMarshal(p, l) ==
  LET Turn(m, i) == Field(p, l, m, Order[i])
  IN IF p = None THEN [pc |-> "panic", row |-> Blank]
     ELSE Turn(Turn(Turn(Turn([pc |-> "loop", row |-> Blank], 1), 2), 3), 4)

-----------------------------------------------------------------------------
(* An actor's steps: Handle, the visitor and Send.                         *)

Go(c, f) == at' = [at EXCEPT ![c] = f]
With(c, pc, left) == [at[c] EXCEPT !.pc = pc, !.left = left]

Visited(l) == l \in Matching /\ rule.type \in Typed

Take(c, l) ==
  /\ at[c].pc = "idle"
  /\ l \in LinesOf[c] \ taken[c]
  /\ taken' = [taken EXCEPT ![c] = @ \cup {l}]
  /\ \/ /\ Visited(l)
        /\ Go(c, [With(c, "store", Halves) EXCEPT !.line = l])
        /\ UNCHANGED dropped
     \/ /\ ~Visited(l)
        /\ dropped' = dropped \cup {l}
        /\ UNCHANGED at
  /\ UNCHANGED <<rule, up, day, coll, ops, content, writer, db, replies>>

(* ro.o = ... is not atomic.                                               *)
Store(c, h) ==
  /\ at[c].pc = "store"
  /\ h \in at[c].left
  /\ ops' = [ops EXCEPT ![OptionsOf(c)][h] = at[c].line]
  /\ Go(c, With(c, "store", at[c].left \ {h}))
  /\ UNCHANGED <<rule, up, day, coll, taken, content, writer, db, replies, dropped>>

FillColumns(c) ==
  /\ at[c].pc = "store"
  /\ at[c].left = {}
  /\ LET m == unMarshal(Columns(c), at[c].line) IN
     IF m.pc = "panic" THEN up' = FALSE /\ UNCHANGED at
     ELSE Go(c, [With(c, "load", Halves) EXCEPT !.row = m.row]) /\ UNCHANGED up
  /\ UNCHANGED <<rule, day, coll, taken, ops, content, writer, db, replies, dropped>>

(* res.Operation = ro.o                                                    *)
Load(c, h) ==
  /\ at[c].pc = "load"
  /\ h \in at[c].left
  /\ Go(c, [With(c, "load", at[c].left \ {h}) EXCEPT !.op[h] = ops[OptionsOf(c)][h]])
  /\ UNCHANGED <<rule, up, day, coll, taken, ops, content, writer, db, replies, dropped>>

Publish(c) ==
  /\ at[c].pc = "load"
  /\ at[c].left = {}
  /\ content' = [content EXCEPT ![PartsOf(c)] = [row |-> at[c].row, op |-> at[c].op]]
  /\ Go(c, With(c, "send", {}))
  /\ UNCHANGED <<rule, up, day, coll, taken, ops, writer, db, replies, dropped>>

Send(c) ==
  /\ at[c].pc = "send"
  /\ Go(c, [With(c, "pass", {}) EXCEPT !.data = content[PartsOf(c)]])
  /\ UNCHANGED <<rule, up, day, coll, taken, ops, content, writer, db, replies, dropped>>

(* The channel to the writer has no buffer.                                *)
Pass(c) ==
  /\ at[c].pc = "pass"
  /\ c \in Files
  /\ writer[c] = None
  /\ writer' = [writer EXCEPT ![c] = [line |-> at[c].line, rec |-> at[c].data]]
  /\ Go(c, Idle)
  /\ UNCHANGED <<rule, up, day, coll, taken, ops, content, db, replies, dropped>>

Answer(c) ==
  /\ at[c].pc = "pass"
  /\ c \in Testers
  /\ replies' = replies \cup {[line |-> at[c].line, rec |-> at[c].data]}
  /\ Go(c, Idle)
  /\ UNCHANGED <<rule, up, day, coll, taken, ops, content, writer, db, dropped>>

(* The writer of a file.                                                   *)
Write(f) ==
  /\ writer[f] # None
  /\ db' = db \cup {[coll |-> coll, Host |-> HostOf[f], Date |-> DateOf[f],
                     SystemType |-> rule.type,
                     line |-> writer[f].line, rec |-> writer[f].rec]}
  /\ writer' = [writer EXCEPT ![f] = None]
  /\ UNCHANGED <<rule, up, day, coll, taken, at, ops, content, replies, dropped>>

WriteFails(f) ==
  /\ writer[f] # None
  /\ dropped' = dropped \cup {writer[f].line}
  /\ writer' = [writer EXCEPT ![f] = None]
  /\ UNCHANGED <<rule, up, day, coll, taken, at, ops, content, db, replies>>

Midnight ==
  /\ day < LastDay
  /\ day' = day + 1
  /\ UNCHANGED <<rule, up, coll, taken, at, ops, content, writer, db, replies, dropped>>

(* updateCollection's ticker.                                              *)
Tick ==
  /\ coll # Today
  /\ coll' = Today
  /\ UNCHANGED <<rule, up, day, taken, at, ops, content, writer, db, replies, dropped>>

(* The web query.  A form is a function from its filled-in fields to their *)
(* values; without a date there is no collection to look in.               *)
Query(form) ==
  {r \in db : /\ "Date" \in DOMAIN form
              /\ r.coll = CollectionOf(form["Date"])
              /\ \A k \in DOMAIN form : r[k] = form[k]}

-----------------------------------------------------------------------------
Init ==
  /\ rule \in Rules
  /\ up = TRUE
  /\ day = 1 /\ coll = Today
  /\ taken = [c \in Actors |-> {}]
  /\ at = [c \in Actors |-> Idle]
  /\ ops = [o \in {OptionsOf(c) : c \in Actors} |-> NoOp]
  /\ content = [p \in {PartsOf(c) : c \in Actors} |-> None]
  /\ writer = [f \in Files |-> None]
  /\ db = {} /\ replies = {} /\ dropped = {}

Handle(c) == up /\ \/ \E l \in LinesOf[c] : Take(c, l)
                   \/ \E h \in Halves : Store(c, h) \/ Load(c, h)
                   \/ FillColumns(c) \/ Publish(c) \/ Send(c) \/ Pass(c) \/ Answer(c)
Insert(f) == up /\ (Write(f) \/ WriteFails(f))

Next == \/ \E c \in Actors : Handle(c)
        \/ \E f \in Files : Insert(f)
        \/ up /\ (Midnight \/ Tick)

Spec == Init /\ [][Next]_vars

(* Goroutines that can go on do, in the end.                               *)
Fairness == /\ \A c \in Actors : WF_vars(Handle(c))
            /\ \A f \in Files : WF_vars(Insert(f))

FairSpec == Spec /\ Fairness

-----------------------------------------------------------------------------
(* Properties.                                                             *)

TypeOK ==
  /\ rule \in Rules /\ up \in BOOLEAN
  /\ day \in 1 .. LastDay /\ coll \in 1 .. LastDay
  /\ \A c \in Actors : taken[c] \subseteq LinesOf[c]
  /\ \A c \in Actors : /\ at[c].left \subseteq Halves
                       /\ at[c].pc \in {"idle", "store", "load", "send", "pass"}
  /\ \A o \in DOMAIN ops : ops[o] \in [Halves -> Lines \cup {None}]
  /\ dropped \subseteq Lines

(* What a rule says of a line, field by field: a field is filled in if its *)
(* expression is found or its column exists, and so are all expressions    *)
(* before it.                                                              *)
Reached(p, l, i) ==
  \A j \in 1 .. i : p[Order[j]].kind = "re" => p[Order[j]].re \in Finds[l]
RowOf(p, l) ==
  [n \in Names |->
     LET i == CHOOSE k \in DOMAIN Order : Order[k] = n
     IN IF /\ Reached(p, l, i)
           /\ p[n].kind # "absent"
           /\ p[n].kind = "col" => p[n].n \in 1 .. Width[l]
        THEN <<l, p[n]>> ELSE None]
Fatal(p, l) ==
  \/ p = None
  \/ \E i \in DOMAIN Order : /\ Reached(p, l, i)
                             /\ p[Order[i]].kind = "col"
                             /\ p[Order[i]].n < 1 \/ p[Order[i]].n = Width[l] + 1

(* A record of the database and the answer to a TEST describe the line     *)
(* they were made from and no other, whatever lines are handled at the     *)
(* same time, and fill in the fields the rule says (runtime.go:158-167,    *)
(* logtype.go, server.go:262).                                             *)
OfItsLine(c, r) ==
  /\ ~Fatal(Columns(c), r.line)
  /\ r.rec.row = RowOf(Columns(c), r.line)
  /\ \A h \in Halves : r.rec.op[h] = r.line
Made(c, rs) == {r \in rs : r.line \in LinesOf[c]}
OwnRecord == \A c \in Actors : \A r \in Made(c, db) \cup Made(c, replies) : OfItsLine(c, r)

(* The server dies only of a rule without columnPattern that is mined, or  *)
(* of a column number that is below 1 or one more than the columns of a    *)
(* line it is asked for; any other rule and line do no harm                *)
(* (runtime.go:67-83).                                                     *)
DiesOnlyAtTheEdge ==
  ~up => \E c \in Actors : \E l \in taken[c] : Visited(l) /\ Fatal(Columns(c), l)

(* A line in hand on the day of its file, as its writer knows the day, is  *)
(* found by the web query for that day and host, unless no record can be   *)
(* made of it, its insert fails, the day ends first or the server dies     *)
(* (dbwrite.go:27-65, srv.go:92-124).                                      *)
Found(f, l) ==
  \E r \in Query([Date |-> DateOf[f], Host |-> HostOf[f]]) : r.line = l
TakenThenFound ==
  \A f \in Files : \A l \in LinesOf[f] :
    at[f].line = l /\ coll = day /\ day = DateOf[f] ~>
      Found(f, l) \/ l \in dropped \/ day # DateOf[f] \/ ~up
=============================================================================

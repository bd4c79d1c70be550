-------------------------- MODULE AuditRecordProofs --------------------------
(***************************************************************************)
(* For any files, lines and rules: the loop over the columns does what the *)
(* properties say it should; the server dies only at its edges, whoever    *)
(* shares what; and a record is of its own line as long as no two          *)
(* goroutines share an options object or the parts of a record.  The two   *)
(* halves of the operation are stored and loaded one by one, so the last   *)
(* invariant follows the line through every place that holds it.           *)
(***************************************************************************)
EXTENDS AuditRecord, TLAPS

-----------------------------------------------------------------------------
(* ColumnPattern.unMarshal, turn by turn.                                  *)

(* What the assumption says of the columns of a rule that has any.         *)
Columned(p) ==
  /\ DOMAIN p = Names
  /\ \A n \in Names : /\ p[n].kind \in {"absent", "re", "col"}
                      /\ p[n].kind = "col" => p[n].n \in Int

(* The value of a field that the loop gets to.                             *)
Filled(p, l, i) ==
  IF p[Order[i]].kind # "absent" /\ (p[Order[i]].kind = "col" => p[Order[i]].n \in 1 .. Width[l])
  THEN <<l, p[Order[i]]>> ELSE None

(* A turn that panics.                                                     *)
AtEdge(p, l, i) ==
  /\ Reached(p, l, i)
  /\ p[Order[i]].kind = "col"
  /\ p[Order[i]].n < 1 \/ p[Order[i]].n = Width[l] + 1

(* The struct has four fields, one after the other.                        *)
LEMMA FourFields ==
  /\ DOMAIN Order = 1 .. 4
  /\ \A i, j \in 1 .. 4 : Order[i] = Order[j] => i = j
  /\ Names = {Order[1], Order[2], Order[3], Order[4]}
<1>1. DOMAIN Order = 1 .. 4
  BY DEF Order
<1>2. \A i \in 1 .. 4 : i = 1 \/ i = 2 \/ i = 3 \/ i = 4
  OBVIOUS
<1>3. Order[1] = "DateTime" /\ Order[2] = "IpAddr" /\ Order[3] = "State" /\ Order[4] = "UserName"
  BY DEF Order
<1>4. \A i, j \in 1 .. 4 : Order[i] = Order[j] => i = j
  BY <1>2, <1>3
<1>5. Names = {Order[1], Order[2], Order[3], Order[4]}
  BY <1>1, <1>2 DEF Names
<1> QED
  BY <1>1, <1>4, <1>5

(* What a record should have in its i-th field.                            *)
LEMMA RowIs ==
  ASSUME NEW p, NEW l, NEW i \in 1 .. 4
  PROVE  RowOf(p, l)[Order[i]] = IF Reached(p, l, i) THEN Filled(p, l, i) ELSE None
<1>1. (CHOOSE k \in DOMAIN Order : Order[k] = Order[i]) = i
  BY FourFields
<1>2. Order[i] \in Names
  BY FourFields DEF Names
<1> QED
  BY <1>1, <1>2 DEF RowOf, Filled

(* What k turns of the loop have made of an empty row: the fields so far,  *)
(* unless an expression was not found (the rest is left out) or a column   *)
(* number was at its edge (the process dies).                              *)
After(p, l, k, m) ==
  /\ m.pc \in {"loop", "return", "panic"}
  /\ m.row = [n \in Names |-> m.row[n]]
  /\ m.pc = "loop" => Reached(p, l, k)
  /\ m.pc = "return" => \A i \in k + 1 .. 4 : ~Reached(p, l, i)
  /\ m.pc = "panic" <=> \E i \in 1 .. k : AtEdge(p, l, i)
  /\ m.pc # "panic" =>
       \A i \in 1 .. 4 : m.row[Order[i]] =
         IF i <= k /\ Reached(p, l, i) THEN Filled(p, l, i) ELSE None

(* Another turn.                                                           *)
LEMMA OneTurn ==
  ASSUME NEW p, NEW l \in Lines, Columned(p), NEW k \in 0 .. 3, NEW m, After(p, l, k, m),
         m = [pc |-> m.pc, row |-> m.row]
  PROVE  LET q == Field(p, l, m, Order[k + 1])
         IN After(p, l, k + 1, q) /\ q = [pc |-> q.pc, row |-> q.row]
<1> DEFINE q == Field(p, l, m, Order[k + 1])
           e == p[Order[k + 1]]
<1>1. Order[k + 1] \in Names /\ k + 1 \in 1 .. 4
  BY FourFields DEF Names
<1>2. e.kind \in {"absent", "re", "col"} /\ (e.kind = "col" => e.n \in Int)
  BY <1>1 DEF Columned
<1>3. Width[l] \in Nat \ {0}
  BY AuditRecordAssumption
<1>4. Reached(p, l, k + 1) <=> Reached(p, l, k) /\ (e.kind = "re" => e.re \in Finds[l])
  BY DEF Reached
<1>5. \A i \in k + 1 .. 4 : Reached(p, l, i) => Reached(p, l, k + 1)
  BY DEF Reached
<1>5a. \A i \in 1 .. k : Reached(p, l, k) => Reached(p, l, i)
  BY DEF Reached
<1>6. (\E i \in 1 .. k + 1 : AtEdge(p, l, i)) <=> (\E i \in 1 .. k : AtEdge(p, l, i)) \/ AtEdge(p, l, k + 1)
  OBVIOUS
<1>7. CASE m.pc # "loop"
  <2>1. q = m
    BY <1>7 DEF Field
  <2>2. m.pc = "return" => ~Reached(p, l, k + 1)
    BY <1>1 DEF After
  <2>3. m.pc = "panic" <=> \E i \in 1 .. k + 1 : AtEdge(p, l, i)
    BY <2>2, <1>6, <1>7 DEF After, AtEdge
  <2>4. ASSUME m.pc # "panic", NEW i \in 1 .. 4
        PROVE  m.row[Order[i]] = IF i <= k + 1 /\ Reached(p, l, i) THEN Filled(p, l, i) ELSE None
    <3>1. CASE i = k + 1
      BY <2>2, <2>4, <1>7, <3>1 DEF After
    <3>2. CASE i # k + 1
      BY <2>4, <3>2 DEF After
    <3> QED
      BY <3>1, <3>2
  <2> QED
    BY <2>1, <2>3, <2>4, <1>7 DEF After
<1>8. CASE m.pc = "loop"
  <2> DEFINE Set(v) == [m EXCEPT !.row[Order[k + 1]] = v]
  <2>1. Reached(p, l, k) /\ ~\E i \in 1 .. k : AtEdge(p, l, i)
    BY <1>8 DEF After
  <2>2. ASSUME NEW v, q = Set(v), Reached(p, l, k + 1), ~AtEdge(p, l, k + 1), Filled(p, l, k + 1) = v
        PROVE  After(p, l, k + 1, q) /\ q = [pc |-> q.pc, row |-> q.row]
    <3>1. q.pc = "loop" /\ q.row = [m.row EXCEPT ![Order[k + 1]] = v] /\ q = [pc |-> q.pc, row |-> q.row]
      BY <2>2, <1>8
    <3>2. \A i \in 1 .. 4 : q.row[Order[i]] = IF i = k + 1 THEN v ELSE m.row[Order[i]]
      BY <3>1, <1>1, FourFields DEF After
    <3>3. \A i \in 1 .. 4 : q.row[Order[i]] =
             IF i <= k + 1 /\ Reached(p, l, i) THEN Filled(p, l, i) ELSE None
      BY <3>2, <2>2, <1>8 DEF After
    <3>4. q.row = [n \in Names |-> q.row[n]]
      BY <3>1 DEF After
    <3> QED
      BY <3>1, <3>3, <3>4, <2>1, <2>2, <1>6 DEF After
  <2>3. CASE e.kind = "re" /\ e.re \in Finds[l]
    <3>1. q = Set(<<l, e>>)
      BY <2>3, <1>8 DEF Field
    <3> QED
      BY <3>1, <2>1, <2>2, <2>3, <1>4 DEF Filled, AtEdge
  <2>4. CASE e.kind = "re" /\ e.re \notin Finds[l]
    <3>1. q = [m EXCEPT !.pc = "return"]
      BY <2>4, <1>8 DEF Field
    <3>2. ~Reached(p, l, k + 1)
      BY <2>4, <1>4
    <3> QED
      BY <3>1, <3>2, <2>1, <1>5, <1>6, <1>8 DEF After, AtEdge
  <2>5. CASE e.kind = "col" /\ TooFar(e.n, l)
    <3>0. e.n \notin 1 .. Width[l]
      BY <2>5, <1>2, <1>3 DEF TooFar
    <3>1. q = m
      BY <2>5, <3>0, <1>8 DEF Field
    <3>2. Reached(p, l, k + 1) /\ ~AtEdge(p, l, k + 1) /\ Filled(p, l, k + 1) = None
      BY <2>5, <2>1, <1>2, <1>3, <1>4 DEF TooFar, AtEdge, Filled
    <3> QED
      BY <3>1, <3>2, <2>1, <1>6, <1>8 DEF After
  <2>6. CASE e.kind = "col" /\ ~TooFar(e.n, l) /\ e.n \in 1 .. Width[l]
    <3>1. q = Set(<<l, e>>)
      BY <2>6, <1>8 DEF Field
    <3>2. Reached(p, l, k + 1) /\ ~AtEdge(p, l, k + 1) /\ Filled(p, l, k + 1) = <<l, e>>
      BY <2>6, <2>1, <1>2, <1>3, <1>4 DEF AtEdge, Filled
    <3> QED
      BY <3>1, <3>2, <2>2
  <2>7. CASE e.kind = "absent"
    <3>1. q = Set(None)
      BY <2>7, <1>8 DEF Field
    <3> QED
      BY <3>1, <2>1, <2>2, <2>7, <1>4 DEF Filled, AtEdge
  <2>8. CASE e.kind = "col" /\ ~TooFar(e.n, l) /\ e.n \notin 1 .. Width[l]
    <3>1. q = [m EXCEPT !.pc = "panic"]
      BY <2>8, <1>8 DEF Field
    <3>2. AtEdge(p, l, k + 1)
      BY <2>8, <2>1, <1>2, <1>3, <1>4 DEF TooFar, AtEdge
    <3> QED
      BY <3>1, <3>2, <1>6, <1>8 DEF After
  <2> QED
    BY <2>3, <2>4, <2>5, <2>6, <2>7, <2>8, <1>2
<1> QED
  BY <1>7, <1>8

(* The loop fills in the row that RowOf describes, and panics exactly when *)
(* Fatal says so (runtime.go:30-93).                                       *)
LEMMA UnMarshal ==
  ASSUME NEW p, NEW l \in Lines, p = None \/ Columned(p)
  PROVE  /\ unMarshal(p, l).pc = "panic" <=> Fatal(p, l)
         /\ unMarshal(p, l).pc # "panic" => unMarshal(p, l).row = RowOf(p, l)
<1>1. CASE p = None
  BY <1>1 DEF unMarshal, Fatal
<1>2. CASE p # None
  <2> DEFINE Turn(m, i) == Field(p, l, m, Order[i])
             m0 == [pc |-> "loop", row |-> Blank]
             Good(k, m) == After(p, l, k, m) /\ m = [pc |-> m.pc, row |-> m.row]
  <2>1. Columned(p)
    BY <1>2
  <2>2. Good(0, m0)
    BY FourFields DEF After, Reached, Blank, Names
  <2>3. \A k \in 0 .. 3 : \A m : Good(k, m) => Good(k + 1, Turn(m, k + 1))
    BY <2>1, OneTurn
  <2> DEFINE m1 == Turn(m0, 1)
             m2 == Turn(m1, 2)
             m3 == Turn(m2, 3)
             m4 == Turn(m3, 4)
  <2>4. unMarshal(p, l) = m4
    BY <1>2 DEF unMarshal
  <2> HIDE DEF m0, Good, Turn
  <2>5. Good(1, m1)
    BY <2>2, <2>3
  <2> HIDE DEF m1
  <2>6. Good(2, m2)
    BY <2>3, <2>5
  <2> HIDE DEF m2
  <2>7. Good(3, m3)
    BY <2>3, <2>6
  <2> HIDE DEF m3
  <2>8. Good(4, m4)
    BY <2>3, <2>7
  <2> HIDE DEF m4
  <2>9. After(p, l, 4, m4)
    BY <2>8 DEF Good
  <2>10. Fatal(p, l) <=> \E i \in 1 .. 4 : AtEdge(p, l, i)
    BY <1>2, FourFields DEF Fatal, AtEdge
  <2>11. ASSUME m4.pc # "panic" PROVE m4.row = RowOf(p, l)
    <3>1. \A i \in 1 .. 4 : m4.row[Order[i]] = RowOf(p, l)[Order[i]]
      BY <2>9, <2>11, RowIs DEF After
    <3>2. \A n \in Names : m4.row[n] = RowOf(p, l)[n]
      BY <3>1, FourFields
    <3>3. m4.row = [n \in Names |-> m4.row[n]]
      BY <2>9 DEF After
    <3> QED
      BY <3>2, <3>3 DEF RowOf
  <2> QED
    BY <2>4, <2>9, <2>10, <2>11 DEF After
<1> QED
  BY <1>1, <1>2

-----------------------------------------------------------------------------
(* The variables are the records and functions Init makes them, and a line *)
(* in hand or being inserted was taken and matched the rule.               *)
Fields == {"pc", "line", "left", "row", "op", "data"}
Shape ==
  /\ DOMAIN taken = Actors
  /\ DOMAIN at = Actors
  /\ \A c \in Actors : DOMAIN at[c] = Fields /\ DOMAIN at[c].op = Halves
  /\ DOMAIN ops = {OptionsOf(c) : c \in Actors}
  /\ DOMAIN content = {PartsOf(c) : c \in Actors}
  /\ DOMAIN writer = Files
Held ==
  /\ \A c \in Actors : at[c].pc # "idle" => at[c].line \in taken[c] /\ Visited(at[c].line)
  /\ \A f \in Files : writer[f] # None => writer[f].line \in LinesOf[f]

(* The first inductive invariant: what holds whoever shares what.          *)
Inv == TypeOK /\ Shape /\ Held /\ DiesOnlyAtTheEdge

(* A rule's columns are a pattern as the lemmas above have it, or none.    *)
LEMMA ColumnsOfRule ==
  ASSUME rule \in Rules, NEW c \in Actors
  PROVE  Columns(c) = None \/ Columned(Columns(c))
<1>1. \A r \in Rules : r.columns = None \/ Columned(r.columns)
  <2> SUFFICES ASSUME NEW r \in Rules, r.columns # None PROVE Columned(r.columns)
    OBVIOUS
  <2>1. /\ DOMAIN r.columns = Names
        /\ \A n \in Names : /\ r.columns[n].kind \in {"absent", "re", "col"}
                            /\ r.columns[n].kind = "col" => r.columns[n].n \in Int
    BY AuditRecordAssumption
  <2> QED
    BY <2>1 DEF Columned
<1>2. Columned([n \in Names |-> Absent])
  BY DEF Columned, Absent
<1> QED
  BY <1>1, <1>2 DEF Columns

(* The process starts in the invariant.                                    *)
LEMMA InitInv == Init => Inv
<1> SUFFICES ASSUME Init PROVE Inv
  OBVIOUS
<1>1. Shape
  BY DEF Init, Shape, Idle, Fields, NoOp
<1>2. TypeOK
  <2>1. day \in 1 .. LastDay /\ coll \in 1 .. LastDay
    BY AuditRecordAssumption DEF Init, Today
  <2>2. \A c \in Actors : at[c].left \subseteq Halves /\ at[c].pc = "idle" /\ taken[c] = {}
    BY DEF Init, Idle
  <2>3. \A o \in DOMAIN ops : ops[o] \in [Halves -> Lines \cup {None}]
    BY DEF Init, NoOp
  <2> QED
    BY <2>1, <2>2, <2>3 DEF Init, TypeOK
<1>3. Held /\ DiesOnlyAtTheEdge
  BY DEF Init, Held, DiesOnlyAtTheEdge, Idle
<1> QED
  BY <1>1, <1>2, <1>3 DEF Inv

(* It is enough to look at what a step changes: the day and its collection *)
(* stay in their range, an actor keeps a line it has taken, and so on.     *)
LEMMA StepInv ==
  ASSUME Inv, UNCHANGED <<rule, up, day, coll>>,
         Shape',
         \A c \in Actors : taken[c] \subseteq taken'[c] /\ taken'[c] \subseteq LinesOf[c],
         \A c \in Actors : /\ at'[c].left \subseteq Halves
                           /\ at'[c].pc \in {"idle", "store", "load", "send", "pass"}
                           /\ at'[c].pc # "idle" =>
                                at'[c].line \in taken'[c] /\ Visited(at'[c].line),
         \A o \in DOMAIN ops' : ops'[o] \in [Halves -> Lines \cup {None}],
         \A f \in Files : writer'[f] # None => writer'[f].line \in LinesOf[f],
         dropped' \subseteq Lines
  PROVE  Inv'
<1>1. TypeOK'
  BY DEF Inv, TypeOK
<1>2. \A l : Visited(l)' <=> Visited(l)
  BY DEF Visited
<1>3. Held'
  BY <1>2 DEF Held
<1>4. DiesOnlyAtTheEdge'
  <2>1. \A c : Columns(c)' = Columns(c)
    BY DEF Columns
  <2> QED
    BY <1>2, <2>1 DEF Inv, DiesOnlyAtTheEdge
<1> QED
  BY <1>1, <1>3, <1>4 DEF Inv

(* A step of an actor that changes only its own place, and goes on with    *)
(* the line in hand or has done with it.                                   *)
LEMMA MoveInv ==
  ASSUME Inv, NEW c \in Actors, NEW r, at' = [at EXCEPT ![c] = r],
         DOMAIN r = Fields, DOMAIN r.op = Halves, r.left \subseteq Halves,
         at[c].pc # "idle",
         r.pc \in {"idle", "store", "load", "send", "pass"},
         r.pc # "idle" => r.line = at[c].line,
         UNCHANGED <<rule, up, day, coll, taken, dropped>>,
         DOMAIN ops' = DOMAIN ops,
         \A o \in DOMAIN ops' : ops'[o] \in [Halves -> Lines \cup {None}],
         DOMAIN content' = DOMAIN content, DOMAIN writer' = DOMAIN writer,
         \A f \in Files : writer'[f] # None => writer'[f].line \in LinesOf[f]
  PROVE  Inv'
<1>1. /\ DOMAIN at = Actors /\ DOMAIN at' = Actors
      /\ at'[c] = r /\ \A d \in Actors : d # c => at'[d] = at[d]
  BY DEF Inv, Shape
<1>2. Shape'
  BY <1>1 DEF Inv, Shape
<1>3. ASSUME NEW d \in Actors
      PROVE  /\ at'[d].left \subseteq Halves
             /\ at'[d].pc \in {"idle", "store", "load", "send", "pass"}
             /\ at'[d].pc # "idle" => at'[d].line \in taken'[d] /\ Visited(at'[d].line)
  BY <1>1 DEF Inv, TypeOK, Held
<1>4. \A d \in Actors : taken'[d] \subseteq LinesOf[d]
  BY DEF Inv, TypeOK
<1>5. dropped' \subseteq Lines
  BY DEF Inv, TypeOK
<1> QED
  BY <1>2, <1>3, <1>4, <1>5, StepInv

(* Every step keeps the first invariant.                                   *)
LEMMA NextInv == Inv /\ [Next]_vars => Inv'
<1> SUFFICES ASSUME Inv, [Next]_vars PROVE Inv'
  OBVIOUS
<1> DEFINE Pcs == {"idle", "store", "load", "send", "pass"}
<1>1. /\ \A c \in Actors : taken[c] \subseteq LinesOf[c]
      /\ \A c \in Actors : at[c].left \subseteq Halves /\ at[c].pc \in Pcs
      /\ \A o \in DOMAIN ops : ops[o] \in [Halves -> Lines \cup {None}]
      /\ dropped \subseteq Lines
      /\ \A c \in Actors : at[c].pc # "idle" => at[c].line \in taken[c] /\ Visited(at[c].line)
      /\ \A f \in Files : writer[f] # None => writer[f].line \in LinesOf[f]
      /\ \A c \in Actors : DOMAIN at[c] = Fields /\ DOMAIN at[c].op = Halves
      /\ DOMAIN taken = Actors /\ DOMAIN at = Actors /\ DOMAIN writer = Files
  BY DEF Inv, TypeOK, Held, Shape
<1>2. \A c \in Actors : LinesOf[c] \subseteq Lines
  BY DEF Lines
<1>3. \A c \in Actors : OptionsOf(c) \in DOMAIN ops
  BY DEF Inv, Shape
<1>4. ASSUME NEW c \in Actors, NEW l \in LinesOf[c], Take(c, l) PROVE Inv'
  <2>1. /\ taken' = [taken EXCEPT ![c] = taken[c] \cup {l}]
        /\ UNCHANGED <<rule, up, day, coll, ops, content, writer>>
        /\ dropped' \subseteq Lines
    BY <1>1, <1>2, <1>4 DEF Take
  <2>2. \A d \in Actors : taken[d] \subseteq taken'[d] /\ taken'[d] \subseteq LinesOf[d]
    BY <2>1, <1>1
  <2>3. DOMAIN taken' = Actors /\ l \in taken'[c]
    BY <2>1, <1>1
  <2>4. CASE UNCHANGED at
    BY <2>1, <2>2, <2>3, <2>4, <1>1, StepInv DEF Inv, Shape
  <2>5. CASE Visited(l) /\ at' = [at EXCEPT ![c] = [With(c, "store", Halves) EXCEPT !.line = l]]
    <3>1. /\ at'[c].pc = "store" /\ at'[c].left = Halves /\ at'[c].line = l
          /\ DOMAIN at'[c] = Fields /\ at'[c].op = at[c].op
          /\ DOMAIN at' = Actors /\ \A d \in Actors : d # c => at'[d] = at[d]
      BY <2>5, <1>1 DEF With, Fields
    <3>2. Shape'
      BY <2>1, <2>3, <3>1, <1>1 DEF Inv, Shape
    <3>3. ASSUME NEW d \in Actors
          PROVE  /\ at'[d].left \subseteq Halves
                 /\ at'[d].pc \in Pcs
                 /\ at'[d].pc # "idle" => at'[d].line \in taken'[d] /\ Visited(at'[d].line)
      BY <2>2, <2>3, <2>5, <3>1, <1>1
    <3> QED
      BY <2>1, <2>2, <3>2, <3>3, <1>1, StepInv
  <2> QED
    BY <1>4, <2>4, <2>5 DEF Take, Go
<1>5. ASSUME NEW c \in Actors, NEW h \in Halves, Store(c, h) PROVE Inv'
  <2> DEFINE r == With(c, "store", at[c].left \ {h})
  <2>1. /\ at' = [at EXCEPT ![c] = r]
        /\ DOMAIN r = Fields /\ r.op = at[c].op /\ r.line = at[c].line
        /\ r.pc = "store" /\ r.left = at[c].left \ {h} /\ at[c].pc = "store"
    BY <1>5, <1>1 DEF Store, Go, With, Fields
  <2>2. /\ ops' = [ops EXCEPT ![OptionsOf(c)][h] = at[c].line]
        /\ UNCHANGED <<rule, up, day, coll, taken, content, writer, dropped>>
    BY <1>5 DEF Store
  <2>3. at[c].line \in Lines
    BY <2>1, <1>1, <1>2
  <2>4. \A o \in DOMAIN ops' : ops'[o] \in [Halves -> Lines \cup {None}]
    BY <2>2, <2>3, <1>1
  <2>5. DOMAIN ops' = DOMAIN ops
    BY <2>2
  <2> HIDE DEF r
  <2> QED
    BY <2>1, <2>2, <2>4, <2>5, <1>1, MoveInv
<1>6. ASSUME NEW c \in Actors, FillColumns(c) PROVE Inv'
  <2> DEFINE m == unMarshal(Columns(c), at[c].line)
             r == [With(c, "load", Halves) EXCEPT !.row = m.row]
  <2>1. /\ at[c].pc = "store"
        /\ UNCHANGED <<rule, day, coll, taken, ops, content, writer, dropped>>
    BY <1>6 DEF FillColumns
  <2>2. CASE m.pc # "panic"
    <3>1. at' = [at EXCEPT ![c] = r] /\ UNCHANGED up
      BY <2>2, <1>6 DEF FillColumns, Go
    <3>2. /\ DOMAIN r = Fields /\ r.op = at[c].op /\ r.line = at[c].line
          /\ r.pc = "load" /\ r.left = Halves
      BY <1>1 DEF With, Fields
    <3> HIDE DEF r
    <3> QED
      BY <2>1, <3>1, <3>2, <1>1, MoveInv
  <2>3. CASE m.pc = "panic"
    <3>1. up' = FALSE /\ UNCHANGED at
      BY <2>3, <1>6 DEF FillColumns
    <3>2. at[c].line \in taken[c] /\ Visited(at[c].line) /\ at[c].line \in Lines
      BY <2>1, <1>1, <1>2
    <3>3. Fatal(Columns(c), at[c].line)
      BY <2>3, <3>2, ColumnsOfRule, UnMarshal DEF Inv, TypeOK
    <3>4. DiesOnlyAtTheEdge'
      <4>1. Columns(c)' = Columns(c) /\ \A l : Visited(l)' <=> Visited(l)
        BY <2>1 DEF Columns, Visited
      <4>2. \E l \in taken'[c] : Visited(l)' /\ Fatal(Columns(c)', l)
        BY <2>1, <3>2, <3>3, <4>1
      <4>3. \E d \in Actors : \E l \in taken'[d] : Visited(l)' /\ Fatal(Columns(d)', l)
        BY <4>2
      <4> QED
        BY <4>3 DEF DiesOnlyAtTheEdge
    <3>5. TypeOK' /\ Shape' /\ Held'
      BY <2>1, <3>1 DEF Inv, TypeOK, Shape, Held, Visited
    <3> QED
      BY <3>4, <3>5 DEF Inv
  <2> QED
    BY <2>2, <2>3
<1>7. ASSUME NEW c \in Actors, NEW h \in Halves, Load(c, h) PROVE Inv'
  <2> DEFINE r == [With(c, "load", at[c].left \ {h}) EXCEPT !.op[h] = ops[OptionsOf(c)][h]]
  <2>1. /\ at' = [at EXCEPT ![c] = r] /\ at[c].pc = "load"
        /\ UNCHANGED <<rule, up, day, coll, taken, ops, content, writer, dropped>>
    BY <1>7 DEF Load, Go
  <2>2. /\ DOMAIN r = Fields /\ DOMAIN r.op = Halves /\ r.line = at[c].line
        /\ r.pc = "load" /\ r.left = at[c].left \ {h}
    BY <1>1 DEF With, Fields
  <2> HIDE DEF r
  <2> QED
    BY <2>1, <2>2, <1>1, MoveInv
<1>8. ASSUME NEW c \in Actors, Publish(c) PROVE Inv'
  <2> DEFINE r == With(c, "send", {})
  <2>1. /\ at' = [at EXCEPT ![c] = r] /\ at[c].pc = "load" /\ DOMAIN content' = DOMAIN content
        /\ UNCHANGED <<rule, up, day, coll, taken, ops, writer, dropped>>
    BY <1>8 DEF Publish, Go
  <2>2. /\ DOMAIN r = Fields /\ r.op = at[c].op /\ r.line = at[c].line
        /\ r.pc = "send" /\ r.left = {}
    BY <1>1 DEF With, Fields
  <2> HIDE DEF r
  <2> QED
    BY <2>1, <2>2, <1>1, MoveInv
<1>9. ASSUME NEW c \in Actors, Send(c) PROVE Inv'
  <2> DEFINE r == [With(c, "pass", {}) EXCEPT !.data = content[PartsOf(c)]]
  <2>1. /\ at' = [at EXCEPT ![c] = r] /\ at[c].pc = "send"
        /\ UNCHANGED <<rule, up, day, coll, taken, ops, content, writer, dropped>>
    BY <1>9 DEF Send, Go
  <2>2. /\ DOMAIN r = Fields /\ r.op = at[c].op /\ r.line = at[c].line
        /\ r.pc = "pass" /\ r.left = {}
    BY <1>1 DEF With, Fields
  <2> HIDE DEF r
  <2> QED
    BY <2>1, <2>2, <1>1, MoveInv
<1>10. ASSUME NEW c \in Actors, Pass(c) \/ Answer(c) PROVE Inv'
  <2>1. /\ at' = [at EXCEPT ![c] = Idle] /\ at[c].pc = "pass"
        /\ UNCHANGED <<rule, up, day, coll, taken, ops, content, dropped>>
        /\ \/ UNCHANGED writer
           \/ writer' = [writer EXCEPT ![c] = [line |-> at[c].line, rec |-> at[c].data]]
    BY <1>10 DEF Pass, Answer, Go
  <2>2. DOMAIN Idle = Fields /\ DOMAIN Idle.op = Halves /\ Idle.pc = "idle" /\ Idle.left = {}
    BY DEF Idle, Fields, NoOp
  <2>3. \A f \in Files : writer'[f] # None => writer'[f].line \in LinesOf[f]
    BY <2>1, <1>1
  <2>4. DOMAIN writer' = DOMAIN writer
    BY <2>1
  <2> QED
    BY <2>1, <2>2, <2>3, <2>4, <1>1, MoveInv
<1>11. ASSUME NEW f \in Files, Write(f) \/ WriteFails(f) PROVE Inv'
  <2>1. /\ writer' = [writer EXCEPT ![f] = None]
        /\ UNCHANGED <<rule, up, day, coll, taken, at, ops, content>>
        /\ dropped' \subseteq Lines
    BY <1>1, <1>2, <1>11 DEF Write, WriteFails, Actors
  <2>2. Shape'
    BY <2>1 DEF Inv, Shape
  <2>3. \A g \in Files : writer'[g] # None => writer'[g].line \in LinesOf[g]
    BY <2>1, <1>1
  <2> QED
    BY <2>1, <2>2, <2>3, <1>1, StepInv
<1>12. CASE Midnight \/ Tick \/ UNCHANGED vars
  <2>1. UNCHANGED <<rule, up, taken, at, ops, content, writer, db, replies, dropped>>
    BY <1>12 DEF Midnight, Tick, vars
  <2>2. day' \in 1 .. LastDay /\ coll' \in 1 .. LastDay
    BY <1>12, AuditRecordAssumption DEF Midnight, Tick, vars, Today, Inv, TypeOK
  <2>3. TypeOK' /\ Shape'
    BY <2>1, <2>2 DEF Inv, TypeOK, Shape
  <2>4. Held' /\ DiesOnlyAtTheEdge'
    BY <2>1 DEF Inv, Held, DiesOnlyAtTheEdge, Visited, Columns
  <2> QED
    BY <2>3, <2>4 DEF Inv
<1> QED
  BY <1>4, <1>5, <1>6, <1>7, <1>8, <1>9, <1>10, <1>11, <1>12 DEF Next, Handle, Insert

(* Every variable keeps its type (runtime.go, file.go:85-112).             *)
THEOREM TypeCorrect == Spec => []TypeOK
<1>1. Inv => TypeOK
  BY DEF Inv
<1> QED
  BY <1>1, InitInv, NextInv, PTL DEF Spec

(* The server dies only of a rule without columns that is mined, or of a   *)
(* column number at the edge of a line (runtime.go:67-83), however many    *)
(* goroutines handle lines at once and whatever they share.                *)
THEOREM OnlyTheEdgeKills == Spec => []DiesOnlyAtTheEdge
<1>1. Inv => DiesOnlyAtTheEdge
  BY DEF Inv
<1> QED
  BY <1>1, InitInv, NextInv, PTL DEF Spec

-----------------------------------------------------------------------------
(* Nobody else has the options object or the parts an actor works with:    *)
(* one file in each directory, and one TEST at a time.                     *)
NothingShared ==
  \A c, d \in Actors : c # d => OptionsOf(c) # OptionsOf(d) /\ PartsOf(c) # PartsOf(d)

(* What OwnRecord says of a record of line l under the columns p.          *)
Right(p, l, rec) ==
  /\ ~Fatal(p, l)
  /\ rec.row = RowOf(p, l)
  /\ \A h \in Halves : rec.op[h] = l

(* Where an actor is, the line it handles has got: the halves stored, then *)
(* the row and the halves loaded, then all of it in the parts and in hand. *)
Carried(c) ==
  /\ at[c].pc = "store" =>
       \A h \in Halves \ at[c].left : ops[OptionsOf(c)][h] = at[c].line
  /\ at[c].pc = "load" =>
       /\ ~Fatal(Columns(c), at[c].line)
       /\ at[c].row = RowOf(Columns(c), at[c].line)
       /\ \A h \in Halves : ops[OptionsOf(c)][h] = at[c].line
       /\ \A h \in Halves \ at[c].left : at[c].op[h] = at[c].line
  /\ at[c].pc = "send" => Right(Columns(c), at[c].line, content[PartsOf(c)])
  /\ at[c].pc = "pass" => Right(Columns(c), at[c].line, at[c].data)

(* So has a record on its way to the database, one in it, and an answer.   *)
Inserting == \A f \in Files : writer[f] # None =>
               Right(Columns(f), writer[f].line, writer[f].rec)
Recorded == \A r \in db \cup replies : \E c \in Actors :
              r.line \in LinesOf[c] /\ Right(Columns(c), r.line, r.rec)

(* The second inductive invariant.                                         *)
Own == (\A c \in Actors : Carried(c)) /\ Inserting /\ Recorded

(* A line is of one actor only.                                            *)
LEMMA OwnIsOwnRecord == Own => OwnRecord
<1> SUFFICES ASSUME Own, NEW c \in Actors, NEW r \in Made(c, db) \cup Made(c, replies)
             PROVE  OfItsLine(c, r)
  BY DEF OwnRecord
<1>1. r \in db \cup replies /\ r.line \in LinesOf[c]
  BY DEF Made
<1>2. PICK d \in Actors : r.line \in LinesOf[d] /\ Right(Columns(d), r.line, r.rec)
  BY <1>1 DEF Own, Recorded
<1>3. d = c
  BY <1>1, <1>2, AuditRecordAssumption
<1> QED
  BY <1>2, <1>3 DEF Right, OfItsLine

(* Nothing is in hand when the process starts.                             *)
LEMMA InitOwn == Init => Own
  BY DEF Init, Own, Carried, Idle, Inserting, Recorded

(* What an actor carries depends on its own place, its options object and  *)
(* its parts, so a step of another actor cannot disturb it.                *)
LEMMA CarriedStays ==
  ASSUME NEW d \in Actors, Carried(d), rule' = rule, at'[d] = at[d],
         ops'[OptionsOf(d)] = ops[OptionsOf(d)],
         content'[PartsOf(d)] = content[PartsOf(d)]
  PROVE  Carried(d)'
  BY DEF Carried, Columns

(* The writers and the database keep what they have when a step leaves     *)
(* them alone.                                                             *)
LEMMA RestStays ==
  ASSUME Inserting, Recorded, UNCHANGED <<rule, writer, db, replies>>
  PROVE  Inserting' /\ Recorded'
  BY DEF Inserting, Recorded, Columns

(* Every step keeps the second invariant.                                  *)
LEMMA NextOwn ==
  ASSUME NothingShared, Inv, Own, [Next]_vars
  PROVE  Own'
<1>1. /\ DOMAIN at = Actors /\ DOMAIN writer = Files
      /\ \A c \in Actors : DOMAIN at[c] = Fields /\ DOMAIN at[c].op = Halves
      /\ \A c \in Actors : OptionsOf(c) \in DOMAIN ops /\ DOMAIN ops[OptionsOf(c)] = Halves
      /\ \A c \in Actors : PartsOf(c) \in DOMAIN content
  BY DEF Inv, Shape, TypeOK
<1>2. \A c \in Actors : Carried(c)
  BY DEF Own
<1>3. Inserting /\ Recorded
  BY DEF Own
<1>4. ASSUME NEW c \in Actors, NEW l \in LinesOf[c], Take(c, l) PROVE Own'
  <2>1. UNCHANGED <<rule, ops, content, writer, db, replies>>
    BY <1>4 DEF Take
  <2>2. \/ UNCHANGED at
        \/ at' = [at EXCEPT ![c] = [With(c, "store", Halves) EXCEPT !.line = l]]
    BY <1>4 DEF Take, Go
  <2>3. ASSUME NEW d \in Actors PROVE Carried(d)'
    <3>1. CASE at'[d] = at[d]
      BY <2>1, <3>1, <1>2, CarriedStays
    <3>2. CASE at'[d] # at[d]
      <4>1. at'[d].pc = "store" /\ at'[d].left = Halves
        BY <2>2, <3>2, <1>1 DEF With, Fields
      <4> QED
        BY <4>1 DEF Carried
    <3> QED
      BY <3>1, <3>2
  <2> QED
    BY <2>1, <2>3, <1>3, RestStays DEF Own
<1>5. ASSUME NEW c \in Actors, NEW h \in Halves, Store(c, h) PROVE Own'
  <2>1. /\ at[c].pc = "store"
        /\ ops' = [ops EXCEPT ![OptionsOf(c)][h] = at[c].line]
        /\ at' = [at EXCEPT ![c] = With(c, "store", at[c].left \ {h})]
        /\ UNCHANGED <<rule, content, writer, db, replies>>
    BY <1>5 DEF Store, Go
  <2>2. /\ at'[c].pc = "store" /\ at'[c].left = at[c].left \ {h} /\ at'[c].line = at[c].line
        /\ \A k \in Halves : ops'[OptionsOf(c)][k] =
                               IF k = h THEN at[c].line ELSE ops[OptionsOf(c)][k]
    BY <2>1, <1>1 DEF With, Fields
  <2>3. Carried(c)'
    BY <2>1, <2>2, <1>2 DEF Carried
  <2>4. ASSUME NEW d \in Actors, d # c PROVE Carried(d)'
    <3>1. at'[d] = at[d] /\ ops'[OptionsOf(d)] = ops[OptionsOf(d)]
      BY <2>1, <2>4 DEF NothingShared
    <3> QED
      BY <2>1, <3>1, <1>2, CarriedStays
  <2> QED
    BY <2>1, <2>3, <2>4, <1>3, RestStays DEF Own
<1>6. ASSUME NEW c \in Actors, FillColumns(c) PROVE Own'
  <2> DEFINE m == unMarshal(Columns(c), at[c].line)
  <2>1. /\ at[c].pc = "store" /\ at[c].left = {}
        /\ UNCHANGED <<rule, ops, content, writer, db, replies>>
    BY <1>6 DEF FillColumns
  <2>2. CASE m.pc = "panic"
    <3>1. UNCHANGED at
      BY <2>2, <1>6 DEF FillColumns
    <3> QED
      BY <2>1, <3>1, <1>2, <1>3, CarriedStays, RestStays DEF Own
  <2>3. CASE m.pc # "panic"
    <3>1. at' = [at EXCEPT ![c] = [With(c, "load", Halves) EXCEPT !.row = m.row]]
      BY <2>3, <1>6 DEF FillColumns, Go
    <3>2. /\ at'[c].pc = "load" /\ at'[c].left = Halves /\ at'[c].line = at[c].line
          /\ at'[c].row = m.row
      BY <3>1, <1>1 DEF With, Fields
    <3>3. at[c].line \in Lines
      BY <2>1 DEF Inv, Held, TypeOK, Lines
    <3>4. ~Fatal(Columns(c), at[c].line) /\ m.row = RowOf(Columns(c), at[c].line)
      BY <2>3, <3>3, ColumnsOfRule, UnMarshal DEF Inv, TypeOK
    <3>5. Columns(c)' = Columns(c)
      BY <2>1 DEF Columns
    <3>6. Carried(c)'
      BY <2>1, <3>2, <3>4, <3>5, <1>2 DEF Carried
    <3>7. ASSUME NEW d \in Actors, d # c PROVE Carried(d)'
      BY <2>1, <3>1, <3>7, <1>2, CarriedStays
    <3> QED
      BY <2>1, <3>6, <3>7, <1>3, RestStays DEF Own
  <2> QED
    BY <2>2, <2>3
<1>7. ASSUME NEW c \in Actors, NEW h \in Halves, Load(c, h) PROVE Own'
  <2> DEFINE v == ops[OptionsOf(c)][h]
  <2>1. /\ at[c].pc = "load"
        /\ at' = [at EXCEPT ![c] = [With(c, "load", at[c].left \ {h}) EXCEPT !.op[h] = v]]
        /\ UNCHANGED <<rule, ops, content, writer, db, replies>>
    BY <1>7 DEF Load, Go
  <2>2. /\ at'[c].pc = "load" /\ at'[c].left = at[c].left \ {h}
        /\ at'[c].line = at[c].line /\ at'[c].row = at[c].row
        /\ \A k \in Halves : at'[c].op[k] = IF k = h THEN v ELSE at[c].op[k]
    BY <2>1, <1>1 DEF With, Fields
  <2>3. Columns(c)' = Columns(c)
    BY <2>1 DEF Columns
  <2>4. Carried(c)'
    BY <2>1, <2>2, <2>3, <1>2 DEF Carried
  <2>5. ASSUME NEW d \in Actors, d # c PROVE Carried(d)'
    BY <2>1, <2>5, <1>2, CarriedStays
  <2> QED
    BY <2>1, <2>4, <2>5, <1>3, RestStays DEF Own
<1>8. ASSUME NEW c \in Actors, Publish(c) PROVE Own'
  <2>1. /\ at[c].pc = "load" /\ at[c].left = {}
        /\ content' = [content EXCEPT ![PartsOf(c)] = [row |-> at[c].row, op |-> at[c].op]]
        /\ at' = [at EXCEPT ![c] = With(c, "send", {})]
        /\ UNCHANGED <<rule, ops, writer, db, replies>>
    BY <1>8 DEF Publish, Go
  <2>2. at'[c].pc = "send" /\ at'[c].line = at[c].line
    BY <2>1, <1>1 DEF With, Fields
  <2>3. Right(Columns(c), at[c].line, content'[PartsOf(c)])
    BY <2>1, <1>1, <1>2 DEF Carried, Right
  <2>4. Columns(c)' = Columns(c)
    BY <2>1 DEF Columns
  <2>5. Carried(c)'
    BY <2>2, <2>3, <2>4 DEF Carried
  <2>6. ASSUME NEW d \in Actors, d # c PROVE Carried(d)'
    <3>1. at'[d] = at[d] /\ content'[PartsOf(d)] = content[PartsOf(d)]
      BY <2>1, <2>6 DEF NothingShared
    <3> QED
      BY <2>1, <3>1, <1>2, CarriedStays
  <2> QED
    BY <2>1, <2>5, <2>6, <1>3, RestStays DEF Own
<1>9. ASSUME NEW c \in Actors, Send(c) PROVE Own'
  <2>1. /\ at[c].pc = "send"
        /\ at' = [at EXCEPT ![c] = [With(c, "pass", {}) EXCEPT !.data = content[PartsOf(c)]]]
        /\ UNCHANGED <<rule, ops, content, writer, db, replies>>
    BY <1>9 DEF Send, Go
  <2>2. /\ at'[c].pc = "pass" /\ at'[c].line = at[c].line
        /\ at'[c].data = content[PartsOf(c)]
    BY <2>1, <1>1 DEF With, Fields
  <2>3. Columns(c)' = Columns(c)
    BY <2>1 DEF Columns
  <2>4. Carried(c)'
    BY <2>1, <2>2, <2>3, <1>2 DEF Carried
  <2>5. ASSUME NEW d \in Actors, d # c PROVE Carried(d)'
    BY <2>1, <2>5, <1>2, CarriedStays
  <2> QED
    BY <2>1, <2>4, <2>5, <1>3, RestStays DEF Own
<1>10. ASSUME NEW c \in Actors, Pass(c) \/ Answer(c) PROVE Own'
  <2>1. /\ at[c].pc = "pass" /\ at' = [at EXCEPT ![c] = Idle]
        /\ UNCHANGED <<rule, ops, content, db>>
    BY <1>10 DEF Pass, Answer, Go
  <2>2. at[c].line \in LinesOf[c] /\ Right(Columns(c), at[c].line, at[c].data)
    BY <2>1, <1>2 DEF Inv, Held, TypeOK, Carried
  <2>3. Carried(c)'
    BY <2>1, <1>1 DEF Carried, Idle
  <2>4. ASSUME NEW d \in Actors, d # c PROVE Carried(d)'
    BY <2>1, <2>4, <1>2, CarriedStays
  <2>5. \A d : Columns(d)' = Columns(d)
    BY <2>1 DEF Columns
  <2>6. CASE Pass(c)
    <3>1. /\ writer' = [writer EXCEPT ![c] = [line |-> at[c].line, rec |-> at[c].data]]
          /\ replies' = replies
      BY <2>6 DEF Pass
    <3>2. Inserting'
      BY <3>1, <2>2, <2>5, <1>1, <1>3 DEF Inserting
    <3>3. Recorded'
      BY <3>1, <2>1, <2>5, <1>3 DEF Recorded
    <3> QED
      BY <2>3, <2>4, <3>2, <3>3 DEF Own
  <2>7. CASE Answer(c)
    <3>1. /\ replies' = replies \cup {[line |-> at[c].line, rec |-> at[c].data]}
          /\ writer' = writer
      BY <2>7 DEF Answer
    <3>2. Inserting'
      BY <3>1, <2>5, <1>3 DEF Inserting
    <3>3. Recorded'
      BY <3>1, <2>1, <2>2, <2>5, <1>3 DEF Recorded
    <3> QED
      BY <2>3, <2>4, <3>2, <3>3 DEF Own
  <2> QED
    BY <1>10, <2>6, <2>7
<1>11. ASSUME NEW f \in Files, Write(f) \/ WriteFails(f) PROVE Own'
  <2>1. /\ writer[f] # None /\ writer' = [writer EXCEPT ![f] = None]
        /\ UNCHANGED <<rule, at, ops, content, replies>>
    BY <1>11 DEF Write, WriteFails
  <2>2. \A d \in Actors : Carried(d)'
    BY <2>1, <1>2, CarriedStays
  <2>3. \A d : Columns(d)' = Columns(d)
    BY <2>1 DEF Columns
  <2>4. Inserting'
    BY <2>1, <2>3, <1>1, <1>3 DEF Inserting
  <2>5. f \in Actors /\ writer[f].line \in LinesOf[f]
        /\ Right(Columns(f), writer[f].line, writer[f].rec)
    BY <2>1, <1>3 DEF Inserting, Inv, Held, Actors
  <2>6. \A r \in db' : r \in db \/ (r.line = writer[f].line /\ r.rec = writer[f].rec)
    BY <1>11 DEF Write, WriteFails
  <2>7. Recorded'
    BY <2>1, <2>3, <2>5, <2>6, <1>3 DEF Recorded
  <2> QED
    BY <2>2, <2>4, <2>7 DEF Own
<1>12. CASE Midnight \/ Tick \/ UNCHANGED vars
  <2>1. UNCHANGED <<rule, at, ops, content, writer, db, replies>>
    BY <1>12 DEF Midnight, Tick, vars
  <2> QED
    BY <2>1, <1>2, <1>3, CarriedStays, RestStays DEF Own
<1> QED
  BY <1>4, <1>5, <1>6, <1>7, <1>8, <1>9, <1>10, <1>11, <1>12 DEF Next, Handle, Insert

(* As long as no two goroutines share an options object or parts, every    *)
(* record and every answer to a TEST is of its own line, operation         *)
(* included, and has the fields the rule says (runtime.go:30-93, 158-167,  *)
(* visitor.go, server.go:242-276).                                         *)
THEOREM RecordsAreOwn ==
  ASSUME NothingShared
  PROVE  Spec => []OwnRecord
<1>1. Init => Inv /\ Own
  BY InitInv, InitOwn
<1>2. Inv /\ Own /\ [Next]_vars => (Inv /\ Own)'
  BY NextInv, NextOwn
<1>3. Inv /\ Own => OwnRecord
  BY OwnIsOwnRecord
<1> QED
  BY <1>1, <1>2, <1>3, PTL DEF Spec
=============================================================================

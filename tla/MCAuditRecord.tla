--------------------------- MODULE MCAuditRecord ---------------------------
(***************************************************************************)
(* Instances of AuditRecord for TLC.                                       *)
(* Lines a1, a2 and b1 are of files f1 and f2, line c1 is given to TEST.   *)
(* a2 does not match the rule, and b1 has no address in it.                *)
(***************************************************************************)
EXTENDS AuditRecord, TLC

CONSTANTS f1, f2, t, a1, a2, b1, c1, d1, d2

TwoFiles   == {f1, f2}
OneTester  == {t}
NoTester   == {}
Gets       == (f1 :> {a1, a2}) @@ (f2 :> {b1}) @@ (t :> {c1})
OneEach    == (f1 :> {a1}) @@ (f2 :> {b1})
OwnDirs    == (f1 :> d1) @@ (f2 :> d2)
OneDir     == (f1 :> d1) @@ (f2 :> d1)
Hosts      == (f1 :> 1) @@ (f2 :> 1)
Dates      == (f1 :> 1) @@ (f2 :> 2)
Match      == {a1, b1, c1}
Widths     == (a1 :> 2) @@ (a2 :> 1) @@ (b1 :> 1) @@ (c1 :> 2)
Found2     == (a1 :> {"ip", "st"}) @@ (a2 :> {}) @@ (b1 :> {"st"}) @@ (c1 :> {"ip", "st"})

Pattern(time, addr, state, user) ==
  ("DateTime" :> time) @@ ("IpAddr" :> addr) @@ ("State" :> state) @@ ("UserName" :> user)

(* Columns that all lines have, one that only some have or that is next to *)
(* the last, one further off, an expression that stops the rest, and       *)
(* numbers below 1.                                                        *)
Texts == {[type |-> "server", columns |-> p] :
            p \in {Pattern(Col(1), Absent, Re("st"), Col(2)),
                   Pattern(Absent, Re("ip"), Re("st"), Col(2)),
                   Pattern(Col(4), Absent, Re("ip"), Col(-1)),
                   Pattern(Re("ip"), Col(0), Absent, Col(1)),
                   None}}
         \cup {[type |-> "router", columns |-> None]}
PlainText == {[type |-> "server",
               columns |-> Pattern(Absent, Absent, Re("st"), Col(1))]}
=============================================================================

--------------------------- MODULE InputsProofs ---------------------------
(***************************************************************************)
(* That the loops of Download, NulDiscard and CommandLine lose nothing and *)
(* cut where they should, for inputs of any length.  Each loop has an      *)
(* invariant that says where it stands.  Three need more: the last NUL of  *)
(* a window is one that has none after it, found as the least position of  *)
(* that kind; what a recursive function computes is known only after       *)
(* showing that there is one such function, of which the shortest          *)
(* counterexample decides; and the arguments are counted by the separators *)
(* before them, so that each step of the parser says what it adds to the   *)
(* count and to the last word.                                             *)
(***************************************************************************)
EXTENDS MCInputs, Integers, TLAPS, WellFoundedInduction, FiniteSetTheorems

(* How a download is cut into sheets.                                      *)

(* The counter is where the last sheet ends.                               *)
AtEnd ==
  /\ row \in Nat \ {0} /\ cnt \in 1 .. PerSheet
  /\ sheets \in Seq(Seq(Nat))
  /\ IF sheets = <<>> \/ Len(sheets[Len(sheets)]) = PerSheet THEN cnt = 1
     ELSE cnt = Len(sheets[Len(sheets)]) + 1

(* How many records the sheets before the k-th hold, as the proof counts   *)
(* them.                                                                   *)
LEMMA BeforeSheets ==
  /\ Before(1) = 0
  /\ \A k \in Nat \ {0} : Before(k) \in Nat /\ Before(k + 1) = Before(k) + PerSheet
<1>1. PerSheet \in Nat
  BY DownloadAssumption DEF PerSheet
<1>2. ASSUME NEW k \in Nat \ {0} PROVE (k - 1) * PerSheet \in Nat
  BY <1>1
<1>3. ASSUME NEW k \in Nat \ {0} PROVE ((k + 1) - 1) * PerSheet = (k - 1) * PerSheet + PerSheet
  BY <1>1
<1> QED
  BY <1>1, <1>2, <1>3 DEF Before

(* One more record keeps the sheets whole: a new sheet begins when the     *)
(* last one is full, and only then (srv.go:141-171).                       *)
LEMMA SheetsStep ==
  ASSUME AtEnd, SheetsHoldAll, [AddRow]_download
  PROVE  AtEnd' /\ SheetsHoldAll'
<1> DEFINE n == Len(sheets)
           last == sheets[n]
<1>1. /\ SheetRows \in Nat \ {0, 1} /\ PerSheet \in Nat \ {0} /\ PerSheet + 1 = SheetRows
      /\ n \in Nat /\ row \in Nat \ {0} /\ cnt \in 1 .. PerSheet
  BY DownloadAssumption DEF PerSheet, AtEnd
<1>2. /\ sheets \in Seq(Seq(Nat)) /\ Len(sheets) = n /\ DOMAIN sheets = 1 .. n
      /\ n = 0 <=> sheets = <<>>
      /\ \A k \in 1 .. n : sheets[k] \in Seq(Nat)
  BY DEF AtEnd
<1>3. ASSUME NEW k \in 1 .. n
      PROVE  /\ k < n => Len(sheets[k]) = PerSheet
             /\ Len(sheets[k]) \in 1 .. PerSheet
             /\ \A j \in 1 .. Len(sheets[k]) : sheets[k][j] = Before(k) + j
  <2>1. DOMAIN sheets[k] = 1 .. Len(sheets[k])
    BY <1>2
  <2>2. IF k < n THEN Len(sheets[k]) = PerSheet ELSE Len(sheets[k]) \in 1 .. PerSheet
    BY <1>2 DEF SheetsHoldAll
  <2>3. \A j \in DOMAIN sheets[k] : sheets[k][j] = Before(k) + j
    BY <1>2 DEF SheetsHoldAll
  <2> QED
    BY <2>1, <2>2, <2>3, <1>1
<1>4. n = 0 => row = 1 /\ cnt = 1
  BY <1>1, <1>2 DEF SheetsHoldAll, AtEnd
<1>5. ASSUME n # 0
      PROVE  /\ row - 1 = Before(n) + Len(last)
             /\ Before(n) \in Nat /\ Before(n + 1) = Before(n) + PerSheet
             /\ IF Len(last) = PerSheet THEN cnt = 1 ELSE cnt = Len(last) + 1
             /\ n \in 1 .. n /\ last \in Seq(Nat) /\ Len(last) \in 1 .. PerSheet
  <2>1. n \in 1 .. n
    BY <1>1, <1>5
  <2>2. row - 1 = Before(n) + Len(last)
    BY <1>2, <1>5 DEF SheetsHoldAll
  <2>3. IF Len(last) = PerSheet THEN cnt = 1 ELSE cnt = Len(last) + 1
    BY <1>2, <1>5 DEF AtEnd
  <2>4. Before(n) \in Nat /\ Before(n + 1) = Before(n) + PerSheet
    BY <1>1, <1>5, BeforeSheets
  <2> QED
    BY <2>1, <2>2, <2>3, <2>4, <1>2, <1>3
(* It is enough to know the sheets one by one.                             *)
<1>6. ASSUME NEW m \in Nat \ {0}, sheets' \in Seq(Seq(Nat)), Len(sheets') = m,
             \A k \in 1 .. m : /\ IF k < m THEN Len(sheets'[k]) = PerSheet
                                           ELSE Len(sheets'[k]) \in 1 .. PerSheet
                               /\ \A j \in 1 .. Len(sheets'[k]) : sheets'[k][j] = Before(k) + j,
             row' - 1 = Before(m) + Len(sheets'[m])
      PROVE  SheetsHoldAll'
  <2>1. DOMAIN sheets' = 1 .. m /\ sheets' # <<>>
    BY <1>6
  <2>2. \A k \in 1 .. m : DOMAIN sheets'[k] = 1 .. Len(sheets'[k])
    BY <1>6, <2>1
  <2> QED
    BY <1>6, <2>1, <2>2 DEF SheetsHoldAll, PerSheet, Before
<1>7. ASSUME NEW m \in Nat \ {0}, sheets' \in Seq(Seq(Nat)), Len(sheets') = m,
             NEW r \in Nat, Len(sheets'[m]) = r,
             rows' = rows, row' = row + 1,
             cnt' \in 1 .. PerSheet, cnt' = IF r = PerSheet THEN 1 ELSE r + 1
      PROVE  AtEnd'
  <2>1. sheets' # <<>>
    BY <1>7
  <2>2. PerSheet' = PerSheet
    BY DEF PerSheet
  <2>3. row' \in Nat \ {0}
    BY <1>1, <1>7
  <2> QED
    BY <1>1, <1>7, <2>1, <2>2, <2>3 DEF AtEnd
<1> HIDE DEF n, last
<1>8. CASE UNCHANGED download
  BY <1>8 DEF download, AtEnd, SheetsHoldAll
<1>9. CASE AddRow /\ cnt = 1
  <2>1. /\ sheets' = Append(sheets, <<row>>) /\ row' = row + 1 /\ rows' = rows
        /\ cnt' = IF 2 >= SheetRows THEN 1 ELSE 2
    BY <1>9 DEF AddRow, FirstRow
  <2>2. <<row>> \in Seq(Nat) /\ Len(<<row>>) = 1 /\ <<row>>[1] = row
    BY <1>1
  <2>3. /\ sheets' \in Seq(Seq(Nat)) /\ Len(sheets') = n + 1
        /\ \A k \in 1 .. n : sheets'[k] = sheets[k]
        /\ sheets'[n + 1] = <<row>>
    BY <2>1, <2>2, <1>2
  <2>4. \A k \in 1 .. n : Len(sheets[k]) = PerSheet
    <3> SUFFICES ASSUME NEW k \in 1 .. n PROVE Len(sheets[k]) = PerSheet
      OBVIOUS
    <3>1. k < n \/ (k = n /\ n # 0)
      BY <1>1
    <3>2. CASE k = n /\ n # 0
      BY <3>2, <1>1, <1>5, <1>9 DEF last
    <3> QED
      BY <3>1, <3>2, <1>3
  <2>5. row - 1 = Before(n + 1)
    <3>1. CASE n = 0
      BY <3>1, <1>4, BeforeSheets
    <3>2. CASE n # 0
      BY <3>2, <1>1, <1>5, <1>9
    <3> QED
      BY <3>1, <3>2
  <2>6. ASSUME NEW k \in 1 .. n + 1
        PROVE  /\ IF k < n + 1 THEN Len(sheets'[k]) = PerSheet
                               ELSE Len(sheets'[k]) \in 1 .. PerSheet
               /\ \A j \in 1 .. Len(sheets'[k]) : sheets'[k][j] = Before(k) + j
    <3>1. CASE k = n + 1
      <4>1. Len(sheets'[k]) = 1 /\ sheets'[k][1] = row
        BY <3>1, <2>2, <2>3
      <4>2. row = Before(k) + 1
        BY <3>1, <2>5, <1>1
      <4> QED
        BY <3>1, <4>1, <4>2, <1>1
    <3>2. CASE k \in 1 .. n
      BY <3>2, <2>3, <2>4, <1>1, <1>3
    <3> QED
      BY <3>1, <3>2, <1>1
  <2>7. row' - 1 = Before(n + 1) + Len(sheets'[n + 1])
    BY <2>1, <2>2, <2>3, <2>5, <1>1
  <2>8. n + 1 \in Nat \ {0}
    BY <1>1
  <2>9. cnt' \in 1 .. PerSheet /\ cnt' = IF 1 = PerSheet THEN 1 ELSE 1 + 1
    BY <2>1, <1>1
  <2>10. Len(sheets'[n + 1]) = 1
    BY <2>2, <2>3
  <2>11. AtEnd'
    BY <2>1, <2>3, <2>8, <2>9, <2>10, <1>7
  <2>12. SheetsHoldAll'
    BY <2>3, <2>6, <2>7, <2>8, <1>6
  <2> QED
    BY <2>11, <2>12
<1>10. CASE AddRow /\ cnt # 1
  <2> DEFINE longer == Append(last, row)
  <2>1. /\ sheets' = [sheets EXCEPT ![n] = longer] /\ row' = row + 1
        /\ rows' = rows /\ cnt' = IF cnt + 1 >= SheetRows THEN 1 ELSE cnt + 1
    BY <1>10 DEF AddRow, FirstRow, n, last
  <2>2. n # 0 /\ cnt = Len(last) + 1
    BY <1>4, <1>5, <1>10
  <2>3. n \in 1 .. n /\ last \in Seq(Nat)
    BY <2>2, <1>5
  <2>4. /\ longer \in Seq(Nat) /\ Len(longer) = cnt
        /\ \A j \in 1 .. Len(last) : longer[j] = last[j]
        /\ longer[cnt] = row
    BY <2>2, <2>3, <1>1
  <2> HIDE DEF longer
  <2>5. /\ sheets' \in Seq(Seq(Nat)) /\ Len(sheets') = n
        /\ \A k \in 1 .. n : k # n => sheets'[k] = sheets[k]
        /\ sheets'[n] = longer
    BY <2>1, <2>3, <2>4, <1>2
  <2>6. row = Before(n) + cnt /\ row + 1 - 1 = Before(n) + cnt
    BY <2>2, <1>1, <1>5
  <2>7. ASSUME NEW k \in 1 .. n
        PROVE  /\ IF k < n THEN Len(sheets'[k]) = PerSheet
                           ELSE Len(sheets'[k]) \in 1 .. PerSheet
               /\ \A j \in 1 .. Len(sheets'[k]) : sheets'[k][j] = Before(k) + j
    <3>1. CASE k = n
      <4>1. \A j \in 1 .. Len(last) : last[j] = Before(n) + j
        BY <2>3, <1>3 DEF last
      <4>2. \A j \in 1 .. cnt : j \in 1 .. Len(last) \/ j = cnt
        BY <2>2, <1>1
      <4>3. \A j \in 1 .. cnt : longer[j] = Before(n) + j
        BY <4>1, <4>2, <2>4, <2>6
      <4>4. sheets'[k] = longer /\ ~(k < n)
        BY <3>1, <2>5, <1>1
      <4> QED
        BY <4>3, <4>4, <3>1, <2>4, <1>1
    <3>2. CASE k # n
      <4>1. k < n
        BY <3>2, <1>1
      <4> QED
        BY <4>1, <3>2, <2>5, <1>3
    <3> QED
      BY <3>1, <3>2
  <2>8. row' - 1 = Before(n) + Len(sheets'[n])
    BY <2>1, <2>4, <2>5, <2>6
  <2>9. n \in Nat \ {0}
    BY <2>2, <1>1
  <2>10. cnt' \in 1 .. PerSheet /\ cnt' = IF cnt = PerSheet THEN 1 ELSE cnt + 1
    BY <2>1, <1>1
  <2>11. Len(sheets'[n]) = cnt /\ cnt \in Nat
    BY <2>4, <2>5, <1>1
  <2>12. AtEnd'
    BY <2>1, <2>5, <2>9, <2>10, <2>11, <1>7
  <2>13. SheetsHoldAll'
    BY <2>5, <2>7, <2>8, <2>9, <1>6
  <2> QED
    BY <2>12, <2>13
<1> QED
  BY <1>8, <1>9, <1>10

(* A download holds every record once and in order, over as few sheets as  *)
(* it takes, for any number of records and any size of a sheet of at       *)
(* least two rows (srv.go:141-171).                                        *)
THEOREM DownloadIsWhole == DownloadSpec => []SheetsHoldAll
<1>1. DownloadInit => AtEnd /\ SheetsHoldAll
  BY DownloadAssumption DEF DownloadInit, AtEnd, SheetsHoldAll, PerSheet
<1>2. AtEnd /\ SheetsHoldAll /\ [AddRow]_download => (AtEnd /\ SheetsHoldAll)'
  BY SheetsStep
<1> QED
  BY <1>1, <1>2, PTL DEF DownloadSpec

-----------------------------------------------------------------------------
(* How the NULs at the start of a file are discarded.                      *)

(* A set of numbers that is not empty has a least member.                  *)
LEMMA LeastOf ==
  ASSUME NEW T \in SUBSET Nat, T # {}
  PROVE  \E n \in T : \A k \in T : n <= k
<1>1. PICK n \in T : \A k \in T : ~(<<k, n>> \in OpToRel(<, Nat))
  BY NatLessThanWellFounded, WFMin
<1>2. \A k \in T : ~(k < n)
  BY <1>1 DEF OpToRel
<1>3. \A k \in T : n <= k
  BY <1>2
<1> QED
  BY <1>3

(* The last NUL, or 0 if there is none.                                    *)
LEMMA LastNulIs ==
  ASSUME NEW b \in Seq({Nul, "x"})
  PROVE  /\ LastNul(b) \in 0 .. Len(b)
         /\ LastNul(b) # 0 => b[LastNul(b)] = Nul
         /\ \A j \in LastNul(b) + 1 .. Len(b) : b[j] # Nul
<1> DEFINE n == Len(b)
           G == {i \in 0 .. n : \A j \in i + 1 .. n : b[j] # Nul}
<1>1. n \in Nat
  OBVIOUS
<1> HIDE DEF n
<1>2. G \subseteq Nat /\ n \in G
  BY <1>1
<1>3. PICK i \in G : \A k \in G : ~(<<k, i>> \in OpToRel(<, Nat))
  BY <1>2, NatLessThanWellFounded, WFMin
<1>4. \A k \in G : ~(k < i)
  BY <1>2, <1>3 DEF OpToRel
<1>4a. i \in 0 .. n /\ \A j \in i + 1 .. n : b[j] # Nul
  BY <1>3
<1>5. ASSUME i # 0, b[i] # Nul PROVE FALSE
  <2>1. i - 1 \in 0 .. n /\ i - 1 < i
    BY <1>1, <1>4a, <1>5
  <2>2. \A j \in (i - 1) + 1 .. n : b[j] # Nul
    <3>1. \A j \in (i - 1) + 1 .. n : j = i \/ j \in i + 1 .. n
      BY <1>1, <1>4a
    <3> QED
      BY <3>1, <1>4a, <1>5
  <2>3. i - 1 \in G
    BY <2>1, <2>2
  <2> QED
    BY <2>1, <2>3, <1>4
<1>6. \E k \in 0 .. n : /\ k # 0 => b[k] = Nul
                        /\ \A j \in k + 1 .. n : b[j] # Nul
  BY <1>4a, <1>5
<1> QED
  BY <1>6 DEF LastNul, n

(* The bytes Peek shows are those after the discarded ones                 *)
(* (follower.go:136).                                                      *)
LEMMA PeekIs ==
  ASSUME NEW W \in Nat, NEW b \in Seq({Nul, "x"}), NEW d \in Nat, d <= Len(b),
         NEW m \in Nat, d <= m, m <= Len(b)
  PROVE  LET p == SubSeq(b, d + 1, m) IN
         /\ p \in Seq({Nul, "x"}) /\ Len(p) = m - d
         /\ \A j \in 1 .. m - d : p[j] = b[d + j]
  OBVIOUS

(* The file begins with k NULs, or more.                                   *)
Leads(k) == \A j \in 1 .. k : bytes[j] = Nul

(* Byte j went because of a NUL behind it, which went too.                 *)
Dragged(j) == \E k \in j + 1 .. discarded : bytes[k] = Nul /\ k < j + Window

(* What holds of the loop: its reader is never behind the last NUL.        *)
NInv ==
  /\ bytes \in Seq({Nul, "x"})
  /\ discarded \in Nat /\ discarded <= LastNul(bytes) /\ peeking \in BOOLEAN
  /\ ~peeking => \A k \in 0 .. Len(bytes) : Leads(k) => k <= discarded + 1
  /\ \A j \in 1 .. discarded : bytes[j] # Nul => Dragged(j)

(* A turn of the loop discards its window up to the last NUL and goes on   *)
(* only if that was the last byte (follower.go:133-148).                   *)
LEMMA DiscardStep == NInv /\ Discard => NInv'
<1> SUFFICES ASSUME NInv, Discard PROVE NInv'
  OBVIOUS
<1> DEFINE b == bytes
           d == discarded
           n == Len(b)
           m == IF d + Window < n THEN d + Window ELSE n
           p == Peek
           i == LastNul(p)
           last == LastNul(b)
<1>1. /\ b \in Seq({Nul, "x"}) /\ DOMAIN b = 1 .. n /\ n \in Nat
      /\ d \in Nat /\ Window \in Nat \ {0, 1}
  BY NulDiscardAssumption DEF NInv
<1>2. /\ last \in 0 .. n /\ d <= last /\ \A j \in last + 1 .. n : b[j] # Nul
  BY <1>1, LastNulIs DEF NInv
<1>3. p = SubSeq(b, d + 1, m)
  BY DEF Peek
<1>4. /\ peeking /\ peeking' = (i >= Window) /\ bytes' = b
      /\ discarded' = IF i > 1 THEN d + i ELSE d
  BY DEF Discard, Again
<1>5. \A j \in 1 .. d : b[j] # Nul => \E k \in j + 1 .. d : b[k] = Nul /\ k < j + Window
  BY DEF NInv, Dragged
<1>6. \A k : Leads(k) <=> \A j \in 1 .. k : b[j] = Nul
  BY DEF Leads
<1> HIDE DEF b, n, d, last
<1>7. m \in Nat /\ d <= m /\ m <= n /\ m <= d + Window /\ (m < d + Window => m = n)
  BY <1>1, <1>2
<1> HIDE DEF m, p
<1>8. /\ p \in Seq({Nul, "x"}) /\ Len(p) = m - d
      /\ \A j \in 1 .. m - d : p[j] = b[d + j]
  <2>1. d <= n /\ Window \in Nat
    BY <1>1, <1>2
  <2> DEFINE q == SubSeq(b, d + 1, m)
  <2>2. /\ q \in Seq({Nul, "x"}) /\ Len(q) = m - d
        /\ \A j \in 1 .. m - d : q[j] = b[d + j]
    BY <2>1, <1>1, <1>7, PeekIs DEF n
  <2> QED
    BY <2>2, <1>3
<1>9. /\ i \in 0 .. m - d
      /\ i # 0 => p[i] = Nul
      /\ \A j \in i + 1 .. m - d : p[j] # Nul
  BY <1>8, LastNulIs
<1> HIDE DEF i
<1>10. i # 0 => b[d + i] = Nul /\ d + i <= last
  <2> SUFFICES ASSUME i # 0 PROVE b[d + i] = Nul /\ d + i <= last
    OBVIOUS
  <2>1. i \in 1 .. m - d
    BY <1>1, <1>7, <1>9
  <2>2. b[d + i] = Nul
    BY <2>1, <1>8, <1>9
  <2>3. d + i \in 1 .. n
    BY <2>1, <1>1, <1>7
  <2> QED
    BY <2>2, <2>3, <1>1, <1>2
<1>11. discarded' \in Nat /\ discarded' <= last
  BY <1>1, <1>2, <1>4, <1>7, <1>9, <1>10
<1>12. ASSUME NEW k \in 0 .. n, Leads(k), i < Window PROVE k <= discarded' + 1
  <2>1. k <= d + i
    <3>1. CASE k <= d
      BY <3>1, <1>1, <1>7, <1>9
    <3>2. CASE d < k /\ k <= m
      <4>1. k - d \in 1 .. m - d /\ b[d + (k - d)] = Nul
        BY <3>2, <1>1, <1>6, <1>7, <1>12
      <4>2. p[k - d] = Nul
        BY <4>1, <1>8
      <4>3. ~(k - d \in i + 1 .. m - d)
        BY <4>2, <1>9
      <4> QED
        BY <4>1, <4>3, <1>1, <1>7, <1>9
    <3>3. CASE m < k
      <4>1. m = d + Window
        BY <3>3, <1>1, <1>7
      <4>2. Window \in 1 .. m - d /\ b[d + Window] = Nul
        BY <3>3, <4>1, <1>1, <1>6, <1>7, <1>12
      <4>3. p[Window] = Nul /\ Window \in i + 1 .. m - d
        BY <4>1, <4>2, <1>1, <1>8, <1>9, <1>12
      <4> QED
        BY <4>3, <1>9
    <3> QED
      BY <3>1, <3>2, <3>3, <1>1, <1>7
  <2> QED
    BY <2>1, <1>1, <1>4, <1>7, <1>9
<1>13. ASSUME NEW j \in 1 .. discarded', b[j] # Nul
       PROVE  \E k \in j + 1 .. discarded' : b[k] = Nul /\ k < j + Window
  <2>1. CASE j <= d
    <3>1. PICK k \in j + 1 .. d : b[k] = Nul /\ k < j + Window
      BY <2>1, <1>1, <1>5, <1>11, <1>13
    <3>2. k \in j + 1 .. discarded'
      BY <3>1, <1>1, <1>4, <1>7, <1>9, <1>11, <1>13
    <3> QED
      BY <3>1, <3>2
  <2>2. CASE d < j
    <3>1. i > 1 /\ discarded' = d + i
      BY <2>2, <1>1, <1>4, <1>13
    <3>2. b[d + i] = Nul
      BY <3>1, <1>10
    <3>3. d + i \in j + 1 .. discarded' /\ d + i < j + Window
      BY <2>2, <3>1, <3>2, <1>1, <1>7, <1>9, <1>13
    <3> QED
      BY <3>2, <3>3
  <2> QED
    BY <2>1, <2>2, <1>1, <1>11
<1>14. /\ bytes' = bytes /\ bytes' \in Seq({Nul, "x"}) /\ peeking' \in BOOLEAN
       /\ peeking' <=> i >= Window
  <2>1. bytes' = bytes /\ bytes' \in Seq({Nul, "x"})
    BY <1>1, <1>4 DEF b
  <2>2. peeking' = (i >= Window)
    BY <1>4
  <2>3. peeking' \in BOOLEAN
    BY <2>2, <1>1, <1>9, <1>7
  <2>4. peeking' <=> i >= Window
    BY <2>2, Zenon
  <2> QED
    BY <2>1, <2>3, <2>4
<1>15. discarded' \in Nat /\ discarded' <= LastNul(bytes')
  BY <1>11, <1>14 DEF last, b
<1>16. ~peeking' => \A k \in 0 .. Len(bytes') : Leads(k)' => k <= discarded' + 1
  <2>1. \A k : Leads(k)' <=> Leads(k)
    BY <1>14 DEF Leads
  <2>2. ~peeking' => i < Window
    BY <1>14, <1>1, <1>7, <1>9
  <2> QED
    BY <2>1, <2>2, <1>12, <1>14 DEF n, b
<1>17. \A j \in 1 .. discarded' : bytes'[j] # Nul => Dragged(j)'
  BY <1>13, <1>14 DEF Dragged, b
<1> QED
  BY <1>14, <1>15, <1>16, <1>17 DEF NInv

(* The NULs a file begins with are discarded, but for one at most, and of  *)
(* the text only what has a NUL behind it within a window.  For files of   *)
(* any length and any window of at least two bytes (follower.go:133-148).  *)
THEOREM NulsAreDiscarded == NulSpec => []NulsDiscarded
<1>1. NulInit => NInv
  <2> SUFFICES ASSUME NulInit PROVE NInv
    OBVIOUS
  <2>1. bytes \in Seq({Nul, "x"})
    BY DEF NulInit, Contents, SeqOf
  <2>2. LastNul(bytes) \in Nat
    BY <2>1, LastNulIs
  <2>3. discarded = 0 /\ peeking = TRUE /\ discarded <= LastNul(bytes)
    BY <2>2 DEF NulInit
  <2> QED
    BY <2>1, <2>3 DEF NInv
<1>2. NInv /\ [Discard]_nul => NInv'
  <2>1. NInv /\ UNCHANGED nul => NInv'
    BY DEF NInv, nul, Leads, Dragged
  <2> QED
    BY <2>1, DiscardStep
<1>3. NInv => NulsDiscarded
  BY DEF NInv, NulsDiscarded, Leads, Dragged
<1> QED
  BY <1>1, <1>2, <1>3, PTL DEF NulSpec

-----------------------------------------------------------------------------
(* How a command is cut into its name and arguments.                       *)

(* The characters a command is made of.                                    *)
Char == {Quote, Space, "x"}

(* f is the function that Without(s, D) takes its value from.                    *)
IsKept(s, D, f) ==
  f = [i \in 0 .. Len(s) |->
         IF i = 0 THEN <<>>
         ELSE IF s[i] \in D THEN f[i - 1] ELSE Append(f[i - 1], s[i])]

(* What Without(s, D) is, by the function it is read off.                        *)
LEMMA WithoutIs == \A s, D : Without(s, D) = (CHOOSE f : IsKept(s, D, f))[Len(s)]
  BY DEF Without, IsKept

(* There is such a function for every text: otherwise take a shortest      *)
(* text without one, and extend the function of that text without its      *)
(* last character.                                                         *)
LEMMA WithoutExists ==
  ASSUME NEW D
  PROVE  \A s \in Seq(Char) : \E f : IsKept(s, D, f)
<1> DEFINE Bad(n) == \E s \in Seq(Char) : Len(s) = n /\ ~\E f : IsKept(s, D, f)
           T == {n \in Nat : Bad(n)}
<1>1. ASSUME T # {} PROVE FALSE
  <2>1. PICK n \in T : \A k \in T : n <= k
    BY <1>1, LeastOf
  <2>2. n \in Nat /\ Bad(n)
    BY <2>1
  <2>3. PICK s \in Seq(Char) : Len(s) = n /\ ~\E f : IsKept(s, D, f)
    BY <2>2
  <2>4. CASE n = 0
    <3>1. IsKept(s, D, [i \in 0 .. Len(s) |-> <<>>])
      BY <2>3, <2>4 DEF IsKept
    <3> QED
      BY <3>1, <2>3
  <2>5. CASE n # 0
    <3> DEFINE t == SubSeq(s, 1, n - 1)
    <3>1. /\ n - 1 \in Nat /\ t \in Seq(Char) /\ Len(t) = n - 1
          /\ \A i \in 1 .. n - 1 : t[i] = s[i]
      BY <2>2, <2>3, <2>5
    <3> HIDE DEF t
    <3>2. ~Bad(n - 1)
      <4>1. ~(n <= n - 1)
        BY <2>2
      <4>2. n - 1 \notin T
        BY <4>1, <2>1
      <4> QED
        BY <4>2, <3>1
    <3>3. PICK f : IsKept(t, D, f)
      BY <3>1, <3>2
    <3> DEFINE g == [i \in 0 .. n |-> IF i < n THEN f[i]
                       ELSE IF s[n] \in D THEN f[n - 1] ELSE Append(f[n - 1], s[n])]
    <3>4. \A i \in 0 .. n - 1 : f[i] =
            IF i = 0 THEN <<>>
            ELSE IF s[i] \in D THEN f[i - 1] ELSE Append(f[i - 1], s[i])
      <4>1. \A i \in 0 .. n - 1 : f[i] =
              IF i = 0 THEN <<>>
              ELSE IF t[i] \in D THEN f[i - 1] ELSE Append(f[i - 1], t[i])
        BY <3>1, <3>3 DEF IsKept
      <4>2. \A i \in 0 .. n - 1 : i # 0 => t[i] = s[i]
        BY <3>1
      <4> QED
        BY <4>1, <4>2
    <3>5. \A i \in 0 .. n - 1 : g[i] = f[i]
      BY <2>2
    <3>6. \A i \in 0 .. n : g[i] =
            IF i = 0 THEN <<>>
            ELSE IF s[i] \in D THEN g[i - 1] ELSE Append(g[i - 1], s[i])
      <4> SUFFICES ASSUME NEW i \in 0 .. n
                   PROVE  g[i] = IF i = 0 THEN <<>>
                                 ELSE IF s[i] \in D THEN g[i - 1]
                                 ELSE Append(g[i - 1], s[i])
        OBVIOUS
      <4>1. CASE i = n
        <5>1. n - 1 \in 0 .. n - 1
          BY <3>1
        <5>2. g[n - 1] = f[n - 1]
          BY <5>1, <3>5
        <5>3. g[n] = IF s[n] \in D THEN f[n - 1] ELSE Append(f[n - 1], s[n])
          BY <2>2
        <5> HIDE DEF g
        <5> QED
          BY <4>1, <5>2, <5>3, <2>5
      <4>2. CASE i # n
        <5>1. i \in 0 .. n - 1 /\ (i # 0 => i - 1 \in 0 .. n - 1)
          BY <4>2, <2>2
        <5> HIDE DEF g
        <5> QED
          BY <5>1, <3>4, <3>5
      <4> QED
        BY <4>1, <4>2
    <3>7. IsKept(s, D, g)
      <4>1. g = [i \in 0 .. n |-> g[i]]
        OBVIOUS
      <4> HIDE DEF g
      <4> QED
        BY <4>1, <3>6, <2>3 DEF IsKept
    <3> QED
      BY <3>7, <2>3
  <2> QED
    BY <2>4, <2>5
<1>2. ASSUME NEW s \in Seq(Char) PROVE \E f : IsKept(s, D, f)
  <2>1. Len(s) \in Nat /\ Len(s) \notin T
    BY <1>1
  <2> QED
    BY <2>1
<1> QED
  BY <1>2

(* How that function goes on from one character to the next.               *)
LEMMA WithoutTurns ==
  ASSUME NEW s \in Seq(Char), NEW D, NEW f, IsKept(s, D, f)
  PROVE  /\ f = [i \in 0 .. Len(s) |-> f[i]]
         /\ f[0] = <<>>
         /\ \A i \in 1 .. Len(s) :
              f[i] = IF s[i] \in D THEN f[i - 1] ELSE Append(f[i - 1], s[i])
<1>1. Len(s) \in Nat
  OBVIOUS
<1>2. \A i \in 0 .. Len(s) : f[i] =
        IF i = 0 THEN <<>>
        ELSE IF s[i] \in D THEN f[i - 1] ELSE Append(f[i - 1], s[i])
  BY DEF IsKept
<1>3. f = [i \in 0 .. Len(s) |-> f[i]]
  <2> DEFINE e(i) == IF i = 0 THEN <<>>
                     ELSE IF s[i] \in D THEN f[i - 1] ELSE Append(f[i - 1], s[i])
  <2>1. f = [i \in 0 .. Len(s) |-> e(i)]
    BY DEF IsKept
  <2> HIDE DEF e
  <2> QED
    BY <2>1
<1>4. \A i \in 1 .. Len(s) : i \in 0 .. Len(s) /\ i # 0
  BY <1>1
<1>5. 0 \in 0 .. Len(s)
  BY <1>1
<1> QED
  BY <1>2, <1>3, <1>4, <1>5

(* There is one such function only: two would differ first at some         *)
(* character, which both compute from the same text before it.             *)
LEMMA WithoutUnique ==
  ASSUME NEW s \in Seq(Char), NEW D, NEW f, NEW g, IsKept(s, D, f), IsKept(s, D, g)
  PROVE  f = g
<1> DEFINE n == Len(s)
           T == {i \in 0 .. n : f[i] # g[i]}
<1>1. n \in Nat
  OBVIOUS
<1>2. /\ f = [i \in 0 .. n |-> f[i]] /\ g = [i \in 0 .. n |-> g[i]]
      /\ f[0] = <<>> /\ g[0] = <<>>
      /\ \A i \in 1 .. n :
           /\ f[i] = IF s[i] \in D THEN f[i - 1] ELSE Append(f[i - 1], s[i])
           /\ g[i] = IF s[i] \in D THEN g[i - 1] ELSE Append(g[i - 1], s[i])
  BY WithoutTurns
<1> HIDE DEF n
<1>3. ASSUME T # {} PROVE FALSE
  <2>1. T \in SUBSET Nat
    BY <1>1
  <2>2. PICK i \in T : \A k \in T : i <= k
    BY <1>3, <2>1, LeastOf
  <2>3. i \in 1 .. n
    BY <2>2, <1>1, <1>2
  <2>4. i - 1 \notin T /\ i - 1 \in 0 .. n
    <3>1. ~(i <= i - 1) /\ i - 1 \in 0 .. n
      BY <2>3, <1>1
    <3> QED
      BY <3>1, <2>2
  <2>5. f[i - 1] = g[i - 1]
    BY <2>4
  <2>6. f[i] = g[i]
    BY <2>3, <2>5, <1>2
  <2> QED
    BY <2>2, <2>6
<1>4. \A i \in 0 .. n : f[i] = g[i]
  BY <1>3
<1> QED
  BY <1>2, <1>4

(* The empty text has nothing to keep.                                     *)
LEMMA WithoutEmpty == ASSUME NEW D PROVE Without(<<>>, D) = <<>>
<1>0. <<>> \in Seq(Char)
  OBVIOUS
<1>1. \E f : IsKept(<<>>, D, f)
  BY <1>0, WithoutExists
<1> DEFINE h == CHOOSE g : IsKept(<<>>, D, g)
<1>2. IsKept(<<>>, D, h)
  BY <1>1
<1>3. Without(<<>>, D) = h[0]
  BY WithoutIs
<1> HIDE DEF h
<1> QED
  BY <1>0, <1>2, <1>3, WithoutTurns

(* One more character is kept unless it is one of D.                       *)
LEMMA WithoutAppend ==
  ASSUME NEW s \in Seq(Char), NEW D, NEW c \in Char
  PROVE  Without(Append(s, c), D) = IF c \in D THEN Without(s, D) ELSE Append(Without(s, D), c)
<1> DEFINE n == Len(s)
           t == Append(s, c)
           f == CHOOSE h : IsKept(t, D, h)
           g == CHOOSE h : IsKept(s, D, h)
           r == [i \in 0 .. n |-> f[i]]
<1>1. /\ n \in Nat /\ t \in Seq(Char) /\ Len(t) = n + 1 /\ t[n + 1] = c
      /\ \A i \in 1 .. n : t[i] = s[i]
  OBVIOUS
<1>2. IsKept(t, D, f) /\ IsKept(s, D, g)
  BY <1>1, WithoutExists
<1>3. Without(t, D) = f[n + 1] /\ Without(s, D) = g[n]
  BY <1>1, WithoutIs
<1> HIDE DEF t, f, g, n, r
<1>4. /\ f[0] = <<>>
      /\ \A i \in 1 .. n + 1 :
           f[i] = IF t[i] \in D THEN f[i - 1] ELSE Append(f[i - 1], t[i])
  <2>1. t \in Seq(Char) /\ IsKept(t, D, f)
    BY <1>1, <1>2
  <2>2. /\ f[0] = <<>>
        /\ \A i \in 1 .. Len(t) :
             f[i] = IF t[i] \in D THEN f[i - 1] ELSE Append(f[i - 1], t[i])
    BY <2>1, WithoutTurns
  <2> QED
    BY <2>2, <1>1
<1> USE DEF r
<1>5. IsKept(s, D, r)
  <2>1. \A i \in 0 .. n : r[i] =
          IF i = 0 THEN <<>>
          ELSE IF s[i] \in D THEN r[i - 1] ELSE Append(r[i - 1], s[i])
    <3> SUFFICES ASSUME NEW i \in 0 .. n
                 PROVE  r[i] = IF i = 0 THEN <<>>
                               ELSE IF s[i] \in D THEN r[i - 1]
                               ELSE Append(r[i - 1], s[i])
      OBVIOUS
    <3>1. CASE i = 0
      BY <3>1, <1>4
    <3>2. CASE i # 0
      <4>1. i \in 1 .. n /\ i \in 1 .. n + 1 /\ i - 1 \in 0 .. n
        BY <3>2, <1>1
      <4> QED
        BY <4>1, <3>2, <1>1, <1>4
    <3> QED
      BY <3>1, <3>2
  <2>2. r = [i \in 0 .. n |-> r[i]]
    OBVIOUS
  <2> HIDE DEF r
  <2> QED
    BY <2>1, <2>2 DEF IsKept, n
<1>6. r = g
  BY <1>2, <1>5, WithoutUnique
<1>7. f[n] = g[n]
  BY <1>1, <1>6
<1>8. n + 1 \in 1 .. n + 1 /\ (n + 1) - 1 = n
  BY <1>1
<1> QED
  BY <1>1, <1>3, <1>4, <1>7, <1>8 DEF t

(* What is left of a command and of a word, one character at a time.       *)
LEMMA TextAppend ==
  ASSUME NEW s \in Seq(Char), NEW c \in Char
  PROVE  Text(Append(s, c)) = IF c \in {Quote, Space} THEN Text(s) ELSE Append(Text(s), c)
  BY WithoutAppend DEF Text

LEMMA BareAppend ==
  /\ Bare(<<>>) = <<>>
  /\ \A s \in Seq(Char), c \in Char :
       Bare(Append(s, c)) = IF c = Quote THEN Bare(s) ELSE Append(Bare(s), c)
  BY WithoutAppend, WithoutEmpty DEF Bare

(* f is the function that FlattenSeq(ss) takes its value from.             *)
IsFlat(ss, f) ==
  f = [i \in 1 .. Len(ss) |-> IF i = 1 THEN ss[i] ELSE f[i - 1] \o ss[i]]

(* What FlattenSeq(ss) is, by the function it is read off.                 *)
LEMMA FlatIs ==
  ASSUME NEW ss \in Seq(Seq(Char)), Len(ss) # 0
  PROVE  FlattenSeq(ss) = (CHOOSE f : IsFlat(ss, f))[Len(ss)]
  BY DEF FlattenSeq, IsFlat

(* There is such a function for all texts, as for Without.                 *)
LEMMA FlatExists == \A ss \in Seq(Seq(Char)) : \E f : IsFlat(ss, f)
<1> DEFINE Bad(n) == \E ss \in Seq(Seq(Char)) : Len(ss) = n /\ ~\E f : IsFlat(ss, f)
           T == {n \in Nat : Bad(n)}
<1>1. ASSUME T # {} PROVE FALSE
  <2>1. PICK n \in T : \A k \in T : n <= k
    BY <1>1, LeastOf
  <2>2. n \in Nat /\ Bad(n)
    BY <2>1
  <2>3. PICK s \in Seq(Seq(Char)) : Len(s) = n /\ ~\E f : IsFlat(s, f)
    BY <2>2
  <2>4. CASE n = 0
    <3>1. IsFlat(s, [i \in 1 .. Len(s) |-> <<>>])
      BY <2>3, <2>4 DEF IsFlat
    <3> QED
      BY <3>1, <2>3
  <2>5. CASE n # 0
    <3> DEFINE t == SubSeq(s, 1, n - 1)
    <3>1. /\ n - 1 \in Nat /\ t \in Seq(Seq(Char)) /\ Len(t) = n - 1
          /\ \A i \in 1 .. n - 1 : t[i] = s[i]
      BY <2>2, <2>3, <2>5
    <3> HIDE DEF t
    <3>2. ~Bad(n - 1)
      <4>1. ~(n <= n - 1)
        BY <2>2
      <4>2. n - 1 \notin T
        BY <4>1, <2>1
      <4> QED
        BY <4>2, <3>1
    <3>3. PICK f : IsFlat(t, f)
      BY <3>1, <3>2
    <3> DEFINE g == [i \in 1 .. n |-> IF i < n THEN f[i]
                       ELSE IF n = 1 THEN s[n] ELSE f[n - 1] \o s[n]]
    <3>4. \A i \in 1 .. n - 1 : f[i] = IF i = 1 THEN s[i] ELSE f[i - 1] \o s[i]
      <4>1. \A i \in 1 .. n - 1 : f[i] = IF i = 1 THEN t[i] ELSE f[i - 1] \o t[i]
        BY <3>1, <3>3 DEF IsFlat
      <4> QED
        BY <4>1, <3>1
    <3>5. \A i \in 1 .. n - 1 : g[i] = f[i]
      BY <2>2
    <3>6. \A i \in 1 .. n : g[i] = IF i = 1 THEN s[i] ELSE g[i - 1] \o s[i]
      <4> SUFFICES ASSUME NEW i \in 1 .. n
                   PROVE  g[i] = IF i = 1 THEN s[i] ELSE g[i - 1] \o s[i]
        OBVIOUS
      <4>1. CASE i = n
        <5>1. n # 1 => n - 1 \in 1 .. n - 1
          BY <2>2, <2>5
        <5>2. n # 1 => g[n - 1] = f[n - 1]
          BY <5>1, <3>5
        <5>3. g[n] = IF n = 1 THEN s[n] ELSE f[n - 1] \o s[n]
          BY <2>2, <2>5
        <5> HIDE DEF g
        <5> QED
          BY <4>1, <5>2, <5>3
      <4>2. CASE i # n
        <5>1. i \in 1 .. n - 1 /\ (i # 1 => i - 1 \in 1 .. n - 1)
          BY <4>2, <2>2
        <5> HIDE DEF g
        <5> QED
          BY <5>1, <3>4, <3>5
      <4> QED
        BY <4>1, <4>2
    <3>7. IsFlat(s, g)
      <4>1. g = [i \in 1 .. n |-> g[i]]
        OBVIOUS
      <4> HIDE DEF g
      <4> QED
        BY <4>1, <3>6, <2>3 DEF IsFlat
    <3> QED
      BY <3>7, <2>3
  <2> QED
    BY <2>4, <2>5
<1>2. ASSUME NEW ss \in Seq(Seq(Char)) PROVE \E f : IsFlat(ss, f)
  <2>1. Len(ss) \in Nat /\ Len(ss) \notin T
    BY <1>1
  <2> QED
    BY <2>1
<1> QED
  BY <1>2

(* How that function goes on from one text to the next.                    *)
LEMMA FlatTurns ==
  ASSUME NEW s \in Seq(Seq(Char)), NEW f, IsFlat(s, f)
  PROVE  /\ f = [i \in 1 .. Len(s) |-> f[i]]
         /\ \A i \in 1 .. Len(s) : f[i] = IF i = 1 THEN s[i] ELSE f[i - 1] \o s[i]
<1>1. \A i \in 1 .. Len(s) : f[i] = IF i = 1 THEN s[i] ELSE f[i - 1] \o s[i]
  BY DEF IsFlat
<1>2. f = [i \in 1 .. Len(s) |-> f[i]]
  <2> DEFINE e(i) == IF i = 1 THEN s[i] ELSE f[i - 1] \o s[i]
  <2>1. f = [i \in 1 .. Len(s) |-> e(i)]
    BY DEF IsFlat
  <2> HIDE DEF e
  <2> QED
    BY <2>1
<1> QED
  BY <1>1, <1>2

(* There is one such function only.                                        *)
LEMMA FlatUnique ==
  ASSUME NEW s \in Seq(Seq(Char)), NEW f, NEW g, IsFlat(s, f), IsFlat(s, g)
  PROVE  f = g
<1> DEFINE n == Len(s)
           T == {i \in 1 .. n : f[i] # g[i]}
<1>1. n \in Nat
  OBVIOUS
<1>2. /\ f = [i \in 1 .. n |-> f[i]] /\ g = [i \in 1 .. n |-> g[i]]
      /\ \A i \in 1 .. n : /\ f[i] = IF i = 1 THEN s[i] ELSE f[i - 1] \o s[i]
                           /\ g[i] = IF i = 1 THEN s[i] ELSE g[i - 1] \o s[i]
  BY FlatTurns
<1> HIDE DEF n
<1>3. ASSUME T # {} PROVE FALSE
  <2>1. T \in SUBSET Nat
    BY <1>1
  <2>2. PICK i \in T : \A k \in T : i <= k
    BY <1>3, <2>1, LeastOf
  <2>3. i \in 1 .. n /\ f[i] # g[i]
    BY <2>2
  <2>4. CASE i = 1
    BY <2>3, <2>4, <1>2
  <2>5. CASE i # 1
    <3>1. ~(i <= i - 1) /\ i - 1 \in 1 .. n
      BY <2>3, <2>5, <1>1
    <3>2. i - 1 \notin T
      BY <3>1, <2>2
    <3>3. f[i - 1] = g[i - 1]
      BY <3>1, <3>2
    <3>4. f[i] = f[i - 1] \o s[i]
      BY <2>3, <2>5, <1>2
    <3>5. g[i] = g[i - 1] \o s[i]
      BY <2>3, <2>5, <1>2
    <3> QED
      BY <3>3, <3>4, <3>5, <2>3
  <2> QED
    BY <2>4, <2>5
<1>4. \A i \in 1 .. n : f[i] = g[i]
  BY <1>3
<1> QED
  BY <1>2, <1>4

(* One more text comes after the others.                                   *)
LEMMA FlatAppend ==
  ASSUME NEW s \in Seq(Seq(Char)), NEW c \in Seq(Char)
  PROVE  FlattenSeq(Append(s, c)) = FlattenSeq(s) \o c
<1> DEFINE n == Len(s)
           t == Append(s, c)
           f == CHOOSE h : IsFlat(t, h)
           g == CHOOSE h : IsFlat(s, h)
           r == [i \in 1 .. n |-> f[i]]
<1>1. /\ n \in Nat /\ t \in Seq(Seq(Char)) /\ Len(t) = n + 1 /\ t[n + 1] = c
      /\ \A i \in 1 .. n : t[i] = s[i]
  OBVIOUS
<1>2. IsFlat(t, f) /\ IsFlat(s, g)
  BY <1>1, FlatExists
<1>3. FlattenSeq(t) = f[n + 1] /\ (n # 0 => FlattenSeq(s) = g[n])
  <2>1. Len(t) # 0 /\ Len(t) = n + 1
    BY <1>1
  <2>2. FlattenSeq(t) = f[Len(t)]
    BY <2>1, <1>1, FlatIs
  <2>3. n # 0 => FlattenSeq(s) = g[n]
    BY FlatIs
  <2> HIDE DEF t, f, g, n
  <2> QED
    BY <2>1, <2>2, <2>3
<1>4. n = 0 => FlattenSeq(s) = <<>>
  BY DEF FlattenSeq
<1>0. s \in Seq(Seq(Char)) /\ Len(s) = n
  OBVIOUS
<1> HIDE DEF t, f, g, n
<1>5. \A i \in 1 .. n + 1 : f[i] = IF i = 1 THEN t[i] ELSE f[i - 1] \o t[i]
  <2> HIDE DEF r
  <2>1. \A i \in 1 .. Len(t) : f[i] = IF i = 1 THEN t[i] ELSE f[i - 1] \o t[i]
    BY <1>1, <1>2, FlatTurns
  <2> QED
    BY <2>1, <1>1
<1>6. f[n + 1] = IF n = 0 THEN c ELSE f[n] \o c
  <2>1. n + 1 \in 1 .. n + 1 /\ (n + 1) - 1 = n /\ (n + 1 = 1 <=> n = 0)
    BY <1>1
  <2> QED
    BY <2>1, <1>1, <1>5
<1>7. CASE n = 0
  <2>1. <<>> \o c = c
    OBVIOUS
  <2> QED
    BY <2>1, <1>3, <1>4, <1>6, <1>7 DEF t
<1>8. CASE n # 0
  <2>1. IsFlat(s, r)
    <3>1. \A i \in 1 .. n : r[i] = IF i = 1 THEN s[i] ELSE r[i - 1] \o s[i]
      <4> SUFFICES ASSUME NEW i \in 1 .. n
                   PROVE  r[i] = IF i = 1 THEN s[i] ELSE r[i - 1] \o s[i]
        OBVIOUS
      <4>1. i \in 1 .. n + 1 /\ (i # 1 => i - 1 \in 1 .. n)
        BY <1>1
      <4> QED
        BY <4>1, <1>1, <1>5
    <3>2. r = [i \in 1 .. n |-> r[i]]
      OBVIOUS
    <3> HIDE DEF r
    <3> QED
      BY <3>1, <3>2, <1>0 DEF IsFlat
  <2>2. r = g
    BY <2>1, <1>0, <1>2, FlatUnique
  <2>3. n \in 1 .. n
    BY <1>1, <1>8
  <2>4. f[n] = g[n]
    BY <2>2, <2>3
  <2> QED
    BY <2>4, <1>3, <1>6, <1>8 DEF t
<1> QED
  BY <1>7, <1>8

(* What holds at every character.                                          *)
Parsing ==
  /\ val \in Seq(Char) /\ read \in 0 .. Len(val) + 1
  /\ args \in Seq(Seq(Char)) /\ buf \in Seq(Char)
  /\ FlattenSeq(args) \in Seq(Char)

(* The text read grows by a character.                                     *)
LEMMA ReadOne ==
  ASSUME Parsing, NEW r \in Char, Rune(r)
  PROVE  /\ Text(SubSeq(val, 1, read')) =
              IF r \in {Quote, Space} THEN Text(SubSeq(val, 1, read))
              ELSE Append(Text(SubSeq(val, 1, read)), r)
         /\ read' \in 0 .. Len(val) /\ read \in 0 .. Len(val) /\ read < Len(val)
<1>1. /\ read < Len(val) /\ val[read + 1] = r /\ read' = read + 1
      /\ read \in Nat /\ Len(val) \in Nat /\ val \in Seq(Char)
  BY DEF Rune, Parsing
<1>2. /\ SubSeq(val, 1, read) \in Seq(Char)
      /\ SubSeq(val, 1, read') = Append(SubSeq(val, 1, read), r)
  BY <1>1
<1>3. Text(SubSeq(val, 1, read')) = Text(Append(SubSeq(val, 1, read), r))
  BY <1>2
<1>4. Text(Append(SubSeq(val, 1, read), r)) =
        IF r \in {Quote, Space} THEN Text(SubSeq(val, 1, read))
        ELSE Append(Text(SubSeq(val, 1, read)), r)
  BY <1>2, TextAppend
<1>5. read' \in 0 .. Len(val) /\ read \in 0 .. Len(val) /\ read < Len(val)
  BY <1>1
<1> QED
  BY <1>3, <1>4, <1>5

(* Every turn of the loop and the end of it lose no character but          *)
(* backquotes and white space (parse.go:65-88).                            *)
LEMMA ParseStep ==
  ASSUME Parsing, ArgsLoseNothing, [CommandNext]_command
  PROVE  Parsing' /\ ArgsLoseNothing'
<1> DEFINE out == FlattenSeq(args)
<1>1. /\ val \in Seq(Char) /\ read \in 0 .. Len(val) + 1
      /\ args \in Seq(Seq(Char)) /\ buf \in Seq(Char) /\ out \in Seq(Char)
      /\ Len(val) \in Nat
  BY DEF Parsing
<1>2. read \in 0 .. Len(val) => Text(out \o buf) = Text(SubSeq(val, 1, read))
  <2>1. read \in 0 .. Len(val) => read = IF read < Len(val) THEN read ELSE Len(val)
    BY <1>1
  <2> QED
    BY <2>1 DEF ArgsLoseNothing
(* It is enough to know the text read.                                     *)
<1>3. ASSUME val' = val, read' \in 0 .. Len(val),
             Text(FlattenSeq(args') \o buf') = Text(SubSeq(val, 1, read'))
      PROVE  ArgsLoseNothing'
  <2>1. read' = IF read' < Len(val') THEN read' ELSE Len(val')
    BY <1>1, <1>3
  <2> QED
    BY <1>3, <2>1 DEF ArgsLoseNothing
<1>4. CASE UNCHANGED command
  BY <1>4 DEF command, Parsing, ArgsLoseNothing
<1>5. CASE Toggle
  <2>1. Rune(Quote) /\ UNCHANGED <<args, buf>> /\ Quote \in Char /\ val' = val
    BY <1>5 DEF Toggle, Char, Rune
  <2>2. /\ Text(SubSeq(val, 1, read')) = Text(SubSeq(val, 1, read))
        /\ read' \in 0 .. Len(val) /\ read \in 0 .. Len(val)
    BY <2>1, ReadOne
  <2>3. Parsing'
    BY <2>1, <2>2, <1>1 DEF Parsing
  <2>4. ArgsLoseNothing'
    BY <2>1, <2>2, <1>2, <1>3
  <2> QED
    BY <2>3, <2>4
<1>6. CASE Split
  <2>1. /\ Rune(Space) /\ args' = Append(args, buf) /\ buf' = <<>>
        /\ Space \in Char /\ val' = val
    BY <1>6 DEF Split, Char, Rune, Reset
  <2>2. /\ Text(SubSeq(val, 1, read')) = Text(SubSeq(val, 1, read))
        /\ read' \in 0 .. Len(val) /\ read \in 0 .. Len(val)
    BY <2>1, ReadOne
  <2>3. FlattenSeq(args') = out \o buf
    BY <2>1, <1>1, FlatAppend
  <2>4. FlattenSeq(args') \in Seq(Char) /\ FlattenSeq(args') \o buf' = out \o buf
    BY <2>1, <2>3, <1>1
  <2>5. Parsing'
    BY <2>1, <2>2, <2>4, <1>1 DEF Parsing
  <2>6. ArgsLoseNothing'
    BY <2>1, <2>2, <2>4, <1>2, <1>3
  <2> QED
    BY <2>5, <2>6
<1>7. ASSUME NEW r \in {Space, "x"}, WriteRune(r) PROVE Parsing' /\ ArgsLoseNothing'
  <2>1. /\ Rune(r) /\ args' = args /\ buf' = Append(buf, r)
        /\ r \in Char /\ r # Quote /\ val' = val
    BY <1>7 DEF WriteRune, Char, Rune, Quote, Space
  <2>2. /\ Text(SubSeq(val, 1, read')) =
             IF r \in {Quote, Space} THEN Text(SubSeq(val, 1, read))
             ELSE Append(Text(SubSeq(val, 1, read)), r)
        /\ read' \in 0 .. Len(val) /\ read \in 0 .. Len(val)
    BY <2>1, ReadOne
  <2>3. out \o buf' = Append(out \o buf, r) /\ out \o buf \in Seq(Char)
    BY <2>1, <1>1
  <2>4. Text(out \o buf') = IF r \in {Quote, Space} THEN Text(out \o buf)
                            ELSE Append(Text(out \o buf), r)
    BY <2>1, <2>3, TextAppend
  <2>5. Parsing'
    BY <2>1, <2>2, <1>1 DEF Parsing
  <2>6. ArgsLoseNothing'
    BY <2>1, <2>2, <2>4, <1>2, <1>3
  <2> QED
    BY <2>5, <2>6
<1>8. CASE LastArg
  <2>1. /\ read = Len(val) /\ read' = read + 1 /\ val' = val /\ buf' = <<>>
        /\ args' = IF buf = <<>> THEN args ELSE Append(args, buf)
    BY <1>8 DEF LastArg, Reset
  <2>2. FlattenSeq(args') = out \o buf
    <3>1. CASE buf = <<>>
      BY <3>1, <2>1, <1>1
    <3>2. CASE buf # <<>>
      BY <3>2, <2>1, <1>1, FlatAppend
    <3> QED
      BY <3>1, <3>2
  <2> HIDE DEF out
  <2>3. FlattenSeq(args') \in Seq(Char) /\ FlattenSeq(args') \o buf' = out \o buf
    <3>1. out \o buf \in Seq(Char)
      BY <1>1
    <3>2. (out \o buf) \o <<>> = out \o buf
      BY <3>1
    <3> QED
      BY <3>1, <3>2, <2>1, <2>2
  <2>4. Parsing'
    BY <2>1, <2>3, <1>1 DEF Parsing
  <2>5. Text(out \o buf) = Text(SubSeq(val, 1, Len(val)))
    BY <2>1, <1>1, <1>2
  <2>6. Len(val') = Len(val) /\ ~(read' < Len(val'))
    BY <2>1, <1>1
  <2>7. ArgsLoseNothing'
    BY <2>1, <2>3, <2>5, <2>6 DEF ArgsLoseNothing
  <2> QED
    BY <2>4, <2>7
<1> QED
  BY <1>4, <1>5, <1>6, <1>7, <1>8 DEF CommandNext

(* The parser begins with nothing read.                                    *)
LEMMA ParseInit ==
  ASSUME CommandInit
  PROVE  Parsing /\ ArgsLoseNothing
<1>1. val \in Seq(Char) /\ read = 0 /\ args = <<>> /\ buf = <<>>
  BY DEF CommandInit, Commands, SeqOf, Char
<1>2. FlattenSeq(args) = <<>>
  BY <1>1 DEF FlattenSeq
<1>3. FlattenSeq(args) \o buf = <<>>
  BY <1>1, <1>2
<1>4. SubSeq(val, 1, IF read < Len(val) THEN read ELSE Len(val)) = <<>>
  BY <1>1
<1>5. ArgsLoseNothing
  BY <1>3, <1>4 DEF ArgsLoseNothing
<1>6. <<>> \in Seq(Char) /\ <<>> \in Seq(Seq(Char)) /\ Len(val) \in Nat
  BY <1>1
<1>7. 0 \in 0 .. Len(val) + 1
  BY <1>6
<1>8. Parsing
  BY <1>1, <1>2, <1>6, <1>7 DEF Parsing
<1> QED
  BY <1>5, <1>8

(* Cutting up a command loses no other character, gives none out twice     *)
(* and changes the place of none, for commands of any length               *)
(* (parse.go:65-88).                                                       *)
THEOREM ArgsAreWhole == CommandSpec => []ArgsLoseNothing
<1>1. CommandInit => Parsing /\ ArgsLoseNothing
  BY ParseInit
<1>2. Parsing /\ ArgsLoseNothing /\ [CommandNext]_command => (Parsing /\ ArgsLoseNothing)'
  BY ParseStep
<1> QED
  BY <1>1, <1>2, PTL DEF CommandSpec

-----------------------------------------------------------------------------
(* That the arguments are the words between the separators.                *)

(* One more quote opens what was closed and closes what was open.          *)
LEMMA QuotedTurns ==
  /\ ~Quoted(0)
  /\ \A i \in Nat : Quoted(i + 1) <=> IF val[i + 1] = Quote THEN ~Quoted(i) ELSE Quoted(i)
<1> DEFINE Q(i) == {j \in 1 .. i : val[j] = Quote}
<1>1. Q(0) = {}
  OBVIOUS
<1>2. Cardinality(Q(0)) = 0
  BY <1>1, FS_EmptySet
<1>3. ~Quoted(0)
  BY <1>2 DEF Quoted
<1>4. ASSUME NEW i \in Nat
      PROVE  Quoted(i + 1) <=> IF val[i + 1] = Quote THEN ~Quoted(i) ELSE Quoted(i)
  <2>1. IsFiniteSet(Q(i)) /\ i + 1 \notin Q(i)
    <3>1. IsFiniteSet(1 .. i)
      BY <1>4, FS_Interval
    <3>2. Q(i) \in SUBSET (1 .. i)
      OBVIOUS
    <3> QED
      BY <3>1, <3>2, FS_Subset
  <2>2. Q(i + 1) = IF val[i + 1] = Quote THEN Q(i) \cup {i + 1} ELSE Q(i)
    <3>1. \A j : j \in 1 .. i + 1 <=> j \in 1 .. i \/ j = i + 1
      OBVIOUS
    <3>2. ASSUME NEW j PROVE j \in Q(i + 1) <=> j \in Q(i) \/ (j = i + 1 /\ val[j] = Quote)
      BY <3>1
    <3> QED
      BY <3>2
  <2>3. Cardinality(Q(i)) \in Nat
    BY <2>1, FS_CardinalityType
  <2>4. Cardinality(Q(i) \cup {i + 1}) = Cardinality(Q(i)) + 1
    BY <2>1, FS_AddElement
  <2>5. Quoted(i) = (Cardinality(Q(i)) % 2 = 1) /\ Quoted(i + 1) = (Cardinality(Q(i + 1)) % 2 = 1)
    BY DEF Quoted
  <2> HIDE DEF Q
  <2>6. \A n \in Nat : (n + 1) % 2 = 1 <=> ~(n % 2 = 1)
    OBVIOUS
  <2>7. CASE val[i + 1] = Quote
    <3>1. Cardinality(Q(i + 1)) = Cardinality(Q(i)) + 1
      BY <2>2, <2>4, <2>7
    <3> QED
      BY <3>1, <2>3, <2>5, <2>6, <2>7
  <2>8. CASE val[i + 1] # Quote
    BY <2>2, <2>5, <2>8
  <2> QED
    BY <2>7, <2>8
<1> QED
  BY <1>3, <1>4

(* A separator is counted behind it.                                       *)
LEMMA NumberTurns ==
  ASSUME val \in Seq(Char)
  PROVE  /\ Number(1) = 1
         /\ \A i \in 1 .. Len(val) + 1 : Number(i) \in Nat
         /\ \A i \in 1 .. Len(val) :
              Number(i + 1) = IF i \in Separators THEN Number(i) + 1 ELSE Number(i)
<1> DEFINE S(i) == {c \in Separators : c < i}
<1>1. Len(val) \in Nat /\ Separators \subseteq 1 .. Len(val)
  BY DEF Separators
<1>2. ASSUME NEW i PROVE IsFiniteSet(S(i)) /\ Cardinality(S(i)) \in Nat
  <2>1. IsFiniteSet(1 .. Len(val))
    BY <1>1, FS_Interval
  <2>2. S(i) \in SUBSET (1 .. Len(val))
    BY <1>1
  <2>3. IsFiniteSet(S(i))
    BY <2>1, <2>2, FS_Subset
  <2> QED
    BY <2>3, FS_CardinalityType
<1>3. S(1) = {}
  <2>1. \A c \in Separators : ~(c < 1)
    BY <1>1
  <2> QED
    BY <2>1
<1>4. Cardinality(S(1)) = 0
  BY <1>3, FS_EmptySet
<1>5. \A i : Number(i) = Cardinality(S(i)) + 1
  BY DEF Number
<1>6. ASSUME NEW i \in 1 .. Len(val)
      PROVE  Number(i + 1) = IF i \in Separators THEN Number(i) + 1 ELSE Number(i)
  <2>1. i \in Nat
    BY <1>1
  <2>2. ASSUME NEW c \in Separators PROVE c < i + 1 <=> c < i \/ c = i
    BY <2>1, <1>1
  <2>3. S(i + 1) = IF i \in Separators THEN S(i) \cup {i} ELSE S(i)
    BY <2>2
  <2>4. i \notin S(i) /\ IsFiniteSet(S(i))
    <3>1. ~(i < i)
      BY <2>1
    <3> QED
      BY <3>1, <1>2
  <2>5. Cardinality(S(i) \cup {i}) = Cardinality(S(i)) + 1
    BY <2>4, FS_AddElement
  <2> HIDE DEF S
  <2> QED
    BY <2>3, <2>5, <1>2, <1>5
<1> HIDE DEF S
<1> QED
  BY <1>2, <1>4, <1>5, <1>6

(* What a word is grows with its characters.                               *)
LEMMA WordTurns ==
  ASSUME val \in Seq(Char), NEW a \in 0 .. Len(val)
  PROVE  /\ Word(a, a + 1) = <<>>
         /\ \A i \in a + 1 .. Len(val) :
              Word(a, i + 1) = IF val[i] = Quote THEN Word(a, i) ELSE Append(Word(a, i), val[i])
<1>1. Len(val) \in Nat /\ a \in Nat
  OBVIOUS
<1>2. SubSeq(val, a + 1, (a + 1) - 1) = <<>>
  BY <1>1
<1>3. Word(a, a + 1) = <<>>
  BY <1>2, BareAppend DEF Word
<1>4. ASSUME NEW i \in a + 1 .. Len(val)
      PROVE  Word(a, i + 1) = IF val[i] = Quote THEN Word(a, i) ELSE Append(Word(a, i), val[i])
  <2> DEFINE s == SubSeq(val, a + 1, i - 1)
             t == SubSeq(val, a + 1, (i + 1) - 1)
  <2>1. i \in 1 .. Len(val) /\ i - 1 \in Nat /\ (i + 1) - 1 = i /\ a + 1 \in Nat
    BY <1>1
  <2>2. s \in Seq(Char) /\ val[i] \in Char
    BY <2>1, <1>1
  <2>3. t = Append(s, val[i])
    BY <2>1, <1>1
  <2>4. Word(a, i) = Bare(s) /\ Word(a, i + 1) = Bare(t)
    BY DEF Word
  <2> HIDE DEF s, t
  <2> QED
    BY <2>2, <2>3, <2>4, BareAppend
<1> QED
  BY <1>3, <1>4

(* The words of a neat command up to a character: those that a separator   *)
(* has ended are arguments, and what is read of the one after them is in   *)
(* the buffer.                                                             *)
WordsSoFar ==
  /\ read <= Len(val) => (inQuote <=> Quoted(read))
  /\ read <= Len(val) /\ Neat =>
       /\ Len(args) = Number(read + 1) - 1
       /\ \A a \in Starts, b \in Separators : Adjacent(a, b) /\ b <= read =>
            Number(b) \in 1 .. Len(args) /\ args[Number(b)] = Word(a, b)
       /\ \E a \in Starts : Adjacent(a, read + 1) /\ buf = Word(a, read + 1)

(* What a character read means for the words, if it is no separator: it is *)
(* one more of the last word, but for a quote.                             *)
LEMMA MoreOfAWord ==
  ASSUME Parsing, WordsSoFar, Neat, NEW r \in Char, Rune(r), args' = args,
         read + 1 \notin Separators,
         buf' = IF r = Quote THEN buf ELSE Append(buf, r)
  PROVE  /\ Len(args) = Number(read + 2) - 1
         /\ \A a \in Starts, b \in Separators : Adjacent(a, b) /\ b <= read + 1 =>
              Number(b) \in 1 .. Len(args) /\ args[Number(b)] = Word(a, b)
         /\ \E a \in Starts : Adjacent(a, read + 2) /\ buf' = Word(a, read + 2)
<1>1. /\ read < Len(val) /\ val[read + 1] = r /\ read \in Nat /\ Len(val) \in Nat
      /\ val \in Seq(Char) /\ read + 1 \in 1 .. Len(val) /\ (read + 1) + 1 = read + 2
      /\ Separators \subseteq 1 .. Len(val) /\ Starts \subseteq 0 .. Len(val)
  BY DEF Parsing, Rune, Separators, Starts
<1>2. /\ Len(args) = Number(read + 1) - 1
      /\ \A a \in Starts, b \in Separators : Adjacent(a, b) /\ b <= read =>
           Number(b) \in 1 .. Len(args) /\ args[Number(b)] = Word(a, b)
  BY <1>1 DEF WordsSoFar
<1>3. PICK a \in Starts : Adjacent(a, read + 1) /\ buf = Word(a, read + 1)
  BY <1>1 DEF WordsSoFar
<1>4. Number(read + 2) = Number(read + 1)
  BY <1>1, NumberTurns
<1>5. \A b \in Separators : b <= read + 1 => b <= read
  BY <1>1
<1>6. a \in 0 .. Len(val) /\ a < read + 1 /\ read + 1 \in a + 1 .. Len(val)
  BY <1>1, <1>3 DEF Adjacent
<1>7. Adjacent(a, read + 2)
  <2>1. \A c \in Separators : c < read + 2 => c < read + 1
    BY <1>1
  <2> QED
    BY <2>1, <1>1, <1>3, <1>6 DEF Adjacent
<1>8. Word(a, read + 2) = IF r = Quote THEN Word(a, read + 1) ELSE Append(Word(a, read + 1), r)
  BY <1>1, <1>6, WordTurns
<1> QED
  BY <1>2, <1>3, <1>4, <1>5, <1>7, <1>8

(* And if it is a separator that ends a word.                              *)
LEMMA EndOfAWord ==
  ASSUME Parsing, WordsSoFar, Neat, Rune(Space), args' = Append(args, buf),
         read + 1 \in Separators, buf' = <<>>
  PROVE  /\ Len(args') = Number(read + 2) - 1
         /\ \A a \in Starts, b \in Separators : Adjacent(a, b) /\ b <= read + 1 =>
              Number(b) \in 1 .. Len(args') /\ args'[Number(b)] = Word(a, b)
         /\ \E a \in Starts : Adjacent(a, read + 2) /\ buf' = Word(a, read + 2)
<1>1. /\ read < Len(val) /\ read \in Nat /\ Len(val) \in Nat
      /\ val \in Seq(Char) /\ read + 1 \in 1 .. Len(val) /\ (read + 1) + 1 = read + 2
      /\ Separators \subseteq 1 .. Len(val) /\ Starts \subseteq 0 .. Len(val)
      /\ args \in Seq(Seq(Char)) /\ buf \in Seq(Char)
  BY DEF Parsing, Rune, Separators, Starts
<1>2. /\ Len(args) = Number(read + 1) - 1
      /\ \A a \in Starts, b \in Separators : Adjacent(a, b) /\ b <= read =>
           Number(b) \in 1 .. Len(args) /\ args[Number(b)] = Word(a, b)
  BY <1>1 DEF WordsSoFar
<1>3. PICK a \in Starts : Adjacent(a, read + 1) /\ buf = Word(a, read + 1)
  BY <1>1 DEF WordsSoFar
<1>4. Number(read + 2) = Number(read + 1) + 1 /\ Number(read + 1) \in Nat
  BY <1>1, NumberTurns
<1>5. /\ Len(args) \in Nat /\ Len(args') = Len(args) + 1
      /\ \A k \in 1 .. Len(args) : args'[k] = args[k]
      /\ args'[Len(args) + 1] = buf
  BY <1>1
<1>6. ASSUME NEW e \in Starts, NEW b \in Separators, Adjacent(e, b), b <= read + 1
      PROVE  Number(b) \in 1 .. Len(args') /\ args'[Number(b)] = Word(e, b)
  <2>1. CASE b <= read
    BY <2>1, <1>2, <1>5, <1>6
  <2>2. CASE ~(b <= read)
    <3>1. b = read + 1
      BY <2>2, <1>1, <1>6
    <3>2. e = a
      <4>1. ~(a < e) /\ ~(e < a)
        BY <3>1, <1>1, <1>3, <1>6 DEF Adjacent, Starts
      <4> QED
        BY <4>1, <1>1
    <3>3. Number(b) = Len(args) + 1
      BY <3>1, <1>2, <1>4, <1>5
    <3> QED
      BY <3>1, <3>2, <3>3, <1>3, <1>5
  <2> QED
    BY <2>1, <2>2
<1>7. read + 1 \in Starts /\ Adjacent(read + 1, read + 2) /\ Word(read + 1, read + 2) = <<>>
  <2>1. read + 1 \in Starts
    BY DEF Starts
  <2>2. Adjacent(read + 1, read + 2)
    BY <1>1 DEF Adjacent
  <2>3. Word(read + 1, read + 2) = <<>>
    BY <1>1, WordTurns
  <2> QED
    BY <2>1, <2>2, <2>3
<1> QED
  BY <1>2, <1>4, <1>5, <1>6, <1>7

(* What the words are depends on the command alone, which no step changes. *)
LEMMA WordsStay ==
  ASSUME val' = val
  PROVE  /\ Separators' = Separators /\ Starts' = Starts /\ Ends' = Ends /\ (Neat' <=> Neat)
         /\ \A i : Quoted(i)' <=> Quoted(i)
         /\ \A b : Number(b)' = Number(b)
         /\ \A a, b : (Adjacent(a, b)' <=> Adjacent(a, b)) /\ Word(a, b)' = Word(a, b)
<1>1. \A i : Quoted(i)' <=> Quoted(i)
  BY DEF Quoted
<1>2. Separators' = Separators
  BY DEF Separators, Quoted
<1>3. Starts' = Starts /\ Ends' = Ends
  BY <1>2 DEF Starts, Ends
<1>4. \A b : Number(b)' = Number(b)
  BY <1>2 DEF Number
<1>5. \A a, b : (Adjacent(a, b)' <=> Adjacent(a, b)) /\ Word(a, b)' = Word(a, b)
  BY <1>2 DEF Adjacent, Word
<1>6. Neat' <=> Neat
  BY <1>2, <1>3, <1>5 DEF Neat
<1> QED
  BY <1>1, <1>2, <1>3, <1>4, <1>5, <1>6

(* A character keeps the account of the words.                             *)
LEMMA WordsGrow ==
  ASSUME Parsing, WordsSoFar, ArgsAreWords, NEW r \in Char, Rune(r),
         inQuote' <=> Quoted(read + 1),
         \/ args' = args /\ buf' = (IF r = Quote THEN buf ELSE Append(buf, r))
            /\ (Neat => read + 1 \notin Separators)
         \/ r = Space /\ args' = Append(args, buf) /\ buf' = <<>> /\ read + 1 \in Separators
  PROVE  WordsSoFar' /\ ArgsAreWords'
<1>1. /\ val' = val /\ read' = read + 1 /\ read' <= Len(val) /\ Len(val') = Len(val)
      /\ read' + 1 = read + 2 /\ read' \in Nat /\ Len(val) \in Nat
  BY DEF Rune, Parsing
<1>2. inQuote' <=> Quoted(read')
  BY <1>1
<1>3. ASSUME Neat
      PROVE  /\ Len(args') = Number(read + 2) - 1
             /\ \A a \in Starts, b \in Separators : Adjacent(a, b) /\ b <= read + 1 =>
                  Number(b) \in 1 .. Len(args') /\ args'[Number(b)] = Word(a, b)
             /\ \E a \in Starts : Adjacent(a, read + 2) /\ buf' = Word(a, read + 2)
  <2>1. CASE args' = args /\ buf' = (IF r = Quote THEN buf ELSE Append(buf, r))
             /\ read + 1 \notin Separators
    <3>1. /\ Len(args) = Number(read + 2) - 1
          /\ \A a \in Starts, b \in Separators : Adjacent(a, b) /\ b <= read + 1 =>
               Number(b) \in 1 .. Len(args) /\ args[Number(b)] = Word(a, b)
          /\ \E a \in Starts : Adjacent(a, read + 2) /\ buf' = Word(a, read + 2)
      BY <2>1, <1>3, MoreOfAWord
    <3> QED
      BY <2>1, <3>1
  <2>2. CASE r = Space /\ args' = Append(args, buf) /\ buf' = <<>> /\ read + 1 \in Separators
    BY <2>2, <1>3, EndOfAWord
  <2> QED
    BY <2>1, <2>2, <1>3
<1>4. WordsSoFar'
  <2>1. WordsSoFar' <=>
          /\ read' <= Len(val) => (inQuote' <=> Quoted(read'))
          /\ read' <= Len(val) /\ Neat =>
               /\ Len(args') = Number(read' + 1) - 1
               /\ \A a \in Starts, b \in Separators : Adjacent(a, b) /\ b <= read' =>
                    Number(b) \in 1 .. Len(args') /\ args'[Number(b)] = Word(a, b)
               /\ \E a \in Starts : Adjacent(a, read' + 1) /\ buf' = Word(a, read' + 1)
    BY <1>1, WordsStay DEF WordsSoFar
  <2> QED
    BY <2>1, <1>1, <1>2, <1>3
<1>5. ArgsAreWords'
  <2>1. ~(read' > Len(val'))
    BY <1>1
  <2> QED
    BY <2>1 DEF ArgsAreWords
<1> QED
  BY <1>4, <1>5

(* At the end of the command the buffer holds the last word.               *)
LEMMA LastWord ==
  ASSUME Parsing, WordsSoFar, LastArg
  PROVE  WordsSoFar' /\ ArgsAreWords'
<1>1. /\ val' = val /\ read = Len(val) /\ read' = Len(val) + 1 /\ Len(val) \in Nat
      /\ Len(val') = Len(val) /\ ~(read' <= Len(val')) /\ val \in Seq(Char)
      /\ Separators \subseteq 1 .. Len(val) /\ Starts \subseteq 0 .. Len(val)
      /\ args \in Seq(Seq(Char)) /\ buf \in Seq(Char)
      /\ args' = IF buf = <<>> THEN args ELSE Append(args, buf)
  BY DEF LastArg, Parsing, Separators, Starts
<1>2. WordsSoFar'
  BY <1>1 DEF WordsSoFar
<1>3. ASSUME Neat, NEW a \in Starts, NEW b \in Ends, Adjacent(a, b)
      PROVE  /\ Word(a, b) # <<>> => Number(b) \in DOMAIN args' /\ args'[Number(b)] = Word(a, b)
             /\ b = Len(val) + 1 =>
                  Len(args') = IF Word(a, b) = <<>> THEN Number(b) - 1 ELSE Number(b)
  <2>1. /\ Len(args) = Number(Len(val) + 1) - 1
        /\ \A e \in Starts, c \in Separators : Adjacent(e, c) /\ c <= Len(val) =>
             Number(c) \in 1 .. Len(args) /\ args[Number(c)] = Word(e, c)
    BY <1>1, <1>3 DEF WordsSoFar
  <2>2. PICK e \in Starts : Adjacent(e, Len(val) + 1) /\ buf = Word(e, Len(val) + 1)
    BY <1>1, <1>3 DEF WordsSoFar
  <2>3. /\ Len(args) \in Nat
        /\ \A k \in 1 .. Len(args) : k \in DOMAIN args' /\ args'[k] = args[k]
        /\ buf # <<>> => Len(args') = Len(args) + 1 /\ args'[Len(args) + 1] = buf
        /\ buf = <<>> => Len(args') = Len(args)
        /\ DOMAIN args' = 1 .. Len(args')
    BY <1>1
  <2>4. CASE b \in Separators
    <3>1. b <= Len(val) /\ b # Len(val) + 1
      BY <2>4, <1>1
    <3> QED
      BY <2>1, <2>3, <2>4, <3>1, <1>3
  <2>5. CASE b = Len(val) + 1
    <3>1. a = e
      <4>1. ~(a < e) /\ ~(e < a)
        BY <2>5, <1>1, <1>3, <2>2 DEF Adjacent, Starts
      <4> QED
        BY <4>1, <1>1
    <3>2. Number(b) \in Nat /\ Number(b) = Len(args) + 1
      <4>1. Number(Len(val) + 1) \in Nat
        BY <1>1, NumberTurns
      <4> QED
        BY <4>1, <2>1, <2>3, <2>5
    <3>3. buf = Word(a, b)
      BY <3>1, <2>2, <2>5
    <3>4. CASE buf = <<>>
      BY <3>2, <3>3, <3>4, <2>3
    <3>5. CASE buf # <<>>
      BY <3>2, <3>3, <3>5, <2>3
    <3> QED
      BY <3>4, <3>5
  <2> QED
    BY <2>4, <2>5, <1>3 DEF Ends
<1>4. ArgsAreWords'
  <2>1. ArgsAreWords' <=>
          (read' > Len(val) /\ Neat =>
            \A a \in Starts, b \in Ends : Adjacent(a, b) =>
              /\ Word(a, b) # <<>> => Number(b) \in DOMAIN args' /\ args'[Number(b)] = Word(a, b)
              /\ b = Len(val) + 1 =>
                   Len(args') = IF Word(a, b) = <<>> THEN Number(b) - 1 ELSE Number(b))
    BY <1>1 DEF ArgsAreWords, Neat, Starts, Ends, Separators, Adjacent, Number, Word, Quoted
  <2> QED
    BY <2>1, <1>3
<1> QED
  BY <1>2, <1>4

(* Every step of the parser keeps the account of the words: a quote opens  *)
(* or closes, white space ends a word where it is a separator, and every   *)
(* other character belongs to the last word (parse.go:65-88).              *)
LEMMA WordsStep ==
  ASSUME Parsing, WordsSoFar, ArgsAreWords, [CommandNext]_command
  PROVE  WordsSoFar' /\ ArgsAreWords'
<1> Quote \in Char /\ Space \in Char /\ "x" \in Char /\ Quote # Space /\ "x" # Quote /\ "x" # Space
  BY DEF Char, Quote, Space
<1>1. CASE UNCHANGED command
  <2>1. val' = val /\ read' = read /\ args' = args /\ buf' = buf /\ inQuote' = inQuote
    BY <1>1 DEF command
  <2>2. WordsSoFar'
    BY <2>1, WordsStay DEF WordsSoFar
  <2>3. ArgsAreWords'
    BY <2>1, WordsStay DEF ArgsAreWords
  <2> QED
    BY <2>2, <2>3
<1>2. ASSUME NEW r \in Char, Rune(r)
      PROVE  /\ inQuote <=> Quoted(read)
             /\ Quoted(read + 1) <=> IF r = Quote THEN ~inQuote ELSE inQuote
             /\ read + 1 \in Separators <=> r = Space /\ ~inQuote
  <2>1. read < Len(val) /\ val[read + 1] = r /\ read \in Nat /\ Len(val) \in Nat
    BY <1>2 DEF Rune, Parsing
  <2>2. read <= Len(val) /\ read + 1 \in DOMAIN val
    BY <2>1 DEF Parsing
  <2>3. inQuote <=> Quoted(read)
    BY <2>2 DEF WordsSoFar
  <2>4. Quoted(read + 1) <=> IF r = Quote THEN ~Quoted(read) ELSE Quoted(read)
    BY <2>1, QuotedTurns
  <2>5. read + 1 \in Separators <=> r = Space /\ ~Quoted(read + 1)
    BY <2>1, <2>2 DEF Separators
  <2>6. r = Space => r # Quote
    OBVIOUS
  <2> QED
    BY <2>3, <2>4, <2>5, <2>6, Zenon
<1>3. CASE Toggle
  <2>1. Rune(Quote) /\ (inQuote' <=> ~inQuote) /\ args' = args /\ buf' = buf
    BY <1>3 DEF Toggle
  <2>2. (inQuote' <=> Quoted(read + 1)) /\ read + 1 \notin Separators
    BY <2>1, <1>2
  <2> QED
    BY <2>1, <2>2, WordsGrow
<1>4. CASE Split
  <2>1. /\ Rune(Space) /\ ~inQuote /\ (inQuote' <=> inQuote)
        /\ args' = Append(args, buf) /\ buf' = <<>>
    BY <1>4 DEF Split, Splits, Reset
  <2>2. (inQuote' <=> Quoted(read + 1)) /\ read + 1 \in Separators
    BY <2>1, <1>2
  <2> QED
    BY <2>1, <2>2, WordsGrow
<1>5. CASE WriteRune(Space)
  <2>1. /\ Rune(Space) /\ ~(~inQuote /\ buf # <<>>) /\ (inQuote' <=> inQuote)
        /\ args' = args /\ buf' = Append(buf, Space)
    BY <1>5 DEF WriteRune, Splits
  <2>2. inQuote' <=> Quoted(read + 1)
    BY <2>1, <1>2
  <2>3. ASSUME Neat, read + 1 \in Separators PROVE FALSE
    <3>1. buf = <<>>
      BY <2>1, <2>3, <1>2
    <3>2. read <= Len(val)
      BY <2>1 DEF Rune, Parsing
    <3>3. PICK a \in Starts : Adjacent(a, read + 1) /\ buf = Word(a, read + 1)
      BY <2>3, <3>2 DEF WordsSoFar
    <3> QED
      BY <2>3, <3>1, <3>3 DEF Neat
  <2> QED
    BY <2>1, <2>2, <2>3, WordsGrow
<1>6. CASE WriteRune("x")
  <2>1. Rune("x") /\ (inQuote' <=> inQuote) /\ args' = args /\ buf' = Append(buf, "x")
    BY <1>6 DEF WriteRune
  <2>2. (inQuote' <=> Quoted(read + 1)) /\ read + 1 \notin Separators
    BY <2>1, <1>2
  <2> QED
    BY <2>1, <2>2, WordsGrow
<1>7. CASE LastArg
  BY <1>7, LastWord
<1> QED
  BY <1>1, <1>3, <1>4, <1>5, <1>6, <1>7 DEF CommandNext

(* The arguments of a command with one space between words are its words,  *)
(* in order and whatever is quoted in them (parse.go:65-88).               *)
THEOREM WordsAreKept == CommandSpec => []ArgsAreWords
<1>1. CommandInit => Parsing /\ ArgsLoseNothing /\ WordsSoFar /\ ArgsAreWords
  <2> SUFFICES ASSUME CommandInit
               PROVE  Parsing /\ ArgsLoseNothing /\ WordsSoFar /\ ArgsAreWords
    OBVIOUS
  <2>1. /\ val \in Seq(Char) /\ Len(val) \in Nat /\ read = 0 /\ read + 1 = 1
        /\ args = <<>> /\ buf = <<>> /\ ~inQuote
        /\ Separators \subseteq 1 .. Len(val) /\ ~(read > Len(val))
    BY DEF CommandInit, Commands, SeqOf, Char, Separators
  <2>2. Parsing /\ ArgsLoseNothing
    BY ParseInit
  <2>3. inQuote <=> Quoted(read)
    BY <2>1, QuotedTurns
  <2>4. Len(args) = Number(read + 1) - 1
    BY <2>1, NumberTurns
  <2>5. \A b \in Separators : ~(b <= read)
    BY <2>1
  <2>6. 0 \in Starts /\ Adjacent(0, read + 1) /\ buf = Word(0, read + 1)
    <3>1. 0 \in Starts
      BY DEF Starts
    <3>2. Adjacent(0, read + 1)
      BY <2>1 DEF Adjacent
    <3>3. Word(0, 0 + 1) = <<>>
      BY <2>1, WordTurns
    <3> QED
      BY <3>1, <3>2, <3>3, <2>1
  <2>7. WordsSoFar
    BY <2>3, <2>4, <2>5, <2>6 DEF WordsSoFar
  <2>8. ArgsAreWords
    BY <2>1 DEF ArgsAreWords
  <2> QED
    BY <2>2, <2>7, <2>8
<1>2. /\ Parsing /\ ArgsLoseNothing /\ WordsSoFar /\ ArgsAreWords /\ [CommandNext]_command
      => (Parsing /\ ArgsLoseNothing /\ WordsSoFar /\ ArgsAreWords)'
  BY ParseStep, WordsStep
<1> QED
  BY <1>1, <1>2, PTL DEF CommandSpec

-----------------------------------------------------------------------------
(* The three loops as the model checker runs them, one input at a time:    *)
(* none of them loses anything, and a command is cut where it should be.   *)
THEOREM NothingIsLost ==
  Spec => [](ArgsLoseNothing /\ ArgsAreWords /\ NulsDiscarded /\ SheetsHoldAll)
<1>1. Init => CommandInit /\ NulInit /\ DownloadInit
  BY DEF Init
<1>2. [Next]_<<command, nul, download>> => [CommandNext]_command
  BY DEF Next, command, nul, download, Discard, AddRow
<1>3. [Next]_<<command, nul, download>> => [Discard]_nul
  BY DEF Next, command, nul, download
<1>4. [Next]_<<command, nul, download>> => [AddRow]_download
  BY DEF Next, command, nul, download
<1> QED
  BY <1>1, <1>2, <1>3, <1>4, ArgsAreWhole, WordsAreKept, NulsAreDiscarded, DownloadIsWhole, PTL
     DEF Spec, CommandSpec, NulSpec, DownloadSpec
=============================================================================

------------------------------ MODULE Download ------------------------------
(***************************************************************************)
(* How the web server lays out the records of a query on the sheets of a   *)
(* spreadsheet (web/srv.go GetDown), one record per step.  cnt counts from *)
(* 1, and 1 begins a sheet.  GetDown does not look at the error of Query: *)
(* when that fails, the nil result is dereferenced, and net/http ends the  *)
(* request without a download.                                             *)
(***************************************************************************)
EXTENDS Integers, Sequences

CONSTANTS
  SheetRows,   \* a sheet is full when cnt gets here (65534)
  MaxRows      \* bound: records of a download

ASSUME DownloadAssumption == SheetRows \in Nat \ {0, 1} /\ MaxRows \in Nat

VARIABLES
  rows,     \* how many records the query returned, or NoResult
  row,      \* the record GetDown is at
  cnt,
  sheets    \* the records on each sheet

download == <<rows, row, cnt, sheets>>

(* Query returned an error, and nil (srv.go:121).                          *)
NoResult == -1

(* What follows a full sheet.                                              *)
FromZero == 0
FirstRow == 1

DownloadInit ==
  /\ rows \in {NoResult} \cup 0 .. MaxRows
  /\ row = 1 /\ cnt = 1
  /\ sheets = <<>>

AddRow ==
  /\ rows # NoResult
  /\ row <= rows
  /\ sheets' = IF cnt = 1 THEN Append(sheets, <<row>>)
               ELSE [sheets EXCEPT ![Len(sheets)] = Append(@, row)]
  /\ cnt' = IF cnt + 1 >= SheetRows THEN FirstRow ELSE cnt + 1
  /\ row' = row + 1
  /\ UNCHANGED rows

DownloadSpec == DownloadInit /\ [][AddRow]_download

(* A download holds the records once and in order: the k-th sheet begins   *)
(* with the record after those of the sheets before it, and the last one   *)
(* ends with the record just added.  No sheet is empty, none but the last  *)
(* has fewer than SheetRows - 1 rows under its header, and none has more   *)
(* (srv.go:141-171).                                                       *)
PerSheet  == SheetRows - 1
Before(k) == (k - 1) * PerSheet
SheetsHoldAll ==
  /\ \A k \in DOMAIN sheets :
       /\ IF k < Len(sheets) THEN Len(sheets[k]) = PerSheet
                             ELSE Len(sheets[k]) \in 1 .. PerSheet
       /\ \A j \in DOMAIN sheets[k] : sheets[k][j] = Before(k) + j
  /\ row - 1 = IF sheets = <<>> THEN 0
               ELSE Before(Len(sheets)) + Len(sheets[Len(sheets)])
=============================================================================

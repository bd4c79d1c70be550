------------------------------ MODULE MCInputs ------------------------------
(***************************************************************************)
(* The loops that cut up what comes in and goes out, on all inputs up to   *)
(* the bounds, one input at a time: a command, the bytes of a file or the  *)
(* records of a download.                                                  *)
(***************************************************************************)
EXTENDS CommandLine, NulDiscard, Download

OneInput == Cardinality({k \in 1 .. 3 :
              CASE k = 1 -> val # <<>> [] k = 2 -> bytes # <<>> [] k = 3 -> rows # 0}) <= 1

Init == CommandInit /\ NulInit /\ DownloadInit /\ OneInput
Next == \/ CommandNext /\ UNCHANGED <<nul, download>>
        \/ Discard /\ UNCHANGED <<command, download>>
        \/ AddRow /\ UNCHANGED <<command, nul>>
Spec == Init /\ [][Next]_<<command, nul, download>>
=============================================================================

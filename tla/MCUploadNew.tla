---------------------------- MODULE MCUploadNew ----------------------------
(***************************************************************************)
(* An upload, and how its file is cut.  The workers of UploadNew see part  *)
(* numbers only and UploadParts has no workers, so that a behaviour runs   *)
(* one of the two, chosen in the beginning.                                *)
(***************************************************************************)
EXTENDS UploadNew

CONSTANTS Chunks, MaxParts, MaxSize   \* of UploadParts; batches are the same

VARIABLES runs, step, size, length, chunk, first, number, position, signed, parts

P == INSTANCE UploadParts

ASSUME MCPartsAssumption == P!PartsAssumption

cut == <<step, size, length, chunk, first, number, position, signed, parts>>

MCInit ==
    \/ runs = "upload" /\ Init /\ P!Init /\ size = 0 /\ length = 0 /\ chunk = CHOOSE k \in Chunks : TRUE
    \/ runs = "cut" /\ Init /\ source = "good" /\ P!Init

MCNext ==
    \/ runs = "upload" /\ Next /\ UNCHANGED <<runs, cut>>
    \/ runs = "cut" /\ P!Next /\ UNCHANGED <<runs, vars>>

Producer == runs = "upload" /\ Main /\ UNCHANGED <<runs, cut>>
Works(p) == runs = "upload" /\ Worker(p) /\ UNCHANGED <<runs, cut>>

\* The fairness of UploadNew.
MCSpec ==
    /\ MCInit /\ [][MCNext]_<<runs, vars, cut>>
    /\ WF_<<runs, vars, cut>>(Producer)
    /\ \A p \in Part : WF_<<runs, vars, cut>>(Works(p))

CutIsExact == P!CutIsExact

(***************************************************************************)
(* Every upload returns: the producer does not wait for ever for a slot,   *)
(* nor a worker for a refresh.                                             *)
(***************************************************************************)
EveryUploadReturns == runs = "upload" => UploadReturns
=============================================================================

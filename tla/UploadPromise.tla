--------------------------- MODULE UploadPromise ---------------------------
(***************************************************************************)
(* What uploadNew promises to Put and Update: it returns an object only if *)
(* that object is on the drive with the declared identity; an error says   *)
(* nothing, the object may be there, appear later, or never exist.         *)
(***************************************************************************)
VARIABLES object,   \* "absent", "promised" (may still appear), "visible", "wrong"
          answer    \* "none", "ok" or "error"

vars == <<object, answer>>

Init == object = "absent" /\ answer = "none"

\* The service: before it is visible the object can appear, or never appear.
Develop ==
    /\ object \in {"absent", "promised"}
    /\ object' \in {"absent", "promised", "visible", "wrong"}
    /\ answer = "none" \/ object = "promised"
    /\ UNCHANGED answer

ReturnObject == answer = "none" /\ object = "visible" /\ answer' = "ok" /\ UNCHANGED object

\* An error may be returned together with what its last request did.
ReturnError ==
    /\ answer = "none"
    /\ answer' = "error"
    /\ object' = object \/ (object \in {"absent", "promised"} /\ object' \in {"promised", "visible"})

Next == Develop \/ ReturnObject \/ ReturnError

Spec == Init /\ [][Next]_vars
=============================================================================

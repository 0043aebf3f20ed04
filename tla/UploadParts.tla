---------------------------- MODULE UploadParts ----------------------------
(***************************************************************************)
(* How uploadPresigned cuts a file (multipart.go): the number of parts is  *)
(* computed from the declared size and the slice size that the service     *)
(* names, the parts are numbered in batches, for each of which URLs are    *)
(* asked for, and each part is read from where the one before it ended.    *)
(* Offsets and sizes are arithmetic on the numbers, the bytes are whatever *)
(* the reader gives next: nothing but that arithmetic keeps them together. *)
(* UploadNew has the workers and failures that this module leaves out.     *)
(***************************************************************************)
EXTENDS Integers

CONSTANTS Chunks,     \* uploadChunkSize, largeUploadChunkSize
          BatchSize,  \* uploadBatchSize
          MaxParts,   \* maxUploadParts
          MaxSize     \* bound: sizes of files

\* What the module assumes of its constants; its instances state it.
PartsAssumption ==
    /\ Chunks \subseteq Nat \ {0}
    /\ BatchSize \in Nat \ {0} /\ MaxParts \in Nat \ {0} /\ MaxSize \in Nat

VARIABLES step,      \* where the producer is
          size,      \* source.size, as declared
          length,    \* the bytes that the source turns out to have
          chunk,     \* the slice size
          first,     \* the batch: its first part,
          number,    \* the part to be read next
          position,  \* of the reader in the source
          signed,    \* parts for which URLs were asked for
          parts      \* what was read: number, first byte, byte after the last one

cutting == <<size, length, chunk>>
vars == <<step, cutting, first, number, position, signed, parts>>

Least(a, b) == IF a < b THEN a ELSE b

Init ==
    /\ step = "count"
    /\ size \in 0..MaxSize /\ length \in 0..MaxSize + 1 /\ chunk \in Chunks
    /\ first = 1 /\ number = 1 /\ position = 0
    /\ signed = {} /\ parts = {}

-----------------------------------------------------------------------------
\* X_Suffix is a deliberate mistake in X, used to show that a property can
\* fail; no action of the specification uses it.

\* uploadPartCount: an empty file has one part, too.
PartCount_Full == IF size < chunk THEN 1 ELSE size \div chunk
PartCount ==
    LET full == size \div chunk
    IN  IF size = 0 THEN 1 ELSE IF size % chunk # 0 THEN full + 1 ELSE full

\* The last part of the batch: uploadBatches.
Last == IF PartCount = 1 THEN 1 ELSE Least(first + BatchSize - 1, PartCount)

PartSize ==
    LET rest == size - (number - 1) * chunk
    IN  IF rest < 0 THEN 0 ELSE Least(chunk, rest)

Count ==
    /\ step = "count"
    /\ step' = IF PartCount > MaxParts THEN "refused" ELSE "sign"
    /\ UNCHANGED <<cutting, first, number, position, signed, parts>>

\* getUploadURLs: PartNumberEnd is exclusive.
Sign ==
    /\ step = "sign"
    /\ signed' = signed \cup first..Last
    /\ step' = "read"
    /\ UNCHANGED <<cutting, first, number, position, parts>>

\* readExactPart: all bytes of the part, or the upload fails.
ReadPart ==
    /\ step = "read"
    /\ IF position + PartSize > length
       THEN step' = "refused" /\ UNCHANGED <<first, number, position, parts>>
       ELSE /\ parts' = parts \cup {[part |-> number, from |-> position, to |-> position + PartSize]}
            /\ position' = position + PartSize
            /\ number' = number + 1
            /\ first' = IF number = Last THEN number + 1 ELSE first
            /\ step' = IF number < Last THEN "read" ELSE IF Last < PartCount THEN "sign" ELSE "extra"
    /\ UNCHANGED <<cutting, signed>>

\* Not one byte may follow.
Extra ==
    /\ step = "extra"
    /\ step' = IF position < length THEN "refused" ELSE "whole"
    /\ UNCHANGED <<cutting, first, number, position, signed, parts>>

Finished == step \in {"whole", "refused"} /\ UNCHANGED vars

Next == Count \/ Sign \/ ReadPart \/ Extra \/ Finished

Spec == Init /\ [][Next]_vars

-----------------------------------------------------------------------------
TypeOK ==
    /\ step \in {"count", "sign", "read", "extra", "whole", "refused"}
    /\ size \in 0..MaxSize /\ length \in 0..MaxSize + 1 /\ chunk \in Chunks
    /\ first \in 1..MaxParts + 1 /\ number \in 1..MaxParts + 1
    /\ position \in 0..MaxSize
    /\ signed \subseteq 1..MaxParts
    /\ parts \subseteq [part : 1..MaxParts, from : 0..MaxSize, to : 0..MaxSize]

(***************************************************************************)
(* What the service assembles from the parts, in the order of their        *)
(* numbers, is the file: part p holds the bytes from (p - 1) * chunk, only *)
(* the last one is shorter than a chunk, none is empty but that of an      *)
(* empty file, none is missing, and each was signed for.  A source of any  *)
(* other length than the declared one is refused.                          *)
(***************************************************************************)
CutIsExact ==
    /\ \A p \in parts : p.part \in signed /\ p.from = (p.part - 1) * chunk /\ p.to <= p.from + chunk
    /\ step = "whole" =>
        /\ length = size
        /\ \A p \in parts : p.to = Least(p.part * chunk, size) /\ (p.from < p.to \/ size = 0)
        /\ \A byte \in 0..size - 1 : \E p \in parts : p.from <= byte /\ byte < p.to
        /\ signed = {p.part : p \in parts}
=============================================================================

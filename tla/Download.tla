------------------------------ MODULE Download ------------------------------
(***************************************************************************)
(* Object.Open and the reader it returns (download.go): one or two         *)
(* attempts, each of which asks for a link, follows it to the final URL    *)
(* and requests the content, or a range of it, from a CDN.  The response   *)
(* must be what was asked for, by its status, Content-Range and            *)
(* Content-Length, and the reader hands out exactly that many bytes.       *)
(*                                                                         *)
(* The service is external: links may have expired (HTTP 403), requests    *)
(* fail, responses cover another range or announce no length, and bodies   *)
(* break off, fail, or go on too long.  Where a body begins is what the    *)
(* response says; which bytes it holds is left out.  Unwrapping and        *)
(* checking of URLs is a request that fails.                               *)
(***************************************************************************)
EXTENDS Integers, Sequences

CONSTANTS MaxSize,  \* bound: size of the object
          Options   \* the range options of the callers, sequences of ranges

None == -1
Edge == None..MaxSize + 1
Range == [start : Edge, end : Edge]

\* What the module assumes of its constants; its instances state it.
DownloadAssumption == MaxSize \in Nat /\ Options \subseteq Seq(Range)

VARIABLES phase,      \* where Open and the reader are
          size,       \* o.size
          asked,      \* the normalized options
          attempt,    \* number of the attempt, from 1
          remaining,  \* exactReadCloser.remaining
          checked,    \* exactReadCloser.checked
          body,       \* the response: where it begins, bytes left, how it ends
          delivered,  \* bytes handed to the caller
          faulted     \* the service did more than to let one link expire

reader == <<remaining, checked, body, delivered>>
vars == <<phase, size, asked, attempt, reader, faulted>>

Body == [from : 0..MaxSize + 1, left : 0..MaxSize + 2, ends : {"eof", "error"}]

TypeOK ==
    /\ phase \in {"idle", "url", "resolve", "get", "read", "eof", "error"}
    /\ size \in 0..MaxSize
    /\ asked \in Seq([start : Int, end : Int])
    /\ attempt \in 1..2
    /\ remaining \in 0..MaxSize /\ delivered \in 0..MaxSize
    /\ checked \in BOOLEAN /\ faulted \in BOOLEAN
    /\ body \in Body

Init ==
    /\ phase = "idle" /\ size = 0 /\ asked = <<>> /\ attempt = 1
    /\ remaining = 0 /\ checked = FALSE /\ delivered = 0
    /\ body = [from |-> 0, left |-> 0, ends |-> "eof"]
    /\ faulted = FALSE

-----------------------------------------------------------------------------
\* X_Suffix is a deliberate mistake in X, used to show that a property can
\* fail; no action of the specification uses it.

\* fs.FixRangeOption: suffixes and open ends become absolute; a suffix longer
\* than the object keeps a negative start.
FixRange(r, s) ==
    LET start == IF r.start < 0 THEN s - r.end ELSE r.start
        end == IF r.start < 0 THEN None ELSE r.end IN
    [start |-> start, end |-> IF end < 0 \/ end >= s THEN s - 1 ELSE end]

\* expectedDownloadRange: at most one range, and a normalized one.
Ranged == asked # <<>>
ValidRange == Len(asked) <= 1 /\ \A r \in {asked[i] : i \in 1..Len(asked)} : 0 <= r.start /\ r.start <= r.end
Start == IF Ranged THEN asked[1].start ELSE 0
End == IF Ranged THEN asked[1].end ELSE size - 1
Expected == End - Start + 1

\* Open: an empty object needs no request.
Open(s, options) ==
    /\ phase = "idle"
    /\ size' = s
    /\ asked' = [i \in 1..Len(options) |-> FixRange(options[i], s)]
    /\ phase' = IF s = 0 THEN "eof" ELSE "url"
    /\ UNCHANGED <<attempt, reader, faulted>>

\* requestDownloadURL, resolveFinalURL: an error ends Open.
Follow(here, there) ==
    /\ phase = here
    /\ \/ phase' = there /\ UNCHANGED faulted
       \/ phase' = "error" /\ faulted' = TRUE
    /\ UNCHANGED <<size, asked, attempt, reader>>

\* A response of the CDN.  A body with a Content-Length ends where it says,
\* or with an error.
Statuses == {200, 206, 403, 500}
Response == [status : Statuses, first : 0..MaxSize, last : 0..MaxSize, total : {None} \cup 0..MaxSize,
             length : None..MaxSize + 1, left : 0..MaxSize + 1, ends : {"eof", "error"}]

Transmissible(r) ==
    r.length # None => r.left <= r.length /\ (r.left < r.length => r.ends = "error")

\* validateDownloadResponse, after expectedDownloadRange.
Accepts_AnyRange(r) ==
    /\ ValidRange
    /\ r.status = IF Ranged THEN 206 ELSE 200
    /\ r.length \in {None, Expected}
Accepts(r) ==
    /\ ValidRange
    /\ r.status = IF Ranged THEN 206 ELSE 200
    /\ Ranged => r.first = Start /\ r.last = End /\ r.total \in {None, size}
    /\ r.length \in {None, Expected}

\* What an honest service answers.
Honest(r) ==
    /\ r.status = IF Ranged THEN 206 ELSE 200
    /\ r.first = Start /\ r.last = End /\ r.total = size
    /\ r.left = Expected /\ r.ends = "eof" /\ r.length \in {None, Expected}

\* Only an expired link is worth another attempt, and only one.
MayRetry_Never(r) == FALSE
MayRetry(r) == r.status = 403 /\ attempt = 1

Receive(r) ==
    /\ IF Accepts(r)
       THEN /\ phase' = "read"
            /\ remaining' = Expected
            /\ body' = [from |-> IF r.status = 206 THEN r.first ELSE 0, left |-> r.left, ends |-> r.ends]
            /\ UNCHANGED attempt
       ELSE /\ IF MayRetry(r) THEN phase' = "url" /\ attempt' = 2
                              ELSE phase' = "error" /\ UNCHANGED attempt
            /\ UNCHANGED <<remaining, body>>
    /\ faulted' = (faulted \/ ~(Honest(r) \/ (r.status = 403 /\ attempt = 1)))

Get ==
    /\ phase = "get"
    /\ \/ \E r \in Response : Transmissible(r) /\ Receive(r)
       \/ phase' = "error" /\ faulted' = TRUE /\ UNCHANGED <<attempt, remaining, body>>
    /\ UNCHANGED <<size, asked, checked, delivered>>

-----------------------------------------------------------------------------
\* exactReadCloser.Read while bytes remain: n bytes, and perhaps at once what
\* the body ends with.
EndOfBody_Clean == IF body.ends = "eof" THEN "eof" ELSE "error"
EndOfBody == IF body.ends = "eof" /\ remaining' = 0 THEN "eof" ELSE "error"

Read(n) ==
    /\ phase = "read" /\ remaining > 0
    /\ n <= remaining /\ n <= body.left
    /\ remaining' = remaining - n
    /\ delivered' = delivered + n
    /\ body' = [body EXCEPT !.left = @ - n]
    /\ \/ n > 0 /\ UNCHANGED phase
       \/ body.left = n /\ phase' = EndOfBody
    /\ UNCHANGED <<size, asked, attempt, checked, faulted>>

\* Nothing remains: one more byte is asked for, which must not come.
Probe ==
    /\ phase = "read" /\ remaining = 0
    /\ checked' = TRUE
    /\ phase' = IF body.left = 0 /\ body.ends = "eof" THEN "eof" ELSE "error"
    /\ UNCHANGED <<size, asked, attempt, remaining, body, delivered, faulted>>

\* A caller that reads on after the error of the probe gets a clean end.
ReadAgain ==
    /\ phase = "error" /\ checked
    /\ phase' = "eof"
    /\ UNCHANGED <<size, asked, attempt, reader, faulted>>

Finished == phase \in {"eof", "error"} /\ UNCHANGED vars

Step ==
    \/ Follow("url", "resolve") \/ Follow("resolve", "get") \/ Get
    \/ \E n \in 0..MaxSize : Read(n)
    \/ Probe

Next == (\E s \in 0..MaxSize, o \in Options : Open(s, o)) \/ Step \/ ReadAgain \/ Finished

Spec == Init /\ [][Next]_vars

\* Requests are answered or fail, and the caller reads on.
FairSpec == Spec /\ WF_vars(Step)

-----------------------------------------------------------------------------
(***************************************************************************)
(* A caller that reads to a clean end has received the bytes it asked for, *)
(* all of them and no other ones, whatever the service sent.               *)
(***************************************************************************)
CleanEndIsWhole ==
    phase = "eof" /\ size > 0 => delivered = Expected /\ body.from = Start

(***************************************************************************)
(* A download of a valid range fails only if the service did more than to  *)
(* let one link expire: no honest response is refused, and an expired link *)
(* is replaced.                                                            *)
(***************************************************************************)
HonestServiceSuffices == phase = "error" => faulted \/ ~ValidRange
=============================================================================

------------------------------ MODULE MCClient ------------------------------
(***************************************************************************)
(* The client of the API: the session of a remote, the gate its requests   *)
(* pass on the way out, and the processes that start with the saved token. *)
(* The gate only delays requests and the processes have clients of their   *)
(* own, so a behaviour runs one of the three, chosen in the beginning.     *)
(***************************************************************************)
EXTENDS MCSession

CONSTANTS c3, e1, e2, a1, a2,
          Caller, Endpoint, Interval, Horizon,   \* of EndpointGate
          Process, MaxGiven                      \* of Reconnect

VARIABLES runs, now, last, turn, sent,
          saved, given, good, guarded, job, at, mine, proven, writer

G == INSTANCE EndpointGate
R == INSTANCE Reconnect WITH MaxToken <- MaxGiven, issued <- given, valid <- good

ASSUME MCClientAssumption == G!GateAssumption /\ R!ReconnectAssumption

gate == <<now, last, turn, sent>>
start == <<saved, given, good, guarded, job, at, mine, proven, writer>>

MCInit ==
    \/ runs = "session" /\ Init /\ G!Init /\ R!Init /\ saved = 0 /\ job = [a \in Process |-> "open"] /\ ~guarded
    \/ runs = "gate" /\ Init /\ kind = [c \in Client |-> "read"] /\ valid = {} /\ G!Init
         /\ R!Init /\ saved = 0 /\ job = [a \in Process |-> "open"] /\ ~guarded
    \/ runs = "start" /\ Init /\ kind = [c \in Client |-> "read"] /\ valid = {} /\ G!Init /\ R!Init

MCNext ==
    \/ runs = "session" /\ Next /\ UNCHANGED <<runs, gate, start>>
    \/ runs = "gate" /\ G!Next /\ UNCHANGED <<runs, vars, start>>
    \/ runs = "start" /\ R!Next /\ UNCHANGED <<runs, vars, gate>>

Calls(c) == runs = "session" /\ Step(c) /\ UNCHANGED <<runs, gate, start>>

\* The fairness of Session.
MCSpec ==
    /\ MCInit /\ [][MCNext]_<<runs, vars, gate, start>>
    /\ \A c \in Client : WF_<<runs, vars, gate, start>>(Calls(c))

NeverAheadOfRate == G!NeverAheadOfRate
ReconnectProvesFirst == R!ReconnectProvesFirst
=============================================================================

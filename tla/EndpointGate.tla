---------------------------- MODULE EndpointGate ----------------------------
(***************************************************************************)
(* endpointGate (client.go): the requests to one endpoint get slots that   *)
(* are an interval apart.  A call takes its slot under the mutex and       *)
(* sleeps outside of it; a call whose context ends while it sleeps gives   *)
(* up, but its slot stays taken.  Timers may fire late.                    *)
(*                                                                         *)
(* Time is counted in ticks.  An endpoint that was never called has its    *)
(* last slot an interval before the beginning.                             *)
(***************************************************************************)
EXTENDS Integers, FiniteSets

CONSTANTS Caller,    \* goroutines that call the API
          Endpoint,
          Interval,  \* g.interval
          Horizon    \* bound: how long the clock runs

\* What the module assumes of its constants; its instances state it.
GateAssumption == Interval \in Nat \ {0} /\ Horizon \in Nat /\ IsFiniteSet(Caller)

VARIABLES now,    \* the clock
          last,   \* last slot given out for each endpoint
          turn,   \* the endpoint a caller waits for, and its slot
          sent    \* number of requests to each endpoint

gate == <<now, last, turn, sent>>

Time == 0..Horizon
Slot == -Interval..Horizon
Idle == [endpoint |-> "none", slot |-> 0]

TypeOK ==
    /\ now \in Time
    /\ last \in [Endpoint -> Slot]
    /\ turn \in [Caller -> [endpoint : Endpoint, slot : Slot] \cup {Idle}]
    /\ sent \in [Endpoint -> Nat]

Init ==
    /\ now = 0
    /\ last = [e \in Endpoint |-> -Interval]
    /\ turn = [c \in Caller |-> Idle]
    /\ sent = [e \in Endpoint |-> 0]

-----------------------------------------------------------------------------
\* X_Suffix is a deliberate mistake in X, used to show that a property can
\* fail; no action of the specification uses it.

NextSlot_FromNow(e) == IF last[e] > now THEN last[e] ELSE now
NextSlot(e) == IF last[e] + Interval < now THEN now ELSE last[e] + Interval

Send(e) == sent' = [sent EXCEPT ![e] = @ + 1]

\* The slot is taken whether or not the caller has to sleep for it.
Enter(c, e) ==
    /\ turn[c] = Idle
    /\ NextSlot(e) <= Horizon
    /\ last' = [last EXCEPT ![e] = NextSlot(e)]
    /\ IF NextSlot(e) <= now
       THEN Send(e) /\ UNCHANGED turn
       ELSE turn' = [turn EXCEPT ![c] = [endpoint |-> e, slot |-> NextSlot(e)]] /\ UNCHANGED sent
    /\ UNCHANGED now

\* The timer fires, at the slot or later.
Wake(c) ==
    /\ turn[c] # Idle
    /\ turn[c].slot <= now
    /\ Send(turn[c].endpoint)
    /\ turn' = [turn EXCEPT ![c] = Idle]
    /\ UNCHANGED <<now, last>>

\* The caller's context is done.
Leave(c) ==
    /\ turn[c] # Idle
    /\ turn' = [turn EXCEPT ![c] = Idle]
    /\ UNCHANGED <<now, last, sent>>

Tick ==
    /\ now < Horizon
    /\ now' = now + 1
    /\ UNCHANGED <<last, turn, sent>>

Finished ==
    /\ now = Horizon /\ \A c \in Caller : turn[c] = Idle
    /\ UNCHANGED gate

Next ==
    \/ \E c \in Caller : (\E e \in Endpoint : Enter(c, e)) \/ Wake(c) \/ Leave(c)
    \/ Tick \/ Finished

Spec == Init /\ [][Next]_gate

-----------------------------------------------------------------------------
(***************************************************************************)
(* api_min_interval bounds the rate of requests to an endpoint: whoever    *)
(* gives up and however late the timers fire, there has been no more than  *)
(* one request for each whole interval since the start, and one more; and  *)
(* the slots of sleeping callers are an interval apart.  (Two requests may *)
(* still be closer than that, when the timer of the first fires late.)     *)
(***************************************************************************)
Waiting(e) == {c \in Caller : turn[c] # Idle /\ turn[c].endpoint = e}

NeverAheadOfRate ==
    \A e \in Endpoint :
        /\ sent[e] <= now \div Interval + 1
        /\ \A c, d \in Waiting(e) :
              c # d => turn[c].slot >= turn[d].slot + Interval \/ turn[d].slot >= turn[c].slot + Interval
=============================================================================

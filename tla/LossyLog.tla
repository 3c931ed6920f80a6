------------------------------ MODULE LossyLog ------------------------------
(***************************************************************************)
(* What a sink of the audit log promises (the Logger interface of          *)
(* internal/audit/audit.go, whose implementations "are free to drop on     *)
(* backpressure", and Close).  The file writer and the SIEM sink are       *)
(* checked to implement this specification, and the proxy process is       *)
(* composed of two instances of it.                                        *)
(*                                                                         *)
(* Item <<p, n>> is the n-th call of goroutine p to Log or Event.  A call  *)
(* passes the closed check or is refused; then the sink accepts the item   *)
(* or drops it; what it accepted it keeps or loses later.                  *)
(***************************************************************************)
EXTENDS Naturals

CONSTANT Items  \* pairs <<goroutine, number of the call>>

VARIABLES
    calling,  \* past the closed check, not yet sent
    pending,  \* accepted, neither kept nor lost yet
    kept,     \* written to the file, or received by the collector
    lost,     \* given up: a failed write, an evicted or abandoned batch
    refused,  \* not accepted: the sink was closed, or full
    early,    \* accepted before Close set the closed flag
    phase     \* "open", "closing" (the flag is set) or "closed" (Close returned)

vars == <<calling, pending, kept, lost, refused, early, phase>>

Init == /\ calling = {} /\ pending = {} /\ kept = {} /\ lost = {}
        /\ refused = {} /\ early = {}
        /\ phase = "open"

Offered == calling \cup pending \cup kept \cup lost \cup refused

\* A goroutine makes its calls one after the other.
IsNext(x) == \A y \in Offered : y[1] = x[1] => y[2] < x[2]

\* The closed check at the top of a call.
Call(x) ==
    /\ IsNext(x)
    /\ IF phase = "open" THEN calling' = calling \cup {x} /\ UNCHANGED refused
                         ELSE refused' = refused \cup {x} /\ UNCHANGED calling
    /\ UNCHANGED <<pending, kept, lost, early, phase>>

\* The send.  It may come late, in any phase.
Accept(x) ==
    /\ x \in calling
    /\ calling' = calling \ {x}
    /\ pending' = pending \cup {x}
    /\ early' = IF phase = "open" THEN early \cup {x} ELSE early
    /\ UNCHANGED <<kept, lost, refused, phase>>

\* The send finds the channel full.
Drop(x) ==
    /\ x \in calling
    /\ pending # {}
    /\ calling' = calling \ {x}
    /\ refused' = refused \cup {x}
    /\ UNCHANGED <<pending, kept, lost, early, phase>>

\* The goroutine of the sink is done with the items S: it keeps K and loses
\* the others.  A goroutine's items are settled in the order of its calls.
Settle(S, K) ==
    /\ phase # "closed"
    /\ S \subseteq pending /\ K \subseteq S
    /\ \A x \in S, y \in pending \ S : y[1] = x[1] => x[2] < y[2]
    /\ pending' = pending \ S
    /\ kept' = kept \cup K
    /\ lost' = lost \cup (S \ K)
    /\ UNCHANGED <<calling, refused, early, phase>>

\* Close sets the closed flag.
Shut ==
    /\ phase = "open"
    /\ phase' = "closing"
    /\ UNCHANGED <<calling, pending, kept, lost, refused, early>>

\* Close returns when everything accepted in time is settled.
Finish ==
    /\ phase = "closing"
    /\ early \cap pending = {}
    /\ phase' = "closed"
    /\ UNCHANGED <<calling, pending, kept, lost, refused, early>>

Next == \/ \E x \in Items : Call(x) \/ Accept(x) \/ Drop(x)
        \/ \E S \in SUBSET pending : \E K \in SUBSET S : Settle(S, K)
        \/ Shut \/ Finish

Spec == Init /\ [][Next]_vars
=============================================================================

--------------------------- MODULE ApprovalGate ---------------------------
(***************************************************************************)
(* What an ApprovalController promises to the agent behind it and to the   *)
(* clients in front of it, whatever happens around them: requests are      *)
(* raised one at a time, each is settled once, the agent leaves a request  *)
(* only when it is settled, and every verdict is announced exactly once.   *)
(* SessionLifecycle implements this specification.                         *)
(***************************************************************************)
EXTENDS Naturals

CONSTANT MaxRequests   \* bound: requests raised in one behaviour

Requests == 1..MaxRequests

VARIABLES
    open,        \* the request the agent is parked on, or 0
    verdict,     \* per request
    announced    \* requests whose verdict the clients were told

vars == <<open, verdict, announced>>

Settled(i) == verdict[i] \in {"allowed", "denied"}

Init ==
    /\ open = 0
    /\ verdict = [i \in Requests |-> "unasked"]
    /\ announced = {}

(* The agent raises the next request, leaving a settled one if it was      *)
(* parked on it.                                                           *)
Raise(i) ==
    /\ open = 0 \/ Settled(open)
    /\ verdict[i] = "unasked"
    /\ \A j \in 1..(i - 1) : Settled(j)
    /\ open' = i
    /\ verdict' = [verdict EXCEPT ![i] = "pending"]
    /\ UNCHANGED announced

Settle(i, v) ==
    /\ open = i
    /\ verdict[i] = "pending"
    /\ verdict' = [verdict EXCEPT ![i] = v]
    /\ UNCHANGED <<open, announced>>

Leave ==
    /\ open # 0
    /\ Settled(open)
    /\ open' = 0
    /\ UNCHANGED <<verdict, announced>>

Announce(i) ==
    /\ Settled(i)
    /\ i \notin announced
    /\ announced' = announced \cup {i}
    /\ UNCHANGED <<open, verdict>>

Next ==
    \/ \E i \in Requests : Raise(i) \/ Announce(i)
    \/ \E i \in Requests, v \in {"allowed", "denied"} : Settle(i, v)
    \/ Leave

Spec == Init /\ [][Next]_vars

(* A settled request does not hold the agent, and its verdict is announced. *)
FairSpec ==
    /\ Spec
    /\ WF_vars(Leave)
    /\ \A i \in Requests : WF_vars(Announce(i))
=============================================================================

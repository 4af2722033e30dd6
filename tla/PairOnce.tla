------------------------------ MODULE PairOnce ------------------------------
(***************************************************************************)
(* What the paired submission promises of the two signed transactions of  *)
(* one claim, whatever crashes, timeouts and restarts happen: each side    *)
(* leaves for the network at most once, never before the possibility of    *)
(* its being sent is on disk for good, and the fork side only after the    *)
(* Bitcoin side.                                                           *)
(***************************************************************************)
EXTENDS Naturals

VARIABLES attempted, \* the sides whose possible send a restart will know of
          sends      \* how often each side left for the network

Sides == {"bitcoin", "fork"}

Init ==
    /\ attempted = {}
    /\ sends = [s \in Sides |-> 0]

(* A possible send becomes durable, once per side, Bitcoin first.          *)
Attempt(s) ==
    /\ s \notin attempted
    /\ s = "fork" => sends["bitcoin"] > 0
    /\ attempted' = attempted \union {s}
    /\ UNCHANGED sends

Send(s) ==
    /\ s \in attempted
    /\ sends[s] = 0
    /\ sends' = [sends EXCEPT ![s] = 1]
    /\ UNCHANGED attempted

Next == \E s \in Sides : Attempt(s) \/ Send(s)

Spec == Init /\ [][Next]_<<attempted, sends>>
=============================================================================

----------------------------- MODULE TrustStore -----------------------------
(***************************************************************************)
(* What the store of paired phones promises its readers: a phone's row     *)
(* changes only by a pairing the phone finished, an edit of its name or    *)
(* its removal, each in one step. Staged pairings, failed writes, clean-up *)
(* and crashes never show.                                                 *)
(***************************************************************************)
CONSTANTS Phones, Bindings, Names, DefaultName, NoRow

VARIABLES rows,    \* the row of each phone that readers see
          finished \* the bindings phones have finished

Init ==
    /\ rows \in [Phones -> {NoRow} \union [bind : Bindings, name : {DefaultName}]]
    /\ finished = {}

(* The phone takes its side of a pairing to the end.                       *)
PhoneFinishes(p, b) ==
    /\ finished' = finished \union {<<p, b>>}
    /\ UNCHANGED rows

(* A new binding keeps the name the user gave the phone.                   *)
Complete(p, b) ==
    /\ <<p, b>> \in finished
    /\ rows' = [rows EXCEPT ![p] =
         [bind |-> b, name |-> IF rows[p] = NoRow THEN DefaultName ELSE rows[p].name]]
    /\ UNCHANGED finished

Edit(p, n) ==
    /\ rows[p] # NoRow
    /\ rows' = [rows EXCEPT ![p] = [bind |-> rows[p].bind, name |-> n]]
    /\ UNCHANGED finished

Remove(p) ==
    /\ rows' = [rows EXCEPT ![p] = NoRow]
    /\ UNCHANGED finished

Next ==
    \E p \in Phones :
        \/ \E b \in Bindings : PhoneFinishes(p, b) \/ Complete(p, b)
        \/ \E n \in Names : Edit(p, n)
        \/ Remove(p)

Spec == Init /\ [][Next]_<<rows, finished>>
=============================================================================

--------------------------- MODULE DerivationIndex ---------------------------
(* The derivation indexes of a wallet: how the commands hand out addresses *)
(* while the poller and one another raise the same two counters.  One      *)
(* action per SQLite transaction or read (database/sqlite/mod.rs,          *)
(* database/sqlite/reservation.rs), one call per request (commands/mod.rs).*)
(*                                                                         *)
(* LastRow, IsNormal, LastIndex and AnyIndex, which nothing uses, are      *)
(* mistakes the code might have made in place of the definition after them.*)
EXTENDS Integers, FiniteSets

CONSTANTS
  Calls,          \* the requests made of the daemon
  LookAhead,      \* LOOK_AHEAD_LIMIT, or import_initial_lookahead
  MaxIndex,       \* the last normal index, 2^31 - 1
  ConflictLimit,  \* CHANGE_COMMIT_CONFLICT_LIMIT
  MaxGap          \* MAX_INCREMENT_GAP

ASSUME IndexAssumption ==
  /\ LookAhead \in Nat \ {0} /\ MaxIndex \in Nat /\ LookAhead - 1 <= MaxIndex
  /\ ConflictLimit \in Nat \ {0} /\ MaxGap \in Nat

VARIABLES
  kind,       \* "vault" or "imported", fixed when the wallet is made
  index,      \* deposit_derivation_index and change_derivation_index
  addresses,  \* the derivation indexes of the addresses table
  call        \* where each request stands

vars == <<kind, index, addresses, call>>

Null   == -1
Branch == {"receive", "change"}
Place  == {"idle", "peeked", "conflict", "built", "read", "update_receive", "update_change", "done",
           "failed"}

(* got: the index peeked at or read, then the one handed out; base: the    *)
(* two indexes update_deriv_indexes read.                                  *)
Call == [at : Place, branch : Branch, got : Nat \cup {Null}, conflicts : Nat, base : [Branch -> Nat]]
NewCall == [at |-> "idle", branch |-> "change", got |-> Null, conflicts |-> 0,
            base |-> [b \in Branch |-> 0]]

(* The counters, the table and the requests have their types.              *)
TypeOK ==
  /\ kind \in {"vault", "imported"}
  /\ index \in [Branch -> 0..MaxIndex]
  /\ addresses \in SUBSET (0..MaxIndex)
  /\ call \in [Calls -> Call]

(* create_fresh_db maps the first LookAhead addresses.                     *)
Init ==
  /\ kind \in {"vault", "imported"}
  /\ index = [b \in Branch |-> 0]
  /\ addresses = 0..(LookAhead - 1)
  /\ call = [p \in Calls |-> NewCall]

Highest == IF index["receive"] < index["change"] THEN index["change"] ELSE index["receive"]

(***************************************************************************)
(* set_derivation_index                                                    *)
(***************************************************************************)

(* The rows for the indexes between the former gap limit and the new one.  *)
LastRow(i) == {i + LookAhead - 1}
NewRows(i) == (Highest + LookAhead)..(i + LookAhead - 1)

(* Past the last normal index the transaction fails, and the caller panics.*)
IsNormal(i) == i <= MaxIndex
Fits(i) == i <= Highest \/ i + LookAhead - 1 <= MaxIndex

Set(b, i) ==
  /\ index' = [index EXCEPT ![b] = i]
  /\ addresses' = addresses \cup NewRows(i)

(* The index was read outside of the transaction and may be behind by now. *)
SetIndex(b, i) ==
  \/ i <= index[b] /\ UNCHANGED <<index, addresses>>
  \/ i > index[b] /\ Set(b, i)

(***************************************************************************)
(* allocate_change and allocate_imported_branch, each in one transaction   *)
(***************************************************************************)

LastIndex(b) == index[b]
NextIndex(b) == index[b] + 1

Exhausted(b) == NextIndex(b) > MaxIndex \/ ~Fits(NextIndex(b))

Allocate(b) ==
  /\ index' = [index EXCEPT ![b] = NextIndex(b)]
  /\ addresses' = addresses \cup
       (IF NextIndex(b) > Highest THEN {NextIndex(b) + LookAhead - 1} ELSE {})

(***************************************************************************)
(* The commands                                                            *)
(***************************************************************************)

(* reserve_change, which a Claim uses; a vault alone has it.               *)
ReserveChange(p) ==
  /\ call[p].at = "idle" /\ kind = "vault"
  /\ \/ /\ ~Exhausted("change")
        /\ Allocate("change")
        /\ call' = [call EXCEPT ![p] = [@ EXCEPT !.at = "done", !.got = NextIndex("change")]]
     \/ /\ Exhausted("change")
        /\ call' = [call EXCEPT ![p].at = "failed"]
        /\ UNCHANGED <<index, addresses>>
  /\ UNCHANGED kind

(* next_change_addr: create_spend and rbf_psbt peek at the next change     *)
(* index, and again after a conflict.                                      *)
PeekChange(p) ==
  /\ call[p].at \in {"idle", "conflict"}
  /\ call' = [call EXCEPT ![p] =
       IF NextIndex("change") > MaxIndex THEN [@ EXCEPT !.at = "failed"]
       ELSE [@ EXCEPT !.at = "peeked", !.got = NextIndex("change")]]
  /\ UNCHANGED <<kind, index, addresses>>

(* The caller gives the change address: there is none to allocate.         *)
GivenChange(p) ==
  /\ call[p].at = "idle"
  /\ call' = [call EXCEPT ![p].at = "built"]
  /\ UNCHANGED <<kind, index, addresses>>

(* The spend cannot be built, or is built without change.                  *)
NoChange(p) ==
  /\ call[p].at = "peeked"
  /\ \E at \in {"built", "failed"} :
       call' = [call EXCEPT ![p] = [@ EXCEPT !.at = at, !.got = Null]]
  /\ UNCHANGED <<kind, index, addresses>>

(* commit_change_if_next: the spend has change, and the index peeked at is *)
(* committed if it is still the next one.                                  *)
AnyIndex(p) == TRUE
StillNext(p) == call[p].got = NextIndex("change")

CommitChange(p) ==
  /\ call[p].at = "peeked"
  /\ \/ /\ ~Exhausted("change") /\ StillNext(p)
        /\ Allocate("change")
        /\ call' = [call EXCEPT ![p].at = "built"]
     \/ /\ NextIndex("change") <= MaxIndex /\ ~StillNext(p)
        /\ call' = [call EXCEPT ![p] =
             [@ EXCEPT !.conflicts = call[p].conflicts + 1, !.got = Null,
                       !.at = IF call[p].conflicts + 1 >= ConflictLimit THEN "failed" ELSE "conflict"]]
        /\ UNCHANGED <<index, addresses>>
     \/ /\ Exhausted("change") /\ (StillNext(p) \/ NextIndex("change") > MaxIndex)
        /\ call' = [call EXCEPT ![p] = [@ EXCEPT !.at = "failed", !.got = Null]]
        /\ UNCHANGED <<index, addresses>>
  /\ UNCHANGED kind

(* maybe_increase_last_deriv_index, for each output that pays to an        *)
(* address of the table (spend_addr); then the spend is returned.          *)
RaiseOutput(p) ==
  /\ call[p].at = "built"
  /\ \E b \in Branch : \E i \in addresses :
       /\ index[b] < i
       /\ \/ Fits(i) /\ SetIndex(b, i) /\ UNCHANGED call
          \/ /\ ~Fits(i)
             /\ call' = [call EXCEPT ![p] = [@ EXCEPT !.at = "failed", !.got = Null]]
             /\ UNCHANGED <<index, addresses>>
  /\ UNCHANGED kind

ReturnSpend(p) ==
  /\ call[p].at = "built"
  /\ call' = [call EXCEPT ![p].at = "done"]
  /\ UNCHANGED <<kind, index, addresses>>

(* get_new_address: one transaction for an imported wallet                 *)
ReserveReceive(p) ==
  /\ call[p].at = "idle" /\ kind = "imported"
  /\ \/ /\ ~Exhausted("receive")
        /\ Allocate("receive")
        /\ call' = [call EXCEPT ![p] =
             [@ EXCEPT !.at = "done", !.branch = "receive", !.got = NextIndex("receive")]]
     \/ /\ Exhausted("receive")
        /\ call' = [call EXCEPT ![p].at = "failed"]
        /\ UNCHANGED <<index, addresses>>
  /\ UNCHANGED kind

(* and a read of the index, then set_receive_index, for a vault.           *)
ReadReceive(p) ==
  /\ call[p].at = "idle" /\ kind = "vault"
  /\ call' = [call EXCEPT ![p] =
       IF NextIndex("receive") > MaxIndex THEN [@ EXCEPT !.at = "failed"]
       ELSE [@ EXCEPT !.at = "read", !.branch = "receive", !.got = NextIndex("receive")]]
  /\ UNCHANGED <<kind, index, addresses>>

SetReceive(p) ==
  /\ call[p].at = "read"
  /\ \/ /\ Fits(call[p].got)
        /\ SetIndex("receive", call[p].got)
        /\ call' = [call EXCEPT ![p].at = "done"]
     \/ /\ ~Fits(call[p].got)
        /\ call' = [call EXCEPT ![p] = [@ EXCEPT !.at = "failed", !.got = Null]]
        /\ UNCHANGED <<index, addresses>>
  /\ UNCHANGED kind

(* update_deriv_indexes reads both indexes, then raises each of them by no *)
(* more than MaxGap.                                                       *)
ReadIndexes(p) ==
  /\ call[p].at = "idle"
  /\ call' = [call EXCEPT ![p] = [@ EXCEPT !.at = "update_receive", !.base = index]]
  /\ UNCHANGED <<kind, index, addresses>>

UpdateIndex(p, b, at, next) ==
  /\ call[p].at = at
  /\ \E i \in 0..(MaxIndex + 1) :
       LET wanted == IF i > call[p].base[b] + MaxGap THEN call[p].base[b] + MaxGap ELSE i
       IN \/ /\ i > MaxIndex \/ (i > call[p].base[b] /\ ~Fits(wanted))
             /\ call' = [call EXCEPT ![p].at = "failed"]
             /\ UNCHANGED <<index, addresses>>
          \/ /\ i <= MaxIndex
             /\ \/ i <= call[p].base[b] /\ UNCHANGED <<index, addresses>>
                \/ i > call[p].base[b] /\ Fits(wanted) /\ SetIndex(b, wanted)
             /\ call' = [call EXCEPT ![p].at = next]
  /\ UNCHANGED kind

UpdateReceive(p) == UpdateIndex(p, "receive", "update_receive", "update_change")
UpdateChange(p)  == UpdateIndex(p, "change", "update_change", "done")

(* The poller found a coin on an address beyond the index.  It resolves    *)
(* the address in the table, or in the window that the earlier coins of    *)
(* its batch open; any index stands for those.                             *)
PollerRaises(b, i) ==
  /\ i > index[b] /\ Fits(i)
  /\ SetIndex(b, i)
  /\ UNCHANGED <<kind, call>>

Step(p) ==
  \/ ReserveChange(p) \/ PeekChange(p) \/ GivenChange(p) \/ NoChange(p) \/ CommitChange(p)
  \/ RaiseOutput(p) \/ ReturnSpend(p)
  \/ ReserveReceive(p) \/ ReadReceive(p) \/ SetReceive(p)
  \/ ReadIndexes(p) \/ UpdateReceive(p) \/ UpdateChange(p)

Next ==
  \/ \E p \in Calls : Step(p)
  \/ \E b \in Branch : \E i \in 0..MaxIndex : PollerRaises(b, i)

Spec == Init /\ [][Next]_vars

(***************************************************************************)
(* Properties                                                              *)
(***************************************************************************)

HandedOut(p, b) == call[p].at \in {"built", "done"} /\ call[p].branch = b /\ call[p].got # Null

NeverReused(b) ==
  \A p, q \in Calls : p # q /\ HandedOut(p, b) /\ HandedOut(q, b) => call[p].got # call[q].got

(* No two requests get the same change index, however spends, Claim        *)
(* reservations, the poller and update_deriv_indexes interleave            *)
(* (commands/mod.rs:659-662).                                              *)
ChangeNeverReused == NeverReused("change")

(* The same of the receive addresses of an imported wallet.                *)
ImportedReceiveNeverReused == kind = "imported" => NeverReused("receive")

(* The addresses table maps the indexes up to LookAhead - 1 above the      *)
(* higher counter, without a hole, so that a payment to an address within  *)
(* the gap is recognised, and so is every address handed out; and it maps  *)
(* no other, so that no INSERT meets a row that is there.                  *)
LookAheadMapped ==
  /\ addresses = 0..(Highest + LookAhead - 1)
  /\ \A p \in Calls : \A b \in Branch : HandedOut(p, b) => call[p].got <= index[b]

(* get_new_address always generates a new deposit address                  *)
(* (commands/mod.rs:1044-1045).                                            *)
ReceiveNeverReused == NeverReused("receive")
=============================================================================

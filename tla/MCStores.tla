------------------------------ MODULE MCStores ------------------------------
(***************************************************************************)
(* The components that keep a promise across threads, files and crashes,   *)
(* in parts that are run apart: the submission of a claim, the pairing of  *)
(* phones, duress mode, the search for a rescan's block, the poller's loop. *)
(***************************************************************************)
EXTENDS PairedClaim, Pairing, DuressMode, BlockSearch, PollLoop, TLC

VARIABLE part

storesVars == <<claimVars, pairingVars, duressVars, searchVars, loopVars, part>>

StoresInit ==
    /\ ClaimInit /\ PairingInit /\ DuressInit /\ SearchInit /\ LoopInit
    /\ part \in {"claim", "pairing", "duress", "search", "loop"}
    /\ part = "pairing" \/ \A p \in Phones : store.rows[p] = NoRow
    /\ part = "search" \/ (target = 0 /\ \A h \in Heights : times[h] = 0)

StoresNext ==
    /\ \/ part = "claim" /\ ClaimNext
          /\ UNCHANGED <<pairingVars, duressVars, searchVars, loopVars>>
       \/ part = "pairing" /\ PairingNext
          /\ UNCHANGED <<claimVars, duressVars, searchVars, loopVars>>
       \/ part = "duress" /\ DuressNext
          /\ UNCHANGED <<claimVars, pairingVars, searchVars, loopVars>>
       \/ part = "search" /\ SearchNext
          /\ UNCHANGED <<claimVars, pairingVars, duressVars, loopVars>>
       \/ part = "loop" /\ LoopNext
          /\ UNCHANGED <<claimVars, pairingVars, duressVars, searchVars>>
    /\ UNCHANGED part

StoresSpec == StoresInit /\ [][StoresNext]_storesVars

(* Every variable keeps its type, across all parts.                        *)
StoresTypeOK == ClaimTypeOK /\ PairingTypeOK /\ DuressTypeOK /\ SearchTypeOK /\ LoopTypeOK

(* Phones and pairing runs are alike, and no liveness is checked here.     *)
Alike == Permutations(Phones) \union Permutations(Runs)
=============================================================================

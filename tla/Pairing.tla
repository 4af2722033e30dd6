------------------------------ MODULE Pairing ------------------------------
(***************************************************************************)
(* The phones paired with this desktop: the two files on disk (the rows    *)
(* with the queued removal notices, and the journal of staged pairings),   *)
(* the pairing runs with their four-message handshake, the user's edits    *)
(* and removals, the sync pass that delivers notices and probes phones,    *)
(* the phones, and crashes.                                                *)
(*                                                                         *)
(* Every operation holds the WRITER mutex. It is a sequence of durable     *)
(* writes of one file each, and may stop after any of them: because a      *)
(* write failed, or because the process died there.                        *)
(***************************************************************************)
EXTENDS Naturals, Sequences, Functions

CONSTANTS Phones, Runs, NewNames, DefaultName, OldBinding,
          NoRow, NoEntry, NoPhone, NoSync,
          MaxActs   \* bound: edits, removals on either side and sync passes

VARIABLES
    store,      \* the files: rows, removal notices and journal entries
    run,        \* each pairing run: program counter, phone, cancellation
    replied,    \* how far the phone of each run went along
    held,       \* the binding of this desktop that each phone holds
    sync,       \* the sync pass under way
    acts,       \* edits, removals and sync passes so far; dates a removal
    overwritten \* history: the runs whose staged row another operation wrote

pairingVars == <<store, run, replied, held, sync, acts, overwritten>>

Names == NewNames \union {DefaultName}
PhoneBindings == Runs \union {OldBinding}
PairedPhone == [bind : PhoneBindings, name : Names]
MaybeRow == {NoRow} \union PairedPhone
Entry == [id : Runs, previous : MaybeRow, candidate : PairedPhone,
          state : {"provisional", "decided", "completed"}]

ASSUME PairingAssumption ==
    /\ OldBinding \notin Runs
    /\ NoRow \notin Runs \union {OldBinding} \union PairedPhone
    /\ NoEntry \notin Entry
    /\ MaxActs \in Nat

PairingTypeOK ==
    /\ store \in [rows : [Phones -> MaybeRow],
                  notices : [Phones -> 0..MaxActs],
                  entries : [Phones -> {NoEntry} \union Entry]]
    /\ run \in [Runs -> [pc : {"idle", "accept", "commit", "finish", "ok", "failed"},
                         phone : Phones \union {NoPhone},
                         state : {"running", "cancelled", "decided"}]]
    /\ replied \in [Runs -> {"none", "prepared", "committed", "finished"}]
    /\ held \in [Phones -> PhoneBindings \union {NoRow}]
    /\ sync \in {NoSync} \union
         [rows : [Phones -> MaybeRow], notices : [Phones -> 0..MaxActs],
          done : SUBSET Phones, unpaired : SUBSET Phones,
          pc : {"deliver", "probe", "remove"}]
    /\ acts \in 0..MaxActs
    /\ overwritten \subseteq Runs

(* What readers of the store see: a staged pairing shows the row it found. *)
Staged(s, p) == s.entries[p] # NoEntry /\ s.entries[p].state # "completed"

Visible(s) ==
    [p \in Phones |-> IF Staged(s, p) THEN s.entries[p].previous ELSE s.rows[p]]

PairingInit ==
    /\ \E rows \in [Phones -> {NoRow, [bind |-> OldBinding, name |-> DefaultName]}] :
         /\ store = [rows |-> rows,
                     notices |-> [p \in Phones |-> 0],
                     entries |-> [p \in Phones |-> NoEntry]]
         /\ held = [p \in Phones |-> IF rows[p] = NoRow THEN NoRow ELSE OldBinding]
    /\ run = [r \in Runs |-> [pc |-> "idle", phone |-> NoPhone, state |-> "running"]]
    /\ replied = [r \in Runs |-> "none"]
    /\ sync = NoSync
    /\ acts = 0
    /\ overwritten = {}
-----------------------------------------------------------------------------
(* The contents of the files after each write of an operation that ran to  *)
(* its end, or of one that stopped early.                                  *)
Result(writes) == IF writes = <<>> THEN store ELSE writes[Len(writes)]
Completes(writes) == store' = Result(writes)
Stops(writes) == store' \in {store} \union Range(writes)

(* A write that changes a phone's row and leaves its staged entry: the     *)
(* entry's run goes on without its candidate.                              *)
NoteOverwritten ==
    overwritten' = overwritten \union
        {r \in Runs : \E p \in Phones :
            /\ Staged(store, p) /\ store.entries[p].id = r
            /\ store'.entries[p] = store.entries[p]
            /\ store'.rows[p] # store.rows[p]}

(* Mutant: the entry goes first.                                           *)
RevokeEntryFirst(p) ==
    IF store.entries[p] = NoEntry
    THEN <<>>
    ELSE LET dropped == [store EXCEPT !.entries[p] = NoEntry]
         IN  <<dropped, [dropped EXCEPT !.rows[p] = Visible(store)[p]]>>

(* revoke: first the row that readers see is restored, then the entry goes.*)
RevokeWrites(p) ==
    IF store.entries[p] = NoEntry
    THEN <<>>
    ELSE LET restored == [store EXCEPT !.rows[p] = Visible(store)[p]]
         IN  <<restored, [restored EXCEPT !.entries[p] = NoEntry]>>

Active(r) == run[r].pc \in {"accept", "commit", "finish"}

Fails(r) == run' = [run EXCEPT ![r].pc = "failed"]

(* A run that is cancelled may write nothing more until its clean-up.      *)
Authorized(r) == run[r].state # "cancelled"

(* prepare: the candidate keeps the user's name; an abandoned pairing of   *)
(* the phone is undone and a queued removal notice forgotten in the first  *)
(* write, the second journals the candidate.                               *)
PrepareWrites(r, p) ==
    LET previous == Visible(store)[p]
        name == IF previous = NoRow THEN DefaultName ELSE previous.name
        cleared == [store EXCEPT !.rows[p] = previous, !.notices[p] = 0]
    IN  <<cleared,
          [cleared EXCEPT !.entries[p] =
             [id |-> r, previous |-> previous,
              candidate |-> [bind |-> r, name |-> name], state |-> "provisional"]]>>

(* A tab cancels its run before it starts another, unless that run has     *)
(* decided (Cancel); the runs of two tabs go on side by side.              *)
Prepare(r, p) ==
    /\ run[r].pc = "idle"
    /\ \/ /\ Completes(PrepareWrites(r, p))
          /\ run' = [run EXCEPT ![r].pc = "accept", ![r].phone = p]
       \/ /\ Stops(PrepareWrites(r, p))
          /\ Fails(r)
    /\ NoteOverwritten
    /\ UNCHANGED <<replied, held, sync, acts>>

(* Whether the run's entry is still in the journal, in the given state.    *)
Owns(r, state) ==
    LET entry == store.entries[run[r].phone]
    IN  entry # NoEntry /\ entry.id = r /\ entry.state = state

(* Mutant: whoever staged it, and whatever became of it.                   *)
RollbackAny(r) ==
    LET p == run[r].phone
        restored == [store EXCEPT !.rows[p] = store.entries[p].previous]
    IN  IF store.entries[p] # NoEntry
        THEN <<restored, [restored EXCEPT !.entries[p] = NoEntry]>>
        ELSE <<>>

(* rollback: only an entry of this run that is still provisional is undone.*)
RollbackWrites(r) ==
    LET p == run[r].phone
        restored == [store EXCEPT !.rows[p] = store.entries[p].previous]
    IN  IF Owns(r, "provisional")
        THEN <<restored, [restored EXCEPT !.entries[p] = NoEntry]>>
        ELSE <<>>

(* A send, a reply or a write of the run fails, or it sees its             *)
(* cancellation: it rolls back and ends. Dropping the transaction rolls    *)
(* back again, which adds nothing to a rollback that may stop anywhere.    *)
Abort(r) ==
    /\ Active(r)
    /\ Completes(RollbackWrites(r)) \/ Stops(RollbackWrites(r))
    /\ Fails(r)
    /\ UNCHANGED <<replied, held, sync, acts, overwritten>>

(* PREPARED received: the candidate's row is written, COMMIT is sent.      *)
WriteCandidate(r) ==
    /\ run[r].pc = "accept" /\ replied[r] = "prepared"
    /\ Authorized(r)
    /\ Owns(r, "provisional")
    /\ store' = [store EXCEPT !.rows[run[r].phone] =
                   store.entries[run[r].phone].candidate]
    /\ run' = [run EXCEPT ![r].pc = "commit"]
    /\ UNCHANGED <<replied, held, sync, acts, overwritten>>

(* A journal write whose error is reported although the rename took place: *)
(* the run aborts, and its clean-up goes by what the journal says.         *)
Transition(r, from, to) ==
    /\ Owns(r, from)
    /\ store' = [store EXCEPT !.entries[run[r].phone].state = to]

(* COMMITTED received: the decision is journalled, under the lock that     *)
(* orders it with a cancellation; FINISH is sent.                          *)
Decide(r) ==
    /\ run[r].pc = "commit" /\ replied[r] = "committed"
    /\ Authorized(r)
    /\ Transition(r, "provisional", "decided")
    /\ \/ run' = [run EXCEPT ![r].pc = "finish", ![r].state = "decided"]
       \/ Fails(r)
    /\ UNCHANGED <<replied, held, sync, acts, overwritten>>

(* FINISHED received: the new binding becomes visible.                     *)
Finish(r) ==
    /\ run[r].pc = "finish" /\ replied[r] = "finished"
    /\ Authorized(r)
    /\ Transition(r, "decided", "completed")
    /\ run' = [run EXCEPT ![r].pc = "ok"] \/ Fails(r)
    /\ UNCHANGED <<replied, held, sync, acts, overwritten>>

(* The user cancels, or starts another pairing; a decided run goes on, and *)
(* a run cancelled before it staged anything stages nothing.               *)
Cancel(r) ==
    /\ Active(r) /\ run[r].state = "running"
    /\ run' = [run EXCEPT ![r].state = "cancelled"]
    /\ UNCHANGED <<store, replied, held, sync, acts, overwritten>>
-----------------------------------------------------------------------------
Act == acts < MaxActs /\ acts' = acts + 1

(* update_user_fields: the phone's staged pairing is revoked, then what    *)
(* readers see is written back with the new name, for every phone.         *)
EditWrites(p, n) ==
    LET writes == RevokeWrites(p)
        revoked == Result(writes)
        rows == Visible(revoked)
    IN  IF rows[p] = NoRow
        THEN writes
        ELSE Append(writes, [revoked EXCEPT !.rows = [rows EXCEPT ![p].name = n]])

UpdateUserFields(p, n) ==
    /\ Act
    /\ Completes(EditWrites(p, n)) \/ Stops(EditWrites(p, n))
    /\ NoteOverwritten
    /\ UNCHANGED <<run, replied, held, sync>>

(* unpair: the row goes and a removal notice for the phone is queued.      *)
UnpairWrites(p) ==
    LET writes == RevokeWrites(p)
        revoked == Result(writes)
    IN  IF revoked.rows[p] = NoRow
        THEN writes
        ELSE Append(writes, [revoked EXCEPT !.rows[p] = NoRow,
                                            !.notices[p] = acts + 1])

(* The panel of a tab first cancels the run of this tab, which is any run  *)
(* or none.                                                                *)
Unpair(p) ==
    /\ Act
    /\ \/ UNCHANGED run
       \/ \E r \in Runs :
            /\ Active(r) /\ run[r].state = "running"
            /\ run' = [run EXCEPT ![r].state = "cancelled"]
    /\ Completes(UnpairWrites(p)) \/ Stops(UnpairWrites(p))
    /\ NoteOverwritten
    /\ UNCHANGED <<replied, held, sync>>
-----------------------------------------------------------------------------
(* A sync pass works from a snapshot of what readers see. The panel begins *)
(* one when it shows no pairing of its own; the hardware refresh dials the *)
(* phones and delivers notices at any time, and drops at a later tick the  *)
(* row of a phone that hung up because it does not have this desktop.      *)
SyncStart ==
    /\ Act
    /\ sync = NoSync
    /\ sync' = [rows |-> Visible(store), notices |-> store.notices,
                done |-> {}, unpaired |-> {}, pc |-> "deliver"]
    /\ UNCHANGED <<store, run, replied, held, overwritten>>

(* A notice of the snapshot reaches its phone, which forgets this desktop; *)
(* or the notice is done with: it is too old, the phone is paired again, or *)
(* the phone did not read it.                                              *)
Notify(p) ==
    /\ sync # NoSync /\ sync.pc = "deliver"
    /\ sync.notices[p] # 0 /\ p \notin sync.done
    /\ sync' = [sync EXCEPT !.done = @ \union {p}]
    /\ \/ sync.rows[p] = NoRow /\ held' = [held EXCEPT ![p] = NoRow]
       \/ UNCHANGED held
    /\ UNCHANGED <<store, run, replied, acts, overwritten>>

(* Delivered notices are forgotten, unless one was queued again meanwhile. *)
ClearNotices ==
    /\ sync # NoSync /\ sync.pc = "deliver"
    /\ store' \in {store,
         [store EXCEPT !.notices = [p \in Phones |->
            IF p \in sync.done /\ store.notices[p] = sync.notices[p]
            THEN 0 ELSE store.notices[p]]]}
    /\ sync' = [sync EXCEPT !.pc = "probe"]
    /\ UNCHANGED <<run, replied, held, acts, overwritten>>

(* A phone of the snapshot answers that it does not have this desktop.     *)
Probe(p) ==
    /\ sync # NoSync /\ sync.pc = "probe"
    /\ sync.rows[p] # NoRow /\ held[p] = NoRow
    /\ sync' = [sync EXCEPT !.unpaired = @ \union {p}]
    /\ UNCHANGED <<store, run, replied, held, acts, overwritten>>

(* remove_unpaired_by_peer: only the row the phone was dialled for goes.   *)
PeerWrites(p) ==
    LET writes == RevokeWrites(p)
        revoked == Result(writes)
    IN  Append(writes, [revoked EXCEPT !.rows[p] = NoRow, !.notices[p] = 0])

(* Mutant: whichever row the phone has now.                                *)
AnyRow(p) == Visible(store)[p] # NoRow
(* The code compares paired_at_unix, in seconds: pairings of one phone are *)
(* taken to be at least a second apart.                                    *)
Dialled(p) ==
    LET row == Visible(store)[p]
    IN  row # NoRow /\ row.bind = sync.rows[p].bind

RemoveUnpairedByPeer(p) ==
    /\ sync # NoSync /\ p \in sync.unpaired
    /\ sync' = [sync EXCEPT !.unpaired = @ \ {p}, !.pc = "remove"]
    /\ IF Dialled(p)
       THEN Completes(PeerWrites(p)) \/ Stops(PeerWrites(p))
       ELSE UNCHANGED store
    /\ NoteOverwritten
    /\ UNCHANGED <<run, replied, held, acts>>

SyncEnd ==
    /\ sync # NoSync /\ sync.pc # "deliver" /\ sync.unpaired = {}
    /\ sync' = NoSync
    /\ UNCHANGED <<store, run, replied, held, acts, overwritten>>
-----------------------------------------------------------------------------
(* The phone answers each message of a run it takes part in; at FINISH it  *)
(* adopts the new binding.                                                 *)
PhoneReplies(r) ==
    /\ \/ run[r].pc = "accept" /\ replied' = [replied EXCEPT ![r] = "prepared"]
       \/ run[r].pc = "commit" /\ replied' = [replied EXCEPT ![r] = "committed"]
       \/ run[r].pc = "finish" /\ replied' = [replied EXCEPT ![r] = "finished"]
    /\ replied' # replied
    /\ held' = IF run[r].pc = "finish" THEN [held EXCEPT ![run[r].phone] = r] ELSE held
    /\ UNCHANGED <<store, run, sync, acts, overwritten>>

(* The phone's owner removes this desktop there.                           *)
PhoneRemoves(p) ==
    /\ Act
    /\ held[p] # NoRow
    /\ held' = [held EXCEPT ![p] = NoRow]
    /\ UNCHANGED <<store, run, replied, sync, overwritten>>

(* The desktop dies: runs and the sync pass are gone, the files stay.      *)
PairingCrash ==
    /\ run' = [r \in Runs |-> IF Active(r) THEN [run[r] EXCEPT !.pc = "failed"] ELSE run[r]]
    /\ sync' = NoSync
    /\ UNCHANGED <<store, replied, held, acts, overwritten>>

RunStep(r) ==
    \/ \E p \in Phones : Prepare(r, p)
    \/ WriteCandidate(r) \/ Decide(r) \/ Finish(r) \/ Abort(r) \/ Cancel(r)
    \/ PhoneReplies(r)

PairingNext ==
    \/ \E r \in Runs : RunStep(r)
    \/ \E p \in Phones :
         \/ \E n \in NewNames : UpdateUserFields(p, n)
         \/ Unpair(p) \/ Notify(p) \/ Probe(p) \/ RemoveUnpairedByPeer(p)
         \/ PhoneRemoves(p)
    \/ SyncStart \/ ClearNotices \/ SyncEnd
    \/ PairingCrash

PairingSpec == PairingInit /\ [][PairingNext]_pairingVars
-----------------------------------------------------------------------------
PhoneFinished == {<<run[r].phone, r>> : r \in {x \in Runs : replied[x] = "finished"}}

Trust == INSTANCE TrustStore WITH
    rows <- Visible(store), finished <- PhoneFinished, Bindings <- PhoneBindings

(* The store implements the trust store: what readers see changes only by  *)
(* a pairing the phone finished, an edit or a removal; no interleaving of  *)
(* two runs, failed or half-done write, clean-up or crash shows anything   *)
(* else, and a re-pairing keeps the user's name.                           *)
ImplementsTrustStore == Trust!Spec

(* A run that reports success has made its binding visible: the phone, its *)
(* only other witness, finished it too. The exception is a staged row that *)
(* another operation wrote: an edit of another phone, which writes back    *)
(* what readers see, or an operation on this phone that failed half-way.   *)
FinishedIsVisible ==
    [][\A r \in Runs :
         run[r].pc # "ok" /\ run'[r].pc = "ok" /\ r \notin overwritten =>
             LET row == Visible(store')[run[r].phone]
             IN  row # NoRow /\ row.bind = r]_pairingVars

(* A row removed on a phone's word does not carry the binding the phone    *)
(* holds, although the phone's answer is applied later than it is read and *)
(* the phone may have been paired again in between.                        *)
PeerRemovesOnlyDropped ==
    [][\A p \in Phones :
         /\ sync # NoSync /\ sync' # NoSync
         /\ p \in sync.unpaired \ sync'.unpaired
         /\ Visible(store')[p] # Visible(store)[p]
         => held[p] # Visible(store)[p].bind]_pairingVars
=============================================================================

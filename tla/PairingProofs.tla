--------------------------- MODULE PairingProofs ---------------------------
(***************************************************************************)
(* The store of paired phones implements the trust store, for any set of   *)
(* phones, pairing runs and names.                                         *)
(***************************************************************************)
EXTENDS Pairing, SequenceTheorems, TLAPS

Files == [rows : [Phones -> MaybeRow], notices : [Phones -> Nat],
          entries : [Phones -> {NoEntry} \union Entry]]

(* The name a re-pairing keeps.                                            *)
NameOf(row) == IF row = NoRow THEN DefaultName ELSE row.name

(* A staged entry proposes its run's binding under the name readers see,   *)
(* and the row on disk is the one it found or the one it proposes.         *)
Consistent(s) ==
    \A p \in Phones : Staged(s, p) =>
        /\ s.rows[p] \in {s.entries[p].previous, s.entries[p].candidate}
        /\ s.entries[p].candidate =
             [bind |-> s.entries[p].id, name |-> NameOf(s.entries[p].previous)]

Good(s) == s \in Files /\ Consistent(s)

(* A content of the files that readers cannot tell from the present one.   *)
Same(s) == Good(s) /\ Visible(s) = Visible(store)

(* A content of the files without a new entry.                             *)
Kept(s) == \A p \in Phones : s.entries[p] \in {store.entries[p], NoEntry}

(* The phone of a run answers the message the run has sent, in order.      *)
RunInv ==
    \A r \in Runs :
        /\ run[r].pc = "idle" => replied[r] = "none"
        /\ Active(r) => run[r].phone \in Phones
        /\ run[r].pc = "accept" => replied[r] \in {"none", "prepared"}
        /\ run[r].pc = "commit" => replied[r] \in {"prepared", "committed"}
        /\ run[r].pc = "finish" => replied[r] \in {"committed", "finished"}

RunTypeOK ==
    /\ run \in [Runs -> [pc : {"idle", "accept", "commit", "finish", "ok", "failed"},
                         phone : Phones \union {NoPhone},
                         state : {"running", "cancelled", "decided"}]]
    /\ replied \in [Runs -> {"none", "prepared", "committed", "finished"}]
    /\ acts \in Nat

PairingInv == Good(store) /\ RunTypeOK /\ RunInv
-----------------------------------------------------------------------------
(* The two writes of a clean-up.                                           *)
Restored(s, p) == [s EXCEPT !.rows[p] = Visible(s)[p]]
Dropped(s, p) == [s EXCEPT !.entries[p] = NoEntry]

(* Rows may change behind the entries, to one of the two they name.        *)
LEMMA RowsUnderEntries ==
    ASSUME NEW s, NEW u, Consistent(s), u.entries = s.entries,
           \A q \in Phones : Staged(s, q) =>
               u.rows[q] \in {s.rows[q], s.entries[q].previous, s.entries[q].candidate}
    PROVE  Consistent(u)
BY DEF Consistent, Staged

(* What readers see is a row for each phone.                               *)
LEMMA VisibleType ==
    ASSUME NEW s, Good(s) PROVE Visible(s) \in [Phones -> MaybeRow]
BY DEF Good, Files, Visible, Staged, Entry

(* Writing back the row that readers see changes nothing for them.         *)
LEMMA RestoreQuiet ==
    ASSUME NEW s, Good(s), NEW p \in Phones
    PROVE  /\ Good(Restored(s, p)) /\ Visible(Restored(s, p)) = Visible(s)
           /\ Restored(s, p).rows[p] = Visible(s)[p]
<1> DEFINE t == Restored(s, p)
<1>1. t \in Files /\ t.entries = s.entries /\ t.rows = [s.rows EXCEPT ![p] = Visible(s)[p]]
  BY VisibleType DEF Good, Files, Restored
<1> HIDE DEF t
<1>2. Visible(t) = Visible(s)
  BY <1>1 DEF Good, Files, Visible, Staged
<1>3. Consistent(t)
  BY <1>1 DEF Good, Files, Consistent, Visible, Staged
<1> QED BY <1>1, <1>2, <1>3 DEF Good, Files, t

(* So does dropping an entry after that.                                   *)
LEMMA DropQuiet ==
    ASSUME NEW s, Good(s), NEW p \in Phones, s.rows[p] = Visible(s)[p]
    PROVE  /\ Good(Dropped(s, p)) /\ Visible(Dropped(s, p)) = Visible(s)
           /\ Dropped(s, p).entries[p] = NoEntry
<1> DEFINE t == Dropped(s, p)
<1>1. t \in Files /\ t.rows = s.rows /\ t.entries = [s.entries EXCEPT ![p] = NoEntry]
  BY DEF Good, Files, Dropped
<1> HIDE DEF t
<1>2. Visible(t) = Visible(s)
  BY <1>1 DEF Good, Files, Visible, Staged
<1>3. Consistent(t)
  BY <1>1 DEF Good, Files, Consistent, Staged
<1> QED BY <1>1, <1>2, <1>3 DEF Good, Files, t
-----------------------------------------------------------------------------
(* An operation of two writes.                                             *)
LEMMA TwoWrites ==
    ASSUME NEW a \in Files, NEW b \in Files
    PROVE  /\ <<a, b>> \in Seq(Files)
           /\ Range(<<a, b>>) = {a, b}
           /\ Result(<<a, b>>) = b
BY DEF Range, Result

(* An operation with one write more.                                       *)
LEMMA OneMoreWrite ==
    ASSUME NEW w \in Seq(Files), NEW c \in Files
    PROVE  /\ Range(Append(w, c)) = Range(w) \union {c}
           /\ Result(Append(w, c)) = c
<1>1. /\ Append(w, c) \in Seq(Files) /\ Append(w, c) # <<>>
      /\ Len(Append(w, c)) = Len(w) + 1
      /\ \A i \in 1..Len(w) : Append(w, c)[i] = w[i]
      /\ Append(w, c)[Len(w) + 1] = c
  BY AppendProperties
<1>2. /\ DOMAIN w = 1..Len(w) /\ Len(w) \in Nat
      /\ DOMAIN Append(w, c) = 1..(Len(w) + 1)
  BY <1>1, LenProperties
<1>3. Range(Append(w, c)) = Range(w) \union {c}
  BY <1>1, <1>2 DEF Range
<1> QED BY <1>1, <1>3 DEF Result

(* Revoking a staged pairing is quiet at each of its writes, and leaves no *)
(* entry.                                                                  *)
LEMMA RevokeQuiet ==
    ASSUME Good(store), NEW p \in Phones
    PROVE  /\ RevokeWrites(p) \in Seq(Files)
           /\ \A s \in Range(RevokeWrites(p)) : Same(s) /\ Kept(s)
           /\ Same(Result(RevokeWrites(p))) /\ Kept(Result(RevokeWrites(p)))
           /\ Result(RevokeWrites(p)).entries[p] = NoEntry
<1>1. CASE store.entries[p] = NoEntry
  <2>1. RevokeWrites(p) = <<>>
    BY <1>1 DEF RevokeWrites
  <2>2. <<>> \in Seq(Files) /\ Range(<<>>) = {} /\ Result(<<>>) = store
    BY DEF Range, Result
  <2> QED BY <1>1, <2>1, <2>2 DEF Same, Kept
<1>2. CASE store.entries[p] # NoEntry
  <2> DEFINE a == Restored(store, p)
             b == Dropped(a, p)
  <2>1. Good(a) /\ Visible(a) = Visible(store) /\ a.rows[p] = Visible(a)[p]
    BY RestoreQuiet
  <2>2. Good(b) /\ Visible(b) = Visible(a) /\ b.entries[p] = NoEntry
    BY <2>1, DropQuiet
  <2>3. RevokeWrites(p) = <<a, b>>
    BY <1>2 DEF RevokeWrites, Restored, Dropped
  <2>4. Kept(a) /\ Kept(b)
    BY DEF Kept, Restored, Dropped, Good, Files
  <2> HIDE DEF a, b
  <2>5. RevokeWrites(p) \in Seq(Files) /\ Range(RevokeWrites(p)) = {a, b}
        /\ Result(RevokeWrites(p)) = b
    BY <2>1, <2>2, <2>3, TwoWrites DEF Good
  <2> QED BY <2>1, <2>2, <2>4, <2>5 DEF Same
<1> QED BY <1>1, <1>2

(* Staging a candidate shows readers nothing.                              *)
LEMMA PrepareQuiet ==
    ASSUME Good(store), NEW r \in Runs, NEW p \in Phones,
           NEW s \in Range(PrepareWrites(r, p)) \union {Result(PrepareWrites(r, p))}
    PROVE  Same(s) /\ \A q \in Phones : s.entries[q] = store.entries[q] \/ s.entries[q].id = r
<1> DEFINE previous == Visible(store)[p]
           a == Restored(store, p)
<1>1. Good(a) /\ Visible(a) = Visible(store) /\ a.rows[p] = Visible(a)[p]
  BY RestoreQuiet
<1> DEFINE candidate == [bind |-> r, name |-> NameOf(previous)]
           entry == [id |-> r, previous |-> previous, candidate |-> candidate,
                     state |-> "provisional"]
           c == [a EXCEPT !.notices[p] = 0]
           b == [c EXCEPT !.entries[p] = entry]
<1>2. PrepareWrites(r, p) = <<c, b>>
  BY DEF PrepareWrites, Restored, NameOf, Good, Files
<1>3. previous \in MaybeRow /\ entry \in Entry /\ entry # NoEntry
  BY VisibleType, PairingAssumption DEF Entry, MaybeRow, PairedPhone, PhoneBindings, Names, NameOf
<1> HIDE DEF a, previous
<1>4. Good(c) /\ Visible(c) = Visible(store) /\ c.rows[p] = Visible(c)[p]
  <2>1. c \in Files /\ c.rows = a.rows /\ c.entries = a.entries
    BY <1>1 DEF Good, Files
  <2> HIDE DEF c
  <2>2. Visible(c) = Visible(a)
    BY <2>1 DEF Visible, Staged
  <2>3. Consistent(c)
    BY <1>1, <2>1 DEF Good, Consistent, Staged
  <2> QED BY <1>1, <2>1, <2>2, <2>3 DEF Good
<1>5. c.entries = store.entries
  BY DEF a, Restored, Good, Files
<1> HIDE DEF c
<1>6. b \in Files /\ b.rows = c.rows /\ b.entries = [c.entries EXCEPT ![p] = entry]
  BY <1>3, <1>4 DEF Good, Files
<1>7. Visible(b) = Visible(c)
  BY <1>3, <1>4, <1>6, Zenon DEF Good, Files, Visible, Staged, previous
<1>8. Consistent(b)
  BY <1>3, <1>4, <1>6 DEF Good, Files, Consistent, Staged, previous
<1>9. \A q \in Phones : b.entries[q] = c.entries[q] \/ b.entries[q].id = r
  BY <1>4, <1>6 DEF Good, Files
<1> HIDE DEF b
<1>10. s \in {c, b}
  BY <1>2, <1>4, <1>6, TwoWrites DEF Good
<1>11. CASE s = c
  BY <1>4, <1>5, <1>11 DEF Same
<1>12. CASE s = b
  BY <1>4, <1>5, <1>6, <1>7, <1>8, <1>9, <1>12, Zenon DEF Same, Good
<1> QED BY <1>10, <1>11, <1>12

(* Undoing an entry of the run that is still provisional, too.             *)
LEMMA RollbackQuiet ==
    ASSUME Good(store), NEW r \in Runs, run[r].phone \in Phones,
           NEW s \in Range(RollbackWrites(r)) \union {Result(RollbackWrites(r))}
    PROVE  Same(s)
<1> DEFINE p == run[r].phone
           a == Restored(store, p)
           b == Dropped(a, p)
<1>1. CASE Owns(r, "provisional")
  <2>1. store.entries[p].previous = Visible(store)[p]
    BY <1>1 DEF Owns, Visible, Staged
  <2>2. Good(a) /\ Visible(a) = Visible(store) /\ a.rows[p] = Visible(a)[p]
    BY RestoreQuiet
  <2>3. RollbackWrites(r) = <<a, b>>
    BY <1>1, <2>1 DEF RollbackWrites, Restored, Dropped
  <2> HIDE DEF a
  <2>4. Good(b) /\ Visible(b) = Visible(a)
    BY <2>2, DropQuiet
  <2> HIDE DEF b
  <2> QED BY <2>2, <2>3, <2>4, TwoWrites DEF Same, Good
<1>2. CASE ~Owns(r, "provisional")
  <2>1. RollbackWrites(r) = <<>>
    BY <1>2 DEF RollbackWrites
  <2>2. Range(<<>>) = {} /\ Result(<<>>) = store
    BY DEF Range, Result
  <2> QED BY <2>1, <2>2 DEF Same
<1> QED BY <1>1, <1>2

(* An edit shows the new name at its last write, and there only.           *)
LEMMA EditShows ==
    ASSUME Good(store), NEW p \in Phones, NEW n \in NewNames,
           NEW s \in Range(EditWrites(p, n)) \union {Result(EditWrites(p, n))}
    PROVE  /\ Good(s) /\ Kept(s)
           /\ \/ Visible(s) = Visible(store)
              \/ /\ Visible(store)[p] # NoRow
                 /\ Visible(s) = [Visible(store) EXCEPT ![p] =
                                    [bind |-> Visible(store)[p].bind, name |-> n]]
<1> DEFINE w == RevokeWrites(p)
           d == Result(w)
           rows == Visible(d)
           row == [bind |-> rows[p].bind, name |-> n]
           c == [d EXCEPT !.rows = [rows EXCEPT ![p] = row]]
<1>1. /\ w \in Seq(Files) /\ \A x \in Range(w) : Same(x) /\ Kept(x)
      /\ Same(d) /\ Kept(d) /\ d.entries[p] = NoEntry
  BY RevokeQuiet
<1>2. CASE rows[p] = NoRow
  <2>1. EditWrites(p, n) = w
    BY <1>2 DEF EditWrites
  <2> QED BY <1>1, <2>1 DEF Same
<1>3. CASE rows[p] # NoRow
  <2>1. rows \in [Phones -> MaybeRow] /\ rows[p] \in PairedPhone
    BY <1>1, <1>3, VisibleType DEF Same, MaybeRow
  <2>2. row \in PairedPhone /\ [rows[p] EXCEPT !.name = n] = row
    BY <2>1 DEF PairedPhone, Names
  <2>3. EditWrites(p, n) = Append(w, c)
    BY <1>3, <2>1, <2>2 DEF EditWrites
  <2> HIDE DEF d, w, row
  <2>4. c \in Files /\ c.entries = d.entries /\ c.rows = [rows EXCEPT ![p] = row]
    BY <1>1, <2>1, <2>2, Zenon DEF Same, Good, Files, MaybeRow
  <2> HIDE DEF c
  <2>5. Visible(c) = [rows EXCEPT ![p] = row]
    BY <1>1, <2>1, <2>4, Zenon DEF Visible, Staged
  <2>6. Consistent(c)
    <3>1. \A q \in Phones : Staged(d, q) => c.rows[q] = d.entries[q].previous
      BY <1>1, <2>1, <2>4 DEF Visible, Staged
    <3>2. Consistent(d)
      BY <1>1 DEF Same, Good
    <3> QED BY <2>4, <3>1, <3>2, RowsUnderEntries, Zenon
  <2>7. Range(EditWrites(p, n)) = Range(w) \union {c} /\ Result(EditWrites(p, n)) = c
    BY <1>1, <2>3, <2>4, OneMoreWrite
  <2>8. Kept(c)
    BY <1>1, <2>4 DEF Kept
  <2> QED BY <1>1, <1>3, <2>4, <2>5, <2>6, <2>7, <2>8 DEF Same, Good, row
<1> QED BY <1>2, <1>3

(* A removal shows at the last write, and there only; unpair queues a      *)
(* notice with it, the removal on the phone's word forgets one.            *)
LEMMA RemovalShows ==
    ASSUME Good(store), NEW p \in Phones, NEW notice \in Nat,
           NEW c, c = [Result(RevokeWrites(p)) EXCEPT !.rows[p] = NoRow,
                                                      !.notices[p] = notice],
           NEW w, w = RevokeWrites(p) \/ w = Append(RevokeWrites(p), c),
           NEW s \in Range(w) \union {Result(w)}
    PROVE  /\ Good(s) /\ Kept(s)
           /\ \/ Visible(s) = Visible(store)
              \/ Visible(s) = [Visible(store) EXCEPT ![p] = NoRow]
<1> DEFINE d == Result(RevokeWrites(p))
<1>1. /\ RevokeWrites(p) \in Seq(Files)
      /\ \A x \in Range(RevokeWrites(p)) : Same(x) /\ Kept(x)
      /\ Same(d) /\ Kept(d) /\ d.entries[p] = NoEntry
  BY RevokeQuiet
<1> HIDE DEF d
<1>2. c \in Files /\ c.entries = d.entries /\ c.rows = [d.rows EXCEPT ![p] = NoRow]
  BY <1>1, Zenon DEF d, Same, Good, Files, MaybeRow
<1>3. Visible(c) = [Visible(d) EXCEPT ![p] = NoRow]
  BY <1>1, <1>2, Zenon DEF Same, Good, Files, Visible, Staged
<1>4. Consistent(c)
  <2>1. \A q \in Phones : Staged(d, q) => c.rows[q] = d.rows[q]
    BY <1>1, <1>2 DEF Same, Good, Files, Staged
  <2>2. Consistent(d)
    BY <1>1, Zenon DEF Same, Good
  <2> QED BY <1>2, <2>1, <2>2 DEF Consistent, Staged
<1>5. CASE w = RevokeWrites(p)
  BY <1>1, <1>5 DEF Same, d
<1>6. CASE w = Append(RevokeWrites(p), c)
  <2>1. Range(w) = Range(RevokeWrites(p)) \union {c} /\ Result(w) = c
    BY <1>1, <1>2, <1>6, OneMoreWrite
  <2>2. Kept(c)
    BY <1>1, <1>2 DEF Kept
  <2> QED BY <1>1, <1>2, <1>3, <1>4, <2>1, <2>2 DEF Same, Good
<1> QED BY <1>5, <1>6
-----------------------------------------------------------------------------
TrustVars == <<Visible(store), PhoneFinished>>

TrustStep == [Trust!Next]_TrustVars

(* A step that readers do not see.                                         *)
LEMMA QuietStep ==
    ASSUME Same(store'), replied' = replied,
           \A r \in Runs : replied[r] = "finished" => run'[r].phone = run[r].phone
    PROVE  TrustStep
<1>1. Visible(store)' = Visible(store')
  BY DEF Visible, Staged
<1>2. PhoneFinished' = PhoneFinished
  BY DEF PhoneFinished
<1> QED BY <1>1, <1>2 DEF TrustStep, TrustVars, Same

(* prepare, with or without success.                                       *)
LEMMA PrepareImplements ==
    ASSUME PairingInv, NEW r \in Runs, NEW p \in Phones, Prepare(r, p)
    PROVE  PairingInv' /\ TrustStep
<1>1. Same(store')
  BY PrepareQuiet DEF PairingInv, Prepare, Completes, Stops, Same
<1>2. RunTypeOK' /\ RunInv'
  BY DEF PairingInv, RunTypeOK, RunInv, Prepare, Fails, Active
<1>3. TrustStep
  <2>1. replied' = replied
    BY Zenon DEF Prepare
  <2>2. \A x \in Runs : replied[x] = "finished" => run'[x].phone = run[x].phone
    BY DEF PairingInv, RunTypeOK, RunInv, Prepare, Fails
  <2> QED BY <1>1, <2>1, <2>2, QuietStep, Zenon
<1> QED BY <1>1, <1>2, <1>3 DEF PairingInv, Same, Good, Files, Consistent, Staged

(* A rollback, wherever it stops.                                          *)
LEMMA AbortImplements ==
    ASSUME PairingInv, NEW r \in Runs, Abort(r) PROVE PairingInv' /\ TrustStep
<1>1. Same(store')
  BY RollbackQuiet DEF PairingInv, RunInv, Abort, Completes, Stops, Same
<1>2. RunTypeOK' /\ RunInv'
  <2>1. RunTypeOK'
    BY DEF PairingInv, RunTypeOK, Abort, Fails
  <2>2. RunInv'
    BY DEF PairingInv, RunTypeOK, RunInv, Abort, Fails, Active
  <2> QED BY <2>1, <2>2
<1>3. TrustStep
  BY <1>1, QuietStep DEF PairingInv, RunTypeOK, Abort, Fails
<1> QED BY <1>1, <1>2, <1>3 DEF PairingInv, Same, Good, Files, Consistent, Staged

(* The candidate's row is written behind its entry.                        *)
LEMMA WriteCandidateImplements ==
    ASSUME PairingInv, NEW r \in Runs, WriteCandidate(r) PROVE PairingInv' /\ TrustStep
<1> DEFINE p == run[r].phone
<1>1. p \in Phones /\ Staged(store, p) /\ store.entries[p] \in Entry
  BY SMTT(20) DEF PairingInv, RunInv, Active, WriteCandidate, Owns, Staged, Good, Files
<1>2. /\ store' \in Files /\ store'.entries = store.entries
      /\ store'.rows = [store.rows EXCEPT ![p] = store.entries[p].candidate]
  BY <1>1 DEF PairingInv, WriteCandidate, Good, Files, Entry, MaybeRow
<1>3. Visible(store') = Visible(store)
  BY <1>1, <1>2 DEF PairingInv, Good, Files, Visible, Staged
<1>4. Consistent(store')
  <2>1. \A q \in Phones : store'.rows[q] \in {store.rows[q], store.entries[q].candidate}
    BY <1>1, <1>2 DEF PairingInv, Good, Files
  <2>2. Consistent(store)
    BY DEF PairingInv, Good
  <2> QED BY <1>2, <2>1, <2>2, RowsUnderEntries, Zenon
<1>5. RunTypeOK' /\ RunInv'
  BY DEF PairingInv, RunTypeOK, RunInv, WriteCandidate, Active
<1>6. TrustStep
  BY <1>2, <1>3, <1>4, QuietStep DEF PairingInv, RunTypeOK, WriteCandidate, Same, Good
<1> QED BY <1>2, <1>4, <1>5, <1>6 DEF PairingInv, Good, Files, Consistent, Staged

(* The decision stays staged.                                              *)
LEMMA DecideImplements ==
    ASSUME PairingInv, NEW r \in Runs, Decide(r) PROVE PairingInv' /\ TrustStep
<1> DEFINE p == run[r].phone
           e == [store.entries[p] EXCEPT !.state = "decided"]
<1>1. p \in Phones /\ store.entries[p] \in Entry /\ store.entries[p].state = "provisional"
  BY DEF PairingInv, RunInv, Active, Decide, Transition, Owns, Good, Files
<1>2. /\ e \in Entry /\ e # NoEntry /\ e.state = "decided"
      /\ e.previous = store.entries[p].previous /\ e.id = store.entries[p].id
      /\ e.candidate = store.entries[p].candidate
  BY <1>1, PairingAssumption, SMTT(20) DEF Entry
<1>3. store' \in Files /\ store'.entries = [store.entries EXCEPT ![p] = e]
      /\ store'.rows = store.rows
  BY <1>1, <1>2 DEF PairingInv, Decide, Transition, Good, Files
<1> HIDE DEF e
<1>4. Visible(store') = Visible(store)
  BY <1>1, <1>2, <1>3, PairingAssumption DEF PairingInv, Good, Files, Visible, Staged
<1>5. Consistent(store')
  BY <1>1, <1>2, <1>3, PairingAssumption DEF PairingInv, Good, Files, Consistent, Staged
<1>6. RunTypeOK' /\ RunInv'
  <2>1. RunTypeOK'
    BY DEF PairingInv, RunTypeOK, Decide, Fails
  <2>2. RunInv'
    BY DEF PairingInv, RunTypeOK, RunInv, Decide, Fails, Active
  <2> QED BY <2>1, <2>2
<1>7. TrustStep
  BY <1>3, <1>4, <1>5, QuietStep DEF PairingInv, RunTypeOK, Decide, Fails, Same, Good
<1> QED BY <1>3, <1>5, <1>6, <1>7 DEF PairingInv, Good, Files, Consistent, Staged

(* The new binding becomes visible, and the phone has finished it; or the  *)
(* row that readers see stays, where another operation wrote it back.      *)
LEMMA FinishImplements ==
    ASSUME PairingInv, NEW r \in Runs, Finish(r) PROVE PairingInv' /\ TrustStep
<1> DEFINE p == run[r].phone
           old == store.entries[p]
           e == [old EXCEPT !.state = "completed"]
<1>1. /\ p \in Phones /\ old \in Entry /\ old.id = r /\ old.state = "decided"
      /\ Staged(store, p)
  BY DEF PairingInv, RunInv, Active, Finish, Transition, Owns, Staged, Good, Files
<1>2. e \in Entry /\ e.state = "completed"
  BY <1>1 DEF Entry
<1>3. store' \in Files /\ store'.entries = [store.entries EXCEPT ![p] = e]
      /\ store'.rows = store.rows
  BY <1>1, <1>2 DEF PairingInv, Finish, Transition, Good, Files
<1> HIDE DEF e
<1>4. Visible(store') = [Visible(store) EXCEPT ![p] = store.rows[p]]
  BY <1>1, <1>2, <1>3, Zenon DEF PairingInv, Good, Files, Visible, Staged
<1>5. Consistent(store')
  BY <1>1, <1>2, <1>3 DEF PairingInv, Good, Files, Consistent, Staged
<1>6. RunTypeOK' /\ RunInv'
  BY DEF PairingInv, RunTypeOK, RunInv, Finish, Fails, Active
<1>7. TrustStep
  <2>1. Visible(store)[p] = old.previous
    BY <1>1 DEF Visible
  <2>2. CASE store.rows[p] = old.previous
    <3>1. Visible(store') = Visible(store)
      BY <1>4, <2>1, <2>2, VisibleType DEF PairingInv
    <3> QED BY <1>3, <1>5, <3>1, QuietStep DEF PairingInv, RunTypeOK, Finish, Fails, Same, Good
  <2>3. CASE store.rows[p] = [bind |-> r, name |-> NameOf(old.previous)]
    <3>1. Visible(store)' = Visible(store')
      BY DEF Visible, Staged
    <3>2. <<p, r>> \in PhoneFinished
      BY DEF Finish, PhoneFinished
    <3>3. PhoneFinished' = PhoneFinished
      BY DEF PairingInv, RunTypeOK, Finish, Fails, PhoneFinished
    <3>4. Trust!Complete(p, r)
      BY <1>4, <2>1, <2>3, <3>1, <3>2, <3>3 DEF Trust!Complete, NameOf
    <3> QED BY <1>1, <3>4 DEF TrustStep, Trust!Next, PhoneBindings
  <2> QED BY <1>1, <2>2, <2>3 DEF PairingInv, Good, Consistent
<1> QED BY <1>3, <1>5, <1>6, <1>7 DEF PairingInv, Good, Files, Consistent, Staged

(* The phone's answers: the last one finishes the pairing on its side.     *)
LEMMA PhoneRepliesImplements ==
    ASSUME PairingInv, NEW r \in Runs, PhoneReplies(r) PROVE PairingInv' /\ TrustStep
<1>1. PairingInv'
  <2>1. RunTypeOK'
    BY DEF PairingInv, RunTypeOK, PhoneReplies
  <2>2. RunInv'
    BY DEF PairingInv, RunTypeOK, RunInv, Active, PhoneReplies
  <2>3. Good(store)'
    BY DEF PairingInv, PhoneReplies, Good, Files, Consistent, Staged
  <2> QED BY <2>1, <2>2, <2>3 DEF PairingInv
<1>2. UNCHANGED <<store, run>>
  BY DEF PhoneReplies
<1>3. Visible(store)' = Visible(store)
  BY <1>2 DEF Visible, Staged
<1>4. CASE run[r].pc = "finish"
  <2>1. replied' = [replied EXCEPT ![r] = "finished"] /\ run[r].phone \in Phones
    BY <1>4 DEF PhoneReplies, PairingInv, RunInv, Active
  <2>2. PhoneFinished' = PhoneFinished \union {<<run[r].phone, r>>}
    BY <1>2, <2>1 DEF PhoneFinished, PairingInv, RunTypeOK
  <2>3. Trust!PhoneFinishes(run[r].phone, r)
    BY <1>3, <2>2 DEF Trust!PhoneFinishes
  <2> QED BY <1>1, <2>1, <2>3 DEF TrustStep, Trust!Next, PhoneBindings
<1>5. CASE run[r].pc # "finish"
  <2>1. PhoneFinished' = PhoneFinished
    BY <1>2, <1>5 DEF PhoneReplies, PhoneFinished, PairingInv, RunTypeOK, RunInv
  <2> QED BY <1>1, <1>3, <2>1 DEF TrustStep, TrustVars
<1> QED BY <1>1, <1>4, <1>5

(* A step of the files alone keeps the invariant if they stay consistent.  *)
LEMMA GoodStays ==
    ASSUME PairingInv, Good(store'), run' = run, replied' = replied, acts' \in Nat
    PROVE  PairingInv'
<1>1. Good(store)'
  BY DEF Good, Files, Consistent, Staged
<1>2. RunTypeOK' /\ RunInv'
  BY DEF PairingInv, RunTypeOK, RunInv, Active
<1> QED BY <1>1, <1>2 DEF PairingInv

(* An edit of the user is the abstract edit, or nothing.                   *)
LEMMA EditImplements ==
    ASSUME PairingInv, NEW p \in Phones, NEW n \in NewNames, UpdateUserFields(p, n)
    PROVE  PairingInv' /\ TrustStep
<1>0. run' = run /\ replied' = replied /\ acts' \in Nat
  BY PairingAssumption DEF UpdateUserFields, Act, PairingInv, RunTypeOK
<1>1. CASE store' = store
  <2>1. Same(store')
    BY <1>1, Zenon DEF Same, PairingInv
  <2>2. PairingInv'
    BY <1>0, <2>1, GoodStays DEF Same
  <2> QED BY <1>0, <2>1, <2>2, QuietStep, Zenon
<1>2. CASE store' \in Range(EditWrites(p, n)) \union {Result(EditWrites(p, n))}
  <2>1. Good(store')
    BY <1>2, EditShows DEF PairingInv
  <2>2. PairingInv'
    BY <1>0, <2>1, GoodStays
  <2>3. CASE Visible(store') = Visible(store)
    BY <2>1, <2>2, <2>3, QuietStep DEF UpdateUserFields, Same
  <2>4. CASE /\ Visible(store)[p] # NoRow
             /\ Visible(store') = [Visible(store) EXCEPT ![p] =
                                     [bind |-> Visible(store)[p].bind, name |-> n]]
    <3>1. Visible(store)' = Visible(store')
      BY DEF Visible, Staged
    <3>2. PhoneFinished' = PhoneFinished
      BY DEF UpdateUserFields, PhoneFinished
    <3>3. Trust!Edit(p, n)
      BY <2>4, <3>1, <3>2 DEF Trust!Edit
    <3> QED BY <2>2, <3>3 DEF TrustStep, Trust!Next, Names
  <2> QED BY <1>2, <2>3, <2>4, EditShows DEF PairingInv
<1> QED BY <1>1, <1>2 DEF UpdateUserFields, Completes, Stops

(* A write of a removal is the abstract removal, or nothing.               *)
LEMMA RemovalStep ==
    ASSUME NEW p \in Phones, Good(store'), UNCHANGED replied,
           \A r \in Runs : run'[r].phone = run[r].phone,
           \/ Visible(store') = Visible(store)
           \/ Visible(store') = [Visible(store) EXCEPT ![p] = NoRow]
    PROVE  TrustStep
<1>1. Visible(store)' = Visible(store')
  BY DEF Visible, Staged
<1>2. PhoneFinished' = PhoneFinished
  BY DEF PhoneFinished
<1>3. CASE Visible(store') = Visible(store)
  BY <1>1, <1>2, <1>3 DEF TrustStep, TrustVars
<1>4. CASE Visible(store') = [Visible(store) EXCEPT ![p] = NoRow]
  <2>1. Trust!Remove(p)
    BY <1>1, <1>2, <1>4 DEF Trust!Remove
  <2> QED BY <2>1 DEF TrustStep, Trust!Next
<1> QED BY <1>3, <1>4

(* unpair, wherever it stops.                                              *)
LEMMA UnpairImplements ==
    ASSUME PairingInv, NEW p \in Phones, Unpair(p) PROVE PairingInv' /\ TrustStep
<1>1. /\ Good(store')
      /\ \/ Visible(store') = Visible(store)
         \/ Visible(store') = [Visible(store) EXCEPT ![p] = NoRow]
  <2> DEFINE c == [Result(RevokeWrites(p)) EXCEPT !.rows[p] = NoRow, !.notices[p] = acts + 1]
  <2>1. acts + 1 \in Nat
    BY DEF PairingInv, RunTypeOK
  <2>2. UnpairWrites(p) = RevokeWrites(p) \/ UnpairWrites(p) = Append(RevokeWrites(p), c)
    BY DEF UnpairWrites
  <2>3. store' = store \/ store' \in Range(UnpairWrites(p)) \union {Result(UnpairWrites(p))}
    BY DEF Unpair, Completes, Stops
  <2> HIDE DEF c
  <2> QED BY <2>1, <2>2, <2>3, RemovalShows, Zenon DEF PairingInv, c
<1>2. RunTypeOK' /\ RunInv'
  BY DEF PairingInv, RunTypeOK, RunInv, Active, Unpair, Act
<1>3. TrustStep
  BY <1>1, RemovalStep DEF PairingInv, RunTypeOK, Unpair
<1> QED BY <1>1, <1>2, <1>3 DEF PairingInv, Good, Files, Consistent, Staged

(* remove_unpaired_by_peer, wherever it stops.                             *)
LEMMA PeerImplements ==
    ASSUME PairingInv, NEW p \in Phones, RemoveUnpairedByPeer(p)
    PROVE  PairingInv' /\ TrustStep
<1>1. /\ Good(store')
      /\ \/ Visible(store') = Visible(store)
         \/ Visible(store') = [Visible(store) EXCEPT ![p] = NoRow]
  <2> DEFINE c == [Result(RevokeWrites(p)) EXCEPT !.rows[p] = NoRow, !.notices[p] = 0]
  <2>1. PeerWrites(p) = Append(RevokeWrites(p), c)
    BY DEF PeerWrites
  <2>2. store' = store \/ store' \in Range(PeerWrites(p)) \union {Result(PeerWrites(p))}
    BY DEF RemoveUnpairedByPeer, Completes, Stops
  <2> HIDE DEF c
  <2> QED BY <2>1, <2>2, RemovalShows, Zenon DEF PairingInv, c
<1>2. RunTypeOK' /\ RunInv'
  BY DEF PairingInv, RunTypeOK, RunInv, Active, RemoveUnpairedByPeer
<1>3. TrustStep
  BY <1>1, RemovalStep DEF RemoveUnpairedByPeer
<1> QED BY <1>1, <1>2, <1>3 DEF PairingInv, Good, Files, Consistent, Staged

(* Forgetting delivered notices touches no row.                            *)
LEMMA ClearNoticesImplements ==
    ASSUME PairingInv, ClearNotices PROVE PairingInv' /\ TrustStep
<1>1. store' \in Files /\ store'.rows = store.rows /\ store'.entries = store.entries
  BY DEF PairingInv, Good, Files, ClearNotices
<1>2. Visible(store') = Visible(store) /\ Consistent(store')
  BY <1>1 DEF PairingInv, Good, Visible, Consistent, Staged
<1>3. TrustStep
  BY <1>1, <1>2, QuietStep DEF ClearNotices, Same, Good
<1>4. RunTypeOK' /\ RunInv'
  BY DEF PairingInv, RunTypeOK, RunInv, Active, ClearNotices
<1> QED BY <1>1, <1>2, <1>3, <1>4 DEF PairingInv, Good, Files, Consistent, Staged

(* The other steps write no file.                                          *)
LEMMA OthersImplement ==
    ASSUME PairingInv,
           \/ \E r \in Runs : Cancel(r)
           \/ \E p \in Phones : Notify(p) \/ Probe(p) \/ PhoneRemoves(p)
           \/ SyncStart \/ SyncEnd \/ PairingCrash \/ UNCHANGED pairingVars
    PROVE  PairingInv' /\ TrustStep
<1>1. UNCHANGED <<store, replied>>
  BY DEF Cancel, Notify, Probe, PhoneRemoves, SyncStart, SyncEnd, PairingCrash, pairingVars
<1>2. RunTypeOK'
  BY PairingAssumption DEF PairingInv, RunTypeOK, Cancel, Notify, Probe, PhoneRemoves,
     SyncStart, SyncEnd, PairingCrash, pairingVars, Act
<1>3. RunInv' /\ \A r \in Runs : run'[r].phone = run[r].phone
  <2>1. CASE UNCHANGED run
    BY <1>1, <2>1 DEF PairingInv, RunInv, Active
  <2>2. CASE \E r \in Runs : Cancel(r)
    BY <1>1, <2>2 DEF PairingInv, RunTypeOK, RunInv, Active, Cancel
  <2>3. CASE PairingCrash
    BY <1>1, <2>3 DEF PairingInv, RunTypeOK, RunInv, Active, PairingCrash
  <2> QED BY <2>1, <2>2, <2>3 DEF Notify, Probe, PhoneRemoves, SyncStart, SyncEnd, pairingVars
<1>4. TrustStep
  BY <1>1, <1>3, QuietStep DEF PairingInv, Same
<1>5. Good(store)'
  BY <1>1 DEF PairingInv, Good, Files, Consistent, Staged
<1> QED BY <1>2, <1>3, <1>4, <1>5 DEF PairingInv
-----------------------------------------------------------------------------
(* Every step keeps the invariant, and readers see a step of the trust     *)
(* store or none.                                                          *)
LEMMA StepImplements ==
    ASSUME PairingInv, [PairingNext]_pairingVars PROVE PairingInv' /\ TrustStep
<1>1. ASSUME NEW r \in Runs, RunStep(r), ~Cancel(r) PROVE PairingInv' /\ TrustStep
  BY <1>1, PrepareImplements, WriteCandidateImplements, DecideImplements, FinishImplements,
     AbortImplements, PhoneRepliesImplements DEF RunStep
<1>2. ASSUME NEW p \in Phones,
             (\E n \in NewNames : UpdateUserFields(p, n)) \/ Unpair(p) \/ RemoveUnpairedByPeer(p)
      PROVE  PairingInv' /\ TrustStep
  BY <1>2, EditImplements, UnpairImplements, PeerImplements
<1> QED BY <1>1, <1>2, ClearNoticesImplements, OthersImplement DEF PairingNext, RunStep

(* The files a desktop starts with.                                        *)
LEMMA InitImplements == PairingInit => PairingInv /\ Trust!Init
<1> SUFFICES ASSUME PairingInit PROVE PairingInv /\ Trust!Init
  OBVIOUS
<1> DEFINE first == [bind |-> OldBinding, name |-> DefaultName]
<1>1. PICK rows \in [Phones -> {NoRow, first}] :
        store = [rows |-> rows, notices |-> [p \in Phones |-> 0],
                 entries |-> [p \in Phones |-> NoEntry]]
  BY Zenon DEF PairingInit
<1>2. first \in PairedPhone /\ first \in [bind : PhoneBindings, name : {DefaultName}]
  BY DEF PairedPhone, PhoneBindings, Names
<1> HIDE DEF first
<1>3. store \in Files /\ store.rows = rows /\ \A p \in Phones : ~Staged(store, p)
  BY <1>1, <1>2 DEF Files, MaybeRow, Staged
<1>4. Visible(store) = rows /\ Consistent(store)
  BY <1>1, <1>3 DEF Visible, Consistent
<1>5. RunTypeOK /\ RunInv
  BY DEF PairingInit, RunTypeOK, RunInv, Active
<1>6. PhoneFinished = {}
  BY DEF PairingInit, PhoneFinished
<1> QED BY <1>2, <1>3, <1>4, <1>5, <1>6 DEF PairingInv, Good, Trust!Init

(* The store of paired phones implements the trust store: what its readers *)
(* see changes by a pairing the phone finished, an edit or a removal only. *)
THEOREM PairingImplementsTrust == PairingSpec => ImplementsTrustStore
<1>1. PairingInit => PairingInv /\ Trust!Init
  BY InitImplements
<1>2. PairingInv /\ [PairingNext]_pairingVars => PairingInv' /\ TrustStep
  BY StepImplements
<1> QED BY <1>1, <1>2, PTL DEF PairingSpec, ImplementsTrustStore, Trust!Spec, TrustStep, TrustVars
-----------------------------------------------------------------------------
Writing(r) == run[r].pc \in {"commit", "finish"}

(* From the commit on a run's row is its candidate, unless another         *)
(* operation wrote the row or took the entry.                              *)
WrittenInv ==
    \A r \in Runs :
        /\ Writing(r) /\ r \notin overwritten
        /\ Staged(store, run[r].phone) /\ store.entries[run[r].phone].id = r
        => store.rows[run[r].phone] = store.entries[run[r].phone].candidate

(* An operation that adds no entry of a writing run, and notes the rows it *)
(* writes under staged entries.                                            *)
LEMMA NotedKeeps ==
    ASSUME PairingInv, WrittenInv, NoteOverwritten,
           \A r \in Runs : Writing(r)' => Writing(r) /\ run'[r].phone = run[r].phone,
           \A p \in Phones : \/ store'.entries[p] \in {store.entries[p], NoEntry}
                            \/ ~Writing(store'.entries[p].id)
    PROVE  WrittenInv'
<1> SUFFICES ASSUME NEW r \in Runs, Writing(r)', r \notin overwritten',
                    Staged(store', run'[r].phone), store'.entries[run'[r].phone].id = r
             PROVE  store'.rows[run'[r].phone] = store'.entries[run'[r].phone].candidate
  BY DEF WrittenInv, Staged
<1> DEFINE p == run[r].phone
<1>1. Writing(r) /\ run'[r].phone = p /\ p \in Phones
  BY DEF PairingInv, RunInv, Active, Writing
<1>2. store'.entries[p] = store.entries[p] /\ Staged(store, p)
  BY <1>1 DEF Staged
<1>3. r \notin overwritten /\ store'.rows[p] = store.rows[p]
  BY <1>1, <1>2 DEF NoteOverwritten
<1> QED BY <1>1, <1>2, <1>3 DEF WrittenInv

(* The operations of others note what they overwrite.                      *)
LEMMA OperationsKeepWritten ==
    ASSUME PairingInv, WrittenInv,
           \/ \E r \in Runs, p \in Phones : Prepare(r, p)
           \/ \E p \in Phones, n \in NewNames : UpdateUserFields(p, n)
           \/ \E p \in Phones : Unpair(p) \/ RemoveUnpairedByPeer(p)
    PROVE  WrittenInv'
<1>1. ASSUME NEW r \in Runs, NEW p \in Phones, Prepare(r, p) PROVE WrittenInv'
  <2>1. store' = store \/ \A q \in Phones : store'.entries[q] = store.entries[q]
                                           \/ store'.entries[q].id = r
    BY <1>1, PrepareQuiet DEF PairingInv, Prepare, Completes, Stops
  <2>2. /\ ~Writing(r) /\ NoteOverwritten
        /\ \A x \in Runs : Writing(x)' => Writing(x) /\ run'[x].phone = run[x].phone
    BY <1>1 DEF Prepare, Fails, Writing, PairingInv, RunTypeOK
  <2> QED BY <2>1, <2>2, NotedKeeps
<1>2. ASSUME NEW p \in Phones, NEW n \in NewNames, UpdateUserFields(p, n) PROVE WrittenInv'
  <2>1. store' = store \/ Kept(store')
    BY <1>2, EditShows DEF PairingInv, UpdateUserFields, Completes, Stops
  <2> QED BY <1>2, <2>1, NotedKeeps DEF UpdateUserFields, Kept, Writing
<1>3. ASSUME NEW p \in Phones, Unpair(p) PROVE WrittenInv'
  <2> DEFINE c == [Result(RevokeWrites(p)) EXCEPT !.rows[p] = NoRow, !.notices[p] = acts + 1]
  <2>1. acts + 1 \in Nat
    BY DEF PairingInv, RunTypeOK
  <2>2. UnpairWrites(p) = RevokeWrites(p) \/ UnpairWrites(p) = Append(RevokeWrites(p), c)
    BY DEF UnpairWrites
  <2>3. store' = store \/ store' \in Range(UnpairWrites(p)) \union {Result(UnpairWrites(p))}
    BY <1>3 DEF Unpair, Completes, Stops
  <2> HIDE DEF c
  <2>4. store' = store \/ Kept(store')
    BY <2>1, <2>2, <2>3, RemovalShows, Zenon DEF PairingInv, c
  <2>5. \A x \in Runs : Writing(x)' => Writing(x) /\ run'[x].phone = run[x].phone
    BY <1>3 DEF Unpair, Writing, PairingInv, RunTypeOK
  <2> QED BY <1>3, <2>4, <2>5, NotedKeeps DEF Unpair, Kept
<1>4. ASSUME NEW p \in Phones, RemoveUnpairedByPeer(p) PROVE WrittenInv'
  <2> DEFINE c == [Result(RevokeWrites(p)) EXCEPT !.rows[p] = NoRow, !.notices[p] = 0]
  <2>1. PeerWrites(p) = Append(RevokeWrites(p), c)
    BY DEF PeerWrites
  <2>2. store' = store \/ store' \in Range(PeerWrites(p)) \union {Result(PeerWrites(p))}
    BY <1>4, Zenon DEF RemoveUnpairedByPeer, Completes, Stops
  <2> HIDE DEF c
  <2>3. store' = store \/ Kept(store')
    BY <2>1, <2>2, RemovalShows, Zenon DEF PairingInv, c
  <2> QED BY <1>4, <2>3, NotedKeeps, Zenon DEF RemoveUnpairedByPeer, Kept, Writing
<1> QED BY <1>1, <1>2, <1>3, <1>4

(* A rollback touches the entry of its own run, which ends.                *)
LEMMA AbortKeepsWritten ==
    ASSUME PairingInv, WrittenInv, NEW r \in Runs, Abort(r) PROVE WrittenInv'
<1> DEFINE p == run[r].phone
           a == [store EXCEPT !.rows[p] = store.entries[p].previous]
           b == [a EXCEPT !.entries[p] = NoEntry]
<1>1. p \in Phones /\ store \in Files
  BY DEF Abort, PairingInv, RunInv, Good
<1>2. store' = store \/ (Owns(r, "provisional") /\ store' \in {a, b})
  <2>1. CASE Owns(r, "provisional")
    <3>1. RollbackWrites(r) = <<a, b>>
      BY <2>1 DEF RollbackWrites
    <3>2. a \in Files /\ b \in Files
      BY <1>1, <2>1, Zenon DEF Files, Owns, Entry
    <3> HIDE DEF a, b
    <3> QED BY <2>1, <3>1, <3>2, TwoWrites DEF Abort, Completes, Stops
  <2>2. CASE ~Owns(r, "provisional")
    <3>1. RollbackWrites(r) = <<>>
      BY <2>2 DEF RollbackWrites
    <3> QED BY <3>1 DEF Abort, Completes, Stops, Result, Range
  <2> QED BY <2>1, <2>2
<1>3. \A q \in Phones : \/ store'.entries[q] = store.entries[q] /\ store'.rows[q] = store.rows[q]
                        \/ store.entries[q].id = r /\ store'.entries[q] = store.entries[q]
                        \/ store'.entries[q] = NoEntry
  <2>1. CASE store' = store
    BY <2>1, Zenon
  <2> DEFINE rows == [store.rows EXCEPT ![p] = store.entries[p].previous]
             dropped == [store.entries EXCEPT ![p] = NoEntry]
  <2>2. /\ a.rows = rows /\ a.entries = store.entries
        /\ b.rows = rows /\ b.entries = dropped
    BY <1>1 DEF Files
  <2>3. \A q \in Phones \ {p} : rows[q] = store.rows[q] /\ dropped[q] = store.entries[q]
    BY <1>1 DEF Files
  <2>4. dropped[p] = NoEntry
    BY <1>1 DEF Files
  <2> HIDE DEF a, b, rows, dropped
  <2>5. ASSUME Owns(r, "provisional"), store' \in {a, b}, NEW q \in Phones
        PROVE  \/ store'.entries[q] = store.entries[q] /\ store'.rows[q] = store.rows[q]
               \/ store.entries[q].id = r /\ store'.entries[q] = store.entries[q]
               \/ store'.entries[q] = NoEntry
    <3>1. CASE q = p
      BY <2>5, <2>2, <2>4, <3>1, Zenon DEF Owns
    <3>2. CASE q # p
      BY <2>5, <2>2, <2>3, <3>2, Zenon
    <3> QED BY <3>1, <3>2
  <2> QED BY <1>2, <2>1, <2>5, Zenon
<1>4. \A x \in Runs : Writing(x)' => x # r /\ Writing(x) /\ run'[x].phone = run[x].phone
                                    /\ run[x].phone \in Phones
  BY DEF Abort, Fails, Writing, PairingInv, RunTypeOK, RunInv, Active
<1>5. overwritten' = overwritten
  BY DEF Abort
<1>6. ASSUME NEW x \in Runs, NEW q \in Phones, x # r, x \notin overwritten, q = run[x].phone,
             Writing(x), Staged(store', q), store'.entries[q].id = x
      PROVE  store'.rows[q] = store'.entries[q].candidate
  <2>1. store'.entries[q] # NoEntry
    BY <1>6, Zenon DEF Staged
  <2>2. store'.entries[q] = store.entries[q] /\ store'.rows[q] = store.rows[q]
    BY <1>3, <1>6, <2>1, Zenon
  <2>3. Staged(store, q)
    BY <1>6, <2>2, Zenon DEF Staged
  <2> QED BY <1>6, <2>2, <2>3, Zenon DEF WrittenInv
<1> QED BY <1>4, <1>5, <1>6 DEF WrittenInv, Staged

(* A run's own steps write its candidate and keep it.                      *)
LEMMA RunKeepsWritten ==
    ASSUME PairingInv, WrittenInv, NEW r \in Runs,
           WriteCandidate(r) \/ Decide(r) \/ Finish(r)
    PROVE  WrittenInv'
<1> DEFINE p == run[r].phone
<1>1. /\ p \in Phones /\ store \in Files /\ store.entries[p] \in Entry
      /\ store.entries[p].id = r /\ Staged(store, p)
  BY DEF WriteCandidate, Decide, Finish, Transition, Owns, Staged, PairingInv, RunInv, Active,
     Good, Files
<1>2. /\ overwritten' = overwritten
      /\ \A x \in Runs \ {r} : run'[x] = run[x]
      /\ run'[r].phone = p
  BY DEF WriteCandidate, Decide, Finish, Fails, PairingInv, RunTypeOK
<1>3. \A q \in Phones \ {p} : store'.entries[q] = store.entries[q]
                             /\ store'.rows[q] = store.rows[q]
  BY <1>1 DEF WriteCandidate, Decide, Finish, Transition, Files
<1>4. store'.entries[p].id = r /\ store'.entries[p].candidate = store.entries[p].candidate
  BY <1>1 DEF WriteCandidate, Decide, Finish, Transition, Files, Entry
<1>5. ASSUME Writing(r)', r \notin overwritten
      PROVE  store'.rows[p] = store.entries[p].candidate
  <2>1. CASE WriteCandidate(r)
    BY <1>1, <2>1 DEF WriteCandidate, Files
  <2>2. CASE Decide(r) \/ Finish(r)
    <3>1. Writing(r) /\ store'.rows = store.rows
      BY <1>1, <2>2 DEF Decide, Finish, Transition, Files, Writing
    <3> QED BY <1>1, <1>5, <3>1 DEF WrittenInv
  <2> QED BY <2>1, <2>2
<1>6. ASSUME NEW x \in Runs \ {r}, Writing(x)', x \notin overwritten,
             Staged(store', run[x].phone), store'.entries[run[x].phone].id = x
      PROVE  store'.rows[run[x].phone] = store'.entries[run[x].phone].candidate
  <2>1. Writing(x) /\ run[x].phone \in Phones \ {p}
    BY <1>2, <1>4, <1>6 DEF Writing, PairingInv, RunInv, Active
  <2> QED BY <1>3, <1>6, <2>1 DEF WrittenInv, Staged
<1>7. ASSUME Writing(r)', r \notin overwritten
      PROVE  store'.rows[run'[r].phone] = store'.entries[run'[r].phone].candidate
  BY <1>2, <1>4, <1>5, <1>7, Zenon
<1>8. ASSUME NEW x \in Runs, Writing(x)', x \notin overwritten,
             Staged(store', run'[x].phone), store'.entries[run'[x].phone].id = x
      PROVE  store'.rows[run'[x].phone] = store'.entries[run'[x].phone].candidate
  <2>1. CASE x = r
    BY <1>7, <1>8, <2>1, Zenon
  <2>2. CASE x # r
    <3>1. x \in Runs \ {r} /\ run'[x].phone = run[x].phone
      BY <1>2, <2>2, Zenon
    <3> QED BY <1>6, <1>8, <3>1, Zenon
  <2> QED BY <2>1, <2>2
<1> QED BY <1>2, <1>8, Zenon DEF WrittenInv, Staged

(* A run that succeeds shows its binding.                                  *)
LEMMA FinishShows ==
    ASSUME PairingInv, WrittenInv, NEW r \in Runs, Finish(r), r \notin overwritten
    PROVE  Visible(store')[run[r].phone] # NoRow /\ Visible(store')[run[r].phone].bind = r
<1> DEFINE p == run[r].phone
<1>1. /\ p \in Phones /\ store \in Files /\ store.entries[p] \in Entry
      /\ store.entries[p].id = r /\ Staged(store, p) /\ Writing(r)
  BY DEF Finish, Transition, Owns, Staged, PairingInv, RunInv, Active, Good, Files, Writing
<1>2. store.rows[p] = store.entries[p].candidate
  BY <1>1 DEF WrittenInv
<1>3. store.rows[p] \in PairedPhone /\ store.rows[p].bind = r
  <2>1. store.entries[p].candidate \in PairedPhone
    BY <1>1 DEF Entry
  <2>2. store.entries[p].candidate = [bind |-> r, name |-> NameOf(store.entries[p].previous)]
    BY <1>1 DEF PairingInv, Good, Consistent
  <2> QED BY <1>2, <2>1, <2>2
<1>4. store'.rows[p] = store.rows[p] /\ ~Staged(store', p)
  <2>1. store' = [store EXCEPT !.entries[p].state = "completed"]
    BY DEF Finish, Transition
  <2>2. store'.rows = store.rows /\ store'.entries[p].state = "completed"
    BY <1>1, <2>1 DEF Files, Entry
  <2> QED BY <2>2 DEF Staged
<1> QED BY <1>1, <1>3, <1>4, PairingAssumption DEF Visible

(* A pairing run that reports success has made its binding visible, unless *)
(* another operation wrote its staged row.                                 *)
THEOREM SuccessIsVisible == PairingSpec => FinishedIsVisible
<1> DEFINE Inv == PairingInv /\ WrittenInv
           Shown == \A r \in Runs :
             run[r].pc # "ok" /\ run'[r].pc = "ok" /\ r \notin overwritten =>
                 LET row == Visible(store')[run[r].phone]
                 IN  row # NoRow /\ row.bind = r
<1>1. PairingInit => Inv
  <2>1. PairingInit => WrittenInv
    BY DEF PairingInit, WrittenInv, Writing
  <2> QED BY <2>1, InitImplements
<1>2. Inv /\ [PairingNext]_pairingVars => Inv'
  <2> SUFFICES ASSUME Inv, [PairingNext]_pairingVars PROVE WrittenInv'
    BY StepImplements
  <2>1. CASE UNCHANGED <<store, overwritten>>
             /\ \A x \in Runs : Writing(x)' => Writing(x) /\ run'[x].phone = run[x].phone
    BY <2>1 DEF WrittenInv, Staged
  <2>2. ASSUME NEW r \in Runs, Cancel(r) \/ PhoneReplies(r) PROVE WrittenInv'
    BY <2>1, <2>2 DEF Cancel, PhoneReplies, Writing, PairingInv, RunTypeOK
  <2>3. CASE PairingCrash
    BY <2>1, <2>3 DEF PairingCrash, Writing, Active, PairingInv, RunTypeOK
  <2>4. CASE UNCHANGED <<store, overwritten, run>>
    BY <2>1, <2>4 DEF Writing
  <2>5. CASE ClearNotices
    <3>1. store'.rows = store.rows /\ store'.entries = store.entries
      BY <2>5 DEF ClearNotices, PairingInv, Good, Files
    <3> QED BY <2>5, <3>1 DEF ClearNotices, WrittenInv, Writing, Staged
  <2> QED BY <2>2, <2>3, <2>4, <2>5, OperationsKeepWritten, AbortKeepsWritten, RunKeepsWritten
          DEF PairingNext, RunStep, Notify, Probe, PhoneRemoves, SyncStart, SyncEnd, pairingVars
<1>3. Inv /\ [PairingNext]_pairingVars => [Shown]_pairingVars
  <2> SUFFICES ASSUME Inv, PairingNext, NEW r \in Runs, run[r].pc # "ok", run'[r].pc = "ok"
               PROVE  Finish(r)
    BY FinishShows
  <2>1. ASSUME NEW x \in Runs, RunStep(x), ~Finish(x) PROVE FALSE
    BY <2>1 DEF RunStep, Prepare, Fails, WriteCandidate, Decide, Abort, Cancel, PhoneReplies,
       PairingInv, RunTypeOK
  <2>2. ASSUME NEW x \in Runs, Finish(x) PROVE x = r
    BY <2>2 DEF Finish, Fails, PairingInv, RunTypeOK
  <2>3. ASSUME PairingCrash \/ \E p \in Phones : Unpair(p) PROVE FALSE
    BY <2>3 DEF PairingCrash, Unpair, PairingInv, RunTypeOK
  <2>4. run' # run
    OBVIOUS
  <2> QED BY <2>1, <2>2, <2>3, <2>4, Zenon DEF PairingNext, UpdateUserFields, Notify, Probe,
          RemoveUnpairedByPeer, PhoneRemoves, SyncStart, ClearNotices, SyncEnd
<1> QED BY <1>1, <1>2, <1>3, PTL DEF PairingSpec, FinishedIsVisible
-----------------------------------------------------------------------------
(* A binding of a run shows only after the phone finished it.              *)
Earned(rows) ==
    \A p \in Phones : rows[p] # NoRow =>
        \/ rows[p].bind = OldBinding
        \/ rows[p].bind \in Runs /\ replied[rows[p].bind] = "finished"

Pass == [rows : [Phones -> MaybeRow], notices : [Phones -> Nat],
         done : SUBSET Phones, unpaired : SUBSET Phones,
         pc : {"deliver", "probe", "remove"}]

(* A phone the sync pass found unpaired holds another binding than the row *)
(* it was dialled for, as that binding will not be finished a second time. *)
SyncInv ==
    sync # NoSync =>
        /\ sync \in Pass
        /\ Earned(sync.rows)
        /\ \A p \in sync.unpaired : sync.rows[p] # NoRow /\ held[p] # sync.rows[p].bind

HeldTypeOK == held \in [Phones -> PhoneBindings \union {NoRow}]

PeerInv == PairingInv /\ HeldTypeOK /\ Earned(Visible(store)) /\ SyncInv

(* A phone holds a binding of this desktop or none.                        *)
LEMMA HeldStays ==
    ASSUME PairingInv, HeldTypeOK, [PairingNext]_pairingVars PROVE HeldTypeOK'
<1>1. ASSUME NEW r \in Runs, PhoneReplies(r) PROVE HeldTypeOK'
  BY <1>1, Zenon DEF PhoneReplies, HeldTypeOK, PhoneBindings
<1>2. ASSUME NEW p \in Phones, Notify(p) \/ PhoneRemoves(p) PROVE HeldTypeOK'
  BY <1>2 DEF Notify, PhoneRemoves, HeldTypeOK
<1>3. CASE UNCHANGED held
  BY <1>3 DEF HeldTypeOK
<1> QED BY <1>1, <1>2, <1>3, Zenon DEF PairingNext, RunStep, Prepare, WriteCandidate, Decide, Finish,
        Abort, Cancel, UpdateUserFields, Unpair, Probe, RemoveUnpairedByPeer, SyncStart,
        ClearNotices, SyncEnd, PairingCrash, pairingVars

(* A phone does not take a finish back.                                    *)
LEMMA FinishedStays ==
    ASSUME PairingInv, [PairingNext]_pairingVars, NEW r \in Runs, replied[r] = "finished"
    PROVE  replied'[r] = "finished"
<1>1. ASSUME NEW x \in Runs, PhoneReplies(x) PROVE replied'[r] = "finished"
  BY <1>1 DEF PhoneReplies, PairingInv, RunTypeOK, RunInv
<1> QED BY <1>1, Zenon DEF PairingNext, RunStep, Prepare, WriteCandidate, Decide, Finish, Abort,
        Cancel, UpdateUserFields, Unpair, Notify, Probe, RemoveUnpairedByPeer, PhoneRemoves,
        SyncStart, ClearNotices, SyncEnd, PairingCrash, pairingVars

(* What readers see is earned: a step of the trust store adds no binding   *)
(* but a finished one.                                                     *)
LEMMA EarnedStays ==
    ASSUME PairingInv, [PairingNext]_pairingVars, Earned(Visible(store))
    PROVE  Earned(Visible(store))'
<1> DEFINE old == Visible(store)
           new == Visible(store)'
           Fine(row) == row = NoRow \/ row.bind = OldBinding
                        \/ (row.bind \in Runs /\ replied'[row.bind] = "finished")
<1>1. PairingInv' /\ TrustStep
  BY StepImplements
<1>2. old \in [Phones -> MaybeRow] /\ \A p \in Phones : Fine(old[p])
  BY FinishedStays, VisibleType DEF PairingInv, Earned
<1> SUFFICES \A p \in Phones : Fine(new[p])
  BY DEF Earned
<1> HIDE DEF old, new
<1>3. CASE new = old
  BY <1>2, <1>3
<1>4. ASSUME NEW p \in Phones, NEW b \in PhoneBindings, Trust!Complete(p, b)
      PROVE  \A q \in Phones : Fine(new[q])
  <2>1. b \in Runs /\ replied'[b] = "finished"
    BY <1>4, FinishedStays DEF Trust!Complete, PhoneFinished
  <2>2. PICK n : new = [old EXCEPT ![p] = [bind |-> b, name |-> n]]
    BY <1>4, Zenon DEF Trust!Complete, old, new
  <2> QED BY <1>2, <2>1, <2>2
<1>5. ASSUME NEW p \in Phones, NEW n \in Names, Trust!Edit(p, n)
      PROVE  \A q \in Phones : Fine(new[q])
  <2>1. old[p] # NoRow /\ new = [old EXCEPT ![p] = [bind |-> old[p].bind, name |-> n]]
    BY <1>5 DEF Trust!Edit, old, new
  <2> QED BY <1>2, <2>1
<1>6. ASSUME NEW p \in Phones, Trust!Remove(p)
      PROVE  \A q \in Phones : Fine(new[q])
  <2>1. new = [old EXCEPT ![p] = NoRow]
    BY <1>6 DEF Trust!Remove, old, new
  <2> QED BY <1>2, <2>1
<1> QED BY <1>1, <1>3, <1>4, <1>5, <1>6 DEF TrustStep, TrustVars, Trust!Next,
        Trust!PhoneFinishes, old, new

(* The sync pass, and what phones do under it.                             *)
LEMMA SyncStays ==
    ASSUME PeerInv, [PairingNext]_pairingVars PROVE SyncInv'
<1>1. ASSUME sync' \in Pass, sync'.rows = sync.rows, sync # NoSync PROVE Earned(sync.rows)'
  BY <1>1, FinishedStays DEF PeerInv, SyncInv, Earned
<1>2. CASE UNCHANGED <<sync, held>>
  BY <1>1, <1>2 DEF PeerInv, SyncInv
<1>3. ASSUME NEW r \in Runs, PhoneReplies(r) PROVE SyncInv'
  <2>1. CASE run[r].pc # "finish"
    BY <1>2, <1>3, <2>1 DEF PhoneReplies
  <2>2. CASE run[r].pc = "finish"
    <3>1. /\ replied' = [replied EXCEPT ![r] = "finished"] /\ replied' # replied
          /\ held' = [held EXCEPT ![run[r].phone] = r] /\ UNCHANGED sync
      BY <1>3, <2>2 DEF PhoneReplies
    <3>2. replied[r] # "finished"
      BY <3>1 DEF PeerInv, PairingInv, RunTypeOK
    <3>3. ASSUME NEW p \in sync.unpaired, sync # NoSync PROVE held'[p] # sync.rows[p].bind
      <4>1. p \in Phones /\ sync.rows[p] # NoRow /\ held[p] # sync.rows[p].bind
        BY <3>3 DEF PeerInv, SyncInv, Pass
      <4>2. sync.rows[p].bind # r
        BY <3>2, <3>3, <4>1, PairingAssumption DEF PeerInv, SyncInv, Earned
      <4> QED BY <3>1, <4>1, <4>2 DEF PeerInv, HeldTypeOK
    <3> QED BY <1>1, <3>1, <3>3 DEF PeerInv, SyncInv
  <2> QED BY <2>1, <2>2
<1>4. ASSUME NEW p \in Phones, Notify(p) \/ PhoneRemoves(p) \/ Probe(p) PROVE SyncInv'
  <2>1. CASE sync = NoSync
    BY <1>4, <2>1 DEF Notify, PhoneRemoves, Probe, SyncInv
  <2>2. CASE sync # NoSync
    <3>1. /\ sync \in Pass /\ sync' \in Pass /\ sync'.rows = sync.rows
          /\ sync'.unpaired = sync.unpaired
             \/ (sync'.unpaired = sync.unpaired \union {p} /\ sync.rows[p] # NoRow
                 /\ held[p] = NoRow)
      BY <1>4, <2>2 DEF Notify, PhoneRemoves, Probe, PeerInv, SyncInv, Pass
    <3>2. held' = held \/ held' = [held EXCEPT ![p] = NoRow]
      BY <1>4 DEF Notify, PhoneRemoves, Probe
    <3>3. \A q \in Phones : sync.rows[q] # NoRow => NoRow # sync.rows[q].bind
      BY <3>1, PairingAssumption DEF Pass, MaybeRow, PairedPhone, PhoneBindings
    <3>4. \A q \in sync'.unpaired : sync.rows[q] # NoRow /\ held'[q] # sync.rows[q].bind
      BY <2>2, <3>1, <3>2, <3>3 DEF PeerInv, HeldTypeOK, SyncInv, Pass
    <3> QED BY <1>1, <2>2, <3>1, <3>4 DEF SyncInv
  <2> QED BY <2>1, <2>2
<1>5. CASE SyncStart
  <2>1. sync' = [rows |-> Visible(store), notices |-> store.notices,
                 done |-> {}, unpaired |-> {}, pc |-> "deliver"] /\ UNCHANGED replied
    BY <1>5 DEF SyncStart
  <2>2. Visible(store) \in [Phones -> MaybeRow] /\ store.notices \in [Phones -> Nat]
    BY VisibleType DEF PeerInv, PairingInv, Good, Files
  <2>3. sync' \in Pass /\ sync'.unpaired = {} /\ sync'.rows = Visible(store)
    BY <2>1, <2>2 DEF Pass
  <2>4. Earned(sync.rows)'
    BY <2>1, <2>3 DEF PeerInv, Earned
  <2> QED BY <2>3, <2>4 DEF SyncInv
<1>6. ASSUME ClearNotices \/ \E p \in Phones : RemoveUnpairedByPeer(p) PROVE SyncInv'
  <2>1. /\ sync # NoSync /\ UNCHANGED held /\ sync' \in Pass
        /\ sync'.rows = sync.rows /\ sync'.unpaired \subseteq sync.unpaired
    <3>1. sync # NoSync /\ UNCHANGED held
      BY <1>6, Zenon DEF ClearNotices, RemoveUnpairedByPeer
    <3>2. sync \in Pass
      BY <3>1, Zenon DEF PeerInv, SyncInv
    <3>3. CASE ClearNotices
      BY <3>1, <3>2, <3>3 DEF ClearNotices, Pass
    <3>4. ASSUME NEW p \in Phones, RemoveUnpairedByPeer(p)
          PROVE  sync' \in Pass /\ sync'.rows = sync.rows /\ sync'.unpaired \subseteq sync.unpaired
      BY <3>2, <3>4, Zenon DEF RemoveUnpairedByPeer, Pass
    <3> QED BY <1>6, <3>1, <3>3, <3>4, Zenon
  <2> QED BY <1>1, <2>1 DEF PeerInv, SyncInv
<1>7. CASE SyncEnd \/ PairingCrash
  BY <1>7 DEF SyncEnd, PairingCrash, SyncInv
<1> QED BY <1>2, <1>3, <1>4, <1>5, <1>6, <1>7, Zenon DEF PairingNext, RunStep, Prepare,
        WriteCandidate, Decide, Finish, Abort, Cancel, UpdateUserFields, Unpair, pairingVars

(* The phone's late word removes no row with the binding the phone holds.  *)
THEOREM PeerWordIsNotStale == PairingSpec => PeerRemovesOnlyDropped
<1> DEFINE Kind == \A p \in Phones :
             /\ sync # NoSync /\ sync' # NoSync
             /\ p \in sync.unpaired \ sync'.unpaired
             /\ Visible(store')[p] # Visible(store)[p]
             => held[p] # Visible(store)[p].bind
<1>1. PairingInit => PeerInv
  <2> SUFFICES ASSUME PairingInit PROVE PeerInv
    OBVIOUS
  <2>1. Earned(Visible(store))
    <3>1. ASSUME NEW p \in Phones
          PROVE  Visible(store)[p] \in {NoRow, [bind |-> OldBinding, name |-> DefaultName]}
      BY <3>1 DEF PairingInit, Visible, Staged
    <3> QED BY <3>1 DEF Earned
  <2>2. HeldTypeOK
    BY DEF PairingInit, HeldTypeOK, PhoneBindings
  <2>3. SyncInv
    BY Zenon DEF PairingInit, SyncInv
  <2> QED BY <2>1, <2>2, <2>3, InitImplements, Zenon DEF PeerInv
<1>2. PeerInv /\ [PairingNext]_pairingVars => PeerInv'
  BY StepImplements, HeldStays, EarnedStays, SyncStays DEF PeerInv
<1>3. PeerInv /\ [PairingNext]_pairingVars => [Kind]_pairingVars
  <2> SUFFICES ASSUME PeerInv, PairingNext, NEW p \in Phones, sync # NoSync, sync' # NoSync,
                      p \in sync.unpaired, p \notin sync'.unpaired,
                      Visible(store')[p] # Visible(store)[p]
               PROVE  held[p] # Visible(store)[p].bind
    OBVIOUS
  <2>1. sync \in Pass
    BY DEF PeerInv, SyncInv
  <2>2. RemoveUnpairedByPeer(p)
    <3>1. ASSUME NEW q \in Phones, Notify(q) \/ Probe(q) PROVE FALSE
      BY <2>1, <3>1 DEF Notify, Probe, Pass
    <3>2. ASSUME NEW q \in Phones, RemoveUnpairedByPeer(q) PROVE q = p
      BY <2>1, <3>2 DEF RemoveUnpairedByPeer, Pass
    <3>3. ~ClearNotices
      BY <2>1 DEF ClearNotices, Pass
    <3> QED BY <3>1, <3>2, <3>3, Zenon DEF PairingNext, RunStep, Prepare, WriteCandidate, Decide,
            Finish, Abort, Cancel, PhoneReplies, UpdateUserFields, Unpair, PhoneRemoves,
            SyncStart, SyncEnd, PairingCrash
  <2>3. Dialled(p)
    BY <2>2 DEF RemoveUnpairedByPeer
  <2> QED BY <2>3 DEF Dialled, PeerInv, SyncInv
<1> QED BY <1>1, <1>2, <1>3, PTL DEF PairingSpec, PeerRemovesOnlyDropped
=============================================================================

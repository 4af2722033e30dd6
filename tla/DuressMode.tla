----------------------------- MODULE DuressMode -----------------------------
(***************************************************************************)
(* Duress mode on one desktop: the local activation (journal marker, then  *)
(* the wipe of every Cube, then the persisted lock), the launch-time       *)
(* reconcile, the locked screen's check with the server, the remote lock   *)
(* that does not wipe, failing file operations and crashes at any step.    *)
(*                                                                         *)
(* The server's state is external: another device sets and clears it, and  *)
(* the posted activation sets it.                                          *)
(***************************************************************************)
EXTENDS Naturals

CONSTANTS Targets,      \* the Cube material under the data directory
          MaxTriggers   \* bound: local activations

ASSUME DuressAssumption == MaxTriggers \in Nat

VARIABLES
    screen,    \* what the program shows; "off" when it does not run
    step,      \* where a local activation is
    plan,      \* the targets its wiper was built with
    cubes,     \* the Cube material on disk
    marker,    \* the wipe journal's marker on disk
    active,    \* the lock in duress-state.json
    server,    \* the account is in duress server-side
    check,     \* the answer to the locked screen's question, once it is in
    triggers,
    due,       \* history: the Cubes the last local activation found
    excused,   \* history: its marker or its list of targets could not be had
    misread    \* history: the normal flow opened over a marker on disk that
               \* was read as absent, and that is still there

duressVars == <<screen, step, plan, cubes, marker, active, server, check,
                triggers, due, excused, misread>>

DuressTypeOK ==
    /\ screen \in {"off", "home", "activating", "locked"}
    /\ step \in {"none", "journal", "wipe", "persist"}
    /\ plan \subseteq Targets /\ cubes \subseteq Targets
    /\ marker \in BOOLEAN /\ active \in BOOLEAN /\ server \in BOOLEAN
    /\ check \in {"none", "asked", "active", "clear"}
    /\ triggers \in 0..MaxTriggers
    /\ due \subseteq Targets
    /\ excused \in BOOLEAN /\ misread \in BOOLEAN

(* A device that has Cubes and was never in duress: no state file, which   *)
(* load reads as the default state, and no journal.                        *)
DuressInit ==
    /\ screen = "off" /\ step = "none"
    /\ plan = {} /\ cubes = Targets
    /\ marker = FALSE /\ active = FALSE /\ server = FALSE
    /\ check = "none"
    /\ triggers = 0
    /\ due = {} /\ excused = FALSE /\ misread = FALSE
-----------------------------------------------------------------------------
(* The duress PIN at a Cube's unlock. The wiper is built first, from the   *)
(* targets listed now; if the listing fails throughout, from none.         *)
DuressDetected ==
    /\ screen = "home" /\ cubes # {}
    /\ triggers < MaxTriggers
    /\ triggers' = triggers + 1
    /\ screen' = "activating" /\ step' = "journal"
    /\ plan' \in {cubes, {}}
    /\ UNCHANGED <<cubes, marker, active, server, check, due, excused, misread>>

(* The marker is written, or every attempt fails: the wipe runs anyway.    *)
MarkPending ==
    /\ step = "journal"
    /\ marker' \in {marker, TRUE}
    /\ due' = cubes
    /\ excused' = (~marker' \/ plan # cubes)
    /\ misread' = FALSE
    /\ step' = "wipe"
    /\ UNCHANGED <<screen, plan, cubes, active, server, check, triggers>>

Obliterate ==
    /\ step = "wipe"
    /\ \E t \in plan \intersect cubes : cubes' = cubes \ {t}
    /\ UNCHANGED <<screen, step, plan, marker, active, server, check, triggers,
                   due, excused, misread>>

(* Mutant: the marker goes whether or not the wipe got through.            *)
WipeEndsAnyway ==
    /\ step = "wipe"
    /\ marker' = FALSE
    /\ step' = "persist"
    /\ UNCHANGED <<screen, plan, cubes, active, server, check, triggers, due,
                   excused, misread>>

(* The last target is gone and the marker with it, or every attempt at the *)
(* wipe fails somewhere and the marker stays.                              *)
WipeEnds ==
    /\ step = "wipe"
    /\ \/ plan \intersect cubes = {} /\ marker' = FALSE
       \/ UNCHANGED marker
    /\ step' = "persist"
    /\ UNCHANGED <<screen, plan, cubes, active, server, check, triggers, due,
                   excused, misread>>

(* The lock is persisted, or its save fails; the screen locks either way.  *)
PersistActive ==
    /\ step = "persist"
    /\ active' \in {active, TRUE}
    /\ step' = "none" /\ screen' = "locked"
    /\ plan' = {}
    /\ UNCHANGED <<cubes, marker, server, check, triggers, due, excused, misread>>
-----------------------------------------------------------------------------
(* is_pending: path.exists() is false for a file that is not there, and    *)
(* for one whose metadata cannot be read.                                  *)
IsPending(onDisk) == {onDisk, FALSE}

(* complete_pending_wipe: a pending wipe lists the targets again. It may   *)
(* stop anywhere and keep the marker, or not begin because one of its own  *)
(* two looks at the marker fails. If the listing fails, it has nothing to  *)
(* do and clears the marker.                                               *)
CompletePendingWipe ==
    \/ ~marker /\ UNCHANGED <<cubes, marker, excused>>
    \/ /\ marker
       /\ \/ cubes' \in SUBSET cubes /\ UNCHANGED <<marker, excused>>
          \/ cubes' = {} /\ marker' = FALSE /\ UNCHANGED excused
          \/ /\ marker' = FALSE
             /\ excused' = (excused \/ cubes # {})
             /\ UNCHANGED cubes

LaunchLocked ==
    /\ CompletePendingWipe
    /\ screen' = "locked"
    /\ misread' = (misread /\ marker')

(* Mutant: the launch looks at the lock only.                              *)
LaunchByLock ==
    /\ screen = "off"
    /\ \E lock \in {active, TRUE} :
          IF lock
          THEN LaunchLocked
          ELSE screen' = "home" /\ UNCHANGED <<cubes, marker, excused, misread>>
    /\ UNCHANGED <<step, plan, active, server, check, triggers, due>>

(* State::new: a lock on disk, an unreadable one or a pending wipe keep    *)
(* the device locked.                                                      *)
Launch ==
    /\ screen = "off"
    /\ \E lock \in {active, TRUE}, pending \in IsPending(marker) :
          IF lock \/ pending
          THEN LaunchLocked
          ELSE /\ screen' = "home"
               /\ misread' = marker
               /\ UNCHANGED <<cubes, marker, excused>>
    /\ UNCHANGED <<step, plan, active, server, check, triggers, due>>

(* The locked screen asks the server; the answer comes back later, or not. *)
SignInPressed ==
    /\ screen = "locked" /\ check = "none"
    /\ check' = "asked"
    /\ UNCHANGED <<screen, step, plan, cubes, marker, active, server, triggers,
                   due, excused, misread>>

ServerAnswers ==
    /\ check = "asked"
    /\ check' \in {IF server THEN "active" ELSE "clear", "active"}
    /\ UNCHANGED <<screen, step, plan, cubes, marker, active, server, triggers,
                   due, excused, misread>>

(* StateChecked: on a clear answer a pending wipe is completed first, and  *)
(* the device stays locked if it is still pending; then the lock is        *)
(* cleared, if it can be saved, and the normal flow opens.                 *)
StateChecked ==
    /\ check \in {"active", "clear"}
    /\ check' = "none"
    /\ IF screen = "locked" /\ check = "clear"
       THEN \E pending \in IsPending(marker) :
              /\ IF pending
                 THEN CompletePendingWipe
                 ELSE UNCHANGED <<cubes, marker, excused>>
              /\ \E still \in IsPending(marker') :
                    IF pending /\ still
                    THEN UNCHANGED <<screen, active, misread>>
                    ELSE /\ active' \in {active, FALSE}
                         /\ screen' = "home"
                         /\ misread' = marker'
       ELSE UNCHANGED <<screen, cubes, marker, active, excused, misread>>
    /\ UNCHANGED <<step, plan, server, triggers, due>>

(* A remote activation or clearing reaches the running program: the first  *)
(* locks without a wipe, the second only updates the file.                 *)
RemoteActivated ==
    /\ screen = "home" /\ server
    /\ active' \in {active, TRUE}
    /\ screen' = "locked"
    /\ UNCHANGED <<step, plan, cubes, marker, server, check, triggers, due, excused,
                   misread>>

RemoteCleared ==
    /\ screen = "home" /\ ~server
    /\ active' \in {active, FALSE}
    /\ UNCHANGED <<screen, step, plan, cubes, marker, server, check, triggers,
                   due, excused, misread>>

(* Other devices, and the activation queued by this one.                   *)
ServerChanges ==
    /\ server' = ~server
    /\ UNCHANGED <<screen, step, plan, cubes, marker, active, check, triggers,
                   due, excused, misread>>

(* The user sets a Cube up.                                                *)
NewCube ==
    /\ screen = "home"
    /\ \E t \in Targets \ cubes :
          /\ cubes' = cubes \union {t}
          /\ due' = due \ {t}
    /\ UNCHANGED <<screen, step, plan, marker, active, server, check, triggers,
                   excused, misread>>

DuressCrash ==
    /\ screen # "off"
    /\ screen' = "off" /\ step' = "none" /\ plan' = {} /\ check' = "none"
    /\ UNCHANGED <<cubes, marker, active, server, triggers, due, excused, misread>>

DuressNext ==
    \/ DuressDetected \/ MarkPending \/ Obliterate \/ WipeEnds \/ PersistActive
    \/ Launch \/ SignInPressed \/ ServerAnswers \/ StateChecked
    \/ RemoteActivated \/ RemoteCleared \/ ServerChanges \/ NewCube \/ DuressCrash

DuressSpec == DuressInit /\ [][DuressNext]_duressVars
-----------------------------------------------------------------------------
(* "A server clear must NEVER drop us into the normal app with un-wiped    *)
(* Cube data", says StateChecked of itself and of State::new. Wherever the *)
(* wipe failed or the program died, the normal flow opens on no Cube that  *)
(* the last local activation was to wipe, with three exceptions the code   *)
(* does have: no marker could be written; the targets could not be listed, *)
(* and the marker was cleared for them; or, as long as the marker is still *)
(* on disk, it was read as absent when the normal flow opened.             *)
NoCubeAfterActivation ==
    screen = "home" /\ ~excused /\ ~misread => cubes \intersect due = {}

(* Only a local activation wipes, and only the Cubes it found: neither a   *)
(* remote lock nor the marker of an activation touches a Cube set up       *)
(* afterwards, unless it was set up over a marker read as absent, which    *)
(* the next launch that reads it takes up.                                 *)
WipesOnlyWhatIsDue == [][misread \/ cubes \ cubes' \subseteq due]_duressVars
=============================================================================

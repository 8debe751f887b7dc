---------------------------- MODULE TunnelPromise ----------------------------
(***************************************************************************)
(* What a run of the desktop client promises to the host it runs on,       *)
(* independently of the operating system, of the commands it runs and of   *)
(* the embedded engine: it changes a fixed set of network settings while   *)
(* it starts, it is up only when all of them are in force, it changes none *)
(* while it is up, and it is done only when every setting it changed is    *)
(* restored or is excused.                                                 *)
(***************************************************************************)
EXTENDS FiniteSets

CONSTANT Settings   \* the settings a full tunnel needs

VARIABLES
    phase,          \* how far the run is
    changed,        \* the settings of the host that differ from before
    excused         \* those the run was not able to restore

pvars == <<phase, changed, excused>>

PInit ==
    /\ phase = "starting"
    /\ changed = {}
    /\ excused = {}

(* One more setting is changed; only a run that is starting does that. *)
Change ==
    /\ phase = "starting"
    /\ \E s \in Settings \ changed : changed' = changed \cup {s}
    /\ UNCHANGED <<phase, excused>>

(* The tunnel is reported up: every setting is in force. *)
GoUp ==
    /\ phase = "starting"
    /\ changed = Settings
    /\ phase' = "up"
    /\ UNCHANGED <<changed, excused>>

(* A start is given up. The setting being changed at that moment may be    *)
(* in force without the run knowing it.                                    *)
GiveUp ==
    /\ phase = "starting"
    /\ phase' = "closing"
    /\ \/ excused' = excused
       \/ \E s \in changed : excused' = excused \cup {s}
    /\ UNCHANGED changed

Disconnect ==
    /\ phase = "up"
    /\ phase' = "closing"
    /\ UNCHANGED <<changed, excused>>

(* One setting the run still owes is restored (others may go with it) or   *)
(* could not be.                                                           *)
Restore ==
    /\ phase = "closing"
    /\ \E s \in changed \ excused :
          \/ s \notin changed' /\ excused' = excused
          \/ excused' = excused \cup {s}
    /\ changed' \subseteq changed
    /\ UNCHANGED phase

Finish ==
    /\ phase \in {"starting", "closing"}
    /\ changed \subseteq excused
    /\ phase' = "done"
    /\ changed' \subseteq changed
    /\ UNCHANGED excused

PNext == Change \/ GoUp \/ GiveUp \/ Disconnect \/ Restore \/ Finish

PSpec == PInit /\ [][PNext]_pvars

=============================================================================

----------------------------- MODULE AndroidTunnel -----------------------------
(***************************************************************************)
(* The Android application: MainActivity and the callbacks of               *)
(* TunnelVpnService on the main thread, the single-thread executor of each  *)
(* instance of the service, and the Go engine of package mobile, which is   *)
(* one for the whole process and outlives the instances.                   *)
(*                                                                         *)
(* External, modelled from how the code uses it: the activity manager       *)
(* (Send, BringDown, StopSelf: an instance lives while it is started or     *)
(* bound, and is destroyed by a message to the main thread) and the system  *)
(* VPN (bound: it binds the service as long as the interface exists).      *)
(***************************************************************************)
EXTENDS MobilePromise, Sequences

CONSTANTS
    MaxIntents,     \* bound: intents sent to the service
    MaxInstances,   \* bound: instances of the service the system creates
    HastyIntents,   \* bound: intents of a user who does not wait, and of a
    HastyInstances, \* system that does not; and the instances created for them
    DeepLinks,      \* TRUE: configuration links are opened
    Revocations     \* TRUE: the user gives the VPN to another application

ASSUME BoundsAssumption ==
    /\ {MaxIntents, MaxInstances, HastyIntents, HastyInstances} \subseteq Nat \ {0}
    /\ HastyIntents <= MaxIntents /\ HastyInstances <= MaxInstances
    /\ {DeepLinks, Revocations} \subseteq BOOLEAN

Intents == 1..MaxIntents
Instances == 1..MaxInstances
nil == 0      \* ... and no engine, in MobilePromise

VARIABLES
    orderly,    \* the user, and the system, act only at rest. Never changes
    shown,      \* the lamp: "red" enables Connect, "amber" and "green" Disconnect
    imported,   \* importedConfiguration
    mail,       \* status broadcasts on their way to the activity
    sent,       \* how many intents were sent; an intent is its number
    prepared,   \* the user granted the VPN permission
    service,    \* the instance the activity manager has a record of
    created,    \* how many instances it created
    started,    \* ... and whether that instance is started
    bound,      \* the descriptor of the VPN interface the system keeps up
    inbox,      \* messages of the main thread for instances of the service
    destroying, \* the instance whose onDestroy the main thread is in
    tasks,      \* tasks[i]: tasks queued on the executor of instance i
    task,       \* task[i]: the task it executes
    at,         \* at[i]: where it is in that task
    shut,       \* shut[i]: the executor was shut down
    running     \* running[i]: the AtomicBoolean

ui == <<shown, imported>>
system == <<sent, prepared, service, created, started, bound, inbox>>
executor == <<tasks, task, at, shut>>
go == <<engine, open>>
vars == <<orderly, ui, mail, system, destroying, executor, running, go>>

Kinds == {"START", "STOP", "QUERY", "REVOKED"}
StartStages == {"restart", "check", "establish", "start", "up", "statistics",
                "announce", "catch"}

TypeOK ==
    /\ shown \in {"red", "amber", "green"}
    /\ {imported, prepared, started} \subseteq BOOLEAN
    /\ mail \in Seq({"Connected", "Disconnected", "Error"})
    /\ sent \in 0..MaxIntents
    /\ created \in 0..MaxInstances
    /\ service \in {nil, created}
    /\ bound \in Intents \cup {nil}
    /\ inbox \in Seq([kind : Kinds \cup {"DESTROY"}, to : Instances, id : Intents \cup {nil}])
    /\ destroying \in [instance : Instances \cup {nil}, stage : {"none", "stop", "shutdown"}]
    /\ tasks \in [Instances -> Seq([kind : Kinds, id : Intents \cup {nil}])]
    /\ at \in [Instances -> {"idle", "stop", "query", "stopSelf"} \cup StartStages]
    /\ {shut, running} \subseteq [Instances -> BOOLEAN]
    /\ engine \in open \cup {nil}
    /\ open \subseteq Intents

NoTask == [kind |-> "QUERY", id |-> nil]
NotDestroying == [instance |-> nil, stage |-> "none"]

Init ==
    /\ orderly \in BOOLEAN
    /\ shown = "red" /\ imported = FALSE /\ mail = <<>>
    /\ sent = 0 /\ prepared = FALSE
    /\ service = nil /\ created = 0 /\ started = FALSE /\ bound = nil
    /\ inbox = <<>> /\ destroying = NotDestroying
    /\ tasks = [i \in Instances |-> <<>>]
    /\ task = [i \in Instances |-> NoTask]
    /\ at = [i \in Instances |-> "idle"]
    /\ shut = [i \in Instances |-> FALSE]
    /\ running = [i \in Instances |-> FALSE]
    /\ engine = nil /\ open = {}

-----------------------------------------------------------------------------
(* The activity manager. *)

Creatable == IF orderly THEN MaxInstances ELSE HastyInstances

(* startService, startForegroundService: an instance is created if none is  *)
(* there; the intent is delivered on its main thread.                      *)
Send(kind) ==
    LET to == IF service = nil THEN created + 1 ELSE service
    IN  /\ sent < (IF orderly THEN MaxIntents ELSE HastyIntents)
        /\ to <= Creatable
        /\ sent' = sent + 1
        /\ service' = to
        /\ created' = IF service = nil THEN to ELSE created
        /\ started' = TRUE
        /\ inbox' = Append(inbox, [kind |-> kind, to |-> to, id |-> sent + 1])
        /\ UNCHANGED bound

(* An instance that is neither started nor bound is destroyed. *)
BringDown(isStarted, isBound) ==
    /\ started' = isStarted
    /\ bound' = isBound
    /\ IF ~isStarted /\ isBound = nil /\ service # nil
       THEN /\ service' = nil
            /\ inbox' = Append(inbox, [kind |-> "DESTROY", to |-> service, id |-> nil])
       ELSE UNCHANGED <<service, inbox>>
    /\ UNCHANGED <<sent, created>>

(* stopSelf of an instance that is already gone does nothing. *)
StopSelf(i) ==
    IF i = service
    THEN BringDown(FALSE, bound)
    ELSE UNCHANGED <<sent, service, created, started, bound, inbox>>

(* stopSelfResult: not if a later intent was sent. *)
StopSelfResult(i, id) ==
    IF id = sent
    THEN StopSelf(i)
    ELSE UNCHANGED <<sent, service, created, started, bound, inbox>>

(* The interface disappears with its descriptor. *)
Unbind ==
    /\ bound \notin open \cup {nil}
    /\ BringDown(started, nil)
    /\ UNCHANGED <<ui, mail, prepared, destroying, executor, running, go>>

-----------------------------------------------------------------------------
(* The executor of instance i: one task after the other. It goes on with    *)
(* the task it is in when it is shut down.                                 *)

Goto(i, from, to) ==
    /\ at[i] = from
    /\ at' = [at EXCEPT ![i] = to]
    /\ UNCHANGED <<tasks, task, shut>>

Broadcast(status) == mail' = Append(mail, status)

TakeTask(i) ==
    /\ at[i] = "idle" /\ tasks[i] # <<>>
    /\ tasks' = [tasks EXCEPT ![i] = Tail(@)]
    /\ task' = [task EXCEPT ![i] = Head(tasks[i])]
    /\ at' = [at EXCEPT ![i] =
                CASE Head(tasks[i]).kind = "START" -> "restart"
                  [] Head(tasks[i]).kind = "QUERY" -> "query"
                  [] OTHER -> "stop"]
    /\ UNCHANGED <<ui, mail, system, destroying, shut, running, go>>

(* startTunnel: a tunnel that is up is stopped first. *)
Restart(i) ==
    /\ Goto(i, "restart", "check")
    /\ IF running[i] THEN MobileStop ELSE UNCHANGED go
    /\ running' = [running EXCEPT ![i] = FALSE]
    /\ UNCHANGED <<ui, mail, system, destroying>>

(* Mobile.checkProxy: the SOCKS and the DNS handshake. *)
CheckProxy(i) ==
    /\ Goto(i, "check", "establish") \/ Goto(i, "check", "catch")
    /\ UNCHANGED <<ui, mail, system, destroying, running, go>>

(* Builder.establish, detachFd. The system binds to the service as long as  *)
(* the interface is there, and creates an instance if there is none.       *)
Establish(i) ==
    LET d == task[i].id
    IN  \/ /\ prepared
           /\ service = nil => created < Creatable
           /\ Goto(i, "establish", "start")
           /\ Detached(d)
           /\ bound' = d
           /\ IF service = nil
              THEN service' = created + 1 /\ created' = created + 1
              ELSE UNCHANGED <<service, created>>
           /\ UNCHANGED <<ui, mail, sent, prepared, started, inbox, destroying, running>>
        \/ /\ Goto(i, "establish", "catch")
           /\ UNCHANGED <<ui, mail, system, destroying, running, go>>

StartEngine(i) ==
    /\ \/ MobileStarts(task[i].id) /\ Goto(i, "start", "up")
       \/ MobileFails(task[i].id) /\ Goto(i, "start", "catch")
    /\ UNCHANGED <<ui, mail, system, destroying, running>>

(* running.set(true) *)
Up(i) ==
    /\ Goto(i, "up", "statistics")
    /\ running' = [running EXCEPT ![i] = TRUE]
    /\ UNCHANGED <<ui, mail, system, destroying, go>>

(* An executor that was shut down rejects the statistics task. *)
StartStatistics(i) ==
    /\ Goto(i, "statistics", IF shut[i] THEN "catch" ELSE "announce")
    /\ UNCHANGED <<ui, mail, system, destroying, running, go>>

Announce(i) ==
    /\ Goto(i, "announce", "idle")
    /\ Broadcast("Connected")
    /\ UNCHANGED <<ui, system, destroying, running, go>>

(* Mutant: the error is logged and not broadcast. *)
Catch_Silent(i) ==
    /\ Goto(i, "catch", "stopSelf")
    /\ running' = [running EXCEPT ![i] = FALSE]
    /\ UNCHANGED <<ui, mail, system, destroying, go>>

(* catch (error: Throwable) *)
Catch(i) ==
    /\ Goto(i, "catch", "stopSelf")
    /\ running' = [running EXCEPT ![i] = FALSE]
    /\ Broadcast("Error")
    /\ UNCHANGED <<ui, system, destroying, go>>

(* stopTunnel. The message of a revocation is not "Disconnected". *)
StopTunnel(i) ==
    /\ Goto(i, "stop", "stopSelf")
    /\ IF running[i] THEN MobileStop ELSE UNCHANGED go
    /\ running' = [running EXCEPT ![i] = FALSE]
    /\ Broadcast(IF task[i].kind = "STOP" THEN "Disconnected" ELSE "Error")
    /\ UNCHANGED <<ui, system, destroying>>

(* Both end in stopSelf(), whatever was sent in the meantime. *)
StopSelfAtEnd(i) ==
    /\ Goto(i, "stopSelf", "idle")
    /\ StopSelf(i)
    /\ UNCHANGED <<ui, mail, prepared, destroying, running, go>>

Query(i) ==
    /\ Goto(i, "query", "idle")
    /\ IF running[i]
       THEN /\ Broadcast("Connected")
            /\ UNCHANGED <<sent, service, created, started, bound, inbox>>
       ELSE /\ Broadcast("Disconnected")
            /\ StopSelfResult(i, task[i].id)
    /\ UNCHANGED <<ui, prepared, destroying, running, go>>

Execute(i) ==
    \/ TakeTask(i)
    \/ Restart(i) \/ CheckProxy(i) \/ Establish(i) \/ StartEngine(i)
    \/ Up(i) \/ StartStatistics(i) \/ Announce(i) \/ Catch(i)
    \/ StopTunnel(i) \/ StopSelfAtEnd(i) \/ Query(i)

-----------------------------------------------------------------------------
(* The main thread: callbacks of the service. *)

MainFree == destroying = NotDestroying

(* onStartCommand; a shut executor drops the task. *)
OnStartCommand ==
    /\ MainFree /\ inbox # <<>> /\ Head(inbox).kind # "DESTROY"
    /\ LET m == Head(inbox)
       IN  tasks' = [tasks EXCEPT ![m.to] = Append(@, [kind |-> m.kind, id |-> m.id])]
    /\ inbox' = Tail(inbox)
    /\ UNCHANGED <<ui, mail, sent, prepared, service, created, started, bound, destroying,
                   task, at, shut, running, go>>

(* onDestroy, in three steps: running is read; if it was set the engine is  *)
(* stopped; the executor is shut down and its queued tasks are dropped.    *)
OnDestroy ==
    /\ MainFree /\ inbox # <<>> /\ Head(inbox).kind = "DESTROY"
    /\ destroying' = [instance |-> Head(inbox).to,
                      stage |-> IF running[Head(inbox).to] THEN "stop" ELSE "shutdown"]
    /\ inbox' = Tail(inbox)
    /\ UNCHANGED <<ui, mail, sent, prepared, service, created, started, bound, executor,
                   running, go>>

(* Mutant: onDestroy leaves the engine to the process. *)
DestroyStops_Forgets ==
    /\ destroying.stage = "stop"
    /\ running' = [running EXCEPT ![destroying.instance] = FALSE]
    /\ destroying' = [destroying EXCEPT !.stage = "shutdown"]
    /\ UNCHANGED <<ui, mail, system, executor, go>>

DestroyStops ==
    /\ destroying.stage = "stop"
    /\ MobileStop
    /\ running' = [running EXCEPT ![destroying.instance] = FALSE]
    /\ destroying' = [destroying EXCEPT !.stage = "shutdown"]
    /\ UNCHANGED <<ui, mail, system, executor>>

DestroyShutsDown ==
    /\ destroying.stage = "shutdown"
    /\ shut' = [shut EXCEPT ![destroying.instance] = TRUE]
    /\ tasks' = [tasks EXCEPT ![destroying.instance] = <<>>]
    /\ destroying' = NotDestroying
    /\ UNCHANGED <<ui, mail, system, task, at, running, go>>

-----------------------------------------------------------------------------
(* The main thread: the activity; and the system. *)

Quiet ==
    /\ mail = <<>> /\ inbox = <<>> /\ MainFree
    /\ bound \in open \cup {nil}
    /\ \A i \in Instances : at[i] = "idle" /\ tasks[i] = <<>>

Input == MainFree /\ (orderly => Quiet)

(* Connect with the permission of the user, asked for or given before. *)
Connect ==
    /\ Input /\ shown = "red"
    /\ shown' = "amber"
    /\ imported' = FALSE
    /\ prepared' = TRUE
    /\ Send("START")
    /\ UNCHANGED <<mail, destroying, executor, running, go>>

Disconnect ==
    /\ Input /\ shown # "red"
    /\ shown' = "amber"
    /\ Send("STOP")
    /\ UNCHANGED <<imported, mail, prepared, destroying, executor, running, go>>

(* The activity is created again (the screen is rotated, the application    *)
(* opened): broadcasts to the old one are lost, the state is asked for.    *)
Recreate ==
    /\ Input
    /\ shown' = "red" /\ imported' = FALSE /\ mail' = <<>>
    /\ Send("QUERY")
    /\ UNCHANGED <<prepared, destroying, executor, running, go>>

(* A configuration link: onNewIntent, or onCreate of a new activity. *)
OpenLink ==
    /\ DeepLinks /\ Input
    /\ shown' = "red" /\ imported' = TRUE
    /\ mail' \in {mail, <<>>}
    /\ Send("QUERY")
    /\ UNCHANGED <<prepared, destroying, executor, running, go>>

(* statusReceiver.onReceive *)
Receive ==
    /\ MainFree /\ mail # <<>>
    /\ mail' = Tail(mail)
    /\ shown' = CASE Head(mail) = "Disconnected" /\ imported -> shown
                  [] Head(mail) = "Connected" -> "green"
                  [] OTHER -> "red"
    /\ UNCHANGED <<imported, system, destroying, executor, running, go>>

(* Another application gets the VPN: onRevoke, on a binder thread, queues   *)
(* stopTunnel and calls stopSelf.                                          *)
Revoke ==
    /\ Revocations /\ (orderly => Quiet)
    /\ bound # nil
    /\ prepared' = FALSE
    /\ tasks' = [tasks EXCEPT ![service] = Append(@, [kind |-> "REVOKED", id |-> nil])]
    /\ BringDown(FALSE, nil)
    /\ UNCHANGED <<ui, mail, destroying, task, at, shut, running, go>>

-----------------------------------------------------------------------------

Main == OnStartCommand \/ OnDestroy \/ DestroyStops \/ DestroyShutsDown \/ Receive

User == Connect \/ Disconnect \/ Recreate \/ OpenLink

(* At rest nothing has to happen. *)
Rest == Quiet /\ UNCHANGED vars

Next ==
    /\ (\E i \in Instances : Execute(i)) \/ Main \/ Unbind \/ User \/ Revoke \/ Rest
    /\ UNCHANGED orderly

(* The threads are scheduled; handshakes and Engine.Start have timeouts. *)
Fairness ==
    /\ \A i \in Instances : WF_vars(Execute(i) /\ UNCHANGED orderly)
    /\ WF_vars(Main /\ UNCHANGED orderly)
    /\ WF_vars(Unbind /\ UNCHANGED orderly)

Spec == Init /\ [][Next]_vars /\ Fairness

-----------------------------------------------------------------------------
(* No descriptor leaks: one that is open belongs to the engine or to a      *)
(* start that has just created it. *)
DescriptorsOwned ==
    open \subseteq {engine} \cup {task[i].id : i \in {j \in Instances : at[j] = "start"}}

(* README.md, "red means disconnected or failed": at rest a red lamp means  *)
(* that the process runs no engine any more.                               *)
RedMeansStopped == Quiet /\ shown = "red" => engine = nil

(* README.md, the same lamp on Android: at rest it is green exactly while   *)
(* an engine serves the VPN, and amber never. Not so once a link was opened *)
(* (importedConfiguration swallows "Disconnected") or the VPN was given     *)
(* away (the answer may be dropped with the executor).                      *)
LampTellsTruth ==
    orderly /\ Quiet /\ ~imported /\ prepared =>
        shown = IF engine = nil THEN "red" ELSE "green"

(* An engine at rest can be stopped, and no instance takes a dead one for   *)
(* its own: the instance the next intent goes to knows what runs.          *)
EngineIsOwned ==
    orderly /\ Quiet => (engine # nil <=> service # nil /\ running[service])

(* Connecting and disconnecting end, unless a link swallows the answer. *)
AmberEnds == orderly /\ shown = "amber" /\ ~imported ~> shown # "amber"

=============================================================================

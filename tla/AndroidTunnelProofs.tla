-------------------------- MODULE AndroidTunnelProofs --------------------------
(* For any number of intents and instances: the state of the Android        *)
(* application is type correct, and no descriptor leaks; and for a user who *)
(* waits, the instance the next intent goes to knows whether an engine      *)
(* runs, and so does the lamp.                                             *)
EXTENDS AndroidTunnel, SequenceTheorems, TLAPS

(* A START has an id, the name of the descriptor it will create. *)
Messages ==
    {m \in [kind : Kinds \cup {"DESTROY"}, to : Instances, id : Intents \cup {nil}] :
        m.kind = "START" => m.id # nil}
Tasks == {t \in [kind : Kinds, id : Intents \cup {nil}] : t.kind = "START" => t.id # nil}

SystemTyped ==
    /\ {prepared, started} \subseteq BOOLEAN
    /\ sent \in 0..MaxIntents
    /\ created \in 0..MaxInstances
    /\ service \in {nil, created}
    /\ bound \in Intents \cup {nil}
    /\ inbox \in Seq(Messages)

Places == {"idle", "stop", "query", "stopSelf"} \cup StartStages

ExecutorTyped ==
    /\ tasks \in [Instances -> Seq(Tasks)]
    /\ task \in [Instances -> Tasks]
    /\ at \in [Instances -> Places]
    /\ shut \in [Instances -> BOOLEAN]
    /\ \A i \in Instances :
          at[i] \in {"restart", "check", "establish", "start"} => task[i].id \in Intents

UiTyped ==
    /\ shown \in {"red", "amber", "green"}
    /\ imported \in BOOLEAN
    /\ mail \in Seq({"Connected", "Disconnected", "Error"})
    /\ destroying \in [instance : Instances \cup {nil}, stage : {"none", "stop", "shutdown"}]
    /\ running \in [Instances -> BOOLEAN]

GoOwned ==
    /\ engine \in open \cup {nil}
    /\ open \subseteq Intents
    /\ DescriptorsOwned

IInv == SystemTyped /\ ExecutorTyped /\ UiTyped /\ GoOwned

-----------------------------------------------------------------------------
(* The initial states satisfy the invariant. *)
LEMMA InitInvariant == Init => IInv
<1> SUFFICES ASSUME Init
             PROVE  IInv
  OBVIOUS
<1> USE DEF Init
<1>1. SystemTyped
  <2>1. MaxIntents \in Nat /\ MaxInstances \in Nat
    BY BoundsAssumption
  <2>2. inbox \in Seq(Messages)
    OBVIOUS
  <2>3. prepared \in BOOLEAN /\ started \in BOOLEAN
    OBVIOUS
  <2> QED
    BY <2>1, <2>2, <2>3 DEF SystemTyped, nil
<1>2. ExecutorTyped
  BY DEF ExecutorTyped, Tasks, NoTask, Kinds, Places
<1>3. UiTyped
  <2>1. destroying \in [instance : Instances \cup {nil}, stage : {"none", "stop", "shutdown"}]
    BY DEF NotDestroying
  <2>2. mail \in Seq({"Connected", "Disconnected", "Error"})
    OBVIOUS
  <2> QED
    BY <2>1, <2>2 DEF UiTyped
<1>4. GoOwned
  BY DEF GoOwned, DescriptorsOwned
<1> QED
  BY <1>1, <1>2, <1>3, <1>4 DEF IInv

(* The activity manager: an intent, and the end of an instance. *)
LEMMA SendTypes ==
    ASSUME SystemTyped, NEW kind \in Kinds, Send(kind), prepared' \in BOOLEAN
    PROVE  SystemTyped'
<1> DEFINE to == IF service = nil THEN created + 1 ELSE service
<1>1. /\ to <= Creatable /\ sent' = sent + 1 /\ service' = to
      /\ sent < (IF orderly THEN MaxIntents ELSE HastyIntents)
      /\ created' = (IF service = nil THEN to ELSE created) /\ started' = TRUE
      /\ inbox' = Append(inbox, [kind |-> kind, to |-> to, id |-> sent + 1])
      /\ UNCHANGED bound
  BY DEF Send
<1>2. to \in Instances
  BY <1>1, BoundsAssumption DEF SystemTyped, Creatable, Instances, nil
<1>3. sent + 1 \in Intents /\ sent + 1 # nil
  BY <1>1, BoundsAssumption DEF SystemTyped, Intents, nil
<1>4. [kind |-> kind, to |-> to, id |-> sent + 1] \in Messages
  BY <1>2, <1>3 DEF Messages
<1>5. service' \in {nil, created'} /\ created' \in 0..MaxInstances
  BY <1>1, <1>2 DEF SystemTyped, Instances
<1>6. inbox' \in Seq(Messages)
  BY <1>1, <1>4 DEF SystemTyped
<1>7. sent' \in 0..MaxIntents
  BY <1>1, <1>3 DEF Intents
<1> QED
  BY <1>1, <1>5, <1>6, <1>7 DEF SystemTyped

LEMMA BringDownTypes ==
    ASSUME SystemTyped, NEW isStarted \in BOOLEAN, NEW isBound \in Intents \cup {nil},
           BringDown(isStarted, isBound), prepared' \in BOOLEAN
    PROVE  SystemTyped'
<1>1. started' = isStarted /\ bound' = isBound /\ UNCHANGED <<sent, created>>
  BY DEF BringDown
<1>2. service' \in {nil, created'} /\ inbox' \in Seq(Messages)
  <2>1. CASE ~isStarted /\ isBound = nil /\ service # nil
    <3>1. /\ service' = nil
          /\ inbox' = Append(inbox, [kind |-> "DESTROY", to |-> service, id |-> nil])
      BY <2>1 DEF BringDown
    <3>2. service \in Instances
      BY <2>1, BoundsAssumption DEF SystemTyped, Instances, nil
    <3>3. [kind |-> "DESTROY", to |-> service, id |-> nil] \in Messages
      BY <3>2 DEF Messages
    <3> QED
      BY <3>1, <3>3 DEF SystemTyped
  <2>2. CASE ~(~isStarted /\ isBound = nil /\ service # nil)
    BY <1>1, <2>2 DEF BringDown, SystemTyped
  <2> QED
    BY <2>1, <2>2
<1> QED
  BY <1>1, <1>2 DEF SystemTyped

LEMMA StopSelfTypes ==
    ASSUME SystemTyped, NEW i, NEW id, StopSelf(i) \/ StopSelfResult(i, id), UNCHANGED prepared
    PROVE  SystemTyped'
<1>1. CASE BringDown(FALSE, bound)
  BY <1>1, BringDownTypes DEF SystemTyped
<1>2. CASE UNCHANGED <<sent, service, created, started, bound, inbox>>
  BY <1>2 DEF SystemTyped
<1> QED
  BY <1>1, <1>2 DEF StopSelf, StopSelfResult

(* Steps that touch no descriptor, and start or end no start. *)
LEMMA SameOwners ==
    ASSUME GoOwned, UNCHANGED go,
           \A i \in Instances : at[i] = "start" => at'[i] = "start" /\ task'[i] = task[i]
    PROVE  GoOwned'
  BY DEF GoOwned, DescriptorsOwned, go

(* The executor goes on within a task. *)
LEMMA GotoTypes ==
    ASSUME ExecutorTyped, NEW i \in Instances, NEW from, NEW to \in Places, Goto(i, from, to),
           to \in {"restart", "check", "establish", "start"} =>
               from \in {"restart", "check", "establish"}
    PROVE  /\ ExecutorTyped'
           /\ at[i] = from /\ at'[i] = to /\ task' = task
           /\ \A j \in Instances \ {i} : at'[j] = at[j]
  BY DEF Goto, ExecutorTyped

(* Mobile.stop closes the descriptor of the engine, and no other. *)
LEMMA StopOwned ==
    ASSUME GoOwned, MobileStop \/ UNCHANGED go,
           \A i \in Instances : at[i] = "start" => at'[i] = "start" /\ task'[i] = task[i]
    PROVE  GoOwned'
<1>1. CASE UNCHANGED go
  BY <1>1, SameOwners
<1>2. CASE MobileStop
  BY <1>2 DEF MobileStop, GoOwned, DescriptorsOwned, nil
<1> QED
  BY <1>1, <1>2

(* A status on its way to the activity. *)
LEMMA BroadcastTypes ==
    ASSUME UiTyped, NEW status \in {"Connected", "Disconnected", "Error"}, Broadcast(status)
    PROVE  mail' \in Seq({"Connected", "Disconnected", "Error"})
  BY DEF UiTyped, Broadcast

-----------------------------------------------------------------------------
(* The executor. *)

LEMMA TakeTaskStep ==
    ASSUME IInv, NEW i \in Instances, TakeTask(i)
    PROVE  IInv'
<1>1. /\ at[i] = "idle" /\ tasks[i] # <<>> /\ tasks[i] \in Seq(Tasks)
      /\ UNCHANGED <<ui, mail, system, destroying, shut, running, go>>
  BY DEF TakeTask, IInv, ExecutorTyped
<1> DEFINE t == Head(tasks[i])
           stage == CASE t.kind = "START" -> "restart" [] t.kind = "QUERY" -> "query"
                      [] OTHER -> "stop"
<1>2. t \in Tasks /\ Tail(tasks[i]) \in Seq(Tasks)
  BY <1>1
<1>3. stage \in Places /\ (stage \in {"restart", "check", "establish", "start"} => t.kind = "START")
  BY DEF Places, StartStages
<1>4. t.kind = "START" => t.id \in Intents
  BY <1>2 DEF Tasks
<1>5. /\ tasks' = [tasks EXCEPT ![i] = Tail(@)]
      /\ task' = [task EXCEPT ![i] = t]
      /\ at' = [at EXCEPT ![i] = stage]
  BY DEF TakeTask
<1> HIDE DEF t, stage
<1>6. ExecutorTyped'
  BY <1>1, <1>2, <1>3, <1>4, <1>5 DEF IInv, ExecutorTyped
<1>7. GoOwned'
  BY <1>1, <1>5, SameOwners DEF IInv, ExecutorTyped
<1>8. SystemTyped' /\ UiTyped'
  BY <1>1 DEF IInv, SystemTyped, UiTyped, system, ui
<1> QED
  BY <1>6, <1>7, <1>8 DEF IInv

(* Restart and StopTunnel stop the engine, CheckProxy, Up, StartStatistics, *)
(* Announce and Catch touch neither it nor the system.                     *)
LEMMA WithinTask ==
    ASSUME IInv, NEW i \in Instances,
           NEW from \in Places \ {"start"}, NEW to \in Places \ {"restart", "start"},
           Goto(i, from, to),
           to \in {"check", "establish"} => from \in {"restart", "check"},
           MobileStop \/ UNCHANGED go,
           UNCHANGED <<ui, system, destroying>>,
           mail' \in Seq({"Connected", "Disconnected", "Error"}),
           running' \in [Instances -> BOOLEAN]
    PROVE  IInv'
<1>1. /\ ExecutorTyped' /\ task' = task
      /\ at[i] = from /\ \A j \in Instances \ {i} : at'[j] = at[j]
  BY GotoTypes DEF IInv
<1>2. GoOwned'
  BY <1>1, StopOwned DEF IInv
<1>3. SystemTyped' /\ UiTyped'
  BY DEF IInv, SystemTyped, UiTyped, system, ui
<1> QED
  BY <1>1, <1>2, <1>3 DEF IInv

LEMMA TaskSteps ==
    ASSUME IInv, NEW i \in Instances,
           \/ Restart(i) \/ CheckProxy(i) \/ Up(i) \/ StartStatistics(i) \/ Announce(i)
           \/ Catch(i) \/ StopTunnel(i)
    PROVE  IInv'
<1> USE DEF IInv, UiTyped
<1>1. {"restart", "check", "establish", "catch", "up", "statistics", "announce", "idle",
       "stop", "stopSelf"} \subseteq Places
  BY DEF Places, StartStages
<1>2. UNCHANGED <<ui, system, destroying>> /\ (MobileStop \/ UNCHANGED go)
  BY DEF Restart, CheckProxy, Up, StartStatistics, Announce, Catch, StopTunnel
<1>3. running' \in [Instances -> BOOLEAN]
  BY DEF Restart, CheckProxy, Up, StartStatistics, Announce, Catch, StopTunnel
<1>4. mail' \in Seq({"Connected", "Disconnected", "Error"})
  BY BroadcastTypes DEF Restart, CheckProxy, Up, StartStatistics, Announce, Catch, StopTunnel
<1>5. \/ Goto(i, "restart", "check") \/ Goto(i, "check", "establish") \/ Goto(i, "check", "catch")
      \/ Goto(i, "up", "statistics") \/ Goto(i, "statistics", "catch")
      \/ Goto(i, "statistics", "announce") \/ Goto(i, "announce", "idle")
      \/ Goto(i, "catch", "stopSelf") \/ Goto(i, "stop", "stopSelf")
  BY DEF Restart, CheckProxy, Up, StartStatistics, Announce, Catch, StopTunnel
<1>6. PICK from \in Places \ {"start"}, to \in Places \ {"restart", "start"} :
         Goto(i, from, to) /\ (to \in {"check", "establish"} => from \in {"restart", "check"})
  BY <1>1, <1>5
<1> QED
  BY <1>2, <1>3, <1>4, <1>6, WithinTask

(* A start creates a descriptor ... *)
LEMMA EstablishStep ==
    ASSUME IInv, NEW i \in Instances, Establish(i)
    PROVE  IInv'
<1>1. CASE Goto(i, "establish", "catch")
           /\ UNCHANGED <<ui, mail, system, destroying, running, go>>
  <2>1. "establish" \in Places \ {"start"} /\ "catch" \in Places \ {"restart", "start"}
    BY DEF Places, StartStages
  <2> QED
    BY <1>1, <2>1, WithinTask DEF IInv, UiTyped
<1> DEFINE d == task[i].id
<1>2. CASE /\ service = nil => created < Creatable
           /\ Goto(i, "establish", "start")
           /\ Detached(d) /\ bound' = d
           /\ IF service = nil
              THEN service' = created + 1 /\ created' = created + 1
              ELSE UNCHANGED <<service, created>>
           /\ UNCHANGED <<ui, mail, sent, prepared, started, inbox, destroying, running>>
  <2>1. "start" \in Places
    BY DEF Places, StartStages
  <2>2. /\ ExecutorTyped' /\ task' = task /\ at[i] = "establish" /\ at'[i] = "start"
        /\ \A j \in Instances \ {i} : at'[j] = at[j]
    BY <1>2, <2>1, GotoTypes DEF IInv
  <2>3. d \in Intents
    BY <2>2 DEF IInv, ExecutorTyped
  <2>4. service' \in {nil, created'} /\ created' \in 0..MaxInstances
    BY <1>2, BoundsAssumption DEF IInv, SystemTyped, Creatable
  <2>5. SystemTyped' /\ UiTyped'
    BY <1>2, <2>3, <2>4 DEF IInv, SystemTyped, UiTyped, ui
  <2>6. open' = open \cup {d} /\ engine' = engine
    BY <1>2 DEF Detached
  <2>7. GoOwned'
    BY <2>2, <2>3, <2>6 DEF IInv, GoOwned, DescriptorsOwned
  <2> QED
    BY <2>2, <2>5, <2>7 DEF IInv
<1> QED
  BY <1>1, <1>2 DEF Establish

(* ... which the engine takes, or package mobile closes. *)
LEMMA StartEngineStep ==
    ASSUME IInv, NEW i \in Instances, StartEngine(i)
    PROVE  IInv'
<1> DEFINE d == task[i].id
<1>1. PICK to \in {"up", "catch"} : Goto(i, "start", to)
  BY DEF StartEngine
<1>2. to \in Places
  BY DEF Places, StartStages
<1>3. /\ ExecutorTyped' /\ task' = task /\ at[i] = "start" /\ at'[i] = to
      /\ \A j \in Instances \ {i} : at'[j] = at[j]
  BY <1>1, <1>2, GotoTypes DEF IInv
<1>4. d \in Intents
  BY <1>3 DEF IInv, ExecutorTyped
<1>5. SystemTyped' /\ UiTyped'
  BY DEF StartEngine, IInv, SystemTyped, UiTyped, system, ui
<1>6. CASE MobileStarts(d)
  <2>1. engine = nil /\ engine' = d /\ d \in open /\ open' = open
    BY <1>6 DEF MobileStarts, nil
  <2>2. GoOwned'
    BY <1>3, <2>1 DEF IInv, GoOwned, DescriptorsOwned, nil, Intents
  <2> QED
    BY <1>3, <1>5, <2>2 DEF IInv
<1>7. CASE MobileFails(d)
  <2>1. engine' = engine /\ engine # d /\ open' = open \ {d}
    BY <1>7 DEF MobileFails
  <2>2. GoOwned'
    BY <1>3, <2>1 DEF IInv, GoOwned, DescriptorsOwned
  <2> QED
    BY <1>3, <1>5, <2>2 DEF IInv
<1> QED
  BY <1>6, <1>7 DEF StartEngine

(* The ends of the tasks that may end the instance. *)
LEMMA LastSteps ==
    ASSUME IInv, NEW i \in Instances, StopSelfAtEnd(i) \/ Query(i)
    PROVE  IInv'
<1>1. PICK from \in {"stopSelf", "query"} : Goto(i, from, "idle")
  BY DEF StopSelfAtEnd, Query
<1>2. "idle" \in Places
  BY DEF Places
<1>3. /\ ExecutorTyped' /\ task' = task /\ at[i] = from
      /\ \A j \in Instances \ {i} : at'[j] = at[j]
  BY <1>1, <1>2, GotoTypes DEF IInv
<1>4. UNCHANGED <<ui, prepared, destroying, running, go>>
  BY DEF StopSelfAtEnd, Query
<1>5. GoOwned'
  BY <1>3, <1>4, SameOwners DEF IInv
<1>6. mail' \in Seq({"Connected", "Disconnected", "Error"})
  BY BroadcastTypes DEF StopSelfAtEnd, Query, IInv, UiTyped
<1>7. UiTyped'
  BY <1>4, <1>6 DEF IInv, UiTyped, ui
<1>8. SystemTyped'
  <2>1. CASE StopSelf(i) \/ StopSelfResult(i, task[i].id)
    BY <1>4, <2>1, StopSelfTypes DEF IInv
  <2>2. CASE UNCHANGED <<sent, service, created, started, bound, inbox>>
    BY <1>4, <2>2 DEF IInv, SystemTyped
  <2> QED
    BY <2>1, <2>2 DEF StopSelfAtEnd, Query
<1> QED
  BY <1>3, <1>5, <1>7, <1>8 DEF IInv

-----------------------------------------------------------------------------
(* The main thread, the user and the system. *)

LEMMA OnStartCommandStep ==
    ASSUME IInv, OnStartCommand
    PROVE  IInv'
<1> DEFINE m == Head(inbox)
<1>1. /\ inbox # <<>> /\ m.kind # "DESTROY" /\ inbox' = Tail(inbox)
      /\ tasks' = [tasks EXCEPT ![m.to] = Append(@, [kind |-> m.kind, id |-> m.id])]
      /\ UNCHANGED <<ui, mail, sent, prepared, service, created, started, bound, destroying,
                     task, at, shut, running, go>>
  BY DEF OnStartCommand
<1>2. m \in Messages /\ inbox' \in Seq(Messages)
  BY <1>1 DEF IInv, SystemTyped
<1>3. [kind |-> m.kind, id |-> m.id] \in Tasks /\ m.to \in Instances
  BY <1>1, <1>2 DEF Messages, Tasks
<1> HIDE DEF m
<1>4. tasks[m.to] \in Seq(Tasks)
  BY <1>3 DEF IInv, ExecutorTyped
<1>5. tasks' \in [Instances -> Seq(Tasks)]
  BY <1>1, <1>3, <1>4 DEF IInv, ExecutorTyped
<1>6. ExecutorTyped' /\ UiTyped' /\ SystemTyped'
  BY <1>1, <1>2, <1>5 DEF IInv, ExecutorTyped, UiTyped, SystemTyped, ui
<1>7. GoOwned'
  BY <1>1, SameOwners DEF IInv
<1> QED
  BY <1>6, <1>7 DEF IInv

LEMMA OnDestroyStep ==
    ASSUME IInv, OnDestroy
    PROVE  IInv'
<1> DEFINE m == Head(inbox)
<1>1. /\ inbox # <<>> /\ inbox' = Tail(inbox)
      /\ destroying' = [instance |-> m.to,
                        stage |-> IF running[m.to] THEN "stop" ELSE "shutdown"]
      /\ UNCHANGED <<ui, mail, sent, prepared, service, created, started, bound, executor,
                     running, go>>
  BY DEF OnDestroy
<1>2. m \in Messages /\ inbox' \in Seq(Messages)
  BY <1>1 DEF IInv, SystemTyped
<1>3. m.to \in Instances
  BY <1>2 DEF Messages
<1>4. destroying' \in [instance : Instances \cup {nil}, stage : {"none", "stop", "shutdown"}]
  BY <1>1, <1>3
<1>5. ExecutorTyped' /\ UiTyped' /\ SystemTyped'
  BY <1>1, <1>2, <1>4 DEF IInv, ExecutorTyped, UiTyped, SystemTyped, ui, executor
<1>6. GoOwned'
  BY <1>1, SameOwners DEF IInv, executor
<1> QED
  BY <1>5, <1>6 DEF IInv

LEMMA DestroySteps ==
    ASSUME IInv, DestroyStops \/ DestroyShutsDown
    PROVE  IInv'
<1>1. CASE DestroyStops
  <2>1. /\ running' \in [Instances -> BOOLEAN]
        /\ destroying' \in [instance : Instances \cup {nil}, stage : {"none", "stop", "shutdown"}]
    BY <1>1 DEF DestroyStops, IInv, UiTyped
  <2>2. ExecutorTyped' /\ UiTyped' /\ SystemTyped'
    BY <1>1, <2>1
       DEF DestroyStops, IInv, ExecutorTyped, UiTyped, SystemTyped, ui, executor, system
  <2>3. GoOwned'
    BY <1>1, StopOwned DEF DestroyStops, IInv, executor
  <2> QED
    BY <2>2, <2>3 DEF IInv
<1>2. CASE DestroyShutsDown
  <2>1. /\ shut' \in [Instances -> BOOLEAN] /\ tasks' \in [Instances -> Seq(Tasks)]
        /\ destroying' \in [instance : Instances \cup {nil}, stage : {"none", "stop", "shutdown"}]
    <3>1. <<>> \in Seq(Tasks)
      BY EmptySeq
    <3>2. /\ shut' = [shut EXCEPT ![destroying.instance] = TRUE]
          /\ tasks' = [tasks EXCEPT ![destroying.instance] = <<>>]
          /\ destroying' = [instance |-> nil, stage |-> "none"]
      BY <1>2 DEF DestroyShutsDown, NotDestroying
    <3> QED
      BY <3>1, <3>2 DEF IInv, ExecutorTyped
  <2>2. ExecutorTyped' /\ UiTyped' /\ SystemTyped'
    BY <1>2, <2>1 DEF DestroyShutsDown, IInv, ExecutorTyped, UiTyped, SystemTyped, ui, system
  <2>3. GoOwned'
    BY <1>2, SameOwners DEF DestroyShutsDown, IInv
  <2> QED
    BY <2>2, <2>3 DEF IInv
<1> QED
  BY <1>1, <1>2

(* Clicks, links and a new activity send an intent. *)
LEMMA UserStep ==
    ASSUME IInv, User
    PROVE  IInv'
<1>1. PICK kind \in Kinds : Send(kind)
  BY DEF User, Connect, Disconnect, Recreate, OpenLink, Kinds
<1>2. prepared' \in BOOLEAN /\ UNCHANGED <<destroying, executor, running, go>>
  BY DEF User, Connect, Disconnect, Recreate, OpenLink, IInv, SystemTyped
<1>3. SystemTyped'
  BY <1>1, <1>2, SendTypes DEF IInv
<1>4. shown' \in {"red", "amber", "green"} /\ imported' \in BOOLEAN
  BY DEF User, Connect, Disconnect, Recreate, OpenLink, IInv, UiTyped
<1>5. mail' = mail \/ mail' = <<>>
  BY DEF User, Connect, Disconnect, Recreate, OpenLink
<1>6. mail' \in Seq({"Connected", "Disconnected", "Error"})
  BY <1>5, EmptySeq DEF IInv, UiTyped
<1>7. UiTyped' /\ ExecutorTyped'
  BY <1>2, <1>4, <1>6 DEF IInv, UiTyped, ExecutorTyped, executor
<1>8. GoOwned'
  BY <1>2, SameOwners DEF IInv, executor
<1> QED
  BY <1>3, <1>7, <1>8 DEF IInv

(* A broadcast arrives; the interface is gone; the VPN is given away. *)
LEMMA ArrivalSteps ==
    ASSUME IInv, Receive \/ Unbind \/ Revoke
    PROVE  IInv'
<1>1. CASE Receive
  <2>1. /\ mail # <<>> /\ mail' = Tail(mail) /\ shown' \in {shown, "green", "red"}
        /\ UNCHANGED <<imported, system, destroying, executor, running, go>>
    BY <1>1 DEF Receive
  <2>2. mail' \in Seq({"Connected", "Disconnected", "Error"})
    BY <2>1 DEF IInv, UiTyped
  <2>3. ExecutorTyped' /\ UiTyped' /\ SystemTyped'
    BY <2>1, <2>2 DEF IInv, ExecutorTyped, UiTyped, SystemTyped, executor, system
  <2>4. GoOwned'
    BY <2>1, SameOwners DEF IInv, executor
  <2> QED
    BY <2>3, <2>4 DEF IInv
<1>2. CASE Unbind
  <2>1. /\ BringDown(started, nil)
        /\ UNCHANGED <<ui, mail, prepared, destroying, executor, running, go>>
    BY <1>2 DEF Unbind
  <2>2. SystemTyped'
    BY <2>1, BringDownTypes DEF IInv, SystemTyped
  <2>3. ExecutorTyped' /\ UiTyped'
    BY <2>1 DEF IInv, ExecutorTyped, UiTyped, executor, ui
  <2>4. GoOwned'
    BY <2>1, SameOwners DEF IInv, executor
  <2> QED
    BY <2>2, <2>3, <2>4 DEF IInv
<1>3. CASE Revoke
  <2>1. /\ BringDown(FALSE, nil) /\ prepared' = FALSE
        /\ tasks' = [tasks EXCEPT ![service] = Append(@, [kind |-> "REVOKED", id |-> nil])]
        /\ UNCHANGED <<ui, mail, destroying, task, at, shut, running, go>>
    BY <1>3 DEF Revoke
  <2>2. SystemTyped'
    BY <2>1, BringDownTypes DEF IInv, SystemTyped
  <2>3. tasks' \in [Instances -> Seq(Tasks)]
    <3>1. [kind |-> "REVOKED", id |-> nil] \in Tasks
      BY DEF Tasks, Kinds
    <3>2. \A i \in Instances : tasks[i] \in Seq(Tasks)
      BY DEF IInv, ExecutorTyped
    <3>3. \A i \in Instances :
             Append(tasks[i], [kind |-> "REVOKED", id |-> nil]) \in Seq(Tasks)
      BY <3>1, <3>2
    <3> QED
      BY <2>1, <3>3 DEF IInv, ExecutorTyped
  <2>4. ExecutorTyped' /\ UiTyped'
    BY <2>1, <2>3 DEF IInv, ExecutorTyped, UiTyped, ui
  <2>5. GoOwned'
    BY <2>1, SameOwners DEF IInv
  <2> QED
    BY <2>2, <2>4, <2>5 DEF IInv
<1> QED
  BY <1>1, <1>2, <1>3

(* Every step keeps the invariant. *)
LEMMA NextInvariant == IInv /\ [Next]_vars => IInv'
<1> SUFFICES ASSUME IInv, [Next]_vars
             PROVE  IInv'
  OBVIOUS
<1>1. CASE UNCHANGED vars \/ Rest
  <2>1. UNCHANGED <<ui, mail, system, destroying, executor, running, go>>
    BY <1>1 DEF Rest, vars
  <2>2. ExecutorTyped' /\ UiTyped' /\ SystemTyped'
    BY <2>1 DEF IInv, ExecutorTyped, UiTyped, SystemTyped, executor, ui, system
  <2>3. GoOwned'
    BY <2>1, SameOwners DEF IInv, executor
  <2> QED
    BY <2>2, <2>3 DEF IInv
<1>2. ASSUME NEW i \in Instances, Execute(i)
      PROVE  IInv'
  BY <1>2, TakeTaskStep, TaskSteps, EstablishStep, StartEngineStep, LastSteps DEF Execute
<1>3. CASE Main
  BY <1>3, OnStartCommandStep, OnDestroyStep, DestroySteps, ArrivalSteps DEF Main
<1>4. CASE User
  BY <1>4, UserStep
<1>5. CASE Unbind \/ Revoke
  BY <1>5, ArrivalSteps
<1> QED
  BY <1>1, <1>2, <1>3, <1>4, <1>5 DEF Next

(* AndroidTunnel's inductive invariant. *)
THEOREM AndroidInvariant == Spec => []IInv
  BY InitInvariant, NextInvariant, PTL DEF Spec

(* Type correctness of the application's, the service's and the engine's    *)
(* state.                                                                  *)
THEOREM AndroidTypes == Spec => []TypeOK
<1>1. ASSUME IInv
      PROVE  TypeOK
  <2>1. inbox \in Seq([kind : Kinds \cup {"DESTROY"}, to : Instances, id : Intents \cup {nil}])
    <3>1. inbox \in Seq(Messages)
      BY <1>1 DEF IInv, SystemTyped
    <3>2. Messages \subseteq [kind : Kinds \cup {"DESTROY"}, to : Instances, id : Intents \cup {nil}]
      BY DEF Messages
    <3> QED
      BY <3>1, <3>2, SeqMonotonic
  <2>2. tasks \in [Instances -> Seq([kind : Kinds, id : Intents \cup {nil}])]
    <3>1. \A i \in Instances : tasks[i] \in Seq(Tasks)
      BY <1>1 DEF IInv, ExecutorTyped
    <3>2. Tasks \subseteq [kind : Kinds, id : Intents \cup {nil}]
      BY DEF Tasks
    <3>3. \A i \in Instances : tasks[i] \in Seq([kind : Kinds, id : Intents \cup {nil}])
      BY <3>1, <3>2, SeqMonotonic
    <3> QED
      BY <1>1, <3>3 DEF IInv, ExecutorTyped
  <2> QED
    BY <1>1, <2>1, <2>2
       DEF IInv, SystemTyped, ExecutorTyped, UiTyped, GoOwned, TypeOK, Places
<1> QED
  BY <1>1, AndroidInvariant, PTL

(* Every open TUN descriptor belongs to the engine, or to the start that    *)
(* has just created it and is about to hand it over.                       *)
THEOREM NoDescriptorLeaks == Spec => []DescriptorsOwned
<1>1. IInv => DescriptorsOwned
  BY DEF IInv, GoOwned
<1> QED
  BY <1>1, AndroidInvariant, PTL

-----------------------------------------------------------------------------
(* A user and a system that act only at rest: the intent, the revocation or *)
(* the end of the instance that is under way is the only one, and the       *)
(* executor it occupies is the one of the instance that is started.         *)

NoMail == inbox = <<>>
Delivers(m) == inbox = <<m>>
Queued(i, t) == tasks[i] = <<t>>
Free(i) == at[i] = "idle" /\ tasks[i] = <<>>
Busy(i) == ~Free(i)

(* An intent waits for the main thread; instance k is to be destroyed, or   *)
(* its onDestroy runs.                                                     *)
Summoned == \E m \in Messages : Delivers(m) /\ m.kind # "DESTROY"
Doomed(k) == \E m \in Messages : Delivers(m) /\ m.kind = "DESTROY" /\ m.to = k
Ending(k) == Doomed(k) \/ (~MainFree /\ destroying.instance = k)

(* The executor of an instance that is gone: it only answers the revocation *)
(* that ended it.                                                          *)
Leaving(i) ==
    /\ service = nil /\ ~prepared
    /\ \/ at[i] \in {"stop", "stopSelf"}
       \/ at[i] = "idle" /\ \E t \in Tasks : Queued(i, t) /\ t.kind = "REVOKED"

OneTask ==
    /\ NoMail \/ \E m \in Messages : Delivers(m)
    /\ \A i \in Instances : tasks[i] = <<>> \/ (at[i] = "idle" /\ \E t \in Tasks : Queued(i, t))
    /\ \A i, j \in Instances : Busy(i) /\ Busy(j) => i = j

Placed ==
    /\ \A m \in Messages : Delivers(m) /\ m.kind # "DESTROY" =>
          m.to = service /\ started /\ MainFree /\ \A i \in Instances : Free(i)
    /\ \A m \in Messages : Delivers(m) /\ m.kind = "DESTROY" => MainFree
    /\ ~MainFree => NoMail /\ destroying.stage # "none"
    /\ \A k \in Instances : Ending(k) =>
          service = nil /\ k <= created /\ \A i \in Instances : Busy(i) => i = k
    /\ ~MainFree => destroying.instance \in Instances
    /\ \A i \in Instances : shut[i] => i <= created /\ i # service
    /\ \A i \in Instances : Busy(i) => (i = service /\ started) \/ Leaving(i)

(* The instance whose running is set is the one the VPN is bound to, or the *)
(* one a revocation has ended and whose onDestroy will stop the engine.     *)
Serves(j) ==
    /\ engine # nil
    /\ \/ j = service /\ started /\ bound = engine
       \/ /\ service = nil /\ ~prepared
          /\ Doomed(j) \/ (destroying.instance = j /\ destroying.stage = "stop")

Engines ==
    /\ \A j \in Instances : running[j] => Serves(j)
    /\ engine # nil => \E i \in Instances : running[i] \/ at[i] = "up"
    /\ destroying.stage = "stop" => ~prepared
    /\ \A i \in Instances :
          /\ at[i] \in {"check", "establish", "start", "catch", "stopSelf"} => engine = nil
          /\ at[i] = "start" => bound = task[i].id /\ bound \in open
          /\ at[i] = "up" => engine # nil /\ engine = bound
          /\ at[i] \in {"statistics", "announce"} => running[i]

Orderly == OneTask /\ Placed /\ Engines

OrderlyInv == orderly => Orderly

(* The lamp once the broadcasts on their way have arrived.                  *)
WillShow ==
    IF mail = <<>> THEN shown ELSE IF mail[Len(mail)] = "Connected" THEN "green" ELSE "red"

(* Nothing is under way that has yet to broadcast.                          *)
Answered ==
    /\ ~Summoned
    /\ \A i \in Instances : tasks[i] = <<>> /\ at[i] \in {"idle", "stopSelf"}

LampInv ==
    orderly /\ prepared /\ ~imported /\ Answered =>
        WillShow = IF engine = nil THEN "red" ELSE "green"

-----------------------------------------------------------------------------
(* An executor in the middle of a task is the only one that is occupied,    *)
(* and no intent waits; until its task is done it is the executor of the    *)
(* instance that is started, unless it answers a revocation.               *)
LEMMA WorkingAlone ==
    ASSUME IInv, OneTask, Placed, NEW i \in Instances, at[i] # "idle"
    PROVE  /\ tasks[i] = <<>> /\ \A j \in Instances \ {i} : Free(j)
           /\ \A m \in Messages : Delivers(m) => m.kind = "DESTROY" /\ m.to = i
           /\ ~Summoned
           /\ at[i] \notin {"stop", "stopSelf"} =>
                 /\ i = service /\ service # nil /\ started
                 /\ NoMail /\ MainFree /\ ~shut[i]
           /\ i # service => Leaving(i)
<1>1. Busy(i)
  BY DEF Busy, Free
<1>2. tasks[i] = <<>> /\ \A j \in Instances \ {i} : Free(j)
  BY <1>1 DEF OneTask, Busy
<1>3. ASSUME NEW m \in Messages, Delivers(m)
      PROVE  m.kind = "DESTROY" /\ m.to = i
  <2>1. m.kind = "DESTROY"
    BY <1>1, <1>3 DEF Placed, Busy
  <2>2. m.to \in Instances
    BY DEF Messages
  <2>3. Ending(m.to)
    BY <1>3, <2>1 DEF Ending, Doomed
  <2> QED
    BY <1>1, <2>1, <2>2, <2>3 DEF Placed
<1>4. i # nil
  BY DEF Instances, nil
<1>5. (i = service /\ started) \/ Leaving(i)
  BY <1>1 DEF Placed
<1>6. ASSUME at[i] \notin {"stop", "stopSelf"}
      PROVE  i = service /\ service # nil /\ started /\ NoMail /\ MainFree /\ ~shut[i]
  <2>1. i = service /\ started
    BY <1>5, <1>6 DEF Leaving
  <2>2. ~Ending(i)
    BY <2>1, <1>4 DEF Placed
  <2>3. NoMail
    BY <1>3, <2>2 DEF OneTask, Ending, Doomed
  <2>4. MainFree
    <3>1. ASSUME ~MainFree
          PROVE  FALSE
      <4>1. destroying.instance \in Instances /\ Ending(destroying.instance)
        BY <3>1 DEF Placed, Ending
      <4> QED
        BY <4>1, <2>1, <1>4 DEF Placed
    <3> QED
      BY <3>1
  <2> QED
    BY <2>1, <2>3, <2>4, <1>4 DEF Placed
<1> QED
  BY <1>2, <1>3, <1>5, <1>6 DEF Summoned

(* ... and the engine, if there is one, is its own.                        *)
LEMMA RunsHere ==
    ASSUME IInv, Orderly, NEW i \in Instances, at[i] # "idle"
    PROVE  /\ \A j \in Instances : running[j] => j = i
           /\ engine # nil => running[i] \/ at[i] = "up"
<1> USE DEF Orderly
<1>1. ASSUME NEW j \in Instances, running[j]
      PROVE  j = i
  <2>1. Serves(j)
    BY <1>1 DEF Engines
  <2>2. Busy(i) /\ i # nil /\ j # nil
    BY DEF Busy, Free, Instances, nil
  <2>3. (i = service /\ started) \/ Leaving(i)
    BY <2>2 DEF Placed
  <2>4. CASE j = service
    BY <2>2, <2>3, <2>4 DEF Leaving
  <2>5. CASE Doomed(j) \/ (destroying.instance = j /\ destroying.stage = "stop")
    <3>1. Ending(j)
      BY <2>5 DEF Ending, MainFree, NotDestroying
    <3> QED
      BY <2>2, <3>1 DEF Placed
  <2> QED
    BY <2>1, <2>4, <2>5 DEF Serves
<1>2. ASSUME engine # nil
      PROVE  running[i] \/ at[i] = "up"
  <2>1. PICK j \in Instances : running[j] \/ at[j] = "up"
    BY <1>2 DEF Engines
  <2>2. j = i
    BY <1>1, <2>1, WorkingAlone DEF Free
  <2> QED
    BY <2>1, <2>2
<1> QED
  BY <1>1, <1>2

(* At rest the instance that runs the engine is the one that is started.    *)
LEMMA AtRest ==
    ASSUME IInv, Orderly, Quiet
    PROVE  /\ \A j \in Instances : running[j] =>
                 j = service /\ started /\ bound = engine /\ engine # nil
           /\ engine # nil => service # nil /\ running[service]
           /\ \A i \in Instances : Free(i)
<1> USE DEF Orderly
<1>1. inbox = <<>> /\ MainFree /\ \A i \in Instances : Free(i)
  BY DEF Quiet, Free
<1>2. ASSUME NEW j \in Instances, running[j]
      PROVE  j = service /\ started /\ bound = engine /\ engine # nil
  <2>1. Serves(j)
    BY <1>2 DEF Engines
  <2>2. ~Doomed(j)
    BY <1>1 DEF Doomed, Delivers
  <2>3. destroying.stage # "stop"
    BY <1>1 DEF MainFree, NotDestroying
  <2> QED
    BY <2>1, <2>2, <2>3 DEF Serves
<1>3. ASSUME engine # nil
      PROVE  service # nil /\ running[service]
  <2>1. PICK j \in Instances : running[j] \/ at[j] = "up"
    BY <1>3 DEF Engines
  <2>2. running[j] /\ j # nil
    BY <1>1, <2>1 DEF Free, Instances, nil
  <2> QED
    BY <1>2, <2>2
<1> QED
  BY <1>1, <1>2, <1>3

(* The executor goes on, or is done: no other one is occupied by it.        *)
LEMMA StaysPlaced ==
    ASSUME IInv, OneTask, Placed, NEW i \in Instances, NEW from, NEW to,
           Goto(i, from, to), from # "idle",
           from \in {"stop", "stopSelf"} => to \in {"stopSelf", "idle"},
           UNCHANGED <<inbox, prepared, service, created, started, destroying>>
    PROVE  OneTask' /\ Placed'
<1>1. /\ at[i] = from /\ tasks' = tasks /\ shut' = shut /\ at'[i] = to
      /\ \A j \in Instances \ {i} : at'[j] = at[j]
  BY DEF Goto, IInv, ExecutorTyped
<1>2. tasks[i] = <<>> /\ \A j \in Instances \ {i} : Free(j)
  BY <1>1, WorkingAlone
<1>3. /\ \A j \in Instances : tasks'[j] = <<>>
      /\ \A j \in Instances \ {i} : ~Busy(j)' /\ ~Busy(j)
      /\ \A j \in Instances : tasks[j] = <<>>
  BY <1>1, <1>2 DEF Free, Busy
<1>4. OneTask'
  <2>1. (NoMail \/ \E m \in Messages : Delivers(m))'
    BY DEF OneTask, NoMail, Delivers
  <2> QED
    BY <1>3, <2>1 DEF OneTask
<1>5. Busy(i)
  BY <1>1 DEF Busy, Free
<1>6. ASSUME Leaving(i), Busy(i)'
      PROVE  Leaving(i)'
  <2>1. from \in {"stop", "stopSelf"}
    BY <1>1, <1>3, <1>6 DEF Leaving, Queued
  <2>2. to = "stopSelf"
    BY <2>1, <1>1, <1>3, <1>6 DEF Busy, Free
  <2> QED
    BY <2>2, <1>1, <1>6 DEF Leaving
<1>7. Placed'
  <2>1. /\ \A m \in Messages : Delivers(m)' => Delivers(m)
        /\ \A k \in Instances : Ending(k)' => Ending(k)
        /\ NoMail' = NoMail /\ MainFree' = MainFree
    BY DEF Delivers, NoMail, MainFree, Ending, Doomed
  <2>2. \A j \in Instances : Busy(j)' => Busy(j) /\ j = i
    BY <1>3, <1>5
  <2>3. \A m \in Messages : Delivers(m)' => m.kind = "DESTROY"
    BY <1>1, <2>1, WorkingAlone
  <2>4. \A j \in Instances : Busy(j)' => (j = service /\ started)' \/ Leaving(j)'
    BY <2>2, <1>6 DEF Placed
  <2> QED
    BY <1>1, <2>1, <2>2, <2>3, <2>4 DEF Placed
<1> QED
  BY <1>4, <1>7

(* What is left to show of a step within a task: where the engine belongs.  *)
LEMMA StaysOrderly ==
    ASSUME IInv, Orderly, IInv', NEW i \in Instances, NEW from, NEW to,
           Goto(i, from, to), from # "idle",
           from \in {"stop", "stopSelf"} => to \in {"stopSelf", "idle"},
           UNCHANGED <<inbox, prepared, service, created, started, destroying, task>>,
           \A j \in Instances \ {i} : running'[j] = running[j],
           running'[i] => Serves(i)',
           engine' # nil => running'[i] \/ to = "up",
           to \in {"check", "establish", "start", "catch", "stopSelf"} => engine' = nil,
           to = "start" => bound' = task[i].id /\ bound' \in open',
           to = "up" => engine' # nil /\ engine' = bound',
           to \in {"statistics", "announce"} => running'[i]
    PROVE  Orderly'
<1>1. OneTask' /\ Placed'
  BY StaysPlaced DEF Orderly
<1>2. /\ at[i] = from /\ at'[i] = to
      /\ \A j \in Instances \ {i} : at'[j] = at[j] /\ at[j] = "idle"
  BY WorkingAlone DEF Goto, IInv, ExecutorTyped, Orderly, Free
<1>3. \A j \in Instances : running[j] => j = i
  BY <1>2, RunsHere
<1>4. \A j \in Instances : running'[j] => j = i
  BY <1>3
<1>5. (destroying.stage = "stop" => ~prepared)'
  BY DEF Orderly, Engines
<1>6. engine' # nil => \E j \in Instances : running'[j] \/ at'[j] = "up"
  BY <1>2
<1>7. Engines'
  BY <1>2, <1>4, <1>5, <1>6 DEF Engines
<1> QED
  BY <1>1, <1>7 DEF Orderly

LEMMA StartOrderly ==
    ASSUME IInv, Orderly, IInv', NEW i \in Instances,
           \/ Restart(i) \/ CheckProxy(i) \/ Establish(i) \/ StartEngine(i) \/ Up(i)
           \/ StartStatistics(i) \/ Announce(i) \/ Catch(i)
    PROVE  Orderly'
<1>0. at[i] \notin {"idle", "stop", "stopSelf"}
  BY DEF Restart, CheckProxy, Establish, StartEngine, Up, StartStatistics, Announce, Catch, Goto
<1>1. /\ i = service /\ service # nil /\ started /\ NoMail /\ ~shut[i]
      /\ \A j \in Instances : running[j] => j = i
      /\ engine # nil => running[i] \/ at[i] = "up"
  BY <1>0, WorkingAlone, RunsHere DEF Orderly
<1>2. running[i] => engine # nil /\ bound = engine
  BY <1>1 DEF Orderly, Engines, Serves
<1>3. running \in [Instances -> BOOLEAN]
  BY DEF IInv, UiTyped
<1>4. /\ at[i] \in {"check", "establish", "start", "catch"} => engine = nil
      /\ at[i] = "start" => bound = task[i].id /\ bound \in open
      /\ at[i] = "up" => engine # nil /\ engine = bound
      /\ at[i] \in {"statistics", "announce"} => running[i]
  BY DEF Orderly, Engines
<1>5. CASE Restart(i)
  <2>1. /\ Goto(i, "restart", "check")
        /\ \A j \in Instances \ {i} : running'[j] = running[j]
        /\ UNCHANGED <<inbox, prepared, service, created, started, destroying, task>>
        /\ ~running'[i]
    BY <1>5, <1>3 DEF Restart, system, Goto
  <2>2. engine' = nil
    BY <1>5, <1>1 DEF Restart, MobileStop, go, Goto, nil
  <2> QED
    BY <2>1, <2>2, StaysOrderly
<1>6. CASE CheckProxy(i)
  <2>1. PICK to \in {"establish", "catch"} : Goto(i, "check", to)
    BY <1>6 DEF CheckProxy
  <2>2. /\ UNCHANGED <<inbox, prepared, service, created, started, destroying, task, running>>
        /\ engine' = nil /\ ~running'[i]
    BY <1>6, <2>1, <1>2, <1>4 DEF CheckProxy, system, go, Goto
  <2>3. CASE to = "establish"
    BY <2>1, <2>2, <2>3, StaysOrderly
  <2>4. CASE to = "catch"
    BY <2>1, <2>2, <2>4, StaysOrderly
  <2> QED
    BY <2>3, <2>4
<1>7. CASE Establish(i)
  <2>1. at[i] = "establish" /\ engine = nil /\ ~running[i]
    BY <1>7, <1>2, <1>4 DEF Establish, Goto
  <2>2. CASE Goto(i, "establish", "catch")
             /\ UNCHANGED <<ui, mail, system, destroying, running, go>>
    <3>1. /\ UNCHANGED <<inbox, prepared, service, created, started, destroying, task, running>>
          /\ engine' = nil
      BY <2>1, <2>2 DEF system, go, Goto
    <3> QED
      BY <2>1, <2>2, <3>1, StaysOrderly
  <2>3. CASE /\ Goto(i, "establish", "start")
             /\ Detached(task[i].id) /\ bound' = task[i].id
             /\ UNCHANGED <<service, created>>
             /\ UNCHANGED <<ui, mail, sent, prepared, started, inbox, destroying, running>>
    <3>1. /\ UNCHANGED <<inbox, prepared, service, created, started, destroying, task, running>>
          /\ engine' = nil /\ bound' \in open'
      BY <2>1, <2>3 DEF Goto, Detached
    <3> QED
      BY <2>1, <2>3, <3>1, StaysOrderly
  <2> QED
    BY <1>1, <1>7, <2>2, <2>3 DEF Establish
<1>8. CASE StartEngine(i)
  <2>1. /\ UNCHANGED <<inbox, prepared, service, created, started, bound, destroying, task, running>>
        /\ at[i] = "start"
    BY <1>8 DEF StartEngine, system, Goto
  <2>2. engine = nil /\ ~running[i] /\ bound = task[i].id /\ bound # nil
    BY <2>1, <1>2, <1>4 DEF IInv, ExecutorTyped, Intents, nil
  <2>3. CASE MobileStarts(task[i].id) /\ Goto(i, "start", "up")
    <3>1. engine' = bound
      BY <2>2, <2>3 DEF MobileStarts
    <3> QED
      BY <2>1, <2>2, <2>3, <3>1, StaysOrderly
  <2>4. CASE MobileFails(task[i].id) /\ Goto(i, "start", "catch")
    <3>1. engine' = nil
      BY <2>2, <2>4 DEF MobileFails
    <3> QED
      BY <2>1, <2>2, <2>4, <3>1, StaysOrderly
  <2> QED
    BY <1>8, <2>3, <2>4 DEF StartEngine
<1>9. CASE Up(i)
  <2>1. /\ Goto(i, "up", "statistics")
        /\ \A j \in Instances \ {i} : running'[j] = running[j]
        /\ UNCHANGED <<inbox, prepared, service, created, started, bound, destroying, task, engine>>
        /\ at[i] = "up" /\ running'[i]
    BY <1>9, <1>3 DEF Up, system, Goto, go
  <2>2. Serves(i)'
    BY <2>1, <1>1, <1>4 DEF Serves
  <2> QED
    BY <2>1, <2>2, StaysOrderly
<1>10. CASE StartStatistics(i) \/ Announce(i)
  <2>1. Goto(i, "statistics", "announce") \/ Goto(i, "announce", "idle")
    BY <1>1, <1>10 DEF StartStatistics, Announce
  <2>2. /\ UNCHANGED <<inbox, prepared, service, created, started, destroying, task>>
        /\ running' = running /\ bound' = bound /\ engine' = engine /\ running[i]
    BY <1>10, <2>1, <1>4 DEF StartStatistics, Announce, system, Goto, go
  <2>3. Serves(i)'
    BY <2>2, <1>1, <1>2 DEF Serves
  <2>4. CASE Goto(i, "statistics", "announce")
    BY <2>2, <2>3, <2>4, StaysOrderly
  <2>5. CASE Goto(i, "announce", "idle")
    BY <2>2, <2>3, <2>5, StaysOrderly
  <2> QED
    BY <2>1, <2>4, <2>5
<1>11. CASE Catch(i)
  <2>1. /\ Goto(i, "catch", "stopSelf")
        /\ \A j \in Instances \ {i} : running'[j] = running[j]
        /\ UNCHANGED <<inbox, prepared, service, created, started, destroying, task>>
        /\ ~running'[i]
    BY <1>11, <1>3 DEF Catch, system, Goto
  <2>2. engine' = nil
    BY <1>11, <1>4 DEF Catch, Goto, go
  <2> QED
    BY <2>1, <2>2, StaysOrderly
<1> QED
  BY <1>5, <1>6, <1>7, <1>8, <1>9, <1>10, <1>11

(* An instance that is let go of while no executor is occupied and no       *)
(* engine runs: it may be on its way to onDestroy.                         *)
LEMMA LetGo ==
    ASSUME IInv, Orderly, IInv', NEW isStarted \in BOOLEAN, NEW isBound,
           BringDown(isStarted, isBound), NoMail, MainFree,
           UNCHANGED <<prepared, destroying, running, shut>>,
           \A i \in Instances : Free(i)',
           \A i \in Instances : ~running[i],
           engine' = nil
    PROVE  Orderly'
<1>1. (\A i \in Instances : ~Busy(i) /\ tasks[i] = <<>> /\ at[i] = "idle")'
  BY DEF Busy, Free
<1>2. /\ started' = isStarted /\ created' = created
      /\ \/ service' = service /\ inbox' = inbox
         \/ /\ service # nil /\ service' = nil
            /\ inbox' = Append(inbox, [kind |-> "DESTROY", to |-> service, id |-> nil])
  BY DEF BringDown
<1>3. MainFree' /\ inbox = <<>>
  BY DEF MainFree, NoMail
<1>4. destroying'.stage # "stop" /\ destroying'.stage = "none"
  BY <1>3 DEF MainFree, NotDestroying
<1>5. Engines'
  BY <1>1, <1>4 DEF Engines
<1>6. \A i \in Instances : shut'[i] => i <= created /\ i # service
  BY DEF Orderly, Placed
<1>7. CASE service' = service /\ inbox' = inbox
  <2>1. NoMail' /\ \A m \in Messages : ~Delivers(m)'
    BY <1>3, <1>7 DEF NoMail, Delivers
  <2>2. \A k \in Instances : ~Ending(k)'
    BY <1>3, <2>1 DEF Ending, Doomed
  <2>3. OneTask'
    BY <1>1, <2>1 DEF OneTask
  <2>4. Placed'
    BY <1>1, <1>2, <1>3, <1>6, <1>7, <2>1, <2>2 DEF Placed
  <2> QED
    BY <1>5, <2>3, <2>4 DEF Orderly
<1>8. CASE /\ service # nil /\ service' = nil
           /\ inbox' = Append(inbox, [kind |-> "DESTROY", to |-> service, id |-> nil])
  <2>1. service \in Instances /\ service = created
    BY <1>8, BoundsAssumption DEF IInv, SystemTyped, Instances, nil
  <2>2. PICK m : m = [kind |-> "DESTROY", to |-> service, id |-> nil]
    OBVIOUS
  <2>3. m \in Messages /\ m.kind = "DESTROY" /\ m.to = service
    BY <2>1, <2>2 DEF Messages
  <2>4. inbox' = <<m>>
    BY <1>3, <1>8, <2>2
  <2>5. \A n \in Messages : Delivers(n)' => n = m
    BY <2>4 DEF Delivers
  <2>6. \A k \in Instances : Ending(k)' => k = created
    BY <1>3, <2>1, <2>3, <2>5 DEF Ending, Doomed
  <2>7. OneTask'
    BY <1>1, <2>3, <2>4 DEF OneTask, Delivers
  <2>8. \A i \in Instances : shut'[i] => i <= created' /\ i # service'
    BY <1>2, <1>6, <1>8, <2>1 DEF Instances, nil
  <2>9. \A k \in Instances : Ending(k)' => k <= created'
    BY <1>2, <2>6 DEF Instances
  <2>10. Placed'
    BY <1>1, <1>3, <1>8, <2>3, <2>5, <2>8, <2>9 DEF Placed
  <2> QED
    BY <1>5, <2>7, <2>10 DEF Orderly
<1> QED
  BY <1>2, <1>7, <1>8

(* stopTunnel, and the ends of the tasks that may end the instance.         *)
LEMMA StopOrderly ==
    ASSUME IInv, Orderly, IInv', NEW i \in Instances, StopTunnel(i)
    PROVE  Orderly'
<1>1. Goto(i, "stop", "stopSelf") /\ at[i] = "stop" /\ running \in [Instances -> BOOLEAN]
  BY DEF StopTunnel, Goto, IInv, UiTyped
<1>2. /\ \A j \in Instances : running[j] => j = i
      /\ engine # nil => running[i]
  BY <1>1, RunsHere
<1>3. /\ UNCHANGED <<inbox, prepared, service, created, started, destroying, task>>
      /\ \A j \in Instances \ {i} : running'[j] = running[j]
      /\ ~running'[i]
  BY <1>1 DEF StopTunnel, system, Goto
<1>4. engine' = nil
  BY <1>2 DEF StopTunnel, MobileStop, go, nil
<1> QED
  BY <1>1, <1>3, <1>4, StaysOrderly

LEMMA LastOrderly ==
    ASSUME IInv, Orderly, IInv', NEW i \in Instances, StopSelfAtEnd(i) \/ Query(i)
    PROVE  Orderly'
<1>1. PICK from \in {"stopSelf", "query"} : Goto(i, from, "idle")
  BY DEF StopSelfAtEnd, Query
<1>2. at[i] = from /\ at[i] # "idle" /\ at[i] # "up"
  BY <1>1 DEF Goto
<1>3. /\ UNCHANGED <<prepared, destroying, running, open, task, shut>> /\ engine' = engine
      /\ \A j \in Instances \ {i} : running'[j] = running[j]
      /\ tasks' = tasks
  BY <1>1 DEF StopSelfAtEnd, Query, go, Goto
<1>4. /\ \A j \in Instances : running[j] => j = i
      /\ engine # nil => running[i]
  BY <1>2, RunsHere
<1>5. CASE UNCHANGED <<service, created, started, bound, inbox>> /\ engine = nil
  <2>1. ~running[i]
    BY <1>5 DEF Orderly, Engines, Serves
  <2> QED
    BY <1>1, <1>2, <1>3, <1>5, <2>1, StaysOrderly
<1>6. CASE /\ Goto(i, "query", "idle") /\ running[i]
           /\ UNCHANGED <<service, created, started, bound, inbox>>
  <2>1. Serves(i) /\ i = service /\ service # nil
    BY <1>6, WorkingAlone DEF Orderly, Engines, Goto
  <2>2. Serves(i)'
    BY <1>3, <1>6, <2>1 DEF Serves
  <2> QED
    BY <1>3, <1>6, <2>2, StaysOrderly
<1>7. CASE BringDown(FALSE, bound) /\ i = service /\ engine = nil
  <2>1. ~running[i] /\ \A j \in Instances : ~running[j]
    BY <1>4, <1>7 DEF Orderly, Engines, Serves
  <2>2. /\ tasks[i] = <<>> /\ \A j \in Instances \ {i} : Free(j)
        /\ \A m \in Messages : Delivers(m) => m.kind = "DESTROY" /\ m.to = i
    BY <1>2, WorkingAlone DEF Orderly
  <2>3. \A j \in Instances : Free(j)'
    <3>1. at'[i] = "idle" /\ \A j \in Instances \ {i} : at'[j] = at[j]
      BY <1>1 DEF Goto, IInv, ExecutorTyped
    <3> QED
      BY <3>1, <1>3, <2>2 DEF Free
  <2>4. service # nil
    BY <1>7 DEF Instances, nil
  <2>5. NoMail /\ MainFree
    <3>1. \A k \in Instances : ~Ending(k)
      BY <2>4 DEF Orderly, Placed
    <3>2. MainFree
      BY <3>1 DEF Orderly, Placed, Ending
    <3>3. \A m \in Messages : ~Delivers(m)
      BY <2>2, <3>1 DEF Ending, Doomed
    <3> QED
      BY <3>2, <3>3 DEF Orderly, OneTask
  <2> QED
    BY <1>3, <1>7, <2>1, <2>3, <2>5, LetGo
<1>8. CASE StopSelfAtEnd(i)
  <2>1. engine = nil
    BY <1>8, <1>2 DEF Orderly, Engines, StopSelfAtEnd, Goto
  <2> QED
    BY <1>5, <1>7, <1>8, <2>1 DEF StopSelfAtEnd, StopSelf
<1>9. CASE Query(i)
  <2>1. CASE running[i]
    BY <1>6, <1>9, <2>1 DEF Query
  <2>2. CASE ~running[i]
    BY <1>4, <1>5, <1>7, <1>9, <2>2 DEF Query, StopSelfResult, StopSelf
  <2> QED
    BY <2>1, <2>2
<1> QED
  BY <1>8, <1>9

(* The executor takes the task that was waiting.                            *)
LEMMA TakeOrderly ==
    ASSUME IInv, Orderly, IInv', NEW i \in Instances, TakeTask(i)
    PROVE  Orderly'
<1>1. /\ at[i] = "idle" /\ tasks[i] # <<>>
      /\ UNCHANGED <<prepared, service, created, started, bound, inbox, destroying, shut, running,
                     engine, open>>
  BY DEF TakeTask, system, go
<1>2. Busy(i)
  BY <1>1 DEF Busy, Free
<1>3. PICK t \in Tasks : tasks[i] = <<t>>
  BY <1>1 DEF Orderly, OneTask, Queued
<1>4. \A j \in Instances \ {i} : at[j] = "idle" /\ tasks[j] = <<>>
  BY <1>2 DEF Orderly, OneTask, Busy, Free
<1>5. PICK stage \in {"restart", "query", "stop"} :
         /\ at' = [at EXCEPT ![i] = stage]
         /\ t.kind = "REVOKED" => stage = "stop"
  <2>1. Head(tasks[i]) = t
    BY <1>3
  <2> QED
    BY <2>1 DEF TakeTask
<1>6. tasks' = [tasks EXCEPT ![i] = <<>>]
  <2>1. Tail(<<t>>) = <<>>
    OBVIOUS
  <2>2. tasks' = [tasks EXCEPT ![i] = Tail(tasks[i])]
    BY DEF TakeTask
  <2> QED
    BY <1>3, <2>1, <2>2
<1>7. /\ at'[i] = stage /\ \A j \in Instances \ {i} : at'[j] = "idle"
      /\ \A j \in Instances : tasks'[j] = <<>>
  BY <1>4, <1>5, <1>6 DEF IInv, ExecutorTyped
<1>8. \A j \in Instances : Busy(j)' => j = i
  BY <1>7 DEF Busy, Free
<1>9. /\ \A m \in Messages : Delivers(m)' = Delivers(m)
      /\ \A k \in Instances : Ending(k)' = Ending(k) /\ Doomed(k)' = Doomed(k)
      /\ NoMail' = NoMail /\ MainFree' = MainFree
  BY <1>1 DEF Delivers, NoMail, MainFree, Ending, Doomed
<1>10. OneTask'
  BY <1>7, <1>8, <1>9 DEF Orderly, OneTask
<1>11. Leaving(i) => Leaving(i)'
  <2>1. ASSUME Leaving(i)
        PROVE  t.kind = "REVOKED"
    BY <1>1, <1>3, <2>1 DEF Leaving, Queued
  <2> QED
    BY <2>1, <1>1, <1>5, <1>7 DEF Leaving
<1>12. Placed'
  <2>1. \A j \in Instances : Busy(j)' => (j = service /\ started)' \/ Leaving(j)'
    BY <1>1, <1>2, <1>8, <1>11 DEF Orderly, Placed
  <2>2. \A m \in Messages : Delivers(m)' => m.kind = "DESTROY" /\ MainFree'
    BY <1>2, <1>9 DEF Orderly, Placed, Busy
  <2>3. \A k \in Instances : Ending(k)' =>
           service' = nil /\ k <= created' /\ \A j \in Instances : Busy(j)' => j = k
    BY <1>1, <1>2, <1>8, <1>9 DEF Orderly, Placed
  <2> QED
    BY <1>1, <1>9, <2>1, <2>2, <2>3 DEF Orderly, Placed
<1>13. Engines'
  <2>1. \A j \in Instances : running'[j] => Serves(j)'
    BY <1>1, <1>9 DEF Orderly, Engines, Serves
  <2>2. engine' # nil => \E j \in Instances : running'[j] \/ at'[j] = "up"
    BY <1>1, <1>4 DEF Orderly, Engines
  <2>3. (destroying.stage = "stop" => ~prepared)'
    BY <1>1 DEF Orderly, Engines
  <2> QED
    BY <1>7, <2>1, <2>2, <2>3 DEF Engines
<1> QED
  BY <1>10, <1>12, <1>13 DEF Orderly

(* Steps after which no intent and no onDestroy is under way.               *)
LEMMA CommandOrderly ==
    ASSUME IInv, Orderly, IInv', OnStartCommand
    PROVE  Orderly'
<1>1. inbox # <<>>
  BY DEF OnStartCommand
<1>2. PICK m \in Messages : Delivers(m)
  BY <1>1 DEF Orderly, OneTask, NoMail
<1>3. Head(inbox) = m /\ Tail(inbox) = <<>>
  BY <1>2 DEF Delivers
<1>4. m.kind # "DESTROY" /\ inbox' = <<>>
  BY <1>3 DEF OnStartCommand
<1>5. m.to = service /\ started /\ MainFree /\ \A i \in Instances : Free(i)
  BY <1>2, <1>4 DEF Orderly, Placed
<1>6. m.to \in Instances /\ service \in Instances /\ service # nil
  BY <1>5 DEF Messages, Instances, nil
<1>7. PICK t \in Tasks : t = [kind |-> m.kind, id |-> m.id]
  BY <1>4 DEF Messages, Tasks
<1>8. tasks' = [tasks EXCEPT ![service] = Append(tasks[service], t)]
  BY <1>3, <1>5, <1>7 DEF OnStartCommand
<1>9. Append(tasks[service], t) = <<t>>
  <2>1. tasks[service] = <<>> /\ Append(<<>>, t) = <<t>>
    BY <1>5, <1>6 DEF Free
  <2> QED
    BY <2>1
<1>10. UNCHANGED <<prepared, service, created, started, bound, destroying, task, at, shut,
                   running, engine, open>>
  BY DEF OnStartCommand, go
<1>11. /\ tasks'[service] = <<t>> /\ \A i \in Instances \ {service} : tasks'[i] = <<>>
       /\ \A i \in Instances : at'[i] = "idle"
  BY <1>5, <1>6, <1>8, <1>9, <1>10 DEF Free, IInv, ExecutorTyped
<1>12. \A i \in Instances : Busy(i)' => i = service
  BY <1>11 DEF Busy, Free
<1>13. NoMail' /\ MainFree' /\ (\A n \in Messages : ~Delivers(n)') /\ \A k \in Instances : ~Ending(k)'
  BY <1>4, <1>5, <1>10 DEF NoMail, Delivers, Ending, Doomed, MainFree
<1>14. OneTask'
  BY <1>11, <1>12, <1>13 DEF OneTask, Queued
<1>15. Placed'
  BY <1>5, <1>10, <1>12, <1>13 DEF Orderly, Placed
<1>16. Engines'
  <2>1. \A j \in Instances : running'[j] => Serves(j)'
    BY <1>6, <1>10 DEF Orderly, Engines, Serves
  <2> QED
    BY <2>1, <1>10, <1>11 DEF Orderly, Engines
<1> QED
  BY <1>14, <1>15, <1>16 DEF Orderly

(* onDestroy.                                                               *)
LEMMA DestroyOrderly ==
    ASSUME IInv, Orderly, IInv', OnDestroy
    PROVE  Orderly'
<1>1. inbox # <<>>
  BY DEF OnDestroy
<1>2. PICK m \in Messages : Delivers(m)
  BY <1>1 DEF Orderly, OneTask, NoMail
<1>3. Head(inbox) = m /\ Tail(inbox) = <<>>
  BY <1>2 DEF Delivers
<1> DEFINE k == m.to
<1>4. m.kind = "DESTROY" /\ inbox' = <<>> /\ MainFree
  BY <1>3 DEF OnDestroy
<1>5. k \in Instances /\ k # nil
  BY DEF Messages, Instances, nil
<1>6. Doomed(k) /\ Ending(k)
  BY <1>2, <1>4 DEF Doomed, Ending
<1>7. \A j \in Instances : Doomed(j) => j = k
  BY <1>2 DEF Doomed, Delivers
<1>8. /\ destroying'.instance = k
      /\ destroying'.stage = IF running[k] THEN "stop" ELSE "shutdown"
      /\ UNCHANGED <<prepared, service, created, started, bound, tasks, task, at, shut,
                     running, engine, open>>
  BY <1>3 DEF OnDestroy, executor, go
<1>9. service = nil /\ k <= created /\ \A i \in Instances : Busy(i) => i = k
  BY <1>5, <1>6 DEF Orderly, Placed
<1>10. NoMail' /\ ~MainFree' /\ (\A n \in Messages : ~Delivers(n)')
  BY <1>4, <1>5, <1>8 DEF NoMail, Delivers, MainFree, NotDestroying
<1>11. \A j \in Instances : Ending(j)' => j = k
  BY <1>8, <1>10 DEF Ending, Doomed
<1>12. \A j \in Instances : /\ Busy(j)' = Busy(j) /\ Free(j)' = Free(j)
                            /\ Leaving(j)' = Leaving(j)
  BY <1>8 DEF Busy, Free, Leaving, Queued
<1>13. OneTask'
  BY <1>8, <1>10, <1>12 DEF Orderly, OneTask, Queued
<1>14. Placed'
  <2>1. destroying'.stage # "none"
    BY <1>8
  <2> QED
    BY <1>5, <1>8, <1>9, <1>10, <1>11, <1>12, <2>1 DEF Orderly, Placed
<1>15. Engines'
  <2>1. ASSUME NEW j \in Instances, running[j]
        PROVE  Serves(j)' /\ j = k /\ ~prepared
    <3>1. Serves(j) /\ j # nil
      BY <2>1 DEF Orderly, Engines, Instances, nil
    <3>2. engine # nil /\ ~prepared /\ Doomed(j)
      BY <3>1, <1>4, <1>9 DEF Serves, MainFree, NotDestroying
    <3> QED
      BY <3>2, <2>1, <1>7, <1>8, <1>9 DEF Serves
  <2>2. (destroying.stage = "stop" => ~prepared)'
    BY <1>5, <1>8, <2>1
  <2> QED
    BY <1>8, <2>1, <2>2 DEF Orderly, Engines
<1> QED
  BY <1>13, <1>14, <1>15 DEF Orderly

LEMMA DestroyStopsOrderly ==
    ASSUME IInv, Orderly, IInv', DestroyStops
    PROVE  Orderly'
<1> DEFINE k == destroying.instance
<1>1. ~MainFree /\ destroying.stage = "stop"
  BY DEF DestroyStops, MainFree, NotDestroying
<1>2. /\ NoMail /\ k \in Instances /\ k # nil /\ Ending(k)
  BY <1>1 DEF Orderly, Placed, Ending, Instances, nil
<1>3. /\ service = nil /\ ~prepared /\ \A i \in Instances : Busy(i) => i = k
  BY <1>1, <1>2 DEF Orderly, Placed, Engines
<1>4. destroying' = [destroying EXCEPT !.stage = "shutdown"]
  BY DEF DestroyStops
<1>5. /\ destroying'.instance = k /\ destroying'.stage = "shutdown"
      /\ UNCHANGED <<inbox, prepared, service, created, started, bound, tasks, task, at, shut>>
      /\ engine' = nil
  BY <1>4 DEF DestroyStops, system, executor, MobileStop, nil, IInv, UiTyped
<1>6. ~MainFree'
  BY <1>5 DEF MainFree, NotDestroying
<1>7. /\ \A m \in Messages : Delivers(m)' = Delivers(m)
      /\ NoMail' = NoMail
      /\ \A j \in Instances : /\ Ending(j)' = Ending(j)
                              /\ Busy(j)' = Busy(j) /\ Free(j)' = Free(j)
                              /\ Leaving(j)' = Leaving(j)
  BY <1>1, <1>5, <1>6 DEF Delivers, NoMail, Ending, Doomed, Busy, Free, Leaving, Queued
<1>8. \A m \in Messages : ~Delivers(m)
  BY <1>2 DEF NoMail, Delivers
<1>9. OneTask'
  BY <1>5, <1>7 DEF Orderly, OneTask, Queued
<1>10. Placed'
  <2>1. destroying'.stage # "none"
    BY <1>5
  <2> QED
    BY <1>2, <1>5, <1>6, <1>7, <1>8, <2>1 DEF Orderly, Placed
<1>11. \A j \in Instances : ~running'[j]
  <2>1. ASSUME NEW j \in Instances, running[j]
        PROVE  j = k
    <3>1. Serves(j) /\ j # nil
      BY <2>1 DEF Orderly, Engines, Instances, nil
    <3> QED
      BY <3>1, <1>3, <1>8 DEF Serves, Doomed
  <2>2. running' = [running EXCEPT ![k] = FALSE] /\ running \in [Instances -> BOOLEAN]
    BY DEF DestroyStops, IInv, UiTyped
  <2> QED
    BY <1>2, <2>1, <2>2
<1>12. \A j \in Instances : at'[j] \in {"stop", "stopSelf", "idle"}
  <2>1. \A j \in Instances : Busy(j) => Leaving(j)
    BY <1>2, <1>3 DEF Orderly, Placed
  <2> QED
    BY <1>5, <2>1 DEF Leaving, Busy, Free
<1>13. Engines'
  BY <1>5, <1>11, <1>12 DEF Engines
<1> QED
  BY <1>9, <1>10, <1>13 DEF Orderly

LEMMA ShutDownOrderly ==
    ASSUME IInv, Orderly, IInv', DestroyShutsDown
    PROVE  Orderly'
<1> DEFINE k == destroying.instance
<1>1. ~MainFree /\ destroying.stage = "shutdown"
  BY DEF DestroyShutsDown, MainFree, NotDestroying
<1>2. /\ NoMail /\ k \in Instances /\ k # nil /\ Ending(k)
  BY <1>1 DEF Orderly, Placed, Ending, Instances, nil
<1>3. /\ service = nil /\ k <= created /\ \A i \in Instances : Busy(i) => i = k
  BY <1>2 DEF Orderly, Placed
<1>4. /\ destroying' = NotDestroying
      /\ UNCHANGED <<inbox, prepared, service, created, started, bound, task, at, running,
                     engine, open>>
      /\ shut' = [shut EXCEPT ![k] = TRUE] /\ tasks' = [tasks EXCEPT ![k] = <<>>]
  BY DEF DestroyShutsDown, system, go
<1>5. /\ tasks'[k] = <<>> /\ \A j \in Instances \ {k} : tasks'[j] = tasks[j]
      /\ \A j \in Instances : shut'[j] => j = k \/ shut[j]
  BY <1>2, <1>4 DEF IInv, ExecutorTyped
<1>6. /\ \A m \in Messages : ~Delivers(m)' /\ ~Delivers(m)
      /\ NoMail' /\ MainFree'
      /\ \A j \in Instances : ~Ending(j)'
  BY <1>2, <1>4 DEF Delivers, NoMail, Ending, Doomed, MainFree
<1>7. \A j \in Instances : Busy(j)' => Busy(j)
  BY <1>4, <1>5 DEF Busy, Free
<1>8. OneTask'
  BY <1>4, <1>5, <1>6, <1>7 DEF Orderly, OneTask, Queued
<1>9. Placed'
  <2>1. ASSUME NEW j \in Instances, Busy(j)'
        PROVE  Leaving(j)'
    <3>1. Leaving(j) /\ j = k
      BY <2>1, <1>2, <1>3, <1>7 DEF Orderly, Placed
    <3>2. at[k] # "idle"
      BY <2>1, <3>1, <1>4, <1>5 DEF Busy, Free
    <3> QED
      BY <3>1, <3>2, <1>4 DEF Leaving
  <2>2. \A j \in Instances : shut'[j] => j <= created' /\ j # service'
    BY <1>2, <1>3, <1>4, <1>5 DEF Orderly, Placed, Instances, nil
  <2> QED
    BY <1>6, <2>1, <2>2 DEF Placed
<1>10. Engines'
  <2>1. \A j \in Instances : ~running[j]
    <3>1. \A j \in Instances : running[j] => Serves(j) /\ j # nil
      BY DEF Orderly, Engines, Instances, nil
    <3> QED
      BY <3>1, <1>1, <1>3, <1>6 DEF Serves, Doomed
  <2>2. (destroying.stage = "stop" => ~prepared)'
    BY <1>4 DEF NotDestroying
  <2> QED
    BY <1>4, <2>1, <2>2 DEF Orderly, Engines
<1> QED
  BY <1>8, <1>9, <1>10 DEF Orderly

(* A user who acts at rest: one intent is on its way.                       *)
LEMMA UserOrderly ==
    ASSUME IInv, Orderly, IInv', Quiet, User
    PROVE  Orderly'
<1>1. PICK kind \in Kinds : Send(kind)
  BY DEF User, Connect, Disconnect, Recreate, OpenLink, Kinds
<1>2. /\ UNCHANGED <<destroying, tasks, task, at, shut, running, engine, open>>
      /\ prepared' = prepared \/ prepared' = TRUE
  BY DEF User, Connect, Disconnect, Recreate, OpenLink, executor, go
<1>3. inbox = <<>> /\ MainFree
  BY DEF Quiet
<1>4. /\ \A j \in Instances : running[j] =>
            j = service /\ started /\ bound = engine /\ engine # nil
      /\ engine # nil => service # nil /\ running[service]
      /\ \A i \in Instances : Free(i)
  BY AtRest
<1>5. PICK to : to = IF service = nil THEN created + 1 ELSE service
  OBVIOUS
<1>6. PICK m : m = [kind |-> kind, to |-> to, id |-> sent + 1]
  OBVIOUS
<1>7. /\ service' = to /\ started' = TRUE /\ bound' = bound
      /\ created' = IF service = nil THEN to ELSE created
      /\ inbox' = Append(inbox, m) /\ to <= Creatable
      /\ sent < (IF orderly THEN MaxIntents ELSE HastyIntents)
  BY <1>1, <1>5, <1>6 DEF Send
<1>8. inbox' = <<m>> /\ m.kind # "DESTROY" /\ m.to = to
  <2>1. Append(<<>>, m) = <<m>>
    OBVIOUS
  <2> QED
    BY <1>1, <1>3, <1>6, <1>7, <2>1 DEF Kinds
<1>9. m \in Messages
  BY <1>8 DEF IInv, SystemTyped
<1>10. \A n \in Messages : Delivers(n)' => n = m
  BY <1>8 DEF Delivers
<1>11. MainFree' /\ (\A i \in Instances : Free(i)' /\ ~Busy(i)') /\ ~NoMail'
  BY <1>2, <1>3, <1>4, <1>8 DEF MainFree, Free, Busy, NoMail
<1>12. \A k \in Instances : ~Ending(k)'
  BY <1>8, <1>10, <1>11 DEF Ending, Doomed
<1>13. OneTask'
  BY <1>8, <1>9, <1>11 DEF OneTask, Delivers, Free
<1>14. Placed'
  <2>1. \A i \in Instances : shut[i] => i <= created /\ i # service
    BY DEF Orderly, Placed
  <2>2. created \in Nat /\ created' \in Nat /\ service \in {nil, created}
    BY BoundsAssumption DEF IInv, SystemTyped
  <2>3. \A i \in Instances : shut'[i] => i <= created' /\ i # service'
    BY <1>2, <1>5, <1>7, <2>1, <2>2 DEF Instances
  <2> QED
    BY <1>7, <1>8, <1>10, <1>11, <1>12, <2>3 DEF Placed
<1>15. Engines'
  <2>1. \A j \in Instances : running'[j] => Serves(j)'
    BY <1>2, <1>4, <1>5, <1>7 DEF Serves, Instances, nil
  <2>2. destroying'.stage # "stop"
    BY <1>11 DEF MainFree, NotDestroying
  <2>3. \A i \in Instances : at'[i] = "idle"
    BY <1>11 DEF Free
  <2>4. engine' # nil => \E i \in Instances : running'[i]
    BY <1>2, <1>4, BoundsAssumption DEF IInv, SystemTyped, Instances, nil
  <2> QED
    BY <2>1, <2>2, <2>3, <2>4 DEF Engines
<1> QED
  BY <1>13, <1>14, <1>15 DEF Orderly

(* The interface is gone: the instance may end with it.                     *)
LEMMA UnbindOrderly ==
    ASSUME IInv, Orderly, IInv', Unbind
    PROVE  Orderly'
<1>1. /\ BringDown(started, nil) /\ bound \notin open /\ bound # nil
      /\ UNCHANGED <<prepared, destroying, tasks, task, at, shut, running, engine, open>>
  BY DEF Unbind, executor, go
<1>2. \A i \in Instances : at[i] # "start" /\ at[i] # "up" /\ ~(running[i] /\ bound = engine)
  BY <1>1 DEF Orderly, Engines, Serves, IInv, GoOwned
<1>3. CASE UNCHANGED <<service, inbox>>
  <2>1. /\ \A m \in Messages : Delivers(m)' = Delivers(m)
        /\ NoMail' = NoMail /\ MainFree' = MainFree
        /\ \A j \in Instances : Ending(j)' = Ending(j) /\ Doomed(j)' = Doomed(j)
    BY <1>1, <1>3 DEF Delivers, NoMail, Ending, Doomed, MainFree
  <2>2. \A j \in Instances : /\ Busy(j)' = Busy(j) /\ Free(j)' = Free(j)
                             /\ Leaving(j)' = Leaving(j)
    BY <1>1, <1>3 DEF Busy, Free, Leaving, Queued
  <2>3. started' = started /\ created' = created
    BY <1>1 DEF BringDown
  <2>4. OneTask'
    BY <1>1, <2>1, <2>2 DEF Orderly, OneTask, Queued
  <2>5. Placed'
    BY <1>1, <1>3, <2>1, <2>2, <2>3 DEF Orderly, Placed
  <2>6. \A j \in Instances : running'[j] => Serves(j)'
    BY <1>1, <1>2, <1>3, <2>1 DEF Orderly, Engines, Serves
  <2>7. Engines'
    BY <1>1, <1>2, <2>6 DEF Orderly, Engines
  <2> QED
    BY <2>4, <2>5, <2>7 DEF Orderly
<1>4. CASE ~started /\ service # nil
  <2>1. \A i \in Instances : Free(i)
    BY <1>4 DEF Orderly, Placed, Busy, Leaving
  <2>2. \A k \in Instances : ~Ending(k)
    BY <1>4 DEF Orderly, Placed
  <2>3. MainFree
    BY <2>2 DEF Orderly, Placed, Ending
  <2>4. \A m \in Messages : ~Delivers(m)
    <3>1. ASSUME NEW m \in Messages, Delivers(m)
          PROVE  FALSE
      <4>1. m.kind = "DESTROY"
        BY <1>4, <3>1 DEF Orderly, Placed
      <4>2. m.to \in Instances /\ Ending(m.to)
        BY <3>1, <4>1 DEF Ending, Doomed, Messages
      <4> QED
        BY <2>2, <4>2
    <3> QED
      BY <3>1
  <2>5. NoMail
    BY <2>4 DEF Orderly, OneTask
  <2>6. \A j \in Instances : ~running[j]
    BY <1>2, <1>4 DEF Orderly, Engines, Serves
  <2>7. engine = nil
    BY <1>2, <2>6 DEF Orderly, Engines
  <2>8. \A i \in Instances : Free(i)'
    BY <1>1, <2>1 DEF Free
  <2>9. started \in BOOLEAN
    BY DEF IInv, SystemTyped
  <2> QED
    BY <1>1, <2>3, <2>5, <2>6, <2>7, <2>8, <2>9, LetGo
<1> QED
  BY <1>1, <1>3, <1>4 DEF BringDown

(* The VPN is given away at rest: the instance that ran the engine is on    *)
(* its way to onDestroy, and its executor to stopTunnel.                   *)
LEMMA RevokeOrderly ==
    ASSUME IInv, Orderly, IInv', Quiet, Revoke
    PROVE  Orderly'
<1>1. inbox = <<>> /\ MainFree /\ bound \in open \cup {nil} /\ \A i \in Instances : at[i] # "start"
  BY DEF Quiet
<1>2. /\ \A j \in Instances : running[j] =>
            j = service /\ started /\ bound = engine /\ engine # nil
      /\ engine # nil => service # nil /\ running[service]
      /\ \A i \in Instances : Free(i)
  BY AtRest
<1>3. bound # nil /\ ~prepared' /\ BringDown(FALSE, nil)
      /\ UNCHANGED <<destroying, task, at, shut, running, engine, open>>
  BY DEF Revoke, go
<1>4. engine = bound /\ engine # nil
  BY <1>1, <1>3 DEF IInv, GoOwned, DescriptorsOwned
<1>5. PICK s \in Instances : s = service /\ s = created /\ s # nil
  BY <1>2, <1>4, BoundsAssumption DEF IInv, SystemTyped, Instances, nil
<1>6. PICK m : m = [kind |-> "DESTROY", to |-> s, id |-> nil]
  OBVIOUS
<1>7. PICK t : t = [kind |-> "REVOKED", id |-> nil]
  OBVIOUS
<1>8. service' = nil /\ inbox' = <<m>> /\ created' = created
  <2>1. Append(<<>>, m) = <<m>>
    OBVIOUS
  <2> QED
    BY <1>1, <1>3, <1>5, <1>6, <2>1 DEF BringDown
<1>9. m \in Messages /\ m.kind = "DESTROY" /\ m.to = s
  BY <1>6 DEF Messages
<1>10. t \in Tasks /\ t.kind = "REVOKED"
  BY <1>7 DEF Tasks, Kinds
<1>11. tasks'[s] = <<t>> /\ \A i \in Instances \ {s} : tasks'[i] = <<>>
  <2>1. tasks[s] = <<>> /\ Append(<<>>, t) = <<t>>
    BY <1>2 DEF Free
  <2>2. tasks' = [tasks EXCEPT ![s] = Append(tasks[s], t)]
    BY <1>5, <1>7 DEF Revoke
  <2>3. tasks'[s] = Append(tasks[s], t) /\ \A i \in Instances \ {s} : tasks'[i] = tasks[i]
    BY <2>2 DEF IInv, ExecutorTyped
  <2> QED
    BY <1>2, <2>1, <2>3 DEF Free
<1>12. \A i \in Instances : at'[i] = "idle"
  BY <1>2, <1>3 DEF Free
<1>13. \A i \in Instances : Busy(i)' => i = s
  BY <1>11, <1>12 DEF Busy, Free
<1>14. Leaving(s)'
  BY <1>3, <1>8, <1>10, <1>11, <1>12 DEF Leaving, Queued
<1>15. MainFree' /\ Delivers(m)' /\ \A n \in Messages : Delivers(n)' => n = m
  BY <1>1, <1>3, <1>8 DEF MainFree, Delivers
<1>16. Doomed(s)' /\ \A k \in Instances : Ending(k)' => k = s
  BY <1>9, <1>15 DEF Doomed, Ending
<1>17. OneTask'
  BY <1>9, <1>10, <1>11, <1>12, <1>13, <1>15 DEF OneTask, Queued
<1>18. Placed'
  <2>1. \A i \in Instances : shut'[i] => i <= created' /\ i # service'
    BY <1>3, <1>8 DEF Orderly, Placed, Instances, nil
  <2>2. s <= created'
    BY <1>5, <1>8 DEF Instances
  <2> QED
    BY <1>8, <1>9, <1>13, <1>14, <1>15, <1>16, <2>1, <2>2 DEF Placed
<1>19. Engines'
  <2>1. \A j \in Instances : running'[j] => Serves(j)'
    BY <1>2, <1>3, <1>4, <1>5, <1>8, <1>16 DEF Serves
  <2>2. \E j \in Instances : running'[j]
    BY <1>2, <1>3, <1>4, <1>5
  <2> QED
    BY <1>3, <1>12, <2>1, <2>2 DEF Engines
<1> QED
  BY <1>17, <1>18, <1>19 DEF Orderly

(* A broadcast arrives, or nothing happens.                                 *)
LEMMA SameOrderly ==
    ASSUME Orderly, UNCHANGED <<system, destroying, executor, running, go>>
    PROVE  Orderly'
<1>1. UNCHANGED <<prepared, service, created, started, bound, inbox, destroying, tasks, task,
                  at, shut, running, engine, open>>
  BY DEF system, executor, go
<1>2. /\ \A m \in Messages : Delivers(m)' = Delivers(m)
      /\ NoMail' = NoMail /\ MainFree' = MainFree
      /\ \A j \in Instances : /\ Ending(j)' = Ending(j) /\ Serves(j)' = Serves(j)
                              /\ Busy(j)' = Busy(j) /\ Free(j)' = Free(j)
                              /\ Leaving(j)' = Leaving(j)
  BY <1>1 DEF Delivers, NoMail, MainFree, Ending, Doomed, Serves, Busy, Free, Leaving, Queued
<1>3. OneTask'
  BY <1>1, <1>2 DEF Orderly, OneTask, Queued
<1>4. Placed'
  BY <1>1, <1>2 DEF Orderly, Placed
<1>5. Engines'
  BY <1>1, <1>2 DEF Orderly, Engines
<1> QED
  BY <1>3, <1>4, <1>5 DEF Orderly

LEMMA InitOrderly == Init => Orderly
<1> SUFFICES ASSUME Init
             PROVE  Orderly
  OBVIOUS
<1> USE DEF Init
<1>1. inbox = <<>> /\ MainFree /\ \A i \in Instances : Free(i) /\ ~Busy(i) /\ ~running[i] /\ ~shut[i]
  BY DEF MainFree, Free, Busy
<1>2. \A m \in Messages : ~Delivers(m)
  BY <1>1 DEF Delivers
<1>3. \A k \in Instances : ~Ending(k)
  BY <1>1, <1>2 DEF Ending, Doomed
<1>4. OneTask
  BY <1>1 DEF OneTask, NoMail, Free
<1>5. Placed
  BY <1>1, <1>2, <1>3 DEF Placed
<1>6. Engines
  BY <1>1 DEF Engines, Free, NotDestroying
<1> QED
  BY <1>4, <1>5, <1>6 DEF Orderly

LEMMA OrderlyStep ==
    ASSUME IInv, IInv', OrderlyInv, [Next]_vars
    PROVE  OrderlyInv'
<1> SUFFICES ASSUME orderly', orderly' = orderly
             PROVE  Orderly'
  BY DEF OrderlyInv, Next, vars
<1>1. Orderly
  BY DEF OrderlyInv
<1>2. CASE UNCHANGED vars \/ Rest \/ Receive
  BY <1>1, <1>2, SameOrderly DEF Rest, vars, Receive
<1>3. ASSUME NEW i \in Instances, Execute(i)
      PROVE  Orderly'
  BY <1>1, <1>3, TakeOrderly, StartOrderly, StopOrderly, LastOrderly DEF Execute
<1>4. CASE OnStartCommand \/ OnDestroy \/ DestroyStops \/ DestroyShutsDown
  BY <1>1, <1>4, CommandOrderly, DestroyOrderly, DestroyStopsOrderly, ShutDownOrderly
<1>5. CASE User
  <2>1. Quiet
    BY <1>5 DEF User, Connect, Disconnect, Recreate, OpenLink, Input
  <2> QED
    BY <1>1, <1>5, <2>1, UserOrderly
<1>6. CASE Unbind
  BY <1>1, <1>6, UnbindOrderly
<1>7. CASE Revoke
  <2>1. Quiet
    BY <1>7 DEF Revoke
  <2> QED
    BY <1>1, <1>7, <2>1, RevokeOrderly
<1> QED
  BY <1>2, <1>3, <1>4, <1>5, <1>6, <1>7 DEF Next, Main

(* The orderly application's inductive invariant.                           *)
THEOREM OrderlyInvAlways == Spec => []OrderlyInv
<1>1. Init => OrderlyInv
  BY InitOrderly DEF OrderlyInv
<1>2. IInv /\ IInv' /\ OrderlyInv /\ [Next]_vars => OrderlyInv'
  BY OrderlyStep
<1> QED
  BY <1>1, <1>2, AndroidInvariant, PTL DEF Spec

(* For a user who waits: whenever the application is at rest, an engine     *)
(* runs exactly if the instance the next intent goes to knows that it does. *)
THEOREM EngineOwned == Spec => []EngineIsOwned
<1>1. IInv /\ OrderlyInv => EngineIsOwned
  <2>1. ASSUME IInv, Orderly, Quiet
        PROVE  engine # nil <=> service # nil /\ running[service]
    <3>1. service # nil => service \in Instances
      BY <2>1, BoundsAssumption DEF IInv, SystemTyped, Instances, nil
    <3> QED
      BY <2>1, <3>1, AtRest
  <2> QED
    BY <2>1 DEF OrderlyInv, EngineIsOwned
<1> QED
  BY <1>1, AndroidInvariant, OrderlyInvAlways, PTL

-----------------------------------------------------------------------------
(* The lamp, for a user who waits and holds the VPN permission.             *)

Statuses == {"Connected", "Disconnected", "Error"}
Tells == WillShow = IF engine = nil THEN "red" ELSE "green"
Watched == orderly /\ prepared /\ ~imported

(* A broadcast will be what the lamp shows ...                              *)
LEMMA LastBroadcast ==
    ASSUME UiTyped, NEW status \in Statuses, Broadcast(status)
    PROVE  WillShow' = IF status = "Connected" THEN "green" ELSE "red"
<1>1. mail \in Seq(Statuses) /\ mail' = Append(mail, status)
  BY DEF UiTyped, Statuses, Broadcast
<1>2. mail' # <<>> /\ mail'[Len(mail')] = status
  BY <1>1
<1> QED
  BY <1>2 DEF WillShow

(* ... and its arrival changes nothing about that.                          *)
LEMMA ReceiveKeeps ==
    ASSUME UiTyped, Receive, ~imported
    PROVE  WillShow' = WillShow
<1>1. mail \in Seq(Statuses) /\ mail # <<>> /\ mail' = Tail(mail)
  BY DEF UiTyped, Statuses, Receive
<1>2. shown' = IF Head(mail) = "Connected" THEN "green" ELSE "red"
  BY <1>1 DEF Receive
<1>3. CASE Tail(mail) = <<>>
  <2>1. Len(mail) \in Nat /\ Len(mail) # 0 /\ Len(Tail(mail)) = Len(mail) - 1
    BY <1>1
  <2>2. Len(Tail(mail)) = 0
    <3>1. Len(<<>>) = 0
      OBVIOUS
    <3> QED
      BY <1>3, <3>1
  <2>3. Len(mail) = 1 /\ Head(mail) = mail[Len(mail)]
    BY <1>1, <2>1, <2>2
  <2> QED
    BY <1>1, <1>2, <1>3, <2>3 DEF WillShow
<1>4. CASE Tail(mail) # <<>>
  <2>1. Tail(mail)[Len(Tail(mail))] = mail[Len(mail)]
    BY <1>1, <1>4
  <2> QED
    BY <1>1, <1>4, <2>1 DEF WillShow
<1> QED
  BY <1>3, <1>4

(* Nobody is told anything new, and nobody has to be.                       *)
LEMMA SameLamp ==
    ASSUME LampInv, UNCHANGED <<orderly, prepared, imported, shown, mail, engine>>,
           Watched /\ Answered' => Answered
    PROVE  LampInv'
  BY DEF LampInv, WillShow, Watched

LEMMA LampInExecutor ==
    ASSUME IInv, IInv', Orderly, Orderly', LampInv, NEW i \in Instances, Execute(i),
           UNCHANGED orderly
    PROVE  LampInv'
<1>1. CASE TakeTask(i)
  <2>1. PICK stage \in {"restart", "query", "stop"} : at' = [at EXCEPT ![i] = stage]
    BY <1>1 DEF TakeTask
  <2>2. ~Answered'
    BY <2>1 DEF Answered, IInv, ExecutorTyped
  <2> QED
    BY <2>2 DEF LampInv
<1>2. CASE Restart(i) \/ CheckProxy(i) \/ Establish(i) \/ StartEngine(i) \/ Up(i)
           \/ StartStatistics(i)
  <2>1. PICK to \in {"check", "establish", "start", "up", "catch", "statistics", "announce"} :
           at' = [at EXCEPT ![i] = to]
    BY <1>2 DEF Restart, CheckProxy, Establish, StartEngine, Up, StartStatistics, Goto
  <2>2. ~Answered'
    BY <2>1 DEF Answered, IInv, ExecutorTyped
  <2> QED
    BY <2>2 DEF LampInv
<1>3. CASE Announce(i)
  <2>1. running[i] /\ engine' = engine
    BY <1>3 DEF Announce, Goto, Orderly, Engines, go
  <2>2. engine' # nil
    BY <2>1 DEF Orderly, Engines, Serves
  <2>3. WillShow' = "green"
    BY <1>3, LastBroadcast DEF Announce, IInv, Statuses
  <2> QED
    BY <2>2, <2>3 DEF LampInv
<1>4. CASE Catch(i) \/ StopTunnel(i)
  <2>1. at'[i] = "stopSelf"
    BY <1>4 DEF Catch, StopTunnel, Goto, IInv, ExecutorTyped
  <2>2. engine' = nil
    BY <2>1 DEF Orderly, Engines
  <2>3. WillShow' = "red"
    BY <1>4, LastBroadcast DEF Catch, StopTunnel, IInv, Statuses
  <2> QED
    BY <2>2, <2>3 DEF LampInv
<1>5. CASE StopSelfAtEnd(i)
  <2>1. at[i] = "stopSelf" /\ tasks' = tasks /\ \A j \in Instances \ {i} : at'[j] = at[j]
    BY <1>5 DEF StopSelfAtEnd, Goto, IInv, ExecutorTyped
  <2>2. ~Summoned
    BY <2>1, WorkingAlone DEF Orderly
  <2>3. Answered' => Answered
    BY <2>1, <2>2 DEF Answered
  <2> QED
    BY <1>5, <2>3, SameLamp DEF StopSelfAtEnd, ui, go
<1>6. CASE Query(i)
  <2>1. engine' = engine /\ at[i] = "query"
    BY <1>6 DEF Query, go, Goto
  <2>2. CASE running[i]
    <3>1. engine # nil
      BY <2>2 DEF Orderly, Engines, Serves
    <3>2. WillShow' = "green"
      BY <1>6, <2>2, LastBroadcast DEF Query, IInv, Statuses
    <3> QED
      BY <2>1, <3>1, <3>2 DEF LampInv
  <2>3. CASE ~running[i]
    <3>1. engine = nil
      BY <2>1, <2>3, RunsHere
    <3>2. WillShow' = "red"
      BY <1>6, <2>3, LastBroadcast DEF Query, IInv, Statuses
    <3> QED
      BY <2>1, <3>1, <3>2 DEF LampInv
  <2> QED
    BY <2>2, <2>3
<1> QED
  BY <1>1, <1>2, <1>3, <1>4, <1>5, <1>6 DEF Execute

LEMMA LampOnMain ==
    ASSUME IInv, IInv', Orderly, Orderly', LampInv, Main, UNCHANGED orderly
    PROVE  LampInv'
<1>1. CASE OnStartCommand
  <2>1. PICK m \in Messages : Delivers(m)
    BY <1>1 DEF OnStartCommand, Orderly, OneTask, NoMail
  <2>2. Head(inbox) = m /\ m.to \in Instances
    BY <2>1 DEF Delivers, Messages
  <2>3. PICK t : t = [kind |-> m.kind, id |-> m.id]
    OBVIOUS
  <2>4. tasks' = [tasks EXCEPT ![m.to] = Append(tasks[m.to], t)]
    BY <1>1, <2>2, <2>3 DEF OnStartCommand
  <2>5. tasks[m.to] \in Seq(Tasks)
    BY <2>2 DEF IInv, ExecutorTyped
  <2>6. Append(tasks[m.to], t) # <<>>
    BY <2>5
  <2>7. ~Answered'
    BY <2>2, <2>4, <2>6 DEF Answered, IInv, ExecutorTyped
  <2> QED
    BY <2>7 DEF LampInv
<1>2. CASE OnDestroy
  <2>1. PICK m \in Messages : Delivers(m)
    BY <1>2 DEF OnDestroy, Orderly, OneTask, NoMail
  <2>2. Head(inbox) = m /\ m.kind = "DESTROY"
    BY <1>2, <2>1 DEF Delivers, OnDestroy
  <2>3. ~Summoned
    BY <2>1, <2>2 DEF Summoned, Delivers
  <2>4. Answered' => Answered
    BY <1>2, <2>3 DEF Answered, OnDestroy, executor
  <2> QED
    BY <1>2, <2>4, SameLamp DEF OnDestroy, ui, go
<1>3. CASE DestroyStops
  <2>1. ~prepared'
    BY <1>3 DEF DestroyStops, Orderly, Engines, system
  <2> QED
    BY <2>1 DEF LampInv
<1>4. CASE DestroyShutsDown
  <2>1. ~MainFree
    BY <1>4 DEF DestroyShutsDown, MainFree, NotDestroying
  <2>2. destroying.instance \in Instances /\ Ending(destroying.instance) /\ NoMail
    BY <2>1 DEF Orderly, Placed, Ending
  <2>3. service = nil
    BY <2>2 DEF Orderly, Placed
  <2>4. ~Summoned
    BY <2>2 DEF Summoned, NoMail, Delivers
  <2>5. \A j \in Instances : prepared => Free(j)
    BY <2>3 DEF Orderly, Placed, Leaving, Busy, Instances, nil
  <2>6. Watched /\ Answered' => Answered
    BY <2>4, <2>5 DEF Answered, Free, Watched
  <2> QED
    BY <1>4, <2>6, SameLamp DEF DestroyShutsDown, ui, go, system
<1>5. CASE Receive
  <2>1. UNCHANGED <<prepared, imported, inbox, tasks, at, engine>>
    BY <1>5 DEF Receive, system, executor, go
  <2>2. Answered' = Answered
    BY <2>1 DEF Answered, Summoned, Delivers
  <2>3. ~imported => WillShow' = WillShow
    BY <1>5, ReceiveKeeps DEF IInv
  <2> QED
    BY <2>1, <2>2, <2>3 DEF LampInv
<1> QED
  BY <1>1, <1>2, <1>3, <1>4, <1>5 DEF Main

LEMMA LampStep ==
    ASSUME IInv, IInv', OrderlyInv, OrderlyInv', LampInv, [Next]_vars
    PROVE  LampInv'
<1> SUFFICES ASSUME orderly', orderly' = orderly
             PROVE  LampInv'
  BY DEF LampInv, Next, vars
<1>1. Orderly /\ Orderly'
  BY DEF OrderlyInv
<1>2. CASE UNCHANGED vars \/ Rest
  <2>1. UNCHANGED <<prepared, imported, shown, mail, engine, inbox, tasks, at>>
    BY <1>2 DEF Rest, vars, ui, system, executor, go
  <2>2. Answered' = Answered
    BY <2>1 DEF Answered, Summoned, Delivers
  <2> QED
    BY <2>1, <2>2, SameLamp
<1>3. ASSUME NEW i \in Instances, Execute(i)
      PROVE  LampInv'
  BY <1>1, <1>3, LampInExecutor
<1>4. CASE Main
  BY <1>1, <1>4, LampOnMain
<1>5. CASE User
  <2>1. PICK kind \in Kinds : Send(kind)
    BY <1>5 DEF User, Connect, Disconnect, Recreate, OpenLink, Kinds
  <2>2. inbox = <<>>
    BY <1>5 DEF User, Connect, Disconnect, Recreate, OpenLink, Input, Quiet
  <2>3. PICK m : inbox' = Append(inbox, m) /\ m.kind = kind
    BY <2>1 DEF Send
  <2>4. inbox' = <<m>> /\ m.kind # "DESTROY"
    BY <2>2, <2>3 DEF Kinds
  <2>5. m \in Messages
    BY <2>4 DEF IInv, SystemTyped
  <2>6. Summoned'
    BY <2>4, <2>5 DEF Summoned, Delivers
  <2> QED
    BY <2>6 DEF LampInv, Answered
<1>6. CASE Unbind
  <2>1. /\ UNCHANGED <<prepared, imported, shown, mail, engine, tasks, at>>
        /\ BringDown(started, nil)
    BY <1>6 DEF Unbind, ui, executor, go
  <2>2. inbox' = inbox \/ \E m : inbox' = Append(inbox, m)
    BY <2>1 DEF BringDown
  <2>3. Summoned => Summoned'
    <3>1. CASE inbox' = inbox
      BY <3>1 DEF Summoned, Delivers
    <3>2. CASE inbox' # inbox
      <4>1. ~started /\ service # nil
        BY <2>1, <3>2 DEF BringDown
      <4> QED
        BY <1>1, <4>1 DEF Orderly, Placed, Summoned
    <3> QED
      BY <3>1, <3>2
  <2>4. Answered' => Answered
    BY <2>1, <2>3 DEF Answered
  <2> QED
    BY <2>1, <2>4, SameLamp
<1>7. CASE Revoke
  <2>1. ~prepared'
    BY <1>7 DEF Revoke
  <2> QED
    BY <2>1 DEF LampInv
<1> QED
  BY <1>2, <1>3, <1>4, <1>5, <1>6, <1>7 DEF Next

(* The lamp's inductive invariant.                                          *)
THEOREM LampInvAlways == Spec => []LampInv
<1>1. Init => LampInv
  BY DEF Init, LampInv
<1>2. IInv /\ IInv' /\ OrderlyInv /\ OrderlyInv' /\ LampInv /\ [Next]_vars => LampInv'
  BY LampStep
<1> QED
  BY <1>1, <1>2, AndroidInvariant, OrderlyInvAlways, PTL DEF Spec

(* README.md, "red means disconnected or failed", and green that an engine  *)
(* serves the VPN: true at rest, for a user who waits, opened no link and   *)
(* has not lost the permission.                                            *)
THEOREM LampIsTrueAtRest == Spec => []LampTellsTruth
<1>1. LampInv => LampTellsTruth
  <2>1. ASSUME Quiet
        PROVE  Answered /\ WillShow = shown
    BY <2>1 DEF Quiet, Answered, WillShow, Summoned, Delivers
  <2> QED
    BY <2>1 DEF LampInv, LampTellsTruth
<1> QED
  BY <1>1, LampInvAlways, PTL

=============================================================================

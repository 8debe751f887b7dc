---------------------------- MODULE DesktopClient ----------------------------
(***************************************************************************)
(* One call of client.Run (client/client.go): it inspects the host, applies *)
(* the steps of a network plan, starts the embedded tun2socks engine before *)
(* or after them, stays connected until its context is cancelled, and takes *)
(* everything down again.                                                  *)
(*                                                                         *)
(* The actors are the goroutine of Run, the goroutine of watchStatistics,   *)
(* the commands Run starts (their effect on the host is a step of its own:  *)
(* a command can be killed after it), and whoever cancels the context.     *)
(*                                                                         *)
(* A step of the plan is its index. What a step does to the host is         *)
(* abstracted to "setting i is changed"; which settings the kernel drops    *)
(* together is a constant (LivesOn, OnDevice), derived from the concrete    *)
(* commands of LinuxNetwork for Linux.                                      *)
(***************************************************************************)
EXTENDS Integers

CONSTANTS
    OS,         \* "linux", "darwin" or "windows"
    N,          \* number of steps of the plan, Len(plan.Steps)
    LivesOn,    \* LivesOn[i]: settings that vanish when setting i is undone
    OnDevice    \* settings that vanish when the engine closes its TUN device

Steps == 1..N

ASSUME OSAssumption == OS \in {"linux", "darwin", "windows"}

ASSUME NAssumption == N \in Nat \ {0}

(* A setting only depends on settings of earlier steps: an address and a   *)
(* route need the interface, the interface needs nothing later.            *)
ASSUME LivesOnAssumption ==
    /\ LivesOn \in [Steps -> SUBSET Steps]
    /\ \A i \in Steps : \A j \in LivesOn[i] : i < j

(* On Linux "ip tuntap add" makes a persistent device: closing its file     *)
(* descriptor drops nothing.                                               *)
ASSUME OnDeviceAssumption ==
    /\ OnDevice \subseteq Steps
    /\ OS = "linux" => OnDevice = {}

BeforeProcess == OS = "linux"          \* plan.Timing

VARIABLES
    pc,         \* where Run is
    options,    \* client.Options, as far as control depends on it
    cancelled,  \* the context of Run is done
    err,        \* Run returns an error
    applied,    \* Len(session.applied)
    cmd,        \* the command of step applied + 1 while apply runs it
    expired,    \* the 20 s context of rollbackWithTimeout is done
    engine,     \* the embedded engine
    watcher,    \* the goroutine of watchStatistics
    changed,    \* settings of the host that differ from before the run
    orphaned,   \* settings a command changed although it returned an error
    stuck       \* settings whose undo command returned an error

vars == <<pc, options, cancelled, err, applied, cmd, expired, engine,
          watcher, changed, orphaned, stuck>>

host == <<changed, orphaned, stuck>>
rest == <<applied, cmd, expired, engine, watcher>>

Stages == {"validate", "detect", "resolve", "route", "plan", "prepare"}

TypeOK ==
    /\ pc \in Stages \cup {"apply", "startEngine", "waitInterface", "connected",
                           "joinStatistics", "rollback", "stopEngine", "returned"}
    /\ options \in [dryRun : BOOLEAN, interface : BOOLEAN,
                    literal : BOOLEAN, statistics : BOOLEAN]
    /\ cancelled \in BOOLEAN
    /\ err \in BOOLEAN
    /\ applied \in 0..N
    /\ cmd \in {"none", "running", "effective"}
    /\ expired \in BOOLEAN
    /\ engine \in {"new", "failed", "running", "stopped"}
    /\ watcher \in {"none", "first", "ticking", "done"}
    /\ changed \subseteq Steps
    /\ orphaned \subseteq Steps
    /\ stuck \subseteq Steps

(* interface: --interface given; literal: the proxy host is an IP address;  *)
(* statistics: options.Statistics is set (the desktop application does).    *)
Init ==
    /\ pc = "validate"
    /\ options \in [dryRun : BOOLEAN, interface : BOOLEAN,
                    literal : BOOLEAN, statistics : BOOLEAN]
    /\ cancelled = FALSE
    /\ err = FALSE
    /\ applied = 0
    /\ cmd = "none"
    /\ expired = FALSE
    /\ engine = "new"
    /\ watcher = "none"
    /\ changed = {}
    /\ orphaned = {}
    /\ stuck = {}

-----------------------------------------------------------------------------
(* Inspection: nothing on the host is changed. A command or a lookup whose *)
(* context is done fails.                                                  *)

Pass(stage, next) ==
    /\ pc = stage
    /\ pc' = next
    /\ UNCHANGED <<options, cancelled, err, rest, host>>

Fail(stage) ==
    /\ pc = stage
    /\ pc' = "returned"
    /\ err' = TRUE
    /\ UNCHANGED <<options, cancelled, rest, host>>

(* Proxy syntax, platform, administrator rights. *)
Validate == Pass("validate", "detect") \/ Fail("validate")

(* network.Detect; its error only matters to a real run that has no        *)
(* --interface to fall back on.                                            *)
Detect ==
    \/ /\ ~cancelled \/ options.dryRun \/ options.interface
       /\ Pass("detect", "resolve")
    \/ /\ ~options.dryRun /\ ~options.interface
       /\ Fail("detect")

(* An IP address needs no resolver and is not affected by the context. *)
Resolve ==
    \/ /\ ~cancelled \/ options.literal
       /\ Pass("resolve", "route")
    \/ /\ ~options.literal
       /\ Fail("resolve")

DetectRoute ==
    \/ /\ ~cancelled \/ options.dryRun
       /\ Pass("route", "plan")
    \/ /\ ~options.dryRun
       /\ Fail("route")

(* Only the Linux plan runs commands: it reads the rp_filter values to      *)
(* restore. A dry run ends here.                                           *)
BuildPlan ==
    \/ /\ ~cancelled \/ ~BeforeProcess
       /\ Pass("plan", IF options.dryRun THEN "returned" ELSE "prepare")
    \/ /\ BeforeProcess
       /\ Fail("plan")

(* wintun.dll is cached or downloaded, and loaded. *)
PrepareNative ==
    \/ Pass("prepare", IF BeforeProcess THEN "apply" ELSE "startEngine")
    \/ /\ OS = "windows"
       /\ Fail("prepare")

Inspect ==
    Validate \/ Detect \/ Resolve \/ DetectRoute \/ BuildPlan \/ PrepareNative

-----------------------------------------------------------------------------
(* session.apply. The context can be done before a command starts, in       *)
(* which case exec does not start it, or while it runs, in which case exec  *)
(* kills it and reports an error whether or not it took effect.             *)

next == applied + 1

(* rollbackWithTimeout: a fresh 20 s context, not derived from Run's. *)
BeginRollback ==
    /\ pc' = "rollback"
    /\ expired' = FALSE

Spawn ==
    /\ pc = "apply" /\ cmd = "none" /\ applied < N
    /\ ~cancelled
    /\ cmd' = "running"
    /\ UNCHANGED <<pc, options, cancelled, err, applied, expired, engine, watcher, host>>

(* Mutant: apply returns the error without a rollback. *)
Refused_Returns ==
    /\ pc = "apply" /\ cmd = "none" /\ applied < N
    /\ cancelled
    /\ err' = TRUE
    /\ pc' = "returned"
    /\ UNCHANGED <<options, cancelled, rest, host>>

Refused ==
    /\ pc = "apply" /\ cmd = "none" /\ applied < N
    /\ cancelled
    /\ err' = TRUE
    /\ BeginRollback
    /\ UNCHANGED <<options, cancelled, applied, cmd, engine, watcher, host>>

TakesEffect ==
    /\ cmd = "running"
    /\ cmd' = "effective"
    /\ changed' = changed \cup {next}
    /\ UNCHANGED <<pc, options, cancelled, err, applied, expired, engine, watcher,
                   orphaned, stuck>>

(* s.applied = append(s.applied, step) *)
Succeeds ==
    /\ cmd = "effective"
    /\ cmd' = "none"
    /\ applied' = next
    /\ UNCHANGED <<pc, options, cancelled, err, expired, engine, watcher, host>>

(* Mutants: the step is appended before the error is looked at; the error   *)
(* is logged and ignored.                                                  *)
Errors_Appends ==
    /\ cmd = "running"
    /\ cmd' = "none"
    /\ err' = TRUE
    /\ applied' = next
    /\ BeginRollback
    /\ UNCHANGED <<options, cancelled, engine, watcher, host>>

Errors_Ignored ==
    /\ cmd = "running"
    /\ cmd' = "none"
    /\ applied' = next
    /\ UNCHANGED <<pc, options, cancelled, err, expired, engine, watcher, host>>

(* The command exits with an error, or is killed, before it takes effect. *)
Errors ==
    /\ cmd = "running"
    /\ cmd' = "none"
    /\ err' = TRUE
    /\ BeginRollback
    /\ UNCHANGED <<options, cancelled, applied, engine, watcher, host>>

(* Mutant: commands are killed for another reason than the context, a       *)
(* timeout of their own.                                                   *)
Killed_ByTimeout ==
    /\ cmd = "effective"
    /\ cmd' = "none"
    /\ err' = TRUE
    /\ orphaned' = orphaned \cup {next}
    /\ BeginRollback
    /\ UNCHANGED <<options, cancelled, applied, engine, watcher, changed, stuck>>

(* The command is killed after it took effect: its step is not appended. *)
Killed ==
    /\ cmd = "effective"
    /\ cancelled
    /\ cmd' = "none"
    /\ err' = TRUE
    /\ orphaned' = orphaned \cup {next}
    /\ BeginRollback
    /\ UNCHANGED <<options, cancelled, applied, engine, watcher, changed, stuck>>

(* OnConnected is called; the statistics goroutine starts if asked for. *)
Connect ==
    /\ pc' = "connected"
    /\ watcher' = IF options.statistics THEN "first" ELSE "none"

Applied ==
    /\ pc = "apply" /\ applied = N
    /\ IF BeforeProcess
       THEN pc' = "startEngine" /\ UNCHANGED watcher
       ELSE Connect
    /\ UNCHANGED <<options, cancelled, err, applied, cmd, expired, engine, host>>

-----------------------------------------------------------------------------
(* The engine. Start takes no context; when it fails it has closed its own  *)
(* device, and Run rolls back what it applied (nothing where the plan comes *)
(* after the engine).                                                      *)

Started ==
    /\ pc = "startEngine"
    /\ engine' = "running"
    /\ IF BeforeProcess
       THEN Connect
       ELSE pc' = "waitInterface" /\ UNCHANGED watcher
    /\ UNCHANGED <<options, cancelled, err, applied, cmd, expired, host>>

(* Mutant: the error is returned, the rollback forgotten. *)
StartFails_Returns ==
    /\ pc = "startEngine"
    /\ engine' = "failed"
    /\ err' = TRUE
    /\ pc' = "returned"
    /\ UNCHANGED <<options, cancelled, applied, cmd, expired, watcher, host>>

StartFails ==
    /\ pc = "startEngine"
    /\ engine' = "failed"
    /\ err' = TRUE
    /\ BeginRollback
    /\ UNCHANGED <<options, cancelled, applied, cmd, watcher, host>>

(* The interface is looked up before the context is: a cancelled run still *)
(* goes on to apply when the interface is there.                           *)
InterfaceAppears == Pass("waitInterface", "apply")

(* The 12 s deadline, or the context. *)
WaitGivesUp ==
    /\ pc = "waitInterface"
    /\ pc' = "stopEngine"
    /\ err' = TRUE
    /\ UNCHANGED <<options, cancelled, rest, host>>

-----------------------------------------------------------------------------
(* Connected, and the orderly way down. *)

Cancel ==
    /\ pc # "returned"
    /\ ~cancelled
    /\ cancelled' = TRUE
    /\ UNCHANGED <<pc, options, err, rest, host>>

(* <-ctx.Done(), stopStatistics() *)
Disconnect ==
    /\ pc = "connected"
    /\ cancelled
    /\ IF watcher = "none"
       THEN BeginRollback
       ELSE pc' = "joinStatistics" /\ UNCHANGED expired
    /\ UNCHANGED <<options, cancelled, err, applied, cmd, engine, watcher, host>>

(* watchStatistics reports once when it starts ... *)
FirstReport ==
    /\ watcher = "first"
    /\ watcher' = "ticking"
    /\ UNCHANGED <<pc, options, cancelled, err, applied, cmd, expired, engine, host>>

(* Mutant: the loop only looks at its ticker. *)
FinalReport_TickerOnly ==
    /\ watcher = "ticking"
    /\ pc = "joinStatistics"
    /\ UNCHANGED vars

(* ... and once more, with the final totals, when its context is done. *)
FinalReport ==
    /\ watcher = "ticking"
    /\ pc = "joinStatistics"
    /\ watcher' = "done"
    /\ UNCHANGED <<pc, options, cancelled, err, applied, cmd, expired, engine, host>>

(* <-statisticsDone *)
Joined ==
    /\ pc = "joinStatistics"
    /\ watcher = "done"
    /\ BeginRollback
    /\ UNCHANGED <<options, cancelled, err, applied, cmd, engine, watcher, host>>

-----------------------------------------------------------------------------
(* session.rollback: the undo commands from the last applied step to the    *)
(* first. An error is only logged.                                         *)

Undone(S) == S \ ({applied} \cup LivesOn[applied])

UndoSucceeds ==
    /\ pc = "rollback" /\ applied > 0
    /\ ~expired
    /\ changed' = Undone(changed)
    /\ applied' = applied - 1
    /\ UNCHANGED <<pc, options, cancelled, err, cmd, expired, engine, watcher,
                   orphaned, stuck>>

(* The command exits with an error, or the context is done and exec does    *)
(* not start it.                                                           *)
UndoFails ==
    /\ pc = "rollback" /\ applied > 0
    /\ stuck' = stuck \cup {applied}
    /\ applied' = applied - 1
    /\ UNCHANGED <<pc, options, cancelled, err, cmd, expired, engine, watcher,
                   changed, orphaned>>

(* Mutant: the undo commands run without a deadline. *)
UndoTimesOut_Never ==
    /\ FALSE
    /\ UNCHANGED vars

(* The 20 s are over while an undo command runs: it is killed, before or    *)
(* after its effect.                                                       *)
UndoTimesOut ==
    /\ pc = "rollback" /\ applied > 0
    /\ ~expired
    /\ expired' = TRUE
    /\ changed' \in {changed, Undone(changed)}
    /\ stuck' = stuck \cup {applied}
    /\ applied' = applied - 1
    /\ UNCHANGED <<pc, options, cancelled, err, cmd, engine, watcher, orphaned>>

(* Mutant: a failed apply returns without stopping the engine. *)
RolledBack_KeepsEngine ==
    /\ pc = "rollback" /\ applied = 0
    /\ pc' = IF engine = "running" /\ ~err THEN "stopEngine" ELSE "returned"
    /\ UNCHANGED <<options, cancelled, err, rest, host>>

RolledBack ==
    /\ pc = "rollback" /\ applied = 0
    /\ pc' = IF engine = "running" THEN "stopEngine" ELSE "returned"
    /\ UNCHANGED <<options, cancelled, err, rest, host>>

(* Mutant: the engine is stopped before the settings are restored, which    *)
(* then happens on a device that has gone.                                 *)
StopEngine_First ==
    /\ pc \in {"rollback", "stopEngine"} /\ engine = "running"
    /\ engine' = "stopped"
    /\ changed' = changed \ OnDevice
    /\ pc' = IF pc = "stopEngine" THEN "returned" ELSE pc
    /\ UNCHANGED <<options, cancelled, err, applied, cmd, expired, watcher,
                   orphaned, stuck>>

(* embedded.Stop(): the device goes, and with it what the kernel keeps on it. *)
StopEngine ==
    /\ pc = "stopEngine"
    /\ engine' = "stopped"
    /\ changed' = changed \ OnDevice
    /\ pc' = "returned"
    /\ UNCHANGED <<options, cancelled, err, applied, cmd, expired, watcher,
                   orphaned, stuck>>

Returned ==
    /\ pc = "returned"
    /\ UNCHANGED vars

-----------------------------------------------------------------------------

Apply == Spawn \/ Refused \/ TakesEffect \/ Succeeds \/ Errors \/ Killed \/ Applied

StartEngine == Started \/ StartFails \/ InterfaceAppears \/ WaitGivesUp

Connected == Disconnect \/ FirstReport \/ FinalReport \/ Joined

Rollback == UndoSucceeds \/ UndoFails \/ UndoTimesOut \/ RolledBack

Next ==
    Inspect \/ Apply \/ StartEngine \/ Connected \/ Rollback \/ StopEngine
    \/ Cancel \/ Returned

(* What the code alone brings about. A command of apply that neither takes  *)
(* effect nor exits is fair behaviour until its context is done (exec then  *)
(* kills it); an undo command may hang until its 20 s are over. Nothing     *)
(* obliges anybody to cancel.                                              *)
KillRunning == cancelled /\ Errors

Fairness ==
    /\ WF_vars(Inspect)
    /\ WF_vars(Spawn \/ Refused \/ Applied)
    /\ WF_vars(KillRunning)
    /\ WF_vars(Killed)
    /\ WF_vars(StartEngine)
    /\ WF_vars(Connected)
    /\ WF_vars(UndoTimesOut \/ (expired /\ UndoFails) \/ RolledBack)
    /\ WF_vars(StopEngine)

Spec == Init /\ [][Next]_vars

FairSpec == Spec /\ Fairness

-----------------------------------------------------------------------------
lost == orphaned \cup stuck

(* Every setting a run changed is restored when it returns, except one      *)
(* whose undo failed or whose command was killed after it took effect:      *)
(* every error path of Run, apply and rollback is covered. *)
RestoredOnReturn == pc = "returned" => changed \subseteq lost

(* What lives on the tunnel device never outlives the run, whatever failed: *)
(* the engine is stopped on every path after it started.                   *)
DeviceSettingsGone ==
    pc = "returned" => changed \cap OnDevice = {} /\ engine # "running"

(* The connected callback, the statistics and the orderly teardown only     *)
(* happen with every step of the plan in force and the engine running.     *)
ConnectedMeansInstalled ==
    pc \in {"connected", "joinStatistics"} =>
        changed = Steps /\ lost = {} /\ engine = "running"

(* An undo command finds the setting it undoes: the steps still on the      *)
(* applied list are in force, so undoing one must not take an earlier one   *)
(* with it, and a failed undo is skipped and not repeated.                 *)
UndoFindsSetting == 1..applied \subseteq changed

(* A setting escapes the applied list only in a cancelled run, and only the *)
(* one in flight.                                                          *)
OneOrphanOnCancel ==
    orphaned # {} => cancelled /\ err /\ \E i \in Steps : orphaned = {i}

(* The statistics goroutine reads the engine only while it runs: the final  *)
(* totals are not those of a stopped engine. *)
StatisticsReadRunningEngine ==
    watcher \in {"first", "ticking"} => engine = "running"

(* A dry run touches nothing, and a real run that reports no error was      *)
(* connected until its context was cancelled.                              *)
CleanReturn ==
    /\ options.dryRun => changed = {} /\ engine = "new" /\ cmd = "none"
    /\ pc = "returned" /\ ~err /\ ~options.dryRun => cancelled /\ engine = "stopped"

(* The order of every teardown: once the engine has stopped no step is      *)
(* applied or undone and no setting changes any more. So the settings were  *)
(* taken back, by commands, while the device was there and the tunnel still *)
(* carried traffic; and an engine that stopped or failed stays so.          *)
NothingAfterStop ==
    [][/\ engine = "failed" => engine' = "failed"
       /\ engine = "stopped" => UNCHANGED <<engine, applied, host>>]_vars

(* A cancelled run returns, even when a command of apply hangs.             *)
CancelReturns == cancelled ~> pc = "returned"

(* So does a run whose start failed, without anybody cancelling it and even *)
(* when every undo command hangs.                                          *)
RollbackEnds == pc = "rollback" ~> pc = "returned"

(* README.md: "complete rollback of network changes" and "Rollback is       *)
(* automatic after a regular Ctrl+C". Without a failing undo command a run  *)
(* that returns has restored everything.                                   *)
CompleteRollback == pc = "returned" /\ stuck = {} => changed = {}

-----------------------------------------------------------------------------
(* The inductive invariant behind the safety properties: what is changed,   *)
(* place by place of the program.                                          *)

Installed == 1..applied

(* Before the first command nothing is changed and nothing was started. *)
InvInspect ==
    pc \in Stages =>
        applied = 0 /\ changed = {} /\ engine = "new" /\ ~err

(* apply: the prefix of the plan, and the setting of a command that took    *)
(* effect and has not been reaped.                                         *)
InvApply ==
    /\ pc = "apply" =>
          /\ engine = IF BeforeProcess THEN "new" ELSE "running"
          /\ changed = Installed \cup (IF cmd = "effective" THEN {next} ELSE {})
    /\ cmd # "none" => pc = "apply" /\ applied < N

InvEngine ==
    /\ pc = "startEngine" =>
          /\ engine = "new"
          /\ applied = IF BeforeProcess THEN N ELSE 0
          /\ changed = Installed
    /\ pc = "waitInterface" =>
          engine = "running" /\ ~BeforeProcess /\ applied = 0 /\ changed = {}
    /\ pc \in {"connected", "joinStatistics"} =>
          engine = "running" /\ applied = N /\ changed = Steps

(* Only a rollback or a killed command leaves something to excuse. *)
InvExcuses ==
    /\ pc \notin {"rollback", "stopEngine", "returned"} => lost = {} /\ ~err
    /\ pc = "rollback" => Installed \subseteq changed /\ lost \cap Installed = {}
    /\ orphaned # {} => cancelled /\ err /\ \E i \in Steps : orphaned = {i}

InvRestore ==
    /\ pc = "rollback" => changed \subseteq Installed \cup lost
    /\ pc \in {"stopEngine", "returned"} => applied = 0 /\ changed \subseteq lost

(* The engine runs from Start to Stop; with the plan after the engine that  *)
(* covers every change.                                                    *)
InvDown ==
    /\ pc = "rollback" => engine \in {"new", "failed", "running"}
    /\ pc = "rollback" /\ ~BeforeProcess => changed = {} \/ engine = "running"
    /\ pc = "stopEngine" => engine = "running"
    /\ pc = "returned" => engine # "running" /\ changed \cap OnDevice = {}
    /\ pc = "returned" /\ ~BeforeProcess => changed = {} \/ engine = "stopped"

InvWatcher ==
    /\ watcher \in {"first", "ticking"} => pc \in {"connected", "joinStatistics"}
    /\ pc = "joinStatistics" => watcher # "none"

(* How a run that returns no error got there. *)
InvReturn ==
    /\ options.dryRun =>
          /\ pc \in (Stages \ {"prepare"}) \cup {"returned"}
          /\ changed = {} /\ engine = "new" /\ cmd = "none"
    /\ pc \in {"rollback", "stopEngine", "joinStatistics"} /\ ~err =>
          cancelled /\ engine = "running"
    /\ pc = "returned" /\ ~err /\ ~options.dryRun => cancelled /\ engine = "stopped"

IInv ==
    /\ TypeOK
    /\ InvInspect
    /\ InvApply
    /\ InvEngine
    /\ InvExcuses
    /\ InvRestore
    /\ InvDown
    /\ InvWatcher
    /\ InvReturn

-----------------------------------------------------------------------------
(* DesktopClient implements TunnelPromise. *)

Phase ==
    CASE pc \in Stages \cup {"apply", "startEngine", "waitInterface"} -> "starting"
      [] pc = "connected" -> "up"
      [] pc = "returned" -> "done"
      [] OTHER -> "closing"

Promise == INSTANCE TunnelPromise WITH
    Settings <- Steps, phase <- Phase, changed <- changed, excused <- lost

PromiseSpec == Promise!PSpec

=============================================================================

------------------------ MODULE DesktopClientProofs ------------------------
(***************************************************************************)
(* The inductive invariant IInv of DesktopClient holds for every operating  *)
(* system, every plan length and every relation between its settings, and   *)
(* with it the safety properties TLC checks on the three concrete plans.    *)
(***************************************************************************)
EXTENDS DesktopClient, TLAPS

(* Applying one more step extends the installed prefix by that step. *)
LEMMA PrefixGrows ==
    ASSUME NEW n \in Nat
    PROVE  /\ 1..(n + 1) = (1..n) \cup {n + 1}
           /\ n + 1 \notin 1..n
  OBVIOUS

(* With nothing applied, nothing is installed. *)
LEMMA EmptyPrefix == 1..0 = {}
  OBVIOUS

(* Undoing step n takes nothing of the prefix before it: what lives on a    *)
(* setting belongs to later steps.                                         *)
LEMMA UndoKeepsPrefix ==
    ASSUME NEW n \in Steps
    PROVE  /\ 1..n = (1..(n - 1)) \cup {n}
           /\ ({n} \cup LivesOn[n]) \cap (1..(n - 1)) = {}
  BY NAssumption, LivesOnAssumption DEF Steps

-----------------------------------------------------------------------------

(* The invariant holds before Run does anything. *)
LEMMA InitIInv == Init => IInv
<1> SUFFICES ASSUME Init PROVE IInv
  OBVIOUS
<1>1. TypeOK
  <2>1. pc \in Stages /\ applied \in 0..N /\ changed \subseteq Steps
    BY NAssumption DEF Init, Stages
  <2> QED
    BY <2>1 DEF Init, TypeOK
<1>2. InvInspect /\ InvApply /\ InvEngine /\ InvDown /\ InvWatcher
  BY DEF Init, Stages, InvInspect, InvApply, InvEngine, InvDown, InvWatcher
<1>3. InvExcuses /\ InvRestore /\ InvReturn
  BY DEF Init, Stages, lost, InvExcuses, InvRestore, InvReturn
<1> QED
  BY <1>1, <1>2, <1>3 DEF IInv

(* Inspection leaves the host and the session alone. *)
LEMMA PassKeepsIInv ==
    ASSUME IInv, NEW s \in Stages, NEW t \in Stages, Pass(s, t),
           options.dryRun => t # "prepare"
    PROVE  IInv'
<1> USE DEF IInv, Pass, rest, host
<1>1. pc = s /\ pc' = t /\ pc \in Stages /\ pc' \in Stages
  OBVIOUS
<1>2. UNCHANGED <<options, cancelled, err, applied, cmd, expired, engine, watcher,
                  changed, orphaned, stuck>>
  OBVIOUS
<1>3. TypeOK'
  BY <1>1, <1>2 DEF TypeOK
<1>4. InvInspect' /\ InvApply' /\ InvEngine' /\ InvWatcher' /\ InvReturn'
  BY <1>1, <1>2 DEF Stages, InvInspect, InvApply, InvEngine, InvWatcher, InvReturn
<1>5. InvExcuses' /\ InvRestore' /\ InvDown'
  BY <1>1, <1>2 DEF Stages, InvExcuses, InvRestore, InvDown, lost
<1> QED
  BY <1>3, <1>4, <1>5

(* Giving the inspection up leaves the host and the session alone, too. *)
LEMMA FailKeepsIInv ==
    ASSUME IInv, NEW s \in Stages, Fail(s)
    PROVE  IInv'
<1> USE DEF IInv, Fail, rest, host
<1>1. pc \in Stages /\ pc' = "returned" /\ err'
  OBVIOUS
<1>2. UNCHANGED <<options, cancelled, applied, cmd, expired, engine, watcher,
                  changed, orphaned, stuck>>
  OBVIOUS
<1>3. TypeOK'
  BY <1>1, <1>2 DEF TypeOK
<1>4. InvInspect' /\ InvApply' /\ InvEngine' /\ InvWatcher' /\ InvReturn'
  BY <1>1, <1>2 DEF Stages, InvInspect, InvApply, InvEngine, InvWatcher, InvReturn
<1>5. InvExcuses' /\ InvRestore' /\ InvDown'
  BY <1>1, <1>2 DEF Stages, InvInspect, InvExcuses, InvRestore, InvDown, lost
<1> QED
  BY <1>3, <1>4, <1>5

(* Inspection: every stage passes or fails; the last one enters apply or   *)
(* startEngine with nothing changed. *)
LEMMA InspectKeepsIInv == ASSUME IInv, Inspect PROVE IInv'
<1>1. CASE Validate
  BY <1>1, PassKeepsIInv, FailKeepsIInv DEF Validate, Stages
<1>2. CASE Detect
  BY <1>2, PassKeepsIInv, FailKeepsIInv DEF Detect, Stages
<1>3. CASE Resolve
  BY <1>3, PassKeepsIInv, FailKeepsIInv DEF Resolve, Stages
<1>4. CASE DetectRoute
  BY <1>4, PassKeepsIInv, FailKeepsIInv DEF DetectRoute, Stages
<1>5. CASE BuildPlan
  <2>1. CASE BeforeProcess /\ Fail("plan")
    BY <2>1, FailKeepsIInv DEF Stages
  <2>2. CASE ~options.dryRun /\ Pass("plan", "prepare")
    BY <2>2, PassKeepsIInv DEF Stages
  <2>3. CASE options.dryRun /\ Pass("plan", "returned")
    <3> USE <2>3 DEF IInv, Pass, rest, host
    <3>1. TypeOK' /\ InvInspect' /\ InvApply' /\ InvEngine' /\ InvWatcher' /\ InvReturn'
      BY DEF TypeOK, Stages, InvInspect, InvApply, InvEngine, InvWatcher, InvReturn
    <3>2. InvExcuses' /\ InvRestore' /\ InvDown'
      BY DEF Stages, InvInspect, InvExcuses, InvRestore, InvDown, lost
    <3> QED
      BY <3>1, <3>2
  <2> QED
    BY <1>5, <2>1, <2>2, <2>3 DEF BuildPlan, IInv, TypeOK
<1>6. CASE PrepareNative
  <2>1. CASE OS = "windows" /\ Fail("prepare")
    BY <2>1, FailKeepsIInv DEF Stages
  <2>2. CASE Pass("prepare", IF BeforeProcess THEN "apply" ELSE "startEngine")
    <3> USE <2>2 DEF IInv, Pass, rest, host
    <3>1. ~options.dryRun
      BY DEF InvReturn
    <3>2. applied = 0 /\ changed = {} /\ Installed = {} /\ cmd = "none" /\ lost = {} /\ ~err
      BY EmptyPrefix DEF Stages, InvInspect, InvApply, InvExcuses, Installed
    <3>3. pc = "prepare" /\ pc' = IF BeforeProcess THEN "apply" ELSE "startEngine"
      OBVIOUS
    <3>4. engine = "new" /\ watcher \notin {"first", "ticking"}
      BY <3>3 DEF InvInspect, InvWatcher, Stages
    <3>5. BeforeProcess' = BeforeProcess
      BY DEF BeforeProcess
    <3>6. TypeOK'
      BY <3>3 DEF TypeOK
    <3>7. InvApply'
      BY <3>1, <3>2, <3>3, <3>4, <3>5 DEF InvApply, Installed
    <3>8. InvEngine'
      BY <3>1, <3>2, <3>3, <3>4, <3>5 DEF InvEngine, Installed
    <3>9. InvInspect' /\ InvWatcher' /\ InvReturn'
      BY <3>1, <3>2, <3>3, <3>4 DEF Stages, InvInspect, InvWatcher, InvReturn
    <3>10. InvExcuses' /\ InvRestore' /\ InvDown'
      BY <3>2, <3>3 DEF Stages, InvExcuses, InvRestore, InvDown, lost
    <3> QED
      BY <3>6, <3>7, <3>8, <3>9, <3>10
  <2> QED
    BY <1>6, <2>1, <2>2 DEF PrepareNative
<1> QED
  BY <1>1, <1>2, <1>3, <1>4, <1>5, <1>6 DEF Inspect

(* apply starts the command of the next step: the host is not changed yet. *)
LEMMA SpawnKeepsIInv == ASSUME IInv, Spawn PROVE IInv'
<1> USE DEF IInv, host, Spawn
<1>1. TypeOK'
  BY DEF TypeOK
<1>2. InvInspect' /\ InvApply' /\ InvEngine'
  BY DEF InvInspect, InvApply, InvEngine, Installed
<1>3. InvExcuses' /\ InvRestore'
  BY DEF InvExcuses, InvRestore, lost
<1>4. InvDown'
  BY DEF InvDown
<1>5. InvWatcher' /\ InvReturn'
  BY DEF InvWatcher, InvReturn, Stages
<1> QED
  BY <1>1, <1>2, <1>3, <1>4, <1>5

(* A cancelled apply rolls back exactly the installed prefix. *)
LEMMA RefusedKeepsIInv == ASSUME IInv, Refused PROVE IInv'
<1> USE DEF IInv, host, Refused, BeginRollback
<1>1. TypeOK'
  BY DEF TypeOK
<1>2. InvInspect' /\ InvApply' /\ InvEngine'
  BY DEF InvInspect, InvApply, InvEngine, Stages
<1>3. InvExcuses' /\ InvRestore'
  BY DEF InvExcuses, InvRestore, InvApply, Installed, lost
<1>4. InvDown'
  BY DEF InvDown, InvApply
<1>5. InvWatcher' /\ InvReturn'
  BY DEF InvWatcher, InvReturn, Stages
<1> QED
  BY <1>1, <1>2, <1>3, <1>4, <1>5

(* The command in flight adds its own setting to the prefix. *)
LEMMA TakesEffectKeepsIInv == ASSUME IInv, TakesEffect PROVE IInv'
<1> USE DEF IInv, host, TakesEffect
<1>1. TypeOK'
  BY NAssumption DEF TypeOK, Steps, InvApply, next
<1>2. InvInspect' /\ InvApply' /\ InvEngine'
  BY DEF InvInspect, InvApply, InvEngine, Stages, Installed, next
<1>3. InvExcuses' /\ InvRestore'
  BY DEF InvExcuses, InvRestore, InvApply, lost
<1>4. InvDown'
  BY DEF InvDown, InvApply
<1>5. InvWatcher' /\ InvReturn'
  BY DEF InvWatcher, InvReturn
<1> QED
  BY <1>1, <1>2, <1>3, <1>4, <1>5

(* Appending the step makes the prefix cover that setting. *)
LEMMA SucceedsKeepsIInv == ASSUME IInv, Succeeds PROVE IInv'
<1> USE DEF IInv, host, Succeeds
<1>0. pc = "apply" /\ changed = Installed'
  <2>1. pc = "apply" /\ applied \in Nat /\ changed = (1..applied) \cup {applied + 1}
    BY DEF TypeOK, InvApply, Installed, next
  <2>2. Installed' = 1..(applied + 1)
    BY DEF Installed, next
  <2> QED
    BY <2>1, <2>2, PrefixGrows
<1>1. TypeOK'
  BY DEF TypeOK, Steps, InvApply, next
<1>2. InvInspect' /\ InvApply' /\ InvEngine'
  BY <1>0 DEF InvInspect, InvApply, InvEngine
<1>3. InvExcuses' /\ InvRestore'
  BY DEF InvExcuses, InvRestore, InvApply, lost
<1>4. InvDown'
  BY DEF InvDown
<1>5. InvWatcher' /\ InvReturn'
  BY DEF InvWatcher, InvReturn
<1> QED
  BY <1>1, <1>2, <1>3, <1>4, <1>5

(* A command without effect leaves exactly the prefix to roll back. *)
LEMMA ErrorsKeepsIInv == ASSUME IInv, Errors PROVE IInv'
<1> USE DEF IInv, host, Errors, BeginRollback
<1>1. TypeOK'
  BY DEF TypeOK
<1>2. InvInspect' /\ InvApply' /\ InvEngine'
  BY DEF InvInspect, InvApply, InvEngine, Stages
<1>3. InvExcuses' /\ InvRestore'
  BY DEF InvExcuses, InvRestore, InvApply, Installed, lost
<1>4. InvDown'
  BY DEF InvDown, InvApply
<1>5. InvWatcher' /\ InvReturn'
  BY DEF InvWatcher, InvReturn, InvApply
<1> QED
  BY <1>1, <1>2, <1>3, <1>4, <1>5

(* A command killed after its effect leaves one excused setting. *)
LEMMA KilledKeepsIInv == ASSUME IInv, Killed PROVE IInv'
<1> USE DEF IInv, host, Killed, BeginRollback
<1>1. TypeOK'
  BY DEF TypeOK, InvApply
<1>2. InvInspect' /\ InvApply' /\ InvEngine'
  BY DEF InvInspect, InvApply, InvEngine, Stages
<1>3. InvExcuses' /\ InvRestore'
  BY DEF InvExcuses, InvRestore, TypeOK, InvApply, Installed, next, lost
<1>4. InvDown'
  BY DEF InvDown, InvApply
<1>5. InvWatcher' /\ InvReturn'
  BY DEF InvWatcher, InvReturn, InvApply
<1> QED
  BY <1>1, <1>2, <1>3, <1>4, <1>5

(* When apply ends, every step of the plan is in force. *)
LEMMA AppliedKeepsIInv == ASSUME IInv, Applied PROVE IInv'
<1> USE DEF IInv, host, Applied, Connect
<1>0. changed = Steps /\ changed = Installed' /\ cmd = "none"
  <2>1. cmd = "none"
    BY NAssumption DEF InvApply
  <2> QED
    BY <2>1 DEF InvApply, Installed, Steps
<1>1. TypeOK'
  BY DEF TypeOK
<1>2. InvInspect' /\ InvApply' /\ InvEngine'
  BY <1>0 DEF InvInspect, InvApply, InvEngine, Stages
<1>3. InvExcuses' /\ InvRestore'
  BY DEF InvExcuses, InvRestore, lost
<1>4. InvDown'
  BY DEF InvDown
<1>5. InvWatcher' /\ InvReturn'
  BY DEF InvWatcher, InvReturn, Stages
<1> QED
  BY <1>1, <1>2, <1>3, <1>4, <1>5

(* The engine runs: over the whole plan on Linux, before it elsewhere. *)
LEMMA StartedKeepsIInv == ASSUME IInv, Started PROVE IInv'
<1> USE DEF IInv, host, Started, Connect
<1>1. TypeOK'
  BY DEF TypeOK
<1>2. InvInspect' /\ InvApply' /\ InvEngine'
  BY DEF InvInspect, InvApply, InvEngine, Stages, Installed, Steps
<1>3. InvExcuses' /\ InvRestore'
  BY DEF InvExcuses, InvRestore, lost
<1>4. InvDown'
  BY DEF InvDown
<1>5. InvWatcher' /\ InvReturn'
  BY DEF InvWatcher, InvReturn, Stages
<1> QED
  BY <1>1, <1>2, <1>3, <1>4, <1>5

(* A failed start rolls back what was applied before it. *)
LEMMA StartFailsKeepsIInv == ASSUME IInv, StartFails PROVE IInv'
<1> USE DEF IInv, host, StartFails, BeginRollback
<1>1. TypeOK'
  BY DEF TypeOK
<1>2. InvInspect' /\ InvApply' /\ InvEngine'
  BY DEF InvInspect, InvApply, InvEngine, Stages
<1>3. InvExcuses' /\ InvRestore'
  BY DEF InvExcuses, InvRestore, InvEngine, Installed, lost
<1>4. InvDown'
  BY DEF InvDown, InvEngine, Installed
<1>5. InvWatcher' /\ InvReturn'
  BY DEF InvWatcher, InvReturn, Stages
<1> QED
  BY <1>1, <1>2, <1>3, <1>4, <1>5

(* apply begins with nothing changed and the engine running. *)
LEMMA InterfaceAppearsKeepsIInv == ASSUME IInv, InterfaceAppears PROVE IInv'
<1> USE DEF IInv, host, InterfaceAppears, Pass, rest
<1>1. TypeOK'
  BY DEF TypeOK
<1>2. InvInspect' /\ InvApply' /\ InvEngine'
  BY EmptyPrefix DEF InvInspect, InvApply, InvEngine, Stages, Installed
<1>3. InvExcuses' /\ InvRestore'
  BY DEF InvExcuses, InvRestore, lost
<1>4. InvDown'
  BY DEF InvDown
<1>5. InvWatcher' /\ InvReturn'
  BY DEF InvWatcher, InvReturn, InvEngine
<1> QED
  BY <1>1, <1>2, <1>3, <1>4, <1>5

(* Without the interface the engine is stopped; nothing was changed. *)
LEMMA WaitGivesUpKeepsIInv == ASSUME IInv, WaitGivesUp PROVE IInv'
<1> USE DEF IInv, host, WaitGivesUp, rest
<1>1. TypeOK'
  BY DEF TypeOK
<1>2. InvInspect' /\ InvApply' /\ InvEngine'
  BY DEF InvInspect, InvApply, InvEngine, Stages
<1>3. InvExcuses' /\ InvRestore'
  BY DEF InvExcuses, InvRestore, InvEngine
<1>4. InvDown'
  BY DEF InvDown, InvEngine
<1>5. InvWatcher' /\ InvReturn'
  BY DEF InvWatcher, InvReturn, InvEngine
<1> QED
  BY <1>1, <1>2, <1>3, <1>4, <1>5

(* The orderly way down begins with the whole plan in force. *)
LEMMA DisconnectKeepsIInv == ASSUME IInv, Disconnect PROVE IInv'
<1> USE DEF IInv, host, Disconnect, BeginRollback
<1>1. TypeOK'
  BY DEF TypeOK, InvApply
<1>2. InvInspect' /\ InvApply' /\ InvEngine'
  BY DEF InvInspect, InvApply, InvEngine, Stages
<1>3. InvExcuses' /\ InvRestore'
  BY DEF InvExcuses, InvRestore, InvEngine, Installed, lost, Steps
<1>4. InvDown'
  BY DEF InvDown, InvEngine
<1>5. InvWatcher' /\ InvReturn'
  BY DEF InvWatcher, InvReturn, InvEngine
<1> QED
  BY <1>1, <1>2, <1>3, <1>4, <1>5

(* The statistics goroutine only reads. *)
LEMMA FirstReportKeepsIInv == ASSUME IInv, FirstReport PROVE IInv'
<1> USE DEF IInv, host, FirstReport
<1>1. TypeOK'
  BY DEF TypeOK
<1>2. InvInspect' /\ InvApply' /\ InvEngine'
  BY DEF InvInspect, InvApply, InvEngine, Installed, next
<1>3. InvExcuses' /\ InvRestore'
  BY DEF InvExcuses, InvRestore, Installed, lost
<1>4. InvDown'
  BY DEF InvDown
<1>5. InvWatcher' /\ InvReturn'
  BY DEF InvWatcher, InvReturn
<1> QED
  BY <1>1, <1>2, <1>3, <1>4, <1>5

(* Its last report comes before the engine stops. *)
LEMMA FinalReportKeepsIInv == ASSUME IInv, FinalReport PROVE IInv'
<1> USE DEF IInv, host, FinalReport
<1>1. TypeOK'
  BY DEF TypeOK
<1>2. InvInspect' /\ InvApply' /\ InvEngine'
  BY DEF InvInspect, InvApply, InvEngine
<1>3. InvExcuses' /\ InvRestore'
  BY DEF InvExcuses, InvRestore, lost
<1>4. InvDown'
  BY DEF InvDown
<1>5. InvWatcher' /\ InvReturn'
  BY DEF InvWatcher, InvReturn
<1> QED
  BY <1>1, <1>2, <1>3, <1>4, <1>5

(* When it has ended the rollback begins. *)
LEMMA JoinedKeepsIInv == ASSUME IInv, Joined PROVE IInv'
<1> USE DEF IInv, host, Joined, BeginRollback
<1>1. TypeOK'
  BY DEF TypeOK
<1>2. InvInspect' /\ InvApply' /\ InvEngine'
  BY DEF InvInspect, InvApply, InvEngine, Stages
<1>3. InvExcuses' /\ InvRestore'
  BY DEF InvExcuses, InvRestore, InvEngine, Installed, lost, Steps
<1>4. InvDown'
  BY DEF InvDown, InvEngine
<1>5. InvWatcher' /\ InvReturn'
  BY DEF InvWatcher, InvReturn, InvEngine
<1> QED
  BY <1>1, <1>2, <1>3, <1>4, <1>5

(* An undo takes its own setting and what lives on it, never an earlier one. *)
LEMMA UndoSucceedsKeepsIInv == ASSUME IInv, UndoSucceeds PROVE IInv'
<1> USE DEF IInv, host, UndoSucceeds, Undone
<1>0. /\ applied \in Steps /\ applied - 1 \in 0..N
      /\ Installed = Installed' \cup {applied}
      /\ ({applied} \cup LivesOn[applied]) \cap Installed' = {}
  BY UndoKeepsPrefix, NAssumption DEF TypeOK, Steps, Installed
<1>1. TypeOK'
  BY <1>0 DEF TypeOK, InvApply
<1>2. InvInspect' /\ InvApply' /\ InvEngine'
  BY DEF InvInspect, InvApply, InvEngine
<1>3. InvExcuses' /\ InvRestore'
  BY <1>0 DEF InvExcuses, InvRestore, lost
<1>4. InvDown'
  BY DEF InvDown
<1>5. InvWatcher' /\ InvReturn'
  BY DEF InvWatcher, InvReturn
<1> QED
  BY <1>1, <1>2, <1>3, <1>4, <1>5

(* A failed undo is excused and the rollback goes on. *)
LEMMA UndoFailsKeepsIInv == ASSUME IInv, UndoFails PROVE IInv'
<1> USE DEF IInv, host, UndoFails
<1>1. TypeOK'
  BY NAssumption DEF TypeOK, Steps
<1>2. InvInspect' /\ InvApply' /\ InvEngine'
  BY DEF InvInspect, InvApply, InvEngine
<1>3. InvExcuses' /\ InvRestore'
  BY DEF InvExcuses, InvRestore, TypeOK, Installed, lost
<1>4. InvDown'
  BY DEF InvDown
<1>5. InvWatcher' /\ InvReturn'
  BY DEF InvWatcher, InvReturn
<1> QED
  BY <1>1, <1>2, <1>3, <1>4, <1>5

(* So is the one the deadline interrupts, whether it had an effect or not. *)
LEMMA UndoTimesOutKeepsIInv == ASSUME IInv, UndoTimesOut PROVE IInv'
<1> USE DEF IInv, host, UndoTimesOut, Undone
<1>0. /\ applied \in Steps /\ applied - 1 \in 0..N
      /\ Installed = Installed' \cup {applied}
      /\ ({applied} \cup LivesOn[applied]) \cap Installed' = {}
  BY UndoKeepsPrefix, NAssumption DEF TypeOK, Steps, Installed
<1>1. TypeOK'
  BY <1>0 DEF TypeOK
<1>2. InvInspect' /\ InvApply' /\ InvEngine'
  BY DEF InvInspect, InvApply, InvEngine
<1>3. InvExcuses' /\ InvRestore'
  BY <1>0 DEF InvExcuses, InvRestore, lost
<1>4. InvDown'
  BY DEF InvDown
<1>5. InvWatcher' /\ InvReturn'
  BY DEF InvWatcher, InvReturn
<1> QED
  BY <1>1, <1>2, <1>3, <1>4, <1>5

(* With nothing left to undo, only excused settings differ. *)
LEMMA RolledBackKeepsIInv == ASSUME IInv, RolledBack PROVE IInv'
<1> USE DEF IInv, host, RolledBack, rest
<1>1. TypeOK'
  BY DEF TypeOK
<1>2. InvInspect' /\ InvApply' /\ InvEngine'
  BY DEF InvInspect, InvApply, InvEngine, Stages
<1>3. InvExcuses' /\ InvRestore'
  BY DEF InvExcuses, InvRestore, Installed, lost
<1>4. InvDown'
  BY OnDeviceAssumption DEF InvDown, BeforeProcess
<1>5. InvWatcher' /\ InvReturn'
  BY DEF InvWatcher, InvReturn
<1> QED
  BY <1>1, <1>2, <1>3, <1>4, <1>5

(* Stopping the engine takes with it what lives on its device. *)
LEMMA StopEngineKeepsIInv == ASSUME IInv, StopEngine PROVE IInv'
<1> USE DEF IInv, host, StopEngine
<1>1. TypeOK'
  BY DEF TypeOK
<1>2. InvInspect' /\ InvApply' /\ InvEngine'
  BY DEF InvInspect, InvApply, InvEngine, Stages
<1>3. InvExcuses' /\ InvRestore'
  BY DEF InvExcuses, InvRestore, lost
<1>4. InvDown'
  BY DEF InvDown
<1>5. InvWatcher' /\ InvReturn'
  BY DEF InvWatcher, InvReturn, InvInspect
<1> QED
  BY <1>1, <1>2, <1>3, <1>4, <1>5

(* Cancelling changes nothing by itself. *)
LEMMA CancelKeepsIInv == ASSUME IInv, Cancel PROVE IInv'
<1> USE DEF IInv, host, Cancel, rest
<1>1. TypeOK'
  BY DEF TypeOK
<1>2. InvInspect' /\ InvApply' /\ InvEngine'
  BY DEF InvInspect, InvApply, InvEngine, Installed, next
<1>3. InvExcuses' /\ InvRestore'
  BY DEF InvExcuses, InvRestore, Installed, lost
<1>4. InvDown'
  BY DEF InvDown
<1>5. InvWatcher' /\ InvReturn'
  BY DEF InvWatcher, InvReturn
<1> QED
  BY <1>1, <1>2, <1>3, <1>4, <1>5

(* Steps of nobody. *)
LEMMA StutterKeepsIInv == ASSUME IInv, UNCHANGED vars PROVE IInv'
<1> USE DEF IInv, vars
<1>1. TypeOK' /\ InvInspect' /\ InvApply' /\ InvEngine' /\ InvWatcher' /\ InvReturn'
  BY DEF TypeOK, InvInspect, InvApply, Installed, next, InvEngine, InvWatcher, InvReturn
<1>2. InvExcuses' /\ InvRestore' /\ InvDown'
  BY DEF InvExcuses, InvRestore, InvDown, lost, Installed
<1> QED
  BY <1>1, <1>2

(* IInv is inductive. *)
LEMMA NextIInv == IInv /\ [Next]_vars => IInv'
<1> SUFFICES ASSUME IInv, [Next]_vars PROVE IInv'
  OBVIOUS
<1>1. CASE Inspect
  BY <1>1, InspectKeepsIInv
<1>2. CASE Apply
  BY <1>2, SpawnKeepsIInv, RefusedKeepsIInv, TakesEffectKeepsIInv, SucceedsKeepsIInv,
     ErrorsKeepsIInv, KilledKeepsIInv, AppliedKeepsIInv DEF Apply
<1>3. CASE StartEngine
  BY <1>3, StartedKeepsIInv, StartFailsKeepsIInv, InterfaceAppearsKeepsIInv,
     WaitGivesUpKeepsIInv DEF StartEngine
<1>4. CASE Connected
  BY <1>4, DisconnectKeepsIInv, FirstReportKeepsIInv, FinalReportKeepsIInv,
     JoinedKeepsIInv DEF Connected
<1>5. CASE Rollback
  BY <1>5, UndoSucceedsKeepsIInv, UndoFailsKeepsIInv, UndoTimesOutKeepsIInv,
     RolledBackKeepsIInv DEF Rollback
<1>6. CASE StopEngine
  BY <1>6, StopEngineKeepsIInv
<1>7. CASE Cancel
  BY <1>7, CancelKeepsIInv
<1>8. CASE UNCHANGED vars
  BY <1>8, StutterKeepsIInv
<1> QED
  BY <1>1, <1>2, <1>3, <1>4, <1>5, <1>6, <1>7, <1>8 DEF Next, Returned

(* The inductive invariant holds in every state of every run. *)
THEOREM InductiveInvariant == Spec => []IInv
<1> QED
  BY InitIInv, NextIInv, PTL DEF Spec

(* Every variable keeps its type. *)
THEOREM TypeCorrect == Spec => []TypeOK
<1>1. IInv => TypeOK
  BY DEF IInv
<1> QED
  BY <1>1, InductiveInvariant, PTL

-----------------------------------------------------------------------------
(* When Run returns, whatever failed on the way, the host is as before but for *)
(* settings whose undo failed or whose command was killed after its effect. *)
THEOREM Restored == Spec => []RestoredOnReturn
<1>1. IInv => RestoredOnReturn
  BY DEF IInv, InvRestore, RestoredOnReturn
<1> QED
  BY <1>1, InductiveInvariant, PTL

(* Nothing that lives on the engine's device, and no running engine, outlives*)
(* the run. *)
THEOREM DeviceGone == Spec => []DeviceSettingsGone
<1>1. IInv => DeviceSettingsGone
  BY DEF IInv, InvDown, DeviceSettingsGone
<1> QED
  BY <1>1, InductiveInvariant, PTL

(* The session is reported connected only with every step of the plan in   *)
(* force and the engine running. *)
THEOREM ConnectedInstalled == Spec => []ConnectedMeansInstalled
<1>1. IInv => ConnectedMeansInstalled
  BY DEF IInv, InvEngine, InvExcuses, ConnectedMeansInstalled
<1> QED
  BY <1>1, InductiveInvariant, PTL

(* Every undo command is issued for a setting that is in force. *)
THEOREM UndoIsApplicable == Spec => []UndoFindsSetting
<1>1. IInv => UndoFindsSetting
  BY NAssumption, EmptyPrefix DEF IInv, TypeOK, Stages, Steps, Installed, InvInspect,
     InvApply, InvEngine, InvExcuses, InvRestore, UndoFindsSetting
<1> QED
  BY <1>1, InductiveInvariant, PTL

(* At most one setting escapes the applied list, and only in a cancelled run. *)
THEOREM OneOrphan == Spec => []OneOrphanOnCancel
<1>1. IInv => OneOrphanOnCancel
  BY DEF IInv, InvExcuses, OneOrphanOnCancel
<1> QED
  BY <1>1, InductiveInvariant, PTL

(* The statistics goroutine never reads an engine that is not running. *)
THEOREM StatisticsRead == Spec => []StatisticsReadRunningEngine
<1>1. IInv => StatisticsReadRunningEngine
  BY DEF IInv, InvWatcher, InvEngine, StatisticsReadRunningEngine
<1> QED
  BY <1>1, InductiveInvariant, PTL

(* A dry run touches nothing; a real run without error was connected until *)
(* its context was cancelled. *)
THEOREM Clean == Spec => []CleanReturn
<1>1. IInv => CleanReturn
  BY DEF IInv, InvReturn, CleanReturn
<1> QED
  BY <1>1, InductiveInvariant, PTL

(* Once the engine stopped, or failed to start, it stays so, and nothing is *)
(* undone after it stopped. *)
THEOREM AfterStop == Spec => NothingAfterStop
<1>1. IInv /\ [Next]_vars =>
        [/\ engine = "failed" => engine' = "failed"
         /\ engine = "stopped" => UNCHANGED <<engine, applied, host>>]_vars
  <2> SUFFICES ASSUME IInv, Next
               PROVE  /\ engine = "failed" => engine' = "failed"
                      /\ engine = "stopped" => UNCHANGED <<engine, applied, host>>
    OBVIOUS
  <2> USE DEF IInv, rest, host
  <2>1. engine \in {"failed", "stopped"} => pc \in {"rollback", "returned"}
    BY DEF TypeOK, Stages, InvInspect, InvApply, InvEngine, InvDown
  <2>2. engine = "stopped" => pc = "returned"
    BY <2>1 DEF InvDown
  <2>3. CASE Inspect
    BY <2>1, <2>3 DEF Inspect, Validate, Detect, Resolve, DetectRoute, BuildPlan,
       PrepareNative, Pass, Fail
  <2>4. CASE Apply
    BY <2>1, <2>4 DEF Apply, Spawn, Refused, TakesEffect, Succeeds, Errors, Killed,
       Applied, InvApply
  <2>5. CASE StartEngine
    BY <2>1, <2>5 DEF StartEngine, Started, StartFails, InterfaceAppears,
       WaitGivesUp, Pass
  <2>6. CASE Connected
    BY <2>1, <2>2, <2>6 DEF Connected, Disconnect, FirstReport, FinalReport, Joined
  <2>7. CASE Rollback
    BY <2>2, <2>7 DEF Rollback, UndoSucceeds, UndoFails, UndoTimesOut, RolledBack
  <2>8. CASE StopEngine
    BY <2>1, <2>8 DEF StopEngine
  <2>9. CASE Cancel \/ Returned
    BY <2>9 DEF Cancel, Returned, vars
  <2> QED
    BY <2>3, <2>4, <2>5, <2>6, <2>7, <2>8, <2>9 DEF Next
<1> QED
  BY <1>1, InductiveInvariant, PTL DEF Spec, NothingAfterStop

-----------------------------------------------------------------------------
(* Refinement: what each part of Run means for the promise. *)

Promised == Promise!PNext \/ UNCHANGED <<Phase, changed, lost>>

(* The promise starts with nothing changed. *)
LEMMA InitPromise == Init => Promise!PInit
  BY DEF Init, Promise!PInit, Phase, Stages, lost

(* Inspection is starting; giving it up finishes with nothing changed. *)
LEMMA InspectPromise == ASSUME IInv, Inspect PROVE Promised
<1> USE DEF rest, host, lost, Phase, Stages
<1>1. pc \in Stages /\ UNCHANGED <<changed, lost>> /\ changed = {}
  BY DEF Inspect, Validate, Detect, Resolve, DetectRoute, BuildPlan, PrepareNative,
     Pass, Fail, IInv, InvInspect
<1>2. pc' \in Stages \cup {"apply", "startEngine", "returned"}
  BY DEF Inspect, Validate, Detect, Resolve, DetectRoute, BuildPlan, PrepareNative,
     Pass, Fail
<1>3. CASE pc' = "returned"
  <2>1. Promise!Finish
    BY <1>1, <1>3 DEF Promise!Finish
  <2> QED
    BY <2>1 DEF Promised, Promise!PNext
<1>4. CASE pc' # "returned"
  BY <1>1, <1>2, <1>4 DEF Promised
<1> QED
  BY <1>3, <1>4

(* A command that takes effect is a change; any way out of apply but the    *)
(* last is giving up.                                                      *)
LEMMA ApplyPromise == ASSUME IInv, Apply PROVE Promised
<1> USE DEF host, lost, Phase, Stages
<1>1. CASE Spawn \/ Succeeds
  BY <1>1 DEF Spawn, Succeeds, Promised
<1>2. CASE TakesEffect
  <2>1. pc = "apply" /\ next \in Steps /\ next \notin changed
    BY <1>2, NAssumption, PrefixGrows
       DEF TakesEffect, IInv, TypeOK, InvApply, Installed, next, Steps
  <2>2. Promise!Change
    BY <1>2, <2>1 DEF TakesEffect, Promise!Change
  <2> QED
    BY <2>2 DEF Promised, Promise!PNext
<1>3. CASE Refused \/ Errors
  <2>1. pc = "apply" /\ pc' = "rollback" /\ UNCHANGED <<changed, lost>>
    BY <1>3 DEF Refused, Errors, BeginRollback, IInv, InvApply
  <2>2. Promise!GiveUp
    BY <2>1 DEF Promise!GiveUp
  <2> QED
    BY <2>2 DEF Promised, Promise!PNext
<1>4. CASE Killed
  <2>1. pc = "apply" /\ pc' = "rollback" /\ UNCHANGED changed
    BY <1>4 DEF Killed, BeginRollback, IInv, InvApply
  <2>2. next \in changed /\ lost' = lost \cup {next}
    BY <1>4, <2>1 DEF Killed, IInv, InvApply
  <2>3. Promise!GiveUp
    BY <2>1, <2>2 DEF Promise!GiveUp
  <2> QED
    BY <2>3 DEF Promised, Promise!PNext
<1>5. CASE Applied
  <2>1. pc = "apply" /\ UNCHANGED <<changed, lost>> /\ changed = Steps
    <3>1. pc = "apply" /\ applied = N /\ cmd = "none"
      BY <1>5, NAssumption DEF Applied, IInv, InvApply
    <3> QED
      BY <1>5, <3>1 DEF Applied, IInv, InvApply, Installed, Steps
  <2>2. CASE BeforeProcess
    BY <1>5, <2>1, <2>2 DEF Applied, Promised
  <2>3. CASE ~BeforeProcess
    <3>1. Promise!GoUp
      BY <1>5, <2>1, <2>3 DEF Applied, Connect, Promise!GoUp
    <3> QED
      BY <3>1 DEF Promised, Promise!PNext
  <2> QED
    BY <2>2, <2>3
<1> QED
  BY <1>1, <1>2, <1>3, <1>4, <1>5 DEF Apply

(* The engine is part of going up, or of giving up. *)
LEMMA StartEnginePromise == ASSUME IInv, StartEngine PROVE Promised
<1> USE DEF rest, host, lost, Phase, Stages
<1>1. CASE Started
  <2>1. pc = "startEngine" /\ UNCHANGED <<changed, lost>>
    BY <1>1 DEF Started
  <2>2. CASE BeforeProcess
    <3>1. changed = Steps
      BY <2>1, <2>2 DEF IInv, InvEngine, Installed, Steps
    <3>2. Promise!GoUp
      BY <1>1, <2>1, <2>2, <3>1 DEF Started, Connect, Promise!GoUp
    <3> QED
      BY <3>2 DEF Promised, Promise!PNext
  <2>3. CASE ~BeforeProcess
    BY <1>1, <2>1, <2>3 DEF Started, Promised
  <2> QED
    BY <2>2, <2>3
<1>2. CASE StartFails \/ WaitGivesUp
  <2>1. Promise!GiveUp
    BY <1>2 DEF StartFails, BeginRollback, WaitGivesUp, Promise!GiveUp
  <2> QED
    BY <2>1 DEF Promised, Promise!PNext
<1>3. CASE InterfaceAppears
  BY <1>3 DEF InterfaceAppears, Pass, Promised
<1> QED
  BY <1>1, <1>2, <1>3 DEF StartEngine

(* Being cancelled while up is the disconnection of the promise. *)
LEMMA ConnectedPromise == ASSUME IInv, Connected PROVE Promised
<1> USE DEF host, lost, Phase, Stages
<1>1. CASE Disconnect
  <2>1. Promise!Disconnect
    BY <1>1 DEF Disconnect, BeginRollback, Promise!Disconnect
  <2> QED
    BY <2>1 DEF Promised, Promise!PNext
<1>2. CASE FirstReport \/ FinalReport \/ Joined
  BY <1>2 DEF FirstReport, FinalReport, Joined, BeginRollback, Promised
<1> QED
  BY <1>1, <1>2 DEF Connected

(* Each undo settles one setting that is still in force and not excused. *)
LEMMA RollbackPromise == ASSUME IInv, Rollback PROVE Promised
<1> USE DEF rest, host, lost, Phase, Stages
<1>1. CASE pc = "rollback" /\ applied > 0 /\ (UndoSucceeds \/ UndoFails \/ UndoTimesOut)
  <2>1. applied \in changed \ lost /\ pc' = pc
    <3>1. applied \in Installed
      BY <1>1, NAssumption DEF IInv, TypeOK, Installed
    <3> QED
      BY <1>1, <3>1 DEF IInv, InvExcuses, UndoSucceeds, UndoFails, UndoTimesOut
  <2>2. changed' \subseteq changed
    BY <1>1 DEF UndoSucceeds, UndoFails, UndoTimesOut, Undone
  <2>3. \/ applied \notin changed' /\ lost' = lost
        \/ lost' = lost \cup {applied}
    BY <1>1 DEF UndoSucceeds, UndoFails, UndoTimesOut, Undone
  <2>4. Promise!Restore
    BY <1>1, <2>1, <2>2, <2>3 DEF Promise!Restore
  <2> QED
    BY <2>4 DEF Promised, Promise!PNext
<1>2. CASE RolledBack
  <2>1. pc = "rollback" /\ UNCHANGED <<changed, lost>>
    BY <1>2 DEF RolledBack
  <2>2. changed \subseteq lost
    BY <1>2, EmptyPrefix DEF RolledBack, IInv, InvRestore, Installed
  <2>3. CASE engine = "running"
    BY <1>2, <2>1, <2>3 DEF RolledBack, Promised
  <2>4. CASE engine # "running"
    <3>1. Promise!Finish
      BY <1>2, <2>1, <2>2, <2>4 DEF RolledBack, Promise!Finish
    <3> QED
      BY <3>1 DEF Promised, Promise!PNext
  <2> QED
    BY <2>3, <2>4
<1> QED
  BY <1>1, <1>2 DEF Rollback, UndoSucceeds, UndoFails, UndoTimesOut

(* The device goes last: by then everything is restored or excused. *)
LEMMA StopEnginePromise == ASSUME IInv, StopEngine PROVE Promised
<1>1. Promise!Finish
  BY DEF StopEngine, IInv, InvRestore, lost, Phase, Stages, Promise!Finish
<1> QED
  BY <1>1 DEF Promised, Promise!PNext

(* Every run of the desktop client keeps the promise. *)
THEOREM KeepsPromise == Spec => PromiseSpec
<1>1. IInv /\ [Next]_vars => [Promise!PNext]_(Promise!pvars)
  <2> SUFFICES ASSUME IInv, [Next]_vars PROVE Promised
    BY DEF Promised, Promise!pvars
  <2>1. CASE Inspect
    BY <2>1, InspectPromise
  <2>2. CASE Apply
    BY <2>2, ApplyPromise
  <2>3. CASE StartEngine
    BY <2>3, StartEnginePromise
  <2>4. CASE Connected
    BY <2>4, ConnectedPromise
  <2>5. CASE Rollback
    BY <2>5, RollbackPromise
  <2>6. CASE StopEngine
    BY <2>6, StopEnginePromise
  <2>7. CASE Cancel
    BY <2>7 DEF Cancel, host, lost, Phase, Promised
  <2>8. CASE UNCHANGED vars
    BY <2>8 DEF vars, lost, Phase, Promised
  <2> QED
    BY <2>1, <2>2, <2>3, <2>4, <2>5, <2>6, <2>7, <2>8 DEF Next, Returned
<1> QED
  BY <1>1, InitPromise, InductiveInvariant, PTL DEF Spec, PromiseSpec, Promise!PSpec

=============================================================================

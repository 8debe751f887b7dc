------------------------------ MODULE DesktopGui ------------------------------
(***************************************************************************)
(* The desktop application (desktop-gui/main.go): the Connect, Disconnect   *)
(* and close handlers of the UI goroutine, one goroutine per Connect that   *)
(* calls client.Run, one goroutine per close request that waits for it,     *)
(* and the queue of functions they post to the UI goroutine with fyne.Do.   *)
(*                                                                         *)
(* client.Run is the run of DesktopClient seen from outside: it reports     *)
(* OnConnected at most once, ends with an error before that or, once its    *)
(* context is cancelled, at any time.                                      *)
(***************************************************************************)
EXTENDS Integers, Sequences

CONSTANTS
    MaxRuns,    \* bound: how many times Connect starts a run
    MaxQueue    \* bound: the user waits while that many functions are queued

ASSUME BoundsAssumption ==
    /\ MaxRuns \in Nat \ {0}
    /\ MaxQueue \in Nat \ {0}

Runs == 1..MaxRuns
nil == 0

States == {"Disconnected", "Connecting", "Connected", "Disconnecting"}

VARIABLES
    patient,    \* TRUE: the user waits until the window shows what is posted.
                \* FALSE: as in fyne, where clicks already polled and posted
                \* functions are taken in any order. Never changes. The log
                \* is followed for the patient user only
    run,        \* run[r]: where the goroutine of the r-th Connect is
    ctxDone,    \* ctxDone[r]: its context is cancelled
    cancel,     \* the variable cancel: the run whose stop function it holds
    runDone,    \* the variable runDone: the run whose channel it holds
    buffer,     \* guiWriter.buffer: the runs that wrote its lines
    writer,     \* the run that holds the lock of the logger
    current,    \* the text its Write has read from the buffer and not rendered
    queue,      \* functions posted to the UI goroutine, first in first out
    shown,      \* the state the lamp, the label and the buttons show
    grid,       \* the log lines the window shows
    traffic,    \* the run whose statistics the window shows, or nil: zeros
    window,     \* "open", or "closed": the application exits
    handler,    \* what the UI goroutine is in the middle of
    snapshot,   \* the run whose channel the close handler read
    waiters     \* runs a close request waits for

shared == <<cancel, runDone>>
log == <<buffer, writer, current>>
screen == <<shown, grid, traffic, window>>
closing == <<snapshot, waiters>>
vars == <<patient, run, ctxDone, shared, log, queue, screen, handler, closing>>

(* The phases of a Connect goroutine: client.Run before OnConnected, before *)
(* and after it has logged, after OnConnected, and after the last report of *)
(* the statistics; returned; the shared variables cleared; an error logged; *)
(* the state posted; the channel closed.                                   *)
Active == {"starting", "logged", "connected", "reported"}
Phases == {"unused"} \cup Active \cup {"returned", "cleared", "failed", "posted", "done"}

Post(do, what) == queue' = Append(queue, [do |-> do, what |-> what])

TypeOK ==
    /\ patient \in BOOLEAN
    /\ run \in [Runs -> Phases]
    /\ ctxDone \in [Runs -> BOOLEAN]
    /\ {cancel, runDone, writer, snapshot, traffic} \subseteq Runs \cup {nil}
    /\ {buffer, current, grid} \subseteq Seq(Runs)
    /\ \A i \in 1..Len(queue) : queue[i].do \in {"show", "log", "traffic", "close"}
    /\ shown \in States
    /\ window \in {"open", "closed"}
    /\ handler \in {"idle", "reset", "connect", "disconnect", "close"}
    /\ waiters \subseteq Runs

Init ==
    /\ patient \in BOOLEAN
    /\ run = [r \in Runs |-> "unused"]
    /\ ctxDone = [r \in Runs |-> FALSE]
    /\ cancel = nil /\ runDone = nil
    /\ buffer = <<>> /\ writer = nil /\ current = <<>>
    /\ queue = <<>>
    /\ shown = "Disconnected" /\ grid = <<>> /\ traffic = nil /\ window = "open"
    /\ handler = "idle"
    /\ snapshot = nil /\ waiters = {}

-----------------------------------------------------------------------------
(* The UI goroutine. A handler runs to its end before anything else on it,  *)
(* but the other goroutines can get between its parts.                     *)

Input ==
    /\ window = "open"
    /\ handler = "idle"
    /\ Len(queue) < MaxQueue
    /\ patient => queue = <<>>

(* setConnectionState: which buttons react in which state. *)
ConnectEnabled == shown = "Disconnected"
DisconnectEnabled == shown \in {"Connecting", "Connected"}

(* The form does not make a proxy URL. *)
ConnectInvalid ==
    /\ Input /\ ConnectEnabled
    /\ Post("show", "Disconnected")
    /\ UNCHANGED <<patient, run, ctxDone, shared, log, screen, handler, closing>>

(* logWriter.Reset empties the buffer ... *)
ConnectClick ==
    /\ Input /\ ConnectEnabled
    /\ \E r \in Runs : run[r] = "unused"
    /\ buffer' = <<>>
    /\ handler' = "reset"
    /\ UNCHANGED <<patient, run, ctxDone, shared, writer, current, queue, screen, closing>>

unused == {r \in Runs : run[r] = "unused"}
fresh == CHOOSE r \in Runs : r \in unused /\ \A q \in unused : r <= q

(* ... and shows that; traffic.Reset shows zeros; the pair is set under mu.  *)
ConnectRegister ==
    /\ handler = "reset"
    /\ traffic' = nil
    /\ IF patient THEN Post("log", <<>>) ELSE UNCHANGED queue
    /\ cancel' = fresh
    /\ runDone' = fresh
    /\ handler' = "connect"
    /\ UNCHANGED <<patient, run, ctxDone, log, shown, grid, window, closing>>

(* ... and then the state, and the goroutine. *)
ConnectStart ==
    /\ handler = "connect"
    /\ Post("show", "Connecting")
    /\ run' = [run EXCEPT ![fresh] = "starting"]
    /\ handler' = "idle"
    /\ UNCHANGED <<patient, ctxDone, shared, log, screen, closing>>

DisconnectClick ==
    /\ Input /\ DisconnectEnabled
    /\ Post("show", "Disconnecting")
    /\ handler' = "disconnect"
    /\ UNCHANGED <<patient, run, ctxDone, shared, log, screen, closing>>

(* Mutant: the state is shown when the context is cancelled. *)
DisconnectCancel_PostsAfter ==
    /\ handler = "disconnect"
    /\ ctxDone' = IF cancel = nil THEN ctxDone ELSE [ctxDone EXCEPT ![cancel] = TRUE]
    /\ Post("show", "Disconnecting")
    /\ handler' = "idle"
    /\ UNCHANGED <<patient, run, shared, log, screen, closing>>

(* if cancel != nil { cancel() }, under mu *)
DisconnectCancel ==
    /\ handler = "disconnect"
    /\ ctxDone' = IF cancel = nil THEN ctxDone ELSE [ctxDone EXCEPT ![cancel] = TRUE]
    /\ handler' = "idle"
    /\ UNCHANGED <<patient, run, shared, log, queue, screen, closing>>

(* The close intercept without a run closes the window; with one it stops   *)
(* it ...                                                                  *)
CloseClick ==
    /\ Input
    /\ IF cancel = nil
       THEN /\ window' = "closed"
            /\ UNCHANGED <<ctxDone, handler, snapshot>>
       ELSE /\ ctxDone' = [ctxDone EXCEPT ![cancel] = TRUE]
            /\ handler' = "close"
            /\ snapshot' = runDone
            /\ UNCHANGED window
    /\ UNCHANGED <<patient, run, shared, log, queue, shown, grid, traffic, waiters>>

(* ... shows that, and starts the goroutine that waits for it. *)
CloseShow ==
    /\ handler = "close"
    /\ Post("show", "Disconnecting")
    /\ handler' = "idle"
    /\ waiters' = waiters \cup {snapshot}
    /\ snapshot' = nil
    /\ UNCHANGED <<patient, run, ctxDone, shared, log, screen>>

(* The UI goroutine runs the oldest posted function. *)
Deliver ==
    /\ window = "open" /\ handler = "idle" /\ queue # <<>>
    /\ queue' = Tail(queue)
    /\ LET do == Head(queue).do
           what == Head(queue).what
       IN /\ shown' = IF do = "show" THEN what ELSE shown
          /\ grid' = IF do = "log" THEN what ELSE grid
          /\ traffic' = IF do = "traffic" THEN what ELSE traffic
          /\ window' = IF do = "close" THEN "closed" ELSE window
    /\ UNCHANGED <<patient, run, ctxDone, shared, log, handler, closing>>

-----------------------------------------------------------------------------
(* The goroutine of a run. It ends with the process, when the window is     *)
(* closed.                                                                 *)

Step(r, from, to) ==
    /\ window = "open" /\ writer # r
    /\ run[r] = from
    /\ run' = [run EXCEPT ![r] = to]

(* logger.Printf: guiWriter.Write appends a line ... *)
Write(r) ==
    /\ writer = nil
    /\ IF patient
       THEN /\ writer' = r
            /\ buffer' = Append(buffer, r)
            /\ current' = buffer'
       ELSE UNCHANGED log
    /\ UNCHANGED <<patient, ctxDone, shared, queue, screen, handler, closing>>

(* ... and renders the text it has read, before the logger is unlocked.     *)
Render(r) ==
    /\ window = "open" /\ writer = r
    /\ writer' = nil /\ current' = <<>>
    /\ Post("log", current)
    /\ UNCHANGED <<patient, run, ctxDone, shared, buffer, screen, handler, closing>>

(* client.Run logs; one of its lines stands for all of them. *)
Log(r) == Write(r) /\ Step(r, "starting", "logged")

(* Only one session can hold the tunnel device. *)
OnConnected(r) ==
    /\ \A q \in Runs : run[q] \notin {"connected", "reported"}
    /\ Step(r, "logged", "connected")
    /\ Post("show", "Connected")
    /\ UNCHANGED <<patient, ctxDone, shared, log, screen, handler, closing>>

PostTraffic(r) == IF patient THEN Post("traffic", r) ELSE UNCHANGED queue

(* trafficPanel.Update, every second ... *)
Report(r) ==
    /\ window = "open" /\ run[r] = "connected" /\ writer # r
    /\ patient
    /\ traffic # r
    /\ \A i \in 1..Len(queue) : queue[i] # [do |-> "traffic", what |-> r]
    /\ PostTraffic(r)
    /\ UNCHANGED <<patient, run, ctxDone, shared, log, screen, handler, closing>>

(* ... and once more before client.Run undoes its settings and returns.     *)
FinalReport(r) ==
    /\ ctxDone[r]
    /\ Step(r, "connected", "reported")
    /\ PostTraffic(r)
    /\ UNCHANGED <<patient, ctxDone, shared, log, screen, handler, closing>>

Returns(r) ==
    \/ Step(r, "starting", "returned")
    \/ Step(r, "logged", "returned")
    \/ Step(r, "reported", "returned")

(* Mutant: the end is shown before the shared variables are cleared. *)
RunReturns_ShowsFirst(r) ==
    /\ Returns(r)
    /\ Post("show", "Disconnected")
    /\ UNCHANGED <<patient, ctxDone, shared, log, screen, handler, closing>>

RunReturns(r) ==
    /\ Returns(r)
    /\ UNCHANGED <<patient, ctxDone, shared, log, queue, screen, handler, closing>>

(* Mutant: only one of the two is cleared. *)
Clear_KeepsChannel(r) ==
    /\ Step(r, "returned", "cleared")
    /\ cancel' = nil
    /\ UNCHANGED <<patient, ctxDone, runDone, log, queue, screen, handler, closing>>

(* mu.Lock(); cancel = nil; runDone = nil; mu.Unlock() *)
Clear(r) ==
    /\ Step(r, "returned", "cleared")
    /\ cancel' = nil
    /\ runDone' = nil
    /\ UNCHANGED <<patient, ctxDone, log, queue, screen, handler, closing>>

(* Mutant: the error is logged once its state is shown. *)
LogError_Last(r) == Write(r) /\ Step(r, "posted", "done")

(* An error other than context.Canceled. *)
LogError(r) == Write(r) /\ Step(r, "cleared", "failed")

PostDisconnected(r) ==
    /\ \/ ctxDone[r] /\ Step(r, "cleared", "posted")
       \/ Step(r, "failed", "posted")
    /\ Post("show", "Disconnected")
    /\ UNCHANGED <<patient, ctxDone, shared, log, screen, handler, closing>>

(* Mutant: not deferred, and skipped by the early return of a cancelled run. *)
CloseDone_NotDeferred(r) ==
    /\ ~ctxDone[r]
    /\ Step(r, "posted", "done")
    /\ UNCHANGED <<patient, ctxDone, shared, log, queue, screen, handler, closing>>

(* defer close(done) *)
CloseDone(r) ==
    /\ Step(r, "posted", "done")
    /\ UNCHANGED <<patient, ctxDone, shared, log, queue, screen, handler, closing>>

(* The goroutine of a close request: <-done, then the window is closed on   *)
(* the UI goroutine.                                                       *)
WaiterPosts(r) ==
    /\ window = "open"
    /\ r \in waiters
    /\ run[r] = "done"
    /\ waiters' = waiters \ {r}
    /\ Post("close", nil)
    /\ UNCHANGED <<patient, run, ctxDone, shared, log, screen, handler, snapshot>>

Exited ==
    /\ window = "closed"
    /\ UNCHANGED vars

-----------------------------------------------------------------------------

User == ConnectInvalid \/ ConnectClick \/ DisconnectClick \/ CloseClick

Ui == ConnectRegister \/ ConnectStart \/ DisconnectCancel \/ CloseShow \/ Deliver

(* What a goroutine does once client.Run has returned. *)
Ends(r) == Render(r) \/ Clear(r) \/ LogError(r) \/ PostDisconnected(r) \/ CloseDone(r)

Next ==
    \/ User
    \/ Ui
    \/ \E r \in Runs : Log(r) \/ OnConnected(r) \/ Report(r) \/ FinalReport(r) \/ RunReturns(r) \/ Ends(r) \/ WaiterPosts(r)
    \/ Exited

(* The goroutines are scheduled, and a cancelled client.Run returns         *)
(* (DesktopClient!CancelReturns). Nothing obliges the user.                *)
Fairness ==
    /\ WF_vars(Ui)
    /\ \A r \in Runs :
          /\ WF_vars(FinalReport(r) \/ (ctxDone[r] /\ RunReturns(r)))
          /\ WF_vars(Ends(r))
          /\ WF_vars(WaiterPosts(r))

Spec == Init /\ [][Next]_vars /\ Fairness

-----------------------------------------------------------------------------
active == {r \in Runs : run[r] \in Active}

(* Whoever reads the pair under the mutex gets the stop function and the    *)
(* channel of one and the same run, the latest.                            *)
PairIsLatest ==
    /\ cancel = runDone
    /\ cancel # nil => \A r \in Runs : r > cancel => run[r] = "unused"

(* At most one client.Run changes the network of the host at a time, and it *)
(* can be stopped: Disconnect and the close button find its stop function.  *)
(* Not so when Connect is clicked twice before its button is disabled.     *)
OneRunThatStops == patient => \A q, r \in active : q = r /\ (ctxDone[r] \/ cancel = r)

(* README.md, "The desktop GUI always displays a connection lamp: red means *)
(* disconnected or failed, amber means connecting or disconnecting": when   *)
(* no goroutine has anything left to do, the lamp is red.                  *)
atRest ==
    /\ queue = <<>> /\ handler = "idle" /\ waiters = {} /\ window = "open"
    /\ writer = nil
    /\ \A r \in Runs : run[r] \in {"unused", "done"}

LampAtRest == atRest => shown = "Disconnected"

(* It is, at least, for a user who waits until the window shows the effect  *)
(* of the last click and of whatever has happened since.                   *)
LampFollowsPatientUser == patient => LampAtRest

(* The log and the statistics are the latest run's, and the window shows    *)
(* all of its log: no line and no report of an earlier run comes after the  *)
(* reset, and no text after a later one.                                   *)
latest == {r \in Runs : run[r] # "unused" /\ \A q \in Runs : q > r => run[q] = "unused"}

WindowIsOfLatestRun ==
    patient =>
        /\ \A i \in 1..Len(buffer) : buffer[i] \in latest
        /\ traffic \in latest \cup {nil}
        /\ atRest => grid = buffer

(* README.md, "complete rollback of network changes": the application does  *)
(* not exit in the middle of a run, at least not for a user who waits for   *)
(* the window, for whom no two runs share the pair.                         *)
ExitLeavesNoRun == patient => (window = "closed" => active = {})

(* A close request that stopped a run is granted once that run has ended:   *)
(* its channel is always closed.                                           *)
CloseIsGranted == \A r \in Runs : snapshot = r ~> window = "closed"

=============================================================================

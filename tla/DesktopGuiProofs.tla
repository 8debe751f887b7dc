--------------------------- MODULE DesktopGuiProofs ---------------------------
(* For any number of runs: the pair of shared variables is the latest run's, *)
(* and for a user who waits for the window there is at most one run, which  *)
(* can be stopped.                                                         *)
EXTENDS DesktopGui, TLAPS

(* What is posted to the UI goroutine. *)
Posts ==
    [do : {"show"}, what : States] \cup [do : {"log"}, what : Seq(Runs)]
    \cup [do : {"traffic"}, what : Runs \cup {nil}] \cup [do : {"close"}, what : {nil}]

Types ==
    /\ TypeOK
    /\ queue \in Seq(Posts)
    /\ handler = "close" => snapshot \in Runs

(* Runs are used in their order. *)
InOrder ==
    /\ \E n \in 0..MaxRuns : \A r \in Runs : run[r] = "unused" <=> r > n
    /\ handler \in {"reset", "connect"} => unused # {}
    /\ handler = "connect" => cancel \in {nil, fresh}

(* A goroutine that has not posted "Disconnected" yet. *)
Live == Active \cup {"returned", "cleared", "failed"}

(* What the window shows once everything that is posted has been shown.     *)
Busy ==
    \/ shown # "Disconnected" /\ \A i \in 1..Len(queue) : queue[i].do # "show"
    \/ \E i \in 1..Len(queue) :
          /\ queue[i].do = "show" /\ queue[i].what # "Disconnected"
          /\ \A j \in 1..Len(queue) : j > i => queue[j].do # "show"

(* A patient user can click Connect only when nothing is live. *)
OneLive ==
    /\ \A q, r \in Runs : run[q] \in Live /\ run[r] \in Live => q = r
    /\ (\E r \in Runs : run[r] \in Live) => Busy /\ handler \notin {"reset", "connect"}
    /\ \A r \in Runs : run[r] \in Active \cup {"returned"} => cancel = r
    /\ handler = "connect" => cancel = fresh

IInv ==
    /\ Types
    /\ InOrder
    /\ PairIsLatest
    /\ patient => OneLive

-----------------------------------------------------------------------------
(* The run that Connect takes is the first unused one. *)
LEMMA FreshIsFirst ==
    ASSUME NEW n \in 0..MaxRuns, \A r \in Runs : run[r] = "unused" <=> r > n,
           unused # {}
    PROVE  fresh = n + 1 /\ fresh \in Runs /\ run[fresh] = "unused"
<1>1. n + 1 \in Runs /\ n + 1 \in unused /\ \A q \in unused : n + 1 <= q
  BY BoundsAssumption DEF unused, Runs
<1>2. \A r \in Runs : r \in unused /\ (\A q \in unused : r <= q) => r = n + 1
  BY <1>1 DEF Runs
<1>3. fresh = n + 1
  BY <1>1, <1>2 DEF fresh
<1> QED
  BY <1>1, <1>3 DEF unused

(* What is posted last decides what the window will show. *)
LEMMA BusyPost ==
    ASSUME queue \in Seq(Posts), NEW do, NEW what, [do |-> do, what |-> what] \in Posts,
           Post(do, what), shown' = shown
    PROVE  /\ queue' \in Seq(Posts)
           /\ do # "show" /\ Busy => Busy'
           /\ do = "show" /\ what # "Disconnected" => Busy'
<1> DEFINE x == [do |-> do, what |-> what]
<1>1. /\ queue' = Append(queue, x) /\ x.do = do /\ x.what = what
      /\ queue' \in Seq(Posts) /\ Len(queue') = Len(queue) + 1 /\ queue'[Len(queue) + 1] = x
      /\ \A i \in 1..Len(queue) : queue'[i] = queue[i]
  BY DEF Post
<1> HIDE DEF x
<1>2. do # "show" /\ Busy => Busy'
  BY <1>1 DEF Busy
<1>3. do = "show" /\ what # "Disconnected" => Busy'
  BY <1>1 DEF Busy
<1> QED
  BY <1>1, <1>2, <1>3

(* Delivering the oldest changes nothing of that. *)
LEMMA BusyDeliver ==
    ASSUME queue \in Seq(Posts), Deliver
    PROVE  queue' \in Seq(Posts) /\ (Busy => Busy')
<1>1. /\ queue # <<>> /\ queue' = Tail(queue) /\ queue' \in Seq(Posts)
      /\ Len(queue) \in Nat /\ Len(queue) > 0 /\ Len(queue') = Len(queue) - 1
      /\ \A i \in 1..Len(queue') : queue'[i] = queue[i + 1]
      /\ Head(queue) = queue[1]
  BY DEF Deliver
<1>2. shown' = IF queue[1].do = "show" THEN queue[1].what ELSE shown
  BY <1>1 DEF Deliver
<1>3. ASSUME Busy PROVE Busy'
  <2>1. CASE \A i \in 1..Len(queue) : queue[i].do # "show"
    <3>1. shown' = shown /\ shown # "Disconnected"
      BY <1>1, <1>2, <1>3, <2>1 DEF Busy
    <3> QED
      BY <1>1, <2>1, <3>1 DEF Busy
  <2>2. ASSUME NEW i \in 1..Len(queue),
               queue[i].do = "show", queue[i].what # "Disconnected",
               \A j \in 1..Len(queue) : j > i => queue[j].do # "show"
        PROVE  Busy'
    <3>1. CASE i = 1
      <4>1. shown' # "Disconnected"
        BY <1>2, <2>2, <3>1
      <4>2. \A j \in 1..Len(queue') : queue'[j].do # "show"
        BY <1>1, <2>2, <3>1
      <4> QED
        BY <4>1, <4>2 DEF Busy
    <3>2. CASE i > 1
      <4>1. i - 1 \in 1..Len(queue') /\ queue'[i - 1] = queue[i]
        BY <1>1, <3>2
      <4>2. \A j \in 1..Len(queue') : j > i - 1 => queue'[j].do # "show"
        BY <1>1, <2>2, <3>2
      <4> QED
        BY <2>2, <4>1, <4>2 DEF Busy
    <3> QED
      BY <3>1, <3>2
  <2> QED
    BY <1>3, <2>1, <2>2 DEF Busy
<1> QED
  BY <1>1, <1>3

(* The initial states satisfy the invariant. *)
LEMMA InitInvariant == Init => IInv
<1> SUFFICES ASSUME Init
             PROVE  IInv
  OBVIOUS
<1> USE DEF Init
<1>1. Types
  BY DEF Types, TypeOK, Phases, Active, States, nil
<1>2. InOrder
  BY BoundsAssumption DEF InOrder, Runs
<1>3. PairIsLatest /\ OneLive
  BY DEF PairIsLatest, OneLive, Live, Active
<1> QED
  BY <1>1, <1>2, <1>3 DEF IInv

(* Steps that start no run and leave the pair alone. *)
LEMMA QuietStep ==
    ASSUME IInv, Types', UNCHANGED <<patient, run, cancel, runDone>>,
           handler' \in {handler, "idle", "disconnect", "close"},
           patient /\ (\E r \in Runs : run[r] \in Live) => (Busy => Busy')
    PROVE  IInv'
<1>1. unused' = unused /\ fresh' = fresh
  BY DEF unused, fresh
<1>2. InOrder' /\ PairIsLatest'
  BY <1>1 DEF IInv, InOrder, PairIsLatest
<1>3. ASSUME patient PROVE OneLive'
  BY <1>1, <1>3 DEF IInv, OneLive
<1> QED
  BY <1>2, <1>3 DEF IInv

(* Steps of the goroutine of a run, between its start and its end: where    *)
(* they go, what they do to the pair, and what they post.                  *)
Moves(from, to) ==
    /\ from \in Live \cup {"posted"} /\ to \in Live \cup {"posted", "done"}
    /\ to \in Live => from \in Live
    /\ to \in Active \cup {"returned"} => from \in Active

Clears(from, to) ==
    \/ UNCHANGED <<cancel, runDone>>
    \/ cancel' = nil /\ runDone' = nil /\ from = "returned" /\ to = "cleared"

Announces(from, to) == (Busy => Busy') \/ (from \in Live /\ to \notin Live)

LEMMA GoroutineStep ==
    ASSUME IInv, Types', UNCHANGED <<patient, handler>>,
           NEW r \in Runs, NEW from, NEW to, Step(r, from, to),
           Moves(from, to), Clears(from, to), Announces(from, to)
    PROVE  IInv'
<1> USE DEF Moves, Clears, Announces
<1>1. /\ run[r] = from /\ run'[r] = to
      /\ \A q \in Runs \ {r} : run'[q] = run[q]
  BY DEF Step, IInv, Types, TypeOK
<1>2. from # "unused" /\ to # "unused"
  BY DEF Live, Active
<1>3. unused' = unused
  BY <1>1, <1>2 DEF unused
<1>4. fresh' = fresh
  BY <1>3 DEF fresh
<1>5. InOrder'
  <2>1. \A q \in Runs : run'[q] = "unused" <=> run[q] = "unused"
    BY <1>1, <1>2
  <2> QED
    BY <1>3, <1>4, <2>1 DEF IInv, InOrder
<1>6. PairIsLatest'
  BY <1>1, <1>2 DEF IInv, PairIsLatest
<1>7. ASSUME patient PROVE OneLive'
  <2>1. OneLive
    BY <1>7 DEF IInv
  <2>2. \A q, s \in Runs : run'[q] \in Live /\ run'[s] \in Live => q = s
    BY <1>1, <2>1 DEF OneLive
  <2>3. ASSUME NEW s \in Runs, run'[s] \in Live
        PROVE  Busy' /\ handler' \notin {"reset", "connect"}
    <3>1. run[s] \in Live
      BY <1>1, <2>3
    <3>2. ~(from \in Live /\ to \notin Live)
      BY <1>1, <2>1, <2>3, <3>1 DEF OneLive
    <3> QED
      BY <2>1, <3>1, <3>2 DEF OneLive
  <2>4. ASSUME NEW s \in Runs, run'[s] \in Active \cup {"returned"}
        PROVE  cancel' = s
    <3>1. run[s] \in Active \cup {"returned"}
      BY <1>1, <2>4
    <3>2. CASE UNCHANGED <<cancel, runDone>>
      BY <2>1, <3>1, <3>2 DEF OneLive
    <3>3. CASE from = "returned" /\ to = "cleared"
      <4>1. s # r
        BY <1>1, <2>4, <3>3 DEF Active
      <4> QED
        BY <1>1, <2>1, <3>1, <3>3, <4>1 DEF OneLive, Live
    <3> QED
      BY <3>2, <3>3
  <2>5. handler' = "connect" => cancel' = fresh'
    <3>1. from \in Live => handler # "connect"
      BY <1>1, <2>1 DEF OneLive
    <3>2. from = "returned" => from \in Live
      BY DEF Live
    <3> QED
      BY <1>4, <2>1, <3>1, <3>2 DEF OneLive
  <2> QED
    BY <2>2, <2>3, <2>4, <2>5 DEF OneLive
<1> QED
  BY <1>5, <1>6, <1>7 DEF IInv

(* Queues that hold what is posted are type correct. *)
LEMMA QueueTypes ==
    ASSUME NEW q \in Seq(Posts)
    PROVE  \A i \in 1..Len(q) : q[i].do \in {"show", "log", "traffic", "close"}
<1>1. \A i \in 1..Len(q) : q[i] \in Posts
  OBVIOUS
<1>2. \A x \in Posts : x.do \in {"show", "log", "traffic", "close"}
  BY DEF Posts
<1> QED
  BY <1>1, <1>2

(* What the types of a step come down to. *)
LEMMA TypesStep ==
    ASSUME IInv, UNCHANGED patient, queue' \in Seq(Posts),
           run' \in [Runs -> Phases], ctxDone' \in [Runs -> BOOLEAN],
           {cancel', runDone', writer', snapshot', traffic'} \subseteq Runs \cup {nil},
           {buffer', current', grid'} \subseteq Seq(Runs),
           shown' \in States, window' \in {"open", "closed"},
           handler' \in {"idle", "reset", "connect", "disconnect", "close"},
           waiters' \subseteq Runs,
           handler' = "close" => snapshot' \in Runs
    PROVE  Types'
<1>1. \A i \in 1..Len(queue') : queue'[i].do \in {"show", "log", "traffic", "close"}
  BY QueueTypes
<1> QED
  BY <1>1 DEF IInv, Types, TypeOK

(* A click that posts nothing, or the state the window is about to show.    *)
LEMMA InputStep ==
    ASSUME IInv,
           ConnectInvalid \/ DisconnectClick \/ DisconnectCancel \/ CloseClick \/ CloseShow
    PROVE  IInv'
<1> USE DEF IInv, Types, TypeOK, shared, log, screen, closing, PairIsLatest
<1>1. CASE ConnectInvalid
  <2>1. [do |-> "show", what |-> "Disconnected"] \in Posts /\ Post("show", "Disconnected")
    BY <1>1 DEF ConnectInvalid, Posts, States
  <2>2. queue' \in Seq(Posts)
    BY <1>1, <2>1, BusyPost DEF ConnectInvalid
  <2>3. Types'
    BY <1>1, <2>2, TypesStep DEF ConnectInvalid
  <2>4. patient => queue = <<>> /\ shown = "Disconnected"
    BY <1>1 DEF ConnectInvalid, Input, ConnectEnabled
  <2>5. patient => ~Busy
    BY <2>4 DEF Busy
  <2>6. patient => ~\E r \in Runs : run[r] \in Live
    BY <2>5 DEF OneLive
  <2> QED
    BY <1>1, <2>3, <2>6, QuietStep DEF ConnectInvalid
<1>2. ASSUME Post("show", "Disconnecting"), UNCHANGED <<patient, run, shared, screen>>,
             UNCHANGED <<ctxDone, log>>, handler' \in {"idle", "disconnect"},
             waiters' \subseteq Runs, snapshot' \in Runs \cup {nil}
      PROVE  IInv'
  <2>1. [do |-> "show", what |-> "Disconnecting"] \in Posts
    BY DEF Posts, States
  <2>2. queue' \in Seq(Posts) /\ Busy'
    BY <1>2, <2>1, BusyPost
  <2>3. Types'
    BY <1>2, <2>2, TypesStep
  <2> QED
    BY <1>2, <2>2, <2>3, QuietStep
<1>3. CASE DisconnectClick
  BY <1>2, <1>3 DEF DisconnectClick
<1>4. CASE CloseShow
  <2>1. snapshot \in Runs
    BY <1>4 DEF CloseShow
  <2> QED
    BY <1>2, <1>4, <2>1 DEF CloseShow
<1>5. CASE DisconnectCancel
  <2>1. ctxDone' \in [Runs -> BOOLEAN]
    BY <1>5 DEF DisconnectCancel
  <2>2. Types'
    BY <1>5, <2>1, TypesStep DEF DisconnectCancel
  <2>3. Busy' <=> Busy
    BY <1>5 DEF DisconnectCancel, Busy
  <2> QED
    BY <1>5, <2>2, <2>3, QuietStep DEF DisconnectCancel
<1>6. CASE CloseClick
  <2>1. ctxDone' \in [Runs -> BOOLEAN] /\ window' \in {"open", "closed"}
    BY <1>6 DEF CloseClick
  <2>2. /\ handler' \in {handler, "close"}
        /\ snapshot' \in Runs \cup {nil}
        /\ handler' = "close" => snapshot' \in Runs
    BY <1>6 DEF CloseClick, Input
  <2>3. UNCHANGED <<patient, run, shared, log, queue, shown, grid, traffic, waiters>>
    BY <1>6 DEF CloseClick
  <2>4. Types'
    BY <2>1, <2>2, <2>3, TypesStep
  <2>5. Busy' <=> Busy
    BY <2>3 DEF Busy
  <2> QED
    BY <2>2, <2>3, <2>4, <2>5, QuietStep
<1> QED
  BY <1>1, <1>3, <1>4, <1>5, <1>6

(* Showing what was posted. *)
LEMMA DeliverStep ==
    ASSUME IInv, Deliver
    PROVE  IInv'
<1> USE DEF IInv, Types, TypeOK, shared, log, screen, closing
<1>1. queue' \in Seq(Posts) /\ (Busy => Busy')
  BY BusyDeliver
<1>2. Head(queue) \in Posts
  BY DEF Deliver
<1>3. /\ Head(queue).do = "show" => Head(queue).what \in States
      /\ Head(queue).do = "log" => Head(queue).what \in Seq(Runs)
      /\ Head(queue).do = "traffic" => Head(queue).what \in Runs \cup {nil}
  BY <1>2 DEF Posts
<1>4. /\ shown' \in States /\ grid' \in Seq(Runs) /\ traffic' \in Runs \cup {nil}
      /\ window' \in {"open", "closed"}
  BY <1>3 DEF Deliver
<1>5. Types'
  BY <1>1, <1>4, TypesStep DEF Deliver
<1> QED
  BY <1>1, <1>5, QuietStep DEF Deliver

(* The three parts of Connect. *)
LEMMA ConnectStep ==
    ASSUME IInv, ConnectClick \/ ConnectRegister \/ ConnectStart
    PROVE  IInv'
<1> USE DEF shared, log, screen, closing
<1>1. CASE ConnectClick
  <2>1. UNCHANGED <<patient, run, ctxDone, shared, writer, current, queue, screen, closing>>
        /\ buffer' = <<>> /\ handler' = "reset"
    BY <1>1 DEF ConnectClick
  <2>2. Types'
    BY <2>1, TypesStep DEF IInv, Types, TypeOK
  <2>3. unused # {} /\ unused' = unused
    BY <1>1, <2>1 DEF ConnectClick, unused
  <2>4. InOrder' /\ PairIsLatest'
    BY <2>1, <2>3 DEF IInv, InOrder, PairIsLatest
  <2>5. ASSUME patient PROVE OneLive'
    <3>1. queue = <<>> /\ shown = "Disconnected"
      BY <1>1, <2>5 DEF ConnectClick, Input, ConnectEnabled
    <3>2. ~Busy
      BY <3>1 DEF Busy
    <3> QED
      BY <2>1, <2>5, <3>2 DEF IInv, OneLive
  <2> QED
    BY <2>1, <2>2, <2>4, <2>5 DEF IInv
<1>2. CASE ConnectRegister
  <2>0. PICK n \in 0..MaxRuns : \A r \in Runs : run[r] = "unused" <=> r > n
    BY DEF IInv, InOrder
  <2>1. unused # {} /\ unused' = unused /\ fresh' = fresh
    BY <1>2 DEF ConnectRegister, IInv, InOrder, unused, fresh
  <2>2. fresh = n + 1 /\ fresh \in Runs /\ run[fresh] = "unused"
    BY <2>0, <2>1, FreshIsFirst
  <2>3. queue' \in Seq(Posts)
    <3>1. <<>> \in Seq(Runs) /\ [do |-> "log", what |-> <<>>] \in Posts
      BY DEF Posts
    <3>2. CASE patient
      BY <1>2, <3>1, <3>2, BusyPost DEF ConnectRegister, IInv, Types
    <3>3. CASE ~patient
      BY <1>2, <3>3 DEF ConnectRegister, IInv, Types
    <3> QED
      BY <3>2, <3>3
  <2>4. /\ cancel' = fresh /\ runDone' = fresh /\ handler' = "connect" /\ traffic' = nil
        /\ UNCHANGED <<patient, run, ctxDone, log, shown, grid, window, closing>>
    BY <1>2 DEF ConnectRegister
  <2>5. Types'
    BY <2>2, <2>3, <2>4, TypesStep DEF IInv, Types, TypeOK
  <2>6. InOrder'
    BY <2>1, <2>4 DEF IInv, InOrder
  <2>7. PairIsLatest'
    BY <2>0, <2>2, <2>4 DEF PairIsLatest, Runs
  <2>8. ASSUME patient PROVE OneLive'
    <3>1. \A r \in Runs : run[r] \notin Live
      BY <1>2, <2>8 DEF IInv, OneLive, ConnectRegister
    <3> QED
      BY <2>1, <2>4, <3>1 DEF OneLive, Live
  <2> QED
    BY <2>4, <2>5, <2>6, <2>7, <2>8 DEF IInv
<1>3. CASE ConnectStart
  <2>0. PICK n \in 0..MaxRuns : \A r \in Runs : run[r] = "unused" <=> r > n
    BY DEF IInv, InOrder
  <2>1. fresh = n + 1 /\ fresh \in Runs /\ cancel \in {nil, fresh} /\ run[fresh] = "unused"
    BY <1>3, <2>0, FreshIsFirst DEF ConnectStart, IInv, InOrder
  <2>2. /\ handler = "connect" /\ handler' = "idle"
        /\ UNCHANGED <<patient, ctxDone, shared, log, screen, closing>>
        /\ Post("show", "Connecting")
    BY <1>3 DEF ConnectStart
  <2>3. /\ run' \in [Runs -> Phases] /\ run'[fresh] = "starting"
        /\ \A r \in Runs \ {fresh} : run'[r] = run[r]
    BY <1>3, <2>1 DEF ConnectStart, IInv, Types, TypeOK, Phases, Active
  <2>4. queue' \in Seq(Posts) /\ Busy'
    <3>1. [do |-> "show", what |-> "Connecting"] \in Posts
      BY DEF Posts, States
    <3> QED
      BY <2>2, <3>1, BusyPost DEF IInv, Types
  <2>5. Types'
    BY <2>2, <2>3, <2>4, TypesStep DEF IInv, Types, TypeOK
  <2>6. n + 1 \in 0..MaxRuns /\ \A r \in Runs : run'[r] = "unused" <=> r > n + 1
    BY <2>0, <2>1, <2>3 DEF Runs
  <2>7. InOrder'
    BY <2>2, <2>6 DEF InOrder
  <2>8. PairIsLatest'
    BY <2>1, <2>2, <2>6 DEF IInv, PairIsLatest, nil
  <2>9. ASSUME patient PROVE OneLive'
    <3>1. \A r \in Runs : run[r] \notin Live
      BY <2>2, <2>9 DEF IInv, OneLive
    <3>2. cancel' = fresh
      BY <2>2, <2>9 DEF IInv, OneLive
    <3>3. \A r \in Runs : run'[r] \in Live \cup {"returned"} => r = fresh
      BY <2>3, <3>1 DEF Live
    <3>4. \A r \in Runs : run'[r] \in Active \cup {"returned"} => cancel' = r
      BY <3>2, <3>3 DEF Live
    <3> QED
      BY <2>2, <2>4, <3>3, <3>4 DEF OneLive
  <2> QED
    BY <2>2, <2>5, <2>7, <2>8, <2>9 DEF IInv
<1> QED
  BY <1>1, <1>2, <1>3

(* A line of the log, whether it is followed or not. *)
LEMMA WriteTypes ==
    ASSUME IInv, NEW r \in Runs, Write(r)
    PROVE  /\ {buffer', current'} \subseteq Seq(Runs) /\ writer' \in Runs \cup {nil}
           /\ UNCHANGED <<patient, ctxDone, shared, queue, screen, handler, closing>>
<1>1. CASE patient
  <2>1. /\ buffer \in Seq(Runs) /\ buffer' = Append(buffer, r) /\ current' = buffer'
        /\ writer' = r
    BY <1>1 DEF Write, IInv, Types, TypeOK
  <2>2. buffer' \in Seq(Runs)
    BY <2>1
  <2> QED
    BY <2>1, <2>2 DEF Write
<1>2. CASE ~patient
  BY <1>2 DEF Write, log, IInv, Types, TypeOK
<1> QED
  BY <1>1, <1>2

(* Log, LogError. *)
LEMMA LogStep ==
    ASSUME IInv, NEW r \in Runs, Log(r) \/ LogError(r)
    PROVE  IInv'
<1>1. Write(r) /\ (Step(r, "starting", "logged") \/ Step(r, "cleared", "failed"))
  BY DEF Log, LogError
<1>2. /\ {buffer', current'} \subseteq Seq(Runs) /\ writer' \in Runs \cup {nil}
      /\ UNCHANGED <<patient, ctxDone, shared, queue, screen, handler, closing>>
  BY <1>1, WriteTypes
<1>3. run' \in [Runs -> Phases]
  BY <1>1 DEF Step, Phases, Active, IInv, Types, TypeOK
<1>4. Types'
  BY <1>2, <1>3, TypesStep DEF IInv, Types, TypeOK, shared, screen, closing
<1>5. Busy => Busy'
  BY <1>2 DEF Busy, screen
<1>6. UNCHANGED <<patient, handler, cancel, runDone>>
  BY <1>2 DEF shared
<1>7. CASE Step(r, "starting", "logged")
  <2>1. /\ Moves("starting", "logged") /\ Clears("starting", "logged")
        /\ Announces("starting", "logged")
    <3>1. Moves("starting", "logged")
      BY DEF Moves, Live, Active
    <3>2. Clears("starting", "logged")
      BY <1>6 DEF Clears
    <3>3. Announces("starting", "logged")
      BY <1>5 DEF Announces
    <3> QED
      BY <3>1, <3>2, <3>3
  <2> QED
    BY <1>4, <1>6, <1>7, <2>1, GoroutineStep
<1>8. CASE Step(r, "cleared", "failed")
  <2>1. /\ Moves("cleared", "failed") /\ Clears("cleared", "failed")
        /\ Announces("cleared", "failed")
    <3>1. Moves("cleared", "failed")
      BY DEF Moves, Live, Active
    <3>2. Clears("cleared", "failed")
      BY <1>6 DEF Clears
    <3>3. Announces("cleared", "failed")
      BY <1>5 DEF Announces
    <3> QED
      BY <3>1, <3>2, <3>3
  <2> QED
    BY <1>4, <1>6, <1>8, <2>1, GoroutineStep
<1> QED
  BY <1>1, <1>7, <1>8

(* Steps of the goroutine that post, but for the last state. *)
LEMMA ReportStep ==
    ASSUME IInv, NEW r \in Runs, OnConnected(r) \/ Report(r) \/ FinalReport(r)
    PROVE  IInv'
<1> USE DEF IInv, Types, TypeOK, shared, log, screen, closing
<1>1. CASE OnConnected(r)
  <2>1. [do |-> "show", what |-> "Connected"] \in Posts
    BY DEF Posts, States
  <2>2. queue' \in Seq(Posts) /\ Busy'
    BY <1>1, <2>1, BusyPost DEF OnConnected
  <2>3. run' \in [Runs -> Phases]
    BY <1>1 DEF OnConnected, Step, Phases, Active
  <2>4. Types'
    BY <1>1, <2>2, <2>3, TypesStep DEF OnConnected
  <2>5. Step(r, "logged", "connected") /\ UNCHANGED <<patient, handler, cancel, runDone>>
    BY <1>1 DEF OnConnected
  <2>6. /\ Moves("logged", "connected") /\ Clears("logged", "connected")
        /\ Announces("logged", "connected")
    <3>1. Moves("logged", "connected")
      BY DEF Moves, Live, Active
    <3>2. Clears("logged", "connected")
      BY <2>5 DEF Clears
    <3>3. Announces("logged", "connected")
      BY <2>2 DEF Announces
    <3> QED
      BY <3>1, <3>2, <3>3
  <2> HIDE DEF IInv
  <2> QED
    BY <2>4, <2>5, <2>6, GoroutineStep
<1>2. ASSUME PostTraffic(r), UNCHANGED <<patient, shown>>
      PROVE  queue' \in Seq(Posts) /\ (Busy => Busy')
  <2>1. [do |-> "traffic", what |-> r] \in Posts
    BY DEF Posts
  <2>2. CASE patient
    BY <1>2, <2>1, <2>2, BusyPost DEF PostTraffic
  <2>3. CASE ~patient
    BY <1>2, <2>3 DEF PostTraffic, Busy
  <2> QED
    BY <2>2, <2>3
<1>3. CASE Report(r)
  <2>1. queue' \in Seq(Posts) /\ (Busy => Busy')
    BY <1>2, <1>3 DEF Report
  <2>2. Types'
    BY <1>3, <2>1, TypesStep DEF Report
  <2> QED
    BY <1>3, <2>1, <2>2, QuietStep DEF Report
<1>4. CASE FinalReport(r)
  <2>1. queue' \in Seq(Posts) /\ (Busy => Busy')
    BY <1>2, <1>4 DEF FinalReport
  <2>2. run' \in [Runs -> Phases]
    BY <1>4 DEF FinalReport, Step, Phases, Active
  <2>3. Types'
    BY <1>4, <2>1, <2>2, TypesStep DEF FinalReport
  <2>4. Step(r, "connected", "reported") /\ UNCHANGED <<patient, handler, cancel, runDone>>
    BY <1>4 DEF FinalReport
  <2>5. /\ Moves("connected", "reported") /\ Clears("connected", "reported")
        /\ Announces("connected", "reported")
    <3>1. Moves("connected", "reported")
      BY DEF Moves, Live, Active
    <3>2. Clears("connected", "reported")
      BY <2>4 DEF Clears
    <3>3. Announces("connected", "reported")
      BY <2>1 DEF Announces
    <3> QED
      BY <3>1, <3>2, <3>3
  <2> HIDE DEF IInv
  <2> QED
    BY <2>3, <2>4, <2>5, GoroutineStep
<1> QED
  BY <1>1, <1>3, <1>4

(* client.Run returns, the pair is cleared, the channel is closed. *)
LEMMA EndStep ==
    ASSUME IInv, NEW r \in Runs, RunReturns(r) \/ Clear(r) \/ CloseDone(r)
    PROVE  IInv'
<1>0. /\ UNCHANGED <<patient, ctxDone, log, queue, screen, handler, closing>>
      /\ \/ UNCHANGED shared
         \/ cancel' = nil /\ runDone' = nil /\ Step(r, "returned", "cleared")
  BY DEF RunReturns, Clear, CloseDone
<1>1. PICK from \in {"starting", "logged", "reported", "returned", "posted"},
           to \in {"returned", "cleared", "done"} :
        /\ Step(r, from, to)
        /\ \/ from \in {"starting", "logged", "reported"} /\ to = "returned"
           \/ from = "returned" /\ to = "cleared"
           \/ from = "posted" /\ to = "done"
  BY DEF RunReturns, Returns, Clear, CloseDone
<1>2. run' \in [Runs -> Phases]
  BY <1>1 DEF Step, Phases, Active, IInv, Types, TypeOK
<1>3. {cancel', runDone'} \subseteq Runs \cup {nil}
  BY <1>0 DEF shared, IInv, Types, TypeOK
<1>4. Types'
  BY <1>0, <1>2, <1>3, TypesStep DEF IInv, Types, TypeOK, log, screen, closing
<1>5. Busy => Busy'
  BY <1>0 DEF Busy, screen
<1>6. Moves(from, to) /\ Announces(from, to)
  <2>1. Moves(from, to)
    BY <1>1 DEF Live, Active, Moves
  <2>2. Announces(from, to)
    BY <1>5 DEF Announces
  <2> QED
    BY <2>1, <2>2
<1>7. Clears(from, to)
  <2>1. Step(r, "returned", "cleared") => from = "returned" /\ to = "cleared"
    BY <1>1 DEF Step
  <2> QED
    BY <1>0, <2>1 DEF shared, Clears
<1> QED
  BY <1>0, <1>1, <1>4, <1>6, <1>7, GoroutineStep

(* The last state a run posts: nothing is live after it. *)
LEMMA PostDisconnectedStep ==
    ASSUME IInv, NEW r \in Runs, PostDisconnected(r)
    PROVE  IInv'
<1>1. PICK from \in {"cleared", "failed"} : Step(r, from, "posted")
  BY DEF PostDisconnected
<1>2. /\ UNCHANGED <<patient, ctxDone, shared, log, screen, handler, closing>>
      /\ Post("show", "Disconnected")
  BY DEF PostDisconnected
<1>3. queue' \in Seq(Posts)
  <2>1. [do |-> "show", what |-> "Disconnected"] \in Posts
    BY DEF Posts, States
  <2> QED
    BY <1>2, <2>1, BusyPost DEF screen, IInv, Types
<1>4. run' \in [Runs -> Phases]
  BY <1>1 DEF Step, Phases, IInv, Types, TypeOK
<1>5. Types'
  BY <1>2, <1>3, <1>4, TypesStep DEF IInv, Types, TypeOK, shared, log, screen, closing
<1>6. from \in Live /\ "posted" \notin Live
  BY DEF Live, Active
<1>7. "posted" \notin Active \cup {"returned"}
  BY DEF Active
<1>8. Moves(from, "posted") /\ Clears(from, "posted") /\ Announces(from, "posted")
  BY <1>2, <1>6, <1>7 DEF Moves, Clears, Announces, shared
<1> QED
  BY <1>1, <1>2, <1>5, <1>8, GoroutineStep

(* Render, and the goroutine of a close request. *)
LEMMA BesideStep ==
    ASSUME IInv, NEW r \in Runs, Render(r) \/ WaiterPosts(r)
    PROVE  IInv'
<1> USE DEF IInv, Types, TypeOK, shared, log, screen, closing
<1>1. CASE Render(r)
  <2>1. [do |-> "log", what |-> current] \in Posts
    BY DEF Posts
  <2>2. queue' \in Seq(Posts) /\ (Busy => Busy')
    BY <1>1, <2>1, BusyPost DEF Render
  <2>3. Types'
    BY <1>1, <2>2, TypesStep DEF Render
  <2> QED
    BY <1>1, <2>2, <2>3, QuietStep DEF Render
<1>2. CASE WaiterPosts(r)
  <2>1. [do |-> "close", what |-> nil] \in Posts
    BY DEF Posts
  <2>2. queue' \in Seq(Posts) /\ (Busy => Busy')
    BY <1>2, <2>1, BusyPost DEF WaiterPosts
  <2>3. Types'
    BY <1>2, <2>2, TypesStep DEF WaiterPosts
  <2> QED
    BY <1>2, <2>2, <2>3, QuietStep DEF WaiterPosts
<1> QED
  BY <1>1, <1>2

(* Every step keeps the invariant. *)
LEMMA NextInvariant == IInv /\ [Next]_vars => IInv'
<1> SUFFICES ASSUME IInv, [Next]_vars
             PROVE  IInv'
  OBVIOUS
<1>1. CASE UNCHANGED vars \/ Exited
  <2>1. UNCHANGED vars
    BY <1>1 DEF Exited
  <2>2. UNCHANGED <<patient, run, ctxDone, cancel, runDone, buffer, writer, current, queue,
                    shown, grid, traffic, window, handler, snapshot, waiters>>
    BY <2>1 DEF vars, shared, log, screen, closing
  <2>3. Types'
    BY <2>2, TypesStep DEF IInv, Types, TypeOK
  <2>4. Busy => Busy'
    BY <2>2 DEF Busy
  <2> QED
    BY <2>2, <2>3, <2>4, QuietStep
<1>2. CASE User \/ Ui
  BY <1>2, InputStep, ConnectStep, DeliverStep DEF User, Ui
<1>3. ASSUME NEW r \in Runs,
             \/ Log(r) \/ OnConnected(r) \/ Report(r) \/ FinalReport(r) \/ RunReturns(r)
             \/ Ends(r) \/ WaiterPosts(r)
      PROVE  IInv'
  BY <1>3, LogStep, ReportStep, EndStep, PostDisconnectedStep, BesideStep DEF Ends
<1> QED
  BY <1>1, <1>2, <1>3 DEF Next

(* DesktopGui's inductive invariant, for any number of runs and functions   *)
(* in the queue.                                                           *)
THEOREM GuiInvariant == Spec => []IInv
  BY InitInvariant, NextInvariant, PTL DEF Spec

(* Type correctness of the application's state. *)
THEOREM GuiTypes == Spec => []TypeOK
<1>1. IInv => TypeOK
  BY DEF IInv, Types
<1> QED
  BY <1>1, GuiInvariant, PTL

(* The stop function and the channel always are those of the latest run,    *)
(* for every user, however the goroutines of the runs overlap.             *)
THEOREM LatestPair == Spec => []PairIsLatest
<1>1. IInv => PairIsLatest
  BY DEF IInv
<1> QED
  BY <1>1, GuiInvariant, PTL

(* A user who waits for the window never starts a second client.Run, and    *)
(* finds the stop function of the one there is.                            *)
THEOREM OneRun == Spec => []OneRunThatStops
<1>1. IInv => OneRunThatStops
  BY DEF IInv, OneLive, OneRunThatStops, active, Live
<1> QED
  BY <1>1, GuiInvariant, PTL

-----------------------------------------------------------------------------
(* The window. What it will show once everything that is posted has been    *)
(* shown: Busy for the lamp, ShowsText for the log.                        *)

ShowsText(q, g, text) ==
    \/ g = text /\ \A i \in 1..Len(q) : q[i].do # "log"
    \/ \E i \in 1..Len(q) :
          /\ q[i].do = "log" /\ q[i].what = text
          /\ \A j \in 1..Len(q) : j > i => q[j].do # "log"

ClosePosted(q) == \E i \in 1..Len(q) : q[i].do = "close"

ReportsOf(q, L) == \A i \in 1..Len(q) : q[i].do = "traffic" => q[i].what \in L

SomeLive == \E r \in Runs : run[r] \in Live

(* A close request has stopped a run, or the window is closed.              *)
Leaving == handler = "close" \/ waiters # {} \/ window = "closed" \/ ClosePosted(queue)

(* The lamp will be red, unless a run has not ended or the application is    *)
(* about to exit.                                                          *)
LampInv == patient => (Busy => SomeLive \/ Leaving)

(* The log will be what is in the buffer, but while a line is being written *)
(* or the buffer is being reset.                                           *)
LogInv ==
    /\ writer # nil => run[writer] \in Live /\ current = buffer
    /\ handler \in {"reset", "connect"} => buffer = <<>>
    /\ writer = nil /\ handler # "reset" => ShowsText(queue, grid, buffer)

(* Everything on the way to the window is of the latest run.                *)
LatestInv ==
    /\ \A r \in Runs : run[r] \in Live => r \in latest
    /\ \A i \in 1..Len(buffer) : buffer[i] \in latest
    /\ traffic \in latest \cup {nil}
    /\ ReportsOf(queue, latest)
    /\ handler \in {"reset", "connect"} => ReportsOf(queue, {})
    /\ handler = "connect" => traffic = nil

WindowInv == patient => LogInv /\ LatestInv

LEMMA Posted ==
    ASSUME queue \in Seq(Posts), NEW do, NEW what, [do |-> do, what |-> what] \in Posts,
           Post(do, what)
    PROVE  /\ do = "show" /\ what = "Disconnected" => ~Busy'
           /\ do # "show" /\ shown' = shown /\ Busy' => Busy
           /\ do = "close" => ClosePosted(queue')
           /\ ClosePosted(queue) => ClosePosted(queue')
           /\ \A g : do = "log" => ShowsText(queue', g, what)
           /\ \A g, text : do # "log" /\ ShowsText(queue, g, text) => ShowsText(queue', g, text)
           /\ \A L : (do = "traffic" => what \in L) /\ ReportsOf(queue, L) => ReportsOf(queue', L)
<1> DEFINE x == [do |-> do, what |-> what]
<1>1. /\ queue' = Append(queue, x) /\ x.do = do /\ x.what = what
      /\ Len(queue) \in Nat /\ Len(queue') = Len(queue) + 1 /\ queue'[Len(queue) + 1] = x
      /\ \A i \in 1..Len(queue) : queue'[i] = queue[i]
  BY DEF Post
<1>2. PICK n \in Nat : n = Len(queue)
  BY <1>1
<1>3. /\ Len(queue') = n + 1 /\ queue'[n + 1].do = do /\ queue'[n + 1].what = what
      /\ \A i \in 1..n : queue'[i] = queue[i]
  BY <1>1, <1>2
<1>4. PICK q : q = queue'
  OBVIOUS
<1>5. /\ n = Len(queue) /\ Len(q) = n + 1 /\ q[n + 1].do = do /\ q[n + 1].what = what
      /\ \A i \in 1..n : q[i] = queue[i]
  BY <1>2, <1>3, <1>4
<1> HIDE DEF x
<1>6. do = "show" /\ what = "Disconnected" => ~Busy'
  BY <1>3 DEF Busy
<1>7. do # "show" /\ shown' = shown /\ Busy' => Busy
  BY <1>2, <1>3 DEF Busy
<1>8. do = "close" => ClosePosted(q)
  BY <1>5 DEF ClosePosted
<1>9. ClosePosted(queue) => ClosePosted(q)
  BY <1>5 DEF ClosePosted
<1>10. ASSUME NEW g, do = "log" PROVE ShowsText(q, g, what)
  BY <1>5, <1>10 DEF ShowsText
<1>11. ASSUME NEW g, NEW text, do # "log", ShowsText(queue, g, text)
       PROVE  ShowsText(q, g, text)
  BY <1>5, <1>11 DEF ShowsText
<1>12. ASSUME NEW L, do = "traffic" => what \in L, ReportsOf(queue, L)
       PROVE  ReportsOf(q, L)
  BY <1>5, <1>12 DEF ReportsOf
<1> QED
  BY <1>4, <1>6, <1>7, <1>8, <1>9, <1>10, <1>11, <1>12

LEMMA Delivered ==
    ASSUME queue \in Seq(Posts), Deliver
    PROVE  /\ Busy' => Busy
           /\ ClosePosted(queue) => ClosePosted(queue') \/ window' = "closed"
           /\ \A text : ShowsText(queue, grid, text) => ShowsText(queue', grid', text)
           /\ \A L : ReportsOf(queue, L) => ReportsOf(queue', L) /\ traffic' \in L \cup {traffic}
<1>1. /\ queue # <<>> /\ queue' = Tail(queue)
      /\ Len(queue) \in Nat /\ Len(queue) > 0 /\ Len(queue') = Len(queue) - 1
      /\ \A i \in 1..Len(queue') : queue'[i] = queue[i + 1]
      /\ Head(queue) = queue[1]
  BY DEF Deliver
<1>2. /\ shown' = IF queue[1].do = "show" THEN queue[1].what ELSE shown
      /\ grid' = IF queue[1].do = "log" THEN queue[1].what ELSE grid
      /\ traffic' = IF queue[1].do = "traffic" THEN queue[1].what ELSE traffic
      /\ window' = IF queue[1].do = "close" THEN "closed" ELSE window
  BY <1>1 DEF Deliver
<1>3. PICK n \in Nat : n = Len(queue')
  <2>1. Len(queue') \in Nat
    BY <1>1
  <2> QED
    BY <2>1
<1>4. PICK q : q = queue'
  OBVIOUS
<1>5. /\ Len(queue) = n + 1 /\ Len(q) = n /\ \A i \in 1..n : q[i] = queue[i + 1]
      /\ \A j \in 1..n + 1 : j # 1 => j - 1 \in 1..n /\ q[j - 1] = queue[j]
  BY <1>1, <1>3, <1>4
<1>6. Busy' => Busy
  <2>1. CASE \A i \in 1..n : q[i].do # "show"
    BY <1>2, <1>4, <1>5, <2>1 DEF Busy
  <2>2. ASSUME NEW i \in 1..n, q[i].do = "show", q[i].what # "Disconnected",
               \A j \in 1..n : j > i => q[j].do # "show"
        PROVE  Busy
    <3>1. PICK k \in 1..n + 1 : k = i + 1
      OBVIOUS
    <3>2. queue[k].do = "show" /\ queue[k].what # "Disconnected"
      BY <1>5, <2>2, <3>1
    <3>3. \A j \in 1..n + 1 : j > k => queue[j].do # "show"
      BY <1>5, <2>2, <3>1
    <3> QED
      BY <1>5, <3>2, <3>3 DEF Busy
  <2> QED
    BY <1>4, <1>5, <2>1, <2>2 DEF Busy
<1>7. ClosePosted(queue) => ClosePosted(q) \/ window' = "closed"
  BY <1>2, <1>5 DEF ClosePosted
<1>8. ASSUME NEW text, ShowsText(queue, grid, text)
      PROVE  ShowsText(q, grid', text)
  <2>1. CASE \A i \in 1..Len(queue) : queue[i].do # "log"
    BY <1>2, <1>5, <1>8, <2>1 DEF ShowsText
  <2>2. ASSUME NEW i \in 1..Len(queue), queue[i].do = "log", queue[i].what = text,
               \A j \in 1..Len(queue) : j > i => queue[j].do # "log"
        PROVE  ShowsText(q, grid', text)
    <3>1. CASE i = 1
      <4>1. grid' = text
        BY <1>2, <2>2, <3>1
      <4>2. \A j \in 1..n : q[j].do # "log"
        BY <1>5, <2>2, <3>1
      <4> QED
        BY <1>5, <4>1, <4>2 DEF ShowsText
    <3>2. CASE i # 1
      <4>1. PICK k \in 1..n : k = i - 1 /\ q[k] = queue[i]
        BY <1>5, <3>2
      <4>2. \A j \in 1..n : j > k => q[j].do # "log"
        BY <1>5, <2>2, <4>1
      <4> QED
        BY <1>5, <2>2, <4>1, <4>2 DEF ShowsText
    <3> QED
      BY <3>1, <3>2
  <2> QED
    BY <1>8, <2>1, <2>2 DEF ShowsText
<1>9. ASSUME NEW L, ReportsOf(queue, L)
      PROVE  ReportsOf(q, L) /\ traffic' \in L \cup {traffic}
  BY <1>2, <1>5, <1>9 DEF ReportsOf
<1> QED
  BY <1>4, <1>6, <1>7, <1>8, <1>9

(* A step that changes neither the log nor who is the latest run, and posts *)
(* neither a text nor a report of another run.                             *)
LEMMA LogUntouched ==
    ASSUME IInv, WindowInv, patient, UNCHANGED <<patient, log, traffic>>,
           handler' = handler \/ (handler # "reset" /\ handler' \notin {"reset", "connect"}),
           latest' = latest,
           \A r \in Runs : run'[r] \in Live => run[r] \in Live,
           writer # nil => run'[writer] = run[writer],
           ShowsText(queue, grid, buffer) => ShowsText(queue', grid', buffer),
           ReportsOf(queue', latest),
           handler \in {"reset", "connect"} => ReportsOf(queue', {})
    PROVE  WindowInv'
<1> USE DEF log
<1>1. LogInv'
  BY DEF WindowInv, LogInv
<1>2. LatestInv'
  BY DEF WindowInv, LatestInv
<1> QED
  BY <1>1, <1>2 DEF WindowInv

LEMMA LatestIs ==
    ASSUME NEW n \in 0..MaxRuns, \A r \in Runs : run[r] = "unused" <=> r > n
    PROVE  latest = {r \in Runs : r = n}
BY BoundsAssumption DEF latest, Runs

(* A step of a goroutine that has not ended. *)
LEMMA GoroutineRuns ==
    ASSUME IInv, NEW r \in Runs, NEW from, NEW to, Step(r, from, to),
           from # "unused", to # "unused", to \in Live => from \in Live
    PROVE  /\ latest' = latest
           /\ \A q \in Runs : run'[q] \in Live => run[q] \in Live
           /\ \A q \in Runs : q # r => run'[q] = run[q]
           /\ from \in Live => SomeLive
           /\ to \in Live => SomeLive'
           /\ from \notin Live => (SomeLive => SomeLive')
           /\ writer # nil => run'[writer] = run[writer]
<1>1. /\ run[r] = from /\ run'[r] = to /\ writer # r
      /\ \A q \in Runs \ {r} : run'[q] = run[q]
  BY DEF Step, IInv, Types, TypeOK
<1>2. latest' = latest
  BY <1>1 DEF latest
<1>3. writer \in Runs \cup {nil}
  BY DEF IInv, Types, TypeOK
<1> QED
  BY <1>1, <1>2, <1>3 DEF SomeLive

LEMMA NothingLive ==
    ASSUME IInv, WindowInv, patient, ~SomeLive
    PROVE  writer = nil
BY DEF WindowInv, LogInv, SomeLive, IInv, Types, TypeOK

(* A patient user who can click Connect, or has, finds nothing live.        *)
LEMMA ConnectFindsNothingLive ==
    ASSUME IInv, patient,
           (Input /\ ConnectEnabled) \/ handler \in {"reset", "connect"}
    PROVE  ~SomeLive
<1>1. Input /\ ConnectEnabled => ~Busy
  BY DEF Input, ConnectEnabled, Busy
<1> QED
  BY <1>1 DEF IInv, OneLive, SomeLive

LEMMA WindowReports ==
    ASSUME WindowInv, patient
    PROVE  /\ ReportsOf(queue, latest)
           /\ handler \in {"reset", "connect"} => ReportsOf(queue, {})
BY DEF WindowInv, LatestInv

(* The handlers of the UI goroutine, but for those of Connect.              *)
LEMMA WindowInput ==
    ASSUME IInv, WindowInv, patient,
           ConnectInvalid \/ DisconnectClick \/ DisconnectCancel \/ CloseClick \/ CloseShow
    PROVE  WindowInv'
<1> USE DEF shared, screen, closing
<1>1. queue \in Seq(Posts)
  BY DEF IInv, Types
<1>2. /\ UNCHANGED <<patient, run, log, traffic, grid>>
      /\ handler \in {"idle", "disconnect", "close"} /\ handler' \in {"idle", "disconnect", "close"}
      /\ \/ UNCHANGED queue
         \/ \E what \in States : Post("show", what)
  BY DEF ConnectInvalid, DisconnectClick, DisconnectCancel, CloseClick, CloseShow, Input, States
<1>3. /\ ShowsText(queue, grid, buffer) => ShowsText(queue', grid', buffer)
      /\ ReportsOf(queue', latest)
  <2>1. CASE UNCHANGED queue
    BY <1>2, <2>1, WindowReports
  <2>2. CASE \E what \in States : Post("show", what)
    <3>1. PICK what \in States : Post("show", what)
      BY <2>2
    <3>2. [do |-> "show", what |-> what] \in Posts
      BY DEF Posts
    <3> QED
      BY <1>1, <1>2, <3>1, <3>2, Posted, WindowReports
  <2> QED
    BY <1>2, <2>1, <2>2
<1>4. latest' = latest
  BY <1>2 DEF latest
<1> QED
  BY <1>2, <1>3, <1>4, LogUntouched

LEMMA WindowDeliver ==
    ASSUME IInv, WindowInv, patient, Deliver
    PROVE  WindowInv'
<1>1. UNCHANGED <<patient, run, log, handler>> /\ handler = "idle"
  BY DEF Deliver
<1>2. latest' = latest
  BY <1>1 DEF latest
<1>3. queue \in Seq(Posts)
  BY DEF IInv, Types
<1>4. LogInv'
  BY <1>1, <1>3, Delivered DEF WindowInv, LogInv, log
<1>5. ReportsOf(queue', latest) /\ traffic' \in latest \cup {nil}
  <2>1. ReportsOf(queue, latest) /\ traffic \in latest \cup {nil}
    BY DEF WindowInv, LatestInv
  <2>2. ReportsOf(queue', latest) /\ traffic' \in latest \cup {traffic}
    BY <1>3, <2>1, Delivered
  <2> QED
    BY <2>1, <2>2
<1>6. LatestInv'
  BY <1>1, <1>2, <1>5 DEF WindowInv, LatestInv, log
<1> QED
  BY <1>4, <1>6 DEF WindowInv

(* Connect: the buffer is empty, and nothing writes to it, until the run     *)
(* starts.                                                                 *)
LEMMA WindowConnect ==
    ASSUME IInv, WindowInv, patient, ConnectClick \/ ConnectRegister \/ ConnectStart
    PROVE  WindowInv'
<1> USE DEF shared, screen, closing, log
<1>0. queue \in Seq(Posts)
  BY DEF IInv, Types
<1>1. ~SomeLive
  BY ConnectFindsNothingLive DEF ConnectClick, ConnectRegister, ConnectStart
<1>2. writer = nil
  BY <1>1, NothingLive
<1>3. CASE ConnectClick
  <2>1. /\ UNCHANGED <<patient, run, writer, current, queue, traffic, grid>>
        /\ buffer' = <<>> /\ handler' = "reset" /\ queue = <<>>
    BY <1>3 DEF ConnectClick, Input
  <2>2. latest' = latest
    BY <2>1 DEF latest
  <2>3. LogInv'
    BY <1>2, <2>1 DEF LogInv
  <2>4. ReportsOf(queue', {}) /\ ReportsOf(queue', latest)
    BY <2>1 DEF ReportsOf
  <2>5. LatestInv'
    BY <2>1, <2>2, <2>4 DEF WindowInv, LatestInv
  <2> QED
    BY <2>3, <2>5 DEF WindowInv
<1>4. CASE ConnectRegister
  <2>1. /\ UNCHANGED <<patient, run, buffer, writer, current, grid>>
        /\ traffic' = nil /\ Post("log", <<>>) /\ handler = "reset" /\ handler' = "connect"
    BY <1>4 DEF ConnectRegister
  <2>2. latest' = latest
    BY <2>1 DEF latest
  <2>3. <<>> \in Seq(Runs) /\ [do |-> "log", what |-> <<>>] \in Posts
    BY DEF Posts
  <2>4. ShowsText(queue', grid, <<>>) /\ ReportsOf(queue', {}) /\ ReportsOf(queue', latest)
    BY <1>0, <2>1, <2>3, Posted, WindowReports
  <2>5. LogInv'
    BY <1>2, <2>1, <2>4 DEF WindowInv, LogInv
  <2>6. LatestInv'
    BY <2>1, <2>2, <2>4 DEF WindowInv, LatestInv
  <2> QED
    BY <2>5, <2>6 DEF WindowInv
<1>5. CASE ConnectStart
  <2>1. /\ UNCHANGED <<patient, buffer, writer, current, grid, traffic>>
        /\ Post("show", "Connecting") /\ handler = "connect" /\ handler' = "idle"
        /\ run' = [run EXCEPT ![fresh] = "starting"]
    BY <1>5 DEF ConnectStart
  <2>2. PICK n \in 0..MaxRuns : \A r \in Runs : run[r] = "unused" <=> r > n
    BY DEF IInv, InOrder
  <2>3. fresh = n + 1 /\ fresh \in Runs
    BY <2>1, <2>2, FreshIsFirst DEF IInv, InOrder
  <2>4. /\ run'[fresh] = "starting" /\ \A r \in Runs \ {fresh} : run'[r] = run[r]
    BY <2>1, <2>3 DEF IInv, Types, TypeOK
  <2>5. \A r \in Runs : run'[r] \in Live => r = fresh
    BY <1>1, <2>4 DEF SomeLive
  <2>6. fresh \in latest'
    BY <2>2, <2>3, <2>4 DEF latest, Runs
  <2>7. [do |-> "show", what |-> "Connecting"] \in Posts
    BY DEF Posts, States
  <2>8. buffer = <<>> /\ traffic = nil /\ ReportsOf(queue, {}) /\ ShowsText(queue, grid, buffer)
    BY <1>2, <2>1 DEF WindowInv, LogInv, LatestInv
  <2>9. ReportsOf(queue', {}) /\ ShowsText(queue', grid, buffer)
    BY <1>0, <2>1, <2>7, <2>8, Posted
  <2>10. ReportsOf(queue', latest')
    BY <2>9 DEF ReportsOf
  <2>11. LogInv'
    BY <1>2, <2>1, <2>8, <2>9 DEF LogInv
  <2>12. LatestInv'
    BY <2>1, <2>5, <2>6, <2>8, <2>10 DEF LatestInv
  <2> QED
    BY <2>11, <2>12 DEF WindowInv
<1> QED
  BY <1>3, <1>4, <1>5

(* The goroutine of a run writes a line, and renders it. *)
LEMMA WindowLog ==
    ASSUME IInv, WindowInv, patient, NEW r \in Runs, Log(r) \/ LogError(r)
    PROVE  WindowInv'
<1>1. PICK from \in {"starting", "cleared"}, to \in {"logged", "failed"} : Step(r, from, to)
  BY DEF Log, LogError
<1>2. /\ writer = nil /\ writer' = r /\ buffer' = Append(buffer, r) /\ current' = buffer'
      /\ UNCHANGED <<patient, queue, grid, traffic, handler>>
  BY DEF Log, LogError, Write, screen
<1>3. from \in Live /\ to \in Live /\ from # "unused" /\ to # "unused"
  BY DEF Live, Active
<1>4. latest' = latest /\ \A q \in Runs : run'[q] \in Live => run[q] \in Live
  BY <1>1, <1>3, GoroutineRuns
<1>5. run[r] \in Live /\ run'[r] \in Live
  BY <1>1, <1>3 DEF Step, IInv, Types, TypeOK
<1>6. r \in latest /\ r # nil
  BY <1>5 DEF WindowInv, LatestInv, Runs, nil
<1>7. handler \notin {"reset", "connect"}
  BY <1>5 DEF IInv, OneLive
<1>8. \A i \in 1..Len(buffer') : buffer'[i] \in latest
  <2>1. buffer \in Seq(latest)
    <3>1. buffer \in Seq(Runs) /\ \A i \in 1..Len(buffer) : buffer[i] \in latest
      BY DEF WindowInv, LatestInv, IInv, Types, TypeOK
    <3> QED
      BY <3>1
  <2>2. buffer' \in Seq(latest)
    BY <1>2, <1>6, <2>1
  <2> QED
    BY <2>2
<1>9. LogInv'
  BY <1>2, <1>5, <1>6, <1>7 DEF LogInv
<1>10. LatestInv'
  BY <1>2, <1>4, <1>7, <1>8 DEF WindowInv, LatestInv
<1> QED
  BY <1>9, <1>10 DEF WindowInv

LEMMA WindowRender ==
    ASSUME IInv, WindowInv, patient, NEW r \in Runs, Render(r)
    PROVE  WindowInv'
<1> USE DEF screen
<1>1. /\ UNCHANGED <<patient, run, buffer, grid, traffic, handler>>
      /\ writer' = nil /\ current = buffer /\ Post("log", buffer)
  BY DEF Render, WindowInv, LogInv, Runs, nil
<1>2. queue \in Seq(Posts) /\ [do |-> "log", what |-> buffer] \in Posts
  BY DEF IInv, Types, TypeOK, Posts
<1>3. ShowsText(queue', grid, buffer)
  BY <1>1, <1>2, Posted
<1>4. /\ ReportsOf(queue', latest)
      /\ handler \in {"reset", "connect"} => ReportsOf(queue', {})
  BY <1>1, <1>2, Posted, WindowReports
<1>5. latest' = latest
  BY <1>1 DEF latest
<1>6. LogInv'
  BY <1>1, <1>3 DEF WindowInv, LogInv
<1>7. LatestInv'
  BY <1>1, <1>4, <1>5 DEF WindowInv, LatestInv
<1> QED
  BY <1>6, <1>7 DEF WindowInv

(* A goroutine that has not ended reports the statistics of the latest run. *)
LEMMA WindowReport ==
    ASSUME IInv, WindowInv, patient, NEW r \in Runs, Report(r) \/ FinalReport(r)
    PROVE  WindowInv'
<1> USE DEF screen, shared, log
<1>1. /\ UNCHANGED <<patient, log, grid, traffic, handler>>
      /\ Post("traffic", r) /\ run[r] = "connected"
  BY DEF Report, FinalReport, PostTraffic, Step
<1>2. "connected" \in Live /\ "reported" \in Live
  BY DEF Live, Active
<1>3. r \in latest /\ handler \notin {"reset", "connect"}
  BY <1>1, <1>2 DEF WindowInv, LatestInv, IInv, OneLive
<1>4. queue \in Seq(Posts) /\ [do |-> "traffic", what |-> r] \in Posts
  BY DEF IInv, Types, Posts
<1>5. /\ ShowsText(queue, grid, buffer) => ShowsText(queue', grid, buffer)
      /\ ReportsOf(queue', latest)
  BY <1>1, <1>3, <1>4, Posted, WindowReports
<1>6. /\ latest' = latest
      /\ \A q \in Runs : run'[q] \in Live => run[q] \in Live
      /\ writer # nil => run'[writer] = run[writer]
  <2>1. CASE Report(r)
    BY <2>1 DEF Report, latest
  <2>2. CASE Step(r, "connected", "reported")
    BY <1>2, <2>2, GoroutineRuns
  <2> QED
    BY <2>1, <2>2 DEF FinalReport
<1> QED
  BY <1>1, <1>3, <1>5, <1>6, LogUntouched

(* What else a goroutine does posts a state or a close, or nothing.         *)
LEMMA WindowGoroutine ==
    ASSUME IInv, WindowInv, patient, NEW r \in Runs,
           \/ OnConnected(r) \/ RunReturns(r) \/ Clear(r) \/ PostDisconnected(r)
           \/ CloseDone(r) \/ WaiterPosts(r)
    PROVE  WindowInv'
<1> USE DEF screen, shared, log, closing
<1>1. /\ UNCHANGED <<patient, log, grid, traffic, handler>>
      /\ \/ UNCHANGED queue
         \/ Post("show", "Connected")
         \/ Post("show", "Disconnected")
         \/ Post("close", nil)
  BY DEF OnConnected, RunReturns, Clear, PostDisconnected, CloseDone, WaiterPosts
<1>2. /\ queue \in Seq(Posts)
      /\ [do |-> "show", what |-> "Connected"] \in Posts
      /\ [do |-> "show", what |-> "Disconnected"] \in Posts
      /\ [do |-> "close", what |-> nil] \in Posts
  BY DEF IInv, Types, Posts, States
<1>3. /\ ShowsText(queue, grid, buffer) => ShowsText(queue', grid, buffer)
      /\ ReportsOf(queue', latest)
      /\ handler \in {"reset", "connect"} => ReportsOf(queue', {})
  <2>1. CASE UNCHANGED queue
    BY <1>1, <2>1, WindowReports
  <2>2. CASE Post("show", "Connected")
    BY <1>1, <1>2, <2>2, Posted, WindowReports
  <2>3. CASE Post("show", "Disconnected")
    BY <1>1, <1>2, <2>3, Posted, WindowReports
  <2>4. CASE Post("close", nil)
    BY <1>1, <1>2, <2>4, Posted, WindowReports
  <2> QED
    BY <1>1, <2>1, <2>2, <2>3, <2>4
<1>4. \/ UNCHANGED run
      \/ \E from \in Live \cup {"posted"}, to \in Phases :
            Step(r, from, to) /\ to # "unused" /\ (to \in Live => from \in Live)
  <2>1. CASE OnConnected(r)
    BY <2>1 DEF OnConnected, Live, Active, Phases
  <2>2. CASE RunReturns(r)
    BY <2>2 DEF RunReturns, Returns, Live, Active, Phases
  <2>3. CASE Clear(r)
    BY <2>3 DEF Clear, Live, Active, Phases
  <2>4. CASE PostDisconnected(r)
    BY <2>4 DEF PostDisconnected, Live, Active, Phases
  <2>5. CASE CloseDone(r)
    BY <2>5 DEF CloseDone, Live, Active, Phases
  <2>6. CASE WaiterPosts(r)
    BY <2>6 DEF WaiterPosts
  <2> QED
    BY <2>1, <2>2, <2>3, <2>4, <2>5, <2>6
<1>5. /\ latest' = latest
      /\ \A q \in Runs : run'[q] \in Live => run[q] \in Live
      /\ writer # nil => run'[writer] = run[writer]
  <2>1. CASE UNCHANGED run
    BY <2>1 DEF latest
  <2>2. ASSUME NEW from \in Live \cup {"posted"}, NEW to \in Phases,
               Step(r, from, to), to # "unused", to \in Live => from \in Live
        PROVE  /\ latest' = latest
               /\ \A q \in Runs : run'[q] \in Live => run[q] \in Live
               /\ writer # nil => run'[writer] = run[writer]
    <3>1. from # "unused"
      BY DEF Live, Active
    <3> QED
      BY <2>2, <3>1, GoroutineRuns
  <2> QED
    BY <1>4, <2>1, <2>2
<1> QED
  BY <1>1, <1>3, <1>5, LogUntouched

LEMMA InitWindow == Init => WindowInv
<1> SUFFICES ASSUME Init
             PROVE  WindowInv
  OBVIOUS
<1>1. LogInv
  BY DEF Init, LogInv, ShowsText
<1>2. LatestInv
  BY DEF Init, LatestInv, ReportsOf, Live, Active
<1> QED
  BY <1>1, <1>2 DEF WindowInv

LEMMA NextWindow == IInv /\ WindowInv /\ [Next]_vars => WindowInv'
<1> SUFFICES ASSUME IInv, WindowInv, [Next]_vars
             PROVE  WindowInv'
  OBVIOUS
<1>1. patient' = patient
  BY DEF Next, User, Ui, Ends, Exited, vars, ConnectInvalid, ConnectClick, DisconnectClick,
         CloseClick, ConnectRegister, ConnectStart, DisconnectCancel, CloseShow, Deliver,
         Log, LogError, Write, OnConnected, Report, FinalReport, RunReturns, Render, Clear,
         PostDisconnected, CloseDone, WaiterPosts
<1>2. CASE ~patient
  BY <1>1, <1>2 DEF WindowInv
<1>3. CASE patient
  <2>1. CASE UNCHANGED vars \/ Exited
    <3>1. UNCHANGED <<patient, run, buffer, writer, current, queue, grid, traffic, handler>>
      BY <2>1 DEF Exited, vars, log, screen
    <3>2. latest' = latest
      BY <3>1 DEF latest
    <3> QED
      BY <3>1, <3>2 DEF WindowInv, LogInv, LatestInv
  <2>2. CASE User \/ Ui
    BY <1>3, <2>2, WindowInput, WindowConnect, WindowDeliver DEF User, Ui
  <2>3. ASSUME NEW r \in Runs,
               \/ Log(r) \/ OnConnected(r) \/ Report(r) \/ FinalReport(r) \/ RunReturns(r)
               \/ Ends(r) \/ WaiterPosts(r)
        PROVE  WindowInv'
    BY <1>3, <2>3, WindowLog, WindowRender, WindowReport, WindowGoroutine DEF Ends
  <2> QED
    BY <2>1, <2>2, <2>3 DEF Next
<1> QED
  BY <1>2, <1>3

(* For a user who waits for the window, the log and the statistics are the  *)
(* latest run's, and all of its log is shown when nothing is left to do.    *)
THEOREM LatestWindow == Spec => []WindowIsOfLatestRun
<1>1. Spec => []WindowInv
  BY GuiInvariant, InitWindow, NextWindow, PTL DEF Spec
<1>2. WindowInv => WindowIsOfLatestRun
  <2> SUFFICES ASSUME WindowInv, patient
               PROVE  /\ \A i \in 1..Len(buffer) : buffer[i] \in latest
                      /\ traffic \in latest \cup {nil}
                      /\ atRest => grid = buffer
    BY DEF WindowIsOfLatestRun
  <2>1. atRest => ShowsText(<<>>, grid, buffer)
    BY DEF WindowInv, LogInv, atRest
  <2>2. atRest => grid = buffer
    BY <2>1 DEF ShowsText
  <2> QED
    BY <2>2 DEF WindowInv, LatestInv
<1> QED
  BY <1>1, <1>2, PTL

(* The lamp. A step keeps LampInv when it lets the lamp turn from red only   *)
(* while something is live or the application is about to exit.             *)
LEMMA LampKept ==
    ASSUME LampInv, UNCHANGED patient,
           patient => /\ Busy' => Busy \/ SomeLive' \/ Leaving'
                      /\ SomeLive => SomeLive' \/ ~Busy'
                      /\ Leaving => Leaving'
    PROVE  LampInv'
BY DEF LampInv

LEMMA LampInput ==
    ASSUME IInv, LampInv, patient,
           ConnectInvalid \/ DisconnectClick \/ DisconnectCancel \/ CloseClick \/ CloseShow
    PROVE  LampInv'
<1> USE DEF shared, screen, closing
<1>1. queue \in Seq(Posts)
  BY DEF IInv, Types
<1>2. UNCHANGED run /\ (SomeLive => SomeLive')
  BY DEF ConnectInvalid, DisconnectClick, DisconnectCancel, CloseClick, CloseShow, SomeLive
<1>3. [do |-> "show", what |-> "Disconnected"] \in Posts /\ [do |-> "show", what |-> "Disconnecting"] \in Posts
  BY DEF Posts, States
<1>4. CASE ConnectInvalid
  <2>1. ~Busy'
    BY <1>1, <1>3, <1>4, Posted DEF ConnectInvalid
  <2> QED
    BY <1>4, <2>1 DEF LampInv
<1>5. CASE DisconnectClick
  <2>2. Busy
    BY <1>5 DEF DisconnectClick, Input, DisconnectEnabled, Busy
  <2>3. Leaving => Leaving'
    BY <1>1, <1>3, <1>5, Posted DEF DisconnectClick, Leaving, Input
  <2> QED
    BY <1>2, <1>5, <2>2, <2>3, LampKept DEF DisconnectClick
<1>6. CASE DisconnectCancel
  <2>1. (Busy' => Busy) /\ (Leaving => Leaving')
    BY <1>6 DEF DisconnectCancel, Busy, Leaving
  <2> QED
    BY <1>2, <1>6, <2>1, LampKept DEF DisconnectCancel
<1>7. CASE CloseClick
  <2>1. Leaving'
    BY <1>7 DEF CloseClick, Leaving
  <2> QED
    BY <1>7, <2>1 DEF CloseClick, LampInv
<1>8. CASE CloseShow
  <2>1. Leaving'
    BY <1>8 DEF CloseShow, Leaving
  <2> QED
    BY <1>8, <2>1 DEF CloseShow, LampInv
<1> QED
  BY <1>4, <1>5, <1>6, <1>7, <1>8

LEMMA LampConnect ==
    ASSUME IInv, LampInv, patient,
           ConnectClick \/ ConnectRegister \/ ConnectStart \/ Deliver
    PROVE  LampInv'
<1> USE DEF shared, screen, closing
<1>1. queue \in Seq(Posts)
  BY DEF IInv, Types
<1>2. CASE ConnectClick
  <2>1. (Busy' => Busy) /\ (Leaving => Leaving') /\ (SomeLive => SomeLive')
    BY <1>2 DEF ConnectClick, Input, Busy, Leaving, SomeLive
  <2> QED
    BY <1>2, <2>1, LampKept DEF ConnectClick
<1>3. CASE ConnectRegister
  <2>1. <<>> \in Seq(Runs) /\ [do |-> "log", what |-> <<>>] \in Posts
    BY DEF Posts
  <2>2. /\ UNCHANGED <<patient, run, shown, waiters, window>> /\ Post("log", <<>>)
        /\ handler = "reset"
    BY <1>3 DEF ConnectRegister
  <2>3. (Busy' => Busy) /\ (ClosePosted(queue) => ClosePosted(queue'))
    BY <1>1, <2>1, <2>2, Posted
  <2>4. (Leaving => Leaving') /\ (SomeLive => SomeLive')
    BY <2>2, <2>3 DEF Leaving, SomeLive
  <2> QED
    BY <2>2, <2>3, <2>4, LampKept
<1>4. CASE ConnectStart
  <2>1. PICK n \in 0..MaxRuns : \A r \in Runs : run[r] = "unused" <=> r > n
    BY DEF IInv, InOrder
  <2>2. fresh \in Runs
    BY <1>4, <2>1, FreshIsFirst DEF ConnectStart, IInv, InOrder
  <2>3. run'[fresh] = "starting"
    BY <1>4, <2>2 DEF ConnectStart, IInv, Types, TypeOK
  <2>4. SomeLive'
    BY <2>2, <2>3 DEF SomeLive, Live, Active
  <2> QED
    BY <2>4 DEF LampInv
<1>5. CASE Deliver
  <2>1. /\ Busy' => Busy
        /\ ClosePosted(queue) => ClosePosted(queue') \/ window' = "closed"
    BY <1>1, <1>5, Delivered
  <2>2. (Leaving => Leaving') /\ (SomeLive => SomeLive')
    BY <1>5, <2>1 DEF Deliver, Leaving, SomeLive
  <2> QED
    BY <1>5, <2>1, <2>2, LampKept DEF Deliver
<1> QED
  BY <1>2, <1>3, <1>4, <1>5

LEMMA LampGoroutine ==
    ASSUME IInv, LampInv, patient, NEW r \in Runs,
           \/ Log(r) \/ OnConnected(r) \/ Report(r) \/ FinalReport(r) \/ RunReturns(r)
           \/ Ends(r) \/ WaiterPosts(r)
    PROVE  LampInv'
<1> USE DEF shared, screen, closing, log
<1>1. queue \in Seq(Posts) /\ current \in Seq(Runs)
  BY DEF IInv, Types, TypeOK
<1>2. CASE Log(r) \/ LogError(r)
  <2>1. UNCHANGED <<patient, queue, shown, waiters, window, handler>>
    BY <1>2 DEF Log, LogError, Write
  <2>2. Step(r, "starting", "logged") \/ Step(r, "cleared", "failed")
    BY <1>2 DEF Log, LogError
  <2>3. SomeLive'
    BY <2>2, GoroutineRuns DEF Live, Active
  <2> QED
    BY <2>3 DEF LampInv
<1>3. CASE OnConnected(r)
  <2>1. SomeLive'
    BY <1>3, GoroutineRuns DEF OnConnected, Live, Active
  <2> QED
    BY <2>1 DEF LampInv
<1>4. CASE FinalReport(r)
  <2>1. SomeLive'
    BY <1>4, GoroutineRuns DEF FinalReport, Live, Active
  <2> QED
    BY <2>1 DEF LampInv
<1>5. CASE Report(r)
  <2>1. run'[r] = "connected"
    BY <1>5 DEF Report
  <2>2. SomeLive'
    BY <2>1 DEF SomeLive, Live, Active
  <2> QED
    BY <2>2 DEF LampInv
<1>6. CASE RunReturns(r)
  <2>1. SomeLive'
    BY <1>6, GoroutineRuns DEF RunReturns, Returns, Live, Active
  <2> QED
    BY <2>1 DEF LampInv
<1>7. CASE Clear(r)
  <2>1. SomeLive'
    BY <1>7, GoroutineRuns DEF Clear, Live, Active
  <2> QED
    BY <2>1 DEF LampInv
<1>8. CASE Render(r)
  <2>1. [do |-> "log", what |-> current] \in Posts
    BY <1>1 DEF Posts
  <2>2. UNCHANGED <<patient, run, shown, waiters, window, handler>> /\ Post("log", current)
    BY <1>8 DEF Render
  <2>3. (Busy' => Busy) /\ (ClosePosted(queue) => ClosePosted(queue'))
    BY <1>1, <2>1, <2>2, Posted
  <2>4. (Leaving => Leaving') /\ (SomeLive => SomeLive')
    BY <2>2, <2>3 DEF Leaving, SomeLive
  <2> QED
    BY <2>2, <2>3, <2>4, LampKept
<1>9. CASE PostDisconnected(r)
  <2>1. [do |-> "show", what |-> "Disconnected"] \in Posts
    BY DEF Posts, States
  <2>2. ~Busy'
    BY <1>1, <1>9, <2>1, Posted DEF PostDisconnected
  <2> QED
    BY <2>2 DEF LampInv
<1>10. CASE CloseDone(r)
  <2>1. UNCHANGED <<patient, queue, shown, waiters, window, handler>> /\ Step(r, "posted", "done")
    BY <1>10 DEF CloseDone
  <2>2. "posted" \notin Live /\ "done" \notin Live
    BY DEF Live, Active
  <2>3. SomeLive => SomeLive'
    BY <2>1, <2>2, GoroutineRuns
  <2>4. (Busy' => Busy) /\ (Leaving => Leaving')
    BY <2>1 DEF Busy, Leaving
  <2> QED
    BY <2>1, <2>3, <2>4, LampKept
<1>11. CASE WaiterPosts(r)
  <2>1. [do |-> "close", what |-> nil] \in Posts
    BY DEF Posts
  <2>2. ClosePosted(queue')
    BY <1>1, <1>11, <2>1, Posted DEF WaiterPosts
  <2> QED
    BY <2>2 DEF LampInv, Leaving
<1> QED
  BY <1>2, <1>3, <1>4, <1>5, <1>6, <1>7, <1>8, <1>9, <1>10, <1>11 DEF Ends

LEMMA NextLamp == IInv /\ LampInv /\ [Next]_vars => LampInv'
<1> SUFFICES ASSUME IInv, LampInv, [Next]_vars
             PROVE  LampInv'
  OBVIOUS
<1>1. patient' = patient
  BY DEF Next, User, Ui, Ends, Exited, vars, ConnectInvalid, ConnectClick, DisconnectClick,
         CloseClick, ConnectRegister, ConnectStart, DisconnectCancel, CloseShow, Deliver,
         Log, LogError, Write, OnConnected, Report, FinalReport, RunReturns, Render, Clear,
         PostDisconnected, CloseDone, WaiterPosts
<1>2. CASE ~patient
  BY <1>1, <1>2 DEF LampInv
<1>3. CASE patient
  <2>1. CASE UNCHANGED vars \/ Exited
    BY <2>1 DEF Exited, vars, screen, closing, LampInv, Busy, SomeLive, Leaving
  <2>2. CASE User \/ Ui
    BY <1>3, <2>2, LampInput, LampConnect DEF User, Ui
  <2>3. ASSUME NEW r \in Runs,
               \/ Log(r) \/ OnConnected(r) \/ Report(r) \/ FinalReport(r) \/ RunReturns(r)
               \/ Ends(r) \/ WaiterPosts(r)
        PROVE  LampInv'
    BY <1>3, <2>3, LampGoroutine
  <2> QED
    BY <2>1, <2>2, <2>3 DEF Next
<1> QED
  BY <1>2, <1>3

(* For a user who waits for the window, the lamp is red when no goroutine   *)
(* has anything left to do.                                                *)
THEOREM LampIsTrue == Spec => []LampFollowsPatientUser
<1>1. Init => LampInv
  BY DEF Init, LampInv, Busy
<1>2. Spec => []LampInv
  BY <1>1, GuiInvariant, NextLamp, PTL DEF Spec
<1>3. LampInv /\ IInv => LampFollowsPatientUser
  <2> SUFFICES ASSUME LampInv, IInv, patient, atRest, shown # "Disconnected"
               PROVE  FALSE
    BY DEF LampFollowsPatientUser, LampAtRest
  <2>1. Busy
    BY DEF Busy, atRest
  <2>2. ~SomeLive
    BY DEF SomeLive, atRest, Live, Active
  <2>3. ~Leaving
    BY DEF Leaving, atRest, ClosePosted
  <2> QED
    BY <2>1, <2>2, <2>3 DEF LampInv
<1> QED
  BY <1>2, <1>3, GuiInvariant, PTL

=============================================================================

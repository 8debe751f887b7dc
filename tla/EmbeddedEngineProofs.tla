------------------------- MODULE EmbeddedEngineProofs -------------------------
(* For every number of engines and descriptors: what an engine holds is     *)
(* determined by where its start or its stop is, at most one engine is in   *)
(* the middle of either, and from this the safety of EmbeddedEngine and its *)
(* implementation of MobilePromise follow.                                  *)
EXTENDS EmbeddedEngine, TLAPS

(* What an engine at place p has to release. *)
HoldsAt(h, p) ==
    /\ "ownsFD" \in h <=> android /\ p \in {"begin", "config", "device"}
    /\ "device" \in h <=> p \in {"stack", "policy", "activate", "publish", "up", "stopDevice"}
    /\ "dns" \in h <=>
           android /\ p \in {"device", "stack", "policy", "activate", "publish", "up"}
    /\ "stack" \in h <=>
           p \in {"policy", "activate", "publish", "up", "stopDevice", "stopStack"}
    /\ "policy" \in h <=> android /\ p \in {"activate", "publish", "up", "stopDevice", "stopStack"}
    /\ "reading" \in h <=> p \in {"publish", "up", "stopDevice"}

HoldsByPlace == \A e \in Engines : HoldsAt(holds[e], pc[e])

AndroidPlaces ==
    \A e \in Engines :
        pc[e] \in {"dns", "await", "establish", "begin", "policy", "activate"} => android

(* mobile.mu, or the one run of a desktop process. *)
OneAtATime ==
    /\ \A e, f \in Engines : pc[e] \in Starting /\ pc[f] \in Starting => e = f
    /\ \A e \in Engines : pc[e] \in Starting => current = none
    /\ \A e \in Engines : pc[e] \in {"up"} \cup Stopping <=> current = e

(* From Bind to ResetDialer the process belongs to one engine. *)
UpstreamOwned ==
    /\ android => dialer = <<>>
    /\ \A e \in Engines :
          pc[e] \in {"device", "stack", "policy", "activate", "publish", "up", "stopDevice",
                     "stopStack", "reset"} =>
              proxy = e /\ (~android => dialer = <<e>>)

Owns(e) == "ownsFD" \in holds[e] \/ "device" \in holds[e]

(* A number that somebody owns is open, and nobody else owns it. *)
NumbersOwned ==
    /\ sockets \subseteq table
    /\ ~android => table = {} /\ \A e \in Engines : fd[e] = none
    /\ android => \A e \in Engines : Owns(e) =>
          /\ fd[e] \in table \ sockets
          /\ \A f \in Engines : Owns(f) /\ fd[f] = fd[e] => f = e

Exchanging == \A e \in Engines : serve[e] = "exchange" => answered[e] < asked[e]

IInv ==
    /\ TypeOK
    /\ Exchanging
    /\ HoldsByPlace
    /\ AndroidPlaces
    /\ OneAtATime
    /\ UpstreamOwned
    /\ NumbersOwned

-----------------------------------------------------------------------------
(* The initial states satisfy the invariant. *)
LEMMA InitInvariant == Init => IInv
<1> SUFFICES ASSUME Init
             PROVE  IInv
  OBVIOUS
<1> USE DEF Init
<1>1. TypeOK
  BY BoundsAssumption DEF TypeOK, none, Holdings, Starting, Stopping
<1>2. HoldsByPlace /\ AndroidPlaces /\ OneAtATime /\ Exchanging
  BY DEF HoldsByPlace, HoldsAt, AndroidPlaces, OneAtATime, Exchanging, Starting, Stopping, none,
         Engines
<1>3. UpstreamOwned /\ NumbersOwned
  BY DEF UpstreamOwned, NumbersOwned, Owns
<1> QED
  BY <1>1, <1>2, <1>3 DEF IInv

Places == Starting \cup Stopping \cup
             {"idle", "dns", "await", "establish", "begin", "up", "stopped", "failed"}

(* A step of engine e moves no other. *)
LEMMA StepPlaces ==
    ASSUME TypeOK, NEW e \in Engines, NEW from, NEW to \in Places, Step(e, from, to)
    PROVE  /\ pc' \in [Engines -> Places]
           /\ pc[e] = from /\ pc'[e] = to
           /\ \A f \in Engines \ {e} : pc'[f] = pc[f]
           /\ android' = android
  BY DEF TypeOK, Step, Places

(* The places outside of Start and Stop. *)
Outside == {"idle", "dns", "await", "establish", "begin", "stopped", "failed"}

LEMMA OutsideStep ==
    ASSUME IInv, NEW e \in Engines, NEW from \in Outside, NEW to \in Outside,
           Step(e, from, to), UNCHANGED <<current, proxy>>, dialer' = dialer
    PROVE  OneAtATime' /\ UpstreamOwned'
<1>1. to \in Places /\ TypeOK
  BY DEF Outside, Places, IInv
<1>2. /\ pc[e] = from /\ pc'[e] = to /\ android' = android
      /\ \A f \in Engines \ {e} : pc'[f] = pc[f]
  BY <1>1, StepPlaces
<1>3. OneAtATime'
  BY <1>2 DEF IInv, OneAtATime, Outside, Starting, Stopping
<1>4. UpstreamOwned'
  BY <1>2 DEF IInv, UpstreamOwned, Outside
<1> QED
  BY <1>3, <1>4

(* A goroutine of a DNS socket, and the one of the check, keep all of it.   *)
LEMMA QueryStep ==
    ASSUME IInv, NEW e \in Engines,
           HelperEnds(e) \/ SendQuery(e) \/ Dns(e) \/ Answered(e)
    PROVE  IInv'
<1>1. UNCHANGED <<android, pc, holds, current, descriptors, upstream>>
  BY DEF HelperEnds, SendQuery, Dns, ReadQuery, ExchangeFails, Answered, Respond
<1>2. TypeOK' /\ Exchanging'
  <2> USE DEF IInv, TypeOK, Exchanging, descriptors, upstream, queries
  <2>1. CASE HelperEnds(e)
    BY <2>1 DEF HelperEnds
  <2>2. CASE SendQuery(e)
    BY <2>2, BoundsAssumption DEF SendQuery
  <2>3. CASE ReadQuery(e)
    BY <2>3 DEF ReadQuery
  <2>4. CASE Respond(e)
    <3>1. answered[e] \in 0..MaxQueries /\ asked[e] \in 0..MaxQueries
      OBVIOUS
    <3>2. answered[e] + 1 \in 0..MaxQueries /\ answered[e] + 1 <= asked[e]
      BY <2>4, <3>1, BoundsAssumption DEF Respond
    <3>3. CASE "stack" \in holds[e]
      <4>1. serve' = [serve EXCEPT ![e] = "read"] /\ answered' = [answered EXCEPT ![e] = @ + 1]
        BY <2>4, <3>3 DEF Respond
      <4>2. TypeOK'
        <5>1. answered' \in [Engines -> 0..MaxQueries]
          BY <3>2, <4>1
        <5>2. serve' \in [Engines -> {"none", "read", "exchange", "ended"}]
          BY <4>1
        <5> QED
          BY <2>4, <5>1, <5>2 DEF Respond
      <4>3. \A f \in Engines \ {e} : answered'[f] = answered[f] /\ serve'[f] = serve[f]
        BY <4>1
      <4>4. serve'[e] = "read" /\ asked' = asked
        BY <2>4, <4>1 DEF Respond
      <4> QED
        BY <4>2, <4>3, <4>4
    <3>4. CASE "stack" \notin holds[e]
      BY <2>4, <3>4 DEF Respond
    <3> QED
      BY <3>3, <3>4
  <2> QED
    BY <2>1, <2>2, <2>3, <2>4 DEF Dns, ExchangeFails, Answered
<1>3. HoldsByPlace' /\ AndroidPlaces' /\ OneAtATime'
  BY <1>1 DEF IInv, HoldsByPlace, HoldsAt, AndroidPlaces, OneAtATime
<1>4. UpstreamOwned' /\ NumbersOwned'
  BY <1>1 DEF IInv, UpstreamOwned, NumbersOwned, Owns, descriptors, upstream
<1> QED
  BY <1>2, <1>3, <1>4 DEF IInv

(* Sockets come and go beside the descriptors of the engines. *)
LEMMA SocketStep ==
    ASSUME IInv, OpenSocket \/ CloseSocket
    PROVE  IInv'
<1>1. UNCHANGED <<android, pc, helper, holds, current, fd, upstream, queries>>
  BY DEF OpenSocket, CloseSocket
<1>2. TypeOK'
  BY <1>1 DEF IInv, TypeOK, OpenSocket, CloseSocket, upstream, queries
<1>3. HoldsByPlace' /\ AndroidPlaces' /\ OneAtATime' /\ UpstreamOwned' /\ Exchanging'
  BY <1>1 DEF IInv, HoldsByPlace, HoldsAt, AndroidPlaces, OneAtATime, UpstreamOwned, upstream,
              Exchanging, queries
<1>4. NumbersOwned'
  BY <1>1 DEF IInv, NumbersOwned, Owns, OpenSocket, CloseSocket
<1> QED
  BY <1>2, <1>3, <1>4 DEF IInv

(* Before the descriptor exists only the dialer is touched, which binds to  *)
(* nothing on Android anyway.                                              *)
LEMMA CheckStep ==
    ASSUME IInv, NEW e \in Engines, CheckProxy(e) \/ CheckDns(e) \/ CheckEnds(e)
    PROVE  IInv'
<1>0. PICK from \in {"idle", "dns", "await"}, to \in {"dns", "await", "establish", "failed"} :
          Step(e, from, to) /\ (from = "idle" => android)
  BY DEF CheckProxy, CheckDns, CheckEnds
<1>1. TypeOK /\ to \in Places /\ from \in Outside /\ to \in Outside
  BY DEF IInv, Places, Outside
<1>2. /\ pc' \in [Engines -> Places]
      /\ pc[e] = from /\ pc'[e] = to /\ android' = android
      /\ \A f \in Engines \ {e} : pc'[f] = pc[f]
  BY <1>0, <1>1, StepPlaces
<1>3. android
  BY <1>0, <1>2 DEF IInv, AndroidPlaces
<1>4. UNCHANGED <<holds, current, descriptors, proxy, queries>>
  BY DEF CheckProxy, CheckDns, CheckEnds, upstream
<1>5. dialer' = dialer
  BY <1>3 DEF IInv, UpstreamOwned, CheckProxy, CheckDns, CheckEnds, upstream
<1>6. helper' \in [Engines -> {"none", "asking", "ended"}]
  BY <1>1 DEF TypeOK, CheckProxy, CheckDns, CheckEnds
<1>7. TypeOK'
  BY <1>1, <1>2, <1>4, <1>5, <1>6 DEF TypeOK, Places, descriptors, queries
<1>8. HoldsByPlace' /\ AndroidPlaces'
  BY <1>0, <1>2, <1>3, <1>4 DEF IInv, HoldsByPlace, HoldsAt, AndroidPlaces
<1>9. OneAtATime' /\ UpstreamOwned'
  BY <1>0, <1>1, <1>4, <1>5, OutsideStep
<1>10. NumbersOwned' /\ Exchanging'
  BY <1>2, <1>4 DEF IInv, NumbersOwned, Owns, descriptors, Exchanging, queries
<1> QED
  BY <1>7, <1>8, <1>9, <1>10 DEF IInv

(* A new descriptor has a number that nobody uses. *)
LEMMA EstablishStep ==
    ASSUME IInv, NEW e \in Engines, Establish(e)
    PROVE  IInv'
<1> USE DEF Establish, Step
<1>0. android /\ UNCHANGED <<android, helper, current, sockets, upstream, queries>>
  BY DEF IInv, AndroidPlaces
<1>1. PICK to \in {"begin", "failed"} : Step(e, "establish", to)
  OBVIOUS
<1>a. TypeOK /\ to \in Places /\ "establish" \in Outside /\ to \in Outside
  BY DEF IInv, Places, Outside
<1>b. /\ pc' \in [Engines -> Places]
      /\ pc[e] = "establish" /\ pc'[e] = to
      /\ \A f \in Engines \ {e} : pc'[f] = pc[f]
  BY <1>1, <1>a, StepPlaces
<1>2. TypeOK'
  <2>1. /\ holds' \in [Engines -> SUBSET Holdings]
        /\ fd' \in [Engines -> Descriptors \cup {none}]
        /\ table' \subseteq Descriptors
    <3>1. CASE UNCHANGED <<fd, table, holds>>
      BY <1>a, <3>1 DEF TypeOK
    <3>2. CASE pc'[e] # "failed"
      <4>1. PICK n \in Descriptors \ table :
                fd' = [fd EXCEPT ![e] = n] /\ table' = table \cup {n}
        BY <1>a, <3>2 DEF TypeOK
      <4>2. holds' = [holds EXCEPT ![e] = {"ownsFD"}]
        BY <1>a, <3>2 DEF TypeOK
      <4> QED
        BY <1>a, <4>1, <4>2 DEF TypeOK, Holdings
    <3> QED
      BY <1>a, <3>1, <3>2 DEF TypeOK
  <2> QED
    BY <1>0, <1>a, <1>b, <2>1 DEF TypeOK, Places, upstream, queries
<1>3. HoldsByPlace' /\ AndroidPlaces'
  <2>1. \A f \in Engines \ {e} : holds'[f] = holds[f]
    BY <1>a DEF TypeOK
  <2>2. \/ pc'[e] = "begin" /\ holds'[e] = {"ownsFD"}
        \/ pc'[e] = "failed" /\ holds'[e] = holds[e]
    BY <1>a DEF TypeOK
  <2> QED
    BY <1>0, <1>b, <2>1, <2>2 DEF IInv, HoldsByPlace, HoldsAt, AndroidPlaces
<1>4. OneAtATime' /\ UpstreamOwned' /\ Exchanging'
  <2>1. UNCHANGED <<current, proxy, dialer>>
    BY <1>0 DEF upstream
  <2>2. OneAtATime' /\ UpstreamOwned'
    BY <1>1, <1>a, <2>1, OutsideStep
  <2> QED
    BY <1>0, <2>2 DEF IInv, Exchanging, queries
<1>5. NumbersOwned'
  <2>1. CASE UNCHANGED <<fd, table, holds>>
    BY <1>0, <2>1 DEF IInv, NumbersOwned, Owns
  <2>2. CASE ~UNCHANGED <<fd, table, holds>>
    <3>1. PICK n \in Descriptors \ table : fd' = [fd EXCEPT ![e] = n] /\ table' = table \cup {n}
      BY <2>2
    <3>2. holds' = [holds EXCEPT ![e] = {"ownsFD"}]
      BY <2>2
    <3>3. \A f \in Engines \ {e} : (Owns(f) <=> Owns(f)') /\ fd'[f] = fd[f]
      BY <3>1, <3>2 DEF IInv, TypeOK, Owns
    <3>4. fd'[e] = n /\ n \in table' \ sockets' /\ n \notin table
      BY <1>0, <3>1 DEF IInv, TypeOK, NumbersOwned
    <3> QED
      BY <1>0, <3>1, <3>3, <3>4 DEF IInv, NumbersOwned
  <2> QED
    BY <2>1, <2>2
<1> QED
  BY <1>2, <1>3, <1>4, <1>5 DEF IInv

(* Whatever engine e releases, its number is closed once, by its owner.     *)
LEMMA ReleaseNumbers ==
    ASSUME IInv, NEW e \in Engines, NEW released \in SUBSET Holdings, Release(e, released),
           UNCHANGED android,
           Owns(e) => Owns(e)' \/ {"ownsFD", "device"} \cap released \cap holds[e] # {},
           Owns(e)' => {"ownsFD", "device"} \cap released \cap holds[e] = {}
    PROVE  NumbersOwned'
<1>1. UNCHANGED <<fd, sockets>>
  BY DEF Release
<1>2. \A f \in Engines \ {e} : Owns(f)' <=> Owns(f)
  BY DEF IInv, TypeOK, Release, Owns
<1>3. Owns(e)' => Owns(e)
  BY DEF IInv, TypeOK, Release, Owns
<1>4. CASE {"ownsFD", "device"} \cap released \cap holds[e] = {}
  <2>1. table' = table
    BY <1>4 DEF Release
  <2> QED
    BY <1>1, <1>2, <1>3, <2>1 DEF IInv, NumbersOwned
<1>5. CASE {"ownsFD", "device"} \cap released \cap holds[e] # {}
  <2>1. table' = table \ {fd[e]}
    BY <1>5 DEF Release
  <2>2. Owns(e) /\ ~Owns(e)'
    BY <1>5 DEF Owns
  <2> QED
    BY <1>1, <1>2, <2>1, <2>2 DEF IInv, NumbersOwned
<1> QED
  BY <1>4, <1>5

-----------------------------------------------------------------------------
(* The steps of Start and of Stop: a frame that they share, then each one.  *)

(* What has to be shown of a step that leaves e with the holdings h.        *)
LEMMA FrameStep ==
    ASSUME IInv, NEW e \in Engines, NEW from, NEW to \in Places, Step(e, from, to),
           UNCHANGED <<helper, queries, fd, sockets>>, table' \subseteq table,
           NEW h \in SUBSET Holdings, holds' = [holds EXCEPT ![e] = h], HoldsAt(h, to),
           to \in {"dns", "await", "establish", "begin", "policy", "activate"} => android,
           current' \in Engines \cup {none}, proxy' \in Engines \cup {none},
           dialer' \in Seq(Engines),
           OneAtATime', UpstreamOwned', NumbersOwned'
    PROVE  IInv'
<1>1. /\ pc' \in [Engines -> Places]
      /\ pc[e] = from /\ pc'[e] = to /\ android' = android
      /\ \A f \in Engines \ {e} : pc'[f] = pc[f]
  BY StepPlaces DEF IInv
<1>2. holds' \in [Engines -> SUBSET Holdings] /\ holds'[e] = h
      /\ \A f \in Engines \ {e} : holds'[f] = holds[f]
  BY DEF IInv, TypeOK
<1>3. TypeOK'
  BY <1>1, <1>2 DEF IInv, TypeOK, Places, queries
<1>4. HoldsByPlace'
  BY <1>1, <1>2 DEF IInv, HoldsByPlace, HoldsAt
<1>5. AndroidPlaces' /\ Exchanging'
  BY <1>1 DEF IInv, AndroidPlaces, Exchanging, queries
<1> QED
  BY <1>3, <1>4, <1>5 DEF IInv

(* Nobody gains or loses a descriptor. *)
LEMMA SameNumbers ==
    ASSUME NumbersOwned, UNCHANGED <<android, descriptors>>,
           \A f \in Engines : Owns(f)' <=> Owns(f)
    PROVE  NumbersOwned'
  BY DEF NumbersOwned, descriptors

(* Between Bind and the end of Stop nothing of the process changes hands.   *)
LEMMA InsideStep ==
    ASSUME IInv, NEW e \in Engines, NEW from, NEW to \in Places, Step(e, from, to),
           \/ /\ from \in {"device", "stack", "policy", "activate"}
              /\ to \in {"stack", "policy", "activate", "publish"}
           \/ /\ from \in {"up", "stopDevice", "stopStack"}
              /\ to \in Stopping,
           UNCHANGED <<current, upstream>>
    PROVE  OneAtATime' /\ UpstreamOwned'
<1>1. /\ pc[e] = from /\ pc'[e] = to /\ android' = android
      /\ \A f \in Engines \ {e} : pc'[f] = pc[f]
  BY StepPlaces DEF IInv
<1>2. OneAtATime'
  BY <1>1 DEF IInv, OneAtATime, Starting, Stopping
<1>3. UpstreamOwned'
  BY <1>1 DEF IInv, UpstreamOwned, upstream, Stopping
<1> QED
  BY <1>2, <1>3

(* A start that gives up, before or after Bind. *)
LEMMA FailStep ==
    ASSUME IInv, NEW e \in Engines, NEW from \in {"begin", "config", "device", "stack"},
           Step(e, from, "failed"), UNCHANGED <<current, proxy>>,
           dialer' \in {dialer, <<>>}, from # "config" => dialer' = dialer
    PROVE  OneAtATime' /\ UpstreamOwned'
<1>1. "failed" \in Places
  BY DEF Places
<1>2. /\ pc[e] = from /\ pc'[e] = "failed" /\ android' = android
      /\ \A f \in Engines \ {e} : pc'[f] = pc[f]
  BY <1>1, StepPlaces DEF IInv
<1>3. OneAtATime'
  BY <1>2 DEF IInv, OneAtATime, Starting, Stopping
<1>4. CASE dialer' = dialer
  BY <1>2, <1>3, <1>4 DEF IInv, UpstreamOwned
<1>5. CASE from = "config" /\ dialer' = <<>>
  <2>1. \A f \in Engines : pc'[f] \notin Starting \cup Stopping \cup {"up"}
    BY <1>2, <1>5 DEF IInv, OneAtATime, Starting, Stopping, Engines, none
  <2> QED
    BY <1>2, <1>3, <1>5, <2>1 DEF IInv, UpstreamOwned, Starting, Stopping
<1> QED
  BY <1>3, <1>4, <1>5

(* A return of Start with an error releases all that e holds. *)
LEMMA ReturnStep ==
    ASSUME IInv, NEW e \in Engines, NEW from \in {"begin", "config", "device", "stack"},
           NEW released \in SUBSET Holdings, Return(e, from, "failed", released),
           from \in {"device", "stack"} => "dns" \in released,
           from = "stack" => "device" \in released,
           UNCHANGED <<current, proxy>>,
           dialer' \in {dialer, <<>>}, from # "config" => dialer' = dialer
    PROVE  IInv'
<1> DEFINE rel == released \cup {"ownsFD"}
<1>1. Step(e, from, "failed") /\ Release(e, rel) /\ UNCHANGED <<helper, queries>>
  BY DEF Return
<1>2. "failed" \in Places /\ rel \in SUBSET Holdings
  BY DEF Places, Holdings
<1>3. pc[e] = from /\ android' = android
  BY <1>1, <1>2, StepPlaces DEF IInv
<1>4. HoldsAt(holds[e], from)
  BY <1>3 DEF IInv, HoldsByPlace
<1>5. holds[e] \ rel = {} /\ holds' = [holds EXCEPT ![e] = {}] /\ holds'[e] = {}
  <2>1. holds[e] \in SUBSET Holdings
    BY DEF IInv, TypeOK
  <2>2. holds[e] \ rel = {}
    BY <1>4, <2>1 DEF HoldsAt, Holdings
  <2> QED
    BY <1>1, <2>2 DEF Release, IInv, TypeOK
<1>6. NumbersOwned'
  <2>1. Owns(e) => {"ownsFD", "device"} \cap rel \cap holds[e] # {}
    BY <1>5 DEF Owns
  <2>2. ~Owns(e)'
    BY <1>5 DEF Owns
  <2> QED
    BY <1>1, <1>2, <1>3, <2>1, <2>2, ReleaseNumbers
<1>7. OneAtATime' /\ UpstreamOwned'
  BY <1>1, FailStep
<1>8. UNCHANGED <<fd, sockets>> /\ table' \subseteq table
  BY <1>1 DEF Release
<1>9. HoldsAt({}, "failed")
  BY DEF HoldsAt
<1>10. /\ current' \in Engines \cup {none} /\ proxy' \in Engines \cup {none}
       /\ dialer' \in Seq(Engines)
  <2>1. <<>> \in Seq(Engines)
    OBVIOUS
  <2> QED
    BY <2>1 DEF IInv, TypeOK
<1>11. {} \in SUBSET Holdings
  OBVIOUS
<1> QED
  BY <1>1, <1>2, <1>5, <1>6, <1>7, <1>8, <1>9, <1>10, <1>11, FrameStep

(* mobile.mu and the check of current let one engine in. *)
LEMMA BeginStep ==
    ASSUME IInv, NEW e \in Engines, Begin(e)
    PROVE  IInv'
<1>1. PICK from \in {"idle", "begin"} : Step(e, from, "config") /\ (from = "begin" <=> android)
  BY DEF Begin, Alone
<1>2. "config" \in Places /\ UNCHANGED <<helper, holds, current, descriptors, upstream, queries>>
  BY DEF Places, Starting, Begin
<1>3. /\ pc[e] = from /\ pc'[e] = "config" /\ android' = android
      /\ \A f \in Engines \ {e} : pc'[f] = pc[f]
  BY <1>1, <1>2, StepPlaces DEF IInv
<1>4. current = none /\ \A f \in Engines : pc[f] \notin Starting \cup Stopping \cup {"up"}
  BY DEF Begin, Free, Alone, IInv, OneAtATime, TypeOK, none, Engines
<1>5. OneAtATime'
  BY <1>2, <1>3, <1>4 DEF IInv, OneAtATime, Starting, Stopping, none, Engines
<1>6. UpstreamOwned'
  BY <1>2, <1>3 DEF IInv, UpstreamOwned, upstream
<1>7. NumbersOwned'
  BY <1>2, <1>3, SameNumbers DEF IInv, Owns
<1>8. holds' = [holds EXCEPT ![e] = holds[e]] /\ holds[e] \in SUBSET Holdings
  BY <1>2 DEF IInv, TypeOK
<1>9. HoldsAt(holds[e], "config")
  BY <1>1, <1>3 DEF IInv, HoldsByPlace, HoldsAt
<1> QED
  BY <1>1, <1>2, <1>5, <1>6, <1>7, <1>8, <1>9, FrameStep DEF IInv, TypeOK, descriptors, upstream

(* Bind: the upstream packages are made to belong to e. *)
LEMMA BindStep ==
    ASSUME IInv, NEW e \in Engines, Bind(e)
    PROVE  IInv'
<1>1. /\ Step(e, "config", "device") /\ "device" \in Places
      /\ UNCHANGED <<helper, current, queries, descriptors>>
  BY DEF Bind, Places, Starting, Keep
<1>2. /\ pc[e] = "config" /\ pc'[e] = "device" /\ android' = android
      /\ \A f \in Engines \ {e} : pc'[f] = pc[f]
  BY <1>1, StepPlaces DEF IInv
<1>3. OneAtATime'
  BY <1>1, <1>2 DEF IInv, OneAtATime, Starting, Stopping
<1>4. \A f \in Engines \ {e} : pc'[f] \notin Starting \cup Stopping \cup {"up"}
  BY <1>2 DEF IInv, OneAtATime, Starting, Stopping, none, Engines
<1>5. UpstreamOwned'
  BY <1>2, <1>4 DEF Bind, UpstreamOwned, Starting, Stopping
<1> DEFINE h == holds[e] \cup DnsHandler
<1>6. h \in SUBSET Holdings /\ holds' = [holds EXCEPT ![e] = h]
  BY DEF Bind, Keep, IInv, TypeOK, DnsHandler, Holdings
<1>7. HoldsAt(h, "device")
  BY <1>2 DEF IInv, HoldsByPlace, HoldsAt, DnsHandler
<1>8. \A f \in Engines : Owns(f)' <=> Owns(f)
  BY <1>6 DEF Owns, DnsHandler, IInv, TypeOK
<1>9. NumbersOwned'
  BY <1>1, <1>2, <1>8, SameNumbers DEF IInv
<1>10. /\ current' \in Engines \cup {none} /\ proxy' \in Engines \cup {none}
       /\ dialer' \in Seq(Engines)
  BY <1>1 DEF Bind, IInv, TypeOK
<1> HIDE DEF h
<1> QED
  BY <1>1, <1>3, <1>5, <1>6, <1>7, <1>9, <1>10, FrameStep DEF descriptors

(* From openDevice to Activate e gathers what it will have to release. *)
LEMMA GatherStep ==
    ASSUME IInv, NEW e \in Engines,
           OpenDevice(e) \/ CreateStack(e) \/ InstallPolicy(e) \/ Activate(e)
    PROVE  IInv'
<1>0. \/ Step(e, "device", "stack") /\ OpenDevice(e)
      \/ Step(e, "stack", "policy") /\ CreateStack(e) /\ android
      \/ Step(e, "stack", "publish") /\ CreateStack(e) /\ ~android
      \/ Step(e, "policy", "activate") /\ InstallPolicy(e)
      \/ Step(e, "activate", "publish") /\ Activate(e)
  BY DEF OpenDevice, CreateStack, InstallPolicy, Activate
<1>1. PICK from \in {"device", "stack", "policy", "activate"},
           to \in {"stack", "policy", "activate", "publish"} :
        /\ Step(e, from, to)
        /\ \/ from = "device" /\ to = "stack" /\ OpenDevice(e)
           \/ from = "stack" /\ to = "policy" /\ CreateStack(e) /\ android
           \/ from = "stack" /\ to = "publish" /\ CreateStack(e) /\ ~android
           \/ from = "policy" /\ to = "activate" /\ InstallPolicy(e)
           \/ from = "activate" /\ to = "publish" /\ Activate(e)
  BY <1>0
<1>2. to \in Places /\ UNCHANGED <<helper, current, upstream, queries, descriptors>>
  BY <1>1 DEF Places, Starting, OpenDevice, CreateStack, InstallPolicy, Activate, Keep
<1>3. pc[e] = from /\ android' = android
  BY <1>1, <1>2, StepPlaces DEF IInv
<1>4. HoldsAt(holds[e], from) /\ holds[e] \in SUBSET Holdings
  BY <1>3 DEF IInv, HoldsByPlace, TypeOK
<1>5. android \/ from \in {"device", "stack"}
  BY <1>3 DEF IInv, AndroidPlaces
<1>6. PICK h \in SUBSET Holdings :
        /\ holds' = [holds EXCEPT ![e] = h]
        /\ HoldsAt(h, to)
        /\ "device" \in h
  <2>1. CASE from = "device" /\ to = "stack" /\ OpenDevice(e)
    <3> DEFINE h == (holds[e] \ {"ownsFD"}) \cup {"device"}
    <3>1. h \in SUBSET Holdings /\ holds' = [holds EXCEPT ![e] = h]
      BY <1>4, <2>1 DEF OpenDevice, Holdings
    <3>2. HoldsAt(h, to) /\ "device" \in h
      BY <1>4, <2>1 DEF HoldsAt
    <3> QED
      BY <2>1, <3>1, <3>2
  <2>2. CASE from = "stack" /\ CreateStack(e) /\ to = IF android THEN "policy" ELSE "publish"
    <3> DEFINE h == holds[e] \cup ({"stack"} \cup Attached)
    <3>1. h \in SUBSET Holdings /\ holds' = [holds EXCEPT ![e] = h]
      BY <1>4, <2>2 DEF CreateStack, Keep, Attached, Holdings
    <3>2. HoldsAt(h, to) /\ "device" \in h
      BY <1>4, <2>2 DEF HoldsAt, Attached
    <3> QED
      BY <2>2, <3>1, <3>2
  <2>3. CASE from = "policy" /\ to = "activate" /\ InstallPolicy(e)
    <3> DEFINE h == holds[e] \cup {"policy"}
    <3>1. h \in SUBSET Holdings /\ holds' = [holds EXCEPT ![e] = h]
      BY <1>4, <2>3 DEF InstallPolicy, Keep, Holdings
    <3>2. HoldsAt(h, to) /\ "device" \in h
      BY <1>4, <1>5, <2>3 DEF HoldsAt
    <3> QED
      BY <2>3, <3>1, <3>2
  <2>4. CASE from = "activate" /\ to = "publish" /\ Activate(e)
    <3> DEFINE h == holds[e] \cup {"reading"}
    <3>1. h \in SUBSET Holdings /\ holds' = [holds EXCEPT ![e] = h]
      BY <1>4, <2>4 DEF Activate, Keep, Holdings
    <3>2. HoldsAt(h, to) /\ "device" \in h
      BY <1>4, <1>5, <2>4 DEF HoldsAt
    <3> QED
      BY <2>4, <3>1, <3>2
  <2> QED
    BY <1>1, <2>1, <2>2, <2>3, <2>4
<1>7. android => Owns(e) /\ Owns(e)'
  <2>1. holds'[e] = h
    BY <1>6 DEF IInv, TypeOK
  <2> QED
    BY <1>4, <1>6, <2>1 DEF Owns, HoldsAt
<1>8. \A f \in Engines \ {e} : Owns(f)' <=> Owns(f)
  BY <1>6 DEF Owns, IInv, TypeOK
<1>9. NumbersOwned'
  BY <1>2, <1>3, <1>7, <1>8 DEF IInv, NumbersOwned, descriptors
<1>10. OneAtATime' /\ UpstreamOwned'
  BY <1>1, <1>2, InsideStep
<1>11. /\ current' \in Engines \cup {none} /\ proxy' \in Engines \cup {none}
       /\ dialer' \in Seq(Engines)
  BY <1>2 DEF IInv, TypeOK, upstream
<1>12. UNCHANGED <<helper, queries, fd, sockets>> /\ table' \subseteq table
  BY <1>2 DEF descriptors
<1>13. to \in {"dns", "await", "establish", "begin", "policy", "activate"} => android
  BY <1>1, <1>3, <1>5
<1> QED
  BY <1>1, <1>2, <1>6, <1>9, <1>10, <1>11, <1>12, <1>13, FrameStep

(* Publish: the engine that has started is the current one. *)
LEMMA PublishStep ==
    ASSUME IInv, NEW e \in Engines, Publish(e)
    PROVE  IInv'
<1>1. /\ Step(e, "publish", "up") /\ "up" \in Places /\ Release(e, {"ownsFD"})
      /\ current' = e /\ UNCHANGED <<helper, queries, upstream>>
  BY DEF Publish, Return, Places
<1>2. /\ pc[e] = "publish" /\ pc'[e] = "up" /\ android' = android
      /\ \A f \in Engines \ {e} : pc'[f] = pc[f]
  BY <1>1, StepPlaces DEF IInv
<1>3. HoldsAt(holds[e], "publish") /\ holds[e] \in SUBSET Holdings
  BY <1>2 DEF IInv, HoldsByPlace, TypeOK
<1>4. holds[e] \ {"ownsFD"} = holds[e]
  BY <1>3 DEF HoldsAt
<1>5. holds' = [holds EXCEPT ![e] = holds[e]] /\ holds' = holds
  BY <1>1, <1>4 DEF Release, IInv, TypeOK
<1>6. UNCHANGED descriptors
  BY <1>1, <1>4 DEF Release, descriptors
<1>7. NumbersOwned'
  BY <1>2, <1>5, <1>6, SameNumbers DEF IInv, Owns
<1>8. OneAtATime'
  BY <1>1, <1>2 DEF IInv, OneAtATime, Starting, Stopping, none, Engines
<1>9. UpstreamOwned'
  BY <1>1, <1>2 DEF IInv, UpstreamOwned, upstream
<1>10. HoldsAt(holds[e], "up")
  BY <1>3 DEF HoldsAt
<1> QED
  BY <1>1, <1>3, <1>5, <1>6, <1>7, <1>8, <1>9, <1>10, FrameStep
     DEF IInv, TypeOK, descriptors, upstream

(* Stop releases, one after the other, what the engine holds. *)
LEMMA StopStep ==
    ASSUME IInv, NEW e \in Engines, StopDns(e) \/ StopDevice(e) \/ StopStack(e)
    PROVE  IInv'
<1>1. PICK from \in {"up", "stopDevice", "stopStack"}, to \in Stopping,
           released \in {{"dns"}, {"device", "reading"}, {"stack", "policy"}} :
        /\ Step(e, from, to) /\ Release(e, released)
        /\ \/ from = "up" /\ to = "stopDevice" /\ released = {"dns"}
           \/ from = "stopDevice" /\ to = "stopStack" /\ released = {"device", "reading"}
           \/ from = "stopStack" /\ to = "reset" /\ released = {"stack", "policy"}
  BY DEF StopDns, StopDevice, StopStack, Stopping
<1>2. to \in Places /\ UNCHANGED <<helper, current, upstream, queries>>
  BY <1>1 DEF Places, StopDns, StopDevice, StopStack
<1>3. pc[e] = from /\ android' = android
  BY <1>1, <1>2, StepPlaces DEF IInv
<1>4. HoldsAt(holds[e], from) /\ holds[e] \in SUBSET Holdings
  BY <1>3 DEF IInv, HoldsByPlace, TypeOK
<1> DEFINE h == holds[e] \ released
<1>5. /\ h \in SUBSET Holdings /\ holds' = [holds EXCEPT ![e] = h] /\ holds'[e] = h
      /\ UNCHANGED <<fd, sockets>> /\ table' \subseteq table
  BY <1>1, <1>4 DEF Release, IInv, TypeOK
<1>6. HoldsAt(h, to)
  BY <1>1, <1>4 DEF HoldsAt
<1>7. NumbersOwned'
  <2>1. released \in SUBSET Holdings
    BY <1>1 DEF Holdings
  <2>2. CASE from = "stopDevice"
    <3>1. "device" \in holds[e] /\ "ownsFD" \notin holds[e] /\ released = {"device", "reading"}
      BY <1>1, <1>4, <2>2 DEF HoldsAt
    <3>2. ~Owns(e)'
      BY <1>5, <3>1 DEF Owns
    <3> QED
      BY <1>1, <1>3, <2>1, <3>1, <3>2, ReleaseNumbers
  <2>3. CASE from # "stopDevice"
    <3>1. {"ownsFD", "device"} \cap released = {}
      BY <1>1, <2>3
    <3>2. Owns(e)' <=> Owns(e)
      BY <1>5, <3>1 DEF Owns
    <3>3. {"ownsFD", "device"} \cap released \cap holds[e] = {}
      BY <3>1
    <3> QED
      BY <1>1, <1>3, <2>1, <3>2, <3>3, ReleaseNumbers
  <2> QED
    BY <2>2, <2>3
<1>8. OneAtATime' /\ UpstreamOwned'
  BY <1>1, <1>2, InsideStep
<1>9. to \notin {"dns", "await", "establish", "begin", "policy", "activate"}
  BY DEF Stopping
<1>10. /\ current' \in Engines \cup {none} /\ proxy' \in Engines \cup {none}
       /\ dialer' \in Seq(Engines)
  BY <1>2 DEF IInv, TypeOK, upstream
<1> HIDE DEF h
<1> QED
  BY <1>1, <1>2, <1>5, <1>6, <1>7, <1>8, <1>9, <1>10, FrameStep

(* ResetDialer: the process belongs to nobody. *)
LEMMA ResetStep ==
    ASSUME IInv, NEW e \in Engines, ResetDialer(e)
    PROVE  IInv'
<1>1. /\ Step(e, "reset", "stopped") /\ "stopped" \in Places
      /\ dialer' = <<>> /\ current' = none
      /\ UNCHANGED <<helper, holds, descriptors, proxy, queries>>
  BY DEF ResetDialer, Places
<1>2. /\ pc[e] = "reset" /\ pc'[e] = "stopped" /\ android' = android
      /\ \A f \in Engines \ {e} : pc'[f] = pc[f]
  BY <1>1, StepPlaces DEF IInv
<1>3. current = e
  BY <1>2 DEF IInv, OneAtATime, Stopping
<1>4. \A f \in Engines : pc'[f] \notin Starting \cup Stopping \cup {"up"}
  BY <1>2, <1>3 DEF IInv, OneAtATime, Starting, Stopping, none, Engines
<1>5. OneAtATime' /\ UpstreamOwned'
  BY <1>1, <1>4 DEF OneAtATime, UpstreamOwned, Starting, Stopping, none, Engines
<1>6. NumbersOwned'
  BY <1>1, <1>2, SameNumbers DEF IInv, Owns
<1>7. HoldsAt(holds[e], "stopped") /\ holds' = [holds EXCEPT ![e] = holds[e]]
      /\ holds[e] \in SUBSET Holdings
  BY <1>1, <1>2 DEF IInv, HoldsByPlace, HoldsAt, TypeOK
<1>8. dialer' \in Seq(Engines) /\ current' \in Engines \cup {none}
  BY <1>1
<1> QED
  BY <1>1, <1>5, <1>6, <1>7, <1>8, FrameStep DEF IInv, TypeOK, descriptors

(* Every step keeps the invariant. *)
LEMMA NextInvariant == IInv /\ [Next]_vars => IInv'
<1> SUFFICES ASSUME IInv, [Next]_vars
             PROVE  IInv'
  OBVIOUS
<1>1. CASE UNCHANGED vars
  <2>1. TypeOK' /\ Exchanging' /\ HoldsByPlace' /\ AndroidPlaces'
    BY <1>1 DEF IInv, vars, descriptors, upstream, queries, TypeOK, Exchanging, HoldsByPlace,
                HoldsAt, AndroidPlaces
  <2>2. OneAtATime' /\ UpstreamOwned' /\ NumbersOwned'
    BY <1>1 DEF IInv, vars, descriptors, upstream, queries, OneAtATime, UpstreamOwned,
                NumbersOwned, Owns
  <2> QED
    BY <2>1, <2>2 DEF IInv
<1>2. CASE OpenSocket \/ CloseSocket
  BY <1>2, SocketStep
<1>3. ASSUME NEW e \in Engines,
             \/ CheckProxy(e) \/ CheckDns(e) \/ CheckEnds(e) \/ HelperEnds(e)
             \/ Establish(e)
             \/ Start(e) \/ StopDns(e) \/ Stop(e)
             \/ SendQuery(e) \/ Dns(e) \/ Answered(e)
      PROVE  IInv'
  <2>1. CASE CheckProxy(e) \/ CheckDns(e) \/ CheckEnds(e)
    BY <2>1, CheckStep
  <2>2. CASE HelperEnds(e) \/ SendQuery(e) \/ Dns(e) \/ Answered(e)
    BY <2>2, QueryStep
  <2>3. CASE Establish(e)
    BY <2>3, EstablishStep
  <2>4. CASE Refuse(e) \/ BadConfig(e) \/ BindFails(e) \/ OpenFails(e) \/ StackFails(e)
    <3>1. {} \in SUBSET Holdings /\ {"dns"} \in SUBSET Holdings
          /\ {"dns", "device"} \in SUBSET Holdings
      BY DEF Holdings
    <3>2. CASE Refuse(e)
      <4>1. Return(e, "begin", "failed", {}) /\ UNCHANGED <<current, proxy, dialer>>
        BY <3>2 DEF Refuse, upstream
      <4> QED
        BY <3>1, <4>1, ReturnStep
    <3>3. CASE BadConfig(e)
      <4>1. Return(e, "config", "failed", {}) /\ UNCHANGED <<current, proxy, dialer>>
        BY <3>3 DEF BadConfig, upstream
      <4> QED
        BY <3>1, <4>1, ReturnStep
    <3>4. CASE BindFails(e)
      BY <3>1, <3>4, ReturnStep DEF BindFails
    <3>5. CASE OpenFails(e)
      <4>1. Return(e, "device", "failed", {"dns"}) /\ UNCHANGED <<current, proxy, dialer>>
        BY <3>5 DEF OpenFails, upstream
      <4> QED
        BY <3>1, <4>1, ReturnStep
    <3>6. CASE StackFails(e)
      <4>1. Return(e, "stack", "failed", {"dns", "device"}) /\ UNCHANGED <<current, proxy, dialer>>
        BY <3>6 DEF StackFails, upstream
      <4> QED
        BY <3>1, <4>1, ReturnStep
    <3> QED
      BY <2>4, <3>2, <3>3, <3>4, <3>5, <3>6
  <2>5. CASE Begin(e)
    BY <2>5, BeginStep
  <2>6. CASE Bind(e)
    BY <2>6, BindStep
  <2>7. CASE OpenDevice(e) \/ CreateStack(e) \/ InstallPolicy(e) \/ Activate(e)
    BY <2>7, GatherStep
  <2>8. CASE Publish(e)
    BY <2>8, PublishStep
  <2>9. CASE StopDns(e) \/ StopDevice(e) \/ StopStack(e)
    BY <2>9, StopStep
  <2>10. CASE ResetDialer(e)
    BY <2>10, ResetStep
  <2> QED
    BY <1>3, <2>1, <2>2, <2>3, <2>4, <2>5, <2>6, <2>7, <2>8, <2>9, <2>10 DEF Start, Stop
<1> QED
  BY <1>1, <1>2, <1>3 DEF Next, Settled

(* EmbeddedEngine's inductive invariant, for any number of engines.         *)
THEOREM EngineInvariant == Spec => []IInv
  BY InitInvariant, NextInvariant, PTL DEF Spec

(* Type correctness of the engine's state. *)
THEOREM EngineTypes == Spec => []TypeOK
<1>1. IInv => TypeOK
  BY DEF IInv
<1> QED
  BY <1>1, EngineInvariant, PTL

(* No start, failure or Stop closes a number that another goroutine uses.   *)
THEOREM OnlyItsOwn == Spec => []ClosesOnlyItsOwn
<1>1. IInv => ClosesOnlyItsOwn
  BY DEF IInv, NumbersOwned, ClosesOnlyItsOwn
<1> QED
  BY <1>1, EngineInvariant, PTL

(* Every return of Start with an error, and Stop, have released everything. *)
THEOREM Nothing == Spec => []NothingLeft
<1>1. IInv => NothingLeft
  BY DEF IInv, TypeOK, HoldsByPlace, HoldsAt, NothingLeft, Holdings
<1> QED
  BY <1>1, EngineInvariant, PTL

(* Packets enter a stack only while dialer, tunnel and policy are its own.  *)
THEOREM OwnProxy == Spec => []TrafficUsesItsProxy
<1>1. IInv => TrafficUsesItsProxy
  BY DEF IInv, HoldsByPlace, HoldsAt, UpstreamOwned, TrafficUsesItsProxy
<1> QED
  BY <1>1, EngineInvariant, PTL

-----------------------------------------------------------------------------
(* The refinement. By the invariant, what the service sees is a matter of   *)
(* places alone.                                                           *)

Handed == {"begin", "config", "device", "stack", "policy", "activate", "publish", "up",
           "stopDevice"}

ServedByPlace ==
    IF android /\ current # none /\ pc[current] \in {"up", "stopDevice"} THEN current ELSE none
OpenedByPlace == {e \in Engines : android /\ pc[e] \in Handed}

LEMMA MobileView ==
    ASSUME IInv
    PROVE  Served = ServedByPlace /\ Opened = OpenedByPlace
<1>1. Served = ServedByPlace
  <2>1. CASE android /\ current # none
    <3>1. current \in Engines /\ pc[current] \in {"up"} \cup Stopping
      BY <2>1 DEF IInv, TypeOK, OneAtATime
    <3>2. "device" \in holds[current] <=> pc[current] \in {"up", "stopDevice"}
      BY <3>1 DEF IInv, HoldsByPlace, HoldsAt, Stopping
    <3> QED
      BY <2>1, <3>2 DEF Served, ServedByPlace
  <2>2. CASE ~(android /\ current # none)
    BY <2>2 DEF Served, ServedByPlace
  <2> QED
    BY <2>1, <2>2
<1>2. ASSUME NEW e \in Engines
      PROVE  e \in Opened <=> e \in OpenedByPlace
  <2>1. CASE ~android
    BY <2>1 DEF IInv, NumbersOwned, Opened, OpenedByPlace
  <2>2. CASE android
    <3>1. Owns(e) <=> pc[e] \in Handed
      BY <2>2 DEF Owns, Handed, IInv, HoldsByPlace, HoldsAt
    <3>2. Owns(e) <=> e \in Opened
      BY <2>2 DEF Owns, Opened, IInv, NumbersOwned
    <3> QED
      BY <2>2, <3>1, <3>2 DEF OpenedByPlace
  <2> QED
    BY <2>1, <2>2
<1> QED
  BY <1>1, <1>2 DEF Opened, OpenedByPlace

(* ... and after a step. *)
LEMMA MobileViewPrimed == IInv' => (Served = ServedByPlace /\ Opened = OpenedByPlace)'
<1>1. IInv => Served = ServedByPlace /\ Opened = OpenedByPlace
  BY MobileView
<1> QED
  BY <1>1, PTL

(* What is shown of every step. *)
MobileStep == Mobile!MNext \/ UNCHANGED <<Served, Opened>>

(* A step that hands nothing over, and neither starts nor stops an engine.  *)
LEMMA UnseenStep ==
    ASSUME IInv, IInv', NEW e \in Engines, NEW from, NEW to \in Places, Step(e, from, to),
           android => (from \in Handed <=> to \in Handed),
           from \in {"up", "stopDevice"} <=> to \in {"up", "stopDevice"},
           current' = current \/ from = "reset"
    PROVE  MobileStep
<1>1. /\ pc[e] = from /\ pc'[e] = to /\ android' = android
      /\ \A f \in Engines \ {e} : pc'[f] = pc[f]
  BY StepPlaces DEF IInv
<1>2. OpenedByPlace' = OpenedByPlace
  BY <1>1 DEF OpenedByPlace
<1>3. ServedByPlace' = ServedByPlace
  <2>1. CASE current' = current
    BY <1>1, <2>1 DEF ServedByPlace, IInv, TypeOK
  <2>2. CASE from = "reset"
    <3>1. current = e
      BY <1>1, <2>2 DEF IInv, OneAtATime, Stopping
    <3>2. current' # e \/ to \notin {"up", "stopDevice"}
      BY <2>2
    <3>3. ServedByPlace = none
      BY <1>1, <2>2, <3>1 DEF ServedByPlace
    <3>4. current' \in Engines /\ current' # e => FALSE
      BY <1>1, <3>1 DEF IInv, OneAtATime
    <3> QED
      BY <1>1, <2>2, <3>3, <3>4 DEF ServedByPlace, IInv, TypeOK
  <2> QED
    BY <2>1, <2>2
<1> QED
  BY <1>2, <1>3, MobileView, MobileViewPrimed DEF MobileStep

(* establish hands a new descriptor over. *)
LEMMA EstablishMobile ==
    ASSUME IInv, IInv', NEW e \in Engines, Establish(e)
    PROVE  MobileStep
<1>1. PICK to \in {"begin", "failed"} : Step(e, "establish", to)
  BY DEF Establish
<1>2. to \in Places /\ current' = current
  BY DEF Places, Establish
<1>3. CASE to = "failed"
  BY <1>1, <1>2, <1>3, UnseenStep DEF Handed
<1>4. CASE to = "begin"
  <2>1. /\ pc[e] = "establish" /\ pc'[e] = "begin" /\ android' = android
        /\ \A f \in Engines \ {e} : pc'[f] = pc[f]
    BY <1>1, <1>2, <1>4, StepPlaces DEF IInv
  <2>2. android
    BY <2>1 DEF IInv, AndroidPlaces
  <2>3. OpenedByPlace' = OpenedByPlace \cup {e} /\ e \notin OpenedByPlace
    BY <2>1, <2>2 DEF OpenedByPlace, Handed
  <2>4. ServedByPlace' = ServedByPlace
    BY <1>2, <2>1 DEF ServedByPlace, IInv, TypeOK
  <2>5. Mobile!Detached(e) /\ e \in Opened'
    BY <2>3, <2>4, MobileView, MobileViewPrimed DEF Mobile!Detached
  <2> QED
    BY <2>5 DEF MobileStep, Mobile!MNext
<1> QED
  BY <1>3, <1>4

(* A failing start closes the descriptor; on a desktop none was given.      *)
LEMMA FailMobile ==
    ASSUME IInv, IInv', NEW e \in Engines, NEW from \in {"begin", "config", "device", "stack"},
           Step(e, from, "failed"), current' = current
    PROVE  MobileStep
<1>0. "failed" \in Places
  BY DEF Places
<1>1. /\ pc[e] = from /\ pc'[e] = "failed" /\ android' = android
      /\ \A f \in Engines \ {e} : pc'[f] = pc[f]
  BY <1>0, StepPlaces DEF IInv
<1>2. ServedByPlace' = ServedByPlace /\ ServedByPlace # e
  BY <1>1 DEF ServedByPlace, IInv, TypeOK, none, Engines
<1>3. CASE ~android
  <2>1. OpenedByPlace' = OpenedByPlace
    BY <1>1, <1>3 DEF OpenedByPlace
  <2> QED
    BY <1>2, <2>1, MobileView, MobileViewPrimed DEF MobileStep
<1>4. CASE android
  <2>1. OpenedByPlace' = OpenedByPlace \ {e} /\ e \in OpenedByPlace
    BY <1>1, <1>4 DEF OpenedByPlace, Handed
  <2>2. Mobile!MobileFails(e) /\ e \in Opened
    BY <1>2, <2>1, MobileView, MobileViewPrimed DEF Mobile!MobileFails
  <2> QED
    BY <2>2 DEF MobileStep, Mobile!MNext
<1> QED
  BY <1>3, <1>4

(* Publish makes the engine the one of the process. *)
LEMMA PublishMobile ==
    ASSUME IInv, IInv', NEW e \in Engines, Publish(e)
    PROVE  MobileStep
<1>0. Step(e, "publish", "up") /\ "up" \in Places /\ current' = e
  BY DEF Publish, Return, Places
<1>1. /\ pc[e] = "publish" /\ pc'[e] = "up" /\ android' = android
      /\ \A f \in Engines \ {e} : pc'[f] = pc[f]
  BY <1>0, StepPlaces DEF IInv
<1>2. OpenedByPlace' = OpenedByPlace
  BY <1>1 DEF OpenedByPlace, Handed
<1>3. CASE ~android
  BY <1>1, <1>2, <1>3, MobileView, MobileViewPrimed DEF MobileStep, ServedByPlace
<1>4. CASE android
  <2>1. current = none
    BY <1>1 DEF IInv, OneAtATime, Starting
  <2>2. ServedByPlace = none /\ ServedByPlace' = e
    BY <1>0, <1>1, <1>4, <2>1 DEF ServedByPlace, none, Engines
  <2>3. e \in OpenedByPlace
    BY <1>1, <1>4 DEF OpenedByPlace, Handed
  <2>4. Mobile!MobileStarts(e) /\ e \in Opened
    BY <1>2, <2>2, <2>3, MobileView, MobileViewPrimed DEF Mobile!MobileStarts, none
  <2> QED
    BY <2>4 DEF MobileStep, Mobile!MNext
<1> QED
  BY <1>3, <1>4

(* device.Close is where Stop gives the descriptor up. *)
LEMMA StopMobile ==
    ASSUME IInv, IInv', NEW e \in Engines, StopDevice(e)
    PROVE  MobileStep
<1>0. Step(e, "stopDevice", "stopStack") /\ "stopStack" \in Places /\ current' = current
  BY DEF StopDevice, Places, Stopping
<1>1. /\ pc[e] = "stopDevice" /\ pc'[e] = "stopStack" /\ android' = android
      /\ \A f \in Engines \ {e} : pc'[f] = pc[f]
  BY <1>0, StepPlaces DEF IInv
<1>2. current = e
  BY <1>1 DEF IInv, OneAtATime, Stopping
<1>3. CASE ~android
  BY <1>1, <1>3, MobileView, MobileViewPrimed DEF MobileStep, ServedByPlace, OpenedByPlace
<1>4. CASE android
  <2>1. ServedByPlace = e /\ ServedByPlace' = none
    BY <1>0, <1>1, <1>2, <1>4 DEF ServedByPlace, none, Engines
  <2>2. OpenedByPlace' = OpenedByPlace \ {e}
    BY <1>1, <1>4 DEF OpenedByPlace, Handed
  <2>3. Mobile!MobileStop
    BY <2>1, <2>2, MobileView, MobileViewPrimed DEF Mobile!MobileStop, none
  <2> QED
    BY <2>3 DEF MobileStep, Mobile!MNext
<1> QED
  BY <1>3, <1>4

(* Steps that move no engine. *)
LEMMA ElsewhereMobile ==
    ASSUME IInv, IInv', UNCHANGED <<android, pc, current>>
    PROVE  MobileStep
  BY MobileView, MobileViewPrimed DEF MobileStep, ServedByPlace, OpenedByPlace

(* Engines keep the promise of package mobile, in a process of either kind. *)
THEOREM KeepsPromise == Spec => KeepsMobilePromise
<1>1. Init => Mobile!MInit
  BY DEF Init, Mobile!MInit, Served, Opened, none
<1>2. IInv /\ IInv' /\ [Next]_vars => [Mobile!MNext]_<<Served, Opened>>
  <2> SUFFICES ASSUME IInv, IInv', [Next]_vars
               PROVE  MobileStep
    BY DEF MobileStep
  <2>1. CASE UNCHANGED vars \/ OpenSocket \/ CloseSocket
    BY <2>1, ElsewhereMobile DEF vars, OpenSocket, CloseSocket
  <2>2. ASSUME NEW e \in Engines,
               \/ CheckProxy(e) \/ CheckDns(e) \/ CheckEnds(e) \/ HelperEnds(e)
               \/ Establish(e)
               \/ Start(e) \/ StopDns(e) \/ Stop(e)
               \/ SendQuery(e) \/ Dns(e) \/ Answered(e)
        PROVE  MobileStep
    <3> USE <2>2
    <3>1. CASE CheckProxy(e) \/ CheckDns(e) \/ CheckEnds(e)
      <4>1. PICK from \in {"idle", "dns", "await"},
                 to \in {"dns", "await", "establish", "failed"} : Step(e, from, to)
        BY <3>1 DEF CheckProxy, CheckDns, CheckEnds
      <4>2. current' = current /\ to \in Places
        BY <3>1 DEF CheckProxy, CheckDns, CheckEnds, Places
      <4>3. from \notin Handed /\ to \notin Handed
        BY DEF Handed
      <4> QED
        BY <4>1, <4>2, <4>3, UnseenStep
    <3>2. CASE HelperEnds(e) \/ SendQuery(e) \/ Dns(e) \/ Answered(e)
      BY <3>2, ElsewhereMobile
         DEF HelperEnds, SendQuery, Dns, ReadQuery, ExchangeFails, Answered, Respond
    <3>3. CASE Establish(e)
      BY <3>3, EstablishMobile
    <3>4. CASE Refuse(e) \/ BadConfig(e) \/ BindFails(e) \/ OpenFails(e) \/ StackFails(e)
      <4>1. PICK from \in {"begin", "config", "device", "stack"} : Step(e, from, "failed")
        BY <3>4 DEF Refuse, BadConfig, BindFails, OpenFails, StackFails, Return
      <4>2. current' = current
        BY <3>4 DEF Refuse, BadConfig, BindFails, OpenFails, StackFails
      <4> QED
        BY <4>1, <4>2, FailMobile
    <3>5. CASE \/ Begin(e) \/ Bind(e) \/ OpenDevice(e) \/ CreateStack(e) \/ InstallPolicy(e)
               \/ Activate(e)
      <4>1. PICK from \in {"idle", "begin", "config", "device", "stack", "policy", "activate"},
                 to \in Starting :
              Step(e, from, to) /\ (from = "idle" => ~android)
        BY <3>5 DEF Begin, Bind, OpenDevice, CreateStack, InstallPolicy, Activate, Starting
      <4>2. current' = current /\ to \in Places
        BY <3>5 DEF Begin, Bind, OpenDevice, CreateStack, InstallPolicy, Activate, Places
      <4>3. /\ android => (from \in Handed <=> to \in Handed)
            /\ from \notin {"up", "stopDevice"} /\ to \notin {"up", "stopDevice"}
        BY <4>1 DEF Handed, Starting
      <4> QED
        BY <4>1, <4>2, <4>3, UnseenStep
    <3>6. CASE Publish(e)
      BY <3>6, PublishMobile
    <3>7. CASE StopDns(e)
      <4>1. Step(e, "up", "stopDevice") /\ "stopDevice" \in Places /\ current' = current
        BY <3>7 DEF StopDns, Places, Stopping
      <4> QED
        BY <4>1, UnseenStep DEF Handed
    <3>8. CASE StopDevice(e)
      BY <3>8, StopMobile
    <3>9. CASE StopStack(e)
      <4>1. Step(e, "stopStack", "reset") /\ "reset" \in Places /\ current' = current
        BY <3>9 DEF StopStack, Places, Stopping
      <4> QED
        BY <4>1, UnseenStep DEF Handed
    <3>10. CASE ResetDialer(e)
      <4>1. Step(e, "reset", "stopped") /\ "stopped" \in Places
        BY <3>10 DEF ResetDialer, Places
      <4> QED
        BY <4>1, UnseenStep DEF Handed
    <3> QED
      BY <3>1, <3>2, <3>3, <3>4, <3>5, <3>6, <3>7, <3>8, <3>9, <3>10 DEF Start, Stop
  <2> QED
    BY <2>1, <2>2 DEF Next, Settled
<1> QED
  BY <1>1, <1>2, EngineInvariant, PTL DEF Spec, KeepsMobilePromise, Mobile!MSpec

=============================================================================

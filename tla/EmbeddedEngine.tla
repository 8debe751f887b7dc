---------------------------- MODULE EmbeddedEngine ----------------------------
(***************************************************************************)
(* The tun2socks engine inside one process: engine.Start and engine.Stop    *)
(* call by call, with what they share with the rest of the process (the     *)
(* table of descriptors, the upstream packages dialer and tunnel), the      *)
(* goroutine that serves a DNS socket, and package mobile around them.      *)
(*                                                                         *)
(* In an Android process executors of the service check the proxy and then  *)
(* start engines, any thread stops the current one, and a mutex keeps these *)
(* two apart. In a desktop process runs of client.Run follow one another.   *)
(*                                                                         *)
(* External, modelled from how the code uses it: gVisor (a stack closes the *)
(* endpoints of its sockets; the device is read from Attach to Close), the  *)
(* dialer (applies every option registered since the last Reset), sockets   *)
(* of other goroutines, and applications that send DNS queries.            *)
(***************************************************************************)
EXTENDS Integers, Sequences

CONSTANTS
    MaxEngines,     \* bound: engines the process creates, one per start
    MaxDescriptor,  \* bound: descriptor numbers; the kernel reuses them
    MaxQueries      \* bound: DNS queries sent through one engine, by one socket

ASSUME BoundsAssumption == {MaxEngines, MaxDescriptor, MaxQueries} \subseteq Nat \ {0}

Engines == 1..MaxEngines
Descriptors == 1..MaxDescriptor
none == 0

VARIABLES
    android,    \* which process this is. Never changes
    pc,         \* pc[e]: where the start, then the stop, of engine e is
    helper,     \* helper[e]: the goroutine of CheckDNSOverHTTPS before that start
    fd,         \* fd[e]: the descriptor number it was given
    holds,      \* holds[e]: what e has to release, see Holdings
    current,    \* mobile.current; the engine of client.Run
    dialer,     \* the options of the upstream dialer: interfaces to bind to
    proxy,      \* the engine whose proxy the upstream tunnel forwards to
    table,      \* descriptor numbers that are open in the process
    sockets,    \* ... the ones that other goroutines opened and did not close
    asked,      \* asked[e]: DNS queries sent through e
    answered,   \* answered[e]: ... that got a response
    serve       \* serve[e]: where serveDNS is

descriptors == <<fd, table, sockets>>
upstream == <<dialer, proxy>>
queries == <<asked, answered, serve>>
vars == <<android, pc, helper, holds, current, descriptors, upstream, queries>>

(* The descriptor while Start closes it on return, the device that has      *)
(* taken it over, the DNS handler with a context that is not cancelled, the *)
(* network stack, its replaced UDP handler, and the attached reader.        *)
Holdings == {"ownsFD", "device", "dns", "stack", "policy", "reading"}

Starting == {"config", "device", "stack", "policy", "activate", "publish"}
Stopping == {"stopDevice", "stopStack", "reset"}

TypeOK ==
    /\ android \in BOOLEAN
    /\ pc \in [Engines -> Starting \cup Stopping \cup
                 {"idle", "dns", "await", "establish", "begin", "up", "stopped", "failed"}]
    /\ helper \in [Engines -> {"none", "asking", "ended"}]
    /\ fd \in [Engines -> Descriptors \cup {none}]
    /\ holds \in [Engines -> SUBSET Holdings]
    /\ {current, proxy} \subseteq Engines \cup {none}
    /\ dialer \in Seq(Engines)
    /\ sockets \cup table \subseteq Descriptors
    /\ {asked, answered} \subseteq [Engines -> 0..MaxQueries]
    /\ serve \in [Engines -> {"none", "read", "exchange", "ended"}]

Init ==
    /\ android \in BOOLEAN
    /\ pc = [e \in Engines |-> "idle"]
    /\ helper = [e \in Engines |-> "none"]
    /\ fd = [e \in Engines |-> none]
    /\ holds = [e \in Engines |-> {}]
    /\ current = none /\ dialer = <<>> /\ proxy = none
    /\ table = {} /\ sockets = {}
    /\ asked = [e \in Engines |-> 0] /\ answered = [e \in Engines |-> 0]
    /\ serve = [e \in Engines |-> "none"]

Step(e, from, to) ==
    /\ pc[e] = from
    /\ pc' = [pc EXCEPT ![e] = to]
    /\ UNCHANGED android

(* closeFD and device.Close close a number, whatever it stands for by now.  *)
Release(e, released) ==
    /\ holds' = [holds EXCEPT ![e] = @ \ released]
    /\ table' = IF {"ownsFD", "device"} \cap released \cap holds[e] = {}
                THEN table ELSE table \ {fd[e]}
    /\ UNCHANGED <<fd, sockets>>

Keep(e, kept) == holds' = [holds EXCEPT ![e] = @ \cup kept] /\ UNCHANGED descriptors

(* Start returns: its deferred function closes the descriptor it owns.      *)
Return(e, from, to, released) ==
    /\ Step(e, from, to)
    /\ Release(e, released \cup {"ownsFD"})
    /\ UNCHANGED <<helper, queries>>

-----------------------------------------------------------------------------
(* Android: the executor of the service checks the proxy, then the DNS.     *)

(* engine.CheckProxy *)
CheckProxy(e) ==
    /\ android
    /\ Step(e, "idle", "dns") \/ Step(e, "idle", "failed")
    /\ dialer' = <<>>
    /\ UNCHANGED <<helper, holds, current, descriptors, proxy, queries>>

(* engine.CheckDNSOverHTTPS, with 12 seconds for both checks. *)
CheckDns(e) ==
    /\ Step(e, "dns", "await")
    /\ dialer' = <<>>
    /\ helper' = [helper EXCEPT ![e] = "asking"]
    /\ UNCHANGED <<holds, current, descriptors, proxy, queries>>

(* Mutant: a channel without a buffer. *)
HelperEnds_Unbuffered(e) ==
    /\ helper[e] = "asking" /\ pc[e] = "await"
    /\ helper' = [helper EXCEPT ![e] = "ended"]
    /\ UNCHANGED <<android, pc, holds, current, descriptors, upstream, queries>>

(* The exchange ends, after ten seconds at most or with the handler; the    *)
(* channel has room for its result.                                        *)
HelperEnds(e) ==
    /\ helper[e] = "asking"
    /\ helper' = [helper EXCEPT ![e] = "ended"]
    /\ UNCHANGED <<android, pc, holds, current, descriptors, upstream, queries>>

(* The result, or ctx.Done. *)
CheckEnds(e) ==
    /\ \/ helper[e] = "ended" /\ Step(e, "await", "establish")
       \/ Step(e, "await", "failed")
    /\ UNCHANGED <<helper, holds, current, descriptors, upstream, queries>>

(* Builder.establish and detachFd; the descriptor is Mobile.start's now.    *)
Establish(e) ==
    /\ \/ /\ Step(e, "establish", "begin")
          /\ \E n \in Descriptors \ table :
                fd' = [fd EXCEPT ![e] = n] /\ table' = table \cup {n}
          /\ holds' = [holds EXCEPT ![e] = {"ownsFD"}]
       \/ Step(e, "establish", "failed") /\ UNCHANGED <<fd, table, holds>>
    /\ UNCHANGED <<helper, current, sockets, upstream, queries>>

-----------------------------------------------------------------------------
(* Start. Android holds mu in it and in Stop; a desktop process has one     *)
(* run, and with it one engine, at a time.                                 *)

Free == \A e \in Engines : pc[e] \notin Starting \cup Stopping
Alone == Free /\ \A e \in Engines : pc[e] # "up"

(* Mutant: an engine that is active is not noticed. *)
Begin_WithoutCheck(e) ==
    /\ IF android THEN Free /\ Step(e, "begin", "config") ELSE Alone /\ Step(e, "idle", "config")
    /\ UNCHANGED <<helper, holds, current, descriptors, upstream, queries>>

Begin(e) ==
    /\ IF android
       THEN Free /\ current = none /\ Step(e, "begin", "config")
       ELSE Alone /\ Step(e, "idle", "config")
    /\ UNCHANGED <<helper, holds, current, descriptors, upstream, queries>>

(* An engine is active: the descriptor is closed. *)
Refuse(e) ==
    /\ Free /\ current # none
    /\ Return(e, "begin", "failed", {})
    /\ UNCHANGED <<current, upstream>>

(* The descriptor, the MTU or the proxy URL is not valid. *)
BadConfig(e) ==
    /\ Return(e, "config", "failed", {})
    /\ UNCHANGED <<current, upstream>>

(* newDNSOverHTTPSHandler: a context of its own, ten seconds a request. The  *)
(* configuration of package mobile is one that it accepts.                 *)
DnsHandler == IF android THEN {"dns"} ELSE {}

(* Mutant: what an earlier start has registered is left to its Stop. *)
Bind_Appends(e) ==
    /\ Step(e, "config", "device")
    /\ dialer' = IF android THEN dialer ELSE Append(dialer, e)
    /\ proxy' = e
    /\ Keep(e, DnsHandler)
    /\ UNCHANGED <<helper, current, queries>>

(* dialer.Reset, the binding, SetProxy and the DNS handler. *)
Bind(e) ==
    /\ Step(e, "config", "device")
    /\ dialer' = IF android THEN <<>> ELSE <<e>>
    /\ proxy' = e
    /\ Keep(e, DnsHandler)
    /\ UNCHANGED <<helper, current, queries>>

BindFails(e) ==
    /\ ~android
    /\ Return(e, "config", "failed", {})
    /\ dialer' = <<>>
    /\ UNCHANGED <<current, proxy>>

(* Mutant: ownsFD stays set. *)
OpenDevice_KeepsOwnership(e) ==
    /\ Step(e, "device", "stack")
    /\ Keep(e, {"device"})
    /\ UNCHANGED <<helper, current, upstream, queries>>

(* openDevice; ownsFD = false *)
OpenDevice(e) ==
    /\ Step(e, "device", "stack")
    /\ holds' = [holds EXCEPT ![e] = (@ \ {"ownsFD"}) \cup {"device"}]
    /\ UNCHANGED <<helper, current, descriptors, upstream, queries>>

OpenFails(e) ==
    /\ Return(e, "device", "failed", {"dns"})
    /\ UNCHANGED <<current, upstream>>

(* delayedLinkEndpoint.Attach only remembers the dispatcher. *)
Attached == IF android THEN {} ELSE {"reading"}

(* core.CreateStack attaches the device, or its delayed endpoint. *)
CreateStack(e) ==
    /\ Step(e, "stack", IF android THEN "policy" ELSE "publish")
    /\ Keep(e, {"stack"} \cup Attached)
    /\ UNCHANGED <<helper, current, upstream, queries>>

(* Mutant: the DNS handler is forgotten. *)
StackFails_KeepsDns(e) ==
    /\ Return(e, "stack", "failed", {"device"})
    /\ UNCHANGED <<current, upstream>>

StackFails(e) ==
    /\ Return(e, "stack", "failed", {"dns", "device"})
    /\ UNCHANGED <<current, upstream>>

(* installUDPRejectPolicy *)
InstallPolicy(e) ==
    /\ Step(e, "policy", "activate")
    /\ Keep(e, {"policy"})
    /\ UNCHANGED <<helper, current, upstream, queries>>

(* delayedLinkEndpoint.Activate *)
Activate(e) ==
    /\ Step(e, "activate", "publish")
    /\ Keep(e, {"reading"})
    /\ UNCHANGED <<helper, current, upstream, queries>>

Publish(e) ==
    /\ Return(e, "publish", "up", {})
    /\ current' = e
    /\ UNCHANGED upstream

Start(e) ==
    \/ Begin(e) \/ Refuse(e) \/ BadConfig(e) \/ Bind(e) \/ BindFails(e)
    \/ OpenDevice(e) \/ OpenFails(e) \/ CreateStack(e) \/ StackFails(e)
    \/ InstallPolicy(e) \/ Activate(e) \/ Publish(e)

-----------------------------------------------------------------------------
(* Stop *)

(* dns.Close: the context of every exchange is cancelled. *)
StopDns(e) ==
    /\ Free
    /\ Step(e, "up", "stopDevice")
    /\ Release(e, {"dns"})
    /\ UNCHANGED <<helper, current, upstream, queries>>

(* device.Close: the reader ends. *)
StopDevice(e) ==
    /\ Step(e, "stopDevice", "stopStack")
    /\ Release(e, {"device", "reading"})
    /\ UNCHANGED <<helper, current, upstream, queries>>

(* stack.Close, stack.Wait *)
StopStack(e) ==
    /\ Step(e, "stopStack", "reset")
    /\ Release(e, {"stack", "policy"})
    /\ UNCHANGED <<helper, current, upstream, queries>>

ResetDialer(e) ==
    /\ Step(e, "reset", "stopped")
    /\ dialer' = <<>>
    /\ current' = none
    /\ UNCHANGED <<helper, holds, descriptors, proxy, queries>>

Stop(e) == StopDevice(e) \/ StopStack(e) \/ ResetDialer(e)

-----------------------------------------------------------------------------
(* A DNS socket of an application behind engine e, and serveDNS.            *)

(* A query; the first one of a socket starts the goroutine. *)
SendQuery(e) ==
    /\ "reading" \in holds[e] /\ android
    /\ asked[e] < MaxQueries
    /\ serve[e] # "ended"
    /\ asked' = [asked EXCEPT ![e] = @ + 1]
    /\ serve' = [serve EXCEPT ![e] = IF @ = "none" THEN "read" ELSE @]
    /\ UNCHANGED <<android, pc, helper, holds, current, descriptors, upstream, answered>>

(* conn.ReadFrom, which fails once the stack has closed the endpoint.       *)
ReadQuery(e) ==
    /\ serve[e] = "read"
    /\ \/ "stack" \notin holds[e] /\ serve' = [serve EXCEPT ![e] = "ended"]
       \/ /\ "stack" \in holds[e] /\ answered[e] < asked[e]
          /\ serve' = [serve EXCEPT ![e] = "exchange"]
    /\ UNCHANGED <<android, pc, helper, holds, current, descriptors, upstream, asked,
                   answered>>

(* conn.WriteTo, with the response of the resolver or a failure response.   *)
Respond(e) ==
    /\ serve[e] = "exchange"
    /\ IF "stack" \in holds[e]
       THEN /\ serve' = [serve EXCEPT ![e] = "read"]
            /\ answered' = [answered EXCEPT ![e] = @ + 1]
       ELSE /\ serve' = [serve EXCEPT ![e] = "ended"]
            /\ UNCHANGED answered
    /\ UNCHANGED <<android, pc, helper, holds, current, descriptors, upstream, asked>>

(* The resolver answers in time. *)
Answered(e) == "dns" \in holds[e] /\ Respond(e)

(* Mutant: serveDNS returns when an exchange fails. *)
ExchangeFails_Returns(e) ==
    /\ serve[e] = "exchange"
    /\ serve' = [serve EXCEPT ![e] = "ended"]
    /\ UNCHANGED <<android, pc, helper, holds, current, descriptors, upstream, asked,
                   answered>>

(* ... or it fails, is silent for ten seconds, or the handler is closed.    *)
ExchangeFails(e) == Respond(e)

-----------------------------------------------------------------------------
(* Other goroutines open and close descriptors of their own. *)

OpenSocket ==
    /\ android
    /\ \E n \in Descriptors \ table : table' = table \cup {n} /\ sockets' = sockets \cup {n}
    /\ UNCHANGED <<android, pc, helper, holds, current, fd, upstream, queries>>

CloseSocket ==
    /\ \E n \in sockets : table' = table \ {n} /\ sockets' = sockets \ {n}
    /\ UNCHANGED <<android, pc, helper, holds, current, fd, upstream, queries>>

Settled ==
    /\ \A e \in Engines : pc[e] \in {"idle", "up", "stopped", "failed"}
    /\ UNCHANGED vars

-----------------------------------------------------------------------------

Dns(e) == ReadQuery(e) \/ ExchangeFails(e)

Next ==
    \/ \E e \in Engines :
          \/ CheckProxy(e) \/ CheckDns(e) \/ CheckEnds(e) \/ HelperEnds(e)
          \/ Establish(e)
          \/ Start(e) \/ StopDns(e) \/ Stop(e)
          \/ SendQuery(e) \/ Dns(e) \/ Answered(e)
    \/ OpenSocket \/ CloseSocket
    \/ Settled

(* Goroutines are scheduled, and an exchange ends by itself after ten       *)
(* seconds. Nothing obliges the user, the resolver or an application.      *)
Fairness ==
    \A e \in Engines :
        /\ WF_vars(HelperEnds(e))
        /\ WF_vars(Stop(e))
        /\ WF_vars(Dns(e))

Spec == Init /\ [][Next]_vars /\ Fairness

-----------------------------------------------------------------------------
(* No descriptor of another goroutine is ever closed: the number an engine  *)
(* was given is closed once, by the one that owns it at that moment.        *)
ClosesOnlyItsOwn == sockets \subseteq table

(* A start that fails and an engine that was stopped leave nothing behind.  *)
NothingLeft ==
    \A e \in Engines : pc[e] \in {"failed", "stopped"} => holds[e] = {}

(* README.md, "keeping the SOCKS connection outside the TUN": packets enter *)
(* the stack only while the process-wide tunnel forwards to the proxy of    *)
(* that engine, the process-wide dialer binds to its interface alone, and,  *)
(* on Android, UDP to port 443 is rejected (udp_policy.go, "no packet may   *)
(* enter the stack before Activate").                                      *)
TrafficUsesItsProxy ==
    \A e \in Engines : "reading" \in holds[e] =>
        /\ proxy = e
        /\ dialer = (IF android THEN <<>> ELSE <<e>>)
        /\ android => "policy" \in holds[e]

(* One query after the other, every one is answered, if only with a failure *)
(* and however many before it time out, unless the engine is stopped.       *)
QueriesAnswered ==
    \A e \in Engines :
        answered[e] < asked[e] ~>
            answered[e] = asked[e] \/ pc[e] \in Stopping \cup {"stopped"}

(* A stopped engine leaves no goroutine of a DNS socket behind, and the     *)
(* check of the DNS none of its own, whichever of them was first to give up.*)
GoroutinesEnd ==
    \A e \in Engines :
        /\ pc[e] = "stopped" ~> serve[e] \in {"none", "ended"}
        /\ helper[e] = "asking" ~> helper[e] = "ended"

(* Seen from the service: the engine that reads its descriptor, and the     *)
(* descriptors that an engine has, named by the engine they were made for.  *)
Served == IF android /\ current # none /\ "device" \in holds[current] THEN current ELSE none
Opened == {e \in Engines : fd[e] \in table \ sockets
                           /\ holds[e] \cap {"ownsFD", "device"} # {}}

Mobile == INSTANCE MobilePromise WITH engine <- Served, open <- Opened

(* This is what package mobile promises. *)
KeepsMobilePromise == Mobile!MSpec

=============================================================================

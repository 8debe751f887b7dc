---------------------------- MODULE LinuxSessions ----------------------------
(***************************************************************************)
(* Runs of the desktop client on one Linux host, with the commands of the   *)
(* Linux plan and their effect on its routes spelled out: what DesktopClient *)
(* calls "setting i". Several runs share the host (the CLI and the desktop  *)
(* application, or either twice); a run can be killed (kill -9) and leave   *)
(* the host as it is. The engine and the statistics are DesktopClient's.    *)
(***************************************************************************)
EXTENDS LinuxNetwork

CONSTANTS
    Worlds  \* what a behaviour starts from: the host, the runs of the client on
            \* it, the options they may be given, and how many are killed

ASSUME WorldsAssumption ==
    \A w \in Worlds : w.host \in Hosts /\ IsFiniteSet(w.runs)

VARIABLES
    world,      \* the element of Worlds this behaviour is about. Never changes
    host,       \* the host
    options,    \* options[s]: --interface and --gateway, None if not given
    pc,         \* pc[s]: where run s is
    info,       \* info[s]: networkInfo
    bound,      \* bound[s]: proxyRoute.Interface, what the engine binds to
    allRP,      \* allRP[s]: the value of net.ipv4.conf.all.rp_filter it read
    plan,       \* plan[s]: plan.Steps
    applied,    \* applied[s]: Len(session.applied)
    refused     \* refused[s]: undo commands the kernel refused, by step

vars == <<world, host, options, pc, info, bound, allRP, plan, applied, refused>>

Sessions == world.runs
original == world.host

local == <<info, bound, allRP, plan, applied, refused>>

RoutesOf(routes) == \A r \in routes : {"dst", "via", "dev", "metric"} = DOMAIN r

TypeOK ==
    /\ pc \in [Sessions -> {"detect", "route", "allRP", "plan", "apply", "up",
                            "rollback", "done", "killed"}]
    /\ DOMAIN host = {"tun", "addr", "up", "routes", "rp"}
    /\ {host.tun, host.addr, host.up} \subseteq BOOLEAN
    /\ RoutesOf(host.routes)
    /\ \A s \in Sessions :
          /\ applied[s] \in 0..Len(plan[s])
          /\ refused[s] \subseteq 1..Len(plan[s])
          /\ bound[s] \in Interfaces \cup {Tun, None}

Init ==
    /\ world \in Worlds
    /\ host = world.host
    /\ options \in [Sessions -> world.options]
    /\ pc = [s \in Sessions |-> "detect"]
    /\ info = [s \in Sessions |-> Fallback]
    /\ bound = [s \in Sessions |-> None]
    /\ allRP = [s \in Sessions |-> None]
    /\ plan = [s \in Sessions |-> <<>>]
    /\ applied = [s \in Sessions |-> 0]
    /\ refused = [s \in Sessions |-> {}]

Goto(s, from, to) ==
    /\ pc[s] = from
    /\ pc' = [pc EXCEPT ![s] = to]

-----------------------------------------------------------------------------
(* Inspection: three reads of the host, at three different moments.         *)

(* network.Detect, with the fallback to --interface. *)
Detect(s) ==
    LET found == IF DetectSucceeds(host)
                 THEN {Detected(host, l) : l \in Listings(Defaults(host))}
                 ELSE {Fallback}
    IN  /\ IF DetectSucceeds(host) \/ options[s].interface # None
           THEN /\ Goto(s, "detect", "route")
                /\ \E network \in found :
                      info' = [info EXCEPT ![s] = Overridden(network, options[s])]
           ELSE /\ Goto(s, "detect", "done")
                /\ UNCHANGED info
        /\ UNCHANGED <<world, host, options, bound, allRP, plan, applied, refused>>

(* network.DetectRoute *)
DetectRoute(s) ==
    /\ IF RoutesToProxy(host) = {}
       THEN /\ Goto(s, "route", "done")
            /\ UNCHANGED bound
       ELSE /\ Goto(s, "route", "allRP")
            /\ \E i \in ProxyInterfaces(host) : bound' = [bound EXCEPT ![s] = i]
    /\ UNCHANGED <<world, host, options, info, allRP, plan, applied, refused>>

(* network.BuildPlan reads the two rp_filter values it will restore, one    *)
(* after the other. An interface that is gone has none; tun0 of another run *)
(* has the default of the host.                                            *)
ReadAllRP(s) ==
    /\ Goto(s, "allRP", "plan")
    /\ allRP' = [allRP EXCEPT ![s] = host.rp["all"]]
    /\ UNCHANGED <<world, host, options, info, bound, plan, applied, refused>>

BuildPlan(s) ==
    LET interface == info[s].interface
        value == IF interface \in Interfaces THEN host.rp[interface] ELSE 2
    IN  /\ IF interface \in Interfaces \/ (interface = Tun /\ host.tun)
           THEN /\ Goto(s, "plan", "apply")
                /\ plan' = [plan EXCEPT ![s] = LinuxPlan(info[s], allRP[s], value)]
           ELSE /\ Goto(s, "plan", "done")
                /\ UNCHANGED plan
        /\ UNCHANGED <<world, host, options, info, bound, allRP, applied, refused>>

-----------------------------------------------------------------------------
(* session.apply *)

(* Mutant: the error of the command is ignored. *)
ApplyStep_IgnoresErrors(s) ==
    LET c == plan[s][applied[s] + 1].do
    IN  /\ pc[s] = "apply"
        /\ applied[s] < Len(plan[s])
        /\ host' = IF Accepts(c, host) THEN Effect(c, host) ELSE host
        /\ applied' = [applied EXCEPT ![s] = @ + 1]
        /\ UNCHANGED <<world, options, pc, info, bound, allRP, plan, refused>>

ApplyStep(s) ==
    LET c == plan[s][applied[s] + 1].do
    IN  /\ pc[s] = "apply"
        /\ applied[s] < Len(plan[s])
        /\ Accepts(c, host)
        /\ host' = Effect(c, host)
        /\ applied' = [applied EXCEPT ![s] = @ + 1]
        /\ UNCHANGED <<world, options, pc, info, bound, allRP, plan, refused>>

(* The kernel refuses a command, or the run is cancelled before it, or the  *)
(* engine does not start: what was applied is rolled back.                 *)
GiveUp(s) ==
    /\ Goto(s, "apply", "rollback")
    /\ UNCHANGED <<world, host, options, local>>

GoUp(s) ==
    /\ applied[s] = Len(plan[s])
    /\ Goto(s, "apply", "up")
    /\ UNCHANGED <<world, host, options, local>>

Disconnect(s) ==
    /\ Goto(s, "up", "rollback")
    /\ UNCHANGED <<world, host, options, local>>

(* session.rollback: one undo command. *)
Undo(s) ==
    LET c == plan[s][applied[s]].undo
    IN  /\ pc[s] = "rollback"
        /\ applied[s] > 0
        /\ IF Accepts(c, host)
           THEN host' = Effect(c, host) /\ UNCHANGED refused
           ELSE refused' = [refused EXCEPT ![s] = @ \cup {applied[s]}] /\ UNCHANGED host
        /\ applied' = [applied EXCEPT ![s] = @ - 1]
        /\ UNCHANGED <<world, options, pc, info, bound, allRP, plan>>

Return(s) ==
    /\ applied[s] = 0
    /\ Goto(s, "rollback", "done")
    /\ UNCHANGED <<world, host, options, local>>

(* kill -9: the process is gone, tun0 and the routes stay. *)
killed == {s \in Sessions : pc[s] = "killed"}

Kill(s) ==
    /\ Cardinality(killed) < world.crashes
    /\ pc[s] \in {"apply", "up", "rollback"}
    /\ pc' = [pc EXCEPT ![s] = "killed"]
    /\ UNCHANGED <<world, host, options, local>>

Ended ==
    /\ \A s \in Sessions : pc[s] \in {"done", "killed"}
    /\ UNCHANGED vars

-----------------------------------------------------------------------------

Run(s) ==
    \/ Detect(s) \/ DetectRoute(s) \/ ReadAllRP(s) \/ BuildPlan(s)
    \/ ApplyStep(s) \/ GiveUp(s) \/ GoUp(s) \/ Disconnect(s)
    \/ Undo(s) \/ Return(s)

Next == (\E s \in Sessions : Run(s) \/ Kill(s)) \/ Ended

Spec == Init /\ [][Next]_vars

-----------------------------------------------------------------------------
working == {s \in Sessions : applied[s] > 0 /\ pc[s] # "killed"}

(* A run that nobody interferes with, on a host without a multipath route:  *)
(* what "ip" prints of such a route is not enough to add it again.         *)
alone ==
    /\ Cardinality(Sessions) = 1
    /\ \A r \in original.routes : ~Multipath(r)

(* README.md, "complete rollback of network changes": when a run has        *)
(* returned, the host is as it was, whatever prefix of the plan was applied *)
(* and whichever command the kernel refused, and no undo command was: each  *)
(* one found what it undoes.                                               *)
HostRestored ==
    alone /\ (\A s \in Sessions : pc[s] = "done") =>
        host = original /\ \A s \in Sessions : refused[s] = {}

(* "ip tuntap add" is what keeps two runs apart: only the run that created  *)
(* tun0 has changed anything that is not restored.                         *)
TunIsALock ==
    /\ Cardinality(working) <= 1
    /\ \A s \in Sessions : applied[s] > 0 => host.tun

(* While a run is up the default route of the host is the one into tun0.    *)
FullTunnel ==
    alone => \A s \in Sessions : pc[s] = "up" => Lowest(Defaults(host)) = TunRoute

(* README.md, "keeping the SOCKS connection outside the TUN": while a run   *)
(* is up, the interface the engine binds to has a route to the proxy. With  *)
(* --interface the plan and the engine can differ, and it may not have.     *)
SocksReachable ==
    alone => \A s \in Sessions : pc[s] = "up" /\ options[s].interface = None =>
        bound[s] # Tun /\ \E r \in host.routes : bound[s] \in Devices(r)

(* A killed run leaves tun0 behind, and with it every later run is refused  *)
(* at its first command: the host gets no worse.                           *)
KilledRunFreezesHost ==
    [][(\E s \in killed : applied[s] > 0) => UNCHANGED host]_vars

(* What setting i of DesktopClient is, on this host. *)
InForce(step, h) ==
    LET c == step.do
    IN  CASE c.op = "tuntap add" -> h.tun
          [] c.op = "addr add" -> h.addr
          [] c.op = "link up" -> h.up
          [] c.op = "route add" -> c.arg \in h.routes
          [] c.op = "route del" -> c.arg \notin h.routes
          [] c.op = "sysctl" -> h.rp[c.arg[1]] = 0

(* Steps of the plan that set what is so already change nothing. *)
Changes(s) == {i \in 1..Len(plan[s]) : ~InForce(plan[s][i], original)}

InForceOf(s, h) == {i \in Changes(s) : InForce(plan[s][i], h)}

(* LivesOn of DesktopClient for the Linux plan: tun0 takes its address, its *)
(* link state and its route with it, and a link that goes down its route.  *)
LinuxLivesOn(p, i) ==
    LET tunRoute == {j \in 1..Len(p) : p[j].do.op = "route add" /\ p[j].do.arg = TunRoute}
    IN  CASE i = 1 -> {2, 3} \cup tunRoute
          [] i = 3 -> tunRoute
          [] OTHER -> {}

(* DesktopClient's picture of the host is right: an accepted command makes  *)
(* setting i, and nothing else, change; an accepted undo takes with it only *)
(* what lives on it. Not so if the host has the very route of the plan that *)
(* replaces its default routes: it is deleted and added again.             *)
SettingsAreSteps ==
    [][alone => \A s \in Sessions : Primary(info[s]) \notin original.routes =>
          /\ applied'[s] > applied[s] =>
                InForceOf(s, host') = InForceOf(s, host) \cup ({applied'[s]} \cap Changes(s))
          /\ applied'[s] < applied[s] /\ refused' = refused =>
                InForceOf(s, host') =
                    InForceOf(s, host) \ ({applied[s]} \cup LinuxLivesOn(plan[s], applied[s]))
      ]_vars

=============================================================================

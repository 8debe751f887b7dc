---------------------------- MODULE LinuxNetwork ----------------------------
(***************************************************************************)
(* The Linux plan (internal/network): what network.Detect and DetectRoute   *)
(* read from a host, the commands linuxPlan makes of it, and what those     *)
(* commands do to the host. The kernel's side of the commands (Accepts and  *)
(* Effect) is external to the repository.                                  *)
(***************************************************************************)
EXTENDS Integers, Sequences, FiniteSets

CONSTANTS
    Interfaces,     \* the interfaces of the host, but for tun0
    GatewayOf       \* GatewayOf[i]: the only gateway reachable through i

None == "none"
Tun == "tun0"

ASSUME NamesAssumption == {None, Tun, "all"} \cap Interfaces = {}

(* A route to everything, or to the network of the SOCKS proxy. dev is None *)
(* in the line "ip route" prints for a multipath route: its next hops are   *)
(* on lines of their own.                                                  *)
Route(dst, via, dev, metric) == [dst |-> dst, via |-> via, dev |-> dev, metric |-> metric]

Multipath(r) == r.dst = "default" /\ r.dev = None

(* The routes the kernel has let somebody add, before there is a tun0.      *)
KernelRoutes ==
    {r \in [dst : {"default", "proxy"}, via : {None} \cup {GatewayOf[i] : i \in Interfaces},
            dev : Interfaces \cup {None}, metric : Nat] :
        Multipath(r) \/ (r.dev \in Interfaces /\ r.via \in {None, GatewayOf[r.dev]})}

(* ... to one destination by different metrics. *)
Hosts ==
    {h \in [tun : {FALSE}, addr : {FALSE}, up : {FALSE}, routes : SUBSET KernelRoutes,
            rp : [Interfaces \cup {"all"} -> 0..2]] :
        /\ IsFiniteSet(h.routes)
        /\ \A q, r \in h.routes : q.dst = r.dst /\ q.metric = r.metric => q = r}

Defaults(host) == {r \in host.routes : r.dst = "default"}

Lowest(routes) == CHOOSE r \in routes : \A q \in routes : r.metric <= q.metric

(* The interfaces a route sends packets to. *)
Devices(r) == IF Multipath(r) THEN Interfaces ELSE {r.dev}

-----------------------------------------------------------------------------
(* The kernel: a host has tun0 or not, its address, its link state, routes  *)
(* and the rp_filter values.                                               *)

Command(op, arg) == [op |-> op, arg |-> arg]

(* A new route needs its device up and its gateway on that device; two      *)
(* routes to one destination differ in their metric.                       *)
AcceptsRoute(r, host) ==
    /\ \/ r.dev = Tun /\ host.tun /\ host.addr /\ host.up
       \/ r.dev \in Interfaces /\ r.via \in {None, GatewayOf[r.dev]}
    /\ \A q \in host.routes : q.dst = r.dst => q.metric # r.metric

(* The routes a "route del" can mean: what the command leaves out matches   *)
(* anything. *)
Meant(r, host) ==
    {q \in host.routes : /\ q.dst = r.dst
                         /\ r.via \in {None, q.via}
                         /\ r.dev \in {None, q.dev}
                         /\ r.metric \in {0, q.metric}}

Without(host, dev) == {r \in host.routes : r.dev # dev}

Accepts(c, host) ==
    CASE c.op = "tuntap add" -> ~host.tun
      [] c.op = "link delete" -> host.tun
      [] c.op = "addr add" -> host.tun /\ ~host.addr
      [] c.op = "addr del" -> host.addr
      [] c.op \in {"link up", "link down"} -> host.tun
      [] c.op = "route add" -> AcceptsRoute(c.arg, host)
      [] c.op = "route del" -> Meant(c.arg, host) # {}
      [] c.op = "sysctl" -> TRUE

Effect(c, host) ==
    CASE c.op = "tuntap add" -> [host EXCEPT !.tun = TRUE]
      [] c.op = "link delete" ->
            [host EXCEPT !.tun = FALSE, !.addr = FALSE, !.up = FALSE,
                         !.routes = Without(host, Tun)]
      [] c.op = "addr add" -> [host EXCEPT !.addr = TRUE]
      [] c.op = "addr del" -> [host EXCEPT !.addr = FALSE]
      [] c.op = "link up" -> [host EXCEPT !.up = TRUE]
      [] c.op = "link down" -> [host EXCEPT !.up = FALSE, !.routes = Without(host, Tun)]
      [] c.op = "route add" -> [host EXCEPT !.routes = @ \cup {c.arg}]
      [] c.op = "route del" -> [host EXCEPT !.routes = @ \ {Lowest(Meant(c.arg, host))}]
      [] c.op = "sysctl" -> [host EXCEPT !.rp[c.arg[1]] = c.arg[2]]

-----------------------------------------------------------------------------
(* network.Detect and parseLinuxRoutes: every line of a default route is    *)
(* kept, in the order of "ip route"; the interface and the gateway are      *)
(* those of the lowest metric with a device.                               *)

WithDevice(host) == {r \in Defaults(host) : ~Multipath(r)}

DetectSucceeds(host) == WithDevice(host) # {}

(* What "ip route" lists: every route once, by ascending metric. *)
Listings(routes) ==
    {l \in [1..Cardinality(routes) -> routes] :
        /\ routes = {l[i] : i \in DOMAIN l}
        /\ \A i, j \in DOMAIN l : i < j => l[i].metric < l[j].metric}

(* Mutant: the highest metric wins. *)
Detected_HighestMetric(host, listing) ==
    LET best == CHOOSE r \in WithDevice(host) : \A q \in WithDevice(host) : r.metric >= q.metric
    IN  [interface |-> best.dev, gateway |-> best.via, defaultRoutes |-> listing]

Detected(host, listing) ==
    [interface |-> Lowest(WithDevice(host)).dev,
     gateway |-> Lowest(WithDevice(host)).via,
     defaultRoutes |-> listing]

(* fallbackNetwork: the interface comes from --interface then. *)
Fallback == [interface |-> None, gateway |-> None, defaultRoutes |-> <<>>]

(* --interface and --gateway replace what was detected. *)
Overridden(info, options) ==
    [info EXCEPT
        !.interface = IF options.interface = None THEN @ ELSE options.interface,
        !.gateway = IF options.gateway = None THEN @ ELSE options.gateway]

(* network.DetectRoute: the interfaces "ip route get" can answer with. *)
RoutesToProxy(host) ==
    IF \E r \in host.routes : r.dst = "proxy"
    THEN {r \in host.routes : r.dst = "proxy"}
    ELSE IF Defaults(host) = {} THEN {} ELSE {Lowest(Defaults(host))}

ProxyInterfaces(host) == UNION {Devices(r) : r \in RoutesToProxy(host)}

-----------------------------------------------------------------------------
(* linuxPlan *)

PlanStep(do, undo) == [do |-> do, undo |-> undo]

TunRoute == Route("default", "198.18.0.1", Tun, 1)

TunDevice == PlanStep(Command("tuntap add", Tun), Command("link delete", Tun))
TunAddress == PlanStep(Command("addr add", Tun), Command("addr del", Tun))
TunLink == PlanStep(Command("link up", Tun), Command("link down", Tun))

Added(r) == PlanStep(Command("route add", r), Command("route del", r))
Deleted(r) == PlanStep(Command("route del", r), Command("route add", r))
Zeroed(key, value) ==
    PlanStep(Command("sysctl", <<key, 0>>), Command("sysctl", <<key, value>>))

Primary(info) == Route("default", info.gateway, info.interface, 10)

DeletedDefaults(info) ==
    [i \in DOMAIN info.defaultRoutes |-> Deleted(info.defaultRoutes[i])]

(* Mutants: the two rp_filter values are restored to each other's keys; the *)
(* link is deleted where it should go down; the default routes stay.       *)
LinuxPlan_SwapsValues(info, rpAll, rpInterface) ==
    <<TunDevice, TunAddress, TunLink>> \o DeletedDefaults(info)
    \o <<Added(TunRoute), Added(Primary(info)),
         Zeroed("all", rpInterface), Zeroed(info.interface, rpAll)>>

LinuxPlan_DeletesLinkTwice(info, rpAll, rpInterface) ==
    <<TunDevice, TunAddress, PlanStep(TunLink.do, TunDevice.undo)>> \o DeletedDefaults(info)
    \o <<Added(TunRoute), Added(Primary(info)),
         Zeroed("all", rpAll), Zeroed(info.interface, rpInterface)>>

LinuxPlan_KeepsDefaults(info, rpAll, rpInterface) ==
    <<TunDevice, TunAddress, TunLink>>
    \o <<Added(TunRoute), Added(Primary(info)),
         Zeroed("all", rpAll), Zeroed(info.interface, rpInterface)>>

LinuxPlan(info, rpAll, rpInterface) ==
    <<TunDevice, TunAddress, TunLink>> \o DeletedDefaults(info)
    \o <<Added(TunRoute), Added(Primary(info)),
         Zeroed("all", rpAll), Zeroed(info.interface, rpInterface)>>

=============================================================================

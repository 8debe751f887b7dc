--------------------------- MODULE MCLinuxSessions ---------------------------
(* Hosts with two interfaces, any set of default routes through them, and   *)
(* the SOCKS proxy either on a network of its own or behind the default     *)
(* route.                                                                  *)
EXTENDS LinuxSessions

TwoInterfaces == {"eth0", "wlan0"}

Gateways == [i \in TwoInterfaces |-> IF i = "eth0" THEN "10.0.0.1" ELSE "10.1.0.1"]

Through(i, metric) == Route("default", Gateways[i], i, metric)

(* A metric of 0 is what a hand-made route has, 100 and 600 what network    *)
(* managers give; 10 is that of the plan itself.                           *)
DeviceRoutes ==
    {Through("eth0", 0), Through("eth0", 10), Through("eth0", 100), Through("wlan0", 600)}

ProxyNetwork == Route("proxy", None, "wlan0", 0)

MultipathRoute == Route("default", None, None, 0)

Host(routes, all) ==
    [tun |-> FALSE, addr |-> FALSE, up |-> FALSE, routes |-> routes,
     rp |-> [k \in TwoInterfaces \cup {"all"} |-> IF k = "all" THEN all ELSE 2]]

PlainHosts ==
    {Host(routes, all) : routes \in {d \cup p : d \in SUBSET DeviceRoutes,
                                                p \in {{}, {ProxyNetwork}}},
                         all \in {0, 1}}

(* --interface and --gateway name an interface of the host. *)
Overrides ==
    {[interface |-> i, gateway |-> g] : i \in TwoInterfaces \cup {None},
                                        g \in {None, "10.0.0.1", "10.1.0.1"}}

NoOptions == [interface |-> None, gateway |-> None]

CONSTANTS s1, s2

(* One run on every host with every option; two runs, one of which may be   *)
(* killed, on a usual host and on one with a multipath route.              *)
World(h, runs, given, crashes) ==
    [host |-> h, runs |-> runs, options |-> given, crashes |-> crashes]

AloneOrTwo ==
    {World(h, {s1}, Overrides, 0) : h \in PlainHosts}
    \cup {World(Host(routes, 1), {s1, s2}, {NoOptions}, 1) :
            routes \in {{Through("eth0", 100)}, {MultipathRoute, Through("wlan0", 600)}}}

=============================================================================

-------------------------- MODULE LinuxSessionsProofs --------------------------
(* For any host, any interfaces and default routes, and any number of runs:  *)
(* creating tun0 keeps runs apart, and a run that nobody interferes with     *)
(* restores the host exactly from wherever its plan stopped.                *)
EXTENDS LinuxSessions, FiniteSetTheorems, WellFoundedInduction, TLAPS

-----------------------------------------------------------------------------
(* A set of routes has one of the lowest metric. *)

LEMMA SmallestElement ==
    ASSUME NEW T \in SUBSET Nat, T # {}
    PROVE  \E x \in T : \A y \in T : x <= y
<1> DEFINE R == OpToRel(<, Nat)
<1>1. IsWellFoundedOn(R, Nat)
  BY NatLessThanWellFounded
<1>2. \A u, v \in Nat : u < v => <<u, v>> \in R
  BY DEF OpToRel
<1> HIDE DEF R
<1>3. PICK x \in T : \A y \in T : ~ (<<y, x>> \in R)
  BY <1>1, WFMin
<1>4. \A y \in T : ~ (y < x)
  BY <1>2, <1>3
<1> QED
  BY <1>4

LEMMA LowestExists ==
    ASSUME NEW routes, routes # {}, \A r \in routes : r.metric \in Nat
    PROVE  /\ Lowest(routes) \in routes
           /\ \A q \in routes : Lowest(routes).metric <= q.metric
<1> DEFINE T == {r.metric : r \in routes}
<1>1. PICK x \in T : \A y \in T : x <= y
  <2>1. T \in SUBSET Nat /\ T # {}
    OBVIOUS
  <2> HIDE DEF T
  <2> QED
    BY <2>1, SmallestElement
<1>2. \E r \in routes : \A q \in routes : r.metric <= q.metric
  BY <1>1
<1> QED
  BY <1>2 DEF Lowest

-----------------------------------------------------------------------------
(* The Linux plan, step by step. *)

StepsAre(p, i, k, all, value) ==
    /\ Len(p) = k + 7
    /\ p[1] = TunDevice /\ p[2] = TunAddress /\ p[3] = TunLink
    /\ \A j \in 1..k : p[j + 3] = Deleted(i.defaultRoutes[j])
    /\ p[k + 4] = Added(TunRoute) /\ p[k + 5] = Added(Primary(i))
    /\ p[k + 6] = Zeroed("all", all) /\ p[k + 7] = Zeroed(i.interface, value)

LEMMA PlanSteps ==
    ASSUME NEW i, NEW all, NEW value, NEW k \in Nat,
           i.defaultRoutes = [j \in 1..k |-> i.defaultRoutes[j]]
    PROVE  StepsAre(LinuxPlan(i, all, value), i, k, all, value)
<1> DEFINE first == <<TunDevice, TunAddress, TunLink>>
           middle == DeletedDefaults(i)
           last == <<Added(TunRoute), Added(Primary(i)),
                     Zeroed("all", all), Zeroed(i.interface, value)>>
           S == {TunDevice, TunAddress, TunLink} \cup {Deleted(i.defaultRoutes[j]) : j \in 1..k}
                \cup {Added(TunRoute), Added(Primary(i)),
                      Zeroed("all", all), Zeroed(i.interface, value)}
<1>9. PICK p : p = LinuxPlan(i, all, value)
  OBVIOUS
<1>0. PICK three \in Nat, four \in Nat : three = 3 /\ four = 4
  OBVIOUS
<1>1. /\ first \in Seq(S) /\ Len(first) = 3
      /\ first[1] = TunDevice /\ first[2] = TunAddress /\ first[3] = TunLink
  OBVIOUS
<1>2. /\ middle \in Seq(S) /\ Len(middle) = k
      /\ \A j \in 1..k : middle[j] = Deleted(i.defaultRoutes[j])
  <2>1. DOMAIN i.defaultRoutes = 1..k
    OBVIOUS
  <2>2. middle = [j \in 1..k |-> Deleted(i.defaultRoutes[j])]
    BY <2>1 DEF DeletedDefaults
  <2>3. middle \in [1..k -> S]
    BY <2>2
  <2> QED
    BY <2>2, <2>3
<1>3. /\ last \in Seq(S) /\ Len(last) = 4
      /\ last[1] = Added(TunRoute) /\ last[2] = Added(Primary(i))
      /\ last[3] = Zeroed("all", all) /\ last[4] = Zeroed(i.interface, value)
  OBVIOUS
<1> DEFINE start == first \o middle
<1>4. p = start \o last
  BY <1>9 DEF LinuxPlan
<1> HIDE DEF first, middle, last, S, start
<1>5. Len(first) = three /\ Len(last) = four
  BY <1>0, <1>1, <1>3
<1>a. PICK l \in Nat : l = three + k
  OBVIOUS
<1>b. /\ start \in Seq(S) /\ Len(start) = l
      /\ \A j \in 1..three : start[j] = first[j]
      /\ \A j \in 1..k : start[three + j] = middle[j]
  <2>1. first \in Seq(S) /\ middle \in Seq(S) /\ Len(middle) = k
    BY <1>1, <1>2
  <2>2. /\ first \o middle \in Seq(S) /\ Len(first \o middle) = three + k
        /\ \A j \in 1..three : (first \o middle)[j] = first[j]
        /\ \A j \in 1..k : (first \o middle)[three + j] = middle[j]
    BY <1>5, <2>1, SMTT(60)
  <2> QED
    BY <1>a, <2>2 DEF start
<1>c. /\ Len(p) = l + four
      /\ \A j \in 1..l : p[j] = start[j]
      /\ \A j \in 1..four : p[l + j] = last[j]
  <2>1. last \in Seq(S) /\ start \in Seq(S) /\ Len(start) = l /\ Len(last) = four
    BY <1>3, <1>5, <1>b
  <2>2. /\ Len(start \o last) = l + four
        /\ \A j \in 1..l : (start \o last)[j] = start[j]
        /\ \A j \in 1..four : (start \o last)[l + j] = last[j]
    BY <2>1, SMTT(60)
  <2> QED
    BY <1>4, <2>2
<1>6. /\ Len(p) = three + k + four
      /\ \A j \in 1..three : p[j] = first[j]
      /\ \A j \in 1..k : p[three + j] = middle[j]
      /\ \A j \in 1..four : p[three + k + j] = last[j]
  <2>1. \A j \in 1..three : j \in 1..l
    BY <1>a
  <2>2. \A j \in 1..k : three + j \in 1..l
    BY <1>a
  <2> QED
    BY <1>a, <1>b, <1>c, <2>1, <2>2
<1>7. /\ three + k + four = k + 7 /\ 1..three = 1..3 /\ 1..four = 1..4
      /\ \A j \in 1..k : three + j = j + 3
      /\ three + k + 1 = k + 4 /\ three + k + 2 = k + 5
      /\ three + k + 3 = k + 6 /\ three + k + 4 = k + 7
  BY <1>0
<1>8. StepsAre(p, i, k, all, value)
  BY <1>1, <1>2, <1>3, <1>6, <1>7 DEF StepsAre
<1> QED
  BY <1>8, <1>9

-----------------------------------------------------------------------------
(* What every run keeps, whoever else is on the host.                       *)

Places == {"detect", "route", "allRP", "plan", "apply", "up", "rollback", "done", "killed"}

IsRoute(r) ==
    /\ r = Route(r.dst, r.via, r.dev, r.metric)
    /\ r.dst \in {"default", "proxy"} /\ r.metric \in Nat
    /\ r.dev \in Interfaces \cup {Tun, None}

IsHost(h) ==
    /\ h = [tun |-> h.tun, addr |-> h.addr, up |-> h.up, routes |-> h.routes, rp |-> h.rp]
    /\ h.tun \in BOOLEAN /\ h.addr \in BOOLEAN /\ h.up \in BOOLEAN
    /\ IsFiniteSet(h.routes)
    /\ \A r \in h.routes : IsRoute(r)

IsInfo(i) ==
    /\ i = [interface |-> i.interface, gateway |-> i.gateway,
            defaultRoutes |-> i.defaultRoutes]
    /\ Len(i.defaultRoutes) \in Nat
    /\ i.defaultRoutes = [j \in 1..Len(i.defaultRoutes) |-> i.defaultRoutes[j]]
    /\ \A j \in 1..Len(i.defaultRoutes) : IsRoute(i.defaultRoutes[j])

IsPlan(p, i) ==
    LET k == Len(i.defaultRoutes)
    IN  /\ i.interface \in Interfaces \cup {Tun}
        /\ p = LinuxPlan(i, p[k + 6].undo.arg[2], p[k + 7].undo.arg[2])

Functions ==
    /\ pc \in [Sessions -> Places]
    /\ info = [s \in Sessions |-> info[s]]
    /\ bound = [s \in Sessions |-> bound[s]]
    /\ allRP = [s \in Sessions |-> allRP[s]]
    /\ plan = [s \in Sessions |-> plan[s]]
    /\ applied = [s \in Sessions |-> applied[s]]
    /\ refused = [s \in Sessions |-> refused[s]]

(* A run holds tun0 from the moment its first command is accepted.          *)
RunOk(s) ==
    /\ IsInfo(info[s])
    /\ bound[s] \in Interfaces \cup {Tun, None}
    /\ plan[s] = <<>> \/ IsPlan(plan[s], info[s])
    /\ applied[s] \in 0..Len(plan[s])
    /\ refused[s] \subseteq 1..Len(plan[s])
    /\ pc[s] \in {"detect", "route", "allRP", "plan"} => plan[s] = <<>>
    /\ applied[s] > 0 => host.tun /\ pc[s] \in {"apply", "up", "rollback", "killed"}

OneHolder == \A s, t \in Sessions : applied[s] > 0 /\ applied[t] > 0 => s = t

RunsInv ==
    /\ world \in Worlds
    /\ Functions
    /\ IsHost(host)
    /\ \A s \in Sessions : RunOk(s)
    /\ OneHolder

(* Only the first step of a plan makes tun0, and only its undo deletes it.   *)
Others == {"addr add", "addr del", "link up", "link down", "route add", "route del", "sysctl"}

IsCommand(c) ==
    /\ c.op \in Others \cup {"tuntap add", "link delete"}
    /\ c.op = "route add" => IsRoute(c.arg)

IsLater(step) ==
    /\ IsCommand(step.do) /\ IsCommand(step.undo)
    /\ step.do.op \in Others /\ step.undo.op \in Others

LEMMA StepOps ==
    /\ IsCommand(TunDevice.do) /\ IsCommand(TunDevice.undo)
    /\ TunDevice.do.op = "tuntap add" /\ TunDevice.undo.op = "link delete"
    /\ IsLater(TunAddress) /\ IsLater(TunLink)
    /\ \A r : IsRoute(r) => IsLater(Added(r)) /\ IsLater(Deleted(r))
    /\ \A key, value : IsLater(Zeroed(key, value))
<1>1. ASSUME NEW op \in Others \cup {"tuntap add", "link delete"}, NEW arg,
             op = "route add" => IsRoute(arg)
      PROVE  IsCommand(Command(op, arg))
  BY <1>1 DEF IsCommand, Command
<1>2. ASSUME NEW op \in Others, NEW back \in Others, NEW arg, NEW given,
             op = "route add" => IsRoute(arg), back = "route add" => IsRoute(given)
      PROVE  IsLater(PlanStep(Command(op, arg), Command(back, given)))
  <2>1. PICK c : c = Command(op, arg)
    OBVIOUS
  <2>2. PICK b : b = Command(back, given)
    OBVIOUS
  <2>3. c.op \in Others /\ b.op \in Others
    BY <2>1, <2>2 DEF Command
  <2>4. IsCommand(c) /\ IsCommand(b)
    BY <1>1, <1>2, <2>1, <2>2
  <2>5. IsLater(PlanStep(c, b))
    BY <2>3, <2>4 DEF IsLater, PlanStep
  <2> QED
    BY <2>1, <2>2, <2>5
<1>3. /\ IsCommand(TunDevice.do) /\ IsCommand(TunDevice.undo)
      /\ TunDevice.do.op = "tuntap add" /\ TunDevice.undo.op = "link delete"
  <2>1. /\ TunDevice.do = Command("tuntap add", Tun)
        /\ TunDevice.undo = Command("link delete", Tun)
    BY DEF TunDevice, PlanStep
  <2>2. Command("tuntap add", Tun).op = "tuntap add" /\ Command("link delete", Tun).op = "link delete"
    BY DEF Command
  <2> QED
    BY <1>1, <2>1, <2>2
<1>4. IsLater(TunAddress) /\ IsLater(TunLink)
  BY <1>2 DEF TunAddress, TunLink, Others
<1>5. ASSUME NEW r, IsRoute(r)
      PROVE  IsLater(Added(r)) /\ IsLater(Deleted(r))
  BY <1>2, <1>5 DEF Added, Deleted, Others
<1>6. ASSUME NEW key, NEW value
      PROVE  IsLater(Zeroed(key, value))
  BY <1>2 DEF Zeroed, Others
<1> QED
  BY <1>3, <1>4, <1>5, <1>6

LEMMA PlanLength ==
    ASSUME NEW i, IsInfo(i), NEW p, IsPlan(p, i)
    PROVE  Len(p) = Len(i.defaultRoutes) + 7 /\ Len(p) \in Nat
<1>1. PICK k \in Nat : k = Len(i.defaultRoutes)
  BY DEF IsInfo
<1>2. i.defaultRoutes = [j \in 1..k |-> i.defaultRoutes[j]]
  BY <1>1 DEF IsInfo
<1>3. PICK all, value : p = LinuxPlan(i, all, value)
  BY DEF IsPlan
<1>4. StepsAre(p, i, k, all, value)
  BY <1>2, <1>3, PlanSteps
<1> QED
  BY <1>1, <1>4 DEF StepsAre

LEMMA PlanOps ==
    ASSUME NEW i, IsInfo(i), NEW p, IsPlan(p, i), NEW n \in 1..Len(p)
    PROVE  /\ Len(p) \in Nat
           /\ IsCommand(p[n].do) /\ IsCommand(p[n].undo)
           /\ n = 1 => p[n].do.op = "tuntap add" /\ p[n].undo.op = "link delete"
           /\ n # 1 => p[n].do.op \in Others /\ p[n].undo.op \in Others
<1>0. PICK k \in Nat : k = Len(i.defaultRoutes)
  BY DEF IsInfo
<1> DEFINE all == p[k + 6].undo.arg[2]
           value == p[k + 7].undo.arg[2]
<1>1. i.defaultRoutes = [j \in 1..k |-> i.defaultRoutes[j]]
  BY <1>0 DEF IsInfo
<1>2. p = LinuxPlan(i, all, value)
  BY <1>0 DEF IsPlan
<1> HIDE DEF all, value
<1>3. StepsAre(p, i, k, all, value)
  BY <1>1, <1>2, PlanSteps
<1>4. /\ Len(p) = k + 7
      /\ p[1] = TunDevice /\ p[2] = TunAddress /\ p[3] = TunLink
      /\ \A j \in 1..k : p[j + 3] = Deleted(i.defaultRoutes[j])
      /\ p[k + 4] = Added(TunRoute) /\ p[k + 5] = Added(Primary(i))
      /\ p[k + 6] = Zeroed("all", all) /\ p[k + 7] = Zeroed(i.interface, value)
  BY <1>3 DEF StepsAre
<1>5. IsRoute(TunRoute) /\ IsRoute(Primary(i))
  BY DEF IsPlan, IsRoute, Route, TunRoute, Primary
<1>6. \A j \in 1..k : IsRoute(i.defaultRoutes[j])
  BY <1>0 DEF IsInfo
<1>7. \/ n = 1 \/ n = 2 \/ n = 3 \/ (\E j \in 1..k : n = j + 3)
      \/ n = k + 4 \/ n = k + 5 \/ n = k + 6 \/ n = k + 7
  <2>1. n \in 1..k + 7
    BY <1>4
  <2>2. n \in 4..k + 3 => n - 3 \in 1..k /\ n = (n - 3) + 3
    BY <1>1
  <2> QED
    BY <1>1, <2>1, <2>2
<1>8. IsLater(p[2]) /\ IsLater(p[3]) /\ IsLater(p[k + 4]) /\ IsLater(p[k + 5])
      /\ IsLater(p[k + 6]) /\ IsLater(p[k + 7])
  BY <1>4, <1>5, StepOps
<1>9. \A j \in 1..k : IsLater(p[j + 3])
  BY <1>4, <1>6, StepOps
<1>10. n # 1 => IsLater(p[n])
  BY <1>7, <1>8, <1>9
<1>11. n = 1 => p[n] = TunDevice
  BY <1>4
<1>12. Len(p) \in Nat
  BY <1>4
<1> QED
  BY <1>10, <1>11, <1>12, StepOps DEF IsLater

LEMMA EffectIsHost ==
    ASSUME NEW h, IsHost(h), NEW c, IsCommand(c)
    PROVE  /\ IsHost(Effect(c, h))
           /\ c.op \in Others => Effect(c, h).tun = h.tun
           /\ c.op = "tuntap add" => Effect(c, h).tun
<1>1. CASE c.op \in {"tuntap add", "addr add", "addr del", "link up"}
  BY <1>1 DEF Effect, IsHost, Others
<1>2. CASE c.op \in {"link delete", "link down"}
  <2>1. Without(h, Tun) \in SUBSET h.routes
    BY DEF Without
  <2>2. IsFiniteSet(Without(h, Tun))
    BY <2>1, FS_Subset DEF IsHost
  <2> QED
    BY <1>2, <2>1, <2>2 DEF Effect, IsHost, Others
<1>3. CASE c.op = "route add"
  <2>1. IsFiniteSet(h.routes \cup {c.arg})
    BY FS_AddElement DEF IsHost
  <2> QED
    BY <1>3, <2>1 DEF Effect, IsHost, Others, IsCommand
<1>4. CASE c.op = "route del"
  <2>1. IsFiniteSet(h.routes \ {Lowest(Meant(c.arg, h))})
    BY FS_RemoveElement DEF IsHost
  <2> QED
    BY <1>4, <2>1 DEF Effect, IsHost, Others
<1>5. CASE c.op = "sysctl"
  BY <1>5 DEF Effect, IsHost, Others
<1> QED
  BY <1>1, <1>2, <1>3, <1>4, <1>5 DEF IsCommand, Others

-----------------------------------------------------------------------------
(* A step of run s: the other runs keep what they have, and if one of them  *)
(* holds tun0, s does not and leaves it there.                             *)

Same(t) ==
    /\ pc'[t] = pc[t] /\ info'[t] = info[t] /\ bound'[t] = bound[t] /\ plan'[t] = plan[t]
    /\ applied'[t] = applied[t] /\ refused'[t] = refused[t]

LEMMA StepOfOneRun ==
    ASSUME RunsInv, NEW s \in Sessions, world' = world,
           Functions', IsHost(host)', RunOk(s)',
           \A t \in Sessions \ {s} : Same(t),
           \A t \in Sessions \ {s} : applied[t] > 0 => applied'[s] = 0 /\ host'.tun
    PROVE  RunsInv'
<1>1. Sessions' = Sessions
  BY DEF Sessions
<1>2. \A t \in Sessions : RunOk(t)'
  <2> SUFFICES ASSUME NEW t \in Sessions, t # s PROVE RunOk(t)'
    OBVIOUS
  <2>1. RunOk(t)
    BY DEF RunsInv
  <2>2. Same(t) /\ (applied[t] > 0 => host'.tun)
    OBVIOUS
  <2> QED
    BY <2>1, <2>2 DEF RunOk, Same
<1>3. OneHolder'
  <2> SUFFICES ASSUME NEW t \in Sessions, NEW u \in Sessions,
                      applied'[t] > 0, applied'[u] > 0
               PROVE  t = u
    BY <1>1 DEF OneHolder
  <2>1. \A v \in Sessions \ {s} : applied'[v] = applied[v]
    BY DEF Same
  <2>2. CASE t # s /\ u # s
    BY <2>1, <2>2 DEF RunsInv, OneHolder
  <2>3. CASE t = s /\ u # s
    BY <2>1, <2>3
  <2>4. CASE t # s /\ u = s
    BY <2>1, <2>4
  <2> QED
    BY <2>2, <2>3, <2>4
<1>4. world' \in Worlds
  BY DEF RunsInv
<1> QED
  BY <1>1, <1>2, <1>3, <1>4 DEF RunsInv

LEMMA InitRuns ==
    ASSUME Init PROVE RunsInv
<1>1. world \in Worlds /\ host \in Hosts
  BY WorldsAssumption DEF Init
<1>2. IsHost(host)
  <2>1. \A r \in KernelRoutes : IsRoute(r)
    BY DEF KernelRoutes, IsRoute, Route, Multipath
  <2> QED
    BY <1>1, <2>1 DEF Hosts, IsHost
<1>3. IsInfo(Fallback)
  BY DEF IsInfo, Fallback
<1>4. Functions
  BY DEF Init, Functions, Places
<1>5. \A s \in Sessions : RunOk(s)
  BY <1>3 DEF Init, RunOk
<1>6. OneHolder
  BY DEF Init, OneHolder
<1> QED
  BY <1>1, <1>2, <1>4, <1>5, <1>6 DEF RunsInv

(* What network.Detect returns, with the options of the command line.       *)
LEMMA DetectedIsInfo ==
    ASSUME NEW h, IsHost(h), NEW given, NEW network,
           network \in {Detected(h, l) : l \in Listings(Defaults(h))} \cup {Fallback}
    PROVE  IsInfo(Overridden(network, given))
<1>1. IsInfo(network)
  <2>1. CASE network = Fallback
    BY <2>1 DEF IsInfo, Fallback
  <2>2. CASE network # Fallback
    <3>1. PICK l \in Listings(Defaults(h)) : network = Detected(h, l)
      BY <2>2
    <3>2. Defaults(h) \in SUBSET h.routes
      BY DEF Defaults
    <3>3. Cardinality(Defaults(h)) \in Nat /\ \A r \in Defaults(h) : IsRoute(r)
      BY <3>2, FS_Subset, FS_CardinalityType DEF IsHost
    <3>4. l \in [1..Cardinality(Defaults(h)) -> Defaults(h)]
      BY DEF Listings
    <3>5. /\ Len(l) = Cardinality(Defaults(h))
          /\ l = [j \in 1..Len(l) |-> l[j]]
          /\ \A j \in 1..Len(l) : IsRoute(l[j])
      BY <3>3, <3>4
    <3> QED
      BY <3>1, <3>3, <3>5 DEF Detected, IsInfo
  <2> QED
    BY <2>1, <2>2
<1>2. PICK o : o = Overridden(network, given)
  OBVIOUS
<1>3. PICK i, g : o = [interface |-> i, gateway |-> g, defaultRoutes |-> network.defaultRoutes]
  BY <1>1, <1>2 DEF IsInfo, Overridden
<1> QED
  BY <1>1, <1>2, <1>3 DEF IsInfo

(* The interface of the route to the proxy, if there is one.                *)
LEMMA ProxyInterface ==
    ASSUME IsHost(host), RoutesToProxy(host) # {}, NEW i \in ProxyInterfaces(host)
    PROVE  i \in Interfaces \cup {Tun, None}
<1>1. RoutesToProxy(host) \in SUBSET host.routes
  <2>1. CASE \E r \in host.routes : r.dst = "proxy"
    BY <2>1 DEF RoutesToProxy
  <2>2. CASE (~ \E r \in host.routes : r.dst = "proxy") /\ Defaults(host) # {}
    <3>1. Defaults(host) \in SUBSET host.routes /\ \A r \in Defaults(host) : r.metric \in Nat
      BY DEF Defaults, IsHost, IsRoute
    <3>2. Lowest(Defaults(host)) \in Defaults(host)
      BY <2>2, <3>1, LowestExists
    <3> QED
      BY <2>2, <3>1, <3>2 DEF RoutesToProxy
  <2>3. CASE Defaults(host) = {}
    BY <2>3 DEF RoutesToProxy
  <2> QED
    BY <2>1, <2>2, <2>3
<1>2. PICK r \in RoutesToProxy(host) : i \in Devices(r)
  BY DEF ProxyInterfaces
<1> QED
  BY <1>1, <1>2 DEF Devices, IsHost, IsRoute

(* What a run may do before it has a plan. *)
LEMMA InspectionKeepsRuns ==
    ASSUME RunsInv, NEW s \in Sessions,
           Detect(s) \/ DetectRoute(s) \/ ReadAllRP(s) \/ BuildPlan(s)
    PROVE  RunsInv'
<1> USE DEF RunsInv
<1>1. RunOk(s) /\ Functions /\ IsHost(host)
  OBVIOUS
<1>2. plan[s] = <<>> /\ applied[s] = 0
  BY <1>1 DEF RunOk, Detect, DetectRoute, ReadAllRP, BuildPlan, Goto
<1>3. world' = world /\ IsHost(host)' /\ host' = host
  BY <1>1 DEF Detect, DetectRoute, ReadAllRP, BuildPlan
<1>4. Functions'
  BY <1>1 DEF Functions, Places, Sessions, Detect, DetectRoute, ReadAllRP, BuildPlan, Goto
<1>5. \A t \in Sessions \ {s} : Same(t)
  BY <1>1 DEF Functions, Same, Detect, DetectRoute, ReadAllRP, BuildPlan, Goto
<1>6. applied' = applied /\ refused' = refused
  BY DEF Detect, DetectRoute, ReadAllRP, BuildPlan
<1>7. RunOk(s)'
  <2>1. CASE Detect(s)
    <3>1. IsInfo(info'[s])
      <4>1. CASE info' = info
        BY <1>1, <4>1 DEF RunOk
      <4>2. CASE info' # info
        <5>1. PICK network \in IF DetectSucceeds(host)
                               THEN {Detected(host, l) : l \in Listings(Defaults(host))}
                               ELSE {Fallback} :
                  info' = [info EXCEPT ![s] = Overridden(network, options[s])]
          BY <2>1, <4>2 DEF Detect
        <5>2. IsInfo(Overridden(network, options[s]))
          BY <1>1, DetectedIsInfo
        <5> QED
          BY <1>1, <5>1, <5>2 DEF Functions
      <4> QED
        BY <4>1, <4>2
    <3> QED
      BY <1>1, <1>2, <1>6, <2>1, <3>1 DEF RunOk, Detect
  <2>2. CASE DetectRoute(s)
    <3>1. bound'[s] \in Interfaces \cup {Tun, None}
      BY <1>1, <2>2, ProxyInterface DEF DetectRoute, Functions, RunOk
    <3> QED
      BY <1>1, <1>2, <1>6, <2>2, <3>1 DEF RunOk, DetectRoute
  <2>3. CASE ReadAllRP(s)
    BY <1>1, <1>2, <1>6, <2>3 DEF RunOk, ReadAllRP
  <2>4. CASE BuildPlan(s)
    <3>1. CASE plan' = plan
      BY <1>1, <1>2, <1>6, <2>4, <3>1 DEF RunOk, BuildPlan
    <3>2. CASE plan' # plan
      <4>1. PICK value :
              /\ info[s].interface \in Interfaces \cup {Tun}
              /\ plan' = [plan EXCEPT ![s] = LinuxPlan(info[s], allRP[s], value)]
              /\ pc'[s] = "apply"
        BY <1>1, <2>4, <3>2 DEF BuildPlan, Goto, Functions
      <4>2. plan'[s] = LinuxPlan(info[s], allRP[s], value)
        BY <1>1, <4>1 DEF Functions
      <4>3. PICK k \in Nat : /\ k = Len(info[s].defaultRoutes)
                             /\ info[s].defaultRoutes = [j \in 1..k |-> info[s].defaultRoutes[j]]
        BY <1>1 DEF RunOk, IsInfo
      <4>4. /\ Len(plan'[s]) = k + 7
            /\ plan'[s][k + 6] = Zeroed("all", allRP[s])
            /\ plan'[s][k + 7] = Zeroed(info[s].interface, value)
        <5>1. StepsAre(plan'[s], info[s], k, allRP[s], value)
          BY <4>2, <4>3, PlanSteps
        <5> QED
          BY <5>1 DEF StepsAre
      <4>5. /\ plan'[s][k + 6].undo.arg[2] = allRP[s]
            /\ plan'[s][k + 7].undo.arg[2] = value
        BY <4>4 DEF Zeroed, PlanStep, Command
      <4>6. IsPlan(plan'[s], info[s])
        BY <4>1, <4>2, <4>3, <4>5 DEF IsPlan
      <4> QED
        BY <1>1, <1>2, <1>6, <2>4, <4>1, <4>3, <4>4, <4>6 DEF RunOk, BuildPlan
    <3> QED
      BY <3>1, <3>2
  <2> QED
    BY <2>1, <2>2, <2>3, <2>4
<1>8. \A t \in Sessions \ {s} : applied[t] > 0 => applied'[s] = 0 /\ host'.tun
  BY <1>2, <1>3, <1>6 DEF RunOk
<1> QED
  BY <1>3, <1>4, <1>5, <1>7, <1>8, StepOfOneRun

LEMMA ApplyKeepsRuns ==
    ASSUME RunsInv, NEW s \in Sessions, ApplyStep(s)
    PROVE  RunsInv'
<1> USE DEF RunsInv
<1> DEFINE n == applied[s] + 1
           c == plan[s][n].do
<1>1. RunOk(s) /\ Functions /\ IsHost(host)
  OBVIOUS
<1>2. /\ pc[s] = "apply" /\ applied[s] < Len(plan[s]) /\ Accepts(c, host)
      /\ host' = Effect(c, host) /\ applied' = [applied EXCEPT ![s] = n]
      /\ UNCHANGED <<world, pc, info, bound, allRP, plan, refused>>
  BY DEF ApplyStep
<1>3. applied[s] \in Nat /\ n \in 1..Len(plan[s]) /\ applied'[s] = n
  <2>1. Len(plan[s]) \in Nat
    <3>1. CASE plan[s] = <<>>
      BY <3>1
    <3>2. CASE plan[s] # <<>>
      BY <1>1, <3>2, PlanLength DEF RunOk
    <3> QED
      BY <3>1, <3>2
  <2> QED
    BY <1>1, <1>2, <2>1 DEF RunOk, Functions
<1>4. /\ IsInfo(info[s]) /\ IsPlan(plan[s], info[s])
  BY <1>1, <1>2, <1>3 DEF RunOk
<1>5. /\ IsCommand(c)
      /\ n = 1 => c.op = "tuntap add"
      /\ n # 1 => c.op \in Others
  <2>1. PICK p, i, m : p = plan[s] /\ i = info[s] /\ m = n
    OBVIOUS
  <2>2. IsInfo(i) /\ IsPlan(p, i) /\ m \in 1..Len(p)
    BY <1>3, <1>4, <2>1
  <2>3. /\ IsCommand(p[m].do)
        /\ m = 1 => p[m].do.op = "tuntap add"
        /\ m # 1 => p[m].do.op \in Others
    BY <2>2, PlanOps
  <2> QED
    BY <2>1, <2>3
<1> HIDE DEF c
<1>6. IsHost(host') /\ host'.tun
  <2>1. IsHost(Effect(c, host)) /\ (c.op \in Others => Effect(c, host).tun = host.tun)
        /\ (c.op = "tuntap add" => Effect(c, host).tun)
    BY <1>1, <1>5, EffectIsHost
  <2>2. applied[s] > 0 => host.tun
    BY <1>1 DEF RunOk
  <2>3. n = 1 \/ applied[s] > 0
    BY <1>3
  <2> QED
    BY <1>2, <1>5, <2>1, <2>2, <2>3
<1>7. Functions'
  BY <1>1, <1>2 DEF Functions, Places, Sessions
<1>8. \A t \in Sessions \ {s} : Same(t)
  BY <1>1, <1>2 DEF Functions, Same
<1>9. RunOk(s)'
  BY <1>1, <1>2, <1>3, <1>6 DEF RunOk
<1>10. \A t \in Sessions \ {s} : ~(applied[t] > 0)
  <2> SUFFICES ASSUME NEW t \in Sessions, t # s, applied[t] > 0 PROVE FALSE
    OBVIOUS
  <2>1. host.tun
    BY DEF RunOk
  <2>2. applied[s] = 0
    BY <1>3 DEF OneHolder
  <2>4. n = 1
    BY <2>2
  <2>3. c.op = "tuntap add"
    BY <1>5, <2>4
  <2> QED
    BY <1>2, <2>1, <2>3 DEF Accepts
<1> QED
  BY <1>2, <1>6, <1>7, <1>8, <1>9, <1>10, StepOfOneRun

LEMMA UndoKeepsRuns ==
    ASSUME RunsInv, NEW s \in Sessions, Undo(s)
    PROVE  RunsInv'
<1> USE DEF RunsInv
<1> DEFINE n == applied[s]
           c == plan[s][n].undo
<1>1. RunOk(s) /\ Functions /\ IsHost(host)
  OBVIOUS
<1>2. /\ pc[s] = "rollback" /\ n > 0 /\ applied' = [applied EXCEPT ![s] = n - 1]
      /\ \/ host' = Effect(c, host) /\ refused' = refused
         \/ host' = host /\ refused' = [refused EXCEPT ![s] = @ \cup {n}]
      /\ UNCHANGED <<world, pc, info, bound, allRP, plan>>
  BY DEF Undo
<1>3. n \in 1..Len(plan[s]) /\ applied'[s] = n - 1
  BY <1>1, <1>2 DEF RunOk, Functions
<1>4. /\ IsInfo(info[s]) /\ IsPlan(plan[s], info[s])
  BY <1>1, <1>2, <1>3 DEF RunOk
<1>5. /\ IsCommand(c) /\ Len(plan[s]) \in Nat
      /\ n # 1 => c.op \in Others
  BY <1>3, <1>4, PlanOps
<1> HIDE DEF c
<1>6. IsHost(host') /\ (n # 1 => host'.tun)
  <2>1. IsHost(Effect(c, host)) /\ (c.op \in Others => Effect(c, host).tun = host.tun)
    BY <1>1, <1>5, EffectIsHost
  <2>2. host.tun
    BY <1>1, <1>2 DEF RunOk
  <2> QED
    BY <1>1, <1>2, <1>5, <2>1, <2>2
<1>7. Functions'
  BY <1>1, <1>2 DEF Functions, Places, Sessions
<1>8. \A t \in Sessions \ {s} : Same(t)
  BY <1>1, <1>2 DEF Functions, Same
<1>9. RunOk(s)'
  <2>1. refused'[s] \subseteq 1..Len(plan[s])
    BY <1>1, <1>2, <1>3 DEF RunOk, Functions
  <2>2. applied'[s] \in 0..Len(plan[s]) /\ (applied'[s] > 0 => n # 1)
    BY <1>3, <1>5
  <2> QED
    BY <1>1, <1>2, <1>6, <2>1, <2>2 DEF RunOk
<1>10. \A t \in Sessions \ {s} : ~(applied[t] > 0)
  BY <1>2 DEF OneHolder
<1> QED
  BY <1>2, <1>6, <1>7, <1>8, <1>9, <1>10, StepOfOneRun

LEMMA GotoKeepsRuns ==
    ASSUME RunsInv, NEW s \in Sessions,
           GiveUp(s) \/ GoUp(s) \/ Disconnect(s) \/ Return(s) \/ Kill(s)
    PROVE  RunsInv'
<1> USE DEF RunsInv
<1>1. RunOk(s) /\ Functions /\ IsHost(host)
  OBVIOUS
<1>2. /\ pc[s] \in {"apply", "up", "rollback"}
      /\ pc' = [pc EXCEPT ![s] = pc'[s]]
      /\ pc'[s] \in {"up", "rollback", "done", "killed"}
      /\ pc'[s] = "done" => applied[s] = 0
      /\ UNCHANGED <<world, host, info, bound, allRP, plan, applied, refused>>
  BY <1>1 DEF GiveUp, GoUp, Disconnect, Return, Kill, Goto, Functions, local
<1>3. Functions'
  BY <1>1, <1>2 DEF Functions, Places, Sessions
<1>4. \A t \in Sessions \ {s} : Same(t)
  BY <1>1, <1>2 DEF Functions, Same
<1>5. RunOk(s)' /\ IsHost(host)'
  BY <1>1, <1>2 DEF RunOk
<1>6. \A t \in Sessions : applied[t] > 0 => applied[s] = 0 \/ t = s
  BY <1>1 DEF OneHolder, RunOk
<1> QED
  BY <1>2, <1>3, <1>4, <1>5, <1>6, StepOfOneRun DEF RunOk

LEMMA NextKeepsRuns ==
    ASSUME RunsInv, [Next]_vars PROVE RunsInv'
<1>1. CASE UNCHANGED vars
  <2>1. \A s \in Sessions : RunOk(s)'
    BY <1>1 DEF RunsInv, RunOk, vars
  <2>2. Functions' /\ OneHolder' /\ IsHost(host)'
    BY <1>1 DEF RunsInv, Functions, OneHolder, Sessions, vars
  <2> QED
    BY <1>1, <2>1, <2>2 DEF RunsInv, Sessions, vars
<1>2. CASE \E s \in Sessions : Run(s) \/ Kill(s)
  BY <1>2, InspectionKeepsRuns, ApplyKeepsRuns, UndoKeepsRuns, GotoKeepsRuns DEF Run
<1> QED
  BY <1>1, <1>2 DEF Next, Ended

(* session.apply and session.rollback: however many runs share the host, one *)
(* at a time has something applied, and only while tun0 exists.             *)
THEOREM RunsInvAlways ==
    Spec => []RunsInv
  BY InitRuns, NextKeepsRuns, PTL DEF Spec

(* Every variable keeps its type, whatever the host is and whoever runs.    *)
THEOREM TypesAreKept ==
    Spec => []TypeOK
<1>1. ASSUME RunsInv PROVE TypeOK
  <2>1. DOMAIN host = {"tun", "addr", "up", "routes", "rp"}
        /\ {host.tun, host.addr, host.up} \subseteq BOOLEAN
    BY <1>1 DEF RunsInv, IsHost
  <2>2. RoutesOf(host.routes)
    BY <1>1 DEF RunsInv, IsHost, IsRoute, Route, RoutesOf
  <2> QED
    BY <1>1, <2>1, <2>2 DEF RunsInv, RunOk, Functions, Places, TypeOK
<1> QED
  BY <1>1, InitRuns, NextKeepsRuns, PTL DEF Spec

(* session.apply: "ip tuntap add" succeeds for one run at a time, so that    *)
(* only one has changed anything of the host, however many are started.     *)
THEOREM OneRunHoldsTun ==
    Spec => []TunIsALock
<1>1. ASSUME RunsInv PROVE TunIsALock
  <2>1. \A s \in Sessions : RunOk(s) /\ applied[s] \in Int
    BY <1>1 DEF RunsInv, RunOk
  <2>2. \A s, t \in working : s = t
    BY <1>1 DEF RunsInv, OneHolder, working
  <2>3. Cardinality(working) <= 1
    <3>1. CASE working = {}
      BY <3>1, FS_EmptySet
    <3>2. CASE working # {}
      <4>1. PICK s : working = {s}
        BY <2>2, <3>2
      <4> QED
        BY <4>1, FS_Singleton
    <3> QED
      BY <3>1, <3>2
  <2> QED
    BY <2>1, <2>3 DEF RunOk, TunIsALock
<1> QED
  BY <1>1, InitRuns, NextKeepsRuns, PTL DEF Spec

(* README.md, the limits after kill -9: with tun0 left behind, no command of *)
(* a later run is accepted.                                                 *)
THEOREM NothingMovesAfterAKill ==
    Spec => KilledRunFreezesHost
<1>1. ASSUME RunsInv, [Next]_vars, NEW r \in killed, applied[r] > 0
      PROVE  UNCHANGED host
  <2>1. /\ r \in Sessions /\ pc[r] = "killed" /\ host.tun
        /\ \A s \in Sessions : applied[s] > 0 => s = r
    BY <1>1 DEF RunsInv, RunOk, OneHolder, killed
  <2>2. ASSUME NEW s \in Sessions, ApplyStep(s) PROVE FALSE
    <3>1. RunOk(s) /\ pc[s] = "apply" /\ applied[s] < Len(plan[s])
      BY <1>1, <2>2 DEF RunsInv, ApplyStep
    <3>2. applied[s] = 0 /\ plan[s] # <<>>
      BY <2>1, <3>1 DEF RunOk
    <3>3. PICK p, i, n : p = plan[s] /\ i = info[s] /\ n = 1
      OBVIOUS
    <3>4. IsInfo(i) /\ IsPlan(p, i) /\ n \in 1..Len(p)
      BY <3>1, <3>2, <3>3, PlanLength DEF RunOk
    <3>5. n = 1 => p[n].do.op = "tuntap add"
      BY <3>4, PlanOps
    <3>6. PICK c : c = plan[s][applied[s] + 1].do /\ Accepts(c, host)
      BY <2>2 DEF ApplyStep
    <3>7. applied[s] + 1 = 1
      BY <3>2
    <3>8. c.op = "tuntap add"
      BY <3>3, <3>5, <3>6, <3>7
    <3> QED
      BY <2>1, <3>6, <3>8 DEF Accepts
  <2>3. ASSUME NEW s \in Sessions, Undo(s) PROVE FALSE
    BY <2>1, <2>3 DEF Undo
  <2>4. ASSUME NEW s \in Sessions, Run(s) \/ Kill(s) PROVE UNCHANGED host
    BY <2>2, <2>3, <2>4 DEF Run, Detect, DetectRoute, ReadAllRP, BuildPlan, GiveUp, GoUp,
                            Disconnect, Return, Kill
  <2> QED
    BY <1>1, <2>4 DEF Next, Ended, vars
<1>2. RunsInv /\ [Next]_vars =>
        [(\E s \in killed : applied[s] > 0) => UNCHANGED host]_vars
  BY <1>1
<1> QED
  BY <1>2, InitRuns, NextKeepsRuns, PTL DEF Spec, KilledRunFreezesHost

-----------------------------------------------------------------------------
(* A run that nobody interferes with: the host is at every moment what the   *)
(* first n steps of the plan make of the original, and n is applied[s].      *)

PlainHost(h) == h \in Hosts /\ \A r \in h.routes : ~Multipath(r)

Lists(i, h) ==
    LET l == i.defaultRoutes
    IN  /\ {l[j] : j \in 1..Len(l)} = Defaults(h)
        /\ \A a, b \in 1..Len(l) : a < b => l[a].metric < l[b].metric

Gone(i, n) == {i.defaultRoutes[j] : j \in {a \in 1..Len(i.defaultRoutes) : a + 3 <= n}}

RoutesAfter(h, i, n) ==
    LET k == Len(i.defaultRoutes)
    IN  (h.routes \ Gone(i, n)) \cup {r \in {TunRoute} : n >= k + 4}
                                \cup {r \in {Primary(i)} : n >= k + 5}

ZeroAfter(i, n, key) ==
    LET k == Len(i.defaultRoutes)
    IN  (key = "all" /\ n >= k + 6) \/ (key = i.interface /\ n >= k + 7)

RPAfter(h, i, n) ==
    [key \in Interfaces \cup {"all"} |-> IF ZeroAfter(i, n, key) THEN 0 ELSE h.rp[key]]

After(h, i, n) ==
    [tun |-> n >= 1, addr |-> n >= 2, up |-> n >= 3,
     routes |-> RoutesAfter(h, i, n), rp |-> RPAfter(h, i, n)]

AloneRun(s) ==
    /\ host = After(original, info[s], applied[s]) /\ refused[s] = {}
    /\ pc[s] \in {"route", "allRP", "plan", "apply", "up", "rollback"} =>
          /\ Lists(info[s], original)
          /\ options[s].interface = None =>
                /\ WithDevice(original) # {}
                /\ info[s].interface = Lowest(WithDevice(original)).dev
    /\ pc[s] \in {"allRP", "plan", "apply", "up", "rollback"} =>
          /\ RoutesToProxy(original) # {} /\ bound[s] \in ProxyInterfaces(original)
    /\ pc[s] \in {"plan", "apply", "up", "rollback"} => allRP[s] = original.rp["all"]
    /\ pc[s] \in {"apply", "up", "rollback"} =>
          /\ info[s].interface \in Interfaces
          /\ plan[s] = LinuxPlan(info[s], original.rp["all"], original.rp[info[s].interface])
    /\ pc[s] = "up" => applied[s] = Len(plan[s])

AloneInv == alone => \A s \in Sessions : AloneRun(s)

LEMMA PlainRoutes ==
    ASSUME NEW h, PlainHost(h)
    PROVE  /\ IsHost(h) /\ ~h.tun /\ ~h.addr /\ ~h.up
           /\ h.rp = [key \in Interfaces \cup {"all"} |-> h.rp[key]]
           /\ \A r \in h.routes : /\ r.dev \in Interfaces /\ r.dev # None /\ r.dev # Tun
                                  /\ r.via \in {None, GatewayOf[r.dev]} /\ r.metric \in Nat
           /\ \A q, r \in h.routes : q.dst = r.dst /\ q.metric = r.metric => q = r
<1>1. /\ h \in [tun : {FALSE}, addr : {FALSE}, up : {FALSE}, routes : SUBSET KernelRoutes,
                rp : [Interfaces \cup {"all"} -> 0..2]]
      /\ IsFiniteSet(h.routes)
      /\ \A q, r \in h.routes : q.dst = r.dst /\ q.metric = r.metric => q = r
      /\ \A r \in h.routes : ~Multipath(r)
  BY DEF PlainHost, Hosts
<1>2. \A r \in h.routes : r \in KernelRoutes
  BY <1>1
<1>3. \A r \in KernelRoutes : IsRoute(r)
  BY DEF KernelRoutes, IsRoute, Route, Multipath
<1>4. \A r \in h.routes : r.dev \in Interfaces /\ r.via \in {None, GatewayOf[r.dev]}
  BY <1>1, <1>2 DEF KernelRoutes
<1>5. \A r \in h.routes : r.dev # None /\ r.dev # Tun /\ r.metric \in Nat
  BY <1>2, <1>3, <1>4, NamesAssumption DEF IsRoute
<1>6. IsHost(h)
  BY <1>1, <1>2, <1>3 DEF IsHost
<1>7. /\ ~h.tun /\ ~h.addr /\ ~h.up
      /\ h.rp = [key \in Interfaces \cup {"all"} |-> h.rp[key]]
  BY <1>1
<1> QED
  BY <1>1, <1>4, <1>5, <1>6, <1>7

(* A plan for host h, with k default routes to delete.                      *)
Planned(h, i, k) ==
    /\ PlainHost(h) /\ IsInfo(i) /\ Lists(i, h) /\ i.interface \in Interfaces
    /\ k \in Nat /\ k = Len(i.defaultRoutes)

LEMMA ListedRoutes ==
    ASSUME NEW h, NEW i, NEW k, Planned(h, i, k)
    PROVE  /\ k \in Nat
           /\ \A j \in 1..k : i.defaultRoutes[j] \in h.routes /\ i.defaultRoutes[j].dst = "default"
           /\ \A r \in h.routes : r.dst = "default" => \E j \in 1..k : r = i.defaultRoutes[j]
           /\ \A a, b \in 1..k : i.defaultRoutes[a] = i.defaultRoutes[b] => a = b
<1>1. /\ k \in Nat /\ {i.defaultRoutes[j] : j \in 1..k} = Defaults(h)
      /\ \A a, b \in 1..k : a < b => i.defaultRoutes[a].metric < i.defaultRoutes[b].metric
  BY DEF Planned, Lists
<1>2. \A j \in 1..k : i.defaultRoutes[j] \in h.routes /\ i.defaultRoutes[j].dst = "default"
  BY <1>1 DEF Defaults
<1>3. \A r \in h.routes : r.dst = "default" => \E j \in 1..k : r = i.defaultRoutes[j]
  BY <1>1 DEF Defaults
<1>4. \A j \in 1..k : i.defaultRoutes[j].metric \in Nat
  BY <1>2, PlainRoutes DEF Planned
<1>5. ASSUME NEW a \in 1..k, NEW b \in 1..k, i.defaultRoutes[a] = i.defaultRoutes[b]
      PROVE  a = b
  <2>1. CASE a < b
    BY <1>1, <1>4, <1>5, <2>1
  <2>2. CASE b < a
    BY <1>1, <1>4, <1>5, <2>2
  <2> QED
    BY <1>1, <2>1, <2>2
<1> QED
  BY <1>1, <1>2, <1>3, <1>5

(* The routes between two steps of the plan.                                *)
LEMMA OwnRoutes ==
    ASSUME NEW h, NEW i, NEW k, Planned(h, i, k)
    PROVE  /\ TunRoute \notin h.routes /\ TunRoute # Primary(i)
           /\ TunRoute.dst = "default" /\ TunRoute.metric = 1 /\ TunRoute.dev = Tun
           /\ TunRoute.via # None
           /\ Primary(i).dst = "default" /\ Primary(i).metric = 10
           /\ Primary(i).dev = i.interface /\ Primary(i).via = i.gateway
           /\ i.interface # None /\ i.interface # Tun /\ i.interface # "all"
<1>1. i.interface # None /\ i.interface # Tun /\ i.interface # "all"
  BY NamesAssumption DEF Planned
<1>2. \A r \in h.routes : r.dev # Tun
  BY PlainRoutes DEF Planned
<1> QED
  BY <1>1, <1>2 DEF TunRoute, Primary, Route, None

LEMMA RoutesFirst ==
    ASSUME NEW h, NEW i, NEW k, Planned(h, i, k), NEW n \in 0..3
    PROVE  RoutesAfter(h, i, n) = h.routes
<1>1. k \in Nat /\ k = Len(i.defaultRoutes)
  BY DEF Planned
<1>2. Gone(i, n) = {}
  BY <1>1 DEF Gone
<1> QED
  BY <1>1, <1>2 DEF RoutesAfter

LEMMA RoutesMiddle ==
    ASSUME NEW h, NEW i, NEW k, Planned(h, i, k), NEW n \in 3..k + 3
    PROVE  \A r : r \in RoutesAfter(h, i, n) <=>
                    r \in h.routes /\ \A j \in 1..k : j + 3 <= n => r # i.defaultRoutes[j]
<1>1. k \in Nat /\ k = Len(i.defaultRoutes)
  BY DEF Planned
<1>2. RoutesAfter(h, i, n) = h.routes \ Gone(i, n)
  BY <1>1 DEF RoutesAfter
<1> QED
  BY <1>1, <1>2 DEF Gone

LEMMA RoutesLast ==
    ASSUME NEW h, NEW i, NEW k, Planned(h, i, k), NEW n \in k + 3..k + 7
    PROVE  \A r : r \in RoutesAfter(h, i, n) <=>
                    \/ r \in h.routes /\ r.dst # "default"
                    \/ r = TunRoute /\ n >= k + 4
                    \/ r = Primary(i) /\ n >= k + 5
<1>1. k \in Nat /\ k = Len(i.defaultRoutes)
  BY DEF Planned
<1>2. \A r \in h.routes : r \in Gone(i, n) <=> r.dst = "default"
  <2>1. Gone(i, n) = {i.defaultRoutes[j] : j \in 1..k}
    BY <1>1 DEF Gone
  <2> QED
    BY <2>1, ListedRoutes
<1> QED
  BY <1>1, <1>2 DEF RoutesAfter

LEMMA RoutesDiffer ==
    ASSUME NEW h, NEW i, NEW k, Planned(h, i, k), NEW n \in 0..k + 7
    PROVE  /\ \A r \in RoutesAfter(h, i, n) : r.metric \in Nat
           /\ \A q, r \in RoutesAfter(h, i, n) : q.dst = r.dst /\ q.metric = r.metric => q = r
<1>1. k \in Nat
  BY DEF Planned
<1>2. /\ \A r \in h.routes : r.metric \in Nat
      /\ \A q, r \in h.routes : q.dst = r.dst /\ q.metric = r.metric => q = r
  BY PlainRoutes DEF Planned
<1>3. CASE n \in 0..k + 3
  <2>1. RoutesAfter(h, i, n) \in SUBSET h.routes
    BY <1>1, <1>3, RoutesFirst, RoutesMiddle
  <2> QED
    BY <1>2, <2>1
<1>4. CASE n \in k + 3..k + 7
  BY <1>2, <1>4, RoutesLast, OwnRoutes
<1> QED
  BY <1>1, <1>3, <1>4

(* The host between two steps of the plan. *)
LEMMA AfterFirst ==
    ASSUME NEW h, NEW i, NEW k, Planned(h, i, k)
    PROVE  /\ After(h, i, 0) = [tun |-> FALSE, addr |-> FALSE, up |-> FALSE,
                                routes |-> h.routes, rp |-> h.rp]
           /\ After(h, i, 1) = [tun |-> TRUE, addr |-> FALSE, up |-> FALSE,
                                routes |-> h.routes, rp |-> h.rp]
           /\ After(h, i, 2) = [tun |-> TRUE, addr |-> TRUE, up |-> FALSE,
                                routes |-> h.routes, rp |-> h.rp]
           /\ \A n \in 3..k + 7 :
                After(h, i, n) = [tun |-> TRUE, addr |-> TRUE, up |-> TRUE,
                                  routes |-> RoutesAfter(h, i, n), rp |-> RPAfter(h, i, n)]
<1>1. k \in Nat /\ k = Len(i.defaultRoutes)
  BY DEF Planned
<1>2. \A n \in 0..3 : RoutesAfter(h, i, n) = h.routes
  BY RoutesFirst
<1>3. \A n \in 0..3 : RPAfter(h, i, n) = h.rp
  <2> SUFFICES ASSUME NEW n \in 0..3 PROVE RPAfter(h, i, n) = h.rp
    OBVIOUS
  <2>1. \A key : ~ZeroAfter(i, n, key)
    BY <1>1 DEF ZeroAfter
  <2> QED
    BY <2>1, PlainRoutes DEF RPAfter, Planned
<1>4. After(h, i, 0) = [tun |-> FALSE, addr |-> FALSE, up |-> FALSE,
                        routes |-> h.routes, rp |-> h.rp]
  <2>1. (0 >= 1) = FALSE /\ (0 >= 2) = FALSE /\ (0 >= 3) = FALSE
    OBVIOUS
  <2>2. RoutesAfter(h, i, 0) = h.routes /\ RPAfter(h, i, 0) = h.rp
    BY <1>2, <1>3
  <2> QED
    BY <2>1, <2>2 DEF After
<1>5. After(h, i, 1) = [tun |-> TRUE, addr |-> FALSE, up |-> FALSE,
                        routes |-> h.routes, rp |-> h.rp]
  <2>1. (1 >= 1) = TRUE /\ (1 >= 2) = FALSE /\ (1 >= 3) = FALSE
    OBVIOUS
  <2>2. RoutesAfter(h, i, 1) = h.routes /\ RPAfter(h, i, 1) = h.rp
    BY <1>2, <1>3
  <2> QED
    BY <2>1, <2>2 DEF After
<1>6. After(h, i, 2) = [tun |-> TRUE, addr |-> TRUE, up |-> FALSE,
                        routes |-> h.routes, rp |-> h.rp]
  <2>1. (2 >= 1) = TRUE /\ (2 >= 2) = TRUE /\ (2 >= 3) = FALSE
    OBVIOUS
  <2>2. RoutesAfter(h, i, 2) = h.routes /\ RPAfter(h, i, 2) = h.rp
    BY <1>2, <1>3
  <2> QED
    BY <2>1, <2>2 DEF After
<1>7. ASSUME NEW n \in 3..k + 7
      PROVE  After(h, i, n) = [tun |-> TRUE, addr |-> TRUE, up |-> TRUE,
                               routes |-> RoutesAfter(h, i, n), rp |-> RPAfter(h, i, n)]
  <2>1. (n >= 1) = TRUE /\ (n >= 2) = TRUE /\ (n >= 3) = TRUE
    BY <1>1
  <2> QED
    BY <2>1 DEF After
<1> QED
  BY <1>4, <1>5, <1>6, <1>7

LEMMA TwoZeros ==
    ASSUME NEW S, NEW x \in S, x # "all",
           NEW v, v = [key \in S |-> v[key]],
           NEW f, f = [key \in S |-> IF key = "all" THEN 0 ELSE v[key]],
           NEW g, g = [key \in S |-> IF key = "all" \/ key = x THEN 0 ELSE v[key]]
    PROVE  g = [f EXCEPT ![x] = 0] /\ f = [g EXCEPT ![x] = v[x]]
<1>1. [f EXCEPT ![x] = 0] = [key \in S |-> IF key = x THEN 0 ELSE f[key]]
  OBVIOUS
<1>2. [g EXCEPT ![x] = v[x]] = [key \in S |-> IF key = x THEN v[x] ELSE g[key]]
  OBVIOUS
<1>3. \A key \in S : g[key] = IF key = x THEN 0 ELSE f[key]
  OBVIOUS
<1>4. \A key \in S : f[key] = IF key = x THEN v[x] ELSE g[key]
  OBVIOUS
<1>5. g = [key \in S |-> g[key]] /\ f = [key \in S |-> f[key]]
  OBVIOUS
<1>6. g = [f EXCEPT ![x] = 0]
  BY <1>1, <1>3, <1>5
<1>7. f = [g EXCEPT ![x] = v[x]]
  BY <1>2, <1>4, <1>5
<1> QED
  BY <1>6, <1>7

(* The last two steps of the plan, and only they, change a value.           *)
ValuesFollow(h, i, k) ==
    /\ \A n \in 0..k + 5 : RPAfter(h, i, n) = h.rp
    /\ RPAfter(h, i, k + 6) = [h.rp EXCEPT !["all"] = 0]
    /\ RPAfter(h, i, k + 7) = [RPAfter(h, i, k + 6) EXCEPT ![i.interface] = 0]
    /\ h.rp = [RPAfter(h, i, k + 6) EXCEPT !["all"] = h.rp["all"]]
    /\ RPAfter(h, i, k + 6) =
         [RPAfter(h, i, k + 7) EXCEPT ![i.interface] = h.rp[i.interface]]

LEMMA RPSteps ==
    ASSUME NEW h, NEW i, NEW k, Planned(h, i, k)
    PROVE  ValuesFollow(h, i, k)
<1>1. /\ k \in Nat /\ k = Len(i.defaultRoutes) /\ i.interface # "all"
      /\ i.interface \in Interfaces
      /\ h.rp = [key \in Interfaces \cup {"all"} |-> h.rp[key]]
  BY PlainRoutes, OwnRoutes DEF Planned
<1>2. \A n \in 0..k + 5 : RPAfter(h, i, n) = h.rp
  <2> SUFFICES ASSUME NEW n \in 0..k + 5 PROVE RPAfter(h, i, n) = h.rp
    OBVIOUS
  <2>1. \A key : ~ZeroAfter(i, n, key)
    BY <1>1 DEF ZeroAfter
  <2> QED
    BY <1>1, <2>1 DEF RPAfter
<1>3. RPAfter(h, i, k + 6) =
        [key \in Interfaces \cup {"all"} |-> IF key = "all" THEN 0 ELSE h.rp[key]]
  <2>1. \A key : ZeroAfter(i, k + 6, key) <=> key = "all"
    BY <1>1 DEF ZeroAfter
  <2> QED
    BY <2>1 DEF RPAfter
<1>4. RPAfter(h, i, k + 7) =
        [key \in Interfaces \cup {"all"} |->
            IF key = "all" \/ key = i.interface THEN 0 ELSE h.rp[key]]
  <2>1. \A key : ZeroAfter(i, k + 7, key) <=> key = "all" \/ key = i.interface
    BY <1>1 DEF ZeroAfter
  <2> QED
    BY <2>1 DEF RPAfter
<1>5. RPAfter(h, i, k + 6) = [h.rp EXCEPT !["all"] = 0]
  BY <1>1, <1>3
<1>6. h.rp = [RPAfter(h, i, k + 6) EXCEPT !["all"] = h.rp["all"]]
  BY <1>1, <1>3
<1>7. /\ RPAfter(h, i, k + 7) = [RPAfter(h, i, k + 6) EXCEPT ![i.interface] = 0]
      /\ RPAfter(h, i, k + 6) =
            [RPAfter(h, i, k + 7) EXCEPT ![i.interface] = h.rp[i.interface]]
  <2>1. PICK S, x, v, f, g :
            /\ S = Interfaces \cup {"all"} /\ x = i.interface /\ v = h.rp
            /\ f = RPAfter(h, i, k + 6) /\ g = RPAfter(h, i, k + 7)
    OBVIOUS
  <2>2. /\ x \in S /\ x # "all" /\ v = [key \in S |-> v[key]]
        /\ f = [key \in S |-> IF key = "all" THEN 0 ELSE v[key]]
        /\ g = [key \in S |-> IF key = "all" \/ key = x THEN 0 ELSE v[key]]
    BY <1>1, <1>3, <1>4, <2>1
  <2>3. g = [f EXCEPT ![x] = 0] /\ f = [g EXCEPT ![x] = v[x]]
    BY <2>2, TwoZeros
  <2> QED
    BY <2>1, <2>3
<1> QED
  BY <1>2, <1>5, <1>6, <1>7 DEF ValuesFollow

(* A "route del" with a device or a metric means one route only.            *)
LEMMA DeleteMeans ==
    ASSUME NEW g, NEW r \in g.routes, r.dev # None,
           \A q \in g.routes : q.metric \in Nat,
           \A q, t \in g.routes : q.dst = t.dst /\ q.metric = t.metric => q = t
    PROVE  r \in Meant(r, g) /\ Lowest(Meant(r, g)) = r
<1>1. r \in Meant(r, g)
  BY DEF Meant
<1>2. Meant(r, g) \in SUBSET g.routes
  BY DEF Meant
<1>3. ASSUME NEW q \in Meant(r, g), q # r PROVE r.metric = 0 /\ r.metric < q.metric
  <2>1. q \in g.routes /\ q.dst = r.dst /\ r.metric \in {0, q.metric}
    BY DEF Meant
  <2> QED
    BY <1>3, <2>1
<1>4. LET l == Lowest(Meant(r, g))
      IN  l \in Meant(r, g) /\ \A q \in Meant(r, g) : l.metric <= q.metric
  BY <1>1, <1>2, LowestExists
<1>5. PICK l : l = Lowest(Meant(r, g))
  OBVIOUS
<1>6. l \in Meant(r, g) /\ l.metric <= r.metric /\ l.metric \in Nat /\ r.metric \in Nat
  BY <1>1, <1>2, <1>4, <1>5
<1>7. l = r
  BY <1>3, <1>6
<1> QED
  BY <1>1, <1>5, <1>7

-----------------------------------------------------------------------------
(* Every step of the plan leads from one of these hosts to the next, and its *)
(* undo, which the kernel then accepts, leads back.                         *)

Undoes(step, g, f) ==
    /\ Effect(step.do, g) = f
    /\ Accepts(step.undo, f) /\ Effect(step.undo, f) = g

UpHost(routes, rp) == [tun |-> TRUE, addr |-> TRUE, up |-> TRUE, routes |-> routes, rp |-> rp]

LEMMA RouteSteps ==
    ASSUME NEW routes, NEW r, r \notin routes, r.dev # None, NEW rp,
           \A q \in routes \cup {r} : q.metric \in Nat,
           \A q, t \in routes \cup {r} : q.dst = t.dst /\ q.metric = t.metric => q = t
    PROVE  LET g == UpHost(routes, rp)
               f == UpHost(routes \cup {r}, rp)
           IN  /\ Undoes(Added(r), g, f)
               /\ AcceptsRoute(r, g) => Undoes(Deleted(r), f, g)
<1> DEFINE g == UpHost(routes, rp)
           f == UpHost(routes \cup {r}, rp)
           add == Command("route add", r)
           del == Command("route del", r)
<1>1. f.routes = routes \cup {r} /\ r \in f.routes
  BY DEF UpHost
<1>2. r \in Meant(r, f) /\ Lowest(Meant(r, f)) = r
  <2> HIDE DEF f
  <2> QED
    BY <1>1, DeleteMeans
<1>3. add.op = "route add" /\ add.arg = r /\ del.op = "route del" /\ del.arg = r
  BY DEF Command
<1>4. Effect(add, g) = [g EXCEPT !.routes = @ \cup {r}]
  BY <1>3 DEF Effect
<1>5. Effect(del, f) = [f EXCEPT !.routes = @ \ {Lowest(Meant(r, f))}]
  BY <1>3 DEF Effect
<1>6. Effect(add, g) = f
  BY <1>4 DEF UpHost
<1>7. Effect(del, f) = g
  <2>1. (routes \cup {r}) \ {r} = routes
    OBVIOUS
  <2>2. Effect(del, f) = [f EXCEPT !.routes = @ \ {r}]
    BY <1>2, <1>5
  <2> QED
    BY <2>1, <2>2 DEF UpHost
<1>8. Accepts(del, f)
  BY <1>2, <1>3 DEF Accepts
<1>9. AcceptsRoute(r, g) => Accepts(add, g)
  BY <1>3 DEF Accepts
<1> HIDE DEF g, f, add, del
<1>10. /\ Added(r).do = add /\ Added(r).undo = del
       /\ Deleted(r).do = del /\ Deleted(r).undo = add
  BY DEF Added, Deleted, PlanStep, add, del
<1>11. Undoes(Added(r), g, f)
  BY <1>6, <1>7, <1>8, <1>10 DEF Undoes
<1>12. AcceptsRoute(r, g) => Undoes(Deleted(r), f, g)
  BY <1>6, <1>7, <1>9, <1>10 DEF Undoes
<1> QED
  BY <1>11, <1>12 DEF g, f

LEMMA ValueSteps ==
    ASSUME NEW routes, NEW key, NEW value, NEW v, NEW w,
           w = [v EXCEPT ![key] = 0], v = [w EXCEPT ![key] = value]
    PROVE  Undoes(Zeroed(key, value), UpHost(routes, v), UpHost(routes, w))
<1> DEFINE zero == Command("sysctl", <<key, 0>>)
           back == Command("sysctl", <<key, value>>)
<1>1. /\ zero.op = "sysctl" /\ zero.arg[1] = key /\ zero.arg[2] = 0
      /\ back.op = "sysctl" /\ back.arg[1] = key /\ back.arg[2] = value
  BY DEF Command
<1>2. Zeroed(key, value).do = zero /\ Zeroed(key, value).undo = back
  BY DEF Zeroed, PlanStep
<1> HIDE DEF zero, back
<1>3. Effect(zero, UpHost(routes, v)) = UpHost(routes, w)
  <2>1. Effect(zero, UpHost(routes, v)) = [UpHost(routes, v) EXCEPT !.rp[key] = 0]
    BY <1>1 DEF Effect
  <2> QED
    BY <2>1 DEF UpHost
<1>4. Effect(back, UpHost(routes, w)) = UpHost(routes, v)
  <2>1. Effect(back, UpHost(routes, w)) = [UpHost(routes, w) EXCEPT !.rp[key] = value]
    BY <1>1 DEF Effect
  <2> QED
    BY <2>1 DEF UpHost
<1>5. Accepts(back, UpHost(routes, w))
  BY <1>1 DEF Accepts
<1> QED
  BY <1>2, <1>3, <1>4, <1>5 DEF Undoes

LEMMA DeviceSteps ==
    ASSUME NEW h, PlainHost(h)
    PROVE  LET g(tun, addr, up) ==
                 [tun |-> tun, addr |-> addr, up |-> up, routes |-> h.routes, rp |-> h.rp]
           IN  /\ Undoes(TunDevice, g(FALSE, FALSE, FALSE), g(TRUE, FALSE, FALSE))
               /\ Undoes(TunAddress, g(TRUE, FALSE, FALSE), g(TRUE, TRUE, FALSE))
               /\ Undoes(TunLink, g(TRUE, TRUE, FALSE), g(TRUE, TRUE, TRUE))
<1> DEFINE g(tun, addr, up) ==
        [tun |-> tun, addr |-> addr, up |-> up, routes |-> h.routes, rp |-> h.rp]
<1>1. \A r \in h.routes : r.dev # Tun
  BY PlainRoutes
<1>2. {r \in h.routes : r.dev # Tun} = h.routes
  BY <1>1
<1>3. /\ Effect(Command("tuntap add", Tun), g(FALSE, FALSE, FALSE)) = g(TRUE, FALSE, FALSE)
      /\ Accepts(Command("link delete", Tun), g(TRUE, FALSE, FALSE))
      /\ Effect(Command("link delete", Tun), g(TRUE, FALSE, FALSE)) = g(FALSE, FALSE, FALSE)
  BY <1>2 DEF Effect, Accepts, Command, Without
<1>4. /\ Effect(Command("addr add", Tun), g(TRUE, FALSE, FALSE)) = g(TRUE, TRUE, FALSE)
      /\ Accepts(Command("addr del", Tun), g(TRUE, TRUE, FALSE))
      /\ Effect(Command("addr del", Tun), g(TRUE, TRUE, FALSE)) = g(TRUE, FALSE, FALSE)
  BY DEF Effect, Accepts, Command
<1>5. /\ Effect(Command("link up", Tun), g(TRUE, TRUE, FALSE)) = g(TRUE, TRUE, TRUE)
      /\ Accepts(Command("link down", Tun), g(TRUE, TRUE, TRUE))
      /\ Effect(Command("link down", Tun), g(TRUE, TRUE, TRUE)) = g(TRUE, TRUE, FALSE)
  BY <1>2 DEF Effect, Accepts, Command, Without
<1> HIDE DEF g
<1>6. /\ Undoes(TunDevice, g(FALSE, FALSE, FALSE), g(TRUE, FALSE, FALSE))
      /\ Undoes(TunAddress, g(TRUE, FALSE, FALSE), g(TRUE, TRUE, FALSE))
      /\ Undoes(TunLink, g(TRUE, TRUE, FALSE), g(TRUE, TRUE, TRUE))
  BY <1>3, <1>4, <1>5 DEF Undoes, TunDevice, TunAddress, TunLink, PlanStep
<1> QED
  BY <1>6 DEF g

IsPlanFor(p, h, i) == p = LinuxPlan(i, h.rp["all"], h.rp[i.interface])

LEMMA PlanForSteps ==
    ASSUME NEW h, NEW i, NEW k, Planned(h, i, k), NEW p, IsPlanFor(p, h, i)
    PROVE  StepsAre(p, i, k, h.rp["all"], h.rp[i.interface])
<1>1. k \in Nat /\ i.defaultRoutes = [j \in 1..k |-> i.defaultRoutes[j]]
  BY DEF Planned, IsInfo
<1> QED
  BY <1>1, PlanSteps DEF IsPlanFor

LEMMA PlanUndoes ==
    ASSUME NEW h, NEW i, NEW k, Planned(h, i, k), NEW p, IsPlanFor(p, h, i),
           NEW n \in 1..k + 7
    PROVE  Undoes(p[n], After(h, i, n - 1), After(h, i, n))
<1>1. k \in Nat /\ PlainHost(h)
  BY DEF Planned
<1>2. /\ p[1] = TunDevice /\ p[2] = TunAddress /\ p[3] = TunLink
      /\ \A j \in 1..k : p[j + 3] = Deleted(i.defaultRoutes[j])
      /\ p[k + 4] = Added(TunRoute) /\ p[k + 5] = Added(Primary(i))
      /\ p[k + 6] = Zeroed("all", h.rp["all"])
      /\ p[k + 7] = Zeroed(i.interface, h.rp[i.interface])
  BY PlanForSteps DEF StepsAre
<1>0. ValuesFollow(h, i, k)
  BY RPSteps
<1>3. /\ After(h, i, 0) = [tun |-> FALSE, addr |-> FALSE, up |-> FALSE,
                           routes |-> h.routes, rp |-> h.rp]
      /\ After(h, i, 1) = [tun |-> TRUE, addr |-> FALSE, up |-> FALSE,
                           routes |-> h.routes, rp |-> h.rp]
      /\ After(h, i, 2) = [tun |-> TRUE, addr |-> TRUE, up |-> FALSE,
                           routes |-> h.routes, rp |-> h.rp]
      /\ \A m \in 3..k + 7 : After(h, i, m) = UpHost(RoutesAfter(h, i, m), RPAfter(h, i, m))
  BY AfterFirst DEF UpHost
<1>4. After(h, i, 3) = [tun |-> TRUE, addr |-> TRUE, up |-> TRUE,
                        routes |-> h.routes, rp |-> h.rp]
  <2>1. RoutesAfter(h, i, 3) = h.routes /\ RPAfter(h, i, 3) = h.rp /\ 3 \in 3..k + 7
    BY <1>0, <1>1, RoutesFirst DEF ValuesFollow
  <2> QED
    BY <1>3, <2>1 DEF UpHost
<1>5. /\ Undoes(p[1], After(h, i, 0), After(h, i, 1))
      /\ Undoes(p[2], After(h, i, 1), After(h, i, 2))
      /\ Undoes(p[3], After(h, i, 2), After(h, i, 3))
  BY <1>1, <1>2, <1>3, <1>4, DeviceSteps
<1>6. ASSUME NEW j \in 1..k
      PROVE  Undoes(p[j + 3], After(h, i, j + 2), After(h, i, j + 3))
  <2> DEFINE r == i.defaultRoutes[j]
             before == RoutesAfter(h, i, j + 2)
             behind == RoutesAfter(h, i, j + 3)
  <2>1. /\ j + 2 \in 3..k + 3 /\ j + 3 \in 3..k + 3 /\ j + 2 \in 0..k + 7
        /\ j + 2 \in 0..k + 5 /\ j + 3 \in 0..k + 5
        /\ j + 2 \in 3..k + 7 /\ j + 3 \in 3..k + 7
        /\ \A a \in 1..k : (a + 3 <= j + 3 <=> a + 3 <= j + 2 \/ a = j) /\ (a + 3 <= j + 2 => a # j)
    BY <1>1
  <2>2. /\ \A q : q \in before <=> q \in h.routes /\ \A a \in 1..k : a + 3 <= j + 2 => q # i.defaultRoutes[a]
        /\ \A q : q \in behind <=> q \in h.routes /\ \A a \in 1..k : a + 3 <= j + 3 => q # i.defaultRoutes[a]
    BY <2>1, RoutesMiddle
  <2>3. r \in h.routes /\ \A a \in 1..k : i.defaultRoutes[a] = r => a = j
    BY ListedRoutes
  <2> HIDE DEF r, before, behind
  <2>4. \A a \in 1..k : a # j => i.defaultRoutes[a] # r
    BY <2>3
  <2>5. r \notin behind
    BY <2>1, <2>2 DEF r
  <2>6. r \in before
    BY <2>1, <2>2, <2>3, <2>4
  <2>7. before = behind \cup {r}
    <3>1. \A q : q \in behind => q \in before
      BY <2>1, <2>2
    <3>2. \A q : q \in before /\ q # r => q \in behind
      BY <2>1, <2>2 DEF r
    <3> QED
      BY <2>6, <3>1, <3>2
  <2>8. /\ \A q \in before : q.metric \in Nat
        /\ \A q, t \in before : q.dst = t.dst /\ q.metric = t.metric => q = t
    BY <2>1, RoutesDiffer DEF before
  <2>9. r.dev \in Interfaces /\ r.dev # None /\ r.via \in {None, GatewayOf[r.dev]}
    BY <1>1, <2>3, PlainRoutes
  <2>10. AcceptsRoute(r, UpHost(behind, h.rp))
    <3>1. UpHost(behind, h.rp).routes = behind
      BY DEF UpHost
    <3>2. \A q \in behind : q.dst = r.dst => q.metric # r.metric
      BY <2>5, <2>7, <2>8
    <3> QED
      BY <2>9, <3>1, <3>2 DEF AcceptsRoute
  <2>11. Undoes(Deleted(r), UpHost(before, h.rp), UpHost(behind, h.rp))
    BY <2>5, <2>7, <2>8, <2>9, <2>10, RouteSteps
  <2>12. /\ After(h, i, j + 2) = UpHost(before, h.rp)
         /\ After(h, i, j + 3) = UpHost(behind, h.rp)
    BY <1>0, <1>3, <2>1 DEF before, behind, ValuesFollow
  <2> QED
    BY <1>2, <2>11, <2>12 DEF r
<1> DEFINE R(m) == RoutesAfter(h, i, m)
           V(m) == RPAfter(h, i, m)
<1>7. \A m \in k + 3..k + 7 : After(h, i, m) = UpHost(R(m), V(m))
  BY <1>1, <1>3
<1>8. /\ R(k + 4) = R(k + 3) \cup {TunRoute} /\ TunRoute \notin R(k + 3)
      /\ R(k + 5) = R(k + 4) \cup {Primary(i)} /\ Primary(i) \notin R(k + 4)
      /\ R(k + 6) = R(k + 5) /\ R(k + 7) = R(k + 5)
  <2>1. /\ k + 3 \in k + 3..k + 7 /\ k + 4 \in k + 3..k + 7 /\ k + 5 \in k + 3..k + 7
        /\ k + 6 \in k + 3..k + 7 /\ k + 7 \in k + 3..k + 7
        /\ ~(k + 3 >= k + 4) /\ k + 4 >= k + 4 /\ k + 5 >= k + 4 /\ k + 6 >= k + 4
        /\ k + 7 >= k + 4 /\ ~(k + 3 >= k + 5) /\ ~(k + 4 >= k + 5) /\ k + 5 >= k + 5
        /\ k + 6 >= k + 5 /\ k + 7 >= k + 5
    BY <1>1
  <2>2. /\ \A r : r \in R(k + 3) <=> r \in h.routes /\ r.dst # "default"
        /\ \A r : r \in R(k + 4) <=> (r \in h.routes /\ r.dst # "default") \/ r = TunRoute
        /\ \A r : \A m \in {k + 5, k + 6, k + 7} :
              r \in R(m) <=> (r \in h.routes /\ r.dst # "default") \/ r = TunRoute \/ r = Primary(i)
    BY <2>1, RoutesLast
  <2> HIDE DEF R
  <2> QED
    BY <2>2, OwnRoutes
<1>9. /\ V(k + 3) = h.rp /\ V(k + 4) = h.rp /\ V(k + 5) = h.rp
      /\ V(k + 6) = [h.rp EXCEPT !["all"] = 0] /\ h.rp = [V(k + 6) EXCEPT !["all"] = h.rp["all"]]
      /\ V(k + 7) = [V(k + 6) EXCEPT ![i.interface] = 0]
      /\ V(k + 6) = [V(k + 7) EXCEPT ![i.interface] = h.rp[i.interface]]
  BY <1>0, <1>1 DEF ValuesFollow
<1>10. \A m \in {k + 4, k + 5} :
         /\ \A q \in R(m) : q.metric \in Nat
         /\ \A q, t \in R(m) : q.dst = t.dst /\ q.metric = t.metric => q = t
  BY <1>1, RoutesDiffer
<1> HIDE DEF R, V
<1>11. Undoes(p[k + 4], After(h, i, k + 3), After(h, i, k + 4))
  <2>1. Undoes(Added(TunRoute), UpHost(R(k + 3), h.rp), UpHost(R(k + 4), h.rp))
    BY <1>8, <1>10, OwnRoutes, RouteSteps DEF Tun, None
  <2> QED
    BY <1>1, <1>2, <1>7, <1>9, <2>1
<1>12. Undoes(p[k + 5], After(h, i, k + 4), After(h, i, k + 5))
  <2>1. Undoes(Added(Primary(i)), UpHost(R(k + 4), h.rp), UpHost(R(k + 5), h.rp))
    BY <1>8, <1>10, OwnRoutes, RouteSteps
  <2> QED
    BY <1>1, <1>2, <1>7, <1>9, <2>1
<1>13. Undoes(p[k + 6], After(h, i, k + 5), After(h, i, k + 6))
  <2>1. Undoes(Zeroed("all", h.rp["all"]), UpHost(R(k + 5), V(k + 5)), UpHost(R(k + 5), V(k + 6)))
    BY <1>9, ValueSteps
  <2> QED
    BY <1>1, <1>2, <1>7, <1>8, <2>1
<1>14. Undoes(p[k + 7], After(h, i, k + 6), After(h, i, k + 7))
  <2>1. Undoes(Zeroed(i.interface, h.rp[i.interface]),
               UpHost(R(k + 5), V(k + 6)), UpHost(R(k + 5), V(k + 7)))
    BY <1>9, ValueSteps
  <2> QED
    BY <1>1, <1>2, <1>7, <1>8, <2>1
<1>15. \/ n = 1 \/ n = 2 \/ n = 3 \/ (\E j \in 1..k : n = j + 3)
       \/ n = k + 4 \/ n = k + 5 \/ n = k + 6 \/ n = k + 7
  <2>1. n \in 4..k + 3 => n - 3 \in 1..k /\ n = (n - 3) + 3
    BY <1>1
  <2> QED
    BY <1>1, <2>1
<1>16. /\ n = 1 => n - 1 = 0
       /\ n = 2 => n - 1 = 1
       /\ n = 3 => n - 1 = 2
       /\ \A j \in 1..k : n = j + 3 => n - 1 = j + 2
       /\ n = k + 4 => n - 1 = k + 3
       /\ n = k + 5 => n - 1 = k + 4
       /\ n = k + 6 => n - 1 = k + 5
       /\ n = k + 7 => n - 1 = k + 6
  BY <1>1
<1> QED
  BY <1>5, <1>6, <1>11, <1>12, <1>13, <1>14, <1>15, <1>16

LEMMA AfterZero ==
    ASSUME NEW h, PlainHost(h), NEW i, IsInfo(i)
    PROVE  After(h, i, 0) = h
<1>1. PICK k \in Nat : k = Len(i.defaultRoutes)
  BY DEF IsInfo
<1>2. RoutesAfter(h, i, 0) = h.routes
  <2>1. Gone(i, 0) = {}
    BY <1>1 DEF Gone
  <2> QED
    BY <1>1, <2>1 DEF RoutesAfter
<1>3. RPAfter(h, i, 0) = h.rp
  <2>1. \A key : ~ZeroAfter(i, 0, key)
    BY <1>1 DEF ZeroAfter
  <2> QED
    BY <2>1, PlainRoutes DEF RPAfter
<1>4. (0 >= 1) = FALSE /\ (0 >= 2) = FALSE /\ (0 >= 3) = FALSE
  OBVIOUS
<1>5. After(h, i, 0) = [tun |-> FALSE, addr |-> FALSE, up |-> FALSE,
                        routes |-> h.routes, rp |-> h.rp]
  BY <1>2, <1>3, <1>4 DEF After
<1>6. h = [tun |-> FALSE, addr |-> FALSE, up |-> FALSE, routes |-> h.routes, rp |-> h.rp]
  BY DEF PlainHost, Hosts
<1> QED
  BY <1>5, <1>6

LEMMA AloneIsPlain ==
    ASSUME RunsInv, alone
    PROVE  PlainHost(original) /\ \A s \in Sessions : Sessions = {s}
<1>1. PlainHost(original)
  BY WorldsAssumption DEF RunsInv, alone, PlainHost, original
<1>2. IsFiniteSet(Sessions) /\ Cardinality(Sessions) = 1
  BY WorldsAssumption DEF RunsInv, alone, Sessions
<1>3. PICK s : Sessions = {s}
  BY <1>2, FS_Singleton
<1> QED
  BY <1>1, <1>3

LEMMA InitAlone ==
    ASSUME Init PROVE AloneInv
<1> SUFFICES ASSUME alone, NEW s \in Sessions PROVE AloneRun(s)
  BY DEF AloneInv
<1>1. RunsInv
  BY InitRuns
<1>2. PlainHost(original) /\ IsInfo(info[s])
  BY <1>1, AloneIsPlain DEF RunsInv, RunOk
<1>3. After(original, info[s], 0) = original
  BY <1>2, AfterZero
<1> QED
  BY <1>3 DEF Init, AloneRun, original

(* What a run learns of a host it has not touched.                          *)
LEMMA InspectionAlone ==
    ASSUME RunsInv, RunsInv', NEW s \in Sessions, alone, AloneRun(s),
           Detect(s) \/ DetectRoute(s) \/ ReadAllRP(s) \/ BuildPlan(s)
    PROVE  AloneRun(s)'
<1>1. RunOk(s) /\ Functions /\ RunOk(s)' /\ PlainHost(original)
  BY AloneIsPlain DEF RunsInv, Detect, DetectRoute, ReadAllRP, BuildPlan, Sessions
<1>2. plan[s] = <<>> /\ applied[s] = 0
  BY <1>1 DEF RunOk, Detect, DetectRoute, ReadAllRP, BuildPlan, Goto
<1>3. /\ host' = host /\ applied' = applied /\ refused' = refused
      /\ options' = options /\ original' = original
  BY DEF Detect, DetectRoute, ReadAllRP, BuildPlan, original
<1>4. host = original
  <2>1. After(original, info[s], 0) = original
    BY <1>1, AfterZero DEF RunOk
  <2> QED
    BY <1>2, <2>1 DEF AloneRun
<1>5. host' = After(original, info'[s], applied'[s]) /\ refused'[s] = {}
  <2>1. After(original, info'[s], 0) = original
    BY <1>1, AfterZero DEF RunOk
  <2> QED
    BY <1>2, <1>3, <1>4, <2>1 DEF AloneRun
<1>6. CASE Detect(s)
  <2>1. CASE pc'[s] = "done"
    BY <1>3, <1>5, <2>1 DEF AloneRun
  <2>2. CASE pc'[s] # "done"
    <3>1. /\ pc'[s] = "route"
          /\ DetectSucceeds(original) \/ options[s].interface # None
          /\ \E network \in IF DetectSucceeds(original)
                            THEN {Detected(original, l) : l \in Listings(Defaults(original))}
                            ELSE {Fallback} :
                info' = [info EXCEPT ![s] = Overridden(network, options[s])]
      BY <1>1, <1>4, <1>6, <2>2 DEF Detect, Goto, Functions
    <3>2. PICK network \in IF DetectSucceeds(original)
                           THEN {Detected(original, l) : l \in Listings(Defaults(original))}
                           ELSE {Fallback} :
                info'[s] = Overridden(network, options[s])
      BY <1>1, <3>1 DEF Functions
    <3>3. /\ network = [interface |-> network.interface, gateway |-> network.gateway,
                        defaultRoutes |-> network.defaultRoutes]
          /\ Lists(network, original)
          /\ options[s].interface = None =>
                /\ WithDevice(original) # {}
                /\ network.interface = Lowest(WithDevice(original)).dev
      <4>1. CASE DetectSucceeds(original)
        <5>1. PICK l \in Listings(Defaults(original)) : network = Detected(original, l)
          BY <4>1
        <5>2. network.defaultRoutes = l /\ network.interface = Lowest(WithDevice(original)).dev
              /\ network = [interface |-> network.interface, gateway |-> network.gateway,
                            defaultRoutes |-> network.defaultRoutes]
          BY <5>1 DEF Detected
        <5>3. IsFiniteSet(Defaults(original)) /\ Cardinality(Defaults(original)) \in Nat
          <6>1. Defaults(original) \in SUBSET original.routes
            BY DEF Defaults
          <6>2. IsFiniteSet(original.routes)
            BY <1>1, PlainRoutes DEF IsHost
          <6> QED
            BY <6>1, <6>2, FS_Subset, FS_CardinalityType
        <5>4. DOMAIN l = 1..Len(l)
          BY <5>3 DEF Listings
        <5>5. Lists(network, original)
          BY <5>2, <5>4 DEF Lists, Listings
        <5> QED
          BY <4>1, <5>2, <5>5 DEF DetectSucceeds
      <4>2. CASE ~DetectSucceeds(original)
        <5>1. Defaults(original) = {}
          BY <1>1, <4>2 DEF DetectSucceeds, WithDevice, PlainHost, Defaults
        <5>2. network = Fallback /\ options[s].interface # None
          BY <3>1, <4>2
        <5> QED
          BY <5>1, <5>2 DEF Fallback, Lists
      <4> QED
        BY <4>1, <4>2
    <3>4. /\ info'[s].defaultRoutes = network.defaultRoutes
          /\ options[s].interface = None => info'[s].interface = network.interface
      BY <3>2, <3>3 DEF Overridden
    <3>5. Lists(info'[s], original)
      BY <3>3, <3>4 DEF Lists
    <3> QED
      BY <1>3, <1>5, <3>1, <3>3, <3>4, <3>5 DEF AloneRun
  <2> QED
    BY <2>1, <2>2
<1>7. CASE DetectRoute(s)
  <2>1. info' = info /\ pc[s] = "route" /\ pc'[s] \in {"allRP", "done"}
    BY <1>1, <1>7 DEF DetectRoute, Goto, Functions
  <2>2. pc'[s] = "allRP" =>
            RoutesToProxy(original) # {} /\ bound'[s] \in ProxyInterfaces(original)
    BY <1>1, <1>4, <1>7 DEF DetectRoute, Goto, Functions
  <2> QED
    BY <1>3, <1>5, <2>1, <2>2 DEF AloneRun
<1>8. CASE ReadAllRP(s)
  <2>1. /\ info' = info /\ bound' = bound /\ pc[s] = "allRP" /\ pc'[s] = "plan"
        /\ allRP'[s] = original.rp["all"]
    BY <1>1, <1>4, <1>8 DEF ReadAllRP, Goto, Functions
  <2> QED
    BY <1>3, <1>5, <2>1 DEF AloneRun
<1>9. CASE BuildPlan(s)
  <2>1. /\ info' = info /\ bound' = bound /\ allRP' = allRP
        /\ pc[s] = "plan" /\ pc'[s] \in {"apply", "done"}
    BY <1>1, <1>9 DEF BuildPlan, Goto, Functions
  <2>2. ~host.tun
    BY <1>1, <1>4, PlainRoutes
  <2>3. pc'[s] = "apply" =>
          /\ info[s].interface \in Interfaces
          /\ plan'[s] = LinuxPlan(info[s], allRP[s], original.rp[info[s].interface])
    BY <1>1, <1>4, <1>9, <2>2 DEF BuildPlan, Goto, Functions
  <2>4. allRP[s] = original.rp["all"]
    BY <2>1 DEF AloneRun
  <2> QED
    BY <1>3, <1>5, <2>1, <2>3, <2>4 DEF AloneRun
<1> QED
  BY <1>6, <1>7, <1>8, <1>9

LEMMA AloneIsPlanned ==
    ASSUME RunsInv, NEW s \in Sessions, alone, AloneRun(s),
           pc[s] \in {"apply", "up", "rollback"}
    PROVE  /\ Planned(original, info[s], Len(info[s].defaultRoutes))
           /\ IsPlanFor(plan[s], original, info[s])
           /\ Len(plan[s]) = Len(info[s].defaultRoutes) + 7
<1>1. Planned(original, info[s], Len(info[s].defaultRoutes))
  BY AloneIsPlain DEF RunsInv, RunOk, AloneRun, Planned, IsInfo
<1>2. IsPlanFor(plan[s], original, info[s])
  BY DEF AloneRun, IsPlanFor
<1>3. Len(plan[s]) = Len(info[s].defaultRoutes) + 7
  <2>1. PICK h, i, p, k : /\ h = original /\ i = info[s] /\ p = plan[s]
                          /\ k = Len(info[s].defaultRoutes)
    OBVIOUS
  <2>2. Len(p) = k + 7
    BY <1>1, <1>2, <2>1, PlanForSteps DEF StepsAre
  <2> QED
    BY <2>1, <2>2
<1> QED
  BY <1>1, <1>2, <1>3

(* An accepted command leads one host further, an undo command one back.    *)
LEMMA StepsAlone ==
    ASSUME RunsInv, NEW s \in Sessions, alone, AloneRun(s)
    PROVE  /\ ApplyStep(s) => host' = After(original, info[s], applied[s] + 1)
           /\ Undo(s) => /\ host' = After(original, info[s], applied[s] - 1)
                         /\ refused' = refused
<1>1. RunOk(s) /\ host = After(original, info[s], applied[s])
  BY DEF RunsInv, AloneRun
<1>2. PICK h, i, p, k, m : /\ h = original /\ i = info[s] /\ p = plan[s]
                           /\ k = Len(info[s].defaultRoutes) /\ m = applied[s]
  OBVIOUS
<1>3. ASSUME ApplyStep(s)
      PROVE  host' = After(original, info[s], applied[s] + 1)
  <2>1. pc[s] = "apply" /\ applied[s] < Len(plan[s])
        /\ host' = Effect(plan[s][applied[s] + 1].do, host)
    BY <1>3 DEF ApplyStep
  <2>2. Planned(h, i, k) /\ IsPlanFor(p, h, i) /\ Len(p) = k + 7
    BY <1>2, <2>1, AloneIsPlanned
  <2>3. m \in Nat /\ k \in Nat /\ m < k + 7
    BY <1>1, <1>2, <2>1, <2>2 DEF RunOk, Planned
  <2>4. PICK n \in 1..k + 7 : n = m + 1 /\ n - 1 = m
    BY <2>3
  <2>5. Undoes(p[n], After(h, i, n - 1), After(h, i, n))
    BY <2>2, PlanUndoes
  <2>6. Effect(p[n].do, After(h, i, m)) = After(h, i, n)
    BY <2>4, <2>5 DEF Undoes
  <2> QED
    BY <1>1, <1>2, <2>1, <2>4, <2>6
<1>4. ASSUME Undo(s)
      PROVE  host' = After(original, info[s], applied[s] - 1) /\ refused' = refused
  <2>1. /\ pc[s] = "rollback" /\ applied[s] > 0
        /\ Accepts(plan[s][applied[s]].undo, host) =>
              host' = Effect(plan[s][applied[s]].undo, host) /\ refused' = refused
    BY <1>4 DEF Undo
  <2>2. Planned(h, i, k) /\ IsPlanFor(p, h, i) /\ Len(p) = k + 7
    BY <1>2, <2>1, AloneIsPlanned
  <2>3. k \in Nat /\ m \in 1..k + 7
    BY <1>1, <1>2, <2>1, <2>2 DEF RunOk, Planned
  <2>4. Undoes(p[m], After(h, i, m - 1), After(h, i, m))
    BY <2>2, <2>3, PlanUndoes
  <2>5. /\ Accepts(p[m].undo, After(h, i, m))
        /\ Effect(p[m].undo, After(h, i, m)) = After(h, i, m - 1)
    BY <2>4 DEF Undoes
  <2> QED
    BY <1>1, <1>2, <2>1, <2>5
<1> QED
  BY <1>3, <1>4

LEMMA NextKeepsAlone ==
    ASSUME RunsInv, AloneInv, [Next]_vars PROVE AloneInv'
<1>1. RunsInv'
  BY NextKeepsRuns
<1>2. world' = world
  BY DEF Next, Ended, Run, Kill, Detect, DetectRoute, ReadAllRP, BuildPlan, ApplyStep, GiveUp,
         GoUp, Disconnect, Undo, Return, vars
<1>3. alone' = alone /\ Sessions' = Sessions /\ original' = original
  BY <1>2 DEF alone, Sessions, original
<1> SUFFICES ASSUME alone, NEW s \in Sessions PROVE AloneRun(s)'
  BY <1>3 DEF AloneInv
<1>4. AloneRun(s) /\ RunOk(s) /\ Functions /\ Sessions = {s}
  BY AloneIsPlain DEF AloneInv, RunsInv
<1>5. CASE UNCHANGED vars
  BY <1>3, <1>4, <1>5 DEF AloneRun, vars
<1>6. CASE Detect(s) \/ DetectRoute(s) \/ ReadAllRP(s) \/ BuildPlan(s)
  BY <1>1, <1>4, <1>6, InspectionAlone
<1>7. CASE ApplyStep(s)
  <2>1. /\ pc[s] = "apply" /\ applied' = [applied EXCEPT ![s] = @ + 1]
        /\ UNCHANGED <<options, pc, info, bound, allRP, plan, refused>>
    BY <1>7 DEF ApplyStep
  <2>2. host' = After(original, info'[s], applied'[s])
    BY <1>4, <1>7, <2>1, StepsAlone DEF Functions
  <2> QED
    BY <1>3, <1>4, <2>1, <2>2 DEF AloneRun
<1>8. CASE Undo(s)
  <2>1. /\ pc[s] = "rollback" /\ applied' = [applied EXCEPT ![s] = @ - 1]
        /\ UNCHANGED <<options, pc, info, bound, allRP, plan>>
    BY <1>8 DEF Undo
  <2>2. host' = After(original, info'[s], applied'[s]) /\ refused' = refused
    BY <1>4, <1>8, <2>1, StepsAlone DEF Functions
  <2> QED
    BY <1>3, <1>4, <2>1, <2>2 DEF AloneRun
<1>9. CASE GiveUp(s) \/ GoUp(s) \/ Disconnect(s) \/ Return(s) \/ Kill(s)
  <2>1. /\ pc[s] \in {"apply", "up", "rollback"}
        /\ pc'[s] \in {"up", "rollback", "done", "killed"}
        /\ pc'[s] = "up" => applied[s] = Len(plan[s])
        /\ UNCHANGED <<host, options, info, bound, allRP, plan, applied, refused>>
    BY <1>4, <1>9 DEF GiveUp, GoUp, Disconnect, Return, Kill, Goto, Functions, local
  <2> QED
    BY <1>3, <1>4, <2>1 DEF AloneRun
<1>10. (\E t \in Sessions : Run(t) \/ Kill(t)) => Run(s) \/ Kill(s)
  BY <1>4
<1> QED
  BY <1>5, <1>6, <1>7, <1>8, <1>9, <1>10 DEF Next, Ended, Run

(* So does what a run alone keeps, with which the other theorems follow.    *)
THEOREM AloneInvAlways ==
    Spec => [](RunsInv /\ AloneInv)
  BY InitRuns, NextKeepsRuns, InitAlone, NextKeepsAlone, PTL DEF Spec

(* README.md, "complete rollback of network changes": wherever the plan of a *)
(* run stopped, once the run has returned the host is what it was, and every *)
(* undo command found what it undoes.                                       *)
THEOREM HostIsRestored ==
    Spec => []HostRestored
<1>1. ASSUME RunsInv, AloneInv PROVE HostRestored
  <2> SUFFICES ASSUME alone, \A s \in Sessions : pc[s] = "done"
               PROVE  host = original /\ \A s \in Sessions : refused[s] = {}
    BY DEF HostRestored
  <2>1. PlainHost(original) /\ \A s \in Sessions : AloneRun(s) /\ RunOk(s)
    BY <1>1, AloneIsPlain DEF RunsInv, AloneInv
  <2>2. PICK s : s \in Sessions
    BY FS_EmptySet DEF alone
  <2>3. applied[s] = 0
    BY <2>1, <2>2 DEF RunOk
  <2>4. After(original, info[s], 0) = original
    BY <2>1, <2>2, AfterZero DEF RunOk
  <2> QED
    BY <2>1, <2>2, <2>3, <2>4 DEF AloneRun
<1> QED
  BY <1>1, AloneInvAlways, PTL

(* What is in the routes of a host whose run is up.                         *)
LEMMA RoutesWhenUp ==
    ASSUME RunsInv, AloneInv, alone, NEW s \in Sessions, pc[s] = "up"
    PROVE  /\ Planned(original, info[s], Len(info[s].defaultRoutes))
           /\ \A r : r \in host.routes <=> \/ r \in original.routes /\ r.dst # "default"
                                           \/ r = TunRoute \/ r = Primary(info[s])
<1>1. AloneRun(s)
  BY DEF AloneInv
<1>2. PICK h, i, k, n : /\ h = original /\ i = info[s] /\ n = applied[s]
                        /\ k = Len(info[s].defaultRoutes)
  OBVIOUS
<1>3. Planned(h, i, k) /\ n = k + 7
  BY <1>1, <1>2, AloneIsPlanned DEF AloneRun
<1>4. host.routes = RoutesAfter(h, i, n)
  BY <1>1, <1>2 DEF AloneRun, After
<1>5. n \in k + 3..k + 7 /\ n >= k + 4 /\ n >= k + 5
  BY <1>3 DEF Planned
<1>6. \A r : r \in RoutesAfter(h, i, n) <=> \/ r \in h.routes /\ r.dst # "default"
                                            \/ r = TunRoute \/ r = Primary(i)
  BY <1>3, <1>5, RoutesLast
<1> QED
  BY <1>2, <1>3, <1>4, <1>6

(* Every packet without a route of its own goes into tun0 while a run is up. *)
THEOREM TunnelIsFull ==
    Spec => []FullTunnel
<1>1. ASSUME RunsInv, AloneInv PROVE FullTunnel
  <2> SUFFICES ASSUME alone, NEW s \in Sessions, pc[s] = "up"
               PROVE  Lowest(Defaults(host)) = TunRoute
    BY DEF FullTunnel
  <2>1. PICK primary : primary = Primary(info[s])
    OBVIOUS
  <2>2. \A r : r \in host.routes <=> \/ r \in original.routes /\ r.dst # "default"
                                     \/ r = TunRoute \/ r = primary
    BY <1>1, <2>1, RoutesWhenUp
  <2>3. /\ TunRoute.dst = "default" /\ TunRoute.metric = 1
        /\ primary.dst = "default" /\ primary.metric = 10
    BY <2>1 DEF TunRoute, Primary, Route
  <2>4. Defaults(host) = {TunRoute, primary}
    BY <2>2, <2>3 DEF Defaults
  <2>5. /\ Lowest(Defaults(host)) \in Defaults(host)
        /\ \A q \in Defaults(host) : Lowest(Defaults(host)).metric <= q.metric
    BY <2>3, <2>4, LowestExists
  <2> QED
    BY <2>3, <2>4, <2>5
<1> QED
  BY <1>1, AloneInvAlways, PTL

(* README.md, "keeping the SOCKS connection outside the TUN": unless the     *)
(* interface was overridden, what the engine binds to can reach the proxy.   *)
THEOREM SocksIsReachable ==
    Spec => []SocksReachable
<1>1. ASSUME RunsInv, AloneInv PROVE SocksReachable
  <2> SUFFICES ASSUME alone, NEW s \in Sessions, pc[s] = "up", options[s].interface = None
               PROVE  bound[s] # Tun /\ \E r \in host.routes : bound[s] \in Devices(r)
    BY DEF SocksReachable
  <2>1. AloneRun(s) /\ PlainHost(original)
    BY <1>1, AloneIsPlain DEF AloneInv
  <2>2. /\ Planned(original, info[s], Len(info[s].defaultRoutes))
        /\ \A r : r \in host.routes <=> \/ r \in original.routes /\ r.dst # "default"
                                        \/ r = TunRoute \/ r = Primary(info[s])
    BY <1>1, RoutesWhenUp
  <2>3. \A r \in original.routes : ~Multipath(r) /\ r.dev # Tun
    BY <2>1, PlainRoutes DEF PlainHost
  <2>4. PICK q \in RoutesToProxy(original) : bound[s] \in Devices(q)
    BY <2>1 DEF AloneRun, ProxyInterfaces
  <2>5. CASE \E r \in original.routes : r.dst = "proxy"
    <3>1. q \in original.routes /\ q.dst = "proxy"
      BY <2>4, <2>5 DEF RoutesToProxy
    <3>2. q \in host.routes /\ bound[s] = q.dev
      BY <2>2, <2>3, <2>4, <3>1 DEF Devices
    <3> QED
      BY <2>3, <2>4, <3>1, <3>2
  <2>6. CASE ~ \E r \in original.routes : r.dst = "proxy"
    <3>1. q = Lowest(Defaults(original)) /\ Defaults(original) # {}
      BY <2>4, <2>6 DEF RoutesToProxy
    <3>2. WithDevice(original) = Defaults(original)
      BY <2>3 DEF WithDevice, Defaults
    <3>3. info[s].interface = q.dev
      BY <2>1, <3>1, <3>2 DEF AloneRun
    <3>4. q \in original.routes
      <4>1. \A r \in Defaults(original) : r \in original.routes /\ r.metric \in Nat
        BY <2>1, PlainRoutes DEF Defaults
      <4> QED
        BY <3>1, <4>1, LowestExists
    <3>5. bound[s] = q.dev /\ q.dev # Tun
      BY <2>3, <2>4, <3>4 DEF Devices
    <3>6. Primary(info[s]) \in host.routes /\ Primary(info[s]).dev = q.dev
      BY <2>2, <3>3, OwnRoutes
    <3>7. ~Multipath(Primary(info[s]))
      BY <2>2, <3>3, <3>6, OwnRoutes DEF Multipath
    <3> QED
      BY <3>5, <3>6, <3>7 DEF Devices
  <2> QED
    BY <2>5, <2>6
<1> QED
  BY <1>1, AloneInvAlways, PTL

-----------------------------------------------------------------------------
(* Setting m of DesktopClient is in force from step m of the plan on.       *)

LEMMA InForceMeans ==
    ASSUME NEW g
    PROVE  /\ InForce(TunDevice, g) = g.tun
           /\ InForce(TunAddress, g) = g.addr
           /\ InForce(TunLink, g) = g.up
           /\ \A r : InForce(Added(r), g) <=> r \in g.routes
           /\ \A r : InForce(Deleted(r), g) <=> r \notin g.routes
           /\ \A key, value : InForce(Zeroed(key, value), g) <=> g.rp[key] = 0
<1>1. /\ InForce(TunDevice, g) = g.tun
      /\ InForce(TunAddress, g) = g.addr
      /\ InForce(TunLink, g) = g.up
  BY DEF InForce, TunDevice, TunAddress, TunLink, PlanStep, Command
<1>2. \A r : (InForce(Added(r), g) <=> r \in g.routes)
             /\ (InForce(Deleted(r), g) <=> r \notin g.routes)
  BY DEF InForce, Added, Deleted, PlanStep, Command
<1>3. \A key, value : InForce(Zeroed(key, value), g) <=> g.rp[key] = 0
  BY DEF InForce, Zeroed, PlanStep, Command
<1> QED
  BY <1>1, <1>2, <1>3

LEMMA InForceAfter ==
    ASSUME NEW h, NEW i, NEW k, Planned(h, i, k), NEW p, IsPlanFor(p, h, i),
           Primary(i) \notin h.routes,
           NEW n \in 0..k + 7, NEW m \in 1..k + 7, ~InForce(p[m], h)
    PROVE  InForce(p[m], After(h, i, n)) <=> m <= n
<1>1. k \in Nat /\ k = Len(i.defaultRoutes)
  BY DEF Planned
<1>2. PICK g : g = After(h, i, n)
  OBVIOUS
<1>3. /\ g.tun <=> n >= 1
      /\ g.addr <=> n >= 2
      /\ g.up <=> n >= 3
      /\ g.routes = RoutesAfter(h, i, n) /\ g.rp = RPAfter(h, i, n)
  BY <1>2 DEF After
<1>4. /\ p[1] = TunDevice /\ p[2] = TunAddress /\ p[3] = TunLink
      /\ \A j \in 1..k : p[j + 3] = Deleted(i.defaultRoutes[j])
      /\ p[k + 4] = Added(TunRoute) /\ p[k + 5] = Added(Primary(i))
      /\ p[k + 6] = Zeroed("all", h.rp["all"])
      /\ p[k + 7] = Zeroed(i.interface, h.rp[i.interface])
  BY PlanForSteps DEF StepsAre
<1>5. \/ m = 1 \/ m = 2 \/ m = 3 \/ (\E j \in 1..k : m = j + 3)
      \/ m = k + 4 \/ m = k + 5 \/ m = k + 6 \/ m = k + 7
  <2>1. m \in 4..k + 3 => m - 3 \in 1..k /\ m = (m - 3) + 3
    BY <1>1
  <2> QED
    BY <1>1, <2>1
<1>6. CASE m = 1
  <2>1. InForce(p[m], g) = g.tun
    BY <1>4, <1>6, InForceMeans
  <2> QED
    BY <1>2, <1>3, <1>6, <2>1
<1>7. CASE m = 2
  <2>1. InForce(p[m], g) = g.addr
    BY <1>4, <1>7, InForceMeans
  <2> QED
    BY <1>2, <1>3, <1>7, <2>1
<1>8. CASE m = 3
  <2>1. InForce(p[m], g) = g.up
    BY <1>4, <1>8, InForceMeans
  <2> QED
    BY <1>2, <1>3, <1>8, <2>1
<1>9. CASE \E j \in 1..k : m = j + 3
  <2>1. PICK j \in 1..k : m = j + 3
    BY <1>9
  <2>2. PICK r : r = i.defaultRoutes[j]
    OBVIOUS
  <2>3. r \in h.routes /\ \A a \in 1..k : i.defaultRoutes[a] = r => a = j
    BY <2>2, ListedRoutes
  <2>4. InForce(p[m], g) <=> r \notin RoutesAfter(h, i, n)
    BY <1>3, <1>4, <2>1, <2>2, InForceMeans
  <2>5. r # TunRoute /\ r # Primary(i)
    BY <2>3, OwnRoutes
  <2>6. r \in RoutesAfter(h, i, n) <=> r \notin Gone(i, n)
    BY <2>3, <2>5 DEF RoutesAfter
  <2>7. r \in Gone(i, n) <=> j + 3 <= n
    BY <1>1, <2>2, <2>3 DEF Gone
  <2> QED
    BY <1>2, <2>1, <2>4, <2>6, <2>7
<1>10. CASE m = k + 4
  <2>1. InForce(p[m], g) <=> TunRoute \in RoutesAfter(h, i, n)
    BY <1>3, <1>4, <1>10, InForceMeans
  <2>2. TunRoute \in RoutesAfter(h, i, n) <=> n >= k + 4
    BY <1>1, OwnRoutes DEF RoutesAfter
  <2> QED
    BY <1>1, <1>2, <1>10, <2>1, <2>2
<1>11. CASE m = k + 5
  <2>1. InForce(p[m], g) <=> Primary(i) \in RoutesAfter(h, i, n)
    BY <1>3, <1>4, <1>11, InForceMeans
  <2>2. Primary(i) \in RoutesAfter(h, i, n) <=> n >= k + 5
    BY <1>1, OwnRoutes DEF RoutesAfter
  <2> QED
    BY <1>1, <1>2, <1>11, <2>1, <2>2
<1>12. CASE m = k + 6
  <2>1. InForce(p[m], g) <=> RPAfter(h, i, n)["all"] = 0
    BY <1>3, <1>4, <1>12, InForceMeans
  <2>2. h.rp["all"] # 0
    BY <1>4, <1>12, InForceMeans
  <2>3. ZeroAfter(i, n, "all") <=> n >= k + 6
    BY <1>1, OwnRoutes DEF ZeroAfter
  <2> QED
    BY <1>1, <1>2, <1>12, <2>1, <2>2, <2>3 DEF RPAfter
<1>13. CASE m = k + 7
  <2>1. InForce(p[m], g) <=> RPAfter(h, i, n)[i.interface] = 0
    BY <1>3, <1>4, <1>13, InForceMeans
  <2>2. h.rp[i.interface] # 0
    BY <1>4, <1>13, InForceMeans
  <2>3. ZeroAfter(i, n, i.interface) <=> n >= k + 7
    BY <1>1, OwnRoutes DEF ZeroAfter
  <2>4. i.interface \in Interfaces
    BY DEF Planned
  <2> QED
    BY <1>1, <1>2, <1>13, <2>1, <2>2, <2>3, <2>4 DEF RPAfter
<1> QED
  BY <1>5, <1>6, <1>7, <1>8, <1>9, <1>10, <1>11, <1>12, <1>13

(* What lives on a step comes later in the plan. *)
LEMMA LivesOnLater ==
    ASSUME NEW h, NEW i, NEW k, Planned(h, i, k), NEW p, IsPlanFor(p, h, i),
           NEW n \in 1..k + 7, NEW m \in LinuxLivesOn(p, n)
    PROVE  m > n
<1>1. k \in Nat
  BY DEF Planned
<1>2. Len(p) = k + 7 /\ p[1] = TunDevice /\ p[2] = TunAddress /\ p[3] = TunLink
  BY PlanForSteps DEF StepsAre
<1>3. /\ TunDevice.do.op # "route add"
      /\ TunAddress.do.op # "route add"
      /\ TunLink.do.op # "route add"
  BY DEF TunDevice, TunAddress, TunLink, PlanStep, Command
<1>4. \A j \in 1..Len(p) : p[j].do.op = "route add" => j \notin {1, 2, 3}
  BY <1>2, <1>3
<1> DEFINE tunRoute == {j \in 1..Len(p) : p[j].do.op = "route add" /\ p[j].do.arg = TunRoute}
<1>6. \A j \in tunRoute : j \in Int /\ j > 3
  <2>1. Len(p) \in Nat
    BY <1>1, <1>2
  <2>2. \A j \in tunRoute : j \in 1..Len(p) /\ j \notin {1, 2, 3}
    BY <1>4
  <2> HIDE DEF tunRoute
  <2> QED
    BY <2>1, <2>2
<1>7. LinuxLivesOn(p, n) = CASE n = 1 -> {2, 3} \cup tunRoute
                             [] n = 3 -> tunRoute
                             [] OTHER -> {}
  BY DEF LinuxLivesOn
<1> HIDE DEF tunRoute
<1>8. CASE n = 1
  <2>1. m \in {2, 3} \cup tunRoute
    BY <1>7, <1>8
  <2> QED
    BY <1>6, <1>8, <2>1
<1>9. CASE n = 3
  BY <1>6, <1>7, <1>9
<1>10. CASE n # 1 /\ n # 3
  BY <1>7, <1>10
<1> QED
  BY <1>8, <1>9, <1>10

(* DesktopClient's picture of the host, one setting per step of the plan, is *)
(* right for the commands of the Linux plan.                                *)
THEOREM SettingsFollowSteps ==
    Spec => SettingsAreSteps
<1>1. ASSUME RunsInv, AloneInv, [Next]_vars, alone, NEW s \in Sessions,
             Primary(info[s]) \notin original.routes
      PROVE  /\ applied'[s] > applied[s] =>
                   InForceOf(s, host') = InForceOf(s, host) \cup ({applied'[s]} \cap Changes(s))
             /\ applied'[s] < applied[s] /\ refused' = refused =>
                   InForceOf(s, host') =
                       InForceOf(s, host) \ ({applied[s]} \cup LinuxLivesOn(plan[s], applied[s]))
  <2>1. AloneRun(s) /\ RunOk(s) /\ Functions /\ Sessions = {s}
    BY <1>1, AloneIsPlain DEF AloneInv, RunsInv
  <2>2. applied[s] \in Int
    BY <2>1 DEF RunOk
  <2> SUFFICES ASSUME ApplyStep(s) \/ Undo(s)
               PROVE  /\ applied'[s] > applied[s] =>
                            InForceOf(s, host') =
                                InForceOf(s, host) \cup ({applied'[s]} \cap Changes(s))
                      /\ applied'[s] < applied[s] =>
                            InForceOf(s, host') = InForceOf(s, host) \
                                ({applied[s]} \cup LinuxLivesOn(plan[s], applied[s]))
    <3>1. (\E t \in Sessions : Run(t) \/ Kill(t)) => Run(s) \/ Kill(s)
      BY <2>1
    <3>2. ApplyStep(s) \/ Undo(s) \/ applied' = applied
      BY <1>1, <3>1 DEF Next, Run, Kill, Ended, Detect, DetectRoute, ReadAllRP, BuildPlan,
                        GiveUp, GoUp, Disconnect, Return, local, vars
    <3> QED
      BY <2>2, <3>2
  <2>3. pc[s] \in {"apply", "rollback"}
    BY DEF ApplyStep, Undo
  <2>4. PICK h, i, k, p, n :
          h = original /\ i = info[s] /\ k = Len(info[s].defaultRoutes) /\ p = plan[s] /\ n = applied[s]
    OBVIOUS
  <2>5. Planned(h, i, k) /\ IsPlanFor(p, h, i) /\ Len(p) = k + 7 /\ k \in Nat
    BY <1>1, <2>1, <2>3, <2>4, AloneIsPlanned DEF Planned
  <2>6. n \in 0..k + 7
    BY <2>1, <2>4, <2>5 DEF RunOk
  <2>7. \A a \in 0..k + 7 : InForceOf(s, After(h, i, a)) = {m \in Changes(s) : m <= a}
    <3> SUFFICES ASSUME NEW a \in 0..k + 7, NEW m \in Changes(s)
                 PROVE  InForce(plan[s][m], After(h, i, a)) <=> m <= a
      BY DEF InForceOf
    <3>1. m \in 1..k + 7 /\ ~InForce(p[m], h)
      BY <2>4, <2>5 DEF Changes
    <3> QED
      BY <1>1, <2>4, <2>5, <3>1, InForceAfter
  <2>8. \A m \in Changes(s) : m \in 1..k + 7
    BY <2>4, <2>5 DEF Changes
  <2>9. host = After(h, i, n)
    BY <2>1, <2>4 DEF AloneRun
  <2>10. CASE ApplyStep(s)
    <3>1. applied'[s] = n + 1 /\ n + 1 \in 0..k + 7
      BY <2>1, <2>4, <2>5, <2>6, <2>10 DEF ApplyStep, Functions
    <3>2. host' = After(h, i, n + 1)
      BY <1>1, <2>1, <2>4, <2>10, StepsAlone
    <3>3. /\ InForceOf(s, host') = {m \in Changes(s) : m <= n + 1}
          /\ InForceOf(s, host) = {m \in Changes(s) : m <= n}
      BY <2>6, <2>7, <2>9, <3>1, <3>2
    <3>4. \A m \in Changes(s) : m <= n + 1 <=> m <= n \/ m = n + 1
      BY <2>6, <2>8
    <3>5. {m \in Changes(s) : m <= n + 1} = {m \in Changes(s) : m <= n} \cup ({n + 1} \cap Changes(s))
      BY <3>4
    <3> QED
      BY <2>4, <2>6, <3>1, <3>3, <3>5
  <2>11. CASE Undo(s)
    <3>1. applied'[s] = n - 1 /\ n \in 1..k + 7 /\ n - 1 \in 0..k + 7
      BY <2>1, <2>4, <2>5, <2>6, <2>11 DEF Undo, Functions
    <3>2. host' = After(h, i, n - 1)
      BY <1>1, <2>1, <2>4, <2>11, StepsAlone
    <3>3. /\ InForceOf(s, host') = {m \in Changes(s) : m <= n - 1}
          /\ InForceOf(s, host) = {m \in Changes(s) : m <= n}
      BY <2>6, <2>7, <2>9, <3>1, <3>2
    <3>4. \A m \in LinuxLivesOn(p, n) : m > n
      BY <2>5, <3>1, LivesOnLater
    <3>5. \A m \in Changes(s) :
            m <= n - 1 <=> m <= n /\ m \notin {n} \cup LinuxLivesOn(p, n)
      <4>1. \A m \in Changes(s) : m <= n => ~(m > n)
        BY <2>8, <3>1
      <4>2. \A m \in Changes(s) : m <= n - 1 <=> m <= n /\ m # n
        BY <2>8, <3>1
      <4> QED
        BY <3>4, <4>1, <4>2
    <3>6. {m \in Changes(s) : m <= n - 1} =
            {m \in Changes(s) : m <= n} \ ({n} \cup LinuxLivesOn(p, n))
      BY <3>5
    <3> QED
      BY <2>4, <2>6, <3>1, <3>3, <3>6
  <2> QED
    BY <2>10, <2>11
<1>2. RunsInv /\ AloneInv /\ [Next]_vars =>
        [alone => \A s \in Sessions : Primary(info[s]) \notin original.routes =>
           /\ applied'[s] > applied[s] =>
                 InForceOf(s, host') = InForceOf(s, host) \cup ({applied'[s]} \cap Changes(s))
           /\ applied'[s] < applied[s] /\ refused' = refused =>
                 InForceOf(s, host') =
                     InForceOf(s, host) \ ({applied[s]} \cup LinuxLivesOn(plan[s], applied[s]))
        ]_vars
  BY <1>1
<1> QED
  BY <1>2, AloneInvAlways, PTL DEF Spec, SettingsAreSteps

=============================================================================

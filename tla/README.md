# A verification development for go-socks2vpn

go-socks2vpn sends the traffic of a whole machine through a SOCKS proxy. It is
a command line client and a desktop application for Linux, macOS and Windows,
and an Android application, around one embedded tun2socks engine. The desktop
side changes routes and kernel settings by running commands and has to undo
them whatever happens; the Android side hands a file descriptor from the system
to a process-wide engine and has to keep the screen, the service and the engine
in agreement. This directory models that code in TLA+, model-checks it with TLC
and proves its safety properties with TLAPS. Paths below are relative to the root of the
repository.

## The system

| part | state | operations | hard behaviour |
|---|---|---|---|
| `client.Run` (`client/client.go`, `client/statistics.go`, `internal/command`) | the list of applied steps, the engine, the statistics goroutine, the host's settings | inspect, apply the plan, start the engine, stay connected, roll back, stop | a cancel at any moment, commands killed before or after their effect, the 20 s of the rollback, every error path |
| network detection and plans (`internal/network`) | none of its own; it reads and writes routes, `tun0`, `rp_filter` | Detect, DetectRoute, BuildPlan | undo in reverse order of settings that depend on each other; several runs on one host; killed runs |
| desktop application (`desktop-gui/main.go`) | `cancel` and `runDone` under a mutex, the log's buffer, the lamp, the buttons, the panels | Connect, Disconnect, close; a goroutine per run and per close request | clicks, posted functions and goroutines in any order |
| Android application (`MainActivity.kt`, `TunnelVpnService.kt`, `enginebridge/mobile.go`) | the lamp, `importedConfiguration`; `running` and an executor per service instance; `current` in Go | START, STOP, QUERY, revocation, links, onDestroy | intents and instances in any order, one engine for many instances, ownership of the descriptor |
| embedded engine (`engine/engine.go`, `engine/udp_policy.go`, `engine/check.go`) | the descriptor, the device, the stack, the DNS handler; the process-wide dialer and tunnel | Start, Stop, CheckProxy | globals shared by engines; a descriptor that changes owner in the middle of a start |
| DNS over HTTPS (`engine/dns.go`) | the position in a message; a goroutine per socket | parse, answer, forward, refuse, CheckDNSOverHTTPS, Close | offsets in messages from outside; timeouts; goroutines that outlive who waits for them |
| Wintun cache (`internal/assets`, `internal/wintun`) | the file `wintun.dll` in a shared directory | look, download, verify, install, load | several processes, kills, power failures |
| proxy settings and links (`internal/proxy`, `internal/deeplink`, `ProxyDeepLink.kt`) | none | parse, validate, write | two implementations of one format, up to three parsers in a row |
| command line (`cmd/socks2vpn`), platform probes (`internal/platform`) | none | flags, Ctrl+C, reads of the system | none of their own |

The CLI and the desktop application call `client.Run`; it calls the network
plans, the Wintun cache and the engine, and reports back with the callbacks
`OnConnected` and `Statistics`. The desktop application shows what they say by
posting functions to the UI goroutine. On Android the activity talks to the
service by intents, the service to the activity by broadcasts, and the service
to the engine through the package `mobile`, which owns one engine for the whole
process. The engine calls the DNS handler for every UDP socket on port 53. What
the user gives as a link, a form or a line reaches the engine as a proxy URL.

What makes each part correct:

- a run that returns has restored every setting it could, nothing of the
  engine's device outlives it, undo commands find what they undo, its
  settings are taken back before its engine stops, and a cancelled run returns;
- the Linux plan restores the host from each of its prefixes, routes everything
  into the tunnel and leaves the proxy reachable; two runs exclude each other;
- the desktop application keeps one run at a time, which can be stopped; its
  lamp, its log and its statistics are those of the latest run; its close
  button acts;
- on Android an engine that serves the VPN can be stopped, no descriptor leaks,
  and each connect and disconnect is answered;
- an engine closes its own descriptor once, leaves nothing behind however its
  start fails, and sends traffic to its own proxy only, although the upstream
  tunnel and dialer are shared by the process; every DNS query is answered and
  every goroutine ends;
- the question parser stays inside the message and agrees with the format, and
  no AAAA question reaches the resolver;
- only the verified driver is loaded, and the cache never holds half of it;
- the engine dials the proxy the user gave, on both platforms, and what is
  wrong with it is said before a connection is made. Both are true except for
  odd hosts, which the validators do not look into (see *Known limits*).

## Modules

- `TunnelPromise`: what a session promises to whoever starts it, with nothing
  of how. Settings change only before it is up; while it is up nothing changes;
  once it is done, what is still changed is excused (an undo failed or a
  command was killed).
- `DesktopClient`: one call of `client.Run`. `pc` is the place in `Run`;
  `applied` is `len(session.applied)`; `cmd` is the command in flight, whose
  effect on the host and whose return to `apply` are two steps; `changed` is
  what differs on the host, `orphaned` what a killed command changed, `stuck`
  what an undo failed to restore. A step of the plan is a number, and the
  constants `LivesOn` and `OnDevice` say which settings go when another one, or
  the engine's device, goes. `OS`, the number of steps and these relations are
  parameters with the assumptions the plans satisfy.
  `MCDesktopLinux` and `MCDesktopWindows` give them the values of two plans.
- `LinuxNetwork`: detection and `linuxPlan` as operators, and what the commands
  `ip` and `sysctl` do to a host (its routes with their metrics and gateways,
  `tun0`, the `rp_filter` values). `LinuxSessions`: runs on one host, reading
  and changing it step by step, with `MCLinuxSessions` for the hosts and the
  command lines. It also checks the numbers `DesktopClient` abstracts to:
  `SettingsAreSteps` says that the effect of command *i* is setting *i* and
  that an undo takes with it exactly what `LivesOn` says.
- `DesktopGui`: the handlers, split where another goroutine can see the state
  between their parts (the mutex sections, the posts), the goroutines, the log's
  buffer under its lock, and the queue of functions posted with `fyne.Do`.
  A line of the log is the run that wrote it, the statistics the run they are
  of. `client.Run` is seen from outside: it returns once cancelled, which is
  `DesktopClient!CancelReturns`.
- `MobilePromise`: what package `mobile` promises the service, with nothing of
  how. A start takes the descriptor that was detached from the VPN interface:
  it ends with the descriptor served by the engine or closed; a second start is
  refused; a stop closes what is served; the descriptor of a start that has not
  reached the engine is the caller's.
- `AndroidTunnel`: the main thread, the executor of every service instance and
  the activity manager and the system VPN around them. It is built on
  `MobilePromise`, whose actions are its calls of the Go side.
- `EmbeddedEngine`: `engine.Start` and `engine.Stop` call by call, with the
  table of descriptor numbers of the process (which the kernel reuses, and
  other goroutines use too), the process-wide dialer and tunnel, the delayed
  link endpoint, the UDP policy, `CheckProxy`, `CheckDNSOverHTTPS` with its
  goroutine, the goroutine of a DNS socket, and `mobile` around them. `holds`
  is what an engine has to release. It implements `MobilePromise`: `Served` and
  `Opened` name the engine and the open descriptors the service sees.
- `DnsQuestions`: `exchange` and `parseDNSQuestions`, one step per branch of
  the parser, and the format of RFC 1035 as a relation between a message and
  the ends of its questions (`Layouts`), which says nothing of how to find
  them. `MCDnsQuestions` encodes questions into messages, cuts and damages
  them; its `EncodedAsFormatted` has TLC confirm that the format admits exactly
  one reading of every message so encoded, the questions it was made of.
- `WintunCache`: `EnsureWintun`, `atomicWrite` and `wintun.Load`, system call
  by system call, in processes that share the directory.
- `ProxyLinks`: the parsers, validators and writers of links, forms, lines and
  proxy URLs, in Go and in Kotlin, and the order in which a value goes through
  them until the engine dials. A text is a sequence of tokens: plain text, the
  two separators and their escapes. A host is one token, with an operator for
  what each writer makes of it (`EscapedHost`, `HostTokens`) and each parser
  (`ParseHost`); `OddHosts` are those the validators accept and a later stage
  may refuse or misread.
- `DesktopClientProofs`, `LinuxSessionsProofs`, `DesktopGuiProofs`,
  `AndroidTunnelProofs`, `EmbeddedEngineProofs`, `DnsQuestionsProofs`,
  `WintunCacheProofs`, `ProxyLinksProofs`: theorems, each about the module it
  is named after.

Three places connect the modules. `DesktopClient` and `LinuxSessions` share the
picture of a setting (`SettingsAreSteps`). `DesktopGui` relies on
`CancelReturns` of `DesktopClient`. `AndroidTunnel` uses `MobilePromise`, and
`EmbeddedEngine` implements it, so that neither has to be checked with the
states of the other.

Every module lists the mutated definitions its properties are tried against
beside the definitions they mutate, under the word *Mutant*.

### External parts

They are not in this repository and are modelled from how it uses them: the
kernel's acceptance and effect of `ip` and `sysctl` commands (`Accepts`,
`Effect`), and its reuse of descriptor numbers (`OpenSocket`, `CloseSocket`);
the fyne event loop, which runs posted functions in the order of its queue and
takes clicks in between; Android's activity manager (an instance lives while it
is started or bound, `stopSelf` ends it whatever was sent, `onDestroy` is a
message to the main thread) and its VPN, which binds the service while the
interface's descriptor is open; gVisor, whose stack closes the endpoints of its
sockets, and which reads a device from `Attach` to `Close`; the dialer, which
applies every option registered since its last reset; a file system that keeps
a rename or not at a power failure and keeps synced data, and Windows, which
does not replace a loaded library; `net/url` and `java.net.URI`, which split an
authority at its last `@` (`net/url` is that of the Go release in `go.mod`,
1.26.3: in a host it allows no escape of ASCII but `%25`, and in brackets only
an IPv6 address); a resolver, which knows `name` and addresses and nothing
else.

## Runs

The longest run takes about a minute and a half, most a few seconds.

| run | bounds | what it shows |
|---|---|---|
| `desktop_linux` | the 8 steps of the plan for one default route | every error path and every moment of a cancel restores what can be restored; an undo finds its setting; at most one setting escapes; a rollback ends; the session implements `TunnelPromise` |
| `desktop_windows` | the 3 steps of the plan | connected means installed; settings are taken back before the engine stops, and nothing changes after; nothing of the device outlives the run; a cancelled run returns |
| `killed_command` | as `desktop_linux` | violated: `CompleteRollback` |
| `linux_sessions` | one run on 2 interfaces, every subset of 4 default routes (three of them through one interface, one with the metric 10 of the plan itself), a network for the proxy or not, `net.ipv4.conf.all.rp_filter` 0 or 1, every `--interface` and `--gateway`; two runs, 1 of them killed, with and without a multipath route | every prefix of the plan is undone without a refused command; the tunnel gets the traffic, the proxy keeps a route; the abstraction of `DesktopClient`; `tun0` is a lock; a killed run freezes the host |
| `gui` | 2 runs, the user waits at 2 queued functions | one run at a time that can be stopped, and lamp, log and statistics of the latest run (for a patient user); the pair and closing (for every user) |
| `gui_exit` | 2 runs, 3 queued functions, a user who waits for the window | violated: `ExitLeavesNoRun` |
| `android` | input at rest: 5 intents, 3 instances; input at any time: 4 intents, 2 instances; links, revocations | engines can be stopped; the lamp tells the truth; amber ends; no descriptor leaks |
| `android_retry` | 4 intents, 3 instances, input at any time | violated: `RedMeansStopped` |
| `engine` | 2 engines, 3 descriptor numbers, 2 DNS queries through each | no descriptor of somebody else is closed; failed starts and stops leave nothing; traffic goes to the engine's own proxy; queries are answered; goroutines end; `MobilePromise` is implemented |
| `dns_questions` | up to 2 questions, 6 names, cut off at every byte, counts 0, 1, 2 and 65 | the parser stays inside, agrees with the format, ends; no AAAA question gets through |
| `wintun_cache` | 2 processes, 2 kills or power failures | only the verified driver is loaded; never half of one |
| `links` | credentials of up to 4 tokens in a link (`MaxTokens`); user and password of up to 2 each in a form or a line (`MaxTyped`); links with 3 schemes, 5 identities and an absent one, 7 tails; ports -1, 0, 1080, 65535, 65536; hosts: none, a name, an IPv6 address (in brackets or not), a name with `/`, `@`, `?`, `#`, `%`, `%25` or `:99` in it, an IPv6 address with a zone | the engine dials what the user gave; the platforms agree; nothing accepted is refused later, each but for the cases its property names |

Why the bounds are enough. The Linux plan has one step per kind of command plus
one per default route, so one route already contains every kind of dependency;
the theorems remove this bound altogether. Two runs, two processes or two
engines are every pair of actors that can interfere, and the shared state has
no counter a third could matter to; two runs of the desktop application are the
old and the new one that its shared variables can confuse. Four or five intents
are a connect, a disconnect, another connect and a query or two with an
instance for each, and every instance after a service was destroyed is like the
second. Three descriptor numbers are one for each engine and one more for a
socket that takes a number just closed. Two queries are one that is answered
and one behind it. Two faults are a crash and a crash during the recovery from
it. Two questions are the smallest message in which the second one starts where
the parser left the first. Four tokens hold a user, a separator and a password
with an escape in it, or a second separator on either side. The theorems have none of these bounds: they hold for any number of steps, of
interfaces, routes and runs, of clicks, intents, engines, processes and faults,
and for messages and credentials of any length.

Fairness is assumed for what the code does on its own and for nothing else. In
`DesktopClient` goroutines run, the engine's start and stop return (`Start`
takes no context and has no wait of its own), an interface appears or 12 s
pass, and a command that hangs is killed when its context is done; a command of
`apply` may hang as long as nobody cancels, and nobody has to. In `DesktopGui`
goroutines are scheduled, the event loop runs what is posted, and a cancelled
run returns; users do nothing they do not want to. In `AndroidTunnel` the
executors and the main thread run (handshakes have timeouts), and the system
notices a closed interface. In `EmbeddedEngine` the goroutine of the check
ends, a stop that has begun goes on, and a DNS exchange ends by itself after
ten seconds, answered or not; the resolver need never answer. In `DnsQuestions`
a query is worked on until it is answered. `LinuxSessions`, `WintunCache` and
`ProxyLinks` need none, as only safety is stated about them.

`patient` in `DesktopGui` marks the behaviours of a user who clicks only when
the window shows everything that was posted. `OneRunThatStops`,
`LampFollowsPatientUser`, `WindowIsOfLatestRun` and `ExitLeavesNoRun` are
stated for it, the other properties for every order in which clicks and posted
functions meet. `orderly`
in `AndroidTunnel` marks those in which the user and the system act when the
application is at rest: `EngineIsOwned`, `LampTellsTruth` and `AmberEnds` are
stated for it, `DescriptorsOwned` for all.

## What is proved

Every safety invariant and every action property that a passing run checks is a
theorem, and so are both refinements (`PromiseSpec`, `KeepsMobilePromise`). The
theorems hold for every value of the constants that satisfies the named
assumptions:

| assumption | says |
|---|---|
| `OSAssumption`, `NAssumption` | Linux, macOS or Windows; a plan of at least one step |
| `LivesOnAssumption`, `OnDeviceAssumption` | a setting lives on settings of earlier steps only; on Linux none goes with the engine's device, as the one `ip tuntap add` made is persistent |
| `NamesAssumption` | no interface of the host is called `none`, `tun0` or `all` |
| `WorldsAssumption` | a behaviour starts on a host without `tun0`, with finitely many routes the kernel accepts, no two to one destination with one metric; finitely many runs |
| `BoundsAssumption`, `MaxFaultsAssumption`, `ProcessesAssumption`, `MaxTokensAssumption` | bounds are numbers, processes are finitely many |
| `QueriesAssumption` | a query has a header or not, a count and a sequence of bytes |

None of the properties is inductive. Each module of proofs has an invariant
that is, a lemma per action or group of actions that says it is kept, and the
theorems that follow.

**`DesktopClientProofs`**, for every operating system, number of steps and
relation between settings: `TypeCorrect`, `Restored`, `DeviceGone`,
`ConnectedInstalled`, `UndoIsApplicable`, `OneOrphan`, `AfterStop`
(`NothingAfterStop`: nothing happens on the host once the engine has stopped),
and two that no run repeats: `StatisticsRead` (the statistics never read a
stopped engine) and `Clean` (a dry run touches nothing, success means an orderly
end).
`KeepsPromise`: the session implements `TunnelPromise`. macOS, whose plan of
ten steps comes after the engine, is an instance of all of them.

That a returning run has restored everything depends on what `apply` had
changed at the moment it gave up. `IInv` says place by place what is changed:
nothing during inspection; in `apply` exactly the prefix of the plan in the
list, plus the setting of a command that has taken effect and was not reaped;
the whole plan while connected; in the rollback at least the prefix still
listed and at most that and the excused settings; nothing but these at the end.
Together with where the engine is (`InvDown`), where the statistics goroutine
may be (`InvWatcher`) and how a run got to its return (`InvReturn`) it is kept
by every action. The step that needs an assumption is the undo:
`LivesOnAssumption` makes it take nothing of the prefix before it
(`UndoKeepsPrefix`).

**`LinuxSessionsProofs`**, for any host, interfaces, default routes and number
of runs. `RunsInv` holds whoever else is on the host: a run has something
applied only while `tun0` exists, and only one run at a time has. From it follow
`OneRunHoldsTun` (`TunIsALock`) and `NothingMovesAfterAKill`
(`KilledRunFreezesHost`). For a run nobody interferes with, `AloneInv` says that
the host is exactly what the first `applied` steps of the plan make of the
original (`After`: `tun0`, its address and its link; the original routes without
the defaults deleted so far; the plan's two routes; the `rp_filter` values), and
that no undo was refused. It is kept by a command because an accepted one turns
`After(h, i, n)` into `After(h, i, n + 1)`, and by an undo because the kernel
accepts it and it leads back to `After(h, i, n - 1)`: the route deleted last has
a metric that no route left has, and what a `route del` means is one route only.
It gives `HostIsRestored`, `TunnelIsFull`, `SocksIsReachable` and
`SettingsFollowSteps` (`HostRestored`, `FullTunnel`, `SocksReachable`,
`SettingsAreSteps`). The last one connects `LinuxSessions` to the picture
`DesktopClient` has of a setting.

**`EmbeddedEngineProofs`**, for any number of engines, descriptors and queries:
`EngineTypes`, `OnlyItsOwn` (`ClosesOnlyItsOwn`), `Nothing` (`NothingLeft`),
`OwnProxy` (`TrafficUsesItsProxy`), and `KeepsPromise`, that the engines of an
Android process implement `MobilePromise`. `IInv` determines what an engine
holds from the place of its start or stop (`HoldsAt`), says that one engine is
in the middle of either at a time (`OneAtATime`), that the dialer and the tunnel
belong to the engine that configures, serves or stops (`UpstreamOwned`), and
that a number an engine still has to close is open, nobody else's, and no other
engine's (`NumbersOwned`).

**`DesktopGuiProofs`**, for any number of runs and any length of the queue:
`GuiTypes`, `LatestPair` (`PairIsLatest`), `OneRun` (`OneRunThatStops`),
`LatestWindow` (`WindowIsOfLatestRun`) and `LampIsTrue`
(`LampFollowsPatientUser`). `IInv` has the runs used in order and the pair of
the latest; for a patient user it says what the window will show once everything
posted has been shown, from which it follows that Connect is enabled only when
no run is left. `WindowInv` says that the buffer, what is shown and every report
on its way are of the latest run, and that the last text posted is the buffer,
but for a line being written or a reset under way. `LampInv` says that a lamp
that will be amber or green has a run behind it, or an application that is about
to exit.

**`AndroidTunnelProofs`**, for any number of intents and instances:
`AndroidTypes`, `NoDescriptorLeaks` (`DescriptorsOwned`), `EngineOwned`
(`EngineIsOwned`) and `LampIsTrueAtRest` (`LampTellsTruth`). `IInv` places every
open descriptor. `OrderlyInv` is about a user who waits: one intent, revocation
or end of an instance is under way at a time (`OneTask`); it is at the instance
the next intent would go to, or at one that is ending (`Placed`); and an engine
belongs to the instance whose `running` is set, which is the one the VPN is
bound to or one whose `onDestroy` is about to stop it (`Engines`). It is not
enough that these hold when the application is at rest, as every one of them is
broken and mended in the middle of a task; the invariant follows the task through
the main thread, the executor and `onDestroy`. `LampInv` says that, once nothing
is left that has yet to broadcast, the last broadcast on its way, or the lamp
itself, tells what the engine is.

**`WintunCacheProofs`**, for any number of processes and faults: `CacheTypes`,
`Verified` (`LoadedIsVerified`), `Untorn` (`NeverTorn`), and `FaultsOnly`
(`OnlyFaultsLeaveFiles`, which no run repeats). `IInv` says that a file was
synced before it was renamed and that a process reaches the load only with the
verified driver in the cache.

**`DnsQuestionsProofs`**, for every set of queries, of any length and any bytes.
`StaysInside` (`TypeOK`): the offset of the parser never leaves the message, so
no index expression of `parseDNSQuestions` fails. `AcceptsTheFormat`
(`ParsesTheFormat`): the parser accepts a message exactly when it begins with
the questions its header promises, and finds their types and their end.
`NoAaaaResolved` (`NoAddressOfIPv6`): a question for an IPv6 address anywhere in
a message keeps it from the resolver. The two directions need an invariant each:
`FormatInv` takes a way in which the whole message is encoded and says that the
walk stands at one of its cuts; `AcceptInv` takes what the walk has passed and
says that it is encoded, name by name and label by label.

**`ProxyLinksProofs`**, for credentials of any length: `FieldsReachTheEngine`
(`EngineGetsTheFields`), `LinkReachesTheEngine` (`EngineGetsTheLink`),
`PlatformsAgree` (`LinksAgree`) and `NothingIsRefusedLate` (`NoLateRefusal`).
`LinksInv` says stage by stage that what a platform has made of the input is
the settings the input means. It rests on lemmas about the operators: what an
authority is split into and put together from, that decoding undoes encoding,
that `ParseURL` reads back what `URL` writes, if the host comes back
(`HostBack`) whatever the credentials are (`RoundTrip`), that an `@` in a host
moves the end of the credentials (`SignMovesOn`), and that the Go and the Kotlin
parser make the same of a link the property does not exclude (`ParsersAgree`).

Only model-checked are the liveness properties (`RollbackEnds`, `CancelReturns`,
`CloseIsGranted`, `AmberEnds`, `QueriesAnswered`, `GoroutinesEnd`,
`ExchangeEnds`), as they rest on fairness and `ENABLED`, which are out of the
prover's reach, and the three violations. That the format of `DnsQuestions`
reads every list of questions back is `EncodedAsFormatted`, checked by TLC for
up to two of them: for any number it is an induction over the list.

## Findings

- **A killed command is not rolled back** (`killed_command`). `apply` appends a
  step after its command has returned without error. A cancel kills the command
  in flight; if it had changed the routes already, the step is not in the list
  and stays in force after `Run` returns.
- **The application can exit with a run active** (`gui_exit`). The goroutine of
  a close request waits for the run it saw and closes the window without
  looking again. The trace: a close request while run 1 is up; run 1 ends, and
  its "Disconnected", once shown, enables Connect; Connect is clicked; the
  goroutine, which has seen run 1 end, posts the close; run 2 starts; the window
  closes, with run 2 cut off and the network changed. The user of this trace
  clicks only what the window offers.
- **A red lamp over a running engine** (`android_retry`). A start that fails
  ends in `stopSelf()`, which destroys the service although another START is
  waiting; its `onDestroy` reads `running` before that start sets it, and the
  rejected statistics task sends it to the catch block, which does not stop the
  engine. Every later start is refused.

Known limits met while modelling, excluded by a stated condition of a property
or kept out of the model:

- `DesktopClient`: a terminal's Ctrl+C reaches the child commands as well; an
  undo it kills is one that fails (`UndoFails`), and its setting is `stuck`.
- `DesktopGui` without `patient`: a Disconnect click handled while the end of
  the run is still queued posts "Disconnecting" behind it, and lamp and buttons
  stay that way. Two Connect clicks before the button is disabled start two
  runs, which share the dialer and the tunnel of the engine; when the first
  ends it clears the `cancel` of the second, and a close request then exits at
  once. A log text read
  before the reset of a Connect can be shown after it.
- `HostRestored` and `FullTunnel` with a multipath default route: `ip` prints
  its next hops on lines of their own, which `parseLinuxRoutes` drops; the
  route is deleted and its first line cannot be added again. When it is the
  only default route and `--interface` is given, it is not deleted and, with
  metric 0, beats the route into the tunnel.
- `SettingsAreSteps` on a host that already has the default route the plan adds
  for its interface (metric 10): the plan deletes it with the others and adds
  it again, so that one command changes two settings. `HostRestored` holds
  there too.
- `SocksReachable` with `--interface`: the plan gives that interface a default
  route, but the engine is bound to the one `DetectRoute` found, which may have
  lost its own.
- `HostRestored` with two runs: one that reads `rp_filter` while another is up,
  and creates `tun0` after it has gone, restores the other's zero.
- `LampTellsTruth` and `AmberEnds` after a link was opened over a running
  tunnel: `importedConfiguration` swallows the answer to Disconnect, and
  Connect, which would reset it, is disabled. After a revocation the answer may
  be dropped with the executor.
- `EmbeddedEngine`: `serveDNS` sets no read deadline, so every DNS socket keeps
  a goroutine and its buffer of 64 KiB until the engine stops. The warning
  `LastWarning` returns may be that of an earlier engine.
- `EngineGetsTheLink` and `LinksAgree`: Android takes the user information of a
  link unescaped and then splits it, so that an escaped colon in the user name,
  which `README.md` asks for, ends it there. An empty query or fragment and an
  `@` that is not escaped are accepted by the Go parser only.
- `NoLateRefusal`, hosts typed into the form (`RefusedLate`): a name with `?`,
  `#`, `%` or a colon passes the validators (`settings.go:58`, `main.go:309`,
  `MainActivity.kt:275`) and is refused when the connection is made, on the
  desktop by `client.Run` (`url.Parse`, or the resolver), on Android by
  `Mobile.checkProxy`. On the desktop a name with an `@` or a `%25` is refused
  there too; on Android an IPv6 address with a zone, whose `%` is written
  unescaped. `settings.go:133`, "URL returns a safely escaped URL accepted by
  tun2socks", is not true of `a@name`, which is written as `a%40name`, an escape
  that `net/url` does not allow in a host.
- `EngineGetsTheFields` (`Misread`): on Android what stands before an `@` in the
  host becomes a part of the credentials, and a `%25` in it is unescaped, so
  that the engine gets another host than the form shows.

## Not modelled

The routes of macOS and Windows hosts are abstracted to numbered settings; the
theorems about `DesktopClient` hold for their plans. What a host name in a
link may consist of is left to `net/url` and `java.net.URI`, which differ in it
(the hosts of forms and lines are in `ProxyLinks`). The
rates and counters of the statistics, the trimming of the log, the redaction of
passwords in it, stored preferences, notifications, flags, messages, layout and
icons carry no property. The diagnostic proxy in front of the SOCKS server
only words a warning. Platform probes are stateless reads whose outcomes are
choices in `DesktopClient`. gVisor, tun2socks and the container, scripts,
packaging and site are not behaviour of this code.

## Plan

What is left, in the order of what matters most:

1. The routes of macOS and Windows hosts, as `LinuxNetwork` has those of Linux,
   with the abstraction of `DesktopClient` checked and proved for them.
2. `AndroidStatistics`: the scheduled task of the service against STOP, restart
   and onDestroy, and the order of its broadcasts with the status.
3. `TrafficStatistics`: counters that wrap or restart with the device, and the
   rates made of them.
4. A promise of the desktop run as a module of its own between `DesktopGui` and
   `DesktopClient`, as `MobilePromise` is between `AndroidTunnel` and
   `EmbeddedEngine`.

# A TLA+ verification of netrunner

netrunner starts, changes, saves and stops networks of `luxd` nodes on one
machine. This directory holds TLA+ modules that model it, TLC configurations
that check them on small instances, and TLAPS proofs for instances of any size.
The models are translated from the Go source; `PROJECT.json` maps every
definition to the lines it stands for.

## The system

| Part | Source | State | Operations |
|---|---|---|---|
| node process | `local/node_process.go` | `state`, `closedOnStop`, `lock`, the OS process | `start`, `awaitExit`, `Stop`, `Status` |
| local network | `local/network.go`, `local/node.go`, `local/helpers.go` | `nodes`, `bootstraps`, `nextNodeSuffix`, `onStopCh`, `lock` | `NewNetwork`, `AddNode`, `RemoveNode`, `PauseNode`, `ResumeNode`, `RestartNode`, `Healthy`, `Stop` |
| provisioning | `local/blockchain.go` | node flags, `subnetID2ElasticSubnetID`, the P-chain | `CreateSubnets`, `CreateBlockchains`, `AddPermissionlessValidators`, `RemoveSubnetValidators`, `TransformSubnet` |
| snapshots | `local/snapshot.go` | the snapshots directory | `SaveSnapshot`, `NewNetworkFromSnapshot`, `RemoveSnapshot`, `GetSnapshotNames` |
| control service | `server/server.go`, `server/network.go` | `network`, `clusterInfo`, `asyncErrCh`, `mu` | one handler per RPC, `WaitForHealthy`, `stopAndRemoveNetwork` |
| status stream | `server/server.go` | the goroutines and channels of a stream | `StreamStatus`, `sendLoop`, `recvLoop` |
| server life cycle | `server/server.go`, `cmd/server/server.go` | the gRPC and gateway goroutines, their error channels | `Run`, `serverFunc` |
| client, command line | `client/client.go`, `cmd/control/control.go`, `cmd/ping/ping.go`, `rpcpb/` | a connection, deadlines, the goroutines of `stream-status` | one RPC per command |
| node settings | `server/network.go`, `local/network.go`, `local/helpers.go` | configs of nodes and network, arguments of luxd, ports | `createConfig`, `addNode`, `buildArgs`, `getPort`, `getFlagsForLuxdVersion`, `fixDeprecatedLuxdFlags` |

They interact as follows. The command line calls the client, the client calls
the control service, and a handler of the service holds `s.mu` while it works on
the one network the service owns. Every operation of that network holds
`ln.lock`; it launches and stops luxd through a node process, which has a lock
and a goroutine of its own. Provisioning calls talk to the nodes' P-chain API
for minutes with `ln.lock` held. A snapshot turns a network into files and back.
Options of a request, defaults of the network and what earlier operations pinned
are merged into the arguments of luxd each time a node is launched.

What makes this hard, and is hard to test:

- luxd processes exit at any moment, while operations, health checks and
  provisioning calls are under way;
- `Stop` closes a channel before it asks for the lock, so operations that do
  not look at the channel run in between;
- operations fail halfway: a pause that stops the process and reports an
  error, a restart that loses the node, a transaction accepted after the wait
  for it has timed out, a save that has stopped the network and written half;
- waits without a deadline: `Healthy`, `WaitForHealthy`, the wait for
  validations to begin, a send to a client that does not read;
- the process can die between two file operations, and several netrunner
  processes share one snapshots directory;
- callers leave before their handler has the lock, and the server stops while
  handlers run, wait for the lock, or have not been called yet;
- a setting passes through merging, pinning, renaming for old binaries, a
  snapshot and a load before luxd sees it again.

`PROJECT.json` lists these hazards at their lines, with the properties that
would catch them going wrong.

## The modules

**`NodeProcess`** is the wrapper of one OS process. Its variables are `state`,
the channel `closedOnStop` (how often it was closed), the lock with its holder,
the goroutine `awaitExit` and a program counter for every caller of `Stop`. The
critical sections that block, or must not, are separate steps. luxd is the
environment: it may exit at any time, may ignore SIGINT, and dies of SIGKILL.
The context of a caller may be done at any time, or never.

**`StoppableProcess`** is the abstract promise: a process runs, stops being
run, and every `Stop` is answered with its exit code after its end.
`NodeProcess` is shown to implement it, with TLC and by proof.

**`LocalNetwork`** is the set of nodes with their processes and the list of
beacons. An operation holds `ln.lock` and is one action, all of its calls
included; what interleaves is the exits of processes, the polling of `Healthy`
and the two halves of `Stop`. It uses a process through the promise of
`StoppableProcess`: `Stop` returns when the process has ended, with a code that
is zero or not. A call that only returns an error is not an action.

**`Subnets`** follows a provisioning call step by step: add the missing nodes,
wait for health, make them primary validators, create the subnet, wait, add
validators, restart the nodes with the new flag, reload plugins, wait, create
the chain, wait for its log. Every step can fail, the call can be aborted by
`Stop`, and meanwhile processes exit and validations begin. A call has one spec.
Between calls nodes are added, paused, resumed, restarted and removed. What a
node tracks is a key of its flags; `Start`, `AddNode` and `RestartNode` let a
client set that key, and `custom` holds the nodes for which one has. Whether a
subnet is elastic, or a node validates it already, the code leaves to the
P-chain, and so do the guards of the calls. A call that finds no active node
panics (`getClientURI`), and with it the server.

**`Snapshot`** takes `SaveSnapshot`, `loadSnapshot` and `os.RemoveAll` apart
into file operations. Each of them can fail and leave a missing or a partial
file, and the process can die between any two.

**`Server`** is the control service with the network it owns. A handler holds
`s.mu` and is one action per outcome. The local network is used through what
`LocalNetwork` shows of it (an operation that fails may have changed the nodes),
the P-chain through its subnets, chains and validators. `WaitForHealthy` takes
one look per lock period; between looks anything can happen. `Health`,
`RemoveNode`, `RestartNode`, `PauseNode`, `SaveSnapshot`, `AttachPeer` and
`SendOutboundMessage` wait for others under the context of their caller alone:
they take `s.mu` in an action of their own (`Hold`) and may keep it for ever,
while processes exit and waiters wait.

**`StreamStatus`** is the handler, `sendLoop` and `recvLoop` of each stream,
with the transport's flow control and a handler that wants `s.mu` for writing
and may keep it. A push interval that is not positive makes `sendLoop` panic at
its first tick (`TickPanics`), which ends the server.

**`ServerRun`** is `Run`: the gRPC and gateway goroutines with their unbuffered
error channels, the three ways out of the select, and handlers that compete with
the shutdown for `s.mu`.

**`Control`** extends `ServerRun` with its callers: commands of the CLI, HTTP
requests through the gateway, and programs that use the client library. A
command is a record of what `cmd/control` does for it (whether it parses
arguments after connecting, and the handler its RPC reaches); a handler is the
lock it takes, what bounds the time it holds it, and its effect on the network.
The bound is a timeout of the server, the context of the caller, or nothing but
the other side: `AttachPeer` does a TLS handshake with a node without a deadline.
Callers dial, send, wait, time out and lose connections; `ServerRun` dispatches
their requests or shuts down.

**`AtMostOnce`** is what a caller may rely on: a request takes effect at most
once, "ok" means that it did, a refusal that it never will. `Control` is shown
to implement it, with TLC and by proof.

**`StreamClient`** extends `StreamStatus` with the `stream-status` command: its
range loop, the goroutine that waits for signals, the client's receive routine
and the channel between them. It is proved to be a client as `StreamStatus`
allows it.

**`Settings`** follows the settings of nodes (binary, flags, config files,
directories, port) from a request to the arguments of luxd, and through
restarts, pauses, resumes, saves and loads. Flags are functions from names to
values. Binaries before v1.9.6 know two of the flags by other names. The
`ConfigFile` of a node, the last source of a directory or a port, is empty: no
request sets it.

**`NodeSettings`** is the abstract promise: a node is created from the defaults
of its network and its options, and from then on a setting changes only by an
option that names it. `Settings` is shown to implement it, with TLC and by
proof; the mapping reads the settings off luxd's own arguments, as a binary of
its version understands them.

The modules `MC...` give the constants values for TLC, the modules `...Proofs`
hold the theorems. A definition named `<Name>_<Variant>` stands before `<Name>`
and is what a plausible mistake in that code would make of it; no specification
uses it. It shows that a property depends on the definition: with the variant in
its place TLC finds the property violated.

How the modules fit together:

    AtMostOnce                       NodeSettings
        ▲                                 ▲
     Control ── ServerRun              Settings
        ├────── Server ── LocalNetwork ── StoppableProcess
    StreamClient    │           │               ▲
        │        Snapshot    Subnets       NodeProcess
    StreamStatus

A triangle is a refinement: the lower module is shown to implement the upper
one. `Control` EXTENDS `ServerRun`, and `StreamClient` EXTENDS `StreamStatus`;
the other lines are uses through what the module at the right, or below, shows.

## The runs

Run with `tlc -workers 2 -config <cfg> <module>`. All of them explore their
state space completely.

| Run | Instance | Shows |
|---|---|---|
| `node_process` | 3 callers of `Stop`, exit codes 0 and 1; 28k states | every `Stop` returns once luxd has exited or the context of the stopping call is done, with the exit code and only after the end of the process; the channel is closed once; the promise is implemented |
| `local` | 2 names, 2 keys, 2 ports, 3 processes, one `Healthy` call, creation from a plain node and a beacon; 520k states | no process is orphaned; after `Stop`, or a failed creation, nothing runs; loaded nodes know all beacons; no generated name takes over a paused node; `Healthy` never overlooks a dead node; `Stop` always completes |
| `server` | 1 node, 1 subnet, 2 networks, 2 waiters; 177k states | what `clusterInfo` and `asyncErrCh` say agrees with the network that runs, whatever handlers fail; every `WaitForHealthy` returns unless a handler keeps `s.mu` for ever |
| `stream` | 2 streams, a window of 1 message; 73k states | stream handlers return once cancelled; no goroutine is left; nothing is sent after the handler has returned, nor while a writer has `s.mu`; writers get `s.mu` |
| `stream_client` | 1 stream, a window of 2 messages; 47k states | the command ends after a signal, its timeout or a shutdown, leaves no goroutine in the server once `s.mu` is given back, and never keeps it from a handler |
| `control` | a CLI command of each kind, and an HTTP or library caller; 124k states | a request is executed at most once and answered truthfully; commands return; `Run` returns, unless a node leaves `AttachPeer` waiting, and leaves no goroutine of its own blocked; a shutdown leaves no caller waiting |
| `settings` | 2 nodes, 2 ports, 5 requests, binaries of two generations; 76k states | luxd runs with the settings `NodeSettings` promises, and in the directories of its own network |
| `snapshot` | 1 process, 1 name, 2 nodes, 2 ports; 43k states | a save that reported success is complete and stays so; a load gives back what was saved; no network counts a subnet as elastic that its chain does not |
| `subnets` | 2 nodes, 1 subnet; 783k states | nodes track what they validate unless a client has set what they track, and run with what their config says; the P-chain refuses only what a request asks too much of; no wait for a new chain that cannot end; `Stop` completes |

Three runs are expected to end in a violation. Each checks what a comment says
and finds that the code does otherwise.

| Run | Property | Counterexample |
|---|---|---|
| `launch_after_stop` | `NoLaunchAfterStop`: `addNode` "Assumes [ln.lock] is held and [ln.Stop] hasn't been called." | `ResumeNode` and `RestartNode` do not look at `onStopCh`: between the close and Stop's lock they launch a process. `StoppedIsDead` holds nevertheless, as `Stop` finds the process. |
| `server_panic` | `AwaitDoesNotPanic`: "Returns nil when [lc.nw] reports healthy." | With all nodes paused the network is healthy, and `updateSubnetInfo` calls a method of a nil node. |
| `late_handler` | `NoNetworkAfterSignal`: "stop the server and wait for it to finish." | `gRPCServer.Stop` does not wait for handlers: one that queues for `s.mu` gets it after `Run` and starts a network nobody stops. |

Why the bounds are enough. Three callers give a first, a concurrent and a late
`Stop`. Two names suffice for a node that changes while another must not, three
processes for a creation of two nodes and a restart, and a name that is
generated beside a paused node is the second one. Two waiters compete for one
error, two networks make an old error possible; the node count of `server` is
one. A window of one makes the transport's buffer full at once; the two of
`stream_client` let the client's channel and the transport hold a message each.
Two callers make a holder of `s.mu` and one that queues for it. Five requests
are a start, a change, a save, a load and a change after it. What the small
instances leave open is closed by the proofs for the invariants of
`node_process`, `local`, `server`, `stream`, `snapshot`, `subnets`, `control` and
`settings`.

Bounds that the code does not have are `MaxNetworks` (`Server`), `Pids`
(`LocalNetwork`), `Window` (`StreamStatus`; the transport has one of its own) and
`MaxClock` (`Settings`). Symmetry is used over processes only, and never with
liveness. With a second process on the snapshots directory `SavedIsComplete`
does not hold, see below; the run and the theorem are about one.

Deadlock checking is off where the system may stop for good: a network that was
stopped, a server that has returned, a bound that is used up. It is on for
`snapshot`, where something can always be started again.

## Fairness

- `NodeProcess`: goroutines run, a mutex that is released again and again is
  obtained (strong fairness; Go's mutexes do not starve). Contexts need not end:
  `RemoveNode`, `PauseNode` and `RestartNode` pass on that of their request. So
  `StopTerminates` speaks of a process that has exited, or of a stopping call
  whose context is done; without either, `Stop` waits for a luxd that ignores
  SIGINT.
- `LocalNetwork`: a `Healthy` call that can go on does, the goroutine that
  watches `onStopCh` runs, `Stop` gets the lock it waits for. No node is assumed
  to become healthy, no caller to have a deadline.
- `Server`: a waiter gets the read lock when it is free again and again. No
  handler is assumed to be called, no deadline to pass, and no handler that took
  `s.mu` to end: `WaitReturns` has it as its hypothesis that none keeps the lock
  for ever. If one does, not even the deadline of `WaitForHealthy` ends it.
- `StreamStatus`: goroutines run, the ticker ticks, `RWMutex` serves everyone.
  Nothing is assumed of clients, nor of a handler that holds `s.mu`; what a
  property needs of them is its hypothesis. `WriterGetsLock` holds if the clients
  keep reading (`KeepReading`), `HandlerReturns` if the clients of the *other*
  streams do and the handlers that hold `s.mu` end (`WritersEnd`). All are
  needed: `sendLoop` holds `s.mu` while it sends, so one client that stays
  connected and does not read stalls every handler, and it notices a cancelled
  stream only when it has that lock.
- `StreamClient`: also the goroutines of the command run, and the transport
  tells the server of a cancelled stream. `KeepReading` is not assumed: that the
  command reads, or hangs up, is what `CommandYieldsLock` shows. `StreamReleased`
  has `WritersEnd` as its hypothesis; `StreamCommandEnds` does without.
- `ServerRun`: `Run` goes on, `Serve` returns after `Stop`, dialing has a
  timeout. Neither a signal nor a failure is assumed.
- `Control`: callers proceed until they wait for an answer; only the CLI has a
  deadline. A handler that holds `s.mu` ends if a timeout of the server bounds
  it, or once its caller's context is done; `Health`, `RemoveNode`, `PauseNode`,
  `RestartNode` and `SendOutboundMessage` have no other bound. So `RunReturns`
  needs the shutdown to close connections. `AttachPeer` has no bound at all
  while it connects: `RunReturns` has it as its hypothesis that the node answers
  (`Attaching`), and has the one exception its definition names.
- `Subnets`: the call goes on when it can, `Stop` gets a lock that is free again
  and again. Validations need not begin, and calls need not have deadlines.

A hypothesis such as `WritersEnd` stands in the property itself, so that it can
be read there what the code does not guarantee.

## What is proved

`tlapm M.tla` checks the proofs of a module. Eight modules hold theorems; none
of them bounds the constants of its component.

`NodeProcessProofs`, for any set of callers and exit codes. `IInv` has a part for
each thing `Stop` relies on: what has happened before the process is published
(`UnpublishedInv`), what the position of `awaitExit` says about the process and
the channel (`AwaiterInv`), who holds the lock (`LockInv`), that whoever signals
has first left state Running behind (`StopperInv`), that a kill follows a
deadline (`DeadlineInv`), what an observer has seen (`SeenInv`). None of the
properties is inductive alone: that a `Stop` which finds the process Stopped
returns its code needs the link between `state`, the channel and the exit code,
which needs the lock. From `IInv` follow the safety properties, three of which
no run checks (one goroutine signals, SIGKILL follows a deadline, `Status` never
goes back), and, step by step, that the wrapper implements `StoppableProcess`.
Assumed: exit codes are natural numbers and differ from the value for "none".

`LocalNetworkProofs`, for any names, keys, ports, configs, processes and callers of
`Healthy`. `IInv` joins the types and `StoppedIsDead` to: every running process
has a listed node that is not paused (`Owned`); nothing exists before
`NewNetwork` (`NewInv`) and nobody calls `Stop` or `Healthy` before it returns
(`ReadyInv`); while nodes are loaded the beacon list is that of the nodes, and
once a plain node is there no beacon is left to load (`LoadInv`); a `Healthy`
call that has not failed still has every node in hand that was dead at its
beginning, and polls only listed ones (`CheckInv`). `StoppedIsDead` needs `Owned`
(Stop ends the processes of listed nodes, which are all that run), and
`HealthyIsHonest` needs the lock: nothing can start a dead process again under
a call that polls. `LaunchKeeps` and `RemoveKeeps` say what `addNode` and
`removeNode` preserve from any nodes, beacons and processes, because
`restartNode` runs the first on what the second has left. Assumed: names are
numbered, configs are configs, and the values for "none" are not values of the
type they stand beside.

`ServerProofs`, for any nodes, subnets, waiters and number of networks. `IInv` is
the type invariant with `HealthMatchesNetwork`, `DeliveredErrorIsCurrent`,
`InfoStaleOnlyAfterError`, `SubnetsKnown`, `NoNodesWithoutNetwork` and one more
conjunct, `InfosFresh`: `CreateSubnets` without specs copies `nodeInfos` to
`clusterInfo`, so `nodeInfos` itself must be current while no handler has failed.
The proof has one lemma for each of the ways a handler ends (a running network
reported, the network removed, a node operation that succeeded or failed) and
reduces every handler to them. That a handler which fails after `updateClusterInfo`
cannot separate the flag from the network is the heart of it. Assumed: the
values for "none" are not values of the type they stand beside.

`StreamStatusProofs`, for any streams and window. `IInv` is the types,
`SendWithinHandler`, and `ReportOnce`: `errCh` is empty until the goroutine around
`recvLoop` has reported. So a report always finds room, also when the handler no
longer listens, and the goroutine ends. `NoSendUnderWriter` is inductive with the
types alone: a writer gets the lock only when nobody sends, and no send begins
while it waits or has the lock. The module extends
`StreamClient`: `ComposesWithHandler` shows that the command takes only steps
which `StreamStatus` allows a client, so all of this holds for the client of
this repository. `CommandInv` says which of the command, its watcher and its
receive routine run at each stage and what has ended the context. From it
follow that the channel of updates is closed only when the command gives up or
the stream is over, and that after an interrupt or the timeout the three never
wait for each other in a circle; fairness, and so `StreamCommandEnds`, is left
to TLC. Assumed: the window is positive, and the stream of the command is one
of the streams.

`ControlProofs`, for any calls and commands. `RunInv` orders the stages of `Run`
and its two goroutines; `NoBlockedSender` follows. `ComposesWithRun` shows that
handlers and callers take only steps `ServerRun` allows. `CInv` ties a caller's
stage to its handler's and to the reply between them; with it every step of
`Control` is a step or a stutter of `AtMostOnce`. The delicate case is the late
one: a handler that gets the lock after its caller has left, or after the
connection was cut, still executes, and must not answer a second time.
`ShutdownFinal` bounds the finding of the run `late_handler`: once `Run` has
returned and has stopped the gRPC server (`StopInv`: unless `Serve` failed by
itself), nothing is dispatched any more, and only a handler that was dispatched
before and creates a network can bring one up. Assumed: the commands in use are
those of `cmd/control` (`UsesAssumption`).

`SnapshotProofs`. The types, for any number of networks on a directory: here
`TypeOK` is not inductive, as `TransformSubnet` asks every node for a database;
`IType` adds that a network has one for each of its nodes, and that an operation
under way holds a whole copy of what it saves or loads. `SavesComplete`,
`LoadsRestore` and `MapsWithinChain` have the hypothesis `OneNet`, one network on
the directory. The first two rest on `SaveProgress` and `LoadProgress`: at each
step of a save what was written so far equals what the operation holds, and of a
load what was read. The third is about snapshots that nobody completed, too, so
it has an invariant of its own, `MapInv`: wherever a map of elastic subnets is,
in a network, in an operation or in a directory, every whole database beside it
has their transactions. It holds because `state.json` is the last file a save
writes and a load reads, and because a save begins in a directory that is not
there.

`SubnetsProofs`, for any nodes and subnets. Between calls `ValidatorsTrack` is
simple; the invariant says what remains of it *during* one. While validators are
added or removed the flag of a node may lag behind the P-chain, but only by the
subnet of the call and only if the node is one of its participants (`Lagging`);
whoever was dealt with has changed (`Changed`); and once `restartNodes` has
passed a node it is `Tracked` again, unless a client has set its key. `JoinInv`
says which nodes have yet to become validators, which is what keeps transactions
from being refused. Both hold until a call fails (`clean`), since a failed call
stops wherever it is. They need `ChainShape`, that a name which is no node
validates nothing and a new subnet has no validators. `FreshInv` needs no
`clean`: only its participants validate a subnet that a call has created, and all
of them are restarted to track it, whatever clients have set. The same invariant
gives `ReadyIsReachable` and `NoRefusedTx`.

`SettingsProofs`, for any nodes, ports, options and snapshots, and without the
bound on requests playing a part. Neither `DirsInRoot` nor the refinement is
inductive: what luxd runs with is read off its arguments, the next restart
starts from the config, and a load from what a save kept of it. `SettingsInv`
ties the three together. The config of a node names no directory but the
network's (`InDir`) and has a value for every default of the network, so putting
the defaults under it again, as `addNode` does at each restart, adds nothing
(`OverAbsorbs`). A node that runs has the arguments `buildArgs` makes of its
config as it is now. A snapshot has no directory of its network and a port for
each node (`IsSnapshot`). The lemmas on flags say what each function does to each
name; the one that matters most is `UnderstoodArgs`: what an old binary
understands of the renamed flags are the settings of the config. Then every
request is shown to be a step of `NodeSettings`, one lemma each (`AddStep`,
`RestartStep`, `FailStep`, ...). Assumed: the value for "none" is no record
(`NoneIsNoRecord`); options name settings, not directories or ports; a plugin
directory is named `plugins`, without which the renaming does lose it (see the
divergences below); a network is started with a binary, as `CheckExecPath`
demands; snapshots of earlier versions hold what those versions wrote
(`OldSnapshotsAssumption`).

How updates are written matters to the prover. tlapm 1.4.5 translates
`[f EXCEPT ![x].a = u, ![x].b = v]`, where one argument is updated twice, to
contradictory facts, from which it proves anything. The modules write
`![x] = [f[x] EXCEPT !.a = u, !.b = v]` instead. No action of the eight
components lets it derive FALSE.

Nearly every leaf is a first-order step. Each module starts with `USE Zenon`, and
the leaves that need arithmetic or large case splits name `SMT`; all eight
modules then check in a few minutes.

Only model-checked: liveness throughout, which is beyond this prover, and so the
three properties of the run of `StreamClient`. Every invariant that a run checks
is also proved.

## Divergences without a run

The models also show these; they are recorded here for maintainers.

- A paused beacon stays in `bootstraps`. Resumed, it is told to bootstrap from
  itself, although `addNode` says "so this node won't try to use itself as a
  beacon" (`local/network.go:635`). `AddNode` under the name of a paused beacon
  leaves the old entry behind for good. Resumed on another port, it leaves the
  old port to nodes that start later.
- A pause whose process exits with a code other than 0 returns an error with the
  node neither running nor paused; `healthy` says "If we had stopped this node
  ourselves, it wouldn't be in [ln.nodes]" (`local/network.go:689`).
- A restart of a paused node that fails has taken over some of its options.
- The validator and transformation handlers set `CustomChainsHealthy` before
  they look at the error they return (`server/server.go:570`), although
  `WaitForHealthy` reads the flag as success.
- A stream request with a push interval of 0, or less, makes the server panic:
  `sendLoop` passes it to `tc.Reset` (`server/server.go:896`; `TickPanics` in
  `StreamStatus`). `stream-status --push-interval 0` sends one.
- A provisioning call panics when every node is paused, as `getClientURI` uses
  the nil node that `getNode` returns (`local/blockchain.go:93`).
- A node whose `track-subnets` key a client has set may validate a subnet
  without tracking it; a later `CreateBlockchains` on that subnet then waits for
  a log that does not come, until its deadline.
- A validator that was removed on the P-chain by a call whose restarts failed
  goes on tracking the subnet, and a second call is refused.
- A handler that waits under its caller's context alone keeps `s.mu`; meanwhile
  `WaitForHealthy` does not return even when its deadline has passed
  (`server/server.go:421`), and no stream of a client that has gone ends.
- A start request with chain, upgrade or subnet configs makes the server panic:
  `server/network.go:167` writes to maps that are nil (`StartPanics` in
  `Settings`).
- After a load with another binary or plugin directory, nodes that are added
  later get the saved ones: the options of a load are those of its nodes.
- An old binary finds its plugins only if the plugin directory is named
  `plugins`, as it is given the parent as its build directory.
- After the client has closed its side, `StreamStatus` waits for `sendLoop`,
  which goes on sending; the log says "returning to close the stream".
- "[s.grpcServer] is already stopped." (`server/server.go:221`) is not true of a
  `Serve` that fails by itself: open connections stay, and with them handlers.
- Handlers that create or provision do not use the context of their call, so the
  timeout of a command does not end them.
- `SaveSnapshot` saves a network without beacons, which `Validate` refuses at
  every load. What a save or a removal that was cut short leaves behind is
  listed by `GetSnapshotNames`, cannot be loaded, and blocks the name.
- Two processes that save under one name both pass "check if snapshot already
  exists" (`local/snapshot.go:116`), stop their networks, and write into one
  directory; both report success. A removal can overlap a save likewise.
- Without `state.json` a snapshot loads with a warning, and `updateSubnetInfo`
  fails from then on if a subnet was elastic.

## Not modelled

- `killDescendants`: it lists the children of luxd and kills them one by one,
  and one that is forked in between survives. They are luxd's plugins, about
  which this repository has no code. Output redirection and `GetNodeVersion`.
- The genesis, staking keys and certificates: data for luxd that no operation
  reads. How settings are written to files.
- The wallet, assets, UTXOs, fees and stake times of provisioning; the P-chain
  is reduced to who validates what, and takes transactions in order.
- Several specs in one provisioning call: they go through the steps together.
- What `AttachPeer` and `SendOutboundMessage` do with peers, by luxd's library;
  that they hold `s.mu` meanwhile is in `Server` and `Control`.
- The `ConfigFile` of a node. Only programs that use package `local` by
  themselves can set it; directories, ports and, in `SaveSnapshot`, the log
  directory are then taken from it when no flag names them.
- The API clients (wrappers of RPC clients; the runner itself only closes the
  Ethereum one), message types, texts, colours and logging.
- The encoding of answers: `Status`, `PauseNode`, `ResumeNode` and `Stop` return
  the live `clusterInfo`, which is encoded after `s.mu` is released.
- The window between `getFreePort` and the moment luxd binds the port.

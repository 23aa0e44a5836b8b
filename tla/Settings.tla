------------------------------ MODULE Settings ------------------------------
(***************************************************************************)
(* The settings of nodes: how the options of requests, the defaults of the *)
(* network and what earlier operations pinned become the arguments of luxd *)
(* (createConfig of server/network.go; addNode, restartNode, resumeNode    *)
(* and buildArgs of local/network.go; the flags that SaveSnapshot and      *)
(* loadSnapshot drop, keep and replace).                                   *)
(*                                                                         *)
(* Flags and files are functions from names to values; an option that is   *)
(* not given is not in the domain.  A directory is given by the root       *)
(* directory it lies in, since below it everything is named after the      *)
(* node; chain, upgrade and subnet configs are treated alike and are one.  *)
(* Binaries older than v1.9.6 know two of the flags by other names.  Which *)
(* process is alive is the subject of LocalNetwork; here a node that is    *)
(* not paused uses its port.  A request is one action: the server and the  *)
(* network hold their locks throughout.                                    *)
(* A node's ConfigFile, to which getConfigEntry and getPort turn after the *)
(* flags, is empty: no request of the control service sets it, only        *)
(* programs that use package local by themselves do.                       *)
(***************************************************************************)
EXTENDS Naturals, Sequences, Functions

CONSTANTS
  Names,        \* the nodes
  Started,      \* those that Start creates
  DefaultPort,  \* their ports in local/default
  Ports,
  StartRequests, \* requests to start a network: options, node configs, port modes
  Requests,     \* the options of other requests: binary, flags and files
  OldSnapshots, \* snapshots that earlier versions of the runner left
  Busy,         \* sets of ports that other programs can be using
  MaxClock,     \* bound on the number of requests
  None          \* no node, no network, no snapshot

ASSUME PortsAssumption == DefaultPort \in [Started -> Ports]

VARIABLES
  nodes,    \* ln.nodes: the config, the port, paused, the arguments of luxd
  nw,       \* the network's defaults, and whether ports may be reassigned
  clock,    \* counts the requests; root directories are named after the time
  root,     \* the root directory of the network
  snap,     \* the snapshot saved last
  asked,    \* the options of the last request, for the network and for nodes
  up        \* the server has not crashed

vars == <<nodes, nw, clock, root, snap, asked, up>>

Dirs == {"data-dir", "db-dir", "log-dir"}
SettingFlags == {"plugin-dir", "track-subnets"}
NoFlags == [k \in {} |-> k]

\* The path of the binary when a request names none.
NoBinary == ""

\* The two functions as one, in which g takes precedence.
Over(f, g) ==
  [k \in DOMAIN f \cup DOMAIN g |-> IF k \in DOMAIN g THEN g[k] ELSE f[k]]

Flag(name, v) == [k \in {name} |-> v]

Without(f, S) == Restrict(f, DOMAIN f \ S)

\* The flag new with the value v, if f has the flag old.
Instead(f, old, new, v) == IF old \in DOMAIN f THEN Flag(new, v) ELSE NoFlags

getConfigEntry(flags, k, default) == IF k \in DOMAIN flags THEN flags[k] ELSE default

-----------------------------------------------------------------------------
(* The arguments of luxd *)

Old(binary) == binary = "old"
Parent(path) == SubSeq(path, 1, Len(path) - 1)

\* An old binary looks for plugins in a directory of its build directory.
getFlagsForLuxdVersion(binary, f) ==
  IF Old(binary)
    THEN Over(Without(f, SettingFlags),
              Over(Instead(f, "plugin-dir", "build-dir", Parent(f["plugin-dir"])),
                   Instead(f, "track-subnets", "whitelisted-subnets", f["track-subnets"])))
    ELSE f

\* The flags of snapshots of earlier versions.
fixDeprecatedLuxdFlags(f) ==
  Over(Without(f, {"whitelisted-subnets", "build-dir"}),
       Over(Instead(f, "whitelisted-subnets", "track-subnets", f["whitelisted-subnets"]),
            Instead(f, "build-dir", "plugin-dir", Append(f["build-dir"], "plugins"))))

buildArgs(cfg, dir, port) ==
  LET dataDir == getConfigEntry(cfg.flags, "data-dir", dir)
      runner == [x \in Dirs \cup {"http-port"} |->
                   IF x = "http-port" THEN port
                   ELSE IF x = "data-dir" THEN dataDir
                   ELSE getConfigEntry(cfg.flags, x, dataDir)]
  IN getFlagsForLuxdVersion(cfg.binary, Over(runner, Without(cfg.flags, {"http-port"})))

\* The ports getPort can return when those in used are taken; there is none if
\* it returns an error.
getPort(flags, reassign, used) ==
  LET free == Ports \ used
  IN IF "http-port" \notin DOMAIN flags THEN free
     ELSE IF flags["http-port"] \in free \/ ~reassign THEN free \cap {flags["http-port"]}
     ELSE free

\* The config addNode makes of the one it is given.
WithDefaults(cfg, network) ==
  [binary |-> IF cfg.binary = NoBinary THEN network.binary ELSE cfg.binary,
   flags |-> Over(network.flags, cfg.flags),
   files |-> Over(network.files, cfg.files)]

Launched(cfg, dir, port) ==
  [cfg |-> cfg, port |-> port, paused |-> FALSE, args |-> buildArgs(cfg, dir, port)]

\* A paused node keeps its port and the arguments of its last start.
Paused(node, cfg) ==
  [cfg |-> cfg, port |-> node.port, paused |-> TRUE, args |-> node.args]

Present == {n \in Names : nodes[n] # None}
UsedPorts(S) == {nodes[n].port : n \in {m \in Present \cap S : ~nodes[m].paused}}

\* What addNode can make of cfg for node n while other programs use busy.
addNode(n, cfg, busy) ==
  LET c == WithDefaults(cfg, nw)
  IN {Launched(c, root, p) :
        p \in getPort(c.flags, nw.reassign, UsedPorts(Names \ {n}) \cup busy)}

\* The networks that loadConfig can make of configs, a function from the names.
loadConfig(configs, network, dir, busy) ==
  LET c == [n \in DOMAIN configs |-> WithDefaults(configs[n], network)]
      Fits(ports, n) == ports[n] \in getPort(c[n].flags, network.reassign,
                                             busy \cup {ports[m] : m \in DOMAIN c \ {n}})
  IN {[n \in Names |-> IF n \in DOMAIN c THEN Launched(c[n], dir, ports[n]) ELSE None] :
        ports \in {q \in [DOMAIN c -> Ports] : \A n \in DOMAIN c : Fits(q, n)}}

-----------------------------------------------------------------------------
(* What requests and snapshots hold *)

IsMap(f) == f = [k \in DOMAIN f |-> f[k]]

\* The directory of the plugins has the name it has in a build directory; under
\* another name an old binary, which is told the parent, would not find it.
NamesPlugins(f) ==
  "plugin-dir" \in DOMAIN f =>
    LET path == f["plugin-dir"]
    IN path \in Seq(STRING) /\ path # <<>> /\ path[Len(path)] = "plugins"

AreFlags(f, names) == IsMap(f) /\ DOMAIN f \subseteq names /\ NamesPlugins(f)

\* Files have names of their own.
AreFiles(f) == IsMap(f) /\ DOMAIN f \cap ({"binary"} \cup SettingFlags) = {}

\* The flags name no directory and no port: those are the runner's to choose.
ASSUME RequestsAssumption ==
  \A o \in Requests : AreFlags(o.flags, SettingFlags) /\ AreFiles(o.files)

\* A network is started with a binary (CheckExecPath).
ASSUME StartRequestsAssumption ==
  \A r \in StartRequests :
    /\ r.binary # NoBinary /\ r.reassign \in BOOLEAN
    /\ IsMap(r.flags) /\ IsMap(r.global)
    /\ AreFlags(Over(r.global, r.flags), SettingFlags) /\ AreFlags(r.custom, SettingFlags)

\* The nodes of a snapshot have ports, and configs in which the defaults of the
\* network went in; their directories are not kept.
IsSnapshot(s) ==
  LET defaults == fixDeprecatedLuxdFlags(s.flags)
  IN /\ s.binary # NoBinary /\ AreFlags(defaults, SettingFlags) /\ AreFiles(s.files)
     /\ \A n \in DOMAIN s.nodes :
          LET c == s.nodes[n]
              flags == fixDeprecatedLuxdFlags(c.flags)
          IN /\ c.binary # NoBinary
             /\ "http-port" \in DOMAIN c.flags
             /\ AreFlags(flags, SettingFlags \cup {"http-port", "db-dir"})
             /\ DOMAIN defaults \subseteq DOMAIN flags
             /\ AreFiles(c.files) /\ DOMAIN s.files \subseteq DOMAIN c.files

ASSUME OldSnapshotsAssumption == \A s \in OldSnapshots : IsSnapshot(s)

-----------------------------------------------------------------------------
(* The requests *)

Nothing == [binary |-> NoBinary, flags |-> NoFlags, files |-> NoFlags]

\* Options for nodes only.
Asks(o) == [network |-> Nothing, node |-> [n \in Names |-> o]]

Tick == up /\ clock < MaxClock /\ clock' = clock + 1

Init ==
  /\ nodes = [n \in Names |-> None]
  /\ nw = None
  /\ clock = 0 /\ root = 0
  /\ snap \in {None} \cup OldSnapshots
  /\ asked = Asks(Nothing)
  /\ up = TRUE

\* createConfig: the global config and the plugin directory are flags of the
\* network, the tracked subnets and the custom config flags of the node.
createConfig(n, binary, own, dynamic) ==
  [binary |-> binary,
   flags |-> Over(IF dynamic THEN NoFlags ELSE Flag("http-port", DefaultPort[n]), own),
   files |-> NoFlags]

DefaultFiles == [x \in {"C"} |-> "default"]

\* r.global and r.custom are the node configs of the request.
Start(r) ==
  /\ Tick /\ nw = None /\ r.files = NoFlags
  /\ LET plugin == Restrict(r.flags, DOMAIN r.flags \cap {"plugin-dir"})
         track == Restrict(r.flags, DOMAIN r.flags \cap {"track-subnets"})
         own == Over(track, r.custom)
     IN /\ nw' = [binary |-> r.binary, flags |-> Over(r.global, plugin),
                  files |-> DefaultFiles, reassign |-> r.reassign]
        /\ \E busy \in Busy :
             nodes' \in loadConfig([n \in Started |-> createConfig(n, r.binary, own, r.dynamic)],
                                   nw', clock', busy)
        /\ asked' = [network |-> [binary |-> r.binary, flags |-> nw'.flags, files |-> NoFlags],
                     node |-> [n \in Names |->
                                [binary |-> NoBinary, flags |-> own, files |-> NoFlags]]]
  /\ root' = clock'
  /\ UNCHANGED <<snap, up>>

\* createConfig assigns to the entries of maps that the default config leaves
\* nil.
StartPanics(r) ==
  /\ Tick /\ nw = None /\ r.files # NoFlags
  /\ up' = FALSE
  /\ UNCHANGED <<nodes, nw, root, snap, asked>>

\* A new node, or one in the place of a paused node.
AddNode(n, o) ==
  /\ Tick /\ nw # None
  /\ n \in Present => nodes[n].paused
  /\ \E busy \in Busy : \E node \in addNode(n, o, busy) : nodes' = [nodes EXCEPT ![n] = node]
  /\ asked' = Asks(o)
  /\ UNCHANGED <<nw, root, snap, up>>

\* The directories and the port of a node, which is started again with them.
Pinned(n) ==
  Over(Restrict(nodes[n].args, Dirs), Flag("http-port", nodes[n].port))

\* Faulty variant of Restarted.
Restarted_AllFiles(n, o) ==
  [binary |-> IF o.binary = NoBinary THEN nodes[n].cfg.binary ELSE o.binary,
   flags |-> Over(Over(nodes[n].cfg.flags, o.flags), Pinned(n)),
   files |-> IF o.files = NoFlags THEN DefaultFiles ELSE o.files]

Restarted(n, o) ==
  [binary |-> IF o.binary = NoBinary THEN nodes[n].cfg.binary ELSE o.binary,
   flags |-> Over(Over(nodes[n].cfg.flags, o.flags), Pinned(n)),
   files |-> Over(nodes[n].cfg.files, o.files)]

RestartNode(n, o) ==
  /\ Tick /\ n \in Present
  /\ \E busy \in Busy : \E node \in addNode(n, Restarted(n, o), busy) :
       nodes' = [nodes EXCEPT ![n] = node]
  /\ asked' = Asks(o)
  /\ UNCHANGED <<nw, root, snap, up>>

\* A running node is removed before it is started again.  A paused one stays;
\* its maps have the new entries already, its binary is the one it had.
RestartFails(n, o) ==
  /\ Tick /\ n \in Present
  /\ LET cfg == nodes[n].cfg
         c == Restarted(n, o)
     IN nodes' = [nodes EXCEPT ![n] =
          IF nodes[n].paused
            THEN Paused(nodes[n], [binary |-> cfg.binary, flags |-> c.flags, files |-> c.files])
            ELSE None]
  /\ asked' = Asks(o)
  /\ UNCHANGED <<nw, root, snap, up>>

PauseNode(n) ==
  /\ Tick /\ n \in Present /\ ~nodes[n].paused
  /\ nodes' = [nodes EXCEPT ![n] = Paused(nodes[n], nodes[n].cfg)]
  /\ asked' = Asks(Nothing)
  /\ UNCHANGED <<nw, root, snap, up>>

ResumeNode(n) ==
  /\ n \in Present /\ nodes[n].paused
  /\ RestartNode(n, Nothing)

RemoveNode(n) ==
  /\ Tick /\ n \in Present
  /\ nodes' = [nodes EXCEPT ![n] = None]
  /\ asked' = Asks(Nothing)
  /\ UNCHANGED <<nw, root, snap, up>>

StopNetwork ==
  /\ nw' = None
  /\ nodes' = [n \in Names |-> None]
  /\ asked' = Asks(Nothing)

Stop == Tick /\ nw # None /\ StopNetwork /\ UNCHANGED <<root, snap, up>>

-----------------------------------------------------------------------------
(* Snapshots *)

\* Faulty variant of SavedFlags.
SavedFlags_KeepsDirs(flags) == flags

SavedFlags(flags) == Without(flags, {"data-dir", "log-dir"})

\* The network is stopped; the current ports go into the snapshot.
SaveSnapshot ==
  /\ Tick /\ nw # None
  /\ snap' = [binary |-> nw.binary, flags |-> SavedFlags(nw.flags), files |-> nw.files,
              nodes |-> [n \in Present |->
                [nodes[n].cfg EXCEPT
                   !.flags = Over(SavedFlags(nodes[n].cfg.flags), Flag("http-port", nodes[n].port))]]]
  /\ StopNetwork
  /\ UNCHANGED <<root, up>>

\* A node of the snapshot, with the options o of the request.
Loaded(cfg, o, dir) ==
  [binary |-> IF o.binary = NoBinary THEN cfg.binary ELSE o.binary,
   flags |-> Over(Over(fixDeprecatedLuxdFlags(cfg.flags), o.flags), Flag("db-dir", dir)),
   files |-> Over(cfg.files, o.files)]

LoadSnapshot(o, reassign) ==
  /\ Tick /\ nw = None /\ snap # None
  /\ nw' = [binary |-> snap.binary, flags |-> fixDeprecatedLuxdFlags(snap.flags),
            files |-> snap.files, reassign |-> reassign]
  /\ \E busy \in Busy :
       nodes' \in loadConfig([n \in DOMAIN snap.nodes |-> Loaded(snap.nodes[n], o, clock')],
                             nw', clock', busy)
  /\ root' = clock'
  /\ asked' = Asks(o)
  /\ UNCHANGED <<snap, up>>

Next ==
  \/ \E r \in StartRequests : Start(r) \/ StartPanics(r)
  \/ \E n \in Names : \/ PauseNode(n) \/ ResumeNode(n) \/ RemoveNode(n)
                      \/ \E o \in Requests : AddNode(n, o) \/ RestartNode(n, o) \/ RestartFails(n, o)
  \/ Stop \/ SaveSnapshot
  \/ \E o \in Requests, r \in BOOLEAN : LoadSnapshot(o, r)

Spec == Init /\ [][Next]_vars

-----------------------------------------------------------------------------
(* Properties *)

\* A running node keeps its data, its database and its logs in the directories
\* of its own network, never in those of the network its snapshot was taken of,
\* although restarts put these directories into its flags.
DirsInRoot ==
  \A n \in Present : ~nodes[n].paused => \A d \in Dirs : nodes[n].args[d] = root

\* The settings that a config stands for.
Means(binary, flags, files) ==
  [k \in {"binary"} \cup (DOMAIN flags \cap SettingFlags) \cup DOMAIN files |->
     IF k \in DOMAIN files THEN files[k] ELSE IF k = "binary" THEN binary ELSE flags[k]]

\* What luxd makes of its arguments: it knows only the flags of its version.
Understood(binary, args) ==
  IF Old(binary)
    THEN fixDeprecatedLuxdFlags(Restrict(args, DOMAIN args \cap {"build-dir", "whitelisted-subnets"}))
    ELSE args

EffectiveSettings(n) ==
  LET cfg == nodes[n].cfg
  IN IF nodes[n].paused THEN Means(cfg.binary, cfg.flags, cfg.files)
                        ELSE Means(cfg.binary, Understood(cfg.binary, nodes[n].args), cfg.files)

\* The options that a request stands for.
Meant(o) ==
  IF o.binary = NoBinary THEN Over(o.flags, o.files) ELSE Means(o.binary, o.flags, o.files)

\* The state as NodeSettings has it.
Options ==
  [network |-> Meant(asked.network), node |-> [n \in Names |-> Meant(asked.node[n])]]

Running ==
  [n \in Names |-> IF n \in Present
                     THEN [settings |-> EffectiveSettings(n), port |-> nodes[n].port]
                     ELSE None]

Defaults ==
  IF nw = None THEN None
  ELSE [settings |-> Means(nw.binary, nw.flags, nw.files), reassign |-> nw.reassign]

SavedNode(c) ==
  [settings |-> Means(c.binary, fixDeprecatedLuxdFlags(c.flags), c.files),
   port |-> c.flags["http-port"]]

Saved ==
  IF snap = None THEN None
  ELSE [settings |-> Means(snap.binary, fixDeprecatedLuxdFlags(snap.flags), snap.files),
        nodes |-> [n \in Names |->
                     IF n \in DOMAIN snap.nodes THEN SavedNode(snap.nodes[n]) ELSE None]]

Expected ==
  INSTANCE NodeSettings
    WITH Base <- DefaultFiles, asked <- Options, nodes <- Running, defaults <- Defaults,
         saved <- Saved

\* Through every sequence of requests luxd runs with the settings NodeSettings
\* promises: precedence, pinning, renaming and snapshots add up to "the same
\* config, optionally changing" what the request names.
ImplementsSettings == Expected!Spec

=============================================================================

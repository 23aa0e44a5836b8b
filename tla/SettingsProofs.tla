--------------------------- MODULE SettingsProofs ---------------------------
(***************************************************************************)
(* Proofs about Settings: its inductive invariant, that the directories of *)
(* running nodes are those of their network, and that Settings implements  *)
(* NodeSettings.  The proofs hold for every set of nodes, ports, requests, *)
(* snapshots of earlier versions and number of requests.                   *)
(***************************************************************************)
EXTENDS Settings, TLAPS

\* The leaves are mostly first-order steps between predicates: Zenon proves them,
\* except where a leaf asks for SMT.
USE Zenon

-----------------------------------------------------------------------------
(* Flags, files and what they mean *)

\* f and g agree on the names in S: both have them with one value, or neither.
Agree(f, g, S) ==
  \A k \in S : /\ k \in DOMAIN f <=> k \in DOMAIN g
               /\ k \in DOMAIN f => f[k] = g[k]

\* Over is the union in which the second function takes precedence.
LEMMA OverFacts ==
  ASSUME NEW f, NEW g
  PROVE  /\ IsMap(Over(f, g))
         /\ DOMAIN Over(f, g) = DOMAIN f \cup DOMAIN g
         /\ \A k \in DOMAIN g : Over(f, g)[k] = g[k]
         /\ \A k : k \in DOMAIN Over(f, g) <=> k \in DOMAIN f \/ k \in DOMAIN g
         /\ \A k \in DOMAIN f : k \notin DOMAIN g => Over(f, g)[k] = f[k]
BY DEF Over, IsMap

\* Without drops names and changes no value.
LEMMA WithoutFacts ==
  ASSUME NEW f, NEW S
  PROVE  /\ IsMap(Without(f, S))
         /\ DOMAIN Without(f, S) = DOMAIN f \ S
         /\ \A k \in DOMAIN f \ S : Without(f, S)[k] = f[k]
BY DEF Without, Restrict, IsMap

\* Instead has the new flag, with its value, if the old one is there.
LEMMA InsteadFacts ==
  ASSUME NEW f, NEW old, NEW new, NEW v
  PROVE  /\ DOMAIN Instead(f, old, new, v) = IF old \in DOMAIN f THEN {new} ELSE {}
         /\ old \in DOMAIN f => Instead(f, old, new, v)[new] = v
BY DEF Instead, Flag, NoFlags

\* Functions with one domain and the same values are equal.
LEMMA MapsEqual ==
  ASSUME NEW f, NEW g, IsMap(f), IsMap(g), DOMAIN f = DOMAIN g,
         \A k \in DOMAIN f : f[k] = g[k]
  PROVE  f = g
BY DEF IsMap

\* What fixDeprecatedLuxdFlags makes of each flag.
LEMMA FixFacts ==
  ASSUME NEW f
  PROVE  LET g == fixDeprecatedLuxdFlags(f)
         IN /\ IsMap(g)
            /\ DOMAIN g = (DOMAIN f \ {"whitelisted-subnets", "build-dir"})
                            \cup (IF "whitelisted-subnets" \in DOMAIN f THEN {"track-subnets"} ELSE {})
                            \cup (IF "build-dir" \in DOMAIN f THEN {"plugin-dir"} ELSE {})
            /\ "whitelisted-subnets" \in DOMAIN f => g["track-subnets"] = f["whitelisted-subnets"]
            /\ "build-dir" \in DOMAIN f => g["plugin-dir"] = Append(f["build-dir"], "plugins")
            /\ \A k \in DOMAIN f \ {"whitelisted-subnets", "build-dir"} :
                 /\ ~(k = "track-subnets" /\ "whitelisted-subnets" \in DOMAIN f)
                 /\ ~(k = "plugin-dir" /\ "build-dir" \in DOMAIN f)
                 => g[k] = f[k]
<1> DEFINE a == Instead(f, "whitelisted-subnets", "track-subnets", f["whitelisted-subnets"])
           b == Instead(f, "build-dir", "plugin-dir", Append(f["build-dir"], "plugins"))
           w == Without(f, {"whitelisted-subnets", "build-dir"})
<1>1. /\ DOMAIN a = IF "whitelisted-subnets" \in DOMAIN f THEN {"track-subnets"} ELSE {}
      /\ "whitelisted-subnets" \in DOMAIN f => a["track-subnets"] = f["whitelisted-subnets"]
      /\ DOMAIN b = IF "build-dir" \in DOMAIN f THEN {"plugin-dir"} ELSE {}
      /\ "build-dir" \in DOMAIN f => b["plugin-dir"] = Append(f["build-dir"], "plugins")
  BY InsteadFacts
<1>2. /\ DOMAIN w = DOMAIN f \ {"whitelisted-subnets", "build-dir"}
      /\ \A k \in DOMAIN f \ {"whitelisted-subnets", "build-dir"} : w[k] = f[k]
  BY WithoutFacts
<1> DEFINE h == Over(a, b)
           g == Over(w, h)
<1>3. fixDeprecatedLuxdFlags(f) = g
  BY DEF fixDeprecatedLuxdFlags
<1> HIDE DEF a, b, w
<1>4. /\ DOMAIN h = DOMAIN a \cup DOMAIN b
      /\ \A k \in DOMAIN b : h[k] = b[k]
      /\ \A k \in DOMAIN a : k \notin DOMAIN b => h[k] = a[k]
  BY DEF Over, IsMap
<1> HIDE DEF h
<1>5. /\ IsMap(g)
      /\ DOMAIN g = DOMAIN w \cup DOMAIN h
      /\ \A k \in DOMAIN h : g[k] = h[k]
      /\ \A k \in DOMAIN w : k \notin DOMAIN h => g[k] = w[k]
  BY DEF Over, IsMap
<1> HIDE DEF g
<1> QED
  BY <1>1, <1>2, <1>3, <1>4, <1>5

\* fixDeprecatedLuxdFlags leaves alone what has no deprecated flag.
LEMMA FixSame ==
  ASSUME NEW f, IsMap(f), DOMAIN f \cap {"whitelisted-subnets", "build-dir"} = {}
  PROVE  fixDeprecatedLuxdFlags(f) = f
<1> DEFINE g == fixDeprecatedLuxdFlags(f)
<1>1. IsMap(g) /\ DOMAIN g = DOMAIN f /\ \A k \in DOMAIN f : g[k] = f[k]
  BY FixFacts
<1> HIDE DEF g
<1>2. g = f
  BY <1>1, MapsEqual
<1> QED BY <1>2 DEF g

\* The names and the values of the settings that a config stands for.
LEMMA MeansFacts ==
  ASSUME NEW b, NEW f, NEW x
  PROVE  /\ IsMap(Means(b, f, x))
         /\ \A k : k \in DOMAIN Means(b, f, x) <=>
                   k = "binary" \/ k \in DOMAIN f \cap SettingFlags \/ k \in DOMAIN x
         /\ \A k \in DOMAIN Means(b, f, x) :
              Means(b, f, x)[k] = IF k \in DOMAIN x THEN x[k] ELSE IF k = "binary" THEN b ELSE f[k]
BY DEF Means, IsMap

\* Settings depend on the flags that are settings only: directories and ports
\* do not matter.
LEMMA MeansSame ==
  ASSUME NEW b, NEW f, NEW g, NEW x, Agree(f, g, SettingFlags)
  PROVE  Means(b, f, x) = Means(b, g, x)
BY DEF Agree, Means

\* The options of a request are its binary, its flags and its files.
LEMMA MeantFacts ==
  ASSUME NEW o, AreFlags(o.flags, SettingFlags), AreFiles(o.files)
  PROVE  /\ \A k : k \in DOMAIN Meant(o) <=>
                   \/ k = "binary" /\ o.binary # NoBinary
                   \/ k \in DOMAIN o.flags \cup DOMAIN o.files
         /\ o.binary # NoBinary => Meant(o)["binary"] = o.binary
         /\ \A k \in DOMAIN o.flags : Meant(o)[k] = o.flags[k]
         /\ \A k \in DOMAIN o.files : Meant(o)[k] = o.files[k]
BY DEF Meant, Over, AreFlags, AreFiles, SettingFlags, Means

\* To put the options over the flags and the files of a config, as addNode,
\* restartNode and loadSnapshot do, is to apply what they mean to the settings.
LEMMA ApplyMeans ==
  ASSUME NEW b, NEW f, NEW x, NEW o, AreFiles(x), AreFlags(o.flags, SettingFlags), AreFiles(o.files)
  PROVE  Expected!Apply(Means(b, f, x), Meant(o)) =
           Means(IF o.binary = NoBinary THEN b ELSE o.binary, Over(f, o.flags), Over(x, o.files))
BY SMT, MeantFacts, MeansFacts, MapsEqual DEF Expected!Apply, IsMap, Over, AreFlags, AreFiles,
   SettingFlags

\* What getFlagsForLuxdVersion makes of each flag for an old binary.
LEMMA VersionFacts ==
  ASSUME NEW f, DOMAIN f \cap {"whitelisted-subnets", "build-dir"} = {}
  PROVE  LET g == getFlagsForLuxdVersion("old", f)
         IN /\ IsMap(g)
            /\ DOMAIN g = (DOMAIN f \ SettingFlags)
                            \cup (IF "plugin-dir" \in DOMAIN f THEN {"build-dir"} ELSE {})
                            \cup (IF "track-subnets" \in DOMAIN f THEN {"whitelisted-subnets"} ELSE {})
            /\ "plugin-dir" \in DOMAIN f => g["build-dir"] = Parent(f["plugin-dir"])
            /\ "track-subnets" \in DOMAIN f => g["whitelisted-subnets"] = f["track-subnets"]
            /\ \A k \in DOMAIN f \ SettingFlags : g[k] = f[k]
<1> DEFINE a == Instead(f, "plugin-dir", "build-dir", Parent(f["plugin-dir"]))
           b == Instead(f, "track-subnets", "whitelisted-subnets", f["track-subnets"])
           w == Without(f, SettingFlags)
           h == Over(a, b)
           g == Over(w, h)
<1>1. /\ DOMAIN a = IF "plugin-dir" \in DOMAIN f THEN {"build-dir"} ELSE {}
      /\ "plugin-dir" \in DOMAIN f => a["build-dir"] = Parent(f["plugin-dir"])
      /\ DOMAIN b = IF "track-subnets" \in DOMAIN f THEN {"whitelisted-subnets"} ELSE {}
      /\ "track-subnets" \in DOMAIN f => b["whitelisted-subnets"] = f["track-subnets"]
  BY InsteadFacts
<1>2. /\ DOMAIN w = DOMAIN f \ SettingFlags
      /\ \A k \in DOMAIN f \ SettingFlags : w[k] = f[k]
  BY WithoutFacts
<1>3. getFlagsForLuxdVersion("old", f) = g
  BY DEF getFlagsForLuxdVersion, Old
<1> HIDE DEF a, b, w
<1>4. /\ DOMAIN h = DOMAIN a \cup DOMAIN b
      /\ \A k \in DOMAIN b : h[k] = b[k]
      /\ \A k \in DOMAIN a : k \notin DOMAIN b => h[k] = a[k]
  BY DEF Over, IsMap
<1> HIDE DEF h
<1>5. /\ IsMap(g)
      /\ DOMAIN g = DOMAIN w \cup DOMAIN h
      /\ \A k \in DOMAIN h : g[k] = h[k]
      /\ \A k \in DOMAIN w : k \notin DOMAIN h => g[k] = w[k]
  BY DEF Over, IsMap
<1> HIDE DEF g
<1> QED
  BY <1>1, <1>2, <1>3, <1>4, <1>5

\* The directories that f names lie in dir.
InDir(f, dir) == \A d \in Dirs \cap DOMAIN f : f[d] = dir

\* f names all directories, and they lie in dir.
AllIn(f, dir) == \A d \in Dirs : d \in DOMAIN f /\ f[d] = dir

\* The flags luxd of version binary is given, before they are renamed.
Given(cfg, dir, port) ==
  LET dataDir == getConfigEntry(cfg.flags, "data-dir", dir)
      runner == [x \in Dirs \cup {"http-port"} |->
                   IF x = "http-port" THEN port
                   ELSE IF x = "data-dir" THEN dataDir
                   ELSE getConfigEntry(cfg.flags, x, dataDir)]
  IN Over(runner, Without(cfg.flags, {"http-port"}))

\* buildArgs gives luxd the flags of its config, the directories of the network
\* and the port.
LEMMA GivenFacts ==
  ASSUME NEW cfg, NEW dir, NEW port,
         InDir(cfg.flags, dir)
  PROVE  /\ IsMap(Given(cfg, dir, port))
         /\ DOMAIN Given(cfg, dir, port) = DOMAIN cfg.flags \cup Dirs \cup {"http-port"}
         /\ Agree(Given(cfg, dir, port), cfg.flags, SettingFlags)
         /\ AllIn(Given(cfg, dir, port), dir)
         /\ buildArgs(cfg, dir, port) = getFlagsForLuxdVersion(cfg.binary, Given(cfg, dir, port))
<1> DEFINE w == Without(cfg.flags, {"http-port"})
           dataDir == getConfigEntry(cfg.flags, "data-dir", dir)
           runner == [x \in Dirs \cup {"http-port"} |->
                        IF x = "http-port" THEN port
                        ELSE IF x = "data-dir" THEN dataDir
                        ELSE getConfigEntry(cfg.flags, x, dataDir)]
           g == Given(cfg, dir, port)
<1>1. /\ DOMAIN w = DOMAIN cfg.flags \ {"http-port"}
      /\ \A k \in DOMAIN cfg.flags \ {"http-port"} : w[k] = cfg.flags[k]
  BY WithoutFacts
<1>2. dataDir = dir
  BY DEF getConfigEntry, Dirs, InDir
<1>3. DOMAIN runner = Dirs \cup {"http-port"} /\ \A d \in Dirs : runner[d] = dir
  BY <1>2 DEF getConfigEntry, Dirs, InDir
<1>4. g = Over(runner, w)
  BY DEF Given
<1>5. buildArgs(cfg, dir, port) = getFlagsForLuxdVersion(cfg.binary, g)
  BY DEF buildArgs, Given
<1> HIDE DEF w, runner, dataDir, g
<1>6. /\ IsMap(g) /\ DOMAIN g = DOMAIN runner \cup DOMAIN w
      /\ \A k \in DOMAIN w : g[k] = w[k]
      /\ \A k \in DOMAIN runner : k \notin DOMAIN w => g[k] = runner[k]
  BY <1>4 DEF Over, IsMap
<1>7. DOMAIN g = DOMAIN cfg.flags \cup Dirs \cup {"http-port"}
  BY <1>1, <1>3, <1>6
<1>8. \A k \in DOMAIN cfg.flags \ {"http-port"} : g[k] = cfg.flags[k]
  BY <1>1, <1>6
<1>9. ASSUME NEW d \in Dirs PROVE g[d] = dir
  BY <1>8, <1>1, <1>3, <1>6 DEF Dirs, InDir
<1>10. AllIn(g, dir)
  BY <1>7, <1>9 DEF AllIn
<1>11. Agree(g, cfg.flags, SettingFlags)
  BY <1>7, <1>8 DEF Agree, SettingFlags, Dirs
<1> QED
  BY <1>5, <1>6, <1>7, <1>10, <1>11 DEF g

\* The directory named plugins of the parent is the directory itself.
LEMMA ParentAppend ==
  ASSUME NEW path \in Seq(STRING), path # <<>>, path[Len(path)] = "plugins"
  PROVE  Append(Parent(path), "plugins") = path
BY SMT DEF Parent

\* The flags that the config of a node can have.
ConfigFlags == SettingFlags \cup Dirs \cup {"http-port"}

\* An old binary and a new one read from the arguments of buildArgs the settings
\* of the config: renaming loses nothing.
LEMMA UnderstoodArgs ==
  ASSUME NEW cfg, NEW dir, NEW port, AreFlags(cfg.flags, ConfigFlags),
         InDir(cfg.flags, dir)
  PROVE  Agree(Understood(cfg.binary, buildArgs(cfg, dir, port)), cfg.flags, SettingFlags)
<1> DEFINE g == Given(cfg, dir, port)
           args == buildArgs(cfg, dir, port)
<1>1. /\ DOMAIN g = DOMAIN cfg.flags \cup Dirs \cup {"http-port"}
      /\ args = getFlagsForLuxdVersion(cfg.binary, g)
  BY GivenFacts
<1>2. Agree(g, cfg.flags, SettingFlags)
  BY GivenFacts
<1> HIDE DEF g, args
<1>3. CASE ~Old(cfg.binary)
  BY <1>1, <1>2, <1>3 DEF getFlagsForLuxdVersion, Understood, args
<1>4. CASE Old(cfg.binary)
  <2> DEFINE r == Restrict(args, DOMAIN args \cap {"build-dir", "whitelisted-subnets"})
             u == fixDeprecatedLuxdFlags(r)
  <2>1. Understood(cfg.binary, args) = u
    BY <1>4 DEF Understood
  <2>2. DOMAIN g \cap {"whitelisted-subnets", "build-dir"} = {}
    BY <1>1 DEF AreFlags, ConfigFlags, SettingFlags, Dirs
  <2>3. /\ DOMAIN args = (DOMAIN g \ SettingFlags)
                            \cup (IF "plugin-dir" \in DOMAIN g THEN {"build-dir"} ELSE {})
                            \cup (IF "track-subnets" \in DOMAIN g THEN {"whitelisted-subnets"} ELSE {})
        /\ "plugin-dir" \in DOMAIN g => args["build-dir"] = Parent(g["plugin-dir"])
        /\ "track-subnets" \in DOMAIN g => args["whitelisted-subnets"] = g["track-subnets"]
    BY <1>1, <1>4, <2>2, VersionFacts DEF Old
  <2>4. /\ DOMAIN r = DOMAIN args \cap {"build-dir", "whitelisted-subnets"}
        /\ \A k \in DOMAIN r : r[k] = args[k]
    BY DEF Restrict
  <2> HIDE DEF r
  <2>5. /\ DOMAIN u = (DOMAIN r \ {"whitelisted-subnets", "build-dir"})
                         \cup (IF "whitelisted-subnets" \in DOMAIN r THEN {"track-subnets"} ELSE {})
                         \cup (IF "build-dir" \in DOMAIN r THEN {"plugin-dir"} ELSE {})
        /\ "whitelisted-subnets" \in DOMAIN r => u["track-subnets"] = r["whitelisted-subnets"]
        /\ "build-dir" \in DOMAIN r => u["plugin-dir"] = Append(r["build-dir"], "plugins")
    BY FixFacts
  <2> HIDE DEF u
  <2>6. /\ "track-subnets" \in DOMAIN u <=> "track-subnets" \in DOMAIN g
        /\ "track-subnets" \in DOMAIN u => u["track-subnets"] = g["track-subnets"]
    BY <2>2, <2>3, <2>4, <2>5 DEF SettingFlags
  <2>7. /\ "plugin-dir" \in DOMAIN u <=> "plugin-dir" \in DOMAIN g
        /\ "plugin-dir" \in DOMAIN u => u["plugin-dir"] = Append(Parent(g["plugin-dir"]), "plugins")
    BY <2>2, <2>3, <2>4, <2>5 DEF SettingFlags
  <2>8. "plugin-dir" \in DOMAIN g => Append(Parent(g["plugin-dir"]), "plugins") = g["plugin-dir"]
    BY <1>2, ParentAppend DEF Agree, SettingFlags, AreFlags, NamesPlugins
  <2>9. Agree(u, g, SettingFlags)
    BY <2>6, <2>7, <2>8 DEF Agree, SettingFlags
  <2> QED
    BY <1>2, <2>1, <2>9 DEF Agree, args
<1> QED
  BY <1>3, <1>4

\* The arguments name the three directories, in the directory of the network.
LEMMA ArgsDirs ==
  ASSUME NEW cfg, NEW dir, NEW port, AreFlags(cfg.flags, ConfigFlags), InDir(cfg.flags, dir)
  PROVE  AllIn(buildArgs(cfg, dir, port), dir)
<1> DEFINE g == Given(cfg, dir, port)
           args == buildArgs(cfg, dir, port)
<1>1. /\ DOMAIN g = DOMAIN cfg.flags \cup Dirs \cup {"http-port"}
      /\ args = getFlagsForLuxdVersion(cfg.binary, g)
  BY GivenFacts
<1>2. AllIn(g, dir)
  BY GivenFacts
<1> HIDE DEF g, args
<1>3. CASE ~Old(cfg.binary)
  BY <1>1, <1>2, <1>3 DEF getFlagsForLuxdVersion, args
<1>4. CASE Old(cfg.binary)
  <2>1. DOMAIN g \cap {"whitelisted-subnets", "build-dir"} = {}
    BY <1>1 DEF AreFlags, ConfigFlags, SettingFlags, Dirs
  <2>2. args = getFlagsForLuxdVersion("old", g)
    BY <1>1, <1>4 DEF Old
  <2>3. DOMAIN g \ SettingFlags \subseteq DOMAIN args
    BY <2>1, <2>2, VersionFacts
  <2>4. \A k \in DOMAIN g \ SettingFlags : args[k] = g[k]
    BY <2>1, <2>2, VersionFacts
  <2>5. AllIn(args, dir)
    BY <1>2, <2>3, <2>4 DEF AllIn, Dirs, SettingFlags
  <2> QED BY <2>5 DEF args
<1> QED
  BY <1>3, <1>4

\* Flags over flags are flags.
LEMMA OverFlags ==
  ASSUME NEW f, NEW g, NEW S, AreFlags(f, S), AreFlags(g, S)
  PROVE  AreFlags(Over(f, g), S)
BY DEF Over, IsMap, AreFlags, NamesPlugins

\* Flags that some names allow are flags that more names allow.
LEMMA MoreFlags ==
  ASSUME NEW f, NEW S, NEW T, AreFlags(f, S), S \subseteq T
  PROVE  AreFlags(f, T)
BY DEF AreFlags

\* Files over files are files.
LEMMA OverFiles ==
  ASSUME NEW f, NEW g, AreFiles(f), AreFiles(g)
  PROVE  AreFiles(Over(f, g))
BY DEF Over, AreFiles, IsMap

\* Flags over flags name no other directory.
LEMMA OverInDir ==
  ASSUME NEW f, NEW g, NEW dir, InDir(f, dir), InDir(g, dir)
  PROVE  InDir(Over(f, g), dir)
BY DEF Over, InDir

\* The flags of requests and defaults name no directory.
LEMMA SettingsInDir ==
  ASSUME NEW f, NEW dir, AreFlags(f, SettingFlags)
  PROVE  InDir(f, dir)
BY DEF AreFlags, InDir, SettingFlags, Dirs

\* A function that has all the names of another takes nothing from it.
LEMMA OverAbsorbs ==
  ASSUME NEW f, NEW g, IsMap(g), DOMAIN f \subseteq DOMAIN g
  PROVE  Over(f, g) = g
BY DEF Over, IsMap

-----------------------------------------------------------------------------
(* Nodes, networks and the invariant *)

\* The defaults of a network that runs.
IsNetwork(w) ==
  /\ w.binary # NoBinary /\ w.reassign \in BOOLEAN
  /\ AreFlags(w.flags, SettingFlags) /\ AreFiles(w.files)

\* The config of a node.
IsConfig(c) ==
  /\ c = [binary |-> c.binary, flags |-> c.flags, files |-> c.files]
  /\ c.binary # NoBinary
  /\ AreFlags(c.flags, ConfigFlags) /\ AreFiles(c.files)

\* A node of a network with the defaults w and the root directory dir.
IsNode(v, w, dir) ==
  /\ v = [cfg |-> v.cfg, port |-> v.port, paused |-> v.paused, args |-> v.args]
  /\ v.port \in Ports /\ v.paused \in BOOLEAN
  /\ IsConfig(v.cfg) /\ InDir(v.cfg.flags, dir)
  /\ DOMAIN w.flags \subseteq DOMAIN v.cfg.flags
  /\ DOMAIN w.files \subseteq DOMAIN v.cfg.files
  /\ AllIn(v.args, dir)
  /\ ~v.paused => v.args = buildArgs(v.cfg, dir, v.port)

\* The settings and the port of a node.
MeansNode(v) ==
  [settings |-> Means(v.cfg.binary, v.cfg.flags, v.cfg.files), port |-> v.port]

\* A node that is launched in the directory of its network is one of the network.
LEMMA LaunchedNode ==
  ASSUME NEW o, NEW w, NEW dir, NEW p \in Ports, IsNetwork(w),
         AreFlags(o.flags, ConfigFlags), AreFiles(o.files), InDir(o.flags, dir)
  PROVE  IsNode(Launched(WithDefaults(o, w), dir, p), w, dir)
<1> DEFINE c == WithDefaults(o, w)
           v == Launched(c, dir, p)
<1>1. /\ c = [binary |-> c.binary, flags |-> c.flags, files |-> c.files]
      /\ c.binary = (IF o.binary = NoBinary THEN w.binary ELSE o.binary)
      /\ c.flags = Over(w.flags, o.flags) /\ c.files = Over(w.files, o.files)
  BY DEF WithDefaults
<1> HIDE DEF c
<1>2. c.binary # NoBinary
  BY <1>1 DEF IsNetwork
<1>3. AreFlags(c.flags, ConfigFlags)
  BY SMT, MoreFlags, <1>1, OverFlags DEF IsNetwork, ConfigFlags
<1>4. AreFiles(c.files)
  BY <1>1, OverFiles DEF IsNetwork
<1>5. InDir(c.flags, dir)
  BY SMT, SettingsInDir, <1>1, OverInDir DEF IsNetwork
<1>6. DOMAIN w.flags \subseteq DOMAIN c.flags /\ DOMAIN w.files \subseteq DOMAIN c.files
  BY <1>1 DEF Over
<1>7. AllIn(buildArgs(c, dir, p), dir)
  BY <1>3, <1>5, ArgsDirs
<1>8. /\ v = [cfg |-> c, port |-> p, paused |-> FALSE, args |-> buildArgs(c, dir, p)]
      /\ v.cfg = c /\ v.port = p /\ v.paused = FALSE /\ v.args = buildArgs(c, dir, p)
  BY DEF Launched
<1>9. IsConfig(c)
  BY <1>1, <1>2, <1>3, <1>4 DEF IsConfig
<1> HIDE DEF v
<1>10. IsNode(v, w, dir)
  BY <1>5, <1>6, <1>7, <1>8, <1>9 DEF IsNode
<1> QED
  BY <1>10 DEF c, v

\* luxd runs with the settings of its config.
LEMMA EffectiveNode ==
  ASSUME NEW v, NEW w, NEW dir, IsNode(v, w, dir), ~v.paused
  PROVE  Means(v.cfg.binary, Understood(v.cfg.binary, v.args), v.cfg.files) =
           Means(v.cfg.binary, v.cfg.flags, v.cfg.files)
BY SMT, UnderstoodArgs, MeansSame DEF IsNode, IsConfig

\* No record is None.
NoneIsNoRecord ==
  /\ \A c, p, s, a : None # [cfg |-> c, port |-> p, paused |-> s, args |-> a]
  /\ \A b, f, x, r : None # [binary |-> b, flags |-> f, files |-> x, reassign |-> r]
  /\ \A b, f, x, n : None # [binary |-> b, flags |-> f, files |-> x, nodes |-> n]
  /\ \A s, p : None # [settings |-> s, port |-> p]
  /\ \A s, r : None # [settings |-> s, reassign |-> r]
  /\ \A s, n : None # [settings |-> s, nodes |-> n]

\* The inductive invariant: the configs of nodes name no directory but that of
\* the network, have all of its defaults, and a running node was given the
\* arguments of its config as it is now; a snapshot keeps what loading it needs.
SettingsInv ==
  /\ IsMap(nodes) /\ DOMAIN nodes = Names
  /\ \A n \in Present : nw # None /\ IsNode(nodes[n], nw, root)
  /\ nw # None => IsNetwork(nw)
  /\ snap # None => IsSnapshot(snap)

\* The invariant holds before the first request.
LEMMA InitInv == Init => SettingsInv
BY OldSnapshotsAssumption DEF Init, IsMap, Present, SettingsInv

\* A step that changes one node keeps the invariant.
LEMMA NodePut ==
  ASSUME SettingsInv, NEW n \in Names, NEW v, v = None \/ IsNode(v, nw, root), nw # None,
         nodes' = [nodes EXCEPT ![n] = v], UNCHANGED <<nw, root, snap>>
  PROVE  SettingsInv'
BY DEF SettingsInv, IsMap, Present

\* A step that makes a network keeps the invariant.
LEMMA NodesSet ==
  ASSUME SettingsInv, NEW dir, root' = dir, IsNetwork(nw'), nw' # None, UNCHANGED snap,
         IsMap(nodes'), DOMAIN nodes' = Names,
         \A n \in Names : nodes'[n] = None \/ IsNode(nodes'[n], nw', dir)
  PROVE  SettingsInv'
BY DEF SettingsInv, Present

\* A step that ends the network keeps the invariant.
LEMMA StoppedInv ==
  ASSUME SettingsInv, StopNetwork, snap' = None \/ IsSnapshot(snap')
  PROVE  SettingsInv'
BY DEF StopNetwork, IsMap, Present, SettingsInv

\* v is the config c with the defaults w, launched on a port that getPort found.
Placed(v, c, w, dir) ==
  \E p \in Ports : /\ v = Launched(WithDefaults(c, w), dir, p)
                   /\ \E used : p \in getPort(WithDefaults(c, w).flags, w.reassign, used)

\* addNode launches the config with the defaults of the network.
LEMMA AddedPlaced ==
  ASSUME NEW n, NEW c, NEW busy, NEW node \in addNode(n, c, busy)
  PROVE  Placed(node, c, nw, root)
BY DEF addNode, getPort, Placed

\* What is launched so is a node of the network.
LEMMA PlacedNode ==
  ASSUME NEW v, NEW c, NEW w, NEW dir, Placed(v, c, w, dir), IsNetwork(w),
         AreFlags(c.flags, ConfigFlags), AreFiles(c.files), InDir(c.flags, dir)
  PROVE  IsNode(v, w, dir)
BY LaunchedNode DEF Placed

\* A restart pins the port and the directories, which are those of the network,
\* and no setting.
LEMMA PinnedFacts ==
  ASSUME SettingsInv, NEW n \in Present
  PROVE  /\ AreFlags(Pinned(n), ConfigFlags) /\ InDir(Pinned(n), root)
         /\ DOMAIN Pinned(n) \cap SettingFlags = {}
         /\ "http-port" \in DOMAIN Pinned(n) /\ Pinned(n)["http-port"] = nodes[n].port
<1> DEFINE a == nodes[n].args
           r == Restrict(a, Dirs)
           f == Flag("http-port", nodes[n].port)
           h == Over(r, f)
<1>1. Pinned(n) = h
  BY DEF Pinned
<1>2. \A d \in Dirs : a[d] = root
  BY DEF SettingsInv, IsNode, AllIn
<1>3. DOMAIN r = Dirs /\ \A d \in Dirs : r[d] = root
  BY <1>2 DEF Restrict
<1>4. DOMAIN f = {"http-port"} /\ f["http-port"] = nodes[n].port
  BY DEF Flag
<1> HIDE DEF a, r, f
<1>5. /\ IsMap(h) /\ DOMAIN h = Dirs \cup {"http-port"}
      /\ h["http-port"] = nodes[n].port /\ \A d \in Dirs : h[d] = root
  BY <1>3, <1>4 DEF Over, IsMap, Dirs
<1> HIDE DEF h
<1>6. "plugin-dir" \notin DOMAIN h
  BY <1>5 DEF Dirs
<1>7. AreFlags(h, ConfigFlags)
  BY <1>5, <1>6 DEF AreFlags, NamesPlugins, ConfigFlags
<1>8. DOMAIN h \cap SettingFlags = {}
  BY <1>5 DEF Dirs, SettingFlags
<1> QED
  BY <1>1, <1>5, <1>7, <1>8 DEF InDir

\* A restart takes over the options and keeps all other settings, the port and
\* the directories.
LEMMA RestartedFacts ==
  ASSUME SettingsInv, NEW n \in Present, NEW o,
         AreFlags(o.flags, SettingFlags), AreFiles(o.files)
  PROVE  LET c == Restarted(n, o)
             cfg == nodes[n].cfg
         IN /\ IsConfig(c) /\ InDir(c.flags, root)
            /\ DOMAIN nw.flags \subseteq DOMAIN c.flags
            /\ DOMAIN nw.files \subseteq DOMAIN c.files
            /\ Agree(c.flags, Over(cfg.flags, o.flags), SettingFlags)
            /\ "http-port" \in DOMAIN c.flags /\ c.flags["http-port"] = nodes[n].port
<1> DEFINE cfg == nodes[n].cfg
           c == Restarted(n, o)
           h == Over(cfg.flags, o.flags)
           p == Pinned(n)
<1>1. /\ c = [binary |-> c.binary, flags |-> c.flags, files |-> c.files]
      /\ c.binary = (IF o.binary = NoBinary THEN cfg.binary ELSE o.binary)
      /\ c.flags = Over(h, p) /\ c.files = Over(cfg.files, o.files)
  BY DEF Restarted
<1>2. /\ cfg.binary # NoBinary /\ AreFlags(cfg.flags, ConfigFlags) /\ AreFiles(cfg.files)
      /\ InDir(cfg.flags, root)
      /\ DOMAIN nw.flags \subseteq DOMAIN cfg.flags
      /\ DOMAIN nw.files \subseteq DOMAIN cfg.files
  BY DEF SettingsInv, IsNode, IsConfig
<1>3. /\ AreFlags(p, ConfigFlags) /\ InDir(p, root)
      /\ DOMAIN p \cap SettingFlags = {}
      /\ "http-port" \in DOMAIN p /\ p["http-port"] = nodes[n].port
  BY PinnedFacts
<1> HIDE DEF cfg, c, p
<1>4. AreFlags(h, ConfigFlags)
  BY SMT, MoreFlags, <1>2, OverFlags DEF ConfigFlags
<1>5. InDir(h, root)
  BY <1>2, SettingsInDir, OverInDir
<1>6. DOMAIN nw.flags \subseteq DOMAIN h
  BY <1>2 DEF Over
<1> HIDE DEF h
<1>7. AreFlags(c.flags, ConfigFlags)
  BY <1>1, <1>3, <1>4, OverFlags
<1>8. AreFiles(c.files) /\ DOMAIN nw.files \subseteq DOMAIN c.files
  <2>1. AreFiles(c.files)
    BY <1>1, <1>2, OverFiles
  <2>2. DOMAIN nw.files \subseteq DOMAIN c.files
    BY <1>1, <1>2 DEF Over
  <2> QED BY <2>1, <2>2
<1>9. InDir(c.flags, root)
  BY <1>1, <1>3, <1>5, OverInDir
<1>10. /\ DOMAIN nw.flags \subseteq DOMAIN c.flags
       /\ "http-port" \in DOMAIN c.flags /\ c.flags["http-port"] = nodes[n].port
  BY <1>1, <1>3, <1>6 DEF Over
<1>11. Agree(c.flags, h, SettingFlags)
  BY <1>1, <1>3 DEF Over, Agree
<1>12. IsConfig(c)
  BY <1>1, <1>2, <1>7, <1>8 DEF IsConfig
<1> QED
  BY <1>8, <1>9, <1>10, <1>11, <1>12 DEF c, h, cfg

\* loadConfig launches the nodes of the config and no others.
LEMMA LoadConfigFacts ==
  ASSUME NEW configs, NEW w, NEW dir, NEW busy, NEW ns \in loadConfig(configs, w, dir, busy)
  PROVE  /\ IsMap(ns) /\ DOMAIN ns = Names
         /\ \A n \in Names : IF n \in DOMAIN configs THEN Placed(ns[n], configs[n], w, dir)
                             ELSE ns[n] = None
BY DEF loadConfig, IsMap, Placed

\* The options of a request are a config.
LEMMA OptionsConfig ==
  ASSUME NEW o, AreFlags(o.flags, SettingFlags), AreFiles(o.files), NEW dir
  PROVE  AreFlags(o.flags, ConfigFlags) /\ InDir(o.flags, dir)
BY SMT, MoreFlags, SettingsInDir DEF ConfigFlags

\* No options are options.
LEMMA NothingOptions == AreFlags(Nothing.flags, SettingFlags) /\ AreFiles(Nothing.files)
BY DEF Nothing, NoFlags, AreFlags, AreFiles, IsMap, NamesPlugins

\* The parts of createConfig's network and node configs.
LEMMA StartFacts ==
  ASSUME NEW r \in StartRequests
  PROVE  LET plugin == Restrict(r.flags, DOMAIN r.flags \cap {"plugin-dir"})
             track == Restrict(r.flags, DOMAIN r.flags \cap {"track-subnets"})
         IN /\ AreFlags(Over(r.global, plugin), SettingFlags)
            /\ AreFlags(Over(track, r.custom), SettingFlags)
<1> DEFINE plugin == Restrict(r.flags, DOMAIN r.flags \cap {"plugin-dir"})
           track == Restrict(r.flags, DOMAIN r.flags \cap {"track-subnets"})
           all == Over(r.global, r.flags)
<1>1. AreFlags(all, SettingFlags) /\ AreFlags(r.custom, SettingFlags)
  BY StartRequestsAssumption
<1>2. /\ DOMAIN plugin = DOMAIN r.flags \cap {"plugin-dir"}
      /\ \A k \in DOMAIN plugin : plugin[k] = r.flags[k]
      /\ DOMAIN track = DOMAIN r.flags \cap {"track-subnets"}
  BY DEF Restrict
<1>3. DOMAIN all = DOMAIN r.global \cup DOMAIN r.flags
  BY DEF Over
<1>4. AreFlags(track, SettingFlags)
  BY <1>2 DEF AreFlags, IsMap, NamesPlugins, SettingFlags, Restrict
<1> HIDE DEF plugin, track
<1> DEFINE g == Over(r.global, plugin)
<1>5. IsMap(g) /\ DOMAIN g \subseteq SettingFlags
  BY <1>1, <1>2, <1>3 DEF AreFlags, Over, IsMap
<1>6. "plugin-dir" \in DOMAIN g =>
        "plugin-dir" \in DOMAIN all /\ g["plugin-dir"] = all["plugin-dir"]
  BY <1>2 DEF Over
<1> HIDE DEF g, all
<1>7. AreFlags(g, SettingFlags)
  BY <1>1, <1>5, <1>6 DEF AreFlags, NamesPlugins
<1>8. AreFlags(Over(track, r.custom), SettingFlags)
  BY <1>1, <1>4, OverFlags
<1> QED
  BY <1>7, <1>8 DEF g, plugin, track

\* createConfig makes a config that has the settings of the request.
LEMMA CreatedFacts ==
  ASSUME NEW n, NEW b, NEW own, AreFlags(own, SettingFlags), NEW dynamic
  PROVE  LET c == createConfig(n, b, own, dynamic)
         IN /\ AreFlags(c.flags, ConfigFlags) /\ AreFiles(c.files)
            /\ DOMAIN c.flags \cap Dirs = {}
            /\ Agree(c.flags, own, SettingFlags)
            /\ c.files = NoFlags /\ c.binary = b
BY SMT, MoreFlags, OverFlags DEF createConfig, NoFlags, Flag, IsMap, AreFlags, NamesPlugins,
   ConfigFlags, Over, SettingFlags, Dirs, Agree, AreFiles

\* c is the config b of a node of the snapshot s with the options o, for dir.
IsLoaded(c, s, b, o, dir) ==
  /\ c.binary = IF o.binary = NoBinary THEN b.binary ELSE o.binary
  /\ c.binary # NoBinary
  /\ AreFlags(c.flags, ConfigFlags) /\ InDir(c.flags, dir)
  /\ DOMAIN fixDeprecatedLuxdFlags(s.flags) \subseteq DOMAIN c.flags
  /\ Agree(c.flags, Over(fixDeprecatedLuxdFlags(b.flags), o.flags), SettingFlags)
  /\ "http-port" \in DOMAIN c.flags /\ c.flags["http-port"] = b.flags["http-port"]
  /\ c.files = Over(b.files, o.files) /\ AreFiles(b.files) /\ AreFiles(c.files)
  /\ DOMAIN s.files \subseteq DOMAIN c.files

\* loadSnapshot makes of a saved node a config that names no old directory.
LEMMA LoadedFacts ==
  ASSUME NEW s, IsSnapshot(s), NEW n \in DOMAIN s.nodes, NEW dir, NEW o,
         AreFlags(o.flags, SettingFlags), AreFiles(o.files)
  PROVE  IsLoaded(Loaded(s.nodes[n], o, dir), s, s.nodes[n], o, dir)
<1> DEFINE d == fixDeprecatedLuxdFlags(s.flags)
           b == s.nodes[n]
           f == fixDeprecatedLuxdFlags(b.flags)
           c == Loaded(b, o, dir)
           h == Over(f, o.flags)
           p == Flag("db-dir", dir)
<1>1. /\ b.binary # NoBinary /\ "http-port" \in DOMAIN b.flags
      /\ AreFlags(f, SettingFlags \cup {"http-port", "db-dir"})
      /\ DOMAIN d \subseteq DOMAIN f
      /\ AreFiles(b.files) /\ DOMAIN s.files \subseteq DOMAIN b.files
  BY DEF IsSnapshot
<1>2. /\ c.binary = (IF o.binary = NoBinary THEN b.binary ELSE o.binary)
      /\ c.flags = Over(h, p) /\ c.files = Over(b.files, o.files)
  BY DEF Loaded
<1>3. "http-port" \in DOMAIN f /\ f["http-port"] = b.flags["http-port"]
  <2> HIDE DEF b
  <2> QED BY <1>1, FixFacts
<1>4. DOMAIN p = {"db-dir"} /\ p["db-dir"] = dir /\ IsMap(p)
  BY DEF Flag, IsMap
<1> HIDE DEF d, b, f, c, p
<1>5. AreFlags(h, SettingFlags \cup {"http-port", "db-dir"})
  BY SMT, MoreFlags, <1>1, OverFlags
<1>6. /\ DOMAIN f \subseteq DOMAIN h /\ "http-port" \in DOMAIN h
      /\ h["http-port"] = b.flags["http-port"]
  BY <1>3 DEF Over, AreFlags, SettingFlags
<1> HIDE DEF h
<1>7. AreFlags(c.flags, ConfigFlags)
  <2>1. AreFlags(h, ConfigFlags)
    BY SMT, <1>5, MoreFlags DEF ConfigFlags, Dirs
  <2>2. AreFlags(p, ConfigFlags)
    BY <1>4 DEF AreFlags, NamesPlugins, ConfigFlags, Dirs
  <2> QED BY <1>2, <2>1, <2>2, OverFlags
<1>8. InDir(c.flags, dir)
  BY <1>5, <1>2, <1>4 DEF AreFlags, SettingFlags, Dirs, Over, InDir
<1>9. /\ DOMAIN d \subseteq DOMAIN c.flags
      /\ "http-port" \in DOMAIN c.flags /\ c.flags["http-port"] = b.flags["http-port"]
  BY <1>1, <1>2, <1>4, <1>6 DEF Over
<1>10. Agree(c.flags, h, SettingFlags)
  BY <1>2, <1>4 DEF Agree, Over, SettingFlags
<1>11. AreFiles(c.files)
  BY <1>1, <1>2, OverFiles
<1>12. DOMAIN s.files \subseteq DOMAIN c.files
  BY <1>1, <1>2 DEF Over
<1>13. c.binary # NoBinary
  BY <1>1, <1>2
<1>14. IsLoaded(c, s, b, o, dir)
  BY <1>1, <1>2, <1>7, <1>8, <1>9, <1>10, <1>11, <1>12, <1>13 DEF IsLoaded, d, f, h
<1> QED
  BY <1>14 DEF c, b

\* SaveSnapshot and the renaming leave the defaults of the network alone.
LEMMA SavedNetworkFlags ==
  ASSUME NEW f, AreFlags(f, SettingFlags)
  PROVE  SavedFlags(f) = f /\ fixDeprecatedLuxdFlags(f) = f
BY FixSame DEF AreFlags, SettingFlags, SavedFlags, Without, Restrict, IsMap

\* SaveSnapshot drops the directories of a node and keeps its settings.
LEMMA SavedNodeFlags ==
  ASSUME NEW f, NEW p, AreFlags(f, ConfigFlags)
  PROVE  LET g == Over(SavedFlags(f), Flag("http-port", p))
         IN /\ fixDeprecatedLuxdFlags(g) = g
            /\ AreFlags(g, SettingFlags \cup {"http-port", "db-dir"})
            /\ Agree(g, f, SettingFlags)
            /\ "http-port" \in DOMAIN g /\ g["http-port"] = p
BY SMT, FixSame DEF SavedFlags, Without, Restrict, Flag, Over, IsMap, AreFlags, ConfigFlags,
   Dirs, NamesPlugins, SettingFlags, Agree

\* SaveSnapshot leaves a snapshot that can be loaded.
LEMMA SavedIsSnapshot ==
  ASSUME SettingsInv, SaveSnapshot
  PROVE  IsSnapshot(snap')
<1>1. IsNetwork(nw)
  BY DEF SaveSnapshot, SettingsInv
<1> DEFINE C(n) == [nodes[n].cfg EXCEPT
                      !.flags = Over(SavedFlags(nodes[n].cfg.flags), Flag("http-port", nodes[n].port))]
           s == [binary |-> nw.binary, flags |-> SavedFlags(nw.flags), files |-> nw.files,
                 nodes |-> [n \in Present |-> C(n)]]
<1>2. snap' = s
  BY DEF SaveSnapshot
<1>3. SavedFlags(nw.flags) = nw.flags /\ fixDeprecatedLuxdFlags(nw.flags) = nw.flags
  BY <1>1, SavedNetworkFlags DEF IsNetwork
<1>4. ASSUME NEW n \in Present
      PROVE  LET c == C(n)
                 flags == fixDeprecatedLuxdFlags(c.flags)
             IN /\ c.binary # NoBinary
                /\ "http-port" \in DOMAIN c.flags
                /\ AreFlags(flags, SettingFlags \cup {"http-port", "db-dir"})
                /\ DOMAIN nw.flags \subseteq DOMAIN flags
                /\ AreFiles(c.files) /\ DOMAIN nw.files \subseteq DOMAIN c.files
  <2> DEFINE b == nodes[n].cfg
             g == Over(SavedFlags(b.flags), Flag("http-port", nodes[n].port))
  <2>1. /\ IsConfig(b) /\ DOMAIN nw.flags \subseteq DOMAIN b.flags
        /\ DOMAIN nw.files \subseteq DOMAIN b.files
    BY DEF SettingsInv, IsNode
  <2>2. /\ b = [binary |-> b.binary, flags |-> b.flags, files |-> b.files]
        /\ b.binary # NoBinary /\ AreFlags(b.flags, ConfigFlags) /\ AreFiles(b.files)
    BY <2>1 DEF IsConfig
  <2>3. C(n) = [b EXCEPT !.flags = g]
    OBVIOUS
  <2>4. /\ fixDeprecatedLuxdFlags(g) = g
        /\ AreFlags(g, SettingFlags \cup {"http-port", "db-dir"})
        /\ Agree(g, b.flags, SettingFlags)
        /\ "http-port" \in DOMAIN g
    BY <2>2, SavedNodeFlags
  <2> HIDE DEF b, g, C
  <2>5. C(n).binary = b.binary /\ C(n).flags = g /\ C(n).files = b.files
    BY <2>2, <2>3
  <2>6. DOMAIN nw.flags \subseteq DOMAIN g
    BY <1>1, <2>1, <2>4 DEF IsNetwork, AreFlags, Agree
  <2> QED BY <2>1, <2>2, <2>4, <2>5, <2>6
<1>5. /\ s.binary = nw.binary /\ s.flags = nw.flags /\ s.files = nw.files
      /\ DOMAIN s.nodes = Present /\ \A n \in Present : s.nodes[n] = C(n)
  BY <1>3
<1> HIDE DEF s, C
<1>6. IsSnapshot(s)
  BY <1>1, <1>3, <1>4, <1>5 DEF IsSnapshot, IsNetwork
<1> QED BY <1>2, <1>6

\* Start keeps the invariant.
LEMMA StartInv ==
  ASSUME NoneIsNoRecord, SettingsInv, NEW r \in StartRequests, Start(r)
  PROVE  SettingsInv'
<1> DEFINE plugin == Restrict(r.flags, DOMAIN r.flags \cap {"plugin-dir"})
           track == Restrict(r.flags, DOMAIN r.flags \cap {"track-subnets"})
           own == Over(track, r.custom)
           configs == [n \in Started |-> createConfig(n, r.binary, own, r.dynamic)]
<1>1. /\ nw' = [binary |-> r.binary, flags |-> Over(r.global, plugin),
                files |-> DefaultFiles, reassign |-> r.reassign]
      /\ root' = clock' /\ UNCHANGED snap
  BY DEF Start
<1>2. PICK busy \in Busy : nodes' \in loadConfig(configs, nw', clock', busy)
  BY Zenon DEF Start
<1>3. AreFlags(Over(r.global, plugin), SettingFlags) /\ AreFlags(own, SettingFlags)
  BY StartFacts
<1>4. AreFiles(DefaultFiles)
  BY DEF DefaultFiles, AreFiles, IsMap, SettingFlags
<1> HIDE DEF plugin, own
<1>5. IsNetwork(nw') /\ nw' # None
  BY <1>1, <1>3, <1>4, StartRequestsAssumption DEF IsNetwork, NoneIsNoRecord
<1>6. /\ DOMAIN configs = Started
      /\ \A n \in Started : configs[n] = createConfig(n, r.binary, own, r.dynamic)
  OBVIOUS
<1> HIDE DEF configs
<1>7. IsMap(nodes') /\ DOMAIN nodes' = Names
  BY <1>2, LoadConfigFacts
<1>8. ASSUME NEW n \in Names PROVE nodes'[n] = None \/ IsNode(nodes'[n], nw', clock')
  <2>1. CASE n \notin DOMAIN configs
    BY SMT, <1>2, <2>1, LoadConfigFacts
  <2>2. CASE n \in DOMAIN configs
    <3>1. Placed(nodes'[n], configs[n], nw', clock')
      BY <1>2, <2>2, LoadConfigFacts
    <3>2. /\ AreFlags(configs[n].flags, ConfigFlags) /\ AreFiles(configs[n].files)
          /\ InDir(configs[n].flags, clock')
      BY SMT, <1>3, CreatedFacts, <1>6, <2>2 DEF InDir
    <3> QED BY <1>5, <3>1, <3>2, PlacedNode
  <2> QED BY <2>1, <2>2
<1> QED
  BY <1>1, <1>5, <1>7, <1>8, NodesSet

\* LoadSnapshot keeps the invariant.
LEMMA LoadInv ==
  ASSUME NoneIsNoRecord, SettingsInv, NEW o, AreFlags(o.flags, SettingFlags), AreFiles(o.files),
         NEW reassign \in BOOLEAN, LoadSnapshot(o, reassign)
  PROVE  SettingsInv'
<1> DEFINE configs == [n \in DOMAIN snap.nodes |-> Loaded(snap.nodes[n], o, clock')]
<1>1. /\ nw' = [binary |-> snap.binary, flags |-> fixDeprecatedLuxdFlags(snap.flags),
                files |-> snap.files, reassign |-> reassign]
      /\ root' = clock' /\ UNCHANGED snap /\ snap # None
  BY DEF LoadSnapshot
<1>2. PICK busy \in Busy : nodes' \in loadConfig(configs, nw', clock', busy)
  BY Zenon DEF LoadSnapshot
<1>3. IsSnapshot(snap)
  BY <1>1 DEF SettingsInv
<1>4. IsNetwork(nw') /\ nw' # None
  BY <1>1, <1>3 DEF IsNetwork, IsSnapshot, NoneIsNoRecord
<1>5. /\ DOMAIN configs = DOMAIN snap.nodes
      /\ \A n \in DOMAIN snap.nodes : configs[n] = Loaded(snap.nodes[n], o, clock')
  OBVIOUS
<1> HIDE DEF configs
<1>6. IsMap(nodes') /\ DOMAIN nodes' = Names
  BY <1>2, LoadConfigFacts
<1>7. ASSUME NEW n \in Names PROVE nodes'[n] = None \/ IsNode(nodes'[n], nw', clock')
  <2>1. CASE n \notin DOMAIN configs
    BY SMT, <1>2, <2>1, LoadConfigFacts
  <2>2. CASE n \in DOMAIN configs
    <3>1. Placed(nodes'[n], configs[n], nw', clock')
      BY <1>2, <2>2, LoadConfigFacts
    <3>2. /\ AreFlags(configs[n].flags, ConfigFlags) /\ AreFiles(configs[n].files)
          /\ InDir(configs[n].flags, clock')
      <4> DEFINE c == Loaded(snap.nodes[n], o, clock')
      <4>1. n \in DOMAIN snap.nodes
        BY <1>5, <2>2
      <4>2. IsLoaded(c, snap, snap.nodes[n], o, clock')
        BY <1>3, <4>1, LoadedFacts
      <4> QED BY <1>5, <4>1, <4>2 DEF IsLoaded
    <3> QED BY <1>4, <3>1, <3>2, PlacedNode
  <2> QED BY <2>1, <2>2
<1> QED
  BY <1>1, <1>4, <1>6, <1>7, NodesSet

\* A node of the network that is paused is still one.
LEMMA PausedNode ==
  ASSUME NEW v, NEW w, NEW dir, IsNode(v, w, dir), NEW c, IsConfig(c), InDir(c.flags, dir),
         DOMAIN w.flags \subseteq DOMAIN c.flags, DOMAIN w.files \subseteq DOMAIN c.files
  PROVE  IsNode(Paused(v, c), w, dir)
BY DEF Paused, IsNode

-----------------------------------------------------------------------------
(* Every request keeps the invariant *)

\* Every request keeps the invariant.
LEMMA NextInv ==
  ASSUME NoneIsNoRecord, SettingsInv, [Next]_vars
  PROVE  SettingsInv'
<1>1. ASSUME NEW r \in StartRequests, Start(r) PROVE SettingsInv'
  BY <1>1, StartInv
<1>2. ASSUME NEW r \in StartRequests, StartPanics(r) PROVE SettingsInv'
  BY <1>2 DEF StartPanics, SettingsInv, Present
<1>3. ASSUME NEW n \in Names, NEW o, AreFlags(o.flags, SettingFlags), AreFiles(o.files),
             AddNode(n, o)
      PROVE  SettingsInv'
  BY <1>3, OptionsConfig, AddedPlaced, PlacedNode, NodePut DEF AddNode, SettingsInv
<1>4. ASSUME NEW n \in Names, NEW o, AreFlags(o.flags, SettingFlags), AreFiles(o.files),
             RestartNode(n, o)
      PROVE  SettingsInv'
  BY <1>4, RestartedFacts, AddedPlaced, PlacedNode, NodePut DEF RestartNode, SettingsInv,
     IsConfig
<1>5. ASSUME NEW n \in Names, NEW o, AreFlags(o.flags, SettingFlags), AreFiles(o.files),
             RestartFails(n, o)
      PROVE  SettingsInv'
  <2> DEFINE c == Restarted(n, o)
             b == [binary |-> nodes[n].cfg.binary, flags |-> c.flags, files |-> c.files]
             v == Paused(nodes[n], b)
  <2>1. n \in Present /\ UNCHANGED <<nw, root, snap>>
    BY <1>5 DEF RestartFails
  <2>2. nodes' = [nodes EXCEPT ![n] = IF nodes[n].paused THEN v ELSE None]
    BY <1>5 DEF RestartFails
  <2>3. nw # None /\ IsNode(nodes[n], nw, root)
    BY <2>1 DEF SettingsInv
  <2>4. /\ IsConfig(c) /\ InDir(c.flags, root)
        /\ DOMAIN nw.flags \subseteq DOMAIN c.flags
        /\ DOMAIN nw.files \subseteq DOMAIN c.files
    BY <1>5, <2>1, RestartedFacts
  <2> HIDE DEF c
  <2>5. /\ b = [binary |-> b.binary, flags |-> b.flags, files |-> b.files]
        /\ b.binary = nodes[n].cfg.binary /\ b.flags = c.flags /\ b.files = c.files
    OBVIOUS
  <2> HIDE DEF b
  <2>6. IsConfig(b)
    BY <2>3, <2>4, <2>5 DEF IsConfig, IsNode
  <2>7. IsNode(v, nw, root)
    BY <2>3, <2>4, <2>5, <2>6, PausedNode
  <2> HIDE DEF v
  <2> QED BY <2>1, <2>2, <2>3, <2>7, NodePut
<1>6. ASSUME NEW n \in Names, PauseNode(n) PROVE SettingsInv'
  <2> DEFINE v == Paused(nodes[n], nodes[n].cfg)
  <2>1. n \in Present /\ UNCHANGED <<nw, root, snap>> /\ nodes' = [nodes EXCEPT ![n] = v]
    BY <1>6 DEF PauseNode
  <2>2. nw # None /\ IsNode(nodes[n], nw, root)
    BY <2>1 DEF SettingsInv
  <2>3. /\ IsConfig(nodes[n].cfg) /\ InDir(nodes[n].cfg.flags, root)
        /\ DOMAIN nw.flags \subseteq DOMAIN nodes[n].cfg.flags
        /\ DOMAIN nw.files \subseteq DOMAIN nodes[n].cfg.files
    BY <2>2 DEF IsNode
  <2>4. IsNode(v, nw, root)
    BY <2>2, <2>3, PausedNode
  <2> HIDE DEF v
  <2> QED BY <2>1, <2>2, <2>4, NodePut
<1>7. ASSUME NEW n \in Names, ResumeNode(n) PROVE SettingsInv'
  BY <1>4, <1>7, NothingOptions DEF ResumeNode
<1>8. ASSUME NEW n \in Names, RemoveNode(n) PROVE SettingsInv'
  BY <1>8, NodePut DEF RemoveNode, SettingsInv
<1>9. CASE Stop
  BY <1>9, StoppedInv DEF Stop, SettingsInv
<1>10. CASE SaveSnapshot
  BY <1>10, SavedIsSnapshot, StoppedInv DEF SaveSnapshot
<1>11. ASSUME NEW o \in Requests, NEW r \in BOOLEAN, LoadSnapshot(o, r) PROVE SettingsInv'
  BY <1>11, RequestsAssumption, LoadInv
<1>12. CASE UNCHANGED vars
  BY <1>12 DEF vars, SettingsInv, Present
<1> QED
  BY <1>1, <1>2, <1>3, <1>4, <1>5, <1>6, <1>7, <1>8, <1>9, <1>10, <1>11, <1>12,
     RequestsAssumption DEF Next

\* The configs and the arguments of nodes are what addNode, restartNode and
\* loadSnapshot promise, whatever the requests, the snapshots and the busy ports.
THEOREM InvariantHolds == ASSUME NoneIsNoRecord PROVE Spec => []SettingsInv
<1>1. Init => SettingsInv
  BY InitInv
<1>2. SettingsInv /\ [Next]_vars => SettingsInv'
  BY NextInv
<1> QED
  BY <1>1, <1>2, PTL DEF Spec

\* Every running node keeps its data, its database and its logs in the directory
\* of its own network, although restartNode writes these directories into the
\* flags that SaveSnapshot saves.
THEOREM Directories == ASSUME NoneIsNoRecord PROVE Spec => []DirsInRoot
<1>1. SettingsInv => DirsInRoot
  BY DEF SettingsInv, IsNode, AllIn, DirsInRoot
<1> QED
  BY <1>1, InvariantHolds, PTL

-----------------------------------------------------------------------------
(* What NodeSettings sees *)

\* What NodeSettings sees of a node.
View(v) == IF v = None THEN None ELSE MeansNode(v)

\* Running or paused, a node shows the settings of its config.
LEMMA ShownNode ==
  ASSUME NEW v, NEW w, NEW dir, IsNode(v, w, dir)
  PROVE  (IF v.paused THEN Means(v.cfg.binary, v.cfg.flags, v.cfg.files)
          ELSE Means(v.cfg.binary, Understood(v.cfg.binary, v.args), v.cfg.files))
           = Means(v.cfg.binary, v.cfg.flags, v.cfg.files)
BY EffectiveNode

\* The nodes that NodeSettings sees.
LEMMA Shown ==
  ASSUME SettingsInv
  PROVE  DOMAIN Running = Names /\ \A n \in Names : Running[n] = View(nodes[n])
BY ShownNode DEF Running, SettingsInv, EffectiveSettings, MeansNode, View, Present

\* The same after the step.
LEMMA ShownNext ==
  ASSUME SettingsInv'
  PROVE  DOMAIN Running' = Names /\ \A n \in Names : Running'[n] = View(nodes'[n])
BY ShownNode DEF Running, SettingsInv, EffectiveSettings, MeansNode, View, Present

\* A step that changes one node changes that node of NodeSettings.
LEMMA NodeChanges ==
  ASSUME SettingsInv, SettingsInv', NEW n \in Names, NEW v, nodes' = [nodes EXCEPT ![n] = v],
         NEW T, View(v) \in T
  PROVE  Expected!Node(n, T)
<1>1. \A m \in Names : Running[m] = View(nodes[m]) /\ Running'[m] = View(nodes'[m])
  BY Shown, ShownNext
<1>2. DOMAIN Running' = Names
  BY DEF Running
<1>3. \A m \in Names \ {n} : Running'[m] = Running[m]
  BY <1>1 DEF SettingsInv
<1>4. Running'[n] \in T
  BY <1>1 DEF SettingsInv
<1> QED
  BY <1>2, <1>3, <1>4 DEF Expected!Node

\* NodeSettings sees the defaults and the snapshot only.
LEMMA SameNetwork ==
  ASSUME UNCHANGED <<nw, snap>>
  PROVE  UNCHANGED <<Defaults, Saved>>
BY DEF Defaults, Saved

\* NodeSettings sees the options of the request.
LEMMA AskedOptions ==
  ASSUME NEW o, NEW n \in Names, asked' = Asks(o)
  PROVE  Options'.node[n] = Meant(o)
BY DEF Options, Asks

\* The defaults under the options, as WithDefaults puts them.
LEMMA CreatedMeans ==
  ASSUME NEW o, NEW w, AreFiles(w.files), AreFlags(o.flags, SettingFlags), AreFiles(o.files)
  PROVE  LET c == WithDefaults(o, w)
         IN Means(c.binary, c.flags, c.files) =
              Expected!Apply(Means(w.binary, w.flags, w.files), Meant(o))
BY SMT, ApplyMeans DEF WithDefaults

\* A launched node shows the settings of its config.
LEMMA LaunchedView ==
  ASSUME NoneIsNoRecord, NEW c, NEW dir, NEW p
  PROVE  View(Launched(c, dir, p)) = [settings |-> Means(c.binary, c.flags, c.files), port |-> p]
BY DEF View, MeansNode, Launched, NoneIsNoRecord

\* A new node has the defaults and its options.
LEMMA PlacedView ==
  ASSUME NoneIsNoRecord, NEW v, NEW c, NEW w, NEW dir, Placed(v, c, w, dir)
  PROVE  LET d == WithDefaults(c, w)
         IN \E p \in Ports : View(v) = [settings |-> Means(d.binary, d.flags, d.files), port |-> p]
BY SMT, LaunchedView DEF Placed

\* The settings and the port of what NodeSettings sees.
LEMMA NodeView ==
  ASSUME NEW v, v # None
  PROVE  View(v).settings = Means(v.cfg.binary, v.cfg.flags, v.cfg.files) /\ View(v).port = v.port
BY DEF View, MeansNode

\* NodeSettings sees a node if there is one.
LEMMA ViewNone ==
  ASSUME NoneIsNoRecord, NEW v
  PROVE  View(v) = None <=> v = None
BY DEF View, MeansNode, NoneIsNoRecord

\* The defaults that NodeSettings sees.
LEMMA NetworkView ==
  ASSUME nw # None
  PROVE  /\ Defaults.settings = Means(nw.binary, nw.flags, nw.files)
         /\ Defaults.reassign = nw.reassign
BY DEF Defaults

\* NodeSettings sees a network if there is one.
LEMMA NoNetwork == ASSUME NoneIsNoRecord PROVE Defaults = None <=> nw = None
BY DEF Defaults, NoneIsNoRecord

-----------------------------------------------------------------------------
(* Every request is a step of NodeSettings *)

\* AddNode gives the node the defaults and the options.
LEMMA AddStep ==
  ASSUME NoneIsNoRecord, SettingsInv, SettingsInv', NEW n \in Names, NEW o,
         AreFlags(o.flags, SettingFlags), AreFiles(o.files), AddNode(n, o)
  PROVE  Expected!Add(n)
<1> DEFINE c == WithDefaults(o, nw)
           T == Expected!Created(n, Defaults)
<1>1. nw # None /\ UNCHANGED <<nw, snap>> /\ asked' = Asks(o)
  BY DEF AddNode
<1>2. PICK busy \in Busy : \E node \in addNode(n, o, busy) : nodes' = [nodes EXCEPT ![n] = node]
  BY DEF AddNode
<1>3. PICK node \in addNode(n, o, busy) : nodes' = [nodes EXCEPT ![n] = node]
  BY <1>2
<1>4. Placed(node, o, nw, root)
  BY AddedPlaced
<1>5. Means(c.binary, c.flags, c.files) =
        Expected!Apply(Means(nw.binary, nw.flags, nw.files), Meant(o))
  BY <1>1, CreatedMeans DEF SettingsInv, IsNetwork
<1>6. PICK p \in Ports : View(node) = [settings |-> Means(c.binary, c.flags, c.files), port |-> p]
  BY <1>4, PlacedView
<1> HIDE DEF c
<1>7. Defaults.settings = Means(nw.binary, nw.flags, nw.files) /\ Options'.node[n] = Meant(o)
  BY <1>1, NetworkView, AskedOptions
<1>8. View(node) \in T
  BY <1>5, <1>6, <1>7 DEF Expected!Created, Expected!On
<1>9. Expected!Node(n, T)
  BY <1>3, <1>8, NodeChanges
<1>10. Defaults # None /\ UNCHANGED <<Defaults, Saved>>
  BY <1>1, NoNetwork, SameNetwork
<1> QED
  BY <1>9, <1>10 DEF Expected!Add

\* The ports the network can give a node that has a port.
LEMMA PortFacts ==
  ASSUME NEW flags, "http-port" \in DOMAIN flags, NEW reassign \in BOOLEAN, NEW used,
         NEW p \in getPort(flags, reassign, used)
  PROVE  p \in IF reassign THEN Ports ELSE {flags["http-port"]}
BY DEF getPort

\* A config that the defaults w add nothing to, since they went into it before.
Complete(c, w) ==
  /\ c.binary # NoBinary /\ IsMap(c.flags) /\ IsMap(c.files)
  /\ DOMAIN w.flags \subseteq DOMAIN c.flags /\ DOMAIN w.files \subseteq DOMAIN c.files
  /\ "http-port" \in DOMAIN c.flags

\* The node that becomes of such a config.
LEMMA PlacedAgain ==
  ASSUME NoneIsNoRecord, NEW v, NEW c, NEW w, w.reassign \in BOOLEAN, NEW dir,
         Placed(v, c, w, dir), Complete(c, w)
  PROVE  \E p \in IF w.reassign THEN Ports ELSE {c.flags["http-port"]} :
           View(v) = [settings |-> Means(c.binary, c.flags, c.files), port |-> p]
BY SMT, OverAbsorbs, PortFacts, LaunchedView DEF Placed, WithDefaults, Complete

\* The settings of the config that restartNode makes.
LEMMA RestartedMeans ==
  ASSUME SettingsInv, NEW n \in Present, NEW o,
         AreFlags(o.flags, SettingFlags), AreFiles(o.files)
  PROVE  LET c == Restarted(n, o)
             cfg == nodes[n].cfg
         IN \A b : Means(b, c.flags, c.files) =
                     Means(b, Over(cfg.flags, o.flags), Over(cfg.files, o.files))
<1> DEFINE c == Restarted(n, o)
           cfg == nodes[n].cfg
<1>1. c.files = Over(cfg.files, o.files)
  BY DEF Restarted
<1>2. Agree(c.flags, Over(cfg.flags, o.flags), SettingFlags)
  BY RestartedFacts
<1> HIDE DEF c, cfg
<1>3. ASSUME NEW b
      PROVE Means(b, c.flags, c.files) =
              Means(b, Over(cfg.flags, o.flags), Over(cfg.files, o.files))
  BY SMT, <1>1, <1>2, MeansSame
<1> QED
  BY <1>3 DEF c, cfg

\* RestartNode, and so ResumeNode, changes what the options name.
LEMMA RestartStep ==
  ASSUME NoneIsNoRecord, SettingsInv, SettingsInv', NEW n \in Names, NEW o,
         AreFlags(o.flags, SettingFlags), AreFiles(o.files), RestartNode(n, o)
  PROVE  Expected!Restart(n)
<1> DEFINE cfg == nodes[n].cfg
           c == Restarted(n, o)
           T == Expected!Again(Running[n], Options'.node[n], Defaults)
<1>1. n \in Present /\ UNCHANGED <<nw, snap>> /\ asked' = Asks(o)
  BY DEF RestartNode
<1>2. /\ nw # None /\ IsNode(nodes[n], nw, root) /\ nw.reassign \in BOOLEAN
      /\ nodes[n] # None
  BY <1>1 DEF SettingsInv, IsNetwork, Present
<1>3. PICK busy \in Busy : \E node \in addNode(n, c, busy) : nodes' = [nodes EXCEPT ![n] = node]
  BY DEF RestartNode
<1>4. PICK node \in addNode(n, c, busy) : nodes' = [nodes EXCEPT ![n] = node]
  BY <1>3
<1>5. /\ IsConfig(c) /\ DOMAIN nw.flags \subseteq DOMAIN c.flags
      /\ DOMAIN nw.files \subseteq DOMAIN c.files
      /\ "http-port" \in DOMAIN c.flags /\ c.flags["http-port"] = nodes[n].port
  BY <1>1, RestartedFacts
<1>6. \A b : Means(b, c.flags, c.files) =
              Means(b, Over(cfg.flags, o.flags), Over(cfg.files, o.files))
  BY <1>1, RestartedMeans
<1>7. c.binary = IF o.binary = NoBinary THEN cfg.binary ELSE o.binary
  BY DEF Restarted
<1>8. AreFiles(cfg.files)
  BY <1>2 DEF IsNode, IsConfig
<1>9. /\ Running[n].settings = Means(cfg.binary, cfg.flags, cfg.files)
      /\ Running[n].port = nodes[n].port /\ Running[n] # None
  BY <1>2, Shown, NodeView, ViewNone
<1> HIDE DEF c, cfg
<1>10. Complete(c, nw)
  BY <1>5 DEF Complete, IsConfig, AreFlags, AreFiles
<1>11. Placed(node, c, nw, root)
  BY AddedPlaced
<1>12. PICK p \in IF nw.reassign THEN Ports ELSE {nodes[n].port} :
         View(node) = [settings |-> Means(c.binary, c.flags, c.files), port |-> p]
  BY SMT, <1>2, <1>5, <1>10, <1>11, PlacedAgain
<1>13. Means(c.binary, c.flags, c.files) =
         Expected!Apply(Means(cfg.binary, cfg.flags, cfg.files), Meant(o))
  BY SMT, <1>6, <1>7, <1>8, ApplyMeans
<1>14. Defaults.reassign = nw.reassign /\ Options'.node[n] = Meant(o)
  BY <1>1, <1>2, NetworkView, AskedOptions
<1>15. View(node) \in T
  BY <1>9, <1>12, <1>13, <1>14 DEF Expected!Again, Expected!On
<1>16. Expected!Node(n, T)
  BY <1>4, <1>15, NodeChanges
<1>17. UNCHANGED <<Defaults, Saved>>
  BY <1>1, SameNetwork
<1> QED
  BY <1>9, <1>16, <1>17 DEF Expected!Restart

\* The part of the options that names flags and files.
LEMMA MeantPart ==
  ASSUME NEW o, AreFlags(o.flags, SettingFlags), AreFiles(o.files)
  PROVE  LET S == DOMAIN Meant(o) \ {"binary"}
         IN [k \in S |-> Meant(o)[k]] =
              Meant([binary |-> NoBinary, flags |-> o.flags, files |-> o.files])
<1> DEFINE S == DOMAIN Meant(o) \ {"binary"}
           q == [binary |-> NoBinary, flags |-> o.flags, files |-> o.files]
           l == [k \in S |-> Meant(o)[k]]
           r == Meant(q)
<1>1. q.binary = NoBinary /\ q.flags = o.flags /\ q.files = o.files
  OBVIOUS
<1> HIDE DEF q
<1>2. IsMap(r) /\ r = Over(o.flags, o.files)
  BY <1>1, OverFacts DEF Meant
<1>3. /\ \A k : k \in DOMAIN Meant(o) <=>
                (k = "binary" /\ o.binary # NoBinary) \/ k \in DOMAIN o.flags \/ k \in DOMAIN o.files
      /\ \A k \in DOMAIN o.flags : Meant(o)[k] = o.flags[k]
      /\ \A k \in DOMAIN o.files : Meant(o)[k] = o.files[k]
  BY MeantFacts
<1>4. "binary" \notin DOMAIN o.flags /\ "binary" \notin DOMAIN o.files
  BY DEF AreFlags, AreFiles, SettingFlags
<1>5. IsMap(l) /\ DOMAIN l = DOMAIN o.flags \cup DOMAIN o.files
  BY <1>3, <1>4 DEF IsMap
<1>6. DOMAIN r = DOMAIN o.flags \cup DOMAIN o.files
  BY <1>2, OverFacts
<1>7. ASSUME NEW k \in DOMAIN l PROVE l[k] = r[k]
  BY <1>2, <1>3, <1>5, <1>7 DEF Over
<1> HIDE DEF l, r
<1>8. l = r
  BY <1>2, <1>5, <1>6, <1>7, MapsEqual
<1> QED
  BY <1>8 DEF l, r, q, S

\* A paused node shows the settings of its config.
LEMMA PausedView ==
  ASSUME NoneIsNoRecord, NEW v, NEW c
  PROVE  View(Paused(v, c)) = [settings |-> Means(c.binary, c.flags, c.files), port |-> v.port]
BY DEF View, MeansNode, Paused, NoneIsNoRecord

\* A restart that fails loses a running node and leaves a paused one with some
\* of the options.
LEMMA FailStep ==
  ASSUME NoneIsNoRecord, SettingsInv, SettingsInv', NEW n \in Names, NEW o,
         AreFlags(o.flags, SettingFlags), AreFiles(o.files), RestartFails(n, o)
  PROVE  Expected!Fail(n) \/ Expected!Remove(n)
<1> DEFINE cfg == nodes[n].cfg
           c == Restarted(n, o)
           b == [binary |-> cfg.binary, flags |-> c.flags, files |-> c.files]
           v == Paused(nodes[n], b)
           q == [binary |-> NoBinary, flags |-> o.flags, files |-> o.files]
           S == DOMAIN Meant(o) \ {"binary"}
           a == Options'.node[n]
           T == {Expected!On(Expected!Apply(Running[n].settings, [k \in R |-> a[k]]), Running[n].port) :
                   R \in SUBSET DOMAIN a}
<1>1. n \in Present /\ UNCHANGED <<nw, snap>> /\ asked' = Asks(o)
  BY DEF RestartFails
<1>2. nodes' = [nodes EXCEPT ![n] = IF nodes[n].paused THEN v ELSE None]
  BY DEF RestartFails
<1>3. UNCHANGED <<Defaults, Saved>>
  BY <1>1, SameNetwork
<1>4. CASE ~nodes[n].paused
  BY <1>2, <1>4, NodeChanges, <1>3 DEF View, Expected!Remove
<1>5. CASE nodes[n].paused
  <2>1. nodes' = [nodes EXCEPT ![n] = v]
    BY <1>2, <1>5
  <2>2. \A x : Means(x, c.flags, c.files) =
                Means(x, Over(cfg.flags, o.flags), Over(cfg.files, o.files))
    BY <1>1, RestartedMeans
  <2>3. IsNode(nodes[n], nw, root) /\ nodes[n] # None
    BY <1>1 DEF SettingsInv, Present
  <2>4. AreFiles(cfg.files)
    BY <2>3 DEF IsNode, IsConfig
  <2>5. /\ Running[n].settings = Means(cfg.binary, cfg.flags, cfg.files)
        /\ Running[n].port = nodes[n].port /\ Running[n] # None
    BY <2>3, Shown, NodeView, ViewNone
  <2>6. a = Meant(o)
    BY <1>1, AskedOptions
  <2>7. [k \in S |-> Meant(o)[k]] = Meant(q)
    BY MeantPart
  <2>8. View(v) = [settings |-> Means(b.binary, b.flags, b.files), port |-> nodes[n].port]
    BY PausedView
  <2> HIDE DEF cfg, c
  <2>9. b.binary = cfg.binary /\ b.flags = c.flags /\ b.files = c.files
    OBVIOUS
  <2>10. q.binary = NoBinary /\ q.flags = o.flags /\ q.files = o.files
    OBVIOUS
  <2> HIDE DEF b, q, v, a
  <2>11. Expected!Apply(Means(cfg.binary, cfg.flags, cfg.files), Meant(q)) =
           Means(cfg.binary, Over(cfg.flags, o.flags), Over(cfg.files, o.files))
    BY SMT, <2>4, <2>10, ApplyMeans
  <2>12. View(v) = [settings |-> Expected!Apply(Running[n].settings, [k \in S |-> a[k]]),
                    port |-> Running[n].port]
    BY <2>2, <2>5, <2>6, <2>7, <2>8, <2>9, <2>11
  <2>13. S \in SUBSET DOMAIN a
    BY <2>6
  <2> HIDE DEF S
  <2>14. View(v) \in T
    BY <2>12, <2>13 DEF Expected!On
  <2>15. Expected!Node(n, T)
    BY <2>1, <2>14, NodeChanges
  <2> QED BY <1>3, <2>5, <2>15 DEF Expected!Fail, a
<1> QED
  BY <1>4, <1>5

\* PauseNode changes no setting.
LEMMA PauseStep ==
  ASSUME NoneIsNoRecord, SettingsInv, SettingsInv', NEW n \in Names, PauseNode(n)
  PROVE  Expected!Fail(n)
<1> DEFINE cfg == nodes[n].cfg
           v == Paused(nodes[n], cfg)
           a == Options'.node[n]
           T == {Expected!On(Expected!Apply(Running[n].settings, [k \in R |-> a[k]]), Running[n].port) :
                   R \in SUBSET DOMAIN a}
<1>1. /\ n \in Present /\ UNCHANGED <<nw, snap>>
      /\ nodes' = [nodes EXCEPT ![n] = v]
  BY DEF PauseNode
<1>2. nodes[n] # None
  BY <1>1 DEF Present
<1>3. /\ Running[n].settings = Means(cfg.binary, cfg.flags, cfg.files)
      /\ Running[n].port = nodes[n].port /\ Running[n] # None
  BY <1>2, Shown, NodeView, ViewNone
<1>4. View(v) = [settings |-> Means(cfg.binary, cfg.flags, cfg.files), port |-> nodes[n].port]
  BY PausedView
<1> HIDE DEF v, cfg
<1> DEFINE m == Means(cfg.binary, cfg.flags, cfg.files)
           e == [k \in {} |-> a[k]]
<1>5. IsMap(m)
  BY MeansFacts
<1> HIDE DEF m
<1>6. Expected!Apply(m, e) = m
  BY <1>5 DEF Expected!Apply, IsMap
<1>7. {} \in SUBSET DOMAIN a
  OBVIOUS
<1>8. View(v) = [settings |-> Expected!Apply(Running[n].settings, e), port |-> Running[n].port]
  BY <1>3, <1>4, <1>6 DEF m
<1>9. View(v) \in T
  BY <1>7, <1>8 DEF Expected!On
<1>10. Expected!Node(n, T)
  BY <1>1, <1>9, NodeChanges
<1>11. UNCHANGED <<Defaults, Saved>>
  BY <1>1, SameNetwork
<1> QED
  BY <1>3, <1>10, <1>11 DEF Expected!Fail

\* RemoveNode removes its node only.
LEMMA RemoveStep ==
  ASSUME SettingsInv, SettingsInv', NEW n \in Names, RemoveNode(n)
  PROVE  Expected!Remove(n)
BY NodeChanges, SameNetwork DEF RemoveNode, View, Expected!Remove

\* Nothing is left of a network that is stopped.
LEMMA StopNetworkStep ==
  ASSUME StopNetwork
  PROVE  Running' = Expected!Empty /\ Defaults' = None
BY DEF StopNetwork, Running, Present, Defaults, Expected!Empty

\* Stop keeps the snapshot.
LEMMA StopStep == ASSUME Stop PROVE Expected!Stop
BY StopNetworkStep DEF Stop, Expected!Stop, Saved

\* The snapshot has the settings and the port of a node.
LEMMA SavedView ==
  ASSUME SettingsInv, SaveSnapshot, NEW n \in Present
  PROVE  SavedNode(snap'.nodes[n]) = MeansNode(nodes[n])
<1> DEFINE b == nodes[n].cfg
           g == Over(SavedFlags(b.flags), Flag("http-port", nodes[n].port))
           c == [b EXCEPT !.flags = g]
<1>1. IsConfig(b)
  BY DEF SettingsInv, IsNode
<1>2. snap'.nodes[n] = c
  BY DEF SaveSnapshot
<1>3. /\ b = [binary |-> b.binary, flags |-> b.flags, files |-> b.files]
      /\ AreFlags(b.flags, ConfigFlags)
  BY <1>1 DEF IsConfig
<1>4. /\ fixDeprecatedLuxdFlags(g) = g /\ Agree(g, b.flags, SettingFlags)
      /\ g["http-port"] = nodes[n].port
  BY <1>3, SavedNodeFlags
<1>5. MeansNode(nodes[n]) = [settings |-> Means(b.binary, b.flags, b.files), port |-> nodes[n].port]
  BY DEF MeansNode
<1> HIDE DEF b, g
<1>6. c.binary = b.binary /\ c.flags = g /\ c.files = b.files
  BY <1>3
<1> HIDE DEF c
<1>7. Means(c.binary, fixDeprecatedLuxdFlags(c.flags), c.files) = Means(b.binary, b.flags, b.files)
  BY SMT, <1>4, <1>6, MeansSame
<1> QED
  BY <1>2, <1>4, <1>5, <1>6, <1>7 DEF SavedNode

\* SaveSnapshot saves what runs.
LEMMA SaveStep ==
  ASSUME NoneIsNoRecord, SettingsInv, SaveSnapshot
  PROVE  Expected!Save
<1>1. nw # None /\ StopNetwork
  BY DEF SaveSnapshot
<1>2. IsNetwork(nw)
  BY <1>1 DEF SettingsInv
<1> DEFINE ns == [n \in Present |->
                   [nodes[n].cfg EXCEPT
                      !.flags = Over(SavedFlags(nodes[n].cfg.flags), Flag("http-port", nodes[n].port))]]
<1>3. snap' = [binary |-> nw.binary, flags |-> SavedFlags(nw.flags), files |-> nw.files, nodes |-> ns]
  BY DEF SaveSnapshot
<1>4. DOMAIN ns = Present
  OBVIOUS
<1> HIDE DEF ns
<1>5. /\ snap' # None /\ snap'.binary = nw.binary /\ snap'.flags = SavedFlags(nw.flags)
      /\ snap'.files = nw.files /\ DOMAIN snap'.nodes = Present
  BY <1>3, <1>4 DEF NoneIsNoRecord
<1>6. fixDeprecatedLuxdFlags(snap'.flags) = nw.flags
  BY <1>2, <1>5, SavedNetworkFlags DEF IsNetwork
<1>7. Means(snap'.binary, fixDeprecatedLuxdFlags(snap'.flags), snap'.files) = Defaults.settings
  BY <1>1, <1>5, <1>6, NetworkView
<1> DEFINE shown == [n \in Names |->
                      IF n \in DOMAIN snap'.nodes THEN SavedNode(snap'.nodes[n]) ELSE None]
<1>8. Saved' =
        [settings |-> Means(snap'.binary, fixDeprecatedLuxdFlags(snap'.flags), snap'.files),
         nodes |-> shown]
  BY <1>5 DEF Saved, SavedNode
<1>9. ASSUME NEW n \in Names PROVE shown[n] = Running[n]
  <2>1. Running[n] = View(nodes[n])
    BY Shown
  <2>2. n \in Present => SavedNode(snap'.nodes[n]) = MeansNode(nodes[n])
    BY SavedView
  <2> QED BY <1>5, <2>1, <2>2 DEF View, Present
<1>10. shown = Running
  <2>1. Running = [n \in Names |-> Running[n]]
    BY DEF Running
  <2> QED BY <1>9, <2>1
<1> HIDE DEF shown
<1>11. Saved' = [nodes |-> Running, settings |-> Defaults.settings]
  BY <1>7, <1>8, <1>10
<1>12. Defaults # None
  BY <1>1, NoNetwork
<1> QED
  BY <1>1, <1>11, <1>12, StopNetworkStep DEF Expected!Save

\* The defaults of a network that Start makes.
LEMMA StartedMeans ==
  ASSUME NEW b, b # NoBinary, NEW f, NEW a, AreFlags(f, SettingFlags),
         a = [binary |-> b, flags |-> f, files |-> NoFlags]
  PROVE  Expected!Apply(DefaultFiles, Meant(a)) = Means(b, f, DefaultFiles)
BY SMT, MeansFacts, MapsEqual DEF Meant, DefaultFiles, SettingFlags, Means, NoFlags,
   Expected!Apply, IsMap

\* v has the settings s, on some port.
RunsWith(v, s) == \E p \in Ports : View(v) = [settings |-> s, port |-> p]

\* A node that Start makes for the options a.
LEMMA StartedNode ==
  ASSUME NoneIsNoRecord, NEW n, NEW dynamic, NEW w, AreFiles(w.files), NEW dir,
         NEW a, a.binary = NoBinary, AreFlags(a.flags, SettingFlags), a.files = NoFlags,
         NEW v, Placed(v, createConfig(n, w.binary, a.flags, dynamic), w, dir)
  PROVE  RunsWith(v, Expected!Apply(Means(w.binary, w.flags, w.files), Meant(a)))
<1> DEFINE e == createConfig(n, w.binary, a.flags, dynamic)
           c == WithDefaults(e, w)
           x == Expected!Apply(Means(w.binary, w.flags, w.files), Meant(a))
<1>1. PICK p \in Ports : View(v) = [settings |-> Means(c.binary, c.flags, c.files), port |-> p]
  BY PlacedView
<1>2. Agree(e.flags, a.flags, SettingFlags) /\ e.files = NoFlags /\ e.binary = w.binary
  BY SMT, CreatedFacts
<1> HIDE DEF e
<1>3. /\ c.binary = w.binary /\ c.flags = Over(w.flags, e.flags)
      /\ c.files = Over(w.files, NoFlags)
  BY <1>2 DEF WithDefaults
<1> HIDE DEF c
<1>4. Agree(c.flags, Over(w.flags, a.flags), SettingFlags)
  BY <1>2, <1>3 DEF Agree, Over
<1>5. AreFiles(NoFlags)
  BY DEF NoFlags, AreFiles, IsMap
<1>6. x = Means(w.binary, Over(w.flags, a.flags), Over(w.files, NoFlags))
  BY SMT, <1>5, ApplyMeans
<1>7. Means(c.binary, c.flags, c.files) = x
  BY SMT, <1>3, <1>4, <1>6, MeansSame
<1> HIDE DEF x
<1>8. RunsWith(v, x)
  BY <1>1, <1>7 DEF RunsWith
<1> QED
  BY <1>8 DEF x

\* Start gives nodes the defaults, which are the files of the default config and
\* the options for the network, and their own options.
LEMMA StartStep ==
  ASSUME NoneIsNoRecord, SettingsInv', NEW r \in StartRequests, Start(r)
  PROVE  Expected!Start
<1> DEFINE plugin == Restrict(r.flags, DOMAIN r.flags \cap {"plugin-dir"})
           track == Restrict(r.flags, DOMAIN r.flags \cap {"track-subnets"})
           own == Over(track, r.custom)
           f == Over(r.global, plugin)
           configs == [n \in Started |-> createConfig(n, r.binary, own, r.dynamic)]
           given == [binary |-> r.binary, flags |-> nw'.flags, files |-> NoFlags]
           a == [binary |-> NoBinary, flags |-> own, files |-> NoFlags]
<1>1. /\ nw' = [binary |-> r.binary, flags |-> f, files |-> DefaultFiles, reassign |-> r.reassign]
      /\ nw = None /\ UNCHANGED snap
  BY DEF Start
<1>2. PICK busy \in Busy : nodes' \in loadConfig(configs, nw', clock', busy)
  BY Zenon DEF Start
<1>3. asked' = [network |-> given, node |-> [n \in Names |-> a]]
  BY Zenon DEF Start
<1>4. AreFlags(f, SettingFlags) /\ AreFlags(own, SettingFlags)
  BY StartFacts
<1>5. r.binary # NoBinary /\ r.reassign \in BOOLEAN
  BY StartRequestsAssumption
<1> HIDE DEF plugin, track, own, f
<1>6. /\ nw'.binary = r.binary /\ nw'.flags = f /\ nw'.files = DefaultFiles
      /\ nw'.reassign = r.reassign /\ nw' # None
  BY <1>1 DEF NoneIsNoRecord
<1>7. /\ DOMAIN configs = Started
      /\ \A n \in Started : configs[n] = createConfig(n, nw'.binary, own, r.dynamic)
  BY <1>6
<1>8. a.binary = NoBinary /\ a.flags = own /\ a.files = NoFlags
  OBVIOUS
<1>9. given = [binary |-> nw'.binary, flags |-> nw'.flags, files |-> NoFlags]
  BY <1>6
<1> HIDE DEF configs, a, given
<1>10. Options'.network = Meant(given) /\ \A n \in Names : Options'.node[n] = Meant(a)
  BY <1>3 DEF Options
<1> DEFINE m == Means(nw'.binary, nw'.flags, nw'.files)
<1>11. m = Expected!Apply(DefaultFiles, Options'.network)
  BY SMT, <1>4, <1>5, <1>6, <1>9, <1>10, StartedMeans
<1>12. Defaults' = [settings |-> m, reassign |-> r.reassign]
  BY <1>6 DEF Defaults
<1>13. AreFiles(nw'.files)
  BY <1>6 DEF DefaultFiles, AreFiles, IsMap, SettingFlags
<1>14. ASSUME NEW n \in Started, NEW v, Placed(v, configs[n], nw', clock')
       PROVE  RunsWith(v, Expected!Apply(m, Meant(a)))
  BY <1>7, <1>8, <1>14, <1>4, <1>13, StartedNode
<1> HIDE DEF m
<1>15. Defaults = None /\ UNCHANGED Saved
  BY <1>1, NoNetwork DEF Saved
<1>16. \E reassign \in BOOLEAN :
         Defaults' = Expected!Network(Expected!Apply(DefaultFiles, Options'.network), reassign)
  BY <1>5, <1>11, <1>12 DEF Expected!Network
<1>17. ASSUME NEW n \in Names PROVE Running'[n] \in {None} \cup Expected!Created(n, Defaults')
  <2>1. Running'[n] = View(nodes'[n])
    BY ShownNext
  <2>2. IF n \in Started THEN Placed(nodes'[n], configs[n], nw', clock') ELSE nodes'[n] = None
    BY SMT, <1>2, <1>7, LoadConfigFacts
  <2>3. CASE n \notin Started
    BY <2>1, <2>2, <2>3 DEF View
  <2>4. CASE n \in Started
    BY <1>14, <2>2, <2>4, <1>10, <1>12, <2>1 DEF RunsWith, Expected!Created, Expected!On
  <2> QED BY <2>3, <2>4
<1>18. DOMAIN Running' = Names
  BY ShownNext
<1> QED
  BY <1>15, <1>16, <1>17, <1>18 DEF Expected!Start, Expected!Nodes

\* The settings of the config that loadSnapshot makes.
LEMMA LoadedMeans ==
  ASSUME NEW s, NEW b, NEW o, NEW dir, NEW c, IsLoaded(c, s, b, o, dir),
         AreFlags(o.flags, SettingFlags), AreFiles(o.files)
  PROVE  Means(c.binary, c.flags, c.files) =
           Expected!Apply(Means(b.binary, fixDeprecatedLuxdFlags(b.flags), b.files), Meant(o))
BY SMT, MeansSame, ApplyMeans DEF IsLoaded

\* v has the settings of t with the options a, on the port of t or any other.
RunsAgain(v, t, a, reassign) ==
  /\ t # None
  /\ \E p \in IF reassign THEN Ports ELSE {t.port} :
       View(v) = [settings |-> Expected!Apply(t.settings, a), port |-> p]

\* The network w has the defaults of the snapshot s.
HasDefaults(w, s) ==
  w.reassign \in BOOLEAN /\ w.flags = fixDeprecatedLuxdFlags(s.flags) /\ w.files = s.files

\* A node of the snapshot runs again with what the options do not name.
LEMMA LoadedNode ==
  ASSUME NoneIsNoRecord, NEW s, IsSnapshot(s), NEW n \in DOMAIN s.nodes, NEW dir, NEW o,
         AreFlags(o.flags, SettingFlags), AreFiles(o.files),
         NEW w, HasDefaults(w, s),
         NEW v, Placed(v, Loaded(s.nodes[n], o, dir), w, dir)
  PROVE  RunsAgain(v, SavedNode(s.nodes[n]), Meant(o), w.reassign)
<1> DEFINE b == s.nodes[n]
           c == Loaded(b, o, dir)
           f == fixDeprecatedLuxdFlags(b.flags)
           t == SavedNode(b)
<1>1. IsLoaded(c, s, b, o, dir)
  BY LoadedFacts
<1>2. t = [settings |-> Means(b.binary, f, b.files), port |-> b.flags["http-port"]]
  BY DEF SavedNode
<1>3. Means(c.binary, c.flags, c.files) = Expected!Apply(Means(b.binary, f, b.files), Meant(o))
  BY SMT, <1>1, LoadedMeans
<1> HIDE DEF b, c, f, t
<1>4. t.settings = Means(b.binary, f, b.files) /\ t.port = b.flags["http-port"]
  BY <1>2
<1>5. t # None
  BY <1>2 DEF NoneIsNoRecord
<1>6. Complete(c, w) /\ c.flags["http-port"] = b.flags["http-port"]
  BY <1>1 DEF Complete, IsLoaded, AreFlags, AreFiles, HasDefaults
<1>7. Placed(v, c, w, dir)
  BY DEF c, b
<1>8. PICK p \in IF w.reassign THEN Ports ELSE {b.flags["http-port"]} :
        View(v) = [settings |-> Means(c.binary, c.flags, c.files), port |-> p]
  BY SMT, <1>6, <1>7, PlacedAgain DEF HasDefaults
<1>9. RunsAgain(v, t, Meant(o), w.reassign)
  BY <1>3, <1>4, <1>5, <1>8 DEF RunsAgain
<1> QED
  BY <1>9 DEF t, b

\* LoadSnapshot brings back the saved settings, changed by what the options name.
LEMMA LoadStep ==
  ASSUME NoneIsNoRecord, SettingsInv, SettingsInv', NEW o,
         AreFlags(o.flags, SettingFlags), AreFiles(o.files),
         NEW reassign \in BOOLEAN, LoadSnapshot(o, reassign)
  PROVE  Expected!Load
<1> DEFINE configs == [n \in DOMAIN snap.nodes |-> Loaded(snap.nodes[n], o, clock')]
           d == fixDeprecatedLuxdFlags(snap.flags)
<1>1. /\ nw' = [binary |-> snap.binary, flags |-> d, files |-> snap.files, reassign |-> reassign]
      /\ nw = None /\ snap # None /\ UNCHANGED snap /\ asked' = Asks(o)
  BY DEF LoadSnapshot
<1>2. PICK busy \in Busy : nodes' \in loadConfig(configs, nw', clock', busy)
  BY Zenon DEF LoadSnapshot
<1>3. IsSnapshot(snap)
  BY <1>1 DEF SettingsInv
<1>4. /\ DOMAIN configs = DOMAIN snap.nodes
      /\ \A n \in DOMAIN snap.nodes : configs[n] = Loaded(snap.nodes[n], o, clock')
  OBVIOUS
<1>5. /\ Saved # None /\ Saved.settings = Means(snap.binary, d, snap.files)
      /\ \A n \in Names :
           Saved.nodes[n] = IF n \in DOMAIN snap.nodes THEN SavedNode(snap.nodes[n]) ELSE None
  BY <1>1 DEF Saved, NoneIsNoRecord
<1>6. d = fixDeprecatedLuxdFlags(snap.flags)
  OBVIOUS
<1> HIDE DEF configs, d
<1>7. /\ nw'.binary = snap.binary /\ nw'.flags = d /\ nw'.files = snap.files
      /\ nw'.reassign = reassign /\ nw' # None
  BY <1>1 DEF NoneIsNoRecord
<1>8. Defaults' = [settings |-> Saved.settings, reassign |-> reassign]
  BY <1>5, <1>7 DEF Defaults
<1>9. Defaults = None /\ UNCHANGED Saved
  BY <1>1, NoNetwork DEF Saved
<1>10. \E x \in BOOLEAN : Defaults' = Expected!Network(Saved.settings, x)
  BY <1>8 DEF Expected!Network
<1>11. Defaults'.reassign = nw'.reassign
  BY <1>7, <1>8
<1>12. ASSUME NEW n \in Names
       PROVE  Running'[n] \in IF Saved.nodes[n] = None THEN {None}
                              ELSE Expected!Again(Saved.nodes[n], Options'.node[n], Defaults')
  <2>1. Running'[n] = View(nodes'[n])
    BY ShownNext
  <2>2. IF n \in DOMAIN snap.nodes THEN Placed(nodes'[n], configs[n], nw', clock')
                                   ELSE nodes'[n] = None
    BY SMT, <1>2, <1>4, LoadConfigFacts
  <2>3. CASE n \notin DOMAIN snap.nodes
    BY <1>5, <2>1, <2>2, <2>3 DEF View
  <2>4. CASE n \in DOMAIN snap.nodes
    <3>1. Placed(nodes'[n], Loaded(snap.nodes[n], o, clock'), nw', clock')
      BY <1>4, <2>2, <2>4
    <3>2. RunsAgain(nodes'[n], SavedNode(snap.nodes[n]), Meant(o), nw'.reassign)
      BY <1>6, <1>7, <1>3, <2>4, <3>1, LoadedNode DEF HasDefaults
    <3>3. Options'.node[n] = Meant(o) /\ Saved.nodes[n] = SavedNode(snap.nodes[n])
      BY <1>1, <1>5, <2>4, AskedOptions
    <3>4. RunsAgain(nodes'[n], Saved.nodes[n], Options'.node[n], Defaults'.reassign)
      BY <1>11, <3>2, <3>3
    <3>5. View(nodes'[n]) \in Expected!Again(Saved.nodes[n], Options'.node[n], Defaults')
      BY <3>4 DEF RunsAgain, Expected!Again, Expected!On
    <3> QED BY <2>1, <3>4, <3>5 DEF RunsAgain
  <2> QED BY <2>3, <2>4
<1>13. DOMAIN Running' = Names
  BY ShownNext
<1> QED
  BY <1>5, <1>9, <1>10, <1>12, <1>13 DEF Expected!Load, Expected!Nodes

-----------------------------------------------------------------------------
(* The theorem *)

\* The first state of Settings is one of NodeSettings.
LEMMA RefinementInit == Init => Expected!Init
BY DEF Init, Expected!Init, Expected!Empty, Running, Present, Defaults

\* Every request is a step of NodeSettings, or none (the server panics).
LEMMA RefinementStep ==
  ASSUME NoneIsNoRecord, SettingsInv, SettingsInv', [Next]_vars
  PROVE  [Expected!Next]_(Expected!vars)
<1>1. ASSUME NEW r \in StartRequests, Start(r) PROVE Expected!Next
  BY <1>1, StartStep DEF Expected!Next
<1>2. ASSUME NEW r \in StartRequests, StartPanics(r) PROVE UNCHANGED Expected!vars
  BY <1>2 DEF StartPanics, Expected!vars, Options, Running, Present, EffectiveSettings, Defaults,
     Saved
<1>3. ASSUME NEW n \in Names, NEW o \in Requests, AddNode(n, o) PROVE Expected!Next
  BY <1>3, RequestsAssumption, AddStep DEF Expected!Next
<1>4. ASSUME NEW n \in Names, NEW o \in Requests, RestartNode(n, o) PROVE Expected!Next
  BY <1>4, RequestsAssumption, RestartStep DEF Expected!Next
<1>5. ASSUME NEW n \in Names, NEW o \in Requests, RestartFails(n, o) PROVE Expected!Next
  BY <1>5, RequestsAssumption, FailStep DEF Expected!Next
<1>6. ASSUME NEW n \in Names, PauseNode(n) PROVE Expected!Next
  BY <1>6, PauseStep DEF Expected!Next
<1>7. ASSUME NEW n \in Names, ResumeNode(n) PROVE Expected!Next
  BY <1>7, NothingOptions, RestartStep DEF ResumeNode, Expected!Next
<1>8. ASSUME NEW n \in Names, RemoveNode(n) PROVE Expected!Next
  BY <1>8, RemoveStep DEF Expected!Next
<1>9. CASE Stop
  BY <1>9, StopStep DEF Expected!Next
<1>10. CASE SaveSnapshot
  BY <1>10, SaveStep DEF Expected!Next
<1>11. ASSUME NEW o \in Requests, NEW r \in BOOLEAN, LoadSnapshot(o, r) PROVE Expected!Next
  BY <1>11, RequestsAssumption, LoadStep DEF Expected!Next
<1>12. CASE UNCHANGED vars
  BY <1>12 DEF vars, Expected!vars, Options, Running, Present, EffectiveSettings, Defaults, Saved
<1> QED
  BY <1>1, <1>2, <1>3, <1>4, <1>5, <1>6, <1>7, <1>8, <1>9, <1>10, <1>11, <1>12 DEF Next

\* Through every sequence of requests luxd runs with the settings that
\* NodeSettings promises: options over defaults when a node is made, and from
\* then on only what a request names changes, across restarts that succeed or
\* fail, pauses, snapshots and binaries that know the flags by other names.
THEOREM Refinement == ASSUME NoneIsNoRecord PROVE Spec => ImplementsSettings
<1>1. Init => Expected!Init
  BY RefinementInit
<1>2. SettingsInv /\ SettingsInv' /\ [Next]_vars => [Expected!Next]_(Expected!vars)
  BY RefinementStep
<1> QED
  BY <1>1, <1>2, InvariantHolds, PTL DEF Spec, ImplementsSettings, Expected!Spec

=============================================================================

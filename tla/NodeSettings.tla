---------------------------- MODULE NodeSettings ----------------------------
(***************************************************************************)
(* What a user of the runner may expect of the settings luxd runs with.    *)
(* Settings and options are functions from the names of settings (binary,  *)
(* plugin directory, tracked subnets, config files) to values.  A node is  *)
(* created from the defaults of its network and the options given for it;  *)
(* from then on a setting changes only by an option that names it, across  *)
(* restarts, pauses and snapshots.  A port also changes when the network   *)
(* may reassign ports.                                                     *)
(***************************************************************************)
CONSTANTS
  Names,     \* the nodes
  Base,      \* the settings of the default config
  Ports,
  None       \* no node, no network, no snapshot

VARIABLES
  asked,     \* the options of the last request, for the network and each node
  nodes,     \* the settings and the port of every node, running or paused
  defaults,  \* those of the network, with whether ports may be reassigned
  saved      \* the last snapshot

vars == <<asked, nodes, defaults, saved>>

\* The settings s after the options o.
Apply(s, o) ==
  [k \in DOMAIN s \cup DOMAIN o |-> IF k \in DOMAIN o THEN o[k] ELSE s[k]]

On(s, p) == [settings |-> s, port |-> p]

Network(s, reassign) == [settings |-> s, reassign |-> reassign]

\* The node with the options o, on its port or where the network puts it.
Again(node, o, network) ==
  {On(Apply(node.settings, o), p) : p \in IF network.reassign THEN Ports ELSE {node.port}}

Empty == [n \in Names |-> None]

\* T(n) are the possible values of nodes[n] after the step.
Nodes(T(_)) == DOMAIN nodes' = Names /\ \A n \in Names : nodes'[n] \in T(n)

\* Only node n changes.
Node(n, T) ==
  /\ DOMAIN nodes' = Names
  /\ \A m \in Names \ {n} : nodes'[m] = nodes[m]
  /\ nodes'[n] \in T

Created(n, network) == {On(Apply(network.settings, asked'.node[n]), p) : p \in Ports}

Start ==
  /\ defaults = None
  /\ \E reassign \in BOOLEAN : defaults' = Network(Apply(Base, asked'.network), reassign)
  /\ Nodes(LAMBDA n : {None} \cup Created(n, defaults'))
  /\ UNCHANGED saved

Add(n) ==
  /\ defaults # None
  /\ Node(n, Created(n, defaults))
  /\ UNCHANGED <<defaults, saved>>

Restart(n) ==
  /\ nodes[n] # None
  /\ Node(n, Again(nodes[n], asked'.node[n], defaults))
  /\ UNCHANGED <<defaults, saved>>

\* A restart that fails may have taken over some of the options.
Fail(n) ==
  /\ nodes[n] # None
  /\ Node(n, {On(Apply(nodes[n].settings, [k \in S |-> asked'.node[n][k]]), nodes[n].port) :
                S \in SUBSET DOMAIN asked'.node[n]})
  /\ UNCHANGED <<defaults, saved>>

Remove(n) == Node(n, {None}) /\ UNCHANGED <<defaults, saved>>

Stop ==
  /\ defaults' = None
  /\ nodes' = Empty
  /\ UNCHANGED saved

Save ==
  /\ defaults # None /\ defaults' = None
  /\ nodes' = Empty
  /\ saved' = [nodes |-> nodes, settings |-> defaults.settings]

\* The defaults are the saved ones.
Load ==
  /\ defaults = None /\ saved # None
  /\ \E reassign \in BOOLEAN : defaults' = Network(saved.settings, reassign)
  /\ Nodes(LAMBDA n : IF saved.nodes[n] = None THEN {None}
                      ELSE Again(saved.nodes[n], asked'.node[n], defaults'))
  /\ UNCHANGED saved

Init == nodes = Empty /\ defaults = None

Next ==
  \/ Start \/ Stop \/ Save \/ Load
  \/ \E n \in Names : Add(n) \/ Restart(n) \/ Fail(n) \/ Remove(n)

Spec == Init /\ [][Next]_vars

=============================================================================

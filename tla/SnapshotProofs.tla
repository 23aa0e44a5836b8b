--------------------------- MODULE SnapshotProofs ---------------------------
(***************************************************************************)
(* Proofs about Snapshot.  Those of SavedIsComplete, LoadRestores and      *)
(* MapWithinChain are for one network at a time on a snapshots directory:  *)
(* SaveSnapshot checks that the directory is missing long before it writes *)
(* to it, and two processes that save under one name mix their files.      *)
(***************************************************************************)
EXTENDS Snapshot, TLAPS

\* Zenon proves the leaves, except where a leaf asks for SMT.
USE Zenon

\* The steps that one network does, on a node, a subnet or a snapshot.
NetworkStep(u) ==
  \/ \E nodes \in Nodes : Start(u, nodes)
  \/ \E n \in Names : RemoveNode(u, n)
  \/ \E sn \in Subnets : TransformSubnet(u, sn)
  \/ Stop(u) \/ Crash(u)

SaveStep(u) ==
  \/ \E s \in Snapshots : SaveChecks(u, s)
  \/ \E n \in Names : SaveDB(u, n) \/ SaveDBFails(u, n)
  \/ SaveStops(u) \/ SaveMkdir(u) \/ SaveConf(u) \/ SaveState(u) \/ SaveStateFails(u)

LoadStep(u) ==
  \/ \E s \in Snapshots : LoadBegins(u, s)
  \/ \E n \in Names : LoadDB(u, n)
  \/ LoadState(u) \/ LoadConfig(u) \/ LoadFails(u)

RemoveStep(u) ==
  \/ \E s \in Snapshots : RemoveBegins(u, s)
  \/ RemoveEntry(u) \/ RemoveDir(u) \/ RemoveFails(u)

LEMMA NextSteps ==
  ASSUME Next
  PROVE  \E u \in Nets : NetworkStep(u) \/ SaveStep(u) \/ LoadStep(u) \/ RemoveStep(u)
BY DEF Next, NetworkStep, SaveStep, LoadStep, RemoveStep

-----------------------------------------------------------------------------
(* Types *)

\* Exactly the nodes of a network have a database.
Whole(c) == \A n \in Names : c.nodes[n] = Absent <=> c.db[n] = Missing
Networks == {c \in Content : Whole(c)}

\* An operation under way has the name of a snapshot, and holds a network; one
\* that loads databases still lacks those of the nodes to do.
Consistent(j) ==
  /\ j.pc # "idle" => j.snap \in Snapshots
  /\ j.pc \in {"checked", "stopped", "saveDB", "saveState", "loadConfig"} => Whole(j.held)
  /\ j.pc = "loadDB" =>
       /\ j.todo \subseteq Present(j.held.nodes)
       /\ \A n \in Names : (j.held.nodes[n] = Absent \/ n \in j.todo) <=> j.held.db[n] = Missing

Jobs == [pc : Steps, snap : Snapshots \cup {NoSnapshot}, todo : SUBSET Names, held : Content]
Operations == {j \in Jobs : Consistent(j)}

Dirs == [exists : BOOLEAN, db : DBs, conf : {Missing, Partial} \cup Nodes,
         state : {Missing, Partial} \cup Elastic]
Directories == {d \in Dirs : d.exists \/ d = NoDir}

\* TypeOK does not tell that TransformSubnet finds a database at every node;
\* with the consistency of what is loaded and saved it is inductive.
IType ==
  /\ up \in [Nets -> BOOLEAN]
  /\ net \in [Nets -> Networks]
  /\ job \in [Nets -> Operations]
  /\ dir \in [Snapshots -> Directories]
  /\ saved \in [Snapshots -> Networks \cup {NoContent}]

LEMMA Constructed ==
  /\ Empty \in Networks /\ Empty \in Content
  /\ Idle \in Operations
  /\ NoDir \in Directories
  /\ NoNodes \in Nodes /\ NoDBs \in DBs
<1>1. NoNodes \in Nodes /\ NoDBs \in DBs
  BY DEF NoNodes, NoDBs, Nodes, DBs
<1>2. Empty \in Content
  BY <1>1 DEF Empty, Content, Elastic
<1>3. Whole(Empty)
  BY DEF Whole, Empty, NoNodes, NoDBs
<1>4. Idle \in Jobs /\ Consistent(Idle)
  BY <1>2 DEF Idle, Jobs, Steps, Consistent
<1>5. NoDir \in Dirs
  BY <1>1 DEF NoDir, Dirs
<1> QED
  BY <1>1, <1>2, <1>3, <1>4, <1>5 DEF Networks, Operations, Directories

LEMMA NetworkTypes ==
  ASSUME IType, NEW u \in Nets, NetworkStep(u) PROVE IType'
<1> USE Constructed DEF IType
<1>0. net[u] \in Content /\ Whole(net[u])
  BY DEF Networks
<1>1. ASSUME NEW nodes \in Nodes, Start(u, nodes) PROVE IType'
  <2> DEFINE db == [n \in Names |-> IF nodes[n] = Absent THEN Missing ELSE {}]
             c == [nodes |-> nodes, elastic |-> {}, db |-> db]
  <2>1. db \in DBs
    BY DEF DBs, Elastic
  <2>2. c \in Content
    BY <2>1 DEF Content, Elastic
  <2>3. Whole(c)
    <3>1. {} # Missing
      BY MarkAssumption DEF Elastic
    <3> QED
      BY <3>1 DEF Whole
  <2>4. net' = [net EXCEPT ![u] = c] /\ up' = [up EXCEPT ![u] = TRUE]
        /\ UNCHANGED <<job, dir, saved>>
    BY <1>1 DEF Start
  <2> HIDE DEF c
  <2> QED
    BY <2>2, <2>3, <2>4 DEF Networks
<1>2. ASSUME NEW n \in Names, RemoveNode(u, n) PROVE IType'
  <2> DEFINE c == [net[u] EXCEPT !.nodes[n] = Absent, !.db[n] = Missing]
  <2>1. /\ [net[u].nodes EXCEPT ![n] = Absent] \in Nodes
        /\ [net[u].db EXCEPT ![n] = Missing] \in DBs
    BY <1>0 DEF Content, Nodes, DBs
  <2>2. c \in Content /\ Whole(c)
    BY <1>0, <2>1 DEF Content, Whole, Nodes, DBs
  <2>3. net' = [net EXCEPT ![u] = c] /\ UNCHANGED <<up, job, dir, saved>>
    BY <1>2 DEF RemoveNode
  <2> HIDE DEF c
  <2> QED
    BY <2>2, <2>3 DEF Networks
<1>3. ASSUME NEW sn \in Subnets, TransformSubnet(u, sn) PROVE IType'
  <2> DEFINE db == [n \in Names |->
                      IF net[u].nodes[n] = Absent THEN Missing ELSE net[u].db[n] \cup {sn}]
             c == [net[u] EXCEPT !.elastic = @ \cup {sn}, !.db = db]
  <2>1. ASSUME NEW n \in Names, net[u].nodes[n] # Absent
        PROVE  net[u].db[n] \cup {sn} \in Elastic
    <3>1. net[u].db[n] \in {Missing, Partial} \cup Elastic
      BY <1>0 DEF Content, DBs
    <3>2. net[u].db[n] # Missing
      BY <1>0, <2>1 DEF Whole
    <3>3. net[u].db[n] # Partial
      BY <1>3, <2>1 DEF TransformSubnet, Present
    <3> QED
      BY <3>1, <3>2, <3>3 DEF Elastic
  <2>2. db \in DBs
    BY <2>1 DEF DBs
  <2>3. c \in Content
    BY <1>0, <2>2 DEF Content, Elastic
  <2>4. Whole(c)
    <3>1. \A x \in Elastic : x # Missing
      BY MarkAssumption
    <3>2. c.nodes = net[u].nodes /\ c.db = db
      BY <1>0 DEF Content
    <3> QED
      BY <2>1, <3>1, <3>2 DEF Whole
  <2>5. net' = [net EXCEPT ![u] = c] /\ UNCHANGED <<up, job, dir, saved>>
    BY <1>3 DEF TransformSubnet
  <2> HIDE DEF c
  <2> QED
    BY <2>3, <2>4, <2>5 DEF Networks
<1>4. CASE Stop(u)
  BY <1>4 DEF Stop
<1>5. CASE Crash(u)
  BY <1>5 DEF Crash
<1> QED
  BY <1>1, <1>2, <1>3, <1>4, <1>5 DEF NetworkStep

\* A step that replaces the operation of u, its directory and its network.
LEMMA Replaces ==
  ASSUME IType, NEW u \in Nets,
         NEW j \in Operations, job' = [job EXCEPT ![u] = j],
         NEW s \in Snapshots, NEW d \in Directories,
         dir' = [dir EXCEPT ![s] = d] \/ dir' = dir,
         NEW c \in Networks, net' = [net EXCEPT ![u] = c] \/ net' = net,
         NEW b \in BOOLEAN, up' = [up EXCEPT ![u] = b] \/ up' = up,
         saved' \in [Snapshots -> Networks \cup {NoContent}]
  PROVE  IType'
BY DEF IType

LEMMA SaveTypes ==
  ASSUME IType, NEW u \in Nets, SaveStep(u) PROVE IType'
<1> DEFINE s == job[u].snap
           j == job[u]
<1>0. /\ net[u] \in Networks /\ net[u] \in Content /\ Whole(net[u])
      /\ j \in Operations /\ j \in Jobs /\ Consistent(j)
      /\ saved \in [Snapshots -> Networks \cup {NoContent}]
  BY DEF Networks, Operations, IType
<1>1. ASSUME NEW x \in Snapshots, SaveChecks(u, x) PROVE IType'
  <2> DEFINE k == [pc |-> "checked", snap |-> x, held |-> net[u], todo |-> Present(net[u].nodes)]
  <2>1. k \in Jobs /\ Consistent(k)
    BY <1>0 DEF Jobs, Consistent, Steps, Present
  <2>2. job' = [job EXCEPT ![u] = k] /\ UNCHANGED <<up, net, dir, saved>>
    BY <1>1 DEF SaveChecks
  <2> HIDE DEF k
  <2> QED
    BY <1>0, <2>1, <2>2, Replaces, Constructed DEF Operations
\* The steps of a save under way.
<1>2. ASSUME j.pc \in {"checked", "stopped", "saveDB", "saveState"}
      PROVE  /\ s \in Snapshots /\ dir[s] \in Directories /\ dir[s] \in Dirs
             /\ j.held \in Networks /\ Whole(j.held) /\ j.held \in Content
  BY <1>0, <1>2 DEF Consistent, Jobs, IType, Directories, Networks
<1>3. ASSUME NEW pc \in {"stopped", "saveDB", "saveState"}, j.pc \in {"checked", "stopped", "saveDB"}
      PROVE  [j EXCEPT !.pc = pc] \in Operations
  BY <1>0, <1>2, <1>3 DEF Operations, Jobs, Consistent, Steps
<1>4. CASE SaveStops(u)
  <2> DEFINE c == [net[u] EXCEPT !.nodes = NoNodes, !.db = NoDBs]
  <2>1. c \in Content
    BY <1>0, Constructed DEF Content
  <2>2. Whole(c)
    BY <1>0 DEF Content, Whole, NoNodes, NoDBs
  <2>3. c \in Networks
    BY <2>1, <2>2 DEF Networks
  <2>4. net' = [net EXCEPT ![u] = c] /\ UNCHANGED <<up, dir, saved>> /\ j.pc = "checked"
    BY <1>4 DEF SaveStops
  <2>5. job' = [job EXCEPT ![u] = [j EXCEPT !.pc = "stopped"]] \/ job' = [job EXCEPT ![u] = Idle]
    BY <1>4 DEF SaveStops, Return
  <2> HIDE DEF c, j
  <2> QED
    BY <1>0, <1>2, <1>3, <2>3, <2>4, <2>5, Replaces, Constructed
<1>5. CASE SaveMkdir(u)
  <2> DEFINE d == [dir[s] EXCEPT !.exists = TRUE]
  <2>1. j.pc = "stopped" /\ UNCHANGED <<up, net, saved>>
    BY <1>5 DEF SaveMkdir
  <2>2. d \in Directories
    BY <1>2, <2>1 DEF Dirs, Directories
  <2>3. \/ dir' = [dir EXCEPT ![s] = d] /\ job' = [job EXCEPT ![u] = [j EXCEPT !.pc = "saveDB"]]
        \/ dir' = dir /\ job' = [job EXCEPT ![u] = Idle]
    BY <1>5 DEF SaveMkdir, Return, Snap
  <2> HIDE DEF d, j, s
  <2> QED
    BY <1>0, <1>2, <1>3, <2>1, <2>2, <2>3, Replaces, Constructed
\* The writes: one entry of the directory changes, and the directory is there.
<1>6. ASSUME j.pc \in {"saveDB", "saveState"}
      PROVE  /\ \A n \in Names, x \in {Missing, Partial} \cup Elastic :
                  [dir[s] EXCEPT !.exists = TRUE, !.db[n] = x] \in Directories
             /\ \A x \in {Missing, Partial} \cup Nodes :
                  [dir[s] EXCEPT !.exists = TRUE, !.conf = x] \in Directories
             /\ \A x \in {Missing, Partial} \cup Elastic :
                  [dir[s] EXCEPT !.exists = TRUE, !.state = x] \in Directories
  <2>1. dir[s] \in Dirs
    BY <1>2, <1>6
  <2>2. \A n \in Names, x \in {Missing, Partial} \cup Elastic :
          [dir[s].db EXCEPT ![n] = x] \in DBs
    BY <2>1 DEF Dirs, DBs
  <2> HIDE DEF s
  <2> QED
    BY <2>1, <2>2 DEF Dirs, Directories
<1>7. ASSUME j.pc \in {"saveDB", "saveState"}
      PROVE  /\ dir[s].conf \in {Missing, Partial} \cup Nodes
             /\ dir[s].state \in {Missing, Partial} \cup Elastic
             /\ j.held.nodes \in Nodes /\ j.held.elastic \in Elastic
             /\ \A n \in Names : /\ dir[s].db[n] \in {Missing, Partial} \cup Elastic
                                 /\ j.held.db[n] \in {Missing, Partial} \cup Elastic
  <2>1. dir[s] \in Dirs /\ j.held \in Content
    BY <1>2, <1>7
  <2> HIDE DEF s, j
  <2> QED
    BY <2>1 DEF Dirs, DBs, Content
<1>8. ASSUME NEW n \in Names, SaveDB(u, n) PROVE IType'
  <2> DEFINE x == Copied(dir[s].db[n], j.held.db[n])
             k == [j EXCEPT !.todo = @ \ {n}]
  <2>1. j.pc = "saveDB" /\ UNCHANGED <<up, net, saved>>
    BY <1>8 DEF SaveDB
  <2>2. x \in {Missing, Partial} \cup Elastic
    BY <1>7, <2>1 DEF Copied
  <2>3. k \in Operations
    BY <1>0, <2>1 DEF Operations, Jobs, Consistent
  <2>4. dir' = [dir EXCEPT ![s] = [dir[s] EXCEPT !.exists = TRUE, !.db[n] = x]]
    BY <1>8 DEF SaveDB, Snap, Held
  <2>5. job' = [job EXCEPT ![u] = k]
    BY <1>8 DEF SaveDB
  <2> HIDE DEF x, k, j, s
  <2> QED
    BY <1>0, <1>2, <1>6, <2>1, <2>2, <2>3, <2>4, <2>5, Replaces
<1>9. ASSUME NEW n \in Names, SaveDBFails(u, n) PROVE IType'
  <2>1. j.pc = "saveDB" /\ UNCHANGED <<up, net, saved>>
    BY <1>9 DEF SaveDBFails
  <2>2. PICK x \in {dir[s].db[n], Partial} :
          dir' = [dir EXCEPT ![s] = [dir[s] EXCEPT !.exists = TRUE, !.db[n] = x]]
    BY <1>9 DEF SaveDBFails, Snap
  <2>3. job' = [job EXCEPT ![u] = Idle]
    BY <1>9 DEF SaveDBFails, Return
  <2>4. x \in {Missing, Partial} \cup Elastic
    BY <1>7, <2>1, <2>2
  <2> HIDE DEF j, s
  <2> QED
    BY <1>0, <1>2, <1>6, <2>1, <2>2, <2>3, <2>4, Replaces, Constructed
<1>10. CASE SaveConf(u)
  <2>1. j.pc = "saveDB" /\ UNCHANGED <<up, net, saved>>
    BY <1>10 DEF SaveConf
  <2>2. \E x \in {dir[s].conf, Partial, j.held.nodes} :
          dir' = [dir EXCEPT ![s] = [dir[s] EXCEPT !.exists = TRUE, !.conf = x]]
    BY <1>10 DEF SaveConf, Snap, Held
  <2>3. \/ job' = [job EXCEPT ![u] = [j EXCEPT !.pc = "saveState"]]
        \/ job' = [job EXCEPT ![u] = Idle]
    BY <1>10 DEF SaveConf, Return
  <2>4. \E d \in Directories : dir' = [dir EXCEPT ![s] = d]
    BY <1>6, <1>7, <2>1, <2>2
  <2>5. \E k \in Operations : job' = [job EXCEPT ![u] = k]
    BY <1>3, <2>1, <2>3, Constructed
  <2> HIDE DEF j, s
  <2> QED
    BY <1>0, <1>2, <2>1, <2>4, <2>5, Replaces
<1>11. CASE SaveState(u)
  <2>1. j.pc = "saveState" /\ up' = [up EXCEPT ![u] = FALSE] /\ net' = [net EXCEPT ![u] = Empty]
    BY <1>11 DEF SaveState
  <2>2. dir' = [dir EXCEPT ![s] = [dir[s] EXCEPT !.exists = TRUE, !.state = j.held.elastic]]
    BY <1>11 DEF SaveState, Snap, Held
  <2>3. saved' = [saved EXCEPT ![s] = j.held] /\ job' = [job EXCEPT ![u] = Idle]
    BY <1>11 DEF SaveState, Snap, Held, Return
  <2>4. saved' \in [Snapshots -> Networks \cup {NoContent}]
    BY <1>0, <1>2, <2>1, <2>3
  <2> HIDE DEF j, s
  <2> QED
    BY <1>0, <1>2, <1>6, <1>7, <2>1, <2>2, <2>3, <2>4, Replaces, Constructed
<1>12. CASE SaveStateFails(u)
  <2>1. j.pc = "saveState" /\ UNCHANGED <<up, net, saved>> /\ job' = [job EXCEPT ![u] = Idle]
    BY <1>12 DEF SaveStateFails, Return
  <2>2. \E x \in {dir[s].state, Partial} :
          dir' = [dir EXCEPT ![s] = [dir[s] EXCEPT !.exists = TRUE, !.state = x]]
    BY <1>12 DEF SaveStateFails, Snap
  <2>3. \E d \in Directories : dir' = [dir EXCEPT ![s] = d]
    BY <1>6, <1>7, <2>1, <2>2
  <2> HIDE DEF j, s
  <2> QED
    BY <1>0, <1>2, <2>1, <2>3, Replaces, Constructed
<1> QED
  BY <1>1, <1>4, <1>5, <1>8, <1>9, <1>10, <1>11, <1>12 DEF SaveStep

LEMMA LoadTypes ==
  ASSUME IType, NEW u \in Nets, LoadStep(u) PROVE IType'
<1> DEFINE s == job[u].snap
           j == job[u]
<1>0. /\ net[u] \in Networks
      /\ j \in Operations /\ j \in Jobs /\ Consistent(j)
      /\ saved \in [Snapshots -> Networks \cup {NoContent}]
  BY DEF Operations, IType
<1>1. ASSUME NEW k \in Operations, job' = [job EXCEPT ![u] = k], UNCHANGED <<up, net, dir, saved>>
      PROVE  IType'
  BY <1>1 DEF IType
<1>2. ASSUME NEW x \in Snapshots, LoadBegins(u, x) PROVE IType'
  <2> DEFINE k == [pc |-> "loadDB", snap |-> x, todo |-> Present(dir[x].conf),
                   held |-> [Empty EXCEPT !.nodes = dir[x].conf]]
  <2>1. dir[x].conf \in Nodes
    BY <1>2 DEF LoadBegins, IType, Directories, Dirs
  <2>2. k \in Jobs
    BY <2>1, Constructed DEF Jobs, Steps, Present, Content
  <2>3. Consistent(k)
    BY <2>1 DEF Consistent, Present, Empty, NoNodes, NoDBs
  <2>4. job' = [job EXCEPT ![u] = k] /\ UNCHANGED <<up, net, dir, saved>>
    BY <1>2 DEF LoadBegins
  <2> HIDE DEF k
  <2> QED
    BY <1>1, <2>2, <2>3, <2>4 DEF Operations
<1>3. ASSUME j.pc = "loadDB"
      PROVE  s \in Snapshots /\ dir[s] \in Dirs /\ j.held \in Content
  BY <1>0, <1>3 DEF Consistent, Jobs, IType, Directories
<1>4. ASSUME NEW n \in Names, LoadDB(u, n) PROVE IType'
  <2> DEFINE x == dir[s].db[n]
             k == [j EXCEPT !.todo = @ \ {n}, !.held.db[n] = x]
  <2>1. j.pc = "loadDB" /\ n \in j.todo /\ x # Missing
    BY <1>4 DEF LoadDB, Snap
  <2>2. x \in {Missing, Partial} \cup Elastic
    BY <1>3, <2>1 DEF Dirs, DBs
  <2>3. job' = [job EXCEPT ![u] = k] /\ UNCHANGED <<up, net, dir, saved>>
    BY <1>4 DEF LoadDB, Snap
  <2>4. [j.held.db EXCEPT ![n] = x] \in DBs
    BY <1>3, <2>1, <2>2 DEF Content, DBs
  <2>5. k \in Jobs
    BY <1>0, <1>3, <2>1, <2>4 DEF Jobs, Content
  <2>6. /\ k.pc = "loadDB" /\ k.snap = j.snap /\ k.todo = j.todo \ {n}
        /\ k.held.nodes = j.held.nodes /\ k.held.db = [j.held.db EXCEPT ![n] = x]
    BY <1>0, <1>3, <2>1 DEF Jobs, Content
  <2>7. DOMAIN j.held.db = Names
    BY <1>3, <2>1 DEF Content, DBs
  <2> HIDE DEF k, x, j
  <2>8. Consistent(k)
    BY SMT, <1>0, <2>1, <2>6, <2>7 DEF Consistent, Present
  <2> QED
    BY <1>1, <2>3, <2>5, <2>8 DEF Operations
<1>5. CASE LoadState(u)
  <2> DEFINE e == IF dir[s].state = Missing THEN {} ELSE dir[s].state
             k == [j EXCEPT !.pc = "loadConfig", !.held.elastic = e]
  <2>1. j.pc = "loadDB" /\ j.todo = {} /\ dir[s].state # Partial
    BY <1>5 DEF LoadState, Snap
  <2>2. e \in Elastic
    BY <1>3, <2>1 DEF Dirs, Elastic
  <2>3. job' = [job EXCEPT ![u] = k] /\ UNCHANGED <<up, net, dir, saved>>
    BY <1>5 DEF LoadState, Snap
  <2> HIDE DEF e
  <2>4. k \in Jobs
    BY <1>0, <1>3, <2>1, <2>2 DEF Jobs, Steps, Content
  <2>5. k.pc = "loadConfig" /\ k.snap = j.snap /\ k.held.nodes = j.held.nodes
        /\ k.held.db = j.held.db
    BY <1>0, <1>3, <2>1 DEF Jobs, Content
  <2> HIDE DEF k, j
  <2>6. Consistent(k)
    BY <1>0, <2>1, <2>5 DEF Consistent, Whole
  <2> QED
    BY <1>1, <2>3, <2>4, <2>6 DEF Operations
<1>6. CASE LoadConfig(u)
  <2>1. j.pc = "loadConfig" /\ up' = [up EXCEPT ![u] = TRUE] /\ UNCHANGED <<dir, saved>>
        /\ job' = [job EXCEPT ![u] = Idle]
    BY <1>6 DEF LoadConfig, Return
  <2>2. PICK ns \in Reported(j.held.nodes) :
          net' = [net EXCEPT ![u] = [j.held EXCEPT !.nodes = ns]]
    BY <1>6 DEF LoadConfig, Held
  <2>3. ns \in Nodes /\ Present(ns) = Present(j.held.nodes)
    BY <2>2 DEF Reported
  <2> DEFINE c == [j.held EXCEPT !.nodes = ns]
  <2>4. j.held \in Content /\ Whole(j.held)
    BY <1>0, <2>1 DEF Jobs, Consistent
  <2>5. c \in Content /\ c.nodes = ns /\ c.db = j.held.db
    BY <2>3, <2>4 DEF Content
  <2>6. \A n \in Names : ns[n] = Absent <=> j.held.nodes[n] = Absent
    BY <2>3 DEF Present
  <2> HIDE DEF c, j
  <2>7. c \in Networks
    BY <2>4, <2>5, <2>6 DEF Networks, Whole
  <2>8. net' = [net EXCEPT ![u] = c]
    BY <2>2 DEF c
  <2> QED
    BY <2>1, <2>7, <2>8, Constructed DEF IType
<1>7. CASE LoadFails(u)
  BY <1>1, <1>7, Constructed DEF LoadFails, Return
<1> QED
  BY <1>2, <1>4, <1>5, <1>6, <1>7 DEF LoadStep

LEMMA RemoveTypes ==
  ASSUME IType, NEW u \in Nets, RemoveStep(u) PROVE IType'
<1> DEFINE s == job[u].snap
<1>0. job[u] \in Jobs /\ Consistent(job[u])
  BY DEF Operations, IType
<1>1. ASSUME NEW x \in Snapshots, RemoveBegins(u, x) PROVE IType'
  <2> DEFINE k == [Idle EXCEPT !.pc = "remove", !.snap = x]
  <2>1. k \in Operations
    BY Constructed DEF Operations, Jobs, Consistent, Idle, Steps
  <2>2. job' = [job EXCEPT ![u] = k] /\ saved' = [saved EXCEPT ![x] = NoContent]
        /\ UNCHANGED <<up, net, dir>>
    BY <1>1 DEF RemoveBegins
  <2> HIDE DEF k
  <2> QED
    BY <2>1, <2>2 DEF IType
<1>2. CASE RemoveEntry(u)
  <2>1. s \in Snapshots /\ dir[s] \in Dirs /\ dir[s] \in Directories
    BY <1>0, <1>2 DEF RemoveEntry, Consistent, IType, Directories
  <2>2. ASSUME NEW n \in Names, NEW x \in {Partial, Missing},
               dir' = [dir EXCEPT ![s].db[n] = IF @ = Missing THEN Missing ELSE x]
        PROVE  \E d \in Directories : dir' = [dir EXCEPT ![s] = d]
    <3> DEFINE y == IF dir[s].db[n] = Missing THEN Missing ELSE x
               d == [dir[s] EXCEPT !.db[n] = y]
    <3>1. dir' = [dir EXCEPT ![s] = d]
      BY <2>2
    <3>2. [dir[s].db EXCEPT ![n] = y] \in DBs
      BY <2>1 DEF Dirs, DBs
    <3>3. d \in Dirs /\ d.exists = dir[s].exists
      BY <2>1, <3>2 DEF Dirs
    <3>4. ASSUME dir[s] = NoDir PROVE d = NoDir
      <4>1. dir[s].db = NoDBs /\ NoDBs[n] = Missing
        BY SMT, <3>4 DEF NoDir, NoDBs
      <4>2. [dir[s].db EXCEPT ![n] = y] = NoDBs
        BY <4>1 DEF NoDBs
      <4>3. d = [dir[s] EXCEPT !.db = [dir[s].db EXCEPT ![n] = y]]
        OBVIOUS
      <4> HIDE DEF d, y
      <4>4. d = [NoDir EXCEPT !.db = NoDBs]
        BY <3>4, <4>2, <4>3, Zenon
      <4> QED
        BY <4>4 DEF NoDir
    <3> HIDE DEF d
    <3> QED
      BY <2>1, <3>1, <3>3, <3>4 DEF Directories
  <2>3. ASSUME NEW d, d = [dir[s] EXCEPT !.conf = Missing] \/ d = [dir[s] EXCEPT !.state = Missing]
        PROVE  d \in Directories
    <3>1. d \in Dirs /\ d.exists = dir[s].exists
      BY <2>1, <2>3 DEF Dirs
    <3>2. dir[s] = NoDir => d = NoDir
      BY SMT, <2>3 DEF NoDir
    <3> QED
      BY <2>1, <3>1, <3>2 DEF Directories
  <2>4. \E d \in Directories : dir' = [dir EXCEPT ![s] = d]
    BY <1>2, <2>2, <2>3 DEF RemoveEntry, Snap
  <2> QED
    BY <1>2, <2>1, <2>4 DEF RemoveEntry, IType
<1>3. CASE RemoveDir(u)
  BY <1>0, <1>3, Constructed DEF RemoveDir, Return, Snap, IType, Consistent
<1>4. CASE RemoveFails(u)
  BY <1>4, Constructed DEF RemoveFails, Return, IType
<1> QED
  BY <1>1, <1>2, <1>3, <1>4 DEF RemoveStep

LEMMA TypesStep == IType /\ [Next]_vars => IType'
<1> SUFFICES ASSUME IType, [Next]_vars PROVE IType'
  OBVIOUS
<1>1. CASE UNCHANGED vars
  BY <1>1 DEF IType, vars
<1>2. CASE Next
  BY <1>2, NextSteps, NetworkTypes, SaveTypes, LoadTypes, RemoveTypes
<1> QED
  BY <1>1, <1>2

LEMMA TypesInvariant == Spec => []IType
<1>1. Init => IType
  BY Constructed DEF Init, IType
<1> QED
  BY <1>1, TypesStep, PTL DEF Spec

\* Whatever fails, whoever dies and however many networks share the directory,
\* what is on disk, what an operation holds and what the networks have keep
\* their types; TransformSubnet finds a database at every node it asks.
THEOREM TypeCorrectness == Spec => []TypeOK
<1>1. IType => TypeOK
  BY DEF IType, TypeOK, Networks, Operations, Directories, Jobs, Dirs
<1> QED
  BY <1>1, TypesInvariant, PTL

-----------------------------------------------------------------------------
(* What is saved and what is loaded, with one network on the directory *)

OneNet == \A u, v \in Nets : u = v

\* How far the files of a save are, and that nothing else was saved there.
SaveProgress(u) ==
  LET s == job[u].snap IN
    /\ job[u].pc \in {"checked", "stopped"} =>
         dir[s] = NoDir /\ job[u].todo = Present(job[u].held.nodes)
    /\ job[u].pc = "saveDB" =>
         \A n \in Present(job[u].held.nodes) :
           dir[s].db[n] = IF n \in job[u].todo THEN Missing ELSE job[u].held.db[n]
    /\ job[u].pc = "saveState" =>
         /\ dir[s].conf = job[u].held.nodes
         /\ \A n \in Present(job[u].held.nodes) : dir[s].db[n] = job[u].held.db[n]
    /\ job[u].pc \in {"checked", "stopped", "saveDB", "saveState", "remove"} =>
         saved[s] = NoContent

\* A load finds no network, and holds what it has read of what was saved.
LoadProgress(u) ==
  LET s == job[u].snap IN
    /\ job[u].pc \in {"loadDB", "loadConfig"} => ~up[u]
    /\ job[u].pc \in {"loadDB", "loadConfig"} /\ saved[s] # NoContent =>
         /\ job[u].held.nodes = saved[s].nodes
         /\ \A n \in Present(saved[s].nodes) \ job[u].todo :
              job[u].held.db[n] = saved[s].db[n]
    /\ job[u].pc = "loadConfig" /\ saved[s] # NoContent =>
         job[u].todo = {} /\ job[u].held.elastic = saved[s].elastic

\* SavedIsComplete, and what the operation under way has done so far.
IInv ==
  /\ IType
  /\ SavedIsComplete
  /\ \A u \in Nets : SaveProgress(u) /\ LoadProgress(u)

\* A step that leaves the directory as it is and begins or ends nothing.
LEMMA NetworkInv ==
  ASSUME OneNet, IInv, NEW u \in Nets, NetworkStep(u) PROVE IInv'
<1>1. IType'
  BY NetworkTypes DEF IInv
<1>2. UNCHANGED <<dir, saved>>
  BY DEF NetworkStep, Start, RemoveNode, TransformSubnet, Stop, Crash
<1>3. SavedIsComplete'
  BY <1>2 DEF IInv, SavedIsComplete, Holds
<1>4. (job' = job /\ job[u].pc = "idle") \/ job'[u] = Idle
  BY DEF NetworkStep, Ready, Start, RemoveNode, TransformSubnet, Stop, Crash, IInv, IType
<1>5. SaveProgress(u)' /\ LoadProgress(u)'
  BY SMT, <1>2, <1>4 DEF SaveProgress, LoadProgress, IInv, Idle
<1> QED
  BY <1>1, <1>3, <1>5 DEF IInv, OneNet

\* What is on disk or saved under other names than the operation's is left alone.
LEMMA OthersKept ==
  ASSUME IType, SavedIsComplete, NEW s \in Snapshots,
         \A x \in Snapshots : x # s => dir'[x] = dir[x] /\ saved'[x] = saved[x],
         saved'[s] # NoContent => Holds(s, saved[s])'
  PROVE  SavedIsComplete'
BY SMT DEF SavedIsComplete, Holds

LEMMA SaveInv ==
  ASSUME OneNet, IInv, NEW u \in Nets, SaveStep(u) PROVE IInv'
<1> DEFINE s == job[u].snap
           j == job[u]
<1>0. IType' /\ IType /\ SavedIsComplete /\ SaveProgress(u)
  BY SaveTypes DEF IInv
<1>1. SUFFICES SavedIsComplete' /\ SaveProgress(u)' /\ LoadProgress(u)'
  BY <1>0 DEF IInv, OneNet
<1>2. j \in Jobs /\ Consistent(j) /\ job \in [Nets -> Operations]
  BY <1>0 DEF Operations, IType
<1>3. ASSUME NEW x \in Snapshots, SaveChecks(u, x)
      PROVE  SavedIsComplete' /\ SaveProgress(u)' /\ LoadProgress(u)'
  <2>1. dir[x] = NoDir /\ saved[x] = NoContent
    BY <1>0, <1>3 DEF SaveChecks, IType, Directories, SavedIsComplete, Holds
  <2>2. /\ job'[u] = [pc |-> "checked", snap |-> x, held |-> net[u],
                      todo |-> Present(net[u].nodes)]
        /\ UNCHANGED <<dir, saved>>
    BY <1>2, <1>3 DEF SaveChecks
  <2>3. SavedIsComplete'
    BY <1>0, <2>2 DEF SavedIsComplete, Holds
  <2>4. SaveProgress(u)' /\ LoadProgress(u)'
    BY SMT, <2>1, <2>2 DEF SaveProgress, LoadProgress
  <2> QED
    BY <2>3, <2>4
\* Nothing is saved where a save writes.
<1>4. ASSUME s \in Snapshots, saved' = saved, saved[s] = NoContent,
             \A x \in Snapshots : x # s => dir'[x] = dir[x]
      PROVE  SavedIsComplete'
  BY <1>0, <1>4, OthersKept
\* A save that fails is over.
<1>5. ASSUME job'[u] = Idle
      PROVE  SaveProgress(u)' /\ LoadProgress(u)'
  BY SMT, <1>5 DEF SaveProgress, LoadProgress, Idle
<1>6. CASE SaveStops(u)
  <2>1. j.pc = "checked" /\ UNCHANGED <<dir, saved>>
    BY <1>6 DEF SaveStops
  <2>2. job'[u] = [j EXCEPT !.pc = "stopped"] \/ job'[u] = Idle
    BY <1>2, <1>6 DEF SaveStops, Return
  <2>3. SavedIsComplete'
    BY <1>0, <2>1 DEF SavedIsComplete, Holds
  <2>4. ASSUME job'[u] = [j EXCEPT !.pc = "stopped"]
        PROVE  SaveProgress(u)' /\ LoadProgress(u)'
    <3>1. /\ job'[u].pc = "stopped" /\ job'[u].snap = s
          /\ job'[u].todo = j.todo /\ job'[u].held = j.held
      BY <1>2, <2>4 DEF Jobs
    <3>2. dir[s] = NoDir /\ j.todo = Present(j.held.nodes) /\ saved[s] = NoContent
      BY <1>0, <2>1 DEF SaveProgress
    <3> HIDE DEF j, s
    <3> QED
      BY <2>1, <3>1, <3>2 DEF SaveProgress, LoadProgress, Present
  <2> QED
    BY <1>5, <2>2, <2>3, <2>4
<1>7. CASE SaveMkdir(u)
  <2>1. j.pc = "stopped" /\ saved' = saved /\ s \in Snapshots /\ saved[s] = NoContent
        /\ dir[s] = NoDir /\ j.todo = Present(j.held.nodes)
    BY <1>0, <1>2, <1>7 DEF SaveMkdir, SaveProgress, Consistent
  <2>2. \/ /\ dir' = [dir EXCEPT ![s] = [dir[s] EXCEPT !.exists = TRUE]]
           /\ job'[u] = [j EXCEPT !.pc = "saveDB"]
        \/ dir' = dir /\ job'[u] = Idle
    BY <1>2, <1>7 DEF SaveMkdir, Return, Snap
  <2>3. dir \in [Snapshots -> Directories]
    BY <1>0 DEF IType
  <2>4. SavedIsComplete'
    BY <1>4, <2>1, <2>2, <2>3
  <2>5. ASSUME dir' = [dir EXCEPT ![s] = [dir[s] EXCEPT !.exists = TRUE]],
               job'[u] = [j EXCEPT !.pc = "saveDB"]
        PROVE  SaveProgress(u)' /\ LoadProgress(u)'
    <3>1. /\ job'[u].pc = "saveDB" /\ job'[u].snap = s
          /\ job'[u].todo = j.todo /\ job'[u].held = j.held
      BY <1>2, <2>5 DEF Jobs
    <3>2. dir'[s].db = NoDBs
      BY SMT, <2>1, <2>3, <2>5 DEF NoDir
    <3>3. \A n \in Present(j.held.nodes) : dir'[s].db[n] = Missing
      BY <3>2 DEF NoDBs, Present
    <3> HIDE DEF j, s
    <3> QED
      BY <2>1, <3>1, <3>3 DEF SaveProgress, LoadProgress, Present
  <2> QED
    BY <1>5, <2>2, <2>4, <2>5
<1>8. ASSUME NEW n \in Names, SaveDB(u, n)
      PROVE  SavedIsComplete' /\ SaveProgress(u)' /\ LoadProgress(u)'
  <2> DEFINE x == Copied(dir[s].db[n], j.held.db[n])
  <2>1. j.pc = "saveDB" /\ n \in j.todo /\ saved' = saved
    BY <1>8 DEF SaveDB
  <2>2. s \in Snapshots /\ saved[s] = NoContent /\ dir[s] \in Dirs
        /\ dir \in [Snapshots -> Directories]
        /\ \A m \in Present(j.held.nodes) :
             dir[s].db[m] = IF m \in j.todo THEN Missing ELSE j.held.db[m]
    BY <1>0, <1>2, <2>1 DEF SaveProgress, Consistent, IType, Directories
  <2>3. dir' = [dir EXCEPT ![s] = [dir[s] EXCEPT !.exists = TRUE, !.db[n] = x]]
    BY <1>8 DEF SaveDB, Snap, Held
  <2>4. job'[u] = [j EXCEPT !.todo = @ \ {n}]
    BY <1>2, <1>8 DEF SaveDB
  <2>5. SavedIsComplete'
    BY <1>4, <2>1, <2>2, <2>3
  <2>6. /\ job'[u].pc = "saveDB" /\ job'[u].snap = s
        /\ job'[u].todo = j.todo \ {n} /\ job'[u].held = j.held
    BY <1>2, <2>1, <2>4 DEF Jobs
  <2>7. n \in Present(j.held.nodes) => x = j.held.db[n]
    BY <2>1, <2>2 DEF Copied
  <2>8. dir'[s].db = [dir[s].db EXCEPT ![n] = x] /\ DOMAIN dir[s].db = Names
    BY <2>2, <2>3 DEF Dirs, DBs
  <2> HIDE DEF j, s, x
  <2>9. \A m \in Present(j.held.nodes) :
          dir'[s].db[m] = IF m \in j.todo \ {n} THEN Missing ELSE j.held.db[m]
    BY <2>1, <2>2, <2>7, <2>8 DEF Present
  <2> QED
    BY <2>1, <2>2, <2>5, <2>6, <2>9 DEF SaveProgress, LoadProgress, Present
<1>9. ASSUME NEW n \in Names, SaveDBFails(u, n)
       PROVE  SavedIsComplete' /\ SaveProgress(u)' /\ LoadProgress(u)'
  <2>1. j.pc = "saveDB" /\ saved' = saved /\ job'[u] = Idle
        /\ \E d : dir' = [dir EXCEPT ![s] = d]
    BY <1>2, <1>9 DEF SaveDBFails, Return, Snap
  <2>2. s \in Snapshots /\ saved[s] = NoContent /\ dir \in [Snapshots -> Directories]
    BY <1>0, <1>2, <2>1 DEF SaveProgress, Consistent, IType
  <2> QED
    BY <1>4, <1>5, <2>1, <2>2
<1>10. CASE SaveConf(u)
  <2>1. j.pc = "saveDB" /\ j.todo = {} /\ saved' = saved
    BY <1>10 DEF SaveConf
  <2>2. s \in Snapshots /\ saved[s] = NoContent /\ dir[s] \in Dirs
        /\ dir \in [Snapshots -> Directories]
        /\ \A m \in Present(j.held.nodes) : dir[s].db[m] = j.held.db[m]
    BY <1>0, <1>2, <2>1 DEF SaveProgress, Consistent, IType, Directories
  <2>3. /\ \E d : dir' = [dir EXCEPT ![s] = d]
        /\ \/ /\ dir' = [dir EXCEPT ![s] = [dir[s] EXCEPT !.exists = TRUE,
                                                          !.conf = j.held.nodes]]
              /\ job'[u] = [j EXCEPT !.pc = "saveState"]
           \/ job'[u] = Idle
    BY <1>2, <1>10 DEF SaveConf, Return, Snap, Held
  <2>4. SavedIsComplete'
    BY <1>4, <2>1, <2>2, <2>3
  <2>5. ASSUME dir' = [dir EXCEPT ![s] = [dir[s] EXCEPT !.exists = TRUE, !.conf = j.held.nodes]],
               job'[u] = [j EXCEPT !.pc = "saveState"]
        PROVE  SaveProgress(u)' /\ LoadProgress(u)'
    <3>1. /\ job'[u].pc = "saveState" /\ job'[u].snap = s
          /\ job'[u].todo = j.todo /\ job'[u].held = j.held
      BY <1>2, <2>5 DEF Jobs
    <3>2. dir'[s].conf = j.held.nodes /\ dir'[s].db = dir[s].db
      BY <2>2, <2>5 DEF Dirs
    <3> HIDE DEF j, s
    <3> QED
      BY <2>1, <2>2, <3>1, <3>2 DEF SaveProgress, LoadProgress, Present
  <2> QED
    BY <1>5, <2>3, <2>4, <2>5
<1>11. CASE SaveState(u)
  <2>1. j.pc = "saveState"
    BY <1>11 DEF SaveState
  <2>2. s \in Snapshots /\ dir[s] \in Dirs
        /\ dir \in [Snapshots -> Directories] /\ DOMAIN saved = Snapshots
        /\ dir[s].conf = j.held.nodes
        /\ \A m \in Present(j.held.nodes) : dir[s].db[m] = j.held.db[m]
    BY <1>0, <1>2, <2>1 DEF SaveProgress, Consistent, IType, Directories
  <2>3. dir' = [dir EXCEPT ![s] = [dir[s] EXCEPT !.exists = TRUE, !.state = j.held.elastic]]
    BY <1>11 DEF SaveState, Snap, Held
  <2>4. saved' = [saved EXCEPT ![s] = j.held] /\ job'[u] = Idle
    BY <1>2, <1>11 DEF SaveState, Snap, Held, Return
  <2>5. /\ dir'[s].exists /\ dir'[s].conf = dir[s].conf /\ dir'[s].db = dir[s].db
        /\ dir'[s].state = j.held.elastic
    BY <2>2, <2>3 DEF Dirs
  <2>6. /\ saved'[s] = j.held
        /\ \A x \in Snapshots : x # s => dir'[x] = dir[x] /\ saved'[x] = saved[x]
    BY <2>2, <2>3, <2>4
  <2> HIDE DEF j, s
  <2>7. PICK y \in Snapshots : y = s
    BY <2>2
  <2>8. Holds(y, saved[y])'
    BY SMT, <2>2, <2>5, <2>6, <2>7 DEF Holds, Present
  <2>9. SavedIsComplete'
    BY <1>0, <2>6, <2>7, <2>8, OthersKept
  <2> QED
    BY <1>5, <2>4, <2>9
<1>12. CASE SaveStateFails(u)
  <2>1. j.pc = "saveState" /\ saved' = saved /\ job'[u] = Idle
        /\ \E d : dir' = [dir EXCEPT ![s] = d]
    BY <1>2, <1>12 DEF SaveStateFails, Return, Snap
  <2>2. s \in Snapshots /\ saved[s] = NoContent /\ dir \in [Snapshots -> Directories]
    BY <1>0, <1>2, <2>1 DEF SaveProgress, Consistent, IType
  <2> QED
    BY <1>4, <1>5, <2>1, <2>2
<1> QED
  BY <1>3, <1>6, <1>7, <1>8, <1>9, <1>10, <1>11, <1>12 DEF SaveStep

LEMMA LoadInv ==
  ASSUME OneNet, IInv, NEW u \in Nets, LoadStep(u) PROVE IInv'
<1> DEFINE s == job[u].snap
           j == job[u]
<1>0. IType' /\ IType /\ SavedIsComplete /\ LoadProgress(u)
  BY LoadTypes DEF IInv
<1>1. UNCHANGED <<dir, saved>>
  BY DEF LoadStep, LoadBegins, LoadDB, LoadState, LoadConfig, LoadFails
<1>2. SavedIsComplete'
  BY <1>0, <1>1 DEF SavedIsComplete, Holds
<1>3. SUFFICES SaveProgress(u)' /\ LoadProgress(u)'
  BY <1>0, <1>2 DEF IInv, OneNet
<1>4. j \in Jobs /\ Consistent(j) /\ job \in [Nets -> Operations]
  BY <1>0 DEF Operations, IType
<1>5. ASSUME NEW x \in Snapshots, LoadBegins(u, x)
      PROVE  SaveProgress(u)' /\ LoadProgress(u)'
  <2>1. /\ job'[u].pc = "loadDB" /\ job'[u].snap = x
        /\ job'[u].todo = Present(dir[x].conf) /\ job'[u].held.nodes = dir[x].conf
    BY <1>4, <1>5 DEF LoadBegins, Empty
  <2>2. saved[x] # NoContent => dir[x].conf = saved[x].nodes
    BY <1>0 DEF SavedIsComplete, Holds
  <2>3. ~up'[u]
    BY <1>5 DEF LoadBegins
  <2> QED
    BY <1>1, <2>1, <2>2, <2>3 DEF SaveProgress, LoadProgress
<1>6. ASSUME j.pc = "loadDB"
      PROVE  s \in Snapshots /\ j.held \in Content /\ dir[s] \in Dirs
  BY <1>0, <1>4, <1>6 DEF Consistent, Jobs, IType, Directories
<1>7. ASSUME NEW n \in Names, LoadDB(u, n)
      PROVE  SaveProgress(u)' /\ LoadProgress(u)'
  <2> DEFINE x == dir[s].db[n]
  <2>1. j.pc = "loadDB" /\ n \in j.todo
        /\ job'[u] = [j EXCEPT !.todo = @ \ {n}, !.held.db[n] = x]
    BY <1>4, <1>7 DEF LoadDB, Snap
  <2>2. n \in Present(j.held.nodes)
    BY <1>4, <2>1 DEF Consistent
  <2>3. /\ job'[u].pc = "loadDB" /\ job'[u].snap = s /\ job'[u].todo = j.todo \ {n}
        /\ job'[u].held.nodes = j.held.nodes
        /\ job'[u].held.db = [j.held.db EXCEPT ![n] = x] /\ DOMAIN j.held.db = Names
    BY SMT, <1>4, <1>6, <2>1 DEF Jobs, Content, DBs
  <2>4. ASSUME saved[s] # NoContent
        PROVE  /\ j.held.nodes = saved[s].nodes /\ x = saved[s].db[n]
               /\ \A m \in Present(saved[s].nodes) \ j.todo : j.held.db[m] = saved[s].db[m]
    BY <1>0, <1>6, <2>1, <2>2, <2>4 DEF LoadProgress, SavedIsComplete, Holds
  <2> HIDE DEF j, s, x
  <2>5. ASSUME saved[s] # NoContent
        PROVE  \A m \in Present(saved[s].nodes) \ (j.todo \ {n}) :
                 job'[u].held.db[m] = saved[s].db[m]
    BY <2>3, <2>4, <2>5 DEF Present
  <2>6. ~up'[u]
    BY <1>0, <1>7, <2>1 DEF LoadDB, LoadProgress, j
  <2> QED
    BY <1>1, <2>3, <2>4, <2>5, <2>6 DEF SaveProgress, LoadProgress
<1>8. CASE LoadState(u)
  <2> DEFINE e == IF dir[s].state = Missing THEN {} ELSE dir[s].state
  <2>1. j.pc = "loadDB" /\ j.todo = {}
        /\ job'[u] = [j EXCEPT !.pc = "loadConfig", !.held.elastic = e]
    BY <1>4, <1>8 DEF LoadState, Snap
  <2>2. /\ job'[u].pc = "loadConfig" /\ job'[u].snap = s /\ job'[u].todo = j.todo
        /\ job'[u].held.nodes = j.held.nodes /\ job'[u].held.db = j.held.db
        /\ job'[u].held.elastic = e
    BY SMT, <1>4, <1>6, <2>1 DEF Jobs, Content
  <2>3. ASSUME saved[s] # NoContent
        PROVE  /\ j.held.nodes = saved[s].nodes
               /\ \A m \in Present(saved[s].nodes) \ j.todo : j.held.db[m] = saved[s].db[m]
    BY <1>0, <2>1, <2>3 DEF LoadProgress
  <2>4. ASSUME saved[s] # NoContent PROVE e = saved[s].elastic
    <3>1. dir[s].state = saved[s].elastic
      BY <1>0, <1>6, <2>1, <2>4 DEF SavedIsComplete, Holds
    <3>2. saved[s].elastic \in Elastic
      BY <1>0, <1>6, <2>1, <2>4 DEF IType, Networks, Content
    <3> QED
      BY <3>1, <3>2, MarkAssumption
  <2>5. ~up'[u]
    BY <1>0, <1>8, <2>1 DEF LoadState, LoadProgress
  <2> HIDE DEF j, s, e
  <2> QED
    BY SMT, <1>1, <2>1, <2>2, <2>3, <2>4, <2>5 DEF SaveProgress, LoadProgress
<1>9. CASE LoadConfig(u) \/ LoadFails(u)
  <2>1. job'[u] = Idle
    BY <1>4, <1>9 DEF LoadConfig, LoadFails, Return
  <2> QED
    BY SMT, <2>1 DEF SaveProgress, LoadProgress, Idle
<1> QED
  BY <1>5, <1>7, <1>8, <1>9 DEF LoadStep

LEMMA RemoveInv ==
  ASSUME OneNet, IInv, NEW u \in Nets, RemoveStep(u) PROVE IInv'
<1> DEFINE s == job[u].snap
<1>0. IType' /\ IType /\ SavedIsComplete /\ SaveProgress(u)
  BY RemoveTypes DEF IInv
<1>1. SUFFICES SavedIsComplete' /\ SaveProgress(u)' /\ LoadProgress(u)'
  BY <1>0 DEF IInv, OneNet
<1>2. Consistent(job[u]) /\ job \in [Nets -> Operations] /\ dir \in [Snapshots -> Directories]
      /\ DOMAIN saved = Snapshots
  BY <1>0 DEF Operations, IType
<1>3. ASSUME NEW x \in Snapshots, RemoveBegins(u, x)
      PROVE  SavedIsComplete' /\ SaveProgress(u)' /\ LoadProgress(u)'
  <2>1. job'[u].pc = "remove" /\ job'[u].snap = x /\ saved' = [saved EXCEPT ![x] = NoContent]
        /\ dir' = dir
    BY <1>2, <1>3 DEF RemoveBegins, Idle
  <2>2. SavedIsComplete'
    BY <1>0, <1>2, <2>1, OthersKept
  <2>3. SaveProgress(u)' /\ LoadProgress(u)'
    BY <1>2, <2>1 DEF SaveProgress, LoadProgress
  <2> QED
    BY <2>2, <2>3
<1>4. CASE RemoveEntry(u) \/ RemoveDir(u) \/ RemoveFails(u)
  <2>1. job[u].pc = "remove" /\ saved' = saved /\ (job'[u] = Idle \/ job' = job)
        /\ (dir' = dir \/ \E d : dir' = [dir EXCEPT ![s] = d])
    BY <1>2, <1>4 DEF RemoveEntry, RemoveDir, RemoveFails, Return, Snap
  <2>2. s \in Snapshots /\ saved[s] = NoContent
    BY <1>0, <1>2, <2>1 DEF Consistent, SaveProgress
  <2>3. SavedIsComplete'
    BY <1>0, <1>2, <2>1, <2>2, OthersKept
  <2>4. SaveProgress(u)' /\ LoadProgress(u)'
    BY SMT, <2>1, <2>2 DEF SaveProgress, LoadProgress, Idle
  <2> QED
    BY <2>3, <2>4
<1> QED
  BY <1>3, <1>4 DEF RemoveStep

LEMMA StepInv ==
  ASSUME OneNet PROVE IInv /\ [Next]_vars => IInv'
<1> SUFFICES ASSUME IInv, [Next]_vars PROVE IInv'
  OBVIOUS
<1>1. CASE UNCHANGED vars
  BY SMT, <1>1 DEF vars, IInv, IType, SavedIsComplete, Holds, SaveProgress, LoadProgress
<1>2. CASE Next
  BY <1>2, NextSteps, NetworkInv, SaveInv, LoadInv, RemoveInv
<1> QED
  BY <1>1, <1>2

LEMMA Invariance ==
  ASSUME OneNet PROVE Spec => []IInv
<1>1. Init => IInv
  <2>1. Init => IType
    BY Constructed DEF Init, IType
  <2> QED
    BY SMT, <2>1 DEF Init, IInv, SavedIsComplete, SaveProgress, LoadProgress, Idle
<1> QED
  BY <1>1, StepInv, PTL DEF Spec

\* With one network on the directory, a snapshot whose SaveSnapshot returned is
\* complete from then until RemoveSnapshot is called, whichever file operation
\* fails and whenever the process dies.
THEOREM SavesComplete ==
  ASSUME OneNet PROVE Spec => []SavedIsComplete
<1>1. IInv => SavedIsComplete
  BY DEF IInv
<1> QED
  BY <1>1, Invariance, PTL

\* And every LoadSnapshot of it that succeeds gives the network that was saved.
THEOREM LoadsRestore ==
  ASSUME OneNet PROVE Spec => LoadRestores
<1>1. ASSUME IInv, [Next]_vars, NEW u \in Nets,
             job[u].pc = "loadConfig", up'[u], saved[Snap(u)] # NoContent
      PROVE  /\ net'[u].db = saved[Snap(u)].db
             /\ net'[u].elastic = saved[Snap(u)].elastic
             /\ net'[u].nodes \in Reported(saved[Snap(u)].nodes)
  <2> DEFINE c == saved[Snap(u)]
             j == job[u]
  <2>1. IType /\ LoadProgress(u) /\ ~up[u]
    BY <1>1 DEF IInv, LoadProgress
  <2>2. LoadConfig(u)
    <3>1. Next
      BY <1>1, <2>1 DEF vars
    <3>2. NetworkStep(u) \/ SaveStep(u) \/ LoadStep(u) \/ RemoveStep(u)
      BY <3>1, NextSteps DEF OneNet
    <3>3. ~NetworkStep(u)
      BY <1>1, <2>1 DEF NetworkStep, Ready, Start, RemoveNode, TransformSubnet, Stop, Crash, IType
    <3>4. ~SaveStep(u)
      BY <1>1 DEF SaveStep, Ready, SaveChecks, SaveStops, SaveMkdir, SaveDB, SaveDBFails,
                  SaveConf, SaveState, SaveStateFails
    <3>5. ~RemoveStep(u)
      BY <1>1 DEF RemoveStep, Ready, RemoveBegins, RemoveEntry, RemoveDir, RemoveFails
    <3>6. LoadStep(u) => LoadConfig(u)
      BY <1>1, <2>1 DEF LoadStep, LoadBegins, LoadDB, LoadState, LoadFails
    <3> QED
      BY <3>2, <3>3, <3>4, <3>5, <3>6
  <2>3. PICK ns \in Reported(j.held.nodes) :
          net' = [net EXCEPT ![u] = [j.held EXCEPT !.nodes = ns]]
    BY <2>2 DEF LoadConfig, Held
  <2>4. j \in Jobs /\ Consistent(j) /\ j.held \in Content /\ Whole(j.held) /\ j.snap \in Snapshots
    BY <1>1, <2>1 DEF IType, Operations, Jobs, Consistent
  <2>5. c \in Content /\ Whole(c)
    BY <1>1, <2>1, <2>4 DEF IType, Networks, Snap
  <2>6. /\ j.held.nodes = c.nodes /\ j.held.elastic = c.elastic
        /\ \A n \in Present(c.nodes) : j.held.db[n] = c.db[n]
    BY <1>1, <2>1 DEF LoadProgress, Snap
  <2>7. net'[u].db = j.held.db /\ net'[u].elastic = j.held.elastic /\ net'[u].nodes = ns
    BY <2>1, <2>3, <2>4 DEF IType, Content
  <2> HIDE DEF c, j
  <2>8. \A n \in Names : j.held.db[n] = c.db[n]
    BY <2>4, <2>5, <2>6 DEF Whole, Present
  <2>9. j.held.db = c.db
    BY SMT, <2>4, <2>5, <2>8 DEF Content, DBs
  <2> QED
    BY <2>3, <2>6, <2>7, <2>9 DEF c
<1>2. IInv /\ [Next]_vars =>
        [\A u \in Nets :
           job[u].pc = "loadConfig" /\ up'[u] /\ saved[Snap(u)] # NoContent =>
             LET c == saved[Snap(u)] IN
               /\ net'[u].db = c.db
               /\ net'[u].elastic = c.elastic
               /\ net'[u].nodes \in Reported(c.nodes)]_vars
  BY <1>1
<1> QED
  BY <1>2, Invariance, PTL DEF LoadRestores, Spec

-----------------------------------------------------------------------------
(* The map of elastic subnets and the chain, with one network on the directory *)

\* Every database that is whole has the transactions of the map.
Backed(elastic, db) ==
  \A n \in Names : db[n] \notin {Missing, Partial} => elastic \subseteq db[n]

\* So it is for the network, for what an operation holds, and in a snapshot
\* with a state.json.  A save writes that file last, next to the databases it
\* copied; a load reads it last, after the databases.
MapDir(s) == dir[s].state \notin {Missing, Partial} => Backed(dir[s].state, dir[s].db)

MapJob(u) ==
  LET j == job[u]
      d == dir[job[u].snap] IN
    /\ Backed(j.held.elastic, j.held.db)
    /\ j.pc \in {"saveDB", "saveState"} =>
         d.state = Missing /\ \A n \in Names : d.db[n] \in {Missing, j.held.db[n]}
    /\ j.pc = "loadDB" =>
         j.held.elastic = {} /\ \A n \in Names : j.held.db[n] \in {Missing, d.db[n]}

MapInv ==
  /\ \A u \in Nets : Backed(net[u].elastic, net[u].db) /\ MapJob(u)
  /\ \A s \in Snapshots : MapDir(s)

LEMMA BackedInit ==
  /\ Backed({}, NoDBs) /\ Backed(Empty.elastic, Empty.db)
  /\ \A elastic : Backed(elastic, NoDBs)
BY DEF Backed, NoDBs, Empty

\* What is left when an operation is over.
LEMMA MapIdle ==
  ASSUME NEW u \in Nets, job'[u] = Idle PROVE MapJob(u)'
<1>1. job'[u].pc = "idle" /\ job'[u].held = Empty
  BY SMT DEF Idle
<1> QED
  BY <1>1, BackedInit DEF MapJob, Backed

LEMMA MapNetwork ==
  ASSUME OneNet, IType, MapInv, NEW u \in Nets, NetworkStep(u) PROVE MapInv'
<1>0. /\ net \in [Nets -> Networks] /\ net[u] \in Content /\ Whole(net[u])
      /\ job \in [Nets -> Operations]
      /\ Backed(net[u].elastic, net[u].db) /\ MapJob(u)
  BY DEF IType, Networks, MapInv
<1>1. UNCHANGED dir /\ (job' = job \/ job'[u] = Idle)
  BY <1>0 DEF NetworkStep, Start, RemoveNode, TransformSubnet, Stop, Crash
<1>2. MapJob(u)' /\ \A s \in Snapshots : MapDir(s)'
  BY <1>0, <1>1, MapIdle DEF MapInv, MapJob, MapDir, Backed
<1>3. Backed(net[u].elastic, net[u].db)'
  <2>1. ASSUME NEW nodes \in Nodes, Start(u, nodes) PROVE net'[u].elastic = {}
    BY <1>0, <2>1 DEF Start
  <2>2. ASSUME NEW n \in Names, RemoveNode(u, n)
        PROVE  /\ net'[u].elastic = net[u].elastic
               /\ net'[u].db = [net[u].db EXCEPT ![n] = Missing]
    <3>1. net'[u] = [net[u] EXCEPT !.nodes[n] = Absent, !.db[n] = Missing]
      BY <1>0, <2>2 DEF RemoveNode
    <3> QED
      BY <1>0, <3>1 DEF Content
  <2>3. ASSUME NEW sn \in Subnets, TransformSubnet(u, sn)
        PROVE  Backed(net[u].elastic, net[u].db)'
    <3> DEFINE db == [n \in Names |->
                        IF net[u].nodes[n] = Absent THEN Missing ELSE net[u].db[n] \cup {sn}]
    <3>1. net'[u] = [net[u] EXCEPT !.elastic = @ \cup {sn}, !.db = db]
      BY <1>0, <2>3 DEF TransformSubnet
    <3>2. net'[u].elastic = net[u].elastic \cup {sn} /\ net'[u].db = db
      BY <1>0, <3>1 DEF Content
    <3>3. ASSUME NEW n \in Names, net[u].nodes[n] # Absent
          PROVE  net[u].db[n] \notin {Missing, Partial}
      BY <1>0, <2>3, <3>3 DEF TransformSubnet, Present, Whole
    <3>4. ASSUME NEW n \in Names, db[n] # Missing
          PROVE  net[u].elastic \cup {sn} \subseteq db[n]
      <4>1. net[u].nodes[n] # Absent /\ db[n] = net[u].db[n] \cup {sn}
        BY <3>4
      <4>2. net[u].elastic \subseteq net[u].db[n]
        BY <1>0, <3>3, <4>1 DEF Backed
      <4> QED
        BY <4>1, <4>2
    <3> HIDE DEF db
    <3> QED
      BY <3>2, <3>4 DEF Backed
  <2>4. ASSUME Stop(u) \/ Crash(u) PROVE net'[u] = Empty
    BY <1>0, <2>4 DEF Stop, Crash
  <2>5. ASSUME NEW n \in Names, RemoveNode(u, n) PROVE Backed(net[u].elastic, net[u].db)'
    <3>1. DOMAIN net[u].db = Names
      BY <1>0 DEF Content, DBs
    <3> QED
      BY <1>0, <2>2, <2>5, <3>1 DEF Backed
  <2>6. net'[u].elastic = {} => Backed(net[u].elastic, net[u].db)'
    BY DEF Backed
  <2>7. net'[u] = Empty => Backed(net[u].elastic, net[u].db)'
    BY SMT, <2>6 DEF Empty
  <2> QED
    BY <2>1, <2>3, <2>4, <2>5, <2>6, <2>7 DEF NetworkStep
<1> QED
  BY <1>2, <1>3 DEF MapInv, OneNet

LEMMA MapSave ==
  ASSUME OneNet, IInv, MapInv, NEW u \in Nets, SaveStep(u) PROVE MapInv'
<1> DEFINE s == job[u].snap
           j == job[u]
<1>0. /\ net \in [Nets -> Networks] /\ net[u] \in Content
      /\ job \in [Nets -> Operations] /\ j \in Jobs /\ Consistent(j)
      /\ dir \in [Snapshots -> Directories]
      /\ \A x \in Snapshots : dir[x] \in Dirs /\ MapDir(x)
      /\ Backed(net[u].elastic, net[u].db) /\ MapJob(u)
      /\ SaveProgress(u)
  BY DEF IInv, IType, Networks, Operations, Directories, MapInv
<1>1. SUFFICES /\ Backed(net[u].elastic, net[u].db)' /\ MapJob(u)'
               /\ \A x \in Snapshots : MapDir(x)'
  BY DEF MapInv, OneNet
\* The steps that leave the directory or the network alone.
<1>2. ASSUME dir' = dir PROVE \A x \in Snapshots : MapDir(x)'
  BY <1>0, <1>2 DEF MapDir, Backed
<1>3. ASSUME net' = net PROVE Backed(net[u].elastic, net[u].db)'
  BY <1>0, <1>3 DEF Backed
\* A step that writes one entry of the directory.
<1>4. ASSUME s \in Snapshots, NEW d, dir' = [dir EXCEPT ![s] = d],
             d.state \notin {Missing, Partial} => Backed(d.state, d.db)
      PROVE  \A x \in Snapshots : MapDir(x)'
  <2>1. dir'[s] = d /\ \A x \in Snapshots : x # s => dir'[x] = dir[x]
    BY <1>0, <1>4
  <2> HIDE DEF s
  <2> QED
    BY <1>0, <1>4, <2>1 DEF MapDir, Backed
<1>5. ASSUME NEW x \in Snapshots, SaveChecks(u, x) PROVE MapInv'
  <2>1. net' = net /\ dir' = dir /\ job'[u].pc = "checked" /\ job'[u].held = net[u]
    BY <1>0, <1>5 DEF SaveChecks
  <2>2. MapJob(u)'
    BY <1>0, <2>1 DEF MapJob, Backed
  <2> QED
    BY <1>2, <1>3, <2>1, <2>2 DEF MapInv, OneNet
<1>6. CASE SaveStops(u)
  <2>1. /\ net'[u] = [net[u] EXCEPT !.nodes = NoNodes, !.db = NoDBs] /\ dir' = dir
        /\ job'[u] = [j EXCEPT !.pc = "stopped"] \/ job'[u] = Idle
    BY <1>0, <1>6 DEF SaveStops, Return
  <2>2. net'[u].db = NoDBs
    BY <1>0, <2>1 DEF Content
  <2>3. Backed(net[u].elastic, net[u].db)'
    BY <2>2, BackedInit DEF Backed
  <2>4. ASSUME job'[u] = [j EXCEPT !.pc = "stopped"] PROVE MapJob(u)'
    <3>1. job'[u].pc = "stopped" /\ job'[u].held = j.held
      BY <1>0, <2>4 DEF Jobs
    <3> QED
      BY <1>0, <3>1 DEF MapJob, Backed
  <2> QED
    BY <1>2, <2>1, <2>3, <2>4, MapIdle
<1>7. ASSUME j.pc \in {"stopped", "saveDB", "saveState"}
      PROVE  s \in Snapshots /\ dir[s] \in Dirs
  BY <1>0, <1>7 DEF Consistent
<1>8. CASE SaveMkdir(u)
  <2>1. j.pc = "stopped" /\ net' = net /\ dir[s] = NoDir
    BY <1>0, <1>8 DEF SaveMkdir, SaveProgress
  <2>2. \/ /\ dir' = [dir EXCEPT ![s] = [dir[s] EXCEPT !.exists = TRUE]]
           /\ job'[u] = [j EXCEPT !.pc = "saveDB"]
        \/ dir' = dir /\ job'[u] = Idle
    BY <1>0, <1>8 DEF SaveMkdir, Return, Snap
  <2>3. ASSUME dir' = [dir EXCEPT ![s] = [dir[s] EXCEPT !.exists = TRUE]],
               job'[u] = [j EXCEPT !.pc = "saveDB"]
        PROVE  MapJob(u)' /\ \A x \in Snapshots : MapDir(x)'
    <3>1. [dir[s] EXCEPT !.exists = TRUE].state = Missing
      BY SMT, <2>1 DEF NoDir
    <3>2. dir'[s].state = Missing /\ dir'[s].db = NoDBs
      BY SMT, <1>0, <1>7, <2>1, <2>3 DEF NoDir
    <3>3. job'[u].pc = "saveDB" /\ job'[u].snap = s /\ job'[u].held = j.held
      BY <1>0, <2>3 DEF Jobs
    <3>4. \A x \in Snapshots : MapDir(x)'
      BY <1>4, <1>7, <2>1, <2>3, <3>1
    <3>5. Backed(j.held.elastic, j.held.db)
      BY <1>0 DEF MapJob
    <3> HIDE DEF j, s
    <3>6. MapJob(u)'
      BY <3>2, <3>3, <3>5 DEF MapJob, Backed, NoDBs
    <3> QED
      BY <3>4, <3>6
  <2> QED
    BY <1>2, <1>3, <2>1, <2>2, <2>3, MapIdle
\* Until the last write the directory has no state.json.
<1>9. ASSUME j.pc \in {"saveDB", "saveState"}
      PROVE  /\ Backed(j.held.elastic, j.held.db)
             /\ dir[s].state = Missing
             /\ \A m \in Names : dir[s].db[m] \in {Missing, j.held.db[m]}
  BY <1>0, <1>9 DEF MapJob
<1>10. ASSUME NEW n \in Names, SaveDB(u, n) PROVE MapInv'
  <2> DEFINE x == Copied(dir[s].db[n], j.held.db[n])
             d == [dir[s] EXCEPT !.exists = TRUE, !.db[n] = x]
  <2>1. j.pc = "saveDB" /\ net' = net /\ dir' = [dir EXCEPT ![s] = d]
        /\ job'[u] = [j EXCEPT !.todo = @ \ {n}]
    BY <1>0, <1>10 DEF SaveDB, Snap, Held
  <2>2. job'[u].pc = "saveDB" /\ job'[u].snap = s /\ job'[u].held = j.held
    BY <1>0, <2>1 DEF Jobs
  <2>3. x = j.held.db[n]
    BY <1>9, <2>1 DEF Copied
  <2>4. d.state = Missing /\ d.db = [dir[s].db EXCEPT ![n] = x] /\ DOMAIN dir[s].db = Names
    BY <1>7, <1>9, <2>1 DEF Dirs, DBs
  <2>5. dir'[s] = d
    BY <1>0, <1>7, <2>1
  <2> HIDE DEF d, x
  <2>6. \A y \in Snapshots : MapDir(y)'
    BY <1>4, <1>7, <2>1, <2>4
  <2>7. MapJob(u)'
    <3>1. j.pc \in {"saveDB", "saveState"}
      BY <2>1
    <3>2. \A m \in Names : d.db[m] \in {Missing, j.held.db[m]}
      BY <1>9, <2>3, <2>4, <3>1
    <3>3. Backed(j.held.elastic, j.held.db)
      BY <1>9, <3>1
    <3> HIDE DEF j, s
    <3> QED
      BY <2>2, <2>4, <2>5, <3>2, <3>3 DEF MapJob, Backed
  <2> QED
    BY <1>3, <2>1, <2>6, <2>7 DEF MapInv, OneNet
<1>11. ASSUME NEW n \in Names, SaveDBFails(u, n) PROVE MapInv'
  <2>1. j.pc = "saveDB" /\ net' = net /\ job'[u] = Idle
    BY <1>0, <1>11 DEF SaveDBFails, Return
  <2>2. PICK x \in {dir[s].db[n], Partial} :
          dir' = [dir EXCEPT ![s] = [dir[s] EXCEPT !.exists = TRUE, !.db[n] = x]]
    BY <1>11 DEF SaveDBFails, Snap
  <2>3. [dir[s] EXCEPT !.exists = TRUE, !.db[n] = x].state = Missing
    BY <1>7, <1>9, <2>1 DEF Dirs
  <2> QED
    BY <1>3, <1>4, <1>7, <2>1, <2>2, <2>3, MapIdle DEF MapInv, OneNet
<1>12. CASE SaveConf(u)
  <2>1. j.pc = "saveDB" /\ net' = net
    BY <1>12 DEF SaveConf
  <2>2. PICK x \in {dir[s].conf, Partial, j.held.nodes} :
          /\ dir' = [dir EXCEPT ![s] = [dir[s] EXCEPT !.exists = TRUE, !.conf = x]]
          /\ job'[u] = [j EXCEPT !.pc = "saveState"] \/ job'[u] = Idle
    BY <1>0, <1>12 DEF SaveConf, Snap, Held, Return
  <2> DEFINE d == [dir[s] EXCEPT !.exists = TRUE, !.conf = x]
  <2>3. d.state = Missing /\ d.db = dir[s].db
    BY <1>7, <1>9, <2>1 DEF Dirs
  <2>4. dir' = [dir EXCEPT ![s] = d] /\ dir'[s] = d
    BY <1>0, <1>7, <2>1, <2>2
  <2> HIDE DEF d
  <2>5. \A y \in Snapshots : MapDir(y)'
    BY <1>4, <1>7, <2>1, <2>3, <2>4
  <2>6. ASSUME job'[u] = [j EXCEPT !.pc = "saveState"] PROVE MapJob(u)'
    <3>1. job'[u].pc = "saveState" /\ job'[u].snap = s /\ job'[u].held = j.held
      BY <1>0, <2>6 DEF Jobs
    <3>2. /\ Backed(j.held.elastic, j.held.db)
          /\ \A m \in Names : dir[s].db[m] \in {Missing, j.held.db[m]}
      BY <1>9, <2>1
    <3> HIDE DEF j, s
    <3> QED
      BY <2>3, <2>4, <3>1, <3>2 DEF MapJob, Backed
  <2> QED
    BY <1>3, <2>1, <2>2, <2>5, <2>6, MapIdle
<1>13. CASE SaveState(u)
  <2> DEFINE d == [dir[s] EXCEPT !.exists = TRUE, !.state = j.held.elastic]
  <2>1. j.pc = "saveState" /\ net'[u] = Empty /\ job'[u] = Idle
        /\ dir' = [dir EXCEPT ![s] = d]
    BY <1>0, <1>13 DEF SaveState, Return, Snap, Held
  <2>2. d.state = j.held.elastic /\ d.db = dir[s].db
    BY <1>7, <2>1 DEF Dirs
  <2>3. Backed(j.held.elastic, dir[s].db)
    <3>1. /\ Backed(j.held.elastic, j.held.db)
          /\ \A m \in Names : dir[s].db[m] \in {Missing, j.held.db[m]}
      BY <1>9, <2>1
    <3> HIDE DEF j, s
    <3> QED
      BY <3>1 DEF Backed
  <2> HIDE DEF d
  <2>4. \A y \in Snapshots : MapDir(y)'
    BY <1>4, <1>7, <2>1, <2>2, <2>3
  <2>5. Backed(net[u].elastic, net[u].db)'
    BY <2>1, BackedInit DEF Backed
  <2> QED
    BY <2>1, <2>4, <2>5, MapIdle
<1>14. CASE SaveStateFails(u)
  <2>1. j.pc = "saveState" /\ net' = net /\ job'[u] = Idle
    BY <1>0, <1>14 DEF SaveStateFails, Return
  <2>2. PICK x \in {dir[s].state, Partial} :
          dir' = [dir EXCEPT ![s] = [dir[s] EXCEPT !.exists = TRUE, !.state = x]]
    BY <1>14 DEF SaveStateFails, Snap
  <2>3. [dir[s] EXCEPT !.exists = TRUE, !.state = x].state \in {Missing, Partial}
    BY <1>7, <1>9, <2>1 DEF Dirs
  <2> QED
    BY <1>3, <1>4, <1>7, <2>1, <2>2, <2>3, MapIdle
<1> QED
  BY <1>5, <1>6, <1>8, <1>10, <1>11, <1>12, <1>13, <1>14 DEF SaveStep, MapInv

LEMMA MapLoad ==
  ASSUME OneNet, IType, MapInv, NEW u \in Nets, LoadStep(u) PROVE MapInv'
<1> DEFINE s == job[u].snap
           j == job[u]
<1>0. /\ net \in [Nets -> Networks] /\ job \in [Nets -> Operations]
      /\ j \in Jobs /\ j.held \in Content /\ Consistent(j)
      /\ \A x \in Snapshots : MapDir(x)
      /\ Backed(net[u].elastic, net[u].db) /\ MapJob(u)
  BY DEF IType, Operations, Jobs, MapInv
<1>1. dir' = dir
  BY DEF LoadStep, LoadBegins, LoadDB, LoadState, LoadConfig, LoadFails
<1>2. \A x \in Snapshots : MapDir(x)'
  BY <1>0, <1>1 DEF MapDir, Backed
<1>3. SUFFICES Backed(net[u].elastic, net[u].db)' /\ MapJob(u)'
  BY <1>2 DEF MapInv, OneNet
<1>4. net' = net => Backed(net[u].elastic, net[u].db)'
  BY <1>0 DEF Backed
<1>5. ASSUME NEW x \in Snapshots, LoadBegins(u, x) PROVE MapJob(u)' /\ net' = net
  <2>1. /\ job'[u].pc = "loadDB" /\ net' = net
        /\ job'[u].held = [Empty EXCEPT !.nodes = dir[x].conf]
    BY <1>0, <1>5 DEF LoadBegins
  <2>2. job'[u].held.elastic = {} /\ job'[u].held.db = NoDBs
    BY <2>1 DEF Empty
  <2> QED
    BY <2>1, <2>2 DEF MapJob, Backed, NoDBs
<1>6. ASSUME j.pc = "loadDB"
      PROVE  /\ s \in Snapshots /\ j.held.elastic = {}
             /\ \A m \in Names : j.held.db[m] \in {Missing, dir[s].db[m]}
  BY <1>0, <1>6 DEF Consistent, MapJob
<1>7. ASSUME NEW n \in Names, LoadDB(u, n) PROVE MapJob(u)' /\ net' = net
  <2> DEFINE x == dir[s].db[n]
  <2>1. /\ j.pc = "loadDB" /\ net' = net
        /\ job'[u] = [j EXCEPT !.todo = @ \ {n}, !.held.db[n] = x]
    BY <1>0, <1>7 DEF LoadDB, Snap
  <2>2. /\ job'[u].pc = "loadDB" /\ job'[u].snap = s
        /\ job'[u].held.elastic = j.held.elastic
        /\ job'[u].held.db = [j.held.db EXCEPT ![n] = x] /\ DOMAIN j.held.db = Names
    BY SMT, <1>0, <2>1 DEF Jobs, Content, DBs
  <2>3. \A m \in Names : job'[u].held.db[m] \in {Missing, dir[s].db[m]}
    BY <1>6, <2>1, <2>2
  <2>4. job'[u].held.elastic = {}
    BY <1>6, <2>1, <2>2
  <2> HIDE DEF j, s, x
  <2> QED
    BY <1>1, <2>1, <2>2, <2>3, <2>4 DEF MapJob, Backed
<1>8. CASE LoadState(u)
  <2> DEFINE e == IF dir[s].state = Missing THEN {} ELSE dir[s].state
  <2>1. /\ j.pc = "loadDB" /\ dir[s].state # Partial /\ net' = net
        /\ job'[u] = [j EXCEPT !.pc = "loadConfig", !.held.elastic = e]
    BY <1>0, <1>8 DEF LoadState, Snap
  <2>2. /\ job'[u].pc = "loadConfig" /\ job'[u].held.elastic = e
        /\ job'[u].held.db = j.held.db
    BY SMT, <1>0, <2>1 DEF Jobs, Content
  <2>3. Backed(e, dir[s].db)
    <3>1. dir[s].state # Missing => Backed(dir[s].state, dir[s].db)
      BY <1>0, <1>6, <2>1 DEF MapDir
    <3> HIDE DEF s
    <3> QED
      BY <3>1 DEF Backed
  <2>4. \A m \in Names : j.held.db[m] \in {Missing, dir[s].db[m]}
    BY <1>6, <2>1
  <2> HIDE DEF j, s, e
  <2>5. Backed(e, j.held.db)
    BY <2>3, <2>4 DEF Backed
  <2>6. MapJob(u)'
    BY <2>2, <2>5 DEF MapJob, Backed
  <2> QED
    BY <1>4, <2>1, <2>6
<1>9. CASE LoadConfig(u)
  <2>1. PICK ns : net' = [net EXCEPT ![u] = [j.held EXCEPT !.nodes = ns]]
    BY <1>9 DEF LoadConfig, Held
  <2>2. net'[u].elastic = j.held.elastic /\ net'[u].db = j.held.db
    BY <1>0, <2>1 DEF Content
  <2>3. Backed(j.held.elastic, j.held.db)
    BY <1>0 DEF MapJob
  <2>4. job'[u] = Idle
    BY <1>0, <1>9 DEF LoadConfig, Return
  <2> HIDE DEF j
  <2> QED
    BY <2>2, <2>3, <2>4, MapIdle DEF Backed
<1>10. CASE LoadFails(u)
  <2>1. job'[u] = Idle /\ net' = net
    BY <1>0, <1>10 DEF LoadFails, Return
  <2> QED
    BY <1>4, <2>1, MapIdle
<1> QED
  BY <1>4, <1>5, <1>7, <1>8, <1>9, <1>10 DEF LoadStep

LEMMA MapRemove ==
  ASSUME OneNet, IType, MapInv, NEW u \in Nets, RemoveStep(u) PROVE MapInv'
<1> DEFINE s == job[u].snap
<1>0. /\ job \in [Nets -> Operations] /\ Consistent(job[u])
      /\ dir \in [Snapshots -> Directories]
      /\ \A x \in Snapshots : dir[x] \in Dirs /\ MapDir(x)
      /\ Backed(net[u].elastic, net[u].db) /\ MapJob(u)
  BY DEF IType, Operations, Directories, MapInv
<1>1. net' = net
  BY DEF RemoveStep, RemoveBegins, RemoveEntry, RemoveDir, RemoveFails
<1>2. Backed(net[u].elastic, net[u].db)'
  BY <1>0, <1>1 DEF Backed
<1>3. MapJob(u)'
  <2>1. ASSUME NEW x \in Snapshots, RemoveBegins(u, x)
        PROVE  job'[u].pc = "remove" /\ job'[u].held = Empty
    BY <1>0, <2>1 DEF RemoveBegins, Idle
  <2>2. ASSUME NEW x \in Snapshots, RemoveBegins(u, x) PROVE MapJob(u)'
    BY <2>1, <2>2, BackedInit DEF MapJob, Backed
  <2>3. ASSUME RemoveEntry(u) PROVE MapJob(u)'
    BY <1>0, <2>3 DEF RemoveEntry, MapJob, Backed
  <2>4. ASSUME RemoveDir(u) \/ RemoveFails(u) PROVE job'[u] = Idle
    BY <1>0, <2>4 DEF RemoveDir, RemoveFails, Return
  <2> QED
    BY <2>2, <2>3, <2>4, MapIdle DEF RemoveStep
<1>4. ASSUME NEW x \in Snapshots PROVE MapDir(x)'
  <2>1. CASE dir' = dir
    BY <1>0, <2>1 DEF MapDir, Backed
  <2>2. CASE RemoveEntry(u)
    <3>1. s \in Snapshots /\ dir[s] \in Dirs /\ MapDir(s)
      BY <1>0, <2>2 DEF RemoveEntry, Consistent
    <3>2. x # s => dir'[x] = dir[x]
      BY <1>0, <2>2, <3>1 DEF RemoveEntry, Snap
    <3>3. CASE \E n \in Names, y \in {Partial, Missing} :
                 dir' = [dir EXCEPT ![s].db[n] = IF @ = Missing THEN Missing ELSE y]
      <4>1. PICK n \in Names, y \in {Partial, Missing} :
              dir' = [dir EXCEPT ![s].db[n] = IF @ = Missing THEN Missing ELSE y]
        BY <3>3
      <4> DEFINE z == IF dir[s].db[n] = Missing THEN Missing ELSE y
      <4>2. dir'[s] = [dir[s] EXCEPT !.db[n] = z]
        BY <1>0, <3>1, <4>1
      <4>3. /\ dir'[s].state = dir[s].state /\ dir'[s].db = [dir[s].db EXCEPT ![n] = z]
            /\ DOMAIN dir[s].db = Names /\ z \in {Missing, Partial}
        BY <3>1, <4>2 DEF Dirs, DBs
      <4> HIDE DEF s, z
      <4>4. \A m \in Names : dir'[s].db[m] \in {Missing, Partial, dir[s].db[m]}
        BY <4>3
      <4> QED
        BY <1>0, <3>1, <3>2, <4>3, <4>4 DEF MapDir, Backed
    <3>4. CASE dir' = [dir EXCEPT ![s].conf = Missing]
      <4>1. dir'[s].state = dir[s].state /\ dir'[s].db = dir[s].db
        BY <1>0, <3>1, <3>4 DEF Dirs
      <4> QED
        BY <1>0, <3>1, <3>2, <4>1 DEF MapDir, Backed
    <3>5. CASE dir' = [dir EXCEPT ![s].state = Missing]
      <4>1. dir'[s].state = Missing
        BY <1>0, <3>1, <3>5 DEF Dirs
      <4> QED
        BY <1>0, <3>2, <4>1 DEF MapDir, Backed
    <3> QED
      BY <2>2, <3>3, <3>4, <3>5 DEF RemoveEntry, Snap
  <2>3. CASE RemoveDir(u)
    <3>1. s \in Snapshots /\ dir' = [dir EXCEPT ![s] = NoDir] /\ NoDir.state = Missing
      BY <1>0, <2>3 DEF RemoveDir, Consistent, Snap, NoDir
    <3>2. dir'[x].state = Missing \/ dir'[x] = dir[x]
      BY <1>0, <3>1
    <3> QED
      BY <1>0, <3>2 DEF MapDir, Backed
  <2> QED
    BY <2>1, <2>2, <2>3 DEF RemoveStep, RemoveBegins, RemoveFails
<1> QED
  BY <1>2, <1>3, <1>4 DEF MapInv, OneNet

\* With one network on the directory, no crash, failed write or half removed
\* snapshot gives a network a map that counts a subnet as elastic when a node's
\* whole copy of the chain lacks the transaction.
THEOREM MapsWithinChain ==
  ASSUME OneNet PROVE Spec => []MapWithinChain
<1>1. Init => MapInv
  <2> SUFFICES ASSUME Init PROVE MapInv
    OBVIOUS
  <2>1. ASSUME NEW u \in Nets PROVE net[u] = Empty /\ job[u] = Idle
    BY <2>1 DEF Init
  <2>2. ASSUME NEW u \in Nets PROVE MapJob(u)
    <3>1. job[u].pc = "idle" /\ job[u].held = Empty
      BY SMT, <2>1, <2>2 DEF Idle
    <3> QED
      BY <3>1, BackedInit DEF MapJob
  <2>3. ASSUME NEW s \in Snapshots PROVE MapDir(s)
    <3>1. dir[s].state = Missing
      BY <2>3 DEF Init, NoDir
    <3> QED
      BY <3>1 DEF MapDir
  <2> QED
    BY <2>1, <2>2, <2>3, BackedInit DEF MapInv
<1>2. IInv /\ MapInv /\ [Next]_vars => MapInv'
  <2> SUFFICES ASSUME IInv, MapInv, [Next]_vars PROVE MapInv'
    OBVIOUS
  <2>1. CASE UNCHANGED vars
    BY <2>1 DEF vars, MapInv, MapJob, MapDir, Backed
  <2>2. CASE Next
    BY <2>2, NextSteps, MapNetwork, MapSave, MapLoad, MapRemove DEF IInv
  <2> QED
    BY <2>1, <2>2
<1>3. IInv /\ MapInv => MapWithinChain
  <2> SUFFICES ASSUME IInv, MapInv, NEW u \in Nets, NEW n \in Present(net[u].nodes),
                      net[u].db[n] # Partial
               PROVE  net[u].elastic \subseteq net[u].db[n]
    BY DEF MapWithinChain
  <2>1. n \in Names /\ net[u].db[n] # Missing
    BY DEF IInv, IType, Networks, Whole, Present
  <2> QED
    BY <2>1 DEF MapInv, Backed
<1> QED
  BY <1>1, <1>2, <1>3, Invariance, PTL DEF Spec

=============================================================================

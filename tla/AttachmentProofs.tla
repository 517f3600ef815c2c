-------------------------- MODULE AttachmentProofs --------------------------
(***************************************************************************)
(* Proofs about Attachment, for any volumes and nodes, any datapath, with  *)
(* and without StoLake, and for every fault at any time and any number of  *)
(* times, except where a theorem says otherwise.                           *)
(***************************************************************************)
EXTENDS Attachment, FiniteSetTheorems, TLAPS

Publishing == {"activate", "login", "mount", "format", "syscall", "tag"}
Unpublishing == {"inspect", "umount", "logout", "deactivate"}
Attaching == {"respond", "activate", "stage"}
Detaching == {"lookup", "unstage", "deactivate"}

\* A handler works on what the CO asks for: while it runs, the CO does not turn
\* round, so that no two handlers are at the same volume.
Serving ==
  /\ \A v \in Vols : co[v].st # "free" => co[v].node \in Nodes
  /\ hc.pc # "idle" => hc.vol \in Vols
  /\ hc.pc \in Attaching => co[hc.vol].st = "attaching"
  /\ hc.pc \in Detaching => co[hc.vol].st = "detaching"
  /\ \A n \in Nodes :
       /\ hn[n].pc # "idle" => hn[n].vol \in Vols /\ co[hn[n].vol].node = n
       /\ hn[n].pc \in Publishing => co[hn[n].vol].st = "publishing"
       /\ hn[n].pc \in Unpublishing => co[hn[n].vol].st = "unpublishing"

\* The handlers' ways through the modes.
Modes ==
  /\ hc.pc \in {"activate", "stage"} => Datapath = "iscsi"
  /\ \A n \in Nodes :
       /\ hn[n].pc = "activate" => Datapath = "direct"
       /\ hn[n].pc \in {"login", "logout"} => Datapath = "iscsi"
       /\ hn[n].pc = "deactivate" => Datapath # "iscsi"
       /\ hn[n].pc \in {"format", "syscall", "tag"} => ~Proxy

\* What a mount on n is made of.
Device(v, n) ==
  /\ Datapath = "direct" => <<v, n>> \in active
  /\ Datapath = "iscsi" => <<v, n>> \in session

\* A staged target keeps its LV active; from the attachment to the unpublishing
\* the target is staged, and from the activation or the login on the device is
\* there.
Backed ==
  /\ Datapath # "iscsi" => target = {}
  /\ \A v \in Vols, n \in Nodes : <<v, n>> \in target => <<v, Controller>> \in active
  /\ Datapath = "iscsi" =>
       /\ hc.pc = "respond" => <<hc.vol, co[hc.vol].node>> \in target
       /\ \A v \in Vols : co[v].st \in {"attached", "publishing", "published"} =>
            <<v, co[v].node>> \in target
  /\ \A n \in Nodes : hn[n].pc \in {"mount", "format", "syscall", "tag"} =>
       Device(hn[n].vol, n)
  /\ \A v \in Vols : co[v].st = "published" => Device(v, co[v].node)

MountKinds == {"none", "live", "dead", "twice"}
Live == {"live", "twice"}

\* What is published is mounted, and what is to be formatted was not written to.
Mounted ==
  /\ \A n \in Nodes : hn[n].pc = "tag" => mount[hn[n].vol][n] \in Live
  /\ \A v \in Vols : co[v].st = "published" => mount[v][co[v].node] \in Live
  /\ \A n \in Nodes : hn[n].pc = "format" => content[hn[n].vol] # "data"

\* The inductive invariant.
IInv == TypeOK /\ Serving /\ Modes /\ Backed /\ Mounted

\* parseMountinfo does not hide what a node has mounted, and so a mount is found
\* by an unpublish, and by the publish that would make another: the volumes have
\* filesystems and, but for those that come over iSCSI, their volume group is
\* called sbvg_ something.  StoLake looks for itself before it mounts.
FindsMounts == ~Block /\ (Datapath = "iscsi" \/ SbvgName)
SeesMounts == Proxy \/ FindsMounts
Once ==
  /\ MountedOnce
  /\ ~Proxy => \A v \in Vols, n \in Nodes : mount[v][n] # "dead"
  /\ \A n \in Nodes : hn[n].pc \in {"format", "syscall"} => mount[hn[n].vol][n] = "none"

\* Of the hosts only one has a volume active, and what is mounted without iSCSI is
\* active where it is mounted.
Held ==
  /\ \A v \in Vols, h, k \in Hosts : <<v, h>> \in active /\ <<v, k>> \in active => h = k
  /\ Datapath # "iscsi" =>
       /\ \A v \in Vols, n \in Nodes : mount[v][n] # "none" => <<v, n>> \in active
       /\ \A n \in Nodes : hn[n].pc \in {"format", "syscall"} => Datapath = "direct"

\* A live mount is where the CO publishes the volume.
Using == {"publishing", "published", "unpublishing"}
Placed ==
  /\ \A v \in Vols, n \in Nodes :
       mount[v][n] \in Live => co[v].node = n /\ co[v].st \in Using
  /\ \A n \in Nodes :
       /\ hn[n].pc = "deactivate" => mount[hn[n].vol][n] = "none"
       /\ hn[n].pc = "logout" /\ ~hn[n].err => mount[hn[n].vol][n] = "none"

\* No unmount fails ahead of a logout, which would leave a dead mount behind.
NoDeadMounts == Datapath = "iscsi" => "umount" \notin Faults
NoneDead ==
  /\ \A v \in Vols, n \in Nodes : mount[v][n] # "dead"
  /\ \A n \in Nodes : hn[n].pc = "logout" => mount[hn[n].vol][n] = "none"

-----------------------------------------------------------------------------
(* How a node's handler goes on *)

Moves(n, pc, err) ==
  /\ hn' = [hn EXCEPT ![n] = [pc |-> pc, vol |-> hn[n].vol, err |-> err]]
  /\ UNCHANGED <<hc, co>>
Quits(n) ==
  /\ hn' = [hn EXCEPT ![n] = Idle]
  /\ UNCHANGED <<hc, co>>
Reports(n, st) ==
  /\ hn' = [hn EXCEPT ![n] = Idle]
  /\ co' = [co EXCEPT ![hn[n].vol].st = st]
  /\ UNCHANGED hc

\* NodeGoto, NodeFail and NodeSucceed are these.
LEMMA NodeOutcomes ==
  ASSUME TypeOK, NEW n \in Nodes, UNCHANGED hc
  PROVE  /\ \A pc : NodeGoto(n, pc) => Moves(n, pc, hn[n].err)
         /\ NodeFail(n) => Quits(n)
         /\ \A st : NodeSucceed(n, st) => Quits(n) \/ Reports(n, st)
BY DEF TypeOK, NodeGoto, NodeFail, NodeSucceed, Moves, Quits, Reports, Reaches

\* A handler's step: it goes on, or returns and tells the CO at most that its call
\* has been done.
Outcome(n) ==
  \/ Quits(n)
  \/ hn[n].pc \in Publishing /\ \E pc \in Publishing, err \in BOOLEAN : Moves(n, pc, err)
  \/ hn[n].pc \in Unpublishing /\ \E pc \in Unpublishing, err \in BOOLEAN : Moves(n, pc, err)
  \/ hn[n].pc \in Publishing /\ Reports(n, "published")
  \/ hn[n].pc \in Unpublishing /\ Reports(n, "unpublished")

\* What changes of the handlers and of the CO.
LEMMA OutcomeChanges ==
  ASSUME TypeOK, Serving, NEW n \in Nodes, hn[n].pc # "idle", Outcome(n),
         NEW v, v = hn[n].vol
  PROVE  /\ v \in Vols /\ co[v].node = n
         /\ hc' = hc /\ \A m \in Nodes \ {n} : hn'[m] = hn[m]
         /\ \A u \in Vols \ {v} : co'[u] = co[u]
         /\ co'[v].node = n
         /\ \/ hn'[n] = Idle /\ co'[v].st = co[v].st
            \/ /\ hn'[n].vol = v /\ co'[v].st = co[v].st
               /\ \/ hn[n].pc \in Publishing /\ hn'[n].pc \in Publishing
                  \/ hn[n].pc \in Unpublishing /\ hn'[n].pc \in Unpublishing
            \/ hn'[n] = Idle /\ hn[n].pc \in Publishing /\ co'[v].st = "published"
            \/ hn'[n] = Idle /\ hn[n].pc \in Unpublishing /\ co'[v].st = "unpublished"
<1>1. v \in Vols /\ co[v].node = n
  BY DEF Serving
<1>2. CASE Quits(n)
  BY <1>1, <1>2 DEF Quits, TypeOK
<1>3. ASSUME NEW pc, NEW err, Moves(n, pc, err)
      PROVE  /\ hc' = hc /\ co' = co /\ \A m \in Nodes \ {n} : hn'[m] = hn[m]
             /\ hn'[n].vol = v /\ hn'[n].pc = pc
  BY <1>3 DEF Moves, TypeOK
<1>4. ASSUME NEW st, Reports(n, st)
      PROVE  /\ hc' = hc /\ hn'[n] = Idle /\ \A m \in Nodes \ {n} : hn'[m] = hn[m]
             /\ \A u \in Vols \ {v} : co'[u] = co[u]
             /\ co'[v].node = n /\ co'[v].st = st
  BY <1>1, <1>4 DEF Reports, TypeOK
<1> QED BY <1>1, <1>2, <1>3, <1>4 DEF Outcome

\* The types of the handlers and of the CO.
LEMMA OutcomeTypes ==
  ASSUME TypeOK, Serving, NEW n \in Nodes, hn[n].pc # "idle", Outcome(n)
  PROVE  /\ hn' \in [Nodes -> [pc : {"idle"} \cup Publishing \cup Unpublishing,
                              vol : Vols \cup {None}, err : BOOLEAN]]
         /\ \A m \in Nodes : hn'[m].pc = "idle" => hn'[m] = Idle
         /\ co' \in [Vols -> [st : {"free", "attaching", "attached", "publishing",
                                     "published", "unpublishing", "unpublished",
                                     "detaching"}, node : Nodes \cup {None}]]
         /\ hc' = hc
<1> USE DEF TypeOK, Publishing, Unpublishing
<1>1. hn[n].vol \in Vols
  BY DEF Serving
<1>2. CASE Quits(n)
  BY <1>2 DEF Quits, Idle
<1>3. ASSUME NEW st \in {"published", "unpublished"}, Reports(n, st)
      PROVE  /\ hn' \in [Nodes -> [pc : {"idle"} \cup Publishing \cup Unpublishing,
                                  vol : Vols \cup {None}, err : BOOLEAN]]
             /\ \A m \in Nodes : hn'[m].pc = "idle" => hn'[m] = Idle
             /\ co' \in [Vols -> [st : {"free", "attaching", "attached", "publishing",
                                     "published", "unpublishing", "unpublished",
                                     "detaching"}, node : Nodes \cup {None}]]
             /\ hc' = hc
  BY <1>1, <1>3 DEF Reports, Idle
<1>4. ASSUME NEW pc \in Publishing \cup Unpublishing, NEW err \in BOOLEAN, Moves(n, pc, err)
      PROVE  /\ hn' \in [Nodes -> [pc : {"idle"} \cup Publishing \cup Unpublishing,
                                  vol : Vols \cup {None}, err : BOOLEAN]]
             /\ \A m \in Nodes : hn'[m].pc = "idle" => hn'[m] = Idle
             /\ hc' = hc /\ co' = co
  BY <1>1, <1>4 DEF Moves
<1> QED BY <1>2, <1>3, <1>4 DEF Outcome

\* They keep to what the CO asks for.
LEMMA OutcomeServing ==
  ASSUME TypeOK, Serving, NEW n \in Nodes, hn[n].pc # "idle", Outcome(n)
  PROVE  Serving'
<1>1. PICK v : v = hn[n].vol
  OBVIOUS
<1>2. /\ v \in Vols /\ co[v].node = n
      /\ co[v].st = "publishing" \/ co[v].st = "unpublishing"
  BY <1>1 DEF TypeOK, Serving, Publishing, Unpublishing
<1>3. \A m \in Nodes \ {n} : hn[m].pc # "idle" => hn[m].vol # v
  BY <1>2 DEF Serving
<1>4. hc.pc # "idle" => hc.vol # v
  BY <1>2 DEF TypeOK, Serving, Attaching, Detaching
<1>5. /\ hc' = hc /\ \A m \in Nodes \ {n} : hn'[m] = hn[m]
      /\ \A u \in Vols \ {v} : co'[u] = co[u]
      /\ co'[v].node = n
  BY <1>1, OutcomeChanges
<1>6. \/ hn'[n] = Idle
      \/ /\ hn'[n].vol = v /\ co'[v].st = co[v].st
         /\ \/ hn[n].pc \in Publishing /\ hn'[n].pc \in Publishing
            \/ hn[n].pc \in Unpublishing /\ hn'[n].pc \in Unpublishing
  BY <1>1, OutcomeChanges
<1>7. \A u \in Vols : co'[u].st # "free" => co'[u].node \in Nodes
  BY <1>5 DEF Serving
<1>8. /\ hc'.pc # "idle" => hc'.vol \in Vols
      /\ hc'.pc \in Attaching => co'[hc'.vol].st = "attaching"
      /\ hc'.pc \in Detaching => co'[hc'.vol].st = "detaching"
  BY <1>4, <1>5 DEF Serving, Attaching, Detaching
<1>9. ASSUME NEW m \in Nodes
      PROVE  /\ hn'[m].pc # "idle" => hn'[m].vol \in Vols /\ co'[hn'[m].vol].node = m
             /\ hn'[m].pc \in Publishing => co'[hn'[m].vol].st = "publishing"
             /\ hn'[m].pc \in Unpublishing => co'[hn'[m].vol].st = "unpublishing"
  <2>1. CASE m = n
    BY <1>1, <1>2, <1>5, <1>6, <2>1 DEF Serving, Idle, Publishing, Unpublishing
  <2>2. CASE m # n
    BY <1>3, <1>5, <2>2 DEF Serving, Publishing, Unpublishing
  <2> QED BY <2>1, <2>2
<1> QED BY <1>7, <1>8, <1>9 DEF Serving

\* A node's handler touches its own volume on its own node.
Touches(n, v) ==
  /\ UNCHANGED target
  /\ Datapath = "iscsi" => UNCHANGED active
  /\ \A u \in Vols, m \in Hosts :
       u # v \/ m # n => (<<u, m>> \in active' <=> <<u, m>> \in active)
  /\ \A u \in Vols, m \in Nodes :
       u # v \/ m # n => (<<u, m>> \in session' <=> <<u, m>> \in session)
  /\ \A u \in Vols, m \in Nodes : u # v \/ m # n => mount'[u][m] = mount[u][m]
  /\ \A u \in Vols \ {v} : content'[u] = content[u]

\* And it leaves them as the invariant says.
Leaves(n, v) ==
  /\ hn'[n].pc = "activate" => Datapath = "direct"
  /\ hn'[n].pc \in {"login", "logout"} => Datapath = "iscsi"
  /\ hn'[n].pc = "deactivate" => Datapath # "iscsi"
  /\ hn'[n].pc \in {"format", "syscall", "tag"} => ~Proxy
  /\ hn'[n].pc \in {"mount", "format", "syscall", "tag"} => Device(v, n)'
  /\ hn'[n].pc = "tag" => mount'[v][n] \in Live
  /\ hn'[n].pc = "format" => content'[v] # "data"
  /\ co'[v].st = "published" => Device(v, n)' /\ mount'[v][n] \in Live

\* Then the invariant is kept.
LEMMA NodeKeeps ==
  ASSUME IInv, NEW n \in Nodes, hn[n].pc # "idle", Outcome(n), TypeOK',
         NEW v, v = hn[n].vol, Touches(n, v), Leaves(n, v)
  PROVE  IInv'
<1>1. /\ v \in Vols /\ co[v].node = n
      /\ co[v].st = "publishing" \/ co[v].st = "unpublishing"
  BY DEF IInv, TypeOK, Serving, Publishing, Unpublishing
<1>2. \A m \in Nodes \ {n} : hn[m].pc # "idle" => hn[m].vol \in Vols /\ hn[m].vol # v
  BY <1>1 DEF IInv, Serving
<1>3. hc.pc # "idle" => hc.vol \in Vols /\ hc.vol # v
  BY <1>1 DEF IInv, TypeOK, Serving, Attaching, Detaching
<1>4. /\ hc' = hc /\ \A m \in Nodes \ {n} : hn'[m] = hn[m]
      /\ \A u \in Vols \ {v} : co'[u] = co[u]
      /\ co'[v].node = n /\ (hn'[n] = Idle \/ hn'[n].vol = v)
      /\ \/ co'[v].st = co[v].st
         \/ co[v].st = "publishing" /\ co'[v].st = "published"
         \/ co'[v].st = "unpublished"
  BY OutcomeChanges DEF IInv, Serving
<1>5. Serving'
  BY OutcomeServing DEF IInv
<1>6. Modes'
  BY <1>2, <1>4 DEF IInv, Modes, Leaves
<1>7. \A u \in Vols, m \in Nodes : u # v \/ m # n => (Device(u, m)' <=> Device(u, m))
  BY DEF Device, Touches, Hosts
<1>8. Backed'
  <2>1. Datapath # "iscsi" => target' = {}
    BY DEF IInv, Backed, Touches
  <2>2. \A u \in Vols, m \in Nodes : <<u, m>> \in target' => <<u, Controller>> \in active'
    BY <2>1 DEF IInv, Backed, Touches
  <2>3. Datapath = "iscsi" =>
          /\ hc'.pc = "respond" => <<hc'.vol, co'[hc'.vol].node>> \in target'
          /\ \A u \in Vols : co'[u].st \in {"attached", "publishing", "published"} =>
               <<u, co'[u].node>> \in target'
    BY <1>1, <1>3, <1>4 DEF IInv, Backed, Touches
  <2>4. ASSUME NEW m \in Nodes, hn'[m].pc \in {"mount", "format", "syscall", "tag"},
               NEW u, u = hn'[m].vol
        PROVE  Device(u, m)'
    <3>1. CASE m = n
      BY <1>4, <2>4, <3>1 DEF Leaves, Idle
    <3>2. CASE m # n
      <4>1. Device(hn[m].vol, m) /\ hn[m].vol = u /\ u \in Vols
        BY <1>2, <1>4, <2>4, <3>2 DEF IInv, Backed
      <4> QED BY <1>7, <3>2, <4>1
    <3> QED BY <3>1, <3>2
  <2>5. ASSUME NEW u \in Vols, co'[u].st = "published", NEW m, m = co'[u].node
        PROVE  Device(u, m)'
    <3>1. CASE u = v
      BY <1>4, <2>5, <3>1 DEF Leaves
    <3>2. CASE u # v
      <4>1. Device(u, m) /\ m \in Nodes
        BY <1>4, <2>5, <3>2 DEF IInv, Backed, Serving
      <4> QED BY <1>7, <3>2, <4>1
    <3> QED BY <3>1, <3>2
  <2>6. \A m \in Nodes : hn'[m].pc \in {"mount", "format", "syscall", "tag"} =>
          Device(hn[m].vol, m)'
    BY <2>4 DEF Device
  <2>7. \A u \in Vols : co'[u].st = "published" => Device(u, co[u].node)'
    BY <2>5 DEF Device
  <2> QED BY <2>1, <2>2, <2>3, <2>6, <2>7 DEF Backed
<1>9. Mounted'
  <2>1. \A m \in Nodes : hn'[m].pc = "tag" => mount'[hn'[m].vol][m] \in Live
    BY <1>1, <1>2, <1>4 DEF IInv, Mounted, Touches, Leaves, Idle
  <2>2. \A u \in Vols : co'[u].st = "published" => mount'[u][co'[u].node] \in Live
    BY <1>1, <1>4 DEF IInv, Mounted, Serving, Touches, Leaves
  <2>3. \A m \in Nodes : hn'[m].pc = "format" => content'[hn'[m].vol] # "data"
    BY <1>1, <1>2, <1>4 DEF IInv, Mounted, Touches, Leaves, Idle
  <2> QED BY <2>1, <2>2, <2>3 DEF Mounted
<1> QED BY <1>5, <1>6, <1>8, <1>9 DEF IInv

-----------------------------------------------------------------------------
(* The steps of a node's handler *)

\* Faults are counted within their bound.
LEMMA FaultsCounted ==
  ASSUME TypeOK, NoFault \/ \E kind : Fault(kind)
  PROVE  faults' \in 0..MaxFaults
BY AttachmentAssumption DEF TypeOK, NoFault, Fault

\* The volume of a handler that runs.
LEMMA OwnVolume ==
  ASSUME IInv, NEW n \in Nodes, hn[n].pc # "idle"
  PROVE  /\ hn[n].vol \in Vols /\ co[hn[n].vol].node = n /\ hn[n].err \in BOOLEAN
         /\ hn[n].pc \in Publishing => co[hn[n].vol].st = "publishing"
         /\ hn[n].pc \in Unpublishing => co[hn[n].vol].st = "unpublishing"
BY DEF IInv, TypeOK, Serving

\* The types of all, from those of the store.
LEMMA NodeTypes ==
  ASSUME IInv, NEW n \in Nodes, hn[n].pc # "idle", Outcome(n),
         active' \subseteq Vols \X Hosts, target' \subseteq Vols \X Nodes,
         session' \subseteq Vols \X Nodes,
         mount' \in [Vols -> [Nodes -> MountKinds]],
         content' \in [Vols -> {"blank", "fs", "data"}],
         tagged' \subseteq Vols, faults' \in 0..MaxFaults
  PROVE  TypeOK'
BY OutcomeTypes DEF IInv, TypeOK, Publishing, Unpublishing, MountKinds

\* A change of one mount, and of one content.
LEMMA MountChange ==
  ASSUME TypeOK, NEW v \in Vols, NEW n \in Nodes,
         NEW x \in MountKinds,
         mount' = [mount EXCEPT ![v][n] = x]
  PROVE  /\ mount' \in [Vols -> [Nodes -> MountKinds]]
         /\ \A u \in Vols, m \in Nodes : u # v \/ m # n => mount'[u][m] = mount[u][m]
         /\ mount'[v][n] = x
BY DEF TypeOK, MountKinds

LEMMA ContentChange ==
  ASSUME TypeOK, NEW v \in Vols, NEW x \in {"blank", "fs", "data"},
         content' = [content EXCEPT ![v] = x]
  PROVE  /\ content' \in [Vols -> {"blank", "fs", "data"}]
         /\ \A u \in Vols \ {v} : content'[u] = content[u]
         /\ content'[v] = x
BY DEF TypeOK

LEMMA NodeActivateIInv ==
  ASSUME IInv, NEW n \in Nodes, NodeActivate(n) PROVE IInv'
<1>1. PICK v : v = hn[n].vol
  OBVIOUS
<1>2. /\ hn[n].pc = "activate" /\ Datapath = "direct"
      /\ v \in Vols /\ co[v].st = "publishing" /\ hn[n].err \in BOOLEAN
  BY <1>1, OwnVolume DEF NodeActivate, IInv, Modes, Publishing
<1>3. /\ UNCHANGED <<target, session, mount, content, tagged>>
      /\ active' = active \/ active' = active \cup {<<v, n>>}
      /\ NoFault \/ \E kind : Fault(kind)
      /\ Quits(n) \/ (Moves(n, "mount", hn[n].err) /\ active' = active \cup {<<v, n>>})
  BY <1>1, NodeOutcomes DEF NodeActivate, Attempt, store, IInv
<1>4. Outcome(n)
  BY <1>2, <1>3 DEF Outcome, Publishing
<1>5. TypeOK'
  <2>1. active' \subseteq Vols \X Hosts
    BY <1>2, <1>3 DEF IInv, TypeOK, Hosts
  <2> QED BY <1>2, <1>3, <1>4, <2>1, NodeTypes, FaultsCounted DEF IInv, TypeOK, MountKinds
<1>6. Touches(n, v)
  BY <1>2, <1>3 DEF Touches
<1>7. Leaves(n, v)
  <2>1. co'[v].st = "publishing"
    BY <1>2, <1>3 DEF Moves, Quits
  <2>2. hn'[n].pc = "idle" \/ (hn'[n].pc = "mount" /\ active' = active \cup {<<v, n>>})
    BY <1>3 DEF Moves, Quits, Idle, IInv, TypeOK
  <2> QED BY <1>2, <2>1, <2>2 DEF Leaves, Device
<1> QED BY <1>1, <1>2, <1>4, <1>5, <1>6, <1>7, NodeKeeps

LEMMA LoginIInv ==
  ASSUME IInv, NEW n \in Nodes, Login(n) PROVE IInv'
<1>1. PICK v : v = hn[n].vol
  OBVIOUS
<1>2. /\ hn[n].pc = "login" /\ Datapath = "iscsi"
      /\ v \in Vols /\ co[v].st = "publishing" /\ hn[n].err \in BOOLEAN
  BY <1>1, OwnVolume DEF Login, IInv, Modes, Publishing
<1>3. /\ UNCHANGED <<active, target, mount, content, tagged>>
      /\ session' = session \/ session' = session \cup {<<v, n>>}
      /\ NoFault \/ \E kind : Fault(kind)
      /\ Quits(n) \/ (Moves(n, "mount", hn[n].err) /\ session' = session \cup {<<v, n>>})
  BY <1>1, NodeOutcomes DEF Login, Attempt, store, IInv
<1>4. Outcome(n)
  BY <1>2, <1>3 DEF Outcome, Publishing
<1>5. TypeOK'
  <2>1. session' \subseteq Vols \X Nodes
    BY <1>2, <1>3 DEF IInv, TypeOK
  <2> QED BY <1>2, <1>3, <1>4, <2>1, NodeTypes, FaultsCounted DEF IInv, TypeOK, MountKinds
<1>6. Touches(n, v)
  BY <1>2, <1>3 DEF Touches
<1>7. Leaves(n, v)
  <2>1. co'[v].st = "publishing"
    BY <1>2, <1>3 DEF Moves, Quits
  <2>2. hn'[n].pc = "idle" \/ (hn'[n].pc = "mount" /\ session' = session \cup {<<v, n>>})
    BY <1>3 DEF Moves, Quits, Idle, IInv, TypeOK
  <2> QED BY <1>2, <2>1, <2>2 DEF Leaves, Device
<1> QED BY <1>1, <1>2, <1>4, <1>5, <1>6, <1>7, NodeKeeps

LEMMA ProxyMountIInv ==
  ASSUME IInv, NEW n \in Nodes, ProxyMount(n) PROVE IInv'
<1>1. PICK v : v = hn[n].vol
  OBVIOUS
<1>2. /\ hn[n].pc = "mount" /\ v \in Vols /\ co[v].st = "publishing" /\ Device(v, n)
  BY <1>1, OwnVolume DEF ProxyMount, IInv, Backed, Publishing
<1>3. /\ UNCHANGED <<active, target, session, tagged>>
      /\ NoFault \/ \E kind : Fault(kind)
      /\ \/ /\ mount' = [mount EXCEPT ![v][n] = "live"]
            /\ content' = [content EXCEPT ![v] = IF @ = "blank" /\ ~Block THEN "fs" ELSE @]
            /\ Quits(n) \/ Reports(n, "published")
         \/ UNCHANGED <<mount, content>> /\ Quits(n)
  BY <1>1, NodeOutcomes DEF ProxyMount, NodeSucceed, IInv
<1>4. Outcome(n)
  BY <1>2, <1>3 DEF Outcome, Publishing
<1>5. /\ mount' \in [Vols -> [Nodes -> MountKinds]]
      /\ content' \in [Vols -> {"blank", "fs", "data"}]
      /\ \A u \in Vols, m \in Nodes : u # v \/ m # n => mount'[u][m] = mount[u][m]
      /\ \A u \in Vols \ {v} : content'[u] = content[u]
      /\ Quits(n) \/ mount'[v][n] = "live"
  <2>1. CASE UNCHANGED <<mount, content>> /\ Quits(n)
    BY <2>1 DEF IInv, TypeOK, MountKinds
  <2>2. CASE /\ mount' = [mount EXCEPT ![v][n] = "live"]
             /\ content' = [content EXCEPT ![v] = IF @ = "blank" /\ ~Block THEN "fs" ELSE @]
    <3>1. PICK x : x = IF content[v] = "blank" /\ ~Block THEN "fs" ELSE content[v]
      OBVIOUS
    <3>2. x \in {"blank", "fs", "data"} /\ content' = [content EXCEPT ![v] = x]
      BY <1>2, <2>2, <3>1 DEF IInv, TypeOK
    <3>3. /\ content' \in [Vols -> {"blank", "fs", "data"}]
          /\ \A u \in Vols \ {v} : content'[u] = content[u]
      BY <1>2, <3>2, ContentChange DEF IInv
    <3>4. /\ mount' \in [Vols -> [Nodes -> MountKinds]]
          /\ \A u \in Vols, m \in Nodes : u # v \/ m # n => mount'[u][m] = mount[u][m]
          /\ mount'[v][n] = "live"
      BY <1>2, <2>2, MountChange DEF IInv, MountKinds
    <3> QED BY <3>3, <3>4
  <2> QED BY <1>3, <2>1, <2>2
<1>6. TypeOK'
  BY <1>2, <1>3, <1>4, <1>5, NodeTypes, FaultsCounted DEF IInv, TypeOK, MountKinds
<1>7. Touches(n, v)
  BY <1>3, <1>5 DEF Touches
<1>8. Leaves(n, v)
  <2>1. hn'[n].pc = "idle"
    BY <1>3 DEF Reports, Quits, Idle, IInv, TypeOK
  <2>2. co'[v].st = "published" => mount'[v][n] \in Live
    BY <1>2, <1>5 DEF Quits, Live
  <2>3. Device(v, n)'
    BY <1>2, <1>3 DEF Device
  <2> QED BY <2>1, <2>2, <2>3 DEF Leaves
<1> QED BY <1>1, <1>2, <1>4, <1>6, <1>7, <1>8, NodeKeeps

LEMMA ProbeIInv ==
  ASSUME IInv, NEW n \in Nodes, Probe(n) PROVE IInv'
<1>1. PICK v : v = hn[n].vol
  OBVIOUS
<1>2. /\ hn[n].pc = "mount" /\ v \in Vols /\ co[v].st = "publishing" /\ Device(v, n)
      /\ hn[n].err \in BOOLEAN /\ ~Proxy
  BY <1>1, OwnVolume DEF Probe, IInv, Backed, Publishing
<1>3. /\ UNCHANGED store /\ (NoFault \/ \E kind : Fault(kind))
      /\ \/ Quits(n)
         \/ Moves(n, "tag", hn[n].err) /\ Visible(v, n)
         \/ Moves(n, "format", hn[n].err) /\ content[v] = "blank"
         \/ Moves(n, "syscall", hn[n].err)
  BY <1>1, NodeOutcomes DEF Probe, IInv
<1>4. Outcome(n)
  BY <1>2, <1>3 DEF Outcome, Publishing
<1>5. TypeOK'
  BY <1>2, <1>3, <1>4, NodeTypes, FaultsCounted DEF IInv, TypeOK, MountKinds, store
<1>6. Touches(n, v)
  BY <1>3 DEF Touches, store
<1>7. Leaves(n, v)
  <2>1. co'[v].st = "publishing" /\ Device(v, n)'
    BY <1>2, <1>3 DEF Moves, Quits, Device, store
  <2>2. \/ hn'[n].pc \in {"idle", "syscall"}
        \/ hn'[n].pc = "tag" /\ mount'[v][n] \in Live
        \/ hn'[n].pc = "format" /\ content'[v] # "data"
    BY <1>3 DEF Moves, Quits, Idle, IInv, TypeOK, Visible, Live, store
  <2> QED BY <1>2, <2>1, <2>2 DEF Leaves
<1> QED BY <1>1, <1>2, <1>4, <1>5, <1>6, <1>7, NodeKeeps

LEMMA FormatIInv ==
  ASSUME IInv, NEW n \in Nodes, Format(n) PROVE IInv'
<1>1. PICK v : v = hn[n].vol
  OBVIOUS
<1>2. /\ hn[n].pc = "format" /\ v \in Vols /\ co[v].st = "publishing" /\ Device(v, n)
      /\ hn[n].err \in BOOLEAN /\ ~Proxy
  BY <1>1, OwnVolume DEF Format, IInv, Backed, Publishing, Modes
<1>3. /\ UNCHANGED <<active, target, session, mount, tagged>>
      /\ content' = content \/ content' = [content EXCEPT ![v] = "fs"]
      /\ NoFault \/ \E kind : Fault(kind)
      /\ Quits(n) \/ Moves(n, "syscall", hn[n].err)
  BY <1>1, NodeOutcomes DEF Format, Attempt, store, IInv
<1>4. Outcome(n)
  BY <1>2, <1>3 DEF Outcome, Publishing
<1>5. /\ content' \in [Vols -> {"blank", "fs", "data"}]
      /\ \A u \in Vols \ {v} : content'[u] = content[u]
  BY <1>2, <1>3, ContentChange DEF IInv, TypeOK
<1>6. TypeOK'
  BY <1>2, <1>3, <1>4, <1>5, NodeTypes, FaultsCounted DEF IInv, TypeOK, MountKinds
<1>7. Touches(n, v)
  BY <1>3, <1>5 DEF Touches
<1>8. Leaves(n, v)
  <2>1. co'[v].st = "publishing" /\ Device(v, n)'
    BY <1>2, <1>3 DEF Moves, Quits, Device
  <2>2. hn'[n].pc \in {"idle", "syscall"}
    BY <1>3 DEF Moves, Quits, Idle, IInv, TypeOK
  <2> QED BY <1>2, <2>1, <2>2 DEF Leaves
<1> QED BY <1>1, <1>2, <1>4, <1>6, <1>7, <1>8, NodeKeeps

LEMMA MountSyscallIInv ==
  ASSUME IInv, NEW n \in Nodes, MountSyscall(n) PROVE IInv'
<1>1. PICK v : v = hn[n].vol
  OBVIOUS
<1>2. /\ hn[n].pc = "syscall" /\ v \in Vols /\ co[v].st = "publishing" /\ Device(v, n)
      /\ hn[n].err \in BOOLEAN /\ ~Proxy
  BY <1>1, OwnVolume DEF MountSyscall, IInv, Backed, Publishing, Modes
<1>3. PICK x \in Live : x = IF mount[v][n] = "none" THEN "live" ELSE "twice"
  BY DEF Live
<1>4. /\ UNCHANGED <<active, target, session, content, tagged>>
      /\ mount' = mount \/ mount' = [mount EXCEPT ![v][n] = x]
      /\ NoFault \/ \E kind : Fault(kind)
      /\ \/ Quits(n)
         \/ Moves(n, "tag", hn[n].err) /\ mount' = [mount EXCEPT ![v][n] = x]
  BY <1>1, <1>3, NodeOutcomes DEF MountSyscall, Attempt, store, IInv
<1>5. Outcome(n)
  BY <1>2, <1>4 DEF Outcome, Publishing
<1>6. /\ mount' \in [Vols -> [Nodes -> MountKinds]]
      /\ \A u \in Vols, m \in Nodes : u # v \/ m # n => mount'[u][m] = mount[u][m]
      /\ Quits(n) \/ (Moves(n, "tag", hn[n].err) /\ mount'[v][n] = x)
  <2>1. CASE mount' = mount /\ Quits(n)
    BY <2>1 DEF IInv, TypeOK, MountKinds
  <2>2. CASE mount' = [mount EXCEPT ![v][n] = x]
    <3>1. x \in MountKinds
      BY <1>3 DEF MountKinds
    <3>2. /\ mount' \in [Vols -> [Nodes -> MountKinds]]
          /\ \A u \in Vols, m \in Nodes : u # v \/ m # n => mount'[u][m] = mount[u][m]
          /\ mount'[v][n] = x
      BY <1>2, <2>2, <3>1 DEF IInv, TypeOK, MountKinds
    <3> QED BY <1>4, <3>2
  <2> QED BY <1>4, <2>1, <2>2
<1>7. TypeOK'
  BY <1>2, <1>4, <1>5, <1>6, NodeTypes, FaultsCounted DEF IInv, TypeOK, MountKinds
<1>8. Touches(n, v)
  BY <1>4, <1>6 DEF Touches
<1>9. Leaves(n, v)
  <2>1. co'[v].st = "publishing" /\ Device(v, n)'
    BY <1>2, <1>4 DEF Moves, Quits, Device
  <2>2. hn'[n].pc = "idle" \/ (hn'[n].pc = "tag" /\ mount'[v][n] \in Live)
    BY <1>3, <1>6 DEF Moves, Quits, Idle, IInv, TypeOK
  <2> QED BY <1>2, <2>1, <2>2 DEF Leaves
<1> QED BY <1>1, <1>2, <1>5, <1>7, <1>8, <1>9, NodeKeeps

LEMMA TagIInv ==
  ASSUME IInv, NEW n \in Nodes, Tag(n) PROVE IInv'
<1>1. PICK v : v = hn[n].vol
  OBVIOUS
<1>2. /\ hn[n].pc = "tag" /\ v \in Vols /\ co[v].st = "publishing" /\ Device(v, n)
      /\ mount[v][n] \in Live
  BY <1>1, OwnVolume DEF Tag, IInv, Backed, Mounted, Publishing
<1>3. /\ UNCHANGED <<active, target, session, mount, content>>
      /\ tagged' = tagged \/ tagged' = tagged \cup {v}
      /\ NoFault \/ \E kind : Fault(kind)
      /\ Quits(n) \/ Reports(n, "published")
  BY <1>1, NodeOutcomes DEF Tag, NodeSucceed, Reports, Reaches, IInv
<1>4. Outcome(n)
  BY <1>2, <1>3 DEF Outcome, Publishing
<1>5. TypeOK'
  BY <1>2, <1>3, <1>4, NodeTypes, FaultsCounted DEF IInv, TypeOK, MountKinds
<1>6. Touches(n, v)
  BY <1>3 DEF Touches
<1>7. Leaves(n, v)
  <2>1. hn'[n].pc = "idle"
    BY <1>3 DEF Reports, Quits, Idle, IInv, TypeOK
  <2>2. Device(v, n)' /\ mount'[v][n] \in Live
    BY <1>2, <1>3 DEF Device
  <2> QED BY <2>1, <2>2 DEF Leaves
<1> QED BY <1>1, <1>2, <1>4, <1>5, <1>6, <1>7, NodeKeeps

LEMMA InspectIInv ==
  ASSUME IInv, NEW n \in Nodes, Inspect(n) \/ NodeCrash(n) PROVE IInv'
<1>1. PICK v : v = hn[n].vol
  OBVIOUS
<1>2. hn[n].pc # "idle" /\ v \in Vols /\ hn[n].err \in BOOLEAN
  BY <1>1, OwnVolume DEF Inspect, NodeCrash
<1>3. co[v].st = "publishing" \/ co[v].st = "unpublishing"
  <2>1. hn[n].pc \in Publishing \/ hn[n].pc \in Unpublishing
    BY <1>2 DEF IInv, TypeOK, Publishing, Unpublishing
  <2> QED BY <1>1, <1>2, <2>1, OwnVolume
<1>4. /\ UNCHANGED store /\ (NoFault \/ \E kind : Fault(kind))
      /\ \/ Quits(n)
         \/ /\ hn[n].pc = "inspect"
            /\ Reports(n, "unpublished") \/ Moves(n, "umount", hn[n].err)
  BY NodeOutcomes DEF Inspect, NodeCrash, NodeSucceed, Quits, IInv
<1>5. Outcome(n)
  BY <1>2, <1>4 DEF Outcome, Unpublishing
<1>6. TypeOK'
  BY <1>2, <1>4, <1>5, NodeTypes, FaultsCounted DEF IInv, TypeOK, MountKinds, store
<1>7. Touches(n, v)
  BY <1>4 DEF Touches, store
<1>8. Leaves(n, v)
  <2>1. hn'[n].pc \in {"idle", "umount"}
    BY <1>4 DEF Moves, Reports, Quits, Idle, IInv, TypeOK
  <2>2. co'[v].st # "published"
    BY <1>1, <1>2, <1>3, <1>4 DEF Moves, Reports, Quits, IInv, TypeOK
  <2> QED BY <2>1, <2>2 DEF Leaves
<1> QED BY <1>1, <1>2, <1>5, <1>6, <1>7, <1>8, NodeKeeps

Remounts(v, n) ==
  mount' = mount \/ \E x \in MountKinds : mount' = [mount EXCEPT ![v][n] = x]

\* The steps that end an unpublishing touch no more than a mount, a session or an
\* activation of the node.
LEMMA UnpublishKeeps ==
  ASSUME IInv, NEW n \in Nodes, hn[n].pc \in Unpublishing, NEW v, v = hn[n].vol,
         \/ Quits(n) \/ Reports(n, "unpublished")
         \/ Datapath = "iscsi" /\ \E err \in BOOLEAN : Moves(n, "logout", err)
         \/ Datapath # "iscsi" /\ \E err \in BOOLEAN : Moves(n, "deactivate", err),
         Remounts(v, n),
         session' = session \/ session' = session \ {<<v, n>>},
         active' = active \/ active' = active \ {<<v, n>>}, Datapath = "iscsi" => active' = active,
         UNCHANGED <<target, content, tagged>>, NoFault \/ \E kind : Fault(kind)
  PROVE  IInv'
<1>1. hn[n].pc # "idle" /\ v \in Vols /\ co[v].st = "unpublishing"
  BY OwnVolume DEF Unpublishing
<1>2. Outcome(n)
  BY DEF Outcome, Unpublishing
<1>3. /\ mount' \in [Vols -> [Nodes -> MountKinds]]
      /\ \A u \in Vols, m \in Nodes : u # v \/ m # n => mount'[u][m] = mount[u][m]
  <2>1. CASE mount' = mount
    BY <2>1 DEF IInv, TypeOK, MountKinds
  <2>2. ASSUME NEW x \in MountKinds,
               mount' = [mount EXCEPT ![v][n] = x]
        PROVE  /\ mount' \in [Vols -> [Nodes -> MountKinds]]
               /\ \A u \in Vols, m \in Nodes : u # v \/ m # n => mount'[u][m] = mount[u][m]
    BY <1>1, <2>2 DEF IInv, TypeOK, MountKinds
  <2> QED BY <2>1, <2>2 DEF Remounts
<1>4. TypeOK'
  <2>1. active' \subseteq Vols \X Hosts /\ session' \subseteq Vols \X Nodes
    BY DEF IInv, TypeOK
  <2> QED BY <1>1, <1>2, <1>3, <2>1, NodeTypes, FaultsCounted DEF IInv, TypeOK, MountKinds
<1>5. Touches(n, v)
  BY <1>3 DEF Touches
<1>6. Leaves(n, v)
  <2>1. \/ hn'[n].pc = "idle"
        \/ hn'[n].pc = "logout" /\ Datapath = "iscsi"
        \/ hn'[n].pc = "deactivate" /\ Datapath # "iscsi"
    BY DEF Moves, Reports, Quits, Idle, IInv, TypeOK
  <2>2. co'[v].st # "published"
    BY <1>1 DEF Moves, Reports, Quits, IInv, TypeOK
  <2> QED BY <2>1, <2>2 DEF Leaves
<1> QED BY <1>1, <1>2, <1>4, <1>5, <1>6, NodeKeeps

\* A record with two fields changed.
LEMMA TwoFields ==
  ASSUME NEW r, r = [pc |-> r.pc, vol |-> r.vol, err |-> r.err], NEW b
  PROVE  [r EXCEPT !.pc = "logout", !.err = b] = [pc |-> "logout", vol |-> r.vol, err |-> b]
<1>1. [r EXCEPT !.pc = "logout"] = [pc |-> "logout", vol |-> r.vol, err |-> r.err]
  OBVIOUS
<1>2. [[pc |-> "logout", vol |-> r.vol, err |-> r.err] EXCEPT !.err = b]
        = [pc |-> "logout", vol |-> r.vol, err |-> b]
  OBVIOUS
<1>3. [r EXCEPT !.pc = "logout", !.err = b] = [[r EXCEPT !.pc = "logout"] EXCEPT !.err = b]
  OBVIOUS
<1> QED BY <1>1, <1>2, <1>3, Zenon

\* What a failed unmount leads to.
LEMMA UmountErrOutcome ==
  ASSUME IInv, NEW n \in Nodes, UNCHANGED hc, UmountErr(n)
  PROVE  \/ Datapath = "iscsi" /\ Moves(n, "logout", TRUE)
         \/ Datapath # "iscsi" /\ Quits(n)
<1>1. [hn[n] EXCEPT !.pc = "logout", !.err = TRUE]
        = [pc |-> "logout", vol |-> hn[n].vol, err |-> TRUE]
  <2>1. hn[n] = [pc |-> hn[n].pc, vol |-> hn[n].vol, err |-> hn[n].err]
    BY DEF IInv, TypeOK
  <2> QED BY <2>1, TwoFields, Zenon
<1>2. Datapath = "iscsi" =>
        hn' = [hn EXCEPT ![n] = [hn[n] EXCEPT !.pc = "logout", !.err = TRUE]]
  BY DEF UmountErr, IInv, TypeOK
<1> QED BY <1>1, <1>2 DEF UmountErr, Moves, Quits

LEMMA UmountIInv ==
  ASSUME IInv, NEW n \in Nodes, Umount(n) PROVE IInv'
<1>1. PICK v : v = hn[n].vol
  OBVIOUS
<1>2. hn[n].pc = "umount" /\ v \in Vols /\ hn[n].err \in BOOLEAN
  BY <1>1, OwnVolume DEF Umount
<1>3. UNCHANGED <<active, target, session, content, tagged, hc>>
  BY DEF Umount
<1>4. UmountOk(n) =>
        /\ \/ Reports(n, "unpublished") \/ Quits(n)
           \/ Datapath = "iscsi" /\ Moves(n, "logout", hn[n].err)
           \/ Datapath # "iscsi" /\ Moves(n, "deactivate", hn[n].err)
        /\ NoFault \/ \E kind : Fault(kind)
  BY <1>3, NodeOutcomes DEF UmountOk, NodeSucceed, IInv
<1>5. Unmounted(v, n) => \E x \in MountKinds :
                           mount' = [mount EXCEPT ![v][n] = x]
  BY DEF Unmounted, MountKinds
<1>6. /\ \/ Reports(n, "unpublished") \/ Quits(n)
         \/ Datapath = "iscsi" /\ \E err \in BOOLEAN : Moves(n, "logout", err)
         \/ Datapath # "iscsi" /\ \E err \in BOOLEAN : Moves(n, "deactivate", err)
      /\ NoFault \/ \E kind : Fault(kind)
  BY <1>2, <1>3, <1>4, UmountErrOutcome DEF Umount
<1>7. Remounts(v, n)
  BY <1>1, <1>5 DEF Umount, Remounts
<1> QED BY <1>1, <1>2, <1>3, <1>6, <1>7, UnpublishKeeps DEF Unpublishing

LEMMA LogoutIInv ==
  ASSUME IInv, NEW n \in Nodes, Logout(n) PROVE IInv'
<1>1. PICK v : v = hn[n].vol
  OBVIOUS
<1>2. hn[n].pc = "logout" /\ v \in Vols
  BY <1>1, OwnVolume DEF Logout
<1>3. /\ UNCHANGED <<active, target, content, tagged>>
      /\ session' = session \/ session' = session \ {<<v, n>>}
      /\ NoFault \/ \E kind : Fault(kind)
      /\ Quits(n) \/ Reports(n, "unpublished")
  BY <1>1, NodeOutcomes DEF Logout, NodeSucceed, Reports, Reaches, IInv
<1>4. Remounts(v, n)
  BY <1>1, <1>2 DEF Logout, Remounts, MountKinds, IInv, TypeOK
<1>5. hn[n].pc \in Unpublishing
  BY <1>2 DEF Unpublishing
<1> QED BY <1>1, <1>3, <1>4, <1>5, UnpublishKeeps

LEMMA NodeDeactivateIInv ==
  ASSUME IInv, NEW n \in Nodes, NodeDeactivate(n) PROVE IInv'
<1>1. PICK v : v = hn[n].vol
  OBVIOUS
<1>2. hn[n].pc = "deactivate" /\ Datapath # "iscsi"
  BY DEF NodeDeactivate, IInv, Modes
<1>3. /\ UNCHANGED <<target, session, mount, content, tagged>>
      /\ active' = active \/ active' = active \ {<<v, n>>}
      /\ NoFault \/ \E kind : Fault(kind)
      /\ Quits(n) \/ Reports(n, "unpublished")
  BY <1>1, NodeOutcomes DEF NodeDeactivate, NodeSucceed, Reports, Reaches, IInv
<1>4. Remounts(v, n) /\ hn[n].pc \in Unpublishing
  BY <1>2, <1>3 DEF Remounts, Unpublishing
<1> QED BY <1>1, <1>2, <1>3, <1>4, UnpublishKeeps

-----------------------------------------------------------------------------
(* The steps of the controller's handler *)

CtrlMoves(pc) == hc' = [pc |-> pc, vol |-> hc.vol, err |-> hc.err] /\ UNCHANGED co
CtrlReports(st) == hc' = Idle /\ co' = [co EXCEPT ![hc.vol].st = st]

CtrlOutcome ==
  \/ CtrlFail
  \/ hc.pc \in Attaching /\ \E pc \in Attaching : CtrlMoves(pc)
  \/ hc.pc \in Detaching /\ \E pc \in Detaching : CtrlMoves(pc)
  \/ hc.pc \in Attaching /\ CtrlReports("attached")
  \/ hc.pc \in Detaching /\ CtrlReports("free")

\* CtrlGoto and CtrlSucceed are these.
LEMMA CtrlOutcomes ==
  ASSUME TypeOK
  PROVE  /\ \A pc : CtrlGoto(pc) => CtrlMoves(pc)
         /\ \A st : CtrlSucceed(st) => /\ CtrlFail \/ CtrlReports(st)
                                       /\ NoFault \/ \E kind : Fault(kind)
         /\ \A st : hc' = Idle /\ Reaches(hc.vol, st) => CtrlReports(st)
<1>1. ASSUME NEW pc, CtrlGoto(pc) PROVE CtrlMoves(pc)
  BY <1>1 DEF TypeOK, CtrlGoto, CtrlMoves
<1> QED BY <1>1 DEF CtrlSucceed, CtrlReports, CtrlFail, Reaches

\* The controller's handler touches its own volume on its own host, and the target
\* for the node that the CO attaches it to.
LEMMA CtrlKeeps ==
  ASSUME IInv, hc.pc # "idle", CtrlOutcome, UNCHANGED <<session, mount, content, tagged, hn>>,
         NoFault \/ \E kind : Fault(kind),
         active' \subseteq Vols \X Hosts, target' \subseteq Vols \X Nodes,
         NEW v, v = hc.vol,
         \A u \in Vols \ {v}, m \in Hosts : <<u, m>> \in active' <=> <<u, m>> \in active,
         \A u \in Vols \ {v}, m \in Nodes : <<u, m>> \in target' <=> <<u, m>> \in target,
         Datapath # "iscsi" => target' = {},
         \A m \in Nodes : <<v, m>> \in target' => <<v, Controller>> \in active',
         hc'.pc \in {"activate", "stage"} => Datapath = "iscsi",
         Datapath = "iscsi" /\ (hc'.pc = "respond" \/ co'[v].st = "attached") =>
           <<v, co[v].node>> \in target'
  PROVE  IInv'
<1>1. v \in Vols /\ (co[v].st = "attaching" \/ co[v].st = "detaching")
  BY DEF IInv, TypeOK, Serving, Attaching, Detaching
<1>2. \A m \in Nodes : hn[m].pc # "idle" => hn[m].vol \in Vols /\ hn[m].vol # v
  <2>1. \A m \in Nodes : hn[m].pc # "idle" =>
           hn[m].pc \in Publishing \/ hn[m].pc \in Unpublishing
    BY DEF IInv, TypeOK, Publishing, Unpublishing
  <2> QED BY <1>1, <2>1 DEF IInv, Serving
<1>3. /\ \A u \in Vols \ {v} : co'[u] = co[u]
      /\ co'[v].node = co[v].node
      /\ \/ hc' = Idle /\ co'[v].st = co[v].st
         \/ /\ hc'.vol = v /\ co'[v].st = co[v].st
            /\ \/ hc.pc \in Attaching /\ hc'.pc \in Attaching
               \/ hc.pc \in Detaching /\ hc'.pc \in Detaching
         \/ hc' = Idle /\ hc.pc \in Attaching /\ co'[v].st = "attached"
         \/ hc' = Idle /\ hc.pc \in Detaching /\ co'[v].st = "free"
  <2>1. CASE CtrlFail
    BY <2>1 DEF CtrlFail
  <2>2. ASSUME NEW pc, CtrlMoves(pc) PROVE co' = co /\ hc'.vol = v /\ hc'.pc = pc
    BY <2>2 DEF CtrlMoves
  <2>3. ASSUME NEW st, CtrlReports(st)
        PROVE  /\ hc' = Idle /\ \A u \in Vols \ {v} : co'[u] = co[u]
               /\ co'[v].node = co[v].node /\ co'[v].st = st
    BY <1>1, <2>3 DEF CtrlReports, IInv, TypeOK
  <2> QED BY <2>1, <2>2, <2>3 DEF CtrlOutcome
<1>4. TypeOK'
  <2>1. faults' \in 0..MaxFaults
    BY FaultsCounted DEF IInv
  <2>2. co' \in [Vols -> [st : {"free", "attaching", "attached", "publishing",
                                "published", "unpublishing", "unpublished",
                                "detaching"}, node : Nodes \cup {None}]]
    BY <1>1 DEF CtrlOutcome, CtrlFail, CtrlMoves, CtrlReports, IInv, TypeOK
  <2>3. /\ hc' \in [pc : {"idle", "respond", "activate", "stage", "lookup", "unstage",
                         "deactivate"}, vol : Vols \cup {None}, err : {FALSE}]
        /\ hc'.pc = "idle" => hc' = Idle
    <3>1. hc' = Idle \/ \E pc \in Attaching \cup Detaching : CtrlMoves(pc)
      BY DEF CtrlOutcome, CtrlFail, CtrlReports
    <3>2. CASE hc' = Idle
      BY <3>2 DEF Idle
    <3>3. ASSUME NEW pc \in Attaching \cup Detaching, CtrlMoves(pc)
          PROVE  /\ hc' \in [pc : {"idle", "respond", "activate", "stage", "lookup",
                                  "unstage", "deactivate"}, vol : Vols \cup {None}, err : {FALSE}]
                 /\ hc'.pc # "idle"
      BY <1>1, <3>3 DEF CtrlMoves, IInv, TypeOK, Attaching, Detaching
    <3> QED BY <3>1, <3>2, <3>3
  <2> QED BY <2>1, <2>2, <2>3 DEF IInv, TypeOK
<1>5. Serving'
  <2>1. \A u \in Vols : co'[u].st # "free" => co'[u].node \in Nodes
    BY <1>1, <1>3 DEF IInv, Serving
  <2>2. /\ hc'.pc # "idle" => hc'.vol \in Vols
        /\ hc'.pc \in Attaching => co'[hc'.vol].st = "attaching"
        /\ hc'.pc \in Detaching => co'[hc'.vol].st = "detaching"
    BY <1>1, <1>3 DEF IInv, Serving, Idle, Attaching, Detaching
  <2>3. \A m \in Nodes :
          /\ hn'[m].pc # "idle" => hn'[m].vol \in Vols /\ co'[hn'[m].vol].node = m
          /\ hn'[m].pc \in Publishing => co'[hn'[m].vol].st = "publishing"
          /\ hn'[m].pc \in Unpublishing => co'[hn'[m].vol].st = "unpublishing"
    BY <1>2, <1>3 DEF IInv, Serving, Publishing, Unpublishing
  <2> QED BY <2>1, <2>2, <2>3 DEF Serving
<1>6. Modes'
  BY DEF IInv, Modes
<1>7. \A u \in Vols \ {v}, m \in Nodes : Device(u, m)' <=> Device(u, m)
  BY DEF Device, Hosts
<1>8. Backed'
  <2>1. \A u \in Vols, m \in Nodes : <<u, m>> \in target' => <<u, Controller>> \in active'
    BY DEF IInv, Backed, Hosts
  <2>2. Datapath = "iscsi" =>
          /\ hc'.pc = "respond" => <<hc'.vol, co'[hc'.vol].node>> \in target'
          /\ \A u \in Vols : co'[u].st \in {"attached", "publishing", "published"} =>
               <<u, co'[u].node>> \in target'
    BY <1>1, <1>3 DEF IInv, Backed, Serving, Idle
  <2>3. \A m \in Nodes : hn'[m].pc \in {"mount", "format", "syscall", "tag"} =>
          Device(hn[m].vol, m)'
    <3> SUFFICES ASSUME NEW m \in Nodes, hn[m].pc \in {"mount", "format", "syscall", "tag"},
                        NEW u, u = hn[m].vol
                 PROVE  Device(u, m)'
      BY DEF Device
    <3>1. Device(u, m) /\ u \in Vols \ {v}
      BY <1>2 DEF IInv, Backed
    <3> QED BY <1>7, <3>1
  <2>4. \A u \in Vols : co'[u].st = "published" => Device(u, co[u].node)'
    <3> SUFFICES ASSUME NEW u \in Vols, co'[u].st = "published", NEW m, m = co'[u].node
                 PROVE  Device(u, m)'
      BY DEF Device
    <3>1. u # v
      BY <1>1, <1>3
    <3>2. Device(u, m) /\ m \in Nodes
      BY <1>3, <3>1 DEF IInv, Backed, Serving
    <3> QED BY <1>7, <3>1, <3>2
  <2> QED BY <2>1, <2>2, <2>3, <2>4 DEF Backed
<1>9. Mounted'
  BY <1>1, <1>2, <1>3 DEF IInv, Mounted
<1> QED BY <1>4, <1>5, <1>6, <1>8, <1>9 DEF IInv

\* The steps of which only the CO and the handler itself learn.
LEMMA CtrlQuietIInv ==
  ASSUME IInv, CtrlRespond \/ CtrlLookup \/ CtrlCrash PROVE IInv'
<1>1. PICK v : v = hc.vol
  OBVIOUS
<1>2. /\ hc.pc # "idle" /\ v \in Vols
      /\ UNCHANGED <<active, target, session, mount, content, tagged, hn>>
  BY <1>1 DEF IInv, Serving, CtrlRespond, CtrlLookup, CtrlCrash, store
<1>3. /\ NoFault \/ \E kind : Fault(kind)
      /\ \/ CtrlFail
         \/ hc.pc = "respond" /\ CtrlReports("attached")
         \/ hc.pc = "lookup" /\ (CtrlMoves("unstage") \/ CtrlReports("free"))
  <2>1. CASE CtrlRespond
    BY <2>1, Zenon DEF CtrlRespond, CtrlSucceed, CtrlFail, CtrlReports, Reaches
  <2>2. CASE CtrlLookup
    <3>1. CtrlGoto("unstage") => CtrlMoves("unstage")
      BY CtrlOutcomes DEF IInv
    <3> QED BY <2>2, <3>1, Zenon DEF CtrlLookup, CtrlReports, Reaches
  <2>3. CASE CtrlCrash
    BY <2>3 DEF CtrlCrash, CtrlFail
  <2> QED BY <2>1, <2>2, <2>3
<1>4. CtrlOutcome
  BY <1>3 DEF CtrlOutcome, Attaching, Detaching
<1>5. hc'.pc = "idle" \/ hc'.pc = "unstage"
  BY <1>3 DEF CtrlFail, CtrlMoves, CtrlReports, Idle
<1>6. co'[v].st = "attached" => hc.pc = "respond"
  <2>1. co[v].st # "attached"
    BY <1>1, <1>2 DEF IInv, TypeOK, Serving, Attaching, Detaching
  <2>2. CtrlReports("free") => co'[v].st = "free"
    BY <1>1, <1>2 DEF IInv, TypeOK, CtrlReports
  <2> QED BY <1>3, <2>1, <2>2 DEF CtrlFail, CtrlMoves
<1>7. Datapath = "iscsi" /\ co'[v].st = "attached" => <<v, co[v].node>> \in target
  BY <1>1, <1>6 DEF IInv, Backed
<1>8. /\ active \subseteq Vols \X Hosts /\ target \subseteq Vols \X Nodes
      /\ Datapath # "iscsi" => target = {}
      /\ \A m \in Nodes : <<v, m>> \in target => <<v, Controller>> \in active
  BY <1>2 DEF IInv, TypeOK, Backed
<1> QED BY <1>1, <1>2, <1>3, <1>4, <1>5, <1>7, <1>8, CtrlKeeps

LEMMA CtrlActivateIInv ==
  ASSUME IInv, CtrlActivate PROVE IInv'
<1>1. PICK v : v = hc.vol
  OBVIOUS
<1>2. hc.pc = "activate" /\ Datapath = "iscsi" /\ v \in Vols /\ co[v].st = "attaching"
  BY <1>1 DEF CtrlActivate, IInv, Serving, Modes, Attaching
<1>3. /\ UNCHANGED <<target, session, mount, content, tagged, hn>>
      /\ active' = active \/ active' = active \cup {<<v, Controller>>}
      /\ NoFault \/ \E kind : Fault(kind)
      /\ CtrlFail \/ CtrlMoves("stage")
  BY <1>1, CtrlOutcomes DEF CtrlActivate, Attempt, store, IInv
<1>4. CtrlOutcome
  BY <1>2, <1>3 DEF CtrlOutcome, Attaching
<1>5. /\ active' \subseteq Vols \X Hosts /\ active \subseteq active'
      /\ \A u \in Vols \ {v}, m \in Hosts : <<u, m>> \in active' <=> <<u, m>> \in active
  BY <1>2, <1>3 DEF IInv, TypeOK, Hosts
<1>6. hc'.pc # "respond" /\ co'[v].st = "attaching"
  BY <1>2, <1>3 DEF CtrlFail, CtrlMoves, Idle
<1>7. /\ target' \subseteq Vols \X Nodes
      /\ \A m \in Nodes : <<v, m>> \in target' => <<v, Controller>> \in active'
  BY <1>2, <1>3, <1>5 DEF IInv, TypeOK, Backed
<1> QED BY <1>1, <1>2, <1>3, <1>4, <1>5, <1>6, <1>7, CtrlKeeps

LEMMA StageIscsiIInv ==
  ASSUME IInv, StageIscsi PROVE IInv'
<1>1. PICK v, n : v = hc.vol /\ n = co[hc.vol].node
  OBVIOUS
<1>2. /\ hc.pc = "stage" /\ Datapath = "iscsi" /\ v \in Vols /\ co[v].st = "attaching"
      /\ n = co[v].node /\ n \in Nodes
  BY <1>1 DEF StageIscsi, IInv, Serving, Modes, Attaching
<1>3. /\ UNCHANGED <<active, session, mount, content, tagged, hn>>
      /\ \/ target' = target
         \/ target' = target \cup {<<v, n>>} /\ <<v, Controller>> \in active
      /\ NoFault \/ \E kind : Fault(kind)
      /\ CtrlFail \/ (CtrlMoves("respond") /\ target' = target \cup {<<v, n>>})
  BY <1>1, CtrlOutcomes DEF StageIscsi, Attempt, store, IInv
<1>4. CtrlOutcome
  BY <1>2, <1>3 DEF CtrlOutcome, Attaching
<1>5. /\ target' \subseteq Vols \X Nodes
      /\ \A u \in Vols \ {v}, m \in Nodes : <<u, m>> \in target' <=> <<u, m>> \in target
      /\ \A m \in Nodes : <<v, m>> \in target' => <<v, Controller>> \in active'
  BY <1>2, <1>3 DEF IInv, TypeOK, Backed
<1>6. /\ hc'.pc = "idle" \/ (hc'.pc = "respond" /\ <<v, co[v].node>> \in target')
      /\ co'[v].st = "attaching"
  BY <1>2, <1>3 DEF CtrlFail, CtrlMoves, Idle
<1>7. active' \subseteq Vols \X Hosts
  BY <1>3 DEF IInv, TypeOK
<1> QED BY <1>1, <1>2, <1>3, <1>4, <1>5, <1>6, <1>7, CtrlKeeps

LEMMA UnStageIInv ==
  ASSUME IInv, UnStage PROVE IInv'
<1>1. PICK v, n : v = hc.vol /\ n = co[hc.vol].node
  OBVIOUS
<1>2. hc.pc = "unstage" /\ v \in Vols /\ co[v].st = "detaching"
  BY <1>1 DEF UnStage, IInv, Serving, Detaching
<1>3. /\ UNCHANGED <<active, session, mount, content, tagged, hn>>
      /\ target' = target \/ target' = target \ {<<v, n>>}
      /\ NoFault \/ \E kind : Fault(kind)
      /\ CtrlMoves("deactivate")
  BY <1>1, CtrlOutcomes DEF UnStage, IInv
<1>4. CtrlOutcome
  BY <1>2, <1>3 DEF CtrlOutcome, Detaching
<1>5. /\ target' \subseteq Vols \X Nodes
      /\ \A u \in Vols \ {v}, m \in Nodes : <<u, m>> \in target' <=> <<u, m>> \in target
      /\ \A m \in Nodes : <<v, m>> \in target' => <<v, Controller>> \in active'
      /\ Datapath # "iscsi" => target' = {}
  BY <1>2, <1>3 DEF IInv, TypeOK, Backed
<1>6. hc'.pc = "deactivate" /\ co'[v].st = "detaching"
  BY <1>2, <1>3 DEF CtrlMoves
<1>7. active' \subseteq Vols \X Hosts
  BY <1>3 DEF IInv, TypeOK
<1> QED BY <1>1, <1>2, <1>3, <1>4, <1>5, <1>6, <1>7, CtrlKeeps

LEMMA CtrlDeactivateIInv ==
  ASSUME IInv, CtrlDeactivate PROVE IInv'
<1>1. PICK v : v = hc.vol
  OBVIOUS
<1>2. hc.pc = "deactivate" /\ v \in Vols /\ co[v].st = "detaching"
  BY <1>1 DEF CtrlDeactivate, IInv, Serving, Detaching
<1>3. /\ UNCHANGED <<target, session, mount, content, tagged, hn>>
      /\ active' = active \/ (~InUse(v, Controller) /\ active' = active \ {<<v, Controller>>})
      /\ NoFault \/ \E kind : Fault(kind)
      /\ CtrlFail \/ CtrlReports("free")
  <2>1. NoFault \/ \E kind : Fault(kind)
    BY CtrlOutcomes DEF CtrlDeactivate, IInv
  <2>2. CtrlFail \/ CtrlReports("free")
    BY Zenon DEF CtrlDeactivate, CtrlSucceed, CtrlFail, CtrlReports, Reaches
  <2>3. active' = active \/ (~InUse(v, Controller) /\ active' = active \ {<<v, Controller>>})
    BY <1>1 DEF CtrlDeactivate
  <2> QED BY <2>1, <2>2, <2>3 DEF CtrlDeactivate
<1>4. CtrlOutcome
  BY <1>2, <1>3 DEF CtrlOutcome, Detaching
<1>5. /\ active' \subseteq Vols \X Hosts
      /\ \A u \in Vols \ {v}, m \in Hosts : <<u, m>> \in active' <=> <<u, m>> \in active
  BY <1>2, <1>3 DEF IInv, TypeOK
<1>6. \A m \in Nodes : <<v, m>> \in target' => <<v, Controller>> \in active'
  BY <1>2, <1>3 DEF IInv, Backed, InUse
<1>7. hc'.pc = "idle" /\ co'[v].st # "attached"
  BY <1>1, <1>2, <1>3 DEF CtrlFail, CtrlReports, Idle, IInv, TypeOK
<1>8. target' \subseteq Vols \X Nodes /\ (Datapath # "iscsi" => target' = {})
  BY <1>3 DEF IInv, TypeOK, Backed
<1> QED BY <1>1, <1>2, <1>3, <1>4, <1>5, <1>6, <1>7, <1>8, CtrlKeeps

-----------------------------------------------------------------------------
(* The CO's calls, and the pod *)

LEMMA ControllerPublishIInv ==
  ASSUME IInv, NEW v \in Vols, NEW n \in Nodes, ControllerPublish(v, n) PROVE IInv'
<1>1. /\ hc.pc = "idle" /\ co[v].st \in {"free", "attaching"}
      /\ UNCHANGED <<active, target, session, mount, content, tagged, hn, faults>>
      /\ hc' = [pc |-> IF Datapath = "iscsi" THEN "activate" ELSE "respond",
                vol |-> v, err |-> FALSE]
      /\ co' = [co EXCEPT ![v] = [st |-> "attaching", node |-> n]]
  BY DEF ControllerPublish, store, Idle
<1>2. \A u \in Vols : co'[u] = IF u = v THEN [st |-> "attaching", node |-> n] ELSE co[u]
  BY <1>1 DEF IInv, TypeOK
<1>3. \A m \in Nodes : hn[m].pc # "idle" => hn[m].vol \in Vols /\ hn[m].vol # v
  <2>1. \A m \in Nodes : hn[m].pc # "idle" =>
           hn[m].pc \in Publishing \/ hn[m].pc \in Unpublishing
    BY DEF IInv, TypeOK, Publishing, Unpublishing
  <2> QED BY <1>1, <2>1 DEF IInv, Serving
<1>4. TypeOK'
  BY <1>1 DEF IInv, TypeOK, Idle
<1>5. Serving'
  BY <1>1, <1>2, <1>3 DEF IInv, Serving, Attaching, Detaching, Publishing, Unpublishing
<1>6. Modes'
  BY <1>1 DEF IInv, Modes
<1>7. Backed'
  BY <1>1, <1>2, <1>3 DEF IInv, Backed, Device
<1>8. Mounted'
  BY <1>1, <1>2, <1>3 DEF IInv, Mounted
<1> QED BY <1>4, <1>5, <1>6, <1>7, <1>8 DEF IInv

LEMMA ControllerUnpublishIInv ==
  ASSUME IInv, NEW v \in Vols, ControllerUnpublish(v) PROVE IInv'
<1>1. /\ hc.pc = "idle" /\ co[v].st \in {"attaching", "attached", "unpublished", "detaching"}
      /\ UNCHANGED <<active, target, session, mount, content, tagged, hn, faults>>
      /\ hc' = [pc |-> "lookup", vol |-> v, err |-> FALSE]
      /\ co' = [co EXCEPT ![v].st = "detaching"]
  BY DEF ControllerUnpublish, store, Idle, Reaches
<1>2. /\ co'[v].st = "detaching" /\ co'[v].node = co[v].node
      /\ \A u \in Vols : u # v => co'[u] = co[u]
  BY <1>1 DEF IInv, TypeOK
<1>3. \A m \in Nodes : hn[m].pc # "idle" => hn[m].vol \in Vols /\ hn[m].vol # v
  <2>1. \A m \in Nodes : hn[m].pc # "idle" =>
           hn[m].pc \in Publishing \/ hn[m].pc \in Unpublishing
    BY DEF IInv, TypeOK, Publishing, Unpublishing
  <2> QED BY <1>1, <2>1 DEF IInv, Serving
<1>4. TypeOK'
  BY <1>1 DEF IInv, TypeOK, Idle
<1>5. Serving'
  BY <1>1, <1>2, <1>3 DEF IInv, Serving, Attaching, Detaching, Publishing, Unpublishing
<1>6. Modes'
  BY <1>1 DEF IInv, Modes
<1>7. Backed'
  BY <1>1, <1>2, <1>3 DEF IInv, Backed, Device
<1>8. Mounted'
  BY <1>1, <1>2, <1>3 DEF IInv, Mounted
<1> QED BY <1>4, <1>5, <1>6, <1>7, <1>8 DEF IInv

\* A node's handler starts.
LEMMA NodeStarts ==
  ASSUME IInv, NEW v \in Vols, NEW n \in Nodes, hn[n].pc = "idle", co[v].node = n,
         NEW st, NEW pc, co' = [co EXCEPT ![v].st = st],
         hn' = [hn EXCEPT ![n] = [pc |-> pc, vol |-> v, err |-> Idle.err]],
         UNCHANGED <<active, target, session, mount, content, tagged, hc, faults>>,
         \/ /\ co[v].st \in {"attached", "publishing"} /\ st = "publishing"
            /\ \/ pc = "activate" /\ Datapath = "direct"
               \/ pc = "login" /\ Datapath = "iscsi"
               \/ pc = "mount" /\ Datapath = "sas"
         \/ /\ co[v].st \in {"publishing", "published", "unpublishing"}
            /\ st = "unpublishing" /\ pc = "inspect"
  PROVE  IInv'
<1>1. /\ co'[v].st = st /\ co'[v].node = n
      /\ \A u \in Vols : u # v => co'[u] = co[u]
      /\ hn'[n] = [pc |-> pc, vol |-> v, err |-> Idle.err]
      /\ \A m \in Nodes : m # n => hn'[m] = hn[m]
  BY DEF IInv, TypeOK
<1>2. \A m \in Nodes : hn[m].pc # "idle" => m # n /\ hn[m].vol \in Vols /\ hn[m].vol # v
  BY DEF IInv, Serving
<1>3. hc.pc # "idle" => hc.vol \in Vols /\ hc.vol # v
  BY DEF IInv, TypeOK, Serving, Attaching, Detaching
<1>4. TypeOK'
  <2>1. co' \in [Vols -> [st : {"free", "attaching", "attached", "publishing",
                                "published", "unpublishing", "unpublished",
                                "detaching"}, node : Nodes \cup {None}]]
    BY DEF IInv, TypeOK
  <2>2. [pc |-> pc, vol |-> v, err |-> Idle.err] \in
          [pc : {"activate", "login", "mount", "inspect"}, vol : Vols, err : BOOLEAN]
    BY DEF Idle
  <2>3. /\ hn' \in [Nodes -> [pc : {"idle", "activate", "login", "mount", "format", "syscall",
                             "tag", "inspect", "umount", "logout", "deactivate"},
                       vol : Vols \cup {None}, err : BOOLEAN]]
        /\ \A m \in Nodes : hn'[m].pc = "idle" => hn'[m] = Idle
    BY <2>2 DEF IInv, TypeOK
  <2> QED BY <2>1, <2>3 DEF IInv, TypeOK
<1>5. Serving'
  BY <1>1, <1>2, <1>3 DEF IInv, Serving, Attaching, Detaching, Publishing, Unpublishing
<1>6. Modes'
  BY <1>1 DEF IInv, Modes
<1>7. Backed'
  BY <1>1, <1>2, <1>3 DEF IInv, Backed, Device
<1>8. Mounted'
  BY <1>1, <1>2, <1>3 DEF IInv, Mounted
<1> QED BY <1>4, <1>5, <1>6, <1>7, <1>8 DEF IInv

\* The handler of a new call.
LEMMA NewHandler ==
  ASSUME NEW pc, NEW v
  PROVE  [Idle EXCEPT !.pc = pc, !.vol = v] = [pc |-> pc, vol |-> v, err |-> Idle.err]
<1>1. Idle = [pc |-> Idle.pc, vol |-> Idle.vol, err |-> Idle.err]
  BY DEF Idle
<1>2. [Idle EXCEPT !.pc = pc] = [pc |-> pc, vol |-> Idle.vol, err |-> Idle.err]
  BY <1>1
<1>3. [[pc |-> pc, vol |-> Idle.vol, err |-> Idle.err] EXCEPT !.vol = v]
        = [pc |-> pc, vol |-> v, err |-> Idle.err]
  OBVIOUS
<1>4. [Idle EXCEPT !.pc = pc, !.vol = v] = [[Idle EXCEPT !.pc = pc] EXCEPT !.vol = v]
  OBVIOUS
<1> QED BY <1>2, <1>3, <1>4, Zenon

LEMMA NodeCallIInv ==
  ASSUME IInv, NEW v \in Vols, NEW n \in Nodes, NodePublish(v, n) \/ NodeUnpublish(v, n)
  PROVE  IInv'
<1>1. CASE NodePublish(v, n)
  <2>1. PICK pc : pc = CASE Datapath = "direct" -> "activate"
                         [] Datapath = "iscsi" -> "login"
                         [] Datapath = "sas" -> "mount"
    OBVIOUS
  <2>2. hn' = [hn EXCEPT ![n] = [pc |-> pc, vol |-> v, err |-> Idle.err]]
    <3>1. hn' = [hn EXCEPT ![n] = [Idle EXCEPT !.pc = pc, !.vol = v]]
      BY <1>1, <2>1, Zenon DEF NodePublish
    <3> QED BY <3>1, NewHandler, Zenon
  <2>3. \/ pc = "activate" /\ Datapath = "direct"
        \/ pc = "login" /\ Datapath = "iscsi"
        \/ pc = "mount" /\ Datapath = "sas"
    BY <2>1, AttachmentAssumption
  <2> QED BY <1>1, <2>2, <2>3, NodeStarts DEF NodePublish, Reaches, store
<1>2. CASE NodeUnpublish(v, n)
  <2>1. hn' = [hn EXCEPT ![n] = [pc |-> "inspect", vol |-> v, err |-> Idle.err]]
    <3>1. hn' = [hn EXCEPT ![n] = [Idle EXCEPT !.pc = "inspect", !.vol = v]]
      BY <1>2, Zenon DEF NodeUnpublish
    <3> QED BY <3>1, NewHandler, Zenon
  <2>2. /\ hn[n].pc = "idle" /\ co[v].node = n
        /\ co[v].st \in {"publishing", "published", "unpublishing"}
        /\ co' = [co EXCEPT ![v].st = "unpublishing"]
        /\ UNCHANGED <<active, target, session, mount, content, tagged, hc, faults>>
    BY <1>2 DEF NodeUnpublish, Reaches, store
  <2>3. PICK st, pc : st = "unpublishing" /\ pc = "inspect"
    OBVIOUS
  <2>4. /\ hn' = [hn EXCEPT ![n] = [pc |-> pc, vol |-> v, err |-> Idle.err]]
        /\ co' = [co EXCEPT ![v].st = st]
    BY <2>1, <2>2, <2>3
  <2> QED BY <2>2, <2>3, <2>4, NodeStarts
<1> QED BY <1>1, <1>2

LEMMA WriteIInv ==
  ASSUME IInv, NEW v \in Vols, Write(v) PROVE IInv'
<1>1. /\ co[v].st = "published" /\ content' = [content EXCEPT ![v] = "data"]
      /\ UNCHANGED <<active, target, session, mount, tagged, hc, hn, co, faults>>
  BY DEF Write
<1>2. TypeOK'
  BY <1>1 DEF IInv, TypeOK
<1>3. Serving' /\ Modes' /\ Backed'
  BY <1>1 DEF IInv, Serving, Modes, Backed, Device
<1>4. Mounted'
  <2>1. \A n \in Nodes : hn[n].pc = "format" => hn[n].vol \in Vols /\ hn[n].vol # v
    BY <1>1 DEF IInv, Serving, Publishing
  <2> QED BY <1>1, <2>1 DEF IInv, TypeOK, Mounted
<1> QED BY <1>2, <1>3, <1>4 DEF IInv

-----------------------------------------------------------------------------
(* The invariant, and what follows from it *)

LEMMA InitIInv == Init => IInv
<1> SUFFICES ASSUME Init PROVE IInv
  OBVIOUS
<1>1. TypeOK
  <2>1. Idle \in [pc : {"idle"}, vol : {None}, err : {FALSE}] /\ Idle.pc = "idle"
    BY DEF Idle
  <2>2. /\ hc \in [pc : {"idle", "respond", "activate", "stage", "lookup", "unstage",
                         "deactivate"}, vol : Vols \cup {None}, err : {FALSE}]
        /\ hn \in [Nodes -> [pc : {"idle", "activate", "login", "mount", "format",
                                   "syscall", "tag", "inspect", "umount", "logout",
                                   "deactivate"},
                             vol : Vols \cup {None}, err : BOOLEAN]]
        /\ \A n \in Nodes : hn[n] = Idle
    BY <2>1 DEF Init
  <2>3. /\ mount \in [Vols -> [Nodes -> {"none", "live", "dead", "twice"}]]
        /\ content \in [Vols -> {"blank", "fs", "data"}]
    BY DEF Init
  <2>4. co \in [Vols -> [st : {"free", "attaching", "attached", "publishing", "published",
                               "unpublishing", "unpublished", "detaching"},
                         node : Nodes \cup {None}]]
    BY DEF Init
  <2>5. faults \in 0..MaxFaults
    BY AttachmentAssumption DEF Init
  <2>6. hc.pc = "idle" => hc = Idle
    BY DEF Init
  <2>7. active \subseteq Vols \X Hosts /\ target \subseteq Vols \X Nodes
        /\ session \subseteq Vols \X Nodes /\ tagged \subseteq Vols
    BY DEF Init
  <2> QED BY <2>2, <2>3, <2>4, <2>5, <2>6, <2>7 DEF TypeOK
<1>2. /\ hc.pc = "idle" /\ \A n \in Nodes : hn[n].pc = "idle"
      /\ \A v \in Vols : co[v].st = "free"
  BY DEF Init, Idle
<1>3. Serving /\ Modes
  BY <1>2 DEF Serving, Modes, Attaching, Detaching, Publishing, Unpublishing
<1>4. Backed /\ Mounted
  BY <1>2 DEF Init, Backed, Mounted
<1> QED BY <1>1, <1>3, <1>4 DEF IInv

LEMMA NodeStepIInv ==
  ASSUME IInv, NEW n \in Nodes, NodeStep(n) \/ NodeCrash(n) PROVE IInv'
BY NodeActivateIInv, LoginIInv, ProxyMountIInv, ProbeIInv, FormatIInv, MountSyscallIInv,
   TagIInv, InspectIInv, UmountIInv, LogoutIInv, NodeDeactivateIInv DEF NodeStep

LEMMA CtrlStepIInv ==
  ASSUME IInv, CtrlStep \/ CtrlCrash PROVE IInv'
BY CtrlQuietIInv, CtrlActivateIInv, StageIscsiIInv, UnStageIInv, CtrlDeactivateIInv
   DEF CtrlStep

LEMMA NextIInv == IInv /\ [Next]_vars => IInv'
<1> SUFFICES ASSUME IInv, [Next]_vars PROVE IInv'
  OBVIOUS
<1>1. CASE CtrlStep \/ CtrlCrash
  BY <1>1, CtrlStepIInv
<1>2. ASSUME NEW n \in Nodes, NodeStep(n) \/ NodeCrash(n) PROVE IInv'
  BY <1>2, NodeStepIInv
<1>3. ASSUME NEW v \in Vols, NEW n \in Nodes,
             ControllerPublish(v, n) \/ NodePublish(v, n) \/ NodeUnpublish(v, n)
      PROVE  IInv'
  BY <1>3, ControllerPublishIInv, NodeCallIInv
<1>4. ASSUME NEW v \in Vols, ControllerUnpublish(v) \/ Write(v) PROVE IInv'
  BY <1>4, ControllerUnpublishIInv, WriteIInv
<1>5. CASE UNCHANGED vars
  <2>1. TypeOK'
    BY <1>5 DEF vars, IInv, TypeOK
  <2> QED BY <1>5, <2>1 DEF vars, IInv, Serving, Modes, Backed, Device, Mounted
<1> QED BY <1>1, <1>2, <1>3, <1>4, <1>5 DEF Next

LEMMA Invariance == Spec => []IInv
BY InitIInv, NextIInv, PTL DEF Spec

\* Every variable has its type in every reachable state, and nothing of a handler
\* outlives it.
THEOREM TypeCorrect == Spec => []TypeOK
<1>1. IInv => TypeOK
  BY DEF IInv
<1> QED BY <1>1, Invariance, PTL

\* A volume that the CO was told is published is mounted where it was published,
\* on a device that is still there, whatever failed on the way (NodePublishVolume,
\* ControllerPublishVolume).
THEOREM PublishedUsable == Spec => []PublishedIsUsable
<1>1. IInv => PublishedIsUsable
  <2> SUFFICES ASSUME IInv, NEW v \in Vols, co[v].st = "published", NEW n, n = co[v].node
               PROVE  /\ mount[v][n] \in {"live", "twice"}
                      /\ Datapath = "direct" => <<v, n>> \in active
                      /\ Datapath = "iscsi" => /\ <<v, n>> \in session
                                               /\ <<v, n>> \in target
                                               /\ <<v, Controller>> \in active
    BY DEF PublishedIsUsable
  <2>1. n \in Nodes
    BY DEF IInv, Serving
  <2>2. mount[v][n] \in {"live", "twice"}
    BY DEF IInv, Mounted, Live
  <2>3. /\ Datapath = "direct" => <<v, n>> \in active
        /\ Datapath = "iscsi" => <<v, n>> \in session
    BY DEF IInv, Backed, Device
  <2>4. Datapath = "iscsi" => <<v, n>> \in target /\ <<v, Controller>> \in active
    BY <2>1 DEF IInv, Backed
  <2> QED BY <2>2, <2>3, <2>4
<1> QED BY <1>1, Invariance, PTL

\* The steps that change what is on a volume: the first mount by StoLake, mkfs,
\* and the pod's writes.
LEMMA ContentSteps ==
  ASSUME IInv, [Next]_vars
  PROVE  \/ content' = content
         \/ \E u \in Vols : \E x : /\ content' = [content EXCEPT ![u] = x]
                                   /\ content[u] # "data" \/ x = "data"
<1>1. CASE CtrlStep \/ CtrlCrash
  BY <1>1 DEF CtrlStep, CtrlCrash, CtrlRespond, CtrlActivate, StageIscsi, CtrlLookup,
     UnStage, CtrlDeactivate, Attempt, store
<1>2. ASSUME NEW n \in Nodes, NodeStep(n)
      PROVE  \/ content' = content
             \/ \E u \in Vols : \E x : /\ content' = [content EXCEPT ![u] = x]
                                       /\ content[u] # "data" \/ x = "data"
  <2>1. CASE Format(n)
    <3>1. hn[n].vol \in Vols /\ content[hn[n].vol] # "data"
      BY <2>1, OwnVolume DEF Format, IInv, Mounted
    <3> QED BY <2>1, <3>1 DEF Format, Attempt, store
  <2>2. CASE ProxyMount(n)
    <3>1. PICK v : v = hn[n].vol
      OBVIOUS
    <3>2. v \in Vols
      BY <2>2, <3>1, OwnVolume DEF ProxyMount
    <3>3. PICK x : x = IF content[v] = "blank" /\ ~Block THEN "fs" ELSE content[v]
      OBVIOUS
    <3>4. content' = content \/ content' = [content EXCEPT ![v] = x]
      BY <2>2, <3>1, <3>3 DEF ProxyMount
    <3>5. content[v] # "data" \/ x = "data"
      BY <3>3
    <3> QED BY <3>2, <3>4, <3>5
  <2>3. CASE ~Format(n) /\ ~ProxyMount(n)
    BY <1>2, <2>3 DEF NodeStep, NodeActivate, Login, Probe, MountSyscall, Tag, Inspect,
       Umount, Logout, NodeDeactivate, Attempt, store
  <2> QED BY <2>1, <2>2, <2>3
<1>3. CASE \E n \in Nodes : NodeCrash(n)
  BY <1>3 DEF NodeCrash, store
<1>4. ASSUME NEW v \in Vols, NEW n \in Nodes,
             ControllerPublish(v, n) \/ NodePublish(v, n) \/ NodeUnpublish(v, n)
      PROVE  content' = content
  BY <1>4 DEF ControllerPublish, NodePublish, NodeUnpublish, store
<1>5. ASSUME NEW v \in Vols, ControllerUnpublish(v) PROVE content' = content
  BY <1>5 DEF ControllerUnpublish, store
<1>6. ASSUME NEW v \in Vols, Write(v)
      PROVE  \E u \in Vols : \E x : /\ content' = [content EXCEPT ![u] = x]
                                    /\ content[u] # "data" \/ x = "data"
  BY <1>6 DEF Write
<1>7. CASE UNCHANGED vars
  BY <1>7 DEF vars
<1> QED BY <1>1, <1>2, <1>3, <1>4, <1>5, <1>6, <1>7 DEF Next

\* What a pod wrote is never formatted away: mkfs runs on a volume that was blank
\* when it was probed, and that no other handler has been at since.
THEOREM DataIsKept == Spec => DataKept
<1>1. IInv /\ [Next]_vars => [\A v \in Vols : content[v] = "data" => content'[v] = "data"]_vars
  <2> SUFFICES ASSUME IInv, [Next]_vars, NEW v \in Vols, content[v] = "data"
               PROVE  content'[v] = "data"
    OBVIOUS
  <2>1. content' = content \/ \E u \in Vols : \E x : /\ content' = [content EXCEPT ![u] = x]
                                                     /\ content[u] # "data" \/ x = "data"
    BY ContentSteps
  <2> QED BY <2>1 DEF IInv, TypeOK
<1> QED BY <1>1, Invariance, PTL DEF Spec, DataKept

-----------------------------------------------------------------------------
(* How mounts come and go *)

\* A step of node n's handler leaves all else alone.
Frame(n, v) ==
  /\ \A m \in Nodes \ {n} : hn'[m] = hn[m]
  /\ \A u \in Vols \ {v} : co'[u] = co[u]
  /\ co'[v].node = co[v].node
  /\ \A u \in Vols, m \in Nodes : u # v \/ m # n => mount'[u][m] = mount[u][m]

\* What it does to the mount of v, with its own next step and what it reports.
SameMount(n, v, pc, st) ==
  mount'[v][n] = mount[v][n] /\ hn'[n].pc = pc /\ co'[v].st = st
Shape(n, v) ==
  \/ \E pc \in {"idle", "mount", "tag", "umount"} : SameMount(n, v, pc, co[v].st)
  \/ /\ hn[n].pc = "mount" /\ ~Proxy /\ ~Visible(v, n)
     /\ \E pc \in {"format", "syscall"} : SameMount(n, v, pc, co[v].st)
  \/ hn[n].pc = "format" /\ SameMount(n, v, "syscall", co[v].st)
  \/ hn[n].pc = "tag" /\ SameMount(n, v, "idle", "published")
  \/ hn[n].pc = "inspect" /\ ~Visible(v, n) /\ SameMount(n, v, "idle", "unpublished")
  \/ hn[n].pc = "deactivate" /\ SameMount(n, v, "idle", "unpublished")
  \/ /\ hn[n].pc = "mount" /\ Proxy /\ mount'[v][n] = "live"
     /\ hn'[n].pc = "idle" /\ co'[v].st \in {co[v].st, "published"}
  \/ /\ hn[n].pc = "syscall" /\ mount'[v][n] = IF mount[v][n] = "none" THEN "live" ELSE "twice"
     /\ hn'[n].pc \in {"idle", "tag"} /\ co'[v].st = co[v].st
  \/ /\ hn[n].pc = "umount" /\ mount'[v][n] = IF mount[v][n] = "twice" THEN "live" ELSE "none"
     /\ \/ hn'[n].pc \in {"idle", "logout", "deactivate"} /\ co'[v].st = co[v].st
        \/ hn'[n].pc = "idle" /\ co'[v].st = "unpublished"
  \/ /\ hn[n].pc = "umount" /\ Datapath = "iscsi" /\ "umount" \in Faults
     /\ SameMount(n, v, "logout", co[v].st) /\ hn'[n].err
  \/ /\ hn[n].pc = "logout" /\ hn'[n].pc = "idle"
     /\ \/ mount'[v][n] = mount[v][n]
        \/ mount'[v][n] = IF mount[v][n] = "none" THEN "none" ELSE "dead"
     /\ co'[v].st = co[v].st \/ (~hn[n].err /\ co'[v].st = "unpublished")

\* What each outcome of a handler's step means.
LEMMA OutcomeEffects ==
  ASSUME IInv, NEW n \in Nodes, NEW v \in Vols, v = hn[n].vol
  PROVE  /\ \A pc, err : Moves(n, pc, err) =>
              /\ hn'[n].pc = pc /\ hn'[n].err = err /\ co' = co
              /\ \A m \in Nodes \ {n} : hn'[m] = hn[m]
         /\ Quits(n) => /\ hn'[n].pc = "idle" /\ co' = co
                        /\ \A m \in Nodes \ {n} : hn'[m] = hn[m]
         /\ \A st : Reports(n, st) =>
              /\ hn'[n].pc = "idle" /\ co'[v].st = st /\ co'[v].node = co[v].node
              /\ \A m \in Nodes \ {n} : hn'[m] = hn[m]
              /\ \A u \in Vols \ {v} : co'[u] = co[u]
<1>1. ASSUME NEW pc, NEW err, Moves(n, pc, err)
      PROVE  /\ hn'[n].pc = pc /\ hn'[n].err = err /\ co' = co
             /\ \A m \in Nodes \ {n} : hn'[m] = hn[m]
  BY <1>1 DEF Moves, IInv, TypeOK
<1>2. Quits(n) => /\ hn'[n].pc = "idle" /\ co' = co
                  /\ \A m \in Nodes \ {n} : hn'[m] = hn[m]
  BY DEF Quits, Idle, IInv, TypeOK
<1>3. ASSUME NEW st, Reports(n, st)
      PROVE  /\ hn'[n].pc = "idle" /\ co'[v].st = st /\ co'[v].node = co[v].node
             /\ \A m \in Nodes \ {n} : hn'[m] = hn[m]
             /\ \A u \in Vols \ {v} : co'[u] = co[u]
  BY <1>3 DEF Reports, Idle, IInv, TypeOK
<1> QED BY <1>1, <1>2, <1>3

LEMMA QuietShape ==
  ASSUME IInv, NEW n \in Nodes, NEW v \in Vols, v = hn[n].vol,
         \/ NodeActivate(n) \/ Login(n) \/ Probe(n) \/ Format(n) \/ Tag(n) \/ Inspect(n)
         \/ NodeDeactivate(n) \/ NodeCrash(n)
  PROVE  Frame(n, v) /\ Shape(n, v)
<1>1. mount' = mount /\ hc' = hc
  BY DEF NodeActivate, Login, Probe, Format, Tag, Inspect, NodeDeactivate, NodeCrash,
     Attempt, store
<1>2. \/ Quits(n)
      \/ \E pc \in {"mount", "tag", "umount"} : Moves(n, pc, hn[n].err)
      \/ /\ hn[n].pc = "mount" /\ ~Proxy /\ ~Visible(v, n)
         /\ \E pc \in {"format", "syscall"} : Moves(n, pc, hn[n].err)
      \/ hn[n].pc = "format" /\ Moves(n, "syscall", hn[n].err)
      \/ hn[n].pc = "tag" /\ Reports(n, "published")
      \/ hn[n].pc = "inspect" /\ ~Visible(v, n) /\ Reports(n, "unpublished")
      \/ hn[n].pc = "deactivate" /\ Reports(n, "unpublished")
  <2>1. CASE NodeActivate(n) \/ Login(n)
    BY <1>1, <2>1, NodeOutcomes DEF NodeActivate, Login, Attempt, IInv
  <2>2. CASE Probe(n)
    BY <1>1, <2>2, NodeOutcomes DEF Probe, IInv
  <2>3. CASE Format(n)
    BY <1>1, <2>3, NodeOutcomes DEF Format, Attempt, IInv
  <2>4. CASE Tag(n)
    BY <1>1, <2>4, NodeOutcomes DEF Tag, Reports, Reaches, IInv
  <2>5. CASE Inspect(n)
    BY <1>1, <2>5, NodeOutcomes DEF Inspect, IInv
  <2>6. CASE NodeDeactivate(n)
    BY <1>1, <2>6, NodeOutcomes DEF NodeDeactivate, Reports, Reaches, IInv
  <2>7. CASE NodeCrash(n)
    BY <1>1, <2>7 DEF NodeCrash, Quits
  <2> QED BY <2>1, <2>2, <2>3, <2>4, <2>5, <2>6, <2>7
<1>3. Frame(n, v)
  BY <1>1, <1>2, OutcomeEffects DEF Frame
<1>4. Shape(n, v)
  BY <1>1, <1>2, OutcomeEffects DEF Shape, SameMount
<1> QED BY <1>3, <1>4

LEMMA MountShape ==
  ASSUME IInv, NEW n \in Nodes, NEW v \in Vols, v = hn[n].vol,
         ProxyMount(n) \/ MountSyscall(n)
  PROVE  Frame(n, v) /\ Shape(n, v)
<1>1. CASE ProxyMount(n)
  <2>1. /\ hn[n].pc = "mount" /\ Proxy
        /\ \/ mount' = mount /\ Quits(n)
           \/ /\ mount' = [mount EXCEPT ![v][n] = "live"]
              /\ Quits(n) \/ Reports(n, "published")
    BY <1>1, NodeOutcomes DEF ProxyMount, IInv
  <2>2. /\ \A u \in Vols, m \in Nodes : u # v \/ m # n => mount'[u][m] = mount[u][m]
        /\ \/ mount' = mount /\ Quits(n)
           \/ mount'[v][n] = "live" /\ (Quits(n) \/ Reports(n, "published"))
    BY <2>1 DEF IInv, TypeOK
  <2>3. Frame(n, v)
    BY <2>2, OutcomeEffects DEF Frame
  <2>4. Shape(n, v)
    BY <2>1, <2>2, OutcomeEffects DEF Shape, SameMount
  <2> QED BY <2>3, <2>4
<1>2. CASE MountSyscall(n)
  <2>1. PICK x : x = IF mount[v][n] = "none" THEN "live" ELSE "twice"
    OBVIOUS
  <2>2. /\ hn[n].pc = "syscall"
        /\ \/ mount' = mount /\ Quits(n)
           \/ /\ mount' = [mount EXCEPT ![v][n] = x]
              /\ Quits(n) \/ Moves(n, "tag", hn[n].err)
    BY <1>2, <2>1, NodeOutcomes DEF MountSyscall, Attempt, store, IInv, TypeOK
  <2>3. /\ \A u \in Vols, m \in Nodes : u # v \/ m # n => mount'[u][m] = mount[u][m]
        /\ \/ mount' = mount /\ Quits(n)
           \/ mount'[v][n] = x /\ (Quits(n) \/ Moves(n, "tag", hn[n].err))
    BY <2>2 DEF IInv, TypeOK
  <2>4. Frame(n, v)
    BY <2>3, OutcomeEffects DEF Frame
  <2>5. Shape(n, v)
    BY <2>1, <2>2, <2>3, OutcomeEffects DEF Shape, SameMount
  <2> QED BY <2>4, <2>5
<1> QED BY <1>1, <1>2

LEMMA UmountShape ==
  ASSUME IInv, NEW n \in Nodes, NEW v \in Vols, v = hn[n].vol, Umount(n)
  PROVE  Frame(n, v) /\ Shape(n, v)
<1>1. hn[n].pc = "umount" /\ hc' = hc
  BY DEF Umount
<1>2. PICK x : x = IF mount[v][n] = "twice" THEN "live" ELSE "none"
  OBVIOUS
<1>3. Unmounted(v, n) => mount' = [mount EXCEPT ![v][n] = x]
  BY <1>2 DEF Unmounted, IInv, TypeOK
<1>4. UmountOk(n) => \/ \E pc \in {"logout", "deactivate"} : Moves(n, pc, hn[n].err)
                     \/ Quits(n) \/ Reports(n, "unpublished")
  BY <1>1, NodeOutcomes DEF UmountOk, IInv
<1>5. UmountErr(n) => \/ Datapath = "iscsi" /\ Moves(n, "logout", TRUE)
                      \/ Quits(n)
  BY <1>1, UmountErrOutcome
<1>6. \/ /\ mount' = [mount EXCEPT ![v][n] = x]
         /\ \/ \E pc \in {"logout", "deactivate"}, err \in BOOLEAN : Moves(n, pc, err)
            \/ Quits(n) \/ Reports(n, "unpublished")
      \/ mount' = mount /\ Quits(n)
      \/ mount' = mount /\ Datapath = "iscsi" /\ "umount" \in Faults /\ Moves(n, "logout", TRUE)
  <2>1. hn[n].err \in BOOLEAN
    BY DEF IInv, TypeOK
  <2>2. \/ Unmounted(v, n) /\ UmountOk(n)
        \/ Unmounted(v, n) /\ UmountErr(n)
        \/ "umount" \in Faults /\ mount' = mount /\ UmountErr(n)
    BY DEF Umount, Fault
  <2> QED BY <1>3, <1>4, <1>5, <2>1, <2>2
<1>7. mount' = [mount EXCEPT ![v][n] = x] =>
        /\ \A u \in Vols, m \in Nodes : u # v \/ m # n => mount'[u][m] = mount[u][m]
        /\ mount'[v][n] = x
  BY DEF IInv, TypeOK
<1>8. Frame(n, v)
  BY <1>6, <1>7, OutcomeEffects DEF Frame
<1>9. Shape(n, v)
  <2>1. CASE mount' = [mount EXCEPT ![v][n] = x]
    BY <1>1, <1>2, <1>6, <1>7, <2>1, OutcomeEffects DEF Shape, SameMount
  <2>2. CASE mount' = mount
    BY <1>1, <1>2, <1>6, <1>7, <2>2, OutcomeEffects DEF Shape, SameMount
  <2> QED BY <1>6, <2>1, <2>2
<1> QED BY <1>8, <1>9

LEMMA LogoutShape ==
  ASSUME IInv, NEW n \in Nodes, NEW v \in Vols, v = hn[n].vol, Logout(n)
  PROVE  Frame(n, v) /\ Shape(n, v)
<1>1. hn[n].pc = "logout" /\ hc' = hc
  BY DEF Logout
<1>2. PICK x : x = IF mount[v][n] = "none" THEN mount[v][n] ELSE "dead"
  OBVIOUS
<1>3. /\ mount' = mount \/ mount' = [mount EXCEPT ![v][n] = x]
      /\ Quits(n) \/ (~hn[n].err /\ Reports(n, "unpublished"))
  BY <1>1, <1>2, NodeOutcomes DEF Logout, Reports, Reaches, IInv, TypeOK
<1>4. mount' = [mount EXCEPT ![v][n] = x] =>
        /\ \A u \in Vols, m \in Nodes : u # v \/ m # n => mount'[u][m] = mount[u][m]
        /\ mount'[v][n] = x
  BY DEF IInv, TypeOK
<1>5. Frame(n, v)
  BY <1>3, <1>4, OutcomeEffects DEF Frame
<1>6. Shape(n, v)
  BY <1>1, <1>2, <1>3, <1>4, OutcomeEffects DEF Shape, SameMount
<1> QED BY <1>5, <1>6

LEMMA NodeStepShape ==
  ASSUME IInv, NEW n \in Nodes, NodeStep(n) \/ NodeCrash(n), NEW v, v = hn[n].vol
  PROVE  /\ v \in Vols /\ hn[n].pc # "idle" /\ co[v].node = n
         /\ \A m \in Nodes \ {n} : hn[m].pc # "idle" => hn[m].vol \in Vols \ {v}
         /\ Frame(n, v) /\ Shape(n, v)
<1>1. hn[n].pc # "idle"
  BY DEF NodeStep, NodeCrash, NodeActivate, Login, ProxyMount, Probe, Format, MountSyscall,
     Tag, Inspect, Umount, Logout, NodeDeactivate
<1>2. v \in Vols /\ co[v].node = n
  BY <1>1, OwnVolume
<1>3. \A m \in Nodes \ {n} : hn[m].pc # "idle" => hn[m].vol \in Vols \ {v}
  BY <1>2 DEF IInv, Serving
<1>4. Frame(n, v) /\ Shape(n, v)
  BY <1>2, QuietShape, MountShape, UmountShape, LogoutShape DEF NodeStep
<1> QED BY <1>1, <1>2, <1>3, <1>4

\* A handler goes on with the volume it has.
LEMMA NodeStepVol ==
  ASSUME IInv, NEW n \in Nodes, NodeStep(n) \/ NodeCrash(n)
  PROVE  hn'[n].pc = "idle" \/ hn'[n].vol = hn[n].vol
<1>1. \/ hn' = [hn EXCEPT ![n] = Idle]
      \/ \E pc : hn' = [hn EXCEPT ![n].pc = pc]
      \/ UmountErr(n)
  BY Zenon DEF NodeStep, NodeCrash, NodeActivate, Login, ProxyMount, Probe, Format, MountSyscall,
     Tag, Inspect, Umount, UmountOk, Logout, NodeDeactivate, Attempt, NodeGoto, NodeFail,
     NodeSucceed
<1>2. UmountErr(n) => hn'[n].pc = "idle" \/ hn'[n].vol = hn[n].vol
  BY DEF UmountErr, Idle, IInv, TypeOK
<1> QED BY <1>1, <1>2 DEF Idle, IInv, TypeOK

\* The other steps leave the mounts alone, and a volume in use where it is.
LEMMA OtherShape ==
  ASSUME IInv, [Next]_vars, \A n \in Nodes : ~NodeStep(n) /\ ~NodeCrash(n)
  PROVE  /\ mount' = mount
         /\ \A m \in Nodes : \/ hn'[m] = hn[m]
                             \/ hn'[m].pc \in {"activate", "login", "mount", "inspect"}
         /\ \A v \in Vols : co[v].st \in Using =>
              co'[v].node = co[v].node /\ co'[v].st \in Using
<1> USE DEF Using
<1>1. CASE CtrlStep \/ CtrlCrash
  <2>1. mount' = mount /\ hn' = hn
    BY <1>1 DEF CtrlStep, CtrlCrash, CtrlRespond, CtrlActivate, StageIscsi, CtrlLookup,
       UnStage, CtrlDeactivate, Attempt, store
  <2>2. hc.pc # "idle"
    BY <1>1 DEF CtrlStep, CtrlCrash, CtrlRespond, CtrlActivate, StageIscsi, CtrlLookup,
       UnStage, CtrlDeactivate
  <2>3. hc.vol \in Vols /\ co[hc.vol].st \notin Using
    BY <2>2 DEF IInv, TypeOK, Serving, Attaching, Detaching
  <2>4. co' = co \/ \E st : co' = [co EXCEPT ![hc.vol].st = st]
    BY <1>1 DEF CtrlStep, CtrlCrash, CtrlRespond, CtrlActivate, StageIscsi, CtrlLookup,
       UnStage, CtrlDeactivate, Attempt, CtrlGoto, CtrlFail, CtrlSucceed, Reaches
  <2>5. \A v \in Vols : v # hc.vol => co'[v] = co[v]
    BY <2>3, <2>4 DEF IInv, TypeOK
  <2> QED BY <2>1, <2>3, <2>5
<1>2. ASSUME NEW u \in Vols, NEW n \in Nodes, ControllerPublish(u, n)
      PROVE  /\ mount' = mount /\ hn' = hn
             /\ \A v \in Vols : co[v].st \in Using => co'[v] = co[v]
  BY <1>2 DEF ControllerPublish, store, IInv, TypeOK
<1>3. ASSUME NEW u \in Vols, ControllerUnpublish(u)
      PROVE  /\ mount' = mount /\ hn' = hn
             /\ \A v \in Vols : co[v].st \in Using => co'[v] = co[v]
  BY <1>3 DEF ControllerUnpublish, Reaches, store, IInv, TypeOK
<1>4. ASSUME NEW u \in Vols, NEW n \in Nodes, NodePublish(u, n) \/ NodeUnpublish(u, n)
      PROVE  /\ mount' = mount
             /\ \A m \in Nodes : \/ hn'[m] = hn[m]
                                 \/ hn'[m].pc \in {"activate", "login", "mount", "inspect"}
             /\ \A v \in Vols : co[v].st \in Using =>
                  co'[v].node = co[v].node /\ co'[v].st \in Using
  <2>1. PICK pc : pc = IF NodePublish(u, n)
                       THEN CASE Datapath = "direct" -> "activate"
                              [] Datapath = "iscsi" -> "login"
                              [] Datapath = "sas" -> "mount"
                       ELSE "inspect"
    OBVIOUS
  <2>2. pc \in {"activate", "login", "mount", "inspect"}
    BY <2>1, AttachmentAssumption
  <2>3. hn' = [hn EXCEPT ![n] = [Idle EXCEPT !.pc = pc, !.vol = u]]
    BY <1>4, <2>1, Zenon DEF NodePublish, NodeUnpublish
  <2>4. hn' = [hn EXCEPT ![n] = [pc |-> pc, vol |-> u, err |-> Idle.err]]
    BY <2>3, NewHandler, Zenon
  <2>5. \A m \in Nodes : hn'[m] = hn[m] \/ hn'[m].pc = pc
    BY <2>4 DEF IInv, TypeOK
  <2>6. mount' = mount /\ \E st \in Using : co' = [co EXCEPT ![u].st = st]
    BY <1>4 DEF NodePublish, NodeUnpublish, Reaches, store
  <2>7. \A v \in Vols : co[v].st \in Using => co'[v].node = co[v].node /\ co'[v].st \in Using
    BY <2>6 DEF IInv, TypeOK
  <2> QED BY <2>2, <2>5, <2>6, <2>7
<1>5. CASE UNCHANGED vars \/ \E v \in Vols : Write(v)
  BY <1>5 DEF vars, Write
<1> QED BY <1>1, <1>2, <1>3, <1>4, <1>5 DEF Next

-----------------------------------------------------------------------------
(* Retries do not pile up mounts *)

LEMMA OnceStep ==
  ASSUME SeesMounts, IInv, Once, [Next]_vars PROVE Once'
<1>1. ASSUME NEW n \in Nodes, NodeStep(n) \/ NodeCrash(n), NEW v, v = hn[n].vol
      PROVE  Once'
  <2>1. /\ v \in Vols /\ hn[n].pc # "idle"
        /\ \A m \in Nodes \ {n} : hn[m].pc # "idle" => hn[m].vol \in Vols \ {v}
        /\ Frame(n, v) /\ Shape(n, v)
    BY <1>1, NodeStepShape
  <2>2. mount[v][n] # "twice" /\ (~Proxy => mount[v][n] # "dead")
    BY <2>1 DEF Once, MountedOnce
  <2>3. hn[n].pc \in {"format", "syscall"} => mount[v][n] = "none"
    BY <1>1 DEF Once
  <2>4. hn[n].pc = "logout" => Proxy
    BY <2>1, AttachmentAssumption DEF IInv, Modes
  <2>5. ~Proxy /\ ~Visible(v, n) => mount[v][n] = "none"
    <3>1. mount[v][n] \in {"none", "live", "dead", "twice"}
      BY <2>1 DEF IInv, TypeOK
    <3> QED BY <2>2, <3>1 DEF SeesMounts, FindsMounts, Visible
  <2>6. /\ mount'[v][n] # "twice" /\ (~Proxy => mount'[v][n] # "dead")
        /\ hn'[n].pc \in {"format", "syscall"} => mount'[v][n] = "none"
    BY <2>1, <2>2, <2>3, <2>4, <2>5 DEF Shape, SameMount
  <2>7. hn'[n].pc = "idle" \/ hn'[n].vol = v
    BY <1>1, NodeStepVol
  <2>8. MountedOnce'
    BY <2>1, <2>6 DEF Once, MountedOnce, Frame
  <2>9. ~Proxy => \A u \in Vols, m \in Nodes : mount'[u][m] # "dead"
    BY <2>1, <2>6 DEF Once, Frame
  <2>10. ASSUME NEW m \in Nodes, hn'[m].pc \in {"format", "syscall"}
         PROVE  mount'[hn'[m].vol][m] = "none"
    <3>1. CASE m = n
      BY <2>6, <2>7, <2>10, <3>1
    <3>2. CASE m # n
      BY <2>1, <2>10, <3>2 DEF Once, Frame
    <3> QED BY <3>1, <3>2
  <2> QED BY <2>8, <2>9, <2>10 DEF Once
<1>2. CASE \A n \in Nodes : ~NodeStep(n) /\ ~NodeCrash(n)
  BY <1>2, OtherShape DEF Once, MountedOnce
<1> QED BY <1>1, <1>2

LEMMA InitOnce == Init => Once
<1> SUFFICES ASSUME Init PROVE Once
  OBVIOUS
<1>1. /\ \A v \in Vols, n \in Nodes : mount[v][n] = "none"
      /\ \A n \in Nodes : hn[n].pc = "idle"
  BY DEF Init, Idle
<1> QED BY <1>1 DEF Once, MountedOnce

\* Retried publishes do not mount on top of one another ("doesn't mount anything
\* new at targetPath"), as long as StoLake mounts or getMountAt sees what is mounted:
\* not a block volume, and not an LV of a group whose name is not sbvg_ something.
THEOREM OneMount ==
  ASSUME SeesMounts PROVE Spec => []MountedOnce
<1>1. IInv /\ Once /\ [Next]_vars => Once'
  BY OnceStep
<1>2. Once => MountedOnce
  BY DEF Once
<1> QED BY <1>1, <1>2, InitOnce, Invariance, PTL DEF Spec

-----------------------------------------------------------------------------
(* One node at a time *)

LEMMA PlacedStep ==
  ASSUME FindsMounts, IInv, Once, Placed, [Next]_vars PROVE Placed'
<1>1. ASSUME NEW n \in Nodes, NodeStep(n) \/ NodeCrash(n), NEW v, v = hn[n].vol
      PROVE  Placed'
  <2>1. /\ v \in Vols /\ hn[n].pc # "idle" /\ co[v].node = n
        /\ \A m \in Nodes \ {n} : hn[m].pc # "idle" => hn[m].vol \in Vols \ {v}
        /\ Frame(n, v) /\ Shape(n, v)
    BY <1>1, NodeStepShape
  <2>2. mount[v][n] \in {"none", "live", "dead"} /\ co[v].st \in {"publishing", "unpublishing"}
    <3>1. mount[v][n] \in {"none", "live", "dead"}
      BY <2>1 DEF IInv, TypeOK, Once, MountedOnce
    <3>2. hn[n].pc \in Publishing \/ hn[n].pc \in Unpublishing
      BY <2>1 DEF IInv, TypeOK, Publishing, Unpublishing
    <3> QED BY <1>1, <3>1, <3>2 DEF IInv, Serving
  <2>3. /\ hn[n].pc = "deactivate" => mount[v][n] = "none"
        /\ hn[n].pc = "logout" /\ ~hn[n].err => mount[v][n] = "none"
    BY <1>1 DEF Placed
  <2>4. ~Visible(v, n) => mount[v][n] \notin Live
    BY DEF Visible, Live, FindsMounts
  <2>5. mount'[v][n] \in Live => co'[v].st \in Using
    BY <2>1, <2>2, <2>3, <2>4 DEF Shape, SameMount, Live, Using
  <2>6. /\ hn'[n].pc = "deactivate" => mount'[v][n] = "none"
        /\ hn'[n].pc = "logout" /\ ~hn'[n].err => mount'[v][n] = "none"
    BY <2>1, <2>2, <2>3 DEF Shape, SameMount
  <2>7. hn'[n].pc = "idle" \/ hn'[n].vol = v
    BY <1>1, NodeStepVol
  <2>8. ASSUME NEW u \in Vols, NEW m \in Nodes, mount'[u][m] \in Live
        PROVE  co'[u].node = m /\ co'[u].st \in Using
    <3>1. CASE u = v /\ m = n
      BY <2>1, <2>5, <2>8, <3>1 DEF Frame
    <3>2. CASE u # v
      BY <2>1, <2>8, <3>2 DEF Frame, Placed
    <3>3. CASE u = v /\ m # n
      BY <2>1, <2>8, <3>3 DEF Frame, Placed
    <3> QED BY <3>1, <3>2, <3>3
  <2>9. ASSUME NEW m \in Nodes
        PROVE  /\ hn'[m].pc = "deactivate" => mount'[hn'[m].vol][m] = "none"
               /\ hn'[m].pc = "logout" /\ ~hn'[m].err => mount'[hn'[m].vol][m] = "none"
    <3>1. CASE m = n
      BY <2>6, <2>7, <3>1
    <3>2. CASE m # n
      BY <2>1, <3>2 DEF Frame, Placed
    <3> QED BY <3>1, <3>2
  <2> QED BY <2>8, <2>9 DEF Placed
<1>2. CASE \A n \in Nodes : ~NodeStep(n) /\ ~NodeCrash(n)
  <2>1. /\ mount' = mount
        /\ \A m \in Nodes : \/ hn'[m] = hn[m]
                            \/ hn'[m].pc \in {"activate", "login", "mount", "inspect"}
        /\ \A v \in Vols : co[v].st \in Using =>
             co'[v].node = co[v].node /\ co'[v].st \in Using
    BY <1>2, OtherShape
  <2> QED BY <2>1 DEF Placed
<1> QED BY <1>1, <1>2

LEMMA InitPlaced == Init => Placed
<1> SUFFICES ASSUME Init PROVE Placed
  OBVIOUS
<1>1. /\ \A v \in Vols, n \in Nodes : mount[v][n] = "none"
      /\ \A n \in Nodes : hn[n].pc = "idle"
  BY DEF Init, Idle
<1> QED BY <1>1 DEF Placed, Live

LEMMA FindsSees == FindsMounts => SeesMounts
BY DEF SeesMounts

\* How the activations change with a node's step.
LEMMA NodeActive ==
  ASSUME IInv, NEW n \in Nodes, NodeStep(n) \/ NodeCrash(n), NEW v, v = hn[n].vol
  PROVE  \/ active' = active
         \/ active' = active \cup {<<v, n>>} /\ CanActivate(v, n)
         \/ active' = active \ {<<v, n>>} /\ ~InUse(v, n) /\ hn[n].pc = "deactivate"
<1>1. CASE NodeActivate(n)
  BY <1>1 DEF NodeActivate, Attempt, store
<1>2. CASE NodeDeactivate(n)
  BY <1>2 DEF NodeDeactivate
<1>3. CASE \/ Login(n) \/ ProxyMount(n) \/ Probe(n) \/ Format(n) \/ MountSyscall(n) \/ Tag(n)
           \/ Inspect(n) \/ Umount(n) \/ Logout(n) \/ NodeCrash(n)
  BY <1>3 DEF Login, ProxyMount, Probe, Format, MountSyscall, Tag, Inspect, Umount, Logout,
     NodeCrash, Attempt, store
<1> QED BY <1>1, <1>2, <1>3 DEF NodeStep

\* And with the others: ControllerUnpublishVolume deactivates in every mode.
LEMMA OtherActive ==
  ASSUME IInv, [Next]_vars, \A n \in Nodes : ~NodeStep(n) /\ ~NodeCrash(n)
  PROVE  \/ active' = active
         \/ active' = active \cup {<<hc.vol, Controller>>} /\ CanActivate(hc.vol, Controller)
         \/ active' = active \ {<<hc.vol, Controller>>} /\ ~InUse(hc.vol, Controller)
<1>1. CASE CtrlActivate
  BY <1>1 DEF CtrlActivate, Attempt, store
<1>2. CASE CtrlDeactivate
  BY <1>2 DEF CtrlDeactivate
<1>3. CASE CtrlRespond \/ StageIscsi \/ CtrlLookup \/ UnStage \/ CtrlCrash
  BY <1>3 DEF CtrlRespond, StageIscsi, CtrlLookup, UnStage, CtrlCrash, Attempt, store
<1>4. ASSUME NEW u \in Vols, NEW n \in Nodes,
             ControllerPublish(u, n) \/ NodePublish(u, n) \/ NodeUnpublish(u, n)
      PROVE  active' = active
  BY <1>4 DEF ControllerPublish, NodePublish, NodeUnpublish, store
<1>5. ASSUME NEW u \in Vols, ControllerUnpublish(u) \/ Write(u) PROVE active' = active
  BY <1>5 DEF ControllerUnpublish, Write, store
<1>6. CASE UNCHANGED vars
  BY <1>6 DEF vars
<1> QED BY <1>1, <1>2, <1>3, <1>4, <1>5, <1>6 DEF Next, CtrlStep

\* Whoever activates a volume is alone to have it.
LEMMA AloneKept ==
  ASSUME NEW a \in Vols \cup {None}, NEW g \in Hosts,
         \A v \in Vols, h, k \in Hosts : <<v, h>> \in active /\ <<v, k>> \in active => h = k,
         \/ active' = active
         \/ active' = active \cup {<<a, g>>} /\ CanActivate(a, g)
         \/ active' = active \ {<<a, g>>}
  PROVE  \A v \in Vols, h, k \in Hosts : <<v, h>> \in active' /\ <<v, k>> \in active' => h = k
BY DEF CanActivate

LEMMA HeldStep ==
  ASSUME IInv, Held, [Next]_vars PROVE Held'
<1>1. ASSUME NEW n \in Nodes, NodeStep(n) \/ NodeCrash(n), NEW v, v = hn[n].vol
      PROVE  Held'
  <2>1. /\ v \in Vols /\ hn[n].pc # "idle"
        /\ \A m \in Nodes \ {n} : hn'[m] = hn[m]
        /\ \A u \in Vols, m \in Nodes : u # v \/ m # n => mount'[u][m] = mount[u][m]
        /\ Shape(n, v)
    BY <1>1, NodeStepShape DEF Frame
  <2>2. \/ active' = active
        \/ active' = active \cup {<<v, n>>} /\ CanActivate(v, n)
        \/ active' = active \ {<<v, n>>} /\ ~InUse(v, n) /\ hn[n].pc = "deactivate"
    BY <1>1, NodeActive
  <2>3. n \in Hosts
    BY DEF Hosts
  <2>4. \A u \in Vols, h, k \in Hosts : <<u, h>> \in active' /\ <<u, k>> \in active' => h = k
    BY <2>1, <2>2, <2>3, AloneKept DEF Held
  <2>5. ASSUME Datapath # "iscsi"
        PROVE  /\ \A u \in Vols, m \in Nodes : mount'[u][m] # "none" => <<u, m>> \in active'
               /\ \A m \in Nodes : hn'[m].pc \in {"format", "syscall"} => Datapath = "direct"
    <3>1. /\ mount[v][n] # "none" => <<v, n>> \in active
          /\ hn[n].pc \in {"format", "syscall"} => Datapath = "direct"
      BY <2>1, <2>5 DEF Held
    <3>2. hn[n].pc \in {"mount", "format", "syscall"} /\ Datapath = "direct" => <<v, n>> \in active
      BY <1>1 DEF IInv, Backed, Device
    <3>3. ~InUse(v, n) => mount[v][n] = "none"
      BY <2>5 DEF InUse
    <3>4. ASSUME Datapath # "direct", hn[n].pc = "mount"
          PROVE  mount'[v][n] = mount[v][n] /\ hn'[n].pc \notin {"format", "syscall"}
      <4>1. ~Source(v, n)
        BY <2>5, <3>4, AttachmentAssumption DEF Source, AttachmentAssumption
      <4>2. NodeCrash(n) \/ ProxyMount(n) \/ Probe(n)
        BY <1>1, <3>4 DEF NodeStep, NodeActivate, Login, Format, MountSyscall, Tag, Inspect,
           Umount, Logout, NodeDeactivate
      <4>3. CASE NodeCrash(n)
        BY <4>3 DEF NodeCrash, store, Idle, IInv, TypeOK
      <4>4. CASE ProxyMount(n)
        BY <1>1, <4>1, <4>4 DEF ProxyMount, NodeFail, Idle, IInv, TypeOK
      <4>5. CASE Probe(n)
        BY <1>1, <4>1, <4>5 DEF Probe, NodeFail, NodeGoto, store, Idle, IInv, TypeOK
      <4> QED BY <4>2, <4>3, <4>4, <4>5
    <3>5. mount'[v][n] # "none" => <<v, n>> \in active'
      <4>1. CASE Datapath = "direct"
        BY <2>1, <2>2, <3>1, <3>2, <3>3, <4>1 DEF Shape, SameMount
      <4>2. CASE Datapath # "direct"
        BY <2>1, <2>2, <3>1, <3>3, <3>4, <4>2 DEF Shape, SameMount
      <4> QED BY <4>1, <4>2
    <3>6. hn'[n].pc \in {"format", "syscall"} => Datapath = "direct"
      BY <2>1, <3>1, <3>4 DEF Shape, SameMount
    <3>7. ASSUME NEW u \in Vols, NEW m \in Nodes, mount'[u][m] # "none"
          PROVE  <<u, m>> \in active'
      <4>1. CASE u = v /\ m = n
        BY <3>5, <3>7, <4>1
      <4>2. CASE u # v \/ m # n
        <5>1. <<u, m>> \in active
          BY <2>1, <2>5, <3>7, <4>2 DEF Held
        <5> QED BY <2>2, <4>2, <5>1
      <4> QED BY <4>1, <4>2
    <3>8. ASSUME NEW m \in Nodes, hn'[m].pc \in {"format", "syscall"} PROVE Datapath = "direct"
      BY <2>1, <2>5, <3>6, <3>8 DEF Held
    <3> QED BY <3>7, <3>8
  <2> QED BY <2>4, <2>5 DEF Held
<1>2. CASE \A n \in Nodes : ~NodeStep(n) /\ ~NodeCrash(n)
  <2>1. /\ mount' = mount
        /\ \A m \in Nodes : \/ hn'[m] = hn[m]
                            \/ hn'[m].pc \in {"activate", "login", "mount", "inspect"}
    BY <1>2, OtherShape
  <2>2. PICK a : a = hc.vol
    OBVIOUS
  <2>3. \/ active' = active
        \/ active' = active \cup {<<a, Controller>>} /\ CanActivate(a, Controller)
        \/ active' = active \ {<<a, Controller>>} /\ ~InUse(a, Controller)
    BY <1>2, <2>2, OtherActive
  <2>4. a \in Vols \cup {None} /\ Controller \in Hosts
    BY <2>2 DEF Hosts, IInv, TypeOK
  <2>5. \A u \in Vols, h, k \in Hosts : <<u, h>> \in active' /\ <<u, k>> \in active' => h = k
    BY <2>3, <2>4, AloneKept DEF Held
  <2>6. ASSUME Datapath # "iscsi", NEW u \in Vols, NEW n \in Nodes, mount'[u][n] # "none"
        PROVE  <<u, n>> \in active'
    <3>1. <<u, n>> \in active /\ mount[u][n] # "none"
      BY <2>1, <2>6 DEF Held
    <3>2. <<u, n>> = <<a, Controller>> => InUse(a, Controller)
      BY <2>6, <3>1 DEF InUse
    <3> QED BY <2>3, <3>1, <3>2
  <2>7. ASSUME Datapath # "iscsi", NEW n \in Nodes, hn'[n].pc \in {"format", "syscall"}
        PROVE  Datapath = "direct"
    BY <2>1, <2>7 DEF Held
  <2> QED BY <2>5, <2>6, <2>7 DEF Held
<1> QED BY <1>1, <1>2

LEMMA InitHeld == Init => Held
<1> SUFFICES ASSUME Init PROVE Held
  OBVIOUS
<1>1. /\ \A v \in Vols, n \in Nodes : mount[v][n] = "none"
      /\ \A n \in Nodes : hn[n].pc = "idle"
      /\ active = {}
  BY DEF Init, Idle
<1> QED BY <1>1 DEF Held

LEMMA AtMostOne ==
  ASSUME NEW S, \A m, n \in S : m = n PROVE Cardinality(S) <= 1
<1>1. CASE S = {}
  BY <1>1, FS_EmptySet
<1>2. ASSUME NEW n \in S PROVE Cardinality(S) <= 1
  <2>1. S = {n}
    BY <1>2
  <2>2. Cardinality({n}) = 1
    BY FS_Singleton, Zenon
  <2> QED BY <2>1, <2>2
<1> QED BY <1>1, <1>2

\* A volume is never mounted on two nodes.  Over iSCSI, where it must have a
\* filesystem, a node is told that it may mount it only when the one before has
\* been seen to have nothing mounted; else, whatever getMountAt sees, the LV stays
\* active where it is mounted and is refused to the other.
THEOREM Exclusive ==
  ASSUME Datapath = "iscsi" => ~Block PROVE Spec => []ExclusiveMount
<1>1. CASE Datapath = "iscsi"
  <2>1. FindsMounts /\ SeesMounts
    BY <1>1, FindsSees DEF FindsMounts
  <2>2. IInv /\ Once /\ Placed /\ [Next]_vars => Once' /\ Placed'
    BY <2>1, OnceStep, PlacedStep
  <2>3. Placed => ExclusiveMount
    <3> SUFFICES ASSUME Placed, NEW v \in Vols
                 PROVE  Cardinality({n \in Nodes : mount[v][n] \in {"live", "twice"}}) <= 1
      BY DEF ExclusiveMount
    <3>1. PICK S : S = {n \in Nodes : mount[v][n] \in {"live", "twice"}}
      OBVIOUS
    <3>2. \A m, n \in S : m = n
      BY <3>1 DEF Placed, Live
    <3>3. Cardinality(S) <= 1
      BY <3>2, AtMostOne
    <3> QED BY <3>1, <3>3
  <2> QED BY <2>2, <2>3, InitOnce, InitPlaced, Invariance, PTL DEF Spec
<1>2. CASE Datapath # "iscsi"
  <2>1. IInv /\ Held /\ [Next]_vars => Held'
    BY HeldStep
  <2>2. Held => ExclusiveMount
    <3> SUFFICES ASSUME Held, NEW v \in Vols
                 PROVE  Cardinality({n \in Nodes : mount[v][n] \in {"live", "twice"}}) <= 1
      BY DEF ExclusiveMount
    <3>1. PICK S : S = {n \in Nodes : mount[v][n] \in {"live", "twice"}}
      OBVIOUS
    <3>2. \A m, n \in S : m = n
      <4> SUFFICES ASSUME NEW m \in S, NEW n \in S PROVE m = n
        OBVIOUS
      <4>1. m \in Nodes /\ n \in Nodes /\ mount[v][m] # "none" /\ mount[v][n] # "none"
        BY <3>1
      <4>2. <<v, m>> \in active /\ <<v, n>> \in active
        BY <1>2, <4>1 DEF Held
      <4> QED BY <4>1, <4>2 DEF Held, Hosts
    <3>3. Cardinality(S) <= 1
      BY <3>2, AtMostOne
    <3> QED BY <3>1, <3>3
  <2> QED BY <2>1, <2>2, InitHeld, Invariance, PTL DEF Spec
<1> QED BY <1>1, <1>2

-----------------------------------------------------------------------------
(* What was unpublished is unmounted *)

LEMMA NoneDeadStep ==
  ASSUME NoDeadMounts, IInv, Once, Placed, NoneDead, [Next]_vars PROVE NoneDead'
<1>1. ASSUME NEW n \in Nodes, NodeStep(n) \/ NodeCrash(n), NEW v, v = hn[n].vol
      PROVE  NoneDead'
  <2>1. /\ v \in Vols /\ hn[n].pc # "idle" /\ co[v].node = n
        /\ \A m \in Nodes \ {n} : hn[m].pc # "idle" => hn[m].vol \in Vols \ {v}
        /\ Frame(n, v) /\ Shape(n, v)
    BY <1>1, NodeStepShape
  <2>2. /\ mount[v][n] \in {"none", "live"}
        /\ hn[n].pc = "logout" => mount[v][n] = "none"
    BY <1>1, <2>1 DEF IInv, TypeOK, Once, MountedOnce, NoneDead
  <2>3. ~(Datapath = "iscsi" /\ "umount" \in Faults)
    BY DEF NoDeadMounts
  <2>4. /\ mount'[v][n] # "dead"
        /\ hn'[n].pc = "logout" => mount'[v][n] = "none"
    BY <2>1, <2>2, <2>3 DEF Shape, SameMount
  <2>5. hn'[n].pc = "idle" \/ hn'[n].vol = v
    BY <1>1, NodeStepVol
  <2>6. \A u \in Vols, m \in Nodes : mount'[u][m] # "dead"
    BY <2>1, <2>4 DEF NoneDead, Frame
  <2>7. ASSUME NEW m \in Nodes, hn'[m].pc = "logout"
        PROVE  mount'[hn'[m].vol][m] = "none"
    <3>1. CASE m = n
      BY <2>4, <2>5, <2>7, <3>1
    <3>2. CASE m # n
      BY <2>1, <2>7, <3>2 DEF NoneDead, Frame
    <3> QED BY <3>1, <3>2
  <2> QED BY <2>6, <2>7 DEF NoneDead
<1>2. CASE \A n \in Nodes : ~NodeStep(n) /\ ~NodeCrash(n)
  BY <1>2, OtherShape DEF NoneDead
<1> QED BY <1>1, <1>2

LEMMA InitNoneDead == Init => NoneDead
<1> SUFFICES ASSUME Init PROVE NoneDead
  OBVIOUS
<1>1. /\ \A v \in Vols, n \in Nodes : mount[v][n] = "none"
      /\ \A n \in Nodes : hn[n].pc = "idle"
  BY DEF Init, Idle
<1> QED BY <1>1 DEF NoneDead

\* A node that the CO was told has unpublished the volume, or that never published
\* it, has nothing mounted at its target path (NodeUnpublishVolume), as long as
\* getMountAt sees what is mounted, and unless an unmount fails ahead of a logout.
THEOREM NothingLeftMounted ==
  ASSUME FindsMounts, NoDeadMounts PROVE Spec => []UnpublishedMeansUnmounted
<1>1. SeesMounts
  BY FindsSees
<1>2. IInv /\ Once /\ Placed /\ NoneDead /\ [Next]_vars => Once' /\ Placed' /\ NoneDead'
  BY <1>1, OnceStep, PlacedStep, NoneDeadStep
<1>3. IInv /\ Placed /\ NoneDead => UnpublishedMeansUnmounted
  <2> SUFFICES ASSUME IInv, Placed, NoneDead, NEW v \in Vols, NEW n \in Nodes,
                      mount[v][n] # "none"
               PROVE  co[v].node = n /\ co[v].st \in {"publishing", "published", "unpublishing"}
    BY DEF UnpublishedMeansUnmounted
  <2>1. mount[v][n] \in Live
    BY DEF IInv, TypeOK, NoneDead, Live
  <2> QED BY <2>1 DEF Placed, Using
<1> QED BY <1>2, <1>3, InitOnce, InitPlaced, InitNoneDead, Invariance, PTL DEF Spec
=============================================================================

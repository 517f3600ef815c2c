----------------------------- MODULE JbofTargets -----------------------------
(***************************************************************************)
(* The "jbofis" datapath: ControllerPublishVolume has the JBOFs named in   *)
(* the storage class export the drives of the volume group to a node, and  *)
(* remembers the last list of targets (JbofStageIscsiTargets, virsh.go);   *)
(* NodePublishVolume logs the node in to every target of its list and      *)
(* needs all the drives to find the volume group (server.go).              *)
(***************************************************************************)
EXTENDS Naturals, FiniteSets

CONSTANTS
  Nodes,
  Jbofs,       \* the servers that hold the drives of the volume group
  Classes,     \* storage classes of the volume group
  Urls,        \* the JBOFs each class names, a function
  Ttl,         \* how long a list is remembered (120 s)
  SetupTime,   \* bound: how long setting one up takes (120 s for each JBOF)
  MaxTime,     \* bound on the clock
  Failures,    \* whether calls to JBOFs fail
  None

ASSUME JbofAssumption ==
  /\ Urls \in [Classes -> SUBSET Jbofs]
  /\ Ttl \in Nat \ {0} /\ SetupTime \in Nat /\ MaxTime \in Nat
  /\ Failures \in BOOLEAN /\ None \notin Nodes \cup Nat

VARIABLES
  now,      \* time.Now()
  last,     \* lastTargetSetup, lastInitIqn, lastTargetList
  setup,    \* when each target was last set up by its JBOF, None if never
  pub       \* per node, the volume the CO is publishing there

vars == <<now, last, setup, pub>>

\* A target is the JBOF it is on and the initiator it is for.
Target == Jbofs \X Nodes

Free == [st |-> "free", class |-> None, list |-> {}]

\* lastTargetSetup starts five minutes in the past.
Init ==
  /\ now = 0
  /\ last = [time |-> None, node |-> None, list |-> {}]
  /\ setup = [t \in Target |-> None]
  /\ pub = [n \in Nodes |-> Free]

\* Mutant: the list is remembered for whichever node.
CachedForAll(n) ==
  /\ last.time # None /\ now - last.time < Ttl
  /\ last.list # {}

\* Send cached value if less than 2 minutes old.  There is one volume group;
\* the list of URLs is not compared.
Cached(n) ==
  /\ last.time # None /\ now - last.time < Ttl
  /\ last.node = n /\ last.list # {}

\* The response, and what the CO makes of it.
Attached(n, c, list) ==
  pub' = [pub EXCEPT ![n] = [st |-> "attached", class |-> c, list |-> list]]

\* CtrlPubIscsiDrives has each of these JBOFs export its drives to n, one after
\* the other: each at some time until the loop is over.
SetUp(jbofs, n) ==
  /\ now' \in now..(now + SetupTime) /\ now' <= MaxTime
  /\ \E at \in [jbofs -> now..now'] :
       setup' = [t \in Target |-> IF t \in jbofs \X {n} THEN at[t[1]] ELSE setup[t]]

\* Mutant: whom the list was set up for is not remembered.
ControllerPublishForgetful(n, c) ==
  /\ pub[n].st = "free"
  /\ SetUp(Urls[c], n)
  /\ last' = [last EXCEPT !.time = now', !.list = Urls[c] \X {n}]
  /\ Attached(n, c, Urls[c] \X {n})

\* Mutant: the time of a list is that of its last use.
ControllerPublishRenewing(n, c) ==
  /\ pub[n].st = "free"
  /\ IF Cached(n)
     THEN /\ Attached(n, c, last.list)
          /\ last' = [last EXCEPT !.time = now]
          /\ UNCHANGED <<now, setup>>
     ELSE /\ SetUp(Urls[c], n)
          /\ last' = [time |-> now', node |-> n, list |-> Urls[c] \X {n}]
          /\ Attached(n, c, Urls[c] \X {n})

\* A failure of a call is not looked at: whatever the JBOF did, the list just
\* lacks its targets, and is remembered all the same.  A failure to connect is
\* returned, with the JBOFs before that one set up.
ControllerPublish(n, c) ==
  /\ pub[n].st = "free"
  /\ \/ /\ Cached(n)
        /\ Attached(n, c, last.list)
        /\ UNCHANGED <<now, last, setup>>
     \/ /\ ~Cached(n)
        /\ \E done \in SUBSET Urls[c] : \E answers \in SUBSET done :
             /\ Failures \/ answers = Urls[c]
             /\ SetUp(done, n)
             /\ last' = [time |-> now', node |-> n, list |-> answers \X {n}]
             /\ Attached(n, c, answers \X {n})
     \/ /\ ~Cached(n) /\ Failures
        /\ \E done \in SUBSET Urls[c] : done # Urls[c] /\ SetUp(done, n)
        /\ UNCHANGED <<last, pub>>

\* The logins, then VgActivate, LookupLogicalVolume and the rest: it fails
\* unless the volume group's drives are all there.
NodePublish(n) ==
  /\ pub[n].st \in {"attached", "publishing"}
  /\ pub' = [pub EXCEPT ![n].st =
               IF /\ \A t \in pub[n].list : setup[t] # None
                  /\ {t[1] : t \in pub[n].list} = Jbofs
               THEN "published" ELSE "publishing"]
  /\ UNCHANGED <<now, last, setup>>

\* NodeUnpublishVolume and ControllerUnpublishVolume leave the targets alone.
Unpublish(n) ==
  /\ pub[n].st # "free"
  /\ pub' = [pub EXCEPT ![n] = Free]
  /\ UNCHANGED <<now, last, setup>>

Tick ==
  /\ now < MaxTime
  /\ now' = now + 1
  /\ UNCHANGED <<last, setup, pub>>

Next ==
  \/ \E n \in Nodes, c \in Classes : ControllerPublish(n, c)
  \/ \E n \in Nodes : NodePublish(n) \/ Unpublish(n)
  \/ Tick

Spec == Init /\ [][Next]_vars

-----------------------------------------------------------------------------
(* Properties *)

\* Every variable has its type, and the list that is remembered is that of the
\* initiator that is remembered.
TypeOK ==
  /\ now \in 0..MaxTime
  /\ last \in [time : (0..MaxTime) \cup {None}, node : Nodes \cup {None},
               list : SUBSET Target]
  /\ last.list \subseteq Jbofs \X {last.node}
  /\ setup \in [Target -> (0..MaxTime) \cup {None}]
  /\ pub \in [Nodes -> [st : {"free", "attached", "publishing", "published"},
                        class : Classes \cup {None}, list : SUBSET Target]]

\* Whatever was published to other nodes in between, a node is sent targets
\* that were set up for its own initiator.
OwnTargets ==
  \A n \in Nodes : \A t \in pub[n].list : t[2] = n /\ setup[t] # None

\* When a node is sent a list, its JBOFs set up each target of it less than Ttl
\* ago, or as much more as setting the list up took (lastTargetSetup is the time
\* after that): the list's use does not make it any younger.
NotStale ==
  [][\A n \in Nodes : pub[n].st = "free" /\ pub'[n].st = "attached" =>
       \A t \in pub'[n].list : now' < setup'[t] + Ttl + SetupTime]_vars

\* "passes list of targets back in pubcontext": the list has the targets of
\* the JBOFs that the storage class of the volume names.
ListIsOfTheClass ==
  \A n \in Nodes : pub[n].st # "free" =>
    {t[1] : t \in pub[n].list} = Urls[pub[n].class]
=============================================================================

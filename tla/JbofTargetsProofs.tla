-------------------------- MODULE JbofTargetsProofs --------------------------
(***************************************************************************)
(* Proofs about JbofTargets: the list of targets that JbofStageIscsiTargets *)
(* remembers reaches no other initiator and does not outlive its time, for *)
(* any number of nodes, JBOFs and storage classes.                         *)
(***************************************************************************)
EXTENDS JbofTargets, TLAPS

\* What is remembered was set up within SetupTime of the time that is
\* remembered with it, or since, and that time has been.
Memory ==
  /\ last.time # None => last.time <= now
  /\ last.list # {} => last.time # None
  /\ \A t \in last.list : setup[t] # None /\ last.time <= setup[t] + SetupTime

\* No target was set up later than now.
Past == \A t \in Target : setup[t] # None => setup[t] <= now

\* The inductive invariant: what a node is sent from the memory is as good as
\* the memory is.
IInv == TypeOK /\ Memory /\ Past /\ OwnTargets

\* The clock and the targets' times after JBOFs have been set up.
LEMMA AfterSetUp ==
  ASSUME IInv, NEW n \in Nodes, NEW jbofs \in SUBSET Jbofs, SetUp(jbofs, n)
  PROVE  /\ now' \in 0..MaxTime /\ now <= now' /\ now' <= now + SetupTime
         /\ setup' \in [Target -> (0..MaxTime) \cup {None}]
         /\ \A t \in Target :
              /\ setup'[t] = setup[t]
                 \/ (setup'[t] # None /\ now <= setup'[t] /\ setup'[t] <= now')
              /\ t \in jbofs \X {n} =>
                   setup'[t] # None /\ now <= setup'[t] /\ setup'[t] <= now'
<1> USE JbofAssumption
<1>1. now \in 0..MaxTime /\ SetupTime \in Nat /\ MaxTime \in Nat /\ None \notin 0..MaxTime
  BY DEF IInv, TypeOK, JbofAssumption
<1>2. now' \in now..(now + SetupTime) /\ now' <= MaxTime
  BY DEF SetUp
<1>3. now' \in 0..MaxTime /\ now <= now' /\ now' <= now + SetupTime
  BY <1>1, <1>2
<1>4. PICK at \in [jbofs -> now..now'] :
        setup' = [t \in Target |-> IF t \in jbofs \X {n} THEN at[t[1]] ELSE setup[t]]
  BY DEF SetUp
<1>5. ASSUME NEW t \in Target, t \in jbofs \X {n}
      PROVE  setup'[t] \in now..now'
  <2>1. t[1] \in jbofs
    BY <1>5
  <2>2. at[t[1]] \in now..now'
    BY <1>4, <2>1
  <2> QED BY <1>4, <1>5, <2>2
<1>6. ASSUME NEW t \in Target, t \notin jbofs \X {n}
      PROVE  setup'[t] = setup[t]
  BY <1>4, <1>6
<1>7. ASSUME NEW t \in Target, t \in jbofs \X {n}
      PROVE  setup'[t] \in 0..MaxTime /\ setup'[t] # None /\ now <= setup'[t] /\ setup'[t] <= now'
  BY <1>1, <1>3, <1>5, <1>7
<1>8. \A t \in Target : setup[t] \in (0..MaxTime) \cup {None}
  BY DEF IInv, TypeOK
<1>9. setup' \in [Target -> (0..MaxTime) \cup {None}]
  <2>1. \A t \in Target : setup'[t] \in (0..MaxTime) \cup {None}
    BY <1>6, <1>7, <1>8
  <2> QED BY <1>4, <2>1
<1> QED BY <1>3, <1>6, <1>7, <1>9

\* A set-up keeps what is remembered, and what was sent, as it is: a target is
\* set up again at most.
LEMMA SetUpKeeps ==
  ASSUME IInv, NEW n \in Nodes, NEW jbofs \in SUBSET Jbofs, SetUp(jbofs, n)
  PROVE  Past' /\ \A t \in Target : setup[t] # None => setup'[t] # None /\ setup[t] <= setup'[t]
<1> USE JbofAssumption
<1>1. /\ now' \in 0..MaxTime /\ now \in 0..MaxTime /\ now <= now'
      /\ setup \in [Target -> (0..MaxTime) \cup {None}]
      /\ setup' \in [Target -> (0..MaxTime) \cup {None}]
      /\ \A t \in Target : setup'[t] = setup[t]
           \/ (setup'[t] # None /\ now <= setup'[t] /\ setup'[t] <= now')
  BY AfterSetUp DEF IInv, TypeOK
<1>2. ASSUME NEW t \in Target
      PROVE  /\ setup'[t] # None => setup'[t] <= now'
             /\ setup[t] # None => setup'[t] # None /\ setup[t] <= setup'[t]
  <2>1. /\ setup[t] \in (0..MaxTime) \cup {None} /\ setup'[t] \in (0..MaxTime) \cup {None}
        /\ setup[t] # None => setup[t] <= now
    BY <1>1 DEF IInv, Past
  <2>2. MaxTime \in Nat
    BY DEF JbofAssumption
  <2> QED BY <1>1, <2>1, <2>2
<1> QED BY <1>2 DEF Past

\* Sending the list that is remembered preserves the invariant.
LEMMA CachedList ==
  ASSUME IInv, NEW n \in Nodes, NEW c \in Classes, Cached(n),
         Attached(n, c, last.list), UNCHANGED <<now, last, setup>>
  PROVE  IInv'
<1>1. last.node = n
  BY DEF Cached
<1>2. pub' = [pub EXCEPT ![n] = [st |-> "attached", class |-> c, list |-> last.list]]
  BY DEF Attached
<1>3. TypeOK'
  BY <1>2 DEF IInv, TypeOK
<1>4. Memory' /\ Past'
  BY DEF IInv, Memory, Past
<1>5. OwnTargets'
  <2> SUFFICES ASSUME NEW m \in Nodes, NEW t \in pub'[m].list
               PROVE  t[2] = m /\ setup[t] # None
    BY DEF OwnTargets
  <2>1. CASE m = n
    <3>1. t \in last.list
      BY <1>2, <2>1 DEF IInv, TypeOK
    <3>2. t \in Jbofs \X {n} /\ setup[t] # None
      BY <3>1, <1>1 DEF IInv, TypeOK, Memory
    <3> QED BY <3>2, <2>1
  <2>2. CASE m # n
    <3>1. t \in pub[m].list
      BY <1>2, <2>2 DEF IInv, TypeOK
    <3> QED BY <3>1 DEF IInv, OwnTargets
  <2> QED BY <2>1, <2>2
<1> QED BY <1>3, <1>4, <1>5 DEF IInv

\* Setting up a list anew, and remembering it instead, preserves it.
LEMMA NewList ==
  ASSUME IInv, NEW n \in Nodes, NEW c \in Classes, NEW done \in SUBSET Jbofs,
         NEW answers \in SUBSET done, SetUp(done, n),
         last' = [time |-> now', node |-> n, list |-> answers \X {n}],
         Attached(n, c, answers \X {n})
  PROVE  IInv'
<1> USE JbofAssumption
<1>1. PICK list : list = answers \X {n}
  OBVIOUS
<1>2. list \in SUBSET Target /\ list \subseteq Jbofs \X {n} /\ list \subseteq done \X {n}
  BY <1>1 DEF Target
<1>3. pub' = [pub EXCEPT ![n] = [st |-> "attached", class |-> c, list |-> list]]
  BY <1>1 DEF Attached
<1>4. last' = [time |-> now', node |-> n, list |-> list]
  BY <1>1
<1>5. /\ now' \in 0..MaxTime /\ now \in 0..MaxTime /\ now' <= now + SetupTime
      /\ setup' \in [Target -> (0..MaxTime) \cup {None}]
      /\ \A t \in Target : t \in done \X {n} =>
           setup'[t] # None /\ now <= setup'[t] /\ setup'[t] <= now'
  BY AfterSetUp DEF IInv, TypeOK
<1>6. TypeOK'
  <2>1. last' \in [time : (0..MaxTime) \cup {None}, node : Nodes \cup {None},
                   list : SUBSET Target]
    BY <1>2, <1>4, <1>5
  <2>2. last'.list \subseteq Jbofs \X {last'.node}
    BY <1>2, <1>4
  <2>3. pub' \in [Nodes -> [st : {"free", "attached", "publishing", "published"},
                            class : Classes \cup {None}, list : SUBSET Target]]
    BY <1>2, <1>3 DEF IInv, TypeOK
  <2> QED BY <1>5, <2>1, <2>2, <2>3 DEF TypeOK
<1>7. Memory'
  <2>1. last'.time = now' /\ last'.list = list /\ now' # None
    BY <1>4, <1>5 DEF JbofAssumption
  <2>2. ASSUME NEW t \in list PROVE setup'[t] # None /\ now' <= setup'[t] + SetupTime
    <3>1. setup'[t] # None /\ now <= setup'[t] /\ setup'[t] \in 0..MaxTime
      BY <1>2, <1>5
    <3>2. SetupTime \in Nat /\ MaxTime \in Nat
      BY DEF JbofAssumption
    <3> QED BY <1>5, <3>1, <3>2
  <2> QED BY <1>5, <2>1, <2>2 DEF Memory
<1>8. Past' /\ \A t \in Target : setup[t] # None => setup'[t] # None
  BY SetUpKeeps
<1>9. OwnTargets'
  <2> SUFFICES ASSUME NEW m \in Nodes, NEW t \in pub'[m].list
               PROVE  t[2] = m /\ setup'[t] # None
    BY DEF OwnTargets
  <2>1. CASE m = n
    <3>1. t \in list
      BY <1>3, <2>1 DEF IInv, TypeOK
    <3> QED BY <1>2, <1>5, <2>1, <3>1
  <2>2. CASE m # n
    <3>1. t \in pub[m].list /\ t \in Target
      BY <1>3, <2>2 DEF IInv, TypeOK
    <3> QED BY <1>8, <3>1 DEF IInv, OwnTargets
  <2> QED BY <2>1, <2>2
<1> QED BY <1>6, <1>7, <1>8, <1>9 DEF IInv

\* So does failing to connect to a JBOF, with others set up.
LEMMA HalfList ==
  ASSUME IInv, NEW n \in Nodes, NEW done \in SUBSET Jbofs, SetUp(done, n),
         UNCHANGED <<last, pub>>
  PROVE  IInv'
<1> USE JbofAssumption
<1>1. /\ now' \in 0..MaxTime /\ now \in 0..MaxTime /\ now <= now'
      /\ setup \in [Target -> (0..MaxTime) \cup {None}]
      /\ setup' \in [Target -> (0..MaxTime) \cup {None}]
  BY AfterSetUp DEF IInv, TypeOK
<1>2. TypeOK'
  BY <1>1 DEF IInv, TypeOK
<1>3. Past' /\ \A t \in Target : setup[t] # None => setup'[t] # None /\ setup[t] <= setup'[t]
  BY SetUpKeeps
<1>4. Memory'
  <2>1. /\ last.time \in (0..MaxTime) \cup {None} /\ last.list \subseteq Target
        /\ MaxTime \in Nat /\ SetupTime \in Nat /\ last' = last
    BY DEF IInv, TypeOK, JbofAssumption
  <2>2. last.time # None => last.time <= now'
    BY <1>1, <2>1 DEF IInv, Memory
  <2>3. ASSUME NEW t \in last.list PROVE setup'[t] # None /\ last.time <= setup'[t] + SetupTime
    <3>1. setup[t] # None /\ last.time <= setup[t] + SetupTime /\ last.time # None
      BY <2>3 DEF IInv, Memory
    <3>2. t \in Target
      BY <2>1
    <3>3. setup'[t] # None /\ setup[t] <= setup'[t]
      BY <1>3, <3>1, <3>2
    <3>4. setup[t] \in 0..MaxTime /\ setup'[t] \in 0..MaxTime /\ last.time \in 0..MaxTime
      BY <1>1, <2>1, <3>1, <3>2, <3>3
    <3> QED BY <2>1, <3>1, <3>3, <3>4
  <2> QED BY <2>1, <2>2, <2>3 DEF IInv, Memory
<1>5. OwnTargets'
  BY <1>3 DEF IInv, OwnTargets, TypeOK
<1> QED BY <1>2, <1>3, <1>4, <1>5 DEF IInv

\* The ways a ControllerPublishVolume goes.
LEMMA PublishWays ==
  ASSUME IInv, NEW n \in Nodes, NEW c \in Classes, ControllerPublish(n, c)
  PROVE  \/ Cached(n) /\ Attached(n, c, last.list) /\ UNCHANGED <<now, last, setup>>
         \/ \E done \in SUBSET Jbofs : \E answers \in SUBSET done :
              /\ SetUp(done, n)
              /\ last' = [time |-> now', node |-> n, list |-> answers \X {n}]
              /\ Attached(n, c, answers \X {n})
         \/ \E done \in SUBSET Jbofs : SetUp(done, n) /\ UNCHANGED <<last, pub>>
<1>1. SUBSET Urls[c] \subseteq SUBSET Jbofs
  BY JbofAssumption DEF JbofAssumption
<1> QED BY <1>1 DEF ControllerPublish

\* The invariant holds in the initial state, in which nothing is remembered.
LEMMA InitIInv == Init => IInv
  BY JbofAssumption DEF Init, Free, IInv, TypeOK, Memory, Past, OwnTargets, Target

\* Every step preserves it.
LEMMA NextIInv == IInv /\ [Next]_vars => IInv'
<1> SUFFICES ASSUME IInv, [Next]_vars PROVE IInv'
  OBVIOUS
<1>1. ASSUME NEW n \in Nodes, NEW c \in Classes, ControllerPublish(n, c)
      PROVE  IInv'
  BY <1>1, PublishWays, CachedList, NewList, HalfList
<1>2. ASSUME NEW n \in Nodes, NodePublish(n)
      PROVE  IInv'
  <2>1. PICK st \in {"published", "publishing"} : pub' = [pub EXCEPT ![n].st = st]
    BY <1>2 DEF NodePublish
  <2>2. UNCHANGED <<now, last, setup>>
    BY <1>2 DEF NodePublish
  <2>3. TypeOK'
    BY <2>1, <2>2 DEF IInv, TypeOK
  <2>4. \A m \in Nodes : pub'[m].list = pub[m].list
    BY <2>1 DEF IInv, TypeOK
  <2> QED BY <2>2, <2>3, <2>4 DEF IInv, Memory, Past, OwnTargets
<1>3. ASSUME NEW n \in Nodes, Unpublish(n)
      PROVE  IInv'
  <2>1. pub' = [pub EXCEPT ![n] = Free] /\ UNCHANGED <<now, last, setup>>
    BY <1>3 DEF Unpublish
  <2>2. TypeOK'
    BY <2>1 DEF IInv, TypeOK, Free
  <2>3. \A m \in Nodes : pub'[m] = pub[m] \/ pub'[m] = Free
    BY <2>1 DEF IInv, TypeOK
  <2>4. OwnTargets'
    BY <2>1, <2>3 DEF IInv, OwnTargets, Free
  <2> QED BY <2>1, <2>2, <2>4 DEF IInv, Memory, Past
<1>4. CASE Tick
  <2>1. now \in 0..MaxTime /\ MaxTime \in Nat /\ now' = now + 1 /\ now < MaxTime
        /\ UNCHANGED <<last, setup, pub>>
    BY <1>4, JbofAssumption DEF Tick, IInv, TypeOK, JbofAssumption
  <2>2. TypeOK'
    BY <2>1 DEF IInv, TypeOK
  <2>3. Memory'
    BY <2>1 DEF IInv, TypeOK, Memory
  <2>4. Past'
    BY <2>1 DEF IInv, TypeOK, Past
  <2>5. OwnTargets'
    BY <2>1 DEF IInv, OwnTargets
  <2> QED BY <2>2, <2>3, <2>4, <2>5 DEF IInv
<1>5. CASE UNCHANGED vars
  BY <1>5 DEF vars, IInv, TypeOK, Memory, Past, OwnTargets
<1> QED BY <1>1, <1>2, <1>3, <1>4, <1>5 DEF Next

\* The invariant holds throughout.
LEMMA Invariance == Spec => []IInv
  BY InitIInv, NextIInv, PTL DEF Spec

\* Every reachable state is well typed; the list that JbofStageIscsiTargets
\* remembers is always that of the initiator it remembers.
THEOREM TypeCorrect == Spec => []TypeOK
<1>1. IInv => TypeOK
  BY DEF IInv
<1> QED BY Invariance, <1>1, PTL

\* Whatever was published to other nodes in between, ControllerPublishVolume
\* sends a node targets that were set up for its own initiator.
THEOREM TargetsAreOwn == Spec => []OwnTargets
<1>1. IInv => OwnTargets
  BY DEF IInv
<1> QED BY Invariance, <1>1, PTL

\* Whenever ControllerPublishVolume sends a list, every target of it was set up
\* by its JBOF less than Ttl ago, or as much more as the set-up took, however
\* often the list has been sent in between.
THEOREM TargetsAreFresh == Spec => NotStale
<1> DEFINE Fresh(n) == pub[n].st = "free" /\ pub'[n].st = "attached" =>
                         \A t \in pub'[n].list : now' < setup'[t] + Ttl + SetupTime
<1>1. IInv /\ [Next]_vars => [\A n \in Nodes : Fresh(n)]_vars
  <2> SUFFICES ASSUME IInv, [Next]_vars, NEW n \in Nodes,
                      pub[n].st = "free", pub'[n].st = "attached", NEW t \in pub'[n].list
               PROVE  now' < setup'[t] + Ttl + SetupTime
    OBVIOUS
  <2>1. Ttl \in Nat \ {0} /\ SetupTime \in Nat /\ MaxTime \in Nat /\ now \in 0..MaxTime
    BY JbofAssumption DEF JbofAssumption, IInv, TypeOK
  <2>2. \E c \in Classes : ControllerPublish(n, c)
    <3>1. CASE \E m \in Nodes : NodePublish(m)
      BY <3>1 DEF NodePublish, IInv, TypeOK
    <3>2. CASE \E m \in Nodes : Unpublish(m)
      BY <3>2 DEF Unpublish, Free, IInv, TypeOK
    <3>3. CASE Tick \/ UNCHANGED vars
      BY <3>3 DEF Tick, vars
    <3>4. ASSUME NEW m \in Nodes, NEW c \in Classes, ControllerPublish(m, c) PROVE m = n
      <4>1. pub' = pub \/ \E list : Attached(m, c, list)
        BY <3>4, PublishWays
      <4> QED BY <4>1 DEF Attached, IInv, TypeOK
    <3> QED BY <3>1, <3>2, <3>3, <3>4 DEF Next
  <2>3. PICK c \in Classes : ControllerPublish(n, c)
    BY <2>2
  <2>4. CASE Cached(n) /\ Attached(n, c, last.list) /\ UNCHANGED <<now, last, setup>>
    <3>1. t \in last.list
      BY <2>4 DEF Attached, IInv, TypeOK
    <3>2. /\ last.time \in 0..MaxTime /\ setup[t] # None /\ last.time <= setup[t] + SetupTime
          /\ now - last.time < Ttl
      BY <2>4, <3>1 DEF Cached, IInv, TypeOK, Memory
    <3>3. t \in Target
      BY <3>1 DEF IInv, TypeOK
    <3>4. setup[t] \in 0..MaxTime
      BY <3>2, <3>3 DEF IInv, TypeOK
    <3> QED BY <2>1, <2>4, <3>2, <3>4
  <2>5. ASSUME NEW done \in SUBSET Jbofs, NEW answers \in SUBSET done,
               SetUp(done, n), Attached(n, c, answers \X {n})
        PROVE  now' < setup'[t] + Ttl + SetupTime
    <3>1. t \in answers \X {n}
      BY <2>5 DEF Attached, IInv, TypeOK
    <3>2. t \in Target /\ t \in done \X {n}
      BY <3>1 DEF Target
    <3>3. /\ now' \in 0..MaxTime /\ now' <= now + SetupTime
          /\ setup'[t] \in (0..MaxTime) \cup {None} /\ setup'[t] # None /\ now <= setup'[t]
      BY <2>5, <3>2, AfterSetUp
    <3> QED BY <2>1, <3>3
  <2>6. ~(pub' = pub)
    OBVIOUS
  <2> QED BY <2>3, <2>4, <2>5, <2>6, PublishWays
<1> QED BY <1>1, Invariance, PTL DEF Spec, NotStale
==============================================================================

------------------------ MODULE ProvisioningProofs ------------------------
(***************************************************************************)
(* Proofs about Provisioning, for any names, requests, sizes and faults.   *)
(* Two sets of faults are told apart.  Where a drawn LV name cannot repeat *)
(* one that a late lvremove frees, the CO has what it was told it has, and *)
(* nothing vanishes unasked.  Where lookups work and no command is late, a *)
(* name has one volume, and a reported deletion has happened.              *)
(***************************************************************************)
EXTENDS Provisioning, FiniteSetTheorems, TLAPS

\* A name that is drawn although an LV has it is not freed before lvcreate.
NoRepeatedName == ~("draw" \in Faults /\ "late" \in Faults)

\* What the CO holds of a name: the id and the request of its volume, from the
\* response to CreateVolume on.
Records ==
  \A n \in Names :
    /\ co[n].st \in {"none", "creating"} <=> co[n].id = None
    /\ co[n].id # None => /\ co[n].id \in used
                          /\ co[n].req \in Reqs
                          /\ co[n].req.name = n

\* An id belongs to one name: the tag of its LV, while there is one.
Owners ==
  /\ \A id \in Ids : Exists(id) => id \in used
  /\ \A n \in Names : \A id \in Ids : co[n].id = id /\ Exists(id) => lv[id].name = n
  /\ \A m, n \in Names : co[m].id = co[n].id /\ co[n].id # None => m = n

\* A late lvcreate is of an id that nobody has heard of, a late lvremove of
\* one whose deletion was asked for.
LateCreate(c) ==
  /\ c.id \in used /\ ~Exists(c.id)
  /\ \A n \in Names : co[n].id # c.id
LateRemove(c) ==
  \E n \in Names : co[n].id = c.id /\ co[n].st \in {"deleting", "gone"}
LateCommands ==
  /\ "late" \notin Faults => late = {}
  /\ \A c \in late : c.op = "lvcreate" => LateCreate(c)
  /\ \A c \in late : c.op = "lvremove" => LateRemove(c)
  /\ \A c, d \in late : c.op = "lvcreate" /\ d.op = "lvcreate" /\ c.id = d.id => c = d

\* What the handler relies on at each point.
Creating == {"find", "reuse", "pick", "size", "create", "wipe", "deactivate", "attributes"}
Having == {"reuse", "wipe", "deactivate", "attributes"}
Deleting == {"lookup", "remove"}

Handler ==
  /\ h.pc # "idle" => h.req \in Reqs
  /\ h.pc \in Creating => co[h.req.name].st = "creating"
  /\ h.pc \in {"size", "create"} =>
       h.id \in Ids /\ (h.id \notin used \/ ("draw" \in Faults /\ Exists(h.id)))
  /\ h.pc = "create" => Satisfies(h.size, h.req)
  /\ h.pc \in Having =>
       /\ h.id \in Ids /\ Exists(h.id)
       /\ lv[h.id].name = h.req.name /\ Satisfies(lv[h.id].size, h.req)
  /\ h.pc \in Deleting =>
       /\ co[h.req.name].st = "deleting"
       /\ h.id = co[h.req.name].id /\ h.req = co[h.req.name].req

\* The types of TypeOK, one at a time.
HandlerType(x) ==
  x \in [pc : Creating \cup Deleting \cup {"idle"}, req : Reqs \cup {None},
         id : Ids \cup {None}, size : Nat, tries : 0..(MaxTries - 1)]
CoType == [st : {"none", "creating", "bound", "deleting", "gone"},
           id : Ids \cup {None}, req : Reqs \cup {None},
           context : {"none", "tags", "tags+datapath"}]

\* The inductive invariant.
IInv == TypeOK /\ Records /\ Owners /\ LateCommands /\ Handler /\ BoundVolumeExists

\* With lookups that work and no late commands: the LVs of a name are one, none
\* while CreateVolume is about to make one, and the CO's once it has an id.
OneEach ==
  /\ \A n \in Names : \A i, j \in Tagged(n) : i = j
  /\ h.pc \in {"pick", "size", "create"} => Tagged(h.req.name) = {}
  /\ \A n \in Names : co[n].id # None => Tagged(n) \subseteq {co[n].id}

LookupsWork == "lookup" \notin Faults /\ "late" \notin Faults

SInv == IInv /\ OneEach /\ DeletedVolumeIsGone

-----------------------------------------------------------------------------
(* Operators *)

\* Rounding up to an extent does not make a size smaller.
LEMMA RoundUpProperties ==
  ASSUME NEW s \in Nat
  PROVE  RoundUp(s) \in Nat /\ RoundUp(s) >= s
<1>1. ExtentSize \in Nat /\ ExtentSize > 0
  BY ConstantsAssumption
<1>2. CASE s % ExtentSize # 0
  <2> DEFINE t == s + ExtentSize
             q == t \div ExtentSize
  <2>1. t \in Nat
    BY <1>1
  <2>2. q * ExtentSize \in Nat /\ q * ExtentSize > t - ExtentSize
    BY <1>1, <2>1
  <2> QED BY <1>1, <1>2, <2>1, <2>2 DEF RoundUp
<1>3. CASE s % ExtentSize = 0
  BY <1>3 DEF RoundUp
<1> QED BY <1>2, <1>3

\* A fault is counted within its bound.
LEMMA FaultCounted ==
  ASSUME TypeOK, NEW kind, Fault(kind)
  PROVE  faults' \in 0..MaxFaults /\ kind \in Faults
BY ConstantsAssumption DEF Fault, TypeOK

\* A request has a name; the one the handler executes is one.
LEMMA RequestType ==
  ASSUME NEW r \in Reqs
  PROVE  /\ r \in Request /\ r.name \in Names /\ r # None
         /\ r.required \in Nat /\ r.limit \in Nat /\ r.ranged \in BOOLEAN
BY ConstantsAssumption DEF Request

\* No LV is None.
LEMMA NoneIsNoLV == None \notin LV
BY ConstantsAssumption DEF LV

-----------------------------------------------------------------------------
(* The invariant, by what a step changes *)

\* The handler returns and has told the CO nothing.
LEMMA QuitIInv ==
  ASSUME IInv, h' = Idle, UNCHANGED <<lv, used, late, co>>, faults' \in 0..MaxFaults
  PROVE  IInv'
<1>1. TypeOK'
  BY ConstantsAssumption DEF IInv, TypeOK, Idle
<1>2. Handler'
  BY DEF Handler, Idle, Creating, Having, Deleting
<1>3. Records' /\ Owners' /\ LateCommands' /\ BoundVolumeExists'
  BY DEF IInv, Records, Owners, LateCommands, LateCreate, LateRemove,
         BoundVolumeExists, Exists
<1> QED BY <1>1, <1>2, <1>3 DEF IInv

\* The handler goes on, having changed nothing but what it knows itself.
LEMMA GoOnIInv ==
  ASSUME IInv, UNCHANGED <<lv, used, late, co>>, TypeOK', Handler'
  PROVE  IInv'
BY DEF IInv, Records, Owners, LateCommands, LateCreate, LateRemove,
       BoundVolumeExists, Exists

\* The CO learns that the volume it asked for is there.
LEMMA BoundIInv ==
  ASSUME IInv, h.pc \in {"reuse", "attributes"}, h' = Idle,
         UNCHANGED <<lv, used, late>>, faults' \in 0..MaxFaults,
         NEW context \in {"tags", "tags+datapath"},
         co' = [co EXCEPT ![h.req.name] =
                  [st |-> "bound", id |-> h.id, req |-> h.req, context |-> context]]
  PROVE  IInv'
<1> DEFINE n == h.req.name
<1>1. /\ h.req \in Reqs /\ n \in Names /\ h.id \in Ids /\ h.id \in used
      /\ Exists(h.id) /\ lv[h.id].name = n /\ Satisfies(lv[h.id].size, h.req)
      /\ co[n].st = "creating" /\ co[n].id = None
  BY RequestType DEF IInv, Handler, Creating, Having, Owners, Records
<1>2. /\ co'[n] = [st |-> "bound", id |-> h.id, req |-> h.req, context |-> context]
      /\ \A m \in Names : m # n => co'[m] = co[m]
  BY <1>1 DEF IInv, TypeOK
<1>3. h.id # None
  BY <1>1, ConstantsAssumption
<1> HIDE DEF n
<1>4. TypeOK'
  BY <1>1, ConstantsAssumption DEF n, IInv, TypeOK, Idle
<1>5. Records'
  BY <1>1, <1>2, <1>3 DEF n, IInv, Records
<1>6. Owners'
  <2>1. \A m \in Names : co[m].id = h.id => m = n
    BY <1>1 DEF IInv, Owners
  <2> QED BY <1>1, <1>2, <2>1 DEF IInv, Owners, Exists
<1>7. LateCommands'
  <2>1. ASSUME NEW c \in late, c.op = "lvcreate" PROVE LateCreate(c)'
    BY <1>1, <1>2, <2>1 DEF IInv, LateCommands, LateCreate, Exists
  <2>2. ASSUME NEW c \in late, c.op = "lvremove" PROVE LateRemove(c)'
    BY <1>1, <1>2, <2>2 DEF IInv, LateCommands, LateRemove
  <2> QED BY <2>1, <2>2 DEF IInv, LateCommands
<1>8. Handler'
  BY DEF Handler, Idle, Creating, Having, Deleting
<1>9. BoundVolumeExists'
  BY <1>1, <1>2 DEF IInv, BoundVolumeExists, Exists, Satisfies
<1> QED BY <1>4, <1>5, <1>6, <1>7, <1>8, <1>9 DEF IInv

\* The CO learns that a volume is deleted, whether it is or not.
LEMMA GoneIInv ==
  ASSUME IInv, h.pc \in Deleting, h' = Idle, UNCHANGED <<lv, used, late>>,
         faults' \in 0..MaxFaults,
         co' = [co EXCEPT ![h.req.name] = Gone(h.req.name)]
  PROVE  IInv'
<1> DEFINE n == h.req.name
<1>1. n \in Names /\ co[n].st = "deleting"
  BY RequestType DEF IInv, Handler, Deleting
<1>2. /\ co'[n].st = "gone" /\ co'[n].id = co[n].id /\ co'[n].req = co[n].req
      /\ \A m \in Names : m # n => co'[m] = co[m]
  BY <1>1 DEF IInv, TypeOK, Gone
<1>3. TypeOK'
  BY <1>1, ConstantsAssumption DEF n, IInv, TypeOK, Idle, Gone
<1> HIDE DEF n
<1>4. \A m \in Names : /\ co'[m].id = co[m].id /\ co'[m].req = co[m].req
                       /\ co'[m].st = co[m].st \/ (co[m].st = "deleting" /\ co'[m].st = "gone")
  BY <1>1, <1>2
<1>5. Records' /\ Owners'
  BY <1>4 DEF IInv, Records, Owners, Exists
<1>6. LateCommands'
  BY <1>4 DEF IInv, LateCommands, LateCreate, LateRemove, Exists
<1>7. Handler'
  BY DEF Handler, Idle, Creating, Having, Deleting
<1>8. BoundVolumeExists'
  BY <1>4 DEF IInv, BoundVolumeExists, Exists, Satisfies
<1> QED BY <1>3, <1>5, <1>6, <1>7, <1>8 DEF IInv

\* lvcreate has made the LV: of an id that nothing else refers to.
LEMMA MadeIInv ==
  ASSUME IInv, h.pc = "create", CanCreate(h.id, h.size),
         lv' = [lv EXCEPT ![h.id] = NewLV(h.req.name, h.size)],
         used' = used \cup {h.id}, UNCHANGED <<late, co>>, faults' \in 0..MaxFaults,
         h' = [h EXCEPT !.pc = "wipe"] \/ h' = Idle
  PROVE  IInv'
<1> DEFINE new == NewLV(h.req.name, h.size)
<1>1. /\ h.req \in Reqs /\ h.req.name \in Names /\ h.id \in Ids /\ h.id \notin used
      /\ ~Exists(h.id) /\ Satisfies(h.size, h.req) /\ co[h.req.name].st = "creating"
  BY RequestType DEF IInv, Handler, Creating, CanCreate
<1>2. /\ new \in LV /\ new # None /\ new.name = h.req.name /\ new.size = h.size
  <2>1. new \in LV /\ new.name = h.req.name /\ new.size = h.size
    BY <1>1 DEF NewLV, LV, IInv, TypeOK
  <2> QED BY <2>1, NoneIsNoLV
<1> HIDE DEF new
<1>3. /\ lv'[h.id] = new
      /\ \A id \in Ids : id # h.id => lv'[id] = lv[id]
  BY <1>1 DEF IInv, TypeOK, new
<1>4. TypeOK'
  BY <1>1, <1>2, ConstantsAssumption DEF IInv, TypeOK, Idle, new
<1>5. Records'
  BY DEF IInv, Records
<1>6. \A n \in Names : co[n].id # h.id
  BY <1>1, ConstantsAssumption DEF IInv, Records
<1>7. Owners'
  BY <1>1, <1>2, <1>3, <1>6 DEF IInv, Owners, Exists
<1>8. LateCommands'
  <2>1. ASSUME NEW c \in late, c.op = "lvcreate" PROVE LateCreate(c)'
    <3>1. c.id \in used /\ c.id \in Ids /\ lv[c.id] = None
      BY <2>1 DEF IInv, LateCommands, LateCreate, Exists, TypeOK
    <3> QED BY <1>1, <1>3, <2>1, <3>1 DEF IInv, LateCommands, LateCreate, Exists
  <2> QED BY <2>1 DEF IInv, LateCommands, LateRemove
<1>9. Handler'
  BY <1>1, <1>2, <1>3 DEF IInv, TypeOK, Handler, Idle, Creating, Having, Deleting, Exists
<1>10. BoundVolumeExists'
  BY <1>3, <1>6, ConstantsAssumption DEF IInv, TypeOK, Records, BoundVolumeExists, Exists, Satisfies
<1> QED BY <1>4, <1>5, <1>7, <1>8, <1>9, <1>10 DEF IInv

\* lvcreate is left to StoLake.
LEMMA LateCreateIInv ==
  ASSUME NoRepeatedName, IInv, h.pc = "create", "late" \in Faults,
         late' = late \cup {[op |-> "lvcreate", id |-> h.id, lv |-> NewLV(h.req.name, h.size)]},
         used' = used \cup {h.id}, h' = Idle, UNCHANGED <<lv, co>>, faults' \in 0..MaxFaults
  PROVE  IInv'
<1>0. PICK new : new = [op |-> "lvcreate", id |-> h.id, lv |-> NewLV(h.req.name, h.size)]
  OBVIOUS
<1>1. h.req \in Reqs /\ h.req.name \in Names /\ h.id \in Ids /\ h.id \notin used
  BY RequestType DEF IInv, Handler, Creating, NoRepeatedName
<1>2. new \in Command /\ new.op = "lvcreate" /\ new.id = h.id
  BY <1>0, <1>1 DEF NewLV, LV, Command, IInv, TypeOK
<1>3. TypeOK'
  BY <1>0, <1>1, <1>2, ConstantsAssumption DEF IInv, TypeOK, Idle
<1>4. Records' /\ Owners'
  BY DEF IInv, Records, Owners, Exists
<1>5. LateCommands'
  <2>1. LateCreate(new)'
    BY <1>1, <1>2, ConstantsAssumption DEF IInv, Records, Owners, LateCreate, Exists
  <2>2. \A c \in late : c.op = "lvcreate" => LateCreate(c)' /\ c.id # new.id
    BY <1>1, <1>2 DEF IInv, LateCommands, LateCreate, Exists
  <2>3. late' = late \cup {new}
    BY <1>0
  <2> QED BY <1>2, <2>1, <2>2, <2>3 DEF IInv, LateCommands, LateRemove
<1>6. Handler'
  BY DEF Handler, Idle, Creating, Having, Deleting
<1>7. BoundVolumeExists'
  BY DEF IInv, BoundVolumeExists, Exists
<1> QED BY <1>3, <1>4, <1>5, <1>6, <1>7 DEF IInv

\* wipefs and lvchange leave an LV its name and its size.
LEMMA TouchedIInv ==
  ASSUME IInv, h.pc \in Having, lv' \in [Ids -> LV \cup {None}],
         \A id \in Ids : /\ Exists(id)' = Exists(id)
                         /\ Exists(id) => /\ lv'[id].name = lv[id].name
                                          /\ lv'[id].size = lv[id].size,
         NEW pc \in Having, h' = [h EXCEPT !.pc = pc],
         UNCHANGED <<used, late, co>>, faults' \in 0..MaxFaults
  PROVE  IInv'
<1>1. TypeOK'
  BY DEF IInv, TypeOK, Having
<1>2. Records'
  BY DEF IInv, Records
<1>3. Owners'
  BY DEF IInv, Owners
<1>4. LateCommands'
  BY DEF IInv, TypeOK, Command, LateCommands, LateCreate, LateRemove
<1>5. Handler'
  <2>1. h'.pc = pc /\ h'.req = h.req /\ h'.id = h.id
    BY DEF IInv, TypeOK
  <2> QED BY <2>1 DEF IInv, Handler, Creating, Having, Deleting
<1>6. BoundVolumeExists'
  <2>1. \A n \in Names : co[n].st = "bound" => co[n].id \in Ids
    BY DEF IInv, TypeOK, Records
  <2> QED BY <2>1 DEF IInv, BoundVolumeExists
<1> QED BY <1>1, <1>2, <1>3, <1>4, <1>5, <1>6 DEF IInv

\* lvremove has removed the LV whose deletion the CO asked for; whether or not it
\* is told.
LEMMA RemovedIInv ==
  ASSUME IInv, h.pc = "remove", Exists(h.id), lv' = [lv EXCEPT ![h.id] = None],
         h' = Idle, UNCHANGED <<used, late>>, faults' \in 0..MaxFaults,
         co' = co \/ co' = [co EXCEPT ![h.req.name] = Gone(h.req.name)]
  PROVE  IInv'
<1> DEFINE n == h.req.name
<1>1. /\ n \in Names /\ co[n].st = "deleting" /\ h.id = co[n].id /\ h.id \in Ids
  BY RequestType DEF IInv, Handler, Deleting, Records, TypeOK
<1>2. TypeOK'
  BY <1>1, ConstantsAssumption DEF n, IInv, TypeOK, Idle, Gone
<1>3. \A m \in Names : /\ co'[m].id = co[m].id /\ co'[m].req = co[m].req
                       /\ co'[m].st = co[m].st \/ (co[m].st = "deleting" /\ co'[m].st = "gone")
  BY <1>1 DEF IInv, TypeOK, Gone
<1> HIDE DEF n
<1>4. \A id \in Ids : lv'[id] = IF id = h.id THEN None ELSE lv[id]
  BY <1>1 DEF IInv, TypeOK
<1>5. Records'
  BY <1>3 DEF IInv, Records
<1>6. Owners'
  BY <1>3, <1>4 DEF IInv, Owners, Exists
<1>7. LateCommands'
  <2>1. \A c \in late : c.id \in Ids
    BY DEF IInv, TypeOK, Command
  <2> QED BY <1>3, <1>4, <2>1 DEF IInv, LateCommands, LateCreate, LateRemove, Exists
<1>8. Handler'
  BY DEF Handler, Idle, Creating, Having, Deleting
<1>9. BoundVolumeExists'
  <2> SUFFICES ASSUME NEW m \in Names, co'[m].st = "bound"
               PROVE  /\ lv'[co'[m].id] # None /\ lv'[co'[m].id].name = m
                      /\ Satisfies(lv'[co'[m].id].size, co'[m].req)
    BY DEF BoundVolumeExists, Exists, Satisfies
  <2>1. co[m].st = "bound" /\ co[m].id # None /\ co[m].id \in Ids
    BY <1>3 DEF IInv, Records, TypeOK
  <2>2. co[m].id # h.id
    BY <1>1, <2>1 DEF IInv, Owners
  <2> QED BY <1>3, <1>4, <2>1, <2>2 DEF IInv, BoundVolumeExists, Exists
<1> QED BY <1>2, <1>5, <1>6, <1>7, <1>8, <1>9 DEF IInv

\* StoLake makes the LV of a command that was given up.
LEMMA LateMadeIInv ==
  ASSUME NoRepeatedName, IInv, NEW c \in late, c.op = "lvcreate", ~Exists(c.id),
         lv' = [lv EXCEPT ![c.id] = c.lv], late' = late \ {c},
         UNCHANGED <<used, h, co, faults>>
  PROVE  IInv'
<1>1. /\ c.id \in Ids /\ c.lv \in LV /\ c.lv # None /\ c.id \in used
      /\ \A n \in Names : co[n].id # c.id
  <2>1. c \in [op : {"lvcreate"}, id : Ids, lv : LV]
    BY DEF IInv, TypeOK, Command
  <2> QED BY <2>1, NoneIsNoLV DEF IInv, LateCommands, LateCreate
<1>2. \A id \in Ids : lv'[id] = IF id = c.id THEN c.lv ELSE lv[id]
  BY <1>1 DEF IInv, TypeOK
<1>3. TypeOK'
  BY <1>1 DEF IInv, TypeOK
<1>4. Records'
  BY DEF IInv, Records
<1>5. Owners'
  BY <1>1, <1>2 DEF IInv, Owners, Exists
<1>6. LateCommands'
  <2>1. \A d \in late : d.id \in Ids
    BY DEF IInv, TypeOK, Command
  <2>2. \A d \in late' : d.op = "lvcreate" => d.id # c.id
    BY DEF IInv, LateCommands
  <2> QED BY <1>2, <2>1, <2>2 DEF IInv, LateCommands, LateCreate, LateRemove, Exists
<1>7. Handler'
  <2>1. h.pc \in Having => h.id # c.id
    BY DEF IInv, Handler
  <2> QED BY <1>1, <1>2, <2>1 DEF IInv, Handler, Exists, Satisfies
<1>8. BoundVolumeExists'
  <2>1. \A n \in Names : co[n].st = "bound" => co[n].id \in Ids
    BY DEF IInv, TypeOK, Records
  <2> QED BY <1>1, <1>2, <2>1 DEF IInv, BoundVolumeExists, Exists, Satisfies
<1> QED BY <1>3, <1>4, <1>5, <1>6, <1>7, <1>8 DEF IInv

\* StoLake removes the LV of a command that was given up: no handler has it, and
\* no name is bound to it.
LEMMA LateRemovedIInv ==
  ASSUME NoRepeatedName, IInv, NEW c \in late, c.op = "lvremove",
         lv' = [lv EXCEPT ![c.id] = None], late' = late \ {c},
         UNCHANGED <<used, h, co, faults>>
  PROVE  IInv'
<1>1. c.id \in Ids /\ c.id # None
  BY ConstantsAssumption DEF IInv, TypeOK, Command
<1>2. PICK n \in Names : co[n].id = c.id /\ co[n].st \in {"deleting", "gone"}
  BY DEF IInv, LateCommands, LateRemove
<1>3. \A id \in Ids : lv'[id] = IF id = c.id THEN None ELSE lv[id]
  BY <1>1 DEF IInv, TypeOK
<1>4. TypeOK'
  BY <1>1 DEF IInv, TypeOK
<1>5. Records'
  BY DEF IInv, Records
<1>6. Owners'
  BY <1>3 DEF IInv, Owners, Exists
<1>7. LateCommands'
  <2>1. \A d \in late : d.id \in Ids
    BY DEF IInv, TypeOK, Command
  <2> QED BY <1>3, <2>1 DEF IInv, LateCommands, LateCreate, LateRemove, Exists
<1>8. Handler'
  <2>1. h.pc \in Having => h.id # c.id
    BY <1>1, <1>2 DEF IInv, Handler, Having, Creating, Owners
  <2>2. "draw" \notin Faults
    BY DEF NoRepeatedName, IInv, LateCommands
  <2> QED BY <1>3, <2>1, <2>2 DEF IInv, Handler, Exists, Satisfies
<1>9. BoundVolumeExists'
  <2>1. \A m \in Names : co[m].st = "bound" => co[m].id \in Ids /\ co[m].id # c.id
    BY <1>1, <1>2 DEF IInv, TypeOK, Records, Owners
  <2> QED BY <1>3, <2>1 DEF IInv, BoundVolumeExists, Exists, Satisfies
<1> QED BY <1>4, <1>5, <1>6, <1>7, <1>8, <1>9 DEF IInv

-----------------------------------------------------------------------------
(* The invariant, action by action *)

\* A CreateVolume begins.
LEMMA CreateVolumeIInv ==
  ASSUME IInv, NEW r \in Reqs, CreateVolume(r) PROVE IInv'
<1>1. r.name \in Names /\ co[r.name].id = None
  BY RequestType DEF IInv, Records, CreateVolume
<1>2. TypeOK'
  <2>0. h' = [pc |-> "find", req |-> r, id |-> None, size |-> 0, tries |-> 0]
    BY DEF CreateVolume, Idle
  <2>1. HandlerType(h')
    BY <1>1, <2>0, ConstantsAssumption DEF IInv, TypeOK, HandlerType, Creating, Deleting
  <2>2. co' \in [Names -> CoType]
    BY <1>1 DEF IInv, TypeOK, CreateVolume, CoType
  <2> QED BY <2>1, <2>2 DEF IInv, TypeOK, CreateVolume, HandlerType, CoType, Creating, Deleting
<1>3. \A m \in Names : /\ co'[m].id = co[m].id /\ co'[m].req = co[m].req
                       /\ co'[m].st = IF m = r.name THEN "creating" ELSE co[m].st
  BY <1>1 DEF IInv, TypeOK, CreateVolume
<1>4. UNCHANGED <<lv, used, late>> /\ h'.pc = "find" /\ h'.req = r
  BY DEF CreateVolume, Idle
<1>5. Records' /\ Owners'
  BY <1>1, <1>3, <1>4 DEF IInv, Records, Owners, Exists
<1>6. LateCommands'
  <2>1. \A c \in late : c.id # None
    BY ConstantsAssumption DEF IInv, TypeOK, Command
  <2> QED BY <1>1, <1>3, <1>4, <2>1 DEF IInv, LateCommands, LateCreate, LateRemove, Exists
<1>7. Handler'
  BY <1>1, <1>3, <1>4 DEF Handler, Creating, Having, Deleting
<1>8. BoundVolumeExists'
  BY <1>3, <1>4 DEF IInv, BoundVolumeExists, Exists, Satisfies
<1> QED BY <1>2, <1>5, <1>6, <1>7, <1>8 DEF IInv

\* A DeleteVolume begins, of an id that the CO was given.
LEMMA DeleteVolumeIInv ==
  ASSUME IInv, NEW n \in Names, DeleteVolume(n) PROVE IInv'
<1>1. co[n].id # None /\ co[n].req \in Reqs /\ co[n].req.name = n
  BY DEF IInv, Records, DeleteVolume
<1>2. TypeOK'
  <2>0. h' = [pc |-> "lookup", req |-> co[n].req, id |-> co[n].id, size |-> 0, tries |-> 0]
    BY DEF DeleteVolume, Idle
  <2>1. HandlerType(h')
    BY <1>1, <2>0, ConstantsAssumption DEF IInv, TypeOK, HandlerType, Creating, Deleting
  <2>2. co' \in [Names -> CoType]
    BY <1>1 DEF IInv, TypeOK, DeleteVolume, CoType
  <2> QED BY <2>1, <2>2 DEF IInv, TypeOK, DeleteVolume, HandlerType, CoType, Creating, Deleting
<1>3. \A m \in Names : /\ co'[m].id = co[m].id /\ co'[m].req = co[m].req
                       /\ co'[m].st = IF m = n THEN "deleting" ELSE co[m].st
  BY DEF IInv, TypeOK, DeleteVolume
<1>4. /\ UNCHANGED <<lv, used, late>>
      /\ h'.pc = "lookup" /\ h'.req = co[n].req /\ h'.id = co[n].id
  BY DEF DeleteVolume, Idle
<1>5. Records' /\ Owners'
  BY <1>1, <1>3, <1>4 DEF IInv, Records, Owners, Exists
<1>6. LateCommands'
  BY <1>3, <1>4 DEF IInv, LateCommands, LateCreate, LateRemove, Exists
<1>7. Handler'
  BY <1>1, <1>3, <1>4 DEF Handler, Creating, Having, Deleting
<1>8. BoundVolumeExists'
  BY <1>3, <1>4 DEF IInv, BoundVolumeExists, Exists, Satisfies
<1> QED BY <1>2, <1>5, <1>6, <1>7, <1>8 DEF IInv

\* FindLogicalVolume finds a volume of the name, or goes on without.
LEMMA FindIInv ==
  ASSUME IInv, Find PROVE IInv'
<1>1. h.pc = "find" /\ faults \in 0..MaxFaults
  BY DEF Find, IInv, TypeOK
<1>2. ASSUME Goto("pick"), faults' \in 0..MaxFaults PROVE IInv'
  <2>1. TypeOK'
    BY <1>2 DEF Goto, IInv, TypeOK
  <2>2. Handler'
    BY <1>1, <1>2 DEF Goto, IInv, TypeOK, Handler, Creating, Having, Deleting
  <2> QED BY <1>2, <2>1, <2>2, GoOnIInv DEF Goto
<1>3. ASSUME NEW id \in Tagged(h.req.name), Satisfies(lv[id].size, h.req),
             h' = [h EXCEPT !.pc = "reuse", !.id = id],
             UNCHANGED <<lv, used, late, co, faults>>
      PROVE  IInv'
  <2>1. id \in Ids /\ Exists(id) /\ lv[id].name = h.req.name
    BY DEF Tagged, Existing
  <2>2. TypeOK'
    BY <1>3, <2>1 DEF IInv, TypeOK
  <2>3. h'.pc = "reuse" /\ h'.id = id /\ h'.req = h.req
    BY <1>3 DEF IInv, TypeOK
  <2>4. Handler'
    BY <1>1, <1>3, <2>1, <2>3 DEF IInv, Handler, Creating, Having, Deleting, Exists, Satisfies
  <2> QED BY <1>3, <2>2, <2>4, GoOnIInv
<1>4. ASSUME Fail, UNCHANGED faults PROVE IInv'
  BY <1>1, <1>4, QuitIInv DEF Fail
<1>5. ASSUME Fault("lookup") PROVE faults' \in 0..MaxFaults
  BY <1>5, FaultCounted DEF IInv
<1>6. ASSUME UNCHANGED faults PROVE faults' \in 0..MaxFaults
  BY <1>1, <1>6
<1> QED BY <1>2, <1>3, <1>4, <1>5, <1>6 DEF Find

\* CreateVolume returns the volume, of which the CO learns unless it is lost.
LEMMA ReturnIInv ==
  ASSUME IInv, Reuse \/ Attributes PROVE IInv'
<1>1. ASSUME NEW kind, Fault(kind) PROVE faults' \in 0..MaxFaults
  BY <1>1, FaultCounted DEF IInv
<1>2. ASSUME Fault("query"), Fail PROVE IInv'
  BY <1>1, <1>2, QuitIInv DEF Fail
<1>3. ASSUME h.pc \in {"reuse", "attributes"}, NEW context \in {"tags", "tags+datapath"},
             Succeed(h.req.name, [st |-> "bound", id |-> h.id, req |-> h.req,
                                  context |-> context])
      PROVE  IInv'
  <2>1. CASE UNCHANGED co /\ Fault("lost")
    BY <1>1, <1>3, <2>1, QuitIInv DEF Succeed
  <2>2. CASE UNCHANGED faults /\
             co' = [co EXCEPT ![h.req.name] =
                      [st |-> "bound", id |-> h.id, req |-> h.req, context |-> context]]
    <3>1. faults' \in 0..MaxFaults
      BY <2>2 DEF IInv, TypeOK
    <3> QED BY <1>3, <2>2, <3>1, BoundIInv DEF Succeed
  <2> QED BY <1>3, <2>1, <2>2 DEF Succeed
<1> QED BY <1>2, <1>3 DEF Reuse, Attributes

\* A name is drawn, or its lookup fails, or the draws are used up.
LEMMA PickIInv ==
  ASSUME IInv, PickFresh \/ PickTaken PROVE IInv'
<1>1. h.pc = "pick" /\ UNCHANGED <<lv, used, late, co>>
  BY DEF PickFresh, PickTaken
<1>2. ASSUME NEW id \in Ids, h' = [h EXCEPT !.pc = "size", !.id = id],
             id \notin used \/ ("draw" \in Faults /\ Exists(id)), faults' \in 0..MaxFaults
      PROVE  IInv'
  <2>1. TypeOK'
    BY <1>1, <1>2 DEF IInv, TypeOK
  <2>2. h'.pc = "size" /\ h'.id = id /\ h'.req = h.req
    BY <1>2 DEF IInv, TypeOK
  <2>3. Handler'
    BY <1>1, <1>2, <2>2 DEF IInv, Handler, Creating, Having, Deleting, Exists
  <2> QED BY <1>1, <2>1, <2>3, GoOnIInv
<1>3. ASSUME h' = [h EXCEPT !.tries = @ + 1], h.tries + 1 < MaxTries, UNCHANGED faults
      PROVE  IInv'
  <2>1. TypeOK'
    BY <1>1, <1>3, ConstantsAssumption DEF IInv, TypeOK
  <2>2. h'.pc = "pick" /\ h'.req = h.req
    BY <1>1, <1>3 DEF IInv, TypeOK
  <2>3. Handler'
    BY <1>1, <2>2 DEF IInv, Handler, Creating, Having, Deleting
  <2> QED BY <1>1, <2>1, <2>3, GoOnIInv
<1>4. ASSUME h' = Idle, UNCHANGED faults PROVE IInv'
  <2>1. faults' \in 0..MaxFaults
    BY <1>4 DEF IInv, TypeOK
  <2> QED BY <1>1, <1>4, <2>1, QuitIInv
<1>5. CASE PickFresh
  <2>1. faults' \in 0..MaxFaults
    BY <1>5 DEF IInv, TypeOK, PickFresh
  <2> QED BY <1>2, <1>5, <2>1 DEF PickFresh
<1>6. CASE PickTaken
  <2>1. PICK id \in Existing :
             \/ Fault("draw") /\ h' = [h EXCEPT !.pc = "size", !.id = id]
             \/ h.tries + 1 < MaxTries /\ h' = [h EXCEPT !.tries = @ + 1] /\ UNCHANGED faults
             \/ h' = Idle /\ UNCHANGED faults
    BY <1>6 DEF PickTaken
  <2>2. ASSUME Fault("draw") PROVE faults' \in 0..MaxFaults /\ "draw" \in Faults
    BY <2>2, FaultCounted DEF IInv
  <2> QED BY <1>2, <1>3, <1>4, <2>1, <2>2 DEF Existing
<1> QED BY <1>5, <1>6

\* The size that is asked for satisfies the request.
LEMMA SizeIInv ==
  ASSUME IInv, Size PROVE IInv'
<1> DEFINE size == IF h.req.ranged THEN RoundUp(h.req.required) ELSE DefaultSize
<1>1. h.pc = "size" /\ h.req \in Reqs
  BY DEF Size, IInv, Handler
<1>2. ASSUME Fail, UNCHANGED faults \/ Fault("query") PROVE IInv'
  <2>1. faults' \in 0..MaxFaults
    BY <1>2, FaultCounted DEF IInv, TypeOK
  <2> QED BY <1>2, <2>1, QuitIInv DEF Fail
<1>3. ASSUME h' = [h EXCEPT !.pc = "create", !.size = size],
             ~(h.req.ranged /\ h.req.limit # 0 /\ size > h.req.limit),
             UNCHANGED <<lv, used, late, co, faults>>
      PROVE  IInv'
  <2>1. size \in Nat /\ (h.req.ranged => size >= h.req.required)
    BY <1>1, RoundUpProperties, RequestType, ConstantsAssumption
  <2>2. Satisfies(size, h.req)
    BY <1>1, <1>3, <2>1, RequestType DEF Satisfies
  <2> HIDE DEF size
  <2>3. TypeOK'
    BY <1>3, <2>1 DEF IInv, TypeOK
  <2>4. h'.pc = "create" /\ h'.id = h.id /\ h'.req = h.req /\ h'.size = size
    BY <1>3 DEF IInv, TypeOK
  <2>5. Handler'
    BY <1>1, <1>3, <2>2, <2>4 DEF IInv, Handler, Creating, Having, Deleting, Exists
  <2> QED BY <1>3, <2>3, <2>5, GoOnIInv
<1> QED BY <1>2, <1>3 DEF Size

\* lvcreate makes the LV, or not, or later.
LEMMA LvCreateIInv ==
  ASSUME NoRepeatedName, IInv, LvCreate PROVE IInv'
<1>1. h.pc = "create" /\ faults \in 0..MaxFaults
  BY DEF LvCreate, IInv, TypeOK
<1>2. ASSUME NEW kind, Fault(kind) PROVE faults' \in 0..MaxFaults /\ kind \in Faults
  BY <1>2, FaultCounted DEF IInv
<1>3. ASSUME CanCreate(h.id, h.size), lv' = [lv EXCEPT ![h.id] = NewLV(h.req.name, h.size)],
             used' = used \cup {h.id}, UNCHANGED <<late, co>>,
             \/ h' = [h EXCEPT !.pc = "wipe"] /\ UNCHANGED faults
             \/ h' = Idle /\ Fault("timeout")
      PROVE  IInv'
  <2>1. faults' \in 0..MaxFaults
    BY <1>1, <1>2, <1>3
  <2> QED BY <1>1, <1>3, <2>1, MadeIInv
<1>4. ASSUME Fail, UNCHANGED faults \/ Fault("change") PROVE IInv'
  <2>1. faults' \in 0..MaxFaults
    BY <1>1, <1>2, <1>4
  <2> QED BY <1>4, <2>1, QuitIInv DEF Fail
<1>5. ASSUME Fault("late"), h' = Idle, used' = used \cup {h.id}, UNCHANGED <<lv, co>>,
             late' = late \cup {[op |-> "lvcreate", id |-> h.id,
                                 lv |-> NewLV(h.req.name, h.size)]}
      PROVE  IInv'
  BY <1>1, <1>2, <1>5, LateCreateIInv
<1> QED BY <1>3, <1>4, <1>5 DEF LvCreate

\* wipefs and lvchange change a flag of the new LV, or nothing.
LEMMA FinishIInv ==
  ASSUME IInv, WipeFs \/ Deactivate PROVE IInv'
<1>1. h.pc \in Having /\ h.id \in Ids /\ lv[h.id] \in LV
  BY NoneIsNoLV DEF WipeFs, Deactivate, IInv, Handler, Having, TypeOK, Exists
<1>2. PICK pc \in Having : h' = [h EXCEPT !.pc = pc]
  BY DEF WipeFs, Deactivate, Having
<1>3. UNCHANGED <<used, late, co>> /\ faults' \in 0..MaxFaults
  BY FaultCounted DEF WipeFs, Deactivate, IInv, TypeOK
<1>4. \/ lv' = lv
      \/ lv' = [lv EXCEPT ![h.id].dirty = FALSE]
      \/ lv' = [lv EXCEPT ![h.id].active = FALSE]
  BY DEF WipeFs, Deactivate
<1>5. PICK x \in LV : /\ x.name = lv[h.id].name /\ x.size = lv[h.id].size
                      /\ lv' = [lv EXCEPT ![h.id] = x]
  <2>1. CASE lv' = lv
    <3>1. lv' = [lv EXCEPT ![h.id] = lv[h.id]]
      BY <1>1, <2>1 DEF IInv, TypeOK
    <3> QED BY <1>1, <3>1
  <2>2. CASE lv' = [lv EXCEPT ![h.id].dirty = FALSE]
    <3>1. [lv[h.id] EXCEPT !.dirty = FALSE] \in LV
      BY <1>1 DEF LV
    <3>2. lv' = [lv EXCEPT ![h.id] = [lv[h.id] EXCEPT !.dirty = FALSE]]
      BY <1>1, <2>2 DEF IInv, TypeOK
    <3> QED BY <1>1, <3>1, <3>2 DEF LV
  <2>3. CASE lv' = [lv EXCEPT ![h.id].active = FALSE]
    <3>1. [lv[h.id] EXCEPT !.active = FALSE] \in LV
      BY <1>1 DEF LV
    <3>2. lv' = [lv EXCEPT ![h.id] = [lv[h.id] EXCEPT !.active = FALSE]]
      BY <1>1, <2>3 DEF IInv, TypeOK
    <3> QED BY <1>1, <3>1, <3>2 DEF LV
  <2> QED BY <1>4, <2>1, <2>2, <2>3
<1>6. lv' \in [Ids -> LV \cup {None}]
  BY <1>1, <1>5 DEF IInv, TypeOK
<1>7. \A id \in Ids : /\ Exists(id)' = Exists(id)
                      /\ Exists(id) => /\ lv'[id].name = lv[id].name
                                       /\ lv'[id].size = lv[id].size
  BY <1>1, <1>5, NoneIsNoLV DEF IInv, TypeOK, Exists
<1> QED BY <1>1, <1>2, <1>3, <1>6, <1>7, TouchedIInv

\* DeleteVolume finds the LV, or takes it for deleted.
LEMMA LookupIInv ==
  ASSUME IInv, Lookup PROVE IInv'
<1>1. h.pc = "lookup" /\ faults \in 0..MaxFaults
  BY DEF Lookup, IInv, TypeOK
<1>2. ASSUME NEW kind, Fault(kind) PROVE faults' \in 0..MaxFaults
  BY <1>2, FaultCounted DEF IInv
<1>3. CASE Goto("remove") /\ UNCHANGED faults
  <2>1. TypeOK'
    BY <1>3 DEF Goto, IInv, TypeOK
  <2>2. Handler'
    BY <1>1, <1>3 DEF Goto, IInv, TypeOK, Handler, Creating, Having, Deleting
  <2> QED BY <1>3, <2>1, <2>2, GoOnIInv DEF Goto
<1>4. CASE h' = Idle /\ co' = [co EXCEPT ![h.req.name] = Gone(h.req.name)]
           /\ UNCHANGED <<lv, used, late>> /\ faults' \in 0..MaxFaults
  BY <1>1, <1>4, GoneIInv DEF Deleting
<1>5. CASE h' = Idle /\ UNCHANGED <<lv, used, late, co>> /\ faults' \in 0..MaxFaults
  BY <1>5, QuitIInv
<1> QED BY <1>1, <1>2, <1>3, <1>4, <1>5 DEF Lookup, Succeed

\* lvremove removes the LV, or not, or later.
LEMMA RemoveIInv ==
  ASSUME IInv, Remove PROVE IInv'
<1>1. h.pc = "remove" /\ faults \in 0..MaxFaults
  BY DEF Remove, IInv, TypeOK
<1>2. ASSUME NEW kind, Fault(kind) PROVE faults' \in 0..MaxFaults /\ kind \in Faults
  BY <1>2, FaultCounted DEF IInv
<1>3. CASE /\ Exists(h.id) /\ lv' = [lv EXCEPT ![h.id] = None] /\ h' = Idle
           /\ UNCHANGED <<used, late>> /\ faults' \in 0..MaxFaults
           /\ co' = co \/ co' = [co EXCEPT ![h.req.name] = Gone(h.req.name)]
  BY <1>1, <1>3, RemovedIInv
<1>4. CASE Fail /\ faults' \in 0..MaxFaults
  BY <1>4, QuitIInv DEF Fail
<1>5. CASE /\ "late" \in Faults /\ faults' \in 0..MaxFaults
           /\ late' = late \cup {[op |-> "lvremove", id |-> h.id]}
           /\ h' = Idle /\ UNCHANGED <<lv, used, co>>
  <2>1. PICK new : new = [op |-> "lvremove", id |-> h.id]
    OBVIOUS
  <2>2. /\ h.req.name \in Names /\ h.id \in Ids
        /\ h.id = co[h.req.name].id /\ co[h.req.name].st = "deleting"
    BY <1>1, RequestType DEF IInv, Handler, Deleting, Records, TypeOK
  <2>3. new \in Command /\ new.op = "lvremove" /\ new.id = h.id
    BY <2>1, <2>2 DEF Command
  <2>4. TypeOK'
    BY <1>5, <2>1, <2>3, ConstantsAssumption DEF IInv, TypeOK, Idle
  <2>5. Records' /\ Owners' /\ BoundVolumeExists'
    BY <1>5 DEF IInv, Records, Owners, BoundVolumeExists, Exists
  <2>6. LateCommands'
    <3>1. LateRemove(new)'
      BY <1>5, <2>2, <2>3 DEF LateRemove
    <3>2. late' = late \cup {new}
      BY <1>5, <2>1
    <3>3. new.op # "lvcreate"
      BY <2>3
    <3> QED BY <1>5, <3>1, <3>2, <3>3 DEF IInv, LateCommands, LateCreate, LateRemove, Exists
  <2>7. Handler'
    BY <1>5 DEF Handler, Idle, Creating, Having, Deleting
  <2> QED BY <2>4, <2>5, <2>6, <2>7 DEF IInv
<1> QED BY <1>1, <1>2, <1>3, <1>4, <1>5 DEF Remove

\* StoLake gets to a command that was given up.
LEMMA LateEffectIInv ==
  ASSUME NoRepeatedName, IInv, NEW c \in late, LateEffect(c) PROVE IInv'
<1>1. c.op \in {"lvcreate", "lvremove"}
  BY DEF IInv, TypeOK, Command
<1>2. late' = late \ {c} /\ UNCHANGED <<used, h, co, faults>>
  BY DEF LateEffect
<1>3. CASE c.op = "lvcreate" /\ CanCreate(c.id, c.lv.size)
  <2>1. lv' = [lv EXCEPT ![c.id] = c.lv] /\ ~Exists(c.id)
    BY <1>3 DEF LateEffect, CanCreate
  <2> QED BY <1>2, <1>3, <2>1, LateMadeIInv
<1>4. CASE c.op = "lvremove"
  <2>1. lv' = [lv EXCEPT ![c.id] = None]
    BY <1>4 DEF LateEffect
  <2> QED BY <1>2, <1>4, <2>1, LateRemovedIInv
<1>5. CASE c.op = "lvcreate" /\ ~CanCreate(c.id, c.lv.size)
  <2>1. lv' = lv
    BY <1>5 DEF LateEffect
  <2> QED BY <1>2, <2>1 DEF IInv, TypeOK, Records, Owners, LateCommands, LateCreate,
             LateRemove, Handler, BoundVolumeExists, Exists
<1> QED BY <1>1, <1>3, <1>4, <1>5

\* A new volume group is empty, and the CO has asked for nothing.
LEMMA InitIInv == Init => IInv
<1> SUFFICES ASSUME Init PROVE IInv
  OBVIOUS
<1>1. TypeOK
  BY ConstantsAssumption DEF Init, TypeOK, Idle
<1>2. Records /\ Owners
  BY DEF Init, Records, Owners, Exists
<1>3. LateCommands /\ Handler /\ BoundVolumeExists
  BY DEF Init, Idle, LateCommands, Handler, BoundVolumeExists, Creating, Having, Deleting
<1> QED BY <1>1, <1>2, <1>3 DEF IInv

\* Every step preserves the invariant.
LEMMA NextIInv ==
  ASSUME NoRepeatedName, IInv, [Next]_vars PROVE IInv'
<1>1. CASE HandlerStep
  BY <1>1, FindIInv, ReturnIInv, PickIInv, SizeIInv, LvCreateIInv, FinishIInv,
     LookupIInv, RemoveIInv DEF HandlerStep
<1>2. CASE Crash
  <2>1. faults' \in 0..MaxFaults
    BY <1>2, FaultCounted DEF Crash, IInv
  <2> QED BY <1>2, <2>1, QuitIInv DEF Crash
<1>3. CASE UNCHANGED vars
  BY <1>3 DEF vars, IInv, TypeOK, Records, Owners, LateCommands, LateCreate,
     LateRemove, Handler, BoundVolumeExists, Exists
<1> QED
  BY <1>1, <1>2, <1>3, CreateVolumeIInv, DeleteVolumeIInv, LateEffectIInv DEF Next

\* The invariant holds throughout.
LEMMA Invariance ==
  ASSUME NoRepeatedName PROVE Spec => []IInv
<1>1. IInv /\ [Next]_vars => IInv'
  BY NextIInv
<1> QED BY InitIInv, <1>1, PTL DEF Spec

\* Every reachable state is well typed.
THEOREM TypeCorrect ==
  ASSUME NoRepeatedName PROVE Spec => []TypeOK
<1>1. IInv => TypeOK
  BY DEF IInv
<1> QED BY Invariance, <1>1, PTL

\* Whatever fails, times out, crashes or is executed late, a volume that a
\* CreateVolume response reported is there, with its name and its size, until the CO
\* asks for its deletion.
THEOREM BoundExists ==
  ASSUME NoRepeatedName PROVE Spec => []BoundVolumeExists
<1>1. IInv => BoundVolumeExists
  BY DEF IInv
<1> QED BY Invariance, <1>1, PTL

\* What a step does to an LV that is no more after it.
LEMMA Vanishing ==
  ASSUME IInv, [Next]_vars, NEW id \in Ids, Exists(id), ~Exists(id)'
  PROVE  \E n \in Names : co[n].id = id /\ co[n].st \in {"deleting", "gone"}
<1>1. lv \in [Ids -> LV \cup {None}] /\ lv[id] # None /\ lv'[id] = None
  BY DEF IInv, TypeOK, Exists
<1>2. CASE LvCreate
  <2>1. \/ lv' = lv \/ lv' = [lv EXCEPT ![h.id] = NewLV(h.req.name, h.size)]
    BY <1>2 DEF LvCreate, Fail
  <2>2. NewLV(h.req.name, h.size) \in LV
    BY <1>2, RequestType DEF LvCreate, IInv, Handler, TypeOK, NewLV, LV
  <2> QED BY <1>1, <2>1, <2>2, NoneIsNoLV
<1>3. CASE WipeFs \/ Deactivate
  <2>1. h.id \in Ids /\ lv[h.id] \in LV
    BY <1>3, NoneIsNoLV DEF WipeFs, Deactivate, IInv, Handler, Having, TypeOK, Exists
  <2>2. \/ lv' = lv
        \/ lv' = [lv EXCEPT ![h.id] = [lv[h.id] EXCEPT !.dirty = FALSE]]
        \/ lv' = [lv EXCEPT ![h.id] = [lv[h.id] EXCEPT !.active = FALSE]]
    BY <1>3, <2>1 DEF WipeFs, Deactivate, IInv, TypeOK
  <2>3. /\ [lv[h.id] EXCEPT !.dirty = FALSE] \in LV
        /\ [lv[h.id] EXCEPT !.active = FALSE] \in LV
    BY <2>1 DEF LV
  <2> QED BY <1>1, <2>1, <2>2, <2>3, NoneIsNoLV
<1>4. CASE Remove
  <2>1. /\ h.req.name \in Names /\ h.id = co[h.req.name].id
        /\ co[h.req.name].st = "deleting"
    BY <1>4, RequestType DEF Remove, IInv, Handler, Deleting
  <2>2. lv' = lv \/ lv' = [lv EXCEPT ![h.id] = None]
    BY <1>4 DEF Remove, Fail
  <2>3. id = h.id
    BY <1>1, <2>2
  <2> QED BY <2>1, <2>3
<1>5. ASSUME NEW c \in late, LateEffect(c)
      PROVE  \E n \in Names : co[n].id = id /\ co[n].st \in {"deleting", "gone"}
  <2>1. c \in Command /\ c.op \in {"lvcreate", "lvremove"}
    BY DEF IInv, TypeOK, Command
  <2>2. CASE c.op = "lvcreate"
    <3>1. c.id \in Ids /\ c.lv \in LV
      BY <2>1, <2>2 DEF Command
    <3>2. lv' = lv \/ lv' = [lv EXCEPT ![c.id] = c.lv]
      BY <1>5, <2>2 DEF LateEffect
    <3> QED BY <1>1, <3>1, <3>2, NoneIsNoLV
  <2>3. CASE c.op = "lvremove"
    <3>1. lv' = [lv EXCEPT ![c.id] = None]
      BY <1>5, <2>3 DEF LateEffect
    <3>2. id = c.id
      BY <1>1, <3>1
    <3> QED BY <2>3, <3>2 DEF IInv, LateCommands, LateRemove
  <2> QED BY <2>1, <2>2, <2>3
<1>6. CASE lv' = lv
  BY <1>1, <1>6
<1> QED BY <1>2, <1>3, <1>4, <1>5, <1>6 DEF Next, HandlerStep, CreateVolume,
       DeleteVolume, Crash, Find, Reuse, PickFresh, PickTaken, Size, Attributes, Lookup,
       Goto, Fail, Succeed, vars

\* No LV vanishes but one whose id the CO was given and asked to delete, though
\* StoLake may get to the lvremove at any time.
THEOREM NothingElseVanishes ==
  ASSUME NoRepeatedName PROVE Spec => OnlyDeletedVolumesVanish
<1>1. IInv /\ [Next]_vars =>
        [\A id \in Ids : Exists(id) /\ ~Exists(id)' =>
           \E n \in Names : co[n].id = id /\ co[n].st \in {"deleting", "gone"}]_vars
  BY Vanishing
<1> QED BY <1>1, Invariance, PTL DEF Spec, OnlyDeletedVolumesVanish

-----------------------------------------------------------------------------
(* With lookups that work and no late commands: what a step does to a name, in
   terms of the LVs that have it as their tag and of what the CO was told *)

SameTags(n) == Tagged(n)' = Tagged(n)
SameTold(n) == co'[n].st = co[n].st /\ co'[n].id = co[n].id
Keeps(n) == SameTags(n) /\ SameTold(n)

Asked(n) ==
  /\ co[n].st = "none" /\ co'[n].st = "creating" /\ co'[n].id = co[n].id /\ SameTags(n)
Made(n) ==
  /\ co[n].st = "creating" /\ Tagged(n) = {} /\ SameTold(n)
  /\ \E id \in Ids \ used : Tagged(n)' = {id}
Bound(n) ==
  /\ co[n].st = "creating" /\ co'[n].st = "bound"
  /\ Tagged(n) = {co'[n].id} /\ co'[n].id \in Ids /\ SameTags(n)
AskedDeletion(n) ==
  /\ co[n].st = "bound" /\ co'[n].st = "deleting" /\ co'[n].id = co[n].id /\ SameTags(n)
Removed(n) ==
  /\ co[n].st = "deleting" /\ co'[n].st \in {"deleting", "gone"} /\ co'[n].id = co[n].id
  /\ Tagged(n) = {co[n].id} /\ Tagged(n)' = {}
ReportedGone(n) ==
  /\ co[n].st = "deleting" /\ co'[n].st = "gone" /\ co'[n].id = co[n].id
  /\ Tagged(n) = {} /\ SameTags(n)

Effect(n) ==
  \/ Keeps(n) \/ Asked(n) \/ Made(n) \/ Bound(n) \/ AskedDeletion(n)
  \/ Removed(n) \/ ReportedGone(n)

\* At most one name is concerned.
Effects ==
  \/ \A n \in Names : Keeps(n)
  \/ \E n \in Names : Effect(n) /\ \A m \in Names \ {n} : Keeps(m)

\* The tags are those of the LVs.
LEMMA TagsOfLVs ==
  /\ lv' = lv => \A n : Tagged(n)' = Tagged(n)
  /\ \A n : \A id : id \in Tagged(n) <=> id \in Ids /\ lv[id] # None /\ lv[id].name = n
  /\ \A n : \A id : id \in Tagged(n)' <=> id \in Ids /\ lv'[id] # None /\ lv'[id].name = n
BY DEF Tagged, Existing, Exists

\* A step that leaves the volume group and the CO's knowledge alone.
LEMMA QuietEffects ==
  ASSUME UNCHANGED <<lv, co>> PROVE Effects
BY TagsOfLVs DEF Effects, Keeps, SameTags, SameTold

\* The CO learns of the volume it asked for, which is the only one of its name.
LEMMA BoundEffects ==
  ASSUME SInv, h.pc \in {"reuse", "attributes"}, UNCHANGED lv, NEW context,
         co' = [co EXCEPT ![h.req.name] =
                  [st |-> "bound", id |-> h.id, req |-> h.req, context |-> context]]
  PROVE  Effects
<1>0. PICK n : n = h.req.name
  OBVIOUS
<1>1. /\ n \in Names /\ h.id \in Ids /\ lv[h.id] # None /\ lv[h.id].name = n
      /\ co[n].st = "creating"
  BY <1>0, RequestType DEF SInv, IInv, Handler, Creating, Having, Exists
<1>2. /\ co'[n].st = "bound" /\ co'[n].id = h.id
      /\ \A m \in Names : m # n => co'[m] = co[m]
  BY <1>0, <1>1 DEF SInv, IInv, TypeOK
<1>3. Tagged(n) = {h.id}
  BY <1>1, TagsOfLVs DEF SInv, OneEach
<1>4. Bound(n) /\ \A m \in Names \ {n} : Keeps(m)
  BY <1>1, <1>2, <1>3, TagsOfLVs DEF Bound, Keeps, SameTags, SameTold
<1> QED BY <1>1, <1>4 DEF Effects, Effect

\* lvcreate makes the first volume of its name.
LEMMA LvCreateEffects ==
  ASSUME LookupsWork, SInv, LvCreate PROVE Effects
<1>0. PICK n : n = h.req.name
  OBVIOUS
<1>1. ~Fault("late")
  BY DEF Fault, LookupsWork
<1>2. CASE UNCHANGED <<lv, co>>
  BY <1>2, QuietEffects
<1>3. CASE CanCreate(h.id, h.size) /\ UNCHANGED co
           /\ lv' = [lv EXCEPT ![h.id] = NewLV(h.req.name, h.size)]
  <2>1. /\ n \in Names /\ h.id \in Ids \ used /\ lv[h.id] = None
        /\ co[n].st = "creating" /\ Tagged(n) = {} /\ h.req \in Reqs
    BY <1>0, <1>3, RequestType DEF LvCreate, SInv, IInv, Handler, Creating, CanCreate, Exists, OneEach
  <2>2. /\ lv'[h.id] # None /\ lv'[h.id].name = n
        /\ \A id \in Ids : id # h.id => lv'[id] = lv[id]
    <3>1. NewLV(h.req.name, h.size) \in LV /\ NewLV(h.req.name, h.size).name = n
      BY <1>0, <2>1 DEF NewLV, LV, SInv, IInv, TypeOK
    <3> QED BY <1>3, <2>1, <3>1, NoneIsNoLV DEF SInv, IInv, TypeOK
  <2>3. Tagged(n)' = {h.id}
    BY <2>1, <2>2, TagsOfLVs
  <2>4. \A m \in Names \ {n} : Tagged(m)' = Tagged(m)
    <3> SUFFICES ASSUME NEW m \in Names \ {n}, NEW id
                 PROVE  id \in Tagged(m)' <=> id \in Tagged(m)
      OBVIOUS
    <3>1. CASE id = h.id
      BY <2>1, <2>2, <3>1, TagsOfLVs
    <3>2. CASE id # h.id
      BY <2>2, <3>2, TagsOfLVs
    <3> QED BY <3>1, <3>2
  <2> QED BY <1>3, <2>1, <2>3, <2>4 DEF Effects, Effect, Made, Keeps, SameTags, SameTold
<1> QED BY <1>1, <1>2, <1>3 DEF LvCreate, Fail

\* wipefs and lvchange change no tag.
LEMMA FinishEffects ==
  ASSUME SInv, WipeFs \/ Deactivate PROVE Effects
<1>1. h.id \in Ids /\ lv[h.id] \in LV /\ UNCHANGED co
  BY NoneIsNoLV DEF WipeFs, Deactivate, SInv, IInv, Handler, Having, TypeOK, Exists
<1>2. \/ lv' = lv
      \/ lv' = [lv EXCEPT ![h.id] = [lv[h.id] EXCEPT !.dirty = FALSE]]
      \/ lv' = [lv EXCEPT ![h.id] = [lv[h.id] EXCEPT !.active = FALSE]]
  BY <1>1 DEF WipeFs, Deactivate, SInv, IInv, TypeOK
<1>3. /\ [lv[h.id] EXCEPT !.dirty = FALSE] \in LV
      /\ [lv[h.id] EXCEPT !.active = FALSE] \in LV
      /\ [lv[h.id] EXCEPT !.dirty = FALSE].name = lv[h.id].name
      /\ [lv[h.id] EXCEPT !.active = FALSE].name = lv[h.id].name
  BY <1>1 DEF LV
<1>4. \A id \in Ids : (lv'[id] # None <=> lv[id] # None) /\ lv'[id].name = lv[id].name
  BY <1>1, <1>2, <1>3, NoneIsNoLV DEF SInv, IInv, TypeOK
<1>5. \A n : Tagged(n)' = Tagged(n)
  BY <1>4, TagsOfLVs
<1> QED BY <1>1, <1>5 DEF Effects, Keeps, SameTags, SameTold

\* lvremove removes the only volume of its name.
LEMMA RemoveEffects ==
  ASSUME LookupsWork, SInv, Remove PROVE Effects
<1>0. PICK n : n = h.req.name
  OBVIOUS
<1>1. ~Fault("late")
  BY DEF Fault, LookupsWork
<1>2. CASE UNCHANGED <<lv, co>>
  BY <1>2, QuietEffects
<1>3. CASE /\ Exists(h.id) /\ lv' = [lv EXCEPT ![h.id] = None]
           /\ co' = co \/ co' = [co EXCEPT ![h.req.name] = Gone(h.req.name)]
  <2>1. /\ n \in Names /\ co[n].st = "deleting" /\ h.id = co[n].id /\ h.id \in Ids
        /\ h.id # None /\ lv[h.id] # None /\ lv[h.id].name = n
    BY <1>0, <1>3, RequestType, ConstantsAssumption
       DEF Remove, SInv, IInv, Handler, Deleting, Records, TypeOK, Exists, Owners
  <2>2. /\ co'[n].st \in {"deleting", "gone"} /\ co'[n].id = co[n].id
        /\ \A m \in Names : m # n => co'[m] = co[m]
    BY <1>0, <1>3, <2>1 DEF SInv, IInv, TypeOK, Gone
  <2>3. Tagged(n) = {h.id}
    BY <2>1, TagsOfLVs DEF SInv, OneEach
  <2>4. \A id \in Ids : lv'[id] = IF id = h.id THEN None ELSE lv[id]
    BY <1>3, <2>1 DEF SInv, IInv, TypeOK
  <2>5. Tagged(n)' = {}
    BY <2>3, <2>4, TagsOfLVs
  <2>6. \A m \in Names \ {n} : Tagged(m)' = Tagged(m)
    <3> SUFFICES ASSUME NEW m \in Names \ {n}, NEW id
                 PROVE  id \in Tagged(m)' <=> id \in Tagged(m)
      OBVIOUS
    <3>1. CASE id = h.id
      BY <2>1, <2>4, <3>1, TagsOfLVs
    <3>2. CASE id # h.id
      BY <2>4, <3>2, TagsOfLVs
    <3> QED BY <3>1, <3>2
  <2> QED BY <2>1, <2>2, <2>3, <2>5, <2>6
       DEF Effects, Effect, Removed, Keeps, SameTags, SameTold
<1> QED BY <1>1, <1>2, <1>3 DEF Remove, Fail

\* An LV that is not there is taken for deleted, which it is.
LEMMA LookupEffects ==
  ASSUME LookupsWork, SInv, Lookup PROVE Effects
<1>0. PICK n : n = h.req.name
  OBVIOUS
<1>1. ~Fault("lookup")
  BY DEF Fault, LookupsWork
<1>2. CASE UNCHANGED <<lv, co>>
  BY <1>2, QuietEffects
<1>3. CASE ~Exists(h.id) /\ UNCHANGED lv /\ co' = [co EXCEPT ![h.req.name] = Gone(h.req.name)]
  <2>1. /\ n \in Names /\ co[n].st = "deleting" /\ h.id = co[n].id /\ h.id # None
        /\ lv[h.id] = None
    BY <1>0, <1>3, RequestType, ConstantsAssumption
       DEF Lookup, SInv, IInv, Handler, Deleting, Records, TypeOK, Exists
  <2>2. /\ co'[n].st = "gone" /\ co'[n].id = co[n].id
        /\ \A m \in Names : m # n => co'[m] = co[m]
    BY <1>0, <1>3, <2>1 DEF SInv, IInv, TypeOK, Gone
  <2>3. Tagged(n) = {}
    BY <2>1, TagsOfLVs DEF SInv, OneEach
  <2> QED BY <1>3, <2>1, <2>2, <2>3, TagsOfLVs
       DEF Effects, Effect, ReportedGone, Keeps, SameTags, SameTold
<1> QED BY <1>1, <1>2, <1>3 DEF Lookup, Succeed, Goto

\* Every step has one of the effects.
LEMMA NextEffects ==
  ASSUME LookupsWork, SInv, [Next]_vars PROVE Effects
<1>1. ASSUME NEW r \in Reqs, CreateVolume(r) PROVE Effects
  <2>1. r.name \in Names /\ co[r.name].st \in {"none", "creating"} /\ UNCHANGED lv
    BY <1>1, RequestType DEF CreateVolume
  <2>2. \A m \in Names : /\ co'[m].id = co[m].id
                         /\ co'[m].st = IF m = r.name THEN "creating" ELSE co[m].st
    BY <1>1, <2>1 DEF CreateVolume, SInv, IInv, TypeOK
  <2>3. \A m \in Names : m # r.name => Keeps(m)
    BY <2>1, <2>2, TagsOfLVs DEF Keeps, SameTags, SameTold
  <2>4. Keeps(r.name) \/ Asked(r.name)
    BY <2>1, <2>2, TagsOfLVs DEF Keeps, Asked, SameTags, SameTold
  <2> QED BY <2>1, <2>3, <2>4 DEF Effects, Effect
<1>2. ASSUME NEW n \in Names, DeleteVolume(n) PROVE Effects
  <2>1. co[n].st \in {"bound", "deleting"} /\ UNCHANGED lv
    BY <1>2 DEF DeleteVolume
  <2>2. \A m \in Names : /\ co'[m].id = co[m].id
                         /\ co'[m].st = IF m = n THEN "deleting" ELSE co[m].st
    BY <1>2 DEF DeleteVolume, SInv, IInv, TypeOK
  <2>3. \A m \in Names : m # n => Keeps(m)
    BY <2>1, <2>2, TagsOfLVs DEF Keeps, SameTags, SameTold
  <2>4. Keeps(n) \/ AskedDeletion(n)
    BY <2>1, <2>2, TagsOfLVs DEF Keeps, AskedDeletion, SameTags, SameTold
  <2> QED BY <2>3, <2>4 DEF Effects, Effect
<1>3. CASE Reuse \/ Attributes
  <2>1. CASE UNCHANGED <<lv, co>>
    BY <2>1, QuietEffects
  <2>2. ASSUME NEW context, UNCHANGED lv,
               co' = [co EXCEPT ![h.req.name] =
                        [st |-> "bound", id |-> h.id, req |-> h.req, context |-> context]]
        PROVE  Effects
    BY <1>3, <2>2, BoundEffects DEF Reuse, Attributes
  <2> QED BY <1>3, <2>1, <2>2 DEF Reuse, Attributes, Succeed, Fail
<1>4. CASE Find \/ PickFresh \/ PickTaken \/ Size \/ Crash \/ UNCHANGED vars
  <2>1. UNCHANGED <<lv, co>>
    BY <1>4 DEF Find, PickFresh, PickTaken, Size, Crash, vars, Goto, Fail
  <2> QED BY <2>1, QuietEffects
<1>5. late = {}
  BY DEF LookupsWork, SInv, IInv, LateCommands
<1> QED BY <1>1, <1>2, <1>3, <1>4, <1>5, LvCreateEffects, FinishEffects, RemoveEffects,
       LookupEffects DEF Next, HandlerStep

\* CreateVolume gets past the lookup only when there is no volume of its name, and
\* none appears until it makes one.
LEMMA NoneBefore ==
  ASSUME LookupsWork, SInv, [Next]_vars, h'.pc \in {"pick", "size", "create"},
         NEW n, n = h'.req.name
  PROVE  Tagged(n)' = {}
<1>1. h.pc \in {"pick", "size", "create"} /\ h.req.name = n => Tagged(n) = {}
  BY DEF SInv, OneEach
<1>2. h' # Idle
  BY DEF Idle
<1>3. CASE Find
  <2>1. ~Fault("lookup")
    BY DEF Fault, LookupsWork
  <2>2. \A id : h' # [h EXCEPT !.pc = "reuse", !.id = id]
    BY DEF SInv, IInv, TypeOK
  <2>3. Tagged(h.req.name) = {} /\ h' = [h EXCEPT !.pc = "pick"] /\ UNCHANGED lv
    BY <1>2, <1>3, <2>1, <2>2 DEF Find, Goto, Fail
  <2>4. h'.req = h.req
    BY <2>3 DEF SInv, IInv, TypeOK
  <2> QED BY <2>3, <2>4, TagsOfLVs
<1>4. CASE PickFresh \/ PickTaken \/ Size
  <2>1. h.pc \in {"pick", "size"} /\ UNCHANGED lv
    BY <1>4 DEF PickFresh, PickTaken, Size, Fail
  <2>2. h'.req = h.req
    <3>1. CASE PickFresh
      BY <3>1 DEF PickFresh, SInv, IInv, TypeOK
    <3>2. CASE PickTaken
      BY <1>2, <3>2 DEF PickTaken, SInv, IInv, TypeOK
    <3>3. CASE Size
      BY <1>2, <3>3 DEF Size, Fail, SInv, IInv, TypeOK
    <3> QED BY <1>4, <3>1, <3>2, <3>3
  <2> QED BY <1>1, <2>1, <2>2, TagsOfLVs
<1>5. CASE UNCHANGED vars
  BY <1>1, <1>5, TagsOfLVs DEF vars
<1>6. ~(Reuse \/ LvCreate \/ WipeFs \/ Deactivate \/ Attributes \/ Lookup \/ Remove \/ Crash)
  BY DEF Reuse, LvCreate, WipeFs, Deactivate, Attributes, Lookup, Remove, Crash,
         Succeed, Goto, Fail, Idle, SInv, IInv, TypeOK
<1>7. \A r \in Reqs : ~CreateVolume(r)
  BY DEF CreateVolume, Idle
<1>8. \A m \in Names : ~DeleteVolume(m)
  BY DEF DeleteVolume, Idle
<1>9. late = {}
  BY DEF LookupsWork, SInv, IInv, LateCommands
<1> QED BY <1>3, <1>4, <1>5, <1>6, <1>7, <1>8, <1>9 DEF Next, HandlerStep

\* The stronger invariant is inductive too.
LEMMA NextSInv ==
  ASSUME LookupsWork, SInv, [Next]_vars PROVE SInv'
<1>1. IInv'
  BY NextIInv DEF LookupsWork, NoRepeatedName, SInv
<1>2. Effects
  BY NextEffects
<1>3. ASSUME NEW n \in Names
      PROVE  /\ \A i, j \in Tagged(n)' : i = j
             /\ co'[n].id # None => Tagged(n)' \subseteq {co'[n].id}
             /\ co'[n].st = "gone" => Tagged(n)' = {}
  <2>1. Effect(n)
    BY <1>2 DEF Effects, Effect
  <2>2. /\ \A i, j \in Tagged(n) : i = j
        /\ co[n].id # None => Tagged(n) \subseteq {co[n].id}
        /\ co[n].st = "gone" => Tagged(n) = {}
        /\ co[n].st = "creating" => co[n].id = None
    BY DEF SInv, OneEach, DeletedVolumeIsGone, IInv, Records
  <2> QED BY <2>1, <2>2 DEF Effect, Keeps, Asked, Made, Bound, AskedDeletion, Removed,
         ReportedGone, SameTags, SameTold
<1>4. OneEach'
  <2>1. ASSUME h'.pc \in {"pick", "size", "create"} PROVE Tagged(h.req.name)' = {}
    <3>1. PICK n : n = h'.req.name
      OBVIOUS
    <3>2. Tagged(n)' = {}
      BY <2>1, <3>1, NoneBefore
    <3> QED BY <3>1, <3>2 DEF Tagged, Existing, Exists
  <2> QED BY <1>3, <2>1 DEF OneEach
<1>5. DeletedVolumeIsGone'
  BY <1>3 DEF DeletedVolumeIsGone
<1> QED BY <1>1, <1>4, <1>5 DEF SInv

\* It holds throughout.
LEMMA SafeInvariance ==
  ASSUME LookupsWork PROVE Spec => []SInv
<1>1. Init => SInv
  <2> SUFFICES ASSUME Init PROVE SInv
    OBVIOUS
  <2>1. OneEach /\ DeletedVolumeIsGone
    BY TagsOfLVs DEF Init, Idle, OneEach, DeletedVolumeIsGone
  <2> QED BY <2>1, InitIInv DEF SInv
<1>2. SInv /\ [Next]_vars => SInv'
  BY NextSInv
<1> QED BY <1>1, <1>2, PTL DEF Spec

\* However often CreateVolume is retried, after crashes, lost responses and commands
\* that worked but did not answer, the volume group holds at most one LV for a name.
THEOREM OneVolume ==
  ASSUME LookupsWork PROVE Spec => []OneVolumePerName
<1>1. SInv => OneVolumePerName
  <2> SUFFICES ASSUME SInv, NEW n \in Names PROVE Cardinality(Tagged(n)) <= 1
    BY DEF OneVolumePerName
  <2>1. CASE Tagged(n) = {}
    BY <2>1, FS_EmptySet
  <2>2. ASSUME NEW id \in Tagged(n) PROVE Cardinality(Tagged(n)) <= 1
    <3>1. Tagged(n) = {id}
      BY <2>2 DEF SInv, OneEach
    <3>2. Cardinality({id}) = 1
      BY FS_Singleton
    <3> QED BY <3>1, <3>2
  <2> QED BY <2>1, <2>2
<1> QED BY SafeInvariance, <1>1, PTL

\* Once DeleteVolume has reported success, no LV of the volume's name is left.
THEOREM DeletedIsGone ==
  ASSUME LookupsWork PROVE Spec => []DeletedVolumeIsGone
<1>1. SInv => DeletedVolumeIsGone
  BY DEF SInv
<1> QED BY SafeInvariance, <1>1, PTL

-----------------------------------------------------------------------------
(* Refinement of VolumeStore *)

Vol == [n \in Names |-> VolumeOf(n)]
Told == [n \in Names |-> Knowledge(n)]

\* The volume of a name that has one LV, or none.
LEMMA OnlyVolume ==
  ASSUME SInv, NEW n \in Names
  PROVE  /\ Tagged(n) = {} => VolumeOf(n) = None
         /\ \A id : Tagged(n) = {id} => VolumeOf(n) = id
         /\ Tagged(n)' = {} => VolumeOf(n)' = None
         /\ \A id : Tagged(n)' = {id} => VolumeOf(n)' = id
         /\ SameTags(n) => VolumeOf(n)' = VolumeOf(n)
<1>1. /\ Tagged(n) = {} => VolumeOf(n) = None
      /\ Tagged(n)' = {} => VolumeOf(n)' = None
  BY DEF VolumeOf
<1>2. ASSUME NEW id PROVE (CHOOSE i \in {id} : TRUE) = id
  OBVIOUS
<1>3. ASSUME NEW id, Tagged(n) = {id} PROVE VolumeOf(n) = id
  BY <1>2, <1>3, Zenon DEF VolumeOf
<1>4. ASSUME NEW id, Tagged(n)' = {id} PROVE VolumeOf(n)' = id
  BY <1>2, <1>4, Zenon DEF VolumeOf
<1>5. ASSUME SameTags(n) PROVE VolumeOf(n)' = VolumeOf(n)
  <2>1. CASE Tagged(n) = {}
    BY <1>1, <1>5, <2>1 DEF SameTags
  <2>2. ASSUME NEW id \in Tagged(n) PROVE VolumeOf(n)' = VolumeOf(n)
    <3>1. Tagged(n) = {id}
      BY <2>2 DEF SInv, OneEach
    <3> QED BY <1>3, <1>4, <1>5, <3>1 DEF SameTags
  <2> QED BY <2>1, <2>2
<1> QED BY <1>1, <1>3, <1>4, <1>5

\* What a step does to the store, name by name.
LEMMA StoreStep ==
  /\ DOMAIN Vol = Names /\ DOMAIN Vol' = Names
  /\ DOMAIN Told = Names /\ DOMAIN Told' = Names
  /\ \A n \in Names : Vol[n] = VolumeOf(n) /\ Vol'[n] = VolumeOf(n)'
  /\ \A n \in Names : /\ Told[n] = [st |-> co[n].st, id |-> co[n].id]
                       /\ Told'[n] = [st |-> co'[n].st, id |-> co'[n].id]
BY DEF Vol, Told, Knowledge

\* Names a step does not concern.
LEMMA KeepsMaps ==
  ASSUME SInv, NEW n \in Names, Keeps(n)
  PROVE  Vol'[n] = Vol[n] /\ Told'[n] = Told[n]
BY OnlyVolume, StoreStep DEF Keeps, SameTold

\* The CO's state of one name advances.
LEMMA ToldMaps ==
  ASSUME NEW n \in Names, \A m \in Names \ {n} : Told'[m] = Told[m],
         NEW st, co'[n].st = st, co'[n].id = co[n].id
  PROVE  Told' = [Told EXCEPT ![n].st = st]
<1>1. Told'[n] = [st |-> st, id |-> co[n].id] /\ Told[n] = [st |-> co[n].st, id |-> co[n].id]
  BY StoreStep
<1>2. [Told[n] EXCEPT !.st = st] = [st |-> st, id |-> co[n].id]
  BY <1>1
<1>3. [Told EXCEPT ![n].st = st]
        = [m \in Names |-> IF m = n THEN [Told[n] EXCEPT !.st = st] ELSE Told[m]]
  BY StoreStep
<1>4. Told' = [m \in Names |-> Told'[m]]
  BY DEF Told
<1> QED BY <1>1, <1>2, <1>3, <1>4

\* The step of the store that an effect on one name is.
LEMMA EffectMaps ==
  ASSUME SInv, NEW n \in Names, Effect(n), \A m \in Names \ {n} : Keeps(m)
  PROVE  [Store!StoreNext]_(Store!storeVars)
<1>1. \A m \in Names \ {n} : Vol'[m] = Vol[m] /\ Told'[m] = Told[m]
  BY KeepsMaps
<1>2. CASE Keeps(n)
  <2>1. Vol' = Vol /\ Told' = Told
    BY <1>1, <1>2, KeepsMaps, StoreStep DEF Vol, Told
  <2> QED BY <2>1 DEF Store!storeVars, Vol, Told
<1>3. CASE Asked(n)
  <2>1. Vol' = Vol
    BY <1>1, <1>3, OnlyVolume, StoreStep DEF Vol, Asked
  <2>2. Told' = [Told EXCEPT ![n].st = "creating"] /\ Told[n].st = "none"
    BY <1>1, <1>3, StoreStep, ToldMaps DEF Asked
  <2>3. Store!Ask(n)
    BY <2>1, <2>2 DEF Store!Ask, Vol, Told
  <2> QED BY <2>3 DEF Store!StoreNext
<1>4. CASE Made(n)
  <2>1. PICK id \in Ids \ used : Tagged(n)' = {id}
    BY <1>4 DEF Made
  <2>2. Vol[n] = None /\ Vol'[n] = id
    BY <1>4, <2>1, OnlyVolume, StoreStep DEF Made
  <2>3. Vol' = [Vol EXCEPT ![n] = id]
    BY <1>1, <2>2, StoreStep DEF Vol
  <2>4. Told' = Told /\ Told[n].st = "creating"
    BY <1>1, <1>4, StoreStep DEF Told, Made, SameTold
  <2>5. \A m \in Names : Vol[m] # id /\ Told[m].id # id
    <3> SUFFICES ASSUME NEW m \in Names PROVE Vol[m] # id /\ co[m].id # id
      BY StoreStep
    <3>1. id # None
      BY ConstantsAssumption
    <3>2. co[m].id # id
      BY <3>1 DEF SInv, IInv, Records
    <3>3. Vol[m] # id
      <4>1. CASE Tagged(m) = {}
        BY <3>1, <4>1, OnlyVolume, StoreStep
      <4>2. ASSUME NEW i \in Tagged(m) PROVE Vol[m] # id
        <5>1. Tagged(m) = {i}
          BY <4>2 DEF SInv, OneEach
        <5>2. i \in used
          BY <4>2 DEF Tagged, Existing, SInv, IInv, Owners
        <5>3. VolumeOf(m) = i
          BY <5>1, OnlyVolume
        <5> QED BY <5>2, <5>3, StoreStep
      <4> QED BY <4>1, <4>2
    <3> QED BY <3>2, <3>3
  <2>6. Store!Make(n, id)
    BY <2>2, <2>3, <2>4, <2>5 DEF Store!Make, Vol, Told
  <2> QED BY <2>6 DEF Store!StoreNext
<1>5. CASE Bound(n)
  <2>1. Vol' = Vol
    BY <1>1, <1>5, OnlyVolume, StoreStep DEF Vol, Bound
  <2>2. Vol[n] = co'[n].id /\ Vol[n] # None
    <3>1. VolumeOf(n) = co'[n].id
      BY <1>5, OnlyVolume DEF Bound
    <3> QED BY <1>5, <3>1, StoreStep, ConstantsAssumption DEF Bound
  <2>3. Told[n].st = "creating" /\ Told'[n] = [st |-> "bound", id |-> Vol[n]]
    BY <1>5, <2>2, StoreStep DEF Bound
  <2>4. Told' = [Told EXCEPT ![n] = [st |-> "bound", id |-> Vol[n]]]
    BY <1>1, <2>3, StoreStep DEF Told
  <2>5. Store!Report(n)
    BY <2>1, <2>2, <2>3, <2>4 DEF Store!Report, Vol, Told
  <2> QED BY <2>5 DEF Store!StoreNext
<1>6. CASE AskedDeletion(n)
  <2>1. Vol' = Vol
    BY <1>1, <1>6, OnlyVolume, StoreStep DEF Vol, AskedDeletion
  <2>2. Told' = [Told EXCEPT ![n].st = "deleting"] /\ Told[n].st = "bound"
    BY <1>1, <1>6, StoreStep, ToldMaps DEF AskedDeletion
  <2>3. Store!AskDeletion(n)
    BY <2>1, <2>2 DEF Store!AskDeletion, Vol, Told
  <2> QED BY <2>3 DEF Store!StoreNext
<1>7. CASE Removed(n)
  <2>1. Vol[n] = Told[n].id /\ Vol'[n] = None /\ Told[n].st = "deleting"
    <3>1. VolumeOf(n) = co[n].id /\ VolumeOf(n)' = None
      BY <1>7, OnlyVolume DEF Removed
    <3> QED BY <1>7, <3>1, StoreStep DEF Removed
  <2>2. Vol' = [Vol EXCEPT ![n] = None]
    BY <1>1, <2>1, StoreStep DEF Vol
  <2>3. Told' = Told \/ Told' = [Told EXCEPT ![n].st = "gone"]
    <3>1. CASE co'[n].st = "gone"
      BY <1>1, <1>7, <3>1, ToldMaps DEF Removed
    <3>2. CASE co'[n].st = "deleting"
      BY <1>1, <1>7, <3>2, StoreStep DEF Told, Removed
    <3> QED BY <1>7, <3>1, <3>2 DEF Removed
  <2>4. Store!Delete(n)
    BY <2>1, <2>2, <2>3 DEF Store!Delete, Vol, Told
  <2> QED BY <2>4 DEF Store!StoreNext
<1>8. CASE ReportedGone(n)
  <2>1. Vol' = Vol /\ Vol[n] = None
    BY <1>1, <1>8, OnlyVolume, StoreStep DEF Vol, ReportedGone
  <2>2. Told' = [Told EXCEPT ![n].st = "gone"] /\ Told[n].st = "deleting"
    BY <1>1, <1>8, StoreStep, ToldMaps DEF ReportedGone
  <2>3. Store!ReportDeletion(n)
    BY <2>1, <2>2 DEF Store!ReportDeletion, Vol, Told
  <2> QED BY <2>3 DEF Store!StoreNext
<1> QED BY <1>2, <1>3, <1>4, <1>5, <1>6, <1>7, <1>8 DEF Effect

\* The handlers and the volume group implement the store: through retries, lost
\* answers, crashes, and commands that fail or time out, though not where a failed
\* lookup is taken for an answer or a command is executed after its caller left.
THEOREM Refinement ==
  ASSUME LookupsWork PROVE Spec => ImplementsVolumeStore
<1>1. Init => Store!StoreInit
  <2> SUFFICES ASSUME Init PROVE Store!StoreInit
    OBVIOUS
  <2>1. \A n \in Names : VolumeOf(n) = None /\ Knowledge(n) = [st |-> "none", id |-> None]
    BY TagsOfLVs DEF Init, VolumeOf, Knowledge
  <2> QED BY <2>1 DEF Store!StoreInit
<1>2. ASSUME SInv, [Next]_vars PROVE [Store!StoreNext]_(Store!storeVars)
  <2>1. CASE \A n \in Names : Keeps(n)
    <3>1. Vol' = Vol /\ Told' = Told
      BY <1>2, <2>1, KeepsMaps, StoreStep DEF Vol, Told
    <3> QED BY <3>1 DEF Store!storeVars, Vol, Told
  <2>2. CASE \E n \in Names : Effect(n) /\ \A m \in Names \ {n} : Keeps(m)
    BY <1>2, <2>2, EffectMaps
  <2> QED BY <1>2, <2>1, <2>2, NextEffects DEF Effects
<1> QED BY <1>1, <1>2, SafeInvariance, PTL DEF Spec, ImplementsVolumeStore, Store!StoreSpec
=============================================================================

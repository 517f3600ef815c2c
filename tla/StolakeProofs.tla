--------------------------- MODULE StolakeProofs ---------------------------
(***************************************************************************)
(* Proofs about Stolake: for any processes, calls, versions of the agent,  *)
(* deaths of it and deadlines that expire.                                 *)
(***************************************************************************)
EXTENDS Stolake, TLAPS

Phases == {"idle", "dialing", "connected", "waiting", "returning"}

\* A call holds one connection from the dialing to the return.
Connected ==
  /\ pc \in [Callers -> Phases] /\ conns \in [Callers -> Nat]
  /\ \A p \in Callers :
       conns[p] = IF pc[p] \in {"connected", "waiting", "returning"} THEN 1 ELSE 0

LEMMA ConnectedStep == Connected /\ [Next]_vars => Connected'
<1> SUFFICES ASSUME Connected, [Next]_vars PROVE Connected'
  OBVIOUS
<1> USE DEF Connected, Phases
<1>1. ASSUME NEW p \in Callers, NEW o, Call(p, o) PROVE Connected'
  BY <1>1 DEF Call
<1>2. ASSUME NEW p \in Callers, Dialed(p) PROVE Connected'
  BY <1>2 DEF Dialed
<1>3. ASSUME NEW p \in Callers, Invoke(p) PROVE Connected'
  BY <1>3 DEF Invoke
<1>4. ASSUME NEW p \in Callers, Answered(p) \/ Expires(p) \/ Broken(p) PROVE Connected'
  BY <1>4 DEF Answered, Expires, Broken, Return
<1>5. ASSUME NEW p \in Callers, Finish(p) \/ Panic(p) PROVE Connected'
  BY <1>5 DEF Finish, Panic, Reset, Close
<1>6. CASE Agent
  BY <1>6 DEF Agent, Execute, Fail, ChangeNothing, NotImplemented, Answer, Die, Start, callVars
<1>7. CASE UNCHANGED vars
  BY <1>7 DEF vars, callVars
<1> QED BY <1>1, <1>2, <1>3, <1>4, <1>5, <1>6, <1>7 DEF Next, Step

\* No function of virsh.go leaves its connection behind, whichever way it returns:
\* the deferred Close runs on all of them.
THEOREM ConnectionsClosed == Spec => []NoConnectionLeak
<1>1. Init => Connected
  BY DEF Init, Connected, Phases
<1>2. Connected => NoConnectionLeak
  BY DEF Connected, NoConnectionLeak
<1> QED BY <1>1, <1>2, ConnectedStep, PTL DEF Spec

-----------------------------------------------------------------------------
(* What the functions of virsh.go ask for and report *)

\* The calls are calls of these functions.
Virsh(o) ==
  \/ o = StoLakeInfo \/ o = MountInfo
  \/ \E vgname : o = VgActivate(vgname)
  \/ \E cmd : o = ProxyStoLakeRun(cmd)
  \/ \E devicepath : o = FstypeProxy(devicepath)
  \/ \E source, target, fstype, guid, mountoptions, readonly, allusers :
       o = MountVolume(source, target, fstype, guid, mountoptions, readonly, allusers)
  \/ \E target : o = UnMountVolume(target)
  \/ \E lv, iops, mbps : o = SetQos(lv, iops, mbps)
  \/ \E lvuuid, initiqn : \/ o = StageIscsiTarget(lvuuid, initiqn)
                          \/ o = UnStageIscsiTarget(lvuuid, initiqn)

\* Processes of one host are about different parts of it: the controller's stages
\* targets and the node's mounts volumes.
Disjoint ==
  \A w \in Workloads : \A p, q \in Callers : p # q =>
    \A o \in w[p], r \in w[q] :
      Touches(Part(o.req)) \intersect Touches(Part(r.req)) = {}

Setting ==
  /\ \A w \in Workloads : \A p \in Callers : \A o \in w[p] : Virsh(o)
  /\ Disjoint
  /\ NodeIp = HostIp /\ NodeIp # ""   \* CSI_NODE_IP is the address of the host

\* A part that is not touched keeps its value.
LEMMA ValueKept ==
  ASSUME NEW k, NEW l, l \notin Touches(k), DOMAIN host' = DOMAIN host,
         \A j \in DOMAIN host : j # k => host'[j] = host[j], l \in DOMAIN host
  PROVE  Value(l)' = Value(l)
<1>1. CASE l # <<"mounts">>
  BY <1>1 DEF Value, Touches
<1>2. CASE l = <<"mounts">>
  <2>1. k[1] # "mount"
    BY <1>2 DEF Touches
  <2>2. {j \in DOMAIN host' : j[1] = "mount" /\ host'[j] # <<>>}
          = {j \in DOMAIN host : j[1] = "mount" /\ host[j] # <<>>}
    BY <2>1
  <2> QED BY <1>2, <2>2 DEF Value
<1> QED BY <1>1, <1>2

\* What was found of the host when the process started.
Found == \A k \in Parts : k[1] \in {"agent", "fstype"} => host[k] = <<"found">>

\* What the functions that return a field of a response return.
LEMMA ToldFields ==
  ASSUME NEW x, NEW y, NEW z
  PROVE  /\ Told(StoLakeInfo, GetInfoRes(x)) = <<x>>
         /\ \A cmd : Told(ProxyStoLakeRun(cmd), MercProxyRes(x)) = <<x>>
         /\ \A d : Told(FstypeProxy(d), FileSystemTypeRes(x)) = <<x>>
         /\ Told(MountInfo, MountInfoRes(x)) = <<x>>
         /\ \A lv, iqn : Told(StageIscsiTarget(lv, iqn), StageIscsiRes(y, z)) = <<Portal(z)>>
<1>1. Get(GetInfoRes(x), "AgentName") = x
  BY DEF Get, Nil, GetInfoRes
<1>2. Get(MercProxyRes(x), "Stdout") = x
  BY DEF Get, Nil, MercProxyRes
<1>3. Get(FileSystemTypeRes(x), "FsType") = x
  BY DEF Get, Nil, FileSystemTypeRes
<1>4. Get(MountInfoRes(x), "Info") = x
  BY DEF Get, Nil, MountInfoRes
<1>5. Get(StageIscsiRes(y, z), "TargetPortal") = z
  BY DEF Get, Nil, StageIscsiRes
<1>6. ASSUME NEW req, NEW field, NEW r
      PROVE  /\ field = "TargetPortal" => Told(Returns(req, field), r) = <<Portal(Get(r, field))>>
             /\ field \notin {"none", "TargetPortal"} =>
                  Told(Returns(req, field), r) = <<Get(r, field)>>
  BY DEF Told, Returns
<1> QED BY <1>1, <1>2, <1>3, <1>4, <1>5, <1>6
    DEF StoLakeInfo, ProxyStoLakeRun, FstypeProxy, MountInfo, StageIscsiTarget

\* What the functions that return no more than an error stand for.
LEMMA ToldDone ==
  ASSUME NEW req, NEW value, NEW r PROVE Told(Does(req, value), r) = value
BY DEF Told, Does

\* What a call that was executed is told is the value of its part.
LEMMA ReportIsTrue ==
  ASSUME Setting, NEW o, Virsh(o), o.req.method # "VgChange", Found,
         NEW i, i.message = o.req, NEW k, k = Part(o.req), k \in Parts, DOMAIN host = Parts,
         host' = [host EXCEPT ![k] = Effect(i.message, @)]
  PROVE  Told(o, Response(i)) = Value(k)'
<1>1. CASE o = StoLakeInfo
  <2>1. k = <<"agent">> /\ i.message = GetInfoReq /\ i.message.method = "RetrieveInfo"
    BY <1>1 DEF StoLakeInfo, Returns, GetInfoReq, Part
  <2>2. k[1] = "agent" /\ k # <<"mounts">>
    BY <2>1
  <2>3. host[k] = <<"found">> /\ host'[k] = <<"found">>
    BY <2>1, <2>2 DEF Found, Effect
  <2>4. Response(i) = GetInfoRes("found")
    BY <2>1, <2>2, <2>3 DEF Response, Value
  <2> QED BY <1>1, <2>2, <2>3, <2>4, ToldFields DEF Value
<1>2. CASE o = MountInfo
  <2>1. k = <<"mounts">> /\ i.message = MountInfoReq /\ i.message.method = "MountInfo"
    BY <1>2 DEF MountInfo, Returns, MountInfoReq, Part
  <2>2. DOMAIN host' = Parts /\ \A j \in Parts : host'[j] = host[j]
    BY <2>1 DEF Effect
  <2>3. PICK x : x = {j \in DOMAIN host : j[1] = "mount" /\ host[j] # <<>>}
    OBVIOUS
  <2>4. Value(k) = <<x>> /\ Value(k)' = <<x>>
    BY <2>1, <2>2, <2>3 DEF Value
  <2>5. Response(i) = MountInfoRes(x)
    BY <2>1, <2>4 DEF Response
  <2> QED BY <1>2, <2>4, <2>5, ToldFields
<1>3. ASSUME NEW cmd, o = ProxyStoLakeRun(cmd) PROVE Told(o, Response(i)) = Value(k)'
  <2>1. k = <<"command", cmd>> /\ i.message.method = "MercuryProxy"
    BY <1>3 DEF ProxyStoLakeRun, Returns, MercProxyReq, Part
  <2>2. k # <<"mounts">> /\ host'[k] = <<"output">>
    BY <2>1 DEF Effect
  <2>3. Response(i) = MercProxyRes("output")
    BY <2>1 DEF Response
  <2> QED BY <1>3, <2>2, <2>3, ToldFields DEF Value
<1>4. ASSUME NEW d, o = FstypeProxy(d) PROVE Told(o, Response(i)) = Value(k)'
  <2>1. k = <<"fstype", d>> /\ i.message.method = "FileSystemType"
    BY <1>4 DEF FstypeProxy, Returns, FileSystemTypeReq, Part
  <2>2. k[1] = "fstype" /\ k # <<"mounts">>
    BY <2>1
  <2>3. host[k] = <<"found">> /\ host'[k] = <<"found">>
    BY <2>1, <2>2 DEF Found, Effect
  <2>4. Response(i) = FileSystemTypeRes("found")
    BY <2>1, <2>2, <2>3 DEF Response, Value
  <2> QED BY <1>4, <2>2, <2>3, <2>4, ToldFields DEF Value
<1>5. ASSUME NEW source, NEW target, NEW fstype, NEW guid, NEW mountoptions, NEW readonly,
             NEW allusers,
             o = MountVolume(source, target, fstype, guid, mountoptions, readonly, allusers)
      PROVE  Told(o, Response(i)) = Value(k)'
  <2>1. /\ k = <<"mount", target>> /\ i.message.method = "MountVolume"
        /\ i.message = MountVolumeReq(source, target, fstype, guid, mountoptions, readonly,
                                      allusers)
    BY <1>5 DEF MountVolume, Does, MountVolumeReq, Part
  <2>2. k # <<"mounts">> /\ host'[k] = <<source, fstype, readonly, mountoptions, guid, allusers>>
    BY <2>1 DEF Effect, MountVolumeReq
  <2>3. Told(o, Response(i)) = <<source, fstype, readonly, mountoptions, guid, allusers>>
    BY <1>5, ToldDone, Zenon DEF MountVolume
  <2>4. Value(k)' = host'[k]
    BY <2>2 DEF Value
  <2> QED BY <2>2, <2>3, <2>4, Zenon
<1>6. ASSUME NEW target, o = UnMountVolume(target) PROVE Told(o, Response(i)) = Value(k)'
  <2>1. k = <<"mount", target>> /\ i.message.method = "UnMountVolume"
    BY <1>6 DEF UnMountVolume, Does, UnMountVolumeReq, Part
  <2>2. k # <<"mounts">> /\ host'[k] = <<>>
    BY <2>1 DEF Effect
  <2> QED BY <1>6, <2>2, ToldDone DEF UnMountVolume, Value
<1>7. ASSUME NEW lv, NEW iops, NEW mbps, o = SetQos(lv, iops, mbps)
      PROVE  Told(o, Response(i)) = Value(k)'
  <2>1. /\ k = <<"qos", lv>> /\ i.message.method = "LvQoS"
        /\ i.message = LvQoSReq(lv, iops, mbps)
    BY <1>7 DEF SetQos, Does, LvQoSReq, Part
  <2>2. k # <<"mounts">> /\ host'[k] = <<iops, mbps>>
    BY <2>1 DEF Effect, LvQoSReq
  <2> QED BY <1>7, <2>2, ToldDone DEF SetQos, Value
<1>8. ASSUME NEW lvuuid, NEW initiqn, o = StageIscsiTarget(lvuuid, initiqn)
      PROVE  Told(o, Response(i)) = Value(k)'
  <2>1. /\ k = <<"lun", lvuuid, initiqn>> /\ i.message.method = "StageIscsi"
        /\ i.message.LvUuid = lvuuid
    BY <1>8 DEF StageIscsiTarget, Returns, StageIscsiReq, Part
  <2>2. k # <<"mounts">> /\ host'[k] = <<HostIp>>
    BY <2>1 DEF Effect
  <2>3. Response(i) = StageIscsiRes(lvuuid, "0.0.0.0")
    BY <2>1 DEF Response
  <2>4. Portal("0.0.0.0") = HostIp
    BY DEF Portal, Setting
  <2> QED BY <1>8, <2>2, <2>3, <2>4, ToldFields DEF Value
<1>9. ASSUME NEW lvuuid, NEW initiqn, o = UnStageIscsiTarget(lvuuid, initiqn)
      PROVE  Told(o, Response(i)) = Value(k)'
  <2>1. k = <<"lun", lvuuid, initiqn>> /\ i.message.method = "UnStageIscsi"
    BY <1>9 DEF UnStageIscsiTarget, Does, UnStageIscsiReq, Part
  <2>2. k # <<"mounts">> /\ host'[k] = <<>>
    BY <2>1 DEF Effect
  <2> QED BY <1>9, <2>2, ToldDone DEF UnStageIscsiTarget, Value
<1>10. ASSUME NEW vgname, o = VgActivate(vgname) PROVE FALSE
  BY <1>10 DEF VgActivate, Does, ChgReq
<1> QED BY <1>1, <1>2, <1>3, <1>4, <1>5, <1>6, <1>7, <1>8, <1>9, <1>10 DEF Virsh

-----------------------------------------------------------------------------
(* Calls and invocations *)

Types ==
  /\ work \in Workloads
  /\ pc \in [Callers -> Phases] /\ current \in [Callers -> Nat] /\ issued \in Nat
  /\ DOMAIN op = Callers /\ DOMAIN err = Callers /\ DOMAIN res = Callers
  /\ DOMAIN host = Parts /\ DOMAIN told = Parts
  /\ Found

\* Each call has a number of its own.
Numbered ==
  /\ \A p \in Callers : pc[p] # "idle" => op[p] \in work[p] /\ current[p] \in 1..issued
  /\ \A p, q \in Callers : pc[p] # "idle" /\ pc[q] # "idle" /\ p # q => current[p] # current[q]

\* So has each invocation, of a call that is under way or has been given up; only
\* to a call that waits is there an answer.
Invoked ==
  /\ \A i \in pending :
       /\ i = [id |-> i.id, caller |-> i.caller, message |-> i.message, answer |-> i.answer,
               res |-> i.res]
       /\ i.caller \in Callers /\ i.id \in 1..issued
       /\ \E o \in work[i.caller] : i.message = o.req
       /\ i.answer # "none" => ~Abandoned(i)
  /\ \A i, j \in pending : i.id = j.id => i = j
  /\ \A i \in pending, p \in Callers : pc[p] # "idle" /\ i.id = current[p] =>
       i.caller = p /\ pc[p] \in {"waiting", "returning"} /\ i.message = op[p].req

\* Nothing is said of the parts that a call may be changing.
Unsaid ==
  \A p \in Callers : pc[p] \in {"waiting", "returning"} =>
    \A k \in Parts \intersect Touches(Part(op[p].req)) : told[k] = Nothing

\* An answer on its way, and one that was read, is the value of its part.
Truth(o, r) ==
  LET k == Part(o.req) IN k \notin late /\ o.req.method # "VgChange" => Told(o, r) = Value(k)
Answers ==
  /\ \A i \in pending : i.answer = "nil" => Truth(op[i.caller], i.res)
  /\ \A p \in Callers : pc[p] = "returning" /\ err[p] = "nil" => Truth(op[p], res[p])

\* The inductive invariant is these two.
Book == Types /\ Numbered /\ Invoked
Reported == Unsaid /\ Answers /\ StateIsAsReported

\* An invocation with its answer.
LEMMA WithAnswer ==
  ASSUME NEW i, NEW code, NEW response, NEW r, r = [i EXCEPT !.answer = code, !.res = response],
         i = [id |-> i.id, caller |-> i.caller, message |-> i.message, answer |-> i.answer,
              res |-> i.res]
  PROVE  /\ r = [id |-> i.id, caller |-> i.caller, message |-> i.message, answer |-> code,
                 res |-> response]
         /\ r.id = i.id /\ r.caller = i.caller /\ r.message = i.message
         /\ r.answer = code /\ r.res = response
<1>1. r = [[i EXCEPT !.answer = code] EXCEPT !.res = response]
  OBVIOUS
<1>2. PICK s : s = [i EXCEPT !.answer = code]
  OBVIOUS
<1>3. s = [id |-> i.id, caller |-> i.caller, message |-> i.message, answer |-> code,
           res |-> i.res]
  BY <1>2
<1>4. r = [id |-> i.id, caller |-> i.caller, message |-> i.message, answer |-> code,
           res |-> response]
  BY <1>1, <1>2, <1>3
<1> QED BY <1>4

LEMMA PartInParts ==
  ASSUME Types, NEW p \in Callers, NEW o \in work[p]
  PROVE  Part(o.req) \in Parts
BY DEF Types, Parts

LEMMA CallBook ==
  ASSUME Book, NEW p \in Callers, NEW o \in work[p], Call(p, o) PROVE Book'
<1>1. /\ work' = work /\ issued' = issued + 1 /\ pending' = pending
      /\ pc[p] = "idle" /\ pc' = [pc EXCEPT ![p] = "dialing"]
      /\ op' = [op EXCEPT ![p] = o] /\ current' = [current EXCEPT ![p] = issued + 1]
      /\ host' = host /\ told' = told /\ err' = err /\ res' = res
  BY DEF Call, agentVars, hostVars
<1>2. Types'
  BY <1>1 DEF Book, Types, Phases, Found
<1>3. Numbered'
  BY <1>1 DEF Book, Types, Numbered
<1>4. Invoked'
  <2>1. \A i \in pending : i.answer # "none" => ~Abandoned(i)'
    BY <1>1 DEF Book, Types, Invoked, Abandoned
  <2>2. \A i \in pending : i.id \in 1..issued' /\ i.id # current'[p]
    BY <1>1 DEF Book, Types, Invoked
  <2>3. \A i \in pending, q \in Callers : pc'[q] # "idle" /\ i.id = current'[q] =>
          i.caller = q /\ pc'[q] \in {"waiting", "returning"} /\ i.message = op'[q].req
    BY <1>1, <2>2 DEF Book, Types, Invoked
  <2> QED BY <1>1, <2>1, <2>2, <2>3 DEF Book, Invoked
<1> QED BY <1>2, <1>3, <1>4 DEF Book

LEMMA InvokeBook ==
  ASSUME Book, NEW p \in Callers, Dialed(p) \/ Invoke(p) PROVE Book'
<1>1. PICK r : r = [id |-> current[p], caller |-> p, message |-> op[p].req,
                    answer |-> "none", res |-> Nil]
  OBVIOUS
<1>2. /\ pc[p] \in {"dialing", "connected"}
      /\ \E x \in {"connected", "waiting", "returning"} :
           /\ pc' = [pc EXCEPT ![p] = x]
           /\ pending' = pending \/ (x = "waiting" /\ pending' = pending \union {r})
      /\ UNCHANGED <<work, op, res, current, host, issued>>
      /\ DOMAIN err' = DOMAIN err /\ (DOMAIN told' = DOMAIN told \/ DOMAIN told' = Parts)
  <2>1. CASE Dialed(p)
    BY <2>1 DEF Dialed, agentVars, hostVars
  <2>2. CASE Invoke(p)
    BY <1>1, <2>2 DEF Invoke
  <2> QED BY <2>1, <2>2
<1>3. Types'
  BY <1>2 DEF Book, Types, Phases, Found
<1>4. Numbered'
  BY <1>2 DEF Book, Types, Numbered
<1>5. \A i \in pending : i.id # current[p]
  BY <1>2 DEF Book, Invoked
<1>6. r.id = current[p] /\ r.caller = p /\ r.message = op[p].req /\ r.answer = "none"
  BY <1>1
<1>7. op[p] \in work[p] /\ current[p] \in 1..issued
  BY <1>2 DEF Book, Numbered
<1>8. \A q \in Callers : pc'[q] # "idle" /\ current[q] = current[p] => q = p
  BY <1>2 DEF Book, Types, Numbered
<1>9. Invoked'
  <2>1. \A i \in pending : i.answer # "none" => ~Abandoned(i)'
    BY <1>2 DEF Book, Types, Invoked, Abandoned
  <2>2. ASSUME NEW i \in pending'
        PROVE  /\ i = [id |-> i.id, caller |-> i.caller, message |-> i.message,
                       answer |-> i.answer, res |-> i.res]
               /\ i.caller \in Callers /\ i.id \in 1..issued'
               /\ \E o \in work'[i.caller] : i.message = o.req
               /\ i.answer # "none" => ~Abandoned(i)'
    <3>1. CASE i = r
      BY <1>1, <1>2, <1>6, <1>7, <3>1
    <3>2. CASE i \in pending
      BY <1>2, <2>1, <3>2 DEF Book, Invoked
    <3> QED BY <1>2, <3>1, <3>2
  <2>3. \A i, j \in pending' : i.id = j.id => i = j
    BY <1>2, <1>5, <1>6 DEF Book, Invoked
  <2>4. ASSUME NEW i \in pending', NEW q \in Callers, pc'[q] # "idle", i.id = current'[q]
        PROVE  i.caller = q /\ pc'[q] \in {"waiting", "returning"} /\ i.message = op'[q].req
    <3>1. CASE i \in pending
      BY <1>2, <1>5, <2>4, <3>1 DEF Book, Types, Invoked
    <3>2. CASE i = r /\ i \notin pending
      BY <1>2, <1>6, <1>8, <2>4, <3>2 DEF Book, Types
    <3> QED BY <3>1, <1>2, <3>2
  <2> QED BY <2>2, <2>3, <2>4 DEF Invoked
<1> QED BY <1>3, <1>4, <1>9 DEF Book

\* A wait that ends leaves no answer behind.
LEMMA ReturnBook ==
  ASSUME Book, NEW p \in Callers, Answered(p) \/ Expires(p) \/ Broken(p) PROVE Book'
<1>1. /\ pc[p] = "waiting" /\ pc' = [pc EXCEPT ![p] = "returning"] /\ pending' \subseteq pending
      /\ \A i \in pending' : i.id = current[p] => i.answer = "none"
      /\ UNCHANGED <<work, op, current, host, told, issued>>
      /\ DOMAIN err' = DOMAIN err /\ DOMAIN res' = DOMAIN res
  <2>1. CASE Answered(p)
    <3>1. \A i \in pending' : i.id # current[p]
      BY <2>1 DEF Answered, Own, Book, Invoked
    <3> QED BY <2>1, <3>1 DEF Answered, Return, hostVars
  <2>2. CASE Expires(p)
    BY <2>2 DEF Expires, Return, Own, hostVars
  <2>3. CASE Broken(p)
    BY <2>3 DEF Broken, Return, Own, hostVars
  <2> QED BY <2>1, <2>2, <2>3
<1>2. Types'
  BY <1>1 DEF Book, Types, Phases, Found
<1>3. Numbered'
  BY <1>1 DEF Book, Types, Numbered
<1>4. Invoked'
  <2>1. \A i \in pending' : i.answer # "none" => ~Abandoned(i)'
    BY <1>1 DEF Book, Types, Invoked, Abandoned
  <2> QED BY <1>1, <2>1 DEF Book, Types, Invoked
<1> QED BY <1>2, <1>3, <1>4 DEF Book

LEMMA FinishBook ==
  ASSUME Book, NEW p \in Callers, Finish(p) \/ Panic(p) PROVE Book'
<1>1. /\ pc[p] = "returning" /\ pc' = [pc EXCEPT ![p] = "idle"]
      /\ op' = [op EXCEPT ![p] = NoOp] /\ current' = [current EXCEPT ![p] = 0]
      /\ UNCHANGED <<work, pending, host, issued>>
      /\ DOMAIN err' = DOMAIN err /\ DOMAIN res' = DOMAIN res /\ DOMAIN told' = DOMAIN told
  BY DEF Finish, Panic, Reset, agentVars, hostVars
<1>2. Types'
  BY <1>1 DEF Book, Types, Phases, Found
<1>3. Numbered'
  BY <1>1 DEF Book, Types, Numbered
<1>4. Invoked'
  <2>1. \A i \in pending' : i.answer # "none" => ~Abandoned(i)'
    BY <1>1 DEF Book, Types, Invoked, Abandoned
  <2> QED BY <1>1, <2>1 DEF Book, Types, Invoked
<1> QED BY <1>2, <1>3, <1>4 DEF Book

\* What a message does to the host: no more than to its part, and to what is read off
\* it; when the call had been given up, they are late.
LEMMA ApplyKeeps ==
  ASSUME Setting, Book, NEW i \in pending, NEW k, k = Part(i.message), Apply(i)
  PROVE  /\ k \in Parts /\ DOMAIN host' = Parts /\ Found'
         /\ \A l \in Parts \ Touches(k) : Value(l)' = Value(l) /\ (l \in late' <=> l \in late)
         /\ Abandoned(i) => Touches(k) \subseteq late'
<1>1. PICK o \in work[i.caller] : i.message = o.req
  BY DEF Book, Invoked
<1>2. i.caller \in Callers /\ Virsh(o) /\ k = Part(o.req)
  BY <1>1 DEF Book, Types, Invoked, Setting
<1>3. k \in Parts
  BY <1>1, <1>2, PartInParts DEF Book
<1>4. DOMAIN host = Parts /\ host' = [host EXCEPT ![k] = Effect(i.message, @)]
  BY DEF Apply, Book, Types
<1>5. DOMAIN host' = Parts /\ \A j \in Parts : j # k => host'[j] = host[j]
  BY <1>4
<1>6. k[1] \in {"agent", "fstype"} => host'[k] = host[k]
  <2>1. ASSUME k[1] \in {"agent", "fstype"}
        PROVE  i.message.method \in {"RetrieveInfo", "FileSystemType"}
    BY <1>1, <1>2, <2>1
       DEF Virsh, Part, StoLakeInfo, MountInfo, VgActivate, ProxyStoLakeRun, FstypeProxy,
           MountVolume, UnMountVolume, SetQos, StageIscsiTarget, UnStageIscsiTarget, Returns,
           Does, GetInfoReq, MountInfoReq, ChgReq, MercProxyReq, FileSystemTypeReq,
           MountVolumeReq, UnMountVolumeReq, LvQoSReq, StageIscsiReq, UnStageIscsiReq
  <2> QED BY <1>3, <1>4, <2>1 DEF Effect
<1>7. Found'
  BY <1>5, <1>6 DEF Found, Book, Types
<1>8. \A l \in Parts \ Touches(k) : Value(l)' = Value(l)
  BY <1>4, <1>5, ValueKept
<1>9. late' = IF Abandoned(i) THEN late \union Touches(k) ELSE late \ Touches(k)
  BY DEF Apply
<1> QED BY <1>3, <1>5, <1>7, <1>8, <1>9

\* Invocations with an answer given, or dropped.
LEMMA AnswerBook ==
  ASSUME Book, NEW i \in pending, NEW code, NEW response, Answer(i, code, response),
         DOMAIN host' = Parts, Found'
  PROVE  Book'
<1>1. PICK r : r = [i EXCEPT !.answer = code, !.res = response]
  OBVIOUS
<1>2. i = [id |-> i.id, caller |-> i.caller, message |-> i.message, answer |-> i.answer,
           res |-> i.res]
  BY DEF Book, Invoked
<1>3. /\ r = [id |-> r.id, caller |-> r.caller, message |-> r.message, answer |-> r.answer,
              res |-> r.res]
      /\ r.id = i.id /\ r.caller = i.caller /\ r.message = i.message
  BY <1>1, <1>2, WithAnswer
<1>4. /\ \/ Abandoned(i) /\ pending' = pending \ {i}
         \/ ~Abandoned(i) /\ pending' = (pending \ {i}) \union {r}
      /\ UNCHANGED <<work, pc, op, err, res, current, told, issued>>
  BY <1>1 DEF Answer, callVars
<1>5. Types' /\ Numbered'
  BY <1>4 DEF Book, Types, Numbered
<1>6. \A j : Abandoned(j)' <=> Abandoned(j)
  BY <1>4 DEF Abandoned
<1>7. Abandoned(r) <=> Abandoned(i)
  BY <1>3 DEF Abandoned
<1>8. ASSUME NEW j \in pending'
      PROVE  /\ j = [id |-> j.id, caller |-> j.caller, message |-> j.message,
                     answer |-> j.answer, res |-> j.res]
             /\ j.caller \in Callers /\ j.id \in 1..issued'
             /\ \E o \in work'[j.caller] : j.message = o.req
             /\ j.answer # "none" => ~Abandoned(j)'
  <2>1. CASE j \in pending
    BY <1>4, <1>6, <2>1 DEF Book, Invoked
  <2>2. CASE j = r /\ ~Abandoned(i)
    BY <1>3, <1>4, <1>6, <1>7, <2>2 DEF Book, Invoked
  <2> QED BY <1>4, <2>1, <2>2
<1>9. \A j, l \in pending' : j.id = l.id => j = l
  BY <1>3, <1>4 DEF Book, Invoked
<1>10. \A j \in pending', p \in Callers : pc'[p] # "idle" /\ j.id = current'[p] =>
         j.caller = p /\ pc'[p] \in {"waiting", "returning"} /\ j.message = op'[p].req
  BY <1>3, <1>4 DEF Book, Invoked
<1> QED BY <1>5, <1>8, <1>9, <1>10 DEF Book, Invoked

\* Two processes that make calls are not about the same parts.
LEMMA Apart ==
  ASSUME Setting, Book, NEW p \in Callers, pc[p] # "idle", NEW q \in Callers, pc[q] # "idle",
         p # q
  PROVE  Touches(Part(op[p].req)) \intersect Touches(Part(op[q].req)) = {}
<1>1. op[p] \in work[p] /\ op[q] \in work[q] /\ work \in Workloads
  BY DEF Book, Types, Numbered
<1> QED BY <1>1 DEF Setting, Disjoint

LEMMA OwnTouch == ASSUME NEW k PROVE k \in Touches(k)
BY DEF Touches

-----------------------------------------------------------------------------
(* What is reported is so *)

LEMMA AnswersHold ==
  ASSUME \A i \in pending' : i.answer = "nil" =>
           \A o, r : o = op'[i.caller] /\ r = i.res => Truth(o, r)',
         \A p \in Callers : pc'[p] = "returning" /\ err'[p] = "nil" =>
           \A o, r : o = op'[p] /\ r = res'[p] => Truth(o, r)'
  PROVE  Answers'
BY DEF Answers, Truth, Value

\* The steps of callers change neither the host nor what of it is late.
LEMMA TruthKept ==
  ASSUME UNCHANGED <<host, late>>, NEW o, NEW r, Truth(o, r)
  PROVE  Truth(o, r)'
BY DEF Truth, Value

\* Who has an answer waits for it.
LEMMA Waits ==
  ASSUME Book, NEW i \in pending, ~Abandoned(i)
  PROVE  /\ i.caller \in Callers /\ pc[i.caller] = "waiting" /\ current[i.caller] = i.id
         /\ op[i.caller].req = i.message
BY DEF Book, Invoked, Abandoned

LEMMA CallReported ==
  ASSUME Book, Reported, NEW p \in Callers, NEW o, Call(p, o) \/ Dialed(p) PROVE Reported'
<1>1. /\ UNCHANGED <<pending, host, told, late, err, res>>
      /\ pc[p] \in {"idle", "dialing"}
      /\ \A q \in Callers \ {p} : op'[q] = op[q] /\ pc'[q] = pc[q]
      /\ pc'[p] \in {"dialing", "connected"}
  BY DEF Call, Dialed, agentVars, hostVars, Book, Types
<1>2. Unsaid'
  BY <1>1 DEF Reported, Unsaid
<1>3. Answers'
  <2>1. ASSUME NEW i \in pending', i.answer = "nil", NEW x, NEW r, x = op'[i.caller], r = i.res
        PROVE  Truth(x, r)'
    <3>1. i.caller \in Callers \ {p}
      BY <1>1, <2>1, Waits DEF Book, Invoked
    <3>2. Truth(x, r)
      BY <1>1, <2>1, <3>1 DEF Reported, Answers
    <3> QED BY <1>1, <3>2, TruthKept
  <2>2. ASSUME NEW q \in Callers, pc'[q] = "returning", err'[q] = "nil", NEW x, NEW r,
               x = op'[q], r = res'[q]
        PROVE  Truth(x, r)'
    <3>1. Truth(x, r)
      BY <1>1, <2>2 DEF Reported, Answers
    <3> QED BY <1>1, <3>1, TruthKept
  <2> QED BY <2>1, <2>2, AnswersHold
<1>4. StateIsAsReported'
  BY <1>1 DEF Reported, StateIsAsReported, Value
<1> QED BY <1>2, <1>3, <1>4 DEF Reported

LEMMA InvokeReported ==
  ASSUME Book, Reported, NEW p \in Callers, Invoke(p) PROVE Reported'
<1>1. /\ UNCHANGED <<op, res, host, late>> /\ pc[p] = "connected"
      /\ told' = [k \in Parts |-> IF k \in Touches(Part(op[p].req)) THEN Nothing ELSE told[k]]
      /\ \A q \in Callers \ {p} : pc'[q] = pc[q] /\ err'[q] = err[q]
      /\ pc'[p] = "waiting" \/ (pc'[p] = "returning" /\ err'[p] = "Unavailable")
      /\ \A i \in pending' : i.answer # "none" => i \in pending
  BY DEF Invoke, Book, Types
<1>2. Unsaid'
  BY <1>1 DEF Reported, Unsaid
<1>3. Answers'
  <2>1. ASSUME NEW i \in pending', i.answer = "nil", NEW x, NEW r, x = op'[i.caller], r = i.res
        PROVE  Truth(x, r)'
    <3>1. Truth(x, r)
      BY <1>1, <2>1 DEF Reported, Answers
    <3> QED BY <1>1, <3>1, TruthKept
  <2>2. ASSUME NEW q \in Callers, pc'[q] = "returning", err'[q] = "nil", NEW x, NEW r,
               x = op'[q], r = res'[q]
        PROVE  Truth(x, r)'
    <3>1. Truth(x, r)
      BY <1>1, <2>2 DEF Reported, Answers
    <3> QED BY <1>1, <3>1, TruthKept
  <2> QED BY <2>1, <2>2, AnswersHold
<1>4. StateIsAsReported'
  BY <1>1 DEF Reported, StateIsAsReported, Value
<1> QED BY <1>2, <1>3, <1>4 DEF Reported

LEMMA ReturnReported ==
  ASSUME Book, Reported, NEW p \in Callers, Answered(p) \/ Expires(p) \/ Broken(p)
  PROVE  Reported'
<1>1. /\ pc[p] = "waiting" /\ UNCHANGED <<op, host, told, late>> /\ pending' \subseteq pending
      /\ \A q \in Callers \ {p} : pc'[q] = pc[q] /\ err'[q] = err[q] /\ res'[q] = res[q]
      /\ pc'[p] = "returning"
  BY DEF Answered, Expires, Broken, Return, hostVars, Book, Types
<1>2. err'[p] = "nil" => Truth(op[p], res'[p])
  <2>1. CASE Answered(p)
    <3>1. PICK i \in pending : /\ i.id = current[p] /\ i.answer # "none"
                               /\ err' = [err EXCEPT ![p] = i.answer]
                               /\ res' = [res EXCEPT ![p] = i.res]
      BY <2>1 DEF Answered, Own, Return
    <3>2. i.caller = p
      BY <1>1, <3>1 DEF Book, Invoked
    <3>3. err'[p] = i.answer /\ res'[p] = i.res
      BY <3>1 DEF Book, Types
    <3> QED BY <3>1, <3>2, <3>3 DEF Reported, Answers
  <2>2. CASE Expires(p) \/ Broken(p)
    BY <2>2 DEF Expires, Broken, Return, Book, Types
  <2> QED BY <2>1, <2>2
<1>3. Unsaid'
  BY <1>1 DEF Reported, Unsaid
<1>4. Answers'
  <2>1. ASSUME NEW i \in pending', i.answer = "nil", NEW x, NEW r, x = op'[i.caller], r = i.res
        PROVE  Truth(x, r)'
    <3>1. Truth(x, r)
      BY <1>1, <2>1 DEF Reported, Answers
    <3> QED BY <1>1, <3>1, TruthKept
  <2>2. ASSUME NEW q \in Callers, pc'[q] = "returning", err'[q] = "nil", NEW x, NEW r,
               x = op'[q], r = res'[q]
        PROVE  Truth(x, r)'
    <3>1. Truth(x, r)
      BY <1>1, <1>2, <2>2 DEF Reported, Answers
    <3> QED BY <1>1, <3>1, TruthKept
  <2> QED BY <2>1, <2>2, AnswersHold
<1>5. StateIsAsReported'
  BY <1>1 DEF Reported, StateIsAsReported, Value
<1> QED BY <1>3, <1>4, <1>5 DEF Reported

\* Only of locks is VgActivate, and its report may be wrong.
LEMMA LocksOnly ==
  ASSUME NEW o, Virsh(o), o.req.method = "VgChange" PROVE Part(o.req)[1] = "lock"
BY DEF Virsh, Part, StoLakeInfo, MountInfo, VgActivate, ProxyStoLakeRun, FstypeProxy,
       MountVolume, UnMountVolume, SetQos, StageIscsiTarget, UnStageIscsiTarget, Returns,
       Does, GetInfoReq, MountInfoReq, ChgReq, MercProxyReq, FileSystemTypeReq,
       MountVolumeReq, UnMountVolumeReq, LvQoSReq, StageIscsiReq, UnStageIscsiReq

LEMMA FinishReported ==
  ASSUME Setting, Book, Reported, NEW p \in Callers, Finish(p) \/ Panic(p) PROVE Reported'
<1>1. PICK o, k : o = op[p] /\ k = Part(op[p].req)
  OBVIOUS
<1>2. /\ pc[p] = "returning" /\ UNCHANGED <<pending, host, late>> /\ pc'[p] = "idle"
      /\ \A q \in Callers \ {p} : /\ pc'[q] = pc[q] /\ err'[q] = err[q] /\ res'[q] = res[q]
                                  /\ op'[q] = op[q]
      /\ \/ told' = told
         \/ err[p] = "nil" /\ told' = [told EXCEPT ![k] = Told(o, res[p])]
  BY <1>1 DEF Finish, Panic, Reset, Error, agentVars, hostVars, Book, Types
<1>3. o \in work[p] /\ Virsh(o) /\ k = Part(o.req) /\ k \in Parts
  BY <1>1, <1>2, PartInParts DEF Book, Types, Numbered, Setting
<1>4. \A l \in Parts : l # k => told'[l] = told[l]
  BY <1>2 DEF Book, Types
<1>5. Unsaid'
  <2> SUFFICES ASSUME NEW q \in Callers, pc'[q] \in {"waiting", "returning"},
                      NEW l \in Parts, l \in Touches(Part(op'[q].req))
               PROVE  told'[l] = Nothing
    BY DEF Unsaid
  <2>1. q # p /\ pc[q] \in {"waiting", "returning"} /\ op'[q] = op[q]
    BY <1>2
  <2>2. l # k
    BY <1>1, <1>2, <2>1, Apart, OwnTouch
  <2> QED BY <1>4, <2>1, <2>2 DEF Reported, Unsaid
<1>6. Answers'
  <2>1. ASSUME NEW i \in pending', i.answer = "nil", NEW x, NEW r, x = op'[i.caller], r = i.res
        PROVE  Truth(x, r)'
    <3>1. i.caller \in Callers \ {p}
      BY <1>2, <2>1, Waits DEF Book, Invoked
    <3>2. Truth(x, r)
      BY <1>2, <2>1, <3>1 DEF Reported, Answers
    <3> QED BY <1>2, <3>2, TruthKept
  <2>2. ASSUME NEW q \in Callers, pc'[q] = "returning", err'[q] = "nil", NEW x, NEW r,
               x = op'[q], r = res'[q]
        PROVE  Truth(x, r)'
    <3>1. Truth(x, r)
      BY <1>2, <2>2 DEF Reported, Answers
    <3> QED BY <1>2, <3>1, TruthKept
  <2> QED BY <2>1, <2>2, AnswersHold
<1>7. StateIsAsReported'
  <2> SUFFICES ASSUME NEW l \in Parts \ late', l[1] # "lock"
               PROVE  told'[l] = Nothing \/ told'[l] = Value(l)'
    BY DEF StateIsAsReported
  <2>1. Value(l)' = Value(l) /\ l \in Parts \ late
    BY <1>2 DEF Value
  <2>2. told[l] = Nothing \/ told[l] = Value(l)
    BY <2>1 DEF Reported, StateIsAsReported
  <2>3. CASE told'[l] = told[l]
    BY <2>1, <2>2, <2>3
  <2>4. CASE told'[l] # told[l]
    <3>1. l = k /\ err[p] = "nil" /\ told'[l] = Told(o, res[p])
      BY <1>2, <1>3, <1>4, <2>4 DEF Book, Types
    <3>2. o.req.method # "VgChange"
      BY <1>3, <3>1, LocksOnly
    <3>3. Truth(o, res[p])
      BY <1>1, <1>2, <3>1 DEF Reported, Answers
    <3>4. Told(o, res[p]) = Value(k)
      BY <1>3, <2>1, <3>1, <3>2, <3>3 DEF Truth
    <3> QED BY <2>1, <3>1, <3>4
  <2> QED BY <2>3, <2>4
<1> QED BY <1>5, <1>6, <1>7 DEF Reported

\* The agent answers: it did what it was asked for, or it changed nothing, and only
\* of what it did, or of a lock, is its answer a success.
LEMMA AnswerReported ==
  ASSUME Setting, Book, Reported, NEW i \in pending, NEW code, NEW response,
         Answer(i, code, response), Apply(i) \/ UNCHANGED <<host, late>>,
         code = "nil" => \/ Apply(i) /\ response = Response(i)
                         \/ i.message.method = "VgChange"
  PROVE  Reported'
<1>1. PICK k, r : k = Part(i.message) /\ r = [i EXCEPT !.answer = code, !.res = response]
  OBVIOUS
<1>2. i = [id |-> i.id, caller |-> i.caller, message |-> i.message, answer |-> i.answer,
           res |-> i.res]
  BY DEF Book, Invoked
<1>3. r.caller = i.caller /\ r.answer = code /\ r.res = response
  BY <1>1, <1>2, WithAnswer
<1>4. /\ \/ Abandoned(i) /\ pending' = pending \ {i}
         \/ ~Abandoned(i) /\ pending' = (pending \ {i}) \union {r}
      /\ UNCHANGED <<pc, op, err, res, told>>
  BY <1>1 DEF Answer, callVars
<1>5. /\ Abandoned(i) /\ Apply(i) => Touches(k) \subseteq late'
      /\ \A l \in Parts \ Touches(k) : Value(l)' = Value(l) /\ (l \in late' <=> l \in late)
      /\ ~Apply(i) => late' = late /\ \A l : Value(l)' = Value(l)
  BY <1>1, ApplyKeeps DEF Value
<1>6. Unsaid'
  BY <1>4 DEF Reported, Unsaid
<1>7. ASSUME NEW q \in Callers, pc[q] \in {"waiting", "returning"},
             ~Abandoned(i) => q # i.caller, NEW x, x = op[q], NEW y, Truth(x, y)
      PROVE  Truth(x, y)'
  <2>1. PICK l : l = Part(x.req)
    OBVIOUS
  <2>2. l \in Parts
    BY <1>7, <2>1, PartInParts DEF Book, Numbered
  <2>3. CASE ~Apply(i)
    BY <1>5, <1>7, <2>3, TruthKept
  <2>4. CASE Apply(i) /\ l \notin Touches(k)
    <3>1. Value(l)' = Value(l) /\ (l \in late' <=> l \in late)
      BY <1>5, <2>2, <2>4
    <3> QED BY <1>7, <2>1, <3>1 DEF Truth
  <2>5. CASE Apply(i) /\ l \in Touches(k)
    <3>1. CASE Abandoned(i)
      <4>1. l \in late'
        BY <1>5, <2>5, <3>1
      <4> QED BY <2>1, <4>1 DEF Truth
    <3>2. CASE ~Abandoned(i)
      <4>1. /\ i.caller \in Callers /\ pc[i.caller] # "idle" /\ q # i.caller
            /\ k = Part(op[i.caller].req)
        BY <1>1, <1>7, <3>2, Waits
      <4>2. l \in Touches(Part(op[q].req))
        BY <1>7, <2>1, OwnTouch
      <4>3. l \notin Touches(k)
        BY <1>7, <4>1, <4>2, Apart
      <4> QED BY <2>5, <4>3
    <3> QED BY <3>1, <3>2
  <2> QED BY <2>3, <2>4, <2>5
<1>8. Answers'
  <2>1. ASSUME NEW j \in pending', j.answer = "nil", NEW x, NEW y, x = op'[j.caller], y = j.res
        PROVE  Truth(x, y)'
    <3>1. CASE j \in pending /\ j # i
      <4>1. ~Abandoned(j)
        BY <2>1, <3>1 DEF Book, Invoked
      <4>2. j.caller \in Callers /\ pc[j.caller] = "waiting" /\ x = op[j.caller]
        BY <1>4, <2>1, <3>1, <4>1, Waits
      <4>3. ~Abandoned(i) => j.caller # i.caller
        BY <3>1, <4>1, Waits DEF Book, Invoked
      <4>4. Truth(x, y)
        BY <2>1, <3>1, <4>2 DEF Reported, Answers
      <4> QED BY <1>7, <4>2, <4>3, <4>4
    <3>2. CASE j = r /\ ~Abandoned(i)
      <4>1. x = op[i.caller] /\ y = response /\ code = "nil" /\ x.req = i.message
        BY <1>3, <1>4, <2>1, <3>2, Waits
      <4>2. CASE i.message.method = "VgChange"
        BY <4>1, <4>2 DEF Truth
      <4>3. CASE i.message.method # "VgChange"
        <5>1. Apply(i) /\ response = Response(i)
          BY <4>1, <4>3
        <5>2. x \in work[i.caller] /\ i.caller \in Callers
          BY <3>2, <4>1, Waits DEF Book, Numbered
        <5>3. Virsh(x) /\ Part(x.req) \in Parts
          BY <5>2, PartInParts DEF Book, Types, Setting
        <5>4. k = Part(x.req) /\ k \in Parts
          BY <1>1, <4>1, <5>3
        <5>5. DOMAIN host = Parts /\ Found /\ host' = [host EXCEPT ![k] = Effect(i.message, @)]
          BY <1>1, <5>1 DEF Apply, Book, Types
        <5>6. Told(x, Response(i)) = Value(k)'
          BY <4>1, <4>3, <5>3, <5>4, <5>5, ReportIsTrue
        <5> QED BY <4>1, <5>1, <5>4, <5>6 DEF Truth
      <4> QED BY <4>2, <4>3
    <3> QED BY <1>4, <3>1, <3>2
  <2>2. ASSUME NEW q \in Callers, pc'[q] = "returning", err'[q] = "nil", NEW x, NEW y,
               x = op'[q], y = res'[q]
        PROVE  Truth(x, y)'
    <3>1. pc[q] = "returning" /\ x = op[q] /\ Truth(x, y)
      BY <1>4, <2>2 DEF Reported, Answers
    <3>2. ~Abandoned(i) => q # i.caller
      BY <3>1, Waits
    <3> QED BY <1>7, <3>1, <3>2
  <2> QED BY <2>1, <2>2, AnswersHold
<1>9. StateIsAsReported'
  <2> SUFFICES ASSUME NEW l \in Parts \ late', l[1] # "lock"
               PROVE  told'[l] = Nothing \/ told'[l] = Value(l)'
    BY DEF StateIsAsReported
  <2>1. l \in Parts \ late => told'[l] = Nothing \/ told'[l] = Value(l)
    BY <1>4 DEF Reported, StateIsAsReported
  <2>2. CASE ~Apply(i) \/ l \notin Touches(k)
    BY <1>5, <2>1, <2>2
  <2>3. CASE Apply(i) /\ l \in Touches(k)
    <3>1. ~Abandoned(i)
      BY <1>5, <2>3
    <3>2. /\ i.caller \in Callers /\ pc[i.caller] = "waiting"
          /\ l \in Touches(Part(op[i.caller].req))
      BY <1>1, <2>3, <3>1, Waits
    <3> QED BY <1>4, <3>2 DEF Reported, Unsaid
  <2> QED BY <2>2, <2>3
<1> QED BY <1>6, <1>8, <1>9 DEF Reported

LEMMA AgentStep ==
  ASSUME Setting, Book, Reported, Agent PROVE Book' /\ Reported'
<1>1. ASSUME NEW i \in pending, NEW code, NEW response, Answer(i, code, response),
             Apply(i) \/ UNCHANGED <<host, late>>,
             code = "nil" => \/ Apply(i) /\ response = Response(i)
                             \/ i.message.method = "VgChange"
      PROVE  Book' /\ Reported'
  <2>1. DOMAIN host' = Parts /\ Found'
    <3>1. CASE Apply(i)
      BY <3>1, ApplyKeeps
    <3>2. CASE UNCHANGED <<host, late>>
      BY <3>2 DEF Book, Types, Found
    <3> QED BY <1>1, <3>1, <3>2
  <2> QED BY <1>1, <2>1, AnswerBook, AnswerReported
<1>2. ASSUME NEW i \in pending, Execute(i) PROVE Book' /\ Reported'
  BY <1>1, <1>2 DEF Execute
<1>3. ASSUME NEW i \in pending, Fail(i) PROVE Book' /\ Reported'
  BY <1>1, <1>3 DEF Fail
<1>4. ASSUME NEW i \in pending, ChangeNothing(i) PROVE Book' /\ Reported'
  BY <1>1, <1>4 DEF ChangeNothing
<1>5. ASSUME NEW i \in pending, NotImplemented(i) PROVE Book' /\ Reported'
  BY <1>1, <1>5 DEF NotImplemented
<1>6. CASE Die \/ Start
  <2>1. /\ UNCHANGED <<work, pc, op, err, res, current, host, told, late, issued>>
        /\ pending' \subseteq pending
    BY <1>6 DEF Die, Start, callVars, hostVars
  <2>2. Types' /\ Numbered'
    BY <2>1 DEF Book, Types, Numbered, Found
  <2>3. Invoked'
    BY <2>1 DEF Book, Invoked, Abandoned
  <2>4. Reported'
    BY <2>1 DEF Reported, Unsaid, Answers, Truth, StateIsAsReported, Value
  <2> QED BY <2>2, <2>3, <2>4 DEF Book
<1> QED BY <1>2, <1>3, <1>4, <1>5, <1>6 DEF Agent

LEMMA NextStep ==
  ASSUME Setting, Book, Reported, [Next]_vars PROVE Book' /\ Reported'
<1>1. ASSUME NEW p \in Callers, NEW o \in work[p], Call(p, o) PROVE Book' /\ Reported'
  BY <1>1, CallBook, CallReported
<1>2. ASSUME NEW p \in Callers, Dialed(p) \/ Invoke(p) PROVE Book' /\ Reported'
  BY <1>2, InvokeBook, CallReported, InvokeReported
<1>3. ASSUME NEW p \in Callers, Answered(p) \/ Expires(p) \/ Broken(p)
      PROVE  Book' /\ Reported'
  BY <1>3, ReturnBook, ReturnReported
<1>4. ASSUME NEW p \in Callers, Finish(p) \/ Panic(p) PROVE Book' /\ Reported'
  BY <1>4, FinishBook, FinishReported
<1>5. CASE Agent
  BY <1>5, AgentStep
<1>6. CASE UNCHANGED vars
  <2>1. /\ UNCHANGED <<work, pc, op, err, res, current, host, told, late, issued>>
        /\ pending' = pending
    BY <1>6 DEF vars, callVars, agentVars, hostVars
  <2>2. Types' /\ Numbered'
    BY <2>1 DEF Book, Types, Numbered, Found
  <2>3. Invoked'
    BY <2>1 DEF Book, Invoked, Abandoned
  <2>4. Reported'
    BY <2>1 DEF Reported, Unsaid, Answers, Truth, StateIsAsReported, Value
  <2> QED BY <2>2, <2>3, <2>4 DEF Book
<1> QED BY <1>1, <1>2, <1>3, <1>4, <1>5, <1>6 DEF Next, Step

LEMMA InitStep == Init => Book /\ Reported
<1> SUFFICES ASSUME Init PROVE Book /\ Reported
  OBVIOUS
<1>1. Types
  BY DEF Init, Types, Phases, Found
<1>2. Numbered /\ Invoked
  BY DEF Init, Numbered, Invoked
<1>3. Reported
  BY DEF Init, Reported, Unsaid, Answers, StateIsAsReported
<1> QED BY <1>1, <1>2, <1>3 DEF Book

\* What a function of virsh.go told its caller without an error is so: each argument
\* went to its place and each field read is the value of its part, whatever failed,
\* expired, died and came back meanwhile, unless a call given up earlier was executed
\* after it.
THEOREM ReportsAreTrue ==
  ASSUME Setting PROVE Spec => []StateIsAsReported
<1>1. Book /\ Reported /\ [Next]_vars => Book' /\ Reported'
  BY NextStep
<1>2. Reported => StateIsAsReported
  BY DEF Reported
<1> QED BY <1>1, <1>2, InitStep, PTL DEF Spec
=============================================================================

------------------------------ MODULE Stolake ------------------------------
(***************************************************************************)
(* The calls of csilvm processes to the StoLake agent of their host        *)
(* (pkg/virsh/virsh.go over the generated client of pkg/stolake).  Each    *)
(* function of virsh.go dials, builds one message, invokes one method with *)
(* a deadline of its own, closes the connection and returns what it read   *)
(* of the response, and the error.  The deadline ends the wait and not the *)
(* work: an invocation that was given up may be executed later.  The agent *)
(* is not part of the repository; it is what its protocol says, and it may *)
(* fail, hang, die and come back in another version.  A process makes one  *)
(* call at a time (RequestQueue).                                          *)
(***************************************************************************)
EXTENDS Naturals, FiniteSets

CONSTANTS
  Callers,      \* the csilvm processes of the host
  Workloads,    \* the calls that each of them makes, in the behaviours to check
  Versions,     \* for each version of the agent, the methods it implements
  HostIp,       \* the address of the host
  NodeIp,       \* the environment variable CSI_NODE_IP, "" when it is not set
  MaxCalls,     \* bound: calls in a behaviour
  MaxDeaths     \* bound: times the agent dies

-----------------------------------------------------------------------------
(* The methods of the protocol that csilvm calls, and their messages *)

Methods ==
  {"RetrieveInfo", "VgChange", "MercuryProxy", "FileSystemType", "MountInfo", "MountVolume",
   "UnMountVolume", "StageIscsi", "UnStageIscsi", "LvQoS"}

ASSUME StolakeAssumption ==
  /\ MaxCalls \in Nat /\ MaxDeaths \in Nat
  /\ \A v \in Versions : v # {} /\ v \subseteq Methods

GetInfoReq == [method |-> "RetrieveInfo"]
ChgReq(vgname) == [method |-> "VgChange", Arg |-> <<"--lockstart", vgname>>]
MercProxyReq(cmd) == [method |-> "MercuryProxy", Cmd |-> cmd]
FileSystemTypeReq(devicepath) == [method |-> "FileSystemType", DevPath |-> devicepath]
MountInfoReq == [method |-> "MountInfo"]

\* Mutant: the group id and the mount options change places.
MountVolumeReqSwapped(source, target, fstype, guid, mountoptions, readonly, allusers) ==
  [method |-> "MountVolume", SourcePath |-> source, TargetPath |-> target,
   FsType |-> fstype, ReadOnly |-> readonly, MountOptions |-> guid,
   GroupId |-> mountoptions, AllUsers |-> allusers]

MountVolumeReq(source, target, fstype, guid, mountoptions, readonly, allusers) ==
  [method |-> "MountVolume", SourcePath |-> source, TargetPath |-> target,
   FsType |-> fstype, ReadOnly |-> readonly, MountOptions |-> mountoptions,
   GroupId |-> guid, AllUsers |-> allusers]

UnMountVolumeReq(target) == [method |-> "UnMountVolume", TargetPath |-> target]
LvQoSReq(lv, iops, mbps) ==
  [method |-> "LvQoS", TargetPath |-> lv, IOPSperGB |-> iops, MBpSperGB |-> mbps]
StageIscsiReq(lvuuid, initiqn) ==
  [method |-> "StageIscsi", LvUuid |-> lvuuid, InitiatorIqn |-> initiqn]
UnStageIscsiReq(lvuuid, initiqn) ==
  [method |-> "UnStageIscsi", LvUuid |-> lvuuid, InitiatorIqn |-> initiqn]

-----------------------------------------------------------------------------
(* The responses.  A failed invocation has none, and the getters of a response
   that is nil return the zero value. *)

Nil == [nil |-> TRUE]

GetInfoRes(name) == [AgentName |-> name]
ChgRes(isSuccess) == [IsSuccess |-> isSuccess]
MercProxyRes(stdout) == [Stdout |-> stdout]
FileSystemTypeRes(fstype) == [FsType |-> fstype]
MountInfoRes(info) == [Info |-> info]
MountVolumeRes == [Stdout |-> "mounted"]
UnMountVolumeRes == [Stdout |-> "unmounted"]
LvQoSRes == [ok |-> TRUE]
StageIscsiRes(lvuuid, portal) ==
  [TargetIqn |-> lvuuid, Lun |-> "lun0", TargetPortal |-> portal]
UnStageIscsiRes == [ok |-> TRUE]

Get(res, field) ==
  IF res # Nil THEN res[field] ELSE IF field = "Info" THEN {} ELSE ""

-----------------------------------------------------------------------------
(* The functions of virsh.go: the message that each one makes of its arguments,
   and what its caller takes a part of the host to be when it has returned no
   error: the field of the response that it returns, or what it was asked to do. *)

Returns(req, field) == [req |-> req, field |-> field, value |-> <<>>]
Does(req, value) == [req |-> req, field |-> "none", value |-> value]

StoLakeInfo == Returns(GetInfoReq, "AgentName")
VgActivate(vgname) == Does(ChgReq(vgname), <<"started">>)
ProxyStoLakeRun(cmd) == Returns(MercProxyReq(cmd), "Stdout")
FstypeProxy(devicepath) == Returns(FileSystemTypeReq(devicepath), "FsType")
MountInfo == Returns(MountInfoReq, "Info")
MountVolume(source, target, fstype, guid, mountoptions, readonly, allusers) ==
  Does(MountVolumeReq(source, target, fstype, guid, mountoptions, readonly, allusers),
       <<source, fstype, readonly, mountoptions, guid, allusers>>)
UnMountVolume(target) == Does(UnMountVolumeReq(target), <<>>)
SetQos(lv, iops, mbps) == Does(LvQoSReq(lv, iops, mbps), <<iops, mbps>>)
StageIscsiTarget(lvuuid, initiqn) == Returns(StageIscsiReq(lvuuid, initiqn), "TargetPortal")
UnStageIscsiTarget(lvuuid, initiqn) == Does(UnStageIscsiReq(lvuuid, initiqn), <<>>)

\* StageIscsiTarget: the portal of a target that listens on all of the host's
\* addresses is the one of the environment.
Portal(portal) == IF portal = "0.0.0.0" /\ NodeIp # "" THEN NodeIp ELSE portal

Told(call, res) ==
  CASE call.field = "none"         -> call.value
    [] call.field = "TargetPortal" -> <<Portal(Get(res, call.field))>>
    [] OTHER -> <<Get(res, call.field)>>

-----------------------------------------------------------------------------
(* The host.  A call is about one part of it: it gives the part a value, a
   tuple, or asks for it. *)

\* The part of the host that a message is about.
Part(m) ==
  CASE m.method = "RetrieveInfo"   -> <<"agent">>
    [] m.method = "VgChange"       -> <<"lock", m.Arg[2]>>
    [] m.method = "MercuryProxy"   -> <<"command", m.Cmd>>
    [] m.method = "FileSystemType" -> <<"fstype", m.DevPath>>
    [] m.method = "MountInfo"      -> <<"mounts">>
    [] m.method \in {"MountVolume", "UnMountVolume"} -> <<"mount", m.TargetPath>>
    [] m.method = "LvQoS"          -> <<"qos", m.TargetPath>>
    [] m.method \in {"StageIscsi", "UnStageIscsi"} -> <<"lun", m.LvUuid, m.InitiatorIqn>>

Parts == {Part(o.req) : o \in UNION UNION {{w[p] : p \in Callers} : w \in Workloads}}

\* What it makes of it; a question changes nothing.
Effect(m, value) ==
  CASE m.method = "VgChange"      -> <<"started">>
    [] m.method = "MercuryProxy"  -> <<"output">>
    [] m.method = "MountVolume"   ->
         <<m.SourcePath, m.FsType, m.ReadOnly, m.MountOptions, m.GroupId, m.AllUsers>>
    [] m.method = "UnMountVolume" -> <<>>
    [] m.method = "LvQoS"         -> <<m.IOPSperGB, m.MBpSperGB>>
    [] m.method = "StageIscsi"    -> <<HostIp>>
    [] m.method = "UnStageIscsi"  -> <<>>
    [] OTHER -> value

VARIABLES
  work,      \* the workload of the behaviour
  pc,        \* what each caller does
  op,        \* its call
  conns,     \* its open connections
  err,       \* what the invocation returned to it: the error
  res,       \* and the response
  current,   \* the number of its invocation
  pending,   \* the invocations that the agent has: number, caller, message, answer
  methods,   \* the methods that the agent implements, none when it is not there
  host,      \* the state of each part of the host
  told,      \* what the last call about it told its caller, if it succeeded
  late,      \* the parts whose last change came from a call given up
  issued, deaths   \* how many calls, and deaths of the agent

callVars == <<pc, op, conns, err, res, current>>
agentVars == <<pending, methods>>
hostVars == <<host, told, late>>
vars == <<work, callVars, agentVars, hostVars, issued, deaths>>

up == methods # {}

\* The mount table is read off the mounts; every other part has its own value.
Value(k) ==
  IF k = <<"mounts">> THEN <<{j \in DOMAIN host : j[1] = "mount" /\ host[j] # <<>>}>>
  ELSE host[k]

\* A change of a mount changes the table.
Touches(k) == {k} \union (IF k[1] = "mount" THEN {<<"mounts">>} ELSE {})

NoOp == Does([method |-> "none"], <<>>)
Nothing == <<"no", "such", "value">>

Init ==
  /\ work \in Workloads
  /\ pc = [p \in Callers |-> "idle"] /\ op = [p \in Callers |-> NoOp]
  /\ conns = [p \in Callers |-> 0] /\ err = [p \in Callers |-> "nil"]
  /\ res = [p \in Callers |-> Nil] /\ current = [p \in Callers |-> 0]
  /\ pending = {} /\ methods \in Versions \union {{}}
  /\ host = [k \in Parts |-> IF k[1] \in {"agent", "fstype"} THEN <<"found">> ELSE <<>>]
  /\ told = [k \in Parts |-> Nothing] /\ late = {}
  /\ issued = 0 /\ deaths = 0

-----------------------------------------------------------------------------
(* A call *)

\* One of the functions is called.
Call(p, o) ==
  /\ pc[p] = "idle" /\ issued < MaxCalls /\ issued' = issued + 1
  /\ pc' = [pc EXCEPT ![p] = "dialing"] /\ op' = [op EXCEPT ![p] = o]
  /\ current' = [current EXCEPT ![p] = issued + 1]
  /\ UNCHANGED <<conns, err, res, agentVars, hostVars, deaths, work>>

\* connect: Dial with WithBlock returns when the agent is there, and not before.
Dialed(p) ==
  /\ pc[p] = "dialing" /\ up
  /\ pc' = [pc EXCEPT ![p] = "connected"] /\ conns' = [conns EXCEPT ![p] = @ + 1]
  /\ UNCHANGED <<op, err, res, current, agentVars, hostVars, issued, deaths, work>>

\* The client's stub invokes the method.  Without the agent it fails at once.
Invoke(p) ==
  /\ pc[p] = "connected"
  /\ told' = [k \in Parts |-> IF k \in Touches(Part(op[p].req)) THEN Nothing ELSE told[k]]
  /\ IF up
     THEN /\ pc' = [pc EXCEPT ![p] = "waiting"] /\ UNCHANGED err
          /\ pending' = pending \union
               {[id |-> current[p], caller |-> p, message |-> op[p].req,
                 answer |-> "none", res |-> Nil]}
     ELSE /\ pc' = [pc EXCEPT ![p] = "returning"] /\ err' = [err EXCEPT ![p] = "Unavailable"]
          /\ UNCHANGED pending
  /\ UNCHANGED <<op, conns, res, current, methods, host, late, issued, deaths, work>>

\* The invocation that p waits for.
Own(p) == {i \in pending : i.id = current[p]}

Return(p, code, response) ==
  /\ pc' = [pc EXCEPT ![p] = "returning"] /\ err' = [err EXCEPT ![p] = code]
  /\ res' = [res EXCEPT ![p] = response]
  /\ UNCHANGED <<op, conns, current, methods, hostVars, issued, deaths, work>>

Answered(p) ==
  /\ pc[p] = "waiting"
  /\ \E i \in Own(p) :
       i.answer # "none" /\ pending' = pending \ {i} /\ Return(p, i.answer, i.res)

\* Mutant: the call is made with the background context.
ExpiresNever(p) ==
  /\ pc[p] = "waiting" /\ FALSE /\ Return(p, "DeadlineExceeded", Nil)
  /\ UNCHANGED pending

\* context.WithTimeout: 6 seconds, 15 for VgActivate.
Expires(p) ==
  /\ pc[p] = "waiting" /\ Return(p, "DeadlineExceeded", Nil)
  /\ pending' = {i \in pending : i \in Own(p) => i.answer = "none"}

\* The agent died with the invocation.
Broken(p) ==
  /\ pc[p] = "waiting" /\ Own(p) = {} /\ Return(p, "Unavailable", Nil)
  /\ UNCHANGED pending

\* Mutant: the connection is closed on the way of success only.
CloseOnSuccess(p) ==
  conns' = IF err[p] = "nil" THEN [conns EXCEPT ![p] = @ - 1] ELSE conns

\* The deferred ClientConn.Close.
Close(p) == conns' = [conns EXCEPT ![p] = @ - 1]

\* Mutant: a failed call is logged, and nil returned.
SwallowError(p) == "nil"

\* What the function returns: the invocation's error.
Error(p) == err[p]

Reset(p) ==
  /\ pc' = [pc EXCEPT ![p] = "idle"] /\ op' = [op EXCEPT ![p] = NoOp]
  /\ err' = [err EXCEPT ![p] = "nil"] /\ res' = [res EXCEPT ![p] = Nil]
  /\ current' = [current EXCEPT ![p] = 0]

\* The function returns to its caller.
Finish(p) ==
  /\ pc[p] = "returning" /\ ~(op[p].req.method = "StageIscsi" /\ res[p] = Nil)
  /\ Reset(p) /\ Close(p)
  /\ LET k == Part(op[p].req) IN
     told' = IF Error(p) = "nil" THEN [told EXCEPT ![k] = Told(op[p], res[p])] ELSE told
  /\ UNCHANGED <<agentVars, host, late, issued, deaths, work>>

\* StageIscsiTarget looks at portal[0:7] before the error: without a response the
\* portal is "", and the process panics, its connection with it, and is started
\* again.
Panic(p) ==
  /\ pc[p] = "returning" /\ op[p].req.method = "StageIscsi" /\ res[p] = Nil
  /\ Reset(p) /\ conns' = [conns EXCEPT ![p] = 0]
  /\ UNCHANGED <<agentVars, hostVars, issued, deaths, work>>

-----------------------------------------------------------------------------
(* The agent *)

\* Does the caller still wait for the invocation?
Abandoned(i) == ~(pc[i.caller] = "waiting" /\ current[i.caller] = i.id)

\* The handler's return; nobody reads the answer to a call that was given up.
Answer(i, code, response) ==
  /\ pending' = IF Abandoned(i) THEN pending \ {i}
                ELSE (pending \ {i}) \union {[i EXCEPT !.answer = code, !.res = response]}
  /\ UNCHANGED <<callVars, methods, told, issued, deaths, work>>

\* The generated handler of a method decodes its message and calls the agent's.
Dispatched(i) == i.answer = "none" /\ i.message.method \in methods

\* The host is as the message says.
Apply(i) ==
  LET k == Part(i.message) IN
  /\ host' = [host EXCEPT ![k] = Effect(i.message, @)]
  /\ late' = IF Abandoned(i) THEN late \union Touches(k) ELSE late \ Touches(k)

\* The response of a call that did what it was asked for.
Response(i) ==
  LET m == i.message IN
  CASE m.method = "RetrieveInfo"   -> GetInfoRes(Value(Part(m))[1])
    [] m.method = "VgChange"       -> ChgRes(TRUE)
    [] m.method = "MercuryProxy"   -> MercProxyRes("output")
    [] m.method = "FileSystemType" -> FileSystemTypeRes(Value(Part(m))[1])
    [] m.method = "MountInfo"      -> MountInfoRes(Value(Part(m))[1])
    [] m.method = "MountVolume"    -> MountVolumeRes
    [] m.method = "UnMountVolume"  -> UnMountVolumeRes
    [] m.method = "LvQoS"          -> LvQoSRes
    [] m.method = "StageIscsi"     -> StageIscsiRes(m.LvUuid, "0.0.0.0")
    [] m.method = "UnStageIscsi"   -> UnStageIscsiRes

Execute(i) == Dispatched(i) /\ Apply(i) /\ Answer(i, "nil", Response(i))

\* The agent answers with an error, having done what it was asked for or not.
Fail(i) ==
  /\ Dispatched(i) /\ Answer(i, "Unknown", Nil)
  /\ Apply(i) \/ UNCHANGED <<host, late>>

\* vgchange failed, which VgChange answers without an error.
ChangeNothing(i) ==
  /\ Dispatched(i) /\ i.message.method = "VgChange"
  /\ Answer(i, "nil", ChgRes(FALSE)) /\ UNCHANGED <<host, late>>

\* UnimplementedStolakeServer
NotImplemented(i) ==
  /\ up /\ i.answer = "none" /\ i.message.method \notin methods
  /\ Answer(i, "Unimplemented", Nil) /\ UNCHANGED <<host, late>>

Die ==
  /\ up /\ deaths < MaxDeaths /\ deaths' = deaths + 1
  /\ methods' = {} /\ pending' = {}
  /\ UNCHANGED <<callVars, hostVars, issued, work>>

\* It comes back, in the same version or in another.
Start ==
  /\ ~up /\ methods' \in Versions
  /\ UNCHANGED <<callVars, pending, hostVars, issued, deaths, work>>

-----------------------------------------------------------------------------
Step(p) ==
  \/ Dialed(p) \/ Invoke(p) \/ Answered(p) \/ Expires(p) \/ Broken(p)
  \/ Finish(p) \/ Panic(p)

Agent ==
  \/ \E i \in pending : Execute(i) \/ Fail(i) \/ ChangeNothing(i) \/ NotImplemented(i)
  \/ Die \/ Start

Next ==
  \/ \E p \in Callers : Step(p) \/ \E o \in work[p] : Call(p, o)
  \/ Agent

\* The process goes on while it can, and its timers fire.  Nothing is asked of
\* the agent, which may hang for ever, dead or alive.
Spec == Init /\ [][Next]_vars /\ \A p \in Callers : WF_vars(Step(p))

-----------------------------------------------------------------------------
(* Properties *)

\* What the last call about a mount, a quality of service, a LUN or the mount
\* table told its caller, without an error, is true: each argument went to its
\* place and what was read was answered, whatever failed, timed out, died or
\* came back in another version.  The one exception is an earlier call about it
\* that had been given up and was executed after.
StateIsAsReported ==
  \A k \in Parts \ late : k[1] # "lock" => told[k] \in {Nothing, Value(k)}

\* The same of the lock of a volume group, of which VgActivate ignores IsSuccess.
LockIsAsReported ==
  \A k \in Parts \ late : k[1] = "lock" => told[k] \in {Nothing, Value(k)}

\* And without the exception: no call that was given up is executed after a
\* later one has returned.
NothingLate == \A k \in Parts : k[1] # "lock" => told[k] \in {Nothing, Value(k)}

\* A caller that makes no call has no connection: none is left behind by a
\* call that failed, timed out or lost the agent.
NoConnectionLeak == \A p \in Callers : pc[p] = "idle" => conns[p] = 0

\* Once the connection is there a call returns, whatever the agent does or does
\* not: the deadline is the call's own.
CallReturns == \A p \in Callers : pc[p] = "connected" ~> pc[p] = "idle"

=============================================================================

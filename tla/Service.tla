------------------------------ MODULE Service ------------------------------
(***************************************************************************)
(* One csilvm process serving requests: the chain of interceptors that     *)
(* main builds, the validators, and the handlers of the methods that read  *)
(* (ListVolumes, ValidateVolumeCapabilities, GetCapacity and the Get*      *)
(* methods), one LVM command at a time, in a volume group whose logical    *)
(* volumes other hosts create, format and delete meanwhile.  The handlers  *)
(* that change volumes are modules Provisioning and Attachment; here they  *)
(* are their outcome.  A request that RequestLimitInterceptor refuses, or  *)
(* that is cancelled while it waits, is RequestQueue's: it gets to nothing *)
(* that is here.                                                           *)
(***************************************************************************)
EXTENDS Validation, FiniteSets

CONSTANTS
  Requests,    \* the requests of a behaviour
  Calls,       \* what a request may ask for
  Configs,     \* how the process may have been started
  Volumes,     \* the ids of logical volumes; an id is random and not reused
  Existing,    \* those there are at the start, which requests may name
  Size,        \* the volume group's size, a logical volume taking 1
  MaxEvents    \* bound: commands that fail and changes that other hosts make

ASSUME ServiceAssumption ==
  /\ MaxEvents \in Nat /\ Existing \subseteq Volumes
  /\ Size \in Nat /\ IsFiniteSet(Volumes) /\ Cardinality(Volumes) <= Size

\* What main and Setup leave behind: the -remove-volume-group flag, whether
\* StoLake executes the commands, whether Setup found the volume group (if not,
\* s.volumeGroup is nil), whether the group's name has the five characters that
\* two handlers cut off, and whether the host has an iSCSI initiator name.
ConfigType == [removing : BOOLEAN, proxy : BOOLEAN, found : BOOLEAN,
               longName : BOOLEAN, initiator : BOOLEAN, controller : BOOLEAN]

Unimplemented ==
  {"CreateSnapshot", "DeleteSnapshot", "ListSnapshots", "ControllerExpandVolume",
   "ControllerGetVolume", "NodeStageVolume", "NodeUnstageVolume",
   "NodeExpandVolume", "NodeGetVolumeStats"}
Static == {"GetPluginInfo", "GetPluginCapabilities", "ControllerGetCapabilities",
           "NodeGetCapabilities", "NodeGetInfo"}
\* The methods whose handlers are here as their outcome only.
Delegated == {"CreateVolume", "DeleteVolume", "ControllerUnpublishVolume", "Probe"}

\* What the volume or publish context says (the datapath, if there is a context,
\* and whether iopspergb and mbpspergb are in it); and whether the mirrors of the
\* parameters are the largest uint64, so that the copies, one more, are 0.
CallType == [method : Unimplemented \union Static \union Delegated \union
                        {"ListVolumes", "ValidateVolumeCapabilities",
                         "GetCapacity", "ControllerPublishVolume",
                         "NodePublishVolume", "NodeUnpublishVolume"},
             id : Existing \union {""}, name : {"", "name"}, path : {"", "path"},
             context : {"nil", "direct", "iscsi", "jbofis"}, qos : BOOLEAN,
             readonly : BOOLEAN, token : {"", "token"},
             range : {"absent", "empty", "inverted", "fit"},
             mirrors : {"few", "max"}, caps : Seq(Capability)]

Keys == {q.method : q \in Calls} \X {"success", "error"}

VARIABLES
  conf,       \* the process's configuration, fixed once it serves
  killer,     \* the call whose handler's panic ended the process
  call,       \* what each request asks for
  phase, pos, \* its way down the chain, in the handler, and up again
  step, cur, todo,   \* where its handler is, at which volume, and what is left
  answer,     \* its code
  reply,      \* and the response's content
  lock,       \* who holds SerializingInterceptor's semaphore
  scope,      \* MetricsInterceptor's captured scope: the method it is tagged with
  counted,    \* the requests that were counted
  counters,   \* the counter of each method and result
  gauge,      \* volumes, bytes-total, bytes-free and bytes-used
  lvs, born,  \* the logical volumes there are, and ever were
  fs,         \* the filesystem, or "", on those that requests name
  window,     \* of a listing: the volumes there always and ever were meanwhile
  validated,  \* <<volume, capability, its filesystem>> of each confirmation
  events      \* how many of them there were

groupVars == <<lvs, born, fs, window>>
handlerVars == <<step, cur, todo, reply, gauge, validated>>
chainVars == <<lock, scope, counted, counters>>
vars == <<conf, killer, call, phase, pos, answer, handlerVars, chainVars,
          groupVars, events>>

NoCall == [method |-> "none"]
NoReply == [entries |-> {}, capacity |-> 0, info |-> ""]

Init ==
  /\ conf \in Configs
  /\ killer = NoCall
  /\ call = [r \in Requests |-> NoCall]
  /\ phase = [r \in Requests |-> "new"] /\ pos = [r \in Requests |-> 0]
  /\ step = [r \in Requests |-> "none"] /\ cur = [r \in Requests |-> ""]
  /\ todo = [r \in Requests |-> {}]
  /\ answer = [r \in Requests |-> "none"] /\ reply = [r \in Requests |-> NoReply]
  /\ lock = "free" /\ scope = "none" /\ counted = {}
  /\ counters = [k \in Keys |-> 0]
  /\ gauge = [volumes |-> 0, total |-> 0, free |-> 0, used |-> 0]
  /\ lvs = Existing /\ born = Existing
  /\ fs \in [Existing -> {"", DefaultFs, OtherFs}]
  /\ window = [r \in Requests |-> [always |-> {}, ever |-> {}]]
  /\ validated = {} /\ events = 0

Alive == killer = NoCall

\* The command that lvm.run or a helper runs fails, or its output does not parse.
Event == events < MaxEvents /\ events' = events + 1
Fault == Event
NoFault == UNCHANGED events
\* So does one that names a logical volume that is gone.
Fails(v) == (v \notin lvs /\ NoFault) \/ Fault

-----------------------------------------------------------------------------
(* The chain *)

\* Mutant: the metrics are outside of the serializing interceptor.
MetricsFirst == <<"metrics", "serial">>

\* ChainUnaryServer calls its arguments in their order, the first outermost;
\* outside of these is RequestLimitInterceptor, and LoggingInterceptor, which
\* only logs, is between them.
Chain == <<"serial", "metrics">>

At(r, ph, interceptor) ==
  /\ Alive /\ phase[r] = ph
  /\ pos[r] \in DOMAIN Chain /\ Chain[pos[r]] = interceptor

\* The call of the next handler of the chain, and the return to the one before.
Descend(r) ==
  /\ pos' = [pos EXCEPT ![r] = @ + 1]
  /\ phase' = [phase EXCEPT ![r] = IF pos[r] = Len(Chain) THEN "handler" ELSE "down"]
  /\ step' = IF pos[r] = Len(Chain) THEN [step EXCEPT ![r] = "validate"] ELSE step
Ascend(r) ==
  /\ pos' = [pos EXCEPT ![r] = @ - 1]
  /\ phase' = [phase EXCEPT ![r] = IF pos[r] = 1 THEN "done" ELSE "up"]

Receive(r, q) ==
  /\ Alive /\ phase[r] = "new"
  /\ call' = [call EXCEPT ![r] = q]
  /\ phase' = [phase EXCEPT ![r] = "down"] /\ pos' = [pos EXCEPT ![r] = 1]
  /\ UNCHANGED <<answer, step, chainVars>>

SerialAcquire(r) ==
  /\ At(r, "down", "serial") /\ lock = "free"
  /\ lock' = r /\ Descend(r)
  /\ UNCHANGED <<call, answer, scope, counted, counters>>

SerialRelease(r) ==
  /\ At(r, "up", "serial") /\ lock' = "free" /\ Ascend(r)
  /\ UNCHANGED <<call, answer, step, scope, counted, counters>>

\* MetricsInterceptor assigns the scope that all of its calls share.
MetricsTag(r) ==
  /\ At(r, "down", "metrics") /\ scope' = call[r].method /\ Descend(r)
  /\ UNCHANGED <<call, answer, lock, counted, counters>>

Result(a) == IF a = OK THEN "success" ELSE "error"

MetricsCount(r) ==
  /\ At(r, "up", "metrics")
  /\ counters' = [counters EXCEPT ![<<scope, Result(answer[r])>>] = @ + 1]
  /\ counted' = counted \union {r} /\ Ascend(r)
  /\ UNCHANGED <<call, answer, step, lock, scope>>

Interceptors ==
  /\ \E r \in Requests :
       \/ \E q \in Calls : Receive(r, q)
       \/ SerialAcquire(r) \/ SerialRelease(r)
       \/ MetricsTag(r) \/ MetricsCount(r)
  /\ UNCHANGED <<conf, killer, cur, todo, reply, gauge, validated,
                 groupVars, events>>

-----------------------------------------------------------------------------
(* The handlers: where one is, and how it goes on *)

In(r, s, methods) ==
  /\ Alive /\ phase[r] = "handler" /\ step[r] = s /\ call[r].method \in methods

\* The handler returns; of what it had there is only the answer left.
Answer(r, a) ==
  /\ answer' = [answer EXCEPT ![r] = a] /\ Ascend(r)
  /\ step' = [step EXCEPT ![r] = "none"] /\ cur' = [cur EXCEPT ![r] = ""]
  /\ todo' = [todo EXCEPT ![r] = {}]
  /\ UNCHANGED killer

Go(r, s) ==
  /\ step' = [step EXCEPT ![r] = s]
  /\ UNCHANGED <<answer, phase, pos, killer>>

\* No interceptor recovers: the process ends with everything in it.
Panic(r) ==
  /\ killer' = call[r]
  /\ UNCHANGED <<answer, phase, pos, step, cur, todo>>

ValidateRequest(r) ==
  /\ Alive /\ phase[r] = "handler" /\ step[r] = "validate"
  /\ LET err == Refusal(call[r], conf.removing, conf.proxy)
     IN  IF err # OK THEN Answer(r, err)
                     ELSE Go(r, "run") /\ UNCHANGED <<cur, todo>>
  /\ NoFault /\ UNCHANGED <<reply, gauge, validated, groupVars>>

NotImplemented(r) ==
  /\ In(r, "run", Unimplemented) /\ Answer(r, "ErrCallNotImplemented")
  /\ NoFault /\ UNCHANGED <<reply, gauge, validated, groupVars>>

Inform(r, info) ==
  /\ Answer(r, OK) /\ reply' = [reply EXCEPT ![r].info = info]
  /\ NoFault /\ UNCHANGED <<gauge, validated, groupVars>>

GetCapabilities(r) ==
  /\ In(r, "run", Static \ {"GetPluginInfo", "NodeGetInfo"})
  /\ Inform(r, IF call[r].method = "GetPluginCapabilities" /\ ~conf.controller
               THEN "VOLUME_ACCESSIBILITY_CONSTRAINTS" ELSE "services")

\* The tenant is s.vgname[5:].
GetPluginInfo(r) ==
  /\ In(r, "run", {"GetPluginInfo"}) /\ conf.longName /\ Inform(r, "tenant")
NodeGetInfo(r) ==
  /\ In(r, "run", {"NodeGetInfo"}) /\ conf.longName
  /\ Inform(r, IF conf.initiator THEN "initiatorName" ELSE "nodeID")
NoTenant(r) ==
  /\ In(r, "run", {"GetPluginInfo", "NodeGetInfo"}) /\ ~conf.longName /\ Panic(r)
  /\ NoFault /\ UNCHANGED <<reply, gauge, validated, groupVars>>

-----------------------------------------------------------------------------
(* reportStorageMetrics, which four handlers defer when all but their response is
   done: it runs when that is made, and an error ends it and not the request. *)

Reporters == {"ListVolumes", "GetCapacity", "CreateVolume", "DeleteVolume"}

ReportVolumes(r) ==
  /\ In(r, "report", Reporters)
  /\ \/ NoFault /\ Go(r, "bytes") /\ UNCHANGED <<cur, todo>>
        /\ gauge' = [gauge EXCEPT !.volumes = Cardinality(lvs)]
     \/ Fault /\ Answer(r, OK) /\ UNCHANGED gauge
  /\ UNCHANGED <<reply, validated, groupVars>>

BytesFree == Size - Cardinality(lvs)

\* BytesTotal, then BytesFree, each of which may fail.
ReportBytes(r) ==
  /\ In(r, "bytes", Reporters)
  /\ \/ NoFault /\ gauge' = [gauge EXCEPT !.total = Size, !.free = BytesFree,
                                         !.used = Size - BytesFree]
     \/ Fault /\ gauge' \in {gauge, [gauge EXCEPT !.total = Size]}
  /\ Answer(r, OK) /\ UNCHANGED <<reply, validated, groupVars>>

-----------------------------------------------------------------------------
(* ListVolumes: one command for the names, two for each of them *)

ListNothing(r) ==
  /\ In(r, "run", {"ListVolumes"})
  /\ \/ conf.removing /\ Answer(r, OK)
     \/ ~conf.removing /\ call[r].token # "" /\ Answer(r, "Aborted")
  /\ NoFault /\ UNCHANGED <<reply, gauge, validated, groupVars>>

\* The loop goes on, or the response is made.
ListNext(r, names) ==
  /\ todo' = [todo EXCEPT ![r] = names]
  /\ Go(r, IF names = {} THEN "report" ELSE "lookup")

ListLogicalVolumeNames(r) ==
  /\ In(r, "run", {"ListVolumes"})
  /\ ~conf.removing /\ call[r].token = "" /\ conf.found
  /\ \/ /\ NoFault /\ ListNext(r, lvs) /\ UNCHANGED cur
        /\ window' = [window EXCEPT ![r] = [always |-> lvs, ever |-> lvs]]
     \/ Fault /\ Answer(r, "Internal") /\ UNCHANGED window
  /\ UNCHANGED <<reply, gauge, validated, lvs, born, fs>>

\* Mutant: a volume that cannot be looked up is left out of the list.
SkipUnknown(r) ==
  /\ In(r, "lookup", {"ListVolumes"})
  /\ \E v \in todo[r] :
       \/ /\ v \in lvs /\ NoFault /\ Go(r, "attributes")
          /\ cur' = [cur EXCEPT ![r] = v] /\ UNCHANGED todo
       \/ /\ Fails(v)
          /\ ListNext(r, todo[r] \ {v}) /\ UNCHANGED cur
  /\ UNCHANGED <<reply, gauge, validated, groupVars>>

ListLookup(r) ==
  /\ In(r, "lookup", {"ListVolumes"})
  /\ \E v \in todo[r] :
       \/ /\ v \in lvs /\ NoFault /\ Go(r, "attributes")
          /\ cur' = [cur EXCEPT ![r] = v] /\ UNCHANGED todo
       \/ /\ Fails(v)
          /\ Answer(r, "ErrVolumeNotFound")
  /\ UNCHANGED <<reply, gauge, validated, groupVars>>

ListAttributes(r) ==
  /\ In(r, "attributes", {"ListVolumes"})
  /\ \/ /\ cur[r] \in lvs /\ NoFault
        /\ reply' = [reply EXCEPT ![r].entries = @ \union {cur[r]}]
        /\ ListNext(r, todo[r] \ {cur[r]}) /\ cur' = [cur EXCEPT ![r] = ""]
     \/ /\ Fails(cur[r])
        /\ Answer(r, "Internal") /\ UNCHANGED reply
  /\ UNCHANGED <<gauge, validated, groupVars>>

-----------------------------------------------------------------------------
(* GetCapacity *)

\* Mutant: only the first capability's filesystem is looked at.
FirstFsUnsupported(q) ==
  q.caps # <<>> /\ q.caps[1].type = "mount" /\ q.caps[1].fs \notin SupportedFilesystems

SomeFsUnsupported(q) ==
  \E i \in DOMAIN q.caps : q.caps[i].type = "mount" /\ q.caps[i].fs \notin SupportedFilesystems

NoCapacity(r) ==
  /\ In(r, "run", {"GetCapacity"})
  /\ conf.removing \/ SomeFsUnsupported(call[r])
  /\ Answer(r, OK)
  /\ NoFault /\ UNCHANGED <<reply, gauge, validated, groupVars>>

\* extentsFree divides by the copies; MinNumberOfDevices, -2 as an int, stops
\* nothing.
NoCopies(q) == q.mirrors = "max"

GetCapacity(r) ==
  /\ In(r, "run", {"GetCapacity"})
  /\ ~conf.removing /\ ~SomeFsUnsupported(call[r]) /\ conf.found
  /\ \/ NoFault /\ ~NoCopies(call[r]) /\ Go(r, "report") /\ UNCHANGED <<cur, todo>>
        /\ reply' = [reply EXCEPT ![r].capacity = BytesFree]
     \/ NoFault /\ NoCopies(call[r]) /\ Panic(r) /\ UNCHANGED reply
     \/ Fault /\ Answer(r, "Internal") /\ UNCHANGED reply
  /\ UNCHANGED <<gauge, validated, groupVars>>

-----------------------------------------------------------------------------
(* ValidateVolumeCapabilities, and the part of NodePublishVolume that can still
   refuse a capability *)

\* LookupLogicalVolume; every error is answered alike.  NodePublishVolume asks
\* for it of the direct datapath, and of JBOFs once their targets are logged in.
Lookup(r) ==
  /\ In(r, "run", {"ValidateVolumeCapabilities", "NodePublishVolume"}) /\ conf.found
  /\ call[r].method = "NodePublishVolume" =>
       call[r].context = "direct" \/ (call[r].context = "jbofis" /\ conf.proxy)
  /\ \/ call[r].id \in lvs /\ NoFault /\ Go(r, "device") /\ UNCHANGED <<cur, todo>>
     \/ /\ Fails(call[r].id)
        /\ Answer(r, "ErrVolumeNotFound")
  /\ UNCHANGED <<reply, gauge, validated, groupVars>>

\* LoginIscsiTarget, for which there must be a StoLake.
Login(r) ==
  /\ In(r, "run", {"NodePublishVolume"}) /\ call[r].context \in {"iscsi", "jbofis"}
  /\ \/ /\ Fault \/ (~conf.proxy /\ NoFault)
        /\ Answer(r, "Internal")
     \/ /\ call[r].context = "iscsi" /\ conf.proxy /\ NoFault
        /\ Go(r, "device") /\ UNCHANGED <<cur, todo>>
  /\ UNCHANGED <<reply, gauge, validated, groupVars>>

NoDatapath(r) ==
  /\ In(r, "run", {"NodePublishVolume"}) /\ call[r].context = "nil"
  /\ Answer(r, "Internal")
  /\ NoFault /\ UNCHANGED <<reply, gauge, validated, groupVars>>

\* Mutant: the filesystem that the volume has is not compared.
AnyFilesystem(existing, caps) == OK

FilesystemMismatch(existing, caps) ==
  IF existing # "" /\ \E i \in DOMAIN caps :
       caps[i].type = "mount" /\ caps[i].fs # "" /\ caps[i].fs # existing
  THEN "ErrMismatchedFilesystemType" ELSE OK

\* lv.Path and determineFilesystemType, then the comparison.
ConfirmCapabilities(r) ==
  /\ In(r, "device", {"ValidateVolumeCapabilities"})
  /\ LET v == call[r].id
         caps == call[r].caps
         err == FilesystemMismatch(fs[v], caps)
     IN  \/ /\ v \in lvs /\ NoFault /\ Answer(r, err)
            /\ validated' = IF err # OK THEN validated ELSE
                 validated \union {<<v, caps[i], fs[v]>> : i \in DOMAIN caps}
         \/ /\ Fails(v)
            /\ Answer(r, "Internal") /\ UNCHANGED validated
  /\ UNCHANGED <<reply, gauge, groupVars>>

\* Published by this process: the QoS of the context, if any, is still to be set.
Published(r) ==
  IF call[r].qos /\ ~conf.proxy THEN Go(r, "qos") /\ UNCHANGED <<cur, todo>>
                                ELSE Answer(r, OK)

\* nodePublishVolume_Mount with nothing at the target path: a volume without a
\* filesystem is formatted; with another one the mount is refused.
MountLocally(r, v, c) ==
  LET fstype == FsOf(c.fs)
  IN  IF fs[v] \in {"", fstype}
      THEN Published(r) /\ fs' = [fs EXCEPT ![v] = fstype]
      ELSE Answer(r, "ErrMismatchedFilesystemType") /\ UNCHANGED fs

\* The switch on the access type; a failure on the way (activation, mkfs,
\* mount, StoLake) is an Internal error.
PublishDevice(r) ==
  /\ In(r, "device", {"NodePublishVolume"})
  /\ LET v == call[r].id
         c == call[r].caps[1]
     IN  IF c.type = "none" THEN Panic(r) /\ NoFault /\ UNCHANGED fs ELSE
         \/ c.type = "block" /\ v \in lvs /\ Published(r) /\ NoFault /\ UNCHANGED fs
         \/ c.type = "mount" /\ v \in lvs /\ ~conf.proxy /\ MountLocally(r, v, c) /\ NoFault
         \/ /\ c.type = "mount" /\ v \in lvs /\ conf.proxy /\ Answer(r, OK) /\ NoFault
            /\ fs' = [fs EXCEPT ![v] = IF @ = "" THEN FsOf(c.fs) ELSE @]
         \/ /\ Fails(v) /\ Answer(r, "Internal") /\ UNCHANGED fs
  /\ UNCHANGED <<reply, gauge, validated, lvs, born, window>>

\* The volume is looked up once more to be tagged.  The lookup's error is not
\* looked at, and AddTag dereferences the volume; AddTag's own is logged only.
TagQos(r) ==
  /\ In(r, "qos", {"NodePublishVolume"})
  /\ \/ call[r].id \in lvs /\ NoFault /\ Answer(r, OK)
     \/ Fails(call[r].id) /\ Panic(r)
  /\ UNCHANGED <<reply, gauge, validated, groupVars>>

-----------------------------------------------------------------------------
(* What can go wrong in the other handlers of a publication; the rest of them is
   in module Attachment. *)

\* StageIscsiTarget cuts the portal of the response ahead of its error: when
\* StoLake fails there is no portal.
StageIscsiTarget(r) ==
  \/ /\ Fails(call[r].id) \/ (~conf.proxy /\ NoFault)
     /\ Answer(r, "ErrVolumeNotFound")
  \/ call[r].id \in lvs /\ conf.proxy /\ NoFault /\ Answer(r, OK)
  \/ call[r].id \in lvs /\ conf.proxy /\ Fault /\ Panic(r)

\* A JBOF that cannot be connected to is an error; one whose response has a
\* target without a portal is a panic.
JbofStageIscsiTargets(r) ==
  \/ NoFault /\ Answer(r, OK)
  \/ Fault /\ (Answer(r, "ErrVolumeNotFound") \/ Panic(r))

\* The volume context is copied, and one that is absent stays a nil map, in
\* which the direct datapath (which is the default) sets an entry.
ControllerPublishVolume(r) ==
  /\ In(r, "run", {"ControllerPublishVolume"})
  /\ LET q == call[r]
         invalid == q.id = "" \/ q.caps = <<>>
     IN  \/ invalid /\ NoFault /\ Answer(r, "InvalidArgument")
         \/ ~invalid /\ q.context = "nil" /\ NoFault /\ Panic(r)
         \/ ~invalid /\ q.context = "direct" /\ NoFault /\ Answer(r, OK)
         \/ ~invalid /\ q.context = "jbofis" /\ JbofStageIscsiTargets(r)
         \/ ~invalid /\ q.context = "iscsi" /\ conf.found /\ StageIscsiTarget(r)
  /\ UNCHANGED <<reply, gauge, validated, groupVars>>

\* Whatever is at the target path, it is unmounted or not.  If it is a logical
\* volume, the one that the request names is looked up, and used though the
\* lookup failed.
NodeUnpublishVolume(r) ==
  /\ In(r, "run", {"NodeUnpublishVolume"})
  /\ \/ \E a \in {OK, "Internal"} : Answer(r, a) /\ NoFault
     \/ conf.found /\ Fails(call[r].id) /\ Panic(r)
  /\ UNCHANGED <<reply, gauge, validated, groupVars>>

-----------------------------------------------------------------------------
(* The handlers of the other modules, and what a nil volumeGroup does *)

\* The volumes of the running listings, after a change of the group.
Watch ==
  window' = [r \in Requests |->
    IF phase[r] = "handler" /\ step[r] \in {"lookup", "attributes"}
    THEN [always |-> window[r].always \intersect lvs', ever |-> window[r].ever \union lvs']
    ELSE window[r]]

Add(v) ==
  /\ v \in Volumes \ born /\ lvs' = lvs \union {v} /\ born' = born \union {v}
  /\ UNCHANGED fs /\ Watch
Delete(v) ==
  /\ v \in lvs /\ lvs' = lvs \ {v}
  /\ UNCHANGED <<born, fs>> /\ Watch

\* A CreateVolume with a capacity range asks for the free space, unless the
\* volume exists already.
Delegate(r) ==
  /\ In(r, "run", Delegated) /\ (conf.found \/ call[r].method = "Probe")
  /\ \/ \E a \in {OK, "Internal"} : Answer(r, a) /\ UNCHANGED groupVars
     \/ /\ call[r].method = "CreateVolume" /\ NoCopies(call[r]) /\ call[r].range # "absent"
        /\ Panic(r) /\ UNCHANGED groupVars
     \/ /\ \/ /\ call[r].method = "CreateVolume" /\ ~NoCopies(call[r])
              /\ \E v \in Volumes : Add(v)
           \/ call[r].method = "DeleteVolume" /\ Delete(call[r].id)
        /\ Go(r, "report") /\ UNCHANGED <<cur, todo>>
  /\ NoFault /\ UNCHANGED <<reply, gauge, validated>>

\* A method of *VolumeGroup dereferences its receiver: where a handler comes to
\* use s.volumeGroup, or, unpublishing, may come to it.
NilVolumeGroup(r) ==
  /\ \/ In(r, "run", {"CreateVolume", "DeleteVolume", "ControllerUnpublishVolume",
                      "NodeUnpublishVolume", "ValidateVolumeCapabilities"})
     \/ /\ In(r, "run", {"ControllerPublishVolume"}) /\ call[r].context = "iscsi"
        /\ call[r].id # "" /\ call[r].caps # <<>>
     \/ /\ In(r, "run", {"NodePublishVolume"})
        /\ call[r].context = "direct" \/ (call[r].context = "jbofis" /\ conf.proxy)
     \/ In(r, "run", {"ListVolumes"}) /\ ~conf.removing /\ call[r].token = ""
     \/ In(r, "run", {"GetCapacity"}) /\ ~conf.removing /\ ~SomeFsUnsupported(call[r])
  /\ ~conf.found /\ Panic(r)
  /\ NoFault /\ UNCHANGED <<reply, gauge, validated, groupVars>>

Handlers ==
  /\ \E r \in Requests :
       \/ ValidateRequest(r) \/ NotImplemented(r) \/ GetCapabilities(r)
       \/ GetPluginInfo(r) \/ NodeGetInfo(r) \/ NoTenant(r)
       \/ ReportVolumes(r) \/ ReportBytes(r)
       \/ ListNothing(r) \/ ListLogicalVolumeNames(r) \/ ListLookup(r)
       \/ ListAttributes(r) \/ NoCapacity(r) \/ GetCapacity(r)
       \/ Lookup(r) \/ Login(r) \/ NoDatapath(r) \/ ConfirmCapabilities(r)
       \/ PublishDevice(r) \/ TagQos(r)
       \/ ControllerPublishVolume(r) \/ NodeUnpublishVolume(r)
       \/ Delegate(r) \/ NilVolumeGroup(r)
  /\ UNCHANGED <<conf, call, chainVars>>

-----------------------------------------------------------------------------
(* The other hosts of the volume group *)

OtherHosts ==
  /\ Alive /\ Event
  /\ \/ \E v \in Volumes : Add(v) \/ Delete(v)
     \/ \E v \in Existing :
          /\ v \in lvs /\ fs[v] = "" /\ UNCHANGED <<lvs, born, window>>
          /\ \E f \in {DefaultFs, OtherFs} : fs' = [fs EXCEPT ![v] = f]
  /\ UNCHANGED <<conf, killer, call, phase, pos, answer, handlerVars, chainVars>>

Next == Interceptors \/ Handlers \/ OtherHosts

Spec == Init /\ [][Next]_vars

-----------------------------------------------------------------------------
(* Properties *)

TypeOK ==
  /\ conf \in Configs /\ call \in [Requests -> Calls \union {NoCall}]
  /\ phase \in [Requests -> {"new", "down", "handler", "up", "done"}]
  /\ pos \in [Requests -> 0..(Len(Chain) + 1)]
  /\ lock \in Requests \union {"free"}
  /\ lvs \subseteq born /\ born \subseteq Volumes
  /\ counters \in [Keys -> Nat] /\ events \in 0..MaxEvents

\* A list that ListVolumes answers has every volume there was all the time from
\* its first command to its last, and no volume there never was: a volume that
\* another host deletes, or a command that fails, costs the answer and not an
\* entry of it.
ListingIsConsistent ==
  \A r \in Requests :
    /\ call[r].method = "ListVolumes" /\ answer[r] = OK /\ ~conf.removing
    => /\ window[r].always \subseteq reply[r].entries
       /\ reply[r].entries \subseteq window[r].ever

\* Each counter is the number of the requests of its method and result that got
\* through the chain, though all calls of MetricsInterceptor tag one variable
\* of the closure they share.
CountedAsServed ==
  \A k \in Keys :
    counters[k] = Cardinality({r \in counted :
                                 <<call[r].method, Result(answer[r])>> = k})

\* The requests that may end the process.  Where everything works and the group
\* was found: GetPluginInfo and NodeGetInfo of a group with a short name,
\* ControllerPublishVolume without a volume context, and GetCapacity and
\* CreateVolume with the largest number of mirrors.  Where a command failed, or
\* the volume is gone: those whose handlers use what the command should have
\* returned.  Where Setup did not find the group: any other; but in the removing
\* mode, of all of these, only the two that no validator stops.  No capability
\* that a client can send reaches the panic in NodePublishVolume's switch.
OnlyKnownPanics ==
  LET q == killer
      publishes == q.method = "ControllerPublishVolume"
  IN  \/ Alive
      \/ q.method \in {"GetPluginInfo", "NodeGetInfo"} /\ ~conf.longName
      \/ publishes /\ q.context = "nil"
      \/ publishes /\ q.context \in {"iscsi", "jbofis"} /\ events > 0
      \/ /\ ~conf.removing
         /\ \/ q.method \in {"GetCapacity", "CreateVolume"} /\ q.mirrors = "max"
            \/ /\ \/ q.method = "NodePublishVolume" /\ q.qos /\ ~conf.proxy
                  \/ q.method = "NodeUnpublishVolume"
               /\ events > 0 \/ q.id \notin lvs
      \/ /\ ~conf.found
         /\ conf.removing =>
              \/ publishes /\ q.context = "iscsi"
              \/ q.method = "ControllerUnpublishVolume"

CapabilityErrors ==
  {"ErrMismatchedFilesystemType", "ErrUnsupportedFilesystem", "ErrBlockVolNoRO",
   "ErrMissingAccessType", "ErrMissingAccessMode", "ErrMissingAccessModeMode",
   "ErrUnsupportedAccessMode", "ErrInvalidAccessMode"}

\* The publishes that are refused for the capability they ask for, though
\* ValidateVolumeCapabilities had confirmed it of the same filesystem.
RefusedThoughConfirmed ==
  {r \in Requests :
     /\ call[r].method = "NodePublishVolume" /\ ~call[r].readonly
     /\ answer[r] \in CapabilityErrors /\ call[r].caps # <<>>
     /\ <<call[r].id, call[r].caps[1], fs[call[r].id]>> \in validated}

\* A capability that ValidateVolumeCapabilities confirmed is not what
\* NodePublishVolume refuses, unless the volume was formatted in between; of
\* the capabilities that name a filesystem.
ValidatedIsPublishable ==
  \A r \in RefusedThoughConfirmed : call[r].caps[1].type = "mount" /\ call[r].caps[1].fs = ""

\* The same of all of them: the default filesystem is compared when the volume
\* is published and not when the capability is validated.
DefaultIsPublishable == RefusedThoughConfirmed = {}

\* When GetCapacity offers space for a list of capabilities, CreateVolume takes
\* the same list: GetCapacity's validator lets an unsupported filesystem pass,
\* and its handler has to make up for it.
OfferedIsCreatable ==
  \A r \in Requests :
    /\ call[r].method = "GetCapacity" /\ reply[r].capacity > 0 /\ call[r].caps # <<>>
    => /\ ~conf.removing
       /\ validateVolumeCapabilities(call[r].caps) = OK

=============================================================================

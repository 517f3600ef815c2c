----------------------------- MODULE Attachment -----------------------------
(***************************************************************************)
(* Bringing a volume to a pod and taking it away again: the controller's   *)
(* ControllerPublishVolume and ControllerUnpublishVolume, each node's      *)
(* NodePublishVolume and NodeUnpublishVolume (server.go, mount.go), at the *)
(* granularity of the commands and StoLake calls they make (virsh.go).     *)
(* Each plugin process executes one handler at a time (RequestQueue); the  *)
(* processes interleave.  The orchestrator (CO) retries each call until it *)
(* is answered, and may turn round before it is.  The volume group is      *)
(* shared: lvmlockd lets one host at a time have an LV active.             *)
(***************************************************************************)
EXTENDS Naturals, FiniteSets

CONSTANTS
  Vols, Nodes,
  Controller,   \* the host of the controller plugin
  Datapath,     \* of the storage class: "direct", "sas" or "iscsi"
  Proxy,        \* whether commands go through StoLake (virsh.ProxyMode)
  Block,        \* whether the volumes are published as block devices
  SbvgName,     \* whether the name of the volume group begins with "sbvg_"
  Qos,          \* whether the storage class sets iopspergb and mbpspergb
  Faults,       \* the kinds of fault that can happen
  MaxFaults,    \* bound: how many faults happen in a behaviour
  None          \* no volume, no node

FaultKinds == {"lookup", "cmd", "timeout", "umount", "ignored", "crash", "lost"}

ASSUME AttachmentAssumption ==
  /\ Datapath \in {"direct", "sas", "iscsi"}
  /\ Datapath = "iscsi" => Proxy      \* iscsiadm is run by StoLake only
  /\ Proxy \in BOOLEAN /\ Block \in BOOLEAN
  /\ SbvgName \in BOOLEAN /\ Qos \in BOOLEAN
  /\ Faults \subseteq FaultKinds /\ MaxFaults \in Nat
  /\ None \notin Vols /\ None \notin Nodes

Hosts == Nodes \cup {Controller}

VARIABLES
  active,    \* <<v, host>>: the LV is active there
  target,    \* <<v, n>>: an iSCSI target of the LV is staged for n
  session,   \* <<v, n>>: n is logged in to it
  mount,     \* what is at the target path of v on n
  content,   \* what is on the volume
  tagged,    \* volumes with their QoS tag
  hc,        \* the controller's handler
  hn,        \* each node's handler
  co,        \* how far the CO is with each volume
  faults     \* number of faults so far

store == <<active, target, session, mount, content, tagged>>
vars == <<active, target, session, mount, content, tagged, hc, hn, co, faults>>

Idle == [pc |-> "idle", vol |-> None, err |-> FALSE]

Init ==
  /\ active = {} /\ target = {} /\ session = {} /\ tagged = {}
  /\ mount = [v \in Vols |-> [n \in Nodes |-> "none"]]
  /\ content = [v \in Vols |-> "blank"]
  /\ hc = Idle
  /\ hn = [n \in Nodes |-> Idle]
  /\ co = [v \in Vols |-> [st |-> "free", node |-> None]]
  /\ faults = 0

-----------------------------------------------------------------------------
(* Faults, answers and control flow *)

Fault(kind) ==
  /\ kind \in Faults
  /\ faults < MaxFaults
  /\ faults' = faults + 1

NoFault == UNCHANGED faults

Reaches(v, st) == co' = [co EXCEPT ![v].st = st]

\* The controller's handler goes on to pc; returns an error or dies; or
\* returns a success, which the CO learns of unless it is lost.
CtrlGoto(pc) == hc' = [hc EXCEPT !.pc = pc] /\ UNCHANGED co
CtrlFail == hc' = Idle /\ UNCHANGED co
CtrlSucceed(st) ==
  /\ hc' = Idle
  /\ \/ NoFault /\ Reaches(hc.vol, st)
     \/ Fault("lost") /\ UNCHANGED co

\* The same for the handler of node n.
NodeGoto(n, pc) == hn' = [hn EXCEPT ![n].pc = pc] /\ UNCHANGED co
NodeFail(n) == hn' = [hn EXCEPT ![n] = Idle] /\ UNCHANGED co
NodeSucceed(n, st) ==
  /\ hn' = [hn EXCEPT ![n] = Idle]
  /\ \/ NoFault /\ Reaches(hn[n].vol, st)
     \/ Fault("lost") /\ UNCHANGED co

\* lvchange -ay in a shared volume group takes the exclusive lock of the LV.
CanActivate(v, host) == \A other \in Hosts \ {host} : <<v, other>> \notin active

\* lvchange -an fails while the LV is in use.
InUse(v, host) ==
  \/ host = Controller /\ \E n \in Nodes : <<v, n>> \in target
  \/ host \in Nodes /\ Datapath # "iscsi" /\ mount[v][host] # "none"

\* A command that changes one of the sets: it works; or it fails; or it works
\* and the handler is told that it failed.
Attempt(works, does, next, fail) ==
  \/ works /\ does /\ next /\ NoFault
  \/ ~works /\ UNCHANGED store /\ fail /\ NoFault
  \/ Fault("cmd") /\ UNCHANGED store /\ fail
  \/ works /\ Fault("timeout") /\ does /\ fail

-----------------------------------------------------------------------------
(* ControllerPublishVolume and ControllerUnpublishVolume *)

\* Only iscsi has the controller do anything.
ControllerPublish(v, n) ==
  /\ hc.pc = "idle"
  /\ \/ co[v].st = "free"
     \/ co[v].st = "attaching" /\ co[v].node = n
  /\ co' = [co EXCEPT ![v] = [st |-> "attaching", node |-> n]]
  /\ hc' = [Idle EXCEPT !.pc = IF Datapath = "iscsi" THEN "activate" ELSE "respond",
                        !.vol = v]
  /\ UNCHANGED <<store, hn, faults>>

CtrlRespond ==
  /\ hc.pc = "respond"
  /\ CtrlSucceed("attached")
  /\ UNCHANGED <<store, hn>>

\* Mutant: the target is not staged.
CtrlActivateOnly ==
  /\ hc.pc = "activate"
  /\ Attempt(CanActivate(hc.vol, Controller),
             /\ active' = active \cup {<<hc.vol, Controller>>}
             /\ UNCHANGED <<target, session, mount, content, tagged>>,
             CtrlGoto("respond"), CtrlFail)
  /\ UNCHANGED hn

\* LookupLogicalVolume, Uuid and Activate: an error of any is returned.
CtrlActivate ==
  /\ hc.pc = "activate"
  /\ Attempt(CanActivate(hc.vol, Controller),
             /\ active' = active \cup {<<hc.vol, Controller>>}
             /\ UNCHANGED <<target, session, mount, content, tagged>>,
             CtrlGoto("stage"), CtrlFail)
  /\ UNCHANGED hn

\* StageIscsiTarget slices the portal before it looks at the error, so that an
\* error takes the process down, which to the CO is a failure like another.
StageIscsi ==
  /\ hc.pc = "stage"
  /\ Attempt(<<hc.vol, Controller>> \in active,
             /\ target' = target \cup {<<hc.vol, co[hc.vol].node>>}
             /\ UNCHANGED <<active, session, mount, content, tagged>>,
             CtrlGoto("respond"), CtrlFail)
  /\ UNCHANGED hn

ControllerUnpublish(v) ==
  /\ hc.pc = "idle"
  /\ co[v].st \in {"attaching", "attached", "unpublished", "detaching"}
  /\ Reaches(v, "detaching")
  /\ hc' = [Idle EXCEPT !.pc = "lookup", !.vol = v]
  /\ UNCHANGED <<store, hn, faults>>

\* LookupLogicalVolume: an error of whatever kind is a success.
CtrlLookup ==
  /\ hc.pc = "lookup"
  /\ \/ CtrlGoto("unstage") /\ NoFault
     \/ Fault("lookup") /\ hc' = Idle /\ Reaches(hc.vol, "free")
  /\ UNCHANGED <<store, hn>>

\* Mutant: the targets of every node are taken down.
UnStageAll ==
  /\ hc.pc = "unstage"
  /\ target' = {} /\ NoFault
  /\ CtrlGoto("deactivate")
  /\ UNCHANGED <<active, session, mount, content, tagged, hn>>

\* Its error is ignored.
UnStage ==
  /\ hc.pc = "unstage"
  /\ \/ target' = target \ {<<hc.vol, co[hc.vol].node>>} /\ NoFault
     \/ Fault("ignored") /\ UNCHANGED target
  /\ CtrlGoto("deactivate")
  /\ UNCHANGED <<active, session, mount, content, tagged, hn>>

\* Its error is ignored too, and the volume is reported as unpublished.
CtrlDeactivate ==
  /\ hc.pc = "deactivate"
  /\ \/ /\ active' = IF InUse(hc.vol, Controller) THEN active
                     ELSE active \ {<<hc.vol, Controller>>}
        /\ CtrlSucceed("free")
     \/ Fault("ignored") /\ hc' = Idle /\ Reaches(hc.vol, "free") /\ UNCHANGED active
  /\ UNCHANGED <<target, session, mount, content, tagged, hn>>

-----------------------------------------------------------------------------
(* NodePublishVolume *)

\* "sas" matches none of the modes that determine a source path.
NodePublish(v, n) ==
  /\ hn[n].pc = "idle"
  /\ co[v].st \in {"attached", "publishing"} /\ co[v].node = n
  /\ Reaches(v, "publishing")
  /\ hn' = [hn EXCEPT ![n] =
              [Idle EXCEPT !.pc = CASE Datapath = "direct" -> "activate"
                                    [] Datapath = "iscsi" -> "login"
                                    [] Datapath = "sas" -> "mount",
                           !.vol = v]]
  /\ UNCHANGED <<store, hc, faults>>

Source(v, n) ==
  CASE Datapath = "direct" -> <<v, n>> \in active
    [] Datapath = "iscsi" -> <<v, n>> \in session
    [] Datapath = "sas" -> FALSE

\* LookupLogicalVolume, Path and Activate: an error of any is returned.
NodeActivate(n) ==
  LET v == hn[n].vol IN
  /\ hn[n].pc = "activate"
  /\ Attempt(CanActivate(v, n),
             /\ active' = active \cup {<<v, n>>}
             /\ UNCHANGED <<target, session, mount, content, tagged>>,
             NodeGoto(n, "mount"), NodeFail(n))
  /\ UNCHANGED hc

\* LoginIscsiTarget: discovery, login, and looking for the block device.
Login(n) ==
  LET v == hn[n].vol IN
  /\ hn[n].pc = "login"
  /\ Attempt(<<v, n>> \in target,
             /\ session' = session \cup {<<v, n>>}
             /\ UNCHANGED <<active, target, mount, content, tagged>>,
             NodeGoto(n, "mount"), NodeFail(n))
  /\ UNCHANGED hc

\* What getMountAt finds.  A mount's source is taken for an LV when its path begins
\* with "/dev/sbvg_" and is otherwise looked for under /dev/disk/by-path; what is
\* neither is dropped by parseMountinfo: the bind mount of a block device (its
\* source is devtmpfs), a mount whose iSCSI device is gone, and an LV of a volume
\* group of any other name.
Visible(v, n) ==
  /\ ~Block /\ mount[v][n] \in {"live", "twice"}
  /\ Datapath = "iscsi" \/ SbvgName

\* MountVolume of StoLake, which mounts once, and formats if need be.
ProxyMount(n) ==
  LET v == hn[n].vol IN
  /\ Proxy /\ hn[n].pc = "mount"
  /\ \/ /\ Source(v, n)
        /\ mount' = [mount EXCEPT ![v][n] = "live"]
        /\ content' = [content EXCEPT ![v] = IF @ = "blank" /\ ~Block THEN "fs" ELSE @]
        /\ NodeSucceed(n, "published") \/ (Fault("timeout") /\ NodeFail(n))
     \/ /\ (~Source(v, n) /\ NoFault) \/ Fault("cmd")
        /\ NodeFail(n)
        /\ UNCHANGED <<mount, content>>
  /\ UNCHANGED <<active, target, session, tagged, hc>>

\* Mutant: whatever is on the volume is formatted.
ProbeNothing(n) ==
  LET v == hn[n].vol IN
  /\ ~Proxy /\ hn[n].pc = "mount"
  /\ NodeGoto(n, IF Visible(v, n) THEN "tag" ELSE "format") /\ NoFault
  /\ UNCHANGED <<store, hc>>

\* Mutant: what is mounted at the target path is not looked at.
ProbeBlindly(n) ==
  LET v == hn[n].vol IN
  /\ ~Proxy /\ hn[n].pc = "mount"
  /\ NodeGoto(n, IF content[v] = "blank" THEN "format" ELSE "syscall") /\ NoFault
  /\ UNCHANGED <<store, hc>>

\* nodePublishVolume_Block and _Mount up to the mount: something that is
\* mounted already is what was asked for, and a blank volume is to be formatted.
Probe(n) ==
  LET v == hn[n].vol IN
  /\ ~Proxy /\ hn[n].pc = "mount"
  /\ \/ Visible(v, n) /\ NodeGoto(n, "tag") /\ NoFault
     \/ ~Visible(v, n) /\ Source(v, n) /\ NoFault
          /\ NodeGoto(n, IF content[v] = "blank" /\ ~Block THEN "format" ELSE "syscall")
     \/ ((~Source(v, n) /\ NoFault) \/ Fault("cmd")) /\ NodeFail(n)
  /\ UNCHANGED <<store, hc>>

\* formatDevice: dd, then mkfs.
Format(n) ==
  LET v == hn[n].vol IN
  /\ hn[n].pc = "format"
  /\ Attempt(TRUE,
             /\ content' = [content EXCEPT ![v] = "fs"]
             /\ UNCHANGED <<active, target, session, mount, tagged>>,
             NodeGoto(n, "syscall"), NodeFail(n))
  /\ UNCHANGED hc

\* mount(2), on top of whatever is there.
MountSyscall(n) ==
  LET v == hn[n].vol IN
  /\ hn[n].pc = "syscall"
  /\ Attempt(TRUE,
             /\ mount' = [mount EXCEPT ![v][n] = IF @ = "none" THEN "live" ELSE "twice"]
             /\ UNCHANGED <<active, target, session, content, tagged>>,
             NodeGoto(n, "tag"), NodeFail(n))
  /\ UNCHANGED hc

\* The QoS tag.  An error of lvchange is logged; one of LookupLogicalVolume takes
\* the process down (a method of a nil lv).  StoLake's mounts return before this.
Tag(n) ==
  /\ hn[n].pc = "tag"
  /\ \/ /\ tagged' = IF Qos THEN tagged \cup {hn[n].vol} ELSE tagged
        /\ NodeSucceed(n, "published")
     \/ /\ Qos /\ Fault("ignored") /\ UNCHANGED tagged
        /\ hn' = [hn EXCEPT ![n] = Idle] /\ Reaches(hn[n].vol, "published")
     \/ Qos /\ Fault("lookup") /\ NodeFail(n) /\ UNCHANGED tagged
  /\ UNCHANGED <<active, target, session, mount, content, hc>>

-----------------------------------------------------------------------------
(* NodeUnpublishVolume *)

NodeUnpublish(v, n) ==
  /\ hn[n].pc = "idle"
  /\ co[v].st \in {"publishing", "published", "unpublishing"} /\ co[v].node = n
  /\ Reaches(v, "unpublishing")
  /\ hn' = [hn EXCEPT ![n] = [Idle EXCEPT !.pc = "inspect", !.vol = v]]
  /\ UNCHANGED <<store, hc, faults>>

\* Mutant: that nothing is mounted is an error.
InspectStrict(n) ==
  /\ hn[n].pc = "inspect" /\ NoFault
  /\ IF Visible(hn[n].vol, n) THEN NodeGoto(n, "umount") ELSE NodeFail(n)
  /\ UNCHANGED <<store, hc>>

\* Mutant: mounts are not found.
InspectNothing(n) ==
  /\ hn[n].pc = "inspect"
  /\ NodeSucceed(n, "unpublished")
  /\ UNCHANGED <<store, hc>>

\* getMountAt: nothing found is a success.  For a mounted LV (datapath "sas"
\* here) an error of LookupLogicalVolume takes the process down.
Inspect(n) ==
  /\ hn[n].pc = "inspect"
  /\ \/ ~Visible(hn[n].vol, n) /\ NodeSucceed(n, "unpublished")
     \/ Visible(hn[n].vol, n) /\ NodeGoto(n, "umount") /\ NoFault
     \/ Fault("cmd") /\ NodeFail(n)
  /\ UNCHANGED <<store, hc>>

Unmounted(v, n) ==
  mount' = [mount EXCEPT ![v][n] = IF @ = "twice" THEN "live" ELSE "none"]

\* Where the handler goes after an unmount that worked or failed.
UmountOk(n) ==
  \/ Datapath = "iscsi" /\ NodeGoto(n, "logout") /\ NoFault
  \/ Datapath # "iscsi" /\ ~Proxy /\ NodeGoto(n, "deactivate") /\ NoFault
  \/ Datapath # "iscsi" /\ Proxy /\ NodeSucceed(n, "unpublished")

UmountErr(n) ==
  /\ hn' = [hn EXCEPT ![n] = IF Datapath = "iscsi"
                             THEN [@ EXCEPT !.pc = "logout", !.err = TRUE]
                             ELSE Idle]
  /\ UNCHANGED co

\* Mutant: a failed unmount is taken for a success.
UmountUnchecked(n) ==
  LET v == hn[n].vol IN
  /\ hn[n].pc = "umount"
  /\ Unmounted(v, n) \/ UNCHANGED mount
  /\ UmountOk(n)
  /\ UNCHANGED <<active, target, session, content, tagged, hc>>

\* UnMountVolume or umount(2), which may find the target busy.
Umount(n) ==
  LET v == hn[n].vol IN
  /\ hn[n].pc = "umount"
  /\ \/ Unmounted(v, n) /\ UmountOk(n)
     \/ Proxy /\ Fault("timeout") /\ Unmounted(v, n) /\ UmountErr(n)
     \/ Fault("umount") /\ UNCHANGED mount /\ UmountErr(n)
  /\ UNCHANGED <<active, target, session, content, tagged, hc>>

\* LogoutIscsiTarget, also when the unmount failed: what is still mounted loses
\* its device.  Its own error is logged; the unmount's is returned.
Logout(n) ==
  LET v == hn[n].vol IN
  /\ hn[n].pc = "logout"
  /\ \/ /\ session' = session \ {<<v, n>>}
        /\ mount' = [mount EXCEPT ![v][n] = IF @ = "none" THEN @ ELSE "dead"]
        /\ IF hn[n].err THEN NodeFail(n) /\ NoFault ELSE NodeSucceed(n, "unpublished")
     \/ /\ Fault("ignored")
        /\ UNCHANGED <<session, mount>>
        /\ IF hn[n].err THEN NodeFail(n)
           ELSE hn' = [hn EXCEPT ![n] = Idle] /\ Reaches(v, "unpublished")
  /\ UNCHANGED <<active, target, content, tagged, hc>>

\* Its error, as when a mount is left, is logged.
NodeDeactivate(n) ==
  LET v == hn[n].vol IN
  /\ hn[n].pc = "deactivate"
  /\ \/ /\ active' = IF InUse(v, n) THEN active ELSE active \ {<<v, n>>}
        /\ NodeSucceed(n, "unpublished")
     \/ /\ Fault("ignored") /\ UNCHANGED active
        /\ hn' = [hn EXCEPT ![n] = Idle] /\ Reaches(v, "unpublished")
  /\ UNCHANGED <<target, session, mount, content, tagged, hc>>

-----------------------------------------------------------------------------
(* The environment *)

\* The pod writes to its volume.
Write(v) ==
  /\ co[v].st = "published" /\ content[v] = "fs"
  /\ content' = [content EXCEPT ![v] = "data"]
  /\ UNCHANGED <<active, target, session, mount, tagged, hc, hn, co, faults>>

\* A plugin process dies with the handler it was executing.
CtrlCrash ==
  /\ hc.pc # "idle" /\ Fault("crash")
  /\ hc' = Idle
  /\ UNCHANGED <<store, hn, co>>

NodeCrash(n) ==
  /\ hn[n].pc # "idle" /\ Fault("crash")
  /\ hn' = [hn EXCEPT ![n] = Idle]
  /\ UNCHANGED <<store, hc, co>>

CtrlStep ==
  \/ CtrlRespond \/ CtrlActivate \/ StageIscsi \/ CtrlLookup \/ UnStage \/ CtrlDeactivate

NodeStep(n) ==
  \/ NodeActivate(n) \/ Login(n) \/ ProxyMount(n) \/ Probe(n) \/ Format(n)
  \/ MountSyscall(n) \/ Tag(n) \/ Inspect(n) \/ Umount(n) \/ Logout(n)
  \/ NodeDeactivate(n)

Next ==
  \/ CtrlStep \/ CtrlCrash
  \/ \E n \in Nodes : NodeStep(n) \/ NodeCrash(n)
  \/ \E v \in Vols, n \in Nodes :
       ControllerPublish(v, n) \/ NodePublish(v, n) \/ NodeUnpublish(v, n)
  \/ \E v \in Vols : ControllerUnpublish(v) \/ Write(v)

Spec == Init /\ [][Next]_vars

\* Handlers run to their end, and the CO repeats a call it has begun until it
\* is answered, unless it turns round.  That it begins another is not assumed.
FairSpec ==
  /\ Spec
  /\ WF_vars(CtrlStep)
  /\ \A n \in Nodes : WF_vars(NodeStep(n))
  /\ \A v \in Vols, n \in Nodes :
       /\ SF_vars(co[v].st = "attaching" /\ ControllerPublish(v, n))
       /\ SF_vars(co[v].st = "publishing" /\ NodePublish(v, n))
       /\ SF_vars(co[v].st = "unpublishing" /\ NodeUnpublish(v, n))
  /\ \A v \in Vols : SF_vars(co[v].st = "detaching" /\ ControllerUnpublish(v))

-----------------------------------------------------------------------------
(* Properties *)

\* Every variable has its type, and nothing of a handler outlives it.
TypeOK ==
  /\ active \subseteq Vols \X Hosts
  /\ target \subseteq Vols \X Nodes
  /\ session \subseteq Vols \X Nodes
  /\ mount \in [Vols -> [Nodes -> {"none", "live", "dead", "twice"}]]
  /\ content \in [Vols -> {"blank", "fs", "data"}]
  /\ tagged \subseteq Vols
  /\ hc \in [pc : {"idle", "respond", "activate", "stage", "lookup", "unstage",
                   "deactivate"}, vol : Vols \cup {None}, err : {FALSE}]
  /\ hn \in [Nodes -> [pc : {"idle", "activate", "login", "mount", "format", "syscall",
                             "tag", "inspect", "umount", "logout", "deactivate"},
                       vol : Vols \cup {None}, err : BOOLEAN]]
  /\ hc.pc = "idle" => hc = Idle
  /\ \A n \in Nodes : hn[n].pc = "idle" => hn[n] = Idle
  /\ co \in [Vols -> [st : {"free", "attaching", "attached", "publishing", "published",
                            "unpublishing", "unpublished", "detaching"},
                      node : Nodes \cup {None}]]
  /\ faults \in 0..MaxFaults

\* A volume is never in use on two nodes: however calls fail and are retried,
\* by the time a second node mounts it the first has let go.
ExclusiveMount ==
  \A v \in Vols : Cardinality({n \in Nodes : mount[v][n] \in {"live", "twice"}}) <= 1

\* A volume that the CO was told is published can be used there: it is mounted,
\* and what is mounted is backed by an active LV or by a session with a target
\* that is still staged on one.
PublishedIsUsable ==
  \A v \in Vols : co[v].st = "published" =>
    LET n == co[v].node IN
      /\ mount[v][n] \in {"live", "twice"}
      /\ Datapath = "direct" => <<v, n>> \in active
      /\ Datapath = "iscsi" => /\ <<v, n>> \in session
                               /\ <<v, n>> \in target
                               /\ <<v, Controller>> \in active

\* Nothing is mounted at the target path of a node that the CO was told has
\* unpublished the volume, or that never published it.
UnpublishedMeansUnmounted ==
  \A v \in Vols, n \in Nodes :
    mount[v][n] # "none" =>
      co[v].node = n /\ co[v].st \in {"publishing", "published", "unpublishing"}

\* "doesn't mount anything new at targetPath": retries of NodePublishVolume do
\* not pile up mounts.
MountedOnce == \A v \in Vols, n \in Nodes : mount[v][n] # "twice"

\* What a pod wrote is never formatted away by a later publish.
DataKept ==
  [][\A v \in Vols : content[v] = "data" => content'[v] = "data"]_vars

\* A node that the CO was told the volume is detached from has no session with
\* it, and no target is left staged for it.
DetachedMeansDetached ==
  \A v \in Vols : co[v].st = "free" =>
    \A n \in Nodes : <<v, n>> \notin session /\ <<v, n>> \notin target

\* "The value is saved as an LVM2 tag when the LV is activated as part of the
\* Node Publish operation".
PublishedHasQosTag ==
  \A v \in Vols : Qos /\ co[v].st = "published" => v \in tagged

\* A publish that the CO keeps asking for and does not turn back from succeeds.
PublishCompletes ==
  \A v \in Vols : co[v].st = "publishing" ~> co[v].st \in {"published", "unpublishing"}

\* So does an unpublish, after which the volume can be detached.
UnpublishCompletes ==
  \A v \in Vols : co[v].st = "unpublishing" ~> co[v].st = "unpublished"
=============================================================================

---------------------------- MODULE Provisioning ----------------------------
(***************************************************************************)
(* CreateVolume and DeleteVolume of the csilvm controller (server.go), at  *)
(* the granularity of the LVM commands they run (lvm.go, run), between an  *)
(* orchestrator (CO) that retries until it is answered and a volume group  *)
(* that outlives the process.  Handlers are serialized (RequestQueue), so  *)
(* there is one handler at a time.  Commands are run by the StoLake proxy  *)
(* (virsh.go): each may fail, or do its work and not answer within the     *)
(* proxy's timeout, or do its work after the handler has given up on it.   *)
(***************************************************************************)
EXTENDS Integers, FiniteSets, Functions

CONSTANTS
  Names,         \* the volume names the CO asks for
  Ids,           \* the LV names CreateVolume can draw
  Reqs,          \* the CreateVolume requests, see Request
  ExtentSize,    \* of the volume group, in bytes
  ExtentCount,   \* of the volume group
  DefaultSize,   \* the -default-volume-size flag
  MaxTries,      \* draws of a free LV name (10 in the code)
  Faults,        \* the kinds of fault that can happen
  MaxFaults,     \* bound: how many faults happen in a behaviour
  None           \* no LV, no id, no request

\* A request: capacity_range is set iff ranged, limit 0 means no limit_bytes.
Request == [name : Names, ranged : BOOLEAN, required : Nat, limit : Nat,
            params : {"ok", "badlayout", "unexpected"}]

FaultKinds == {"lookup", "query", "wipe", "deactivate", "change", "timeout",
               "late", "crash", "lost", "draw"}

ASSUME ConstantsAssumption ==
  /\ ExtentSize \in Nat \ {0} /\ ExtentCount \in Nat
  /\ DefaultSize \in Nat /\ DefaultSize % ExtentSize = 0
  /\ MaxTries \in Nat \ {0} /\ MaxFaults \in Nat
  /\ Reqs \subseteq Request
  /\ Faults \subseteq FaultKinds
  /\ None \notin Ids /\ None \notin Request
  /\ None \notin [name : Names, size : Nat, active : BOOLEAN, dirty : BOOLEAN]

VARIABLES
  lv,      \* the volume group: the LV of each LV name, or None
  used,    \* every LV name that was ever given to an LV
  late,    \* commands StoLake is still at, after the handler gave up
  h,       \* the handler that is executing
  co,      \* what the CO knows of each volume name
  faults   \* number of faults so far

vars == <<lv, used, late, h, co, faults>>

\* name is the LV's tag (volumeNameToTag is injective), active that it is
\* active on the controller's host, dirty that an old signature is still on it.
LV == [name : Names, size : Nat, active : BOOLEAN, dirty : BOOLEAN]

Command == [op : {"lvcreate"}, id : Ids, lv : LV] \cup [op : {"lvremove"}, id : Ids]

Exists(id) == lv[id] # None
Existing == {id \in Ids : Exists(id)}
Tagged(n) == {id \in Existing : lv[id].name = n}

\* BytesFree of the linear layout: extentsFree times the extent size.
BytesFree ==
  ExtentSize * ExtentCount - SumFunctionOnSet([id \in Existing |-> lv[id].size], Existing)

\* The size CreateVolume asks for: required_bytes rounded up to an extent.
RoundUp(size) ==
  IF size % ExtentSize # 0
  THEN ((size + ExtentSize) \div ExtentSize) * ExtentSize
  ELSE size

Idle == [pc |-> "idle", req |-> None, id |-> None, size |-> 0, tries |-> 0]

Init ==
  /\ lv = [id \in Ids |-> None]
  /\ used = {}
  /\ late = {}
  /\ h = Idle
  /\ co = [n \in Names |-> [st |-> "none", id |-> None, req |-> None, context |-> "none"]]
  /\ faults = 0

-----------------------------------------------------------------------------
(* Faults, answers and control flow *)

\* A fault of this kind strikes now.
Fault(kind) ==
  /\ kind \in Faults
  /\ faults < MaxFaults
  /\ faults' = faults + 1

Goto(pc) ==
  /\ h' = [h EXCEPT !.pc = pc]
  /\ UNCHANGED <<lv, used, late, co>>

\* The handler returns an error, which leaves the CO where it was.
Fail ==
  /\ h' = Idle
  /\ UNCHANGED <<lv, used, late, co>>

\* The handler returns a success, which the CO learns of unless it is lost.
Succeed(n, outcome) ==
  /\ h' = Idle
  /\ \/ co' = [co EXCEPT ![n] = outcome] /\ UNCHANGED faults
     \/ Fault("lost") /\ UNCHANGED co
  /\ UNCHANGED <<lv, used, late>>

-----------------------------------------------------------------------------
(* CreateVolume *)

CreateVolume(r) ==
  /\ h.pc = "idle"
  /\ co[r.name].st \in {"none", "creating"}
  /\ co' = [co EXCEPT ![r.name].st = "creating"]
  /\ h' = [Idle EXCEPT !.pc = "find", !.req = r]
  /\ UNCHANGED <<lv, used, late, faults>>

\* validateExistingVolume's comparisons.
Satisfies(size, r) ==
  ~r.ranged \/ (r.required <= size /\ (r.limit = 0 \/ size <= r.limit))

\* Mutant: the name is not looked up first.
FindNothing ==
  /\ h.pc = "find"
  /\ Goto("pick") /\ UNCHANGED faults

\* Mutant: a volume of that name is an error whatever its size.
FindRefuses ==
  /\ h.pc = "find"
  /\ \/ Tagged(h.req.name) = {} /\ Goto("pick")
     \/ Tagged(h.req.name) # {} /\ Fail
  /\ UNCHANGED faults

\* FindLogicalVolume(LVMatchTag(encodedName)): an error of whatever kind is
\* taken for "does not exist".
Find ==
  /\ h.pc = "find"
  /\ \/ Tagged(h.req.name) = {} /\ Goto("pick") /\ UNCHANGED faults
     \/ Fault("lookup") /\ Goto("pick")
     \/ \E id \in Tagged(h.req.name) :
          IF Satisfies(lv[id].size, h.req)
          THEN /\ h' = [h EXCEPT !.pc = "reuse", !.id = id]
               /\ UNCHANGED <<lv, used, late, co, faults>>
          ELSE Fail /\ UNCHANGED faults          \* ErrVolumeAlreadyExists

\* Path and volumeAttributes of the existing volume; the response's context
\* is the tags and nothing else.
Reuse ==
  /\ h.pc = "reuse"
  /\ \/ Succeed(h.req.name, [st |-> "bound", id |-> h.id, req |-> h.req,
                             context |-> "tags"])
     \/ Fault("query") /\ Fail

\* The loop that draws a random LV name until its lookup fails, which it also
\* does when the command fails: to draw an existing LV at that moment is the
\* fault "draw".  That 64 random bits repeat a name no LV has any more is left
\* out.
PickFresh ==
  /\ h.pc = "pick"
  /\ \E id \in Ids \ used : h' = [h EXCEPT !.pc = "size", !.id = id]
  /\ UNCHANGED <<lv, used, late, co, faults>>

PickTaken ==
  /\ h.pc = "pick"
  /\ \E id \in Existing :
       \/ /\ Fault("draw")
          /\ h' = [h EXCEPT !.pc = "size", !.id = id]
       \/ /\ h.tries + 1 < MaxTries
          /\ h' = [h EXCEPT !.tries = @ + 1]
          /\ UNCHANGED faults
       \/ /\ h.tries + 1 >= MaxTries             \* Failed to allocate volume ID
          /\ h' = Idle
          /\ UNCHANGED faults
  /\ UNCHANGED <<lv, used, late, co>>

\* Mutant: the size is rounded down to an extent.
SizeDown ==
  /\ h.pc = "size" /\ h.req.params = "ok"
  /\ h' = [h EXCEPT !.pc = "create",
                    !.size = IF h.req.ranged
                             THEN (h.req.required \div ExtentSize) * ExtentSize
                             ELSE DefaultSize]
  /\ UNCHANGED <<lv, used, late, co, faults>>

\* ExtentSize and BytesFree, the checks against capacity_range, and the
\* parameters.  Without a capacity_range nothing is compared.
Size ==
  /\ h.pc = "size"
  /\ LET size == IF h.req.ranged THEN RoundUp(h.req.required) ELSE DefaultSize
         insufficient == h.req.ranged /\ BytesFree < size
         notMultiple == h.req.ranged /\ h.req.limit # 0 /\ size > h.req.limit
     IN \/ /\ \/ h.req.params # "ok" \/ insufficient \/ notMultiple
           /\ Fail /\ UNCHANGED faults
        \/ /\ h.req.params = "ok" /\ ~insufficient /\ ~notMultiple
           /\ h' = [h EXCEPT !.pc = "create", !.size = size]
           /\ UNCHANGED <<lv, used, late, co, faults>>
        \/ h.req.ranged /\ Fault("query") /\ Fail

NewLV(n, size) == [name |-> n, size |-> size, active |-> TRUE, dirty |-> TRUE]

\* lvcreate -ay, when StoLake gets to it: it needs a new name and the space.
CanCreate(id, size) == ~Exists(id) /\ size > 0 /\ size <= BytesFree

LvCreate ==
  /\ h.pc = "create"
  /\ LET new == NewLV(h.req.name, h.size) IN
     \/ /\ CanCreate(h.id, h.size)
        /\ lv' = [lv EXCEPT ![h.id] = new]
        /\ used' = used \cup {h.id}
        /\ \/ h' = [h EXCEPT !.pc = "wipe"] /\ UNCHANGED faults
           \/ h' = Idle /\ Fault("timeout")
        /\ UNCHANGED <<late, co>>
     \/ ~CanCreate(h.id, h.size) /\ Fail /\ UNCHANGED faults
     \/ Fault("change") /\ Fail
     \/ /\ Fault("late")
        /\ late' = late \cup {[op |-> "lvcreate", id |-> h.id, lv |-> new]}
        /\ used' = used \cup {h.id}
        /\ h' = Idle
        /\ UNCHANGED <<lv, co>>

\* wipefs --all; an error is logged and ignored.
WipeFs ==
  /\ h.pc = "wipe"
  /\ \/ lv' = [lv EXCEPT ![h.id].dirty = FALSE] /\ UNCHANGED faults
     \/ Fault("wipe") /\ UNCHANGED lv
  /\ h' = [h EXCEPT !.pc = "deactivate"]
  /\ UNCHANGED <<used, late, co>>

\* lvchange -an; its error is dropped.
Deactivate ==
  /\ h.pc = "deactivate"
  /\ \/ lv' = [lv EXCEPT ![h.id].active = FALSE] /\ UNCHANGED faults
     \/ Fault("deactivate") /\ UNCHANGED lv
  /\ h' = [h EXCEPT !.pc = "attributes"]
  /\ UNCHANGED <<used, late, co>>

\* Mutant: the new LV is removed again when its attributes cannot be read.
AttributesRollback ==
  /\ h.pc = "attributes"
  /\ \/ Succeed(h.req.name, [st |-> "bound", id |-> h.id, req |-> h.req,
                             context |-> "tags+datapath"])
     \/ /\ Fault("query")
        /\ lv' = [lv EXCEPT ![h.id] = None]
        /\ h' = Idle
        /\ UNCHANGED <<used, late, co>>

\* volumeAttributes of the new volume, to which the datapath (and QoS and
\* JBOF URLs) are added.  On an error the LV stays.
Attributes ==
  /\ h.pc = "attributes"
  /\ \/ Succeed(h.req.name, [st |-> "bound", id |-> h.id, req |-> h.req,
                             context |-> "tags+datapath"])
     \/ Fault("query") /\ Fail

-----------------------------------------------------------------------------
(* DeleteVolume *)

DeleteVolume(n) ==
  /\ h.pc = "idle"
  /\ co[n].st \in {"bound", "deleting"}
  /\ co' = [co EXCEPT ![n].st = "deleting"]
  /\ h' = [Idle EXCEPT !.pc = "lookup", !.req = co[n].req, !.id = co[n].id]
  /\ UNCHANGED <<lv, used, late, faults>>

Gone(n) == [co[n] EXCEPT !.st = "gone"]

\* Mutant: a volume that is not found is an error.
LookupStrict ==
  /\ h.pc = "lookup"
  /\ \/ Exists(h.id) /\ Goto("remove")
     \/ ~Exists(h.id) /\ Fail
  /\ UNCHANGED faults

\* LookupLogicalVolume(id): an error of whatever kind is a success.
Lookup ==
  /\ h.pc = "lookup"
  /\ \/ Exists(h.id) /\ Goto("remove") /\ UNCHANGED faults
     \/ ~Exists(h.id) /\ Succeed(h.req.name, Gone(h.req.name))
     \/ /\ Fault("lookup")
        /\ h' = Idle
        /\ co' = [co EXCEPT ![h.req.name] = Gone(h.req.name)]
        /\ UNCHANGED <<lv, used, late>>

\* Mutant: a failed lvremove is not reported.
RemoveUnchecked ==
  /\ h.pc = "remove"
  /\ \/ lv' = [lv EXCEPT ![h.id] = None] /\ UNCHANGED faults
     \/ Fault("change") /\ UNCHANGED lv
  /\ h' = Idle
  /\ co' = [co EXCEPT ![h.req.name] = Gone(h.req.name)]
  /\ UNCHANGED <<used, late>>

\* lvremove -f, and the response.
Remove ==
  /\ h.pc = "remove"
  /\ \/ /\ Exists(h.id)
        /\ lv' = [lv EXCEPT ![h.id] = None]
        /\ h' = Idle
        /\ \/ co' = [co EXCEPT ![h.req.name] = Gone(h.req.name)] /\ UNCHANGED faults
           \/ (Fault("timeout") \/ Fault("lost")) /\ UNCHANGED co
        /\ UNCHANGED <<used, late>>
     \/ ~Exists(h.id) /\ Fail /\ UNCHANGED faults
     \/ Fault("change") /\ Fail
     \/ /\ Fault("late")
        /\ late' = late \cup {[op |-> "lvremove", id |-> h.id]}
        /\ h' = Idle
        /\ UNCHANGED <<lv, used, co>>

-----------------------------------------------------------------------------
(* StoLake and the process *)

\* StoLake gets to a command whose caller has given up.
LateEffect(c) ==
  /\ c \in late
  /\ late' = late \ {c}
  /\ lv' = CASE c.op = "lvcreate" /\ CanCreate(c.id, c.lv.size) -> [lv EXCEPT ![c.id] = c.lv]
             [] c.op = "lvremove" -> [lv EXCEPT ![c.id] = None]
             [] OTHER -> lv
  /\ UNCHANGED <<used, h, co, faults>>

\* The process dies with the handler it was executing.
Crash ==
  /\ h.pc # "idle"
  /\ Fault("crash")
  /\ h' = Idle
  /\ UNCHANGED <<lv, used, late, co>>

HandlerStep ==
  \/ Find \/ Reuse \/ PickFresh \/ PickTaken \/ Size \/ LvCreate \/ WipeFs
  \/ Deactivate \/ Attributes \/ Lookup \/ Remove

Next ==
  \/ \E r \in Reqs : CreateVolume(r)
  \/ \E n \in Names : DeleteVolume(n)
  \/ HandlerStep
  \/ \E c \in late : LateEffect(c)
  \/ Crash

Spec == Init /\ [][Next]_vars

\* Handlers run to their end, StoLake gets to every command, and the CO
\* retries: its requests queue up in FIFO order (NoOvertaking of
\* RequestQueue), so that none is passed over for ever.  That it ever deletes
\* a volume it has not begun to delete is not assumed.  Random draws do not
\* hit existing LVs for ever.
FairSpec ==
  /\ Spec
  /\ WF_vars(HandlerStep)
  /\ SF_vars(PickFresh)
  /\ WF_vars(\E c \in late : LateEffect(c))
  /\ \A r \in Reqs : SF_vars(co[r.name].st = "creating" /\ CreateVolume(r))
  /\ \A n \in Names : SF_vars(co[n].st = "deleting" /\ DeleteVolume(n))

-----------------------------------------------------------------------------
(* Properties *)

\* Every variable has its type.
TypeOK ==
  /\ lv \in [Ids -> LV \cup {None}]
  /\ used \subseteq Ids
  /\ late \subseteq Command
  /\ h \in [pc : {"idle", "find", "reuse", "pick", "size", "create", "wipe",
                  "deactivate", "attributes", "lookup", "remove"},
            req : Reqs \cup {None}, id : Ids \cup {None}, size : Nat,
            tries : 0..(MaxTries - 1)]
  /\ co \in [Names -> [st : {"none", "creating", "bound", "deleting", "gone"},
                       id : Ids \cup {None}, req : Reqs \cup {None},
                       context : {"none", "tags", "tags+datapath"}]]
  /\ faults \in 0..MaxFaults

\* CreateVolume is idempotent in the name: however often it is retried, after
\* crashes, lost responses and commands that worked but did not answer, the
\* volume group holds at most one LV for a volume name.
OneVolumePerName ==
  \A n \in Names : Cardinality(Tagged(n)) <= 1

\* What the CO was told it has, it has: the LV is there under the id it was
\* given, tagged with its name, with a size in the requested range.
BoundVolumeExists ==
  \A n \in Names : co[n].st = "bound" =>
    /\ Exists(co[n].id)
    /\ lv[co[n].id].name = n
    /\ Satisfies(lv[co[n].id].size, co[n].req)

\* An LV leaves the volume group only because the CO asked for the deletion of
\* the very id it was given, be it by a command StoLake got to much later.
OnlyDeletedVolumesVanish ==
  [][\A id \in Ids :
       Exists(id) /\ ~Exists(id)' =>
         \E n \in Names : co[n].id = id /\ co[n].st \in {"deleting", "gone"}]_vars

\* DeleteVolume is honest: once the CO was told that its volume is deleted,
\* no LV of that name is left to hold space in the volume group.
DeletedVolumeIsGone ==
  \A n \in Names : co[n].st = "gone" => Tagged(n) = {}

\* A response to CreateVolume hands over a volume that was cleared of residual
\* signatures ("Clear out residual partition info") and is not left active on
\* the controller's host ("Don't activate new LVs.  Let Node Publish do it").
HandedOverCleanAndInactive ==
  \A n \in Names : co[n].st = "bound" =>
    ~lv[co[n].id].dirty /\ ~lv[co[n].id].active

\* The volume context of a successful CreateVolume has the datapath without
\* which NodePublishVolume refuses the volume.
ContextHasDatapath ==
  \A n \in Names : co[n].st = "bound" => co[n].context = "tags+datapath"

\* Retrying gets somewhere: a volume the CO keeps asking for is created, once
\* faults stop and there is room for it.
CreateCompletes ==
  \A n \in Names : co[n].st = "creating" ~> co[n].st = "bound"

\* Retrying gets somewhere: a deletion that was begun ends in the volume's
\* being gone, from the volume group too.
DeleteCompletes ==
  \A n \in Names : co[n].st = "deleting" ~> (co[n].st = "gone" /\ Tagged(n) = {})

\* The volume of a name, and what the CO was told of it.
VolumeOf(n) == IF Tagged(n) = {} THEN None ELSE CHOOSE id \in Tagged(n) : TRUE
Knowledge(n) == [st |-> co[n].st, id |-> co[n].id]

Store ==
  INSTANCE VolumeStore WITH vol <- [n \in Names |-> VolumeOf(n)],
                            told <- [n \in Names |-> Knowledge(n)]

\* The handlers and the volume group together are a store with one volume per
\* name: however calls are repeated, lost or cut short, the CO is told the one id
\* of a name's volume, a volume appears under an id nobody has, and it vanishes
\* after its deletion was asked for, and before that is reported.
ImplementsVolumeStore == Store!StoreSpec
=============================================================================

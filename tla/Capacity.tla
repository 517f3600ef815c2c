------------------------------ MODULE Capacity ------------------------------
(***************************************************************************)
(* How csilvm computes with space: the volume layout it reads out of the   *)
(* storage class parameters (server.go), the devices and the free extents  *)
(* a layout has (lvm.go), the rounding to extents, and the two handlers    *)
(* that answer out of them, GetCapacity and CreateVolume, against what     *)
(* lvcreate really needs.  Handlers are whole steps: no fault is modelled  *)
(* here, that is Provisioning's subject.                                   *)
(***************************************************************************)
EXTENDS Integers, FiniteSets

CONSTANTS
  Params,        \* the parameter maps requests come with, see ParamMap
  Sizes,         \* required_bytes of the requests, Absent for no capacity_range
  Limits,        \* limit_bytes of the requests, 0 for none
  Devices,       \* number of physical volumes of the volume group
  ExtentCount,   \* its extents
  ExtentSize,    \* in bytes
  DefaultSize,   \* the -default-volume-size flag
  Width,         \* bits of an unsigned integer (64 in the code)
  MaxVolumes,    \* bound: volumes that exist at a time
  Absent         \* the value of a key a parameter map does not have

\* A parameter map: 0 is a present value that is no positive integer, and
\* other stands for the keys that are not about the layout.  The numbers are
\* far from the limit of their width.
Number == 0..(2 ^ (Width - 2) - 1)
ParamMap ==
  [type : {Absent, "linear", "raid1", "raid5", "raid6", "raid10", "raid0"},
   stripes : Number \cup {Absent}, mirrors : Number \cup {Absent},
   nosync : {Absent, "yes", "no"}, other : {Absent, "ignored", "unexpected"}]

ASSUME CapacityAssumption ==
  /\ ExtentSize \in Nat \ {0} /\ ExtentCount \in Nat /\ Devices \in Nat
  /\ Width \in Nat \ {0, 1} /\ MaxVolumes \in Nat /\ DefaultSize \in Nat \ {0}
  /\ ExtentCount * ExtentSize < 2 ^ (Width - 1)
  /\ Absent \notin Nat \cup {"linear", "raid1", "raid5", "raid6", "raid10"}
  /\ Params \subseteq ParamMap
  /\ Sizes \subseteq Nat \cup {Absent} /\ Limits \subseteq Nat

\* Arithmetic, true of every width: a proof cannot compute with 2 ^ Width.
ASSUME PowersAssumption ==
  /\ 2 ^ (Width - 2) \in Nat \ {0}
  /\ 2 ^ (Width - 1) = 2 * 2 ^ (Width - 2)
  /\ 2 ^ Width = 2 * 2 ^ (Width - 1)

VARIABLES
  free,      \* vg_free_count
  volumes,   \* extents taken by each volume slot, 0 when there is no volume
  reply      \* the last answer, with what it was about

vars == <<free, volumes, reply>>

Wrap(n) == n % (2 ^ Width)
ToSigned(n) == IF n >= 2 ^ (Width - 1) THEN n - 2 ^ Width ELSE n

-----------------------------------------------------------------------------
(* takeVolumeLayoutFromParameters and volumeOptsFromParameters *)

\* The keys that are consumed along with each type; raid10 has no mirrors.
Consumes(type) ==
  CASE type \in {"linear", "raid5", "raid6"} -> {"stripes"}
    [] type = "raid1" -> {"mirrors", "nosync"}
    [] type = "raid10" -> {"stripes", "nosync"}
    [] OTHER -> {}

Given(p, key) == key \in Consumes(p.type) /\ p[key] # Absent

LayoutError(p) ==
  \/ p.type = "raid0"
  \/ \E key \in {"stripes", "mirrors"} : Given(p, key) /\ p[key] = 0

Layout(p) ==
  [type |-> IF p.type = Absent THEN "linear" ELSE p.type,
   mirrors |-> IF Given(p, "mirrors") THEN p.mirrors ELSE 0,
   stripes |-> IF Given(p, "stripes") THEN p.stripes ELSE 0]

\* Mutant: keys the type does not consume are let through.
OptsErrorLenient(p) == LayoutError(p) \/ p.other = "unexpected"

\* An error is returned for whatever key is left over.
OptsError(p) ==
  \/ LayoutError(p)
  \/ \E key \in {"stripes", "mirrors", "nosync"} :
       p[key] # Absent /\ key \notin Consumes(p.type)
  \/ p.other = "unexpected"

-----------------------------------------------------------------------------
(* VolumeLayout *)

OrDefault(n, default) == IF n = 0 THEN default ELSE n

MinNumberOfDevices(l) ==
  CASE l.type = "linear" -> 1
    [] l.type = "raid1" -> Wrap(2 * OrDefault(l.mirrors, 1))
    [] l.type = "raid5" -> Wrap(l.stripes + 1)
    [] l.type = "raid6" -> Wrap(l.stripes + 2)
    [] l.type = "raid10" -> Wrap(2 * OrDefault(l.mirrors, 1) * OrDefault(l.stripes, 2))

Copies(l) == Wrap(OrDefault(l.mirrors, 1) + 1)

\* Mutant: the metadata extent of each copy is forgotten.
extentsFreeNoMeta(l, count) ==
  IF l.type \in {"raid1", "raid10"} THEN count \div Copies(l) ELSE count

\* The subtraction is of unsigned integers.
extentsFree(l, count) ==
  IF l.type \in {"raid1", "raid10"}
  THEN Wrap(count - Copies(l)) \div Copies(l)
  ELSE count

\* The number of devices is compared as a signed integer.
BytesFree(l, count) ==
  IF Devices < ToSigned(MinNumberOfDevices(l)) THEN 0
  ELSE Wrap(extentsFree(l, count) * ExtentSize)

\* The options of lvcreate: a number of zero is not given.  The stripe size,
\* which nothing sets, and nosync take no space, and are left out.
Flags(l) ==
  [name \in {n \in {"mirrors", "stripes"} : l[n] # 0} |-> l[name]]

RoundUp(size) ==
  IF size % ExtentSize # 0
  THEN ((size + ExtentSize) \div ExtentSize) * ExtentSize
  ELSE size

-----------------------------------------------------------------------------
(* What lvcreate needs, external to this repository: data and, for RAID, one
   metadata extent in each of the subvolumes, which lie on distinct devices. *)

CeilDiv(n, d) == (n + d - 1) \div d

\* An option that is not on the command line has lvcreate's default.
Flag(l, name, default) ==
  IF name \in DOMAIN Flags(l) THEN Flags(l)[name] ELSE default

Subvolumes(l) ==
  CASE l.type = "linear" -> Flag(l, "stripes", 1)
    [] l.type = "raid1" -> Flag(l, "mirrors", 1) + 1
    [] l.type = "raid5" -> Flag(l, "stripes", 2) + 1
    [] l.type = "raid6" -> Flag(l, "stripes", 3) + 2
    [] l.type = "raid10" -> 2 * Flag(l, "stripes", 2)

DataParts(l) ==
  CASE l.type \in {"linear", "raid1"} -> Flag(l, "stripes", 1)
    [] l.type \in {"raid5", "raid10"} -> Flag(l, "stripes", 2)
    [] l.type = "raid6" -> Flag(l, "stripes", 3)

Needed(l, extents) ==
  Subvolumes(l) * (CeilDiv(extents, DataParts(l)) + IF l.type = "linear" THEN 0 ELSE 1)

EnoughDevices(l) == Subvolumes(l) <= Devices
Fits(l, extents, count) == EnoughDevices(l) /\ Needed(l, extents) <= count

-----------------------------------------------------------------------------
(* The handlers *)

\* The requests that pass validateCapacityRange: a capacity_range that is
\* there has a size or a limit, and the size is within the limit.
Requests ==
  {r \in [params : Params, required : Sizes, limit : Limits] :
     /\ r.required = Absent => r.limit = 0
     /\ r.required = 0 => r.limit # 0
     /\ r.limit # 0 => r.required <= r.limit}

Answer(kind, r, bytes) ==
  reply' = [kind |-> kind, req |-> r, bytes |-> bytes, free |-> free]

Init ==
  /\ free = ExtentCount
  /\ volumes = [v \in 1..MaxVolumes |-> 0]
  /\ reply = [kind |-> "none", req |-> Absent, bytes |-> 0, free |-> 0]

\* Zero is reported for a filesystem that is not supported.
GetCapacity(p, supported) ==
  LET r == [params |-> p, required |-> Absent, limit |-> 0] IN
  /\ \/ ~supported /\ Answer("Unsupported", r, 0)
     \/ supported /\ LayoutError(p) /\ Answer("Internal", r, 0)
     \/ /\ supported /\ ~LayoutError(p)
        /\ Answer("Capacity", r, ToSigned(BytesFree(Layout(p), free)))
  /\ UNCHANGED <<free, volumes>>

\* The size CreateVolume asks lvcreate for.
Size(r) == IF r.required = Absent THEN DefaultSize ELSE RoundUp(r.required)

\* Mutant: the limit is compared with what was asked for, before rounding.
CheckedUnrounded(r) ==
  IF LayoutError(r.params) THEN "Internal"
  ELSE IF r.required # Absent /\ BytesFree(Layout(r.params), free) < Size(r)
       THEN "InsufficientCapacity"
  ELSE IF r.required # Absent /\ r.limit # 0 /\ r.required > r.limit
       THEN "NotMultipleOfExtentSize"
  ELSE IF OptsError(r.params) THEN "InvalidArgument"
  ELSE "create"

\* Mutant: a volume that takes all that is free is refused.
CheckedStrictly(r) ==
  IF LayoutError(r.params) THEN "Internal"
  ELSE IF r.required # Absent /\ BytesFree(Layout(r.params), free) <= Size(r)
       THEN "InsufficientCapacity"
  ELSE IF r.required # Absent /\ r.limit # 0 /\ Size(r) > r.limit
       THEN "NotMultipleOfExtentSize"
  ELSE IF OptsError(r.params) THEN "InvalidArgument"
  ELSE "create"

\* The checks of CreateVolume ahead of lvcreate, in their order.
Checked(r) ==
  IF LayoutError(r.params) THEN "Internal"
  ELSE IF r.required # Absent /\ BytesFree(Layout(r.params), free) < Size(r)
       THEN "InsufficientCapacity"
  ELSE IF r.required # Absent /\ r.limit # 0 /\ Size(r) > r.limit
       THEN "NotMultipleOfExtentSize"
  ELSE IF OptsError(r.params) THEN "InvalidArgument"
  ELSE "create"

\* lvcreate rounds a size up to extents by itself, and refuses a size of zero.
CreateVolume(v, r) ==
  /\ volumes[v] = 0
  /\ LET l == Layout(r.params)
         extents == CeilDiv(Size(r), ExtentSize)
     IN \/ /\ Checked(r) # "create"
           /\ Answer(Checked(r), r, Size(r))
           /\ UNCHANGED <<free, volumes>>
        \/ /\ Checked(r) = "create" /\ extents = 0
           /\ Answer("Internal", r, 0)
           /\ UNCHANGED <<free, volumes>>
        \/ /\ Checked(r) = "create" /\ extents > 0 /\ ~EnoughDevices(l)
           /\ Answer("TooFewDisks", r, Size(r))
           /\ UNCHANGED <<free, volumes>>
        \/ /\ Checked(r) = "create" /\ extents > 0 /\ EnoughDevices(l) /\ ~Fits(l, extents, free)
           /\ Answer("InsufficientCapacity", r, Size(r))
           /\ UNCHANGED <<free, volumes>>
        \/ /\ Checked(r) = "create" /\ extents > 0 /\ Fits(l, extents, free)
           /\ free' = free - Needed(l, extents)
           /\ volumes' = [volumes EXCEPT ![v] = Needed(l, extents)]
           /\ Answer("OK", r, Size(r))

DeleteVolume(v) ==
  /\ volumes[v] # 0
  /\ free' = free + volumes[v]
  /\ volumes' = [volumes EXCEPT ![v] = 0]
  /\ UNCHANGED reply

Next ==
  \/ \E p \in Params, supported \in BOOLEAN : GetCapacity(p, supported)
  \/ \E v \in 1..MaxVolumes, r \in Requests : CreateVolume(v, r)
  \/ \E v \in 1..MaxVolumes : DeleteVolume(v)

Spec == Init /\ [][Next]_vars

-----------------------------------------------------------------------------
(* Properties *)

\* A volume is created only for parameters that all mean something: each key
\* is one the type of the volume consumes or one that is passed on.
NothingIgnoredSilently ==
  reply.kind = "OK" =>
    LET p == reply.req.params IN
      /\ p.other # "unexpected"
      /\ p.mirrors # Absent => p.type = "raid1"
      /\ p.nosync # Absent => p.type \in {"raid1", "raid10"}
      /\ p.stripes # Absent => p.type \in {"linear", "raid5", "raid6", "raid10"}

\* A request is refused for want of space only when lvcreate could not have
\* satisfied it in the volume group as it was.
NoFalseRefusal ==
  reply.kind = "InsufficientCapacity" =>
    ~Fits(Layout(reply.req.params), CeilDiv(reply.bytes, ExtentSize), reply.free)

\* GetCapacity was asked about a linear or a mirrored volume, and the group
\* has the devices lvcreate wants for it and the metadata extents of its copies.
Answerable ==
  /\ reply.kind = "Capacity"
  /\ LET l == Layout(reply.req.params) IN
       /\ l.type \in {"linear", "raid1"}
       /\ MinNumberOfDevices(l) <= Devices /\ EnoughDevices(l)
       /\ l.type = "raid1" => Copies(l) <= reply.free

Reported == reply.bytes \div ExtentSize

\* Rounded down to extents on every device the data is striped over.
WholeStripes(l, extents) == (extents \div DataParts(l)) * DataParts(l)

\* The capacity that GetCapacity reports for a linear or a mirrored volume is
\* not short of what lvcreate can allocate: one extent more does not fit, in
\* whatever stripes.  Rounded down to whole stripes it does fit, the copies and
\* the metadata extent of each included; BytesFree does not do that rounding,
\* so that only what is reported of an unstriped volume can be had in full.
ReportedCapacityIsLargest ==
  Answerable =>
    LET l == Layout(reply.req.params) IN
      /\ Fits(l, WholeStripes(l, Reported), reply.free)
      /\ ~Fits(l, Reported + 1, reply.free)

\* The capacity reported can be had as it stands.
ReportedCanBeHad ==
  Answerable => Fits(Layout(reply.req.params), Reported, reply.free)

\* A created volume is the smallest multiple of the extent size that satisfies
\* required_bytes, and it is within limit_bytes.
TightSize ==
  reply.kind = "OK" /\ reply.req.required # Absent =>
    /\ reply.bytes % ExtentSize = 0
    /\ reply.req.required <= reply.bytes
    /\ reply.bytes < reply.req.required + ExtentSize
    /\ reply.req.limit = 0 \/ reply.bytes <= reply.req.limit

\* "BytesFree returns the unallocated space in bytes of the volume group": the
\* capacity reported is a size, and no more than what is unallocated.
ReportedWithinUnallocated ==
  reply.kind = "Capacity" =>
    reply.bytes >= 0 /\ reply.bytes <= reply.free * ExtentSize

\* "If sizeInBytes is zero the entire available space is allocated": a request
\* with a limit and no size is not refused while there is free space.
ZeroSizeTakesAll ==
  reply.kind = "Internal" /\ reply.req.required = 0 =>
    LayoutError(reply.req.params) \/ reply.free = 0

\* Every variable has its type: the free count stays within the group.
TypeOK ==
  /\ free \in 0..ExtentCount
  /\ volumes \in [1..MaxVolumes -> 0..ExtentCount]
  /\ reply.kind \in {"none", "Unsupported", "Internal", "Capacity", "InsufficientCapacity",
                     "NotMultipleOfExtentSize", "InvalidArgument", "TooFewDisks", "OK"}
  /\ reply.bytes \in Int
=============================================================================

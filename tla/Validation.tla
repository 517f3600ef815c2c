----------------------------- MODULE Validation -----------------------------
(***************************************************************************)
(* The validators that stand in front of the handlers of the three CSI     *)
(* services (pkg/csilvm/validate.go).  A validator looks at the request    *)
(* and at the mode of the process, never at the volume group.  A request   *)
(* is a record of what the validators and the handlers tell apart: whether *)
(* a text field is empty, and which kind of capability it asks for.        *)
(***************************************************************************)
EXTENDS Naturals, Sequences

CONSTANTS
  DefaultFs,   \* the -default-fs flag
  OtherFs      \* a filesystem type that NewServer was not told of

ASSUME FsAssumption == DefaultFs # OtherFs /\ "" \notin {DefaultFs, OtherFs}

OK == "OK"

\* NewServer's map of supported filesystems: its keys, and what "" stands for.
\* (main passes no SupportedFilesystem option, which would add keys.)
SupportedFilesystems == {"", DefaultFs}
FsOf(fs) == IF fs = "" THEN DefaultFs ELSE fs

\* A VolumeCapability: no access type, a mount with an fs_type, or a block
\* device; the access mode is absent, UNKNOWN, one of the single node modes,
\* one of the multi node modes, or a number that the plugin does not know.
Capability ==
  [type : {"none", "mount", "block"},
   fs   : {"", DefaultFs, OtherFs},
   mode : {"absent", "unknown", "reader", "writer", "multi", "other"}]

\* The error of the first check that fails; a check is <<it fails, error>>.
FirstError(checks) ==
  LET failing == {i \in DOMAIN checks : checks[i][1]}
  IN  IF failing = {} THEN OK
      ELSE checks[CHOOSE i \in failing : \A j \in failing : i <= j][2]

-----------------------------------------------------------------------------
(* The parts of a request *)

\* Mutant: a capability without an access type is taken.
AnyAccessType(c, unsupportedFsOK, readonly) ==
  FirstError(<<
    <<c.type = "mount" /\ c.fs \notin SupportedFilesystems /\ ~unsupportedFsOK,
      "ErrUnsupportedFilesystem">>,
    <<c.type = "block" /\ (readonly \/ c.mode = "reader"), "ErrBlockVolNoRO">>,
    <<c.mode = "absent", "ErrMissingAccessMode">>,
    <<c.mode = "unknown", "ErrMissingAccessModeMode">>,
    <<c.mode = "multi", "ErrUnsupportedAccessMode">>,
    <<c.mode = "other", "ErrInvalidAccessMode">> >>)

validateVolumeCapability(c, unsupportedFsOK, readonly) ==
  FirstError(<<
    <<c.type = "none", "ErrMissingAccessType">>,
    <<c.type = "mount" /\ c.fs \notin SupportedFilesystems /\ ~unsupportedFsOK,
      "ErrUnsupportedFilesystem">>,
    <<c.type = "block" /\ (readonly \/ c.mode = "reader"), "ErrBlockVolNoRO">>,
    <<c.mode = "absent", "ErrMissingAccessMode">>,
    <<c.mode = "unknown", "ErrMissingAccessModeMode">>,
    <<c.mode = "multi", "ErrUnsupportedAccessMode">>,
    <<c.mode = "other", "ErrInvalidAccessMode">> >>)

\* The checks of a list of capabilities, in its order.
EachCapability(caps, unsupportedFsOK) ==
  [i \in DOMAIN caps |->
     LET err == validateVolumeCapability(caps[i], unsupportedFsOK, FALSE)
     IN  <<err # OK, err>>]

validateVolumeCapabilities(caps) ==
  IF caps = <<>> THEN "ErrMissingVolumeCapabilities"
                 ELSE FirstError(EachCapability(caps, FALSE))

validateRemoving(removing) == <<removing, "ErrRemovingMode">>
HasVolumeId(q) == <<q.id = "", "ErrMissingVolumeId">>
HasTargetPath(q) == <<q.path = "", "ErrMissingTargetPath">>

\* capacity_range: absent, without both bounds, with required_bytes over
\* limit_bytes, or fit (the numbers are in module Capacity).
validateCapacityRange(q) ==
  FirstError(<< <<q.range = "empty", "ErrCapacityRangeUnspecified">>,
                <<q.range = "inverted", "ErrCapacityRangeInvalidSize">> >>)

\* An inner validation as a check.
Inner(err) == <<err # OK, err>>

-----------------------------------------------------------------------------
(* One validator per method that has one *)

validateCreateVolumeRequest(q, removing) ==
  FirstError(<< validateRemoving(removing),
                <<q.name = "", "ErrMissingName">>,
                Inner(validateCapacityRange(q)),
                Inner(validateVolumeCapabilities(q.caps)) >>)

validateDeleteVolumeRequest(q, removing) ==
  FirstError(<< validateRemoving(removing), HasVolumeId(q) >>)

validateValidateVolumeCapabilitiesRequest(q, removing) ==
  FirstError(<< validateRemoving(removing), HasVolumeId(q),
                Inner(validateVolumeCapabilities(q.caps)) >>)

\* An unsupported filesystem is no error here: the capacity for it is zero.
validateGetCapacityRequest(q) == FirstError(EachCapability(q.caps, TRUE))

\* The request has one capability, or none; a publish context is asked for in
\* the mode in which StoLake executes the commands.
validateNodePublishVolumeRequest(q, removing, proxy) ==
  FirstError(<< validateRemoving(removing), HasVolumeId(q),
                <<proxy /\ q.context = "nil", "ErrSpecifiedPublishNoContext">>,
                HasTargetPath(q),
                <<q.caps = <<>>, "ErrMissingVolumeCapability">>,
                Inner(IF q.caps = <<>> THEN OK
                      ELSE validateVolumeCapability(q.caps[1], FALSE, q.readonly)) >>)

validateNodeUnpublishVolumeRequest(q, removing) ==
  FirstError(<< validateRemoving(removing), HasVolumeId(q), HasTargetPath(q) >>)

\* IdentityServerValidator and the methods of the other two that look at
\* nothing: ControllerPublishVolume and ControllerUnpublishVolume among them,
\* in the removing mode too.
Unvalidated == OK

\* What the validator of q's method answers; OK is the call of the handler.
Refusal(q, removing, proxy) ==
  CASE q.method = "CreateVolume" -> validateCreateVolumeRequest(q, removing)
    [] q.method = "DeleteVolume" -> validateDeleteVolumeRequest(q, removing)
    [] q.method = "ValidateVolumeCapabilities" ->
         validateValidateVolumeCapabilitiesRequest(q, removing)
    [] q.method = "GetCapacity" -> validateGetCapacityRequest(q)
    [] q.method = "NodePublishVolume" ->
         validateNodePublishVolumeRequest(q, removing, proxy)
    [] q.method = "NodeUnpublishVolume" ->
         validateNodeUnpublishVolumeRequest(q, removing)
    [] OTHER -> Unvalidated

=============================================================================

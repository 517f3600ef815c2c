--------------------------- MODULE ServiceProofs ---------------------------
(***************************************************************************)
(* Proofs about Service and the validators of Validation: for any number   *)
(* of requests, whatever they ask for, any volumes, any configuration, and *)
(* any faults and changes of the volume group meanwhile.                   *)
(***************************************************************************)
EXTENDS Service, FiniteSetTheorems, WellFoundedInduction, TLAPS

\* What CSI's messages can hold, and how processes can be started.
Setting ==
  /\ Calls \subseteq CallType /\ Configs \subseteq ConfigType
  /\ "free" \notin Requests

-----------------------------------------------------------------------------
(* The validators *)

LEMMA LeastNatural ==
  ASSUME NEW S, S \subseteq Nat, S # {}
  PROVE  \E i \in S : \A j \in S : i <= j
<1> DEFINE R == {ss \in Nat \X Nat : ss[1] < ss[2]}
<1>1. IsWellFoundedOn(R, Nat)
  BY NatLessThanWellFounded DEF OpToRel
<1>2. \E x \in S : \A y \in S : ~ (<<y, x>> \in R)
  <2> HIDE DEF R
  <2> QED BY <1>1, WFMin
<1>3. PICK x \in S : \A y \in S : ~ (<<y, x>> \in R)
  BY <1>2
<1>4. ASSUME NEW y \in S PROVE x <= y
  <2>1. x \in Nat /\ y \in Nat
    OBVIOUS
  <2>2. ~(y < x)
    <3>1. <<y, x>> \notin R
      BY <1>3
    <3> QED BY <2>1, <3>1
  <2> QED BY <2>1, <2>2
<1> QED BY <1>4

\* FirstError is the error of a check that fails, and OK when none does.
LEMMA FirstErrorIs ==
  ASSUME NEW checks, DOMAIN checks \subseteq Nat
  PROVE  \/ FirstError(checks) = OK /\ \A i \in DOMAIN checks : ~checks[i][1]
         \/ \E i \in DOMAIN checks : checks[i][1] /\ FirstError(checks) = checks[i][2]
<1> DEFINE failing == {i \in DOMAIN checks : checks[i][1]}
<1>1. CASE failing = {}
  BY <1>1 DEF FirstError
<1>2. CASE failing # {}
  <2>1. \E i \in failing : \A j \in failing : i <= j
    BY <1>2, LeastNatural
  <2>2. PICK m : m = CHOOSE i \in failing : \A j \in failing : i <= j
    OBVIOUS
  <2>3. m \in failing
    BY <2>1, <2>2
  <2>4. FirstError(checks) = checks[m][2]
    BY <1>2, <2>2 DEF FirstError
  <2> QED BY <2>3, <2>4
<1> QED BY <1>1, <1>2

\* Checks whose errors are errors all pass when the answer is OK.
LEMMA AllPass ==
  ASSUME NEW checks, DOMAIN checks \subseteq Nat,
         \A i \in DOMAIN checks : checks[i][1] => checks[i][2] # OK
  PROVE  FirstError(checks) = OK <=> \A i \in DOMAIN checks : ~checks[i][1]
<1>1. \/ FirstError(checks) = OK /\ \A i \in DOMAIN checks : ~checks[i][1]
      \/ \E i \in DOMAIN checks : checks[i][1] /\ FirstError(checks) = checks[i][2]
  BY FirstErrorIs
<1> QED BY <1>1

\* What a capability must be for its validator to take it.
LEMMA CapabilityTaken ==
  ASSUME NEW c, NEW unsupportedFsOK \in BOOLEAN, NEW readonly \in BOOLEAN
  PROVE  validateVolumeCapability(c, unsupportedFsOK, readonly) = OK <=>
           /\ c.type # "none"
           /\ c.type = "mount" /\ ~unsupportedFsOK => c.fs \in SupportedFilesystems
           /\ ~(c.type = "block" /\ (readonly \/ c.mode = "reader"))
           /\ c.mode \notin {"absent", "unknown", "multi", "other"}
<1> DEFINE checks == <<
    <<c.type = "none", "ErrMissingAccessType">>,
    <<c.type = "mount" /\ c.fs \notin SupportedFilesystems /\ ~unsupportedFsOK,
      "ErrUnsupportedFilesystem">>,
    <<c.type = "block" /\ (readonly \/ c.mode = "reader"), "ErrBlockVolNoRO">>,
    <<c.mode = "absent", "ErrMissingAccessMode">>,
    <<c.mode = "unknown", "ErrMissingAccessModeMode">>,
    <<c.mode = "multi", "ErrUnsupportedAccessMode">>,
    <<c.mode = "other", "ErrInvalidAccessMode">> >>
<1>1. validateVolumeCapability(c, unsupportedFsOK, readonly) = FirstError(checks)
  BY DEF validateVolumeCapability
<1>2. DOMAIN checks = 1..7
  OBVIOUS
<1>3. \A i \in 1..7 : checks[i][1] => checks[i][2] # OK
  BY DEF OK
<1>4. /\ checks[1][1] <=> c.type = "none"
      /\ checks[2][1] <=> c.type = "mount" /\ c.fs \notin SupportedFilesystems /\ ~unsupportedFsOK
      /\ checks[3][1] <=> c.type = "block" /\ (readonly \/ c.mode = "reader")
      /\ checks[4][1] <=> c.mode = "absent"
      /\ checks[5][1] <=> c.mode = "unknown"
      /\ checks[6][1] <=> c.mode = "multi"
      /\ checks[7][1] <=> c.mode = "other"
  OBVIOUS
<1> HIDE DEF checks
<1>5. FirstError(checks) = OK <=> \A i \in 1..7 : ~checks[i][1]
  BY <1>2, <1>3, AllPass
<1>6. \A i \in 1..7 : i \in {1, 2, 3, 4, 5, 6, 7}
  OBVIOUS
<1> QED BY <1>1, <1>4, <1>5, <1>6

\* A check that fails is an error of the request.
LEMMA OneFails ==
  ASSUME NEW checks, NEW n \in Nat, DOMAIN checks = 1..n, NEW k \in 1..n, checks[k][1],
         \A i \in 1..n : checks[i][1] => checks[i][2] # OK
  PROVE  FirstError(checks) # OK
BY AllPass

LEMMA InnerIs ==
  ASSUME NEW err
  PROVE  (Inner(err)[1] <=> err # OK) /\ Inner(err)[2] = err
<1>1. Inner(err)[1] = (err # OK)
  BY DEF Inner
<1>2. Inner(err)[2] = err
  BY DEF Inner
<1> QED BY <1>1, <1>2, Zenon

\* A list of capabilities is taken when each of them is.
LEMMA EachTaken ==
  ASSUME NEW caps \in Seq(Capability), NEW unsupportedFsOK
  PROVE  FirstError(EachCapability(caps, unsupportedFsOK)) = OK <=>
           \A i \in DOMAIN caps : validateVolumeCapability(caps[i], unsupportedFsOK, FALSE) = OK
<1> DEFINE checks == EachCapability(caps, unsupportedFsOK)
           err(i) == validateVolumeCapability(caps[i], unsupportedFsOK, FALSE)
<1>1. DOMAIN checks = DOMAIN caps /\ DOMAIN caps \subseteq Nat
  BY DEF EachCapability
<1>2. \A i \in DOMAIN caps : checks[i] = Inner(err(i))
  BY DEF EachCapability, Inner
<1>3. \A i \in DOMAIN checks : (checks[i][1] <=> err(i) # OK) /\ checks[i][2] = err(i)
  <2> HIDE DEF checks, err
  <2>1. ASSUME NEW i \in DOMAIN checks
        PROVE  (checks[i][1] <=> err(i) # OK) /\ checks[i][2] = err(i)
    <3>1. i \in DOMAIN caps
      BY <1>1, <2>1
    <3>2. checks[i] = Inner(err(i))
      BY <1>2, <3>1
    <3> QED BY <3>2, InnerIs, Zenon
  <2> QED BY <2>1
<1> HIDE DEF checks, err
<1>4. FirstError(checks) = OK <=> \A i \in DOMAIN checks : ~checks[i][1]
  BY <1>1, <1>3, AllPass
<1>5. FirstError(checks) = OK <=> \A i \in DOMAIN caps : err(i) = OK
  BY <1>1, <1>3, <1>4
<1> QED BY <1>5 DEF checks, err

LEMMA ListTaken ==
  ASSUME NEW caps \in Seq(Capability)
  PROVE  validateVolumeCapabilities(caps) = OK <=>
           /\ caps # <<>>
           /\ \A i \in DOMAIN caps : validateVolumeCapability(caps[i], FALSE, FALSE) = OK
<1>1. "ErrMissingVolumeCapabilities" # OK
  BY DEF OK
<1> QED BY <1>1, EachTaken DEF validateVolumeCapabilities

\* In the removing mode no request that would use the volume group is let in, of
\* those whose validator looks at the mode.
Guarded == {"CreateVolume", "DeleteVolume", "ValidateVolumeCapabilities",
            "NodePublishVolume", "NodeUnpublishVolume"}

LEMMA CreateVolumeIs ==
  ASSUME NEW q, NEW removing \in BOOLEAN
  PROVE  removing => validateCreateVolumeRequest(q, removing) # OK
<1> DEFINE range == validateCapacityRange(q)
           list == validateVolumeCapabilities(q.caps)
           checks == << validateRemoving(removing), <<q.name = "", "ErrMissingName">>,
                        Inner(range), Inner(list) >>
<1>1. validateCreateVolumeRequest(q, removing) = FirstError(checks)
  BY DEF validateCreateVolumeRequest
<1> HIDE DEF range, list
<1>2. DOMAIN checks = 1..4
  OBVIOUS
<1>3. checks[1][1] <=> removing
  BY DEF validateRemoving
<1>4. checks[1][2] # OK /\ checks[2][2] # OK
  BY DEF validateRemoving, OK
<1>5. checks[3] = Inner(range) /\ checks[4] = Inner(list)
  OBVIOUS
<1> HIDE DEF checks
<1>6. \A i \in 1..4 : checks[i][1] => checks[i][2] # OK
  <2>1. \A i \in 1..4 : i \in {1, 2, 3, 4}
    OBVIOUS
  <2>2. checks[3][1] => checks[3][2] # OK
    BY <1>5, InnerIs
  <2>3. checks[4][1] => checks[4][2] # OK
    BY <1>5, InnerIs
  <2> QED BY <1>4, <2>1, <2>2, <2>3
<1>7. ASSUME removing PROVE FirstError(checks) # OK
  <2>1. 4 \in Nat /\ 1 \in 1..4 /\ checks[1][1]
    BY <1>3, <1>7
  <2> QED BY <1>2, <1>6, <2>1, OneFails
<1> QED BY <1>1, <1>7

LEMMA DeleteVolumeIs ==
  ASSUME NEW q, NEW removing \in BOOLEAN
  PROVE  removing => validateDeleteVolumeRequest(q, removing) # OK
<1> DEFINE checks == << validateRemoving(removing), HasVolumeId(q) >>
<1>1. DOMAIN checks = 1..2
  OBVIOUS
<1>2. checks[1][1] <=> removing
  BY DEF validateRemoving
<1>3. checks[1][2] # OK /\ checks[2][2] # OK
  BY DEF validateRemoving, HasVolumeId, OK
<1>4. validateDeleteVolumeRequest(q, removing) = FirstError(checks)
  BY DEF validateDeleteVolumeRequest
<1> HIDE DEF checks
<1>5. \A i \in 1..2 : checks[i][1] => checks[i][2] # OK
  <2>1. \A i \in 1..2 : i \in {1, 2}
    OBVIOUS
  <2> QED BY <1>3, <2>1
<1>6. ASSUME removing PROVE FirstError(checks) # OK
  <2>1. 2 \in Nat /\ 1 \in 1..2 /\ checks[1][1]
    BY <1>2, <1>6
  <2> QED BY <1>1, <1>5, <2>1, OneFails
<1> QED BY <1>4, <1>6

LEMMA NodeUnpublishVolumeIs ==
  ASSUME NEW q, NEW removing \in BOOLEAN
  PROVE  removing => validateNodeUnpublishVolumeRequest(q, removing) # OK
<1> DEFINE checks == << validateRemoving(removing), HasVolumeId(q), HasTargetPath(q) >>
<1>1. DOMAIN checks = 1..3
  OBVIOUS
<1>2. checks[1][1] <=> removing
  BY DEF validateRemoving
<1>3. checks[1][2] # OK /\ checks[2][2] # OK /\ checks[3][2] # OK
  BY DEF validateRemoving, HasVolumeId, HasTargetPath, OK
<1>4. validateNodeUnpublishVolumeRequest(q, removing) = FirstError(checks)
  BY DEF validateNodeUnpublishVolumeRequest
<1> HIDE DEF checks
<1>5. \A i \in 1..3 : checks[i][1] => checks[i][2] # OK
  <2>1. \A i \in 1..3 : i \in {1, 2, 3}
    OBVIOUS
  <2> QED BY <1>3, <2>1
<1>6. ASSUME removing PROVE FirstError(checks) # OK
  <2>1. 3 \in Nat /\ 1 \in 1..3 /\ checks[1][1]
    BY <1>2, <1>6
  <2> QED BY <1>1, <1>5, <2>1, OneFails
<1> QED BY <1>4, <1>6

LEMMA ValidateVolumeCapabilitiesIs ==
  ASSUME NEW q, NEW removing \in BOOLEAN
  PROVE  validateValidateVolumeCapabilitiesRequest(q, removing) = OK <=>
           ~removing /\ q.id # "" /\ validateVolumeCapabilities(q.caps) = OK
<1> DEFINE list == validateVolumeCapabilities(q.caps)
           checks == << validateRemoving(removing), HasVolumeId(q), Inner(list) >>
<1>1. validateValidateVolumeCapabilitiesRequest(q, removing) = FirstError(checks)
  BY DEF validateValidateVolumeCapabilitiesRequest
<1> HIDE DEF list
<1>2. DOMAIN checks = 1..3 /\ 1..3 \subseteq Nat
  OBVIOUS
<1>3. (checks[1][1] <=> removing) /\ (checks[2][1] <=> q.id = "")
  BY DEF validateRemoving, HasVolumeId
<1>4. checks[1][2] # OK /\ checks[2][2] # OK
  BY DEF validateRemoving, HasVolumeId, OK
<1>5. checks[3] = Inner(list)
  OBVIOUS
<1> HIDE DEF checks
<1>6. (checks[3][1] <=> list # OK) /\ checks[3][2] = list
  BY <1>5, InnerIs
<1>7. \A i \in 1..3 : i \in {1, 2, 3}
  OBVIOUS
<1>8. \A i \in 1..3 : checks[i][1] => checks[i][2] # OK
  BY <1>4, <1>6, <1>7
<1>9. FirstError(checks) = OK <=> \A i \in 1..3 : ~checks[i][1]
  BY <1>2, <1>8, AllPass
<1>10. 1 \in 1..3 /\ 2 \in 1..3 /\ 3 \in 1..3
  OBVIOUS
<1>11. FirstError(checks) = OK <=> ~removing /\ q.id # "" /\ list = OK
  BY <1>3, <1>6, <1>7, <1>9, <1>10
<1> QED BY <1>1, <1>11 DEF list

\* NodePublishVolume's validator answers OK, an error of another field, or the
\* error of the capability.
LEMMA NodePublishVolumeIs ==
  ASSUME NEW q, NEW removing \in BOOLEAN, NEW proxy \in BOOLEAN
  PROVE  LET err == validateVolumeCapability(q.caps[1], FALSE, q.readonly)
             refusal == validateNodePublishVolumeRequest(q, removing, proxy)
         IN  /\ refusal = OK => ~removing /\ q.id # "" /\ q.caps # <<>> /\ err = OK
             /\ refusal \in CapabilityErrors => q.caps # <<>> /\ err # OK
<1> DEFINE err == IF q.caps = <<>> THEN OK
                  ELSE validateVolumeCapability(q.caps[1], FALSE, q.readonly)
           checks == << validateRemoving(removing), HasVolumeId(q),
                        <<proxy /\ q.context = "nil", "ErrSpecifiedPublishNoContext">>,
                        HasTargetPath(q),
                        <<q.caps = <<>>, "ErrMissingVolumeCapability">>,
                        Inner(err) >>
           Other == {"ErrRemovingMode", "ErrMissingVolumeId", "ErrSpecifiedPublishNoContext",
                     "ErrMissingTargetPath", "ErrMissingVolumeCapability"}
<1>1. validateNodePublishVolumeRequest(q, removing, proxy) = FirstError(checks)
  BY DEF validateNodePublishVolumeRequest
<1>2. err # OK => q.caps # <<>> /\ err = validateVolumeCapability(q.caps[1], FALSE, q.readonly)
  OBVIOUS
<1>3. q.caps # <<>> => err = validateVolumeCapability(q.caps[1], FALSE, q.readonly)
  OBVIOUS
<1> HIDE DEF err
<1>4. DOMAIN checks = 1..6 /\ 1..6 \subseteq Nat
  OBVIOUS
<1>5. /\ checks[1][1] <=> removing
      /\ checks[2][1] <=> q.id = ""
      /\ checks[5][1] <=> q.caps = <<>>
  BY DEF validateRemoving, HasVolumeId
<1>6. /\ checks[1][2] \in Other /\ checks[2][2] \in Other /\ checks[3][2] \in Other
      /\ checks[4][2] \in Other /\ checks[5][2] \in Other
  BY DEF validateRemoving, HasVolumeId, HasTargetPath
<1>7. checks[6] = Inner(err)
  OBVIOUS
<1>8. Other \intersect CapabilityErrors = {} /\ OK \notin Other /\ OK \notin CapabilityErrors
  BY DEF CapabilityErrors, OK
<1> HIDE DEF checks, Other
<1>9. (checks[6][1] <=> err # OK) /\ checks[6][2] = err
  BY <1>7, InnerIs
<1>10. \A i \in 1..6 : i \in {1, 2, 3, 4, 5, 6}
  OBVIOUS
<1>11. \A i \in 1..6 : checks[i][1] => checks[i][2] # OK
  BY <1>6, <1>8, <1>9, <1>10
<1>12. FirstError(checks) = OK <=> \A i \in 1..6 : ~checks[i][1]
  BY <1>4, <1>11, AllPass
<1>13. 1 \in 1..6 /\ 2 \in 1..6 /\ 5 \in 1..6 /\ 6 \in 1..6
  OBVIOUS
<1>14. FirstError(checks) = OK => ~removing /\ q.id # "" /\ q.caps # <<>> /\ err = OK
  BY <1>5, <1>9, <1>12, <1>13
<1>15. \/ FirstError(checks) = OK
       \/ \E i \in DOMAIN checks : checks[i][1] /\ FirstError(checks) = checks[i][2]
  BY <1>4, FirstErrorIs
<1>16. FirstError(checks) \in CapabilityErrors => err # OK
  BY <1>4, <1>6, <1>8, <1>9, <1>10, <1>15
<1> QED BY <1>1, <1>2, <1>3, <1>14, <1>16

\* What the answer OK of a validator says of the request.
LEMMA RefusalIs ==
  ASSUME NEW q \in CallType, NEW removing \in BOOLEAN, NEW proxy \in BOOLEAN
  PROVE  /\ removing /\ q.method \in Guarded => Refusal(q, removing, proxy) # OK
         /\ q.method = "NodePublishVolume" =>
              Refusal(q, removing, proxy) = validateNodePublishVolumeRequest(q, removing, proxy)
         /\ q.method = "GetCapacity" =>
              Refusal(q, removing, proxy) = validateGetCapacityRequest(q)
         /\ q.method = "ValidateVolumeCapabilities" /\ Refusal(q, removing, proxy) = OK =>
              q.id # "" /\ validateVolumeCapabilities(q.caps) = OK
<1>1. /\ q.method = "CreateVolume" =>
           Refusal(q, removing, proxy) = validateCreateVolumeRequest(q, removing)
      /\ q.method = "DeleteVolume" =>
           Refusal(q, removing, proxy) = validateDeleteVolumeRequest(q, removing)
      /\ q.method = "ValidateVolumeCapabilities" =>
           Refusal(q, removing, proxy) = validateValidateVolumeCapabilitiesRequest(q, removing)
      /\ q.method = "GetCapacity" =>
           Refusal(q, removing, proxy) = validateGetCapacityRequest(q)
      /\ q.method = "NodePublishVolume" =>
           Refusal(q, removing, proxy) = validateNodePublishVolumeRequest(q, removing, proxy)
      /\ q.method = "NodeUnpublishVolume" =>
           Refusal(q, removing, proxy) = validateNodeUnpublishVolumeRequest(q, removing)
  BY DEF Refusal
<1>2. removing => validateCreateVolumeRequest(q, removing) # OK
  BY CreateVolumeIs
<1>3. removing => validateDeleteVolumeRequest(q, removing) # OK
  BY DeleteVolumeIs
<1>4. removing => validateNodeUnpublishVolumeRequest(q, removing) # OK
  BY NodeUnpublishVolumeIs
<1>5. validateValidateVolumeCapabilitiesRequest(q, removing) = OK <=>
        ~removing /\ q.id # "" /\ validateVolumeCapabilities(q.caps) = OK
  BY ValidateVolumeCapabilitiesIs
<1>6. validateNodePublishVolumeRequest(q, removing, proxy) = OK => ~removing
  BY NodePublishVolumeIs
<1> QED BY <1>1, <1>2, <1>3, <1>4, <1>5, <1>6 DEF Guarded

-----------------------------------------------------------------------------
(* The inductive invariant *)

Phases == {"new", "down", "handler", "up", "done"}
Infos == {"", "services", "VOLUME_ACCESSIBILITY_CONSTRAINTS", "tenant",
          "initiatorName", "nodeID"}
Reply == [entries : SUBSET Volumes, capacity : Int, info : Infos]
Span == [always : SUBSET Volumes, ever : SUBSET Volumes]

ChainTypes ==
  /\ conf \in Configs
  /\ call \in [Requests -> Calls \union {NoCall}]
  /\ phase \in [Requests -> Phases] /\ pos \in [Requests -> Nat]
  /\ DOMAIN step = Requests /\ DOMAIN cur = Requests /\ DOMAIN answer = Requests
  /\ counted \subseteq Requests /\ IsFiniteSet(counted)
  /\ counters \in [Keys -> Nat]
DataTypes ==
  /\ todo \in [Requests -> SUBSET Volumes] /\ reply \in [Requests -> Reply]
  /\ lvs \subseteq Volumes /\ window \in [Requests -> Span]
Types == ChainTypes /\ DataTypes

\* The requests that SerializingInterceptor has let in, and those that have
\* tagged the shared scope and are not counted yet.
Holds(r) == phase[r] \in {"handler", "up"} \/ (phase[r] = "down" /\ pos[r] = 2)
Tagged(r) == phase[r] = "handler" \/ (phase[r] = "up" /\ pos[r] = 2)

\* Where a request is in the chain, and what it has there: the lock is its own
\* and the scope is the one that it tagged.
InChain(r) ==
  /\ phase[r] # "new" => call[r] \in Calls
  /\ phase[r] \in {"down", "up"} => pos[r] \in {1, 2}
  /\ phase[r] = "handler" => pos[r] = 3
  /\ Holds(r) => lock = r
  /\ Tagged(r) => scope = call[r].method
  /\ r \in counted => phase[r] = "done" \/ (phase[r] = "up" /\ pos[r] = 1)
  /\ phase[r] \in {"new", "down", "handler"} => answer[r] = "none"

\* Before its handler's first command a request has no response, and once its
\* handler runs, the validator has taken it; QoS is set by this process only.
Early(r) == phase[r] \in {"new", "down"} \/ (phase[r] = "handler" /\ step[r] \in {"validate", "run"})
Passed(r) ==
  /\ Early(r) => reply[r] = NoReply
  /\ phase[r] = "handler" /\ step[r] # "validate" =>
       Refusal(call[r], conf.removing, conf.proxy) = OK
  /\ phase[r] = "handler" /\ step[r] = "qos" => call[r].qos /\ ~conf.proxy

\* The volumes that were there all along are in the list, or still to be looked
\* at; what is in it was there.
Listing(r) ==
  /\ phase[r] = "handler" /\ step[r] \in {"lookup", "attributes"} =>
       /\ window[r].always \subseteq reply[r].entries \union todo[r]
       /\ reply[r].entries \subseteq window[r].ever /\ lvs \subseteq window[r].ever
  /\ \/ phase[r] = "handler" /\ step[r] \in {"report", "bytes"}
     \/ answer[r] = OK
     => (call[r].method = "ListVolumes" /\ ~conf.removing =>
           /\ window[r].always \subseteq reply[r].entries
           /\ reply[r].entries \subseteq window[r].ever)

Offered(r) ==
  call[r].method = "GetCapacity" /\ reply[r].capacity > 0 /\ call[r].caps # <<>> =>
    ~conf.removing /\ validateVolumeCapabilities(call[r].caps) = OK

\* A capability that was confirmed is one that NodePublishVolume's validator
\* takes, and names no other filesystem than the volume's.
Confirms(c, f) ==
  /\ validateVolumeCapability(c, FALSE, FALSE) = OK
  /\ c.type = "mount" /\ c.fs # "" /\ f # "" => c.fs = f
Confirmed == \A t \in validated : Confirms(t[2], t[3])

\* A publish that was refused for its capability was refused by the validator,
\* or for the filesystem that the volume still has.
Refused(r) ==
  call[r].method = "NodePublishVolume" /\ ~call[r].readonly
    /\ answer[r] \in CapabilityErrors /\ call[r].caps # <<>> =>
  \/ validateVolumeCapability(call[r].caps[1], FALSE, FALSE) # OK
  \/ /\ call[r].caps[1].type = "mount" /\ call[r].id \in Existing
     /\ fs[call[r].id] \notin {"", FsOf(call[r].caps[1].fs)}

Chained == ChainTypes /\ \A r \in Requests : InChain(r)

-----------------------------------------------------------------------------
(* The steps: what an interceptor and a handler may do to a request *)

HandlerStep(r) ==
  \/ ValidateRequest(r) \/ NotImplemented(r) \/ GetCapabilities(r)
  \/ GetPluginInfo(r) \/ NodeGetInfo(r) \/ NoTenant(r)
  \/ ReportVolumes(r) \/ ReportBytes(r)
  \/ ListNothing(r) \/ ListLogicalVolumeNames(r) \/ ListLookup(r)
  \/ ListAttributes(r) \/ NoCapacity(r) \/ GetCapacity(r)
  \/ Lookup(r) \/ Login(r) \/ NoDatapath(r) \/ ConfirmCapabilities(r)
  \/ PublishDevice(r) \/ TagQos(r)
  \/ ControllerPublishVolume(r) \/ NodeUnpublishVolume(r)
  \/ Delegate(r) \/ NilVolumeGroup(r)

\* A handler answers, goes on, or ends the process.
Leaves(r, a) ==
  /\ answer' = [answer EXCEPT ![r] = a]
  /\ phase' = [phase EXCEPT ![r] = "up"] /\ pos' = [pos EXCEPT ![r] = 2]
  /\ step' = [step EXCEPT ![r] = "none"] /\ cur' = [cur EXCEPT ![r] = ""]
  /\ todo' = [todo EXCEPT ![r] = {}]
  /\ UNCHANGED killer
Answers(r) == \E a : Leaves(r, a)
Later == {"lookup", "attributes", "report", "bytes", "device", "qos"}
Tags(r) == call[r].qos /\ ~conf.proxy
GoesOn(r) ==
  /\ step[r] # "validate" /\ DOMAIN cur' = Requests
  /\ \E s \in Later : Go(r, s) /\ (s = "qos" => Tags(r))
Validates(r) ==
  /\ step[r] = "validate" /\ Refusal(call[r], conf.removing, conf.proxy) = OK
  /\ Go(r, "run") /\ UNCHANGED <<reply, cur, todo>>
MayPanic(r) ==
  \/ NoTenant(r) \/ GetCapacity(r) \/ PublishDevice(r) \/ TagQos(r)
  \/ ControllerPublishVolume(r) \/ NodeUnpublishVolume(r) \/ Delegate(r)
  \/ NilVolumeGroup(r)
Panics(r) ==
  /\ step[r] # "validate" /\ Panic(r) /\ UNCHANGED reply
  /\ MayPanic(r)
HandlerKind(r) == Answers(r) \/ Validates(r) \/ GoesOn(r) \/ Panics(r)

LEMMA AnswerLeaves ==
  ASSUME ChainTypes, NEW r \in Requests, InChain(r), phase[r] = "handler", NEW a, Answer(r, a)
  PROVE  Leaves(r, a)
<1>1. pos[r] = 3
  BY DEF InChain
<1>2. /\ phase' = [phase EXCEPT ![r] = "up"]
      /\ pos' = [pos EXCEPT ![r] = 2]
  <2>1. Ascend(r)
    BY DEF Answer
  <2>2. pos[r] - 1 = 2 /\ pos[r] # 1
    BY <1>1
  <2> QED BY <2>1, <2>2 DEF Ascend
<1> QED BY <1>2 DEF Answer, Leaves

LEMMA HandlerMoves ==
  ASSUME ChainTypes, NEW r \in Requests, InChain(r), HandlerStep(r)
  PROVE  Alive /\ phase[r] = "handler" /\ HandlerKind(r)
<1>1. ASSUME phase[r] = "handler", NEW a, Answer(r, a) PROVE HandlerKind(r)
  BY <1>1, AnswerLeaves DEF HandlerKind, Answers
<1>2. ASSUME NEW s \in Later, Go(r, s), s = "qos" => Tags(r), DOMAIN cur' = DOMAIN cur,
             step[r] # "validate"
      PROVE  HandlerKind(r)
  BY <1>2 DEF HandlerKind, GoesOn, ChainTypes
<1>3. ASSUME Panic(r), step[r] # "validate", UNCHANGED reply, MayPanic(r)
      PROVE  HandlerKind(r)
  BY <1>3 DEF HandlerKind, Panics
<1>4. CASE ValidateRequest(r)
  BY <1>4, <1>1 DEF ValidateRequest, HandlerKind, Validates
<1> USE DEF Later
<1>5. CASE NotImplemented(r)
  BY <1>5, <1>1 DEF NotImplemented, In
<1>6. CASE GetCapabilities(r)
  BY <1>6, <1>1 DEF GetCapabilities, In, Inform
<1>7. CASE GetPluginInfo(r)
  BY <1>7, <1>1 DEF GetPluginInfo, In, Inform
<1>8. CASE NodeGetInfo(r)
  BY <1>8, <1>1 DEF NodeGetInfo, In, Inform
<1>9. CASE NoTenant(r)
  BY <1>9, <1>3 DEF NoTenant, In, MayPanic
<1>10. CASE ReportVolumes(r)
  BY <1>10, <1>1, <1>2 DEF ReportVolumes, In
<1>11. CASE ReportBytes(r)
  BY <1>11, <1>1 DEF ReportBytes, In
<1>12. CASE ListNothing(r)
  BY <1>12, <1>1 DEF ListNothing, In
<1>13. CASE ListLogicalVolumeNames(r)
  BY <1>13, <1>1, <1>2 DEF ListLogicalVolumeNames, ListNext, In
<1>14. CASE ListLookup(r)
  BY <1>14, <1>1, <1>2 DEF ListLookup, In
<1>15. CASE ListAttributes(r)
  BY <1>15, <1>1, <1>2 DEF ListAttributes, ListNext, In
<1>16. CASE NoCapacity(r)
  BY <1>16, <1>1 DEF NoCapacity, In
<1>17. CASE GetCapacity(r)
  BY <1>17, <1>1, <1>2, <1>3 DEF GetCapacity, In, MayPanic
<1>18. CASE Lookup(r)
  BY <1>18, <1>1, <1>2 DEF Lookup, In
<1>19. CASE NoDatapath(r)
  BY <1>19, <1>1 DEF NoDatapath, In
<1>20. CASE ConfirmCapabilities(r)
  BY <1>20, <1>1 DEF ConfirmCapabilities, In
<1>21. CASE PublishDevice(r)
  <2>1. Alive /\ phase[r] = "handler" /\ step[r] # "validate" /\ UNCHANGED reply
    BY <1>21 DEF PublishDevice, In
  <2>2. ASSUME Published(r) PROVE HandlerKind(r)
    BY <1>1, <1>2, <2>1, <2>2 DEF Published, Tags
  <2>3. Panic(r) \/ Published(r) \/ \E a : Answer(r, a)
    BY <1>21 DEF PublishDevice, MountLocally
  <2> QED BY <1>1, <1>3, <1>21, <2>1, <2>2, <2>3 DEF MayPanic
<1>22. CASE Delegate(r)
  BY <1>22, <1>1, <1>2, <1>3 DEF Delegate, In, MayPanic
<1>23. CASE NilVolumeGroup(r)
  BY <1>23, <1>3 DEF NilVolumeGroup, In, MayPanic
<1>24. CASE Login(r)
  BY <1>24, <1>1, <1>2 DEF Login, In
<1>25. CASE TagQos(r)
  BY <1>25, <1>1, <1>3 DEF TagQos, In, MayPanic
<1>26. CASE ControllerPublishVolume(r)
  <2>1. Panic(r) \/ \E a : Answer(r, a)
    BY <1>26 DEF ControllerPublishVolume, StageIscsiTarget, JbofStageIscsiTargets
  <2> QED BY <1>26, <1>1, <1>3, <2>1 DEF ControllerPublishVolume, In, MayPanic
<1>27. CASE NodeUnpublishVolume(r)
  BY <1>27, <1>1, <1>3 DEF NodeUnpublishVolume, In, MayPanic
<1> QED BY <1>4, <1>5, <1>6, <1>7, <1>8, <1>9, <1>10, <1>11, <1>12, <1>13, <1>14,
           <1>15, <1>16, <1>17, <1>18, <1>19, <1>20, <1>21, <1>22, <1>23, <1>24, <1>25,
           <1>26, <1>27 DEF HandlerStep

\* What the five steps of the chain do to the phase, the position and the step.
Arrives(r) == \E q \in Calls : Receive(r, q)
InterceptorStep(r) ==
  \/ Arrives(r) \/ SerialAcquire(r) \/ SerialRelease(r) \/ MetricsTag(r) \/ MetricsCount(r)

LEMMA AtSerial ==
  ASSUME NEW r, NEW ph, At(r, ph, "serial") PROVE Alive /\ phase[r] = ph /\ pos[r] = 1
<1>1. pos[r] \in {1, 2}
  BY DEF At, Chain
<1>2. Chain[2] # "serial"
  BY DEF Chain
<1> QED BY <1>1, <1>2 DEF At

LEMMA AtMetrics ==
  ASSUME NEW r, NEW ph, At(r, ph, "metrics") PROVE Alive /\ phase[r] = ph /\ pos[r] = 2
<1>1. pos[r] \in {1, 2}
  BY DEF At, Chain
<1>2. Chain[1] # "metrics"
  BY DEF Chain
<1> QED BY <1>1, <1>2 DEF At

LEMMA ChainLength == Len(Chain) = 2
BY DEF Chain

\* To the position and the phase that the step puts a request in.
Moves(r, ph, p) == phase' = [phase EXCEPT ![r] = ph] /\ pos' = [pos EXCEPT ![r] = p]

LEMMA ChainMoves ==
  ASSUME ChainTypes, NEW r \in Requests
  PROVE  /\ SerialAcquire(r) => Moves(r, "down", 2) /\ step' = step
         /\ MetricsTag(r) => Moves(r, "handler", 3) /\ step' = [step EXCEPT ![r] = "validate"]
         /\ MetricsCount(r) => Moves(r, "up", 1) /\ step' = step
         /\ SerialRelease(r) => Moves(r, "done", 0) /\ step' = step
<1>1. ASSUME SerialAcquire(r) PROVE Moves(r, "down", 2) /\ step' = step
  <2>1. pos[r] = 1
    BY <1>1, AtSerial DEF SerialAcquire
  <2> QED BY <1>1, <2>1, ChainLength DEF SerialAcquire, Descend, Moves
<1>2. ASSUME MetricsTag(r)
      PROVE  Moves(r, "handler", 3) /\ step' = [step EXCEPT ![r] = "validate"]
  <2>1. pos[r] = 2
    BY <1>2, AtMetrics DEF MetricsTag
  <2> QED BY <1>2, <2>1, ChainLength DEF MetricsTag, Descend, Moves
<1>3. ASSUME MetricsCount(r) PROVE Moves(r, "up", 1) /\ step' = step
  <2>1. pos[r] = 2
    BY <1>3, AtMetrics DEF MetricsCount
  <2> QED BY <1>3, <2>1 DEF MetricsCount, Ascend, Moves
<1>4. ASSUME SerialRelease(r) PROVE Moves(r, "done", 0) /\ step' = step
  <2>1. pos[r] = 1
    BY <1>4, AtSerial DEF SerialRelease
  <2> QED BY <1>4, <2>1 DEF SerialRelease, Ascend, Moves
<1> QED BY <1>1, <1>2, <1>3, <1>4

-----------------------------------------------------------------------------
(* The chain: whose the lock and the scope are *)

LEMMA InitChained == ASSUME Init, Setting PROVE Chained
<1>1. ChainTypes
  BY FS_EmptySet DEF Init, ChainTypes, Phases, Setting
<1>2. ASSUME NEW r \in Requests PROVE InChain(r)
  BY DEF Init, InChain, Holds, Tagged
<1> QED BY <1>1, <1>2 DEF Chained

LEMMA HandlerKeepsChained ==
  ASSUME Chained, NEW r \in Requests, HandlerStep(r), UNCHANGED <<conf, call, chainVars>>
  PROVE  Chained'
<1>1. ChainTypes /\ InChain(r)
  BY DEF Chained
<1>2. phase[r] = "handler" /\ HandlerKind(r)
  BY <1>1, HandlerMoves
<1>3. ASSUME NEW o \in Requests PROVE InChain(o)
  BY DEF Chained
<1>4. UNCHANGED <<conf, call, lock, scope, counted, counters>>
  BY DEF chainVars
<1>5. CASE Answers(r)
  <2>1. PICK a : Leaves(r, a)
    BY <1>5 DEF Answers
  <2>2. ChainTypes'
    BY <1>1, <1>4, <2>1 DEF ChainTypes, Phases, Leaves
  <2>3. ASSUME NEW o \in Requests PROVE InChain(o)'
    <3>1. InChain(o)
      BY <1>3
    <3>2. CASE o = r
      BY <1>1, <1>2, <1>4, <2>1, <3>2 DEF ChainTypes, InChain, Holds, Tagged, Leaves
    <3>3. CASE o # r
      <4>1. phase'[o] = phase[o] /\ pos'[o] = pos[o] /\ answer'[o] = answer[o]
        BY <1>1, <2>1, <3>3 DEF ChainTypes, Leaves
      <4> QED BY <1>4, <3>1, <4>1 DEF InChain, Holds, Tagged
    <3> QED BY <3>2, <3>3
  <2> QED BY <2>2, <2>3 DEF Chained
<1>6. CASE Validates(r) \/ GoesOn(r) \/ Panics(r)
  <2>1. UNCHANGED <<answer, phase, pos>> /\ DOMAIN step' = Requests /\ DOMAIN cur' = Requests
    <3>1. CASE Panics(r)
      BY <1>1, <3>1 DEF Panics, Panic, ChainTypes
    <3>3. CASE Validates(r)
      BY <1>1, <3>3 DEF Validates, Go, ChainTypes
    <3>2. CASE GoesOn(r)
      <4>1. UNCHANGED <<answer, phase, pos>> /\ DOMAIN step' = Requests
        BY <1>1, <3>2 DEF GoesOn, Go, ChainTypes
      <4> QED BY <3>2, <4>1 DEF GoesOn
    <3> QED BY <1>6, <3>1, <3>2, <3>3
  <2>2. ChainTypes'
    BY <1>1, <1>4, <2>1 DEF ChainTypes
  <2>3. ASSUME NEW o \in Requests PROVE InChain(o)'
    BY <1>3, <1>4, <2>1 DEF InChain, Holds, Tagged
  <2> QED BY <2>2, <2>3 DEF Chained
<1> QED BY <1>2, <1>5, <1>6 DEF HandlerKind

LEMMA Incremented ==
  ASSUME NEW K, NEW f \in [K -> Nat], NEW k PROVE [f EXCEPT ![k] = @ + 1] \in [K -> Nat]
<1>1. CASE k \in K
  <2>1. f[k] + 1 \in Nat
    BY <1>1
  <2> QED BY <2>1
<1>2. CASE k \notin K
  <2>1. PICK n : n = f[k] + 1
    OBVIOUS
  <2>2. [f EXCEPT ![k] = n] \in [K -> Nat]
    BY <1>2
  <2> QED BY <2>1, <2>2
<1> QED BY <1>1, <1>2

LEMMA InterceptorKeepsChained ==
  ASSUME Setting, Chained, NEW r \in Requests, InterceptorStep(r), UNCHANGED <<conf, cur>>
  PROVE  Chained'
<1> USE DEF Moves
<1>1. ChainTypes
  BY DEF Chained
<1>2. ASSUME NEW o \in Requests PROVE InChain(o)
  BY DEF Chained
<1>3. r # "free"
  BY DEF Setting
<1>4. CASE Arrives(r)
  <2>1. PICK q \in Calls : Receive(r, q)
    BY <1>4 DEF Arrives
  <2>2. ChainTypes'
    BY <1>1, <2>1 DEF ChainTypes, Phases, Receive, chainVars
  <2>3. ASSUME NEW o \in Requests PROVE InChain(o)'
    BY <1>1, <1>2, <2>1 DEF ChainTypes, InChain, Holds, Tagged, Receive, chainVars
  <2> QED BY <2>2, <2>3 DEF Chained
<1>5. CASE SerialAcquire(r)
  <2>1. Moves(r, "down", 2) /\ step' = step /\ phase[r] = "down" /\ pos[r] = 1
    BY <1>1, <1>5, ChainMoves, AtSerial DEF SerialAcquire
  <2>2. lock = "free" /\ lock' = r /\ UNCHANGED <<call, answer, scope, counted, counters>>
    BY <1>5 DEF SerialAcquire
  <2>3. ChainTypes'
    BY <1>1, <2>1, <2>2 DEF ChainTypes, Phases
  <2>4. ASSUME NEW o \in Requests PROVE InChain(o)'
    <3>1. o # "free"
      BY DEF Setting
    <3>2. InChain(o) /\ ~Holds(o)
      BY <1>2, <2>2, <3>1 DEF InChain
    <3> QED BY <1>1, <2>1, <2>2, <3>2 DEF ChainTypes, InChain, Holds, Tagged
  <2> QED BY <2>3, <2>4 DEF Chained
<1>6. CASE SerialRelease(r)
  <2>1. Moves(r, "done", 0) /\ step' = step /\ phase[r] = "up" /\ pos[r] = 1
    BY <1>1, <1>6, ChainMoves, AtSerial DEF SerialRelease
  <2>2. lock' = "free" /\ UNCHANGED <<call, answer, scope, counted, counters>>
    BY <1>6 DEF SerialRelease
  <2>3. ChainTypes'
    BY <1>1, <2>1, <2>2 DEF ChainTypes, Phases
  <2>4. lock = r
    BY <1>2, <2>1 DEF InChain, Holds
  <2>5. ASSUME NEW o \in Requests PROVE InChain(o)'
    <3>1. InChain(o) /\ (o # r => ~Holds(o))
      BY <1>2, <2>4 DEF InChain
    <3> QED BY <1>1, <2>1, <2>2, <3>1 DEF ChainTypes, InChain, Holds, Tagged
  <2> QED BY <2>3, <2>5 DEF Chained
<1>7. CASE MetricsTag(r)
  <2>1. /\ Moves(r, "handler", 3) /\ step' = [step EXCEPT ![r] = "validate"]
        /\ phase[r] = "down" /\ pos[r] = 2
    BY <1>1, <1>7, ChainMoves, AtMetrics DEF MetricsTag
  <2>2. scope' = call[r].method /\ UNCHANGED <<call, answer, lock, counted, counters>>
    BY <1>7 DEF MetricsTag
  <2>3. ChainTypes'
    BY <1>1, <2>1, <2>2 DEF ChainTypes, Phases
  <2>4. lock = r
    BY <1>2, <2>1 DEF InChain, Holds
  <2>5. ASSUME NEW o \in Requests PROVE InChain(o)'
    <3>1. InChain(o) /\ (o # r => ~Holds(o))
      BY <1>2, <2>4 DEF InChain
    <3> QED BY <1>1, <2>1, <2>2, <3>1 DEF ChainTypes, InChain, Holds, Tagged
  <2> QED BY <2>3, <2>5 DEF Chained
<1>8. CASE MetricsCount(r)
  <2>1. Moves(r, "up", 1) /\ step' = step /\ phase[r] = "up" /\ pos[r] = 2
    BY <1>1, <1>8, ChainMoves, AtMetrics DEF MetricsCount
  <2>2. /\ counted' = counted \union {r} /\ UNCHANGED <<call, answer, lock, scope>>
        /\ counters' = [counters EXCEPT ![<<scope, Result(answer[r])>>] = @ + 1]
    BY <1>8 DEF MetricsCount
  <2>3. counters' \in [Keys -> Nat]
    <3>1. PICK k : k = <<scope, Result(answer[r])>>
      OBVIOUS
    <3>2. counters' = [counters EXCEPT ![k] = @ + 1]
      BY <2>2, <3>1
    <3>3. counters \in [Keys -> Nat]
      BY <1>1 DEF ChainTypes
    <3> QED BY <3>2, <3>3, Incremented
  <2>4. IsFiniteSet(counted')
    BY <1>1, <2>2, FS_AddElement DEF ChainTypes
  <2>5. ChainTypes'
    BY <1>1, <2>1, <2>2, <2>3, <2>4 DEF ChainTypes, Phases
  <2>6. ASSUME NEW o \in Requests PROVE InChain(o)'
    BY <1>1, <1>2, <2>1, <2>2 DEF ChainTypes, InChain, Holds, Tagged
  <2> QED BY <2>5, <2>6 DEF Chained
<1> QED BY <1>4, <1>5, <1>6, <1>7, <1>8 DEF InterceptorStep

LEMMA InvariantChained == Setting => (Spec => []Chained)
<1> SUFFICES ASSUME Setting PROVE Spec => []Chained
  OBVIOUS
<1>1. Init => Chained
  BY InitChained
<1>2. Chained /\ [Next]_vars => Chained'
  <2> SUFFICES ASSUME Chained, [Next]_vars PROVE Chained'
    OBVIOUS
  <2>1. CASE Interceptors
    <3>1. PICK r \in Requests : InterceptorStep(r)
      BY <2>1 DEF Interceptors, InterceptorStep, Arrives
    <3> QED BY <2>1, <3>1, InterceptorKeepsChained DEF Interceptors
  <2>2. CASE Handlers
    <3>1. PICK r \in Requests : HandlerStep(r)
      BY <2>2 DEF Handlers, HandlerStep
    <3>2. UNCHANGED <<conf, call, chainVars>>
      BY <2>2 DEF Handlers
    <3> QED BY <3>1, <3>2, HandlerKeepsChained
  <2>3. CASE OtherHosts \/ UNCHANGED vars
    BY <2>3 DEF OtherHosts, vars, handlerVars, chainVars, Chained, ChainTypes, InChain, Holds, Tagged
  <2> QED BY <2>1, <2>2, <2>3 DEF Next
<1> QED BY <1>1, <1>2, PTL DEF Spec

-----------------------------------------------------------------------------
(* The counters *)

Served(k) == {r \in counted : <<call[r].method, Result(answer[r])>> = k}

LEMMA SameCounts ==
  ASSUME Chained, CountedAsServed, UNCHANGED <<counted, counters>>,
         \A o \in counted : call'[o] = call[o] /\ answer'[o] = answer[o]
  PROVE  CountedAsServed'
<1>1. ASSUME NEW k PROVE Served(k)' = Served(k)
  BY DEF Served
<1> QED BY <1>1 DEF CountedAsServed, Served

LEMMA InitCounted == Init => CountedAsServed
<1> SUFFICES ASSUME Init, NEW k \in Keys PROVE counters[k] = Cardinality(Served(k))
  BY DEF CountedAsServed, Served
<1>1. counted = {} /\ counters[k] = 0
  BY DEF Init
<1>2. Served(k) = {}
  BY <1>1 DEF Served
<1> QED BY <1>1, <1>2, FS_EmptySet

LEMMA CountOne ==
  ASSUME Chained, CountedAsServed, NEW r \in Requests, MetricsCount(r)
  PROVE  CountedAsServed'
<1> SUFFICES ASSUME NEW k \in Keys PROVE counters'[k] = Cardinality(Served(k)')
  BY DEF CountedAsServed, Served
<1>1. phase[r] = "up" /\ pos[r] = 2
  BY AtMetrics DEF MetricsCount
<1>2. scope = call[r].method /\ r \notin counted /\ ChainTypes
  BY <1>1 DEF Chained, InChain, Tagged
<1>3. PICK e : e = <<call[r].method, Result(answer[r])>>
  OBVIOUS
<1>4. /\ counted' = counted \union {r} /\ UNCHANGED <<call, answer>>
      /\ counters' = [counters EXCEPT ![e] = @ + 1]
  BY <1>2, <1>3 DEF MetricsCount
<1>5. counters[k] = Cardinality(Served(k)) /\ counters \in [Keys -> Nat]
  BY <1>2 DEF CountedAsServed, Served, ChainTypes
<1>6. IsFiniteSet(Served(k)) /\ r \notin Served(k)
  <2>1. Served(k) \subseteq counted /\ IsFiniteSet(counted)
    BY <1>2 DEF Served, ChainTypes
  <2> QED BY <1>2, <2>1, FS_Subset
<1>7. CASE k = e
  <2>1. Served(k)' = Served(k) \union {r}
    BY <1>3, <1>4, <1>7 DEF Served
  <2>2. Cardinality(Served(k) \union {r}) = Cardinality(Served(k)) + 1
    BY <1>6, FS_AddElement
  <2>3. counters'[k] = counters[k] + 1
    BY <1>4, <1>5, <1>7
  <2> QED BY <1>5, <2>1, <2>2, <2>3
<1>8. CASE k # e
  <2>1. Served(k)' = Served(k)
    BY <1>3, <1>4, <1>8 DEF Served
  <2>2. counters'[k] = counters[k]
    BY <1>4, <1>5, <1>8
  <2> QED BY <1>5, <2>1, <2>2
<1> QED BY <1>7, <1>8

LEMMA StepCounted ==
  ASSUME Setting, Chained, CountedAsServed, [Next]_vars PROVE CountedAsServed'
<1>1. CASE Interceptors
  <2>1. PICK r \in Requests : InterceptorStep(r)
    BY <1>1 DEF Interceptors, InterceptorStep, Arrives
  <2>2. CASE MetricsCount(r)
    BY <2>2, CountOne
  <2>3. CASE Arrives(r)
    <3>1. PICK q \in Calls : Receive(r, q)
      BY <2>3 DEF Arrives
    <3>2. r \notin counted
      BY <3>1 DEF Chained, InChain, Receive
    <3>3. UNCHANGED <<counted, counters, answer>> /\ call' = [call EXCEPT ![r] = q]
      BY <3>1 DEF Receive, chainVars
    <3>4. \A o \in counted : call'[o] = call[o] /\ answer'[o] = answer[o]
      BY <3>2, <3>3 DEF Chained, ChainTypes
    <3> QED BY <3>3, <3>4, SameCounts
  <2>4. CASE SerialAcquire(r) \/ SerialRelease(r) \/ MetricsTag(r)
    <3>1. UNCHANGED <<counted, counters, call, answer>>
      BY <2>4 DEF SerialAcquire, SerialRelease, MetricsTag
    <3> QED BY <3>1, SameCounts
  <2> QED BY <2>1, <2>2, <2>3, <2>4 DEF InterceptorStep
<1>2. CASE Handlers
  <2>1. PICK r \in Requests : HandlerStep(r)
    BY <1>2 DEF Handlers, HandlerStep
  <2>2. UNCHANGED <<call, counted, counters>>
    BY <1>2 DEF Handlers, chainVars
  <2>3. phase[r] = "handler" /\ HandlerKind(r)
    BY <2>1, HandlerMoves DEF Chained
  <2>4. r \notin counted /\ ChainTypes
    BY <2>3 DEF Chained, InChain
  <2>5. \A o \in counted : answer'[o] = answer[o]
    BY <2>3, <2>4 DEF ChainTypes, HandlerKind, Answers, Leaves, Validates, GoesOn, Go, Panics, Panic
  <2> QED BY <2>2, <2>5, SameCounts
<1>3. CASE OtherHosts \/ UNCHANGED vars
  <2>1. UNCHANGED <<counted, counters, call, answer>>
    BY <1>3 DEF OtherHosts, vars, chainVars
  <2> QED BY <2>1, SameCounts
<1> QED BY <1>1, <1>2, <1>3 DEF Next

\* Each of MetricsInterceptor's counters is the number of the requests of its
\* method and result that passed it, though the closure's calls share the scope
\* that they tag: SerializingInterceptor, outside of it, keeps any other request
\* from tagging it between a request's tag and its count.
THEOREM CountsAreTrue == Setting => (Spec => []CountedAsServed)
<1> SUFFICES ASSUME Setting PROVE Spec => []CountedAsServed
  OBVIOUS
<1>1. Spec => []Chained
  BY InvariantChained
<1>2. Init => CountedAsServed
  BY InitCounted
<1>3. Chained /\ CountedAsServed /\ [Next]_vars => CountedAsServed'
  BY StepCounted
<1> QED BY <1>1, <1>2, <1>3, PTL DEF Spec

-----------------------------------------------------------------------------
(* The handlers' data *)

\* The steps that change no response, no volume and no confirmation.
PlainStep(r) ==
  \/ ValidateRequest(r) \/ NotImplemented(r) \/ NoTenant(r)
  \/ ReportVolumes(r) \/ ReportBytes(r) \/ ListNothing(r) \/ ListLookup(r)
  \/ NoCapacity(r) \/ Lookup(r) \/ Login(r) \/ NoDatapath(r) \/ TagQos(r)
  \/ ControllerPublishVolume(r) \/ NodeUnpublishVolume(r) \/ NilVolumeGroup(r)
InformStep(r) == GetCapabilities(r) \/ GetPluginInfo(r) \/ NodeGetInfo(r)

LEMMA StepCases ==
  ASSUME NEW r, HandlerStep(r)
  PROVE  \/ PlainStep(r) \/ InformStep(r) \/ ListLogicalVolumeNames(r) \/ ListAttributes(r)
         \/ GetCapacity(r) \/ ConfirmCapabilities(r) \/ PublishDevice(r) \/ Delegate(r)
BY DEF HandlerStep, PlainStep, InformStep

Cleared(r) == todo' = todo \/ todo' = [todo EXCEPT ![r] = {}]

LEMMA PlainKeeps ==
  ASSUME NEW r, PlainStep(r)
  PROVE  UNCHANGED <<reply, validated, lvs, born, fs, window>> /\ Cleared(r)
<1> USE DEF groupVars, Cleared
<1>1. CASE ValidateRequest(r)
  BY <1>1 DEF ValidateRequest, Answer
<1>2. CASE NotImplemented(r)
  BY <1>2 DEF NotImplemented, Answer
<1>3. CASE NoTenant(r)
  BY <1>3 DEF NoTenant, Panic
<1>4. CASE ReportVolumes(r)
  BY <1>4 DEF ReportVolumes, Answer
<1>5. CASE ReportBytes(r)
  BY <1>5 DEF ReportBytes, Answer
<1>6. CASE ListNothing(r)
  BY <1>6 DEF ListNothing, Answer
<1>7. CASE ListLookup(r)
  BY <1>7 DEF ListLookup, Answer
<1>8. CASE NoCapacity(r)
  BY <1>8 DEF NoCapacity, Answer
<1>9. CASE Lookup(r)
  BY <1>9 DEF Lookup, Answer
<1>10. CASE NoDatapath(r)
  BY <1>10 DEF NoDatapath, Answer
<1>11. CASE NilVolumeGroup(r)
  BY <1>11 DEF NilVolumeGroup, Panic
<1>12. CASE Login(r)
  BY <1>12 DEF Login, Answer
<1>13. CASE TagQos(r)
  BY <1>13 DEF TagQos, Answer, Panic
<1>14. CASE ControllerPublishVolume(r)
  BY <1>14 DEF ControllerPublishVolume, StageIscsiTarget, JbofStageIscsiTargets, Answer, Panic
<1>15. CASE NodeUnpublishVolume(r)
  BY <1>15 DEF NodeUnpublishVolume, Answer, Panic
<1> QED BY <1>1, <1>2, <1>3, <1>4, <1>5, <1>6, <1>7, <1>8, <1>9, <1>10, <1>11, <1>12,
           <1>13, <1>14, <1>15 DEF PlainStep

InfoOnly(r) ==
  /\ UNCHANGED <<validated, lvs, born, fs, window>> /\ Cleared(r)
  /\ \E info \in Infos : reply' = [reply EXCEPT ![r].info = info]

LEMMA InformKeeps ==
  ASSUME NEW r, InformStep(r) PROVE InfoOnly(r)
<1>1. ASSUME NEW info \in Infos, Inform(r, info) PROVE InfoOnly(r)
  BY <1>1 DEF Inform, Answer, groupVars, Cleared, InfoOnly
<1>2. CASE GetCapabilities(r)
  <2>1. PICK info : /\ info = IF call[r].method = "GetPluginCapabilities" /\ ~conf.controller
                              THEN "VOLUME_ACCESSIBILITY_CONSTRAINTS" ELSE "services"
                    /\ Inform(r, info)
    BY <1>2 DEF GetCapabilities
  <2>2. info \in Infos
    BY <2>1 DEF Infos
  <2> QED BY <1>1, <2>1, <2>2
<1>3. CASE GetPluginInfo(r)
  <2>1. "tenant" \in Infos
    BY DEF Infos
  <2> QED BY <1>1, <1>3, <2>1 DEF GetPluginInfo
<1>4. CASE NodeGetInfo(r)
  <2>1. PICK info : /\ info = IF conf.initiator THEN "initiatorName" ELSE "nodeID"
                    /\ Inform(r, info)
    BY <1>4 DEF NodeGetInfo
  <2>2. info \in Infos
    BY <2>1 DEF Infos
  <2> QED BY <1>1, <2>1, <2>2
<1> QED BY <1>2, <1>3, <1>4 DEF InformStep

\* A change of the volume group, and the listings it concerns.
LEMMA GroupChange ==
  ASSUME NEW v \in Volumes, Add(v) \/ Delete(v), DataTypes
  PROVE  /\ lvs' \subseteq Volumes /\ Watch /\ window' \in [Requests -> Span]
         /\ UNCHANGED fs
<1>1. lvs' \subseteq Volumes /\ Watch /\ UNCHANGED fs
  BY DEF Add, Delete, DataTypes
<1>2. window' \in [Requests -> Span]
  BY <1>1 DEF Watch, DataTypes, Span
<1> QED BY <1>1, <1>2

LEMMA FreeIsNumber == ASSUME ServiceAssumption, DataTypes PROVE BytesFree \in Int
<1>1. Cardinality(lvs) \in Nat
  BY FS_Subset, FS_CardinalityType DEF ServiceAssumption, DataTypes
<1> QED BY <1>1 DEF BytesFree, ServiceAssumption

LEMMA ReplyTypes ==
  ASSUME NEW f \in [Requests -> Reply], NEW r \in Requests
  PROVE  /\ \A info \in Infos : [f EXCEPT ![r].info = info] \in [Requests -> Reply]
         /\ \A n \in Int : [f EXCEPT ![r].capacity = n] \in [Requests -> Reply]
         /\ \A S \in SUBSET Volumes : [f EXCEPT ![r].entries = S] \in [Requests -> Reply]
BY DEF Reply

LEMMA DelegateKeeps ==
  ASSUME NEW r \in Requests, Delegate(r), DataTypes, Chained, Setting
  PROVE  /\ UNCHANGED <<reply, validated, fs>> /\ Cleared(r)
         /\ \/ UNCHANGED <<lvs, window>>
            \/ lvs' \subseteq Volumes /\ Watch /\ window' \in [Requests -> Span]
<1>1. phase[r] = "handler" /\ UNCHANGED <<reply, validated>>
  BY DEF Delegate, In
<1>2. CASE \E a \in {OK, "Internal"} : Answer(r, a) /\ UNCHANGED groupVars
  BY <1>1, <1>2 DEF Answer, groupVars, Cleared
<1>3. CASE /\ (\E v \in Volumes : Add(v)) \/ Delete(call[r].id)
           /\ UNCHANGED <<cur, todo>>
  <2>1. PICK v : (v \in Volumes /\ Add(v)) \/ Delete(v)
    BY <1>3
  <2>2. v \in Volumes
    BY <2>1 DEF Delete, DataTypes
  <2> QED BY <1>1, <1>3, <2>1, <2>2, GroupChange DEF Cleared
<1>4. CASE Panic(r) /\ UNCHANGED groupVars
  BY <1>1, <1>4 DEF Panic, groupVars, Cleared
<1> QED BY <1>2, <1>3, <1>4 DEF Delegate

LEMMA HandlerKeepsData ==
  ASSUME ServiceAssumption, Setting, Chained, DataTypes, NEW r \in Requests, HandlerStep(r)
  PROVE  DataTypes'
<1>1. ASSUME Cleared(r) PROVE todo' \in [Requests -> SUBSET Volumes]
  BY <1>1 DEF Cleared, DataTypes
<1>2. CASE PlainStep(r)
  BY <1>1, <1>2, PlainKeeps DEF DataTypes
<1>3. CASE InformStep(r)
  <2>1. reply' \in [Requests -> Reply]
    BY <1>3, InformKeeps, ReplyTypes DEF DataTypes, InfoOnly
  <2> QED BY <1>1, <1>3, <2>1, InformKeeps DEF DataTypes, InfoOnly
<1>4. CASE ListLogicalVolumeNames(r)
  <2>1. UNCHANGED <<reply, lvs>>
    BY <1>4 DEF ListLogicalVolumeNames
  <2>2. Cleared(r) \/ todo' = [todo EXCEPT ![r] = lvs]
    BY <1>4 DEF ListLogicalVolumeNames, ListNext, Answer, Cleared
  <2>3. window' = window \/ window' = [window EXCEPT ![r] = [always |-> lvs, ever |-> lvs]]
    BY <1>4 DEF ListLogicalVolumeNames
  <2>4. window' \in [Requests -> Span]
    BY <2>3 DEF DataTypes, Span
  <2>5. todo' \in [Requests -> SUBSET Volumes]
    BY <1>1, <2>2 DEF DataTypes
  <2> QED BY <2>1, <2>4, <2>5 DEF DataTypes
<1>5. CASE ListAttributes(r)
  <2>1. UNCHANGED <<lvs, window>>
    BY <1>5 DEF ListAttributes, groupVars
  <2>2. Cleared(r) \/ todo' = [todo EXCEPT ![r] = todo[r] \ {cur[r]}]
    BY <1>5 DEF ListAttributes, ListNext, Answer, Cleared
  <2>3. todo' \in [Requests -> SUBSET Volumes]
    BY <1>1, <2>2 DEF DataTypes
  <2>4. \/ reply' = reply
        \/ cur[r] \in lvs /\ reply' = [reply EXCEPT ![r].entries = @ \union {cur[r]}]
    BY <1>5 DEF ListAttributes
  <2>5. reply[r].entries \in SUBSET Volumes
    BY DEF DataTypes, Reply
  <2>6. reply' \in [Requests -> Reply]
    <3>1. CASE cur[r] \in lvs /\ reply' = [reply EXCEPT ![r].entries = @ \union {cur[r]}]
      <4>1. PICK S : S = reply[r].entries \union {cur[r]}
        OBVIOUS
      <4>2. S \in SUBSET Volumes /\ reply' = [reply EXCEPT ![r].entries = S]
        BY <2>5, <3>1, <4>1 DEF DataTypes
      <4> QED BY <4>2, ReplyTypes DEF DataTypes
    <3> QED BY <2>4, <3>1 DEF DataTypes
  <2> QED BY <2>1, <2>3, <2>6 DEF DataTypes
<1>6. CASE GetCapacity(r)
  <2>1. UNCHANGED <<lvs, window>> /\ Cleared(r)
    BY <1>6 DEF GetCapacity, groupVars, Cleared, Answer, Panic
  <2>2. reply' = reply \/ reply' = [reply EXCEPT ![r].capacity = BytesFree]
    BY <1>6 DEF GetCapacity
  <2>3. reply' \in [Requests -> Reply]
    BY <2>2, FreeIsNumber, ReplyTypes DEF DataTypes
  <2> QED BY <1>1, <2>1, <2>3 DEF DataTypes
<1>7. CASE ConfirmCapabilities(r)
  BY <1>1, <1>7 DEF ConfirmCapabilities, groupVars, Cleared, Answer, DataTypes
<1>8. CASE PublishDevice(r)
  <2>1. UNCHANGED <<reply, lvs, window>>
    BY <1>8 DEF PublishDevice
  <2>2. Cleared(r)
    BY <1>8 DEF PublishDevice, MountLocally, Published, Answer, Panic, Cleared
  <2> QED BY <1>1, <2>1, <2>2 DEF DataTypes
<1>9. CASE Delegate(r)
  BY <1>1, <1>9, DelegateKeeps DEF DataTypes
<1> QED BY <1>2, <1>3, <1>4, <1>5, <1>6, <1>7, <1>8, <1>9, StepCases

\* The other requests are not touched.
Untouched(o) ==
  /\ phase'[o] = phase[o] /\ step'[o] = step[o] /\ answer'[o] = answer[o]
  /\ reply'[o] = reply[o] /\ todo'[o] = todo[o]

LEMMA OthersUntouched ==
  ASSUME Setting, Chained, DataTypes, NEW r \in Requests, HandlerStep(r),
         NEW o \in Requests, o # r
  PROVE  Untouched(o)
<1>1. ChainTypes /\ InChain(r)
  BY DEF Chained
<1>2. HandlerKind(r)
  BY <1>1, HandlerMoves
<1>3. phase'[o] = phase[o] /\ step'[o] = step[o] /\ answer'[o] = answer[o]
  BY <1>1, <1>2 DEF ChainTypes, HandlerKind, Answers, Leaves, Validates, GoesOn, Go, Panics, Panic
<1>4. ASSUME Cleared(r) PROVE todo'[o] = todo[o]
  BY <1>4 DEF Cleared, DataTypes
<1>5. reply'[o] = reply[o] /\ todo'[o] = todo[o]
  <2>1. CASE PlainStep(r)
    BY <2>1, <1>4, PlainKeeps
  <2>2. CASE InformStep(r)
    <3>1. InfoOnly(r)
      BY <2>2, InformKeeps
    <3> QED BY <3>1, <1>4 DEF InfoOnly, DataTypes
  <2>3. CASE ListLogicalVolumeNames(r)
    <3>1. reply' = reply /\ (Cleared(r) \/ todo' = [todo EXCEPT ![r] = lvs])
      BY <2>3 DEF ListLogicalVolumeNames, ListNext, Answer, Cleared
    <3> QED BY <3>1, <1>4 DEF DataTypes
  <2>4. CASE ListAttributes(r)
    <3>1. Cleared(r) \/ todo' = [todo EXCEPT ![r] = todo[r] \ {cur[r]}]
      BY <2>4 DEF ListAttributes, ListNext, Answer, Cleared
    <3>2. \/ reply' = reply
          \/ reply' = [reply EXCEPT ![r].entries = @ \union {cur[r]}]
      BY <2>4 DEF ListAttributes
    <3> QED BY <3>1, <3>2, <1>4 DEF DataTypes
  <2>5. CASE GetCapacity(r)
    <3>1. Cleared(r) /\ (reply' = reply \/ reply' = [reply EXCEPT ![r].capacity = BytesFree])
      BY <2>5 DEF GetCapacity, Answer, Panic, Cleared
    <3> QED BY <3>1, <1>4 DEF DataTypes
  <2>6. CASE ConfirmCapabilities(r)
    BY <2>6, <1>4 DEF ConfirmCapabilities, Answer, Cleared
  <2>7. CASE PublishDevice(r)
    <3>1. reply' = reply
      BY <2>7 DEF PublishDevice
    <3>2. Cleared(r)
      BY <2>7 DEF PublishDevice, MountLocally, Published, Answer, Panic, Cleared
    <3> QED BY <3>1, <3>2, <1>4
  <2>8. CASE Delegate(r)
    BY <2>8, <1>4, DelegateKeeps
  <2> QED BY <2>1, <2>2, <2>3, <2>4, <2>5, <2>6, <2>7, <2>8, StepCases
<1> QED BY <1>3, <1>5 DEF Untouched

\* What the interceptors and the other hosts leave alone.
LEMMA InterceptorsKeep ==
  ASSUME Interceptors
  PROVE  UNCHANGED <<conf, killer, cur, todo, reply, validated, lvs, fs, window>>
BY DEF Interceptors, groupVars

LEMMA OtherHostsKeep ==
  ASSUME OtherHosts
  PROVE  UNCHANGED <<conf, killer, call, phase, pos, step, cur, answer, todo, reply, validated>>
BY DEF OtherHosts, handlerVars

-----------------------------------------------------------------------------
(* The validator comes first *)

SInv == Chained /\ DataTypes /\ \A r \in Requests : Passed(r)

LEMMA InitSInv == ASSUME ServiceAssumption, Setting, Init PROVE SInv
<1>1. DataTypes
  <2>1. NoReply \in Reply
    BY DEF NoReply, Reply, Infos
  <2>2. [always |-> {}, ever |-> {}] \in Span
    BY DEF Span
  <2> QED BY <2>1, <2>2 DEF Init, DataTypes, ServiceAssumption
<1>2. ASSUME NEW r \in Requests PROVE Passed(r)
  BY DEF Init, Passed, Early
<1> QED BY <1>1, <1>2, InitChained DEF SInv

LEMMA HandlerKeepsSInv ==
  ASSUME ServiceAssumption, Setting, SInv, NEW r \in Requests, HandlerStep(r),
         UNCHANGED <<conf, call, chainVars>>
  PROVE  SInv'
<1>1. Chained /\ DataTypes /\ ChainTypes /\ InChain(r) /\ Passed(r)
  BY DEF SInv, Chained
<1>2. phase[r] = "handler" /\ HandlerKind(r)
  BY <1>1, HandlerMoves
<1>3. ASSUME NEW o \in Requests PROVE Passed(o)'
  <2>1. CASE o # r
    <3>1. Untouched(o) /\ Passed(o)
      BY <1>1, <2>1, OthersUntouched DEF SInv
    <3> QED BY <3>1 DEF Untouched, Passed, Early
  <2>2. CASE o = r
    <3>1. CASE Answers(r)
      BY <1>1, <3>1, <2>2 DEF Answers, Leaves, Passed, Early, ChainTypes
    <3>2. CASE Validates(r)
      BY <1>1, <1>2, <3>2, <2>2 DEF Validates, Go, Passed, Early, ChainTypes
    <3>3. CASE GoesOn(r)
      <4>1. PICK s \in Later : Go(r, s) /\ (s = "qos" => Tags(r))
        BY <3>3 DEF GoesOn
      <4>2. step'[r] = s /\ phase'[r] = "handler" /\ step[r] # "validate"
        BY <1>1, <1>2, <3>3, <4>1 DEF GoesOn, Go, ChainTypes
      <4>3. Refusal(call[r], conf.removing, conf.proxy) = OK
        BY <1>1, <1>2, <4>2 DEF Passed
      <4>4. s \notin {"validate", "run"}
        BY <4>1 DEF Later
      <4> QED BY <2>2, <4>1, <4>2, <4>3, <4>4 DEF Passed, Early, Tags
    <3>4. CASE Panics(r)
      BY <1>1, <1>2, <3>4, <2>2 DEF Panics, Panic, Passed, Early, ChainTypes
    <3> QED BY <1>2, <3>1, <3>2, <3>3, <3>4 DEF HandlerKind
  <2> QED BY <2>1, <2>2
<1> QED BY <1>1, <1>3, HandlerKeepsChained, HandlerKeepsData DEF SInv

LEMMA InterceptorsKeepSInv ==
  ASSUME Setting, SInv, Interceptors PROVE SInv'
<1>1. Chained /\ ChainTypes /\ DataTypes
  BY DEF SInv, Chained
<1>2. UNCHANGED <<conf, cur, todo, reply, lvs, window>>
  BY InterceptorsKeep
<1>3. PICK r \in Requests : InterceptorStep(r)
  BY DEF Interceptors, InterceptorStep, Arrives
<1>4. Chained' /\ DataTypes'
  BY <1>1, <1>2, <1>3, InterceptorKeepsChained DEF DataTypes
<1>5. ASSUME NEW o \in Requests PROVE Passed(o)'
  <2> USE DEF Moves, Passed, Early
  <2>1. Passed(o)
    BY DEF SInv
  <2>2. CASE Arrives(r)
    BY <1>1, <1>2, <2>1, <2>2 DEF Arrives, Receive, ChainTypes
  <2>3. CASE SerialAcquire(r)
    <3>1. Moves(r, "down", 2) /\ step' = step /\ phase[r] = "down" /\ call' = call
      BY <1>1, <2>3, ChainMoves, AtSerial DEF SerialAcquire
    <3> QED BY <1>1, <1>2, <2>1, <3>1 DEF ChainTypes
  <2>4. CASE SerialRelease(r)
    <3>1. Moves(r, "done", 0) /\ step' = step /\ call' = call
      BY <1>1, <2>4, ChainMoves DEF SerialRelease
    <3> QED BY <1>1, <1>2, <2>1, <3>1 DEF ChainTypes
  <2>5. CASE MetricsTag(r)
    <3>1. /\ Moves(r, "handler", 3) /\ step' = [step EXCEPT ![r] = "validate"]
          /\ phase[r] = "down" /\ call' = call
      BY <1>1, <2>5, ChainMoves, AtMetrics DEF MetricsTag
    <3> QED BY <1>1, <1>2, <2>1, <3>1 DEF ChainTypes
  <2>6. CASE MetricsCount(r)
    <3>1. Moves(r, "up", 1) /\ step' = step /\ call' = call
      BY <1>1, <2>6, ChainMoves DEF MetricsCount
    <3> QED BY <1>1, <1>2, <2>1, <3>1 DEF ChainTypes
  <2> QED BY <1>3, <2>2, <2>3, <2>4, <2>5, <2>6 DEF InterceptorStep
<1> QED BY <1>4, <1>5 DEF SInv

LEMMA OtherHostsKeepSInv ==
  ASSUME Setting, ServiceAssumption, SInv, OtherHosts PROVE SInv'
<1>1. Chained /\ ChainTypes /\ DataTypes
  BY DEF SInv, Chained
<1>2. Chained'
  BY <1>1 DEF OtherHosts, handlerVars, chainVars, Chained, ChainTypes, InChain, Holds, Tagged
<1>3. UNCHANGED <<conf, call, phase, step, todo, reply>>
  BY OtherHostsKeep
<1>4. lvs' \subseteq Volumes /\ window' \in [Requests -> Span]
  <2>1. CASE \E v \in Volumes : Add(v) \/ Delete(v)
    BY <1>1, <2>1, GroupChange
  <2>2. CASE UNCHANGED <<lvs, window>>
    BY <1>1, <2>2 DEF DataTypes
  <2> QED BY <2>1, <2>2 DEF OtherHosts
<1>5. ASSUME NEW o \in Requests PROVE Passed(o)'
  <2>1. Passed(o)
    BY DEF SInv
  <2> QED BY <1>3, <2>1 DEF Passed, Early
<1> QED BY <1>1, <1>2, <1>3, <1>4, <1>5 DEF SInv, DataTypes

LEMMA StepSInv ==
  ASSUME ServiceAssumption, Setting, SInv, [Next]_vars PROVE SInv'
<1>1. CASE Interceptors
  BY <1>1, InterceptorsKeepSInv
<1>2. CASE Handlers
  <2>1. PICK r \in Requests : HandlerStep(r)
    BY <1>2 DEF Handlers, HandlerStep
  <2>2. UNCHANGED <<conf, call, chainVars>>
    BY <1>2 DEF Handlers
  <2> QED BY <2>1, <2>2, HandlerKeepsSInv
<1>3. CASE OtherHosts
  BY <1>3, OtherHostsKeepSInv
<1>4. CASE UNCHANGED vars
  <2>1. UNCHANGED <<conf, call, phase, pos, step, cur, answer, todo, reply, lock, scope,
                    counted, counters, lvs, window>>
    BY <1>4 DEF vars, handlerVars, chainVars, groupVars
  <2> QED BY <2>1 DEF SInv, Chained, ChainTypes, DataTypes, InChain, Holds, Tagged, Passed, Early
<1> QED BY <1>1, <1>2, <1>3, <1>4 DEF Next

LEMMA InvariantSInv == Setting => (Spec => []SInv)
<1> SUFFICES ASSUME Setting PROVE Spec => []SInv
  OBVIOUS
<1>1. Init => SInv
  BY InitSInv, ServiceAssumption
<1>2. SInv /\ [Next]_vars => SInv'
  BY StepSInv, ServiceAssumption
<1> QED BY <1>1, <1>2, PTL DEF Spec

-----------------------------------------------------------------------------
(* Panics *)

LEMMA ConfBoolean ==
  ASSUME Setting, ChainTypes
  PROVE  conf.removing \in BOOLEAN /\ conf.proxy \in BOOLEAN
<1>1. conf \in ConfigType
  BY DEF Setting, ChainTypes
<1> QED BY <1>1 DEF ConfigType

LEMMA Vetted ==
  ASSUME Setting, SInv, NEW r \in Requests, phase[r] = "handler", step[r] # "validate"
  PROVE  /\ conf.removing => call[r].method \notin Guarded
         /\ call[r].method = "NodePublishVolume" =>
              /\ call[r].caps # <<>> /\ call[r].id # ""
              /\ validateVolumeCapability(call[r].caps[1], FALSE, call[r].readonly) = OK
         /\ call[r].method = "ValidateVolumeCapabilities" =>
              call[r].id # "" /\ validateVolumeCapabilities(call[r].caps) = OK
         /\ call[r].method = "GetCapacity" => validateGetCapacityRequest(call[r]) = OK
<1>1. ChainTypes /\ InChain(r) /\ Passed(r)
  BY DEF SInv, Chained
<1>2. Refusal(call[r], conf.removing, conf.proxy) = OK
  BY <1>1 DEF Passed
<1>3. call[r] \in CallType
  BY <1>1 DEF InChain, Setting
<1>4. conf.removing \in BOOLEAN /\ conf.proxy \in BOOLEAN
  BY <1>1, ConfBoolean
<1>5. PICK q : q = call[r]
  OBVIOUS
<1>6. PICK rm, px : rm = conf.removing /\ px = conf.proxy
  OBVIOUS
<1>7. q \in CallType /\ rm \in BOOLEAN /\ px \in BOOLEAN /\ Refusal(q, rm, px) = OK
  BY <1>2, <1>3, <1>4, <1>5, <1>6
<1>8. /\ rm => q.method \notin Guarded
      /\ q.method = "ValidateVolumeCapabilities" =>
           q.id # "" /\ validateVolumeCapabilities(q.caps) = OK
      /\ q.method = "GetCapacity" => validateGetCapacityRequest(q) = OK
      /\ q.method = "NodePublishVolume" => validateNodePublishVolumeRequest(q, rm, px) = OK
  BY <1>7, RefusalIs
<1>9. validateNodePublishVolumeRequest(q, rm, px) = OK =>
        /\ q.caps # <<>> /\ q.id # ""
        /\ validateVolumeCapability(q.caps[1], FALSE, q.readonly) = OK
  BY <1>7, NodePublishVolumeIs
<1> QED BY <1>5, <1>6, <1>8, <1>9

\* An event is counted or there is none.
LEMMA EventsCount ==
  ASSUME events \in Nat, [Next]_vars PROVE events' \in Nat
<1>1. CASE Interceptors \/ UNCHANGED vars
  BY <1>1 DEF Interceptors, vars
<1>2. CASE Handlers
  <2>1. PICK r \in Requests : HandlerStep(r)
    BY <1>2 DEF Handlers, HandlerStep
  <2>2. UNCHANGED events \/ Event
    <3> USE DEF Fault, NoFault, Fails
    <3>1. CASE InformStep(r)
      BY <3>1 DEF InformStep, GetCapabilities, GetPluginInfo, NodeGetInfo, Inform
    <3>2. CASE \/ ValidateRequest(r) \/ NotImplemented(r) \/ NoTenant(r) \/ ListNothing(r)
               \/ NoCapacity(r) \/ NoDatapath(r) \/ Delegate(r) \/ NilVolumeGroup(r)
      BY <3>2, Zenon DEF ValidateRequest, NotImplemented, NoTenant, ListNothing, NoCapacity,
           NoDatapath, Delegate, NilVolumeGroup
    <3>3. CASE ReportVolumes(r) \/ ReportBytes(r) \/ ListLogicalVolumeNames(r)
      BY <3>3, Zenon DEF ReportVolumes, ReportBytes, ListLogicalVolumeNames
    <3>4. CASE ListLookup(r) \/ ListAttributes(r) \/ GetCapacity(r)
      BY <3>4, Zenon DEF ListLookup, ListAttributes, GetCapacity
    <3>5. CASE Lookup(r) \/ Login(r) \/ ConfirmCapabilities(r)
      BY <3>5, Zenon DEF Lookup, Login, ConfirmCapabilities
    <3>6. CASE TagQos(r) \/ NodeUnpublishVolume(r)
      BY <3>6, Zenon DEF TagQos, NodeUnpublishVolume
    <3>7. CASE PublishDevice(r)
      BY <3>7, Zenon DEF PublishDevice
    <3>8. CASE ControllerPublishVolume(r)
      <4>1. StageIscsiTarget(r) => UNCHANGED events \/ Event
        BY Zenon DEF StageIscsiTarget
      <4>2. JbofStageIscsiTargets(r) => UNCHANGED events \/ Event
        BY Zenon DEF JbofStageIscsiTargets
      <4> QED BY <3>8, <4>1, <4>2, Zenon DEF ControllerPublishVolume
    <3> QED BY <2>1, <3>1, <3>2, <3>3, <3>4, <3>5, <3>6, <3>7, <3>8 DEF HandlerStep, InformStep
  <2> QED BY <2>2 DEF Event
<1>3. CASE OtherHosts
  <2>1. Event
    BY <1>3 DEF OtherHosts
  <2> QED BY <2>1 DEF Event
<1> QED BY <1>1, <1>2, <1>3 DEF Next

\* A process that has ended does nothing.
LEMMA DeadStays == ASSUME Chained, [Next]_vars, ~Alive PROVE UNCHANGED vars
<1>1. ~Interceptors
  <2> SUFFICES ASSUME Interceptors PROVE FALSE
    OBVIOUS
  <2>1. PICK r \in Requests : InterceptorStep(r)
    BY DEF Interceptors, InterceptorStep, Arrives
  <2> QED BY <2>1 DEF InterceptorStep, Arrives, Receive, SerialAcquire, SerialRelease,
           MetricsTag, MetricsCount, At
<1>2. ~Handlers
  <2> SUFFICES ASSUME Handlers PROVE FALSE
    OBVIOUS
  <2>1. PICK r \in Requests : HandlerStep(r)
    BY DEF Handlers, HandlerStep
  <2> QED BY <2>1, HandlerMoves DEF Chained
<1>3. ~OtherHosts
  BY DEF OtherHosts
<1> QED BY <1>1, <1>2, <1>3 DEF Next

LEMMA StepPanics ==
  ASSUME Setting, SInv, events \in Nat, OnlyKnownPanics, [Next]_vars PROVE OnlyKnownPanics'
<1>1. CASE ~Alive
  <2>1. UNCHANGED <<killer, conf, events, lvs>>
    BY <1>1, DeadStays DEF SInv, vars, groupVars
  <2> QED BY <2>1 DEF OnlyKnownPanics, Alive
<1>2. CASE Alive /\ killer' = killer
  BY <1>2 DEF OnlyKnownPanics, Alive
<1>3. CASE Alive /\ killer' # killer
  <2>1. Handlers
    BY <1>3, InterceptorsKeep, OtherHostsKeep DEF Next, vars
  <2>2. PICK r \in Requests : HandlerStep(r)
    BY <2>1 DEF Handlers, HandlerStep
  <2>3. UNCHANGED conf
    BY <2>1 DEF Handlers
  <2>4. ChainTypes /\ InChain(r) /\ Passed(r)
    BY DEF SInv, Chained
  <2>5. phase[r] = "handler" /\ HandlerKind(r)
    BY <2>2, <2>4, HandlerMoves
  <2>6. step[r] # "validate" /\ MayPanic(r) /\ killer' = call[r]
    BY <1>3, <2>5 DEF HandlerKind, Answers, Leaves, Validates, GoesOn, Go, Panics, Panic
  <2>7. conf.removing => call[r].method \notin Guarded
    BY <2>5, <2>6, Vetted
  <2>8. ASSUME Fault PROVE events' > 0
    BY <2>8 DEF Fault, Event
  <2>9. ASSUME UNCHANGED lvs, Fails(call[r].id) PROVE events' > 0 \/ call[r].id \notin lvs'
    BY <2>8, <2>9 DEF Fails
  <2>10. CASE NoTenant(r)
    BY <2>3, <2>6, <2>10 DEF NoTenant, In, OnlyKnownPanics
  <2>11. CASE GetCapacity(r)
    <3>1. call[r].method = "GetCapacity" /\ ~conf.removing /\ call[r].mirrors = "max"
      BY <1>3, <2>11 DEF GetCapacity, NoCopies, In, Answer, Go
    <3> QED BY <2>3, <2>6, <3>1 DEF OnlyKnownPanics
  <2>12. CASE Delegate(r)
    <3>1. call[r].method = "CreateVolume" /\ call[r].mirrors = "max"
      BY <1>3, <2>12 DEF Delegate, NoCopies, Answer, Go
    <3> QED BY <2>3, <2>6, <2>7, <3>1 DEF OnlyKnownPanics, Guarded
  <2>13. CASE PublishDevice(r)
    <3>1. In(r, "device", {"NodePublishVolume"})
      BY <2>13 DEF PublishDevice
    <3>2. validateVolumeCapability(call[r].caps[1], FALSE, call[r].readonly) = OK
      BY <3>1, Vetted DEF In
    <3>3. call[r].readonly \in BOOLEAN
      <4>1. call[r] \in CallType
        BY <2>4, <2>5 DEF InChain, Setting
      <4> QED BY <4>1 DEF CallType
    <3>4. call[r].caps[1].type # "none"
      BY <3>2, <3>3, CapabilityTaken
    <3>5. killer' = killer
      BY <2>13, <3>4 DEF PublishDevice, MountLocally, Published, Answer, Go
    <3> QED BY <1>3, <3>5
  <2>14. CASE TagQos(r)
    <3>1. /\ In(r, "qos", {"NodePublishVolume"}) /\ UNCHANGED lvs
          /\ Answer(r, OK) \/ Fails(call[r].id)
      BY <2>14 DEF TagQos, groupVars
    <3>2. Fails(call[r].id) /\ call[r].method = "NodePublishVolume"
      BY <1>3, <3>1 DEF In, Answer
    <3>3. call[r].qos /\ ~conf.proxy
      BY <2>4, <3>1 DEF In, Passed
    <3>4. ~conf.removing
      BY <2>7, <3>2 DEF Guarded
    <3>5. events' > 0 \/ call[r].id \notin lvs'
      BY <2>9, <3>1, <3>2
    <3> QED BY <2>3, <2>6, <3>2, <3>3, <3>4, <3>5 DEF OnlyKnownPanics
  <2>15. CASE NodeUnpublishVolume(r)
    <3>1. /\ call[r].method = "NodeUnpublishVolume" /\ UNCHANGED lvs
          /\ Fails(call[r].id)
      BY <1>3, <2>15 DEF NodeUnpublishVolume, In, Answer, groupVars
    <3>2. ~conf.removing
      BY <2>7, <3>1 DEF Guarded
    <3>3. events' > 0 \/ call[r].id \notin lvs'
      BY <2>9, <3>1
    <3> QED BY <2>3, <2>6, <3>1, <3>2, <3>3 DEF OnlyKnownPanics
  <2>16. CASE ControllerPublishVolume(r)
    <3>1. /\ call[r].method = "ControllerPublishVolume"
          /\ \/ call[r].context = "nil"
             \/ call[r].context \in {"iscsi", "jbofis"} /\ Fault
      BY <1>3, <2>16 DEF ControllerPublishVolume, StageIscsiTarget, JbofStageIscsiTargets,
           In, Answer
    <3> QED BY <2>6, <2>8, <3>1 DEF OnlyKnownPanics
  <2>17. CASE NilVolumeGroup(r)
    <3>1. ~conf.found
      BY <2>17 DEF NilVolumeGroup
    <3>2. conf.removing =>
            \/ call[r].method = "ControllerPublishVolume" /\ call[r].context = "iscsi"
            \/ call[r].method = "ControllerUnpublishVolume"
      BY <2>7, <2>17 DEF NilVolumeGroup, In, Guarded
    <3> QED BY <2>3, <2>6, <3>1, <3>2 DEF OnlyKnownPanics
  <2> QED BY <2>6, <2>10, <2>11, <2>12, <2>13, <2>14, <2>15, <2>16, <2>17 DEF MayPanic
<1> QED BY <1>1, <1>2, <1>3

\* No request ends the process but those OnlyKnownPanics names: with the group
\* found and every command working, three methods and what they ask for; after a
\* command that failed or a volume that is gone, the four handlers that use what
\* it should have returned; without the group, those that use it, of which the
\* validators leave two in the removing mode.  No capability reaches the panic in
\* the switch of NodePublishVolume.
THEOREM PanicsAreKnown == Setting => (Spec => []OnlyKnownPanics)
<1> SUFFICES ASSUME Setting PROVE Spec => []OnlyKnownPanics
  OBVIOUS
<1>1. Spec => []SInv
  BY InvariantSInv
<1>2. Init => OnlyKnownPanics /\ events \in Nat
  <2>1. Init => events = 0 /\ Alive
    BY DEF Init, Alive
  <2>2. Alive => OnlyKnownPanics
    BY DEF OnlyKnownPanics
  <2> QED BY <2>1, <2>2
<1>3. SInv /\ events \in Nat /\ OnlyKnownPanics /\ [Next]_vars => OnlyKnownPanics'
  BY StepPanics
<1>4. events \in Nat /\ [Next]_vars => (events \in Nat)'
  BY EventsCount
<1> QED BY <1>1, <1>2, <1>3, <1>4, PTL DEF Spec

-----------------------------------------------------------------------------
(* Capacity that is offered *)

\* The list that the validator of GetCapacity and its handler let pass is one
\* that CreateVolume takes.
LEMMA OfferedIsTaken ==
  ASSUME NEW q \in CallType, validateGetCapacityRequest(q) = OK, ~SomeFsUnsupported(q),
         q.caps # <<>>
  PROVE  validateVolumeCapabilities(q.caps) = OK
<1>1. q.caps \in Seq(Capability)
  BY DEF CallType
<1>2. \A i \in DOMAIN q.caps : validateVolumeCapability(q.caps[i], TRUE, FALSE) = OK
  BY <1>1, EachTaken DEF validateGetCapacityRequest
<1>3. ASSUME NEW i \in DOMAIN q.caps PROVE validateVolumeCapability(q.caps[i], FALSE, FALSE) = OK
  <2>1. PICK c : c = q.caps[i]
    OBVIOUS
  <2>2. validateVolumeCapability(c, TRUE, FALSE) = OK
    BY <1>2, <2>1
  <2>3. ~(c.type = "mount" /\ c.fs \notin SupportedFilesystems)
    BY <2>1 DEF SomeFsUnsupported
  <2>4. validateVolumeCapability(c, FALSE, FALSE) = OK
    BY <2>2, <2>3, CapabilityTaken
  <2> QED BY <2>1, <2>4
<1> QED BY <1>1, <1>3, ListTaken

LEMMA NoReplyIs == NoReply.capacity = 0 /\ NoReply.entries = {}
BY DEF NoReply

AllOffered == \A r \in Requests : Offered(r)

LEMMA StepOffered ==
  ASSUME Setting, ServiceAssumption, SInv, AllOffered, [Next]_vars PROVE AllOffered'
<1> SUFFICES ASSUME NEW o \in Requests PROVE Offered(o)'
  BY DEF AllOffered
<1>1. Offered(o) /\ Chained /\ ChainTypes /\ DataTypes /\ InChain(o) /\ Passed(o)
  BY DEF AllOffered, SInv, Chained
<1>2. ASSUME call'[o] = call[o], reply'[o].capacity = reply[o].capacity, conf' = conf
      PROVE  Offered(o)'
  BY <1>1, <1>2 DEF Offered
<1>3. CASE Interceptors
  <2>1. UNCHANGED <<conf, reply>>
    BY <1>3, InterceptorsKeep
  <2>2. PICK r \in Requests : InterceptorStep(r)
    BY <1>3 DEF Interceptors, InterceptorStep, Arrives
  <2>3. CASE Arrives(r)
    <3>1. PICK q \in Calls : Receive(r, q)
      BY <2>3 DEF Arrives
    <3>2. CASE o = r
      <4>1. reply'[o].capacity = 0
        <5>1. phase[o] = "new"
          BY <3>1, <3>2 DEF Receive
        <5>2. reply[o] = NoReply
          BY <1>1, <5>1 DEF Passed, Early
        <5> QED BY <2>1, <5>2, NoReplyIs
      <4> QED BY <4>1 DEF Offered
    <3>3. CASE o # r
      <4>1. call'[o] = call[o]
        BY <1>1, <3>1, <3>3 DEF Receive, ChainTypes
      <4> QED BY <1>2, <2>1, <4>1
    <3> QED BY <3>2, <3>3
  <2>4. CASE SerialAcquire(r) \/ SerialRelease(r) \/ MetricsTag(r) \/ MetricsCount(r)
    <3>1. call' = call
      BY <2>4 DEF SerialAcquire, SerialRelease, MetricsTag, MetricsCount
    <3> QED BY <1>2, <2>1, <3>1
  <2> QED BY <2>2, <2>3, <2>4 DEF InterceptorStep
<1>4. CASE Handlers
  <2>1. PICK r \in Requests : HandlerStep(r)
    BY <1>4 DEF Handlers, HandlerStep
  <2>2. UNCHANGED <<conf, call>>
    BY <1>4 DEF Handlers
  <2>3. CASE o # r
    BY <1>1, <1>2, <2>1, <2>2, <2>3, OthersUntouched DEF Untouched
  <2>4. CASE o = r
    <3>1. CASE GetCapacity(r)
      <4>1. /\ In(r, "run", {"GetCapacity"})
            /\ ~conf.removing /\ ~SomeFsUnsupported(call[r])
        BY <3>1 DEF GetCapacity
      <4>2. validateGetCapacityRequest(call[r]) = OK
        BY <4>1, Vetted DEF In
      <4>3. call[r] \in CallType
        BY <1>1, <2>4, <4>1 DEF In, InChain, Setting
      <4>4. call[r].caps # <<>> => validateVolumeCapabilities(call[r].caps) = OK
        BY <4>1, <4>2, <4>3, OfferedIsTaken
      <4> QED BY <2>2, <2>4, <4>1, <4>4 DEF Offered
    <3>2. CASE PlainStep(r)
      BY <1>2, <2>2, <3>2, PlainKeeps
    <3>3. CASE InformStep(r)
      <4>1. reply'[o].capacity = reply[o].capacity
        BY <1>1, <2>4, <3>3, InformKeeps DEF InfoOnly, DataTypes, Reply
      <4> QED BY <1>2, <2>2, <4>1
    <3>4. CASE ListAttributes(r)
      <4>1. \/ reply' = reply
            \/ reply' = [reply EXCEPT ![r].entries = @ \union {cur[r]}]
        BY <3>4 DEF ListAttributes
      <4>2. reply'[o].capacity = reply[o].capacity
        BY <1>1, <2>4, <4>1 DEF DataTypes, Reply
      <4> QED BY <1>2, <2>2, <4>2
    <3>5. CASE \/ ListLogicalVolumeNames(r) \/ ConfirmCapabilities(r)
               \/ PublishDevice(r) \/ Delegate(r)
      <4>1. reply' = reply
        BY <3>5 DEF ListLogicalVolumeNames, ConfirmCapabilities, PublishDevice, Delegate
      <4> QED BY <1>2, <2>2, <4>1
    <3> QED BY <2>1, <3>1, <3>2, <3>3, <3>4, <3>5, StepCases
  <2> QED BY <2>3, <2>4
<1>5. CASE OtherHosts
  BY <1>2, <1>5, OtherHostsKeep
<1>6. CASE UNCHANGED vars
  BY <1>2, <1>6 DEF vars, handlerVars
<1> QED BY <1>3, <1>4, <1>5, <1>6 DEF Next

\* Capacity that GetCapacity offers for a list of capabilities is capacity in
\* which CreateVolume makes a volume with that list: the handler makes up for
\* the filesystem that its validator lets pass, and nothing is offered in the
\* removing mode.
THEOREM OffersAreCreatable == Setting => (Spec => []OfferedIsCreatable)
<1> SUFFICES ASSUME Setting PROVE Spec => []OfferedIsCreatable
  OBVIOUS
<1>1. Spec => []SInv
  BY InvariantSInv
<1>2. Init => AllOffered
  <2> SUFFICES ASSUME Init, NEW r \in Requests PROVE Offered(r)
    BY DEF AllOffered
  <2>1. reply[r] = NoReply
    BY DEF Init
  <2> QED BY <2>1, NoReplyIs DEF Offered
<1>3. SInv /\ AllOffered /\ [Next]_vars => AllOffered'
  BY StepOffered, ServiceAssumption
<1>4. AllOffered => OfferedIsCreatable
  BY DEF AllOffered, Offered, OfferedIsCreatable
<1> QED BY <1>1, <1>2, <1>3, <1>4, PTL DEF Spec

-----------------------------------------------------------------------------
(* Listings *)

AllListing == \A r \in Requests : Listing(r)

\* How a change of the volume group, or none, shows in a request's window.
Observes(o) ==
  \/ UNCHANGED lvs /\ window'[o] = window[o]
  \/ /\ phase[o] = "handler" /\ step[o] \in {"lookup", "attributes"}
     /\ window'[o] = [always |-> window[o].always \intersect lvs',
                      ever |-> window[o].ever \union lvs']
  \/ /\ ~(phase[o] = "handler" /\ step[o] \in {"lookup", "attributes"})
     /\ window'[o] = window[o]

LEMMA WatchObserves ==
  ASSUME Watch, NEW o \in Requests PROVE Observes(o)
BY DEF Watch, Observes

LEMMA ListingKept ==
  ASSUME NEW o \in Requests, Listing(o), Observes(o), UNCHANGED conf, call'[o] = call[o],
         Untouched(o)
  PROVE  Listing(o)'
<1>1. CASE UNCHANGED lvs /\ window'[o] = window[o]
  BY <1>1 DEF Listing, Untouched
<1>2. CASE /\ phase[o] = "handler" /\ step[o] \in {"lookup", "attributes"}
           /\ window'[o] = [always |-> window[o].always \intersect lvs',
                            ever |-> window[o].ever \union lvs']
  <2>1. /\ window'[o].always = window[o].always \intersect lvs'
        /\ window'[o].ever = window[o].ever \union lvs'
    BY <1>2
  <2> QED BY <1>2, <2>1 DEF Listing, Untouched
<1>3. CASE /\ ~(phase[o] = "handler" /\ step[o] \in {"lookup", "attributes"})
           /\ window'[o] = window[o]
  BY <1>3 DEF Listing, Untouched
<1> QED BY <1>1, <1>2, <1>3 DEF Observes

LEMMA HandlerObserved ==
  ASSUME Setting, Chained, DataTypes, NEW r \in Requests, HandlerStep(r),
         NEW o \in Requests, o # r
  PROVE  Observes(o)
<1>1. ASSUME UNCHANGED <<lvs, window>> PROVE Observes(o)
  BY <1>1 DEF Observes
<1>2. CASE PlainStep(r)
  BY <1>1, <1>2, PlainKeeps
<1>3. CASE InformStep(r)
  BY <1>1, <1>3, InformKeeps DEF InfoOnly
<1>4. CASE ListLogicalVolumeNames(r)
  <2>1. lvs' = lvs /\ (window' = window \/ window' = [window EXCEPT ![r] = [always |-> lvs, ever |-> lvs]])
    BY <1>4 DEF ListLogicalVolumeNames
  <2> QED BY <2>1 DEF Observes, DataTypes
<1>5. CASE ListAttributes(r) \/ GetCapacity(r) \/ ConfirmCapabilities(r) \/ PublishDevice(r)
  BY <1>1, <1>5 DEF ListAttributes, GetCapacity, ConfirmCapabilities, PublishDevice, groupVars
<1>6. CASE Delegate(r)
  BY <1>1, <1>6, DelegateKeeps, WatchObserves
<1> QED BY <1>2, <1>3, <1>4, <1>5, <1>6, StepCases

\* The step of a request's own handler.
LEMMA OwnListing ==
  ASSUME Setting, SInv, NEW r \in Requests, Listing(r), HandlerStep(r), UNCHANGED <<conf, call>>
  PROVE  Listing(r)'
<1> DEFINE lists == call[r].method = "ListVolumes" /\ ~conf.removing
           reported == step[r] \in {"report", "bytes"}
<1>1. ChainTypes /\ DataTypes /\ InChain(r) /\ Passed(r)
  BY DEF SInv, Chained
<1>2. phase[r] = "handler" /\ HandlerKind(r)
  BY <1>1, <1>1, HandlerMoves
<1>3. answer[r] = "none" /\ answer[r] # OK
  BY <1>1, <1>2 DEF InChain, OK
<1>4. ASSUME NEW a, Answer(r, a), UNCHANGED <<reply, window>>, a = OK /\ lists => reported
      PROVE  Listing(r)'
  <2>1. phase'[r] = "up" /\ answer'[r] = a
    <3>1. Leaves(r, a)
      BY <1>1, <1>2, <1>4, AnswerLeaves
    <3> QED BY <1>1, <3>1 DEF Leaves, ChainTypes
  <2> QED BY <1>2, <1>4, <2>1 DEF Listing
<1>5. ASSUME Panic(r), UNCHANGED <<reply, window, lvs>> PROVE Listing(r)'
  BY <1>5 DEF Listing, Panic
<1>6. ASSUME NEW s, Go(r, s), s \notin {"lookup", "attributes"},
             s \in {"report", "bytes"} /\ lists => reported, UNCHANGED <<reply, window>>
      PROVE  Listing(r)'
  <2>1. answer'[r] = answer[r] /\ phase'[r] = phase[r] /\ step'[r] = s
    BY <1>1, <1>6 DEF Go, ChainTypes
  <2> QED BY <1>2, <1>3, <1>6, <2>1 DEF Listing
<1>7. CASE ValidateRequest(r)
  <2>1. step[r] = "validate" /\ UNCHANGED <<reply, window>>
    BY <1>7 DEF ValidateRequest, groupVars
  <2>2. (\E a : a # OK /\ Answer(r, a)) \/ Go(r, "run")
    BY <1>7 DEF ValidateRequest
  <2> QED BY <2>1, <2>2, <1>4, <1>6
<1>8. CASE NotImplemented(r)
  <2>1. "ErrCallNotImplemented" # OK
    BY DEF OK
  <2> QED BY <1>4, <1>8, <2>1 DEF NotImplemented, groupVars
<1>9. CASE NoTenant(r) \/ NilVolumeGroup(r)
  BY <1>5, <1>9 DEF NoTenant, NilVolumeGroup, groupVars
<1>10. CASE ReportVolumes(r)
  <2>1. reported /\ UNCHANGED <<reply, window>> /\ (Answer(r, OK) \/ Go(r, "bytes"))
    BY <1>10 DEF ReportVolumes, In, groupVars
  <2> QED BY <2>1, <1>4, <1>6
<1>11. CASE ReportBytes(r)
  <2>1. reported /\ UNCHANGED <<reply, window>> /\ Answer(r, OK)
    BY <1>11 DEF ReportBytes, In, groupVars
  <2> QED BY <2>1, <1>4
<1>12. CASE ListNothing(r)
  <2>1. /\ UNCHANGED <<reply, window>>
        /\ (conf.removing /\ Answer(r, OK)) \/ Answer(r, "Aborted")
    BY <1>12 DEF ListNothing, groupVars
  <2>2. "Aborted" # OK
    BY DEF OK
  <2> QED BY <2>1, <2>2, <1>4
<1>13. CASE ListLookup(r)
  <2>1. UNCHANGED <<reply, window, lvs>> /\ step[r] = "lookup"
    BY <1>13 DEF ListLookup, In, groupVars
  <2>2. CASE Answer(r, "ErrVolumeNotFound")
    <3>1. "ErrVolumeNotFound" # OK
      BY DEF OK
    <3> QED BY <2>1, <2>2, <3>1, <1>4
  <2>3. CASE Go(r, "attributes") /\ UNCHANGED todo
    <3>1. answer'[r] = answer[r] /\ phase'[r] = phase[r] /\ step'[r] = "attributes"
      BY <1>1, <2>3 DEF Go, ChainTypes
    <3> QED BY <1>2, <1>3, <2>1, <2>3, <3>1 DEF Listing
  <2> QED BY <1>13, <2>2, <2>3 DEF ListLookup
<1>14. CASE NoCapacity(r)
  <2>1. UNCHANGED <<reply, window>> /\ ~lists /\ Answer(r, OK)
    BY <1>14 DEF NoCapacity, In, groupVars
  <2> QED BY <2>1, <1>4
<1>15. CASE Lookup(r) \/ Login(r) \/ NoDatapath(r)
  <2>1. /\ UNCHANGED <<reply, window>>
        /\ Go(r, "device") \/ Answer(r, "ErrVolumeNotFound") \/ Answer(r, "Internal")
    BY <1>15 DEF Lookup, Login, NoDatapath, groupVars
  <2>2. "ErrVolumeNotFound" # OK /\ "Internal" # OK
    BY DEF OK
  <2> QED BY <2>1, <2>2, <1>4, <1>6
<1>16. CASE InformStep(r)
  <2>1. ~lists
    BY <1>16 DEF InformStep, GetCapabilities, GetPluginInfo, NodeGetInfo, In, Static
  <2>2. \E a : Answer(r, a)
    BY <1>16 DEF InformStep, GetCapabilities, GetPluginInfo, NodeGetInfo, Inform
  <2>3. phase'[r] = "up"
    BY <1>1, <1>2, <2>2, AnswerLeaves DEF Leaves, ChainTypes
  <2> QED BY <2>1, <2>3 DEF Listing
<1>17. CASE ListLogicalVolumeNames(r)
  <2>1. step[r] = "run" /\ UNCHANGED <<reply, lvs>>
    BY <1>17 DEF ListLogicalVolumeNames, In
  <2>2. CASE Answer(r, "Internal") /\ UNCHANGED window
    <3>1. "Internal" # OK
      BY DEF OK
    <3> QED BY <2>1, <2>2, <3>1, <1>4
  <2>3. CASE /\ ListNext(r, lvs)
             /\ window' = [window EXCEPT ![r] = [always |-> lvs, ever |-> lvs]]
    <3>1. reply'[r].entries = {}
      BY <1>1, <1>2, <2>1, NoReplyIs DEF Passed, Early
    <3>2. window'[r].always = lvs /\ window'[r].ever = lvs /\ todo'[r] = lvs
      BY <1>1, <2>3 DEF DataTypes, ListNext
    <3>3. answer'[r] = answer[r] /\ phase'[r] = phase[r]
          /\ step'[r] = IF lvs = {} THEN "report" ELSE "lookup"
      BY <1>1, <2>3 DEF ListNext, Go, ChainTypes
    <3> QED BY <1>2, <1>3, <2>1, <3>1, <3>2, <3>3 DEF Listing
  <2> QED BY <1>17, <2>2, <2>3 DEF ListLogicalVolumeNames
<1>18. CASE ListAttributes(r)
  <2>1. step[r] = "attributes" /\ UNCHANGED <<lvs, window>>
    BY <1>18 DEF ListAttributes, In, groupVars
  <2>2. CASE Answer(r, "Internal") /\ UNCHANGED reply
    <3>1. "Internal" # OK
      BY DEF OK
    <3> QED BY <2>1, <2>2, <3>1, <1>4
  <2>3. CASE /\ cur[r] \in lvs
             /\ reply' = [reply EXCEPT ![r].entries = @ \union {cur[r]}]
             /\ ListNext(r, todo[r] \ {cur[r]})
    <3>1. reply'[r].entries = reply[r].entries \union {cur[r]}
      BY <1>1, <2>3 DEF DataTypes, Reply
    <3>2. todo'[r] = todo[r] \ {cur[r]}
      BY <1>1, <2>3 DEF DataTypes, ListNext
    <3>3. answer'[r] = answer[r] /\ phase'[r] = phase[r]
          /\ step'[r] = IF todo[r] \ {cur[r]} = {} THEN "report" ELSE "lookup"
      BY <1>1, <2>3 DEF ListNext, Go, ChainTypes
    <3>4. /\ window[r].always \subseteq reply[r].entries \union todo[r]
          /\ reply[r].entries \subseteq window[r].ever /\ lvs \subseteq window[r].ever
      BY <1>2, <2>1 DEF Listing
    <3>5. /\ window[r].always \subseteq reply'[r].entries \union todo'[r]
          /\ reply'[r].entries \subseteq window[r].ever
      BY <2>3, <3>1, <3>2, <3>4
    <3>6. todo'[r] = {} \/ step'[r] = "lookup"
      BY <3>2, <3>3
    <3>7. step'[r] = "report" => window[r].always \subseteq reply'[r].entries
      BY <3>5, <3>6
    <3>8. step'[r] \in {"report", "lookup"} /\ answer'[r] # OK
      BY <1>3, <3>3
    <3> QED BY <2>1, <3>4, <3>5, <3>7, <3>8 DEF Listing
  <2> QED BY <1>18, <2>2, <2>3 DEF ListAttributes
<1>19. CASE GetCapacity(r)
  <2>1. ~lists
    BY <1>19 DEF GetCapacity, In
  <2>2. Go(r, "report") \/ Answer(r, "Internal") \/ (Panic(r) /\ UNCHANGED <<reply, window, lvs>>)
    BY <1>19 DEF GetCapacity, groupVars
  <2>3. CASE Go(r, "report") \/ Answer(r, "Internal")
    <3>1. phase'[r] = "up" \/ step'[r] = "report"
      BY <1>1, <1>2, <2>3, AnswerLeaves DEF Leaves, Go, ChainTypes
    <3> QED BY <2>1, <3>1 DEF Listing
  <2> QED BY <2>2, <2>3, <1>5
<1>20. CASE ConfirmCapabilities(r) \/ PublishDevice(r)
  <2>1. ~lists /\ UNCHANGED <<reply, window, lvs>>
    BY <1>20 DEF ConfirmCapabilities, PublishDevice, In, groupVars
  <2>2. Panic(r) \/ Go(r, "qos") \/ \E a : Answer(r, a)
    BY <1>20 DEF ConfirmCapabilities, PublishDevice, MountLocally, Published
  <2> QED BY <2>1, <2>2, <1>4, <1>5, <1>6
<1>21. CASE Delegate(r)
  <2>1. ~lists
    BY <1>21 DEF Delegate, In, Delegated
  <2>2. \/ Go(r, "report") \/ \E a : Answer(r, a)
        \/ Panic(r) /\ UNCHANGED <<reply, window, lvs>>
    BY <1>21 DEF Delegate, groupVars
  <2>3. CASE Go(r, "report") \/ \E a : Answer(r, a)
    <3>1. phase'[r] = "up" \/ step'[r] = "report"
      BY <1>1, <1>2, <2>3, AnswerLeaves DEF Leaves, Go, ChainTypes
    <3> QED BY <2>1, <3>1 DEF Listing
  <2> QED BY <2>2, <2>3, <1>5
<1>22. CASE TagQos(r) \/ ControllerPublishVolume(r) \/ NodeUnpublishVolume(r)
  <2>1. ~lists /\ UNCHANGED <<reply, window, lvs>>
    BY <1>22 DEF TagQos, ControllerPublishVolume, NodeUnpublishVolume, In, groupVars
  <2>2. Panic(r) \/ \E a : Answer(r, a)
    BY <1>22 DEF TagQos, ControllerPublishVolume, NodeUnpublishVolume, StageIscsiTarget,
         JbofStageIscsiTargets
  <2> QED BY <2>1, <2>2, <1>4, <1>5
<1> QED BY <1>7, <1>8, <1>9, <1>10, <1>11, <1>12, <1>13, <1>14, <1>15, <1>16, <1>17,
           <1>18, <1>19, <1>20, <1>21, <1>22 DEF HandlerStep, InformStep

LEMMA StepListing ==
  ASSUME Setting, SInv, AllListing, [Next]_vars PROVE AllListing'
<1> SUFFICES ASSUME NEW o \in Requests PROVE Listing(o)'
  BY DEF AllListing
<1>1. Listing(o) /\ Chained /\ ChainTypes /\ DataTypes /\ InChain(o)
  BY DEF AllListing, SInv, Chained
<1>2. CASE Interceptors
  <2>1. UNCHANGED <<conf, todo, reply, lvs, window>>
    BY <1>2, InterceptorsKeep
  <2>2. PICK r \in Requests : InterceptorStep(r)
    BY <1>2 DEF Interceptors, InterceptorStep, Arrives
  <2>3. CASE Arrives(r)
    <3>1. /\ UNCHANGED <<answer, step>> /\ phase[r] = "new"
          /\ phase' = [phase EXCEPT ![r] = "down"]
          /\ o # r => call'[o] = call[o]
      BY <1>1, <2>3 DEF Arrives, Receive, ChainTypes
    <3>2. CASE o = r
      <4>1. phase'[o] = "down" /\ answer'[o] # OK
        BY <1>1, <3>1, <3>2 DEF ChainTypes, InChain, OK
      <4> QED BY <4>1 DEF Listing
    <3>3. CASE o # r
      <4>1. Untouched(o)
        BY <1>1, <2>1, <3>1, <3>3 DEF Untouched, ChainTypes
      <4> QED BY <1>1, <2>1, <3>1, <3>3, <4>1, ListingKept DEF Observes
    <3> QED BY <3>2, <3>3
  <2>4. CASE SerialAcquire(r) \/ SerialRelease(r) \/ MetricsTag(r) \/ MetricsCount(r)
    <3>1. UNCHANGED <<call, answer>>
      BY <2>4 DEF SerialAcquire, SerialRelease, MetricsTag, MetricsCount
    <3>2. phase'[o] = "handler" =>
            \/ phase[o] = "handler" /\ step'[o] = step[o]
            \/ step'[o] = "validate"
      BY <1>1, <2>4, ChainMoves DEF Moves, ChainTypes
    <3> QED BY <1>1, <2>1, <3>1, <3>2 DEF Listing
  <2> QED BY <2>2, <2>3, <2>4 DEF InterceptorStep
<1>3. CASE Handlers
  <2>1. PICK r \in Requests : HandlerStep(r)
    BY <1>3 DEF Handlers, HandlerStep
  <2>2. UNCHANGED <<conf, call>>
    BY <1>3 DEF Handlers
  <2>3. CASE o # r
    <3>1. Untouched(o) /\ Observes(o)
      BY <1>1, <2>1, <2>3, OthersUntouched, HandlerObserved
    <3> QED BY <1>1, <2>2, <3>1, ListingKept
  <2>4. CASE o = r
    BY <1>1, <2>1, <2>2, <2>4, OwnListing
  <2> QED BY <2>3, <2>4
<1>4. CASE OtherHosts
  <2>1. UNCHANGED <<conf, call>> /\ Untouched(o)
    BY <1>4, OtherHostsKeep DEF Untouched
  <2>2. Observes(o)
    <3>1. CASE \E v \in Volumes : Add(v) \/ Delete(v)
      BY <1>1, <3>1, GroupChange, WatchObserves
    <3>2. CASE UNCHANGED <<lvs, window>>
      BY <3>2 DEF Observes
    <3> QED BY <1>4, <3>1, <3>2 DEF OtherHosts
  <2> QED BY <1>1, <2>1, <2>2, ListingKept
<1>5. CASE UNCHANGED vars
  BY <1>1, <1>5 DEF vars, handlerVars, groupVars, Listing
<1> QED BY <1>2, <1>3, <1>4, <1>5 DEF Next

\* A list that ListVolumes answers has every volume that was there from its
\* first command to its last, and none that never was, whatever other hosts
\* create and delete and whichever commands fail meanwhile.
THEOREM ListsAreConsistent == Setting => (Spec => []ListingIsConsistent)
<1> SUFFICES ASSUME Setting PROVE Spec => []ListingIsConsistent
  OBVIOUS
<1>1. Spec => []SInv
  BY InvariantSInv
<1>2. Init => AllListing
  BY DEF Init, AllListing, Listing, OK
<1>3. SInv /\ AllListing /\ [Next]_vars => AllListing'
  BY StepListing
<1>4. AllListing => ListingIsConsistent
  BY DEF AllListing, Listing, ListingIsConsistent
<1> QED BY <1>1, <1>2, <1>3, <1>4, PTL DEF Spec

-----------------------------------------------------------------------------
(* Capabilities that were confirmed *)

Publishing == Confirmed /\ DOMAIN fs = Existing /\ \A r \in Requests : Refused(r)

\* A filesystem that is there stays.
FsStays == DOMAIN fs' = Existing /\ \A v \in Existing : fs[v] # "" => fs'[v] = fs[v]

LEMMA PublishStays ==
  ASSUME DOMAIN fs = Existing, NEW r, PublishDevice(r) PROVE FsStays
<1>1. CASE fs' = fs
  BY <1>1 DEF FsStays
<1>2. CASE fs' # fs
  <2>1. PICK v, f : fs' = [fs EXCEPT ![v] = f] /\ (fs[v] = "" \/ fs[v] = f)
    BY <1>2 DEF PublishDevice, MountLocally
  <2> QED BY <2>1 DEF FsStays
<1> QED BY <1>1, <1>2

LEMMA FormatStays ==
  ASSUME DOMAIN fs = Existing, OtherHosts PROVE FsStays
<1>1. CASE fs' = fs
  BY <1>1 DEF FsStays
<1>2. CASE fs' # fs
  <2>1. PICK v, f : fs' = [fs EXCEPT ![v] = f] /\ fs[v] = ""
    BY <1>2 DEF OtherHosts, Add, Delete
  <2> QED BY <2>1 DEF FsStays
<1> QED BY <1>1, <1>2

LEMMA RefusedKept ==
  ASSUME NEW o \in Requests, Refused(o), FsStays, call'[o] = call[o], answer'[o] = answer[o]
  PROVE  Refused(o)'
BY DEF Refused, FsStays

LEMMA HandlerFs ==
  ASSUME Setting, Chained, DataTypes, DOMAIN fs = Existing, NEW r \in Requests, HandlerStep(r)
  PROVE  FsStays
<1>1. ASSUME fs' = fs PROVE FsStays
  BY <1>1 DEF FsStays
<1>2. CASE PlainStep(r)
  BY <1>1, <1>2, PlainKeeps
<1>3. CASE InformStep(r)
  BY <1>1, <1>3, InformKeeps DEF InfoOnly
<1>4. CASE \/ ListLogicalVolumeNames(r) \/ ListAttributes(r) \/ GetCapacity(r)
           \/ ConfirmCapabilities(r)
  BY <1>1, <1>4 DEF ListLogicalVolumeNames, ListAttributes, GetCapacity, ConfirmCapabilities, groupVars
<1>5. CASE PublishDevice(r)
  BY <1>5, PublishStays
<1>6. CASE Delegate(r)
  BY <1>1, <1>6, DelegateKeeps
<1> QED BY <1>2, <1>3, <1>4, <1>5, <1>6, StepCases

LEMMA HandlerConfirms ==
  ASSUME Setting, SInv, Confirmed, NEW r \in Requests, HandlerStep(r)
  PROVE  Confirmed'
<1>1. Chained /\ DataTypes /\ InChain(r)
  BY DEF SInv, Chained
<1>2. CASE validated' = validated
  BY <1>2 DEF Confirmed
<1>3. CASE ConfirmCapabilities(r) /\ validated' # validated
  <2>1. In(r, "device", {"ValidateVolumeCapabilities"})
    BY <1>3 DEF ConfirmCapabilities
  <2>2. PICK caps : caps = call[r].caps
    OBVIOUS
  <2>3. PICK v : v = call[r].id
    OBVIOUS
  <2>4. PICK f : f = fs[v]
    OBVIOUS
  <2>5. /\ FilesystemMismatch(f, caps) = OK
        /\ validated' = validated \union {<<v, caps[i], f>> : i \in DOMAIN caps}
    BY <1>3, <2>2, <2>3, <2>4 DEF ConfirmCapabilities
  <2>6. validateVolumeCapabilities(caps) = OK
    BY <2>1, <2>2, Vetted DEF In
  <2>7. caps \in Seq(Capability)
    <3>1. call[r] \in CallType
      BY <1>1, <2>1 DEF In, InChain, Setting
    <3> QED BY <2>2, <3>1 DEF CallType
  <2>8. \A i \in DOMAIN caps : validateVolumeCapability(caps[i], FALSE, FALSE) = OK
    BY <2>6, <2>7, ListTaken
  <2>9. \A i \in DOMAIN caps :
          caps[i].type = "mount" /\ caps[i].fs # "" /\ f # "" => caps[i].fs = f
    BY <2>5 DEF FilesystemMismatch, OK
  <2>10. \A i \in DOMAIN caps : Confirms(caps[i], f)
    BY <2>8, <2>9 DEF Confirms
  <2>11. ASSUME NEW t \in validated' PROVE Confirms(t[2], t[3])
    <3>1. CASE t \in validated
      BY <3>1 DEF Confirmed
    <3>2. CASE t \notin validated
      <4>1. PICK i \in DOMAIN caps : t = <<v, caps[i], f>>
        BY <2>5, <3>2
      <4>2. t[2] = caps[i] /\ t[3] = f
        BY <4>1
      <4> QED BY <2>10, <4>2
    <3> QED BY <3>1, <3>2
  <2> QED BY <2>11 DEF Confirmed
<1>4. validated' = validated \/ ConfirmCapabilities(r)
  <2>1. CASE PlainStep(r)
    BY <2>1, PlainKeeps
  <2>2. CASE InformStep(r)
    BY <2>2, InformKeeps DEF InfoOnly
  <2>3. CASE \/ ListLogicalVolumeNames(r) \/ ListAttributes(r) \/ GetCapacity(r)
             \/ PublishDevice(r) \/ Delegate(r)
    BY <2>3 DEF ListLogicalVolumeNames, ListAttributes, GetCapacity, PublishDevice, Delegate
  <2> QED BY <2>1, <2>2, <2>3, StepCases
<1> QED BY <1>2, <1>3, <1>4

\* NodePublishVolume's own step: of its errors only the validator's and that of
\* the mount are about the capability.
LEMMA OwnRefusal ==
  ASSUME Setting, SInv, DOMAIN fs = Existing, NEW r \in Requests, HandlerStep(r),
         UNCHANGED <<conf, call>>
  PROVE  Refused(r)'
<1>1. ChainTypes /\ Chained /\ DataTypes /\ InChain(r)
  BY DEF SInv, Chained
<1>2. phase[r] = "handler" /\ answer[r] = "none" /\ call[r] \in CallType
  BY <1>1, HandlerMoves DEF InChain, Setting
<1>3. ASSUME answer'[r] \notin CapabilityErrors PROVE Refused(r)'
  BY <1>3 DEF Refused
<1>4. {"none", OK, "Internal", "ErrVolumeNotFound"} \intersect CapabilityErrors = {}
  BY DEF CapabilityErrors, OK
<1>5. ASSUME NEW a, Answer(r, a) PROVE answer'[r] = a
  BY <1>1, <1>5 DEF Answer, ChainTypes
<1>6. CASE call[r].method # "NodePublishVolume"
  BY <1>6 DEF Refused
<1>7. CASE ValidateRequest(r)
  <2>1. PICK q, rm, px : q = call[r] /\ rm = conf.removing /\ px = conf.proxy
    OBVIOUS
  <2>2. PICK err : err = Refusal(q, rm, px)
    OBVIOUS
  <2>3. (err # OK /\ Answer(r, err)) \/ UNCHANGED answer
    BY <1>7, <2>1, <2>2 DEF ValidateRequest, Go
  <2>4. CASE UNCHANGED answer
    BY <1>2, <1>3, <1>4, <2>4
  <2>5. CASE Answer(r, err) /\ q.method = "NodePublishVolume" /\ err \in CapabilityErrors
             /\ ~q.readonly
    <3>1. q \in CallType /\ rm \in BOOLEAN /\ px \in BOOLEAN
      BY <1>1, <1>2, <2>1, ConfBoolean
    <3>2. err = validateNodePublishVolumeRequest(q, rm, px)
      BY <2>2, <2>5, <3>1, RefusalIs
    <3>3. validateVolumeCapability(q.caps[1], FALSE, q.readonly) # OK
      BY <2>5, <3>1, <3>2, NodePublishVolumeIs
    <3>4. q.readonly \in BOOLEAN
      BY <3>1 DEF CallType
    <3>5. validateVolumeCapability(q.caps[1], FALSE, FALSE) # OK
      BY <2>5, <3>3, <3>4, CapabilityTaken
    <3> QED BY <2>1, <3>5 DEF Refused
  <2>6. CASE Answer(r, err) /\ ~(q.method = "NodePublishVolume" /\ err \in CapabilityErrors
                                 /\ ~q.readonly)
    BY <1>5, <2>1, <2>6 DEF Refused
  <2> QED BY <2>3, <2>4, <2>5, <2>6
<1>8. CASE Lookup(r) \/ Login(r) \/ NoDatapath(r) \/ TagQos(r)
  <2>1. \/ UNCHANGED answer \/ Answer(r, "ErrVolumeNotFound") \/ Answer(r, "Internal")
        \/ Answer(r, OK)
    BY <1>8 DEF Lookup, Login, NoDatapath, TagQos, Go, Panic
  <2> QED BY <1>2, <1>3, <1>4, <1>5, <2>1
<1>9. CASE NilVolumeGroup(r)
  BY <1>2, <1>3, <1>4, <1>9 DEF NilVolumeGroup, Panic
<1>10. CASE PublishDevice(r)
  <2>1. In(r, "device", {"NodePublishVolume"})
    BY <1>10 DEF PublishDevice
  <2>2. call[r].id \in Existing
    BY <1>2, <2>1, Vetted DEF In, CallType
  <2>3. \/ UNCHANGED answer \/ Answer(r, OK) \/ Answer(r, "Internal")
        \/ /\ call[r].caps[1].type = "mount" /\ UNCHANGED fs
           /\ fs[call[r].id] \notin {"", FsOf(call[r].caps[1].fs)}
    BY <1>10 DEF PublishDevice, MountLocally, Published, Go, Panic
  <2>4. CASE UNCHANGED answer \/ Answer(r, OK) \/ Answer(r, "Internal")
    BY <1>2, <1>3, <1>4, <1>5, <2>4
  <2>5. CASE /\ call[r].caps[1].type = "mount" /\ UNCHANGED fs
             /\ fs[call[r].id] \notin {"", FsOf(call[r].caps[1].fs)}
    BY <2>2, <2>5 DEF Refused
  <2> QED BY <2>3, <2>4, <2>5
<1>11. \/ call[r].method # "NodePublishVolume" \/ ValidateRequest(r) \/ Lookup(r)
       \/ Login(r) \/ NoDatapath(r) \/ TagQos(r) \/ NilVolumeGroup(r) \/ PublishDevice(r)
  <2>1. CASE InformStep(r)
    BY <2>1 DEF InformStep, GetCapabilities, GetPluginInfo, NodeGetInfo, In, Static
  <2>2. CASE NotImplemented(r)
    BY <2>2 DEF NotImplemented, In, Unimplemented
  <2>3. CASE \/ NoTenant(r) \/ ReportVolumes(r) \/ ReportBytes(r) \/ ListNothing(r)
             \/ ListLogicalVolumeNames(r) \/ ListLookup(r) \/ ListAttributes(r)
             \/ NoCapacity(r) \/ GetCapacity(r) \/ ConfirmCapabilities(r) \/ Delegate(r)
             \/ ControllerPublishVolume(r) \/ NodeUnpublishVolume(r)
    BY <2>3 DEF NoTenant, ReportVolumes, ReportBytes, Reporters, ListNothing,
         ListLogicalVolumeNames, ListLookup, ListAttributes, NoCapacity, GetCapacity,
         ConfirmCapabilities, Delegate, Delegated, ControllerPublishVolume,
         NodeUnpublishVolume, In
  <2> QED BY <2>1, <2>2, <2>3 DEF HandlerStep, InformStep
<1> QED BY <1>6, <1>7, <1>8, <1>9, <1>10, <1>11

LEMMA StepPublishing ==
  ASSUME Setting, SInv, Publishing, [Next]_vars PROVE Publishing'
<1>1. Chained /\ ChainTypes /\ DataTypes /\ DOMAIN fs = Existing /\ Confirmed
  BY DEF SInv, Chained, Publishing
<1>2. ASSUME NEW o \in Requests PROVE Refused(o)
  BY DEF Publishing
<1>3. ASSUME fs' = fs PROVE FsStays
  BY <1>1, <1>3 DEF FsStays
<1>4. ASSUME FsStays, Confirmed', \A o \in Requests : Refused(o)' PROVE Publishing'
  BY <1>4 DEF Publishing, FsStays
<1>5. CASE Interceptors
  <2>1. UNCHANGED <<fs, validated>>
    BY <1>5, InterceptorsKeep
  <2>2. PICK r \in Requests : InterceptorStep(r)
    BY <1>5 DEF Interceptors, InterceptorStep, Arrives
  <2>3. Confirmed' /\ FsStays
    BY <1>1, <1>3, <2>1 DEF Confirmed
  <2>4. ASSUME NEW o \in Requests PROVE Refused(o)'
    <3>1. CASE Arrives(r)
      <4>1. /\ UNCHANGED answer /\ phase[r] = "new"
            /\ o # r => call'[o] = call[o]
        BY <1>1, <3>1 DEF Arrives, Receive, ChainTypes
      <4>2. CASE o = r
        <5>1. answer'[o] = "none"
          BY <1>1, <4>1, <4>2 DEF Chained, InChain
        <5> QED BY <5>1 DEF Refused, CapabilityErrors
      <4>3. CASE o # r
        BY <1>2, <2>3, <4>1, <4>3, RefusedKept
      <4> QED BY <4>2, <4>3
    <3>2. CASE SerialAcquire(r) \/ SerialRelease(r) \/ MetricsTag(r) \/ MetricsCount(r)
      <4>1. UNCHANGED <<call, answer>>
        BY <3>2 DEF SerialAcquire, SerialRelease, MetricsTag, MetricsCount
      <4> QED BY <1>2, <2>3, <4>1, RefusedKept
    <3> QED BY <2>2, <3>1, <3>2 DEF InterceptorStep
  <2> QED BY <1>4, <2>3, <2>4
<1>6. CASE Handlers
  <2>1. PICK r \in Requests : HandlerStep(r)
    BY <1>6 DEF Handlers, HandlerStep
  <2>2. UNCHANGED <<conf, call>>
    BY <1>6 DEF Handlers
  <2>3. FsStays /\ Confirmed'
    BY <1>1, <2>1, HandlerFs, HandlerConfirms
  <2>4. ASSUME NEW o \in Requests PROVE Refused(o)'
    <3>1. CASE o = r
      BY <1>1, <2>1, <2>2, <3>1, OwnRefusal
    <3>2. CASE o # r
      <4>1. Untouched(o)
        BY <1>1, <2>1, <3>2, OthersUntouched
      <4> QED BY <1>2, <2>2, <2>3, <4>1, RefusedKept DEF Untouched
    <3> QED BY <3>1, <3>2
  <2> QED BY <1>4, <2>3, <2>4
<1>7. CASE OtherHosts
  <2>1. UNCHANGED <<call, answer, validated>> /\ FsStays
    BY <1>1, <1>7, OtherHostsKeep, FormatStays
  <2>2. Confirmed'
    BY <1>1, <2>1 DEF Confirmed
  <2>3. ASSUME NEW o \in Requests PROVE Refused(o)'
    BY <1>2, <2>1, RefusedKept
  <2> QED BY <1>4, <2>1, <2>2, <2>3
<1>8. CASE UNCHANGED vars
  <2>1. UNCHANGED <<call, answer, validated, fs>>
    BY <1>8 DEF vars, handlerVars, groupVars
  <2>2. Confirmed' /\ FsStays
    BY <1>1, <1>3, <2>1 DEF Confirmed
  <2>3. ASSUME NEW o \in Requests PROVE Refused(o)'
    BY <1>2, <2>1, <2>2, RefusedKept
  <2> QED BY <1>4, <2>2, <2>3
<1> QED BY <1>5, <1>6, <1>7, <1>8 DEF Next

\* A capability that ValidateVolumeCapabilities confirmed of a volume, and that
\* names its filesystem, is not what NodePublishVolume refuses while the volume
\* has the filesystem it had.
THEOREM ConfirmedIsPublishable == Setting => (Spec => []ValidatedIsPublishable)
<1> SUFFICES ASSUME Setting PROVE Spec => []ValidatedIsPublishable
  OBVIOUS
<1>1. Spec => []SInv
  BY InvariantSInv
<1>2. Init => Publishing
  <2> SUFFICES ASSUME Init PROVE Publishing
    OBVIOUS
  <2>1. Confirmed /\ DOMAIN fs = Existing
    BY DEF Init, Confirmed
  <2>2. ASSUME NEW r \in Requests PROVE Refused(r)
    BY DEF Init, Refused, CapabilityErrors
  <2> QED BY <2>1, <2>2 DEF Publishing
<1>3. SInv /\ Publishing /\ [Next]_vars => Publishing'
  BY StepPublishing
<1>4. Publishing => ValidatedIsPublishable
  <2> SUFFICES ASSUME Publishing, NEW r \in RefusedThoughConfirmed
               PROVE  call[r].caps[1].type = "mount" /\ call[r].caps[1].fs = ""
    BY DEF ValidatedIsPublishable
  <2>1. PICK c, f : c = call[r].caps[1] /\ f = fs[call[r].id]
    OBVIOUS
  <2>2. Confirms(c, f)
    <3>1. PICK t : t = <<call[r].id, c, f>>
      OBVIOUS
    <3>2. t \in validated /\ t[2] = c /\ t[3] = f
      BY <2>1, <3>1 DEF RefusedThoughConfirmed
    <3> QED BY <3>2 DEF Publishing, Confirmed
  <2>3. c.type = "mount" /\ f \notin {"", FsOf(c.fs)}
    BY <2>1, <2>2 DEF RefusedThoughConfirmed, Publishing, Refused, Confirms
  <2> QED BY <2>1, <2>2, <2>3 DEF Confirms, FsOf
<1> QED BY <1>1, <1>2, <1>3, <1>4, PTL DEF Spec
=============================================================================

----------------------------- MODULE MCService -----------------------------
EXTENDS Service, TLC

Symmetry == Permutations(Requests)

Cap(type, f, mode) == [type |-> type, fs |-> f, mode |-> mode]

\* A request that every validator takes, and one with another field.
Call(m) == [method |-> m, id |-> "v1", name |-> "name", path |-> "path",
            context |-> "direct", qos |-> FALSE, readonly |-> FALSE, token |-> "",
            range |-> "absent", mirrors |-> "few",
            caps |-> <<Cap("mount", DefaultFs, "writer")>>]
With(q, field, value) == [q EXCEPT ![field] = value]

MCCalls ==
  {Call(m) : m \in {"ListVolumes", "GetCapacity", "ValidateVolumeCapabilities",
                    "NodePublishVolume", "CreateVolume", "DeleteVolume", "ControllerPublishVolume",
                    "ControllerUnpublishVolume", "NodeUnpublishVolume",
                    "GetPluginInfo", "GetPluginCapabilities", "NodeGetInfo",
                    "CreateSnapshot"}} \union
  {With(Call("ListVolumes"), "token", "token"),
   With(Call("GetCapacity"), "mirrors", "max"),
   With(With(Call("CreateVolume"), "mirrors", "max"), "range", "fit"),
   With(Call("NodePublishVolume"), "qos", TRUE),
   With(Call("NodePublishVolume"), "caps", <<Cap("none", "", "writer")>>),
   With(Call("NodePublishVolume"), "caps", <<Cap("block", "", "writer")>>),
   With(Call("GetCapacity"), "caps",
        <<Cap("mount", "", "writer"), Cap("mount", OtherFs, "writer")>>)} \union
  {With(Call(m), "context", c) : c \in {"nil", "iscsi", "jbofis"},
     m \in {"ControllerPublishVolume", "NodePublishVolume"}} \union
  {With(Call(m), "caps", <<Cap("mount", "", "reader")>>) :
     m \in {"ValidateVolumeCapabilities", "NodePublishVolume"}}

\* A process that serves, by itself or with StoLake, one whose group has a short
\* name and was not found, and one that was to remove it.
Conf(removing, proxy, found, longName) ==
  [removing |-> removing, proxy |-> proxy, found |-> found, longName |-> longName,
   initiator |-> proxy, controller |-> proxy]
MCConfigs ==
  {Conf(FALSE, FALSE, TRUE, TRUE), Conf(FALSE, TRUE, TRUE, TRUE),
   Conf(FALSE, FALSE, FALSE, FALSE), Conf(TRUE, FALSE, FALSE, TRUE)}

ASSUME MCAssumption == MCCalls \subseteq CallType /\ MCConfigs \subseteq ConfigType

=============================================================================

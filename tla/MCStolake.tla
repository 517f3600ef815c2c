----------------------------- MODULE MCStolake -----------------------------
EXTENDS Stolake

\* The calls of a node's handlers about one thing; calls about different things
\* share nothing but the agent.
NodeOps ==
  {{MountVolume("dev", "target", "xfs", "gid", "opts", FALSE, TRUE), UnMountVolume("target"),
    MountInfo},
   {SetQos("dev", "iops", "mbps"), SetQos("dev", "0", "0")},
   {VgActivate("vg"), StoLakeInfo, FstypeProxy("dev")}}

\* The controller's process stages LUNs while the node's runs LVM commands.
MCWorkloads ==
  {[p \in Callers |-> IF p = "node" THEN ops ELSE {}] : ops \in NodeOps}
    \union {[p \in Callers |->
              IF p = "node" THEN {ProxyStoLakeRun("lvs")}
              ELSE {StageIscsiTarget("lv", "iqn"), UnStageIscsiTarget("lv", "iqn")}]}

\* The agent of today, and one that knows no quality of service.
MCVersions == {Methods, Methods \ {"LvQoS"}}

=============================================================================

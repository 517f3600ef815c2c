------------------------------ MODULE Startup ------------------------------
(***************************************************************************)
(* The life of csilvm processes on a host: main (cmd/csilvm/csilvm.go) up  *)
(* to Serve, Setup and Probe (pkg/csilvm/server.go), and what a handler    *)
(* does to a process whose Setup did not find the volume group.  There is  *)
(* one process per volume group; they share the lock file (lvm/lock.go)    *)
(* and the StoLake agent (virsh.go).  A process that ends is started       *)
(* again.  Its flags are ones that main accepts.                           *)
(***************************************************************************)
EXTENDS Naturals, FiniteSets

CONSTANTS
  Instances,   \* the csilvm processes of the host
  Removing,    \* those started with -remove-volume-group
  MaxFaults,   \* bound: crashes, failed calls and changes of the host
  None

ASSUME StartupAssumption ==
  /\ Removing \subseteq Instances
  /\ MaxFaults \in Nat
  /\ None \notin Instances

VARIABLES
  pc,        \* where each process is
  flock,     \* the process that holds the lock file
  sock,      \* the socket file of each: absent, stale (nobody listens) or bound
  handle,    \* the processes whose s.volumeGroup is not nil
  ticking,   \* the processes whose uptime ticker runs
  uptime,    \* the processes whose uptime gauge has been set
  ready,     \* the processes that a sidecar has got a successful Probe from
  stolake,   \* whether StoLake is there
  found,     \* the processes whose volume group LVM finds at present
  modules,   \* whether the modules of -probe-module are loaded
  faults     \* number of faults so far

gauge == <<ticking, uptime>>
process == <<pc, flock, sock, handle, ready, gauge>>
host == <<stolake, found, modules>>
vars == <<process, host, faults>>

Serving == {"serving", "command"}

Init ==
  /\ pc = [i \in Instances |-> "down"]
  /\ flock = None
  /\ sock = [i \in Instances |-> "absent"]
  /\ handle = {} /\ ticking = {} /\ uptime = {}
  /\ ready = {}
  /\ stolake \in BOOLEAN
  /\ found \in SUBSET Instances
  /\ modules \in BOOLEAN
  /\ faults = 0

\* connect dials StoLake and blocks until it is there, without a timeout.
Connects == stolake

\* LookupVolumeGroup finds the volume group of i.
Found(i) == i \in found

\* Every module of -probe-module is listed as live in /proc/modules.
ModulesLoaded == modules

Fault ==
  /\ faults < MaxFaults
  /\ faults' = faults + 1

\* i, which is at this point of main or of a handler, goes on at another.
Step(i, from, to) ==
  /\ pc[i] = from
  /\ pc' = [pc EXCEPT ![i] = to]

\* The process ends: by Fatalf, by a panic, or because it is killed.  The
\* kernel unlocks its file and closes its listener, whose file stays.
Die(i) ==
  /\ pc' = [pc EXCEPT ![i] = "down"]
  /\ flock' = IF flock = i THEN None ELSE flock
  /\ sock' = [sock EXCEPT ![i] = IF @ = "bound" THEN "stale" ELSE @]
  /\ handle' = handle \ {i}
  /\ ready' = ready \ {i}
  /\ ticking' = ticking \ {i} /\ uptime' = uptime \ {i}

-----------------------------------------------------------------------------
(* main *)

\* kubelet or systemd starts the process, which parses its flags.
Start(i) ==
  /\ Step(i, "down", "lock")
  /\ UNCHANGED <<flock, sock, handle, ready, gauge, host, faults>>

\* SetLockFilePath: Lock blocks while another process has the file.
Lock(i) ==
  /\ Step(i, "lock", "unlock")
  /\ flock = None
  /\ flock' = i
  /\ UNCHANGED <<sock, handle, ready, gauge, host, faults>>

\* "lock acquired, releasing lock"
Unlock(i) ==
  /\ Step(i, "unlock", "listen")
  /\ flock' = None
  /\ UNCHANGED <<sock, handle, ready, gauge, host, faults>>

\* Mutant: the socket of the previous run is not unlinked, and Listen fails.
ListenOnly(i) ==
  /\ pc[i] = "listen"
  /\ IF sock[i] = "absent"
     THEN /\ Step(i, "listen", "url")
          /\ sock' = [sock EXCEPT ![i] = "bound"]
          /\ UNCHANGED <<flock, handle, ready, gauge>>
     ELSE Die(i)
  /\ UNCHANGED <<host, faults>>

\* Unlink, MkDir and Listen.
Listen(i) ==
  /\ Step(i, "listen", "url")
  /\ sock' = [sock EXCEPT ![i] = "bound"]
  /\ UNCHANGED <<flock, handle, ready, gauge, host, faults>>

\* SetStolakeURL is fatal if there is no such file, which leaves the socket
\* behind; StoLake may have left its own.
SetStolakeURL(i) ==
  /\ pc[i] = "url"
  /\ \/ /\ Step(i, "url", "connect")
        /\ UNCHANGED <<flock, sock, handle, ready, gauge>>
     \/ ~stolake /\ Die(i)
  /\ UNCHANGED <<host, faults>>

\* StoLakeInfo: an error of the call is fatal.
StoLakeInfo(i) ==
  /\ pc[i] = "connect" /\ Connects
  /\ \/ /\ Step(i, "connect", "lookup")
        /\ UNCHANGED <<flock, sock, handle, ready, gauge, faults>>
     \/ Fault /\ Die(i)
  /\ UNCHANGED host

\* LookupVolumeGroup through StoLake: an error is logged, and volumeGroup nil.
LookupVolumeGroup(i) ==
  /\ Connects
  /\ \/ /\ Step(i, "lookup", "vgactivate")
        /\ Found(i)
        /\ handle' = handle \cup {i}
        /\ UNCHANGED faults
     \/ /\ Step(i, "lookup", "setup")
        /\ (~Found(i) /\ UNCHANGED faults) \/ Fault
        /\ UNCHANGED handle
  /\ UNCHANGED <<flock, sock, ready, gauge, host>>

\* VgActivate, whose error is logged.
VgActivate(i) ==
  /\ Connects
  /\ Step(i, "vgactivate", "setup")
  /\ UNCHANGED <<flock, sock, handle, ready, gauge, host, faults>>

\* defer s.ReportUptime()(): ReportUptime starts the ticker and the goroutine of
\* the gauge, and main goes on to Serve only when it has returned.
ReportUptime(i) ==
  /\ Step(i, "setup", "uptime")
  /\ ticking' = ticking \cup {i}
  /\ UNCHANGED <<flock, sock, handle, ready, uptime, host, faults>>

\* A second passes, and the goroutine updates the gauge.
UptimeTick(i) ==
  /\ i \in ticking
  /\ uptime' = uptime \cup {i}
  /\ UNCHANGED <<pc, flock, sock, handle, ready, ticking, host, faults>>

\* ReportUptime returns, which stops its ticker.
UptimeReturn(i) ==
  /\ Step(i, "uptime", "serving")
  /\ ticking' = ticking \ {i}
  /\ UNCHANGED <<flock, sock, handle, ready, uptime, host, faults>>

-----------------------------------------------------------------------------
(* Serving *)

\* Mutant: Probe succeeds only if Setup had found the volume group.
ProbeHandle(i) ==
  /\ pc[i] = "serving" /\ Connects
  /\ ModulesLoaded /\ Found(i) /\ i \in handle
  /\ ready' = ready \cup {i}
  /\ UNCHANGED <<pc, flock, sock, handle, gauge, host, faults>>

\* Probe looks at the modules and, unless it is removing, looks the volume
\* group up again; it does not look at s.volumeGroup.
Probe(i) ==
  /\ pc[i] = "serving" /\ (i \in Removing \/ Connects)
  /\ \/ /\ ModulesLoaded /\ (i \in Removing \/ Found(i))
        /\ ready' = ready \cup {i}
        /\ UNCHANGED faults
     \/ /\ ~ModulesLoaded \/ ~(i \in Removing \/ Found(i))
        /\ UNCHANGED <<ready, faults>>
     \/ Fault /\ UNCHANGED ready
  /\ UNCHANGED <<pc, flock, sock, handle, gauge, host>>

\* A call that uses the volume group, which sidecars make after a successful
\* Probe.  A removing process refuses most (validateRemoving), but not
\* ControllerPublishVolume.  A nil volumeGroup is a panic.
Call(i) ==
  /\ pc[i] = "serving" /\ i \in ready
  /\ \/ i \in Removing /\ UNCHANGED process
     \/ /\ i \in handle
        /\ Step(i, "serving", "command")
        /\ UNCHANGED <<flock, sock, handle, ready, gauge>>
     \/ i \notin handle /\ Die(i)
  /\ UNCHANGED <<host, faults>>

\* The LVM command of the handler ends.
Answer(i) ==
  /\ Connects
  /\ Step(i, "command", "serving")
  /\ UNCHANGED <<flock, sock, handle, ready, gauge, host, faults>>

Crash(i) ==
  /\ pc[i] # "down"
  /\ Fault /\ Die(i)
  /\ UNCHANGED host

\* StoLake goes or comes, a volume group goes out of sight or comes into it,
\* modules are loaded or removed.
HostChanges ==
  /\ Fault
  /\ \/ stolake' = ~stolake /\ UNCHANGED <<found, modules>>
     \/ \E i \in Instances :
          /\ found' = IF i \in found THEN found \ {i} ELSE found \cup {i}
          /\ UNCHANGED <<stolake, modules>>
     \/ modules' = ~modules /\ UNCHANGED <<stolake, found>>
  /\ UNCHANGED process

-----------------------------------------------------------------------------
Advance(i) ==
  \/ Start(i) \/ Lock(i) \/ Unlock(i) \/ Listen(i) \/ SetStolakeURL(i)
  \/ StoLakeInfo(i) \/ LookupVolumeGroup(i) \/ VgActivate(i) \/ ReportUptime(i) \/ UptimeReturn(i) \/ Answer(i)

Next ==
  \/ \E i \in Instances : Advance(i) \/ UptimeTick(i) \/ Probe(i) \/ Call(i) \/ Crash(i)
  \/ HostChanges

Spec == Init /\ [][Next]_vars

\* A process runs and is restarted when it has ended; one that waits for the
\* lock file gets it some time, though another is restarted over and over
\* (with a pause in between); sidecars keep probing and, once the process is
\* ready, calling.
FairSpec ==
  /\ Spec
  /\ \A i \in Instances :
       /\ WF_vars(Advance(i)) /\ SF_vars(Lock(i))
       /\ WF_vars(UptimeTick(i) /\ i \notin uptime)
       /\ WF_vars(i \notin ready /\ Probe(i)) /\ WF_vars(Call(i))

-----------------------------------------------------------------------------
(* Properties *)

\* Every variable has its type.
TypeOK ==
  /\ pc \in [Instances -> {"down", "lock", "unlock", "listen", "url", "connect",
                           "lookup", "vgactivate", "setup", "uptime"} \cup Serving]
  /\ flock \in Instances \cup {None}
  /\ sock \in [Instances -> {"absent", "stale", "bound"}]
  /\ handle \subseteq {i \in Instances : pc[i] \in Serving \cup {"vgactivate", "setup", "uptime"}}
  /\ ticking = {i \in Instances : pc[i] = "uptime"} /\ uptime \subseteq Instances
  /\ ready \subseteq {i \in Instances : pc[i] \in Serving}
  /\ stolake \in BOOLEAN /\ modules \in BOOLEAN
  /\ found \subseteq Instances
  /\ faults \in 0..MaxFaults

\* Once StoLake stays, every process gets to serve and stays there, whatever
\* it and the others died of before: no lock file, socket or volume group
\* that is in a bad state for the time being keeps it from starting.  (One that
\* is removing needs the volume group too: its Probe succeeds without.)
StartsEventually ==
  \A i \in Instances :
    <>[](stolake /\ (i \in Removing => i \in found))
      => <>[](pc[i] \in Serving /\ sock[i] = "bound")

\* A process that was started while its volume group could not be found does
\* not stay useless when it can be: the first call that needs it ends the
\* process, and its successor finds the volume group.
Recovers ==
  \A i \in Instances \ Removing :
    <>[](stolake /\ modules /\ i \in found) => <>[](i \in handle)

\* "csilvm_uptime: the uptime (in seconds) of the process": a process that keeps
\* serving has set its gauge.
UptimeReported ==
  \A i \in Instances : <>[](pc[i] \in Serving) => <>(i \in uptime)

\* "The path to the lock file used to prevent concurrent lvm invocation by
\* multiple csilvm instances".
NoConcurrentLvm ==
  \A i, j \in Instances : pc[i] = "command" /\ pc[j] = "command" => i = j
=============================================================================

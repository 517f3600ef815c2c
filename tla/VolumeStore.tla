---------------------------- MODULE VolumeStore ----------------------------
(***************************************************************************)
(* What CreateVolume and DeleteVolume promise the orchestrator (CO): a     *)
(* store with at most one volume of each name.  The CO asks as often as it *)
(* likes; it is told the id of a volume that is there, and that a volume   *)
(* is deleted when it is not.  How LVM commands, retries and crashes make  *)
(* that up is Provisioning's business, which implements this specification *)
(* where lookups work and no command is executed late.                     *)
(***************************************************************************)
CONSTANTS Names, Ids, None

VARIABLES vol,    \* the id of each name's volume, or None
          told    \* what the CO was told of each name: a state and an id

storeVars == <<vol, told>>

StoreInit ==
  /\ vol = [n \in Names |-> None]
  /\ told = [n \in Names |-> [st |-> "none", id |-> None]]

Ask(n) ==
  /\ told[n].st = "none"
  /\ told' = [told EXCEPT ![n].st = "creating"]
  /\ UNCHANGED vol

\* A volume appears for a name that is asked for and has none, under an id that
\* is no other's and was never told.
Make(n, id) ==
  /\ told[n].st = "creating" /\ vol[n] = None
  /\ \A m \in Names : vol[m] # id /\ told[m].id # id
  /\ vol' = [vol EXCEPT ![n] = id]
  /\ UNCHANGED told

Report(n) ==
  /\ told[n].st = "creating" /\ vol[n] # None
  /\ told' = [told EXCEPT ![n] = [st |-> "bound", id |-> vol[n]]]
  /\ UNCHANGED vol

AskDeletion(n) ==
  /\ told[n].st = "bound"
  /\ told' = [told EXCEPT ![n].st = "deleting"]
  /\ UNCHANGED vol

\* A volume vanishes when its deletion was asked for; the answer may be lost.
Delete(n) ==
  /\ told[n].st = "deleting" /\ vol[n] = told[n].id
  /\ vol' = [vol EXCEPT ![n] = None]
  /\ told' \in {told, [told EXCEPT ![n].st = "gone"]}

ReportDeletion(n) ==
  /\ told[n].st = "deleting" /\ vol[n] = None
  /\ told' = [told EXCEPT ![n].st = "gone"]
  /\ UNCHANGED vol

StoreNext ==
  \E n \in Names :
    \/ Ask(n) \/ (\E id \in Ids : Make(n, id)) \/ Report(n)
    \/ AskDeletion(n) \/ Delete(n) \/ ReportDeletion(n)

StoreSpec == StoreInit /\ [][StoreNext]_storeVars
=============================================================================

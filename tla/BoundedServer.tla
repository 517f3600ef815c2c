--------------------------- MODULE BoundedServer ---------------------------
(***************************************************************************)
(* What the two interceptors of the csilvm gRPC server promise together:   *)
(* a server that admits at most Limit requests and works on one of them    *)
(* at a time.  How it is built out of two semaphores is RequestQueue's     *)
(* business, which implements this specification.                          *)
(***************************************************************************)
EXTENDS Naturals, FiniteSets

CONSTANTS Requests, Limit

VARIABLES queued,   \* admitted requests that no handler has been started for
          active    \* requests whose handler is executing

abstractVars == <<queued, active>>

ServerInit ==
  /\ queued = {}
  /\ active = {}

Admit(r) ==
  /\ r \notin queued \cup active
  /\ Cardinality(queued \cup active) < Limit
  /\ queued' = queued \cup {r}
  /\ UNCHANGED active

Start(r) ==
  /\ r \in queued
  /\ active = {}
  /\ queued' = queued \ {r}
  /\ active' = {r}

End(r) ==
  /\ active = {r}
  /\ active' = {}
  /\ UNCHANGED queued

Abandon(r) ==
  /\ r \in queued
  /\ queued' = queued \ {r}
  /\ UNCHANGED active

\* The process died: nothing of the queue survives it.
Die ==
  /\ queued' = {}
  /\ active' = {}

ServerNext ==
  \/ \E r \in Requests : Admit(r) \/ Start(r) \/ End(r) \/ Abandon(r)
  \/ Die

ServerSpec == ServerInit /\ [][ServerNext]_abstractVars
============================================================================

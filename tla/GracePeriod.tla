----------------------------- MODULE GracePeriod -----------------------------
(***************************************************************************)
(* What a read-copy-update facility promises, independent of how it is     *)
(* implemented: an update is granted only when every reader that was       *)
(* inside a read-side section when the update began has left that section  *)
(* (dpdk_rcu.hpp:86-93, cfreaks_rcu.hpp:83-91).  Readers that enter later  *)
(* owe the update nothing: they can only see what it has published.        *)
(***************************************************************************)
CONSTANTS Readers,   \* the reader threads
          Updates    \* identities of updates

VARIABLES inside,    \* the readers inside a read-side section
          awaited,   \* awaited[u]: the readers update u still has to outlive
          status     \* status[u]: "idle", "waiting" or "granted"

vars == <<inside, awaited, status>>

TypeOK ==
  /\ inside \subseteq Readers
  /\ awaited \in [Updates -> SUBSET Readers]
  /\ status \in [Updates -> {"idle", "waiting", "granted"}]

Init ==
  /\ inside = {}
  /\ awaited = [u \in Updates |-> {}]
  /\ status = [u \in Updates |-> "idle"]

Enter(r) ==
  /\ r \notin inside
  /\ inside' = inside \cup {r}
  /\ UNCHANGED <<awaited, status>>

Leave(r) ==
  /\ r \in inside
  /\ inside' = inside \ {r}
  /\ awaited' = [u \in Updates |-> awaited[u] \ {r}]
  /\ UNCHANGED status

Begin(u) ==
  /\ status[u] # "waiting"
  /\ status' = [status EXCEPT ![u] = "waiting"]
  /\ awaited' = [awaited EXCEPT ![u] = inside]
  /\ UNCHANGED inside

Grant(u) ==
  /\ status[u] = "waiting"
  /\ awaited[u] = {}
  /\ status' = [status EXCEPT ![u] = "granted"]
  /\ UNCHANGED <<inside, awaited>>

Next ==
  \/ \E r \in Readers : Enter(r) \/ Leave(r)
  \/ \E u \in Updates : Begin(u) \/ Grant(u)

Spec == Init /\ [][Next]_vars
=============================================================================

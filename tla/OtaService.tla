---------------------------- MODULE OtaService ----------------------------
(***************************************************************************)
(* What tls_server and tls_client promise together: key pairs are issued   *)
(* once; a vehicle meets at most one backend, which holds an issued pair   *)
(* and shows its certificate, and may get one response from it afterwards. *)
(***************************************************************************)
CONSTANTS
  Pairs,     \* the key pairs that can be issued
  Vehicles

Nobody == "nobody"

VARIABLES
  issued,    \* the pairs issued
  met,       \* per vehicle: the pair of the backend it met
  informed   \* the vehicles that got a response

service == <<issued, met, informed>>

Init == issued = {} /\ met = [v \in Vehicles |-> Nobody] /\ informed = {}

Issue(p) ==
  /\ p \notin issued
  /\ issued' = issued \cup {p}
  /\ UNCHANGED <<met, informed>>

Meet(v, p) ==
  /\ met[v] = Nobody /\ p \in issued
  /\ met' = [met EXCEPT ![v] = p]
  /\ UNCHANGED <<issued, informed>>

Inform(v) ==
  /\ met[v] # Nobody /\ v \notin informed
  /\ informed' = informed \cup {v}
  /\ UNCHANGED <<issued, met>>

Next ==
  \/ \E p \in Pairs : Issue(p)
  \/ \E v \in Vehicles : Inform(v) \/ \E p \in Pairs : Meet(v, p)

Spec == Init /\ [][Next]_service

===========================================================================

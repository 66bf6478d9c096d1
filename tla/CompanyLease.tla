---------------------------- MODULE CompanyLease ----------------------------
(***************************************************************************)
(* What claim_company promises ("take an exclusive claim on a company, or  *)
(* return None if someone else has it"), without clocks, rows or sessions: *)
(* a company has at most one poller, another comes only after it is free,  *)
(* and a poller serves one company at a time.                              *)
(***************************************************************************)
CONSTANTS Companies, Pollers, Nobody

VARIABLE holder

TypeOK == holder \in [Companies -> Pollers \cup {Nobody}]

Init == holder = [c \in Companies |-> Nobody]

Acquire(c, p) ==
  /\ holder[c] = Nobody
  /\ \A d \in Companies : holder[d] # p
  /\ holder' = [holder EXCEPT ![c] = p]

\* The poll ends, or its company is removed under it.
Release(c) ==
  /\ holder[c] # Nobody
  /\ holder' = [holder EXCEPT ![c] = Nobody]

\* The process that runs all pollers stops.
Restart == holder' = [c \in Companies |-> Nobody]

Next ==
  \/ \E c \in Companies : Release(c) \/ \E p \in Pollers : Acquire(c, p)
  \/ Restart

Spec == Init /\ [][Next]_holder
=============================================================================

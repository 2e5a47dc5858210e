--------------------------- MODULE MCReplication ----------------------------
(***************************************************************************)
(* Instances of Replication for TLC.  scope, chosen at the start, spends   *)
(* the bounds on mutations, with one fault or promotion among them, or on  *)
(* faults and promotions, with one mutation among them.                    *)
(***************************************************************************)
EXTENDS Replication

VARIABLE scope

InScope ==
  \/ scope = "mutations" /\ events <= 1
  \/ scope = "faults" /\ ver[Primary] <= 1

ScopedInit == ReplicationInit /\ scope \in {"mutations", "faults"}

ScopedNext == ReplicationNext /\ UNCHANGED scope /\ InScope'

ScopedSpec == ScopedInit /\ [][ScopedNext]_<<replVars, scope>> /\ ReplicationFairness
=============================================================================

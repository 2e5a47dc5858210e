--------------------------- MODULE MCPersistence ----------------------------
(***************************************************************************)
(* Instances of Persistence for TLC.  scope, chosen at the start, spends   *)
(* the bounds on one side of the registry: either nodes come and go, with  *)
(* an operator that flushes and works the breaker and no register in       *)
(* flight during a reaper pass, or networks do, with one node that is      *)
(* never silent and saveLoop alone.                                        *)
(***************************************************************************)
EXTENDS Persistence

VARIABLE scope

InScope ==
  \/ /\ scope = "nodes"
     /\ nextNet = 1 /\ (reap = IdleReaper \/ \A c \in Clients : regs[c] = None)
  \/ /\ scope = "networks"
     /\ nextNode <= 2 /\ \A id \in LiveIDs : ~nodes[id].stale
     /\ ~breakerOpen /\ \A op \in Operators : flush[op] = None

ScopedInit == PersistenceInit /\ scope \in {"nodes", "networks"}

ScopedNext == PersistenceNext /\ UNCHANGED scope /\ InScope'

ScopedSpec == ScopedInit /\ [][ScopedNext]_<<persistVars, scope>>

=============================================================================

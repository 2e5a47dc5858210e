---------------------------- MODULE ReplicaSpec -----------------------------
(***************************************************************************)
(* What replication promises (the consistency model in the header of      *)
(* replication/replication.go): a standby holds, at every moment, a whole  *)
(* state that the primary has had, it may lag behind, it takes a new one   *)
(* from its connection only, and while it runs it takes none of a lower    *)
(* term than the one it is in.                                             *)
(***************************************************************************)
EXTENDS Integers

CONSTANTS
  Standbys,      \* the standby servers
  States         \* the states a registry can be in

VARIABLES
  had,           \* every <<state, term>> the primary has been in
  replica,       \* the state each standby holds
  epoch,         \* the term each standby is in
  online         \* whether each standby has a session with the primary

replicaVars == <<had, replica, epoch, online>>

\* The primary moves to a state of its own.
Publish ==
  /\ had \subseteq had' /\ had' \subseteq States \X Nat
  /\ UNCHANGED <<replica, epoch, online>>

\* A session begins or ends.
Reconnect(b) ==
  /\ online' = [online EXCEPT ![b] = ~@]
  /\ UNCHANGED <<had, replica, epoch>>

\* A standby takes over a state of the primary that is not from a stale term.
Adopt(b) ==
  /\ online[b]
  /\ \E h \in had : /\ h[2] >= epoch[b]
                    /\ replica' = [replica EXCEPT ![b] = h[1]]
                    /\ epoch' = [epoch EXCEPT ![b] = h[2]]
  /\ UNCHANGED <<had, online>>

Promote(b) ==
  /\ epoch' = [epoch EXCEPT ![b] = @ + 1]
  /\ UNCHANGED <<had, replica, online>>

\* A restarted standby is back in a state it was in, at no term, with no session.
Restart(b) ==
  /\ \E h \in had : replica' = [replica EXCEPT ![b] = h[1]]
  /\ epoch' = [epoch EXCEPT ![b] = 0]
  /\ online' = [online EXCEPT ![b] = FALSE]
  /\ UNCHANGED had

ReplicaNext ==
  Publish \/ \E b \in Standbys : Reconnect(b) \/ Adopt(b) \/ Promote(b) \/ Restart(b)

\* All servers start without a snapshot, in one and the same state.
ReplicaInit ==
  \E h \in had :
    /\ had = {h} /\ h[1] \in States /\ h[2] = 0
    /\ replica = [b \in Standbys |-> h[1]]
    /\ epoch = [b \in Standbys |-> 0]
    /\ online = [b \in Standbys |-> FALSE]

Replicated == ReplicaInit /\ [][ReplicaNext]_replicaVars
=============================================================================

---------------------------- MODULE Persistence -----------------------------
(***************************************************************************)
(* Durability of the registry: flushSave in its three steps (copy under    *)
(* the read lock, write, WAL truncation) run by saveLoop and by operators, *)
(* process crash, and the restart that loads the snapshot and replays the  *)
(* WAL through applyDelta, over the handlers of module Membership.         *)
(*                                                                         *)
(* No request is served before the restart is complete, so crash and       *)
(* restart are one action.  A crash of the process loses no byte written   *)
(* to the WAL file.                                                        *)
(***************************************************************************)
EXTENDS Membership, SequencesExt

CONSTANTS
  Operators,     \* operator sessions that trigger a snapshot
  BreakerUsed,   \* whether the breaker snapshot.write is operated
  MaxLog,        \* bound on the entries of the WAL
  QuietFlush,    \* assumption: no WAL entry is written while a flush runs
  IDsRunOut      \* whether the id counters get to wrap

ASSUME PersistenceAssumption ==
  /\ MaxLog \in Nat
  /\ BreakerUsed \in BOOLEAN /\ QuietFlush \in BOOLEAN /\ IDsRunOut \in BOOLEAN
  /\ "saveLoop" \notin Operators

Flushers == Operators \cup {"saveLoop"}

Snapshot ==
  [nodes : [NodeIDs -> OrNone(NodeInfo)], networks : [NetIDs -> OrNone(NetworkInfo)],
   pubKeyIdx : [Keys -> OrNone(NodeIDs)], inviteInbox : [NodeIDs -> SUBSET NetworkInvite],
   nextNode : 0 .. MaxNodeID, nextNet : NetIDs]

VARIABLES
  snap,          \* the snapshot file, None before the first save
  flush,         \* running flushes, by flusher: copied, then written
  dirty,         \* saveLoop's local of that name
  breakerOpen    \* state of the breaker snapshot.write

persistVars == <<membVars, snap, flush, dirty, breakerOpen>>

PersistenceTypeOK ==
  /\ MembershipTypeOK
  /\ snap = None \/ snap \in Snapshot
  /\ DOMAIN flush = Flushers
  /\ \A f \in Flushers : flush[f] # None =>
       \/ flush[f].pc = "copied" /\ flush[f].copy \in Snapshot
       \/ flush[f].pc = "written" /\ flush[f].copy = None
  /\ dirty \in BOOLEAN /\ breakerOpen \in BOOLEAN

PersistenceInit ==
  /\ MembershipInit
  /\ snap = None
  /\ flush = [f \in Flushers |-> None]
  /\ dirty = FALSE
  /\ breakerOpen = FALSE

-----------------------------------------------------------------------------
(* saveLoop and flushSave *)

SaveSignal ==
  /\ saveCh /\ flush["saveLoop"] = None
  /\ saveCh' = FALSE
  /\ dirty' = TRUE
  /\ UNCHANGED <<directoryVars, membershipVars, wal, requestVars, reaperVars,
                 adminReqs, snap, flush, breakerOpen>>

\* Phase 1 under the read lock.
FlushCopy(f) ==
  /\ flush[f] = None
  /\ f = "saveLoop" => dirty
  /\ ~breakerOpen
  /\ flush' = [flush EXCEPT ![f] = [pc |-> "copied", copy |->
       [nodes |-> nodes, networks |-> networks, pubKeyIdx |-> pubKeyIdx,
        inviteInbox |-> inviteInbox, nextNode |-> nextNode, nextNet |-> nextNet]]]
  /\ UNCHANGED <<membVars, snap, dirty, breakerOpen>>

\* With the breaker open flushSave answers nil, which saveLoop takes for a save.
FlushSkipped ==
  /\ flush["saveLoop"] = None /\ dirty /\ breakerOpen
  /\ dirty' = FALSE
  /\ UNCHANGED <<membVars, snap, flush, breakerOpen>>

\* atomicWriteStream renames the file into place, or fails and leaves the old.
FlushWrite(f) ==
  /\ flush[f] # None /\ flush[f].pc = "copied"
  /\ \/ /\ snap' = flush[f].copy
        /\ flush' = [flush EXCEPT ![f] = [pc |-> "written", copy |-> None]]
     \/ /\ flush' = [flush EXCEPT ![f] = None]
        /\ UNCHANGED snap
  /\ UNCHANGED <<membVars, dirty, breakerOpen>>

\* A truncation that fails is logged and the save counts as done.
FlushTruncate(f) ==
  /\ flush[f] # None /\ flush[f].pc = "written"
  /\ wal' \in {<<>>, wal}
  /\ flush' = [flush EXCEPT ![f] = None]
  /\ dirty' = (dirty /\ f # "saveLoop")
  /\ UNCHANGED <<directoryVars, membershipVars, saveCh, requestVars, reaperVars,
                 adminReqs, snap, breakerOpen>>

SetBreaker ==
  /\ BreakerUsed
  /\ breakerOpen' = ~breakerOpen
  /\ UNCHANGED <<membVars, snap, flush, dirty>>

-----------------------------------------------------------------------------
(* Replay: applyDelta on the state st under construction *)

applyRegisterDelta_CounterKept(st, d) ==
  IF st.nodes[d.NodeID] # None THEN st
  ELSE [st EXCEPT
    !.nodes[d.NodeID] =
       [PublicKey |-> d.PublicKey, Owner |-> d.Owner, Hostname |-> d.Hostname,
        Networks |-> {0}, SigVerified |-> FALSE, stale |-> FALSE],
    !.pubKeyIdx[d.PublicKey] = d.NodeID]

applyRegisterDelta(st, d) ==
  IF st.nodes[d.NodeID] # None THEN st
  ELSE [st EXCEPT
    !.nodes[d.NodeID] =
       [PublicKey |-> d.PublicKey, Owner |-> d.Owner, Hostname |-> d.Hostname,
        Networks |-> {0}, SigVerified |-> FALSE, stale |-> FALSE],
    !.pubKeyIdx[d.PublicKey] = d.NodeID,
    !.ownerIdx = Index(@, d.Owner, d.NodeID),
    !.hostnameIdx = Index(@, d.Hostname, d.NodeID),
    !.networks[0] =
       IF @ = None THEN None ELSE [@ EXCEPT !.Members[d.NodeID] = IF @ > 0 THEN @ ELSE 1],
    !.nextNode = IF @ <= d.NodeID THEN NextID(d.NodeID, MaxNodeID) ELSE @]

\* Unlike HandleDeregister it drops the key and the owner from the indexes.
applyDeregisterDelta(st, d) ==
  LET node == st.nodes[d.NodeID]
  IN IF node = None THEN st
     ELSE [st EXCEPT
       !.nodes[d.NodeID] = None,
       !.pubKeyIdx[node.PublicKey] = None,
       !.ownerIdx = Index(@, node.Owner, None),
       !.hostnameIdx = Index(@, node.Hostname, None),
       !.networks = [n \in NetIDs |->
          IF n \in node.Networks /\ @[n] # None THEN WithoutMember(@[n], d.NodeID)
          ELSE @[n]]]

applyNetworkCreateDelta(st, d) ==
  IF st.networks[d.NetworkID] # None THEN st
  ELSE [st EXCEPT
    !.networks[d.NetworkID] =
       [Name |-> d.Name, JoinRule |-> d.JoinRule, Enterprise |-> d.Enterprise,
        Members |-> [NoMembers EXCEPT ![d.CreatorNodeID] = 1],
        MemberRoles |-> [NoRoles EXCEPT ![d.CreatorNodeID] = "owner"],
        MaxMembers |-> 0],
    !.nodes[d.CreatorNodeID] =
       IF @ = None THEN @ ELSE [@ EXCEPT !.Networks = @ \cup {d.NetworkID}],
    !.nextNet = IF @ <= d.NetworkID THEN NextID(d.NetworkID, MaxNetID) ELSE @]

applyNetworkDeleteDelta_Skipped(st, d) == st

applyNetworkDeleteDelta(st, d) ==
  LET net == st.networks[d.NetworkID]
  IN IF net = None THEN st
     ELSE [st EXCEPT
       !.networks[d.NetworkID] = None,
       !.nodes = [id \in NodeIDs |->
          IF @[id] # None /\ net.Members[id] > 0
          THEN [@[id] EXCEPT !.Networks = @ \ {d.NetworkID}] ELSE @[id]]]

applyNetworkMembershipDelta(st, d) ==
  LET net == st.networks[d.NetworkID]
  IN IF net = None \/ st.nodes[d.NodeID] = None THEN st
     ELSE IF d.type = "network_join"
     THEN [st EXCEPT
       !.networks[d.NetworkID] =
          IF net.Members[d.NodeID] > 0 THEN @ ELSE WithMember(@, d.NodeID),
       !.nodes[d.NodeID].Networks = @ \cup {d.NetworkID}]
     ELSE [st EXCEPT
       !.networks[d.NetworkID] = WithoutMember(@, d.NodeID),
       !.nodes[d.NodeID].Networks = @ \ {d.NetworkID}]

applyKeyRotationDelta(st, d) ==
  IF st.nodes[d.NodeID] = None THEN st
  ELSE [st EXCEPT
    !.pubKeyIdx = [@ EXCEPT ![st.nodes[d.NodeID].PublicKey] = None,
                            ![d.NewPublicKey] = d.NodeID],
    !.nodes[d.NodeID].PublicKey = d.NewPublicKey]

applyDelta(st, d) ==
  CASE d.type = "register" -> applyRegisterDelta(st, d)
    [] d.type = "deregister" -> applyDeregisterDelta(st, d)
    [] d.type = "network_create" -> applyNetworkCreateDelta(st, d)
    [] d.type = "network_delete" -> applyNetworkDeleteDelta(st, d)
    [] d.type = "key_rotation" -> applyKeyRotationDelta(st, d)
    [] OTHER -> applyNetworkMembershipDelta(st, d)

replayWAL(st) == FoldLeft(applyDelta, st, wal)

-----------------------------------------------------------------------------
(* Restart *)

\* load restores roles for a network saved without any: the first member
\* becomes owner (meant for snapshots older than roles).
LoadedNetwork(n) ==
  LET net == snap.networks[n]
  IN IF n = 0 \/ net = None \/ net.MemberRoles # NoRoles \/ Roleless(net) = {}
     THEN {net}
     ELSE {[net EXCEPT !.MemberRoles = [id \in NodeIDs |->
              IF id \notin Roleless(net) THEN None
              ELSE IF id = first THEN "owner" ELSE "member"]] : first \in Roleless(net)}

LoadedNetworks ==
  {nets \in [NetIDs -> UNION {LoadedNetwork(n) : n \in NetIDs}] :
     \A n \in NetIDs : nets[n] \in LoadedNetwork(n)}

\* The indexes load can build from one field of the nodes it reads: the nodes
\* come in no particular order and the last one with a given value stays.
IndexesOf(S, field) ==
  {idx \in [S -> OrNone(NodeIDs)] : \A x \in S :
     LET holders == {id \in NodeIDs : snap.nodes[id] # None /\ snap.nodes[id][field] = x}
     IN IF holders = {} THEN idx[x] = None ELSE idx[x] \in holders}

\* The states load can leave behind.  A file that is missing leaves the maps
\* empty, the backbone's included.
LoadedStates ==
  IF snap = None
  THEN {[nodes |-> [id \in NodeIDs |-> None], pubKeyIdx |-> [k \in Keys |-> None],
         ownerIdx |-> [o \in Owners |-> None],
         hostnameIdx |-> [h \in Hostnames |-> None], nextNode |-> 1,
         networks |-> [n \in NetIDs |-> None], nextNet |-> 1]}
  ELSE {[nodes |-> [id \in NodeIDs |->
           IF snap.nodes[id] = None THEN None
           ELSE [snap.nodes[id] EXCEPT !.SigVerified = FALSE]],
         pubKeyIdx |-> [k \in Keys |-> IF keys[k] # None THEN keys[k] ELSE snap.pubKeyIdx[k]],
         ownerIdx |-> owners, hostnameIdx |-> names, nextNode |-> snap.nextNode,
         networks |-> nets, nextNet |-> snap.nextNet] :
        nets \in LoadedNetworks,
        keys \in IndexesOf(Keys, "PublicKey"),
        owners \in IndexesOf(Owners, "Owner"),
        names \in IndexesOf(Hostnames, "Hostname")}

\* After the replay a server that loaded no snapshot creates the backbone.
RestartStates ==
  {IF snap = None THEN [st EXCEPT !.networks[0] = Backbone] ELSE st :
     st \in {replayWAL(loaded) : loaded \in LoadedStates}}

CrashRestart ==
  /\ HasWAL
  /\ \E st \in RestartStates :
       /\ nodes' = st.nodes /\ pubKeyIdx' = st.pubKeyIdx
       /\ ownerIdx' = st.ownerIdx /\ hostnameIdx' = st.hostnameIdx
       /\ nextNode' = st.nextNode
       /\ networks' = st.networks /\ nextNet' = st.nextNet
  /\ inviteInbox' = IF snap = None THEN [id \in NodeIDs |-> {}] ELSE snap.inviteInbox
  /\ saveCh' = FALSE /\ dirty' = FALSE /\ breakerOpen' = FALSE
  /\ flush' = [f \in Flushers |-> None]
  /\ regs' = [c \in Clients |-> None] /\ rots' = [r \in Rotators |-> None]
  /\ reap' = IdleReaper /\ reapCursor' = 0
  /\ adminReqs' = [a \in Admins |-> None]
  /\ UNCHANGED <<wal, snap>>

-----------------------------------------------------------------------------

\* A request, within the bounds and assumptions of the instance.
ServeStep ==
  /\ MembershipNext
  /\ Len(wal') <= MaxLog
  /\ QuietFlush => wal' = wal \/ \A f \in Flushers : flush[f] = None
  /\ ~IDsRunOut => nextNode' # 0 /\ nextNet' # 0
  /\ UNCHANGED <<snap, flush, dirty, breakerOpen>>

PersistenceNext ==
  \/ ServeStep
  \/ SaveSignal
  \/ FlushSkipped
  \/ SetBreaker
  \/ \E f \in Flushers : FlushCopy(f) \/ FlushWrite(f) \/ FlushTruncate(f)
  \/ CrashRestart

PersistenceSpec == PersistenceInit /\ [][PersistenceNext]_persistVars

-----------------------------------------------------------------------------
(* Properties *)

\* Whenever the process dies, the id counters come back as they were: no id
\* that was given to a node or to a network is given out again.  ("The WAL
\* closes the data-loss window between snapshot saves", wal.go.)
CountersDurable ==
  \A st \in RestartStates : st.nextNode = nextNode /\ st.nextNet = nextNet

\* Whenever the process dies, the same networks exist after the restart.
NetworksDurable ==
  \A st \in RestartStates : \A n \in NetIDs : st.networks[n] # None <=> Exists(n)

\* Replaying deltas that the snapshot already holds changes nothing ("Each
\* branch is idempotent", applyDelta): with a snapshot just written and the WAL
\* not yet truncated, the restart gives the state that was saved.
ReplayIdempotent ==
  \A f \in Flushers :
    flush[f] # None /\ flush[f].pc = "written" /\ QuietFlush =>
      RestartStates = LoadedStates
=============================================================================

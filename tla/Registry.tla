------------------------------ MODULE Registry ------------------------------
(***************************************************************************)
(* The in-memory state that the directory, membership, identity and        *)
(* persistence packages of the rendezvous registry share (type Server of   *)
(* server.go), and the helpers through which their handlers change it.     *)
(*                                                                         *)
(* A Go map is a total function here whose value is None at an absent key. *)
(* Every operator below runs while the caller holds Server.mu for writing, *)
(* so an action built from them is one critical section of the code.       *)
(***************************************************************************)
EXTENDS Integers, Sequences, FiniteSets

CONSTANTS
  MaxNodeID,     \* the largest node id (2^32 - 1 in the code)
  MaxNetID,      \* the largest network id (2^16 - 1 in the code)
  Keys,          \* base64 public keys
  Owners,        \* owner strings
  Hostnames,     \* valid hostnames
  NetNames,      \* valid network names
  None,          \* absent key of a map, empty string
  HasWAL,        \* a store path is configured, so the server keeps a WAL
  WALCap         \* entries the WAL takes before Append answers ErrWALFull

NodeIDs == 1 .. MaxNodeID
NetIDs == 0 .. MaxNetID
JoinRules == {"open", "token", "invite"}
Roles == {"owner", "admin", "member"}

ASSUME RegistryAssumption ==
  /\ MaxNodeID \in Nat \ {0}
  /\ MaxNetID \in Nat \ {0}
  /\ WALCap \in Nat
  /\ HasWAL \in BOOLEAN
  /\ None \notin Keys \cup Owners \cup Hostnames \cup NetNames

ASSUME NoneAssumption == None \notin NodeIDs /\ None \notin NetIDs /\ None \notin Roles

OrNone(S) == S \cup {None}

\* stale abstracts LastSeen: it is before the threshold of the reaper pass that
\* is running, or of the next one to start.
NodeInfo ==
  [PublicKey : Keys, Owner : OrNone(Owners), Hostname : OrNone(Hostnames),
   Networks : SUBSET NetIDs, SigVerified : BOOLEAN, stale : BOOLEAN]

\* Members tells how often a node is listed; the order of the list shows only in
\* who becomes owner when roles are made up, which the model leaves open.
NetworkInfo ==
  [Name : OrNone(NetNames), JoinRule : JoinRules, Enterprise : BOOLEAN,
   Members : [NodeIDs -> Nat], MemberRoles : [NodeIDs -> OrNone(Roles)],
   MaxMembers : Nat]

\* expired abstracts Timestamp: the invite is older than InviteTTL.  An inbox
\* holds at most one invite per network, so it is a set.
NetworkInvite == [NetworkID : NetIDs, InviterID : NodeIDs, expired : BOOLEAN]

ASSUME NoneRecordAssumption == None \notin NodeInfo /\ None \notin NetworkInfo

VARIABLES
  nodes,         \* Server.nodes
  pubKeyIdx,     \* Server.pubKeyIdx: key -> node id
  ownerIdx,      \* Server.ownerIdx: owner -> node id
  hostnameIdx,   \* Server.hostnameIdx: hostname -> node id
  nextNode,      \* Server.nextNode, 0 once the ids are exhausted
  networks,      \* Server.networks
  nextNet,       \* Server.nextNet, 0 once the ids are exhausted
  inviteInbox,   \* Server.inviteInbox: node id -> pending invites
  wal,           \* the entries of the WAL file
  saveCh         \* a save is signalled to saveLoop and not yet taken

directoryVars == <<nodes, pubKeyIdx, ownerIdx, hostnameIdx, nextNode>>
membershipVars == <<networks, nextNet, inviteInbox>>
registryVars == <<directoryVars, membershipVars, wal, saveCh>>

RegisterDelta ==
  [type : {"register"}, NodeID : NodeIDs, PublicKey : Keys,
   Owner : OrNone(Owners), Hostname : OrNone(Hostnames)]
DeregisterDelta == [type : {"deregister"}, NodeID : NodeIDs]
KeyRotationDelta ==
  [type : {"key_rotation"}, NodeID : NodeIDs, NewPublicKey : Keys]
NetworkCreateDelta ==
  [type : {"network_create"}, NetworkID : NetIDs, Name : NetNames,
   JoinRule : JoinRules, Enterprise : BOOLEAN, CreatorNodeID : NodeIDs]
NetworkDeleteDelta == [type : {"network_delete"}, NetworkID : NetIDs]
MembershipDelta ==
  [type : {"network_join", "network_leave"}, NodeID : NodeIDs, NetworkID : NetIDs]
Delta ==
  UNION {RegisterDelta, DeregisterDelta, KeyRotationDelta,
         NetworkCreateDelta, NetworkDeleteDelta, MembershipDelta}

RegistryTypeOK ==
  /\ nodes \in [NodeIDs -> OrNone(NodeInfo)]
  /\ pubKeyIdx \in [Keys -> OrNone(NodeIDs)]
  /\ ownerIdx \in [Owners -> OrNone(NodeIDs)]
  /\ hostnameIdx \in [Hostnames -> OrNone(NodeIDs)]
  /\ nextNode \in 0 .. MaxNodeID
  /\ networks \in [NetIDs -> OrNone(NetworkInfo)]
  /\ nextNet \in NetIDs
  /\ inviteInbox \in [NodeIDs -> SUBSET NetworkInvite]
  /\ wal \in Seq(Delta)
  /\ saveCh \in BOOLEAN

-----------------------------------------------------------------------------

Live(id) == nodes[id] # None
LiveIDs == {id \in NodeIDs : Live(id)}

NoRoles == [id \in NodeIDs |-> None]

NoMembers == [id \in NodeIDs |-> 0]

Backbone ==
  [Name |-> None, JoinRule |-> "open", Enterprise |-> FALSE,
   Members |-> NoMembers, MemberRoles |-> NoRoles, MaxMembers |-> 0]

\* A server started without a snapshot: maps empty, ids from 1, the backbone.
RegistryInit ==
  /\ nodes = [id \in NodeIDs |-> None]
  /\ pubKeyIdx = [k \in Keys |-> None]
  /\ ownerIdx = [o \in Owners |-> None]
  /\ hostnameIdx = [h \in Hostnames |-> None]
  /\ nextNode = 1
  /\ networks = [n \in NetIDs |-> IF n = 0 THEN Backbone ELSE None]
  /\ nextNet = 1
  /\ inviteInbox = [id \in NodeIDs |-> {}]
  /\ wal = <<>>
  /\ saveCh = FALSE

Exists(n) == networks[n] # None

IsMember(n, id) == networks[n] # None /\ networks[n].Members[id] > 0

\* The list without one occurrence of id, if it has one.
DropMember(members, id) == [members EXCEPT ![id] = IF @ > 0 THEN @ - 1 ELSE 0]

\* The network without one entry of node id, and without its role.
WithoutMember(net, id) ==
  [net EXCEPT !.Members = DropMember(@, id), !.MemberRoles[id] = None]

\* An id counter is a uint32 (uint16) that wraps to 0.
NextID_Unbounded(id, max) == id + 1
NextID_WrapToOne(id, max) == IF id = max THEN 1 ELSE id + 1

NextID(id, max) == IF id = max THEN 0 ELSE id + 1

\* The index of a map that the code changes only for a non-empty key.
Index(idx, key, id) == IF key = None THEN idx ELSE [idx EXCEPT ![key] = id]

\* WAL.Append refuses an entry beyond the size cap.
WALFull == Len(wal) >= WALCap

\* recordWAL drops the delta when there is no WAL or it is full.
RecordWAL(delta) ==
  wal' = IF HasWAL /\ ~WALFull THEN Append(wal, delta) ELSE wal

Save == saveCh' = TRUE
=============================================================================

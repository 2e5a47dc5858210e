-------------------------- MODULE MembershipSteps ---------------------------
(***************************************************************************)
(* What a request about networks may do to networks, nodes and invite      *)
(* inboxes: six effects, and what each of them means for the maps; that    *)
(* every request has one of them; and what the effects of a step keep:     *)
(* roles, invitations, ids below their counters, owners, and the agreement *)
(* of nodes and member lists.  The effects of the directory's steps are in *)
(* module DirectoryEffects.                                                *)
(***************************************************************************)
EXTENDS Membership, DirectoryEffects

-----------------------------------------------------------------------------
(* Types *)

\* The type invariant with what it needs to be inductive.
NetworkShape ==
  /\ Shape
  /\ adminReqs \in [Admins -> OrNone(RoleRequest \cup PolicyRequest)]

\* Appending a member changes its entry and its role and nothing else.
LEMMA WithMemberFacts ==
  ASSUME NEW net \in NetworkInfo, NEW id \in NodeIDs
  PROVE  /\ WithMember(net, id) \in NetworkInfo
         /\ WithMember(net, id).Members = [net.Members EXCEPT ![id] = @ + 1]
         /\ WithMember(net, id).MemberRoles = [net.MemberRoles EXCEPT ![id] = "member"]
         /\ WithMember(net, id).Enterprise = net.Enterprise
         /\ WithMember(net, id).MaxMembers = net.MaxMembers
<1> DEFINE mem == [net.Members EXCEPT ![id] = @ + 1]
           roles == [net.MemberRoles EXCEPT ![id] = "member"]
<1>1. net.Members \in [NodeIDs -> Nat] /\ net.MemberRoles \in [NodeIDs -> OrNone(Roles)]
  BY DEF NetworkInfo
<1>2. mem \in [NodeIDs -> Nat] /\ roles \in [NodeIDs -> OrNone(Roles)]
  BY <1>1 DEF Roles, OrNone
<1>3. WithMember(net, id) = [net EXCEPT !.Members = mem, !.MemberRoles = roles]
  BY DEF WithMember, NetworkInfo
<1> HIDE DEF mem, roles
<1> QED
  BY <1>2, <1>3, Zenon DEF NetworkInfo, mem, roles

\* AppendNodeNetwork and RemoveNodeNetwork change Networks fields only.
LEMMA AppendNodeFacts ==
  ASSUME Shape, NEW id \in NodeIDs, NEW n \in NetIDs, Live(id), AppendNodeNetwork(id, n)
  PROVE  /\ nodes' \in [NodeIDs -> OrNone(NodeInfo)]
         /\ \A x \in NodeIDs : Live(x)' <=> Live(x)
         /\ \A x \in NodeIDs : Live(x) => nodes'[x].Networks =
              IF x = id THEN nodes[x].Networks \cup {n} ELSE nodes[x].Networks
<1> DEFINE nets == nodes[id].Networks \cup {n}
           node == [nodes[id] EXCEPT !.Networks = nets]
<1>1. nodes[id] \in NodeInfo
  BY DEF Shape, DirectoryTypeOK, RegistryTypeOK, OrNone, Live
<1>2. nets \in SUBSET NetIDs
  BY <1>1 DEF NodeInfo
<1>3. nodes' = [nodes EXCEPT ![id] = node]
  BY DEF AppendNodeNetwork
<1> HIDE DEF nets
<1>4. node \in NodeInfo /\ node.Networks = nets
  BY <1>1, <1>2, Zenon DEF NodeInfo
<1> HIDE DEF node
<1>5. nodes'[id] = node /\ \A x \in NodeIDs \ {id} : nodes'[x] = nodes[x]
  BY <1>3 DEF Shape, DirectoryTypeOK, RegistryTypeOK
<1> QED
  BY <1>1, <1>3, <1>4, <1>5, NodeStored, NoneFacts, Zenon DEF nets, Live

\* RemoveNodeNetwork takes the network from the nodes given.
LEMMA RemoveNodeFacts ==
  ASSUME Shape, NEW ids \in SUBSET NodeIDs, NEW n \in NetIDs, RemoveNodeNetwork(ids, n)
  PROVE  /\ nodes' \in [NodeIDs -> OrNone(NodeInfo)]
         /\ \A x \in NodeIDs : Live(x)' <=> Live(x)
         /\ \A x \in NodeIDs : Live(x) => nodes'[x].Networks =
              IF x \in ids THEN nodes[x].Networks \ {n} ELSE nodes[x].Networks
<1>1. ASSUME NEW x \in NodeIDs
      PROVE  /\ nodes'[x] \in OrNone(NodeInfo)
             /\ nodes'[x] # None <=> nodes[x] # None
             /\ nodes[x] # None => nodes'[x].Networks =
                  IF x \in ids THEN nodes[x].Networks \ {n} ELSE nodes[x].Networks
  <2>1. nodes[x] \in OrNone(NodeInfo)
    BY DEF Shape, DirectoryTypeOK, RegistryTypeOK
  <2>2. CASE x \in ids /\ nodes[x] # None
    <3> DEFINE nets == nodes[x].Networks \ {n}
               node == [nodes[x] EXCEPT !.Networks = nets]
    <3>1. nodes[x] \in NodeInfo
      BY <2>1, <2>2 DEF OrNone
    <3>2. nets \in SUBSET NetIDs
      BY <3>1 DEF NodeInfo
    <3>3. nodes'[x] = node
      BY <2>2, Zenon DEF RemoveNodeNetwork, Live
    <3> HIDE DEF nets
    <3>4. node \in NodeInfo /\ node.Networks = nets
      BY <3>1, <3>2, Zenon DEF NodeInfo
    <3> HIDE DEF node
    <3> QED
      BY <2>2, <3>3, <3>4, NoneFacts, Zenon DEF nets, OrNone
  <2>3. CASE ~(x \in ids /\ nodes[x] # None)
    <3>1. nodes'[x] = nodes[x]
      BY <2>3, Zenon DEF RemoveNodeNetwork, Live
    <3> QED
      BY <2>1, <2>3, <3>1, Zenon
  <2> QED
    BY <2>2, <2>3, Zenon
<1>2. nodes' = [x \in NodeIDs |-> nodes'[x]]
  BY Zenon DEF RemoveNodeNetwork
<1> QED
  BY <1>1, <1>2, Zenon DEF Live

-----------------------------------------------------------------------------
(* The effects of the requests about networks *)

RequestTypes == OrNone(RoleRequest \cup PolicyRequest)

\* What every such request leaves alone, and what it may do to the inboxes and
\* to the requests in flight: an invite that appears is to a network that
\* exists, and a request is admitted for an enterprise network only.
RequestFrame ==
  /\ UNCHANGED directoryFrame
  /\ wal' \in Seq(Delta) /\ saveCh' \in BOOLEAN
  /\ inviteInbox' \in [NodeIDs -> SUBSET NetworkInvite]
  /\ \A t \in NodeIDs : \A inv \in inviteInbox'[t] :
       Exists(inv.NetworkID) \/ \E old \in inviteInbox[t] : old.NetworkID = inv.NetworkID
  /\ adminReqs' \in [Admins -> RequestTypes]
  /\ \A a \in Admins : adminReqs'[a] # None =>
       adminReqs'[a] = adminReqs[a] \/ EnterpriseNet(adminReqs'[a].net)

SingleOwner(roles) ==
  \A a, b \in NodeIDs : roles[a] = "owner" /\ roles[b] = "owner" => a = b

\* No network, node or counter changes.
SameNetworks == UNCHANGED <<nodes, networks, nextNet>>

\* Node id creates network nextNet, its owner and only member.
Created(id) ==
  /\ Live(id) /\ nextNet # 0
  /\ nextNet' = NextID(nextNet, MaxNetID)
  /\ AppendNodeNetwork(id, nextNet)
  /\ \E net \in NetworkInfo :
       /\ networks' = [networks EXCEPT ![nextNet] = net]
       /\ net.Members = [NoMembers EXCEPT ![id] = 1]
       /\ net.MemberRoles = [NoRoles EXCEPT ![id] = "owner"]

\* Node id joins network n.
Joined(id, n) ==
  /\ Live(id) /\ Exists(n) /\ n \notin nodes[id].Networks /\ RoomIn(networks[n])
  /\ networks' = [networks EXCEPT ![n] = WithMember(networks[n], id)]
  /\ AppendNodeNetwork(id, n)
  /\ nextNet' = nextNet

\* Node id is taken out of network n, which does not cost an enterprise network
\* its owner.
Removed(id, n) ==
  /\ Exists(n)
  /\ ~(networks[n].Enterprise /\ networks[n].MemberRoles[id] = "owner")
  /\ networks' = [networks EXCEPT ![n] = WithoutMember(networks[n], id)]
  /\ RemoveNodeNetwork({id}, n)
  /\ nextNet' = nextNet

\* Network n goes, and with it the invites to it.
Deleted(n) ==
  /\ n # 0 /\ Exists(n)
  /\ networks' = [networks EXCEPT ![n] = None]
  /\ RemoveNodeNetwork({id \in NodeIDs : IsMember(n, id)}, n)
  /\ \A t \in NodeIDs : \A inv \in inviteInbox'[t] : inv.NetworkID # n
  /\ nextNet' = nextNet

\* Network n keeps its members; a role it gains is a member's, it does not get a
\* second owner, and it loses its owner only with the enterprise flag.
Changed(n) ==
  /\ Exists(n)
  /\ \E net \in NetworkInfo :
       /\ networks' = [networks EXCEPT ![n] = net]
       /\ net.Members = networks[n].Members
       /\ \A id \in NodeIDs : net.MemberRoles[id] # None =>
            networks[n].MemberRoles[id] # None \/ net.Members[id] > 0
       /\ SingleOwner(networks[n].MemberRoles) => SingleOwner(net.MemberRoles)
       /\ HasOwner(networks[n].MemberRoles) => HasOwner(net.MemberRoles) \/ ~net.Enterprise
       /\ n = 0 => net.Enterprise = networks[n].Enterprise
                   /\ net.MaxMembers = networks[n].MaxMembers
  /\ UNCHANGED <<nodes, nextNet>>

MembershipEffect ==
  \/ SameNetworks
  \/ \E id \in NodeIDs : Created(id)
  \/ \E id \in NodeIDs, n \in NetIDs : Joined(id, n) \/ Removed(id, n)
  \/ \E n \in NetIDs : Deleted(n) \/ Changed(n)

\* No request in flight is about the backbone, which is no enterprise network
\* and has no member limit: set_network_policy checks the flag only when it
\* admits a request.
BackbonePlain ==
  /\ ~networks[0].Enterprise /\ networks[0].MaxMembers = 0
  /\ \A a \in Admins : adminReqs[a] # None => adminReqs[a].net # 0

-----------------------------------------------------------------------------
(* Types, and ids below the counters *)

\* The maps keep their types, no node comes or goes, the backbone stays.
LEMMA EffectMaps ==
  ASSUME Shape, MembershipEffect
  PROVE  /\ nodes' \in [NodeIDs -> OrNone(NodeInfo)]
         /\ \A x \in NodeIDs : Live(x)' <=> Live(x)
         /\ networks' \in [NetIDs -> OrNone(NetworkInfo)] /\ networks'[0] # None
         /\ nextNet' \in NetIDs
<1>1. /\ nodes \in [NodeIDs -> OrNone(NodeInfo)] /\ nextNet \in NetIDs
      /\ networks \in [NetIDs -> OrNone(NetworkInfo)] /\ networks[0] # None
  BY DEF Shape, DirectoryTypeOK, RegistryTypeOK
<1>2. CASE SameNetworks
  BY <1>1, <1>2 DEF SameNetworks, Live
<1>3. ASSUME NEW id \in NodeIDs, Created(id)
      PROVE  /\ nodes' \in [NodeIDs -> OrNone(NodeInfo)]
             /\ \A x \in NodeIDs : Live(x)' <=> Live(x)
             /\ networks' \in [NetIDs -> OrNone(NetworkInfo)] /\ networks'[0] # None
             /\ nextNet' \in NetIDs
  <2>1. PICK net \in NetworkInfo : networks' = [networks EXCEPT ![nextNet] = net]
    BY <1>3, Zenon DEF Created
  <2>2. nextNet' \in NetIDs
    <3>1. nextNet' = NextID(nextNet, MaxNetID)
      BY <1>3 DEF Created
    <3> QED
      BY <1>1, <3>1, RegistryAssumption DEF NextID, NetIDs
  <2> QED
    BY <1>1, <1>3, <2>1, <2>2, NetworkStored, AppendNodeFacts, Zenon DEF Created
<1>4. ASSUME NEW id \in NodeIDs, NEW n \in NetIDs, Joined(id, n) \/ Removed(id, n)
      PROVE  /\ nodes' \in [NodeIDs -> OrNone(NodeInfo)]
             /\ \A x \in NodeIDs : Live(x)' <=> Live(x)
             /\ networks' \in [NetIDs -> OrNone(NetworkInfo)] /\ networks'[0] # None
             /\ nextNet' \in NetIDs
  <2>1. networks[n] \in NetworkInfo
    BY <1>4, NetworkType DEF Joined, Removed
  <2>2. PICK net \in NetworkInfo : networks' = [networks EXCEPT ![n] = net]
    BY <1>4, <2>1, WithMemberFacts, WithoutMemberFacts, Zenon DEF Joined, Removed
  <2>3. {id} \in SUBSET NodeIDs
    BY Zenon
  <2>4. nodes' \in [NodeIDs -> OrNone(NodeInfo)] /\ \A x \in NodeIDs : Live(x)' <=> Live(x)
    BY <1>4, <2>3, AppendNodeFacts, RemoveNodeFacts, Zenon DEF Joined, Removed
  <2> QED
    BY <1>1, <1>4, <2>2, <2>4, NetworkStored, Zenon DEF Joined, Removed
<1>5. ASSUME NEW n \in NetIDs, Deleted(n)
      PROVE  /\ nodes' \in [NodeIDs -> OrNone(NodeInfo)]
             /\ \A x \in NodeIDs : Live(x)' <=> Live(x)
             /\ networks' \in [NetIDs -> OrNone(NetworkInfo)] /\ networks'[0] # None
             /\ nextNet' \in NetIDs
  <2> DEFINE ids == {id \in NodeIDs : IsMember(n, id)}
  <2>1. ids \in SUBSET NodeIDs /\ RemoveNodeNetwork(ids, n)
    BY <1>5, Zenon DEF Deleted
  <2> HIDE DEF ids
  <2>2. nodes' \in [NodeIDs -> OrNone(NodeInfo)] /\ \A x \in NodeIDs : Live(x)' <=> Live(x)
    BY <2>1, RemoveNodeFacts, Zenon
  <2> QED
    BY <1>1, <1>5, <2>2, SMTT(30) DEF Deleted, OrNone
<1>6. ASSUME NEW n \in NetIDs, Changed(n)
      PROVE  /\ nodes' \in [NodeIDs -> OrNone(NodeInfo)]
             /\ \A x \in NodeIDs : Live(x)' <=> Live(x)
             /\ networks' \in [NetIDs -> OrNone(NetworkInfo)] /\ networks'[0] # None
             /\ nextNet' \in NetIDs
  <2>1. PICK net \in NetworkInfo : networks' = [networks EXCEPT ![n] = net]
    BY <1>6, Zenon DEF Changed
  <2> QED
    BY <1>1, <1>6, <2>1, NetworkStored, Zenon DEF Changed, Live
<1> QED
  BY <1>2, <1>3, <1>4, <1>5, <1>6, Zenon DEF MembershipEffect

\* The networks after a create_network, entry by entry.
LEMMA CreatedFacts ==
  ASSUME Shape, NEW id \in NodeIDs, Created(id)
  PROVE  /\ nextNet \in NetIDs /\ nextNet # 0 /\ networks'[nextNet] # None
         /\ \A x \in NodeIDs :
              /\ networks'[nextNet].Members[x] = IF x = id THEN 1 ELSE 0
              /\ networks'[nextNet].MemberRoles[x] = IF x = id THEN "owner" ELSE None
         /\ \A m \in NetIDs \ {nextNet} : networks'[m] = networks[m]
<1>1. PICK net \in NetworkInfo : /\ networks' = [networks EXCEPT ![nextNet] = net]
                                 /\ net.Members = [NoMembers EXCEPT ![id] = 1]
                                 /\ net.MemberRoles = [NoRoles EXCEPT ![id] = "owner"]
  BY Zenon DEF Created
<1>2. nextNet \in NetIDs /\ nextNet # 0
  BY DEF Shape, DirectoryTypeOK, RegistryTypeOK, Created
<1>3. /\ networks'[nextNet] = net /\ net # None
      /\ \A m \in NetIDs \ {nextNet} : networks'[m] = networks[m]
  BY <1>1, <1>2, NetworkStored, Zenon
<1>4. \A x \in NodeIDs : /\ net.Members[x] = IF x = id THEN 1 ELSE 0
                         /\ net.MemberRoles[x] = IF x = id THEN "owner" ELSE None
  BY <1>1, Zenon DEF NoMembers, NoRoles
<1> QED
  BY <1>2, <1>3, <1>4, Zenon

\* A join counts the node once more and makes it a plain member.
LEMMA JoinedFacts ==
  ASSUME Shape, NEW id \in NodeIDs, NEW n \in NetIDs, Joined(id, n)
  PROVE  /\ Exists(n) /\ Exists(n)' /\ networks[n].Members \in [NodeIDs -> Nat]
         /\ \A x \in NodeIDs :
              /\ networks'[n].Members[x] = networks[n].Members[x] + (IF x = id THEN 1 ELSE 0)
              /\ networks'[n].MemberRoles[x] =
                   IF x = id THEN "member" ELSE networks[n].MemberRoles[x]
         /\ networks'[n].Enterprise = networks[n].Enterprise
         /\ networks'[n].MaxMembers = networks[n].MaxMembers
         /\ \A m \in NetIDs \ {n} : networks'[m] = networks[m]
<1> DEFINE net == WithMember(networks[n], id)
<1>1. /\ Exists(n) /\ networks[n] \in NetworkInfo /\ networks[n].Members \in [NodeIDs -> Nat]
      /\ networks[n].MemberRoles \in [NodeIDs -> OrNone(Roles)]
  BY NetworkType, Zenon DEF Joined
<1>2. /\ net \in NetworkInfo
      /\ net.Members = [networks[n].Members EXCEPT ![id] = @ + 1]
      /\ net.MemberRoles = [networks[n].MemberRoles EXCEPT ![id] = "member"]
      /\ net.Enterprise = networks[n].Enterprise /\ net.MaxMembers = networks[n].MaxMembers
  BY <1>1, WithMemberFacts, Zenon
<1>3. networks' = [networks EXCEPT ![n] = net]
  BY DEF Joined
<1> HIDE DEF net
<1>4. /\ networks'[n] = net /\ net # None
      /\ \A m \in NetIDs \ {n} : networks'[m] = networks[m]
  BY <1>2, <1>3, NetworkStored, Zenon
<1>5. \A x \in NodeIDs :
        /\ net.Members[x] = networks[n].Members[x] + (IF x = id THEN 1 ELSE 0)
        /\ net.MemberRoles[x] = IF x = id THEN "member" ELSE networks[n].MemberRoles[x]
  BY <1>1, <1>2
<1> QED
  BY <1>1, <1>2, <1>4, <1>5, Zenon DEF Exists

\* A removal drops one listing and the role.
LEMMA RemovedFacts ==
  ASSUME Shape, NEW id \in NodeIDs, NEW n \in NetIDs, Removed(id, n)
  PROVE  /\ Exists(n) /\ Exists(n)' /\ networks[n].Members \in [NodeIDs -> Nat]
         /\ \A x \in NodeIDs :
              /\ networks'[n].Members[x] =
                   IF x = id /\ networks[n].Members[x] > 0 THEN networks[n].Members[x] - 1
                   ELSE networks[n].Members[x]
              /\ networks'[n].MemberRoles[x] =
                   IF x = id THEN None ELSE networks[n].MemberRoles[x]
         /\ networks'[n].Enterprise = networks[n].Enterprise
         /\ networks'[n].MaxMembers = networks[n].MaxMembers
         /\ \A m \in NetIDs \ {n} : networks'[m] = networks[m]
<1> DEFINE net == WithoutMember(networks[n], id)
<1>1. /\ Exists(n) /\ networks[n] \in NetworkInfo /\ networks[n].Members \in [NodeIDs -> Nat]
      /\ networks[n].MemberRoles \in [NodeIDs -> OrNone(Roles)]
  BY NetworkType, Zenon DEF Removed
<1>2. /\ net \in NetworkInfo
      /\ net.Members = [networks[n].Members EXCEPT ![id] = IF @ > 0 THEN @ - 1 ELSE 0]
      /\ net.MemberRoles = [networks[n].MemberRoles EXCEPT ![id] = None]
      /\ net.Enterprise = networks[n].Enterprise /\ net.MaxMembers = networks[n].MaxMembers
  BY <1>1, WithoutMemberFacts, Zenon
<1>3. networks' = [networks EXCEPT ![n] = net]
  BY DEF Removed
<1> HIDE DEF net
<1>4. /\ networks'[n] = net /\ net # None
      /\ \A m \in NetIDs \ {n} : networks'[m] = networks[m]
  BY <1>2, <1>3, NetworkStored, Zenon
<1>5. \A x \in NodeIDs :
        /\ net.Members[x] = IF x = id /\ networks[n].Members[x] > 0
                            THEN networks[n].Members[x] - 1 ELSE networks[n].Members[x]
        /\ net.MemberRoles[x] = IF x = id THEN None ELSE networks[n].MemberRoles[x]
  BY <1>1, <1>2
<1> QED
  BY <1>1, <1>2, <1>4, <1>5, Zenon DEF Exists

\* A deletion touches one network.
LEMMA DeletedFacts ==
  ASSUME Shape, NEW n \in NetIDs, Deleted(n)
  PROVE  ~Exists(n)' /\ \A m \in NetIDs \ {n} : networks'[m] = networks[m]
BY Zenon DEF Deleted, Exists, Shape, DirectoryTypeOK, RegistryTypeOK

\* A change of a network keeps the listings.
LEMMA ChangedFacts ==
  ASSUME Shape, NEW n \in NetIDs, Changed(n)
  PROVE  /\ Exists(n) /\ Exists(n)'
         /\ networks'[n].Members = networks[n].Members
         /\ \A x \in NodeIDs : networks'[n].MemberRoles[x] # None =>
              networks[n].MemberRoles[x] # None \/ networks[n].Members[x] > 0
         /\ SingleOwner(networks[n].MemberRoles) => SingleOwner(networks'[n].MemberRoles)
         /\ HasOwner(networks[n].MemberRoles) =>
              HasOwner(networks'[n].MemberRoles) \/ ~networks'[n].Enterprise
         /\ n = 0 => /\ networks'[n].Enterprise = networks[n].Enterprise
                     /\ networks'[n].MaxMembers = networks[n].MaxMembers
         /\ \A m \in NetIDs \ {n} : networks'[m] = networks[m]
<1>1. PICK net \in NetworkInfo :
        /\ networks' = [networks EXCEPT ![n] = net]
        /\ net.Members = networks[n].Members
        /\ \A id \in NodeIDs : net.MemberRoles[id] # None =>
             networks[n].MemberRoles[id] # None \/ net.Members[id] > 0
        /\ SingleOwner(networks[n].MemberRoles) => SingleOwner(net.MemberRoles)
        /\ HasOwner(networks[n].MemberRoles) => HasOwner(net.MemberRoles) \/ ~net.Enterprise
        /\ n = 0 => net.Enterprise = networks[n].Enterprise
                    /\ net.MaxMembers = networks[n].MaxMembers
  BY Zenon DEF Changed
<1>2. /\ networks'[n] = net /\ net # None
      /\ \A m \in NetIDs \ {n} : networks'[m] = networks[m]
  BY <1>1, NetworkStored, Zenon
<1> QED
  BY <1>1, <1>2, Zenon DEF Changed, Exists

\* Requests about networks keep the types.
LEMMA ShapeEffect ==
  ASSUME NetworkShape, RequestFrame, MembershipEffect
  PROVE  NetworkShape'
<1>1. /\ nodes' \in [NodeIDs -> OrNone(NodeInfo)]
      /\ \A x \in NodeIDs : Live(x)' <=> Live(x)
      /\ networks' \in [NetIDs -> OrNone(NetworkInfo)] /\ networks'[0] # None
      /\ nextNet' \in NetIDs
  BY EffectMaps, Zenon DEF NetworkShape
<1>2. UNCHANGED <<pubKeyIdx, ownerIdx, hostnameIdx, nextNode, regs, rots, reap, reapCursor>>
  BY DEF RequestFrame, directoryFrame, requestVars, reaperVars
<1>3. regs' \in [Clients -> OrNone(Request)] /\ FastLive'
  BY <1>1, <1>2, RequestsKept, Zenon DEF NetworkShape
<1>4. /\ wal' \in Seq(Delta) /\ saveCh' \in BOOLEAN
      /\ inviteInbox' \in [NodeIDs -> SUBSET NetworkInvite]
      /\ adminReqs' \in [Admins -> RequestTypes]
  BY SMTT(30) DEF RequestFrame
<1>5. RegistryTypeOK'
  BY <1>1, <1>2, <1>4, Zenon DEF NetworkShape, Shape, DirectoryTypeOK, RegistryTypeOK
<1>6. Shape'
  BY <1>1, <1>2, <1>3, <1>5, Zenon DEF NetworkShape, Shape, DirectoryTypeOK
<1> QED
  BY <1>4, <1>6, Zenon DEF NetworkShape, RequestTypes

\* A member that appears is a live node, so no request about networks brings
\* an id into use.
LEMMA IDsBelowEffect ==
  ASSUME NetworkShape, IDsBelowNext, RequestFrame, MembershipEffect
  PROVE  IDsBelowNext'
<1> USE DEF NetworkShape
<1>1. \A x \in NodeIDs : Live(x)' <=> Live(x)
  BY EffectMaps, Zenon
<1>2. ASSUME NEW m \in NetIDs, NEW x \in NodeIDs, IsMember(m, x)'
      PROVE  IsMember(m, x) \/ Live(x)
  <2>1. CASE SameNetworks
    BY <1>2, <2>1, Zenon DEF SameNetworks, IsMember
  <2>2. ASSUME NEW id \in NodeIDs, Created(id) PROVE IsMember(m, x) \/ Live(x)
    <3>1. Live(id)
      BY <2>2, Zenon DEF Created
    <3>2. /\ \A y \in NodeIDs : networks'[nextNet].Members[y] = IF y = id THEN 1 ELSE 0
          /\ \A k \in NetIDs \ {nextNet} : networks'[k] = networks[k]
      BY <2>2, CreatedFacts, Zenon
    <3> QED
      BY <1>2, <3>1, <3>2 DEF IsMember
  <2>3. ASSUME NEW id \in NodeIDs, NEW n \in NetIDs, Joined(id, n) \/ Removed(id, n)
        PROVE  IsMember(m, x) \/ Live(x)
    <3>1. CASE Joined(id, n)
      <4>1. Live(id) /\ Exists(n)
        BY <3>1, Zenon DEF Joined
      <4>2. /\ \A y \in NodeIDs : networks'[n].Members[y] =
                 networks[n].Members[y] + (IF y = id THEN 1 ELSE 0)
            /\ networks[n].Members \in [NodeIDs -> Nat]
            /\ \A k \in NetIDs \ {n} : networks'[k] = networks[k]
        BY <3>1, JoinedFacts, SMTT(30)
      <4> QED
        BY <1>2, <4>1, <4>2, SMTT(30) DEF IsMember, Exists
    <3>2. CASE Removed(id, n)
      BY <1>2, <3>2, RemovedFacts, Zenon DEF IsMember, Exists
    <3> QED
      BY <2>3, <3>1, <3>2, Zenon
  <2>4. ASSUME NEW n \in NetIDs, Deleted(n) PROVE IsMember(m, x)
    BY <1>2, <2>4, Zenon DEF Deleted, IsMember, Shape, DirectoryTypeOK, RegistryTypeOK
  <2>5. ASSUME NEW n \in NetIDs, Changed(n) PROVE IsMember(m, x)
    <3>1. PICK net \in NetworkInfo : /\ networks' = [networks EXCEPT ![n] = net]
                                     /\ net.Members = networks[n].Members
      BY <2>5, Zenon DEF Changed
    <3> QED
      BY <1>2, <2>5, <3>1, NetworkStored, Zenon DEF IsMember, Changed, Exists
  <2> QED
    BY <2>1, <2>2, <2>3, <2>4, <2>5, Zenon DEF MembershipEffect
<1>3. UNCHANGED <<pubKeyIdx, ownerIdx, hostnameIdx, nextNode, rots>>
  BY Zenon DEF RequestFrame, directoryFrame, requestVars
<1>4. ASSUME NEW x \in NodeIDs, UsedID(x)' PROVE UsedID(x)
  BY <1>1, <1>2, <1>3, <1>4, Zenon DEF UsedID
<1> QED
  BY <1>3, <1>4, Zenon DEF IDsBelowNext

-----------------------------------------------------------------------------
(* Requests *)

\* A request in flight that names a member, or a limit, has the fields for it.
LEMMA RequestFields ==
  ASSUME NetworkShape, NEW a \in Admins, adminReqs[a] # None
  PROVE  /\ adminReqs[a].net \in NetIDs
         /\ adminReqs[a].op # "policy" => adminReqs[a].target \in NodeIDs
         /\ adminReqs[a].op = "policy" => adminReqs[a].max \in Nat
<1>1. adminReqs[a] \in RoleRequest \cup PolicyRequest
  BY DEF NetworkShape, OrNone
<1> QED
  BY <1>1, MembershipAssumption, Zenon DEF RoleRequest, PolicyRequest

\* The frame of a request that sends no invite and is admitted already.
LEMMA FrameFacts ==
  ASSUME NetworkShape, UNCHANGED directoryFrame,
         wal' = wal \/ \E d \in Delta : RecordWAL(d),
         saveCh' = saveCh \/ Save,
         adminReqs' = adminReqs \/ \E a \in Admins : adminReqs' = [adminReqs EXCEPT ![a] = None],
         inviteInbox' = [t \in NodeIDs |-> inviteInbox'[t]],
         \A t \in NodeIDs : inviteInbox'[t] \subseteq inviteInbox[t]
  PROVE  RequestFrame
<1>1. wal' \in Seq(Delta) /\ saveCh' \in BOOLEAN
  BY WALType, Zenon DEF NetworkShape, Shape, DirectoryTypeOK, RegistryTypeOK, Save
<1>2. /\ inviteInbox' \in [NodeIDs -> SUBSET NetworkInvite]
      /\ \A t \in NodeIDs : \A inv \in inviteInbox'[t] :
           \E old \in inviteInbox[t] : old.NetworkID = inv.NetworkID
  BY DEF NetworkShape, Shape, DirectoryTypeOK, RegistryTypeOK
<1>3. /\ adminReqs' \in [Admins -> RequestTypes]
      /\ \A a \in Admins : adminReqs'[a] # None => adminReqs'[a] = adminReqs[a]
  BY DEF NetworkShape, RequestTypes, OrNone
<1> QED
  BY <1>1, <1>2, <1>3, Zenon DEF RequestFrame

\* create_network.
LEMMA CreateEffect ==
  ASSUME NetworkShape, NEW id \in NodeIDs, NEW name \in NetNames, NEW rule \in RuleChoices,
         NEW enterprise \in FlagChoices, CreateNetwork(id, name, rule, enterprise)
  PROVE  RequestFrame /\ Created(id)
<1> DEFINE net == [Name |-> name, JoinRule |-> rule, Enterprise |-> enterprise,
                   Members |-> [NoMembers EXCEPT ![id] = 1],
                   MemberRoles |-> [NoRoles EXCEPT ![id] = "owner"], MaxMembers |-> 0]
           d == [type |-> "network_create", NetworkID |-> nextNet, Name |-> name,
                 JoinRule |-> rule, Enterprise |-> enterprise, CreatorNodeID |-> id]
<1>1. rule \in JoinRules /\ enterprise \in BOOLEAN /\ nextNet \in NetIDs
  BY MembershipAssumption, Zenon DEF NetworkShape, Shape, DirectoryTypeOK, RegistryTypeOK
<1>2. net \in NetworkInfo
  <2>1. /\ [NoMembers EXCEPT ![id] = 1] \in [NodeIDs -> Nat]
        /\ [NoRoles EXCEPT ![id] = "owner"] \in [NodeIDs -> OrNone(Roles)]
    BY DEF NoMembers, NoRoles, OrNone, Roles
  <2> QED
    BY <1>1, <2>1, Zenon DEF NetworkInfo, OrNone
<1>3. d \in Delta
  BY <1>1 DEF Delta, NetworkCreateDelta
<1>4. Created(id)
  <2>1. networks' = [networks EXCEPT ![nextNet] = net]
    BY DEF CreateNetwork
  <2>2. net.Members = [NoMembers EXCEPT ![id] = 1] /\ net.MemberRoles = [NoRoles EXCEPT ![id] = "owner"]
    OBVIOUS
  <2> HIDE DEF net
  <2> QED
    BY <1>2, <2>1, <2>2, Zenon DEF CreateNetwork, Created
<1>5. RequestFrame
  <2>1. inviteInbox' = inviteInbox /\ inviteInbox = [t \in NodeIDs |-> inviteInbox[t]]
    BY Zenon DEF CreateNetwork, NetworkShape, Shape, DirectoryTypeOK, RegistryTypeOK
  <2>2. RecordWAL(d) /\ Save /\ UNCHANGED <<directoryFrame, adminReqs>>
    BY DEF CreateNetwork
  <2> HIDE DEF d
  <2> QED
    BY <1>3, <2>1, <2>2, FrameFacts, Zenon
<1> QED
  BY <1>4, <1>5, Zenon

\* The membership deltas of join_network and leave_network.
LEMMA MembershipDeltas ==
  ASSUME NEW id \in NodeIDs, NEW n \in NetIDs
  PROVE  /\ [type |-> "network_join", NodeID |-> id, NetworkID |-> n] \in Delta
         /\ [type |-> "network_leave", NodeID |-> id, NetworkID |-> n] \in Delta
         /\ [type |-> "network_delete", NetworkID |-> n] \in Delta
BY DEF Delta, MembershipDelta, NetworkDeleteDelta

\* The inboxes are a function, so leaving them alone leaves each one alone.
LEMMA InboxSame ==
  ASSUME NetworkShape, inviteInbox' = inviteInbox
  PROVE  /\ inviteInbox' = [t \in NodeIDs |-> inviteInbox'[t]]
         /\ \A t \in NodeIDs : inviteInbox'[t] \subseteq inviteInbox[t]
BY Zenon DEF NetworkShape, Shape, DirectoryTypeOK, RegistryTypeOK

\* The ways the code drops invites.
LEMMA InboxDrops ==
  ASSUME NetworkShape, NEW id \in NodeIDs, NEW n \in NetIDs,
         \/ DropInvitesTo(n) \/ DropOwnInvites(id, n) \/ DropInvitesOfMember(id, n)
  PROVE  /\ inviteInbox' = [t \in NodeIDs |-> inviteInbox'[t]]
         /\ \A t \in NodeIDs : inviteInbox'[t] \subseteq inviteInbox[t]
BY DEF NetworkShape, Shape, DirectoryTypeOK, RegistryTypeOK, DropInvitesTo, DropOwnInvites,
   DropInvitesOfMember

\* join_network and the acceptance of an invite.
LEMMA JoinEffect ==
  ASSUME NetworkShape, NEW id \in NodeIDs, NEW n \in NetIDs,
         JoinNetwork(id, n) \/ AcceptInvite(id, n)
  PROVE  RequestFrame /\ Joined(id, n)
<1>1. Joined(id, n)
  BY DEF JoinNetwork, AcceptInvite, Joined
<1>2. CASE JoinNetwork(id, n)
  <2>1. /\ RecordWAL([type |-> "network_join", NodeID |-> id, NetworkID |-> n]) /\ Save
        /\ UNCHANGED <<directoryFrame, inviteInbox, adminReqs>>
    BY <1>2 DEF JoinNetwork
  <2>2. \E d \in Delta : RecordWAL(d)
    BY <2>1, MembershipDeltas, Zenon
  <2> QED
    BY <1>1, <2>1, <2>2, InboxSame, FrameFacts, Zenon
<1>3. CASE AcceptInvite(id, n)
  <2>1. DropOwnInvites(id, n) /\ Save /\ UNCHANGED <<directoryFrame, wal, adminReqs>>
    BY <1>3 DEF AcceptInvite
  <2> QED
    BY <1>1, <2>1, InboxDrops, FrameFacts, Zenon
<1> QED
  BY <1>2, <1>3, Zenon

\* leave_network, kick_member and the operator's kick.
LEMMA LeaveEffect ==
  ASSUME NetworkShape, NEW id \in NodeIDs, NEW n \in NetIDs,
         LeaveNetwork(id, n) \/ AdminKickMember(n, id)
  PROVE  RequestFrame /\ Removed(id, n)
<1>1. Removed(id, n)
  BY DEF LeaveNetwork, AdminKickMember, Removed
<1>2. CASE LeaveNetwork(id, n)
  <2>1. /\ RecordWAL([type |-> "network_leave", NodeID |-> id, NetworkID |-> n]) /\ Save
        /\ DropInvitesOfMember(id, n)
        /\ UNCHANGED <<directoryFrame, adminReqs>>
    BY <1>2 DEF LeaveNetwork
  <2>2. \E d \in Delta : RecordWAL(d)
    BY <2>1, MembershipDeltas, Zenon
  <2> QED
    BY <1>1, <2>1, <2>2, InboxDrops, FrameFacts, Zenon
<1>3. CASE AdminKickMember(n, id)
  <2>1. UNCHANGED <<directoryFrame, inviteInbox, wal, saveCh, adminReqs>>
    BY <1>3, Zenon DEF AdminKickMember
  <2> QED
    BY <1>1, <2>1, InboxSame, FrameFacts, Zenon
<1> QED
  BY <1>2, <1>3, Zenon

\* kick_member, once admitted.
LEMMA KickEffect ==
  ASSUME NetworkShape, NEW a \in Admins, KickMember(a)
  PROVE  RequestFrame /\ \E id \in NodeIDs, n \in NetIDs : Removed(id, n)
<1> DEFINE req == adminReqs[a]
<1>1. req # None /\ req.op = "kick"
  BY Zenon DEF KickMember
<1>2. req.net \in NetIDs /\ req.target \in NodeIDs
  BY <1>1, RequestFields, Zenon
<1>3. /\ Exists(req.net) /\ networks[req.net].MemberRoles[req.target] # "owner"
      /\ networks' = [networks EXCEPT ![req.net] = WithoutMember(@, req.target)]
      /\ RemoveNodeNetwork({req.target}, req.net)
      /\ DropInvitesOfMember(req.target, req.net)
      /\ Save /\ adminReqs' = [adminReqs EXCEPT ![a] = None]
      /\ UNCHANGED <<directoryFrame, nextNet, wal>>
  BY SMTT(30) DEF KickMember, Kickable
<1>4. Removed(req.target, req.net)
  BY <1>3, Zenon DEF Removed
<1>5. RequestFrame
  BY <1>2, <1>3, InboxDrops, FrameFacts, Zenon
<1> QED
  BY <1>2, <1>4, <1>5, Zenon

\* delete_network.
LEMMA DeleteEffect ==
  ASSUME NetworkShape, NEW n \in NetIDs, DeleteNetwork(n)
  PROVE  RequestFrame /\ Deleted(n)
<1>1. DropInvitesTo(n)
  BY DEF DeleteNetwork
<1>2. \A t \in NodeIDs : \A inv \in inviteInbox'[t] : inv.NetworkID # n
  BY <1>1, Zenon DEF DropInvitesTo
<1>3. Deleted(n)
  BY <1>2, Zenon DEF DeleteNetwork, Deleted
<1>4. RequestFrame
  <2>1. /\ RecordWAL([type |-> "network_delete", NetworkID |-> n]) /\ Save
        /\ UNCHANGED <<directoryFrame, adminReqs>>
    BY Zenon DEF DeleteNetwork
  <2>2. 1 \in NodeIDs
    BY RegistryAssumption DEF NodeIDs
  <2>3. \E d \in Delta : RecordWAL(d)
    BY <2>1, <2>2, MembershipDeltas, Zenon
  <2> QED
    BY <1>1, <2>1, <2>2, <2>3, InboxDrops, FrameFacts, Zenon
<1> QED
  BY <1>3, <1>4, Zenon

\* promote_member, demote_member, transfer_ownership and the operator's
\* set_member_role write roles only.
LEMMA RolesWritten ==
  ASSUME Shape, NEW n \in NetIDs, Exists(n), NEW roles \in [NodeIDs -> OrNone(Roles)],
         networks' = [networks EXCEPT ![n].MemberRoles = roles],
         UNCHANGED <<nodes, nextNet>>,
         \A id \in NodeIDs : roles[id] # None =>
            networks[n].MemberRoles[id] # None \/ networks[n].Members[id] > 0,
         SingleOwner(networks[n].MemberRoles) => SingleOwner(roles),
         HasOwner(networks[n].MemberRoles) => HasOwner(roles)
  PROVE  Changed(n)
<1> DEFINE net == [networks[n] EXCEPT !.MemberRoles = roles]
<1>1. networks[n] \in NetworkInfo
  BY NetworkType, Zenon
<1>2. networks' = [networks EXCEPT ![n] = net]
  OBVIOUS
<1>3. /\ net \in NetworkInfo /\ net.Members = networks[n].Members /\ net.MemberRoles = roles
      /\ net.Enterprise = networks[n].Enterprise /\ net.MaxMembers = networks[n].MaxMembers
  BY <1>1, Zenon DEF NetworkInfo
<1> HIDE DEF net
<1> QED
  BY <1>2, <1>3, Zenon DEF Changed

\* The operator gives a member a role, or kicks one.
LEMMA AdminRoleEffect ==
  ASSUME NetworkShape, NEW id \in NodeIDs, NEW n \in NetIDs, NEW role \in {"admin", "member"},
         AdminSetMemberRole(n, id, role)
  PROVE  RequestFrame /\ Changed(n)
<1> DEFINE old == networks[n].MemberRoles
           roles == [old EXCEPT ![id] = role]
<1>1. /\ Exists(n) /\ old[id] # "owner" /\ IsMember(n, id)
      /\ networks' = [networks EXCEPT ![n].MemberRoles[id] = role]
      /\ UNCHANGED <<directoryFrame, nodes, nextNet, inviteInbox, wal, saveCh, adminReqs>>
  BY DEF AdminSetMemberRole
<1>2. networks' = [networks EXCEPT ![n].MemberRoles = roles]
  BY <1>1, Zenon
<1>3. old \in [NodeIDs -> OrNone(Roles)]
  BY <1>1, NetworkType, Zenon DEF NetworkShape
<1>4. roles \in [NodeIDs -> OrNone(Roles)]
  BY <1>3, Zenon DEF OrNone, Roles
<1>5. \A x \in NodeIDs : roles[x] # None => old[x] # None \/ networks[n].Members[x] > 0
  BY <1>1, <1>3, Zenon DEF IsMember
<1>6. \A x \in NodeIDs : roles[x] = "owner" <=> old[x] = "owner"
  BY <1>1, <1>3, Zenon
<1> HIDE DEF old, roles
<1>7. (SingleOwner(old) => SingleOwner(roles)) /\ (HasOwner(old) => HasOwner(roles))
  BY <1>6, Zenon DEF SingleOwner, HasOwner
<1>8. Changed(n)
  BY <1>1, <1>2, <1>4, <1>5, <1>7, RolesWritten, Zenon DEF NetworkShape, old
<1> QED
  BY <1>1, <1>8, InboxSame, FrameFacts, Zenon

\* What the three role requests have in common: the roles they write.
LEMMA ChangeRolesEffect ==
  ASSUME NetworkShape, NEW a \in Admins, NEW op, NEW roles, ChangeRoles(a, op, roles),
         roles \in [NodeIDs -> OrNone(Roles)],
         \A id \in NodeIDs : roles[id] # None => RolesIn(a)[id] # None,
         SingleOwner(RolesIn(a)) => SingleOwner(roles),
         HasOwner(RolesIn(a)) => HasOwner(roles)
  PROVE  RequestFrame /\ \E n \in NetIDs : Changed(n)
<1> DEFINE n == adminReqs[a].net
<1>1. /\ adminReqs[a] # None /\ Exists(n)
      /\ networks' = [networks EXCEPT ![n].MemberRoles = roles]
      /\ Save /\ adminReqs' = [adminReqs EXCEPT ![a] = None]
      /\ UNCHANGED <<directoryFrame, nodes, nextNet, inviteInbox, wal>>
  BY Zenon DEF ChangeRoles, AdminRequestOK
<1>2. n \in NetIDs
  BY <1>1, RequestFields, Zenon
<1>3. Changed(n)
  BY <1>1, <1>2, RolesWritten, Zenon DEF NetworkShape, RolesIn
<1>4. RequestFrame
  BY <1>1, InboxSame, FrameFacts, Zenon
<1> QED
  BY <1>2, <1>3, <1>4, Zenon

\* promote_member and demote_member.
LEMMA PromoteEffect ==
  ASSUME NetworkShape, NEW a \in Admins, PromoteMember(a) \/ DemoteMember(a)
  PROVE  RequestFrame /\ \E n \in NetIDs : Changed(n)
<1> DEFINE req == adminReqs[a]
           old == RolesIn(a)
<1>1. PICK op \in {"promote", "demote"}, role \in {"admin", "member"} :
        ChangeRoles(a, op, [old EXCEPT ![req.target] = role])
  BY DEF PromoteMember, DemoteMember
<1> DEFINE roles == [old EXCEPT ![req.target] = role]
<1>2. req # None /\ req.op = op /\ Exists(req.net) /\ AdminRequestOK(req)
  BY <1>1, Zenon DEF ChangeRoles, AdminRequestOK
<1>3. req.net \in NetIDs /\ req.target \in NodeIDs
  BY <1>2, RequestFields, Zenon
<1>4. old \in [NodeIDs -> OrNone(Roles)]
  BY <1>2, <1>3, NetworkType, Zenon DEF NetworkShape, RolesIn
<1>5. old[req.target] \in {"member", "admin"}
  BY <1>2, Zenon DEF AdminRequestOK, RolesIn
<1>6. "admin" # None /\ "member" # None
  BY NoneAssumption, Zenon DEF Roles
<1>7. /\ roles \in [NodeIDs -> OrNone(Roles)]
      /\ \A x \in NodeIDs : roles[x] # None => old[x] # None
      /\ \A x \in NodeIDs : roles[x] = "owner" <=> old[x] = "owner"
  BY <1>3, <1>4, <1>5, <1>6, Zenon DEF OrNone, Roles
<1> HIDE DEF roles, old
<1>8. (SingleOwner(old) => SingleOwner(roles)) /\ (HasOwner(old) => HasOwner(roles))
  BY <1>7, Zenon DEF SingleOwner, HasOwner
<1> QED
  BY <1>1, <1>7, <1>8, ChangeRolesEffect, Zenon DEF roles, old

\* transfer_ownership.
LEMMA TransferEffect ==
  ASSUME NetworkShape, NEW a \in Admins, TransferOwnership(a)
  PROVE  RequestFrame /\ \E n \in NetIDs : Changed(n)
<1> DEFINE req == adminReqs[a]
           old == RolesIn(a)
<1>1. PICK owner \in NodeIDs :
        /\ req # None /\ Exists(req.net) /\ req.op = "transfer" /\ OwnerToReplace(req, owner)
        /\ ChangeRoles(a, "transfer", [old EXCEPT ![owner] = "admin", ![req.target] = "owner"])
  BY Zenon DEF TransferOwnership
<1> DEFINE roles == [old EXCEPT ![owner] = "admin", ![req.target] = "owner"]
<1>2. req.net \in NetIDs /\ req.target \in NodeIDs
  BY <1>1, RequestFields, Zenon
<1>3. old \in [NodeIDs -> OrNone(Roles)]
  BY <1>1, <1>2, NetworkType, Zenon DEF NetworkShape, RolesIn
<1>4. old[owner] = "owner" /\ req.target # owner /\ old[req.target] # None
  BY <1>1, Zenon DEF OwnerToReplace, RolesIn
<1>5. "owner" # None
  BY NoneAssumption, Zenon DEF Roles
<1>6. /\ roles \in [NodeIDs -> OrNone(Roles)]
      /\ \A x \in NodeIDs : roles[x] # None => old[x] # None
      /\ roles[req.target] = "owner"
      /\ \A x \in NodeIDs : roles[x] = "owner" => x = req.target \/ (x # owner /\ old[x] = "owner")
  BY <1>2, <1>3, <1>4, <1>5, Zenon DEF OrNone, Roles
<1> HIDE DEF roles, old
<1>7. (SingleOwner(old) => SingleOwner(roles)) /\ HasOwner(roles)
  BY <1>2, <1>4, <1>6, Zenon DEF SingleOwner, HasOwner
<1> QED
  BY <1>1, <1>6, <1>7, ChangeRolesEffect, ZenonT(30) DEF roles, old

\* rename_network.
LEMMA RenameEffect ==
  ASSUME NetworkShape, NEW n \in NetIDs, NEW name \in NetNames, RenameNetwork(n, name)
  PROVE  RequestFrame /\ Changed(n)
<1> DEFINE net == [networks[n] EXCEPT !.Name = name]
<1>1. /\ n # 0 /\ Exists(n) /\ networks' = [networks EXCEPT ![n] = net] /\ Save
      /\ UNCHANGED <<directoryFrame, nodes, nextNet, inviteInbox, wal, adminReqs>>
  BY Zenon DEF RenameNetwork
<1>2. networks[n] \in NetworkInfo
  BY <1>1, NetworkType, Zenon DEF NetworkShape
<1>3. /\ net \in NetworkInfo /\ net.Members = networks[n].Members
      /\ net.MemberRoles = networks[n].MemberRoles
  BY <1>2, Zenon DEF NetworkInfo, OrNone
<1> HIDE DEF net
<1>4. Changed(n)
  BY <1>1, <1>3, Zenon DEF Changed
<1> QED
  BY <1>1, <1>4, InboxSame, FrameFacts, Zenon

\* The roles that set_network_enterprise makes up: for members only, and an
\* owner only where there is none.
LEMMA EnterpriseRolesFacts ==
  ASSUME NEW net \in NetworkInfo, NEW first \in NodeIDs
  PROVE  /\ EnterpriseRoles(net, first) \in [NodeIDs -> OrNone(Roles)]
         /\ \A id \in NodeIDs : EnterpriseRoles(net, first)[id] # None =>
              net.MemberRoles[id] # None \/ net.Members[id] > 0
         /\ SingleOwner(net.MemberRoles) => SingleOwner(EnterpriseRoles(net, first))
         /\ HasOwner(net.MemberRoles) => HasOwner(EnterpriseRoles(net, first))
<1> DEFINE old == net.MemberRoles
           new == EnterpriseRoles(net, first)
<1>1. old \in [NodeIDs -> OrNone(Roles)]
  BY Zenon DEF NetworkInfo
<1>2. \A id \in NodeIDs : new[id] =
        IF ~(net.Members[id] > 0 /\ old[id] = None) THEN old[id]
        ELSE IF id = first /\ ~HasOwner(old) THEN "owner" ELSE "member"
  BY Zenon DEF EnterpriseRoles, Roleless
<1>3. new \in [NodeIDs -> OrNone(Roles)]
  BY <1>1, Zenon DEF EnterpriseRoles, OrNone, Roles
<1>4. "owner" # None
  BY NoneAssumption, Zenon DEF Roles
<1> HIDE DEF old, new
<1>5. \A id \in NodeIDs : new[id] # None => old[id] # None \/ net.Members[id] > 0
  BY <1>2, Zenon
<1>6. SingleOwner(old) => SingleOwner(new)
  BY <1>2, Zenon DEF SingleOwner, HasOwner
<1>7. HasOwner(old) => HasOwner(new)
  BY <1>2, <1>4, Zenon DEF HasOwner
<1> QED
  BY <1>3, <1>5, <1>6, <1>7, Zenon DEF old, new

\* set_network_enterprise.
LEMMA EnterpriseEffect ==
  ASSUME NetworkShape, NEW n \in NetIDs, NEW enterprise \in FlagChoices,
         SetNetworkEnterprise(n, enterprise)
  PROVE  RequestFrame /\ Changed(n)
<1> DEFINE old == networks[n].MemberRoles
           roles(x) == IF enterprise THEN EnterpriseRoles(networks[n], x) ELSE NoRoles
<1>1. PICK first \in NodeIDs : networks' = [networks EXCEPT
        ![n].Enterprise = enterprise, ![n].MemberRoles = roles(first)]
  BY Zenon DEF SetNetworkEnterprise
<1>2. /\ n # 0 /\ Exists(n) /\ Save
      /\ UNCHANGED <<directoryFrame, nodes, nextNet, inviteInbox, wal, adminReqs>>
  BY Zenon DEF SetNetworkEnterprise
<1>3. networks[n] \in NetworkInfo /\ enterprise \in BOOLEAN
  BY <1>2, NetworkType, MembershipAssumption, Zenon DEF NetworkShape
<1> DEFINE new == roles(first)
           net == [networks[n] EXCEPT !.Enterprise = enterprise, !.MemberRoles = new]
<1>4. /\ new \in [NodeIDs -> OrNone(Roles)]
      /\ \A id \in NodeIDs : new[id] # None => old[id] # None \/ networks[n].Members[id] > 0
      /\ SingleOwner(old) => SingleOwner(new)
      /\ HasOwner(old) => HasOwner(new) \/ ~enterprise
  <2>1. CASE enterprise
    BY <1>3, <2>1, EnterpriseRolesFacts, Zenon
  <2>2. CASE ~enterprise
    <3>1. new = NoRoles /\ NoRoles \in [NodeIDs -> OrNone(Roles)]
      BY <2>2, Zenon DEF NoRoles, OrNone
    <3>2. \A id \in NodeIDs : NoRoles[id] = None
      BY DEF NoRoles
    <3>3. "owner" # None
      BY NoneAssumption, Zenon DEF Roles
    <3> QED
      BY <2>2, <3>1, <3>2, <3>3, Zenon DEF SingleOwner
  <2> QED
    BY <2>1, <2>2, Zenon
<1> HIDE DEF new
<1>5. networks' = [networks EXCEPT ![n] = net]
  BY <1>1, Zenon DEF new
<1>6. /\ net \in NetworkInfo /\ net.Members = networks[n].Members
      /\ net.MemberRoles = new /\ net.Enterprise = enterprise
  BY <1>3, <1>4, Zenon DEF NetworkInfo
<1> HIDE DEF net, old
<1>7. Changed(n)
  BY <1>2, <1>4, <1>5, <1>6, Zenon DEF Changed, old
<1> QED
  BY <1>2, <1>7, InboxSame, FrameFacts, Zenon

\* set_network_policy.
LEMMA PolicyEffect ==
  ASSUME NetworkShape, BackbonePlain, NEW a \in Admins, SetNetworkPolicy(a)
  PROVE  RequestFrame /\ \E n \in NetIDs : Changed(n)
<1> DEFINE n == adminReqs[a].net
           max == adminReqs[a].max
           net == [networks[n] EXCEPT !.MaxMembers = max]
<1>1. /\ adminReqs[a] # None /\ adminReqs[a].op = "policy" /\ Exists(n)
      /\ networks' = [networks EXCEPT ![n] = net]
      /\ Save /\ adminReqs' = [adminReqs EXCEPT ![a] = None]
      /\ UNCHANGED <<directoryFrame, nodes, nextNet, inviteInbox, wal>>
  BY Zenon DEF SetNetworkPolicy, AdminRequestOK
<1>2. n \in NetIDs /\ max \in Nat /\ n # 0
  BY <1>1, RequestFields, Zenon DEF BackbonePlain
<1>3. networks[n] \in NetworkInfo
  BY <1>1, <1>2, NetworkType, Zenon DEF NetworkShape
<1> HIDE DEF n, max
<1>4. /\ net \in NetworkInfo /\ net.Members = networks[n].Members
      /\ net.MemberRoles = networks[n].MemberRoles /\ net.Enterprise = networks[n].Enterprise
  BY <1>2, <1>3, Zenon DEF NetworkInfo
<1> HIDE DEF net
<1>5. Changed(n)
  BY <1>1, <1>2, <1>4, Zenon DEF Changed
<1>6. RequestFrame
  BY <1>1, InboxSame, FrameFacts, Zenon
<1> QED
  BY <1>2, <1>5, <1>6, Zenon

\* invite_to_network: the invite that appears is to a network that exists.
LEMMA InviteEffect ==
  ASSUME NetworkShape, NEW id \in NodeIDs, NEW n \in NetIDs, NEW target \in NodeIDs,
         InviteToNetwork(id, n, target)
  PROVE  RequestFrame /\ SameNetworks
<1> DEFINE inv == [NetworkID |-> n, InviterID |-> id, expired |-> FALSE]
<1>1. /\ Exists(n) /\ inviteInbox' = [inviteInbox EXCEPT ![target] = @ \cup {inv}] /\ Save
      /\ UNCHANGED <<directoryFrame, nodes, networks, nextNet, wal, adminReqs>>
  BY Zenon DEF InviteToNetwork
<1>2. inv \in NetworkInvite /\ inv.NetworkID = n
  BY Zenon DEF NetworkInvite
<1> HIDE DEF inv
<1>3. /\ inviteInbox' \in [NodeIDs -> SUBSET NetworkInvite]
      /\ \A t \in NodeIDs : \A x \in inviteInbox'[t] : x = inv \/ x \in inviteInbox[t]
  BY <1>1, <1>2, Zenon DEF NetworkShape, Shape, DirectoryTypeOK, RegistryTypeOK
<1>4. \A t \in NodeIDs : \A x \in inviteInbox'[t] :
        Exists(x.NetworkID) \/ \E old \in inviteInbox[t] : old.NetworkID = x.NetworkID
  BY <1>1, <1>2, <1>3, Zenon
<1>5. adminReqs' \in [Admins -> RequestTypes] /\ adminReqs' = adminReqs
  BY <1>1, Zenon DEF NetworkShape, RequestTypes
<1>6. wal' \in Seq(Delta) /\ saveCh' \in BOOLEAN
  BY <1>1, Zenon DEF NetworkShape, Shape, DirectoryTypeOK, RegistryTypeOK, Save
<1> QED
  BY <1>1, <1>3, <1>4, <1>5, <1>6, Zenon DEF RequestFrame, SameNetworks

\* The passing of InviteTTL marks an invite; it stays one to the same network.
LEMMA ExpireEffect ==
  ASSUME NetworkShape, NEW id \in NodeIDs, ExpireInvite(id)
  PROVE  RequestFrame /\ SameNetworks
<1>1. PICK inv \in inviteInbox[id] : inviteInbox' = [inviteInbox EXCEPT ![id] =
            (@ \ {inv}) \cup {[inv EXCEPT !.expired = TRUE]}]
  BY Zenon DEF ExpireInvite
<1> DEFINE new == [inv EXCEPT !.expired = TRUE]
<1>2. inv \in NetworkInvite
  BY DEF NetworkShape, Shape, DirectoryTypeOK, RegistryTypeOK
<1>3. new \in NetworkInvite /\ new.NetworkID = inv.NetworkID
  BY <1>2, Zenon DEF NetworkInvite
<1> HIDE DEF new
<1>4. inviteInbox' = [inviteInbox EXCEPT ![id] = (inviteInbox[id] \ {inv}) \cup {new}]
  BY <1>1, Zenon DEF new
<1>5. /\ inviteInbox' \in [NodeIDs -> SUBSET NetworkInvite]
      /\ \A t \in NodeIDs : \A x \in inviteInbox'[t] :
           x \in inviteInbox[t] \/ (x = new /\ inv \in inviteInbox[t])
  BY <1>3, <1>4, Zenon DEF NetworkShape, Shape, DirectoryTypeOK, RegistryTypeOK
<1>6. \A t \in NodeIDs : \A x \in inviteInbox'[t] :
        \E old \in inviteInbox[t] : old.NetworkID = x.NetworkID
  BY <1>3, <1>5, Zenon
<1>7. UNCHANGED <<directoryFrame, nodes, networks, nextNet, wal, saveCh, adminReqs>>
  BY Zenon DEF ExpireInvite
<1> QED
  BY <1>5, <1>6, <1>7, Zenon DEF RequestFrame, SameNetworks, RequestTypes, NetworkShape, Shape,
     DirectoryTypeOK, RegistryTypeOK

\* poll_invites and the rejection of an invite.
LEMMA PollEffect ==
  ASSUME NetworkShape, NEW id \in NodeIDs,
         PollInvites(id) \/ \E n \in NetIDs : RejectInvite(id, n)
  PROVE  RequestFrame /\ SameNetworks
<1>1. /\ Save /\ UNCHANGED <<directoryFrame, nodes, networks, nextNet, wal, adminReqs>>
      /\ \/ inviteInbox' = [inviteInbox EXCEPT ![id] = {inv \in @ : ~inv.expired}]
         \/ \E n \in NetIDs : DropOwnInvites(id, n)
  BY SMTT(30) DEF PollInvites, RejectInvite
<1>2. /\ inviteInbox' = [t \in NodeIDs |-> inviteInbox'[t]]
      /\ \A t \in NodeIDs : inviteInbox'[t] \subseteq inviteInbox[t]
  BY <1>1, InboxDrops, Zenon DEF NetworkShape, Shape, DirectoryTypeOK, RegistryTypeOK
<1> QED
  BY <1>1, <1>2, FrameFacts, Zenon DEF SameNetworks

\* The first critical section of kick, promote, demote, transfer and policy.
LEMMA AdmitEffect ==
  ASSUME NetworkShape, NEW a \in Admins, NEW n \in NetIDs, EnterpriseNet(n),
         NEW req \in RoleRequest \cup PolicyRequest, req.net = n,
         adminReqs' = [adminReqs EXCEPT ![a] = req], UNCHANGED dirVars
  PROVE  RequestFrame /\ SameNetworks
<1>1. /\ adminReqs' \in [Admins -> RequestTypes]
      /\ \A x \in Admins : adminReqs'[x] = adminReqs[x] \/ adminReqs'[x] = req
  BY Zenon DEF NetworkShape, RequestTypes, OrNone
<1>2. UNCHANGED <<directoryFrame, nodes, networks, nextNet, inviteInbox, wal, saveCh>>
  BY Zenon DEF dirVars, registryVars, directoryVars, membershipVars, directoryFrame
<1> QED
  BY <1>1, <1>2, Zenon DEF RequestFrame, SameNetworks, NetworkShape, Shape, DirectoryTypeOK,
     RegistryTypeOK

\* Admission, refusal and completion of the requests in flight.
LEMMA AdminEffect ==
  ASSUME NetworkShape, BackbonePlain, NEW a \in Admins, AdminStep(a)
  PROVE  RequestFrame /\ MembershipEffect
<1>1. ASSUME NEW op \in AdminOps \ {"policy"}, NEW n \in NetIDs, NEW target \in NodeIDs,
             AdmitRole(a, op, n, target)
      PROVE  RequestFrame /\ SameNetworks
  <2> DEFINE req == [op |-> op, net |-> n, target |-> target]
  <2>1. req \in RoleRequest /\ req.net = n
    BY Zenon DEF RoleRequest
  <2>2. EnterpriseNet(n) /\ adminReqs' = [adminReqs EXCEPT ![a] = req] /\ UNCHANGED dirVars
    BY <1>1 DEF AdmitRole
  <2> HIDE DEF req
  <2> QED
    BY <2>1, <2>2, AdmitEffect, Zenon
<1>2. ASSUME NEW n \in NetIDs, NEW max \in MemberLimits, AdmitPolicy(a, n, max)
      PROVE  RequestFrame /\ SameNetworks
  <2> DEFINE req == [op |-> "policy", net |-> n, max |-> max]
  <2>1. req \in PolicyRequest /\ req.net = n
    BY Zenon DEF PolicyRequest
  <2>2. EnterpriseNet(n) /\ adminReqs' = [adminReqs EXCEPT ![a] = req] /\ UNCHANGED dirVars
    BY <1>2 DEF AdmitPolicy
  <2> HIDE DEF req
  <2> QED
    BY <2>1, <2>2, AdmitEffect, Zenon
<1>3. CASE AdminRefused(a)
  <2>1. /\ adminReqs' = [adminReqs EXCEPT ![a] = None]
        /\ UNCHANGED <<directoryFrame, nodes, networks, nextNet, inviteInbox, wal, saveCh>>
    BY <1>3, Zenon DEF AdminRefused, dirVars, registryVars, directoryVars, membershipVars,
       directoryFrame
  <2> QED
    BY <2>1, InboxSame, FrameFacts, Zenon DEF SameNetworks, MembershipEffect
<1> QED
  BY <1>1, <1>2, <1>3, KickEffect, PromoteEffect, TransferEffect, PolicyEffect, Zenon
     DEF AdminStep, MembershipEffect

\* Every request about networks has one of the effects.
LEMMA StepEffect ==
  ASSUME NetworkShape, BackbonePlain, MembershipStep
  PROVE  RequestFrame /\ MembershipEffect
<1>1. ASSUME NEW n \in NetIDs, NetworkStep(n) PROVE RequestFrame /\ MembershipEffect
  BY <1>1, DeleteEffect, RenameEffect, EnterpriseEffect, Zenon DEF NetworkStep, MembershipEffect
<1>2. ASSUME NEW id \in NodeIDs, MemberStep(id) PROVE RequestFrame /\ MembershipEffect
  <2>1. KickNets \subseteq NetIDs /\ RoleNets \subseteq NetIDs
    BY MembershipAssumption
  <2> QED
    BY SMTT(30), <1>2, <2>1, CreateEffect, ExpireEffect, PollEffect, JoinEffect, LeaveEffect,
       InviteEffect, AdminRoleEffect DEF MemberStep, MembershipEffect
<1> QED
  BY <1>1, <1>2, AdminEffect, Zenon DEF MembershipStep

-----------------------------------------------------------------------------
(* Networks, invitations and roles *)

\* Network ids are given out in order, so the next one has no network yet.
NetsBelowNext == \A n \in NetIDs : Exists(n) => nextNet = 0 \/ n < nextNet

\* The next network's id has no network.
LEMMA NextNetFree ==
  ASSUME Shape, NetsBelowNext, nextNet # 0
  PROVE  ~Exists(nextNet)
BY RegistryAssumption DEF NetsBelowNext, Shape, DirectoryTypeOK, RegistryTypeOK, NetIDs

\* Requests about networks keep the ids below the counter.
LEMMA NetsBelowEffect ==
  ASSUME Shape, NetsBelowNext, MembershipEffect
  PROVE  NetsBelowNext'
<1>1. CASE SameNetworks
  BY <1>1 DEF SameNetworks, NetsBelowNext, Exists
<1>2. ASSUME NEW id \in NodeIDs, Created(id) PROVE NetsBelowNext'
  <2>1. nextNet \in NetIDs /\ nextNet # 0 /\ nextNet' = NextID(nextNet, MaxNetID)
    BY <1>2, CreatedFacts, Zenon DEF Created
  <2>2. \A m \in NetIDs : Exists(m)' => m = nextNet \/ Exists(m)
    BY <1>2, CreatedFacts, Zenon DEF Exists
  <2> QED
    BY <2>1, <2>2, RegistryAssumption, SMTT(30) DEF NetsBelowNext, NextID, NetIDs
<1>3. ASSUME NEW id \in NodeIDs, NEW n \in NetIDs, Joined(id, n) \/ Removed(id, n)
      PROVE  NetsBelowNext'
  <2>1. \A m \in NetIDs : Exists(m)' => Exists(m)
    BY <1>3, JoinedFacts, RemovedFacts, Zenon DEF Exists
  <2>2. nextNet' = nextNet
    BY <1>3 DEF Joined, Removed
  <2> QED
    BY <2>1, <2>2, Zenon DEF NetsBelowNext
<1>4. ASSUME NEW n \in NetIDs, Deleted(n) \/ Changed(n) PROVE NetsBelowNext'
  <2>1. \A m \in NetIDs : Exists(m)' => Exists(m)
    BY <1>4, DeletedFacts, ChangedFacts, Zenon DEF Exists
  <2>2. nextNet' = nextNet
    BY <1>4 DEF Deleted, Changed
  <2> QED
    BY <2>1, <2>2, Zenon DEF NetsBelowNext
<1> QED
  BY <1>1, <1>2, <1>3, <1>4, Zenon DEF MembershipEffect

\* The backbone gets neither the enterprise flag nor a limit, and no request for
\* an enterprise network is about it.
LEMMA BackbonePlainEffect ==
  ASSUME NetworkShape, BackbonePlain, RequestFrame, MembershipEffect
  PROVE  BackbonePlain'
<1> USE DEF NetworkShape
<1>0. 0 \in NetIDs /\ Exists(0)
  BY BackbonePresent, Zenon
<1>1. /\ networks'[0].Enterprise = networks[0].Enterprise
      /\ networks'[0].MaxMembers = networks[0].MaxMembers
  <2>1. CASE SameNetworks
    BY <2>1 DEF SameNetworks
  <2>2. ASSUME NEW id \in NodeIDs, Created(id) PROVE networks'[0] = networks[0]
    BY <1>0, <2>2, CreatedFacts, Zenon
  <2>3. ASSUME NEW id \in NodeIDs, NEW n \in NetIDs, Joined(id, n) \/ Removed(id, n)
        PROVE  /\ networks'[0].Enterprise = networks[0].Enterprise
               /\ networks'[0].MaxMembers = networks[0].MaxMembers
    BY <1>0, <2>3, JoinedFacts, RemovedFacts, Zenon
  <2>4. ASSUME NEW n \in NetIDs, Deleted(n) \/ Changed(n)
        PROVE  /\ networks'[0].Enterprise = networks[0].Enterprise
               /\ networks'[0].MaxMembers = networks[0].MaxMembers
    <3>1. CASE Deleted(n)
      <4>1. n # 0
        BY <3>1, Zenon DEF Deleted
      <4> QED
        BY <1>0, <3>1, <4>1, DeletedFacts, Zenon
    <3>2. CASE Changed(n)
      BY <1>0, <3>2, ChangedFacts, Zenon
    <3> QED
      BY <2>4, <3>1, <3>2, Zenon
  <2> QED
    BY <2>1, <2>2, <2>3, <2>4, Zenon DEF MembershipEffect
<1>2. ASSUME NEW a \in Admins, adminReqs'[a] # None PROVE adminReqs'[a].net # 0
  BY <1>2, Zenon DEF RequestFrame, BackbonePlain, EnterpriseNet
<1> QED
  BY <1>1, <1>2 DEF BackbonePlain

\* An invite is to a network that exists, and goes with it.
LEMMA InvitesEffect ==
  ASSUME Shape, InvitesHaveNetwork, RequestFrame, MembershipEffect
  PROVE  InvitesHaveNetwork'
<1> SUFFICES ASSUME NEW t \in NodeIDs, NEW inv \in inviteInbox'[t]
             PROVE  Exists(inv.NetworkID)'
  BY DEF InvitesHaveNetwork
<1> DEFINE k == inv.NetworkID
<1>1. k \in NetIDs
  BY DEF RequestFrame, NetworkInvite
<1>2. Exists(k)
  BY DEF RequestFrame, InvitesHaveNetwork
<1> HIDE DEF k
<1>3. CASE SameNetworks
  BY <1>2, <1>3, Zenon DEF SameNetworks, Exists, k
<1>4. ASSUME NEW id \in NodeIDs, Created(id) PROVE networks'[k] # None
  BY <1>1, <1>2, <1>4, CreatedFacts, Zenon DEF Exists
<1>5. ASSUME NEW id \in NodeIDs, NEW n \in NetIDs, Joined(id, n) \/ Removed(id, n)
      PROVE  networks'[k] # None
  BY <1>1, <1>2, <1>5, JoinedFacts, RemovedFacts, Zenon DEF Exists
<1>6. ASSUME NEW n \in NetIDs, Deleted(n) PROVE networks'[k] # None
  <2>1. k # n
    BY <1>6, Zenon DEF Deleted, k
  <2> QED
    BY <1>1, <1>2, <1>6, <2>1, DeletedFacts, Zenon DEF Exists
<1>7. ASSUME NEW n \in NetIDs, Changed(n) PROVE networks'[k] # None
  BY <1>1, <1>2, <1>7, ChangedFacts, Zenon DEF Exists
<1> QED
  BY <1>3, <1>4, <1>5, <1>6, <1>7, Zenon DEF MembershipEffect, Exists, k

\* RolesSound for one network.
RolesOK(n) ==
  /\ \A id \in NodeIDs : networks[n].MemberRoles[id] # None => networks[n].Members[id] > 0
  /\ SingleOwner(networks[n].MemberRoles)

\* RolesSound network by network.
LEMMA RolesForm == RolesSound <=> \A n \in NetIDs \ {0} : Exists(n) => RolesOK(n)
BY Zenon DEF RolesSound, RolesOK, SingleOwner, IsMember, Exists

\* Requests about networks give roles to members and keep one owner at most.
LEMMA RolesEffect ==
  ASSUME Shape, RolesSound, MembershipEffect
  PROVE  RolesSound'
<1>0. \A m \in NetIDs \ {0} : Exists(m) => RolesOK(m)
  BY RolesForm, Zenon
<1> SUFFICES ASSUME NEW m \in NetIDs \ {0}, networks'[m] # None
             PROVE  /\ \A x \in NodeIDs : networks'[m].MemberRoles[x] # None =>
                         networks'[m].Members[x] > 0
                    /\ SingleOwner(networks'[m].MemberRoles)
  BY DEF RolesSound, SingleOwner, IsMember, Exists
<1> DEFINE goal == /\ \A x \in NodeIDs : networks'[m].MemberRoles[x] # None =>
                        networks'[m].Members[x] > 0
                   /\ SingleOwner(networks'[m].MemberRoles)
<1>1. CASE networks'[m] = networks[m]
  BY <1>0, <1>1, Zenon DEF RolesOK, Exists
<1>2. ASSUME NEW id \in NodeIDs, Created(id) PROVE goal
  <2>1. CASE m = nextNet
    BY <1>2, <2>1, CreatedFacts, NoneAssumption, SMTT(30) DEF SingleOwner, Roles
  <2> QED
    BY <1>1, <1>2, <2>1, CreatedFacts, Zenon
<1>3. ASSUME NEW id \in NodeIDs, NEW n \in NetIDs, Joined(id, n) PROVE goal
  <2>1. CASE m = n
    <3>1. /\ Exists(n) /\ networks[n].Members \in [NodeIDs -> Nat]
          /\ \A x \in NodeIDs :
               /\ networks'[n].Members[x] = networks[n].Members[x] + (IF x = id THEN 1 ELSE 0)
               /\ networks'[n].MemberRoles[x] =
                    IF x = id THEN "member" ELSE networks[n].MemberRoles[x]
      BY <1>3, JoinedFacts, ZenonT(30)
    <3>2. RolesOK(n)
      BY <1>0, <2>1, <3>1, Zenon
    <3> QED
      BY <2>1, <3>1, <3>2, SMTT(30) DEF RolesOK, SingleOwner
  <2> QED
    BY <1>1, <1>3, <2>1, JoinedFacts, SMTT(30)
<1>4. ASSUME NEW id \in NodeIDs, NEW n \in NetIDs, Removed(id, n) PROVE goal
  <2>1. CASE m = n
    <3>1. /\ Exists(n) /\ networks[n].Members \in [NodeIDs -> Nat]
          /\ \A x \in NodeIDs :
               /\ networks'[n].Members[x] =
                    IF x = id /\ networks[n].Members[x] > 0 THEN networks[n].Members[x] - 1
                    ELSE networks[n].Members[x]
               /\ networks'[n].MemberRoles[x] =
                    IF x = id THEN None ELSE networks[n].MemberRoles[x]
      BY <1>4, RemovedFacts, ZenonT(30)
    <3>2. RolesOK(n) /\ None # "owner"
      BY <1>0, <2>1, <3>1, NoneAssumption, Zenon DEF Roles
    <3> QED
      BY <2>1, <3>1, <3>2, Zenon DEF RolesOK, SingleOwner
  <2> QED
    BY <1>1, <1>4, <2>1, RemovedFacts, SMTT(30)
<1>5. ASSUME NEW n \in NetIDs, Deleted(n) PROVE goal
  BY <1>1, <1>5, DeletedFacts, Zenon DEF Exists
<1>6. ASSUME NEW n \in NetIDs, Changed(n) PROVE goal
  <2>1. CASE m = n
    <3>1. RolesOK(n)
      BY <1>0, <1>6, <2>1, Zenon DEF Changed
    <3> QED
      BY <1>6, <2>1, <3>1, ChangedFacts, Zenon DEF RolesOK
  <2> QED
    BY <1>1, <1>6, <2>1, ChangedFacts, Zenon
<1>7. CASE SameNetworks
  BY <1>1, <1>7, Zenon DEF SameNetworks
<1> QED
  BY <1>2, <1>3, <1>4, <1>5, <1>6, <1>7, Zenon DEF MembershipEffect

\* The directory's steps keep all of this.
LEMMA DirectoryKeeps ==
  ASSUME NetworkShape, NetworkShape', DirectoryEffect, adminReqs' = adminReqs
  PROVE  /\ NetsBelowNext => NetsBelowNext'
         /\ BackbonePlain => BackbonePlain'
         /\ InvitesHaveNetwork => InvitesHaveNetwork'
         /\ RolesSound => RolesSound'
<1> USE DEF NetworkShape
<1>1. \A n \in NetIDs : NetworkEffect(n)
  BY Zenon DEF DirectoryEffect
<1>2. NetsBelowNext => NetsBelowNext'
  BY <1>1, Zenon DEF NetsBelowNext, NetworkEffect, DirectoryEffect
<1>3. BackbonePlain => BackbonePlain'
  BY <1>1, BackbonePresent, Zenon DEF BackbonePlain, NetworkEffect
<1>4. ASSUME InvitesHaveNetwork PROVE InvitesHaveNetwork'
  <2> SUFFICES ASSUME NEW t \in NodeIDs, NEW inv \in inviteInbox'[t]
               PROVE  networks'[inv.NetworkID] # None
    BY Zenon DEF InvitesHaveNetwork, Exists
  <2>1. inv \in inviteInbox[t] /\ inv \in NetworkInvite
    BY Zenon DEF DirectoryEffect, Shape, DirectoryTypeOK, RegistryTypeOK
  <2> QED
    BY <1>1, <1>4, <2>1, Zenon DEF InvitesHaveNetwork, NetworkEffect, Exists, NetworkInvite
<1>5. ASSUME RolesSound PROVE RolesSound'
  <2> SUFFICES ASSUME NEW m \in NetIDs \ {0}, networks'[m] # None
               PROVE  /\ \A x \in NodeIDs : networks'[m].MemberRoles[x] # None =>
                           networks'[m].Members[x] > 0
                      /\ SingleOwner(networks'[m].MemberRoles)
    BY Zenon DEF RolesSound, SingleOwner, IsMember, Exists
  <2>1. Exists(m) /\ \A x \in NodeIDs : ListingEffect(m, x)
    BY <1>1, Zenon DEF NetworkEffect, Exists
  <2>2. RolesOK(m) /\ None # "owner"
    BY <1>5, <2>1, RolesForm, NoneAssumption, Zenon DEF Roles
  <2> QED
    BY <2>1, <2>2, Zenon DEF RolesOK, SingleOwner, ListingEffect, ListingKept, ListingDropped,
       BackboneEntered
<1> QED
  BY <1>2, <1>3, <1>4, <1>5, Zenon

\* What holds of networks, members, invitations and roles in every state.
NetworkInv ==
  /\ NetworkShape /\ IDsBelowNext /\ NetsBelowNext /\ BackbonePlain
  /\ InvitesHaveNetwork /\ RolesSound

-----------------------------------------------------------------------------
(* Nodes and member lists agree *)

\* The two directions of MembershipSymmetric.
NetworksListed ==
  \A x \in NodeIDs, m \in NetIDs : Live(x) /\ m \in nodes[x].Networks => IsMember(m, x)

MembersListed ==
  \A x \in NodeIDs, m \in NetIDs : Live(x) /\ IsMember(m, x) => m \in nodes[x].Networks

\* NetworkInv with the agreement of nodes and networks.
AgreementInv == NetworksListed /\ MembersListed /\ MembersOnce

\* MembershipSymmetric is both directions.
LEMMA SymmetricForm == MembershipSymmetric <=> NetworksListed /\ MembersListed
BY Zenon DEF MembershipSymmetric, NetworksListed, MembersListed, LiveIDs

\* The Networks fields after each effect.
LEMMA CreatedNodes ==
  ASSUME Shape, NEW id \in NodeIDs, Created(id), NEW x \in NodeIDs
  PROVE  /\ Live(x)' <=> Live(x)
         /\ Live(x) => nodes'[x].Networks =
              IF x = id THEN nodes[x].Networks \cup {nextNet} ELSE nodes[x].Networks
<1>1. Live(id) /\ AppendNodeNetwork(id, nextNet)
  BY DEF Created
<1>2. nextNet \in NetIDs
  BY CreatedFacts, Zenon
<1> QED
  BY <1>1, <1>2, AppendNodeFacts, Zenon

\* A join adds the network to the node.
LEMMA JoinedNodes ==
  ASSUME Shape, NEW id \in NodeIDs, NEW n \in NetIDs, Joined(id, n), NEW x \in NodeIDs
  PROVE  /\ Live(id) /\ n \notin nodes[id].Networks
         /\ Live(x)' <=> Live(x)
         /\ Live(x) => nodes'[x].Networks =
              IF x = id THEN nodes[x].Networks \cup {n} ELSE nodes[x].Networks
<1>1. Live(id) /\ AppendNodeNetwork(id, n) /\ n \notin nodes[id].Networks
  BY Zenon DEF Joined
<1> QED
  BY <1>1, AppendNodeFacts, Zenon

\* A removal takes it away.
LEMMA RemovedNodes ==
  ASSUME Shape, NEW id \in NodeIDs, NEW n \in NetIDs, Removed(id, n), NEW x \in NodeIDs
  PROVE  /\ Live(x)' <=> Live(x)
         /\ Live(x) => nodes'[x].Networks =
              IF x = id THEN nodes[x].Networks \ {n} ELSE nodes[x].Networks
<1>1. RemoveNodeNetwork({id}, n) /\ {id} \in SUBSET NodeIDs
  BY DEF Removed
<1>2. \A y \in NodeIDs : /\ Live(y)' <=> Live(y)
                         /\ Live(y) => nodes'[y].Networks =
                              IF y \in {id} THEN nodes[y].Networks \ {n} ELSE nodes[y].Networks
  BY <1>1, RemoveNodeFacts, Zenon
<1> QED
  BY <1>2, Zenon

\* A deletion takes it away from every member.
LEMMA DeletedNodes ==
  ASSUME Shape, NEW n \in NetIDs, Deleted(n), NEW x \in NodeIDs
  PROVE  /\ Live(x)' <=> Live(x)
         /\ Live(x) => nodes'[x].Networks =
              IF IsMember(n, x) THEN nodes[x].Networks \ {n} ELSE nodes[x].Networks
<1> DEFINE ids == {id \in NodeIDs : IsMember(n, id)}
<1>1. RemoveNodeNetwork(ids, n) /\ ids \in SUBSET NodeIDs
  BY DEF Deleted
<1>2. x \in ids <=> IsMember(n, x)
  BY Zenon
<1> HIDE DEF ids
<1>3. \A y \in NodeIDs : /\ Live(y)' <=> Live(y)
                         /\ Live(y) => nodes'[y].Networks =
                              IF y \in ids THEN nodes[y].Networks \ {n} ELSE nodes[y].Networks
  BY <1>1, RemoveNodeFacts, Zenon
<1> QED
  BY <1>2, <1>3, Zenon

\* What a node lists, lists the node: requests about networks.
LEMMA NetworksListedEffect ==
  ASSUME Shape, NetsBelowNext, NetworksListed, MembershipEffect
  PROVE  NetworksListed'
<1> SUFFICES ASSUME NEW x \in NodeIDs, NEW m \in NetIDs, Live(x)', m \in nodes'[x].Networks
             PROVE  IsMember(m, x)'
  BY Zenon DEF NetworksListed
<1>0. ASSUME m \in nodes[x].Networks, Live(x)
      PROVE  networks[m] # None /\ networks[m].Members[x] > 0
  BY <1>0, Zenon DEF NetworksListed, IsMember
<1>1. CASE SameNetworks
  BY <1>0, <1>1, Zenon DEF SameNetworks, IsMember, Live
<1>2. ASSUME NEW id \in NodeIDs, Created(id)
      PROVE  networks'[m] # None /\ networks'[m].Members[x] > 0
  <2>1. ~Exists(nextNet)
    BY <1>2, NextNetFree, Zenon DEF Created
  <2>2. /\ networks'[nextNet] # None /\ networks'[nextNet].Members[id] = 1
        /\ \A k \in NetIDs \ {nextNet} : networks'[k] = networks[k]
    BY <1>2, CreatedFacts, Zenon
  <2>3. Live(x) /\ (m \in nodes[x].Networks \/ (x = id /\ m = nextNet))
    BY <1>2, CreatedNodes, ZenonT(30)
  <2> QED
    BY <1>0, <2>1, <2>2, <2>3, SMTT(30) DEF Exists
<1>3. ASSUME NEW id \in NodeIDs, NEW n \in NetIDs, Joined(id, n)
      PROVE  networks'[m] # None /\ networks'[m].Members[x] > 0
  <2>1. CASE m = n
    <3>1. /\ networks'[n] # None /\ networks[n].Members[x] \in Nat
          /\ networks'[n].Members[x] = networks[n].Members[x] + (IF x = id THEN 1 ELSE 0)
      BY <1>3, JoinedFacts, SMTT(30) DEF Exists
    <3>2. Live(x) /\ (x # id => nodes'[x].Networks = nodes[x].Networks)
      BY <1>3, JoinedNodes, Zenon
    <3> QED
      BY <1>0, <2>1, <3>1, <3>2
  <2>2. CASE m # n
    <3>1. networks'[m] = networks[m]
      BY <1>3, <2>2, JoinedFacts, SMTT(30)
    <3>2. Live(x) /\ (nodes'[x].Networks = nodes[x].Networks
                      \/ nodes'[x].Networks = nodes[x].Networks \cup {n})
      BY <1>3, JoinedNodes, Zenon
    <3> QED
      BY <1>0, <2>2, <3>1, <3>2, Zenon
  <2> QED
    BY <2>1, <2>2, Zenon
<1>4. ASSUME NEW id \in NodeIDs, NEW n \in NetIDs, Removed(id, n)
      PROVE  networks'[m] # None /\ networks'[m].Members[x] > 0
  <2>1. Live(x) /\ m \in nodes[x].Networks /\ ~(m = n /\ x = id)
    BY <1>4, RemovedNodes, ZenonT(30)
  <2>2. CASE m = n
    BY <1>0, <1>4, <2>1, <2>2, RemovedFacts DEF Exists
  <2>3. CASE m # n
    BY <1>0, <1>4, <2>1, <2>3, RemovedFacts, SMTT(30)
  <2> QED
    BY <2>2, <2>3, Zenon
<1>5. ASSUME NEW n \in NetIDs, Deleted(n)
      PROVE  networks'[m] # None /\ networks'[m].Members[x] > 0
  <2>1. Live(x) /\ m \in nodes[x].Networks /\ ~(m = n /\ IsMember(n, x))
    BY <1>5, DeletedNodes, ZenonT(30)
  <2>2. m # n
    BY <1>0, <2>1, Zenon DEF IsMember
  <2> QED
    BY <1>0, <1>5, <2>1, <2>2, DeletedFacts, Zenon
<1>6. ASSUME NEW n \in NetIDs, Changed(n)
      PROVE  networks'[m] # None /\ networks'[m].Members[x] > 0
  <2>1. Live(x) /\ m \in nodes[x].Networks
    BY <1>6, Zenon DEF Changed, Live
  <2> QED
    BY <1>0, <1>6, <2>1, ChangedFacts, Zenon DEF Exists
<1> QED
  BY <1>1, <1>2, <1>3, <1>4, <1>5, <1>6, Zenon DEF MembershipEffect, IsMember

\* Who a network lists, lists the network, and is listed once: the two carry
\* each other, since a second listing would survive a removal and a join checks
\* the node's side only.
LEMMA MembersListedEffect ==
  ASSUME Shape, NetsBelowNext, MembersListed, MembersOnce, MembershipEffect
  PROVE  MembersListed' /\ MembersOnce'
<1> SUFFICES ASSUME NEW x \in NodeIDs, NEW m \in NetIDs, networks'[m] # None
             PROVE  /\ networks'[m].Members[x] <= 1
                    /\ Live(x)' /\ networks'[m].Members[x] > 0 => m \in nodes'[x].Networks
  BY Zenon DEF MembersListed, MembersOnce, IsMember, Exists
<1> DEFINE goal == /\ networks'[m].Members[x] <= 1
                   /\ Live(x)' /\ networks'[m].Members[x] > 0 => m \in nodes'[x].Networks
<1>0. ASSUME networks[m] # None
      PROVE  /\ networks[m].Members[x] \in Nat /\ networks[m].Members[x] <= 1
             /\ Live(x) /\ networks[m].Members[x] > 0 => m \in nodes[x].Networks
  BY <1>0, NetworkType, Zenon DEF MembersListed, MembersOnce, IsMember, Exists
<1>1. CASE SameNetworks
  BY <1>0, <1>1, Zenon DEF SameNetworks, Live
<1>2. ASSUME NEW id \in NodeIDs, Created(id) PROVE goal
  <2>1. /\ networks'[nextNet].Members[x] = IF x = id THEN 1 ELSE 0
        /\ \A k \in NetIDs \ {nextNet} : networks'[k] = networks[k]
    BY <1>2, CreatedFacts, Zenon
  <2>2. Live(x)' => /\ Live(x) /\ nodes[x].Networks \subseteq nodes'[x].Networks
                    /\ x = id => nextNet \in nodes'[x].Networks
    BY <1>2, CreatedNodes, Zenon
  <2> QED
    BY <1>0, <2>1, <2>2, SMTT(30)
<1>3. ASSUME NEW id \in NodeIDs, NEW n \in NetIDs, Joined(id, n) PROVE goal
  <2>1. /\ Exists(n)
        /\ networks'[n].Members[x] = networks[n].Members[x] + (IF x = id THEN 1 ELSE 0)
        /\ \A k \in NetIDs \ {n} : networks'[k] = networks[k]
    BY <1>3, JoinedFacts, SMTT(30)
  <2>2. /\ Live(id) /\ n \notin nodes[id].Networks
        /\ Live(x)' => /\ Live(x) /\ nodes[x].Networks \subseteq nodes'[x].Networks
                       /\ x = id => n \in nodes'[x].Networks
    BY <1>3, JoinedNodes, ZenonT(30)
  <2> QED
    BY <1>0, <2>1, <2>2 DEF Exists
<1>4. ASSUME NEW id \in NodeIDs, NEW n \in NetIDs, Removed(id, n) PROVE goal
  <2>1. /\ Exists(n)
        /\ networks'[n].Members[x] =
             IF x = id /\ networks[n].Members[x] > 0 THEN networks[n].Members[x] - 1
             ELSE networks[n].Members[x]
        /\ \A k \in NetIDs \ {n} : networks'[k] = networks[k]
    BY <1>4, RemovedFacts
  <2>2. Live(x)' => /\ Live(x) /\ nodes[x].Networks \ {n} \subseteq nodes'[x].Networks
                    /\ x # id => nodes'[x].Networks = nodes[x].Networks
    BY <1>4, RemovedNodes, ZenonT(30)
  <2>3. CASE m = n
    BY <1>0, <2>1, <2>2, <2>3 DEF Exists
  <2>4. CASE m # n
    BY <1>0, <2>1, <2>2, <2>4, Zenon
  <2> QED
    BY <2>3, <2>4
<1>5. ASSUME NEW n \in NetIDs, Deleted(n) PROVE goal
  <2>1. m # n /\ networks'[m] = networks[m]
    BY <1>5, DeletedFacts, Zenon DEF Exists
  <2>2. Live(x)' => Live(x) /\ nodes[x].Networks \ {n} \subseteq nodes'[x].Networks
    BY <1>5, DeletedNodes, Zenon
  <2> QED
    BY <1>0, <2>1, <2>2, Zenon
<1>6. ASSUME NEW n \in NetIDs, Changed(n) PROVE goal
  <2>1. networks[m] # None /\ networks'[m].Members = networks[m].Members
    BY <1>6, ChangedFacts, Zenon DEF Exists
  <2>2. nodes' = nodes
    BY <1>6, Zenon DEF Changed
  <2> QED
    BY <1>0, <2>1, <2>2, Zenon DEF Live
<1> QED
  BY <1>1, <1>2, <1>3, <1>4, <1>5, <1>6, Zenon DEF MembershipEffect

\* The directory: what a node lists, lists the node.
LEMMA NetworksListedDirectory ==
  ASSUME Shape, NetworksListed, DirectoryEffect
  PROVE  NetworksListed'
<1> SUFFICES ASSUME NEW x \in NodeIDs, NEW m \in NetIDs, Live(x)', m \in nodes'[x].Networks
             PROVE  IsMember(m, x)'
  BY Zenon DEF NetworksListed
<1>1. NodeEffect(x) /\ NetworkEffect(m)
  BY Zenon DEF DirectoryEffect
<1>2. ASSUME IsMember(m, x), m = 0 => Live(x) PROVE IsMember(m, x)'
  BY <1>1, <1>2, Zenon DEF NetworkEffect, IsMember, Exists, ListingEffect, ListingKept,
     ListingDropped, BackboneEntered
<1>3. CASE NodeKept(x)
  BY <1>2, <1>3, Zenon DEF NodeKept, NetworksListed
<1>4. CASE NodeArrives(x)
  <2>1. IsMember(0, x)' /\ (m # 0 => IsMember(m, x))
    BY <1>4, Zenon DEF NodeArrives, ScanNetworkMemberships
  <2> QED
    BY <1>2, <2>1, Zenon
<1>5. CASE OwnerReclaimed(x)
  BY <1>5, Zenon DEF OwnerReclaimed
<1> QED
  BY <1>1, <1>3, <1>4, <1>5, Zenon DEF NodeEffect

\* The directory: who a network lists, lists the network, unless a node comes
\* back by its owner.
LEMMA MembersListedDirectory ==
  ASSUME Shape, MembersListed, MembersOnce, DirectoryEffect,
         \A c \in Clients : ~RegisterOwnerReclaim(c)
  PROVE  MembersListed' /\ MembersOnce'
<1> SUFFICES ASSUME NEW x \in NodeIDs, NEW m \in NetIDs, networks'[m] # None
             PROVE  /\ networks'[m].Members[x] <= 1
                    /\ Live(x)' /\ networks'[m].Members[x] > 0 => m \in nodes'[x].Networks
  BY Zenon DEF MembersListed, MembersOnce, IsMember, Exists
<1>1. NodeEffect(x) /\ NetworkEffect(m)
  BY Zenon DEF DirectoryEffect
<1>2. networks[m] # None /\ ListingEffect(m, x)
  BY <1>1, Zenon DEF NetworkEffect, Exists
<1>3. /\ networks[m].Members[x] \in Nat /\ networks[m].Members[x] <= 1
      /\ Live(x) /\ networks[m].Members[x] > 0 => m \in nodes[x].Networks
  BY <1>2, NetworkType, Zenon DEF MembersListed, MembersOnce, IsMember, Exists
<1>4. networks'[m].Members[x] <= 1
  BY <1>2, <1>3, SMTT(30) DEF ListingEffect, ListingKept, ListingDropped, BackboneEntered
<1>5. ASSUME Live(x)', networks'[m].Members[x] > 0 PROVE m \in nodes'[x].Networks
  <2>1. CASE NodeKept(x)
    BY <1>2, <1>3, <1>5, <2>1, Zenon DEF NodeKept, ListingEffect, ListingKept, ListingDropped,
       BackboneEntered
  <2>2. CASE NodeArrives(x)
    <3>1. nodes'[x].Networks = {0} \cup ScanNetworkMemberships(x) /\ ~Live(x)
      BY <2>2, Zenon DEF NodeArrives
    <3>2. m # 0 => networks[m].Members[x] > 0
      BY <1>2, <1>5, <3>1, Zenon DEF ListingEffect, ListingKept, ListingDropped, BackboneEntered
    <3> QED
      BY <1>2, <3>1, <3>2, Zenon DEF ScanNetworkMemberships, IsMember
  <2> QED
    BY <1>1, <1>5, <2>1, <2>2, Zenon DEF NodeEffect, OwnerReclaimed
<1> QED
  BY <1>4, <1>5, Zenon

-----------------------------------------------------------------------------
(* Owners *)

\* What OwnerKept says of one network.
OwnerStep(n) ==
  /\ EnterpriseNet(n) /\ HasOwner(networks[n].MemberRoles)
  /\ EnterpriseNet(n)'
  /\ ~HasOwner(networks'[n].MemberRoles)
  => \E id \in NodeIDs :
       /\ networks[n].MemberRoles[id] = "owner"
       /\ Live(id) /\ ~Live(id)' /\ ~IsMember(n, id)'

\* No request about networks takes the owner away, except with the flag or the
\* network.
LEMMA OwnerEffect ==
  ASSUME NetworkInv, AgreementInv, MembershipEffect, NEW m \in NetIDs
  PROVE  OwnerStep(m)
<1> USE DEF NetworkInv, NetworkShape
<1> SUFFICES ASSUME networks[m] # None, networks[m].Enterprise, networks'[m] # None,
                    networks'[m].Enterprise, NEW o \in NodeIDs,
                    networks[m].MemberRoles[o] = "owner"
             PROVE  HasOwner(networks'[m].MemberRoles)
  BY Zenon DEF OwnerStep, EnterpriseNet, Exists, HasOwner
<1>1. m # 0
  BY Zenon DEF BackbonePlain
<1>2. CASE networks'[m].MemberRoles[o] = "owner"
  BY <1>2, Zenon DEF HasOwner
<1>3. ASSUME NEW id \in NodeIDs, Created(id) PROVE HasOwner(networks'[m].MemberRoles)
  <2>1. m # nextNet
    BY <1>3, NextNetFree, Zenon DEF Created, Exists
  <2> QED
    BY <1>2, <1>3, <2>1, CreatedFacts, Zenon
<1>4. ASSUME NEW id \in NodeIDs, NEW n \in NetIDs, Joined(id, n)
      PROVE  HasOwner(networks'[m].MemberRoles)
  <2>1. Live(o) => m \in nodes[o].Networks
    <3>1. IsMember(m, o)
      BY <1>1, NoneAssumption, Zenon DEF RolesSound, Exists, Roles
    <3> QED
      BY <3>1, Zenon DEF AgreementInv, MembersListed
  <2>2. Live(id) /\ n \notin nodes[id].Networks
    BY <1>4, JoinedNodes, ZenonT(30)
  <2>3. ~(m = n /\ o = id)
    BY <2>1, <2>2, Zenon
  <2> QED
    BY <1>2, <1>4, <2>3, JoinedFacts, SMTT(30)
<1>5. ASSUME NEW id \in NodeIDs, NEW n \in NetIDs, Removed(id, n)
      PROVE  HasOwner(networks'[m].MemberRoles)
  <2>1. ~(m = n /\ o = id)
    BY <1>5, Zenon DEF Removed
  <2> QED
    BY <1>2, <1>5, <2>1, RemovedFacts
<1>6. ASSUME NEW n \in NetIDs, Deleted(n) PROVE HasOwner(networks'[m].MemberRoles)
  BY <1>2, <1>6, DeletedFacts, Zenon DEF Exists
<1>7. ASSUME NEW n \in NetIDs, Changed(n) PROVE HasOwner(networks'[m].MemberRoles)
  <2>1. HasOwner(networks[m].MemberRoles)
    BY Zenon DEF HasOwner
  <2> QED
    BY <1>2, <1>7, <2>1, ChangedFacts, Zenon
<1>8. CASE SameNetworks
  BY <1>2, <1>8, Zenon DEF SameNetworks
<1> QED
  BY <1>3, <1>4, <1>5, <1>6, <1>7, <1>8, Zenon DEF MembershipEffect

\* In the directory only the owner's own deregistration does.
LEMMA OwnerDirectory ==
  ASSUME NetworkInv, AgreementInv, DirectoryEffect, NEW m \in NetIDs
  PROVE  OwnerStep(m)
<1> USE DEF NetworkInv, NetworkShape
<1> SUFFICES ASSUME networks[m] # None, networks[m].Enterprise,
                    ~HasOwner(networks'[m].MemberRoles), NEW o \in NodeIDs,
                    networks[m].MemberRoles[o] = "owner"
             PROVE  Live(o) /\ ~Live(o)' /\ ~IsMember(m, o)'
  BY Zenon DEF OwnerStep, EnterpriseNet, Exists, HasOwner
<1>1. m # 0
  BY Zenon DEF BackbonePlain
<1>2. ListingEffect(m, o)
  BY Zenon DEF DirectoryEffect, NetworkEffect, Exists
<1>3. ListingDropped(m, o)
  BY <1>1, <1>2, Zenon DEF ListingEffect, ListingKept, BackboneEntered, HasOwner
<1>4. networks[m].Members[o] \in Nat /\ networks[m].Members[o] <= 1
  BY NetworkType DEF AgreementInv, MembersOnce, Exists
<1> QED
  BY <1>3, <1>4, SMTT(30) DEF ListingDropped, IsMember

=============================================================================

-------------------------- MODULE DirectoryEffects --------------------------
(***************************************************************************)
(* What each step of the directory may do to networks, nodes and invite    *)
(* inboxes: it keeps, drops or adds listings in three ways; and that it    *)
(* keeps the ids in use below the counter.  Shape, the inductive form of   *)
(* the directory's types, and facts about its helpers come first.          *)
(***************************************************************************)
EXTENDS Directory, TLAPS

\* None, the value at an absent key, is none of the values a map holds.
LEMMA NoneFacts ==
  /\ None \notin NodeIDs /\ None \notin NodeInfo /\ None \notin NetworkInfo
  /\ None \notin Request /\ None \notin Rotation
  /\ None \notin Keys /\ None \notin Owners /\ None \notin Hostnames
BY NoneAssumption, NoneRecordAssumption, NoneRequestAssumption, RegistryAssumption

\* The backbone's id is a network id.
LEMMA ZeroNet == 0 \in NetIDs
BY RegistryAssumption DEF NetIDs

\* A request on the fast path holds a node that is in the map: deleting a node
\* turns the requests that hold it into orphans.
FastLive ==
  \A c \in Clients : regs[c] # None /\ regs[c].pc = "fast" =>
    regs[c].fpNodeID # None /\ Live(regs[c].fpNodeID)

\* The inductive strengthening of DirectoryTypeOK.
Shape ==
  /\ DirectoryTypeOK
  /\ FastLive
  /\ networks[0] # None

\* Some map, index, member list or rotation in flight has this id.
UsedID(id) ==
  \/ Live(id)
  \/ \E k \in Keys : pubKeyIdx[k] = id
  \/ \E o \in Owners : ownerIdx[o] = id
  \/ \E h \in Hostnames : hostnameIdx[h] = id
  \/ \E n \in NetIDs : IsMember(n, id)
  \/ \E r \in Rotators : rots[r] # None /\ rots[r].id = id

\* The inductive strengthening of NextIDUnused: ids are handed out in ascending
\* order and every id in use was handed out.
IDsBelowNext == \A id \in NodeIDs : UsedID(id) => nextNode = 0 \/ id < nextNode

\* setNodeHostname and the hostname it grants stay within their types.
LEMMA HostnameType ==
  ASSUME Shape, NEW h \in OrNone(Hostnames), NEW id \in NodeIDs,
         NEW old \in OrNone(Hostnames)
  PROVE  /\ NewHostname(h, id, old) \in OrNone(Hostnames)
         /\ setNodeHostname(h, id, old) => hostnameIdx' \in [Hostnames -> OrNone(NodeIDs)]
BY NoneFacts, Zenon DEF Shape, DirectoryTypeOK, RegistryTypeOK, OrNone, NewHostname,
   setNodeHostname, Index

\* A WAL append of a delta keeps the log a sequence of deltas.
LEMMA WALType ==
  ASSUME Shape, NEW d \in Delta, RecordWAL(d)
  PROVE  wal' \in Seq(Delta)
BY DEF Shape, DirectoryTypeOK, RegistryTypeOK, RecordWAL

\* A node built for a request has the type of nodes.
LEMMA FreshNodeType ==
  ASSUME Shape, NEW req \in Request, NEW id \in NodeIDs, NEW nets \in SUBSET NetIDs
  PROVE  FreshNode(req, id, nets) \in NodeInfo
<1>1. NewHostname(req.Hostname, id, None) \in OrNone(Hostnames)
  BY HostnameType DEF Request, OrNone
<1> QED
  BY <1>1 DEF FreshNode, NodeInfo, Request

\* Storing a node keeps the type of the map, and no node leaves it.
LEMMA NodeStored ==
  ASSUME Shape, NEW id \in NodeIDs, NEW node \in NodeInfo,
         nodes' = [nodes EXCEPT ![id] = node]
  PROVE  /\ nodes' \in [NodeIDs -> OrNone(NodeInfo)]
         /\ \A x \in NodeIDs : Live(x)' <=> (Live(x) \/ x = id)
BY NoneFacts DEF Shape, DirectoryTypeOK, RegistryTypeOK, OrNone, Live

\* Requests in flight when no request changes and no node leaves.
LEMMA RequestsKept ==
  ASSUME Shape, regs' = regs, \A x \in NodeIDs : Live(x) => Live(x)'
  PROVE  regs' \in [Clients -> OrNone(Request)] /\ FastLive'
BY ZenonT(30) DEF Shape, DirectoryTypeOK, OrNone, FastLive, Request

\* Replacing one network keeps the type of the map and the other networks.
LEMMA NetworkStored ==
  ASSUME Shape, NEW n \in NetIDs, NEW net \in NetworkInfo,
         networks' = [networks EXCEPT ![n] = net]
  PROVE  /\ networks' \in [NetIDs -> OrNone(NetworkInfo)] /\ networks'[0] # None
         /\ networks'[n] = net /\ net # None
         /\ \A m \in NetIDs \ {n} : networks'[m] = networks[m]
BY NoneFacts DEF Shape, DirectoryTypeOK, RegistryTypeOK, OrNone

\* A network that exists has the type of networks.
LEMMA NetworkType ==
  ASSUME Shape, NEW n \in NetIDs, Exists(n)
  PROVE  /\ networks[n] \in NetworkInfo
         /\ networks[n].Members \in [NodeIDs -> Nat]
         /\ networks[n].MemberRoles \in [NodeIDs -> OrNone(Roles)]
<1>1. networks[n] \in NetworkInfo
  BY DEF Shape, DirectoryTypeOK, RegistryTypeOK, OrNone, Exists
<1> QED
  BY <1>1 DEF NetworkInfo

\* The backbone is always there.
LEMMA BackbonePresent ==
  ASSUME Shape
  PROVE  0 \in NetIDs /\ Exists(0)
BY RegistryAssumption DEF NetIDs, Shape, DirectoryTypeOK, RegistryTypeOK, Exists

\* Removing a member drops one entry and the role, and nothing else.
LEMMA WithoutMemberFacts ==
  ASSUME NEW net \in NetworkInfo, NEW id \in NodeIDs
  PROVE  /\ WithoutMember(net, id) \in NetworkInfo
         /\ WithoutMember(net, id).Members =
              [net.Members EXCEPT ![id] = IF @ > 0 THEN @ - 1 ELSE 0]
         /\ WithoutMember(net, id).MemberRoles = [net.MemberRoles EXCEPT ![id] = None]
         /\ WithoutMember(net, id).Enterprise = net.Enterprise
         /\ WithoutMember(net, id).MaxMembers = net.MaxMembers
<1> DEFINE mem == [net.Members EXCEPT ![id] = IF @ > 0 THEN @ - 1 ELSE 0]
           roles == [net.MemberRoles EXCEPT ![id] = None]
<1>1. net.Members \in [NodeIDs -> Nat] /\ net.MemberRoles \in [NodeIDs -> OrNone(Roles)]
  BY DEF NetworkInfo
<1>2. mem \in [NodeIDs -> Nat] /\ roles \in [NodeIDs -> OrNone(Roles)]
  BY <1>1 DEF OrNone
<1>3. WithoutMember(net, id) = [net EXCEPT !.Members = mem, !.MemberRoles = roles]
  BY DEF WithoutMember, DropMember, NetworkInfo
<1> HIDE DEF mem, roles
<1> QED
  BY <1>2, <1>3, Zenon DEF NetworkInfo, mem, roles

-----------------------------------------------------------------------------
(* The effects of the directory's steps on networks and nodes *)

ListingKept(n, id) ==
  /\ networks'[n].Members[id] = networks[n].Members[id]
  /\ networks'[n].MemberRoles[id] = networks[n].MemberRoles[id]

\* Deregister and the reaper take a listing from a node they delete; only the
\* reaper leaves the role, and it touches the backbone alone.
ListingDropped(n, id) ==
  /\ Live(id) /\ ~Live(id)'
  /\ networks'[n].Members[id] =
       IF networks[n].Members[id] > 0 THEN networks[n].Members[id] - 1 ELSE 0
  /\ n # 0 => networks'[n].MemberRoles[id] = None

\* AddNodeToBackbone, for a node that becomes live.
BackboneEntered(n, id) ==
  /\ n = 0 /\ ~Live(id)
  /\ networks[n].Members[id] = 0 /\ networks'[n].Members[id] = 1
  /\ networks'[n].MemberRoles[id] = networks[n].MemberRoles[id]

ListingEffect(n, id) == ListingKept(n, id) \/ ListingDropped(n, id) \/ BackboneEntered(n, id)

NetworkEffect(n) ==
  /\ Exists(n)' <=> Exists(n)
  /\ Exists(n) => /\ networks'[n].Enterprise = networks[n].Enterprise
                  /\ networks'[n].MaxMembers = networks[n].MaxMembers
                  /\ \A id \in NodeIDs : ListingEffect(n, id)

NodeKept(id) ==
  Live(id) /\ Live(id)' /\ nodes'[id].Networks = nodes[id].Networks

\* A node enters the directory with the networks that list it, and the backbone.
NodeArrives(id) ==
  /\ ~Live(id) /\ Live(id)' /\ IsMember(0, id)'
  /\ nodes'[id].Networks = {0} \cup ScanNetworkMemberships(id)

\* A new key takes the id of an owner's dead node, with the backbone only.
OwnerReclaimed(id) ==
  /\ ~Live(id) /\ Live(id)' /\ IsMember(0, id)'
  /\ nodes'[id].Networks = {0}
  /\ \E c \in Clients : RegisterOwnerReclaim(c)

NodeEffect(id) == ~Live(id)' \/ NodeKept(id) \/ NodeArrives(id) \/ OwnerReclaimed(id)

DirectoryEffect ==
  /\ nextNet' = nextNet
  /\ \A t \in NodeIDs : inviteInbox'[t] \subseteq inviteInbox[t]
  /\ \A n \in NetIDs : NetworkEffect(n)
  /\ \A id \in NodeIDs : NodeEffect(id)

\* Steps that leave the networks alone.
LEMMA NetworksSame ==
  ASSUME networks' = networks
  PROVE  \A n \in NetIDs : NetworkEffect(n)
BY DEF NetworkEffect, Exists, ListingEffect, ListingKept

\* AddNodeToBackbone lists the node in the backbone, once, and nowhere else.
LEMMA BackboneAdded ==
  ASSUME Shape, NEW id \in NodeIDs, ~Live(id), AddNodeToBackbone(id)
  PROVE  (\A n \in NetIDs : NetworkEffect(n)) /\ IsMember(0, id)'
<1>1. 0 \in NetIDs /\ networks[0] \in NetworkInfo /\ networks[0] # None
  BY RegistryAssumption, SMTT(30) DEF NetIDs, Shape, DirectoryTypeOK, RegistryTypeOK, OrNone
<1>2. CASE IsMember(0, id)
  BY <1>2, NetworksSame, SMTT(30) DEF AddNodeToBackbone, IsMember
<1>3. CASE ~IsMember(0, id)
  <2> DEFINE mem == [networks[0].Members EXCEPT ![id] = @ + 1]
             net == [networks[0] EXCEPT !.Members = mem]
  <2>1. networks[0].Members \in [NodeIDs -> Nat]
    BY <1>1 DEF NetworkInfo
  <2>2. mem \in [NodeIDs -> Nat]
    BY <2>1
  <2>3. networks' = [networks EXCEPT ![0] = net]
    BY <1>3 DEF AddNodeToBackbone
  <2>4. /\ \A x \in NodeIDs \ {id} : mem[x] = networks[0].Members[x]
        /\ networks[0].Members[id] = 0 /\ mem[id] = 1
    BY <1>1, <1>3, <2>1, SMTT(30) DEF IsMember
  <2> HIDE DEF mem
  <2>5. /\ net \in NetworkInfo /\ net.Members = mem
        /\ net.MemberRoles = networks[0].MemberRoles
        /\ net.Enterprise = networks[0].Enterprise /\ net.MaxMembers = networks[0].MaxMembers
    BY <1>1, <2>2 DEF NetworkInfo
  <2> HIDE DEF net
  <2>6. /\ networks'[0] = net /\ net # None
        /\ \A m \in NetIDs \ {0} : networks'[m] = networks[m]
    BY <1>1, <2>3, <2>5, NetworkStored, Zenon
  <2>7. NetworkEffect(0)
    BY <1>1, <2>4, <2>5, <2>6, Zenon DEF NetworkEffect, ListingEffect, ListingKept,
       BackboneEntered, Exists
  <2>8. \A n \in NetIDs \ {0} : NetworkEffect(n)
    BY <2>6 DEF NetworkEffect, ListingEffect, ListingKept, Exists
  <2> QED
    BY <2>4, <2>5, <2>6, <2>7, <2>8, SMTT(30) DEF IsMember
<1> QED
  BY <1>2, <1>3, SMTT(30)

\* A node whose fields change keeps its networks.
LEMMA NodeFields ==
  ASSUME Shape, NEW id \in NodeIDs, Live(id), NEW node \in NodeInfo,
         nodes' = [nodes EXCEPT ![id] = node], node.Networks = nodes[id].Networks
  PROVE  \A x \in NodeIDs : NodeEffect(x)
<1>1. nodes'[id] = node /\ \A y \in NodeIDs \ {id} : nodes'[y] = nodes[y]
  BY DEF Shape, DirectoryTypeOK, RegistryTypeOK
<1> QED
  BY <1>1, NoneFacts, Zenon DEF NodeEffect, NodeKept, Live

\* A node built for a request is live and in the networks given.
LEMMA FreshStored ==
  ASSUME Shape, NEW req \in Request, NEW id \in NodeIDs, NEW nets \in SUBSET NetIDs,
         nodes' = [nodes EXCEPT ![id] = FreshNode(req, id, nets)]
  PROVE  /\ nodes'[id] # None /\ nodes'[id].Networks = nets
         /\ \A x \in NodeIDs \ {id} : nodes'[x] = nodes[x]
<1> DEFINE node == FreshNode(req, id, nets)
<1>1. node \in NodeInfo /\ node.Networks = nets
  BY FreshNodeType DEF FreshNode
<1> HIDE DEF node
<1>2. nodes' = [nodes EXCEPT ![id] = node]
  BY DEF node
<1> QED
  BY <1>1, <1>2, NoneFacts, SMTT(30) DEF Shape, DirectoryTypeOK, RegistryTypeOK

\* A node comes in: by its key, by its owner, or with a new id.
LEMMA ArrivalEffect ==
  ASSUME Shape, NEW req \in Request, NEW id \in NodeIDs, ~Live(id),
         NEW nets \in SUBSET NetIDs,
         nodes' = [nodes EXCEPT ![id] = FreshNode(req, id, nets)], AddNodeToBackbone(id),
         nextNet' = nextNet, inviteInbox' = inviteInbox,
         \/ nets = {0} \cup ScanNetworkMemberships(id)
         \/ nets = {0} /\ \E c \in Clients : RegisterOwnerReclaim(c)
  PROVE  DirectoryEffect
<1>1. (\A n \in NetIDs : NetworkEffect(n)) /\ IsMember(0, id)'
  BY BackboneAdded
<1>2. /\ nodes'[id] # None /\ nodes'[id].Networks = nets
      /\ \A x \in NodeIDs \ {id} : nodes'[x] = nodes[x]
  BY FreshStored, Zenon
<1>3. NodeArrives(id) \/ OwnerReclaimed(id)
  BY <1>1, <1>2 DEF NodeArrives, OwnerReclaimed, Live
<1>4. \A x \in NodeIDs : NodeEffect(x)
  BY <1>2, <1>3 DEF NodeEffect, NodeKept, Live
<1> QED
  BY <1>1, <1>4 DEF DirectoryEffect

\* Steps that change no node's networks and no network.
LEMMA QuietEffect ==
  ASSUME networks' = networks, nextNet' = nextNet, inviteInbox' = inviteInbox,
         \A x \in NodeIDs : NodeEffect(x)
  PROVE  DirectoryEffect
BY NetworksSame DEF DirectoryEffect

\* Steps that change no node.
LEMMA NodesSame ==
  ASSUME nodes' = nodes
  PROVE  \A x \in NodeIDs : NodeEffect(x)
BY DEF NodeEffect, NodeKept, Live

\* Register requests.
LEMMA RegisterEffect ==
  ASSUME Shape, NextIDUnused, NEW c \in Clients, RegisterStep(c)
  PROVE  DirectoryEffect
<1>0. 0 \in NetIDs /\ {0} \in SUBSET NetIDs
  BY RegistryAssumption DEF NetIDs
<1>1. CASE UNCHANGED <<nodes, networks, nextNet, inviteInbox>>
  BY <1>1, NodesSame, QuietEffect
<1>2. CASE RegisterFast(c) /\ ~UNCHANGED nodes
  <2> DEFINE id == regs[c].fpNodeID
             node == [nodes[id] EXCEPT !.stale = FALSE,
                                       !.SigVerified = @ \/ regs[c].sigVerified]
  <2>1. /\ id \in NodeIDs /\ nodes[id] \in NodeInfo /\ regs[c] \in Request /\ Live(id)
        /\ nodes' = [nodes EXCEPT ![id] = node]
        /\ UNCHANGED <<networks, nextNet, inviteInbox>>
    BY <1>2, Zenon DEF RegisterFast, Shape, FastLive, DirectoryTypeOK, RegistryTypeOK,
       OrNone, Request, membershipVars, Live
  <2>2. node \in NodeInfo /\ node.Networks = nodes[id].Networks
    BY <2>1, Zenon DEF NodeInfo, Request
  <2> HIDE DEF node, id
  <2> QED
    BY <2>1, <2>2, NodeFields, QuietEffect, Zenon
<1>3. CASE RegisterExisting(c)
  <2> DEFINE req == regs[c]
             id == pubKeyIdx[req.PublicKey]
             claims == req.Owner # None /\ nodes[id].Owner = None
             name == NewHostname(req.Hostname, id, nodes[id].Hostname)
             node == [nodes[id] EXCEPT !.stale = FALSE,
                             !.SigVerified = @ \/ req.sigVerified,
                             !.Owner = IF claims THEN req.Owner ELSE @,
                             !.Hostname = name]
  <2>1. req \in Request /\ id \in NodeIDs /\ nodes[id] \in NodeInfo /\ Live(id)
    <3>1. regs[c] # None /\ id # None /\ nodes[id] # None
      BY <1>3, Zenon DEF RegisterExisting, KnownLive, Known, Live
    <3>2. req \in Request
      BY <3>1, Zenon DEF Shape, DirectoryTypeOK, OrNone
    <3>3. id \in NodeIDs
      BY <3>1, <3>2, SMTT(30) DEF Shape, DirectoryTypeOK, RegistryTypeOK, OrNone, Request
    <3> QED
      BY <3>1, <3>2, <3>3 DEF Shape, DirectoryTypeOK, RegistryTypeOK, OrNone, Live
  <2>2. nodes' = [nodes EXCEPT ![id] = node] /\ UNCHANGED <<networks, nextNet, inviteInbox>>
    BY <1>3, Zenon DEF RegisterExisting, membershipVars
  <2>3. name \in OrNone(Hostnames)
    BY <2>1, HostnameType DEF Request, NodeInfo
  <2> HIDE DEF name
  <2>4. node \in NodeInfo /\ node.Networks = nodes[id].Networks
    BY <2>1, <2>3, ZenonT(30) DEF NodeInfo, Request, OrNone
  <2> HIDE DEF node, id
  <2> QED
    BY <2>1, <2>2, <2>4, NodeFields, QuietEffect, Zenon
<1>4. CASE RegisterReclaim(c)
  <2> DEFINE req == regs[c]
             id == pubKeyIdx[req.PublicKey]
             nets == {0} \cup ScanNetworkMemberships(id)
  <2>1. /\ req \in Request /\ id \in NodeIDs /\ ~Live(id)
        /\ nodes' = [nodes EXCEPT ![id] = FreshNode(req, id, nets)]
        /\ AddNodeToBackbone(id) /\ nextNet' = nextNet /\ inviteInbox' = inviteInbox
    BY <1>4, SMTT(30) DEF RegisterReclaim, Shape, DirectoryTypeOK, RegistryTypeOK, OrNone, Request,
       Known, KnownLive
  <2>2. nets \in SUBSET NetIDs /\ nets = {0} \cup ScanNetworkMemberships(id)
    BY <1>0 DEF ScanNetworkMemberships
  <2> HIDE DEF nets, id, req
  <2> QED
    BY <2>1, <2>2, ArrivalEffect, Zenon
<1>5. CASE RegisterOwnerReclaim(c)
  <2> DEFINE req == regs[c]
             id == ownerIdx[req.Owner]
  <2>1. /\ req \in Request /\ id \in NodeIDs /\ ~Live(id)
        /\ nodes' = [nodes EXCEPT ![id] = FreshNode(req, id, {0})]
        /\ AddNodeToBackbone(id) /\ nextNet' = nextNet /\ inviteInbox' = inviteInbox
    BY <1>5, Zenon DEF RegisterOwnerReclaim, Shape, DirectoryTypeOK, RegistryTypeOK,
       OrNone, Request, OwnerKnown, OwnerAlive
  <2> HIDE DEF id, req
  <2> QED
    BY <1>0, <1>5, <2>1, ArrivalEffect, Zenon
<1>6. CASE RegisterNew(c)
  <2> DEFINE req == regs[c]
             id == nextNode
  <2>1. /\ regs[c] # None /\ nextNode # 0
        /\ nodes' = [nodes EXCEPT ![id] = FreshNode(req, id, {0})]
        /\ AddNodeToBackbone(id) /\ nextNet' = nextNet /\ inviteInbox' = inviteInbox
    BY <1>6, Zenon DEF RegisterNew
  <2>2. req \in Request /\ id \in NodeIDs
    <3>1. regs \in [Clients -> OrNone(Request)] /\ nextNode \in 0 .. MaxNodeID
      BY Zenon DEF Shape, DirectoryTypeOK, RegistryTypeOK
    <3>2. req \in Request
      BY <2>1, <3>1, Zenon DEF OrNone
    <3> QED
      BY <2>1, <3>1, <3>2, RegistryAssumption, SMTT(30) DEF NodeIDs
  <2>3. ~Live(id) /\ {0} = {0} \cup ScanNetworkMemberships(id)
    BY <2>1, Zenon DEF NextIDUnused, ScanNetworkMemberships
  <2> HIDE DEF id, req
  <2> QED
    BY <1>0, <2>1, <2>2, <2>3, ArrivalEffect, Zenon
<1> QED
  BY <1>1, <1>2, <1>3, <1>4, <1>5, <1>6, ZenonT(30) DEF RegisterStep, RegisterBegin, RegisterLookup,
     RegisterFast, RegisterOrphan, RegisterOwnerLive, RegisterRefused, registryVars,
     directoryVars, membershipVars

\* Deregister takes the node out of the networks it lists.
LEMMA DeregisterEffect ==
  ASSUME Shape, NEW id \in NodeIDs, Deregister(id)
  PROVE  DirectoryEffect
<1>1. /\ Live(id) /\ nodes' = [nodes EXCEPT ![id] = None] /\ nextNet' = nextNet
      /\ RemoveFromNetworks(id, nodes[id].Networks) /\ ClearInviteInbox(id)
  BY Zenon DEF Deregister
<1>2. ~Live(id)' /\ \A x \in NodeIDs \ {id} : nodes'[x] = nodes[x]
  BY <1>1, Zenon DEF Live, Shape, DirectoryTypeOK, RegistryTypeOK
<1>3. \A x \in NodeIDs : NodeEffect(x)
  BY <1>2 DEF NodeEffect, NodeKept, Live
<1>4. \A t \in NodeIDs : inviteInbox'[t] \subseteq inviteInbox[t]
  BY <1>1 DEF ClearInviteInbox
<1>5. ASSUME NEW n \in NetIDs PROVE NetworkEffect(n)
  <2>1. CASE n \in nodes[id].Networks /\ Exists(n)
    <3> DEFINE net == WithoutMember(networks[n], id)
    <3>1. networks[n] \in NetworkInfo /\ networks[n].Members \in [NodeIDs -> Nat]
          /\ networks[n].MemberRoles \in [NodeIDs -> OrNone(Roles)]
      BY <2>1, NetworkType, SMTT(30)
    <3>2. networks'[n] = net
      BY <1>1, <2>1, Zenon DEF RemoveFromNetworks, Exists
    <3>3. /\ net \in NetworkInfo
          /\ net.Members = [networks[n].Members EXCEPT ![id] = IF @ > 0 THEN @ - 1 ELSE 0]
          /\ net.MemberRoles = [networks[n].MemberRoles EXCEPT ![id] = None]
          /\ net.Enterprise = networks[n].Enterprise /\ net.MaxMembers = networks[n].MaxMembers
      BY <3>1, WithoutMemberFacts, Zenon
    <3> HIDE DEF net
    <3>4. ASSUME NEW x \in NodeIDs PROVE ListingEffect(n, x)
      BY <1>1, <1>2, <3>1, <3>2, <3>3, SMTT(30) DEF ListingEffect, ListingKept, ListingDropped
    <3> QED
      BY <2>1, <3>2, <3>3, <3>4, NoneFacts, Zenon DEF NetworkEffect, Exists
  <2>2. CASE ~(n \in nodes[id].Networks /\ Exists(n))
    <3>1. networks'[n] = networks[n]
      BY <1>1, <2>2, Zenon DEF RemoveFromNetworks, Exists
    <3> QED
      BY <3>1 DEF NetworkEffect, Exists, ListingEffect, ListingKept
  <2> QED
    BY <2>1, <2>2, Zenon
<1> QED
  BY <1>1, <1>3, <1>4, <1>5, Zenon DEF DirectoryEffect

\* Requests about a node.
LEMMA NodeStepEffect ==
  ASSUME Shape, NEW id \in NodeIDs, NodeStep(id)
  PROVE  DirectoryEffect
<1>1. nodes[id] \in NodeInfo /\ Live(id)
  BY DEF NodeStep, SetHostname, Heartbeat, Deregister, GoStale, Shape, DirectoryTypeOK,
     RegistryTypeOK, OrNone, Live
<1>2. ASSUME NEW hostname \in OrNone(Hostnames), SetHostname(id, hostname)
      PROVE  DirectoryEffect
  <2> DEFINE node == [nodes[id] EXCEPT !.Hostname = hostname]
  <2>1. node \in NodeInfo /\ node.Networks = nodes[id].Networks
    BY <1>1 DEF NodeInfo
  <2>2. nodes' = [nodes EXCEPT ![id] = node] /\ UNCHANGED <<networks, nextNet, inviteInbox>>
    BY <1>2 DEF SetHostname, membershipVars
  <2> HIDE DEF node
  <2> QED
    BY <1>1, <2>1, <2>2, NodeFields, QuietEffect, Zenon
<1>3. CASE Heartbeat(id) \/ GoStale(id)
  <2>1. PICK b \in BOOLEAN : /\ nodes' = [nodes EXCEPT ![id].stale = b]
                             /\ UNCHANGED <<networks, nextNet, inviteInbox>>
    BY <1>3, Zenon DEF Heartbeat, GoStale, membershipVars
  <2> DEFINE node == [nodes[id] EXCEPT !.stale = b]
  <2>2. node \in NodeInfo /\ node.Networks = nodes[id].Networks
    BY <1>1 DEF NodeInfo
  <2>3. nodes' = [nodes EXCEPT ![id] = node]
    BY <2>1, Zenon
  <2> HIDE DEF node
  <2> QED
    BY <1>1, <2>1, <2>2, <2>3, NodeFields, QuietEffect, Zenon
<1> QED
  BY <1>2, <1>3, DeregisterEffect, Zenon DEF NodeStep

\* Key rotation changes no membership.
LEMMA RotateEffect ==
  ASSUME Shape, NEW r \in Rotators, RotateStep(r)
  PROVE  DirectoryEffect
<1>1. CASE UNCHANGED <<nodes, networks, nextNet, inviteInbox>>
  BY <1>1, NodesSame, QuietEffect, SMTT(30)
<1>2. CASE RotateUpdate(r) /\ ~UNCHANGED nodes
  <2> DEFINE id == rots[r].id
             node == [nodes[id] EXCEPT !.PublicKey = rots[r].new, !.stale = FALSE]
  <2>1. /\ id \in NodeIDs /\ rots[r] \in Rotation /\ nodes[id] \in NodeInfo /\ Live(id)
        /\ nodes' = [nodes EXCEPT ![id] = node]
        /\ UNCHANGED <<networks, nextNet, inviteInbox>>
    BY <1>2, Zenon DEF RotateUpdate, Shape, DirectoryTypeOK, RegistryTypeOK, OrNone,
       Rotation, Live, membershipVars
  <2>2. node \in NodeInfo /\ node.Networks = nodes[id].Networks
    BY <2>1, Zenon DEF NodeInfo, Rotation
  <2> HIDE DEF node, id
  <2> QED
    BY <2>1, <2>2, NodeFields, QuietEffect, Zenon
<1> QED
  BY <1>1, <1>2, Zenon DEF RotateStep, RotateVerify, RotateUpdate, OnKeyRotated, RotateRecord,
     registryVars, directoryVars, membershipVars

\* The reaper takes the nodes it deletes out of the backbone.
LEMMA ReapEffect ==
  ASSUME Shape, ReapStep
  PROVE  DirectoryEffect
<1>1. CASE ReapSnapshot \/ ReapScan \/ ReapFinish
  BY <1>1, NodesSame, QuietEffect, Zenon DEF ReapSnapshot, ReapScan, ReapFinish, registryVars,
     directoryVars, membershipVars
<1>2. CASE ReapDelete
  <2> DEFINE batch == FirstInScan(reap.cands, ReapBatch)
             gone == {id \in batch : Live(id) /\ nodes[id].stale}
             mem == [id \in NodeIDs |-> IF id \in gone
                                        THEN DropMember(networks[0].Members, id)[id]
                                        ELSE networks[0].Members[id]]
             net == [networks[0] EXCEPT !.Members = mem]
  <2>1. /\ networks' = [networks EXCEPT ![0].Members = mem]
        /\ nodes' = [id \in NodeIDs |-> IF id \in gone THEN None ELSE nodes[id]]
        /\ nextNet' = nextNet /\ inviteInbox' = inviteInbox
    BY <1>2 DEF ReapDelete
  <2>2. \A id \in gone : Live(id)
    BY Zenon
  <2> HIDE DEF gone
  <2>3. /\ 0 \in NetIDs /\ networks[0] \in NetworkInfo /\ networks[0] # None
        /\ networks[0].Members \in [NodeIDs -> Nat]
    BY BackbonePresent, NetworkType, Zenon DEF Exists
  <2>4. /\ mem \in [NodeIDs -> Nat]
        /\ \A x \in NodeIDs : mem[x] =
             IF x \in gone
             THEN IF networks[0].Members[x] > 0 THEN networks[0].Members[x] - 1 ELSE 0
             ELSE networks[0].Members[x]
    BY <2>3 DEF DropMember
  <2> HIDE DEF mem
  <2>5. networks' = [networks EXCEPT ![0] = net]
    BY <2>1, SMTT(30)
  <2>6. /\ net \in NetworkInfo /\ net.Members = mem
        /\ net.MemberRoles = networks[0].MemberRoles
        /\ net.Enterprise = networks[0].Enterprise /\ net.MaxMembers = networks[0].MaxMembers
    BY <2>3, <2>4, SMTT(30) DEF NetworkInfo
  <2> HIDE DEF net
  <2>7. /\ networks'[0] = net /\ net # None
        /\ \A m \in NetIDs \ {0} : networks'[m] = networks[m]
    BY <2>3, <2>5, <2>6, NetworkStored, ZenonT(30)
  <2>8. \A x \in NodeIDs : nodes'[x] = IF x \in gone THEN None ELSE nodes[x]
    BY <2>1, Zenon
  <2>9. ASSUME NEW x \in NodeIDs PROVE ListingEffect(0, x)
    BY <2>2, <2>4, <2>6, <2>7, <2>8, Zenon DEF ListingEffect, ListingKept, ListingDropped, Live
  <2>10. NetworkEffect(0)
    BY <2>3, <2>6, <2>7, <2>9, Zenon DEF NetworkEffect, Exists
  <2>11. \A n \in NetIDs \ {0} : NetworkEffect(n)
    BY <2>7, Zenon DEF NetworkEffect, ListingEffect, ListingKept, Exists
  <2>12. \A x \in NodeIDs : NodeEffect(x)
    BY <2>8 DEF NodeEffect, NodeKept, Live
  <2> QED
    BY <2>1, <2>10, <2>11, <2>12, Zenon DEF DirectoryEffect
<1> QED
  BY <1>1, <1>2, SMTT(30) DEF ReapStep

\* Every step of the directory, and every step of neither part.
LEMMA DirectoryStepEffect ==
  ASSUME Shape, NextIDUnused, [DirectoryNext]_dirVars
  PROVE  DirectoryEffect
<1>1. CASE UNCHANGED dirVars
  BY <1>1, NodesSame, QuietEffect, Zenon DEF dirVars, registryVars, directoryVars, membershipVars
<1> QED
  BY <1>1, RegisterEffect, NodeStepEffect, RotateEffect, ReapEffect, SMTT(30) DEF DirectoryNext

-----------------------------------------------------------------------------
(* Node ids *)

\* A fresh server uses no id.
LEMMA IDsBelowInit == DirectoryInit => IDsBelowNext
<1> SUFFICES ASSUME DirectoryInit, NEW id \in NodeIDs PROVE ~UsedID(id)
  BY DEF IDsBelowNext
<1>1. id # None
  BY NoneFacts, Zenon
<1>2. \A n \in NetIDs : ~IsMember(n, id)
  BY DEF DirectoryInit, RegistryInit, IsMember, Backbone, NoMembers
<1> QED
  BY <1>1, <1>2 DEF UsedID, DirectoryInit, RegistryInit, Live

\* setNodeHostname puts no id but its node's into the index.
LEMMA HostnameIDs ==
  ASSUME Shape, NEW h \in OrNone(Hostnames), NEW id \in NodeIDs,
         NEW old \in OrNone(Hostnames), setNodeHostname(h, id, old)
  PROVE  \A x \in Hostnames : hostnameIdx'[x] \in {hostnameIdx[x], id, None}
BY NoneFacts DEF Shape, DirectoryTypeOK, RegistryTypeOK, OrNone, setNodeHostname, Index

\* AddNodeToBackbone adds no member but its node.
LEMMA BackboneIDs ==
  ASSUME Shape, NEW id \in NodeIDs, AddNodeToBackbone(id)
  PROVE  \A n \in NetIDs, x \in NodeIDs : IsMember(n, x)' => IsMember(n, x) \/ x = id
<1>1. 0 \in NetIDs
  BY ZeroNet, Zenon
<1>2. networks[0] \in NetworkInfo
  BY <1>1 DEF Shape, DirectoryTypeOK, RegistryTypeOK, OrNone
<1>3. CASE IsMember(0, id)
  BY <1>3, Zenon DEF AddNodeToBackbone, IsMember
<1>4. CASE ~IsMember(0, id)
  <2> DEFINE net == [networks[0] EXCEPT !.Members[id] = @ + 1]
  <2>1. networks' = [networks EXCEPT ![0] = net]
    BY <1>4 DEF AddNodeToBackbone
  <2>2. \A x \in NodeIDs : x # id => net.Members[x] = networks[0].Members[x]
    BY <1>2 DEF NetworkInfo
  <2> HIDE DEF net
  <2>3. networks[0] # None
    BY Zenon DEF Shape
  <2> QED
    BY <1>1, <2>1, <2>2, <2>3 DEF IsMember, Shape, DirectoryTypeOK, RegistryTypeOK
<1> QED
  BY <1>3, <1>4

\* A step that puts into every map, index and list only ids that were there, or
\* one other id in use, brings no id into use.
LEMMA NoNewID ==
  ASSUME Shape, IDsBelowNext, nextNode' = nextNode, NEW id \in NodeIDs, UsedID(id),
         \A x \in NodeIDs : Live(x)' => Live(x) \/ x = id,
         \A k \in Keys : pubKeyIdx'[k] \in {pubKeyIdx[k], None, id},
         \A o \in Owners : ownerIdx'[o] \in {ownerIdx[o], None, id},
         \A h \in Hostnames : hostnameIdx'[h] \in {hostnameIdx[h], None, id},
         \A n \in NetIDs, x \in NodeIDs : IsMember(n, x)' => IsMember(n, x) \/ x = id,
         \A r \in Rotators : rots'[r] # None =>
            rots'[r].id = id \/ (rots[r] # None /\ rots'[r].id = rots[r].id)
  PROVE  IDsBelowNext'
<1> SUFFICES ASSUME NEW x \in NodeIDs, UsedID(x)' PROVE UsedID(x)
  BY DEF IDsBelowNext
<1>1. x # None
  BY NoneFacts, Zenon
<1> QED
  BY <1>1 DEF UsedID

\* The same for a step that changes no map, index or list.
LEMMA NoIDChanged ==
  ASSUME Shape, IDsBelowNext, UNCHANGED <<directoryVars, networks, rots>>
  PROVE  IDsBelowNext'
BY Zenon DEF IDsBelowNext, UsedID, Live, IsMember, directoryVars

\* Register requests that end in an existing node, or in none.
LEMMA IDsBelowRegister ==
  ASSUME Shape, IDsBelowNext, NEW c \in Clients, RegisterStep(c), ~RegisterNew(c)
  PROVE  IDsBelowNext'
<1>1. ASSUME \E key \in Keys, owner \in OrNone(Owners), hostname \in OrNone(Hostnames),
                sig \in SigChoices : RegisterBegin(c, key, owner, hostname, sig)
      PROVE  IDsBelowNext'
  <2>1. UNCHANGED <<registryVars, rots>>
    BY <1>1 DEF RegisterBegin
  <2> QED
    BY <2>1, NoIDChanged, Zenon DEF registryVars, membershipVars
<1>2. CASE \/ RegisterLookup(c) \/ RegisterOrphan(c) \/ RegisterOwnerLive(c)
           \/ RegisterRefused(c)
  BY <1>2, NoIDChanged, Zenon DEF RegisterLookup, RegisterOrphan, RegisterOwnerLive,
     RegisterRefused, registryVars, membershipVars
<1>3. CASE RegisterFast(c)
  <2> DEFINE id == regs[c].fpNodeID
  <2>1. id \in NodeIDs /\ Live(id)
    BY <1>3 DEF RegisterFast, Shape, FastLive, DirectoryTypeOK, OrNone, Request
  <2>2. /\ \A x \in NodeIDs : Live(x)' => Live(x) \/ x = id
        /\ UNCHANGED <<pubKeyIdx, ownerIdx, hostnameIdx, nextNode, networks, rots>>
    BY <1>3, Zenon DEF RegisterFast, Shape, DirectoryTypeOK, RegistryTypeOK, Live, membershipVars
  <2>3. UsedID(id)
    BY <2>1, Zenon DEF UsedID
  <2> QED
    BY <2>1, <2>2, <2>3, NoNewID, Zenon DEF IsMember
<1>4. CASE RegisterExisting(c)
  <2> DEFINE req == regs[c]
             id == pubKeyIdx[req.PublicKey]
  <2>1. req \in Request /\ id \in NodeIDs /\ Live(id) /\ nodes[id] \in NodeInfo
    BY <1>4, Zenon DEF RegisterExisting, Shape, DirectoryTypeOK, RegistryTypeOK, OrNone,
       Request, KnownLive, Known, Live
  <2>2. /\ \A x \in NodeIDs : Live(x)' => Live(x) \/ x = id
        /\ UNCHANGED <<pubKeyIdx, nextNode, networks, rots>>
    BY <1>4, Zenon DEF RegisterExisting, Shape, DirectoryTypeOK, RegistryTypeOK, Live,
       membershipVars
  <2>3. \A o \in Owners : ownerIdx'[o] \in {ownerIdx[o], None, id}
    BY <1>4, Zenon DEF RegisterExisting, Shape, DirectoryTypeOK, RegistryTypeOK
  <2>4. \A h \in Hostnames : hostnameIdx'[h] \in {hostnameIdx[h], None, id}
    <3>1. setNodeHostname(req.Hostname, id, nodes[id].Hostname)
      BY <1>4, Zenon DEF RegisterExisting
    <3>2. req.Hostname \in OrNone(Hostnames) /\ nodes[id].Hostname \in OrNone(Hostnames)
      BY <2>1, Zenon DEF Request, NodeInfo
    <3> QED
      BY <2>1, <3>1, <3>2, HostnameIDs
  <2>5. UsedID(id)
    BY <2>1, Zenon DEF UsedID
  <2> QED
    BY <2>1, <2>2, <2>3, <2>4, <2>5, NoNewID, Zenon DEF IsMember
<1>5. CASE RegisterReclaim(c)
  <2> DEFINE req == regs[c]
             id == pubKeyIdx[req.PublicKey]
  <2>1. req \in Request /\ id \in NodeIDs
    BY <1>5, Zenon DEF RegisterReclaim, Shape, DirectoryTypeOK, RegistryTypeOK, OrNone, Request,
       Known
  <2>2. /\ \A x \in NodeIDs : Live(x)' => Live(x) \/ x = id
        /\ UNCHANGED <<pubKeyIdx, nextNode, rots>>
    BY <1>5, Zenon DEF RegisterReclaim, Shape, DirectoryTypeOK, RegistryTypeOK, Live
  <2>3. \A o \in Owners : ownerIdx'[o] \in {ownerIdx[o], None, id}
    BY <1>5, Zenon DEF RegisterReclaim, Shape, DirectoryTypeOK, RegistryTypeOK, Index
  <2>4. \A h \in Hostnames : hostnameIdx'[h] \in {hostnameIdx[h], None, id}
    BY <1>5, <2>1, HostnameIDs, Zenon DEF RegisterReclaim, Request, OrNone
  <2>5. UsedID(id)
    BY <2>1, Zenon DEF UsedID, Request
  <2>6. \A n \in NetIDs, x \in NodeIDs : IsMember(n, x)' => IsMember(n, x) \/ x = id
    BY <1>5, <2>1, BackboneIDs, Zenon DEF RegisterReclaim
  <2> QED
    BY <2>1, <2>2, <2>3, <2>4, <2>5, <2>6, NoNewID, Zenon
<1>6. CASE RegisterOwnerReclaim(c)
  <2> DEFINE req == regs[c]
             id == ownerIdx[req.Owner]
  <2>1. req \in Request /\ req.Owner \in Owners /\ id \in NodeIDs
    BY <1>6, Zenon DEF RegisterOwnerReclaim, Shape, DirectoryTypeOK, RegistryTypeOK, OrNone,
       Request, OwnerKnown
  <2>2. /\ \A x \in NodeIDs : Live(x)' => Live(x) \/ x = id
        /\ UNCHANGED <<ownerIdx, nextNode, rots>>
    BY <1>6, Zenon DEF RegisterOwnerReclaim, Shape, DirectoryTypeOK, RegistryTypeOK, Live
  <2>3. \A k \in Keys : pubKeyIdx'[k] \in {pubKeyIdx[k], None, id}
    BY <1>6, Zenon DEF RegisterOwnerReclaim, Shape, DirectoryTypeOK, RegistryTypeOK
  <2>4. \A h \in Hostnames : hostnameIdx'[h] \in {hostnameIdx[h], None, id}
    BY <1>6, <2>1, HostnameIDs, Zenon DEF RegisterOwnerReclaim, Request, OrNone
  <2>5. UsedID(id)
    BY <2>1, Zenon DEF UsedID
  <2>6. \A n \in NetIDs, x \in NodeIDs : IsMember(n, x)' => IsMember(n, x) \/ x = id
    BY <1>6, <2>1, BackboneIDs, Zenon DEF RegisterOwnerReclaim
  <2> QED
    BY <2>1, <2>2, <2>3, <2>4, <2>5, <2>6, NoNewID, Zenon
<1> QED
  BY <1>1, <1>2, <1>3, <1>4, <1>5, <1>6, Zenon DEF RegisterStep

\* A new registration uses the next id and moves the counter past it.
LEMMA IDsBelowNew ==
  ASSUME Shape, IDsBelowNext, NEW c \in Clients, RegisterNew(c)
  PROVE  IDsBelowNext'
<1> DEFINE req == regs[c]
           id == nextNode
<1>1. req \in Request /\ id \in NodeIDs
  <2>1. regs[c] # None /\ nextNode # 0
    BY Zenon DEF RegisterNew
  <2> QED
    BY <2>1, RegistryAssumption
       DEF Shape, DirectoryTypeOK, RegistryTypeOK, OrNone, NodeIDs
<1>2. /\ \A x \in NodeIDs : Live(x)' => Live(x) \/ x = id
      /\ rots' = rots
  BY Zenon DEF RegisterNew, Shape, DirectoryTypeOK, RegistryTypeOK, Live
<1>3. /\ \A k \in Keys : pubKeyIdx'[k] \in {pubKeyIdx[k], None, id}
      /\ \A o \in Owners : ownerIdx'[o] \in {ownerIdx[o], None, id}
  BY Zenon DEF RegisterNew, Shape, DirectoryTypeOK, RegistryTypeOK, Index
<1>4. \A h \in Hostnames : hostnameIdx'[h] \in {hostnameIdx[h], None, id}
  <2>1. setNodeHostname(req.Hostname, id, None)
    BY Zenon DEF RegisterNew
  <2> QED
    BY <1>1, <2>1, HostnameIDs, Zenon DEF Request, OrNone
<1>5. \A n \in NetIDs, x \in NodeIDs : IsMember(n, x)' => IsMember(n, x) \/ x = id
  BY <1>1, BackboneIDs, Zenon DEF RegisterNew
<1>6. ASSUME NEW x \in NodeIDs, UsedID(x)' PROVE UsedID(x) \/ x = id
  <2>1. x # None
    BY NoneFacts, ZenonT(30)
  <2> QED
    BY <1>2, <1>3, <1>4, <1>5, <1>6, <2>1, Zenon DEF UsedID
<1>7. nextNode # 0 /\ nextNode' = NextID(nextNode, MaxNodeID)
  BY DEF RegisterNew
<1> QED
  BY <1>1, <1>6, <1>7, RegistryAssumption DEF IDsBelowNext, NextID, NodeIDs

\* set_hostname, heartbeat, deregister and the passing of time.
LEMMA IDsBelowNode ==
  ASSUME Shape, IDsBelowNext, NEW id \in NodeIDs, NodeStep(id)
  PROVE  IDsBelowNext'
<1>1. nodes[id] \in NodeInfo /\ UsedID(id)
  BY Zenon DEF Shape, DirectoryTypeOK, RegistryTypeOK, OrNone, NodeStep, SetHostname, Heartbeat,
     Deregister, GoStale, Live, UsedID
<1>2. ASSUME NEW hostname \in OrNone(Hostnames), SetHostname(id, hostname)
      PROVE  IDsBelowNext'
  <2>1. /\ \A x \in NodeIDs : Live(x)' => Live(x) \/ x = id
        /\ UNCHANGED <<pubKeyIdx, ownerIdx, nextNode, networks, rots>>
    BY <1>2 DEF SetHostname, Shape, DirectoryTypeOK, RegistryTypeOK, Live, membershipVars,
       requestVars
  <2>2. \A h \in Hostnames : hostnameIdx'[h] \in {hostnameIdx[h], None, id}
    BY <1>1, <1>2, Zenon DEF SetHostname, Shape, DirectoryTypeOK, RegistryTypeOK, Index, OrNone,
       NodeInfo
  <2> QED
    BY <1>1, <2>1, <2>2, NoNewID, Zenon DEF IsMember
<1>3. CASE Heartbeat(id) \/ GoStale(id)
  <2>1. /\ \A x \in NodeIDs : Live(x)' => Live(x) \/ x = id
        /\ UNCHANGED <<pubKeyIdx, ownerIdx, hostnameIdx, nextNode, networks, rots>>
    BY <1>3, Zenon DEF Heartbeat, GoStale, Shape, DirectoryTypeOK, RegistryTypeOK, Live,
       membershipVars, requestVars
  <2> QED
    BY <1>1, <2>1, NoNewID, Zenon DEF IsMember
<1>4. CASE Deregister(id)
  <2>1. /\ \A x \in NodeIDs : Live(x)' => Live(x) \/ x = id
        /\ UNCHANGED <<pubKeyIdx, ownerIdx, nextNode, rots>>
    BY <1>4, Zenon DEF Deregister, Shape, DirectoryTypeOK, RegistryTypeOK, Live
  <2>2. \A h \in Hostnames : hostnameIdx'[h] \in {hostnameIdx[h], None, id}
    BY <1>4, Zenon DEF Deregister, Shape, DirectoryTypeOK, RegistryTypeOK, Index
  <2>3. ASSUME NEW n \in NetIDs, NEW x \in NodeIDs, x # id, IsMember(n, x)'
        PROVE  IsMember(n, x)
    <3>1. RemoveFromNetworks(id, nodes[id].Networks)
      BY <1>4 DEF Deregister
    <3>2. CASE n \in nodes[id].Networks /\ networks[n] # None
      <4>1. networks[n] \in NetworkInfo
        BY <3>2 DEF Shape, DirectoryTypeOK, RegistryTypeOK, OrNone
      <4>2. networks'[n] = [networks[n] EXCEPT
               !.Members = DropMember(networks[n].Members, id), !.MemberRoles[id] = None]
        BY <3>1, <3>2, Zenon DEF RemoveFromNetworks, WithoutMember
      <4>3. networks'[n].Members = DropMember(networks[n].Members, id)
        BY <4>1, <4>2, Zenon DEF NetworkInfo
      <4>4. networks'[n].Members[x] = networks[n].Members[x]
        BY <2>3, <4>1, <4>3 DEF DropMember, NetworkInfo
      <4> QED
        BY <2>3, <3>2, <4>4, Zenon DEF IsMember
    <3>3. CASE ~(n \in nodes[id].Networks /\ networks[n] # None)
      BY <2>3, <3>1, <3>3, Zenon DEF RemoveFromNetworks, WithoutMember, IsMember
    <3> QED
      BY <3>2, <3>3, Zenon
  <2> QED
    BY <1>1, <2>1, <2>2, <2>3, NoNewID, Zenon
<1> QED
  BY <1>2, <1>3, <1>4 DEF NodeStep

\* Key rotation indexes the new key for the id of the old one.
LEMMA IDsBelowRotate ==
  ASSUME Shape, IDsBelowNext, NEW r \in Rotators, RotateStep(r)
  PROVE  IDsBelowNext'
<1>1. ASSUME NEW id \in NodeIDs, NEW new \in Keys, RotateVerify(r, id, new)
      PROVE  IDsBelowNext'
  <2>1. UsedID(id) /\ UNCHANGED <<directoryVars, networks>>
    BY <1>1, Zenon DEF RotateVerify, UsedID, registryVars, membershipVars
  <2>2. \A s \in Rotators : rots'[s] # None =>
            rots'[s].id = id \/ (rots[s] # None /\ rots'[s].id = rots[s].id)
    BY <1>1, Zenon DEF RotateVerify, Shape, DirectoryTypeOK
  <2>3. \A x \in NodeIDs : Live(x)' => Live(x)
    BY <2>1, Zenon DEF directoryVars, Live
  <2> QED
    BY <2>1, <2>2, <2>3, NoNewID, Zenon DEF IsMember, directoryVars
<1>2. ASSUME rots[r] # None
      PROVE  rots[r] \in Rotation /\ rots[r].id \in NodeIDs /\ UsedID(rots[r].id)
  BY <1>2, Zenon DEF Shape, DirectoryTypeOK, OrNone, Rotation, UsedID
<1>3. CASE RotateUpdate(r)
  <2> DEFINE id == rots[r].id
  <2>1. rots[r] \in Rotation /\ id \in NodeIDs /\ UsedID(id)
    BY <1>2, <1>3, Zenon DEF RotateUpdate
  <2>2. /\ \A x \in NodeIDs : Live(x)' => Live(x) \/ x = id
        /\ UNCHANGED <<pubKeyIdx, ownerIdx, hostnameIdx, nextNode, networks>>
    BY <1>3 DEF RotateUpdate, Shape, DirectoryTypeOK, RegistryTypeOK, Live, membershipVars
  <2>3. \A s \in Rotators : rots'[s] # None =>
            rots'[s].id = id \/ (rots[s] # None /\ rots'[s].id = rots[s].id)
    BY <1>3, <2>1, Zenon DEF RotateUpdate, Shape, DirectoryTypeOK, Rotation
  <2> QED
    BY <2>1, <2>2, <2>3, NoNewID, Zenon DEF IsMember
<1>4. CASE OnKeyRotated(r)
  <2> DEFINE id == rots[r].id
  <2>1. rots[r] \in Rotation /\ id \in NodeIDs /\ UsedID(id)
    BY <1>2, <1>4 DEF OnKeyRotated
  <2>2. UNCHANGED <<nodes, ownerIdx, hostnameIdx, nextNode, networks>>
    BY <1>4 DEF OnKeyRotated, membershipVars
  <2>3. \A k \in Keys : pubKeyIdx'[k] \in {pubKeyIdx[k], None, id}
    BY <1>4, <2>1 DEF OnKeyRotated, Shape, DirectoryTypeOK, RegistryTypeOK
  <2>4. \A s \in Rotators : rots'[s] # None =>
            rots'[s].id = id \/ (rots[s] # None /\ rots'[s].id = rots[s].id)
    BY <1>4, <2>1 DEF OnKeyRotated, Shape, DirectoryTypeOK, Rotation
  <2>5. \A x \in NodeIDs : Live(x)' => Live(x)
    BY <2>2, Zenon DEF Live
  <2> QED
    BY <2>1, <2>2, <2>3, <2>4, <2>5, NoNewID, Zenon DEF IsMember
<1>5. CASE RotateRecord(r)
  <2> DEFINE id == rots[r].id
  <2>1. id \in NodeIDs /\ UsedID(id)
    BY <1>2, <1>5, Zenon DEF RotateRecord
  <2>2. UNCHANGED <<directoryVars, networks>>
    BY <1>5, Zenon DEF RotateRecord, membershipVars
  <2>3. \A s \in Rotators : rots'[s] # None =>
            rots'[s].id = id \/ (rots[s] # None /\ rots'[s].id = rots[s].id)
    BY <1>5, Zenon DEF RotateRecord, Shape, DirectoryTypeOK
  <2>4. \A x \in NodeIDs : Live(x)' => Live(x)
    BY <2>2 DEF directoryVars, Live
  <2> QED
    BY <2>1, <2>2, <2>3, <2>4, NoNewID, Zenon DEF IsMember, directoryVars
<1> QED
  BY <1>1, <1>3, <1>4, <1>5, Zenon DEF RotateStep

\* The reaper only deletes.
LEMMA IDsBelowReap ==
  ASSUME Shape, IDsBelowNext, ReapStep
  PROVE  IDsBelowNext'
<1>1. CASE ReapSnapshot \/ ReapScan \/ ReapFinish
  BY <1>1, NoIDChanged, Zenon DEF ReapSnapshot, ReapScan, ReapFinish, registryVars,
     membershipVars, requestVars
<1>2. CASE ReapDelete
  <2> DEFINE gone == {id \in FirstInScan(reap.cands, ReapBatch) : Live(id) /\ nodes[id].stale}
             mem == [id \in NodeIDs |-> IF id \in gone
                                        THEN DropMember(networks[0].Members, id)[id]
                                        ELSE networks[0].Members[id]]
  <2>1. /\ networks' = [networks EXCEPT ![0].Members = mem]
        /\ hostnameIdx' = [h \in Hostnames |->
             IF \E id \in gone : reap.hostname[id] = h THEN None ELSE hostnameIdx[h]]
        /\ nodes' = [id \in NodeIDs |-> IF id \in gone THEN None ELSE nodes[id]]
        /\ UNCHANGED <<pubKeyIdx, ownerIdx, nextNode, rots>>
    BY <1>2 DEF ReapDelete
  <2> HIDE DEF gone
  <2>2. 0 \in NetIDs
    BY ZeroNet, Zenon
  <2>3. networks[0] \in NetworkInfo
    BY <2>2, Zenon DEF Shape, DirectoryTypeOK, RegistryTypeOK, OrNone
  <2>4. \A x \in NodeIDs : mem[x] > 0 => networks[0].Members[x] > 0
    BY <2>3 DEF NetworkInfo, DropMember
  <2> HIDE DEF mem
  <2>5. \A n \in NetIDs, x \in NodeIDs : IsMember(n, x)' => IsMember(n, x)
    <3>1. networks'[0].Members = mem /\ \A n \in NetIDs \ {0} : networks'[n] = networks[n]
      BY <2>1, <2>2, <2>3, Zenon DEF Shape, DirectoryTypeOK, RegistryTypeOK, NetworkInfo
    <3> QED
      BY <2>4, <3>1, Zenon DEF IsMember, Shape
  <2>6. \A x \in NodeIDs : Live(x)' => Live(x)
    BY <2>1 DEF Live
  <2>7. \A h \in Hostnames : hostnameIdx'[h] \in {hostnameIdx[h], None}
    BY <2>1, Zenon
  <2>8. ASSUME NEW x \in NodeIDs, UsedID(x)' PROVE UsedID(x)
    BY <2>1, <2>5, <2>6, <2>7, <2>8, NoneFacts, Zenon DEF UsedID
  <2> QED
    BY <2>1, <2>8, Zenon DEF IDsBelowNext
<1> QED
  BY <1>1, <1>2, Zenon DEF ReapStep

\* Every step of the directory keeps the ids in use below the next one.
LEMMA IDsBelowStep ==
  ASSUME Shape, IDsBelowNext, [DirectoryNext]_dirVars
  PROVE  IDsBelowNext'
<1>1. CASE UNCHANGED dirVars
  BY <1>1, NoIDChanged, Zenon DEF dirVars, registryVars, membershipVars, requestVars
<1> QED
  BY <1>1, IDsBelowRegister, IDsBelowNew, IDsBelowNode, IDsBelowRotate, IDsBelowReap, Zenon
     DEF DirectoryNext

\* The id a new node would get is free.
LEMMA BelowUnused == Shape /\ IDsBelowNext => NextIDUnused
<1> SUFFICES ASSUME Shape, IDsBelowNext, nextNode # 0 PROVE ~UsedID(nextNode)
  BY DEF NextIDUnused, UsedID
<1> QED
  BY RegistryAssumption
     DEF IDsBelowNext, Shape, DirectoryTypeOK, RegistryTypeOK, NodeIDs

=============================================================================

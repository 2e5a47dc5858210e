-------------------------- MODULE MembershipProofs --------------------------
(***************************************************************************)
(* Networks and their members, proved for every value of the constants:    *)
(* types, the agreement of nodes and member lists, roles and owners,       *)
(* invitations and member limits.                                          *)
(***************************************************************************)
EXTENDS MembershipSteps, DirectoryProofs, FiniteSetTheorems

\* A fresh server has the backbone and nothing else.
LEMMA NetworkInvInit == MembershipInit => NetworkInv
<1> SUFFICES ASSUME MembershipInit PROVE NetworkInv
  BY Zenon
<1>0. 0 \in NetIDs
  BY ZeroNet, Zenon
<1>1. DirectoryInit /\ adminReqs = [a \in Admins |-> None]
  BY Zenon DEF MembershipInit
<1>2. /\ networks = [n \in NetIDs |-> IF n = 0 THEN Backbone ELSE None] /\ nextNet = 1
      /\ inviteInbox = [id \in NodeIDs |-> {}]
  BY <1>1, Zenon DEF DirectoryInit, RegistryInit
<1>3. NetworkShape
  BY <1>1, ShapeInit, Zenon DEF NetworkShape, OrNone
<1>4. IDsBelowNext
  BY <1>1, IDsBelowInit, Zenon
<1>5. NetsBelowNext
  BY <1>2 DEF NetsBelowNext, Exists
<1>6. BackbonePlain
  BY <1>0, <1>1, <1>2, Zenon DEF BackbonePlain, Backbone
<1>7. InvitesHaveNetwork
  BY <1>2, Zenon DEF InvitesHaveNetwork
<1>8. RolesSound
  BY <1>2, Zenon DEF RolesSound, Exists
<1> QED
  BY <1>3, <1>4, <1>5, <1>6, <1>7, <1>8, Zenon DEF NetworkInv

\* A step is a request about networks or a step of the directory.
LEMMA MembershipCases ==
  ASSUME NetworkInv, [MembershipNext]_membVars
  PROVE  /\ NetworkShape'
         /\ \/ RequestFrame /\ MembershipEffect
            \/ [DirectoryNext]_dirVars /\ DirectoryEffect /\ adminReqs' = adminReqs
<1>1. CASE MembershipStep
  BY <1>1, StepEffect, ShapeEffect, Zenon DEF NetworkInv
<1>2. CASE [DirectoryNext]_dirVars /\ adminReqs' = adminReqs
  <2>1. Shape' /\ DirectoryEffect
    BY <1>2, ShapeNext, BelowUnused, DirectoryStepEffect, Zenon DEF NetworkInv, NetworkShape
  <2> QED
    BY <1>2, <2>1, Zenon DEF NetworkInv, NetworkShape
<1> QED
  BY <1>1, <1>2, Zenon DEF MembershipNext, membVars

\* Every step keeps NetworkInv.
LEMMA NetworkInvStep ==
  ASSUME NetworkInv, [MembershipNext]_membVars
  PROVE  NetworkInv'
<1>1. CASE RequestFrame /\ MembershipEffect
  BY SMTT(30), <1>1, MembershipCases, IDsBelowEffect, NetsBelowEffect, BackbonePlainEffect,
     InvitesEffect, RolesEffect DEF NetworkInv, NetworkShape
<1>2. CASE [DirectoryNext]_dirVars /\ DirectoryEffect /\ adminReqs' = adminReqs
  <2>1. IDsBelowNext'
    BY <1>2, IDsBelowStep, Zenon DEF NetworkInv, NetworkShape
  <2> QED
    BY <1>2, <2>1, MembershipCases, DirectoryKeeps, Zenon DEF NetworkInv
<1> QED
  BY <1>1, <1>2, MembershipCases, Zenon

\* NetworkInv holds in every state.
LEMMA NetworkInvAlways == MembershipSpec => []NetworkInv
<1>1. NetworkInv /\ [MembershipNext]_membVars => NetworkInv'
  BY NetworkInvStep, Zenon
<1> QED
  BY <1>1, NetworkInvInit, PTL DEF MembershipSpec

\* Every map, request and counter keeps its type, whatever the requests.
THEOREM MembershipTypeSafe == MembershipSpec => []MembershipTypeOK
<1>1. NetworkInv => MembershipTypeOK
  BY Zenon DEF NetworkInv, NetworkShape, Shape, MembershipTypeOK
<1> QED
  BY <1>1, NetworkInvAlways, PTL

\* A role is held by members only and no network has two owners: joins, kicks,
\* transfers, the enterprise flag, deregistration and the operator's role
\* changes in any order, requests admitted earlier included.
THEOREM RolesAreSound == MembershipSpec => []RolesSound
<1>1. NetworkInv => RolesSound
  BY Zenon DEF NetworkInv
<1> QED
  BY <1>1, NetworkInvAlways, PTL

\* No invite outlives its network.
THEOREM InvitesNameNetworks == MembershipSpec => []InvitesHaveNetwork
<1>1. NetworkInv => InvitesHaveNetwork
  BY Zenon DEF NetworkInv
<1> QED
  BY <1>1, NetworkInvAlways, PTL

-----------------------------------------------------------------------------
(* Member limits *)

\* A member list has finitely many entries.
LEMMA EntriesFinite ==
  ASSUME NEW net, net.Members \in [NodeIDs -> Nat]
  PROVE  IsFiniteSet(MemberEntries(net))
<1> DEFINE f == [id \in NodeIDs |-> {id} \X (1 .. net.Members[id])]
           T == {{id} \X (1 .. net.Members[id]) : id \in NodeIDs}
<1>1. f \in Surjection(NodeIDs, T)
  BY Zenon DEF Surjection
<1>2. IsFiniteSet(NodeIDs)
  BY RegistryAssumption, FS_Interval, SMTT(30) DEF NodeIDs
<1>3. IsFiniteSet(T)
  <2> HIDE DEF f, T
  <2> QED
    BY <1>1, <1>2, FS_Surjection, Zenon
<1>4. ASSUME NEW id \in NodeIDs PROVE IsFiniteSet({id} \X (1 .. net.Members[id]))
  <2>1. IsFiniteSet({id})
    BY FS_Singleton, Zenon
  <2>2. IsFiniteSet(1 .. net.Members[id])
    <3>1. 1 \in Int /\ net.Members[id] \in Int
      BY <1>4
    <3> QED
      BY <3>1, FS_Interval, Zenon
  <2> QED
    BY <2>1, <2>2, FS_Product, Zenon
<1>5. \A S \in T : IsFiniteSet(S)
  BY <1>4, Zenon
<1>6. MemberEntries(net) = UNION T
  BY Zenon DEF MemberEntries
<1> HIDE DEF T
<1> QED
  BY <1>3, <1>5, <1>6, FS_UNION, Zenon

\* A list that is shorter for every node has no more entries.
LEMMA FewerMembers ==
  ASSUME NEW net, net.Members \in [NodeIDs -> Nat],
         NEW old, old.Members \in [NodeIDs -> Nat],
         \A x \in NodeIDs : net.Members[x] <= old.Members[x]
  PROVE  /\ MemberCount(net) <= MemberCount(old)
         /\ MemberCount(net) \in Nat /\ MemberCount(old) \in Nat
<1>1. MemberEntries(net) \in SUBSET MemberEntries(old)
  <2> SUFFICES ASSUME NEW x \in NodeIDs, NEW i \in 1 .. net.Members[x]
               PROVE  i \in 1 .. old.Members[x]
    BY DEF MemberEntries
  <2> QED
    OBVIOUS
<1> QED
  BY <1>1, EntriesFinite, FS_Subset, FS_CardinalityType, Zenon DEF MemberCount

\* One listing more is one entry more.
LEMMA OneMoreMember ==
  ASSUME NEW net, net.Members \in [NodeIDs -> Nat],
         NEW old, old.Members \in [NodeIDs -> Nat], NEW id \in NodeIDs,
         \A x \in NodeIDs : net.Members[x] = old.Members[x] + (IF x = id THEN 1 ELSE 0)
  PROVE  MemberCount(old) \in Nat /\ MemberCount(net) = MemberCount(old) + 1
<1> DEFINE e == <<id, old.Members[id] + 1>>
<1>1. MemberEntries(net) = MemberEntries(old) \cup {e}
  <2>1. ASSUME NEW x \in NodeIDs, NEW i \in Nat
        PROVE  i \in 1 .. net.Members[x] <=>
                 i \in 1 .. old.Members[x] \/ (x = id /\ i = old.Members[id] + 1)
    OBVIOUS
  <2>2. ASSUME NEW p PROVE p \in MemberEntries(net) <=>
          \E x \in NodeIDs, i \in Nat : p = <<x, i>> /\ i \in 1 .. net.Members[x]
    BY DEF MemberEntries
  <2>3. ASSUME NEW p PROVE p \in MemberEntries(old) <=>
          \E x \in NodeIDs, i \in Nat : p = <<x, i>> /\ i \in 1 .. old.Members[x]
    BY DEF MemberEntries
  <2>4. e \in NodeIDs \X Nat
    BY Zenon
  <2> QED
    BY <2>1, <2>2, <2>3, <2>4, SMTT(30)
<1>2. e \notin MemberEntries(old)
  BY DEF MemberEntries
<1> QED
  BY <1>1, <1>2, EntriesFinite, FS_AddElement, FS_CardinalityType, ZenonT(30) DEF MemberCount

\* What JoinsRespectLimit says of one network.
LimitStep(n) ==
  /\ Exists(n) /\ Exists(n)'
  /\ MemberCount(networks'[n]) > MemberCount(networks[n])
  /\ networks[n].MaxMembers > 0
  => MemberCount(networks'[n]) <= networks[n].MaxMembers

\* Where no listing is added there is nothing to check.
LEMMA NoGrowth ==
  ASSUME Shape, Shape', NEW n \in NetIDs,
         Exists(n) /\ Exists(n)' =>
           \A x \in NodeIDs : networks'[n].Members[x] <= networks[n].Members[x]
  PROVE  LimitStep(n)
<1> SUFFICES ASSUME Exists(n), Exists(n)'
             PROVE  ~(MemberCount(networks'[n]) > MemberCount(networks[n]))
  BY SMTT(30) DEF LimitStep
<1>1. /\ networks[n].Members \in [NodeIDs -> Nat]
      /\ networks'[n].Members \in [NodeIDs -> Nat]
  BY Zenon DEF Exists, Shape, DirectoryTypeOK, RegistryTypeOK, OrNone, NetworkInfo
<1> QED
  BY <1>1, FewerMembers, SMTT(30)

\* A join adds one member where there is room for one.
LEMMA JoinWithinLimit ==
  ASSUME Shape, Shape', NEW id \in NodeIDs, NEW n \in NetIDs, Joined(id, n)
  PROVE  LimitStep(n)
<1>1. /\ networks[n].Members \in [NodeIDs -> Nat] /\ networks[n].MaxMembers \in Nat
      /\ networks'[n].Members \in [NodeIDs -> Nat] /\ Exists(n) /\ Exists(n)'
  BY JoinedFacts, SMTT(30) DEF Exists, Shape, DirectoryTypeOK, RegistryTypeOK, OrNone, NetworkInfo
<1>2. \A x \in NodeIDs :
        networks'[n].Members[x] = networks[n].Members[x] + (IF x = id THEN 1 ELSE 0)
  BY JoinedFacts, SMTT(30)
<1>3. /\ MemberCount(networks[n]) \in Nat
      /\ MemberCount(networks'[n]) = MemberCount(networks[n]) + 1
  BY <1>1, <1>2, OneMoreMember, ZenonT(30)
<1>4. networks[n].MaxMembers > 0 => MemberCount(networks[n]) < networks[n].MaxMembers
  BY Zenon DEF Joined, RoomIn
<1> QED
  BY <1>1, <1>3, <1>4, SMTT(30) DEF LimitStep

\* No request about networks takes one over its limit.
LEMMA LimitEffect ==
  ASSUME NetworkInv, NetworkShape', MembershipEffect, NEW m \in NetIDs
  PROVE  LimitStep(m)
<1> USE DEF NetworkInv, NetworkShape
<1>0. ASSUME networks'[m] = networks[m] \/ ~Exists(m) \/ ~Exists(m)'
      PROVE  LimitStep(m)
  <2>1. ASSUME NEW x \in NodeIDs, Exists(m), Exists(m)'
        PROVE  networks'[m].Members[x] <= networks[m].Members[x]
    <3>1. networks[m].Members[x] \in Nat
      BY <2>1, NetworkType, Zenon
    <3> QED
      BY <1>0, <2>1, <3>1, SMTT(30)
  <2> QED
    BY <2>1, NoGrowth, ZenonT(30)
<1>1. CASE SameNetworks
  BY <1>0, <1>1, SMTT(30) DEF SameNetworks
<1>2. ASSUME NEW id \in NodeIDs, Created(id) PROVE LimitStep(m)
  <2>1. ~Exists(nextNet) /\ \A k \in NetIDs \ {nextNet} : networks'[k] = networks[k]
    BY <1>2, CreatedFacts, NextNetFree, Zenon
  <2> QED
    BY <1>0, <2>1, Zenon
<1>3. ASSUME NEW id \in NodeIDs, NEW n \in NetIDs, Joined(id, n) PROVE LimitStep(m)
  BY <1>0, <1>3, JoinWithinLimit, JoinedFacts, SMTT(30)
<1>4. ASSUME NEW id \in NodeIDs, NEW n \in NetIDs, Removed(id, n) PROVE LimitStep(m)
  <2>1. CASE m = n
    <3>1. \A x \in NodeIDs : networks'[n].Members[x] <= networks[n].Members[x]
      <4>1. /\ networks[n].Members \in [NodeIDs -> Nat]
            /\ \A x \in NodeIDs : networks'[n].Members[x] =
                 IF x = id /\ networks[n].Members[x] > 0 THEN networks[n].Members[x] - 1
                 ELSE networks[n].Members[x]
        BY <1>4, RemovedFacts, SMTT(30)
      <4> QED
        BY <4>1, SMTT(30)
    <3> QED
      BY <2>1, <3>1, NoGrowth, ZenonT(30)
  <2> QED
    BY <1>0, <1>4, <2>1, RemovedFacts, SMTT(30)
<1>5. ASSUME NEW n \in NetIDs, Deleted(n) PROVE LimitStep(m)
  BY <1>0, <1>5, DeletedFacts, ZenonT(30) DEF Exists
<1>6. ASSUME NEW n \in NetIDs, Changed(n) PROVE LimitStep(m)
  <2>1. CASE m = n
    <3>1. /\ networks'[n].Members = networks[n].Members
          /\ networks[n].Members \in [NodeIDs -> Nat]
      BY <1>6, ChangedFacts, NetworkType, Zenon
    <3> QED
      BY <2>1, <3>1, NoGrowth, SMTT(30)
  <2> QED
    BY <1>0, <1>6, <2>1, ChangedFacts, Zenon
<1> QED
  BY <1>1, <1>2, <1>3, <1>4, <1>5, <1>6, Zenon DEF MembershipEffect

\* The directory adds members to the backbone only, which has no limit.
LEMMA LimitDirectory ==
  ASSUME NetworkInv, NetworkShape', DirectoryEffect, NEW m \in NetIDs
  PROVE  LimitStep(m)
<1> USE DEF NetworkInv, NetworkShape
<1>1. CASE m = 0
  BY <1>1, SMTT(30) DEF LimitStep, BackbonePlain
<1>2. ASSUME m # 0, Exists(m), NEW x \in NodeIDs
      PROVE  networks'[m].Members[x] <= networks[m].Members[x]
  <2>1. networks[m].Members[x] \in Nat
    BY <1>2, NetworkType, SMTT(30)
  <2>2. ListingEffect(m, x)
    BY <1>2 DEF DirectoryEffect, NetworkEffect
  <2> QED
    BY <1>2, <2>1, <2>2, SMTT(30) DEF ListingEffect, ListingKept, ListingDropped, BackboneEntered
<1> QED
  BY <1>1, <1>2, NoGrowth, ZenonT(30)

\* No path into a network (join, accepted invite, reclaim, AddNodeToBackbone)
\* adds a member beyond the network's limit at that moment.
THEOREM JoinsWithinLimit == MembershipSpec => JoinsRespectLimit
<1>1. NetworkInv /\ [MembershipNext]_membVars => [\A n \in NetIDs : LimitStep(n)]_membVars
  BY MembershipCases, LimitEffect, LimitDirectory, SMTT(30)
<1>2. MembershipSpec => [][\A n \in NetIDs : LimitStep(n)]_membVars
  BY <1>1, NetworkInvAlways, PTL DEF MembershipSpec
<1> QED
  BY <1>2, Zenon DEF JoinsRespectLimit, LimitStep

\* A node's Networks field names no network that is gone or does not list the
\* node, whatever the requests, reclaims by owner included.
THEOREM NetworksAreListed == MembershipSpec => []NetworksListed
<1>1. MembershipInit => NetworksListed
  BY DEF MembershipInit, DirectoryInit, RegistryInit, NetworksListed, Live
<1>2. NetworkInv /\ NetworksListed /\ [MembershipNext]_membVars => NetworksListed'
  BY MembershipCases, NetworksListedEffect, NetworksListedDirectory, Zenon
     DEF NetworkInv, NetworkShape
<1> QED
  BY <1>1, <1>2, NetworkInvAlways, PTL DEF MembershipSpec

\* No register takes over the id of a dead node by its owner alone.  (One that
\* does starts with the backbone only while the networks still list the id.)
NoOwnerReclaim == [][\A c \in Clients : ~RegisterOwnerReclaim(c)]_membVars

\* The agreement holds as long as no register takes an id over by its owner.
LEMMA AgreementAlways == MembershipSpec /\ NoOwnerReclaim => []AgreementInv
<1>1. MembershipInit => AgreementInv
  <2> SUFFICES ASSUME MembershipInit PROVE AgreementInv
    BY Zenon
  <2>1. /\ networks = [n \in NetIDs |-> IF n = 0 THEN Backbone ELSE None]
        /\ nodes = [id \in NodeIDs |-> None]
    BY Zenon DEF MembershipInit, DirectoryInit, RegistryInit
  <2>2. MembersOnce
    BY <2>1 DEF MembersOnce, Exists, Backbone, NoMembers
  <2>3. NetworksListed /\ MembersListed
    BY <2>1, Zenon DEF NetworksListed, MembersListed, Live
  <2> QED
    BY <2>2, <2>3, Zenon DEF AgreementInv
<1>2. /\ NetworkInv /\ AgreementInv /\ [MembershipNext]_membVars
      /\ [\A c \in Clients : ~RegisterOwnerReclaim(c)]_membVars
      => AgreementInv'
  <2> SUFFICES ASSUME NetworkInv, AgreementInv, [MembershipNext]_membVars,
                      [\A c \in Clients : ~RegisterOwnerReclaim(c)]_membVars
               PROVE  AgreementInv'
    BY SMTT(30)
  <2>1. CASE UNCHANGED membVars
    BY <2>1, Zenon DEF AgreementInv, NetworksListed, MembersListed, MembersOnce, IsMember,
       Exists, Live, membVars, dirVars, registryVars, directoryVars, membershipVars
  <2>2. CASE \A c \in Clients : ~RegisterOwnerReclaim(c)
    <3>1. Shape /\ NetsBelowNext /\ NetworksListed /\ MembersListed /\ MembersOnce
      BY Zenon DEF NetworkInv, NetworkShape, AgreementInv
    <3>2. MembershipEffect \/ DirectoryEffect
      BY MembershipCases, Zenon
    <3> QED
      BY SMTT(30), <2>2, <3>1, <3>2, NetworksListedEffect, NetworksListedDirectory,
         MembersListedEffect, MembersListedDirectory DEF AgreementInv
  <2> QED
    BY <2>1, <2>2, Zenon
<1> QED
  BY <1>1, <1>2, NetworkInvAlways, PTL DEF MembershipSpec, NoOwnerReclaim

\* A live node's Networks and the networks' Members agree in both directions
\* through every join, kick, deletion, reaping and reclaim by key.
THEOREM MembershipAgrees == MembershipSpec /\ NoOwnerReclaim => []MembershipSymmetric
<1>1. AgreementInv => MembershipSymmetric
  BY SymmetricForm, Zenon DEF AgreementInv
<1> QED
  BY <1>1, AgreementAlways, PTL

\* No network lists a node twice.
THEOREM MembersListedOnce == MembershipSpec /\ NoOwnerReclaim => []MembersOnce
<1>1. AgreementInv => MembersOnce
  BY Zenon DEF AgreementInv
<1> QED
  BY <1>1, AgreementAlways, PTL

\* An enterprise network keeps its owner: only the owner's own deregistration,
\* the loss of the flag and deletion take it away, as long as no register takes
\* an id over by its owner.
THEOREM OwnersKept == MembershipSpec /\ NoOwnerReclaim => OwnerKept
<1>1. NetworkInv /\ AgreementInv /\ [MembershipNext]_membVars
        => [\A n \in NetIDs : OwnerStep(n)]_membVars
  BY MembershipCases, OwnerEffect, OwnerDirectory, Zenon
<1>2. MembershipSpec /\ NoOwnerReclaim => [][\A n \in NetIDs : OwnerStep(n)]_membVars
  BY <1>1, NetworkInvAlways, AgreementAlways, PTL DEF MembershipSpec
<1> QED
  BY <1>2, Zenon DEF OwnerKept, OwnerStep

=============================================================================

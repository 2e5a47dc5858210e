----------------------------- MODULE Membership -----------------------------
(***************************************************************************)
(* Networks: creation, join, leave, deletion, roles, invitations, member   *)
(* limits and the operator's member actions, over the directory.           *)
(*                                                                         *)
(* The holder of the admin token may send every request about networks, so *)
(* an action needs no role of its caller beyond what the code checks after *)
(* authorization.  kick, promote, demote, transfer and set_network_policy  *)
(* check the enterprise flag in a critical section of their own before the *)
(* one that changes the network: they are requests in flight.              *)
(***************************************************************************)
EXTENDS Directory

CONSTANTS
  Admins,            \* connections with such a request in flight
  AdminOps,          \* the operations they send
  RuleChoices,       \* join rules requested for new networks
  FlagChoices,       \* values requested for the enterprise flag
  KickNets,          \* networks the operator kicks members from
  RoleNets,          \* networks the operator gives roles in
  MaxInviteInbox,    \* pending invites a node may have
  MemberLimits       \* values requested for max_members, 0 for no limit

ASSUME MembershipAssumption ==
  /\ AdminOps \subseteq {"kick", "promote", "demote", "transfer", "policy"}
  /\ RuleChoices \subseteq JoinRules
  /\ FlagChoices \subseteq BOOLEAN
  /\ KickNets \subseteq NetIDs /\ RoleNets \subseteq NetIDs
  /\ MaxInviteInbox \in Nat
  /\ MemberLimits \subseteq Nat

\* target is the member, or the new owner, an operation is about.
RoleRequest == [op : AdminOps \ {"policy"}, net : NetIDs, target : NodeIDs]
PolicyRequest == [op : {"policy"}, net : NetIDs, max : MemberLimits]

ASSUME NoneAdminAssumption == None \notin RoleRequest /\ None \notin PolicyRequest

VARIABLE adminReqs     \* admitted requests, by connection

membVars == <<dirVars, adminReqs>>

MembershipTypeOK ==
  /\ DirectoryTypeOK
  /\ adminReqs \in [Admins -> OrNone(RoleRequest \cup PolicyRequest)]

MembershipInit ==
  /\ DirectoryInit
  /\ adminReqs = [a \in Admins |-> None]

\* What no request about networks touches.
directoryFrame ==
  <<pubKeyIdx, ownerIdx, hostnameIdx, nextNode, requestVars, reaperVars>>

-----------------------------------------------------------------------------
(* Helpers *)

HasOwner(roles) == \E id \in NodeIDs : roles[id] = "owner"

\* len(Members), counted as the entries of the list: a node has one per listing.
MemberEntries(net) == UNION {{id} \X (1 .. net.Members[id]) : id \in NodeIDs}

MemberCount(net) == Cardinality(MemberEntries(net))

RoomIn_OffByOne(net) == net.MaxMembers > 0 => MemberCount(net) <= net.MaxMembers

RoomIn(net) == net.MaxMembers > 0 => MemberCount(net) < net.MaxMembers

\* The network with node id appended as a plain member.
WithMember(net, id) ==
  [net EXCEPT !.Members[id] = @ + 1, !.MemberRoles[id] = "member"]

AppendNodeNetwork(id, n) == nodes' = [nodes EXCEPT ![id].Networks = @ \cup {n}]

RemoveNodeNetwork(ids, n) ==
  nodes' = [id \in NodeIDs |->
    IF id \in ids /\ Live(id) THEN [nodes[id] EXCEPT !.Networks = @ \ {n}]
    ELSE nodes[id]]

\* delete_network drops every invite to n, whoever holds it.
DropInvitesTo(n) ==
  inviteInbox' = [t \in NodeIDs |-> {inv \in inviteInbox[t] : inv.NetworkID # n}]

\* respond_invite drops the invites to n in the node's own inbox.
DropOwnInvites(id, n) ==
  inviteInbox' = [inviteInbox EXCEPT ![id] = {inv \in @ : inv.NetworkID # n}]

\* leave_network and kick_member drop the node's own invites to n and those it
\* sent for n.
DropInvitesOfMember(id, n) ==
  inviteInbox' = [t \in NodeIDs |->
    {inv \in inviteInbox[t] : inv.NetworkID = n => t # id /\ inv.InviterID # id}]

-----------------------------------------------------------------------------
(* Creation, join, leave, deletion *)

CreateNetwork(id, name, rule, enterprise) ==
  /\ rule = "invite" => enterprise
  /\ Live(id)
  /\ nextNet # 0
  /\ \A n \in NetIDs : Exists(n) => networks[n].Name # name
  /\ networks' = [networks EXCEPT ![nextNet] =
       [Name |-> name, JoinRule |-> rule, Enterprise |-> enterprise,
        Members |-> [NoMembers EXCEPT ![id] = 1],
        MemberRoles |-> [NoRoles EXCEPT ![id] = "owner"], MaxMembers |-> 0]]
  /\ nextNet' = NextID(nextNet, MaxNetID)
  /\ AppendNodeNetwork(id, nextNet)
  /\ RecordWAL([type |-> "network_create", NetworkID |-> nextNet, Name |-> name,
                JoinRule |-> rule, Enterprise |-> enterprise, CreatorNodeID |-> id])
  /\ Save
  /\ UNCHANGED <<directoryFrame, inviteInbox, adminReqs>>

JoinNetwork_Again(id, n) ==
  /\ n # 0
  /\ Live(id)
  /\ Exists(n)
  /\ networks[n].JoinRule \in {"open", "token"}
  /\ RoomIn(networks[n])
  /\ networks' = [networks EXCEPT ![n] = WithMember(@, id)]
  /\ AppendNodeNetwork(id, n)
  /\ RecordWAL([type |-> "network_join", NodeID |-> id, NetworkID |-> n])
  /\ Save
  /\ UNCHANGED <<directoryFrame, nextNet, inviteInbox, adminReqs>>

JoinNetwork(id, n) ==
  /\ n # 0
  /\ Live(id)
  /\ Exists(n)
  /\ networks[n].JoinRule \in {"open", "token"}
  /\ RoomIn(networks[n])
  /\ n \notin nodes[id].Networks
  /\ networks' = [networks EXCEPT ![n] = WithMember(@, id)]
  /\ AppendNodeNetwork(id, n)
  /\ RecordWAL([type |-> "network_join", NodeID |-> id, NetworkID |-> n])
  /\ Save
  /\ UNCHANGED <<directoryFrame, nextNet, inviteInbox, adminReqs>>

LeaveNetwork(id, n) ==
  /\ n # 0
  /\ Live(id)
  /\ Exists(n)
  /\ ~(networks[n].Enterprise /\ networks[n].MemberRoles[id] = "owner")
  /\ n \in nodes[id].Networks
  /\ RemoveNodeNetwork({id}, n)
  /\ networks' = [networks EXCEPT ![n] = WithoutMember(@, id)]
  /\ RecordWAL([type |-> "network_leave", NodeID |-> id, NetworkID |-> n])
  /\ DropInvitesOfMember(id, n)
  /\ Save
  /\ UNCHANGED <<directoryFrame, nextNet, adminReqs>>

DeleteNetwork_KeepNodeNetworks(n) ==
  /\ n # 0
  /\ Exists(n)
  /\ DropInvitesTo(n)
  /\ networks' = [networks EXCEPT ![n] = None]
  /\ RecordWAL([type |-> "network_delete", NetworkID |-> n])
  /\ Save
  /\ UNCHANGED <<directoryFrame, nodes, nextNet, adminReqs>>

DeleteNetwork_KeepInvites(n) ==
  /\ n # 0
  /\ Exists(n)
  /\ RemoveNodeNetwork({id \in NodeIDs : IsMember(n, id)}, n)
  /\ networks' = [networks EXCEPT ![n] = None]
  /\ RecordWAL([type |-> "network_delete", NetworkID |-> n])
  /\ Save
  /\ UNCHANGED <<directoryFrame, nextNet, inviteInbox, adminReqs>>

DeleteNetwork(n) ==
  /\ n # 0
  /\ Exists(n)
  /\ RemoveNodeNetwork({id \in NodeIDs : IsMember(n, id)}, n)
  /\ DropInvitesTo(n)
  /\ networks' = [networks EXCEPT ![n] = None]
  /\ RecordWAL([type |-> "network_delete", NetworkID |-> n])
  /\ Save
  /\ UNCHANGED <<directoryFrame, nextNet, adminReqs>>

RenameNetwork(n, name) ==
  /\ n # 0
  /\ Exists(n)
  /\ \A m \in NetIDs \ {n} : Exists(m) => networks[m].Name # name
  /\ networks' = [networks EXCEPT ![n].Name = name]
  /\ Save
  /\ UNCHANGED <<directoryFrame, nodes, nextNet, inviteInbox, wal, adminReqs>>

EnterpriseRoles_SecondOwner(net, first) ==
  [id \in NodeIDs |->
     IF net.MemberRoles[id] # None \/ net.Members[id] = 0
     THEN net.MemberRoles[id] ELSE "owner"]

\* Turning the flag on gives a role to each member without one, in order, the
\* first of them owner if there is none; turning it off drops all roles.
Roleless(net) == {id \in NodeIDs : net.Members[id] > 0 /\ net.MemberRoles[id] = None}

EnterpriseRoles(net, first) ==
  [id \in NodeIDs |->
     IF id \notin Roleless(net) THEN net.MemberRoles[id]
     ELSE IF id = first /\ ~HasOwner(net.MemberRoles) THEN "owner" ELSE "member"]

SetNetworkEnterprise(n, enterprise) ==
  /\ n # 0
  /\ Exists(n)
  /\ \E first \in NodeIDs :
       /\ Roleless(networks[n]) # {} => first \in Roleless(networks[n])
       /\ networks' = [networks EXCEPT
            ![n].Enterprise = enterprise,
            ![n].MemberRoles =
              IF enterprise THEN EnterpriseRoles(networks[n], first) ELSE NoRoles]
  /\ Save
  /\ UNCHANGED <<directoryFrame, nodes, nextNet, inviteInbox, wal, adminReqs>>

-----------------------------------------------------------------------------
(* Invitations *)

InvitedTo(id, n) ==
  \E inv \in inviteInbox[id] : inv.NetworkID = n

\* HandleInviteToNetwork looks the inviter up in an earlier critical section,
\* so at this point it is known only to have been registered once.  A caller
\* with the admin token need not be a member nor hold a role, which covers the
\* inviter that has one.
InviteToNetwork(inviter, n, target) ==
  /\ inviter # target
  /\ nextNode = 0 \/ inviter < nextNode
  /\ Exists(n)
  /\ networks[n].Enterprise
  /\ networks[n].JoinRule = "invite"
  /\ Live(target)
  /\ n \notin nodes[target].Networks
  /\ ~InvitedTo(target, n)
  /\ Cardinality(inviteInbox[target]) < MaxInviteInbox
  /\ inviteInbox' = [inviteInbox EXCEPT ![target] =
       @ \cup {[NetworkID |-> n, InviterID |-> inviter, expired |-> FALSE]}]
  /\ Save
  /\ UNCHANGED <<directoryFrame, nodes, networks, nextNet, wal, adminReqs>>

\* An invite outlives InviteTTL.
ExpireInvite(id) ==
  /\ \E inv \in inviteInbox[id] :
       /\ ~inv.expired
       /\ inviteInbox' = [inviteInbox EXCEPT ![id] =
            (@ \ {inv}) \cup {[inv EXCEPT !.expired = TRUE]}]
  /\ UNCHANGED <<directoryFrame, nodes, networks, nextNet, wal, saveCh, adminReqs>>

\* HandlePollInvites changes something only when an invite has expired.
PollInvites(id) ==
  /\ Live(id)
  /\ \E inv \in inviteInbox[id] : inv.expired
  /\ inviteInbox' = [inviteInbox EXCEPT ![id] = {inv \in @ : ~inv.expired}]
  /\ Save
  /\ UNCHANGED <<directoryFrame, nodes, networks, nextNet, wal, adminReqs>>

InviteUsable(id, n) ==
  \E inv \in inviteInbox[id] : inv.NetworkID = n /\ ~inv.expired

AcceptInvite(id, n) ==
  /\ Live(id)
  /\ InviteUsable(id, n)
  /\ Exists(n)
  /\ networks[n].Enterprise
  /\ RoomIn(networks[n])
  /\ n \notin nodes[id].Networks
  /\ networks' = [networks EXCEPT ![n] = WithMember(@, id)]
  /\ AppendNodeNetwork(id, n)
  /\ DropOwnInvites(id, n)
  /\ Save
  /\ UNCHANGED <<directoryFrame, nextNet, wal, adminReqs>>

\* HandleRespondInvite checks the enterprise flag in an earlier critical section
\* and only an acceptance checks it again, so a rejection may find it cleared.
RejectInvite(id, n) ==
  /\ Live(id)
  /\ InviteUsable(id, n)
  /\ DropOwnInvites(id, n)
  /\ Save
  /\ UNCHANGED <<directoryFrame, nodes, networks, nextNet, wal, adminReqs>>

-----------------------------------------------------------------------------
(* Requests that check the enterprise flag first *)

EnterpriseNet(n) == Exists(n) /\ networks[n].Enterprise

AdmitRole(a, op, n, target) ==
  /\ adminReqs[a] = None
  /\ EnterpriseNet(n)
  /\ adminReqs' = [adminReqs EXCEPT ![a] = [op |-> op, net |-> n, target |-> target]]
  /\ UNCHANGED dirVars

\* HandleSetNetworkPolicy compares max_members with the member count it reads; a
\* request without max_members writes back the limit it reads.
AdmitPolicy(a, n, max) ==
  /\ adminReqs[a] = None
  /\ EnterpriseNet(n)
  /\ max = networks[n].MaxMembers \/ (max > 0 => MemberCount(networks[n]) <= max)
  /\ adminReqs' = [adminReqs EXCEPT ![a] = [op |-> "policy", net |-> n, max |-> max]]
  /\ UNCHANGED dirVars

Kickable_Owner(req, caller) == IsMember(req.net, req.target)

\* The checks each handler makes under the write lock.
Kickable(req, caller) ==
  /\ networks[req.net].MemberRoles[req.target] # "owner"
  /\ IsMember(req.net, req.target)
  /\ ~ /\ caller # None
       /\ networks[req.net].MemberRoles[caller] = "admin"
       /\ networks[req.net].MemberRoles[req.target] = "admin"

OwnerToReplace(req, owner) ==
  /\ networks[req.net].MemberRoles[owner] = "owner"
  /\ req.target # owner
  /\ networks[req.net].MemberRoles[req.target] # None

AdminRequestOK(req) ==
  /\ Exists(req.net)
  /\ CASE req.op = "kick" -> Kickable(req, None)
       [] req.op = "promote" -> networks[req.net].MemberRoles[req.target] = "member"
       [] req.op = "demote" -> networks[req.net].MemberRoles[req.target] = "admin"
       [] req.op = "transfer" -> \E owner \in NodeIDs : OwnerToReplace(req, owner)
       [] req.op = "policy" -> TRUE

AdminRefused(a) ==
  /\ adminReqs[a] # None
  /\ ~AdminRequestOK(adminReqs[a])
  /\ adminReqs' = [adminReqs EXCEPT ![a] = None]
  /\ UNCHANGED dirVars

\* HandleKickMember records nothing in the WAL.
KickMember(a) ==
  /\ adminReqs[a] # None /\ adminReqs[a].op = "kick"
  /\ LET req == adminReqs[a]
     IN /\ Exists(req.net)
        /\ \E caller \in OrNone(NodeIDs) : Kickable(req, caller)
        /\ networks' = [networks EXCEPT ![req.net] = WithoutMember(@, req.target)]
        /\ RemoveNodeNetwork({req.target}, req.net)
        /\ DropInvitesOfMember(req.target, req.net)
  /\ Save
  /\ adminReqs' = [adminReqs EXCEPT ![a] = None]
  /\ UNCHANGED <<directoryFrame, nextNet, wal>>

\* promote_member, demote_member and transfer_ownership change roles only.
RolesIn(a) == networks[adminReqs[a].net].MemberRoles

ChangeRoles(a, op, roles) ==
  /\ adminReqs[a] # None /\ adminReqs[a].op = op
  /\ AdminRequestOK(adminReqs[a])
  /\ networks' = [networks EXCEPT ![adminReqs[a].net].MemberRoles = roles]
  /\ Save
  /\ adminReqs' = [adminReqs EXCEPT ![a] = None]
  /\ UNCHANGED <<directoryFrame, nodes, nextNet, inviteInbox, wal>>

PromoteMember(a) ==
  ChangeRoles(a, "promote", [RolesIn(a) EXCEPT ![adminReqs[a].target] = "admin"])

DemoteMember(a) ==
  ChangeRoles(a, "demote", [RolesIn(a) EXCEPT ![adminReqs[a].target] = "member"])

TransferOwnership(a) ==
  \E owner \in NodeIDs :
    /\ adminReqs[a] # None /\ Exists(adminReqs[a].net)
    /\ adminReqs[a].op = "transfer" /\ OwnerToReplace(adminReqs[a], owner)
    /\ ChangeRoles(a, "transfer",
         [RolesIn(a) EXCEPT ![owner] = "admin", ![adminReqs[a].target] = "owner"])

SetNetworkPolicy(a) ==
  /\ adminReqs[a] # None /\ adminReqs[a].op = "policy"
  /\ AdminRequestOK(adminReqs[a])
  /\ networks' = [networks EXCEPT ![adminReqs[a].net].MaxMembers = adminReqs[a].max]
  /\ Save
  /\ adminReqs' = [adminReqs EXCEPT ![a] = None]
  /\ UNCHANGED <<directoryFrame, nodes, nextNet, inviteInbox, wal>>

-----------------------------------------------------------------------------
(* The operator's member actions (dashboard) *)

\* AdminKickMember takes any network, the backbone included, and leaves the
\* invites alone.  It takes a snapshot itself instead of signalling a save.
AdminKickMember(n, id) ==
  /\ Exists(n)
  /\ networks[n].MemberRoles[id] # "owner"
  /\ IsMember(n, id)
  /\ networks' = [networks EXCEPT ![n] = WithoutMember(@, id)]
  /\ RemoveNodeNetwork({id}, n)
  /\ UNCHANGED <<directoryFrame, nextNet, inviteInbox, wal, saveCh, adminReqs>>

AdminSetMemberRole(n, id, role) ==
  /\ Exists(n)
  /\ networks[n].MemberRoles[id] # "owner"
  /\ IsMember(n, id)
  /\ networks' = [networks EXCEPT ![n].MemberRoles[id] = role]
  /\ UNCHANGED <<directoryFrame, nodes, nextNet, inviteInbox, wal, saveCh, adminReqs>>

-----------------------------------------------------------------------------

NetworkStep(n) ==
  \/ DeleteNetwork(n)
  \/ \E name \in NetNames : RenameNetwork(n, name)
  \/ \E enterprise \in FlagChoices : SetNetworkEnterprise(n, enterprise)

MemberStep(id) ==
  \/ \E name \in NetNames, rule \in RuleChoices, enterprise \in FlagChoices :
       CreateNetwork(id, name, rule, enterprise)
  \/ ExpireInvite(id)
  \/ PollInvites(id)
  \/ \E n \in NetIDs :
       \/ JoinNetwork(id, n)
       \/ LeaveNetwork(id, n)
       \/ AcceptInvite(id, n)
       \/ RejectInvite(id, n)
       \/ \E target \in NodeIDs : InviteToNetwork(id, n, target)
  \/ \E n \in KickNets : AdminKickMember(n, id)
  \/ \E n \in RoleNets, role \in {"admin", "member"} : AdminSetMemberRole(n, id, role)

AdminStep(a) ==
  \/ \E op \in AdminOps \ {"policy"}, n \in NetIDs, target \in NodeIDs :
       AdmitRole(a, op, n, target)
  \/ \E n \in NetIDs, max \in MemberLimits : "policy" \in AdminOps /\ AdmitPolicy(a, n, max)
  \/ AdminRefused(a)
  \/ KickMember(a)
  \/ PromoteMember(a)
  \/ DemoteMember(a)
  \/ TransferOwnership(a)
  \/ SetNetworkPolicy(a)

MembershipStep ==
  \/ \E n \in NetIDs : NetworkStep(n)
  \/ \E id \in NodeIDs : MemberStep(id)
  \/ \E a \in Admins : AdminStep(a)

MembershipNext == MembershipStep \/ (DirectoryNext /\ UNCHANGED adminReqs)

MembershipSpec == MembershipInit /\ [][MembershipNext]_membVars

-----------------------------------------------------------------------------
(* Properties *)

\* A live node's Networks and the networks' Members agree in both directions,
\* through joins, kicks, deletions, reaping and reclaiming: what list_nodes
\* shows for a network is what lookup shows for the node.
MembershipSymmetric ==
  \A id \in LiveIDs, n \in NetIDs :
    n \in nodes[id].Networks <=> IsMember(n, id)

\* No network lists a node twice, so that removing a member (which drops one
\* occurrence) removes it.
MembersOnce ==
  \A n \in NetIDs, id \in NodeIDs : Exists(n) => networks[n].Members[id] <= 1

\* A role is held by members only, and by one owner at most.  (The backbone has
\* no roles, but for those the operator gives, which the reaper leaves behind.)
RolesSound ==
  \A n \in NetIDs \ {0} : Exists(n) =>
    /\ \A id \in NodeIDs : networks[n].MemberRoles[id] # None => IsMember(n, id)
    /\ \A a, b \in NodeIDs :
         networks[n].MemberRoles[a] = "owner" /\ networks[n].MemberRoles[b] = "owner" =>
           a = b

\* An enterprise network with an owner does not lose it to a leave, kick, role
\* change, reaping or re-registration: only the owner's own deregistration, the
\* loss of the enterprise flag and deletion take the owner away.
OwnerKept ==
  [][\A n \in NetIDs :
       /\ EnterpriseNet(n) /\ HasOwner(networks[n].MemberRoles)
       /\ EnterpriseNet(n)'
       /\ ~HasOwner(networks'[n].MemberRoles)
       => \E id \in NodeIDs :
            /\ networks[n].MemberRoles[id] = "owner"
            /\ Live(id) /\ ~Live(id)' /\ ~IsMember(n, id)']_membVars

\* Deleting a network leaves nothing that would let a later network be joined
\* by invites to the old one: a pending invite names an existing network.
InvitesHaveNetwork ==
  \A id \in NodeIDs : \A inv \in inviteInbox[id] : Exists(inv.NetworkID)

\* No path into a network (join, invite, reclaim) adds a member beyond its limit.
JoinsRespectLimit ==
  [][\A n \in NetIDs :
       /\ Exists(n) /\ Exists(n)'
       /\ MemberCount(networks'[n]) > MemberCount(networks[n])
       /\ networks[n].MaxMembers > 0
       => MemberCount(networks'[n]) <= networks[n].MaxMembers]_membVars

\* A network with a member limit has no more members than that, as
\* HandleSetNetworkPolicy's and the joins' checks intend.
MembersWithinLimit ==
  \A n \in NetIDs : Exists(n) /\ networks[n].MaxMembers > 0 =>
    MemberCount(networks[n]) <= networks[n].MaxMembers
=============================================================================

----------------------------- MODULE Directory ------------------------------
(***************************************************************************)
(* The node directory: registration in all its forms (HandleRegister and   *)
(* HandleReRegister), set_hostname, heartbeat, deregister, key rotation    *)
(* and the reaper of stale nodes, over the maps of module Registry.        *)
(*                                                                         *)
(* A register or rotate_key request takes several critical sections, so a  *)
(* request in flight has state of its own and its sections interleave with *)
(* those of every other request and of the reaper.  A handler with one     *)
(* section that changes state is one action.  Signatures and admin tokens  *)
(* are not modelled: an action is a request that passed them.              *)
(***************************************************************************)
EXTENDS Registry

CONSTANTS
  Clients,           \* connections with a register request in flight
  Rotators,          \* connections with a rotate_key request in flight
  MaxNodes,          \* Server.maxNodes: cap on live nodes, 0 for none
  SigChoices,        \* whether a register carries a valid signature
  ReapChunk,         \* reapChunkSize: ids a reaper pass looks at
  ReapBatch,         \* reapDeleteBatch: deletions per critical section
  SilentWhenStale,   \* assumption: a stale node sends no set_hostname
  SerialDaemons      \* assumption: a daemon waits for its rotate_key answer

ASSUME DirectoryAssumption ==
  /\ MaxNodes \in Nat
  /\ SigChoices \subseteq BOOLEAN
  /\ ReapChunk \in Nat \ {0}
  /\ ReapBatch \in Nat \ {0}
  /\ SilentWhenStale \in BOOLEAN
  /\ SerialDaemons \in BOOLEAN

\* A register request in flight.  pc: before the fast-path lookup, holding the
\* node it found, holding a node that has left the map since, or bound for the
\* slow path.  fpOwner and fpHostname are the fields of an orphaned node.
Request ==
  [pc : {"lookup", "fast", "orphan", "slow"}, PublicKey : Keys,
   Owner : OrNone(Owners), Hostname : OrNone(Hostnames), sigVerified : BOOLEAN,
   fpNodeID : OrNone(NodeIDs), fpOwner : OrNone(Owners),
   fpHostname : OrNone(Hostnames)]

\* A rotate_key request in flight: signature checked against old, key replaced,
\* index updated.
Rotation ==
  [pc : {"verified", "updated", "indexed"}, id : NodeIDs, old : Keys, new : Keys]

\* The reaper: ids is Phase 1's snapshot, cands Phase 2's candidates with the
\* hostname captured for each.
Reaper ==
  [pc : {"idle", "scan", "delete"}, ids : SUBSET NodeIDs, cands : SUBSET NodeIDs,
   hostname : [NodeIDs -> OrNone(Hostnames)], next : 0 .. MaxNodeID, any : BOOLEAN]

ASSUME NoneRequestAssumption == None \notin Request /\ None \notin Rotation

VARIABLES
  regs,          \* register requests in flight, by client
  rots,          \* rotate_key requests in flight, by client
  reap,          \* the reaper's locals
  reapCursor     \* Server.reapCursor: where the next pass starts

requestVars == <<regs, rots>>
reaperVars == <<reap, reapCursor>>
dirVars == <<registryVars, requestVars, reaperVars>>

NoHostnames == [id \in NodeIDs |-> None]

IdleReaper ==
  [pc |-> "idle", ids |-> {}, cands |-> {}, hostname |-> NoHostnames,
   next |-> 0, any |-> FALSE]

DirectoryTypeOK ==
  /\ RegistryTypeOK
  /\ regs \in [Clients -> OrNone(Request)]
  /\ rots \in [Rotators -> OrNone(Rotation)]
  /\ reap \in Reaper
  /\ reapCursor \in 0 .. MaxNodeID

DirectoryInit ==
  /\ RegistryInit
  /\ regs = [c \in Clients |-> None]
  /\ rots = [r \in Rotators |-> None]
  /\ reap = IdleReaper
  /\ reapCursor = 0

-----------------------------------------------------------------------------
(* Registration *)

Known(key) == pubKeyIdx[key] # None
KnownLive(key) == Known(key) /\ Live(pubKeyIdx[key])

InFlightKeys ==
  UNION {{rots[r].old, rots[r].new} : r \in {x \in Rotators : rots[x] # None}}

\* HandleRegister decodes the request; HandleReRegister's ratchet refuses an
\* unsigned one for a live node that has registered with a signature.
RegisterBegin(c, key, owner, hostname, sig) ==
  /\ regs[c] = None
  /\ SerialDaemons => key \notin InFlightKeys
  /\ ~sig /\ KnownLive(key) => ~nodes[pubKeyIdx[key]].SigVerified
  /\ regs' = [regs EXCEPT ![c] =
       [pc |-> "lookup", PublicKey |-> key, Owner |-> owner, Hostname |-> hostname,
        sigVerified |-> sig, fpNodeID |-> None, fpOwner |-> None, fpHostname |-> None]]
  /\ UNCHANGED <<registryVars, rots, reaperVars>>

\* The fast path's lookup under the read lock.
RegisterLookup(c) ==
  /\ regs[c] # None /\ regs[c].pc = "lookup"
  /\ LET key == regs[c].PublicKey
     IN regs' = IF KnownLive(key)
                THEN [regs EXCEPT ![c].pc = "fast", ![c].fpNodeID = pubKeyIdx[key]]
                ELSE [regs EXCEPT ![c].pc = "slow"]
  /\ UNCHANGED <<registryVars, rots, reaperVars>>

NeedsIndex(req, owner, hostname) ==
  \/ req.Owner # None /\ owner = None
  \/ req.Hostname # None /\ req.Hostname # hostname

\* The endpoint refresh under the node's shard lock alone.
RegisterFast(c) ==
  /\ regs[c] # None /\ regs[c].pc = "fast"
  /\ LET req == regs[c]
         id == req.fpNodeID
     IN IF NeedsIndex(req, nodes[id].Owner, nodes[id].Hostname)
        THEN /\ regs' = [regs EXCEPT ![c].pc = "slow"]
             /\ UNCHANGED <<nodes, saveCh>>
        ELSE /\ nodes' = [nodes EXCEPT ![id].stale = FALSE,
                                       ![id].SigVerified = @ \/ req.sigVerified]
             /\ regs' = [regs EXCEPT ![c] = None]
             /\ Save
  /\ UNCHANGED <<pubKeyIdx, ownerIdx, hostnameIdx, nextNode, membershipVars, wal,
                 rots, reaperVars>>

\* The same on a node that left the map after the lookup: the write is lost.
RegisterOrphan(c) ==
  /\ regs[c] # None /\ regs[c].pc = "orphan"
  /\ IF NeedsIndex(regs[c], regs[c].fpOwner, regs[c].fpHostname)
     THEN /\ regs' = [regs EXCEPT ![c].pc = "slow"]
          /\ UNCHANGED saveCh
     ELSE /\ regs' = [regs EXCEPT ![c] = None]
          /\ Save
  /\ UNCHANGED <<directoryVars, membershipVars, wal, rots, reaperVars>>

\* setNodeHostname: the hostname node id ends up with, and the index.
HostnameFree_Unchecked(hostname, id) == TRUE

HostnameFree(hostname, id) == hostnameIdx[hostname] \in {None, id}

NewHostname(hostname, id, old) ==
  IF hostname # None /\ HostnameFree(hostname, id) THEN hostname ELSE old

setNodeHostname(hostname, id, old) ==
  hostnameIdx' =
    IF hostname # None /\ HostnameFree(hostname, id)
    THEN [Index(hostnameIdx, old, None) EXCEPT ![hostname] = id]
    ELSE hostnameIdx

AddNodeToBackbone(id) ==
  networks' = IF IsMember(0, id) THEN networks
              ELSE [networks EXCEPT ![0].Members[id] = @ + 1]

ScanNetworkMemberships(id) ==
  {n \in NetIDs \ {0} : IsMember(n, id)}

FreshNode(req, id, nets) ==
  [PublicKey |-> req.PublicKey, Owner |-> req.Owner,
   Hostname |-> NewHostname(req.Hostname, id, None), Networks |-> nets,
   SigVerified |-> req.sigVerified, stale |-> FALSE]

\* The slow path, under the write lock.  The key is bound to a live node.
RegisterExisting(c) ==
  /\ regs[c] # None /\ regs[c].pc = "slow" /\ KnownLive(regs[c].PublicKey)
  /\ LET req == regs[c]
         id == pubKeyIdx[req.PublicKey]
         claims == req.Owner # None /\ nodes[id].Owner = None
     IN /\ nodes' = [nodes EXCEPT
             ![id].stale = FALSE,
             ![id].SigVerified = @ \/ req.sigVerified,
             ![id].Owner = IF claims THEN req.Owner ELSE @,
             ![id].Hostname = NewHostname(req.Hostname, id, @)]
        /\ ownerIdx' = IF claims THEN [ownerIdx EXCEPT ![req.Owner] = id] ELSE ownerIdx
        /\ setNodeHostname(req.Hostname, id, nodes[id].Hostname)
  /\ regs' = [regs EXCEPT ![c] = None]
  /\ Save
  /\ UNCHANGED <<pubKeyIdx, nextNode, membershipVars, wal, rots, reaperVars>>

\* The key is known and its node was reaped or deregistered: same id again.
RegisterReclaim(c) ==
  /\ regs[c] # None /\ regs[c].pc = "slow"
  /\ Known(regs[c].PublicKey) /\ ~KnownLive(regs[c].PublicKey)
  /\ LET req == regs[c]
         id == pubKeyIdx[req.PublicKey]
     IN /\ nodes' = [nodes EXCEPT ![id] =
             FreshNode(req, id, {0} \cup ScanNetworkMemberships(id))]
        /\ ownerIdx' = Index(ownerIdx, req.Owner, id)
        /\ setNodeHostname(req.Hostname, id, None)
        /\ AddNodeToBackbone(id)
  /\ regs' = [regs EXCEPT ![c] = None]
  /\ Save
  /\ UNCHANGED <<pubKeyIdx, nextNode, nextNet, inviteInbox, wal, rots, reaperVars>>

OwnerKnown(req) == req.Owner # None /\ ownerIdx[req.Owner] # None

OwnerAlive_Ignored(req) == FALSE

OwnerAlive(req) == Live(ownerIdx[req.Owner])

\* Unknown key, known owner.  A live node keeps its key and the request is
\* refused; a dead node's id goes to the new key.
RegisterOwnerLive(c) ==
  /\ regs[c] # None /\ regs[c].pc = "slow" /\ ~Known(regs[c].PublicKey)
  /\ OwnerKnown(regs[c]) /\ OwnerAlive(regs[c])
  /\ regs' = [regs EXCEPT ![c] = None]
  /\ UNCHANGED <<registryVars, rots, reaperVars>>

RegisterOwnerReclaim(c) ==
  /\ regs[c] # None /\ regs[c].pc = "slow" /\ ~Known(regs[c].PublicKey)
  /\ OwnerKnown(regs[c]) /\ ~OwnerAlive(regs[c])
  /\ LET req == regs[c]
         id == ownerIdx[req.Owner]
     IN /\ pubKeyIdx' = [pubKeyIdx EXCEPT ![req.PublicKey] = id]
        /\ nodes' = [nodes EXCEPT ![id] = FreshNode(req, id, {0})]
        /\ setNodeHostname(req.Hostname, id, None)
        /\ AddNodeToBackbone(id)
  /\ regs' = [regs EXCEPT ![c] = None]
  /\ Save
  /\ UNCHANGED <<ownerIdx, nextNode, nextNet, inviteInbox, wal, rots, reaperVars>>

RegistryFull == MaxNodes > 0 /\ Cardinality(LiveIDs) >= MaxNodes

\* Unknown key, no owner match: refused when full, else the next id.
RegisterRefused(c) ==
  /\ regs[c] # None /\ regs[c].pc = "slow" /\ ~Known(regs[c].PublicKey)
  /\ ~OwnerKnown(regs[c])
  /\ RegistryFull \/ nextNode = 0
  /\ regs' = [regs EXCEPT ![c] = None]
  /\ UNCHANGED <<registryVars, rots, reaperVars>>

RegisterNew(c) ==
  /\ regs[c] # None /\ regs[c].pc = "slow" /\ ~Known(regs[c].PublicKey)
  /\ ~OwnerKnown(regs[c])
  /\ ~RegistryFull
  /\ nextNode # 0
  /\ LET req == regs[c]
         id == nextNode
         node == FreshNode(req, id, {0})
     IN /\ nextNode' = NextID(nextNode, MaxNodeID)
        /\ pubKeyIdx' = [pubKeyIdx EXCEPT ![req.PublicKey] = id]
        /\ ownerIdx' = Index(ownerIdx, req.Owner, id)
        /\ nodes' = [nodes EXCEPT ![id] = node]
        /\ AddNodeToBackbone(id)
        /\ setNodeHostname(req.Hostname, id, None)
        /\ RecordWAL([type |-> "register", NodeID |-> id, PublicKey |-> req.PublicKey,
                      Owner |-> req.Owner, Hostname |-> node.Hostname])
  /\ regs' = [regs EXCEPT ![c] = None]
  /\ Save
  /\ UNCHANGED <<nextNet, inviteInbox, rots, reaperVars>>

-----------------------------------------------------------------------------
(* Requests about a registered node *)

\* Register requests that hold a pointer to a node being deleted keep its
\* last fields.
OrphanPointers(gone) ==
  regs' = [c \in Clients |->
    IF regs[c] # None /\ regs[c].pc = "fast" /\ regs[c].fpNodeID \in gone
    THEN [regs[c] EXCEPT !.pc = "orphan",
                         !.fpOwner = nodes[regs[c].fpNodeID].Owner,
                         !.fpHostname = nodes[regs[c].fpNodeID].Hostname]
    ELSE regs[c]]

\* HandleSetHostname; None clears the name.
SetHostname(id, hostname) ==
  /\ Live(id)
  /\ SilentWhenStale => ~nodes[id].stale
  /\ hostname # None => HostnameFree(hostname, id)
  /\ hostnameIdx' = Index(Index(hostnameIdx, nodes[id].Hostname, None), hostname, id)
  /\ nodes' = [nodes EXCEPT ![id].Hostname = hostname]
  /\ Save
  /\ UNCHANGED <<pubKeyIdx, ownerIdx, nextNode, membershipVars, wal,
                 requestVars, reaperVars>>

\* HandleHeartbeat and HandleBinaryHeartbeat store LastSeen without a lock.
Heartbeat(id) ==
  /\ Live(id)
  /\ nodes' = [nodes EXCEPT ![id].stale = FALSE]
  /\ UNCHANGED <<pubKeyIdx, ownerIdx, hostnameIdx, nextNode, membershipVars, wal,
                 saveCh, requestVars, reaperVars>>

RemoveFromNetworks_RolesOnly(id, nets) ==
  networks' = [n \in NetIDs |->
    IF n \in nets /\ networks[n] # None
    THEN [networks[n] EXCEPT !.MemberRoles[id] = None]
    ELSE networks[n]]

RemoveFromNetworks(id, nets) ==
  networks' = [n \in NetIDs |->
    IF n \in nets /\ networks[n] # None
    THEN WithoutMember(networks[n], id)
    ELSE networks[n]]

ClearInviteInbox(id) ==
  inviteInbox' = [t \in NodeIDs |->
    IF t = id THEN {} ELSE {inv \in inviteInbox[t] : inv.InviterID # id}]

Deregister(id) ==
  /\ Live(id)
  /\ SerialDaemons => \A r \in Rotators : rots[r] # None => rots[r].id # id
  /\ RemoveFromNetworks(id, nodes[id].Networks)
  /\ ClearInviteInbox(id)
  /\ hostnameIdx' = Index(hostnameIdx, nodes[id].Hostname, None)
  /\ nodes' = [nodes EXCEPT ![id] = None]
  /\ OrphanPointers({id})
  /\ RecordWAL([type |-> "deregister", NodeID |-> id])
  /\ Save
  /\ UNCHANGED <<pubKeyIdx, ownerIdx, nextNode, nextNet, rots, reaperVars>>

-----------------------------------------------------------------------------
(* Key rotation: HandleRotateKey *)

\* With SerialDaemons a daemon rotates to a key it has just generated and has
\* no register of its own under way.
RotationAllowed(id, new) ==
  /\ pubKeyIdx[new] = None /\ new \notin InFlightKeys
  /\ \A x \in LiveIDs : nodes[x].PublicKey # new
  /\ \A c \in Clients : regs[c] # None =>
        regs[c].PublicKey \notin {new, nodes[id].PublicKey}

\* Phases 1 and 2: copy the current key, check the signature against it.
RotateVerify(r, id, new) ==
  /\ rots[r] = None
  /\ Live(id)
  /\ SerialDaemons => RotationAllowed(id, new)
  /\ rots' = [rots EXCEPT ![r] =
       [pc |-> "verified", id |-> id, old |-> nodes[id].PublicKey, new |-> new]]
  /\ UNCHANGED <<registryVars, regs, reaperVars>>

\* Phase 3, UpdateNodeKey: refused when the node left or its key has changed.
RotateUpdate(r) ==
  /\ rots[r] # None /\ rots[r].pc = "verified"
  /\ LET rot == rots[r]
     IN IF Live(rot.id) /\ nodes[rot.id].PublicKey = rot.old
        THEN /\ nodes' = [nodes EXCEPT ![rot.id].PublicKey = rot.new,
                                       ![rot.id].stale = FALSE]
             /\ rots' = [rots EXCEPT ![r].pc = "updated"]
        ELSE /\ rots' = [rots EXCEPT ![r] = None]
             /\ UNCHANGED nodes
  /\ UNCHANGED <<pubKeyIdx, ownerIdx, hostnameIdx, nextNode, membershipVars, wal,
                 saveCh, regs, reaperVars>>

OnKeyRotated_NoReindex(r) ==
  /\ rots[r] # None /\ rots[r].pc = "updated"
  /\ pubKeyIdx' = [pubKeyIdx EXCEPT ![rots[r].old] = None]
  /\ rots' = [rots EXCEPT ![r].pc = "indexed"]
  /\ UNCHANGED <<nodes, ownerIdx, hostnameIdx, nextNode, membershipVars, wal, saveCh,
                 regs, reaperVars>>

OnKeyRotated(r) ==
  /\ rots[r] # None /\ rots[r].pc = "updated"
  /\ pubKeyIdx' = [pubKeyIdx EXCEPT ![rots[r].old] = None, ![rots[r].new] = rots[r].id]
  /\ rots' = [rots EXCEPT ![r].pc = "indexed"]
  /\ UNCHANGED <<nodes, ownerIdx, hostnameIdx, nextNode, membershipVars, wal, saveCh,
                 regs, reaperVars>>

RotateRecord(r) ==
  /\ rots[r] # None /\ rots[r].pc = "indexed"
  /\ RecordWAL([type |-> "key_rotation", NodeID |-> rots[r].id,
                NewPublicKey |-> rots[r].new])
  /\ Save
  /\ rots' = [rots EXCEPT ![r] = None]
  /\ UNCHANGED <<directoryVars, membershipVars, regs, reaperVars>>

-----------------------------------------------------------------------------
(* The reaper: reapStaleNodes *)

\* Time passes a node by.  The threshold is fixed when a pass starts, so a
\* node that is not stale then is not stale for that pass.
GoStale(id) ==
  /\ Live(id) /\ ~nodes[id].stale
  /\ reap.pc = "idle"
  /\ nodes' = [nodes EXCEPT ![id].stale = TRUE]
  /\ UNCHANGED <<pubKeyIdx, ownerIdx, hostnameIdx, nextNode, membershipVars, wal,
                 saveCh, requestVars, reaperVars>>

\* Ids are visited in ascending order from the cursor on, wrapping once.
ScanBefore(x, y) ==
  \/ x >= reapCursor /\ y < reapCursor
  \/ (x >= reapCursor <=> y >= reapCursor) /\ x < y

FirstInScan(ids, n) ==
  {id \in ids : Cardinality({x \in ids : ScanBefore(x, id)}) < n}

LastInScan(ids, id) == \A x \in ids : x = id \/ ScanBefore(x, id)

\* The cursor after a pass over chunk that ended with the id last.
NextCursor_SameNode(chunk, last) == IF chunk = reap.ids THEN 0 ELSE last

NextCursor(chunk, last) == IF chunk = reap.ids THEN 0 ELSE NextID(last, MaxNodeID)

\* Phase 1: the ids, under the read lock.
ReapSnapshot ==
  /\ reap.pc = "idle"
  /\ IF LiveIDs = {}
     THEN reapCursor' = 0 /\ UNCHANGED reap
     ELSE reap' = [reap EXCEPT !.pc = "scan", !.ids = LiveIDs] /\ UNCHANGED reapCursor
  /\ UNCHANGED <<registryVars, requestVars>>

\* Phase 2: one chunk of them, collecting the stale ones and their hostnames.
ReapScan ==
  /\ reap.pc = "scan"
  /\ LET chunk == FirstInScan(reap.ids, ReapChunk)
         cands == {id \in chunk : Live(id) /\ nodes[id].stale}
     IN \E last \in chunk :
          /\ LastInScan(chunk, last)
          /\ reap' = [reap EXCEPT
               !.pc = "delete",
               !.ids = {},
               !.cands = cands,
               !.hostname = [id \in NodeIDs |->
                               IF id \in cands THEN nodes[id].Hostname ELSE None],
               !.next = NextCursor(chunk, last)]
  /\ UNCHANGED <<registryVars, requestVars, reapCursor>>

\* Phase 3: one batch under the write lock, each candidate checked again.
ReapDelete ==
  /\ reap.pc = "delete" /\ reap.cands # {}
  /\ LET batch == FirstInScan(reap.cands, ReapBatch)
         gone == {id \in batch : Live(id) /\ nodes[id].stale}
     IN /\ networks' = [networks EXCEPT ![0].Members =
             [id \in NodeIDs |-> IF id \in gone THEN DropMember(@, id)[id] ELSE @[id]]]
        /\ hostnameIdx' = [h \in Hostnames |->
             IF \E id \in gone : reap.hostname[id] = h THEN None ELSE hostnameIdx[h]]
        /\ nodes' = [id \in NodeIDs |-> IF id \in gone THEN None ELSE nodes[id]]
        /\ OrphanPointers(gone)
        /\ reap' = [reap EXCEPT
             !.cands = @ \ batch,
             !.hostname = [id \in NodeIDs |-> IF id \in batch THEN None ELSE @[id]],
             !.any = @ \/ gone # {}]
  /\ UNCHANGED <<pubKeyIdx, ownerIdx, nextNode, nextNet, inviteInbox, wal, saveCh,
                 rots, reapCursor>>

\* Phase 4: the cursor moves on, and a save is signalled if anything went.
ReapFinish ==
  /\ reap.pc = "delete" /\ reap.cands = {}
  /\ reapCursor' = reap.next
  /\ saveCh' = (saveCh \/ reap.any)
  /\ reap' = IdleReaper
  /\ UNCHANGED <<directoryVars, membershipVars, wal, requestVars>>

-----------------------------------------------------------------------------

RegisterStep(c) ==
  \/ \E key \in Keys, owner \in OrNone(Owners), hostname \in OrNone(Hostnames),
        sig \in SigChoices : RegisterBegin(c, key, owner, hostname, sig)
  \/ RegisterLookup(c)
  \/ RegisterFast(c)
  \/ RegisterOrphan(c)
  \/ RegisterExisting(c)
  \/ RegisterReclaim(c)
  \/ RegisterOwnerLive(c)
  \/ RegisterOwnerReclaim(c)
  \/ RegisterRefused(c)
  \/ RegisterNew(c)

NodeStep(id) ==
  \/ \E hostname \in OrNone(Hostnames) : SetHostname(id, hostname)
  \/ Heartbeat(id)
  \/ Deregister(id)
  \/ GoStale(id)

RotateStep(r) ==
  \/ \E id \in NodeIDs, new \in Keys : RotateVerify(r, id, new)
  \/ RotateUpdate(r)
  \/ OnKeyRotated(r)
  \/ RotateRecord(r)

ReapStep == ReapSnapshot \/ ReapScan \/ ReapDelete \/ ReapFinish

DirectoryNext ==
  \/ \E c \in Clients : RegisterStep(c)
  \/ \E id \in NodeIDs : NodeStep(id)
  \/ \E r \in Rotators : RotateStep(r)
  \/ ReapStep

DirectorySpec == DirectoryInit /\ [][DirectoryNext]_dirVars

\* reapLoop ticks for as long as the server runs, and a waiting writer gets
\* the RWMutex, so the steps of a pass keep being taken.
DirectoryFairSpec == DirectorySpec /\ WF_dirVars(ReapStep)

-----------------------------------------------------------------------------
(* Properties *)

\* The hostname index is the exact inverse of the Hostname fields: a name that
\* resolves, resolves to a live node that carries it, and the name of a live
\* node resolves to it.  Registration, set_hostname, deregister and the reaper
\* each update both sides.
HostnameIndexExact ==
  /\ \A h \in Hostnames : hostnameIdx[h] # None =>
        /\ Live(hostnameIdx[h])
        /\ nodes[hostnameIdx[h]].Hostname = h
  /\ \A id \in LiveIDs : nodes[id].Hostname # None =>
        hostnameIdx[nodes[id].Hostname] = id

\* No two live nodes carry the same hostname (the "unique index" of server.go).
HostnamesUnique ==
  \A a, b \in LiveIDs :
    a # b /\ nodes[a].Hostname # None => nodes[a].Hostname # nodes[b].Hostname

KeyBindingStep ==
  \A id \in NodeIDs :
    Live(id) /\ Live(id)' /\ nodes[id].PublicKey # nodes'[id].PublicKey =>
      \E r \in Rotators :
        /\ rots[r] # None /\ rots[r].pc = "verified" /\ rots[r].id = id
        /\ rots[r].old = nodes[id].PublicKey
        /\ rots[r].new = nodes'[id].PublicKey

\* A live node's key changes only in UpdateNodeKey, for a rotation whose
\* signature was checked against the very key it replaces: neither a register
\* with a known owner nor a rotation overtaken by another one rebinds a node.
KeyBindingStable == [][KeyBindingStep]_dirVars

BeingIndexed(id) ==
  \E r \in Rotators :
    /\ rots[r] # None /\ rots[r].pc = "updated"
    /\ rots[r].id = id /\ rots[r].new = nodes[id].PublicKey

\* Every live node is found by its key, so that its next register refreshes it
\* and does not allocate a second id; the exception is the time between
\* UpdateNodeKey and OnKeyRotated of a rotation.
KeyIndexComplete ==
  \A id \in LiveIDs : BeingIndexed(id) \/ pubKeyIdx[nodes[id].PublicKey] = id

\* The id the next new node would get is in use nowhere: no live node, no key,
\* owner or hostname and no network's member list has it.
NextIDUnused ==
  nextNode # 0 =>
    /\ ~Live(nextNode)
    /\ \A k \in Keys : pubKeyIdx[k] # nextNode
    /\ \A o \in Owners : ownerIdx[o] # nextNode
    /\ \A h \in Hostnames : hostnameIdx[h] # nextNode
    /\ \A n \in NetIDs : ~IsMember(n, nextNode)

\* The backbone lists exactly the live nodes, each once, whatever registration,
\* reclaim, deregister and reaper did in whatever order.
BackboneExact ==
  networks[0].Members = [id \in NodeIDs |-> IF Live(id) THEN 1 ELSE 0]

\* A node that stays stale is reaped: passes that look at one chunk of ids each
\* get round to every node, whichever nodes come and go meanwhile.
StaleEventuallyReaped ==
  \A id \in NodeIDs :
    (Live(id) /\ nodes[id].stale) ~> ~(Live(id) /\ nodes[id].stale)
=============================================================================

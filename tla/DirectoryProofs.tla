-------------------------- MODULE DirectoryProofs ---------------------------
(***************************************************************************)
(* The directory, proved for every value of the constants.  Types alone    *)
(* are not inductive: the fast path dereferences the node it holds, so     *)
(* Shape adds that this node is in the map and that the backbone exists.   *)
(* What each step keeps comes first: keys of live nodes, and the exactness *)
(* of the hostname index and of the backbone's member list.  The reaper    *)
(* deletes the index entry of the hostname it captured one or more         *)
(* critical sections before, so the invariant of the index must say that a *)
(* captured name is still the node's.                                      *)
(***************************************************************************)
EXTENDS DirectoryEffects

-----------------------------------------------------------------------------
(* Keys *)

\* A step under which every node that stays keeps its key.
KeysKept == \A id \in NodeIDs : Live(id) /\ Live(id)' =>
              nodes'[id].PublicKey = nodes[id].PublicKey

\* No register request rebinds a live node: a reclaim takes the id of a node
\* that is not live, and a new node takes an unused id.
LEMMA KeysKeptRegister ==
  ASSUME Shape, NextIDUnused, NEW c \in Clients, RegisterStep(c)
  PROVE  KeysKept
<1> USE DEF KeysKept, Live
<1>1. CASE UNCHANGED nodes
  BY <1>1, Zenon
<1>2. CASE RegisterFast(c) /\ ~UNCHANGED nodes
  <2> DEFINE id == regs[c].fpNodeID
  <2>1. id \in NodeIDs /\ nodes[id] \in NodeInfo
    BY <1>2, Zenon DEF RegisterFast, Shape, FastLive, DirectoryTypeOK, RegistryTypeOK, OrNone,
       Request
  <2>2. nodes' = [nodes EXCEPT ![id].stale = FALSE,
                               ![id].SigVerified = @ \/ regs[c].sigVerified]
    BY <1>2 DEF RegisterFast
  <2> QED
    BY <2>1, <2>2, Zenon DEF Shape, DirectoryTypeOK, RegistryTypeOK, NodeInfo
<1>3. CASE RegisterExisting(c)
  <2> DEFINE req == regs[c]
             id == pubKeyIdx[req.PublicKey]
             claims == req.Owner # None /\ nodes[id].Owner = None
             name == NewHostname(req.Hostname, id, nodes[id].Hostname)
  <2>1. id \in NodeIDs /\ nodes[id] \in NodeInfo
    BY <1>3, Zenon DEF RegisterExisting, Shape, DirectoryTypeOK, RegistryTypeOK, OrNone,
       Request, KnownLive, Known
  <2>2. nodes' = [nodes EXCEPT ![id].stale = FALSE,
                               ![id].SigVerified = @ \/ req.sigVerified,
                               ![id].Owner = IF claims THEN req.Owner ELSE @,
                               ![id].Hostname = name]
    BY <1>3, Zenon DEF RegisterExisting
  <2> HIDE DEF name
  <2> QED
    BY <2>1, <2>2, Zenon DEF Shape, DirectoryTypeOK, RegistryTypeOK, NodeInfo
<1>4. CASE RegisterReclaim(c)
  BY <1>4, Zenon DEF RegisterReclaim, KnownLive, Shape, DirectoryTypeOK, RegistryTypeOK
<1>5. CASE RegisterOwnerReclaim(c)
  BY <1>5 DEF RegisterOwnerReclaim, OwnerAlive, Shape, DirectoryTypeOK, RegistryTypeOK
<1>6. CASE RegisterNew(c)
  BY <1>6, Zenon DEF RegisterNew, NextIDUnused, Shape, DirectoryTypeOK, RegistryTypeOK
<1> QED
  BY <1>1, <1>2, <1>3, <1>4, <1>5, <1>6, Zenon DEF RegisterStep, RegisterBegin, RegisterLookup,
     RegisterOrphan, RegisterOwnerLive, RegisterRefused, registryVars, directoryVars

\* Nor does a request about a node, or the reaper.
LEMMA KeysKeptNode ==
  ASSUME Shape, ReapStep \/ \E id \in NodeIDs : NodeStep(id)
  PROVE  KeysKept
<1> USE DEF KeysKept, Live
<1>1. CASE ReapStep
  BY <1>1, Zenon DEF ReapStep, ReapSnapshot, ReapScan, ReapDelete, ReapFinish, registryVars,
     directoryVars
<1>2. ASSUME NEW id \in NodeIDs, NodeStep(id) PROVE KeysKept
  <2>1. nodes[id] \in NodeInfo
    BY <1>2, Zenon DEF NodeStep, SetHostname, Heartbeat, Deregister, GoStale, Shape,
       DirectoryTypeOK, RegistryTypeOK, OrNone
  <2>2. CASE Deregister(id)
    BY <2>2 DEF Deregister, Shape, DirectoryTypeOK, RegistryTypeOK
  <2>3. CASE Heartbeat(id) \/ GoStale(id)
    <3>1. PICK b \in BOOLEAN : nodes' = [nodes EXCEPT ![id].stale = b]
      BY <2>3, Zenon DEF Heartbeat, GoStale
    <3> QED
      BY <2>1, <3>1 DEF Shape, DirectoryTypeOK, RegistryTypeOK, NodeInfo
  <2>4. ASSUME NEW hostname \in OrNone(Hostnames), SetHostname(id, hostname)
        PROVE  KeysKept
    BY <2>1, <2>4, Zenon DEF SetHostname, Shape, DirectoryTypeOK, RegistryTypeOK, NodeInfo
  <2> QED
    BY <1>2, <2>2, <2>3, <2>4, Zenon DEF NodeStep
<1> QED
  BY <1>1, <1>2, Zenon

\* A rotation changes the key of the node and from the key it was checked for.
LEMMA KeyBindingRotate ==
  ASSUME Shape, NEW r \in Rotators, RotateStep(r)
  PROVE  KeyBindingStep
<1>1. CASE UNCHANGED nodes
  BY <1>1 DEF KeyBindingStep, Live
<1>2. CASE RotateUpdate(r) /\ ~UNCHANGED nodes
  <2> DEFINE rot == rots[r]
  <2>1. /\ rot # None /\ rot.pc = "verified" /\ rot \in Rotation
        /\ nodes[rot.id] \in NodeInfo /\ nodes[rot.id].PublicKey = rot.old
        /\ nodes' = [nodes EXCEPT ![rot.id].PublicKey = rot.new, ![rot.id].stale = FALSE]
    BY <1>2 DEF RotateUpdate, Shape, DirectoryTypeOK, RegistryTypeOK, OrNone, Rotation, Live
  <2>2. nodes'[rot.id].PublicKey = rot.new
    BY <2>1, Zenon DEF Shape, DirectoryTypeOK, RegistryTypeOK, NodeInfo, Rotation
  <2>3. \A id \in NodeIDs : id # rot.id => nodes'[id] = nodes[id]
    BY <2>1 DEF Shape, DirectoryTypeOK, RegistryTypeOK
  <2> QED
    BY <2>1, <2>2, <2>3, Zenon DEF KeyBindingStep
<1> QED
  BY <1>1, <1>2 DEF RotateStep, RotateVerify, OnKeyRotated, RotateRecord, registryVars,
     directoryVars

-----------------------------------------------------------------------------
(* Hostnames *)

Named(id, h) == Live(id) /\ nodes[id].Hostname = h

\* HostnameIndexExact in one line, which is the form the proofs use.
NamesExact ==
  \A h \in Hostnames, id \in NodeIDs : hostnameIdx[h] = id <=> Named(id, h)

\* A candidate that the reaper would still delete has the name it captured.
CapturedNames ==
  reap.pc = "delete" =>
    \A id \in reap.cands : Live(id) /\ nodes[id].stale =>
      reap.hostname[id] = nodes[id].Hostname

\* A step after which the stale nodes are stale nodes of before, under their name.
StaleKept ==
  \A id \in NodeIDs : Live(id)' /\ nodes'[id].stale =>
    Live(id) /\ nodes[id].stale /\ nodes'[id].Hostname = nodes[id].Hostname

\* The index is the inverse of the names exactly when HostnameIndexExact holds.
LEMMA ExactForm == Shape => (HostnameIndexExact <=> NamesExact)
<1> SUFFICES ASSUME Shape PROVE HostnameIndexExact <=> NamesExact
  OBVIOUS
<1>1. \A h \in Hostnames : hostnameIdx[h] # None => hostnameIdx[h] \in NodeIDs
  BY Zenon DEF Shape, DirectoryTypeOK, RegistryTypeOK, OrNone
<1>2. \A id \in NodeIDs : Live(id) /\ nodes[id].Hostname # None =>
        nodes[id].Hostname \in Hostnames
  BY Zenon DEF Shape, DirectoryTypeOK, RegistryTypeOK, OrNone, NodeInfo, Live
<1>3. ASSUME HostnameIndexExact PROVE NamesExact
  BY <1>3, NoneFacts DEF HostnameIndexExact, NamesExact, Named, LiveIDs
<1>4. ASSUME NamesExact PROVE HostnameIndexExact
  BY <1>1, <1>2, <1>4, NoneFacts, Zenon DEF HostnameIndexExact, NamesExact, Named, LiveIDs
<1> QED
  BY <1>3, <1>4

\* setNodeHostname, on a node that carries exactly the name old, and the node it
\* leaves behind.
LEMMA SetNameExact ==
  ASSUME Shape, NamesExact, NEW id \in NodeIDs, NEW h \in OrNone(Hostnames),
         NEW old \in OrNone(Hostnames),
         \A x \in Hostnames : Named(id, x) <=> x = old,
         setNodeHostname(h, id, old),
         nodes'[id] # None, nodes'[id].Hostname = NewHostname(h, id, old),
         \A y \in NodeIDs \ {id} : nodes'[y] = nodes[y]
  PROVE  NamesExact'
<1> SUFFICES ASSUME NEW x \in Hostnames, NEW y \in NodeIDs
             PROVE  hostnameIdx'[x] = y <=> (nodes'[y] # None /\ nodes'[y].Hostname = x)
  BY DEF NamesExact, Named, Live
<1>1. id # None /\ y # None /\ x # None
  BY NoneFacts
<1>2. hostnameIdx[x] = y <=> (nodes[y] # None /\ nodes[y].Hostname = x)
  BY DEF NamesExact, Named, Live
<1>3. hostnameIdx[x] = id <=> x = old
  BY DEF NamesExact
<1>4. CASE h # None /\ HostnameFree(h, id)
  <2>1. hostnameIdx'[x] = IF x = h THEN id ELSE IF x = old THEN None ELSE hostnameIdx[x]
    BY <1>1, <1>4, Zenon DEF setNodeHostname, Index, Shape, DirectoryTypeOK, RegistryTypeOK, OrNone
  <2>2. nodes'[id].Hostname = h /\ hostnameIdx[h] \in {None, id}
    BY <1>4 DEF NewHostname, HostnameFree
  <2> QED
    BY <1>1, <1>2, <1>3, <2>1, <2>2, Zenon
<1>5. CASE ~(h # None /\ HostnameFree(h, id))
  <2>1. hostnameIdx' = hostnameIdx /\ nodes'[id].Hostname = old
    BY <1>5 DEF setNodeHostname, NewHostname
  <2> QED
    BY <1>1, <1>2, <1>3, <2>1, Zenon
<1> QED
  BY <1>4, <1>5, Zenon

\* A step that changes neither names nor the index.
LEMMA NamesKept ==
  ASSUME Shape, NamesExact, hostnameIdx' = hostnameIdx,
         \A y \in NodeIDs : /\ Live(y)' <=> Live(y)
                            /\ Live(y) => nodes'[y].Hostname = nodes[y].Hostname
  PROVE  NamesExact'
BY DEF NamesExact, Named, Live

\* A reclaimed or new node starts without a name and gets the one it asks for if
\* that is free.
LEMMA FreshNamesExact ==
  ASSUME Shape, NamesExact, NEW req \in Request, NEW id \in NodeIDs,
         NEW nets \in SUBSET NetIDs, ~Live(id),
         nodes' = [nodes EXCEPT ![id] = FreshNode(req, id, nets)],
         setNodeHostname(req.Hostname, id, None)
  PROVE  NamesExact' /\ StaleKept
<1> DEFINE node == FreshNode(req, id, nets)
<1>1. node \in NodeInfo
  BY FreshNodeType
<1>2. ~node.stale /\ node.Hostname = NewHostname(req.Hostname, id, None)
  BY DEF FreshNode
<1> HIDE DEF node
<1>3. nodes'[id] = node /\ \A y \in NodeIDs \ {id} : nodes'[y] = nodes[y]
  BY DEF node, Shape, DirectoryTypeOK, RegistryTypeOK
<1>4. \A x \in Hostnames : Named(id, x) <=> x = None
  BY NoneFacts, Zenon DEF Named
<1>5. NamesExact'
  BY <1>1, <1>2, <1>3, <1>4, NoneFacts, SetNameExact, Zenon DEF Request, OrNone
<1>6. StaleKept
  BY <1>2, <1>3, Zenon DEF StaleKept, Live
<1> QED
  BY <1>5, <1>6

\* Register requests: the fast path is taken only when no name changes.
LEMMA NamesRegister ==
  ASSUME Shape, NextIDUnused, NamesExact, NEW c \in Clients, RegisterStep(c)
  PROVE  NamesExact' /\ StaleKept
<1>1. CASE UNCHANGED <<nodes, hostnameIdx>>
  BY <1>1, NamesKept DEF StaleKept, Live
<1>2. CASE RegisterFast(c) /\ ~UNCHANGED nodes
  <2> DEFINE id == regs[c].fpNodeID
  <2>1. id \in NodeIDs /\ nodes[id] \in NodeInfo
    BY <1>2, Zenon DEF RegisterFast, Shape, FastLive, DirectoryTypeOK, RegistryTypeOK, OrNone,
       Request, Live
  <2>2. /\ nodes' = [nodes EXCEPT ![id].stale = FALSE,
                                  ![id].SigVerified = @ \/ regs[c].sigVerified]
        /\ hostnameIdx' = hostnameIdx
    BY <1>2 DEF RegisterFast
  <2>3. /\ nodes'[id] \in NodeInfo /\ ~nodes'[id].stale
        /\ nodes'[id].Hostname = nodes[id].Hostname
        /\ \A y \in NodeIDs \ {id} : nodes'[y] = nodes[y]
    BY <2>1, <2>2, Zenon DEF Shape, DirectoryTypeOK, RegistryTypeOK,
       OrNone, NodeInfo, Request, RegisterFast
  <2> QED
    BY <2>1, <2>2, <2>3, NoneFacts, NamesKept, Zenon DEF StaleKept, Live
<1>3. CASE RegisterExisting(c)
  <2> DEFINE req == regs[c]
             id == pubKeyIdx[req.PublicKey]
             claims == req.Owner # None /\ nodes[id].Owner = None
             old == nodes[id].Hostname
             name == NewHostname(req.Hostname, id, old)
  <2>1. req \in Request /\ id \in NodeIDs /\ nodes[id] \in NodeInfo
    BY <1>3, Zenon DEF RegisterExisting, Shape, DirectoryTypeOK, RegistryTypeOK, OrNone,
       Request, KnownLive, Known, Live
  <2>2. /\ nodes' = [nodes EXCEPT ![id].stale = FALSE,
                                  ![id].SigVerified = @ \/ req.sigVerified,
                                  ![id].Owner = IF claims THEN req.Owner ELSE @,
                                  ![id].Hostname = name]
        /\ setNodeHostname(req.Hostname, id, old)
    BY <1>3, Zenon DEF RegisterExisting
  <2>3. req.Hostname \in OrNone(Hostnames) /\ old \in OrNone(Hostnames)
    BY <2>1, Zenon DEF Request, NodeInfo
  <2> HIDE DEF name
  <2>4. /\ nodes'[id] # None /\ ~nodes'[id].stale /\ nodes'[id].Hostname = name
        /\ \A y \in NodeIDs \ {id} : nodes'[y] = nodes[y]
    <3>1. ~nodes'[id].stale /\ nodes'[id].Hostname = name
      BY <2>1, <2>2, Zenon DEF Shape, DirectoryTypeOK, RegistryTypeOK, NodeInfo
    <3>2. \A y \in NodeIDs \ {id} : nodes'[y] = nodes[y]
      BY <2>1, <2>2, Zenon DEF Shape, DirectoryTypeOK, RegistryTypeOK
    <3>3. nodes'[id] # None
      <4> DEFINE node == [nodes[id] EXCEPT !.stale = FALSE,
                             !.SigVerified = @ \/ req.sigVerified,
                             !.Owner = IF claims THEN req.Owner ELSE @,
                             !.Hostname = name]
      <4>1. node \in NodeInfo
        BY <2>1, <2>3, HostnameType, ZenonT(30) DEF NodeInfo, Request, OrNone, name
      <4>2. nodes'[id] = node
        BY <2>1, <2>2, Zenon DEF Shape, DirectoryTypeOK, RegistryTypeOK
      <4> QED
        BY <4>1, <4>2, NoneFacts
    <3> QED
      BY <3>1, <3>2, <3>3
  <2>5. \A x \in Hostnames : Named(id, x) <=> x = old
    BY <2>1, NoneFacts DEF Named, Live
  <2>6. NamesExact'
    BY <2>1, <2>2, <2>3, <2>4, <2>5, SetNameExact, Zenon DEF name
  <2>7. StaleKept
    BY <2>4 DEF StaleKept, Live
  <2> QED
    BY <2>6, <2>7
<1>4. CASE RegisterReclaim(c)
  <2> DEFINE req == regs[c]
             id == pubKeyIdx[req.PublicKey]
             nets == {0} \cup ScanNetworkMemberships(id)
  <2>1. /\ req \in Request /\ id \in NodeIDs /\ ~Live(id)
        /\ nodes' = [nodes EXCEPT ![id] = FreshNode(req, id, nets)]
        /\ setNodeHostname(req.Hostname, id, None)
    BY <1>4, Zenon DEF RegisterReclaim, Shape, DirectoryTypeOK, RegistryTypeOK, OrNone, Request,
       Known, KnownLive
  <2>2. nets \in SUBSET NetIDs
    BY RegistryAssumption DEF ScanNetworkMemberships, NetIDs
  <2> HIDE DEF nets
  <2> QED
    BY <2>1, <2>2, FreshNamesExact, Zenon
<1>5. CASE RegisterOwnerReclaim(c)
  <2> DEFINE req == regs[c]
             id == ownerIdx[req.Owner]
  <2>1. /\ req \in Request /\ id \in NodeIDs /\ ~Live(id)
        /\ nodes' = [nodes EXCEPT ![id] = FreshNode(req, id, {0})]
        /\ setNodeHostname(req.Hostname, id, None)
    BY <1>5, Zenon DEF RegisterOwnerReclaim, Shape, DirectoryTypeOK, RegistryTypeOK, OrNone,
       Request, OwnerKnown, OwnerAlive
  <2>2. {0} \in SUBSET NetIDs
    BY RegistryAssumption DEF NetIDs
  <2> QED
    BY <2>1, <2>2, FreshNamesExact, Zenon
<1>6. CASE RegisterNew(c)
  <2> DEFINE req == regs[c]
             id == nextNode
  <2>1. /\ req \in Request /\ id \in NodeIDs /\ ~Live(id)
        /\ nodes' = [nodes EXCEPT ![id] = FreshNode(req, id, {0})]
        /\ setNodeHostname(req.Hostname, id, None)
    BY <1>6, RegistryAssumption DEF RegisterNew, Shape, DirectoryTypeOK, RegistryTypeOK,
       OrNone, NextIDUnused, NodeIDs
  <2>2. {0} \in SUBSET NetIDs
    BY RegistryAssumption DEF NetIDs
  <2> QED
    BY <2>1, <2>2, FreshNamesExact, Zenon
<1> QED
  BY <1>1, <1>2, <1>3, <1>4, <1>5, <1>6, Zenon DEF RegisterStep, RegisterBegin, RegisterLookup,
     RegisterFast, RegisterOrphan, RegisterOwnerLive, RegisterRefused, registryVars,
     directoryVars

\* set_hostname on a node that is not stale, and the other requests about a node.
LEMMA NamesNode ==
  ASSUME SilentWhenStale, Shape, NamesExact, NEW id \in NodeIDs, NodeStep(id)
  PROVE  NamesExact' /\ (GoStale(id) \/ StaleKept)
<1>1. nodes[id] \in NodeInfo
  BY DEF NodeStep, SetHostname, Heartbeat, Deregister, GoStale, Shape, DirectoryTypeOK,
     RegistryTypeOK, OrNone, Live
<1>2. ASSUME NEW h \in OrNone(Hostnames), SetHostname(id, h)
      PROVE  NamesExact' /\ StaleKept
  <2> DEFINE old == nodes[id].Hostname
  <2>1. /\ nodes'[id].Hostname = h /\ nodes'[id].stale = nodes[id].stale
        /\ nodes'[id] # None
        /\ \A y \in NodeIDs \ {id} : nodes'[y] = nodes[y]
    <3> DEFINE node == [nodes[id] EXCEPT !.Hostname = h]
    <3>1. nodes' = [nodes EXCEPT ![id] = node]
      BY <1>2 DEF SetHostname
    <3>2. node \in NodeInfo /\ node.Hostname = h /\ node.stale = nodes[id].stale
      BY <1>1 DEF NodeInfo
    <3> HIDE DEF node
    <3> QED
      BY <3>1, <3>2, NoneFacts, Zenon DEF Shape, DirectoryTypeOK, RegistryTypeOK
  <2>2. ~nodes[id].stale /\ old \in OrNone(Hostnames)
    BY <1>1, <1>2, Zenon DEF SetHostname, NodeInfo
  <2>3. StaleKept
    BY <2>1, <2>2, Zenon DEF StaleKept, Live
  <2>4. ASSUME NEW x \in Hostnames, NEW y \in NodeIDs
        PROVE  hostnameIdx'[x] = y <=> (nodes'[y] # None /\ nodes'[y].Hostname = x)
    <3>1. id # None /\ y # None /\ x # None
      BY NoneFacts, Zenon
    <3>2. hostnameIdx[x] = y <=> (nodes[y] # None /\ nodes[y].Hostname = x)
      BY Zenon DEF NamesExact, Named, Live
    <3>3. hostnameIdx[x] = id <=> x = old
      BY <1>1, NoneFacts, Zenon DEF NamesExact, Named, Live
    <3>4. h # None => hostnameIdx[h] \in {None, id}
      BY <1>2 DEF SetHostname, HostnameFree
    <3>5. hostnameIdx' = Index(Index(hostnameIdx, old, None), h, id)
      BY <1>2, Zenon DEF SetHostname
    <3>6. hostnameIdx'[x] = IF x = h THEN id ELSE IF x = old THEN None ELSE hostnameIdx[x]
      BY <2>2, <3>1, <3>5, Zenon DEF Index, Shape, DirectoryTypeOK, RegistryTypeOK, OrNone
    <3> QED
      BY <2>1, <3>1, <3>2, <3>3, <3>4, <3>6, Zenon
  <2> QED
    BY <2>3, <2>4, Zenon DEF NamesExact, Named, Live
<1>3. CASE Heartbeat(id) \/ GoStale(id)
  <2>1. PICK b \in BOOLEAN : /\ nodes' = [nodes EXCEPT ![id].stale = b]
                             /\ Heartbeat(id) => ~b
                             /\ hostnameIdx' = hostnameIdx
    BY <1>3, Zenon DEF Heartbeat, GoStale
  <2> DEFINE node == [nodes[id] EXCEPT !.stale = b]
  <2>2. node \in NodeInfo /\ node.Hostname = nodes[id].Hostname /\ node.stale = b
    BY <1>1 DEF NodeInfo
  <2>3. nodes' = [nodes EXCEPT ![id] = node]
    BY <2>1, Zenon
  <2> HIDE DEF node
  <2>4. nodes'[id] = node /\ \A y \in NodeIDs \ {id} : nodes'[y] = nodes[y]
    BY <2>3, Zenon DEF Shape, DirectoryTypeOK, RegistryTypeOK
  <2>5. NamesExact'
    BY <1>1, <2>1, <2>2, <2>4, NoneFacts, NamesKept, Zenon DEF Live
  <2>6. Heartbeat(id) => StaleKept
    BY <2>1, <2>2, <2>4, Zenon DEF StaleKept, Live
  <2> QED
    BY <1>3, <2>5, <2>6
<1>4. CASE Deregister(id)
  <2>1. /\ hostnameIdx' = Index(hostnameIdx, nodes[id].Hostname, None)
        /\ nodes' = [nodes EXCEPT ![id] = None]
    BY <1>4, Zenon DEF Deregister
  <2>2. ASSUME NEW x \in Hostnames, NEW y \in NodeIDs
        PROVE  hostnameIdx'[x] = y <=> (nodes'[y] # None /\ nodes'[y].Hostname = x)
    <3>1. id # None /\ y # None /\ x # None /\ nodes[id] # None
      BY <1>1, NoneFacts, Zenon
    <3>2. hostnameIdx[x] = y <=> (nodes[y] # None /\ nodes[y].Hostname = x)
      BY DEF NamesExact, Named, Live
    <3>3. hostnameIdx[x] = id <=> nodes[id].Hostname = x
      BY <3>1, Zenon DEF NamesExact, Named, Live
    <3>4. hostnameIdx'[x] = IF x = nodes[id].Hostname THEN None ELSE hostnameIdx[x]
      BY <1>1, <2>1, <3>1, Zenon DEF Index, Shape, DirectoryTypeOK, RegistryTypeOK, OrNone, NodeInfo
    <3>5. nodes'[y] = IF y = id THEN None ELSE nodes[y]
      BY <2>1 DEF Shape, DirectoryTypeOK, RegistryTypeOK
    <3> QED
      BY <3>1, <3>2, <3>3, <3>4, <3>5, Zenon
  <2>3. StaleKept
    BY <2>1, Zenon DEF StaleKept, Live, Shape, DirectoryTypeOK, RegistryTypeOK
  <2> QED
    BY <2>2, <2>3, Zenon DEF NamesExact, Named, Live
<1> QED
  BY <1>2, <1>3, <1>4, Zenon DEF NodeStep

\* Key rotation touches no name, and the node it changes is not stale after.
LEMMA NamesRotate ==
  ASSUME Shape, NamesExact, NEW r \in Rotators, RotateStep(r)
  PROVE  NamesExact' /\ StaleKept
<1>1. CASE UNCHANGED <<nodes, hostnameIdx>>
  BY <1>1, NamesKept, Zenon DEF StaleKept, Live
<1>2. CASE RotateUpdate(r) /\ ~UNCHANGED nodes
  <2> DEFINE id == rots[r].id
             node == [nodes[id] EXCEPT !.PublicKey = rots[r].new, !.stale = FALSE]
  <2>1. /\ id \in NodeIDs /\ rots[r] \in Rotation /\ nodes[id] \in NodeInfo
        /\ nodes' = [nodes EXCEPT ![id] = node] /\ hostnameIdx' = hostnameIdx
    BY <1>2, Zenon DEF RotateUpdate, Shape, DirectoryTypeOK, RegistryTypeOK, OrNone,
       Rotation, Live
  <2>2. node \in NodeInfo /\ node.Hostname = nodes[id].Hostname /\ ~node.stale
    BY <2>1, Zenon DEF NodeInfo, Rotation
  <2> HIDE DEF node
  <2>3. nodes'[id] = node /\ \A y \in NodeIDs \ {id} : nodes'[y] = nodes[y]
    BY <2>1 DEF Shape, DirectoryTypeOK, RegistryTypeOK
  <2> QED
    BY <2>1, <2>2, <2>3, NoneFacts, NamesKept, Zenon DEF StaleKept, Live
<1> QED
  BY <1>1, <1>2 DEF RotateStep, RotateVerify, RotateUpdate, OnKeyRotated, RotateRecord,
     registryVars, directoryVars

\* The reaper captures the names of stale nodes and deletes these very entries.
LEMMA NamesReap ==
  ASSUME Shape, NamesExact, CapturedNames, ReapStep
  PROVE  NamesExact' /\ CapturedNames'
<1>1. CASE ReapSnapshot \/ ReapFinish
  <2>1. UNCHANGED <<nodes, hostnameIdx>>
    BY <1>1 DEF ReapSnapshot, ReapFinish, registryVars, directoryVars
  <2>2. reap'.pc # "delete"
    <3>1. CASE ReapSnapshot
      <4>1. reap' \in {reap, [reap EXCEPT !.pc = "scan", !.ids = LiveIDs]} /\ reap.pc = "idle"
        BY <3>1, Zenon DEF ReapSnapshot
      <4> QED
        BY <4>1, Zenon DEF Shape, DirectoryTypeOK, Reaper
    <3>2. CASE ReapFinish
      BY <3>2, Zenon DEF ReapFinish, IdleReaper
    <3> QED
      BY <1>1, <3>1, <3>2
  <2> QED
    BY <2>1, <2>2, NamesKept DEF CapturedNames, Live
<1>2. CASE ReapScan
  <2> DEFINE chunk == FirstInScan(reap.ids, ReapChunk)
             cands == {id \in chunk : Live(id) /\ nodes[id].stale}
             names == [id \in NodeIDs |-> IF id \in cands THEN nodes[id].Hostname ELSE None]
  <2>1. UNCHANGED <<nodes, hostnameIdx>>
    BY <1>2 DEF ReapScan, registryVars, directoryVars
  <2>2. PICK last \in chunk :
          reap' = [reap EXCEPT !.pc = "delete", !.ids = {}, !.cands = cands,
                               !.hostname = names, !.next = NextCursor(chunk, last)]
    BY <1>2, Zenon DEF ReapScan
  <2>3. cands \in SUBSET NodeIDs
    BY <1>2 DEF FirstInScan, Shape, DirectoryTypeOK, Reaper, ReapScan
  <2> HIDE DEF cands
  <2>4. \A id \in cands : names[id] = nodes[id].Hostname
    BY <2>3
  <2> HIDE DEF names, chunk
  <2>5. reap'.cands = cands /\ reap'.hostname = names
    BY <2>2, Zenon DEF Shape, DirectoryTypeOK, Reaper
  <2> QED
    BY <2>1, <2>4, <2>5, NamesKept DEF CapturedNames, Live
<1>3. CASE ReapDelete
  <2> DEFINE batch == FirstInScan(reap.cands, ReapBatch)
             gone == {id \in batch : Live(id) /\ nodes[id].stale}
             names == [id \in NodeIDs |-> IF id \in batch THEN None ELSE reap.hostname[id]]
             rest == reap.cands \ batch
             any == reap.any \/ gone # {}
  <2>1. /\ hostnameIdx' = [h \in Hostnames |->
             IF \E id \in gone : reap.hostname[id] = h THEN None ELSE hostnameIdx[h]]
        /\ nodes' = [id \in NodeIDs |-> IF id \in gone THEN None ELSE nodes[id]]
        /\ reap' = [reap EXCEPT !.cands = rest, !.hostname = names, !.any = any]
    BY <1>3, Zenon DEF ReapDelete
  <2>2. batch \in SUBSET reap.cands /\ reap.cands \in SUBSET NodeIDs
    BY <1>3, Zenon DEF FirstInScan, Shape, DirectoryTypeOK, Reaper, ReapDelete
  <2> HIDE DEF batch
  <2>3. \A id \in gone : id \in NodeIDs /\ Named(id, reap.hostname[id])
    BY <1>3, <2>2, Zenon DEF CapturedNames, Named, ReapDelete
  <2>4. \A id \in rest : id \in NodeIDs /\ names[id] = reap.hostname[id]
    BY <2>2
  <2> HIDE DEF gone, names, rest, any
  <2>5. reap'.cands = rest /\ reap'.hostname = names
    BY <2>1, Zenon DEF Shape, DirectoryTypeOK, Reaper
  <2>6. CapturedNames'
    BY <1>3, <2>1, <2>2, <2>4, <2>5 DEF CapturedNames, Live, ReapDelete, rest
  <2>7. ASSUME NEW x \in Hostnames, NEW y \in NodeIDs
        PROVE  hostnameIdx'[x] = y <=> (nodes'[y] # None /\ nodes'[y].Hostname = x)
    <3>1. hostnameIdx[x] = y <=> Named(y, x)
      BY Zenon DEF NamesExact
    <3>2. \A id \in gone : reap.hostname[id] = x => hostnameIdx[x] = id
      BY <2>3 DEF NamesExact
    <3>3. y \in gone => (reap.hostname[y] = x <=> Named(y, x))
      BY <2>3 DEF Named
    <3>4. nodes'[y] = IF y \in gone THEN None ELSE nodes[y]
      BY <2>1
    <3>5. hostnameIdx'[x] = IF \E id \in gone : reap.hostname[id] = x
                            THEN None ELSE hostnameIdx[x]
      BY <2>1, Zenon
    <3> QED
      BY <3>1, <3>2, <3>3, <3>4, <3>5, NoneFacts, Zenon DEF Named, Live
  <2> QED
    BY <2>6, <2>7, Zenon DEF NamesExact, Named, Live
<1> QED
  BY <1>1, <1>2, <1>3, Zenon DEF ReapStep

-----------------------------------------------------------------------------
(* The backbone *)

\* deregister removes a node from the networks the node lists, so it leaves the
\* backbone only because every live node lists network 0.
ListsBackbone == \A id \in NodeIDs : Live(id) => 0 \in nodes[id].Networks

BackboneInv == BackboneExact /\ ListsBackbone

\* BackboneExact element by element.
LEMMA BackboneForm ==
  ASSUME Shape
  PROVE  BackboneExact <=>
           \A id \in NodeIDs : networks[0].Members[id] = IF Live(id) THEN 1 ELSE 0
<1>1. networks[0].Members \in [NodeIDs -> Nat]
  <2>1. 0 \in NetIDs
    BY ZeroNet, Zenon
  <2> QED
    BY <2>1 DEF Shape, DirectoryTypeOK, RegistryTypeOK, OrNone, NetworkInfo
<1> QED
  BY <1>1, Zenon DEF BackboneExact

\* A step that changes neither the backbone nor who is live.
LEMMA BackboneKept ==
  ASSUME Shape, BackboneInv, networks'[0] = networks[0],
         \A id \in NodeIDs : /\ Live(id)' <=> Live(id)
                             /\ Live(id) => nodes'[id].Networks = nodes[id].Networks
  PROVE  BackboneInv'
<1>1. BackboneExact'
  BY Zenon DEF BackboneInv, BackboneExact, Live
<1>2. ListsBackbone'
  BY Zenon DEF BackboneInv, ListsBackbone, Live
<1> QED
  BY <1>1, <1>2, Zenon DEF BackboneInv

\* A node that was not live enters the directory and the backbone together.
LEMMA BackboneFresh ==
  ASSUME Shape, Shape', BackboneInv, NEW req \in Request, NEW id \in NodeIDs,
         NEW nets \in SUBSET NetIDs, 0 \in nets, ~Live(id),
         nodes' = [nodes EXCEPT ![id] = FreshNode(req, id, nets)],
         AddNodeToBackbone(id)
  PROVE  BackboneInv'
<1> DEFINE node == FreshNode(req, id, nets)
           mem == networks[0].Members
<1>1. node \in NodeInfo /\ node.Networks = nets
  BY FreshNodeType, Zenon DEF FreshNode
<1> HIDE DEF node
<1>2. nodes'[id] = node /\ \A y \in NodeIDs \ {id} : nodes'[y] = nodes[y]
  BY DEF node, Shape, DirectoryTypeOK, RegistryTypeOK
<1>3. \A y \in NodeIDs : mem[y] = IF Live(y) THEN 1 ELSE 0
  BY BackboneForm, Zenon DEF BackboneInv
<1>4. 0 \in NetIDs /\ networks[0] \in NetworkInfo
  BY RegistryAssumption, Zenon DEF NetIDs, Shape, DirectoryTypeOK, RegistryTypeOK, OrNone
<1>5. \A y \in NodeIDs : networks'[0].Members[y] = IF y = id THEN 1 ELSE mem[y]
  <2>1. ~IsMember(0, id)
    BY <1>3 DEF IsMember
  <2>2. networks' = [networks EXCEPT ![0].Members[id] = @ + 1]
    BY <2>1, Zenon DEF AddNodeToBackbone
  <2>3. networks'[0].Members = [mem EXCEPT ![id] = @ + 1]
    BY <1>4, <2>2 DEF Shape, DirectoryTypeOK, RegistryTypeOK, NetworkInfo
  <2> QED
    BY <1>3, <1>4, <2>3 DEF NetworkInfo
<1>6. \A y \in NodeIDs : Live(y)' <=> Live(y) \/ y = id
  BY <1>1, <1>2, NoneFacts, Zenon DEF Live
<1>7. \A y \in NodeIDs : networks'[0].Members[y] = IF Live(y)' THEN 1 ELSE 0
  BY <1>3, <1>5, <1>6
<1>8. networks'[0].Members = [y \in NodeIDs |-> IF Live(y)' THEN 1 ELSE 0]
  <2>1. networks'[0].Members \in [NodeIDs -> Nat]
    BY <1>4, Zenon DEF Shape, DirectoryTypeOK, RegistryTypeOK, OrNone, NetworkInfo
  <2> QED
    BY <1>7, <2>1, Zenon
<1>9. ListsBackbone'
  BY <1>1, <1>2, <1>6, Zenon DEF ListsBackbone, BackboneInv, Live
<1> QED
  BY <1>8, <1>9 DEF BackboneInv, BackboneExact, Live

\* Nodes leave the directory and the backbone together.
LEMMA BackboneGone ==
  ASSUME Shape, Shape', BackboneInv, NEW gone \in SUBSET NodeIDs,
         \A id \in gone : Live(id),
         \A id \in NodeIDs : nodes'[id] = IF id \in gone THEN None ELSE nodes[id],
         \A id \in NodeIDs : networks'[0].Members[id] =
            IF id \in gone THEN DropMember(networks[0].Members, id)[id]
            ELSE networks[0].Members[id]
  PROVE  BackboneInv'
<1>1. /\ networks[0].Members \in [NodeIDs -> Nat]
      /\ networks'[0].Members \in [NodeIDs -> Nat]
  <2>1. 0 \in NetIDs
    BY ZeroNet, Zenon
  <2>2. networks[0] \in NetworkInfo /\ networks'[0] \in NetworkInfo
    BY <2>1, Zenon DEF Shape, DirectoryTypeOK, RegistryTypeOK, OrNone
  <2> QED
    BY <2>2, Zenon DEF NetworkInfo
<1>2. \A id \in NodeIDs : networks[0].Members[id] = IF Live(id) THEN 1 ELSE 0
  BY BackboneForm, Zenon DEF BackboneInv
<1>3. \A id \in NodeIDs : networks'[0].Members[id] = IF nodes'[id] # None THEN 1 ELSE 0
  BY <1>1, <1>2 DEF DropMember, Live
<1>4. networks'[0].Members = [id \in NodeIDs |-> IF nodes'[id] # None THEN 1 ELSE 0]
  BY <1>1, <1>3, Zenon
<1>5. ListsBackbone'
  BY Zenon DEF ListsBackbone, BackboneInv, Live
<1> QED
  BY <1>4, <1>5 DEF BackboneInv, BackboneExact, Live

\* Register requests: three forms bring a node in, the others keep who is live.
LEMMA BackboneRegister ==
  ASSUME Shape, Shape', NextIDUnused, BackboneInv, NEW c \in Clients, RegisterStep(c)
  PROVE  BackboneInv'
<1> USE DEF Live
<1>0. 0 \in NetIDs /\ {0} \in SUBSET NetIDs
  BY RegistryAssumption DEF NetIDs
<1>1. CASE UNCHANGED <<nodes, networks>>
  BY <1>1, BackboneKept, Zenon
<1>2. CASE RegisterFast(c) /\ ~UNCHANGED nodes
  <2> DEFINE id == regs[c].fpNodeID
             node == [nodes[id] EXCEPT !.stale = FALSE,
                                       !.SigVerified = @ \/ regs[c].sigVerified]
  <2>1. /\ id \in NodeIDs /\ nodes[id] \in NodeInfo /\ regs[c] \in Request
        /\ nodes' = [nodes EXCEPT ![id] = node] /\ networks' = networks
    BY <1>2, ZenonT(30) DEF RegisterFast, Shape, FastLive, DirectoryTypeOK, RegistryTypeOK,
       OrNone, Request, membershipVars
  <2>2. node \in NodeInfo /\ node.Networks = nodes[id].Networks
    BY <2>1, Zenon DEF NodeInfo, Request
  <2> HIDE DEF node
  <2>3. nodes'[id] = node /\ \A y \in NodeIDs \ {id} : nodes'[y] = nodes[y]
    BY <2>1, Zenon DEF Shape, DirectoryTypeOK, RegistryTypeOK
  <2> QED
    BY <2>1, <2>2, <2>3, NoneFacts, BackboneKept, Zenon
<1>3. CASE RegisterExisting(c)
  <2> DEFINE req == regs[c]
             id == pubKeyIdx[req.PublicKey]
             claims == req.Owner # None /\ nodes[id].Owner = None
             name == NewHostname(req.Hostname, id, nodes[id].Hostname)
             node == [nodes[id] EXCEPT !.stale = FALSE,
                             !.SigVerified = @ \/ req.sigVerified,
                             !.Owner = IF claims THEN req.Owner ELSE @,
                             !.Hostname = name]
  <2>1. req \in Request /\ id \in NodeIDs /\ nodes[id] \in NodeInfo
    <3>1. regs[c] # None /\ id # None /\ nodes[id] # None
      BY <1>3, Zenon DEF RegisterExisting, KnownLive, Known
    <3>2. req \in Request
      BY <3>1, Zenon DEF Shape, DirectoryTypeOK, OrNone
    <3>3. id \in NodeIDs
      BY <3>1, <3>2 DEF Shape, DirectoryTypeOK, RegistryTypeOK, OrNone, Request
    <3> QED
      BY <3>1, <3>2, <3>3 DEF Shape, DirectoryTypeOK, RegistryTypeOK, OrNone
  <2>2. nodes' = [nodes EXCEPT ![id] = node] /\ networks' = networks
    BY <1>3, Zenon DEF RegisterExisting, membershipVars
  <2>3. name \in OrNone(Hostnames)
    BY <2>1, HostnameType, Zenon DEF Request, NodeInfo
  <2> HIDE DEF name
  <2>4. node \in NodeInfo /\ node.Networks = nodes[id].Networks
    BY <2>1, <2>3, ZenonT(30) DEF NodeInfo, Request, OrNone
  <2> HIDE DEF node
  <2>5. nodes'[id] = node /\ \A y \in NodeIDs \ {id} : nodes'[y] = nodes[y]
    BY <2>1, <2>2 DEF Shape, DirectoryTypeOK, RegistryTypeOK
  <2> QED
    BY <2>1, <2>2, <2>4, <2>5, NoneFacts, BackboneKept, Zenon
<1>4. CASE RegisterReclaim(c)
  <2> DEFINE req == regs[c]
             id == pubKeyIdx[req.PublicKey]
             nets == {0} \cup ScanNetworkMemberships(id)
  <2>1. /\ req \in Request /\ id \in NodeIDs /\ ~Live(id)
        /\ nodes' = [nodes EXCEPT ![id] = FreshNode(req, id, nets)]
        /\ AddNodeToBackbone(id)
    BY <1>4, Zenon DEF RegisterReclaim, Shape, DirectoryTypeOK, RegistryTypeOK, OrNone, Request,
       Known, KnownLive
  <2>2. nets \in SUBSET NetIDs /\ 0 \in nets
    BY <1>0 DEF ScanNetworkMemberships
  <2> HIDE DEF nets
  <2> QED
    BY <2>1, <2>2, BackboneFresh, Zenon
<1>5. CASE RegisterOwnerReclaim(c)
  <2> DEFINE req == regs[c]
             id == ownerIdx[req.Owner]
  <2>1. /\ req \in Request /\ id \in NodeIDs /\ ~Live(id)
        /\ nodes' = [nodes EXCEPT ![id] = FreshNode(req, id, {0})]
        /\ AddNodeToBackbone(id)
    BY <1>5, Zenon DEF RegisterOwnerReclaim, Shape, DirectoryTypeOK, RegistryTypeOK,
       OrNone, Request, OwnerKnown, OwnerAlive
  <2> QED
    BY <1>0, <2>1, BackboneFresh, Zenon
<1>6. CASE RegisterNew(c)
  <2> DEFINE req == regs[c]
             id == nextNode
  <2>1. /\ regs[c] # None /\ nextNode # 0
        /\ nodes' = [nodes EXCEPT ![id] = FreshNode(req, id, {0})]
        /\ AddNodeToBackbone(id)
    BY <1>6, Zenon DEF RegisterNew
  <2>2. req \in Request /\ id \in NodeIDs
    <3>1. regs \in [Clients -> OrNone(Request)] /\ nextNode \in 0 .. MaxNodeID
      BY Zenon DEF Shape, DirectoryTypeOK, RegistryTypeOK
    <3>2. req \in Request
      BY <2>1, <3>1, Zenon DEF OrNone
    <3> QED
      BY <2>1, <3>1, <3>2, RegistryAssumption DEF NodeIDs
  <2>3. ~Live(id)
    BY <2>1, Zenon DEF NextIDUnused
  <2> QED
    BY <1>0, <2>1, <2>2, <2>3, BackboneFresh, Zenon
<1> QED
  BY <1>1, <1>2, <1>3, <1>4, <1>5, <1>6, Zenon DEF RegisterStep, RegisterBegin, RegisterLookup,
     RegisterFast, RegisterOrphan, RegisterOwnerLive, RegisterRefused, registryVars,
     directoryVars, membershipVars

\* Requests about a node: deregister takes it out of the networks it lists.
LEMMA BackboneNode ==
  ASSUME Shape, Shape', BackboneInv, NEW id \in NodeIDs, NodeStep(id)
  PROVE  BackboneInv'
<1>1. nodes[id] \in NodeInfo
  BY Zenon DEF NodeStep, SetHostname, Heartbeat, Deregister, GoStale, Shape, DirectoryTypeOK,
     RegistryTypeOK, OrNone, Live
<1>2. ASSUME NEW node \in NodeInfo, nodes' = [nodes EXCEPT ![id] = node],
             node.Networks = nodes[id].Networks, networks' = networks
      PROVE  BackboneInv'
  <2>1. nodes'[id] = node /\ \A y \in NodeIDs \ {id} : nodes'[y] = nodes[y]
    BY <1>2 DEF Shape, DirectoryTypeOK, RegistryTypeOK
  <2> QED
    BY <1>1, <1>2, <2>1, NoneFacts, BackboneKept, Zenon DEF Live
<1>3. ASSUME NEW hostname \in OrNone(Hostnames), SetHostname(id, hostname)
      PROVE  BackboneInv'
  <2> DEFINE node == [nodes[id] EXCEPT !.Hostname = hostname]
  <2>1. node \in NodeInfo /\ node.Networks = nodes[id].Networks
    BY <1>1 DEF NodeInfo
  <2>2. nodes' = [nodes EXCEPT ![id] = node] /\ networks' = networks
    BY <1>3 DEF SetHostname, membershipVars
  <2> HIDE DEF node
  <2> QED
    BY <1>2, <2>1, <2>2, Zenon
<1>4. CASE Heartbeat(id) \/ GoStale(id)
  <2>1. PICK b \in BOOLEAN : nodes' = [nodes EXCEPT ![id].stale = b] /\ networks' = networks
    BY <1>4, Zenon DEF Heartbeat, GoStale, membershipVars
  <2> DEFINE node == [nodes[id] EXCEPT !.stale = b]
  <2>2. node \in NodeInfo /\ node.Networks = nodes[id].Networks
    BY <1>1 DEF NodeInfo
  <2>3. nodes' = [nodes EXCEPT ![id] = node]
    BY <2>1
  <2> HIDE DEF node
  <2> QED
    BY <1>2, <2>1, <2>2, <2>3, Zenon
<1>5. CASE Deregister(id)
  <2>1. RemoveFromNetworks(id, nodes[id].Networks) /\ nodes' = [nodes EXCEPT ![id] = None]
    BY <1>5, Zenon DEF Deregister
  <2>2. 0 \in NetIDs /\ networks[0] \in NetworkInfo /\ networks[0] # None
    <3>1. 0 \in NetIDs
      BY ZeroNet, Zenon
    <3> QED
      BY <3>1 DEF Shape, DirectoryTypeOK, RegistryTypeOK, OrNone
  <2>3. 0 \in nodes[id].Networks
    BY <1>5, Zenon DEF Deregister, BackboneInv, ListsBackbone
  <2>4. networks'[0] = [networks[0] EXCEPT
           !.Members = DropMember(networks[0].Members, id), !.MemberRoles[id] = None]
    BY <2>1, <2>2, <2>3, Zenon DEF RemoveFromNetworks, WithoutMember
  <2>5. networks'[0].Members = DropMember(networks[0].Members, id)
    BY <2>2, <2>4, Zenon DEF NetworkInfo
  <2>6. \A y \in NodeIDs : networks'[0].Members[y] =
           IF y \in {id} THEN DropMember(networks[0].Members, y)[y]
           ELSE networks[0].Members[y]
    BY <2>2, <2>5 DEF DropMember, NetworkInfo
  <2>7. \A y \in NodeIDs : nodes'[y] = IF y \in {id} THEN None ELSE nodes[y]
    BY <2>1, Zenon DEF Shape, DirectoryTypeOK, RegistryTypeOK
  <2>8. \A y \in {id} : Live(y)
    BY <1>5 DEF Deregister
  <2> QED
    BY <2>6, <2>7, <2>8, BackboneGone, Zenon
<1> QED
  BY <1>3, <1>4, <1>5, Zenon DEF NodeStep

\* Key rotation changes no membership.
LEMMA BackboneRotate ==
  ASSUME Shape, BackboneInv, NEW r \in Rotators, RotateStep(r)
  PROVE  BackboneInv'
<1>1. CASE UNCHANGED <<nodes, networks>>
  BY <1>1, BackboneKept, Zenon DEF Live
<1>2. CASE RotateUpdate(r) /\ ~UNCHANGED nodes
  <2> DEFINE id == rots[r].id
             node == [nodes[id] EXCEPT !.PublicKey = rots[r].new, !.stale = FALSE]
  <2>1. /\ id \in NodeIDs /\ rots[r] \in Rotation /\ nodes[id] \in NodeInfo
        /\ nodes' = [nodes EXCEPT ![id] = node] /\ networks' = networks
    BY <1>2, Zenon DEF RotateUpdate, Shape, DirectoryTypeOK, RegistryTypeOK, OrNone,
       Rotation, Live, membershipVars
  <2>2. node \in NodeInfo /\ node.Networks = nodes[id].Networks
    BY <2>1, Zenon DEF NodeInfo, Rotation
  <2> HIDE DEF node
  <2>3. nodes'[id] = node /\ \A y \in NodeIDs \ {id} : nodes'[y] = nodes[y]
    BY <2>1 DEF Shape, DirectoryTypeOK, RegistryTypeOK
  <2> QED
    BY <2>1, <2>2, <2>3, NoneFacts, BackboneKept, Zenon DEF Live
<1> QED
  BY <1>1, <1>2 DEF RotateStep, RotateVerify, RotateUpdate, OnKeyRotated, RotateRecord,
     registryVars, directoryVars, membershipVars

\* The reaper takes the nodes it deletes out of the backbone.
LEMMA BackboneReap ==
  ASSUME Shape, Shape', BackboneInv, ReapStep
  PROVE  BackboneInv'
<1>0. 0 \in NetIDs
  BY ZeroNet, Zenon
<1>1. CASE ReapSnapshot \/ ReapScan \/ ReapFinish
  BY <1>1, BackboneKept, Zenon DEF ReapSnapshot, ReapScan, ReapFinish, registryVars,
     directoryVars, membershipVars, Live
<1>2. CASE ReapDelete
  <2> DEFINE batch == FirstInScan(reap.cands, ReapBatch)
             gone == {id \in batch : Live(id) /\ nodes[id].stale}
             mem == [id \in NodeIDs |-> IF id \in gone
                                        THEN DropMember(networks[0].Members, id)[id]
                                        ELSE networks[0].Members[id]]
  <2>1. /\ networks' = [networks EXCEPT ![0].Members = mem]
        /\ nodes' = [id \in NodeIDs |-> IF id \in gone THEN None ELSE nodes[id]]
    BY <1>2 DEF ReapDelete
  <2>2. batch \in SUBSET NodeIDs
    BY <1>2, Zenon DEF FirstInScan, Shape, DirectoryTypeOK,
       Reaper, ReapDelete
  <2> HIDE DEF batch
  <2>3. gone \in SUBSET NodeIDs /\ \A id \in gone : Live(id)
    BY <2>2, Zenon
  <2> HIDE DEF gone
  <2>4. \A id \in NodeIDs : mem[id] = IF id \in gone
                                     THEN DropMember(networks[0].Members, id)[id]
                                     ELSE networks[0].Members[id]
    OBVIOUS
  <2> HIDE DEF mem
  <2>5. 0 \in NetIDs /\ networks[0] \in NetworkInfo
    <3>1. networks \in [NetIDs -> OrNone(NetworkInfo)] /\ networks[0] # None
      BY DEF Shape, DirectoryTypeOK, RegistryTypeOK
    <3> QED
      BY <1>0, <3>1, Zenon DEF OrNone
  <2>6. networks'[0].Members = mem
    BY <2>1, <2>5 DEF Shape, DirectoryTypeOK, RegistryTypeOK, NetworkInfo
  <2> QED
    BY <2>1, <2>3, <2>4, <2>6, BackboneGone, Zenon
<1> QED
  BY <1>1, <1>2 DEF ReapStep

-----------------------------------------------------------------------------
(* Types *)

\* A server started without a snapshot satisfies Shape.
LEMMA ShapeInit == DirectoryInit => Shape
<1> SUFFICES ASSUME DirectoryInit PROVE Shape
  OBVIOUS
<1> USE RegistryAssumption DEF DirectoryInit, RegistryInit
<1>1. RegistryTypeOK
  <2>1. networks \in [NetIDs -> OrNone(NetworkInfo)]
    BY DEF OrNone, NetIDs, NetworkInfo, Backbone, NoMembers, NoRoles, JoinRules
  <2>2. nextNet \in NetIDs /\ nextNode \in 0 .. MaxNodeID
    BY DEF NetIDs
  <2>3. wal \in Seq(Delta)
    OBVIOUS
  <2> QED
    BY <2>1, <2>2, <2>3, Zenon DEF RegistryTypeOK, OrNone
<1>2. DirectoryTypeOK
  <2>1. reap \in Reaper
    BY DEF IdleReaper, Reaper, NoHostnames, OrNone
  <2> QED
    BY <1>1, <2>1 DEF DirectoryTypeOK, OrNone
<1>3. FastLive
  BY DEF FastLive
<1>4. networks[0] # None
  <2>1. 0 \in NetIDs
    BY DEF NetIDs
  <2>2. networks[0] = Backbone /\ Backbone \in NetworkInfo
    BY <2>1, Zenon DEF Backbone, NetworkInfo, NoMembers, NoRoles, JoinRules, OrNone
  <2> QED
    BY <2>2, NoneFacts
<1> QED
  BY <1>2, <1>3, <1>4 DEF Shape

\* Decoding a register request keeps Shape.
LEMMA ShapeRegisterBegin ==
  ASSUME Shape, NEW c \in Clients, NEW key \in Keys, NEW owner \in OrNone(Owners),
         NEW hostname \in OrNone(Hostnames), NEW sig \in SigChoices,
         RegisterBegin(c, key, owner, hostname, sig)
  PROVE  Shape'
<1> DEFINE req == [pc |-> "lookup", PublicKey |-> key, Owner |-> owner,
                   Hostname |-> hostname, sigVerified |-> sig, fpNodeID |-> None,
                   fpOwner |-> None, fpHostname |-> None]
<1>1. req \in Request
  BY DirectoryAssumption DEF Request, OrNone
<1>2. regs' = [regs EXCEPT ![c] = req] /\ UNCHANGED <<registryVars, rots, reaperVars>>
  BY DEF RegisterBegin
<1>3. regs' \in [Clients -> OrNone(Request)]
  BY <1>1, <1>2, Zenon DEF Shape, DirectoryTypeOK, OrNone
<1> QED
  BY <1>1, <1>2, <1>3, Zenon DEF Shape, DirectoryTypeOK, RegistryTypeOK, FastLive, Live,
     registryVars, directoryVars, membershipVars, reaperVars

\* The fast path's lookup keeps Shape: it holds only a node it found live.
LEMMA ShapeRegisterLookup ==
  ASSUME Shape, NEW c \in Clients, RegisterLookup(c)
  PROVE  Shape'
<1>1. regs[c] \in Request
  BY DEF Shape, DirectoryTypeOK, OrNone, RegisterLookup
<1>2. UNCHANGED <<registryVars, rots, reaperVars>>
  BY Zenon DEF RegisterLookup
<1>3. regs' \in [Clients -> OrNone(Request)] /\ FastLive'
  <2>1. /\ regs \in [Clients -> OrNone(Request)] /\ pubKeyIdx \in [Keys -> OrNone(NodeIDs)]
        /\ FastLive /\ nodes' = nodes
    BY <1>2 DEF Shape, DirectoryTypeOK, RegistryTypeOK, registryVars, directoryVars
  <2>2. CASE regs' = [regs EXCEPT ![c].pc = "slow"]
    <3>1. [regs[c] EXCEPT !.pc = "slow"] \in Request
      BY <1>1, Zenon DEF Request
    <3> QED
      BY <2>1, <2>2, <3>1 DEF OrNone, FastLive, Live
  <2>3. CASE /\ KnownLive(regs[c].PublicKey)
             /\ regs' = [regs EXCEPT ![c].pc = "fast",
                                     ![c].fpNodeID = pubKeyIdx[regs[c].PublicKey]]
    <3>1. /\ pubKeyIdx[regs[c].PublicKey] \in NodeIDs /\ Live(pubKeyIdx[regs[c].PublicKey])
      BY <1>1, <2>1, <2>3 DEF KnownLive, Known, OrNone, Request
    <3>2. [regs[c] EXCEPT !.pc = "fast", !.fpNodeID = pubKeyIdx[regs[c].PublicKey]] \in Request
      BY <1>1, <3>1, Zenon DEF Request, OrNone
    <3> QED
      BY <2>1, <2>3, <3>1, <3>2, NoneFacts DEF OrNone, FastLive, Live
  <2> QED
    BY <2>2, <2>3, Zenon DEF RegisterLookup
<1> QED
  BY <1>1, <1>2, <1>3, Zenon DEF Shape, DirectoryTypeOK, RegistryTypeOK, Live, registryVars,
     directoryVars, membershipVars, reaperVars

\* The fast path keeps Shape: the node it holds is still live.
LEMMA ShapeRegisterFast ==
  ASSUME Shape, NEW c \in Clients, RegisterFast(c)
  PROVE  Shape'
<1> DEFINE req == regs[c]
           id == req.fpNodeID
<1>1. req \in Request /\ id \in NodeIDs /\ nodes[id] \in NodeInfo
  BY Zenon DEF Shape, DirectoryTypeOK, RegistryTypeOK, OrNone, RegisterFast, FastLive, Live,
     Request
<1>2. UNCHANGED <<pubKeyIdx, ownerIdx, hostnameIdx, nextNode, membershipVars, wal,
                 rots, reaperVars>>
  BY DEF RegisterFast
<1>3. CASE NeedsIndex(req, nodes[id].Owner, nodes[id].Hostname)
  <2>1. regs' = [regs EXCEPT ![c].pc = "slow"] /\ UNCHANGED <<nodes, saveCh>>
    BY <1>3, Zenon DEF RegisterFast
  <2>2. regs' \in [Clients -> OrNone(Request)] /\ FastLive'
    BY <1>1, <2>1, Zenon DEF Shape, DirectoryTypeOK, OrNone, Request, FastLive, Live
  <2> QED
    BY <1>2, <2>1, <2>2, Zenon DEF Shape, DirectoryTypeOK, RegistryTypeOK, membershipVars,
       reaperVars
<1>4. CASE ~NeedsIndex(req, nodes[id].Owner, nodes[id].Hostname)
  <2>1. /\ nodes' = [nodes EXCEPT ![id].stale = FALSE,
                                  ![id].SigVerified = @ \/ req.sigVerified]
        /\ regs' = [regs EXCEPT ![c] = None]
        /\ saveCh' = TRUE
    BY <1>4 DEF RegisterFast, Save
  <2>2. nodes' \in [NodeIDs -> OrNone(NodeInfo)] /\ nodes'[id] \in NodeInfo
    BY <1>1, <2>1, ZenonT(30) DEF Shape, DirectoryTypeOK, RegistryTypeOK, OrNone,
       NodeInfo, Request
  <2>3. regs' \in [Clients -> OrNone(Request)]
    BY <2>1 DEF Shape, DirectoryTypeOK, OrNone
  <2>4. \A x \in NodeIDs : Live(x) => Live(x)'
    BY <1>1, <2>1, <2>2, NoneFacts, Zenon DEF Shape, DirectoryTypeOK,
       RegistryTypeOK, Live
  <2>5. FastLive'
    BY <2>1, <2>4, Zenon DEF Shape, DirectoryTypeOK, OrNone, FastLive, Request
  <2> QED
    BY <1>2, <2>1, <2>2, <2>3, <2>5, Zenon DEF Shape, DirectoryTypeOK, RegistryTypeOK,
       membershipVars, reaperVars
<1> QED
  BY <1>3, <1>4, Zenon

\* The fast path on a node that has left the map keeps Shape.
LEMMA ShapeRegisterOrphan ==
  ASSUME Shape, NEW c \in Clients, RegisterOrphan(c)
  PROVE  Shape'
<1>1. regs[c] \in Request
  BY DEF Shape, DirectoryTypeOK, OrNone, RegisterOrphan
<1>2. /\ UNCHANGED <<directoryVars, membershipVars, wal, rots, reaperVars>>
      /\ saveCh' \in {saveCh, TRUE}
      /\ \/ regs' = [regs EXCEPT ![c].pc = "slow"]
         \/ regs' = [regs EXCEPT ![c] = None]
  BY Zenon DEF RegisterOrphan, Save
<1>3. regs' \in [Clients -> OrNone(Request)] /\ FastLive'
  BY <1>1, <1>2 DEF Shape, DirectoryTypeOK, OrNone, Request, FastLive, Live, directoryVars
<1> QED
  BY <1>2, <1>3, Zenon DEF Shape, DirectoryTypeOK, RegistryTypeOK, directoryVars,
     membershipVars, reaperVars

\* AddNodeToBackbone keeps the types of the networks and the backbone present.
LEMMA BackboneType ==
  ASSUME Shape, NEW id \in NodeIDs, AddNodeToBackbone(id)
  PROVE  networks' \in [NetIDs -> OrNone(NetworkInfo)] /\ networks'[0] # None
<1>1. 0 \in NetIDs
  BY ZeroNet, Zenon
<1>2. networks[0] \in NetworkInfo
  BY <1>1 DEF Shape, DirectoryTypeOK, RegistryTypeOK, OrNone
<1>3. CASE IsMember(0, id)
  BY <1>3, Zenon DEF AddNodeToBackbone, Shape, DirectoryTypeOK, RegistryTypeOK
<1>4. CASE ~IsMember(0, id)
  <2> DEFINE net == [networks[0] EXCEPT !.Members[id] = @ + 1]
  <2>1. networks' = [networks EXCEPT ![0] = net]
    BY <1>4 DEF AddNodeToBackbone
  <2>2. net \in NetworkInfo
    BY <1>2 DEF NetworkInfo
  <2> QED
    BY <1>1, <2>1, <2>2, NoneFacts, Zenon DEF Shape, DirectoryTypeOK, RegistryTypeOK, OrNone
<1> QED
  BY <1>3, <1>4

\* Answering a register request while no node leaves the directory.
LEMMA RequestDone ==
  ASSUME Shape, NEW c \in Clients, regs' = [regs EXCEPT ![c] = None],
         \A x \in NodeIDs : Live(x) => Live(x)'
  PROVE  regs' \in [Clients -> OrNone(Request)] /\ FastLive'
BY DEF Shape, DirectoryTypeOK, OrNone, FastLive, Request

\* A re-registration on the slow path keeps Shape.
LEMMA ShapeRegisterExisting ==
  ASSUME Shape, NEW c \in Clients, RegisterExisting(c)
  PROVE  Shape'
<1> DEFINE req == regs[c]
           id == pubKeyIdx[req.PublicKey]
           claims == req.Owner # None /\ nodes[id].Owner = None
           name == NewHostname(req.Hostname, id, nodes[id].Hostname)
           node == [nodes[id] EXCEPT !.stale = FALSE,
                       !.SigVerified = @ \/ req.sigVerified,
                       !.Owner = IF claims THEN req.Owner ELSE @,
                       !.Hostname = name]
<1>1. req \in Request /\ id \in NodeIDs /\ nodes[id] \in NodeInfo
  BY ZenonT(30) DEF Shape, DirectoryTypeOK, RegistryTypeOK, OrNone,
     RegisterExisting, KnownLive, Known, Live, Request
<1>2. /\ nodes' = [nodes EXCEPT ![id] = node]
      /\ ownerIdx' = IF claims THEN [ownerIdx EXCEPT ![req.Owner] = id] ELSE ownerIdx
      /\ setNodeHostname(req.Hostname, id, nodes[id].Hostname)
      /\ regs' = [regs EXCEPT ![c] = None] /\ saveCh' = TRUE
      /\ UNCHANGED <<pubKeyIdx, nextNode, membershipVars, wal, rots, reaperVars>>
  BY Zenon DEF RegisterExisting, Save
<1>3. /\ name \in OrNone(Hostnames)
      /\ hostnameIdx' \in [Hostnames -> OrNone(NodeIDs)]
  BY <1>1, <1>2, HostnameType DEF Request, NodeInfo
<1> HIDE DEF name
<1>4. node \in NodeInfo
  BY <1>1, <1>3, ZenonT(30) DEF NodeInfo, Request, OrNone
<1> HIDE DEF node
<1>5. nodes' \in [NodeIDs -> OrNone(NodeInfo)] /\ \A x \in NodeIDs : Live(x) => Live(x)'
  BY <1>1, <1>2, <1>4, NoneFacts DEF Shape, DirectoryTypeOK, RegistryTypeOK, OrNone, Live
<1>6. ownerIdx' \in [Owners -> OrNone(NodeIDs)]
  BY <1>1, <1>2, Zenon DEF Shape, DirectoryTypeOK, RegistryTypeOK, OrNone, Request
<1> QED
  BY <1>2, <1>3, <1>5, <1>6, RequestDone, Zenon DEF Shape, DirectoryTypeOK,
     RegistryTypeOK, membershipVars, reaperVars

\* A reclaim by key keeps Shape.
LEMMA ShapeRegisterReclaim ==
  ASSUME Shape, NEW c \in Clients, RegisterReclaim(c)
  PROVE  Shape'
<1> DEFINE req == regs[c]
           id == pubKeyIdx[req.PublicKey]
           nets == {0} \cup ScanNetworkMemberships(id)
           node == FreshNode(req, id, nets)
<1>1. req \in Request /\ id \in NodeIDs
  BY Zenon DEF Shape, DirectoryTypeOK, RegistryTypeOK, OrNone, RegisterReclaim, Known, Request
<1>2. /\ nodes' = [nodes EXCEPT ![id] = node]
      /\ ownerIdx' = Index(ownerIdx, req.Owner, id)
      /\ setNodeHostname(req.Hostname, id, None)
      /\ AddNodeToBackbone(id)
      /\ regs' = [regs EXCEPT ![c] = None] /\ saveCh' = TRUE
      /\ UNCHANGED <<pubKeyIdx, nextNode, nextNet, inviteInbox, wal, rots, reaperVars>>
  BY DEF RegisterReclaim, Save
<1>3. nets \in SUBSET NetIDs
  BY RegistryAssumption DEF ScanNetworkMemberships, NetIDs
<1> HIDE DEF nets
<1>4. node \in NodeInfo
  BY <1>1, <1>3, FreshNodeType
<1> HIDE DEF node
<1>5. nodes' \in [NodeIDs -> OrNone(NodeInfo)] /\ \A x \in NodeIDs : Live(x) => Live(x)'
  BY <1>1, <1>2, <1>4, NodeStored, ZenonT(30)
<1>6. hostnameIdx' \in [Hostnames -> OrNone(NodeIDs)]
  BY <1>1, <1>2, HostnameType, Zenon DEF Request, OrNone
<1>7. ownerIdx' \in [Owners -> OrNone(NodeIDs)]
  BY <1>1, <1>2, Zenon DEF Shape, DirectoryTypeOK, RegistryTypeOK, OrNone, Request, Index
<1> QED
  BY <1>1, <1>2, <1>5, <1>6, <1>7, RequestDone, BackboneType, ZenonT(30) DEF
     Shape, DirectoryTypeOK, RegistryTypeOK, reaperVars

\* A reclaim by owner keeps Shape.
LEMMA ShapeRegisterOwnerReclaim ==
  ASSUME Shape, NEW c \in Clients, RegisterOwnerReclaim(c)
  PROVE  Shape'
<1> DEFINE req == regs[c]
           id == ownerIdx[req.Owner]
           node == FreshNode(req, id, {0})
<1>1. req \in Request /\ id \in NodeIDs
  BY ZenonT(30) DEF Shape, DirectoryTypeOK, RegistryTypeOK, OrNone,
     RegisterOwnerReclaim, OwnerKnown, Request
<1>2. /\ nodes' = [nodes EXCEPT ![id] = node]
      /\ pubKeyIdx' = [pubKeyIdx EXCEPT ![req.PublicKey] = id]
      /\ setNodeHostname(req.Hostname, id, None)
      /\ AddNodeToBackbone(id)
      /\ regs' = [regs EXCEPT ![c] = None] /\ saveCh' = TRUE
      /\ UNCHANGED <<ownerIdx, nextNode, nextNet, inviteInbox, wal, rots, reaperVars>>
  BY ZenonT(30) DEF RegisterOwnerReclaim, Save
<1>4. node \in NodeInfo
  <2>1. {0} \in SUBSET NetIDs
    BY RegistryAssumption DEF NetIDs
  <2> QED
    BY <1>1, <2>1, FreshNodeType, Zenon
<1> HIDE DEF node
<1>5. nodes' \in [NodeIDs -> OrNone(NodeInfo)] /\ \A x \in NodeIDs : Live(x) => Live(x)'
  BY <1>1, <1>2, <1>4, NodeStored, ZenonT(30)
<1>6. hostnameIdx' \in [Hostnames -> OrNone(NodeIDs)]
  BY <1>1, <1>2, HostnameType, ZenonT(30) DEF Request, OrNone
<1>7. pubKeyIdx' \in [Keys -> OrNone(NodeIDs)]
  BY <1>1, <1>2, Zenon DEF Shape, DirectoryTypeOK, RegistryTypeOK, OrNone, Request
<1> QED
  BY <1>1, <1>2, <1>5, <1>6, <1>7, RequestDone, BackboneType, ZenonT(30) DEF
     Shape, DirectoryTypeOK, RegistryTypeOK, reaperVars

\* Refused register requests, whose only effect is the answer.
LEMMA ShapeRegisterRefused ==
  ASSUME Shape, NEW c \in Clients, RegisterOwnerLive(c) \/ RegisterRefused(c)
  PROVE  Shape'
<1>1. regs' = [regs EXCEPT ![c] = None] /\ UNCHANGED <<registryVars, rots, reaperVars>>
  BY ZenonT(30) DEF RegisterOwnerLive, RegisterRefused
<1>2. \A x \in NodeIDs : Live(x) => Live(x)'
  BY <1>1 DEF Live, registryVars, directoryVars
<1> QED
  BY <1>1, <1>2, RequestDone, ZenonT(30) DEF Shape, DirectoryTypeOK,
     RegistryTypeOK, registryVars, directoryVars, membershipVars, reaperVars

\* A new registration keeps Shape: the counter it takes the id from wraps to 0.
LEMMA ShapeRegisterNew ==
  ASSUME Shape, NEW c \in Clients, RegisterNew(c)
  PROVE  Shape'
<1> DEFINE req == regs[c]
           id == nextNode
           node == FreshNode(req, id, {0})
           delta == [type |-> "register", NodeID |-> id, PublicKey |-> req.PublicKey,
                     Owner |-> req.Owner, Hostname |-> node.Hostname]
<1>1. req \in Request /\ id \in NodeIDs
  <2>1. regs[c] # None /\ nextNode # 0
    BY ZenonT(30) DEF RegisterNew
  <2>2. regs \in [Clients -> OrNone(Request)] /\ nextNode \in 0 .. MaxNodeID
    BY Zenon DEF Shape, DirectoryTypeOK, RegistryTypeOK
  <2>3. req \in Request
    BY <2>1, <2>2 DEF OrNone
  <2> QED
    BY <2>1, <2>2, <2>3, RegistryAssumption DEF NodeIDs
<1>2. /\ nextNode' = NextID(nextNode, MaxNodeID)
      /\ nodes' = [nodes EXCEPT ![id] = node]
      /\ pubKeyIdx' = [pubKeyIdx EXCEPT ![req.PublicKey] = id]
      /\ ownerIdx' = Index(ownerIdx, req.Owner, id)
      /\ setNodeHostname(req.Hostname, id, None)
      /\ AddNodeToBackbone(id)
      /\ RecordWAL(delta)
      /\ regs' = [regs EXCEPT ![c] = None] /\ saveCh' = TRUE
      /\ UNCHANGED <<nextNet, inviteInbox, rots, reaperVars>>
  BY ZenonT(30) DEF RegisterNew, Save
<1>3. node \in NodeInfo
  <2>1. {0} \in SUBSET NetIDs
    BY RegistryAssumption DEF NetIDs
  <2> QED
    BY <1>1, <2>1, FreshNodeType, Zenon
<1> HIDE DEF node
<1>4. wal' \in Seq(Delta)
  <2>1. delta \in RegisterDelta
    BY <1>1, <1>3, Zenon DEF RegisterDelta, Request, NodeInfo
  <2> QED
    BY <1>2, <2>1, WALType, ZenonT(30) DEF Delta
<1>5. nodes' \in [NodeIDs -> OrNone(NodeInfo)] /\ \A x \in NodeIDs : Live(x) => Live(x)'
  BY <1>1, <1>2, <1>3, NodeStored, ZenonT(30)
<1>6. hostnameIdx' \in [Hostnames -> OrNone(NodeIDs)]
  BY <1>1, <1>2, HostnameType, ZenonT(30) DEF Request, OrNone
<1>7. /\ pubKeyIdx' \in [Keys -> OrNone(NodeIDs)]
      /\ ownerIdx' \in [Owners -> OrNone(NodeIDs)]
  BY <1>1, <1>2, ZenonT(30) DEF Shape, DirectoryTypeOK, RegistryTypeOK, OrNone, Request,
     Index
<1>8. nextNode' \in 0 .. MaxNodeID
  <2>1. nextNode \in NodeIDs /\ nextNode' = NextID(nextNode, MaxNodeID)
    BY <1>1, <1>2, Zenon
  <2> HIDE DEF id, req, delta
  <2> QED
    BY ONLY <2>1, RegistryAssumption DEF NextID, NodeIDs
<1> QED
  BY <1>1, <1>2, <1>4, <1>5, <1>6, <1>7, <1>8, RequestDone, BackboneType, Zenon,
     ZenonT(30) DEF Shape, DirectoryTypeOK, RegistryTypeOK, reaperVars

\* set_hostname keeps Shape.
LEMMA ShapeSetHostname ==
  ASSUME Shape, NEW id \in NodeIDs, NEW hostname \in OrNone(Hostnames),
         SetHostname(id, hostname)
  PROVE  Shape'
<1> DEFINE node == [nodes[id] EXCEPT !.Hostname = hostname]
<1>1. nodes[id] \in NodeInfo
  BY DEF Shape, DirectoryTypeOK, RegistryTypeOK, OrNone, SetHostname, Live
<1>2. /\ nodes' = [nodes EXCEPT ![id] = node]
      /\ hostnameIdx' = Index(Index(hostnameIdx, nodes[id].Hostname, None), hostname, id)
      /\ saveCh' = TRUE
      /\ UNCHANGED <<pubKeyIdx, ownerIdx, nextNode, membershipVars, wal, requestVars,
                     reaperVars>>
  BY DEF SetHostname, Save
<1>3. node \in NodeInfo
  BY <1>1 DEF NodeInfo
<1> HIDE DEF node
<1>4. nodes' \in [NodeIDs -> OrNone(NodeInfo)] /\ \A x \in NodeIDs : Live(x) => Live(x)'
  BY <1>2, <1>3, NodeStored, ZenonT(30)
<1>5. hostnameIdx' \in [Hostnames -> OrNone(NodeIDs)]
  BY <1>1, <1>2, ZenonT(30) DEF Shape, DirectoryTypeOK, RegistryTypeOK, OrNone,
     NodeInfo, Index
<1> QED
  BY <1>2, <1>4, <1>5, RequestsKept, Zenon DEF Shape, DirectoryTypeOK, RegistryTypeOK,
     membershipVars, requestVars, reaperVars

\* A heartbeat, and time passing a node by, keep Shape.
LEMMA ShapeTouch ==
  ASSUME Shape, NEW id \in NodeIDs, Heartbeat(id) \/ GoStale(id)
  PROVE  Shape'
<1>1. nodes[id] \in NodeInfo
  BY DEF Shape, DirectoryTypeOK, RegistryTypeOK, OrNone, Heartbeat, GoStale, Live
<1>2. PICK b \in BOOLEAN : nodes' = [nodes EXCEPT ![id].stale = b]
  BY Zenon DEF Heartbeat, GoStale
<1>3. UNCHANGED <<pubKeyIdx, ownerIdx, hostnameIdx, nextNode, membershipVars, wal,
                 saveCh, requestVars, reaperVars>>
  BY DEF Heartbeat, GoStale
<1> DEFINE node == [nodes[id] EXCEPT !.stale = b]
<1>4. node \in NodeInfo
  BY <1>1 DEF NodeInfo
<1>5. nodes' = [nodes EXCEPT ![id] = node]
  BY <1>2
<1> HIDE DEF node
<1>6. nodes' \in [NodeIDs -> OrNone(NodeInfo)] /\ \A x \in NodeIDs : Live(x) => Live(x)'
  BY <1>4, <1>5, NodeStored, ZenonT(30)
<1> QED
  BY <1>3, <1>6, RequestsKept, Zenon DEF Shape, DirectoryTypeOK, RegistryTypeOK,
     membershipVars, requestVars, reaperVars

\* Deleting nodes turns the requests that point to them into orphans.
LEMMA OrphansType ==
  ASSUME Shape, NEW gone \in SUBSET NodeIDs, OrphanPointers(gone),
         \A x \in NodeIDs : Live(x) /\ x \notin gone => Live(x)'
  PROVE  regs' \in [Clients -> OrNone(Request)] /\ FastLive'
<1>1. ASSUME NEW c \in Clients
      PROVE  /\ regs'[c] \in OrNone(Request)
             /\ regs'[c] # None /\ regs'[c].pc = "fast" =>
                  regs'[c].fpNodeID # None /\ nodes'[regs'[c].fpNodeID] # None
  <2> DEFINE hit == regs[c] # None /\ regs[c].pc = "fast" /\ regs[c].fpNodeID \in gone
             id == regs[c].fpNodeID
             req == [regs[c] EXCEPT !.pc = "orphan", !.fpOwner = nodes[id].Owner,
                                    !.fpHostname = nodes[id].Hostname]
  <2>1. regs'[c] = IF hit THEN req ELSE regs[c]
    BY Zenon DEF OrphanPointers
  <2>2. CASE hit
    <3>1. regs[c] \in Request /\ nodes[id] \in NodeInfo
      BY <2>2, Zenon DEF Shape, DirectoryTypeOK, RegistryTypeOK, OrNone, FastLive, Live,
         Request
    <3>2. req \in Request /\ req.pc = "orphan"
      BY <3>1, Zenon DEF Request, NodeInfo
    <3> QED
      BY <2>1, <2>2, <3>2, Zenon DEF OrNone
  <2>3. CASE ~hit
    BY <2>1, <2>3, Zenon DEF Shape, DirectoryTypeOK, OrNone, FastLive, Request, Live
  <2> QED
    BY <2>2, <2>3, Zenon
<1>2. DOMAIN regs' = Clients /\ regs' = [c \in Clients |-> regs'[c]]
  BY Zenon DEF OrphanPointers
<1> QED
  BY <1>1, <1>2, ZenonT(30) DEF FastLive, Live

\* RemoveFromNetworks keeps the types of the networks and the backbone present.
LEMMA RemoveType ==
  ASSUME Shape, NEW id \in NodeIDs, NEW nets \in SUBSET NetIDs,
         RemoveFromNetworks(id, nets)
  PROVE  networks' \in [NetIDs -> OrNone(NetworkInfo)] /\ networks'[0] # None
<1>1. 0 \in NetIDs
  BY ZeroNet, Zenon
<1>2. ASSUME NEW n \in NetIDs
      PROVE  /\ networks'[n] \in OrNone(NetworkInfo)
             /\ networks[n] # None => networks'[n] # None
  <2> DEFINE mem == DropMember(networks[n].Members, id)
             net == [networks[n] EXCEPT !.Members = mem, !.MemberRoles[id] = None]
  <2>1. CASE n \in nets /\ networks[n] # None
    <3>1. networks[n] \in NetworkInfo
      BY <2>1, Zenon DEF Shape, DirectoryTypeOK, RegistryTypeOK, OrNone
    <3>2. mem \in [NodeIDs -> Nat]
      BY <3>1 DEF NetworkInfo, DropMember
    <3>3. networks'[n] = net
      BY <2>1, Zenon DEF RemoveFromNetworks, WithoutMember
    <3> HIDE DEF mem
    <3>4. net \in NetworkInfo
      BY <3>1, <3>2, Zenon DEF NetworkInfo, OrNone
    <3> QED
      BY <3>3, <3>4, NoneFacts, Zenon DEF OrNone
  <2>2. CASE ~(n \in nets /\ networks[n] # None)
    BY <2>2, Zenon DEF RemoveFromNetworks, WithoutMember, Shape, DirectoryTypeOK, RegistryTypeOK
  <2> QED
    BY <2>1, <2>2
<1>3. DOMAIN networks' = NetIDs /\ networks' = [n \in NetIDs |-> networks'[n]]
  BY ZenonT(30) DEF RemoveFromNetworks, WithoutMember
<1> QED
  BY <1>1, <1>2, <1>3 DEF Shape

\* deregister keeps Shape: requests that hold the node become orphans.
LEMMA ShapeDeregister ==
  ASSUME Shape, NEW id \in NodeIDs, Deregister(id)
  PROVE  Shape'
<1>1. nodes[id] \in NodeInfo
  BY ZenonT(30) DEF Shape, DirectoryTypeOK, RegistryTypeOK, OrNone, Deregister, Live
<1>2. networks' \in [NetIDs -> OrNone(NetworkInfo)] /\ networks'[0] # None
  BY <1>1, RemoveType, ZenonT(30) DEF Deregister, NodeInfo
<1>3. inviteInbox' \in [NodeIDs -> SUBSET NetworkInvite]
  BY ZenonT(30) DEF Deregister, ClearInviteInbox, Shape, DirectoryTypeOK, RegistryTypeOK
<1>4. hostnameIdx' \in [Hostnames -> OrNone(NodeIDs)]
  BY <1>1, ZenonT(30) DEF Deregister, Shape, DirectoryTypeOK, RegistryTypeOK, OrNone,
     NodeInfo, Index
<1>5. /\ nodes' \in [NodeIDs -> OrNone(NodeInfo)]
      /\ \A x \in NodeIDs : Live(x) /\ x \notin {id} => Live(x)'
  BY ZenonT(30) DEF Deregister, Shape, DirectoryTypeOK, RegistryTypeOK, OrNone, Live
<1>6. regs' \in [Clients -> OrNone(Request)] /\ FastLive'
  BY <1>5, OrphansType, Zenon DEF Deregister
<1>7. wal' \in Seq(Delta)
  <2>1. [type |-> "deregister", NodeID |-> id] \in DeregisterDelta
    BY Zenon DEF DeregisterDelta
  <2> QED
    BY <2>1, WALType, Zenon DEF Deregister, Delta
<1>8. saveCh' = TRUE /\ UNCHANGED <<pubKeyIdx, ownerIdx, nextNode, nextNet, rots, reaperVars>>
  BY DEF Deregister, Save
<1> QED
  BY <1>2, <1>3, <1>4, <1>5, <1>6, <1>7, <1>8, ZenonT(30) DEF Shape, DirectoryTypeOK,
     RegistryTypeOK, reaperVars

\* The first phases of rotate_key keep Shape.
LEMMA ShapeRotateVerify ==
  ASSUME Shape, NEW r \in Rotators, NEW id \in NodeIDs, NEW new \in Keys,
         RotateVerify(r, id, new)
  PROVE  Shape'
<1> DEFINE rot == [pc |-> "verified", id |-> id, old |-> nodes[id].PublicKey, new |-> new]
<1>1. rot \in Rotation
  BY ZenonT(30) DEF Shape, DirectoryTypeOK, RegistryTypeOK, OrNone, RotateVerify, Live,
     NodeInfo, Rotation
<1>2. rots' = [rots EXCEPT ![r] = rot] /\ UNCHANGED <<registryVars, regs, reaperVars>>
  BY DEF RotateVerify
<1>3. rots' \in [Rotators -> OrNone(Rotation)]
  BY <1>1, <1>2, ZenonT(30) DEF Shape, DirectoryTypeOK, OrNone
<1>4. \A x \in NodeIDs : Live(x) => Live(x)'
  BY <1>2, ZenonT(30) DEF Live, registryVars, directoryVars
<1> QED
  BY <1>2, <1>3, <1>4, RequestsKept, ZenonT(30) DEF Shape, DirectoryTypeOK,
     RegistryTypeOK, registryVars, directoryVars, membershipVars, reaperVars

\* UpdateNodeKey keeps Shape.
LEMMA ShapeRotateUpdate ==
  ASSUME Shape, NEW r \in Rotators, RotateUpdate(r)
  PROVE  Shape'
<1> DEFINE rot == rots[r]
           id == rot.id
           ok == Live(id) /\ nodes[id].PublicKey = rot.old
           node == [nodes[id] EXCEPT !.PublicKey = rot.new, !.stale = FALSE]
<1>1. rot \in Rotation /\ id \in NodeIDs
  BY Zenon DEF Shape, DirectoryTypeOK, OrNone, RotateUpdate, Rotation
<1>2. UNCHANGED <<pubKeyIdx, ownerIdx, hostnameIdx, nextNode, membershipVars, wal,
                 saveCh, regs, reaperVars>>
  BY DEF RotateUpdate
<1>3. rots' \in [Rotators -> OrNone(Rotation)]
  BY <1>1 DEF RotateUpdate, Shape, DirectoryTypeOK, OrNone, Rotation
<1>4. nodes' \in [NodeIDs -> OrNone(NodeInfo)] /\ \A x \in NodeIDs : Live(x) => Live(x)'
  <2>1. CASE ok
    <3>1. nodes' = [nodes EXCEPT ![id] = node]
      BY <2>1, Zenon DEF RotateUpdate
    <3>2. node \in NodeInfo
      <4>1. nodes[id] \in NodeInfo
        BY <1>1, <2>1, Zenon DEF Shape, DirectoryTypeOK, RegistryTypeOK, OrNone, Live
      <4> QED
        BY <1>1, <4>1, ZenonT(30) DEF NodeInfo, Rotation
    <3> HIDE DEF node
    <3> QED
      BY <1>1, <3>1, <3>2, NodeStored, Zenon
  <2>2. CASE ~ok
    BY <2>2, Zenon DEF RotateUpdate, Shape, DirectoryTypeOK, RegistryTypeOK, Live
  <2> QED
    BY <2>1, <2>2
<1> QED
  BY <1>2, <1>3, <1>4, RequestsKept, Zenon DEF Shape, DirectoryTypeOK, RegistryTypeOK,
     membershipVars, reaperVars

\* OnKeyRotated keeps Shape.
LEMMA ShapeOnKeyRotated ==
  ASSUME Shape, NEW r \in Rotators, OnKeyRotated(r)
  PROVE  Shape'
<1>1. rots[r] \in Rotation
  BY Zenon DEF Shape, DirectoryTypeOK, OrNone, OnKeyRotated
<1>2. pubKeyIdx' \in [Keys -> OrNone(NodeIDs)] /\ rots' \in [Rotators -> OrNone(Rotation)]
  BY <1>1 DEF OnKeyRotated, Shape, DirectoryTypeOK, RegistryTypeOK, OrNone, Rotation
<1>3. UNCHANGED <<nodes, ownerIdx, hostnameIdx, nextNode, membershipVars, wal, saveCh,
                 regs, reaperVars>>
  BY DEF OnKeyRotated
<1>4. \A x \in NodeIDs : Live(x) => Live(x)'
  BY <1>3 DEF Live
<1> QED
  BY <1>2, <1>3, <1>4, RequestsKept, Zenon DEF Shape, DirectoryTypeOK,
     RegistryTypeOK, membershipVars, reaperVars

\* The last phase of rotate_key keeps Shape.
LEMMA ShapeRotateRecord ==
  ASSUME Shape, NEW r \in Rotators, RotateRecord(r)
  PROVE  Shape'
<1> DEFINE d == [type |-> "key_rotation", NodeID |-> rots[r].id,
                 NewPublicKey |-> rots[r].new]
<1>1. rots[r] \in Rotation
  BY ZenonT(30) DEF Shape, DirectoryTypeOK, OrNone, RotateRecord
<1>2. d \in Delta
  BY <1>1 DEF Delta, KeyRotationDelta, Rotation
<1> HIDE DEF d
<1>3. wal' \in Seq(Delta)
  BY <1>2, WALType, ZenonT(30) DEF RotateRecord, d
<1>4. /\ rots' = [rots EXCEPT ![r] = None] /\ saveCh' = TRUE
      /\ UNCHANGED <<directoryVars, membershipVars, regs, reaperVars>>
  BY DEF RotateRecord, Save
<1>5. rots' \in [Rotators -> OrNone(Rotation)]
  BY <1>4 DEF Shape, DirectoryTypeOK, OrNone
<1>6. \A x \in NodeIDs : Live(x) => Live(x)'
  BY <1>4 DEF Live, directoryVars
<1> QED
  BY <1>3, <1>4, <1>5, <1>6, RequestsKept, ZenonT(30) DEF Shape, DirectoryTypeOK,
     RegistryTypeOK, directoryVars, membershipVars, reaperVars

\* Phase 1 of the reaper keeps Shape.
LEMMA ShapeReapSnapshot ==
  ASSUME Shape, ReapSnapshot
  PROVE  Shape'
<1>1. UNCHANGED <<registryVars, requestVars>>
  BY DEF ReapSnapshot
<1>2. reap' \in Reaper /\ reapCursor' \in 0 .. MaxNodeID
  <2>1. LiveIDs \in SUBSET NodeIDs
    BY DEF LiveIDs
  <2>2. reapCursor' \in 0 .. MaxNodeID
    BY RegistryAssumption DEF ReapSnapshot, Shape, DirectoryTypeOK
  <2>3. reap' \in {reap, [reap EXCEPT !.pc = "scan", !.ids = LiveIDs]}
    BY DEF ReapSnapshot
  <2> QED
    BY <2>1, <2>2, <2>3, Zenon DEF Shape, DirectoryTypeOK, Reaper
<1>3. \A x \in NodeIDs : Live(x) => Live(x)'
  BY <1>1 DEF Live, registryVars, directoryVars
<1> QED
  BY <1>1, <1>2, <1>3, RequestsKept, Zenon DEF Shape, DirectoryTypeOK,
     RegistryTypeOK, registryVars, directoryVars, membershipVars, requestVars

\* Phase 2 keeps Shape: the next cursor is 0 or the successor of an id.
LEMMA ShapeReapScan ==
  ASSUME Shape, ReapScan
  PROVE  Shape'
<1> DEFINE chunk == FirstInScan(reap.ids, ReapChunk)
           cands == {id \in chunk : Live(id) /\ nodes[id].stale}
           names == [id \in NodeIDs |-> IF id \in cands THEN nodes[id].Hostname ELSE None]
<1>1. UNCHANGED <<registryVars, requestVars, reapCursor>>
  BY DEF ReapScan
<1>2. reap \in Reaper /\ chunk \in SUBSET NodeIDs
  BY Zenon DEF FirstInScan, Shape, DirectoryTypeOK, Reaper
<1>3. PICK last \in chunk :
        reap' = [reap EXCEPT !.pc = "delete", !.ids = {}, !.cands = cands,
                             !.hostname = names, !.next = NextCursor(chunk, last)]
  BY Zenon DEF ReapScan
<1>4. NextCursor(chunk, last) \in 0 .. MaxNodeID
  <2> HIDE DEF chunk
  <2>1. last \in NodeIDs
    BY <1>2
  <2> QED
    BY <2>1, RegistryAssumption DEF NextCursor, NextID, NodeIDs
<1>5. cands \in SUBSET NodeIDs
  BY <1>2, Zenon
<1> HIDE DEF chunk
<1>6. names \in [NodeIDs -> OrNone(Hostnames)]
  BY <1>2, Zenon DEF Shape, DirectoryTypeOK, RegistryTypeOK, OrNone, Live, NodeInfo
<1> HIDE DEF cands, names
<1> DEFINE cursor == NextCursor(chunk, last)
<1> HIDE DEF cursor
<1>7. reap' \in Reaper
  <2>1. reap' = [reap EXCEPT !.pc = "delete", !.ids = {}, !.cands = cands,
                             !.hostname = names, !.next = cursor]
    BY <1>3 DEF cursor
  <2>2. cursor \in 0 .. MaxNodeID
    BY <1>4, Zenon DEF cursor
  <2> QED
    BY <1>2, <1>5, <1>6, <2>1, <2>2, Zenon DEF Reaper
<1>8. \A x \in NodeIDs : Live(x) => Live(x)'
  BY <1>1, Zenon DEF Live, registryVars, directoryVars
<1> QED
  BY <1>1, <1>7, <1>8, RequestsKept, Zenon DEF Shape, DirectoryTypeOK,
     RegistryTypeOK, registryVars, directoryVars, membershipVars, requestVars

\* Phase 3 keeps Shape: requests that hold a deleted node become orphans.
LEMMA ShapeReapDelete ==
  ASSUME Shape, ReapDelete
  PROVE  Shape'
<1> DEFINE batch == FirstInScan(reap.cands, ReapBatch)
           gone == {id \in batch : Live(id) /\ nodes[id].stale}
           mem == [id \in NodeIDs |-> IF id \in gone
                                      THEN DropMember(networks[0].Members, id)[id]
                                      ELSE networks[0].Members[id]]
           names == [id \in NodeIDs |-> IF id \in batch THEN None ELSE reap.hostname[id]]
<1>1. 0 \in NetIDs
  BY ZeroNet, Zenon
<1>2. batch \in SUBSET NodeIDs
  BY Zenon DEF FirstInScan, Shape, DirectoryTypeOK, Reaper
<1>3. /\ networks' = [networks EXCEPT ![0].Members = mem]
      /\ hostnameIdx' = [h \in Hostnames |->
             IF \E id \in gone : reap.hostname[id] = h THEN None ELSE hostnameIdx[h]]
      /\ nodes' = [id \in NodeIDs |-> IF id \in gone THEN None ELSE nodes[id]]
      /\ OrphanPointers(gone)
      /\ reap' = [reap EXCEPT !.cands = @ \ batch, !.hostname = names,
                              !.any = @ \/ gone # {}]
      /\ UNCHANGED <<pubKeyIdx, ownerIdx, nextNode, nextNet, inviteInbox, wal, saveCh,
                     rots, reapCursor>>
  BY DEF ReapDelete
<1> HIDE DEF batch
<1>4. gone \in SUBSET NodeIDs
  BY <1>2
<1> HIDE DEF gone
<1>5. networks[0] \in NetworkInfo
  BY <1>1, ZenonT(30) DEF Shape, DirectoryTypeOK, RegistryTypeOK, OrNone
<1>6. mem \in [NodeIDs -> Nat]
  BY <1>5 DEF NetworkInfo, DropMember
<1> HIDE DEF mem
<1>7. networks' \in [NetIDs -> OrNone(NetworkInfo)] /\ networks'[0] # None
  <2> DEFINE net == [networks[0] EXCEPT !.Members = mem]
  <2>1. networks' = [networks EXCEPT ![0] = net]
    BY <1>3
  <2>2. net \in NetworkInfo
    BY <1>5, <1>6 DEF NetworkInfo
  <2> QED
    BY <1>1, <2>1, <2>2, NoneFacts, Zenon DEF Shape, DirectoryTypeOK, RegistryTypeOK, OrNone
<1>8. /\ nodes' \in [NodeIDs -> OrNone(NodeInfo)]
      /\ \A x \in NodeIDs : Live(x) /\ x \notin gone => Live(x)'
  BY <1>3 DEF Shape, DirectoryTypeOK, RegistryTypeOK, OrNone, Live
<1>9. regs' \in [Clients -> OrNone(Request)] /\ FastLive'
  BY <1>3, <1>4, <1>8, OrphansType
<1>10. hostnameIdx' \in [Hostnames -> OrNone(NodeIDs)]
  BY <1>3 DEF Shape, DirectoryTypeOK, RegistryTypeOK, OrNone
<1>11. names \in [NodeIDs -> OrNone(Hostnames)]
  BY DEF Shape, DirectoryTypeOK, Reaper, OrNone
<1> DEFINE rest == reap.cands \ batch
           any == reap.any \/ gone # {}
<1>12. reap' \in Reaper
  <2>1. rest \in SUBSET NodeIDs /\ any \in BOOLEAN
    BY DEF Shape, DirectoryTypeOK, Reaper
  <2>2. reap' = [reap EXCEPT !.cands = rest, !.hostname = names, !.any = any]
    BY <1>3, Zenon DEF Shape, DirectoryTypeOK, Reaper
  <2> HIDE DEF names, rest, any
  <2> QED
    BY <1>11, <2>1, <2>2, ZenonT(30) DEF Shape, DirectoryTypeOK, Reaper
<1> QED
  BY <1>3, <1>7, <1>8, <1>9, <1>10, <1>12, Zenon DEF Shape, DirectoryTypeOK, RegistryTypeOK

\* Phase 4 keeps Shape.
LEMMA ShapeReapFinish ==
  ASSUME Shape, ReapFinish
  PROVE  Shape'
<1>1. /\ reapCursor' = reap.next /\ saveCh' = (saveCh \/ reap.any) /\ reap' = IdleReaper
      /\ UNCHANGED <<directoryVars, membershipVars, wal, requestVars>>
  BY DEF ReapFinish
<1>2. reap' \in Reaper
  <2>1. NoHostnames \in [NodeIDs -> OrNone(Hostnames)] /\ 0 \in 0 .. MaxNodeID
    BY RegistryAssumption DEF NoHostnames, OrNone
  <2> QED
    BY <1>1, <2>1, Zenon DEF IdleReaper, Reaper
<1>3. reapCursor' \in 0 .. MaxNodeID /\ saveCh' \in BOOLEAN
  BY <1>1 DEF Shape, DirectoryTypeOK, Reaper
<1>4. \A x \in NodeIDs : Live(x) => Live(x)'
  BY <1>1 DEF Live, directoryVars
<1> QED
  BY <1>1, <1>2, <1>3, <1>4, RequestsKept, ZenonT(30) DEF Shape, DirectoryTypeOK,
     RegistryTypeOK, directoryVars, membershipVars, requestVars

\* Every step of the directory keeps Shape.
LEMMA ShapeNext ==
  ASSUME Shape, [DirectoryNext]_dirVars
  PROVE  Shape'
<1>1. CASE UNCHANGED dirVars
  <2>1. \A x \in NodeIDs : Live(x) => Live(x)'
    BY <1>1, Zenon DEF Live, dirVars, registryVars, directoryVars
  <2> QED
    BY <1>1, <2>1, RequestsKept, Zenon DEF Shape, DirectoryTypeOK,
       RegistryTypeOK, dirVars, registryVars, directoryVars, membershipVars,
       requestVars, reaperVars
<1>2. ASSUME NEW c \in Clients, RegisterStep(c) PROVE Shape'
  BY <1>2, ShapeRegisterBegin, ShapeRegisterLookup, ShapeRegisterFast,
     ShapeRegisterOrphan, ShapeRegisterExisting, ShapeRegisterReclaim,
     ShapeRegisterOwnerReclaim, ShapeRegisterRefused, ShapeRegisterNew, Zenon DEF RegisterStep
<1>3. ASSUME NEW id \in NodeIDs, NodeStep(id) PROVE Shape'
  BY <1>3, ShapeSetHostname, ShapeTouch, ShapeDeregister, Zenon DEF NodeStep
<1>4. ASSUME NEW r \in Rotators, RotateStep(r) PROVE Shape'
  BY <1>4, ShapeRotateVerify, ShapeRotateUpdate, ShapeOnKeyRotated, ShapeRotateRecord, Zenon
     DEF RotateStep
<1>5. CASE ReapStep
  BY <1>5, ShapeReapSnapshot, ShapeReapScan, ShapeReapDelete, ShapeReapFinish, Zenon DEF ReapStep
<1> QED
  BY <1>1, <1>2, <1>3, <1>4, <1>5, Zenon DEF DirectoryNext

\* The maps, counters, requests in flight and reaper locals keep their types:
\* in particular no handler stores an id outside the width of the counters, and
\* the reaper's cursor is always an id or 0.
THEOREM DirectoryTypeSafe == DirectorySpec => []DirectoryTypeOK
<1>1. Shape /\ [DirectoryNext]_dirVars => Shape'
  BY ShapeNext
<1>2. Shape => DirectoryTypeOK
  BY DEF Shape
<1> QED
  BY <1>1, <1>2, ShapeInit, PTL DEF DirectorySpec

-----------------------------------------------------------------------------
(* Ids, keys and indexes *)

\* The id the next new node would get is in use nowhere, for any number of
\* nodes, keys, owners and requests in flight and however often nodes are reaped,
\* reclaimed or rotate their keys: HandleReRegister never gives a new node an id
\* that a live node, an index or a member list still refers to.
THEOREM NextIDNeverUsed == DirectorySpec => []NextIDUnused
<1>1. DirectoryInit => Shape /\ IDsBelowNext
  BY ShapeInit, IDsBelowInit
<1>2. (Shape /\ IDsBelowNext) /\ [DirectoryNext]_dirVars => (Shape /\ IDsBelowNext)'
  BY ShapeNext, IDsBelowStep
<1> QED
  BY <1>1, <1>2, BelowUnused, PTL DEF DirectorySpec

\* Whatever requests interleave, a live node's key is replaced only by a
\* rotate_key that was verified against that key and names that node: no form
\* of register takes a live node over.
THEOREM KeyBindingsStable == DirectorySpec => KeyBindingStable
<1>1. NextIDUnused /\ Shape /\ [DirectoryNext]_dirVars => [KeyBindingStep]_dirVars
  <2> SUFFICES ASSUME NextIDUnused, Shape, DirectoryNext PROVE KeyBindingStep
    BY Zenon
  <2>1. KeysKept => KeyBindingStep
    BY DEF KeysKept, KeyBindingStep
  <2> QED
    BY <2>1, KeysKeptRegister, KeysKeptNode, KeyBindingRotate, Zenon DEF DirectoryNext
<1>2. Shape /\ [DirectoryNext]_dirVars => Shape'
  BY ShapeNext
<1> QED
  BY <1>1, <1>2, ShapeInit, NextIDNeverUsed, PTL DEF DirectorySpec, KeyBindingStable

\* A name that resolves, resolves to the live node that carries it, and every
\* name of a live node resolves, for any number of nodes, names, requests in
\* flight and any chunk and batch sizes of the reaper -- provided that a node
\* the reaper may take for dead does not rename itself at that moment.
THEOREM HostnamesExact ==
  ASSUME SilentWhenStale
  PROVE  DirectorySpec => []HostnameIndexExact
<1> DEFINE Inv == NamesExact /\ CapturedNames
<1>1. DirectoryInit => Inv
  BY NoneFacts DEF DirectoryInit, RegistryInit, NamesExact, Named, Live, CapturedNames,
     IdleReaper
<1>2. Shape /\ NextIDUnused /\ Inv /\ [DirectoryNext]_dirVars => Inv'
  <2> SUFFICES ASSUME Shape, NextIDUnused, Inv, [DirectoryNext]_dirVars PROVE Inv'
    BY ZenonT(30)
  <2>1. CASE UNCHANGED dirVars
    BY <2>1 DEF NamesExact, Named, Live, CapturedNames, dirVars, registryVars,
       directoryVars, reaperVars
  <2>2. CASE ReapStep
    BY <2>2, NamesReap, Zenon
  <2>3. ASSUME NamesExact', StaleKept, UNCHANGED reap PROVE Inv'
    BY <2>3, Zenon DEF CapturedNames, StaleKept, Live, Shape, DirectoryTypeOK, Reaper
  <2>4. ASSUME NEW c \in Clients, RegisterStep(c) PROVE Inv'
    <3>1. UNCHANGED reap
      BY <2>4, Zenon DEF RegisterStep, RegisterBegin, RegisterLookup, RegisterFast,
         RegisterOrphan, RegisterExisting, RegisterReclaim, RegisterOwnerLive,
         RegisterOwnerReclaim, RegisterRefused, RegisterNew, reaperVars
    <3> QED
      BY <2>3, <2>4, <3>1, NamesRegister, Zenon
  <2>5. ASSUME NEW id \in NodeIDs, NodeStep(id) PROVE Inv'
    <3>1. UNCHANGED reap
      BY <2>5, Zenon DEF NodeStep, SetHostname, Heartbeat, Deregister, GoStale, reaperVars
    <3>2. GoStale(id) => CapturedNames'
      BY <3>1, Zenon DEF GoStale, CapturedNames
    <3> QED
      BY <2>3, <2>5, <3>1, <3>2, NamesNode, Zenon
  <2>6. ASSUME NEW r \in Rotators, RotateStep(r) PROVE Inv'
    <3>1. UNCHANGED reap
      BY <2>6 DEF RotateStep, RotateVerify, RotateUpdate, OnKeyRotated, RotateRecord,
         reaperVars
    <3> QED
      BY <2>3, <2>6, <3>1, NamesRotate, Zenon
  <2> QED
    BY <2>1, <2>2, <2>4, <2>5, <2>6, Zenon DEF DirectoryNext
<1>3. Shape /\ [DirectoryNext]_dirVars => Shape'
  BY ShapeNext
<1>4. Shape /\ Inv => HostnameIndexExact
  BY ExactForm
<1> QED
  BY <1>1, <1>2, <1>3, <1>4, ShapeInit, NextIDNeverUsed, PTL DEF DirectorySpec

\* The backbone lists exactly the live nodes, each once: no order of
\* registrations, reclaims, deregistrations and reaper batches leaves a ghost
\* member, drops a live one or lists one twice.
THEOREM BackboneIsExact == DirectorySpec => []BackboneExact
<1>1. DirectoryInit => BackboneInv
  <2> SUFFICES ASSUME DirectoryInit PROVE BackboneInv
    OBVIOUS
  <2>1. 0 \in NetIDs
    BY ZeroNet, Zenon
  <2>2. networks[0].Members = NoMembers /\ \A id \in NodeIDs : ~Live(id)
    BY <2>1, Zenon DEF DirectoryInit, RegistryInit, Backbone, Live
  <2> QED
    BY <2>2 DEF BackboneInv, BackboneExact, ListsBackbone, NoMembers
<1>2. Shape /\ Shape' /\ NextIDUnused /\ BackboneInv /\ [DirectoryNext]_dirVars
        => BackboneInv'
  <2> SUFFICES ASSUME Shape, Shape', NextIDUnused, BackboneInv, [DirectoryNext]_dirVars
               PROVE  BackboneInv'
    BY Zenon
  <2>1. CASE UNCHANGED dirVars
    BY <2>1, BackboneKept DEF dirVars, registryVars, directoryVars, membershipVars, Live
  <2> QED
    BY <2>1, BackboneRegister, BackboneNode, BackboneRotate, BackboneReap, Zenon
       DEF DirectoryNext
<1>3. Shape /\ [DirectoryNext]_dirVars => Shape'
  BY ShapeNext
<1>4. BackboneInv => BackboneExact
  BY DEF BackboneInv
<1> QED
  BY <1>1, <1>2, <1>3, <1>4, ShapeInit, NextIDNeverUsed, PTL DEF DirectorySpec

-----------------------------------------------------------------------------
(* The key index *)

HasKey(x, k) == Live(x) /\ nodes[x].PublicKey = k
InFlight(r) == rots[r] # None

\* The index leads from the key to the node, or a rotation is about to make it.
Indexed(x, k) ==
  \/ pubKeyIdx[k] = x
  \/ \E r \in Rotators : /\ InFlight(r) /\ rots[r].pc = "updated"
                         /\ rots[r].id = x /\ rots[r].new = k

KeysIndexed == \A x \in NodeIDs, k \in Keys : HasKey(x, k) => Indexed(x, k)

\* No register in flight carries a key of a rotation in flight, and no two rotations
\* have a new key in common.  A rotation can leave the key another went to, but only
\* after UpdateNodeKey of the other.
RotationsApart ==
  \A r \in Rotators : InFlight(r) =>
    /\ rots[r].new # rots[r].old
    /\ \A c \in Clients : regs[c] # None => regs[c].PublicKey \notin {rots[r].old, rots[r].new}
    /\ \A s \in Rotators : s # r /\ InFlight(s) =>
         /\ rots[s].new # rots[r].new
         /\ rots[r].pc = "verified" => rots[s].old # rots[r].new

\* Until OnKeyRotated a rotation's new key is in no index, and on no node but the one it
\* rotates; once UpdateNodeKey has run, no node has the old one.
KeysReserved ==
  \A r \in Rotators : InFlight(r) =>
    /\ rots[r].pc \in {"verified", "updated"} => pubKeyIdx[rots[r].new] = None
    /\ \A x \in NodeIDs : \A k : HasKey(x, k) =>
         /\ rots[r].pc = "verified" => k # rots[r].new
         /\ rots[r].pc = "updated" => k # rots[r].old /\ (k = rots[r].new => x = rots[r].id)

KeyInv == KeysIndexed /\ RotationsApart /\ KeysReserved

\* KeyIndexComplete says that every live node is indexed under its key.
LEMMA KeyIndexForm ==
  ASSUME Shape, KeysIndexed
  PROVE  KeyIndexComplete
<1>1. ASSUME NEW id \in LiveIDs PROVE BeingIndexed(id) \/ pubKeyIdx[nodes[id].PublicKey] = id
  <2>1. id \in NodeIDs /\ Live(id) /\ nodes[id].PublicKey \in Keys
    BY <1>1, Zenon DEF LiveIDs, Live, Shape, DirectoryTypeOK, RegistryTypeOK, OrNone, NodeInfo
  <2>2. Indexed(id, nodes[id].PublicKey)
    BY <2>1, Zenon DEF KeysIndexed, HasKey
  <2> QED
    BY <2>2, Zenon DEF Indexed, InFlight, BeingIndexed
<1> QED
  BY <1>1, Zenon DEF KeyIndexComplete

\* The keys and the node of a rotation in flight.
LEMMA RotationTypes ==
  ASSUME Shape, NEW r \in Rotators, InFlight(r)
  PROVE  /\ rots[r] \in Rotation /\ rots[r].id \in NodeIDs /\ rots[r].old \in Keys
         /\ rots[r].new \in Keys /\ rots[r].pc \in {"verified", "updated", "indexed"}
<1>1. rots[r] \in Rotation
  BY Zenon DEF InFlight, Shape, DirectoryTypeOK, OrNone
<1> QED
  BY <1>1, Zenon DEF Rotation

\* A step that gives no node another key, and that touches neither the index nor a
\* rotation, provided that a register that begins carries no key of a rotation.
LEMMA KeysQuiet ==
  ASSUME KeyInv, UNCHANGED <<pubKeyIdx, rots>>,
         \A x \in NodeIDs : \A k : HasKey(x, k)' => HasKey(x, k),
         \A c \in Clients : regs'[c] # None =>
           \A r \in Rotators : InFlight(r) => regs'[c].PublicKey \notin {rots[r].old, rots[r].new}
  PROVE  KeyInv'
<1>1. /\ \A r : InFlight(r)' <=> InFlight(r)
      /\ \A x, k : Indexed(x, k)' <=> Indexed(x, k)
  BY Zenon DEF InFlight, Indexed
<1>2. KeysIndexed'
  BY <1>1, Zenon DEF KeyInv, KeysIndexed
<1>3. RotationsApart'
  BY <1>1, Zenon DEF KeyInv, RotationsApart
<1>4. KeysReserved'
  BY <1>1, Zenon DEF KeyInv, KeysReserved
<1> QED
  BY <1>2, <1>3, <1>4, Zenon DEF KeyInv

\* A register that leaves without a new node.
LEMMA KeysQuietRequests ==
  ASSUME KeyInv, UNCHANGED <<pubKeyIdx, rots>>,
         \A x \in NodeIDs : \A k : HasKey(x, k)' => HasKey(x, k),
         \A c \in Clients : regs'[c] # None =>
           regs[c] # None /\ regs'[c].PublicKey = regs[c].PublicKey
  PROVE  KeyInv'
<1>1. \A c \in Clients : regs'[c] # None =>
        \A r \in Rotators : InFlight(r) => regs'[c].PublicKey \notin {rots[r].old, rots[r].new}
  BY Zenon DEF KeyInv, RotationsApart
<1> QED
  BY <1>1, KeysQuiet, Zenon

\* A register that brings a node back or in: the key leads to it, and led nowhere else.
LEMMA KeyArrives ==
  ASSUME Shape, KeyInv, NEW c \in Clients, regs[c] # None, NEW key \in Keys,
         key = regs[c].PublicKey, NEW id \in NodeIDs,
         rots' = rots, \A b \in Clients : regs'[b] # None => regs'[b] = regs[b],
         pubKeyIdx[key] \in {None, id}, pubKeyIdx'[key] = id,
         \A k \in Keys : k # key => pubKeyIdx'[k] = pubKeyIdx[k],
         \A k : HasKey(id, k)' => k = key,
         \A x \in NodeIDs \ {id} : \A k : HasKey(x, k)' => HasKey(x, k)
  PROVE  KeyInv'
<1>1. \A r : InFlight(r)' <=> InFlight(r)
  BY Zenon DEF InFlight
<1>2. \A r \in Rotators : InFlight(r) =>
        rots[r].new # key /\ rots[r].old # key /\ rots[r].new \in Keys
  BY RotationTypes, Zenon DEF KeyInv, RotationsApart
<1>3. KeysIndexed'
  <2> SUFFICES ASSUME NEW x \in NodeIDs, NEW k \in Keys, HasKey(x, k)'
               PROVE  Indexed(x, k)'
    BY Zenon DEF KeysIndexed
  <2>1. CASE x = id
    BY <2>1, Zenon DEF Indexed
  <2>2. CASE x # id
    <3>1. Indexed(x, k)
      BY <2>2, Zenon DEF KeyInv, KeysIndexed
    <3>2. CASE k = key
      <4>1. pubKeyIdx[key] = x
        BY <1>2, <3>1, <3>2, Zenon DEF Indexed
      <4> QED
        BY <2>2, <4>1, NoneAssumption, Zenon
    <3>3. CASE k # key
      BY <1>1, <3>1, <3>3, Zenon DEF Indexed
    <3> QED
      BY <3>2, <3>3, Zenon
  <2> QED
    BY <2>1, <2>2, Zenon
<1>4. RotationsApart'
  BY <1>1, Zenon DEF KeyInv, RotationsApart
<1>5. KeysReserved'
  <2>1. \A r \in Rotators : InFlight(r) => pubKeyIdx'[rots[r].new] = pubKeyIdx[rots[r].new]
    BY <1>2, Zenon
  <2>2. \A x \in NodeIDs : \A k : HasKey(x, k)' => HasKey(x, k) \/ k = key
    BY Zenon
  <2> QED
    BY <1>1, <1>2, <2>1, <2>2, ZenonT(30) DEF KeyInv, KeysReserved
<1> QED
  BY <1>3, <1>4, <1>5, Zenon DEF KeyInv

\* No node arrives in a step.
NoArrival == \A x \in NodeIDs : Live(x)' => Live(x)

\* Nodes that stay keep their keys, and no other arrives.
LEMMA NoNewKey ==
  ASSUME KeysKept, NoArrival
  PROVE  \A x \in NodeIDs : \A k : HasKey(x, k)' => HasKey(x, k)
BY Zenon DEF KeysKept, NoArrival, HasKey

\* The keys of the rotations in flight.
LEMMA KeysInFlight ==
  ASSUME NEW r \in Rotators, InFlight(r)
  PROVE  rots[r].old \in InFlightKeys /\ rots[r].new \in InFlightKeys
<1>1. {rots[r].old, rots[r].new} \in
        {{rots[s].old, rots[s].new} : s \in {q \in Rotators : rots[q] # None}}
  BY DEF InFlight
<1> QED
  BY <1>1 DEF InFlightKeys

\* A node built for a request has the request's key.
LEMMA FreshKey ==
  ASSUME Shape, NEW req \in Request, NEW id \in NodeIDs, NEW nets,
         nodes' = [nodes EXCEPT ![id] = FreshNode(req, id, nets)]
  PROVE  /\ \A k : HasKey(id, k)' => k = req.PublicKey
         /\ \A x \in NodeIDs \ {id} : \A k : HasKey(x, k)' => HasKey(x, k)
<1>1. nodes'[id].PublicKey = req.PublicKey
  <2>1. nodes'[id] = FreshNode(req, id, nets)
    BY Zenon DEF Shape, DirectoryTypeOK, RegistryTypeOK
  <2>2. FreshNode(req, id, nets).PublicKey = req.PublicKey
    BY DEF FreshNode
  <2> QED
    BY <2>1, <2>2, Zenon
<1>2. \A x \in NodeIDs \ {id} : nodes'[x] = nodes[x]
  BY Zenon DEF Shape, DirectoryTypeOK, RegistryTypeOK
<1> QED
  BY <1>1, <1>2, Zenon DEF HasKey, Live

\* A register that begins carries no key of a rotation in flight.
LEMMA KeysBegin ==
  ASSUME SerialDaemons, Shape, KeyInv, NEW c \in Clients, NEW key \in Keys, NEW owner,
         NEW hostname, NEW sig, RegisterBegin(c, key, owner, hostname, sig)
  PROVE  KeyInv'
<1> DEFINE req == [pc |-> "lookup", PublicKey |-> key, Owner |-> owner, Hostname |-> hostname,
                   sigVerified |-> sig, fpNodeID |-> None, fpOwner |-> None, fpHostname |-> None]
<1>1. /\ key \notin InFlightKeys /\ regs' = [regs EXCEPT ![c] = req]
      /\ UNCHANGED <<nodes, pubKeyIdx, rots>>
  BY Zenon DEF RegisterBegin, registryVars, directoryVars
<1>2. req.PublicKey = key
  BY Zenon
<1> HIDE DEF req
<1>3. regs'[c].PublicKey = key /\ \A b \in Clients \ {c} : regs'[b] = regs[b]
  BY <1>1, <1>2, Zenon DEF Shape, DirectoryTypeOK
<1>4. \A b \in Clients : regs'[b] # None =>
        \A r \in Rotators : InFlight(r) => regs'[b].PublicKey \notin {rots[r].old, rots[r].new}
  BY <1>1, <1>3, KeysInFlight, Zenon DEF KeyInv, RotationsApart
<1>5. \A x \in NodeIDs : \A k : HasKey(x, k)' => HasKey(x, k)
  BY <1>1, Zenon DEF HasKey, Live
<1> QED
  BY <1>1, <1>4, <1>5, KeysQuiet, Zenon

\* A register on its way, one that finds its node, and one that is refused.
LEMMA KeysRegisterQuiet ==
  ASSUME Shape, NextIDUnused, KeyInv, NEW c \in Clients,
         \/ RegisterLookup(c) \/ RegisterFast(c) \/ RegisterOrphan(c) \/ RegisterExisting(c)
         \/ RegisterOwnerLive(c) \/ RegisterRefused(c)
  PROVE  KeyInv'
<1>1. UNCHANGED <<pubKeyIdx, rots>>
  BY Zenon DEF RegisterLookup, RegisterFast, RegisterOrphan, RegisterExisting, RegisterOwnerLive,
     RegisterRefused, registryVars, directoryVars
<1>2. KeysKept
  BY KeysKeptRegister, Zenon DEF RegisterStep
<1>3. NoArrival
  <2>1. CASE UNCHANGED nodes
    BY <2>1, Zenon DEF NoArrival, Live
  <2>2. CASE RegisterFast(c) /\ ~UNCHANGED nodes
    <3> DEFINE id == regs[c].fpNodeID
               node == [nodes[id] EXCEPT !.stale = FALSE,
                                         !.SigVerified = @ \/ regs[c].sigVerified]
    <3>1. Live(id) /\ id \in NodeIDs /\ nodes' = [nodes EXCEPT ![id] = node]
      BY <2>2, Zenon DEF RegisterFast, Shape, FastLive, DirectoryTypeOK, RegistryTypeOK, OrNone,
         Request
    <3> HIDE DEF node, id
    <3>2. \A x \in NodeIDs : x # id => nodes'[x] = nodes[x]
      BY <3>1, Zenon DEF Shape, DirectoryTypeOK, RegistryTypeOK
    <3> QED
      BY <3>1, <3>2, Zenon DEF NoArrival, Live
  <2>3. CASE RegisterExisting(c)
    <3> DEFINE req == regs[c]
               id == pubKeyIdx[req.PublicKey]
               claims == req.Owner # None /\ nodes[id].Owner = None
               name == NewHostname(req.Hostname, id, nodes[id].Hostname)
               node == [nodes[id] EXCEPT !.stale = FALSE,
                               !.SigVerified = @ \/ req.sigVerified,
                               !.Owner = IF claims THEN req.Owner ELSE @,
                               !.Hostname = name]
    <3>1. Live(id) /\ nodes' = [nodes EXCEPT ![id] = node]
      BY <2>3, Zenon DEF RegisterExisting, KnownLive
    <3> HIDE DEF node, id
    <3>2. \A x \in NodeIDs : x # id => nodes'[x] = nodes[x]
      BY <3>1, Zenon DEF Shape, DirectoryTypeOK, RegistryTypeOK
    <3> QED
      BY <3>1, <3>2, Zenon DEF NoArrival, Live
  <2> QED
    BY <2>1, <2>2, <2>3, Zenon DEF RegisterLookup, RegisterOrphan, RegisterOwnerLive,
       RegisterRefused, registryVars, directoryVars
<1>4. \A b \in Clients : regs'[b] # None =>
        regs[b] # None /\ regs'[b].PublicKey = regs[b].PublicKey
  <2>0. regs[c] # None /\ regs[c] \in Request
    BY Zenon DEF RegisterLookup, RegisterFast, RegisterOrphan, RegisterExisting,
       RegisterOwnerLive, RegisterRefused, Shape, DirectoryTypeOK, OrNone
  <2>1. \/ regs' = [regs EXCEPT ![c] = None]
        \/ \E p : regs' = [regs EXCEPT ![c].pc = p]
        \/ \E p, n : regs' = [regs EXCEPT ![c].pc = p, ![c].fpNodeID = n]
    <3>1. CASE RegisterLookup(c)
      BY <3>1, Zenon DEF RegisterLookup
    <3>2. CASE RegisterFast(c)
      BY <3>2, Zenon DEF RegisterFast
    <3>3. CASE RegisterOrphan(c)
      BY <3>3, Zenon DEF RegisterOrphan
    <3> QED
      BY <3>1, <3>2, <3>3, Zenon DEF RegisterExisting, RegisterOwnerLive, RegisterRefused
  <2>2. ASSUME NEW p, regs' = [regs EXCEPT ![c].pc = p]
        PROVE  /\ regs'[c].PublicKey = regs[c].PublicKey
               /\ \A b \in Clients \ {c} : regs'[b] = regs[b]
    BY <2>0, <2>2, Zenon DEF Shape, DirectoryTypeOK, Request
  <2>3. ASSUME NEW p, NEW n, regs' = [regs EXCEPT ![c].pc = p, ![c].fpNodeID = n]
        PROVE  /\ regs'[c].PublicKey = regs[c].PublicKey
               /\ \A b \in Clients \ {c} : regs'[b] = regs[b]
    BY <2>0, <2>3, Zenon DEF Shape, DirectoryTypeOK, Request
  <2>4. /\ regs'[c] # None => regs'[c].PublicKey = regs[c].PublicKey
        /\ \A b \in Clients \ {c} : regs'[b] = regs[b]
    <3>1. CASE regs' = [regs EXCEPT ![c] = None]
      BY <3>1, Zenon DEF Shape, DirectoryTypeOK
    <3> QED
      BY <2>1, <2>2, <2>3, <3>1, Zenon
  <2> QED
    BY <2>0, <2>4, Zenon
<1>5. \A x \in NodeIDs : \A k : HasKey(x, k)' => HasKey(x, k)
  BY <1>2, <1>3, NoNewKey, Zenon
<1> QED
  BY <1>1, <1>4, <1>5, KeysQuietRequests, Zenon

\* A register that brings a node back by its key or its owner, or a new one.
LEMMA KeysRegisterArrival ==
  ASSUME Shape, KeyInv, NEW c \in Clients,
         RegisterReclaim(c) \/ RegisterOwnerReclaim(c) \/ RegisterNew(c)
  PROVE  KeyInv'
<1> DEFINE req == regs[c]
           key == regs[c].PublicKey
<1>1. req # None /\ req \in Request /\ key \in Keys
  <2>1. req # None
    BY Zenon DEF RegisterReclaim, RegisterOwnerReclaim, RegisterNew
  <2>2. req \in Request
    BY <2>1, Zenon DEF Shape, DirectoryTypeOK, OrNone
  <2> QED
    BY <2>1, <2>2, Zenon DEF Request
<1>2. rots' = rots /\ \A b \in Clients : regs'[b] # None => regs'[b] = regs[b]
  <2>1. rots' = rots /\ regs' = [regs EXCEPT ![c] = None]
    BY Zenon DEF RegisterReclaim, RegisterOwnerReclaim, RegisterNew
  <2> QED
    BY <2>1, Zenon DEF Shape, DirectoryTypeOK
<1>3. \E id \in NodeIDs : \E nets :
        /\ nodes' = [nodes EXCEPT ![id] = FreshNode(req, id, nets)]
        /\ pubKeyIdx[key] \in {None, id} /\ pubKeyIdx'[key] = id
        /\ \A k \in Keys : k # key => pubKeyIdx'[k] = pubKeyIdx[k]
  <2>0. pubKeyIdx \in [Keys -> OrNone(NodeIDs)] /\ ownerIdx \in [Owners -> OrNone(NodeIDs)]
    BY Zenon DEF Shape, DirectoryTypeOK, RegistryTypeOK
  <2>1. CASE RegisterReclaim(c)
    <3> DEFINE id == pubKeyIdx[key]
    <3>1. /\ id # None /\ pubKeyIdx' = pubKeyIdx
          /\ nodes' = [nodes EXCEPT ![id] = FreshNode(req, id, {0} \cup ScanNetworkMemberships(id))]
      BY <2>1, Zenon DEF RegisterReclaim, Known
    <3>2. id \in NodeIDs
      BY <1>1, <2>0, <3>1, Zenon DEF OrNone
    <3> HIDE DEF id
    <3>3. id = pubKeyIdx[key]
      BY DEF id
    <3> QED
      BY <3>1, <3>2, <3>3, Zenon
  <2>2. ASSUME NEW id \in NodeIDs, pubKeyIdx[key] = None, NEW nets,
               nodes' = [nodes EXCEPT ![id] = FreshNode(req, id, nets)],
               pubKeyIdx' = [pubKeyIdx EXCEPT ![key] = id]
        PROVE  \E n \in NodeIDs : \E ns :
                 /\ nodes' = [nodes EXCEPT ![n] = FreshNode(req, n, ns)]
                 /\ pubKeyIdx[key] \in {None, n} /\ pubKeyIdx'[key] = n
                 /\ \A k \in Keys : k # key => pubKeyIdx'[k] = pubKeyIdx[k]
    <3>1. pubKeyIdx'[key] = id /\ \A k \in Keys : k # key => pubKeyIdx'[k] = pubKeyIdx[k]
      BY <1>1, <2>0, <2>2, Zenon
    <3> QED
      BY <2>2, <3>1, Zenon
  <2>3. CASE RegisterOwnerReclaim(c)
    <3> DEFINE id == ownerIdx[req.Owner]
    <3>1. /\ id # None /\ req.Owner # None /\ pubKeyIdx[key] = None
          /\ pubKeyIdx' = [pubKeyIdx EXCEPT ![key] = id]
          /\ nodes' = [nodes EXCEPT ![id] = FreshNode(req, id, {0})]
      BY <2>3, Zenon DEF RegisterOwnerReclaim, Known, OwnerKnown
    <3>2. id \in NodeIDs
      <4>1. req.Owner \in Owners
        BY <1>1, <3>1, Zenon DEF Request, OrNone
      <4> QED
        BY <2>0, <3>1, <4>1, Zenon DEF OrNone
    <3> HIDE DEF id
    <3> QED
      BY <2>2, <3>1, <3>2, Zenon
  <2>4. CASE RegisterNew(c)
    <3>1. /\ nextNode # 0 /\ pubKeyIdx[key] = None
          /\ pubKeyIdx' = [pubKeyIdx EXCEPT ![key] = nextNode]
          /\ nodes' = [nodes EXCEPT ![nextNode] = FreshNode(req, nextNode, {0})]
      BY <2>4, Zenon DEF RegisterNew, Known
    <3>2. nextNode \in NodeIDs
      <4>1. nextNode \in 0 .. MaxNodeID
        BY Zenon DEF Shape, DirectoryTypeOK, RegistryTypeOK
      <4> QED
        BY <3>1, <4>1, RegistryAssumption, SMTT(30) DEF NodeIDs
    <3> QED
      BY <2>2, <3>1, <3>2, Zenon
  <2> QED
    BY <2>1, <2>3, <2>4, Zenon
<1>4. PICK id \in NodeIDs : \E nets :
        /\ nodes' = [nodes EXCEPT ![id] = FreshNode(req, id, nets)]
        /\ pubKeyIdx[key] \in {None, id} /\ pubKeyIdx'[key] = id
        /\ \A k \in Keys : k # key => pubKeyIdx'[k] = pubKeyIdx[k]
  BY <1>3, Zenon
<1>5. /\ \A k : HasKey(id, k)' => k = key
      /\ \A x \in NodeIDs \ {id} : \A k : HasKey(x, k)' => HasKey(x, k)
  <2>1. PICK nets : nodes' = [nodes EXCEPT ![id] = FreshNode(req, id, nets)]
    BY <1>4, Zenon
  <2> HIDE DEF req
  <2>2. /\ \A k : HasKey(id, k)' => k = req.PublicKey
        /\ \A x \in NodeIDs \ {id} : \A k : HasKey(x, k)' => HasKey(x, k)
    BY <1>1, <2>1, FreshKey, Zenon
  <2> QED
    BY <2>2, Zenon DEF req
<1> QED
  BY <1>1, <1>2, <1>4, <1>5, KeyArrives, ZenonT(30)

\* Requests that lose their node keep their key.
LEMMA OrphansKeepKeys ==
  ASSUME Shape, NEW gone, OrphanPointers(gone)
  PROVE  \A b \in Clients : regs'[b] # None =>
           regs[b] # None /\ regs'[b].PublicKey = regs[b].PublicKey
<1> TAKE b \in Clients
<1>1. CASE regs'[b] = regs[b]
  BY <1>1, Zenon
<1>2. CASE regs'[b] # regs[b]
  <2>1. /\ regs[b] # None
        /\ regs'[b] = [regs[b] EXCEPT !.pc = "orphan",
                         !.fpOwner = nodes[regs[b].fpNodeID].Owner,
                         !.fpHostname = nodes[regs[b].fpNodeID].Hostname]
    BY <1>2, Zenon DEF OrphanPointers
  <2>2. regs[b] \in Request
    BY <2>1, Zenon DEF Shape, DirectoryTypeOK, OrNone
  <2> QED
    BY <2>1, <2>2, Zenon DEF Request
<1> QED
  BY <1>1, <1>2, Zenon

\* The steps of a node and of the reaper give no node a key.
LEMMA KeysNode ==
  ASSUME Shape, KeyInv, ReapStep \/ \E id \in NodeIDs : NodeStep(id)
  PROVE  KeyInv'
<1>1. KeysKept
  BY KeysKeptNode, Zenon
<1>2. ASSUME NEW id \in NodeIDs, NodeStep(id)
      PROVE  /\ UNCHANGED <<pubKeyIdx, rots>> /\ NoArrival
             /\ regs' = regs \/ \E gone : OrphanPointers(gone)
  <2>1. UNCHANGED <<pubKeyIdx, rots>> /\ (regs' = regs \/ \E gone : OrphanPointers(gone))
    BY <1>2, Zenon DEF NodeStep, SetHostname, Heartbeat, Deregister, GoStale, requestVars
  <2>2. Live(id) /\ \A x \in NodeIDs : x # id => nodes'[x] = nodes[x]
    BY <1>2, Zenon DEF NodeStep, SetHostname, Heartbeat, Deregister, GoStale, Shape,
       DirectoryTypeOK, RegistryTypeOK
  <2> QED
    BY <2>1, <2>2, Zenon DEF NoArrival, Live
<1>3. ASSUME ReapStep
      PROVE  /\ UNCHANGED <<pubKeyIdx, rots>> /\ NoArrival
             /\ regs' = regs \/ \E gone : OrphanPointers(gone)
  <2>1. CASE ReapDelete
    BY <2>1, Zenon DEF ReapDelete, NoArrival, Live
  <2>2. CASE ReapSnapshot \/ ReapScan \/ ReapFinish
    BY <2>2, Zenon DEF ReapSnapshot, ReapScan, ReapFinish, NoArrival, Live, registryVars,
       directoryVars, requestVars
  <2> QED
    BY <1>3, <2>1, <2>2, Zenon DEF ReapStep
<1>4. \A x \in NodeIDs : \A k : HasKey(x, k)' => HasKey(x, k)
  BY <1>1, <1>2, <1>3, NoNewKey, Zenon
<1>5. \A b \in Clients : regs'[b] # None =>
        regs[b] # None /\ regs'[b].PublicKey = regs[b].PublicKey
  BY <1>2, <1>3, OrphansKeepKeys, Zenon
<1> QED
  BY <1>2, <1>3, <1>4, <1>5, KeysQuietRequests, Zenon

-----------------------------------------------------------------------------
(* The key index: rotations *)

\* What a step after the first does to the rotations: one of them may end or move on.
RotationsKept ==
  \A s \in Rotators : InFlight(s)' =>
    /\ InFlight(s) /\ rots'[s].id = rots[s].id
    /\ rots'[s].old = rots[s].old /\ rots'[s].new = rots[s].new
    /\ rots'[s].pc = "verified" => rots[s].pc = "verified"

\* Rotations that go on stay apart.
LEMMA ApartKept ==
  ASSUME RotationsApart, RotationsKept, regs' = regs
  PROVE  RotationsApart'
<1> SUFFICES ASSUME NEW r \in Rotators, InFlight(r)'
             PROVE  /\ rots'[r].new # rots'[r].old
                    /\ \A c \in Clients : regs'[c] # None =>
                         regs'[c].PublicKey \notin {rots'[r].old, rots'[r].new}
                    /\ \A s \in Rotators : s # r /\ InFlight(s)' =>
                         /\ rots'[s].new # rots'[r].new
                         /\ rots'[r].pc = "verified" => rots'[s].old # rots'[r].new
  BY Zenon DEF RotationsApart
<1>1. /\ InFlight(r) /\ rots'[r].old = rots[r].old /\ rots'[r].new = rots[r].new
      /\ rots'[r].pc = "verified" => rots[r].pc = "verified"
  BY Zenon DEF RotationsKept
<1>2. \A s \in Rotators : s # r /\ InFlight(s)' =>
        /\ rots'[s].new # rots'[r].new
        /\ rots'[r].pc = "verified" => rots'[s].old # rots'[r].new
  <2> TAKE s \in Rotators
  <2>1. InFlight(s)' => InFlight(s) /\ rots'[s].old = rots[s].old /\ rots'[s].new = rots[s].new
    BY Zenon DEF RotationsKept
  <2> QED
    BY <1>1, <2>1, Zenon DEF RotationsApart
<1> QED
  BY <1>1, <1>2, Zenon DEF RotationsApart

\* A rotation that moves on keeps its node and its keys.
LEMMA RotationMoves ==
  ASSUME Shape, NEW r \in Rotators, InFlight(r), NEW pc \in {"updated", "indexed"},
         rots' = [rots EXCEPT ![r].pc = pc]
  PROVE  /\ rots'[r].pc = pc /\ InFlight(r)' /\ RotationsKept
         /\ \A s \in Rotators \ {r} : rots'[s] = rots[s]
<1>1. rots[r] \in Rotation
  BY RotationTypes, Zenon
<1>2. /\ rots'[r] = [rots[r] EXCEPT !.pc = pc]
      /\ \A s \in Rotators \ {r} : rots'[s] = rots[s]
  BY Zenon DEF Shape, DirectoryTypeOK
<1>3. /\ rots'[r].pc = pc /\ rots'[r].id = rots[r].id
      /\ rots'[r].old = rots[r].old /\ rots'[r].new = rots[r].new
  BY <1>1, <1>2 DEF Rotation
<1>4. rots'[r] \in Rotation
  BY <1>1, <1>2 DEF Rotation
<1>5. InFlight(r)'
  BY <1>4, NoneFacts, Zenon DEF InFlight
<1>6. RotationsKept
  <2> SUFFICES ASSUME NEW s \in Rotators, InFlight(s)'
               PROVE  /\ InFlight(s) /\ rots'[s].id = rots[s].id
                      /\ rots'[s].old = rots[s].old /\ rots'[s].new = rots[s].new
                      /\ rots'[s].pc = "verified" => rots[s].pc = "verified"
    BY Zenon DEF RotationsKept
  <2>1. CASE s = r
    BY <1>3, <2>1, Zenon
  <2>2. CASE s # r
    BY <1>2, <2>2, Zenon DEF InFlight
  <2> QED
    BY <2>1, <2>2, Zenon
<1> QED
  BY <1>2, <1>3, <1>5, <1>6, Zenon

\* A rotation that starts: its new key is nowhere.
LEMMA KeysVerify ==
  ASSUME SerialDaemons, Shape, KeyInv, NEW r \in Rotators, NEW id \in NodeIDs,
         NEW new \in Keys, RotateVerify(r, id, new), NEW old, old = nodes[id].PublicKey
  PROVE  KeyInv'
<1>1. /\ ~InFlight(r) /\ HasKey(id, old) /\ UNCHANGED <<nodes, pubKeyIdx, regs>>
      /\ rots' = [rots EXCEPT ![r] = [pc |-> "verified", id |-> id, old |-> old, new |-> new]]
      /\ RotationAllowed(id, new)
  BY Zenon DEF RotateVerify, InFlight, HasKey, registryVars, directoryVars
<1>2. /\ rots'[r].pc = "verified" /\ rots'[r].old = old /\ rots'[r].new = new
      /\ \A s \in Rotators \ {r} : rots'[s] = rots[s]
  BY <1>1 DEF Shape, DirectoryTypeOK
<1>3. /\ \A x, k : HasKey(x, k)' <=> HasKey(x, k)
      /\ \A s \in Rotators \ {r} : InFlight(s)' <=> InFlight(s)
  BY <1>1, <1>2, Zenon DEF HasKey, Live, InFlight
<1>4. \A x \in NodeIDs : ~HasKey(x, new)
  BY <1>1, Zenon DEF RotationAllowed, HasKey, LiveIDs
<1>5. \A s \in Rotators : InFlight(s) => rots[s].new # new /\ rots[s].old # new
  BY <1>1, KeysInFlight, Zenon DEF RotationAllowed
<1>6. KeysIndexed'
  <2> SUFFICES ASSUME NEW x \in NodeIDs, NEW k \in Keys, HasKey(x, k)'
               PROVE  Indexed(x, k)'
    BY Zenon DEF KeysIndexed
  <2>1. Indexed(x, k)
    BY <1>3, Zenon DEF KeyInv, KeysIndexed
  <2>2. CASE pubKeyIdx[k] = x
    BY <1>1, <2>2, Zenon DEF Indexed
  <2>3. ASSUME NEW s \in Rotators, InFlight(s), rots[s].pc = "updated", rots[s].id = x,
               rots[s].new = k
        PROVE  Indexed(x, k)'
    <3>1. s # r
      BY <1>1, <2>3, Zenon
    <3> QED
      BY <1>2, <1>3, <2>3, <3>1, Zenon DEF Indexed
  <2> QED
    BY <2>1, <2>2, <2>3, Zenon DEF Indexed
<1>7. RotationsApart'
  <2>1. \A c \in Clients : regs[c] # None => regs[c].PublicKey \notin {old, new}
    BY <1>1, Zenon DEF RotationAllowed
  <2>2. new # old
    BY <1>1, <1>4, Zenon
  <2>3. \A s \in Rotators : InFlight(s) /\ rots[s].pc = "verified" => old # rots[s].new
    BY <1>1, Zenon DEF KeyInv, KeysReserved
  <2> SUFFICES ASSUME NEW q \in Rotators, InFlight(q)'
               PROVE  /\ rots'[q].new # rots'[q].old
                      /\ \A c \in Clients : regs'[c] # None =>
                           regs'[c].PublicKey \notin {rots'[q].old, rots'[q].new}
                      /\ \A s \in Rotators : s # q /\ InFlight(s)' =>
                           /\ rots'[s].new # rots'[q].new
                           /\ rots'[q].pc = "verified" => rots'[s].old # rots'[q].new
    BY Zenon DEF RotationsApart
  <2>4. CASE q = r
    BY <1>1, <1>2, <1>3, <1>5, <2>1, <2>2, <2>4, ZenonT(30)
  <2>5. CASE q # r
    <3>1. InFlight(q) /\ rots'[q] = rots[q]
      BY <1>2, <1>3, <2>5, Zenon
    <3>2. /\ rots[q].new # rots[q].old
          /\ \A c \in Clients : regs[c] # None =>
               regs[c].PublicKey \notin {rots[q].old, rots[q].new}
          /\ \A s \in Rotators : s # q /\ InFlight(s) =>
               /\ rots[s].new # rots[q].new
               /\ rots[q].pc = "verified" => rots[s].old # rots[q].new
      BY <3>1, Zenon DEF KeyInv, RotationsApart
    <3>3. ASSUME NEW s \in Rotators, s # q, InFlight(s)'
          PROVE  /\ rots'[s].new # rots[q].new
                 /\ rots[q].pc = "verified" => rots'[s].old # rots[q].new
      <4>1. CASE s = r
        BY <1>2, <1>5, <2>3, <3>1, <4>1, Zenon
      <4>2. CASE s # r
        BY <1>2, <1>3, <3>2, <3>3, <4>2, Zenon
      <4> QED
        BY <4>1, <4>2, Zenon
    <3> QED
      BY <1>1, <3>1, <3>2, <3>3, Zenon
  <2> QED
    BY <2>4, <2>5, Zenon
<1>8. KeysReserved'
  <2>1. pubKeyIdx[new] = None
    BY <1>1, Zenon DEF RotationAllowed
  <2> SUFFICES ASSUME NEW s \in Rotators, InFlight(s)'
               PROVE  /\ rots'[s].pc \in {"verified", "updated"} => pubKeyIdx'[rots'[s].new] = None
                      /\ \A x \in NodeIDs : \A k : HasKey(x, k)' =>
                           /\ rots'[s].pc = "verified" => k # rots'[s].new
                           /\ rots'[s].pc = "updated" =>
                                k # rots'[s].old /\ (k = rots'[s].new => x = rots'[s].id)
    BY Zenon DEF KeysReserved
  <2>2. CASE s = r
    BY <1>1, <1>2, <1>3, <1>4, <2>1, <2>2, Zenon
  <2>3. CASE s # r
    <3>1. InFlight(s) /\ rots'[s] = rots[s] /\ pubKeyIdx' = pubKeyIdx
      BY <1>1, <1>2, <1>3, <2>3, Zenon
    <3> QED
      BY <1>3, <3>1, ZenonT(30) DEF KeyInv, KeysReserved
  <2> QED
    BY <2>2, <2>3, Zenon
<1> QED
  BY <1>6, <1>7, <1>8, Zenon DEF KeyInv

\* A rotation that ends, refused by UpdateNodeKey or recorded.
LEMMA KeysRotated ==
  ASSUME Shape, KeyInv, NEW r \in Rotators, rots[r].pc # "updated",
         UNCHANGED <<nodes, pubKeyIdx, regs>>, rots' = [rots EXCEPT ![r] = None]
  PROVE  KeyInv'
<1>1. rots'[r] = None /\ \A s \in Rotators \ {r} : rots'[s] = rots[s]
  BY Zenon DEF Shape, DirectoryTypeOK
<1>2. /\ \A x, k : HasKey(x, k)' <=> HasKey(x, k)
      /\ \A s \in Rotators : InFlight(s)' => s # r /\ rots'[s] = rots[s] /\ InFlight(s)
      /\ \A s \in Rotators \ {r} : InFlight(s) => InFlight(s)' /\ rots'[s] = rots[s]
  BY <1>1, Zenon DEF HasKey, Live, InFlight
<1>3. KeysIndexed'
  <2> SUFFICES ASSUME NEW x \in NodeIDs, NEW k \in Keys, HasKey(x, k)'
               PROVE  Indexed(x, k)'
    BY Zenon DEF KeysIndexed
  <2>1. Indexed(x, k)
    BY <1>2, Zenon DEF KeyInv, KeysIndexed
  <2>2. ASSUME NEW s \in Rotators, InFlight(s), rots[s].pc = "updated", rots[s].id = x,
               rots[s].new = k
        PROVE  Indexed(x, k)'
    <3>1. s # r
      BY <2>2, Zenon
    <3> QED
      BY <1>2, <2>2, <3>1, Zenon DEF Indexed
  <2> QED
    BY <2>1, <2>2, Zenon DEF Indexed
<1>4. RotationsApart'
  <2>1. RotationsKept
    BY <1>2, Zenon DEF RotationsKept
  <2> QED
    BY <2>1, ApartKept, Zenon DEF KeyInv
<1>5. KeysReserved'
  BY <1>2, ZenonT(30) DEF KeyInv, KeysReserved
<1> QED
  BY <1>3, <1>4, <1>5, Zenon DEF KeyInv

\* Two nodes never share a key.
LEMMA OneHolder ==
  ASSUME KeyInv, NEW x \in NodeIDs, NEW y \in NodeIDs, NEW k \in Keys,
         HasKey(x, k), HasKey(y, k)
  PROVE  x = y
<1>1. Indexed(x, k) /\ Indexed(y, k)
  BY Zenon DEF KeyInv, KeysIndexed
<1>2. \A r \in Rotators : InFlight(r) /\ rots[r].pc = "updated" /\ rots[r].new = k =>
        x = rots[r].id /\ y = rots[r].id
  BY Zenon DEF KeyInv, KeysReserved
<1>3. CASE pubKeyIdx[k] = x /\ pubKeyIdx[k] = y
  BY <1>3, Zenon
<1>4. CASE ~(pubKeyIdx[k] = x /\ pubKeyIdx[k] = y)
  <2>1. \E r \in Rotators : InFlight(r) /\ rots[r].pc = "updated" /\ rots[r].new = k
    BY <1>1, <1>4, Zenon DEF Indexed
  <2> QED
    BY <1>2, <2>1, Zenon
<1> QED
  BY <1>3, <1>4, Zenon

\* UpdateNodeKey: the node has the new key, which no other has, and none has the old.
LEMMA KeysUpdate ==
  ASSUME Shape, KeyInv, NEW r \in Rotators, RotateUpdate(r),
         NEW id, id = rots[r].id, NEW old, old = rots[r].old, NEW new, new = rots[r].new,
         HasKey(id, old)
  PROVE  KeyInv'
<1>1. InFlight(r) /\ rots[r].pc = "verified"
  BY Zenon DEF RotateUpdate, InFlight
<1>2. id \in NodeIDs /\ old \in Keys /\ new \in Keys
  BY <1>1, RotationTypes, Zenon
<1>3. /\ nodes' = [nodes EXCEPT ![id].PublicKey = new, ![id].stale = FALSE]
      /\ rots' = [rots EXCEPT ![r].pc = "updated"] /\ UNCHANGED <<pubKeyIdx, regs>>
  BY Zenon DEF RotateUpdate, HasKey
<1>4. /\ rots'[r].pc = "updated" /\ InFlight(r)' /\ RotationsKept
      /\ \A s \in Rotators \ {r} : rots'[s] = rots[s]
  BY <1>1, <1>3, RotationMoves, Zenon
<1>5. rots'[r].id = id /\ rots'[r].old = old /\ rots'[r].new = new
  BY <1>4, Zenon DEF RotationsKept
<1>6. \A s \in Rotators \ {r} : InFlight(s)' <=> InFlight(s)
  BY <1>4, Zenon DEF InFlight
<1>7. /\ \A k : HasKey(id, k)' => k = new
      /\ \A x \in NodeIDs \ {id} : \A k : HasKey(x, k)' => HasKey(x, k)
  <2>1. nodes[id] \in NodeInfo
    BY <1>2, Zenon DEF HasKey, Live, Shape, DirectoryTypeOK, RegistryTypeOK, OrNone
  <2>2. nodes'[id].PublicKey = new /\ \A x \in NodeIDs \ {id} : nodes'[x] = nodes[x]
    BY <1>2, <1>3, <2>1, Zenon DEF Shape, DirectoryTypeOK, RegistryTypeOK, NodeInfo
  <2> QED
    BY <2>2, Zenon DEF HasKey, Live
<1>8. new # old /\ \A x \in NodeIDs : ~HasKey(x, new)
  BY <1>1, Zenon DEF KeyInv, RotationsApart, KeysReserved
<1>9. \A s \in Rotators \ {r} : InFlight(s) => rots[s].new # new /\ rots[s].old # new
  BY <1>1, Zenon DEF KeyInv, RotationsApart
<1>10. \A x \in NodeIDs : ~HasKey(x, old)'
  <2> SUFFICES ASSUME NEW x \in NodeIDs, HasKey(x, old)' PROVE FALSE
    BY Zenon
  <2>1. x # id
    BY <1>7, <1>8, Zenon
  <2>2. HasKey(x, old)
    BY <1>7, <2>1, Zenon
  <2>3. x = id
    BY <1>2, <2>2, OneHolder, Zenon
  <2> QED
    BY <2>1, <2>3, Zenon
<1>11. KeysIndexed'
  <2> SUFFICES ASSUME NEW x \in NodeIDs, NEW k \in Keys, HasKey(x, k)'
               PROVE  Indexed(x, k)'
    BY Zenon DEF KeysIndexed
  <2>1. CASE x = id
    <3>1. k = new
      BY <1>7, <2>1, Zenon
    <3> QED
      BY <1>4, <1>5, <2>1, <3>1, Zenon DEF Indexed
  <2>2. CASE x # id
    <3>1. Indexed(x, k)
      BY <1>7, <2>2, Zenon DEF KeyInv, KeysIndexed
    <3>2. ASSUME NEW s \in Rotators, InFlight(s), rots[s].pc = "updated", rots[s].id = x,
                 rots[s].new = k
          PROVE  Indexed(x, k)'
      <4>1. s # r
        BY <1>1, <3>2, Zenon
      <4> QED
        BY <1>4, <1>6, <3>2, <4>1, Zenon DEF Indexed
    <3> QED
      BY <1>3, <3>1, <3>2, Zenon DEF Indexed
  <2> QED
    BY <2>1, <2>2, Zenon
<1>12. RotationsApart'
  BY <1>3, <1>4, ApartKept, Zenon DEF KeyInv
<1>13. KeysReserved'
  <2> SUFFICES ASSUME NEW s \in Rotators, InFlight(s)'
               PROVE  /\ rots'[s].pc \in {"verified", "updated"} => pubKeyIdx'[rots'[s].new] = None
                      /\ \A x \in NodeIDs : \A k : HasKey(x, k)' =>
                           /\ rots'[s].pc = "verified" => k # rots'[s].new
                           /\ rots'[s].pc = "updated" =>
                                k # rots'[s].old /\ (k = rots'[s].new => x = rots'[s].id)
    BY Zenon DEF KeysReserved
  <2>1. CASE s = r
    <3>1. pubKeyIdx'[rots'[s].new] = None
      BY <1>1, <1>3, <1>5, <2>1, Zenon DEF KeyInv, KeysReserved
    <3>2. rots'[s].pc # "verified"
      BY <1>4, <2>1, Zenon
    <3>3. \A x \in NodeIDs : HasKey(x, new)' => x = id
      BY <1>7, <1>8, Zenon
    <3> QED
      BY <1>5, <1>10, <2>1, <3>1, <3>2, <3>3, Zenon
  <2>2. CASE s # r
    <3>1. InFlight(s) /\ rots'[s] = rots[s] /\ pubKeyIdx' = pubKeyIdx
      BY <1>3, <1>4, <1>6, <2>2, Zenon
    <3>2. \A x \in NodeIDs : \A k : HasKey(x, k)' => HasKey(x, k) \/ k = new
      BY <1>7, Zenon
    <3>3. rots[s].new # new /\ rots[s].old # new
      BY <1>9, <2>2, <3>1, Zenon
    <3> QED
      BY <3>1, <3>2, <3>3, Zenon DEF KeyInv, KeysReserved
  <2> QED
    BY <2>1, <2>2, Zenon
<1> QED
  BY <1>11, <1>12, <1>13, Zenon DEF KeyInv

\* OnKeyRotated: the old key leads nowhere, the new one to the node.
LEMMA KeysReindex ==
  ASSUME Shape, KeyInv, NEW r \in Rotators, OnKeyRotated(r),
         NEW id, id = rots[r].id, NEW old, old = rots[r].old, NEW new, new = rots[r].new
  PROVE  KeyInv'
<1>1. InFlight(r) /\ rots[r].pc = "updated" /\ UNCHANGED <<nodes, regs>>
  BY Zenon DEF OnKeyRotated, InFlight
<1>2. id \in NodeIDs /\ old \in Keys /\ new \in Keys
  BY <1>1, RotationTypes, Zenon
<1>3. /\ pubKeyIdx' = [pubKeyIdx EXCEPT ![old] = None, ![new] = id]
      /\ rots' = [rots EXCEPT ![r].pc = "indexed"]
  BY Zenon DEF OnKeyRotated
<1>4. /\ rots'[r].pc = "indexed" /\ RotationsKept
      /\ \A s \in Rotators \ {r} : rots'[s] = rots[s]
  BY <1>1, <1>3, RotationMoves, Zenon
<1>5. /\ \A x, k : HasKey(x, k)' <=> HasKey(x, k)
      /\ \A s \in Rotators \ {r} : InFlight(s)' <=> InFlight(s)
  BY <1>1, <1>4, Zenon DEF HasKey, Live, InFlight
<1>6. /\ pubKeyIdx'[new] = id /\ (old # new => pubKeyIdx'[old] = None)
      /\ \A k \in Keys : k # new /\ k # old => pubKeyIdx'[k] = pubKeyIdx[k]
  BY <1>2, <1>3, Zenon DEF Shape, DirectoryTypeOK, RegistryTypeOK
<1>7. \A x \in NodeIDs : \A k : HasKey(x, k) => k # old /\ (k = new => x = id)
  BY <1>1, Zenon DEF KeyInv, KeysReserved
<1>8. KeysIndexed'
  <2> SUFFICES ASSUME NEW x \in NodeIDs, NEW k \in Keys, HasKey(x, k)'
               PROVE  Indexed(x, k)'
    BY Zenon DEF KeysIndexed
  <2>1. k # old /\ (k = new => x = id)
    BY <1>5, <1>7, Zenon
  <2>2. CASE k = new
    BY <1>6, <2>1, <2>2, Zenon DEF Indexed
  <2>3. CASE k # new
    <3>1. Indexed(x, k) /\ pubKeyIdx'[k] = pubKeyIdx[k]
      BY <1>5, <1>6, <2>1, <2>3, Zenon DEF KeyInv, KeysIndexed
    <3>2. ASSUME NEW s \in Rotators, InFlight(s), rots[s].pc = "updated", rots[s].id = x,
                 rots[s].new = k
          PROVE  Indexed(x, k)'
      <4>1. s # r
        BY <2>3, <3>2, Zenon
      <4> QED
        BY <1>4, <1>5, <3>2, <4>1, Zenon DEF Indexed
    <3> QED
      BY <3>1, <3>2, Zenon DEF Indexed
  <2> QED
    BY <2>2, <2>3, Zenon
<1>9. RotationsApart'
  BY <1>1, <1>4, ApartKept, Zenon DEF KeyInv
<1>10. KeysReserved'
  <2> SUFFICES ASSUME NEW s \in Rotators, InFlight(s)'
               PROVE  /\ rots'[s].pc \in {"verified", "updated"} => pubKeyIdx'[rots'[s].new] = None
                      /\ \A x \in NodeIDs : \A k : HasKey(x, k)' =>
                           /\ rots'[s].pc = "verified" => k # rots'[s].new
                           /\ rots'[s].pc = "updated" =>
                                k # rots'[s].old /\ (k = rots'[s].new => x = rots'[s].id)
    BY Zenon DEF KeysReserved
  <2>1. CASE s = r
    BY <1>4, <2>1, Zenon
  <2>2. CASE s # r
    <3>1. InFlight(s) /\ rots'[s] = rots[s]
      BY <1>4, <1>5, <2>2, Zenon
    <3>2. rots[s].new \in Keys /\ rots[s].new # new
      BY <1>1, <2>2, <3>1, RotationTypes, Zenon DEF KeyInv, RotationsApart
    <3>3. pubKeyIdx[rots[s].new] = None => pubKeyIdx'[rots[s].new] = None
      BY <1>6, <3>2, Zenon
    <3> QED
      BY <1>5, <3>1, <3>3, Zenon DEF KeyInv, KeysReserved
  <2> QED
    BY <2>1, <2>2, Zenon
<1> QED
  BY <1>8, <1>9, <1>10, Zenon DEF KeyInv

\* The steps of a rotation.
LEMMA KeysRotate ==
  ASSUME SerialDaemons, Shape, KeyInv, NEW r \in Rotators, RotateStep(r)
  PROVE  KeyInv'
<1>1. ASSUME NEW id \in NodeIDs, NEW new \in Keys, RotateVerify(r, id, new) PROVE KeyInv'
  BY <1>1, KeysVerify, Zenon
<1>2. CASE RotateUpdate(r)
  <2>1. CASE HasKey(rots[r].id, rots[r].old)
    BY <1>2, <2>1, KeysUpdate, Zenon
  <2>2. CASE ~HasKey(rots[r].id, rots[r].old)
    <3>1. /\ rots[r].pc # "updated" /\ UNCHANGED <<nodes, pubKeyIdx, regs>>
          /\ rots' = [rots EXCEPT ![r] = None]
      BY <1>2, <2>2, Zenon DEF RotateUpdate, HasKey
    <3> QED
      BY <3>1, KeysRotated, Zenon
  <2> QED
    BY <2>1, <2>2, Zenon
<1>3. CASE OnKeyRotated(r)
  BY <1>3, KeysReindex, Zenon
<1>4. CASE RotateRecord(r)
  <2>1. /\ rots[r].pc # "updated" /\ UNCHANGED <<nodes, pubKeyIdx, regs>>
        /\ rots' = [rots EXCEPT ![r] = None]
    BY <1>4, Zenon DEF RotateRecord, directoryVars
  <2> QED
    BY <2>1, KeysRotated, Zenon
<1> QED
  BY <1>1, <1>2, <1>3, <1>4, Zenon DEF RotateStep

\* Every step keeps the nodes indexed and the rotations apart.
LEMMA KeyInvNext ==
  ASSUME SerialDaemons, Shape, NextIDUnused, KeyInv, [DirectoryNext]_dirVars
  PROVE  KeyInv'
<1>1. CASE UNCHANGED dirVars
  <2>1. UNCHANGED <<nodes, pubKeyIdx, rots, regs>>
    BY <1>1, Zenon DEF dirVars, registryVars, directoryVars, requestVars
  <2>2. \A x \in NodeIDs : \A k : HasKey(x, k)' => HasKey(x, k)
    BY <2>1, Zenon DEF HasKey, Live
  <2> QED
    BY <2>1, <2>2, KeysQuietRequests, Zenon
<1>2. ASSUME NEW c \in Clients, RegisterStep(c) PROVE KeyInv'
  <2>1. ASSUME NEW key \in Keys, NEW owner, NEW hostname, NEW sig,
               RegisterBegin(c, key, owner, hostname, sig)
        PROVE  KeyInv'
    BY <2>1, KeysBegin, Zenon
  <2> QED
    BY <1>2, <2>1, KeysRegisterQuiet, KeysRegisterArrival, Zenon DEF RegisterStep
<1>3. ASSUME NEW r \in Rotators, RotateStep(r) PROVE KeyInv'
  BY <1>3, KeysRotate, Zenon
<1> QED
  BY <1>1, <1>2, <1>3, KeysNode, Zenon DEF DirectoryNext

\* KeyInv holds throughout.
LEMMA KeyInvHolds ==
  ASSUME SerialDaemons
  PROVE  DirectorySpec => [](Shape /\ KeyInv)
<1>1. DirectoryInit => KeyInv
  <2> SUFFICES ASSUME DirectoryInit PROVE KeyInv
    OBVIOUS
  <2>1. /\ \A x \in NodeIDs : \A k : ~HasKey(x, k)
        /\ \A r \in Rotators : ~InFlight(r)
    BY Zenon DEF DirectoryInit, RegistryInit, HasKey, Live, InFlight
  <2> QED
    BY <2>1, Zenon DEF KeyInv, KeysIndexed, RotationsApart, KeysReserved
<1>2. Shape /\ NextIDUnused /\ KeyInv /\ [DirectoryNext]_dirVars => KeyInv'
  BY KeyInvNext, Zenon
<1>3. Shape /\ [DirectoryNext]_dirVars => Shape'
  BY ShapeNext
<1> QED
  BY <1>1, <1>2, <1>3, ShapeInit, NextIDNeverUsed, PTL DEF DirectorySpec

\* Every live node is found by its key, except between UpdateNodeKey and OnKeyRotated of
\* its rotation: for any number of nodes, keys, registers and rotations in flight, the
\* next register of a node refreshes it and takes no second id -- provided that a daemon
\* has no register under way while it rotates, and rotates to a key just generated.
THEOREM KeysAreIndexed ==
  ASSUME SerialDaemons
  PROVE  DirectorySpec => []KeyIndexComplete
<1>1. Shape /\ KeyInv => KeyIndexComplete
  BY KeyIndexForm, Zenon DEF KeyInv
<1> QED
  BY <1>1, KeyInvHolds, PTL

\* No two live nodes have the same key.
KeysUnique ==
  \A a, b \in LiveIDs : a # b => nodes[a].PublicKey # nodes[b].PublicKey

\* Under the same proviso no two live nodes ever have the same key, whatever registers,
\* reclaims, rotations and reaper passes interleave: one key is one node.
THEOREM KeysAreUnique ==
  ASSUME SerialDaemons
  PROVE  DirectorySpec => []KeysUnique
<1>1. ASSUME Shape, KeyInv PROVE KeysUnique
  <2> SUFFICES ASSUME NEW a \in LiveIDs, NEW b \in LiveIDs, NEW k,
                      k = nodes[a].PublicKey, k = nodes[b].PublicKey
               PROVE  a = b
    BY Zenon DEF KeysUnique
  <2>1. a \in NodeIDs /\ Live(a) /\ b \in NodeIDs /\ Live(b)
    BY Zenon DEF LiveIDs
  <2>2. nodes[a] \in NodeInfo
    BY <1>1, <2>1, Zenon DEF Live, Shape, DirectoryTypeOK, RegistryTypeOK, OrNone
  <2>3. k \in Keys /\ HasKey(a, k) /\ HasKey(b, k)
    BY <2>1, <2>2, Zenon DEF NodeInfo, HasKey
  <2> QED
    BY <1>1, <2>1, <2>3, OneHolder, Zenon
<1> QED
  BY <1>1, KeyInvHolds, PTL

=============================================================================

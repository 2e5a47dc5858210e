---------------------------- MODULE Provisioning ----------------------------
(***************************************************************************)
(* provision_network, directory_sync, role pre-assignments and the network *)
(* policies, against joins, leaves and deletions.  A blueprint is applied  *)
(* in steps that take the lock each, so a network may be deleted or change *)
(* between two of them; the two policy commands read the network in one    *)
(* section and write policy and expression policy together in a later one. *)
(* The blueprint's identity provider, webhook and audit export steps only  *)
(* call operations of modules Tokens, Webhook and AuditExport.             *)
(***************************************************************************)
EXTENDS Naturals, FiniteSets

CONSTANTS
  MemberNodes,       \* registered nodes
  MaxNet,            \* networks ever created
  ExtIDs,            \* external ids, normalised
  Nil,               \* absent, empty
  Blueprints,        \* [name, enterprise, max, expr, roles : ExtIDs -> role or Nil]
  SyncRoles,         \* roles directory entries carry
  DisplayNames,      \* display names directory entries carry
  Callers,           \* provision and policy requests in flight
  MaxOps             \* requests of all kinds in a behaviour

NetNos == 1..MaxNet
NoRole == [x \in MemberNodes |-> Nil]

\* The roles, limits and expression policies there are, and the record of a network.
AnyRole == {"member", Nil} \cup SyncRoles \cup {bp.roles[e] : bp \in Blueprints, e \in ExtIDs}
Limits == {0, 1} \cup {bp.max : bp \in Blueprints}
Exprs == {Nil} \cup {bp.expr : bp \in Blueprints}

ProvisionedNet ==
  [name : {bp.name : bp \in Blueprints}, enterprise : BOOLEAN, members : SUBSET MemberNodes,
   roles : [MemberNodes -> AnyRole], max : Limits, expr : Exprs]

ASSUME ProvisioningAssumption ==
  /\ MaxNet \in Nat /\ MaxOps \in Nat
  /\ Nil \notin ExtIDs \cup DisplayNames
  /\ Nil \notin ProvisionedNet
  /\ \A bp \in Blueprints : bp.enterprise \in BOOLEAN /\ bp.roles \in [ExtIDs -> AnyRole]

VARIABLES
  nets,       \* name, enterprise, members, roles, max, expr; Nil when deleted
  next,       \* Server.nextNet
  joined,     \* per node: the networks its record lists
  extOf,      \* per node: ExternalID
  nameOf,     \* per node: Hostname
  rbacPreAssign,     \* per network: ExtIDs -> role or Nil
  pend,       \* per caller: step, network, blueprint or what was read
  ops         \* requests so far

provVars == <<nets, next, joined, extOf, nameOf, rbacPreAssign, pend, ops>>

NoCall == [step |-> "idle"]
NoPre == [e \in ExtIDs |-> Nil]
There(n) == nets[n] # Nil

ProvisioningInit ==
  /\ nets = [n \in NetNos |-> Nil]
  /\ next = 1
  /\ joined = [x \in MemberNodes |-> {}]
  /\ extOf = [x \in MemberNodes |-> Nil]
  /\ nameOf = [x \in MemberNodes |-> Nil]
  /\ rbacPreAssign = [n \in NetNos |-> NoPre]
  /\ pend = [c \in Callers |-> NoCall]
  /\ ops = 0

OneMore == ops < MaxOps /\ ops' = ops + 1
To(c, step) == pend' = [pend EXCEPT ![c].step = step]
Drop(c) == pend' = [pend EXCEPT ![c] = NoCall]

NewNet(name, enterprise) ==
  [name |-> name, enterprise |-> enterprise, members |-> {}, roles |-> NoRole,
   max |-> 0, expr |-> Nil]

-----------------------------------------------------------------------------
(* provision_network: ApplyBlueprint *)

HandleProvisionNetwork(c, bp) ==
  /\ pend[c] = NoCall
  /\ OneMore
  /\ pend' = [pend EXCEPT ![c] = [step |-> "find", bp |-> bp, net |-> 0]]
  /\ UNCHANGED <<nets, next, joined, extOf, nameOf, rbacPreAssign>>

Named(name) == {n \in NetNos : There(n) /\ nets[n].name = name}

\* The network of that name, or a new one without members; the counter is not
\* compared with its end, which the bound MaxNet keeps away.
findOrCreateNetwork(c) ==
  /\ pend[c].step = "find"
  /\ LET bp == pend[c].bp
     IN \/ \E n \in Named(bp.name) :
             /\ pend' = [pend EXCEPT ![c] = [step |-> "enterprise", bp |-> bp, net |-> n]]
             /\ UNCHANGED <<nets, next>>
        \/ /\ Named(bp.name) = {}
           /\ next \in NetNos
           /\ nets' = [nets EXCEPT ![next] = NewNet(bp.name, bp.enterprise)]
           /\ next' = next + 1
           /\ pend' = [pend EXCEPT ![c] = [step |-> "enterprise", bp |-> bp, net |-> next]]
  /\ UNCHANGED <<joined, extOf, nameOf, rbacPreAssign, ops>>

\* Skipped in silence when the network is gone; no roles are handed out.
enableEnterprise(c) ==
  /\ pend[c].step = "enterprise"
  /\ LET n == pend[c].net
     IN nets' = IF pend[c].bp.enterprise /\ There(n)
                THEN [nets EXCEPT ![n].enterprise = TRUE] ELSE nets
  /\ To(c, "policy")
  /\ UNCHANGED <<next, joined, extOf, nameOf, rbacPreAssign, ops>>

\* applyBlueprintPolicy then applyBlueprintExprPolicy: an error when the network is
\* gone ends the request; the limit is not compared with the member count.
applyBlueprintPolicy(c) ==
  /\ pend[c].step = "policy"
  /\ LET n == pend[c].net
         max == pend[c].bp.max
     IN IF max # 0 /\ ~There(n) THEN Drop(c) /\ UNCHANGED nets
        ELSE /\ nets' = IF max # 0 THEN [nets EXCEPT ![n].max = max] ELSE nets
             /\ To(c, "expr")
  /\ UNCHANGED <<next, joined, extOf, nameOf, rbacPreAssign, ops>>

applyBlueprintExprPolicy(c) ==
  /\ pend[c].step = "expr"
  /\ LET n == pend[c].net
         expr == pend[c].bp.expr
     IN IF expr # Nil /\ ~There(n) THEN Drop(c) /\ UNCHANGED nets
        ELSE /\ nets' = IF expr # Nil THEN [nets EXCEPT ![n].expr = expr] ELSE nets
             /\ To(c, "roles")
  /\ UNCHANGED <<next, joined, extOf, nameOf, rbacPreAssign, ops>>

\* The list replaces the one stored, even for a network deleted meanwhile.
storeRBACPreAssignments(c) ==
  /\ pend[c].step = "roles"
  /\ rbacPreAssign' = IF pend[c].bp.roles # NoPre
                      THEN [rbacPreAssign EXCEPT ![pend[c].net] = pend[c].bp.roles]
                      ELSE rbacPreAssign
  /\ Drop(c)
  /\ UNCHANGED <<nets, next, joined, extOf, nameOf, ops>>

-----------------------------------------------------------------------------
(* Joins, leaves, external ids, deletion *)

\* The role a joining node gets: a pre-assigned one if its external id has one.
applyRBACPreAssignment(n, x) ==
  IF extOf[x] # Nil /\ rbacPreAssign[n][extOf[x]] # Nil
  THEN rbacPreAssign[n][extOf[x]] ELSE "member"

JoinProvisioned(x, n) ==
  /\ There(n)
  /\ n \notin joined[x]
  /\ nets[n].max > 0 => Cardinality(nets[n].members) < nets[n].max
  /\ OneMore
  /\ nets' = [nets EXCEPT ![n].members = @ \cup {x},
                          ![n].roles[x] = applyRBACPreAssignment(n, x)]
  /\ joined' = [joined EXCEPT ![x] = @ \cup {n}]
  /\ UNCHANGED <<next, extOf, nameOf, rbacPreAssign, pend>>

SetExternalID(x, e) ==
  /\ OneMore
  /\ extOf' = [extOf EXCEPT ![x] = e]
  /\ UNCHANGED <<nets, next, joined, nameOf, rbacPreAssign, pend>>

\* delete_network leaves the pre-assignments behind.
DeleteProvisioned(n) ==
  /\ There(n)
  /\ OneMore
  /\ nets' = [nets EXCEPT ![n] = Nil]
  /\ joined' = [x \in MemberNodes |-> joined[x] \ {n}]
  /\ UNCHANGED <<next, extOf, nameOf, rbacPreAssign, pend>>

-----------------------------------------------------------------------------
(* directory_sync, under the write lock from start to end *)

\* extToNode: of several members with one external id the last in the list counts.
Mappings(n) ==
  LET of(e) == {x \in nets[n].members : extOf[x] = e}
  IN {m \in [ExtIDs -> MemberNodes \cup {Nil}] :
        \A e \in ExtIDs : IF of(e) = {} THEN m[e] = Nil ELSE m[e] \in of(e)}

removeMembers_KeepRoles(net, gone) == [net EXCEPT !.members = @ \ gone]

removeMembers(net, gone) ==
  [net EXCEPT !.members = @ \ gone,
              !.roles = [x \in MemberNodes |-> IF x \in gone THEN Nil ELSE @[x]]]

\* One entry per external id (entries): listed or not, disabled or not, with a role
\* or none.  A listed id that no member has is kept as a pre-assignment, unless the
\* network already has one for it.  Of the nodes the display name would go to, the
\* first in the list that has no hostname gets it, if it is free.
applyDirectorySync(n, listed, disabled, role, display, removeUnlisted) ==
  /\ There(n)
  /\ nets[n].enterprise
  /\ OneMore
  /\ \E map \in Mappings(n) :
       LET mapped == {e \in listed : map[e] # Nil}
           out == {map[e] : e \in mapped \cap disabled} \cup
                  (IF removeUnlisted
                   THEN {x \in nets[n].members : extOf[x] \notin listed \cup {Nil}} ELSE {})
           ranked == {map[e] : e \in mapped \ disabled}
           net == [nets[n] EXCEPT !.roles = [x \in MemberNodes |->
                     IF role # Nil /\ x \in ranked THEN role ELSE @[x]]]
           named == {x \in ranked : /\ display # Nil
                                    /\ nameOf[x] = Nil
                                    /\ \A y \in MemberNodes : nameOf[y] # display}
       IN /\ nets' = [nets EXCEPT ![n] = removeMembers(net, out)]
          /\ joined' = [x \in MemberNodes |-> IF x \in out THEN joined[x] \ {n} ELSE joined[x]]
          /\ rbacPreAssign' = [rbacPreAssign EXCEPT ![n] = [e \in ExtIDs |->
               IF e \in listed \ mapped /\ @[e] = Nil THEN role ELSE @[e]]]
          /\ IF named = {} THEN UNCHANGED nameOf
             ELSE \E x \in named : nameOf' = [nameOf EXCEPT ![x] = display]
  /\ UNCHANGED <<next, extOf, pend>>

-----------------------------------------------------------------------------
(* set_network_policy and set_expr_policy *)

\* The enterprise check and the read of the network: what the write will put back.
ReadPolicy(c, n, kind, v) ==
  /\ pend[c] = NoCall
  /\ There(n)
  /\ kind = "max" => nets[n].enterprise /\ (v > 0 => Cardinality(nets[n].members) <= v)
  /\ OneMore
  /\ pend' = [pend EXCEPT ![c] = [step |-> "write", net |-> n,
       max |-> IF kind = "max" THEN v ELSE nets[n].max,
       expr |-> IF kind = "expr" THEN v ELSE nets[n].expr]]
  /\ UNCHANGED <<nets, next, joined, extOf, nameOf, rbacPreAssign>>

WritePolicy(c) ==
  /\ pend[c].step = "write"
  /\ nets' = IF There(pend[c].net)
             THEN [nets EXCEPT ![pend[c].net].max = pend[c].max, ![pend[c].net].expr = pend[c].expr]
             ELSE nets
  /\ Drop(c)
  /\ UNCHANGED <<next, joined, extOf, nameOf, rbacPreAssign, ops>>

-----------------------------------------------------------------------------

ProvisioningNext ==
  \/ \E c \in Callers :
       \/ \E bp \in Blueprints : HandleProvisionNetwork(c, bp)
       \/ findOrCreateNetwork(c) \/ enableEnterprise(c)
       \/ applyBlueprintPolicy(c) \/ applyBlueprintExprPolicy(c)
       \/ storeRBACPreAssignments(c)
       \/ \E n \in NetNos : ReadPolicy(c, n, "max", 1) \/ ReadPolicy(c, n, "expr", Nil)
       \/ WritePolicy(c)
  \/ \E x \in MemberNodes :
       \/ \E n \in NetNos : JoinProvisioned(x, n)
       \/ \E e \in ExtIDs : SetExternalID(x, e)
  \/ \E n \in NetNos :
       \/ DeleteProvisioned(n)
       \/ \E listed \in SUBSET ExtIDs \ {{}} :
            \E disabled \in SUBSET listed, role \in SyncRoles \cup {Nil},
               display \in DisplayNames \cup {Nil}, removeUnlisted \in BOOLEAN :
              applyDirectorySync(n, listed, disabled, role, display, removeUnlisted)

ProvisioningSpec == ProvisioningInit /\ [][ProvisioningNext]_provVars

-----------------------------------------------------------------------------
\* Through pre-assigned joins, syncs that disable or drop members and deletions, a
\* network lists a node exactly when the node's record lists the network, and roles,
\* which later role checks read without looking at the members, are the members'.
SyncKeepsMembership ==
  \A x \in MemberNodes, n \in NetNos :
    /\ n \in joined[x] <=> There(n) /\ x \in nets[n].members
    /\ There(n) /\ nets[n].roles[x] # Nil => x \in nets[n].members
=============================================================================

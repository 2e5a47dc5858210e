------------------------------ MODULE Resolve -------------------------------
(***************************************************************************)
(* The read requests of a node about another: lookup, resolve (JSON and    *)
(* binary), resolve_hostname, check_trust and punch.  They change nothing, *)
(* so one request is in flight.  A handler takes several critical sections *)
(* and keeps pointers to node objects between them: a node that leaves the *)
(* directory meanwhile leaves its object behind, as it last was, and one   *)
(* that comes back has a new object.  Signatures that do not verify end a  *)
(* request and do not appear; neither do the addresses, which are the      *)
(* node's or, of a relay-only node, the beacon's.                          *)
(***************************************************************************)
EXTENDS Naturals

CONSTANT Networks     \* networks beside the backbone, which is 0

ASSUME ResolveAssumption == 0 \notin Networks

Parties == {"requester", "target"}

VARIABLES
  strict,          \* Server.strictDirectoryAuth
  present,         \* the parties in Server.nodes
  object,          \* per party: Public and Networks, when it left if it is not present
  trusted,         \* whether the two are a trust pair
  ask,             \* the request: kind, phase, what it has read, the objects it holds and,
                   \* of those whose node has left, what they are
  was              \* history: what has held at some moment since the request began

worldVars == <<strict, present, object, trusted>>
resolveVars == <<worldVars, ask, was>>

NewNode == [public |-> FALSE, nets |-> {0}]
NoAsk == [kind |-> "none", at |-> "idle", trustOK |-> FALSE, nets |-> {},
          holds |-> {}, gone |-> {}, left |-> [p \in Parties |-> NewNode]]
NothingYet == [public |-> FALSE, trusted |-> FALSE, shared |-> FALSE, in |-> {}]

ResolveInit ==
  /\ strict \in BOOLEAN
  /\ present = Parties
  /\ object = [p \in Parties |-> NewNode]
  /\ trusted = FALSE
  /\ ask = NoAsk
  /\ was = NothingYet

-----------------------------------------------------------------------------
(* The other handlers, as far as these requests see them *)

SharedNetwork_Backbone(a, b) == a \cap b # {}

\* Every node is in the backbone, which does not count.
SharedNetwork(a, b) == (a \cap b) \ {0} # {}

\* What holds now, of the parties in the directory.
Holds ==
  [public |-> "target" \in present /\ object["target"].public,
   trusted |-> trusted,
   shared |-> present = Parties /\ \E n \in Networks : \A p \in Parties : n \in object[p].nets,
   in |-> {pn \in present \X Networks : pn[2] \in object[pn[1]].nets}]

\* The history of the request in flight.
Observe ==
  was' = IF ask.at = "idle" THEN NothingYet
         ELSE [public |-> was.public \/ Holds.public', trusted |-> was.trusted \/ Holds.trusted',
               shared |-> was.shared \/ Holds.shared', in |-> was.in \cup Holds.in']

\* Only the target's visibility is ever read.
HandleSetVisibility(public) ==
  /\ "target" \in present
  /\ object' = [object EXCEPT !["target"].public = public]
  /\ UNCHANGED <<strict, present, trusted, ask>>
  /\ Observe

ChangeNetworks(p, nets) ==
  /\ p \in present
  /\ object' = [object EXCEPT ![p].nets = nets \cup {0}]
  /\ UNCHANGED <<strict, present, trusted, ask>>
  /\ Observe

ChangeTrust ==
  /\ trusted' = ~trusted
  /\ UNCHANGED <<strict, present, object, ask>>
  /\ Observe

\* Deregistration and the reaper take the node out of the map; a request that holds
\* the object keeps it as it is.
LeaveDirectory(p) ==
  /\ p \in present
  /\ present' = present \ {p}
  /\ ask' = IF p \in ask.holds \ ask.gone
            THEN [ask EXCEPT !.gone = @ \cup {p}, !.left[p] = object[p]] ELSE ask
  /\ UNCHANGED <<strict, object, trusted>>
  /\ Observe

\* A node that comes back is not public, and is in the networks it was not removed from.
ComeBack(p, kept) ==
  /\ p \notin present
  /\ kept \subseteq object[p].nets
  /\ present' = present \cup {p}
  /\ object' = [object EXCEPT ![p] = [NewNode EXCEPT !.nets = kept \cup {0}]]
  /\ UNCHANGED <<strict, trusted, ask>>
  /\ Observe

-----------------------------------------------------------------------------
(* The requests *)

Asking(kind, phase) == ask.kind = kind /\ ask.at = phase
Go(phase) == ask' = [ask EXCEPT !.at = phase]
Held(p) == IF p \in ask.gone THEN ask.left[p] ELSE object[p]
Deny == Go("denied")
Read == UNCHANGED <<worldVars, was>>

Arrive(kind) ==
  /\ ask.at = "idle"
  /\ ask' = [NoAsk EXCEPT !.kind = kind, !.at = "begin"]
  /\ was' = Holds
  /\ UNCHANGED worldVars

\* HandleLookup: strict mode wants a private node's requester authorized.
HandleLookup ==
  /\ Asking("lookup", "begin")
  /\ IF "target" \notin present THEN Deny
     ELSE ask' = [ask EXCEPT !.holds = {"target"},
            !.at = IF strict /\ ~object["target"].public THEN "authorize" ELSE "answer"]
  /\ Read

\* authorizeLookup reads the target's networks from the object found before.
authorizeLookup ==
  /\ Asking("lookup", "authorize")
  /\ IF /\ "requester" \in present
        /\ trusted \/ SharedNetwork(object["requester"].nets, Held("target").nets)
     THEN Go("answer") ELSE Deny
  /\ Read

\* The answer, under the shard lock: the endpoint goes with a node that is public.
LookupAnswer ==
  /\ ask.kind \in {"lookup", "binary_lookup"} /\ ask.at = "answer"
  /\ Go(IF Held("target").public THEN "endpoint" ELSE "record")
  /\ Read

HandleBinaryLookup ==
  /\ Asking("binary_lookup", "begin")
  /\ IF "target" \notin present \/ (strict /\ ~object["target"].public) THEN Deny
     ELSE ask' = [ask EXCEPT !.holds = {"target"}, !.at = "answer"]
  /\ Read

\* The requester's key is read and the signature verified; then both nodes are read.
VerifyRequester ==
  /\ ask.kind \in {"resolve", "binary_resolve", "punch"} /\ ask.at = "begin"
  /\ IF "requester" \in present THEN Go("verified") ELSE Deny
  /\ Read

\* HandleResolve decides in one section; the address is read in a later one, from the
\* object found there.
HandleResolve ==
  /\ Asking("resolve", "verified")
  /\ IF present # Parties THEN Deny
     ELSE IF \/ object["target"].public \/ trusted
             \/ SharedNetwork(object["requester"].nets, object["target"].nets)
     THEN Go("endpoint") ELSE Deny
  /\ Read

\* HandleBinaryResolve reads the pointers and the trust pair, ...
HandleBinaryResolve ==
  /\ Asking("binary_resolve", "verified")
  /\ IF present # Parties THEN Deny
     ELSE ask' = [ask EXCEPT !.at = "nets", !.trustOK = trusted, !.holds = Parties]
  /\ Read

\* ... copies the requester's networks under its shard lock, ...
CopyRequesterNetworks ==
  /\ Asking("binary_resolve", "nets")
  /\ ask' = [ask EXCEPT !.at = "decide", !.nets = Held("requester").nets]
  /\ Read

\* ... and decides and answers under the target's.
BinaryResolveAnswer ==
  /\ Asking("binary_resolve", "decide")
  /\ IF Held("target").public \/ ask.trustOK \/ SharedNetwork(ask.nets, Held("target").nets)
     THEN Go("endpoint") ELSE Deny
  /\ Read

\* HandleResolveHostname reads everything in one section, the requester only if it is
\* there; strict mode wants it there.
HandleResolveHostname ==
  /\ Asking("resolve_hostname", "begin")
  /\ LET there == "requester" \in present
     IN IF "target" \notin present THEN Deny
        ELSE IF object["target"].public THEN Go("record")
        ELSE IF /\ strict => there
                /\ trusted \/ (there /\ SharedNetwork(object["requester"].nets, object["target"].nets))
        THEN Go("record") ELSE Deny
  /\ Read

\* HandleCheckTrust asks for the pair, then for the networks of one and of the other.
HandleCheckTrust ==
  /\ Asking("check_trust", "begin")
  /\ IF strict /\ "requester" \notin present THEN Deny
     ELSE Go(IF trusted THEN "record" ELSE "nets")
  /\ Read

CheckNetworksA ==
  /\ Asking("check_trust", "nets")
  /\ IF "requester" \notin present THEN Deny
     ELSE ask' = [ask EXCEPT !.at = "decide", !.nets = object["requester"].nets]
  /\ Read

CheckNetworksB ==
  /\ Asking("check_trust", "decide")
  /\ IF "target" \in present /\ SharedNetwork(ask.nets, object["target"].nets)
     THEN Go("record") ELSE Deny
  /\ Read

\* HandlePunch: strict mode wants the pair; the addresses are read afterwards.
HandlePunch ==
  /\ Asking("punch", "verified")
  /\ IF strict /\ ~trusted THEN Deny ELSE Go("addrs")
  /\ Read

NodeAddrs ==
  /\ Asking("punch", "addrs")
  /\ IF present = Parties THEN Go("endpoint") ELSE Deny
  /\ Read

Over ==
  /\ ask.at \in {"endpoint", "record", "denied"}
  /\ ask' = NoAsk /\ was' = NothingYet
  /\ UNCHANGED worldVars

Kinds == {"lookup", "binary_lookup", "resolve", "binary_resolve", "resolve_hostname",
          "check_trust", "punch"}

ResolveNext ==
  \/ \E public \in BOOLEAN : HandleSetVisibility(public)
  \/ \E p \in Parties :
       \/ \E nets \in SUBSET Networks : ChangeNetworks(p, nets) \/ ComeBack(p, nets)
       \/ LeaveDirectory(p)
  \/ ChangeTrust
  \/ \E kind \in Kinds : Arrive(kind)
  \/ HandleLookup \/ authorizeLookup \/ LookupAnswer \/ HandleBinaryLookup
  \/ VerifyRequester \/ HandleResolve
  \/ HandleBinaryResolve \/ CopyRequesterNetworks \/ BinaryResolveAnswer
  \/ HandleResolveHostname
  \/ HandleCheckTrust \/ CheckNetworksA \/ CheckNetworksB
  \/ HandlePunch \/ NodeAddrs
  \/ Over

ResolveSpec == ResolveInit /\ [][ResolveNext]_resolveVars

-----------------------------------------------------------------------------
\* Each of the two has been in one of the networks, though maybe not at once: the
\* binary resolve, check_trust and authorizeLookup read the two lists apart.
BothIn(n) == \A p \in Parties : <<p, n>> \in was.in

\* What a request discloses of a private node was consented to while the request was
\* being worked on.  A resolve, and a resolve_hostname, need a moment at which the
\* target was public, trusted the requester or shared a network with it; a binary
\* resolve, a check_trust and, in strict mode, a lookup need each of the two to have
\* been in a network of both; a lookup shows the endpoint of a node that was public; a
\* punch in strict mode needs the pair ("require the requester to prove trust or
\* shared-network membership", SetStrictDirectoryAuth).
DisclosureConsented ==
  LET apart == was.trusted \/ \E n \in Networks : BothIn(n)
      answered(kinds) == ask.kind \in kinds /\ ask.at \in {"endpoint", "record"}
  IN /\ answered({"resolve", "resolve_hostname"}) => was.public \/ was.trusted \/ was.shared
     /\ answered({"binary_resolve"}) => was.public \/ apart
     /\ answered({"lookup", "binary_lookup"}) /\ strict => was.public \/ apart
     /\ answered({"lookup", "binary_lookup"}) /\ ask.at = "endpoint" => was.public
     /\ answered({"check_trust"}) => apart
     /\ answered({"punch"}) /\ strict => was.trusted
=============================================================================

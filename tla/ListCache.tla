----------------------------- MODULE ListCache ------------------------------
(***************************************************************************)
(* The cached list_nodes answers of package directory.  The entry of a     *)
(* network (PerNetworkListNodesCached) is an object in a map: an           *)
(* invalidation deletes it from the map, while a request that already has  *)
(* the object goes on building or waiting on it.  The backbone's           *)
(* (AdminListNodesCached) is one object whose BuiltAt an invalidation      *)
(* zeroes.  Either way one request builds and the others that find it      *)
(* building wait on the object's condition variable.                       *)
(***************************************************************************)
EXTENDS Naturals, FiniteSets

CONSTANTS
  Listers,           \* list_nodes requests in flight
  MaxObjects,        \* entries made for the network
  MaxChanges         \* changes of the membership

Objects == 0..MaxObjects       \* 0 is the backbone's
Caches == {"admin", "net"}

ASSUME ListCacheAssumption == MaxObjects \in Nat \ {0} /\ MaxChanges \in Nat

VARIABLES
  entry,      \* listNodesPerNet: the network's object, 0 if none
  made,       \* objects made for the network
  obj,        \* per object: FullBody, built (it is not nil), fresh (within the TTL), Building, LastBuildErr
  list,       \* per request: cache, phase, object, what it scanned, what it must see
  truth,      \* per cache: the membership, by number of changes; exists (the network does)
  invalidated \* per cache: changes whose invalidation has been made

listVars == <<entry, made, obj, list, truth, invalidated>>

NewObject == [body |-> 0, built |-> FALSE, fresh |-> FALSE, building |-> FALSE, err |-> FALSE]
NoList == [cache |-> "net", at |-> "new", o |-> 0, body |-> 0, must |-> 0]

ListCacheInit ==
  /\ entry = 0
  /\ made = 0
  /\ obj = [o \in Objects |-> NewObject]
  /\ list = [r \in Listers |-> NoList]
  /\ truth = [c \in Caches |-> [version |-> 0, exists |-> TRUE]]
  /\ invalidated = [c \in Caches |-> 0]

\* The request takes the object, making one for a network that has none.
TakeObject(r, c) ==
  /\ list[r].at = "new"
  /\ IF c = "admin" \/ entry # 0
       THEN /\ list' = [list EXCEPT ![r] = [cache |-> c, at |-> "have", body |-> 0,
                                            o |-> IF c = "admin" THEN 0 ELSE entry,
                                            must |-> invalidated[c]]]
            /\ UNCHANGED <<entry, made>>
       ELSE /\ made < MaxObjects
            /\ made' = made + 1
            /\ entry' = made + 1
            /\ list' = [list EXCEPT ![r] = [cache |-> c, at |-> "have", body |-> 0,
                                            o |-> made + 1, must |-> invalidated[c]]]
  /\ UNCHANGED <<obj, truth, invalidated>>

Answer(r, body) == list' = [list EXCEPT ![r].at = "answered", ![r].body = body]
Fail(r) == list' = [list EXCEPT ![r].at = "failed"]

\* Under the object's lock: a hit, a wait, or the start of a build.
ListNodesCached(r) ==
  /\ list[r].at = "have"
  /\ LET o == list[r].o
     IN IF obj[o].built /\ obj[o].fresh THEN Answer(r, obj[o].body) /\ UNCHANGED obj
        ELSE IF obj[o].building
          THEN list' = [list EXCEPT ![r].at = "wait"] /\ UNCHANGED obj
          ELSE /\ obj' = [obj EXCEPT ![o].building = TRUE]
               /\ list' = [list EXCEPT ![r].at = "scan"]
  /\ UNCHANGED <<entry, made, truth, invalidated>>

\* Cond.Wait returned: the body is served without looking at its age.
Woken(r) ==
  /\ list[r].at = "wait"
  /\ LET o == list[r].o
     IN /\ ~obj[o].building
        /\ IF obj[o].err \/ ~obj[o].built THEN Fail(r) ELSE Answer(r, obj[o].body)
  /\ UNCHANGED <<entry, made, obj, truth, invalidated>>

\* The scan under the registry's read lock; a network that is gone ends the build.
Scan(r) ==
  /\ list[r].at = "scan" /\ list[r].cache = "net"
  /\ list' = [list EXCEPT ![r].at = IF truth["net"].exists THEN "store" ELSE "abort",
                           ![r].body = truth["net"].version]
  /\ UNCHANGED <<entry, made, obj, truth, invalidated>>

\* AdminListNodesCached is the same but for its scan, of every node.
AdminScan(r) ==
  /\ list[r].at = "scan" /\ list[r].cache = "admin"
  /\ list' = [list EXCEPT ![r].at = "store", ![r].body = truth["admin"].version]
  /\ UNCHANGED <<entry, made, obj, truth, invalidated>>

Abort_KeepBuilding(r) ==
  /\ list[r].at = "abort"
  /\ obj' = [obj EXCEPT ![list[r].o].err = TRUE]
  /\ Fail(r)
  /\ UNCHANGED <<entry, made, truth, invalidated>>

Abort(r) ==
  /\ list[r].at = "abort"
  /\ obj' = [obj EXCEPT ![list[r].o].building = FALSE, ![list[r].o].err = TRUE]
  /\ Fail(r)
  /\ UNCHANGED <<entry, made, truth, invalidated>>

Store(r) ==
  /\ list[r].at = "store"
  /\ obj' = [obj EXCEPT ![list[r].o] = [body |-> list[r].body, built |-> TRUE, fresh |-> TRUE,
                                        building |-> FALSE, err |-> FALSE]]
  /\ Answer(r, list[r].body)
  /\ UNCHANGED <<entry, made, truth, invalidated>>

ListReply(r) ==
  /\ list[r].at \in {"answered", "failed"}
  /\ list' = [list EXCEPT ![r] = NoList]
  /\ UNCHANGED <<entry, made, obj, truth, invalidated>>

\* AdminListNodesTTL elapses.
AgeOut(o) ==
  /\ obj[o].fresh
  /\ obj' = [obj EXCEPT ![o].fresh = FALSE]
  /\ UNCHANGED <<entry, made, list, truth, invalidated>>

\* A handler changes the members (or the nodes), and later invalidates.
ChangeMembers(c, gone) ==
  /\ truth[c].version < MaxChanges
  /\ truth[c].exists
  /\ c = "admin" => ~gone
  /\ truth' = [truth EXCEPT ![c] = [version |-> @.version + 1, exists |-> ~gone]]
  /\ UNCHANGED <<entry, made, obj, list, invalidated>>

InvalidateListNodesCacheForNetwork_Zero ==
  /\ invalidated["net"] < truth["net"].version
  /\ invalidated' = [invalidated EXCEPT !["net"] = truth["net"].version]
  /\ obj' = [obj EXCEPT ![entry].fresh = FALSE]
  /\ UNCHANGED <<entry, made, list, truth>>

InvalidateListNodesCacheForNetwork ==
  /\ invalidated["net"] < truth["net"].version
  /\ invalidated' = [invalidated EXCEPT !["net"] = truth["net"].version]
  /\ entry' = 0
  /\ UNCHANGED <<made, obj, list, truth>>

InvalidateAdminListNodesCache ==
  /\ invalidated["admin"] < truth["admin"].version
  /\ invalidated' = [invalidated EXCEPT !["admin"] = truth["admin"].version]
  /\ obj' = [obj EXCEPT ![0].fresh = FALSE]
  /\ UNCHANGED <<entry, made, list, truth>>

ListCacheNext ==
  \/ \E r \in Listers :
       \/ \E c \in Caches : TakeObject(r, c)
       \/ ListNodesCached(r) \/ Woken(r) \/ Scan(r) \/ AdminScan(r)
       \/ Abort(r) \/ Store(r) \/ ListReply(r)
  \/ \E o \in Objects : AgeOut(o)
  \/ \E c \in Caches, gone \in BOOLEAN : ChangeMembers(c, gone)
  \/ InvalidateListNodesCacheForNetwork
  \/ InvalidateAdminListNodesCache

ListCacheSpec == ListCacheInit /\ [][ListCacheNext]_listVars

-----------------------------------------------------------------------------
\* A list_nodes of a network that begins after a change was invalidated shows the
\* change, whatever builds and waits were under way on the object the invalidation
\* took out of the map.
NetListFresh ==
  \A r \in Listers :
    list[r].at = "answered" /\ list[r].cache = "net" => list[r].body >= list[r].must

\* A request waits on an object only while another request is building it: a build
\* that ends without an answer, for a network that is gone, leaves no one waiting.
WaitersHaveBuilder ==
  \A r \in Listers : list[r].at = "wait" /\ obj[list[r].o].building =>
    \E b \in Listers : list[b].o = list[r].o /\ list[b].at \in {"scan", "store", "abort"}
=============================================================================

--------------------------- MODULE RequestProofs ----------------------------
(***************************************************************************)
(* Requests that release their locks between reading and answering: the    *)
(* cached list_nodes, the reads that disclose a node, and the calls of     *)
(* provisioning and directory sync.  Each is proved on its own for every   *)
(* value of its constants.                                                 *)
(***************************************************************************)
EXTENDS ListCache, Resolve, Provisioning, TLAPS

-----------------------------------------------------------------------------
(* The cache of list_nodes *)

ListObject == [body : Nat, built : BOOLEAN, fresh : BOOLEAN, building : BOOLEAN, err : BOOLEAN]
ListRequest ==
  [cache : Caches, at : {"new", "have", "wait", "scan", "store", "abort", "answered", "failed"},
   o : Objects, body : Nat, must : Nat]

ListTypes ==
  /\ entry \in Objects /\ made \in Objects /\ entry <= made
  /\ obj \in [Objects -> ListObject]
  /\ list \in [Listers -> ListRequest]
  /\ truth \in [Caches -> [version : Nat, exists : BOOLEAN]]
  /\ invalidated \in [Caches -> Nat]

\* A request about the network's members that has taken an object.
OfNet(r) == list[r].cache = "net" /\ list[r].at # "new"

\* A body of object o that is new enough for every request that has taken o, and for
\* those that may still take it: the object in the map.
NewEnough(o, body) ==
  /\ o = entry => body >= invalidated["net"]
  /\ \A r \in Listers : OfNet(r) /\ list[r].o = o => body >= list[r].must

\* An object that has left the map never comes back, and is asked only by requests that
\* began before it left.
FreshInv ==
  /\ invalidated["net"] <= truth["net"].version
  /\ \A o \in Objects : o > made => ~obj[o].built
  /\ \A r \in Listers :
       /\ list[r].o <= made
       /\ OfNet(r) => list[r].o # 0 /\ list[r].must <= invalidated["net"]
       /\ list[r].at # "new" /\ list[r].cache = "admin" => list[r].o = 0
       /\ OfNet(r) /\ list[r].at = "store" => NewEnough(list[r].o, list[r].body)
       /\ OfNet(r) /\ list[r].at = "answered" => list[r].body >= list[r].must
  /\ \A o \in Objects \ {0} : obj[o].built => NewEnough(o, obj[o].body)

\* An object that is being built has a builder.
BuilderInv ==
  \A o \in Objects : obj[o].building =>
    \E b \in Listers : list[b].o = o /\ list[b].at \in {"scan", "store", "abort"}

\* The types hold after every step.
LEMMA ListTypesStep ==
  ASSUME ListTypes, [ListCacheNext]_listVars
  PROVE  ListTypes'
<1> USE ListCacheAssumption
<1>0. 0 \in Objects /\ (made < MaxObjects => made + 1 \in Objects /\ made + 1 <= made + 1)
  BY DEF Objects, ListTypes
<1>1. ASSUME NEW r \in Listers, NEW c \in Caches, TakeObject(r, c) PROVE ListTypes'
  <2>1. \A k \in Objects : [cache |-> c, at |-> "have", body |-> 0, o |-> k,
                            must |-> invalidated[c]] \in ListRequest
    BY DEF ListRequest, ListTypes
  <2>2. CASE c = "admin" \/ entry # 0
    <3>1. (IF c = "admin" THEN 0 ELSE entry) \in Objects
      BY <1>0, Zenon DEF ListTypes
    <3> QED
      BY <1>1, <2>1, <2>2, <3>1, Zenon DEF TakeObject, ListTypes
  <2>3. CASE ~(c = "admin" \/ entry # 0)
    <3>1. /\ made < MaxObjects /\ made' = made + 1 /\ entry' = made + 1
          /\ list' = [list EXCEPT ![r] = [cache |-> c, at |-> "have", body |-> 0,
                                          o |-> made + 1, must |-> invalidated[c]]]
          /\ UNCHANGED <<obj, truth, invalidated>>
      BY <1>1, <2>3, Zenon DEF TakeObject
    <3>2. entry' \in Objects /\ made' \in Objects /\ entry' <= made'
      BY <3>1 DEF Objects, ListTypes
    <3> QED
      BY <1>0, <2>1, <3>1, <3>2, Zenon DEF ListTypes
  <2> QED
    BY <2>2, <2>3
<1>2. ASSUME NEW r \in Listers,
             \/ ListNodesCached(r) \/ Woken(r) \/ Scan(r) \/ AdminScan(r)
             \/ Abort(r) \/ Store(r) \/ ListReply(r)
      PROVE  ListTypes'
  <2>1. /\ list[r] \in ListRequest /\ list[r].o \in Objects /\ list[r].body \in Nat
        /\ obj[list[r].o] \in ListObject /\ obj[list[r].o].body \in Nat
        /\ truth["net"].version \in Nat /\ truth["admin"].version \in Nat
    BY Zenon DEF ListTypes, ListRequest, ListObject, Caches
  <2>2. /\ \A x \in {"wait", "scan", "failed"} : [list[r] EXCEPT !.at = x] \in ListRequest
        /\ \A x \in {"answered", "store", "abort"}, k \in Nat :
             [list[r] EXCEPT !.at = x, !.body = k] \in ListRequest
        /\ NoList \in ListRequest
    <3>1. 0 \in Nat
      OBVIOUS
    <3> QED
      BY <1>0, <2>1, <3>1, Zenon DEF ListRequest, NoList, Caches
  <2>3. /\ [obj[list[r].o] EXCEPT !.building = TRUE] \in ListObject
        /\ [obj[list[r].o] EXCEPT !.building = FALSE, !.err = TRUE] \in ListObject
        /\ [body |-> list[r].body, built |-> TRUE, fresh |-> TRUE, building |-> FALSE,
            err |-> FALSE] \in ListObject
    BY <2>1, Zenon DEF ListObject
  <2>4. list' \in [Listers -> ListRequest]
    <3>1. CASE ListNodesCached(r) \/ Woken(r) \/ Abort(r)
      BY <2>1, <2>2, <3>1, ZenonT(30) DEF ListNodesCached, Woken, Abort, Answer, Fail, ListTypes
    <3>2. CASE Scan(r)
      <4>1. PICK x \in {"store", "abort"} :
              list' = [list EXCEPT ![r].at = x, ![r].body = truth["net"].version]
        BY <3>2, Zenon DEF Scan
      <4> QED
        BY <2>1, <2>2, <4>1, Zenon DEF ListTypes
    <3>3. CASE AdminScan(r)
      BY <2>1, <2>2, <3>3, ZenonT(30) DEF AdminScan, ListTypes
    <3>4. CASE Store(r)
      BY <2>1, <2>2, <3>4, ZenonT(30) DEF Store, Answer, ListTypes
    <3>5. CASE ListReply(r)
      BY <2>2, <3>5, ZenonT(30) DEF ListReply, ListTypes
    <3> QED
      BY <1>2, <3>1, <3>2, <3>3, <3>4, <3>5
  <2>5. obj' \in [Objects -> ListObject]
    BY <1>2, <2>1, <2>3, ZenonT(30) DEF ListNodesCached, Woken, Scan, AdminScan, Abort, Store,
       ListReply, ListTypes
  <2> QED
    BY <1>2, <2>4, <2>5, Zenon DEF ListNodesCached, Woken, Scan, AdminScan, Abort, Store,
       ListReply, ListTypes
<1>3. ASSUME NEW o \in Objects, AgeOut(o) PROVE ListTypes'
  <2>1. [obj[o] EXCEPT !.fresh = FALSE] \in ListObject
    BY Zenon DEF ListTypes, ListObject
  <2> QED
    BY <1>3, <2>1, Zenon DEF AgeOut, ListTypes
<1>4. ASSUME NEW c \in Caches, NEW gone \in BOOLEAN, ChangeMembers(c, gone) PROVE ListTypes'
  <2>1. truth[c].version + 1 \in Nat
    <3>1. truth[c].version \in Nat
      BY Zenon DEF ListTypes
    <3> QED
      BY <3>1
  <2> QED
    BY <1>4, <2>1, Zenon DEF ChangeMembers, ListTypes
<1>5. CASE InvalidateListNodesCacheForNetwork
  <2>1. truth["net"].version \in Nat
    BY Zenon DEF ListTypes, Caches
  <2>2. 0 <= made
    BY DEF ListTypes, Objects
  <2> QED
    BY <1>0, <1>5, <2>1, <2>2, Zenon DEF InvalidateListNodesCacheForNetwork, ListTypes
<1>6. CASE InvalidateAdminListNodesCache
  <2>1. truth["admin"].version \in Nat
    BY Zenon DEF ListTypes, Caches
  <2>2. [obj[0] EXCEPT !.fresh = FALSE] \in ListObject
    BY <1>0, Zenon DEF ListTypes, ListObject
  <2> QED
    BY <1>0, <1>6, <2>1, <2>2, Zenon DEF InvalidateAdminListNodesCache, ListTypes
<1>7. CASE UNCHANGED listVars
  BY <1>7, Zenon DEF listVars, ListTypes
<1> QED
  BY <1>1, <1>2, <1>3, <1>4, <1>5, <1>6, <1>7 DEF ListCacheNext

\* An object that is being built keeps a builder: only the two steps that end a build
\* take one away, and they clear the flag.
LEMMA BuilderStep ==
  ASSUME ListTypes, BuilderInv, [ListCacheNext]_listVars
  PROVE  BuilderInv'
<1> DEFINE Builds(b, o) == list[b].o = o /\ list[b].at \in {"scan", "store", "abort"}
           BuildsNext(b, o) == list'[b].o = o /\ list'[b].at \in {"scan", "store", "abort"}
<1>1. \* It suffices that a flag set afterwards was set before, or is its builder's, and
      \* that the builders of an object with the flag stay builders.
      ASSUME \A o \in Objects : obj'[o].building =>
               obj[o].building \/ \E b \in Listers : BuildsNext(b, o),
             \A o \in Objects, b \in Listers :
               obj'[o].building /\ Builds(b, o) => BuildsNext(b, o)
      PROVE  BuilderInv'
  BY <1>1 DEF BuilderInv
<1>2. ASSUME NEW r \in Listers, NEW c \in Caches, TakeObject(r, c) PROVE BuilderInv'
  <2>1. \A b \in Listers \ {r} : list'[b] = list[b]
    BY <1>2 DEF TakeObject, ListTypes
  <2>2. UNCHANGED obj /\ list[r].at = "new"
    BY <1>2 DEF TakeObject
  <2> QED
    BY <1>1, <2>1, <2>2
<1>3. ASSUME NEW r \in Listers, ListNodesCached(r) PROVE BuilderInv'
  <2>1. /\ \A b \in Listers \ {r} : list'[b] = list[b]
        /\ list'[r].o = list[r].o /\ list[r].at = "have"
    BY <1>3 DEF ListNodesCached, ListTypes, ListRequest, Answer
  <2>2. \/ UNCHANGED obj
        \/ /\ \A o \in Objects \ {list[r].o} : obj'[o] = obj[o]
           /\ list'[r].at = "scan"
    BY <1>3 DEF ListNodesCached, ListTypes, ListRequest, Answer
  <2> QED
    BY <1>1, <2>1, <2>2
<1>4. ASSUME NEW r \in Listers, Woken(r) \/ ListReply(r) PROVE BuilderInv'
  <2>1. /\ \A b \in Listers \ {r} : list'[b] = list[b]
        /\ list[r].at \in {"wait", "answered", "failed"} /\ UNCHANGED obj
    BY <1>4 DEF Woken, ListReply, Answer, Fail, ListTypes
  <2> QED
    BY <1>1, <2>1, Zenon
<1>5. ASSUME NEW r \in Listers, Scan(r) \/ AdminScan(r) PROVE BuilderInv'
  <2>1. /\ \A b \in Listers \ {r} : list'[b] = list[b]
        /\ list'[r].o = list[r].o /\ list'[r].at \in {"store", "abort"} /\ UNCHANGED obj
    BY <1>5 DEF Scan, AdminScan, ListTypes, ListRequest
  <2> QED
    BY <1>1, <2>1
<1>6. ASSUME NEW r \in Listers, Abort(r) \/ Store(r) PROVE BuilderInv'
  <2>1. /\ \A b \in Listers \ {r} : list'[b] = list[b]
        /\ list[r].o \in Objects
        /\ \A o \in Objects \ {list[r].o} : obj'[o] = obj[o]
    BY <1>6, Zenon DEF Abort, Store, Answer, Fail, ListTypes, ListRequest
  <2>2. ~obj'[list[r].o].building
    BY <1>6, <2>1 DEF Abort, Store, ListTypes, ListObject
  <2> QED
    BY <1>1, <2>1, <2>2, Zenon
<1>7. ASSUME UNCHANGED list, \A o \in Objects : obj'[o].building = obj[o].building
      PROVE  BuilderInv'
  BY <1>7 DEF BuilderInv
<1>8. CASE \/ \E o \in Objects : AgeOut(o)
           \/ \E c \in Caches, gone \in BOOLEAN : ChangeMembers(c, gone)
           \/ InvalidateListNodesCacheForNetwork
           \/ InvalidateAdminListNodesCache
           \/ UNCHANGED listVars
  <2>1. UNCHANGED list
    BY <1>8 DEF AgeOut, ChangeMembers, InvalidateListNodesCacheForNetwork,
       InvalidateAdminListNodesCache, listVars
  <2>2. UNCHANGED obj \/ \E o \in Objects : obj' = [obj EXCEPT ![o].fresh = FALSE]
    BY <1>8, ListCacheAssumption DEF AgeOut, ChangeMembers, InvalidateListNodesCacheForNetwork,
       InvalidateAdminListNodesCache, listVars, Objects
  <2>3. \A o \in Objects : obj'[o].building = obj[o].building
    BY <2>2 DEF ListTypes, ListObject
  <2> QED
    BY <1>7, <2>1, <2>3
<1> QED
  BY <1>2, <1>3, <1>4, <1>5, <1>6, <1>8 DEF ListCacheNext

\* Steps that take no object and invalidate nothing.
LEMMA FreshKept ==
  ASSUME ListTypes, ListTypes', FreshInv, UNCHANGED <<entry, made, truth, invalidated>>,
         \A r \in Listers : list'[r].at # "new" =>
            /\ list[r].at # "new" /\ list'[r].cache = list[r].cache
            /\ list'[r].o = list[r].o /\ list'[r].must = list[r].must,
         \A r \in Listers : list'[r].o <= made,
         \A r \in Listers : OfNet(r)' /\ list'[r].at \in {"store", "answered"} =>
            \/ list'[r] = list[r]
            \/ NewEnough(list[r].o, list'[r].body),
         \A o \in Objects : obj'[o].built =>
            \/ obj[o].built /\ obj'[o].body = obj[o].body
            \/ o <= made /\ (o # 0 => NewEnough(o, obj'[o].body))
  PROVE  FreshInv'
<1>1. \A r \in Listers : OfNet(r)' => OfNet(r) /\ list'[r].o = list[r].o
                                     /\ list'[r].must = list[r].must
  BY Zenon DEF OfNet
<1>2. \A o, body : NewEnough(o, body) => NewEnough(o, body)'
  BY <1>1, Zenon DEF NewEnough
<1>3. \A o \in Objects : o > made => ~obj'[o].built
  BY DEF FreshInv, ListTypes, Objects
<1>4. \A o \in Objects \ {0} : obj'[o].built => NewEnough(o, obj'[o].body)
  BY DEF FreshInv
<1>5. ASSUME NEW r \in Listers, OfNet(r)', list'[r].at = "store"
      PROVE  NewEnough(list'[r].o, list'[r].body)
  BY <1>1, <1>5 DEF FreshInv, OfNet
<1>6. ASSUME NEW r \in Listers, OfNet(r)', list'[r].at = "answered"
      PROVE  list'[r].body >= list'[r].must
  BY <1>1, <1>6 DEF FreshInv, OfNet, NewEnough
<1>7. ASSUME NEW r \in Listers
      PROVE  /\ OfNet(r)' => list'[r].o # 0 /\ list'[r].must <= invalidated["net"]
             /\ list'[r].at # "new" /\ list'[r].cache = "admin" => list'[r].o = 0
  BY <1>1, Zenon DEF FreshInv
<1>8. invalidated["net"] <= truth["net"].version
  BY DEF FreshInv
<1> QED
  BY <1>2, <1>3, <1>4, <1>5, <1>6, <1>7, <1>8, Zenon DEF FreshInv

\* A request takes the object in the map, or a new one.
LEMMA FreshTake ==
  ASSUME ListTypes, FreshInv, NEW r \in Listers, NEW c \in Caches, TakeObject(r, c)
  PROVE  FreshInv'
<1> USE ListCacheAssumption
<1>1. /\ UNCHANGED <<obj, truth, invalidated>> /\ \A s \in Listers \ {r} : list'[s] = list[s]
      /\ list'[r].cache = c /\ list'[r].at = "have" /\ list'[r].must = invalidated[c]
  BY DEF TakeObject, ListTypes
<1>2. CASE c = "admin"
  <2>1. list'[r].o = 0 /\ UNCHANGED <<entry, made>>
    BY <1>2 DEF TakeObject, ListTypes
  <2>2. \A s \in Listers : OfNet(s)' => OfNet(s) /\ list'[s] = list[s]
    BY <1>1, <1>2, Zenon DEF OfNet
  <2>3. \A o, body : NewEnough(o, body) => NewEnough(o, body)'
    BY <1>1, <2>1, <2>2 DEF NewEnough
  <2>4. 0 <= made
    BY DEF ListTypes, Objects
  <2> QED
    BY <1>1, <1>2, <2>1, <2>2, <2>3, <2>4 DEF FreshInv
<1>3. CASE c = "net" /\ entry # 0
  <2>1. list'[r].o = entry /\ UNCHANGED <<entry, made>>
    BY <1>3 DEF TakeObject, ListTypes
  <2>2. \A s \in Listers \ {r} : OfNet(s)' <=> OfNet(s)
    BY <1>1, Zenon DEF OfNet
  <2>3. \A o, body : NewEnough(o, body) => NewEnough(o, body)'
    BY <1>1, <1>3, <2>1, <2>2 DEF NewEnough
  <2>4. entry <= made /\ invalidated["net"] \in Nat
    BY DEF ListTypes, Caches
  <2> QED
    BY <1>1, <1>3, <2>1, <2>2, <2>3, <2>4 DEF FreshInv
<1>4. CASE c = "net" /\ entry = 0
  <2>1. list'[r].o = made + 1 /\ made' = made + 1 /\ entry' = made + 1 /\ made < MaxObjects
    BY <1>4 DEF TakeObject, ListTypes
  <2>2. /\ made \in Nat /\ made + 1 \in Objects /\ made + 1 > made /\ made + 1 # 0
        /\ invalidated["net"] \in Nat
    BY <2>1 DEF ListTypes, Objects, Caches
  <2>3. ~obj[made + 1].built
    BY <2>2, Zenon DEF FreshInv
  <2>4. \A s \in Listers : list[s].o <= made + 1 /\ list[s].o # made + 1
    <3>1. \A s \in Listers : list[s].o \in Objects /\ list[s].o <= made
      BY Zenon DEF FreshInv, ListTypes, ListRequest
    <3> QED
      BY <2>2, <3>1 DEF Objects
  <2>5. \A s \in Listers \ {r} : OfNet(s)' <=> OfNet(s)
    BY <1>1, Zenon DEF OfNet
  <2>6. \A o, body : NewEnough(o, body) /\ o # made + 1 => NewEnough(o, body)'
    BY <1>1, <2>1, <2>5, Zenon DEF NewEnough
  <2>7. invalidated["net"] <= invalidated["net"] /\ made + 1 <= made + 1
    BY <2>2
  <2>8. \A o \in Objects : o > made + 1 => o > made
    BY <2>2 DEF Objects
  <2>9. \A o \in Objects : o > made' => ~obj'[o].built
    BY <1>1, <2>1, <2>8, Zenon DEF FreshInv
  <2>10. \A o \in Objects \ {0} : obj'[o].built => NewEnough(o, obj[o].body)'
    BY <1>1, <2>3, <2>6, Zenon DEF FreshInv
  <2>11. ASSUME NEW s \in Listers
         PROVE  /\ list'[s].o <= made'
                /\ OfNet(s)' => list'[s].o # 0 /\ list'[s].must <= invalidated'["net"]
                /\ list'[s].at # "new" /\ list'[s].cache = "admin" => list'[s].o = 0
                /\ OfNet(s)' /\ list'[s].at = "store" => NewEnough(list[s].o, list[s].body)'
                /\ OfNet(s)' /\ list'[s].at = "answered" => list'[s].body >= list'[s].must
    <3>1. CASE s = r
      BY <1>1, <1>4, <2>1, <2>2, <2>7, <3>1, Zenon
    <3>2. CASE s # r
      <4>1. OfNet(s) /\ list[s].at = "store" => NewEnough(list[s].o, list[s].body)'
        BY <1>1, <2>4, <2>6, <3>2, Zenon DEF FreshInv
      <4> QED
        BY <1>1, <2>1, <2>4, <2>5, <3>2, <4>1, Zenon DEF FreshInv
    <3> QED
      BY <3>1, <3>2, Zenon
  <2>12. (invalidated["net"] <= truth["net"].version)'
    BY <1>1, Zenon DEF FreshInv
  <2> QED
    BY <2>9, <2>10, <2>11, <2>12, Zenon DEF FreshInv
<1> QED
  BY <1>2, <1>3, <1>4, Zenon DEF Caches

\* Every step keeps FreshInv.
LEMMA FreshStep ==
  ASSUME ListTypes, ListTypes', FreshInv, [ListCacheNext]_listVars
  PROVE  FreshInv'
<1>1. ASSUME NEW r \in Listers, ListNodesCached(r) PROVE FreshInv'
  <2>1. /\ UNCHANGED <<entry, made, truth, invalidated>>
        /\ \A s \in Listers \ {r} : list'[s] = list[s]
        /\ list[r].at = "have" /\ list[r].o \in Objects
        /\ list'[r].cache = list[r].cache /\ list'[r].o = list[r].o
        /\ list'[r].must = list[r].must
    BY <1>1 DEF ListNodesCached, ListTypes, ListRequest, Answer
  <2>2. /\ list'[r].at # "store"
        /\ list'[r].at = "answered" => obj[list[r].o].built /\ list'[r].body = obj[list[r].o].body
    BY <1>1 DEF ListNodesCached, ListTypes, ListRequest, Answer
  <2>3. \A o \in Objects : obj'[o].built = obj[o].built /\ obj'[o].body = obj[o].body
    BY <1>1 DEF ListNodesCached, ListTypes, ListObject
  <2>4. OfNet(r) /\ list'[r].at = "answered" => NewEnough(list[r].o, list'[r].body)
    BY <2>1, <2>2 DEF FreshInv
  <2>5. \A s \in Listers : list'[s].o <= made
    BY <2>1, Zenon DEF FreshInv
  <2> QED
    BY <2>1, <2>2, <2>3, <2>4, <2>5, FreshKept DEF OfNet
<1>2. ASSUME NEW r \in Listers, Woken(r) PROVE FreshInv'
  <2>1. /\ UNCHANGED <<entry, made, obj, truth, invalidated>>
        /\ \A s \in Listers \ {r} : list'[s] = list[s]
        /\ list[r].at = "wait" /\ list[r].o \in Objects
        /\ list'[r].cache = list[r].cache /\ list'[r].o = list[r].o
        /\ list'[r].must = list[r].must
    BY <1>2 DEF Woken, ListTypes, ListRequest, Answer, Fail
  <2>2. /\ list'[r].at # "store"
        /\ list'[r].at = "answered" => obj[list[r].o].built /\ list'[r].body = obj[list[r].o].body
    BY <1>2 DEF Woken, ListTypes, ListRequest, Answer, Fail
  <2>3. OfNet(r) /\ list'[r].at = "answered" => NewEnough(list[r].o, list'[r].body)
    BY <2>1, <2>2, Zenon DEF FreshInv
  <2>4. \A s \in Listers : list'[s].o <= made
    BY <2>1, Zenon DEF FreshInv
  <2> QED
    BY <2>1, <2>2, <2>3, <2>4, FreshKept, Zenon DEF OfNet
<1>3. ASSUME NEW r \in Listers, Scan(r) \/ AdminScan(r) PROVE FreshInv'
  <2>1. /\ UNCHANGED <<entry, made, obj, truth, invalidated>>
        /\ \A s \in Listers \ {r} : list'[s] = list[s]
        /\ list[r].at = "scan" /\ list'[r].at # "answered"
        /\ list'[r].cache = list[r].cache /\ list'[r].o = list[r].o
        /\ list'[r].must = list[r].must
        /\ list'[r].cache = "net" => list'[r].body = truth["net"].version
    BY <1>3 DEF Scan, AdminScan, ListTypes, ListRequest
  <2>2. /\ truth["net"].version \in Nat /\ invalidated["net"] \in Nat
        /\ \A s \in Listers : list[s].must \in Nat
    BY Zenon DEF ListTypes, ListRequest, Caches
  <2>3. \A o : NewEnough(o, truth["net"].version)
    BY <2>2 DEF NewEnough, FreshInv
  <2>4. \A s \in Listers : list'[s].o <= made
    BY <2>1, Zenon DEF FreshInv
  <2> QED
    BY <2>1, <2>3, <2>4, FreshKept DEF OfNet
<1>4. ASSUME NEW r \in Listers, Abort(r) PROVE FreshInv'
  <2>1. /\ UNCHANGED <<entry, made, truth, invalidated>>
        /\ \A s \in Listers \ {r} : list'[s] = list[s]
        /\ list[r].at = "abort" /\ list'[r].at = "failed"
        /\ list'[r].cache = list[r].cache /\ list'[r].o = list[r].o
        /\ list'[r].must = list[r].must
    BY <1>4, Zenon DEF Abort, ListTypes, ListRequest, Fail
  <2>2. \A o \in Objects : obj'[o].built = obj[o].built /\ obj'[o].body = obj[o].body
    BY <1>4 DEF Abort, ListTypes, ListObject
  <2>3. \A s \in Listers : list'[s].o <= made
    BY <2>1, Zenon DEF FreshInv
  <2> QED
    BY <2>1, <2>2, <2>3, FreshKept, Zenon
<1>5. ASSUME NEW r \in Listers, Store(r) PROVE FreshInv'
  <2>1. /\ UNCHANGED <<entry, made, truth, invalidated>>
        /\ \A s \in Listers \ {r} : list'[s] = list[s]
        /\ list[r].at = "store" /\ list'[r].at = "answered" /\ list[r].o \in Objects
        /\ list'[r].cache = list[r].cache /\ list'[r].o = list[r].o
        /\ list'[r].must = list[r].must /\ list'[r].body = list[r].body
    BY <1>5 DEF Store, ListTypes, ListRequest, Answer
  <2>2. /\ \A o \in Objects \ {list[r].o} : obj'[o] = obj[o]
        /\ obj'[list[r].o].body = list[r].body
    BY <1>5, <2>1, Zenon DEF Store, ListTypes
  <2>3. OfNet(r) => NewEnough(list[r].o, list[r].body)
    BY <2>1, Zenon DEF FreshInv
  <2>4. list[r].o # 0 => OfNet(r)
    BY <2>1, Zenon DEF FreshInv, OfNet, ListTypes, ListRequest, Caches
  <2>5. \A s \in Listers : list'[s].o <= made
    BY <2>1, Zenon DEF FreshInv
  <2>6. list[r].o <= made
    BY Zenon DEF FreshInv
  <2> QED
    BY <2>1, <2>2, <2>3, <2>4, <2>5, <2>6, FreshKept, Zenon DEF OfNet
<1>6. ASSUME NEW r \in Listers, ListReply(r) PROVE FreshInv'
  <2>1. /\ UNCHANGED <<entry, made, obj, truth, invalidated>>
        /\ \A s \in Listers \ {r} : list'[s] = list[s]
        /\ list'[r].at = "new" /\ list'[r].o = 0 /\ 0 <= made
    BY <1>6 DEF ListReply, NoList, ListTypes, Objects
  <2>2. \A s \in Listers : list'[s].o <= made
    BY <2>1, Zenon DEF FreshInv
  <2> QED
    BY <2>1, <2>2, FreshKept, Zenon
<1>7. ASSUME UNCHANGED <<entry, made, list, truth, invalidated>>,
             \A o \in Objects : obj'[o].built = obj[o].built /\ obj'[o].body = obj[o].body
      PROVE  FreshInv'
  BY <1>7, FreshKept DEF FreshInv
<1>8. ASSUME NEW o \in Objects, AgeOut(o) PROVE FreshInv'
  BY <1>7, <1>8, Zenon DEF AgeOut, ListTypes, ListObject
<1>9. ASSUME NEW c \in Caches, NEW gone \in BOOLEAN, ChangeMembers(c, gone) PROVE FreshInv'
  <2>1. /\ UNCHANGED <<entry, made, obj, list, invalidated>>
        /\ truth'["net"].version >= truth["net"].version
        /\ truth["net"].version \in Nat /\ truth'["net"].version \in Nat
        /\ invalidated["net"] \in Nat
    BY <1>9 DEF ChangeMembers, ListTypes, Caches
  <2> QED
    BY <2>1 DEF FreshInv, OfNet, NewEnough
<1>10. CASE InvalidateListNodesCacheForNetwork
  <2>1. /\ UNCHANGED <<made, obj, list, truth>> /\ entry' = 0
        /\ invalidated'["net"] = truth["net"].version
        /\ truth["net"].version \in Nat /\ invalidated["net"] \in Nat
        /\ \A s \in Listers : list[s].must \in Nat
    BY <1>10 DEF InvalidateListNodesCacheForNetwork, ListTypes, Caches, ListRequest
  <2>2. \A o, body : o # 0 /\ NewEnough(o, body) => NewEnough(o, body)'
    BY <2>1, Zenon DEF NewEnough, OfNet
  <2> QED
    BY <2>1, <2>2 DEF FreshInv, OfNet
<1>11. CASE InvalidateAdminListNodesCache
  <2>1. /\ UNCHANGED <<entry, made, list, truth>>
        /\ invalidated'["net"] = invalidated["net"]
        /\ \A o \in Objects : obj'[o].built = obj[o].built /\ obj'[o].body = obj[o].body
    BY <1>11 DEF InvalidateAdminListNodesCache, ListTypes, ListObject, Caches
  <2> QED
    BY <2>1 DEF FreshInv, OfNet, NewEnough
<1>12. CASE UNCHANGED listVars
  BY <1>7, <1>12 DEF listVars
<1> QED
  BY <1>1, <1>2, <1>3, <1>4, <1>5, <1>6, <1>8, <1>9, <1>10, <1>11, <1>12, FreshTake
     DEF ListCacheNext

\* The invariants of the cache hold in every state.
LEMMA ListCacheAlways == ListCacheSpec => [](ListTypes /\ FreshInv /\ BuilderInv)
<1> USE ListCacheAssumption
<1>1. ListCacheInit => ListTypes
  <2> SUFFICES ASSUME ListCacheInit PROVE ListTypes
    OBVIOUS
  <2>1. 0 \in Objects /\ 0 \in Nat /\ 0 <= 0
    BY DEF Objects
  <2>2. NewObject \in ListObject /\ NoList \in ListRequest
    BY <2>1, Zenon DEF NewObject, NoList, ListObject, ListRequest, Caches
  <2> QED
    BY <2>1, <2>2, Zenon DEF ListCacheInit, ListTypes
<1>2. ListCacheInit => FreshInv /\ BuilderInv
  BY DEF ListCacheInit, FreshInv, BuilderInv, OfNet, NewObject, NoList, Objects, Caches
<1>3. ListTypes /\ FreshInv /\ BuilderInv /\ [ListCacheNext]_listVars
        => ListTypes' /\ FreshInv' /\ BuilderInv'
  BY ListTypesStep, FreshStep, BuilderStep
<1> QED
  BY <1>1, <1>2, <1>3, PTL DEF ListCacheSpec

\* A list_nodes of a network that begins after a change was invalidated shows the
\* change, for every number of requests and changes (ListNodesCached,
\* InvalidateListNodesCacheForNetwork).
THEOREM NetListsAreFresh == ListCacheSpec => []NetListFresh
<1>1. FreshInv => NetListFresh
  BY DEF FreshInv, NetListFresh, OfNet
<1> QED
  BY <1>1, ListCacheAlways, PTL

\* Nobody waits on an object that no request is building (Cond.Wait and the two ends of
\* a build).
THEOREM WaitersAreServed == ListCacheSpec => []WaitersHaveBuilder
<1>1. ListTypes /\ BuilderInv => WaitersHaveBuilder
  BY DEF ListTypes, ListRequest, BuilderInv, WaitersHaveBuilder
<1> QED
  BY <1>1, ListCacheAlways, PTL

-----------------------------------------------------------------------------
(* The read requests, module Resolve *)

NodeObject == [public : BOOLEAN, nets : SUBSET (Networks \cup {0})]

Phases == {"idle", "begin", "authorize", "answer", "verified", "nets", "decide", "addrs",
           "endpoint", "record", "denied"}

Inquiry == [kind : Kinds \cup {"none"}, at : Phases, trustOK : BOOLEAN,
            nets : SUBSET (Networks \cup {0}), holds : SUBSET Parties, gone : SUBSET Parties,
            left : [Parties -> NodeObject]]

History == [public : BOOLEAN, trusted : BOOLEAN, shared : BOOLEAN,
            in : SUBSET (Parties \X Networks)]

ResolveTypes ==
  /\ strict \in BOOLEAN /\ trusted \in BOOLEAN /\ present \in SUBSET Parties
  /\ object \in [Parties -> NodeObject]
  /\ ask \in Inquiry
  /\ was \in History

\* What this object of p shows has held since the request began.
SeenOf(p, o) ==
  /\ p = "target" /\ o.public => was.public
  /\ \A n \in Networks : n \in o.nets => <<p, n>> \in was.in

\* The two are in one network now.
ShareNow == present = Parties /\ \E n \in Networks : \A p \in Parties : n \in object[p].nets

\* Trust, or a network that each of the two has been in.
Apart == was.trusted \/ \E n \in Networks : BothIn(n)

\* What an answer of this kind needs.
Consent(kind, at) ==
  /\ kind \in {"resolve", "resolve_hostname"} => was.public \/ was.trusted \/ was.shared
  /\ kind = "binary_resolve" => was.public \/ Apart
  /\ kind \in {"lookup", "binary_lookup"} => /\ strict => was.public \/ Apart
                                             /\ at = "endpoint" => was.public
  /\ kind = "check_trust" => Apart
  /\ kind = "punch" /\ strict => was.trusted

\* The history covers what is the case now and the objects of nodes that have left.
Covered ==
  /\ \A p \in present : SeenOf(p, object[p])
  /\ trusted => was.trusted
  /\ ShareNow => was.shared
  /\ \A p \in ask.gone : SeenOf(p, ask.left[p])

\* What a request has established when it reaches a phase.
Established(kind, at, holds, trustOK, ns) ==
  /\ at \in {"authorize", "answer"} => "target" \in holds
  /\ at = "answer" /\ strict => was.public \/ Apart
  /\ kind = "binary_resolve" /\ at \in {"nets", "decide"} =>
       holds = Parties /\ (trustOK => was.trusted)
  /\ at = "decide" => \A n \in Networks : n \in ns => <<"requester", n>> \in was.in
  /\ kind = "punch" /\ at = "addrs" /\ strict => was.trusted
  /\ at \in {"endpoint", "record"} => Consent(kind, at)

DisclosureInv ==
  ask.at # "idle" =>
    /\ Covered
    /\ \A p \in ask.holds : p \in ask.gone \/ p \in present
    /\ Established(ask.kind, ask.at, ask.holds, ask.trustOK, ask.nets)

\* Nothing, and nobody, yet.
LEMMA ResolveInitial == NewNode \in NodeObject /\ NoAsk \in Inquiry /\ NothingYet \in History
<1>1. NewNode \in NodeObject
  BY Zenon DEF NewNode, NodeObject
<1>2. NoAsk \in Inquiry
  BY <1>1, Zenon DEF NoAsk, Inquiry, Phases
<1>3. NothingYet \in History
  BY Zenon DEF NothingYet, History
<1> QED
  BY <1>1, <1>2, <1>3, Zenon

\* The history is one, after a change of the world as well.
LEMMA HistoryType ==
  ASSUME ResolveTypes, Observe, trusted' \in BOOLEAN, present' \in SUBSET Parties,
         object' \in [Parties -> NodeObject]
  PROVE  was' \in History
<1> DEFINE h == [public |-> was.public \/ Holds.public', trusted |-> was.trusted \/ Holds.trusted',
                 shared |-> was.shared \/ Holds.shared', in |-> was.in \cup Holds.in']
<1>1. Holds.in' \in SUBSET (Parties \X Networks)
  BY DEF Holds
<1>2. was.in \cup Holds.in' \in SUBSET (Parties \X Networks)
  BY <1>1, Zenon DEF ResolveTypes, History
<1>3. h \in History
  BY <1>2, Zenon DEF History
<1> QED
  BY <1>3, ResolveInitial, Zenon DEF Observe

\* The steps of the other handlers.
WorldStep ==
  \/ \E public \in BOOLEAN : HandleSetVisibility(public)
  \/ \E p \in Parties :
       \/ \E ns \in SUBSET Networks : ChangeNetworks(p, ns) \/ ComeBack(p, ns)
       \/ LeaveDirectory(p)
  \/ ChangeTrust

\* The other handlers keep the types.
LEMMA WorldTypes ==
  ASSUME ResolveTypes, WorldStep
  PROVE  ResolveTypes'
<1>1. ASSUME NEW public \in BOOLEAN, HandleSetVisibility(public) PROVE ResolveTypes'
  <2>1. [object["target"] EXCEPT !.public = public] \in NodeObject
    BY Zenon DEF ResolveTypes, NodeObject, Parties
  <2>2. object' \in [Parties -> NodeObject] /\ UNCHANGED <<strict, present, trusted, ask>>
    BY <1>1, <2>1, Zenon DEF HandleSetVisibility, ResolveTypes
  <2> QED
    BY <1>1, <2>2, HistoryType, Zenon DEF HandleSetVisibility, ResolveTypes
<1>2. ASSUME NEW p \in Parties, NEW ns \in SUBSET Networks, ChangeNetworks(p, ns)
      PROVE  ResolveTypes'
  <2>1. [object[p] EXCEPT !.nets = ns \cup {0}] \in NodeObject
    BY Zenon DEF ResolveTypes, NodeObject
  <2>2. object' \in [Parties -> NodeObject] /\ UNCHANGED <<strict, present, trusted, ask>>
    BY <1>2, <2>1, Zenon DEF ChangeNetworks, ResolveTypes
  <2> QED
    BY <1>2, <2>2, HistoryType, Zenon DEF ChangeNetworks, ResolveTypes
<1>3. ASSUME NEW p \in Parties, NEW ns \in SUBSET Networks, ComeBack(p, ns)
      PROVE  ResolveTypes'
  <2>1. [NewNode EXCEPT !.nets = ns \cup {0}] \in NodeObject
    BY ResolveInitial, Zenon DEF NodeObject
  <2>2. object' \in [Parties -> NodeObject] /\ UNCHANGED <<strict, trusted, ask>>
    BY <1>3, <2>1, Zenon DEF ComeBack, ResolveTypes
  <2>3. present' \in SUBSET Parties
    BY <1>3, Zenon DEF ComeBack, ResolveTypes
  <2> QED
    BY <1>3, <2>2, <2>3, HistoryType, Zenon DEF ComeBack, ResolveTypes
<1>4. ASSUME NEW p \in Parties, LeaveDirectory(p) PROVE ResolveTypes'
  <2>1. present' \in SUBSET Parties /\ UNCHANGED <<strict, object, trusted>>
    BY <1>4, Zenon DEF LeaveDirectory, ResolveTypes
  <2>2. ask.gone \cup {p} \in SUBSET Parties
    BY Zenon DEF ResolveTypes, Inquiry
  <2>3. [ask.left EXCEPT ![p] = object[p]] \in [Parties -> NodeObject]
    BY Zenon DEF ResolveTypes, Inquiry
  <2> DEFINE gone == ask.gone \cup {p}
             left == [ask.left EXCEPT ![p] = object[p]]
  <2>4. ask' = ask \/ ask' = [ask EXCEPT !.gone = gone, !.left = left]
    BY <1>4, Zenon DEF LeaveDirectory
  <2> HIDE DEF gone, left
  <2>5. ask' \in Inquiry
    BY <2>2, <2>3, <2>4, Zenon DEF ResolveTypes, Inquiry, gone, left
  <2> QED
    BY <1>4, <2>1, <2>5, HistoryType, Zenon DEF LeaveDirectory, ResolveTypes
<1>5. CASE ChangeTrust
  <2>1. trusted' \in BOOLEAN /\ UNCHANGED <<strict, present, object, ask>>
    BY <1>5, Zenon DEF ChangeTrust
  <2> QED
    BY <1>5, <2>1, HistoryType, Zenon DEF ChangeTrust, ResolveTypes
<1> QED
  BY <1>1, <1>2, <1>3, <1>4, <1>5 DEF WorldStep

\* The history grows and covers what holds after the step.
LEMMA Observed ==
  ASSUME ResolveTypes, Observe, ask.at # "idle", present' \in SUBSET Parties
  PROVE  /\ was.public => was'.public
         /\ was.trusted => was'.trusted
         /\ was.shared => was'.shared
         /\ \A x \in was.in : x \in was'.in
         /\ \A p \in present' : SeenOf(p, object[p])'
         /\ trusted' => was'.trusted
         /\ ShareNow' => was'.shared
<1>1. was' = [public |-> was.public \/ Holds.public', trusted |-> was.trusted \/ Holds.trusted',
              shared |-> was.shared \/ Holds.shared', in |-> was.in \cup Holds.in']
  BY Zenon DEF Observe
<1>2. /\ was'.public = (was.public \/ Holds.public')
      /\ was'.trusted = (was.trusted \/ Holds.trusted')
      /\ was'.shared = (was.shared \/ Holds.shared')
      /\ was'.in = was.in \cup Holds.in'
  BY <1>1, Zenon
<1>3. /\ Holds.public' <=> "target" \in present' /\ object'["target"].public
      /\ Holds.trusted' <=> trusted'
      /\ Holds.shared' <=> ShareNow'
  BY Zenon DEF Holds, ShareNow
<1>4. \A p \in present', n \in Networks : n \in object'[p].nets => <<p, n>> \in Holds.in'
  BY DEF Holds
<1>5. \A p \in present' : SeenOf(p, object[p])'
  BY <1>2, <1>3, <1>4, Zenon DEF SeenOf
<1> QED
  BY <1>2, <1>3, <1>5, Zenon

\* The other handlers change neither what a request has established nor what it has
\* seen; a node that leaves takes the object a request holds with it, as it is.
LEMMA WorldMoved ==
  ASSUME ResolveTypes, ResolveTypes', DisclosureInv, strict' = strict, Observe,
         ask'.kind = ask.kind, ask'.at = ask.at, ask'.holds = ask.holds,
         ask'.trustOK = ask.trustOK, ask'.nets = ask.nets,
         \A p \in ask'.gone : \/ p \in ask.gone /\ ask'.left[p] = ask.left[p]
                              \/ p \in present /\ ask'.left[p] = object[p],
         \A p \in ask'.holds : p \in ask.gone \/ p \in present => p \in ask'.gone \/ p \in present'
  PROVE  DisclosureInv'
<1> SUFFICES ASSUME ask.at # "idle"
             PROVE  /\ Covered'
                    /\ \A p \in ask'.holds : p \in ask'.gone \/ p \in present'
                    /\ Established(ask.kind, ask.at, ask.holds, ask.trustOK, ask.nets)'
  BY Zenon DEF DisclosureInv
<1>1. /\ was.public => was'.public
      /\ was.trusted => was'.trusted
      /\ was.shared => was'.shared
      /\ \A x \in was.in : x \in was'.in
      /\ \A p \in present' : SeenOf(p, object[p])'
      /\ trusted' => was'.trusted
      /\ ShareNow' => was'.shared
  BY Observed, Zenon DEF ResolveTypes
<1>2. Covered /\ Established(ask.kind, ask.at, ask.holds, ask.trustOK, ask.nets)
      /\ \A p \in ask.holds : p \in ask.gone \/ p \in present
  BY Zenon DEF DisclosureInv
<1>3. Apart => Apart'
  BY <1>1, Zenon DEF Apart, BothIn
<1>4. Consent(ask.kind, ask.at) => Consent(ask.kind, ask.at)'
  BY <1>1, <1>3, Zenon DEF Consent
<1>5. Established(ask.kind, ask.at, ask.holds, ask.trustOK, ask.nets)'
  BY <1>1, <1>2, <1>3, <1>4, Zenon DEF Established
<1>6. ASSUME NEW p \in ask'.gone PROVE SeenOf(p, ask.left[p])'
  <2>1. SeenOf(p, ask'.left[p])
    BY <1>2, <1>6, Zenon DEF Covered
  <2> QED
    BY <1>1, <2>1, Zenon DEF SeenOf
<1> QED
  BY <1>1, <1>2, <1>5, <1>6, Zenon DEF Covered

\* A step of the request itself: it reads the world and goes on to a phase.
Moved(at, holds, trustOK, ns) ==
  /\ Read
  /\ ask' \in Inquiry
  /\ ask'.kind = ask.kind /\ ask'.gone = ask.gone /\ ask'.left = ask.left
  /\ ask'.at = at /\ ask'.holds = holds /\ ask'.trustOK = trustOK /\ ask'.nets = ns

\* It keeps the types, and the invariant when it establishes what the phase needs.
LEMMA AskMoved ==
  ASSUME ResolveTypes, DisclosureInv, ask.at # "idle",
         NEW at, NEW holds, NEW trustOK, NEW ns, Moved(at, holds, trustOK, ns),
         \A p \in holds : p \in ask.holds \/ p \in present,
         Established(ask.kind, at, holds, trustOK, ns)
  PROVE  ResolveTypes' /\ DisclosureInv'
<1>1. UNCHANGED <<strict, present, object, trusted, was>>
  BY Zenon DEF Moved, Read, worldVars
<1>2. ResolveTypes'
  BY <1>1, Zenon DEF Moved, ResolveTypes
<1>3. Covered /\ \A p \in ask.holds : p \in ask.gone \/ p \in present
  BY Zenon DEF DisclosureInv
<1>4. Covered'
  BY <1>1, <1>3, Zenon DEF Covered, Moved, SeenOf, ShareNow
<1>5. Established(ask.kind, ask.at, ask.holds, ask.trustOK, ask.nets)'
  BY <1>1, Zenon DEF Moved, Established, Consent, Apart, BothIn
<1>6. \A p \in ask'.holds : p \in ask'.gone \/ p \in present'
  BY <1>1, <1>3, Zenon DEF Moved
<1> QED
  BY <1>2, <1>4, <1>5, <1>6, Zenon DEF DisclosureInv

\* A step that only goes on to a phase.
LEMMA GoMoves ==
  ASSUME ResolveTypes, NEW at \in Phases, Go(at), Read
  PROVE  Moved(at, ask.holds, ask.trustOK, ask.nets)
<1>1. ask' \in Inquiry
  BY Zenon DEF ResolveTypes, Inquiry, Go
<1>2. /\ ask'.kind = ask.kind /\ ask'.gone = ask.gone /\ ask'.left = ask.left
      /\ ask'.at = at /\ ask'.holds = ask.holds /\ ask'.trustOK = ask.trustOK
      /\ ask'.nets = ask.nets
  BY Zenon DEF ResolveTypes, Inquiry, Go
<1> QED
  BY <1>1, <1>2, Zenon DEF Moved

\* The object a request holds shows what has been seen.
LEMMA HeldSeen ==
  ASSUME DisclosureInv, ask.at # "idle", NEW p \in ask.holds
  PROVE  SeenOf(p, Held(p))
BY Zenon DEF DisclosureInv, Covered, Held

\* Two lists that share a network, each seen with its party.
LEMMA SharedApart ==
  ASSUME NEW a \in SUBSET (Networks \cup {0}), NEW b, SharedNetwork(a, b),
         \A n \in Networks : n \in a => <<"requester", n>> \in was.in,
         \A n \in Networks : n \in b => <<"target", n>> \in was.in
  PROVE  Apart
<1>1. PICK n : n \in a /\ n \in b /\ n # 0
  BY Zenon DEF SharedNetwork
<1>2. n \in Networks
  BY <1>1, Zenon
<1> QED
  BY <1>1, <1>2, Zenon DEF Apart, BothIn, Parties

\* Two nodes in the directory that share a network now.
LEMMA SharedNow ==
  ASSUME ResolveTypes, Covered, "requester" \in present, "target" \in present,
         SharedNetwork(object["requester"].nets, object["target"].nets)
  PROVE  was.shared
<1>1. PICK n : n \in object["requester"].nets /\ n \in object["target"].nets /\ n # 0
  BY Zenon DEF SharedNetwork
<1>2. n \in Networks
  BY <1>1, Zenon DEF ResolveTypes, NodeObject, Parties
<1>3. present = Parties
  BY Zenon DEF ResolveTypes, Parties
<1> QED
  BY <1>1, <1>2, <1>3, Zenon DEF Covered, ShareNow, Parties

\* The steps of the request in flight.
AskStep ==
  \/ HandleLookup \/ authorizeLookup \/ LookupAnswer \/ HandleBinaryLookup
  \/ VerifyRequester \/ HandleResolve
  \/ HandleBinaryResolve \/ CopyRequesterNetworks \/ BinaryResolveAnswer
  \/ HandleResolveHostname
  \/ HandleCheckTrust \/ CheckNetworksA \/ CheckNetworksB
  \/ HandlePunch \/ NodeAddrs

\* Each reads what it needs to have read.
LEMMA AskStepKeeps ==
  ASSUME ResolveTypes, DisclosureInv, AskStep
  PROVE  ResolveTypes' /\ DisclosureInv'
<1> DEFINE Ready(at, holds, trustOK, ns) == Established(ask.kind, at, holds, trustOK, ns)
           Goes(at) == Ready(at, ask.holds, ask.trustOK, ask.nets)
<1>1. ask.at # "idle" /\ Read
  BY Zenon DEF AskStep, HandleLookup, authorizeLookup, LookupAnswer, HandleBinaryLookup,
     VerifyRequester, HandleResolve, HandleBinaryResolve, CopyRequesterNetworks,
     BinaryResolveAnswer, HandleResolveHostname, HandleCheckTrust, CheckNetworksA,
     CheckNetworksB, HandlePunch, NodeAddrs, Asking
<1>2. Covered /\ Goes(ask.at)
  BY <1>1, Zenon DEF DisclosureInv
<1>3. ASSUME NEW at \in Phases, Go(at), Goes(at) PROVE ResolveTypes' /\ DisclosureInv'
  BY <1>1, <1>3, GoMoves, AskMoved, Zenon
<1>4. ASSUME Deny PROVE ResolveTypes' /\ DisclosureInv'
  <2>1. Goes("denied") /\ "denied" \in Phases
    BY Zenon DEF Established, Phases
  <2> QED
    BY <1>3, <1>4, <2>1, Zenon DEF Deny
<1>5. ASSUME NEW at \in Phases, NEW holds \in SUBSET present, Ready(at, holds, ask.trustOK, ask.nets),
             ask' = [ask EXCEPT !.holds = holds, !.at = at]
      PROVE  ResolveTypes' /\ DisclosureInv'
  <2>1. ask' \in Inquiry
    BY <1>5, Zenon DEF ResolveTypes, Inquiry
  <2>2. Moved(at, holds, ask.trustOK, ask.nets)
    BY <1>1, <1>5, <2>1, Zenon DEF Moved, ResolveTypes, Inquiry
  <2> QED
    BY <1>1, <1>5, <2>2, AskMoved, Zenon
<1>6. ASSUME NEW ns \in SUBSET (Networks \cup {0}), Ready("decide", ask.holds, ask.trustOK, ns),
             ask' = [ask EXCEPT !.at = "decide", !.nets = ns]
      PROVE  ResolveTypes' /\ DisclosureInv'
  <2>1. ask' \in Inquiry
    BY <1>6, Zenon DEF ResolveTypes, Inquiry, Phases
  <2>2. Moved("decide", ask.holds, ask.trustOK, ns)
    BY <1>1, <1>6, <2>1, Zenon DEF Moved, ResolveTypes, Inquiry
  <2> QED
    BY <1>1, <1>6, <2>2, AskMoved, Zenon
<1>7. "target" \in Parties /\ "requester" \in Parties
  BY Zenon DEF Parties
<1>8. /\ "target" \in present /\ object["target"].public => was.public
      /\ trusted => was.trusted
  BY <1>2, Zenon DEF Covered, SeenOf
<1>9. {"endpoint", "record", "answer", "authorize", "verified", "nets", "addrs"} \subseteq Phases
  BY Zenon DEF Phases
<1> HIDE DEF Ready, Goes
<1> USE Zenon
<1>10. CASE HandleLookup
  <2>1. CASE "target" \notin present
    BY <1>4, <1>10, <2>1 DEF HandleLookup
  <2>2. CASE "target" \in present
    <3> DEFINE at == IF strict /\ ~object["target"].public THEN "authorize" ELSE "answer"
    <3>1. ask' = [ask EXCEPT !.holds = {"target"}, !.at = at] /\ ask.kind = "lookup"
      BY <1>10, <2>2 DEF HandleLookup, Asking
    <3>2. at \in Phases /\ {"target"} \in SUBSET present
      BY <1>9, <2>2
    <3>3. Ready(at, {"target"}, ask.trustOK, ask.nets)
      BY <1>8, <2>2, <3>1 DEF Ready, Established
    <3> QED
      BY <1>5, <3>1, <3>2, <3>3
  <2> QED
    BY <2>1, <2>2
<1>11. CASE authorizeLookup
  <2>1. CASE /\ "requester" \in present
             /\ trusted \/ SharedNetwork(object["requester"].nets, Held("target").nets)
    <3>1. "target" \in ask.holds
      BY <1>2, <1>11 DEF Goes, Ready, Established, authorizeLookup, Asking
    <3>2. SeenOf("target", Held("target")) /\ SeenOf("requester", object["requester"])
      BY <1>1, <1>2, <2>1, <3>1, HeldSeen DEF Covered
    <3>3. object["requester"].nets \in SUBSET (Networks \cup {0})
      BY <1>7 DEF ResolveTypes, NodeObject
    <3>4. Apart
      BY <1>8, <2>1, <3>2, <3>3, SharedApart DEF SeenOf, Apart
    <3>5. Goes("answer") /\ Go("answer")
      BY <1>11, <2>1, <3>1, <3>4 DEF Goes, Ready, Established, authorizeLookup, Asking
    <3> QED
      BY <1>3, <1>9, <3>5
  <2> QED
    BY <1>4, <1>11, <2>1 DEF authorizeLookup
<1>12. CASE LookupAnswer
  <2>1. "target" \in ask.holds /\ (strict => was.public \/ Apart)
    BY <1>2, <1>12 DEF Goes, Ready, Established, LookupAnswer
  <2>2. Held("target").public => was.public
    BY <1>1, <2>1, HeldSeen DEF SeenOf
  <2> DEFINE at == IF Held("target").public THEN "endpoint" ELSE "record"
  <2>3. Goes(at)
    BY <1>12, <2>1, <2>2 DEF Goes, Ready, Established, Consent, LookupAnswer
  <2>4. Go(at) /\ at \in Phases
    BY <1>9, <1>12 DEF LookupAnswer
  <2> QED
    BY <1>3, <2>3, <2>4
<1>13. CASE HandleBinaryLookup
  <2>1. CASE "target" \notin present \/ (strict /\ ~object["target"].public)
    BY <1>4, <1>13, <2>1 DEF HandleBinaryLookup
  <2>2. CASE ~("target" \notin present \/ (strict /\ ~object["target"].public))
    <3>1. ask' = [ask EXCEPT !.holds = {"target"}, !.at = "answer"] /\ ask.kind = "binary_lookup"
      BY <1>13, <2>2 DEF HandleBinaryLookup, Asking
    <3>2. Ready("answer", {"target"}, ask.trustOK, ask.nets)
      BY <1>8, <2>2, <3>1 DEF Ready, Established
    <3>3. {"target"} \in SUBSET present /\ "answer" \in Phases
      BY <1>9, <2>2
    <3> QED
      BY <1>5, <3>1, <3>2, <3>3
  <2> QED
    BY <2>1, <2>2
<1>14. CASE VerifyRequester
  <2>1. Goes("verified")
    BY DEF Goes, Ready, Established
  <2> QED
    BY <1>3, <1>4, <1>9, <1>14, <2>1 DEF VerifyRequester
<1>15. CASE HandleResolve
  <2>1. CASE /\ present = Parties
             /\ \/ object["target"].public \/ trusted
                \/ SharedNetwork(object["requester"].nets, object["target"].nets)
    <3>1. was.public \/ was.trusted \/ was.shared
      BY <1>2, <1>7, <1>8, <2>1, SharedNow
    <3>2. Goes("endpoint") /\ Go("endpoint")
      BY <1>15, <2>1, <3>1 DEF Goes, Ready, Established, Consent, HandleResolve, Asking
    <3> QED
      BY <1>3, <1>9, <3>2
  <2> QED
    BY <1>4, <1>15, <2>1 DEF HandleResolve
<1>16. CASE HandleBinaryResolve
  <2>1. CASE present # Parties
    BY <1>4, <1>16, <2>1 DEF HandleBinaryResolve
  <2>2. CASE present = Parties
    <3>1. ask' = [ask EXCEPT !.at = "nets", !.trustOK = trusted, !.holds = Parties]
      BY <1>16, <2>2 DEF HandleBinaryResolve
    <3>2. ask' \in Inquiry
      BY <1>9, <3>1 DEF ResolveTypes, Inquiry
    <3>3. Moved("nets", Parties, trusted, ask.nets)
      BY <1>1, <3>1, <3>2 DEF Moved, ResolveTypes, Inquiry
    <3>4. Ready("nets", Parties, trusted, ask.nets)
      BY <1>8, <1>16 DEF Ready, Established, HandleBinaryResolve, Asking
    <3> QED
      BY <1>1, <2>2, <3>3, <3>4, AskMoved DEF Ready
  <2> QED
    BY <2>1, <2>2
<1>17. CASE CopyRequesterNetworks
  <2>1. ask.holds = Parties /\ (ask.trustOK => was.trusted)
    BY <1>2, <1>17 DEF Goes, Ready, Established, CopyRequesterNetworks, Asking
  <2>2. SeenOf("requester", Held("requester"))
    BY <1>1, <1>7, <2>1, HeldSeen
  <2>3. Held("requester").nets \in SUBSET (Networks \cup {0})
    BY <1>7 DEF Held, ResolveTypes, Inquiry, NodeObject
  <2>4. Ready("decide", ask.holds, ask.trustOK, Held("requester").nets)
    BY <1>17, <2>1, <2>2 DEF Ready, Established, SeenOf, CopyRequesterNetworks, Asking
  <2>5. ask' = [ask EXCEPT !.at = "decide", !.nets = Held("requester").nets]
    BY <1>17 DEF CopyRequesterNetworks
  <2> QED
    BY <1>6, <2>3, <2>4, <2>5
<1>18. CASE BinaryResolveAnswer
  <2>1. CASE \/ Held("target").public \/ ask.trustOK
             \/ SharedNetwork(ask.nets, Held("target").nets)
    <3>1. /\ ask.holds = Parties /\ (ask.trustOK => was.trusted)
          /\ \A n \in Networks : n \in ask.nets => <<"requester", n>> \in was.in
      BY <1>2, <1>18 DEF Goes, Ready, Established, BinaryResolveAnswer, Asking
    <3>2. SeenOf("target", Held("target"))
      BY <1>1, <1>7, <3>1, HeldSeen
    <3>3. ask.nets \in SUBSET (Networks \cup {0})
      BY DEF ResolveTypes, Inquiry
    <3>4. was.public \/ Apart
      BY <2>1, <3>1, <3>2, <3>3, SharedApart DEF SeenOf, Apart
    <3>5. Goes("endpoint") /\ Go("endpoint")
      BY <1>18, <2>1, <3>4 DEF Goes, Ready, Established, Consent, BinaryResolveAnswer, Asking
    <3> QED
      BY <1>3, <1>9, <3>5
  <2> QED
    BY <1>4, <1>18, <2>1 DEF BinaryResolveAnswer
<1>19. CASE HandleResolveHostname
  <2>1. CASE "target" \in present /\ (object["target"].public \/ trusted
             \/ ("requester" \in present
                 /\ SharedNetwork(object["requester"].nets, object["target"].nets)))
    <3>1. was.public \/ was.trusted \/ was.shared
      BY <1>2, <1>8, <2>1, SharedNow
    <3>2. Goes("record")
      BY <1>19, <3>1 DEF Goes, Ready, Established, Consent, HandleResolveHostname, Asking
    <3>3. Go("record") \/ Deny
      BY <1>19 DEF HandleResolveHostname
    <3> QED
      BY <1>3, <1>4, <1>9, <3>2, <3>3
  <2>2. CASE ~("target" \in present /\ (object["target"].public \/ trusted
             \/ ("requester" \in present
                 /\ SharedNetwork(object["requester"].nets, object["target"].nets))))
    <3>1. Deny
      BY <1>19, <2>2 DEF HandleResolveHostname
    <3> QED
      BY <1>4, <3>1
  <2> QED
    BY <2>1, <2>2
<1>20. CASE HandleCheckTrust
  <2>1. Goes("nets")
    BY <1>20 DEF Goes, Ready, Established, HandleCheckTrust, Asking
  <2>2. trusted => Goes("record")
    BY <1>8, <1>20 DEF Goes, Ready, Established, Consent, Apart, HandleCheckTrust, Asking
  <2>3. Deny \/ (trusted /\ Go("record")) \/ Go("nets")
    BY <1>20 DEF HandleCheckTrust
  <2> QED
    BY <1>3, <1>4, <1>9, <2>1, <2>2, <2>3
<1>21. CASE CheckNetworksA
  <2>1. CASE "requester" \notin present
    BY <1>4, <1>21, <2>1 DEF CheckNetworksA
  <2>2. CASE "requester" \in present
    <3>1. object["requester"].nets \in SUBSET (Networks \cup {0})
      BY <1>7 DEF ResolveTypes, NodeObject
    <3>2. Ready("decide", ask.holds, ask.trustOK, object["requester"].nets)
      BY <1>2, <1>21, <2>2 DEF Ready, Established, Covered, SeenOf, CheckNetworksA, Asking
    <3>3. ask' = [ask EXCEPT !.at = "decide", !.nets = object["requester"].nets]
      BY <1>21, <2>2 DEF CheckNetworksA
    <3> QED
      BY <1>6, <3>1, <3>2, <3>3
  <2> QED
    BY <2>1, <2>2
<1>22. CASE CheckNetworksB
  <2>1. CASE "target" \in present /\ SharedNetwork(ask.nets, object["target"].nets)
    <3>1. \A n \in Networks : n \in ask.nets => <<"requester", n>> \in was.in
      BY <1>2, <1>22 DEF Goes, Ready, Established, CheckNetworksB, Asking
    <3>2. SeenOf("target", object["target"])
      BY <1>2, <2>1 DEF Covered
    <3>3. ask.nets \in SUBSET (Networks \cup {0})
      BY DEF ResolveTypes, Inquiry
    <3>4. Apart
      BY <2>1, <3>1, <3>2, <3>3, SharedApart DEF SeenOf
    <3>5. Goes("record") /\ Go("record")
      BY <1>22, <2>1, <3>4 DEF Goes, Ready, Established, Consent, CheckNetworksB, Asking
    <3> QED
      BY <1>3, <1>9, <3>5
  <2> QED
    BY <1>4, <1>22, <2>1 DEF CheckNetworksB
<1>23. CASE HandlePunch
  <2>1. (strict => trusted) => Goes("addrs")
    BY <1>8 DEF Goes, Ready, Established
  <2>2. Deny \/ ((strict => trusted) /\ Go("addrs"))
    BY <1>23 DEF HandlePunch
  <2> QED
    BY <1>3, <1>4, <1>9, <2>1, <2>2
<1>24. CASE NodeAddrs
  <2>1. Goes("endpoint")
    BY <1>2, <1>24 DEF Goes, Ready, Established, Consent, NodeAddrs, Asking
  <2>2. Deny \/ Go("endpoint")
    BY <1>24 DEF NodeAddrs
  <2> QED
    BY <1>3, <1>4, <1>9, <2>1, <2>2
<1> QED
  BY <1>10, <1>11, <1>12, <1>13, <1>14, <1>15, <1>16, <1>17, <1>18, <1>19, <1>20, <1>21,
     <1>22, <1>23, <1>24 DEF AskStep

\* A request begins with what holds then.
LEMMA ArriveKeeps ==
  ASSUME ResolveTypes, NEW kind \in Kinds, Arrive(kind)
  PROVE  ResolveTypes' /\ DisclosureInv'
<1>1. Holds \in History
  <2>1. Holds.in \in SUBSET (Parties \X Networks)
    BY DEF Holds, ResolveTypes
  <2> QED
    BY <2>1, Zenon DEF Holds, History, ResolveTypes, NodeObject, Parties
<1>2. /\ ask' \in Inquiry /\ ask'.at = "begin" /\ ask'.holds = {} /\ ask'.gone = {}
  BY ResolveInitial, Zenon DEF Arrive, NoAsk, Inquiry, Phases
<1>3. was' = Holds /\ UNCHANGED <<strict, present, object, trusted>>
  BY Zenon DEF Arrive, worldVars
<1>4. ResolveTypes'
  BY <1>1, <1>2, <1>3, Zenon DEF ResolveTypes
<1>5. /\ Holds.public <=> "target" \in present /\ object["target"].public
      /\ Holds.trusted <=> trusted
      /\ Holds.shared <=> ShareNow
  BY Zenon DEF Holds, ShareNow
<1>6. \A p \in present, n \in Networks : n \in object[p].nets => <<p, n>> \in Holds.in
  BY DEF Holds
<1>7. Covered'
  BY <1>2, <1>3, <1>5, <1>6, Zenon DEF Covered, SeenOf, ShareNow
<1>8. Established(ask.kind, ask.at, ask.holds, ask.trustOK, ask.nets)'
  BY <1>2, Zenon DEF Established
<1> QED
  BY <1>2, <1>4, <1>7, <1>8, Zenon DEF DisclosureInv

\* Every step keeps the types and the invariant.
LEMMA DisclosureStep ==
  ASSUME ResolveTypes, DisclosureInv, [ResolveNext]_resolveVars
  PROVE  ResolveTypes' /\ DisclosureInv'
<1>1. CASE WorldStep
  <2>1. ResolveTypes'
    BY <1>1, WorldTypes
  <2>2. Observe /\ strict' = strict
    BY <1>1, Zenon DEF WorldStep, HandleSetVisibility, ChangeNetworks, ComeBack, LeaveDirectory,
       ChangeTrust
  <2>3. CASE ask' = ask /\ \A p \in present : p \in present'
    BY <2>1, <2>2, <2>3, WorldMoved, Zenon
  <2>4. ASSUME NEW p \in Parties, LeaveDirectory(p) PROVE DisclosureInv'
    <3>1. \/ ask' = ask
          \/ ask' = [ask EXCEPT !.gone = @ \cup {p}, !.left[p] = object[p]] /\ p \in ask.holds
      BY <2>4, Zenon DEF LeaveDirectory
    <3>2. ask' = ask => p \notin ask.holds \/ p \in ask.gone
      <4>1. CASE p \in ask.holds \ ask.gone
        <5>1. ask'.gone = ask.gone \cup {p}
          BY <2>4, <4>1, Zenon DEF LeaveDirectory, ResolveTypes, Inquiry
        <5> QED
          BY <5>1, <4>1, Zenon
      <4> QED
        BY <4>1, Zenon
    <3>3. p \in present /\ present' = present \ {p}
      BY <2>4, Zenon DEF LeaveDirectory
    <3>4. CASE ask' = ask
      BY <2>1, <2>2, <3>2, <3>3, <3>4, WorldMoved, Zenon
    <3>5. CASE ask' = [ask EXCEPT !.gone = @ \cup {p}, !.left[p] = object[p]]
      <4>1. /\ ask'.kind = ask.kind /\ ask'.at = ask.at /\ ask'.holds = ask.holds
            /\ ask'.trustOK = ask.trustOK /\ ask'.nets = ask.nets
            /\ ask'.gone = ask.gone \cup {p} /\ ask'.left = [ask.left EXCEPT ![p] = object[p]]
        BY <3>5, Zenon DEF ResolveTypes, Inquiry
      <4>2. ask'.left[p] = object[p] /\ \A q \in Parties \ {p} : ask'.left[q] = ask.left[q]
        BY <4>1, Zenon DEF ResolveTypes, Inquiry
      <4>3. \A q \in ask'.gone : q \in Parties
        BY <2>1, Zenon DEF ResolveTypes, Inquiry
      <4>4. \A q \in ask'.gone : \/ q \in ask.gone /\ ask'.left[q] = ask.left[q]
                                 \/ q \in present /\ ask'.left[q] = object[q]
        BY <3>3, <4>1, <4>2, <4>3, Zenon
      <4>5. \A q \in ask'.holds : q \in ask.gone \/ q \in present =>
                                   q \in ask'.gone \/ q \in present'
        BY <3>3, <4>1, Zenon
      <4> QED
        BY <2>1, <2>2, <4>1, <4>4, <4>5, WorldMoved, Zenon
    <3> QED
      BY <3>1, <3>4, <3>5, Zenon
  <2> QED
    BY <1>1, <2>1, <2>3, <2>4, Zenon DEF WorldStep, HandleSetVisibility, ChangeNetworks,
       ComeBack, ChangeTrust
<1>2. ASSUME NEW kind \in Kinds, Arrive(kind) PROVE ResolveTypes' /\ DisclosureInv'
  BY <1>2, ArriveKeeps
<1>3. CASE Over
  <2>1. ask' = NoAsk /\ was' = NothingYet /\ UNCHANGED <<strict, present, object, trusted>>
    BY <1>3, Zenon DEF Over, worldVars
  <2> QED
    BY <2>1, ResolveInitial, Zenon DEF ResolveTypes, DisclosureInv, NoAsk
<1>4. CASE UNCHANGED resolveVars
  <2>1. UNCHANGED <<strict, present, object, trusted, ask, was>>
    BY <1>4, Zenon DEF resolveVars, worldVars
  <2>2. Moved(ask.at, ask.holds, ask.trustOK, ask.nets)
    BY <2>1, Zenon DEF Moved, Read, worldVars, ResolveTypes
  <2>3. CASE ask.at # "idle"
    BY <2>2, <2>3, AskMoved, Zenon DEF DisclosureInv
  <2>4. CASE ask.at = "idle"
    BY <2>1, <2>4, Zenon DEF ResolveTypes, DisclosureInv
  <2> QED
    BY <2>3, <2>4
<1> QED
  BY <1>1, <1>2, <1>3, <1>4, AskStepKeeps, Zenon DEF ResolveNext, WorldStep, AskStep

\* What lookup, resolve, resolve_hostname, check_trust and punch disclose of a private
\* node was consented to while the request was being worked on, however the nodes,
\* their networks and the trust pair change between the handler's critical sections.
THEOREM DisclosuresAreConsented == ResolveSpec => []DisclosureConsented
<1>1. ResolveInit => ResolveTypes /\ DisclosureInv
  <2> SUFFICES ASSUME ResolveInit PROVE ResolveTypes /\ DisclosureInv
    OBVIOUS
  <2>1. ask = NoAsk /\ was = NothingYet /\ present = Parties
    BY Zenon DEF ResolveInit
  <2>2. object \in [Parties -> NodeObject] /\ strict \in BOOLEAN /\ trusted \in BOOLEAN
    BY ResolveInitial, Zenon DEF ResolveInit
  <2> QED
    BY <2>1, <2>2, ResolveInitial, Zenon DEF ResolveTypes, DisclosureInv, NoAsk
<1>2. ResolveTypes /\ DisclosureInv /\ [ResolveNext]_resolveVars => (ResolveTypes /\ DisclosureInv)'
  BY DisclosureStep
<1>3. ResolveTypes /\ DisclosureInv => DisclosureConsented
  BY Zenon DEF DisclosureInv, Established, Consent, Apart, DisclosureConsented
<1> QED
  BY <1>1, <1>2, <1>3, PTL DEF ResolveSpec

-----------------------------------------------------------------------------
(* Provisioning and directory sync, module Provisioning *)

PendingCall ==
  {NoCall} \cup [step : {"find"}, bp : Blueprints, net : {0}]
  \cup [step : {"enterprise", "policy", "expr", "roles"}, bp : Blueprints, net : NetNos]
  \cup [step : {"write"}, net : NetNos, max : Limits, expr : Exprs]

ProvisioningTypes ==
  /\ nets \in [NetNos -> ProvisionedNet \cup {Nil}]
  /\ next \in Nat
  /\ joined \in [MemberNodes -> SUBSET NetNos]
  /\ extOf \in [MemberNodes -> ExtIDs \cup {Nil}]
  /\ rbacPreAssign \in [NetNos -> [ExtIDs -> AnyRole]]
  /\ pend \in [Callers -> PendingCall]

\* The inductive strengthening of SyncKeepsMembership: a number that has not been
\* handed out has no network, so a new network starts without members anywhere.
SyncInv ==
  /\ SyncKeepsMembership
  /\ \A n \in NetNos : n >= next => ~There(n)

\* The roles that a join or a sync hands out.
LEMMA SomeRoles ==
  Nil \in AnyRole /\ "member" \in AnyRole /\ \A r \in SyncRoles : r \in AnyRole
BY SMT DEF AnyRole

\* A network that exists is a network record, and Nil is none.
LEMMA ProvisionedRecord ==
  ASSUME ProvisioningTypes, NEW n \in NetNos, There(n)
  PROVE  nets[n] \in ProvisionedNet
BY Zenon DEF ProvisioningTypes, There

\* A request in flight past its first step has a network and a blueprint.
LEMMA PendingFacts ==
  ASSUME ProvisioningTypes, NEW c \in Callers
  PROVE  /\ pend[c].step = "find" => pend[c].bp \in Blueprints
         /\ pend[c].step \in {"enterprise", "policy", "expr", "roles"} =>
              pend[c] \in [step : {"enterprise", "policy", "expr", "roles"}, bp : Blueprints,
                           net : NetNos]
         /\ pend[c].step = "write" =>
              pend[c] \in [step : {"write"}, net : NetNos, max : Limits, expr : Exprs]
<1>1. \/ pend[c] = NoCall \/ pend[c] \in [step : {"find"}, bp : Blueprints, net : {0}]
      \/ pend[c] \in [step : {"enterprise", "policy", "expr", "roles"}, bp : Blueprints, net : NetNos]
      \/ pend[c] \in [step : {"write"}, net : NetNos, max : Limits, expr : Exprs]
  BY Zenon DEF ProvisioningTypes, PendingCall
<1>2. NoCall.step = "idle"
  BY DEF NoCall
<1> QED
  BY <1>1, <1>2

\* A step of a request changes no network's members and roles, and none is made or lost.
LEMMA SyncKept ==
  ASSUME ProvisioningTypes, SyncInv, UNCHANGED <<joined, next>>,
         \A n \in NetNos : /\ There(n)' <=> There(n)
                           /\ There(n) => /\ nets'[n].members = nets[n].members
                                          /\ nets'[n].roles = nets[n].roles
  PROVE  SyncInv'
BY Zenon DEF SyncInv, SyncKeepsMembership

\* A step that changes one network's fields other than members and roles.
LEMMA FieldsChanged ==
  ASSUME ProvisioningTypes, SyncInv, UNCHANGED <<joined, next, extOf, rbacPreAssign>>,
         pend' \in [Callers -> PendingCall],
         NEW n \in NetNos, There(n), NEW net \in ProvisionedNet,
         net.members = nets[n].members, net.roles = nets[n].roles,
         nets' = [nets EXCEPT ![n] = net]
  PROVE  ProvisioningTypes' /\ SyncInv'
<1>1. ProvisioningTypes'
  BY Zenon DEF ProvisioningTypes
<1>2. nets'[n] = net /\ \A m \in NetNos \ {n} : nets'[m] = nets[m]
  BY Zenon DEF ProvisioningTypes
<1>3. net # Nil
  BY ProvisioningAssumption, Zenon
<1> QED
  BY <1>1, <1>2, <1>3, SyncKept, Zenon DEF There

\* A step that changes no network.
LEMMA NetsUnchanged ==
  ASSUME ProvisioningTypes, SyncInv, UNCHANGED <<nets, joined, next>>,
         extOf' \in [MemberNodes -> ExtIDs \cup {Nil}],
         rbacPreAssign' \in [NetNos -> [ExtIDs -> AnyRole]],
         pend' \in [Callers -> PendingCall]
  PROVE  ProvisioningTypes' /\ SyncInv'
<1>1. ProvisioningTypes'
  BY Zenon DEF ProvisioningTypes
<1> QED
  BY <1>1, Zenon DEF SyncInv, SyncKeepsMembership, There

\* The steps of provision_network and of the two policy commands.
LEMMA CallStep ==
  ASSUME ProvisioningTypes, SyncInv, NEW c \in Callers,
         \/ \E bp \in Blueprints : HandleProvisionNetwork(c, bp)
         \/ findOrCreateNetwork(c) \/ enableEnterprise(c)
         \/ applyBlueprintPolicy(c) \/ applyBlueprintExprPolicy(c)
         \/ storeRBACPreAssignments(c)
         \/ \E n \in NetNos : ReadPolicy(c, n, "max", 1) \/ ReadPolicy(c, n, "expr", Nil)
         \/ WritePolicy(c)
  PROVE  ProvisioningTypes' /\ SyncInv'
<1> DEFINE Kept == ProvisioningTypes' /\ SyncInv'
           Working == [step : {"enterprise", "policy", "expr", "roles"}, bp : Blueprints,
                       net : NetNos]
<1>1. pend \in [Callers -> PendingCall] /\ extOf \in [MemberNodes -> ExtIDs \cup {Nil}]
      /\ rbacPreAssign \in [NetNos -> [ExtIDs -> AnyRole]]
  BY Zenon DEF ProvisioningTypes
<1>2. ASSUME NEW call \in PendingCall, pend' = [pend EXCEPT ![c] = call]
      PROVE  pend' \in [Callers -> PendingCall]
  BY <1>1, <1>2, Zenon
<1>3. ASSUME Drop(c) PROVE pend' \in [Callers -> PendingCall]
  <2>1. NoCall \in PendingCall
    BY Zenon DEF PendingCall
  <2> QED
    BY <1>2, <1>3, <2>1, Zenon DEF Drop
<1>4. ASSUME pend[c] \in Working, NEW s \in {"policy", "expr", "roles"}, To(c, s)
      PROVE  pend' \in [Callers -> PendingCall]
  <2>1. [pend[c] EXCEPT !.step = s] \in Working
    BY <1>4, Zenon
  <2>2. [pend[c] EXCEPT !.step = s] \in PendingCall
    BY <2>1, Zenon DEF PendingCall
  <2>3. pend' = [pend EXCEPT ![c] = [pend[c] EXCEPT !.step = s]]
    BY <1>4, Zenon DEF To
  <2> QED
    BY <1>2, <2>2, <2>3, Zenon
<1>5. ASSUME pend[c].step \in {"enterprise", "policy", "expr", "roles"}
      PROVE  /\ pend[c] \in Working /\ pend[c].bp \in Blueprints /\ pend[c].net \in NetNos
             /\ pend[c].bp.max \in Limits /\ pend[c].bp.expr \in Exprs
             /\ pend[c].bp.roles \in [ExtIDs -> AnyRole]
  <2>1. pend[c] \in Working
    BY <1>5, PendingFacts, Zenon
  <2>2. pend[c].bp \in Blueprints /\ pend[c].net \in NetNos
    BY <2>1, Zenon
  <2> QED
    BY <2>1, <2>2, ProvisioningAssumption, Zenon DEF Limits, Exprs
<1>6. ASSUME NEW bp \in Blueprints, HandleProvisionNetwork(c, bp) PROVE Kept
  <2>1. [step |-> "find", bp |-> bp, net |-> 0] \in PendingCall
    BY Zenon DEF PendingCall
  <2>2. pend' \in [Callers -> PendingCall]
    BY <1>2, <1>6, <2>1, Zenon DEF HandleProvisionNetwork
  <2> QED
    BY <1>1, <1>6, <2>2, NetsUnchanged, Zenon DEF HandleProvisionNetwork
<1>7. CASE findOrCreateNetwork(c)
  <2> DEFINE bp == pend[c].bp
  <2>1. bp \in Blueprints
    BY <1>7, PendingFacts, Zenon DEF findOrCreateNetwork
  <2>2. UNCHANGED <<joined, extOf, rbacPreAssign>>
    BY <1>7, Zenon DEF findOrCreateNetwork
  <2>3. ASSUME NEW n \in NetNos,
               pend' = [pend EXCEPT ![c] = [step |-> "enterprise", bp |-> bp, net |-> n]]
        PROVE  pend' \in [Callers -> PendingCall]
    <3>1. [step |-> "enterprise", bp |-> bp, net |-> n] \in PendingCall
      BY <2>1, Zenon DEF PendingCall
    <3> QED
      BY <1>2, <2>3, <3>1, Zenon
  <2>4. ASSUME NEW n \in Named(bp.name), UNCHANGED <<nets, next>>,
               pend' = [pend EXCEPT ![c] = [step |-> "enterprise", bp |-> bp, net |-> n]]
        PROVE  Kept
    <3>1. n \in NetNos
      BY Zenon DEF Named
    <3> QED
      BY <1>1, <2>2, <2>3, <2>4, <3>1, NetsUnchanged, Zenon
  <2>5. ASSUME next \in NetNos, nets' = [nets EXCEPT ![next] = NewNet(bp.name, bp.enterprise)],
               next' = next + 1,
               pend' = [pend EXCEPT ![c] = [step |-> "enterprise", bp |-> bp, net |-> next]]
        PROVE  Kept
    <3> DEFINE net == NewNet(bp.name, bp.enterprise)
    <3>1. net \in ProvisionedNet /\ net.members = {} /\ net.roles = NoRole
      <4>1. NoRole \in [MemberNodes -> AnyRole] /\ 0 \in Limits /\ Nil \in Exprs
        BY SomeRoles, Zenon DEF NoRole, Limits, Exprs
      <4>2. bp.enterprise \in BOOLEAN /\ bp.name \in {b.name : b \in Blueprints}
        BY <2>1, ProvisioningAssumption, Zenon
      <4> QED
        BY <4>1, <4>2, Zenon DEF NewNet, ProvisionedNet
    <3> HIDE DEF net
    <3>2. nets'[next] = net /\ \A m \in NetNos \ {next} : nets'[m] = nets[m]
      BY <2>5, Zenon DEF ProvisioningTypes, net
    <3>3. next' \in Nat /\ \A m \in NetNos : m >= next' => m # next /\ m >= next
      BY <2>5, ProvisioningAssumption DEF ProvisioningTypes, NetNos
    <3>4. nets' \in [NetNos -> ProvisionedNet \cup {Nil}]
      BY <2>5, <3>1, Zenon DEF ProvisioningTypes, net
    <3>5. pend' \in [Callers -> PendingCall]
      BY <2>3, <2>5, Zenon
    <3>6. ProvisioningTypes'
      BY <2>2, <3>3, <3>4, <3>5, Zenon DEF ProvisioningTypes
    <3>7. \A m \in NetNos : m >= next' => ~There(m)'
      BY <3>2, <3>3, Zenon DEF SyncInv, There
    <3>8. ~There(next)
      BY <2>5 DEF SyncInv, ProvisioningTypes
    <3>9. SyncKeepsMembership'
      <4> SUFFICES ASSUME NEW x \in MemberNodes, NEW m \in NetNos
                   PROVE  /\ m \in joined[x] <=> There(m)' /\ x \in nets'[m].members
                          /\ There(m)' /\ nets'[m].roles[x] # Nil => x \in nets'[m].members
        BY <2>2, Zenon DEF SyncKeepsMembership, There
      <4>1. CASE m = next
        BY <3>1, <3>2, <3>8, <4>1, Zenon DEF SyncInv, SyncKeepsMembership, NoRole
      <4>2. CASE m # next
        BY <3>2, <4>2, Zenon DEF SyncInv, SyncKeepsMembership, There
      <4> QED
        BY <4>1, <4>2
    <3> QED
      BY <3>6, <3>7, <3>9, Zenon DEF SyncInv
  <2> QED
    BY <1>7, <2>4, <2>5, Zenon DEF findOrCreateNetwork
<1>8. CASE enableEnterprise(c)
  <2> DEFINE n == pend[c].net
             net == [nets[n] EXCEPT !.enterprise = TRUE]
  <2>1. pend[c] \in Working /\ n \in NetNos
    BY <1>5, <1>8, Zenon DEF enableEnterprise
  <2>2. pend' \in [Callers -> PendingCall] /\ UNCHANGED <<joined, next, extOf, rbacPreAssign>>
    BY <1>4, <1>8, <2>1, Zenon DEF enableEnterprise
  <2>3. nets' = nets \/ (There(n) /\ nets' = [nets EXCEPT ![n] = net])
    BY <1>8, Zenon DEF enableEnterprise
  <2>4. There(n) => /\ net \in ProvisionedNet /\ net.members = nets[n].members
                    /\ net.roles = nets[n].roles
    BY <2>1, ProvisionedRecord, Zenon DEF ProvisionedNet
  <2> HIDE DEF net, n
  <2> QED
    BY <1>1, <2>1, <2>2, <2>3, <2>4, NetsUnchanged, FieldsChanged, Zenon
<1>9. CASE applyBlueprintPolicy(c)
  <2> DEFINE n == pend[c].net
             max == pend[c].bp.max
             net == [nets[n] EXCEPT !.max = max]
  <2>1. pend[c] \in Working /\ n \in NetNos /\ max \in Limits
    BY <1>5, <1>9, Zenon DEF applyBlueprintPolicy
  <2>2. pend' \in [Callers -> PendingCall] /\ UNCHANGED <<joined, next, extOf, rbacPreAssign>>
    BY <1>3, <1>4, <1>9, <2>1, Zenon DEF applyBlueprintPolicy
  <2>3. nets' = nets \/ (There(n) /\ nets' = [nets EXCEPT ![n] = net])
    BY <1>9, Zenon DEF applyBlueprintPolicy
  <2>4. There(n) => /\ net \in ProvisionedNet /\ net.members = nets[n].members
                    /\ net.roles = nets[n].roles
    BY <2>1, ProvisionedRecord, Zenon DEF ProvisionedNet
  <2> HIDE DEF net, n, max
  <2> QED
    BY <1>1, <2>1, <2>2, <2>3, <2>4, NetsUnchanged, FieldsChanged, Zenon
<1>10. CASE applyBlueprintExprPolicy(c)
  <2> DEFINE n == pend[c].net
             expr == pend[c].bp.expr
             net == [nets[n] EXCEPT !.expr = expr]
  <2>1. pend[c] \in Working /\ n \in NetNos /\ expr \in Exprs
    BY <1>5, <1>10, Zenon DEF applyBlueprintExprPolicy
  <2>2. pend' \in [Callers -> PendingCall] /\ UNCHANGED <<joined, next, extOf, rbacPreAssign>>
    BY <1>3, <1>4, <1>10, <2>1, Zenon DEF applyBlueprintExprPolicy
  <2>3. nets' = nets \/ (There(n) /\ nets' = [nets EXCEPT ![n] = net])
    BY <1>10, Zenon DEF applyBlueprintExprPolicy
  <2>4. There(n) => /\ net \in ProvisionedNet /\ net.members = nets[n].members
                    /\ net.roles = nets[n].roles
    BY <2>1, ProvisionedRecord, Zenon DEF ProvisionedNet
  <2> HIDE DEF net, n, expr
  <2> QED
    BY <1>1, <2>1, <2>2, <2>3, <2>4, NetsUnchanged, FieldsChanged, Zenon
<1>11. CASE storeRBACPreAssignments(c)
  <2>1. pend[c].net \in NetNos /\ pend[c].bp.roles \in [ExtIDs -> AnyRole]
    BY <1>5, <1>11, Zenon DEF storeRBACPreAssignments
  <2>2. rbacPreAssign' \in [NetNos -> [ExtIDs -> AnyRole]]
    BY <1>1, <1>11, <2>1, Zenon DEF storeRBACPreAssignments
  <2> QED
    BY <1>1, <1>3, <1>11, <2>2, NetsUnchanged, Zenon DEF storeRBACPreAssignments
<1>12. ASSUME NEW n \in NetNos, ReadPolicy(c, n, "max", 1) \/ ReadPolicy(c, n, "expr", Nil)
       PROVE  Kept
  <2>1. There(n) /\ UNCHANGED <<nets, next, joined, extOf, rbacPreAssign>>
    BY <1>12, Zenon DEF ReadPolicy
  <2>2. nets[n].max \in Limits /\ nets[n].expr \in Exprs /\ 1 \in Limits /\ Nil \in Exprs
    BY <2>1, ProvisionedRecord, Zenon DEF ProvisionedNet, Limits, Exprs
  <2>3. \E max \in Limits, expr \in Exprs :
          pend' = [pend EXCEPT ![c] = [step |-> "write", net |-> n, max |-> max, expr |-> expr]]
    BY <1>12, <2>2, Zenon DEF ReadPolicy
  <2>4. PICK max \in Limits, expr \in Exprs :
          pend' = [pend EXCEPT ![c] = [step |-> "write", net |-> n, max |-> max, expr |-> expr]]
    BY <2>3, Zenon
  <2>5. [step |-> "write", net |-> n, max |-> max, expr |-> expr] \in PendingCall
    BY Zenon DEF PendingCall
  <2> QED
    BY <1>1, <1>2, <2>1, <2>4, <2>5, NetsUnchanged, Zenon
<1>13. CASE WritePolicy(c)
  <2> DEFINE n == pend[c].net
             max == pend[c].max
             expr == pend[c].expr
             net == [nets[n] EXCEPT !.max = max, !.expr = expr]
  <2>1. n \in NetNos /\ max \in Limits /\ expr \in Exprs
    BY <1>13, PendingFacts, Zenon DEF WritePolicy
  <2>2. pend' \in [Callers -> PendingCall] /\ UNCHANGED <<joined, next, extOf, rbacPreAssign>>
    BY <1>3, <1>13, Zenon DEF WritePolicy
  <2>3. nets' = nets \/ (There(n) /\ nets' = [nets EXCEPT ![n] = net])
    BY <1>13, <2>1, Zenon DEF WritePolicy, ProvisioningTypes
  <2>4. There(n) => /\ net \in ProvisionedNet /\ net.members = nets[n].members
                    /\ net.roles = nets[n].roles
    BY <2>1, ProvisionedRecord, Zenon DEF ProvisionedNet
  <2> HIDE DEF net, n, max, expr
  <2> QED
    BY <1>1, <2>1, <2>2, <2>3, <2>4, NetsUnchanged, FieldsChanged, Zenon
<1> QED
  BY <1>6, <1>7, <1>8, <1>9, <1>10, <1>11, <1>12, <1>13, Zenon

\* One network's members and roles change together with the records of its members.
LEMMA MembersChanged ==
  ASSUME ProvisioningTypes, SyncInv, NEW n \in NetNos, There(n),
         NEW net \in ProvisionedNet, nets' = [nets EXCEPT ![n] = net],
         joined' \in [MemberNodes -> SUBSET NetNos],
         \A x \in MemberNodes, m \in NetNos \ {n} : m \in joined'[x] <=> m \in joined[x],
         \A x \in MemberNodes : n \in joined'[x] <=> x \in net.members,
         \A x \in MemberNodes : net.roles[x] # Nil => x \in net.members,
         UNCHANGED <<next, extOf, pend>>,
         rbacPreAssign' \in [NetNos -> [ExtIDs -> AnyRole]]
  PROVE  ProvisioningTypes' /\ SyncInv'
<1>1. nets'[n] = net /\ \A m \in NetNos \ {n} : nets'[m] = nets[m]
  BY Zenon DEF ProvisioningTypes
<1>2. net # Nil
  BY ProvisioningAssumption, Zenon
<1>3. ProvisioningTypes'
  BY Zenon DEF ProvisioningTypes
<1>4. \A m \in NetNos : There(m)' <=> There(m)
  BY <1>1, <1>2, Zenon DEF There
<1>5. SyncKeepsMembership'
  <2> SUFFICES ASSUME NEW x \in MemberNodes, NEW m \in NetNos
               PROVE  /\ m \in joined'[x] <=> There(m)' /\ x \in nets'[m].members
                      /\ There(m)' /\ nets'[m].roles[x] # Nil => x \in nets'[m].members
    BY Zenon DEF SyncKeepsMembership
  <2>1. CASE m = n
    BY <1>1, <1>4, <2>1, Zenon
  <2>2. CASE m # n
    BY <1>1, <1>4, <2>2, Zenon DEF SyncInv, SyncKeepsMembership
  <2> QED
    BY <2>1, <2>2
<1> QED
  BY <1>3, <1>4, <1>5, Zenon DEF SyncInv

\* directory_sync: the members it takes out leave both lists, and lose their roles.
LEMMA SyncStep ==
  ASSUME ProvisioningTypes, SyncInv, NEW n \in NetNos, NEW listed \in SUBSET ExtIDs,
         NEW disabled \in SUBSET listed, NEW role \in SyncRoles \cup {Nil},
         NEW display \in DisplayNames \cup {Nil}, NEW removeUnlisted \in BOOLEAN,
         applyDirectorySync(n, listed, disabled, role, display, removeUnlisted)
  PROVE  ProvisioningTypes' /\ SyncInv'
<1>1. nets[n] \in ProvisionedNet /\ There(n)
  BY ProvisionedRecord, Zenon DEF applyDirectorySync
<1> DEFINE Ranked(map) == {map[e] : e \in {e \in listed : map[e] # Nil} \ disabled}
           Out(map) == {map[e] : e \in {e \in listed : map[e] # Nil} \cap disabled} \cup
                       (IF removeUnlisted
                        THEN {x \in nets[n].members : extOf[x] \notin listed \cup {Nil}} ELSE {})
           Roles(map) == [x \in MemberNodes |->
                            IF role # Nil /\ x \in Ranked(map) THEN role ELSE nets[n].roles[x]]
           Net(map) == [nets[n] EXCEPT !.roles = Roles(map)]
           Pre(map) == [e \in ExtIDs |->
                          IF e \in listed \ {e1 \in listed : map[e1] # Nil} /\ rbacPreAssign[n][e] = Nil
                          THEN role ELSE rbacPreAssign[n][e]]
<1>2. PICK map \in Mappings(n) :
        /\ nets' = [nets EXCEPT ![n] = removeMembers(Net(map), Out(map))]
        /\ joined' = [x \in MemberNodes |-> IF x \in Out(map) THEN joined[x] \ {n} ELSE joined[x]]
        /\ rbacPreAssign' = [rbacPreAssign EXCEPT ![n] = Pre(map)]
  BY Zenon DEF applyDirectorySync
<1>3. UNCHANGED <<next, extOf, pend>>
  BY Zenon DEF applyDirectorySync
<1>4. \A e \in listed : map[e] # Nil => map[e] \in nets[n].members
  BY Zenon DEF Mappings
<1>5. Ranked(map) \in SUBSET nets[n].members
  BY <1>4, Zenon
<1> DEFINE ranked == Ranked(map)
           out == Out(map)
           roles == [x \in MemberNodes |-> IF x \in out THEN Nil ELSE Roles(map)[x]]
           members == nets[n].members \ out
           net == [nets[n] EXCEPT !.roles = roles, !.members = members]
<1>6. removeMembers(Net(map), out) = net
  BY <1>1, Zenon DEF removeMembers, ProvisionedNet
<1>7. \A x \in MemberNodes : Roles(map)[x] \in AnyRole /\ (Roles(map)[x] # Nil => x \in nets[n].members)
  <2>1. role \in AnyRole
    BY SomeRoles, Zenon
  <2>2. \A x \in MemberNodes : /\ nets[n].roles[x] \in AnyRole
                               /\ nets[n].roles[x] # Nil => x \in nets[n].members
    BY <1>1, Zenon DEF ProvisionedNet, SyncInv, SyncKeepsMembership
  <2> SUFFICES ASSUME NEW x \in MemberNodes
               PROVE  /\ Roles(map)[x] \in AnyRole
                      /\ Roles(map)[x] # Nil => x \in nets[n].members
    BY Zenon
  <2> HIDE DEF Ranked
  <2>3. CASE role # Nil /\ x \in Ranked(map)
    <3>1. Roles(map)[x] = role
      BY <2>3, Zenon
    <3> QED
      BY <1>5, <2>1, <2>3, <3>1, Zenon
  <2>4. CASE ~(role # Nil /\ x \in Ranked(map))
    <3>1. Roles(map)[x] = nets[n].roles[x]
      BY <2>4, Zenon
    <3> QED
      BY <2>2, <3>1, Zenon
  <2> QED
    BY <2>3, <2>4
<1>8. Pre(map) \in [ExtIDs -> AnyRole]
  <2>1. role \in AnyRole
    BY SomeRoles, Zenon
  <2> QED
    BY <2>1, Zenon DEF ProvisioningTypes
<1>9. rbacPreAssign' \in [NetNos -> [ExtIDs -> AnyRole]]
  BY <1>2, <1>8, Zenon DEF ProvisioningTypes
<1>10. joined' \in [MemberNodes -> SUBSET NetNos]
  BY <1>2, Zenon DEF ProvisioningTypes
<1> HIDE DEF Ranked, Out, Roles, Net, Pre, ranked
<1>11. roles \in [MemberNodes -> AnyRole] /\ members \in SUBSET MemberNodes
  <2>1. Nil \in AnyRole
    BY SomeRoles, Zenon
  <2> QED
    BY <1>1, <1>7, <2>1, Zenon DEF ProvisionedNet
<1>12. \A x \in MemberNodes : roles[x] # Nil => x \in members
  BY <1>7, Zenon
<1>13. /\ \A x \in MemberNodes, m \in NetNos \ {n} : m \in joined'[x] <=> m \in joined[x]
       /\ \A x \in MemberNodes : n \in joined'[x] <=> x \in members
  BY <1>1, <1>2, Zenon DEF SyncInv, SyncKeepsMembership
<1> HIDE DEF roles, members, out
<1>14. net \in ProvisionedNet /\ net.members = members /\ net.roles = roles
  BY <1>1, <1>11, Zenon DEF ProvisionedNet
<1>15. nets' = [nets EXCEPT ![n] = net]
  BY <1>2, <1>6, Zenon DEF out
<1> HIDE DEF net
<1> QED
  BY <1>1, <1>3, <1>9, <1>10, <1>12, <1>13, <1>14, <1>15, MembersChanged, Zenon

\* Every step keeps the types and the invariant.
LEMMA ProvisioningStep ==
  ASSUME ProvisioningTypes, SyncInv, [ProvisioningNext]_provVars
  PROVE  ProvisioningTypes' /\ SyncInv'
<1>1. ASSUME NEW x \in MemberNodes, NEW n \in NetNos, JoinProvisioned(x, n)
      PROVE  ProvisioningTypes' /\ SyncInv'
  <2> DEFINE role == applyRBACPreAssignment(n, x)
             members == nets[n].members \cup {x}
             roles == [nets[n].roles EXCEPT ![x] = role]
             net == [nets[n] EXCEPT !.members = members, !.roles = roles]
  <2>1. There(n) /\ nets[n] \in ProvisionedNet
    BY <1>1, ProvisionedRecord, Zenon DEF JoinProvisioned
  <2>2. role \in AnyRole
    BY SomeRoles, Zenon DEF applyRBACPreAssignment, ProvisioningTypes
  <2> HIDE DEF role
  <2>3. roles \in [MemberNodes -> AnyRole] /\ members \in SUBSET MemberNodes
    BY <2>1, <2>2, Zenon DEF ProvisionedNet
  <2>4. \A y \in MemberNodes : roles[y] # Nil => y \in members
    BY <2>1, Zenon DEF ProvisionedNet, SyncInv, SyncKeepsMembership
  <2>5. nets' = [nets EXCEPT ![n] = net] /\ joined' = [joined EXCEPT ![x] = @ \cup {n}]
        /\ UNCHANGED <<next, extOf, rbacPreAssign, pend>>
    <3>1. /\ nets' = [nets EXCEPT ![n].members = @ \cup {x}, ![n].roles[x] = role]
          /\ joined' = [joined EXCEPT ![x] = @ \cup {n}]
          /\ UNCHANGED <<next, extOf, rbacPreAssign, pend>>
      BY <1>1, Zenon DEF JoinProvisioned, role
    <3>2. nets' = [nets EXCEPT ![n] = net]
      BY <2>1, <3>1, Zenon DEF ProvisioningTypes, ProvisionedNet
    <3> QED
      BY <3>1, <3>2, Zenon
  <2>6. joined' \in [MemberNodes -> SUBSET NetNos]
    BY <2>5, Zenon DEF ProvisioningTypes
  <2>7. /\ \A y \in MemberNodes, m \in NetNos \ {n} : m \in joined'[y] <=> m \in joined[y]
        /\ \A y \in MemberNodes : n \in joined'[y] <=> y \in members
    BY <2>1, <2>5, Zenon DEF ProvisioningTypes, SyncInv, SyncKeepsMembership
  <2> HIDE DEF members, roles
  <2>8. net \in ProvisionedNet /\ net.members = members /\ net.roles = roles
    BY <2>1, <2>3, Zenon DEF ProvisionedNet
  <2> HIDE DEF net
  <2>9. rbacPreAssign' \in [NetNos -> [ExtIDs -> AnyRole]]
    BY <2>5, Zenon DEF ProvisioningTypes
  <2> QED
    BY <2>1, <2>4, <2>5, <2>6, <2>7, <2>8, <2>9, MembersChanged, Zenon
<1>2. ASSUME NEW x \in MemberNodes, NEW e \in ExtIDs, SetExternalID(x, e)
      PROVE  ProvisioningTypes' /\ SyncInv'
  <2>1. extOf' \in [MemberNodes -> ExtIDs \cup {Nil}] /\ UNCHANGED <<nets, next, joined, rbacPreAssign, pend>>
    BY <1>2, Zenon DEF SetExternalID, ProvisioningTypes
  <2> QED
    BY <2>1, NetsUnchanged, Zenon DEF ProvisioningTypes
<1>3. ASSUME NEW n \in NetNos, DeleteProvisioned(n) PROVE ProvisioningTypes' /\ SyncInv'
  <2>1. /\ nets' = [nets EXCEPT ![n] = Nil]
        /\ joined' = [x \in MemberNodes |-> joined[x] \ {n}]
        /\ UNCHANGED <<next, extOf, rbacPreAssign, pend>>
    BY <1>3, Zenon DEF DeleteProvisioned
  <2>2. ProvisioningTypes'
    BY <2>1, Zenon DEF ProvisioningTypes
  <2>3. nets'[n] = Nil /\ \A m \in NetNos \ {n} : nets'[m] = nets[m]
    BY <2>1, Zenon DEF ProvisioningTypes
  <2>4. SyncKeepsMembership'
    BY <2>1, <2>3, Zenon DEF SyncInv, SyncKeepsMembership, There
  <2>5. \A m \in NetNos : m >= next' => ~There(m)'
    BY <2>1, <2>3, Zenon DEF SyncInv, There
  <2> QED
    BY <2>2, <2>4, <2>5, Zenon DEF SyncInv
<1>4. CASE UNCHANGED provVars
  <2>1. UNCHANGED <<nets, next, joined, extOf, rbacPreAssign, pend>>
    BY <1>4, Zenon DEF provVars
  <2> QED
    BY <2>1, NetsUnchanged, Zenon DEF ProvisioningTypes
<1>5. ASSUME NEW n \in NetNos, NEW listed \in SUBSET ExtIDs, NEW disabled \in SUBSET listed,
             NEW role \in SyncRoles \cup {Nil}, NEW display \in DisplayNames \cup {Nil},
             NEW removeUnlisted \in BOOLEAN,
             applyDirectorySync(n, listed, disabled, role, display, removeUnlisted)
      PROVE  ProvisioningTypes' /\ SyncInv'
  BY <1>5, SyncStep
<1>6. CASE ProvisioningNext
  <2>1. CASE \E c \in Callers :
               \/ \E bp \in Blueprints : HandleProvisionNetwork(c, bp)
               \/ findOrCreateNetwork(c) \/ enableEnterprise(c)
               \/ applyBlueprintPolicy(c) \/ applyBlueprintExprPolicy(c)
               \/ storeRBACPreAssignments(c)
               \/ \E n \in NetNos : ReadPolicy(c, n, "max", 1) \/ ReadPolicy(c, n, "expr", Nil)
               \/ WritePolicy(c)
    BY <2>1, CallStep
  <2> QED
    BY <1>1, <1>2, <1>3, <1>5, <1>6, <2>1 DEF ProvisioningNext
<1> QED
  BY <1>4, <1>6

\* Through pre-assigned joins, directory syncs that disable or drop members, and
\* deletions between the steps of a blueprint, a network lists a node exactly when the
\* node's record lists the network, and only members have roles.
THEOREM SyncsKeepMembership == ProvisioningSpec => []SyncKeepsMembership
<1>1. ProvisioningInit => ProvisioningTypes /\ SyncInv
  <2> SUFFICES ASSUME ProvisioningInit PROVE ProvisioningTypes /\ SyncInv
    OBVIOUS
  <2>1. NoPre \in [ExtIDs -> AnyRole] /\ NoCall \in PendingCall
    BY SomeRoles, Zenon DEF NoPre, PendingCall
  <2>2. next \in Nat
    BY DEF ProvisioningInit
  <2>3. ProvisioningTypes
    BY <2>1, <2>2, Zenon DEF ProvisioningInit, ProvisioningTypes
  <2> QED
    BY <2>3, Zenon DEF ProvisioningInit, SyncInv, SyncKeepsMembership, There
<1>2. ProvisioningTypes /\ SyncInv /\ [ProvisioningNext]_provVars => (ProvisioningTypes /\ SyncInv)'
  BY ProvisioningStep
<1>3. SyncInv => SyncKeepsMembership
  BY DEF SyncInv
<1> QED
  BY <1>1, <1>2, <1>3, PTL DEF ProvisioningSpec

=============================================================================

--------------------------- MODULE ServicesProofs ---------------------------
(***************************************************************************)
(* The components beside the registry's maps, each proved on its own for   *)
(* every value of its constants, the bounds of the runs included.          *)
(***************************************************************************)
EXTENDS Accept, Trust, Routing, Breakers, Identity, Tokens, FiniteSetTheorems, TLAPS

-----------------------------------------------------------------------------
(* The accept layer *)

ConnStates == {"none", "grace", "open", "checked", "replication"}

CountInv ==
  /\ conns \in [Conns -> ConnStates]
  /\ IsFiniteSet(Active) /\ connCount = Cardinality(Active) /\ connCount <= MaxConnections

\* The limits are positive.
LEMMA AcceptConstants ==
  /\ MaxConnections \in Nat \ {0} /\ Rate \in Nat \ {0} /\ Window \in Nat \ {0}
  /\ ListedRate \in Nat \ {0} /\ AddrOf \in [Conns -> Addrs]
BY AcceptAssumption, Zenon

\* A step that moves no connection into or out of the set being served.
LEMMA ActiveKept ==
  ASSUME CountInv, connCount' = connCount, conns' \in [Conns -> ConnStates],
         \A c \in Conns : conns'[c] # "none" <=> conns[c] # "none"
  PROVE  CountInv'
<1>1. Active' = Active
  BY Zenon DEF Active
<1> QED
  BY <1>1, Zenon DEF CountInv

\* A connection of the set changes its state.
LEMMA ConnMoves ==
  ASSUME CountInv, connCount' = connCount, NEW c \in Conns, NEW s \in ConnStates \ {"none"},
         conns[c] # "none", conns' = [conns EXCEPT ![c] = s]
  PROVE  CountInv'
<1>1. conns \in [Conns -> ConnStates]
  BY Zenon DEF CountInv
<1>2. conns' \in [Conns -> ConnStates]
  BY <1>1, Zenon
<1>3. \A x \in Conns : conns'[x] # "none" <=> conns[x] # "none"
  <2>1. conns'[c] = s /\ \A x \in Conns \ {c} : conns'[x] = conns[x]
    BY <1>1, Zenon
  <2> QED
    BY <2>1, Zenon
<1> QED
  BY <1>2, <1>3, ActiveKept, Zenon

\* Every step of the accept layer keeps the count.
LEMMA CountStep ==
  ASSUME CountInv, [AcceptNext]_acceptVars
  PROVE  CountInv'
<1>1. conns \in [Conns -> ConnStates] /\ IsFiniteSet(Active) /\ connCount = Cardinality(Active)
      /\ connCount <= MaxConnections
  BY Zenon DEF CountInv
<1>2. connCount \in Nat /\ MaxConnections \in Nat
  BY <1>1, FS_CardinalityType, AcceptConstants, Zenon
<1>3. ASSUME UNCHANGED <<conns, connCount>> PROVE CountInv'
  BY <1>1, <1>3, ActiveKept, Zenon
<1>4. ASSUME NEW c \in Conns, AcceptConn(c) PROVE CountInv'
  <2>1. CASE connCount >= MaxConnections
    BY <1>3, <1>4, <2>1, Zenon DEF AcceptConn
  <2>2. CASE ~(connCount >= MaxConnections)
    <3>1. /\ conns[c] = "none" /\ conns' = [conns EXCEPT ![c] = "grace"]
          /\ connCount' = connCount + 1
      BY <1>4, <2>2, Zenon DEF AcceptConn
    <3>2. conns' \in [Conns -> ConnStates]
      <4>1. "grace" \in ConnStates
        BY Zenon DEF ConnStates
      <4> QED
        BY <1>1, <3>1, <4>1, Zenon
    <3>3. conns'[c] = "grace" /\ \A x \in Conns \ {c} : conns'[x] = conns[x]
      BY <1>1, <3>1, Zenon
    <3>4. Active' = Active \cup {c} /\ c \notin Active
      BY <3>1, <3>3, Zenon DEF Active
    <3>5. IsFiniteSet(Active') /\ Cardinality(Active') = Cardinality(Active) + 1
      BY <1>1, <3>4, FS_AddElement, Zenon
    <3>6. connCount' <= MaxConnections
      BY <1>2, <2>2, <3>1
    <3> QED
      BY <1>1, <3>1, <3>2, <3>5, <3>6, Zenon DEF CountInv
  <2> QED
    BY <2>1, <2>2, Zenon
<1>5. ASSUME NEW c \in Conns, CloseConn(c) PROVE CountInv'
  <2>1. /\ conns[c] # "none" /\ conns' = [conns EXCEPT ![c] = "none"]
        /\ connCount' = connCount - 1
    BY <1>5, Zenon DEF CloseConn
  <2>2. conns' \in [Conns -> ConnStates]
    <3>1. "none" \in ConnStates
      BY Zenon DEF ConnStates
    <3> QED
      BY <1>1, <2>1, <3>1, Zenon
  <2>3. conns'[c] = "none" /\ \A x \in Conns \ {c} : conns'[x] = conns[x]
    BY <1>1, <2>1, Zenon
  <2>4. Active' = Active \ {c} /\ c \in Active
    BY <2>1, <2>3, Zenon DEF Active
  <2>5. IsFiniteSet(Active') /\ Cardinality(Active') = Cardinality(Active) - 1
    BY <1>1, <2>4, FS_RemoveElement, Zenon
  <2>6. connCount' <= MaxConnections
    BY <1>1, <1>2, <2>1
  <2> QED
    BY <1>1, <2>1, <2>2, <2>5, <2>6, Zenon DEF CountInv
<1>6. ASSUME NEW c \in Conns, NEW s \in {"replication", "checked", "open"}, connCount' = connCount,
             conns[c] \in {"grace", "open", "checked"}, conns' = [conns EXCEPT ![c] = s]
      PROVE  CountInv'
  <2>1. conns[c] # "none" /\ s \in ConnStates \ {"none"}
    BY <1>6, Zenon DEF ConnStates
  <2> QED
    BY <1>6, <2>1, ConnMoves, Zenon
<1>7. ASSUME NEW c \in Conns, SubscribeConn(c) \/ CheckRequest(c) \/ Request(c) PROVE CountInv'
  BY <1>6, <1>7, Zenon DEF SubscribeConn, CheckRequest, Request
<1>8. CASE Tick
  <2>1. /\ connCount' = connCount
        /\ conns' = [c \in Conns |-> IF conns[c] = "grace" THEN "open" ELSE conns[c]]
    BY <1>8, Zenon DEF Tick
  <2>2. \A c \in Conns : conns'[c] \in {"open", conns[c]} /\
          (conns'[c] # "none" <=> conns[c] # "none")
    BY <2>1, Zenon
  <2>3. conns' \in [Conns -> ConnStates]
    <3>1. \A c \in Conns : conns'[c] \in ConnStates
      BY <1>1, <2>2, Zenon DEF ConnStates
    <3> QED
      BY <2>1, <3>1, Zenon
  <2> QED
    BY <2>1, <2>2, <2>3, ActiveKept, Zenon
<1>9. CASE Cleanup \/ SetWhitelist \/ UNCHANGED acceptVars
  BY <1>3, <1>9, Zenon DEF Cleanup, SetWhitelist, acceptVars
<1> QED
  BY <1>4, <1>5, <1>7, <1>8, <1>9, Zenon DEF AcceptNext

\* The connection counter is the number of connections being served, for any number of
\* connections and any limit, and stays within that limit (AcceptLoop, handleConn).
THEOREM ConnectionsAreCounted == AcceptSpec => []ConnsCounted
<1>1. AcceptInit => CountInv
  <2> SUFFICES ASSUME AcceptInit PROVE CountInv
    BY Zenon
  <2>1. conns \in [Conns -> ConnStates] /\ Active = {} /\ connCount = 0
    BY Zenon DEF AcceptInit, Active, ConnStates
  <2>2. 0 <= MaxConnections
    BY AcceptConstants
  <2> QED
    BY <2>1, <2>2, FS_EmptySet, Zenon DEF CountInv
<1>2. CountInv => ConnsCounted
  BY Zenon DEF CountInv, ConnsCounted
<1> QED
  BY <1>1, <1>2, CountStep, PTL DEF AcceptSpec

-----------------------------------------------------------------------------
\* What a bucket would hold were it refilled now.
Fill(b) == Least(b.tokens + b.rate * b.age, b.rate * Window)

Bucket == [tokens : Nat, age : Nat, rate : Nat]
BucketOK(b) == b \in Bucket /\ b.tokens <= b.rate * Window /\ b.age <= MaxAge

\* A bucket has the rate of its reference and would not hold more; no bucket stands for a
\* full one.
Dominated(b, r) ==
  IF b.rate # 0 THEN b.rate = r.rate /\ Fill(b) <= Fill(r) ELSE Fill(r) = r.rate * Window

BucketsInv ==
  /\ buckets \in [Addrs -> Bucket] /\ ref \in [Addrs -> Bucket]
  /\ \A a \in Addrs : BucketOK(buckets[a]) /\ BucketOK(ref[a]) /\ Dominated(buckets[a], ref[a])

\* Rates times ages.
LEMMA Products ==
  ASSUME NEW r \in Nat, NEW x \in Nat, NEW y \in Nat
  PROVE  /\ r * x \in Nat /\ r * 0 = 0 /\ r * (x + 1) = r * x + r
         /\ x <= y => r * x <= r * y
         /\ r # 0 => x <= r * x
OBVIOUS

\* What a bucket would hold is within its capacity, and is what it holds when just filled.
LEMMA FillOf ==
  ASSUME NEW b, BucketOK(b)
  PROVE  /\ b.tokens \in Nat /\ b.age \in Nat /\ b.rate \in Nat
         /\ b.rate * Window \in Nat /\ b.rate * b.age \in Nat
         /\ Fill(b) \in Nat /\ Fill(b) <= b.rate * Window
         /\ b.age = 0 => Fill(b) = b.tokens
         /\ b.age >= Window => Fill(b) = b.rate * Window
<1>1. b.tokens \in Nat /\ b.age \in Nat /\ b.rate \in Nat /\ b.tokens <= b.rate * Window
  BY Zenon DEF BucketOK, Bucket
<1>2. Window \in Nat
  BY AcceptConstants, Zenon
<1> DEFINE t == b.tokens
           p == b.rate * b.age
           f == b.rate * Window
<1>3. p \in Nat /\ f \in Nat /\ (b.age = 0 => p = 0) /\ (Window <= b.age => f <= p)
  BY <1>1, <1>2, Products, Zenon
<1>4. Fill(b) = Least(t + p, f) /\ t \in Nat /\ t <= f
  BY <1>1, Zenon DEF Fill
<1> HIDE DEF t, p, f
<1>5. t + p \in Nat /\ (p = 0 => t + p <= f /\ t + p = t) /\ (f <= p => f <= t + p)
  BY <1>3, <1>4
<1>6. Fill(b) \in Nat /\ Fill(b) <= f /\ (p = 0 => Fill(b) = t) /\ (f <= p => Fill(b) = f)
  BY <1>3, <1>4, <1>5 DEF Least
<1>7. b.age >= Window => Window <= b.age
  BY <1>1, <1>2
<1> QED
  BY <1>1, <1>3, <1>6, <1>7, Zenon DEF t, p, f

\* Building a bucket.
LEMMA BucketMade ==
  ASSUME NEW b, NEW t \in Nat, NEW r \in Nat, t <= r * Window,
         b = [tokens |-> t, age |-> 0, rate |-> r]
  PROVE  BucketOK(b) /\ b.tokens = t /\ b.rate = r /\ b.age = 0 /\ Fill(b) = t
<1>1. b \in Bucket /\ b.tokens = t /\ b.rate = r /\ b.age = 0
  BY Zenon DEF Bucket
<1>2. 0 <= MaxAge
  BY AcceptConstants DEF MaxAge
<1>3. BucketOK(b)
  BY <1>1, <1>2, Zenon DEF BucketOK
<1> QED
  BY <1>1, <1>3, FillOf, Zenon

\* The refill of Allow.
LEMMA RefillOf ==
  ASSUME NEW b, BucketOK(b)
  PROVE  /\ Refilled(b) = [tokens |-> Fill(b), age |-> 0, rate |-> b.rate]
         /\ BucketOK(Refilled(b)) /\ Refilled(b).tokens = Fill(b)
<1>1. b \in [tokens : Nat, age : Nat, rate : Nat]
  BY Zenon DEF BucketOK, Bucket
<1>2. Refilled(b) = [b EXCEPT !.tokens = Fill(b), !.age = 0]
  BY <1>1, Zenon DEF Refilled, Fill
<1>3. Refilled(b) = [tokens |-> Fill(b), age |-> 0, rate |-> b.rate]
  BY <1>1, <1>2, Zenon
<1> QED
  BY <1>3, FillOf, BucketMade, Zenon

\* The full bucket of a new address.
LEMMA FullOf ==
  ASSUME NEW r \in Nat
  PROVE  /\ BucketOK(FullBucket(r)) /\ FullBucket(r).tokens = r * Window
         /\ FullBucket(r) = [tokens |-> r * Window, age |-> 0, rate |-> r]
<1>1. r * Window \in Nat /\ r * Window <= r * Window
  <2>1. r * Window \in Nat
    BY AcceptConstants, Products, Zenon
  <2> QED
    BY <2>1
<1> QED
  BY <1>1, BucketMade, Zenon DEF FullBucket

\* Taking a token's worth out of a bucket just filled.
LEMMA SpendOf ==
  ASSUME NEW t \in Nat, NEW r \in Nat, t <= r * Window,
         NEW b, b = [tokens |-> t, age |-> 0, rate |-> r]
  PROVE  /\ BucketOK(Spend(b)) /\ Spend(b).rate = r
         /\ t < Window => Fill(Spend(b)) = t
         /\ t >= Window => Fill(Spend(b)) = t - Window
<1>1. b.tokens = t
  BY Zenon
<1>2. CASE t < Window
  <2>1. Spend(b) = b
    BY <1>1, <1>2, Zenon DEF Spend
  <2>2. ~(t >= Window)
    BY <1>2, AcceptConstants
  <2> QED
    BY <2>1, <2>2, BucketMade, Zenon
<1>3. CASE ~(t < Window)
  <2>1. Spend(b) = [tokens |-> t - Window, age |-> 0, rate |-> r]
    BY <1>1, <1>3 DEF Spend
  <2>2. r * Window \in Nat /\ Window \in Nat
    BY AcceptConstants, Products, Zenon
  <2>3. t - Window \in Nat /\ t - Window <= r * Window
    <3> DEFINE f == r * Window
    <3>1. f \in Nat /\ t <= f
      BY <2>2, Zenon
    <3> HIDE DEF f
    <3>2. t - Window \in Nat /\ t - Window <= f
      BY <1>3, <2>2, <3>1
    <3> QED
      BY <3>2, Zenon DEF f
  <2> QED
    BY <1>3, <2>1, <2>3, BucketMade, Zenon
<1> QED
  BY <1>2, <1>3, Zenon

\* Taking it out of a bucket that Allow finds.
LEMMA SpendRefilled ==
  ASSUME NEW b, BucketOK(b)
  PROVE  /\ BucketOK(Spend(Refilled(b))) /\ Spend(Refilled(b)).rate = b.rate
         /\ Fill(b) < Window => Fill(Spend(Refilled(b))) = Fill(b)
         /\ Fill(b) >= Window => Fill(Spend(Refilled(b))) = Fill(b) - Window
<1> DEFINE x == Refilled(b)
           t == Fill(b)
           r == b.rate
<1>1. t \in Nat /\ r \in Nat /\ t <= r * Window
  BY FillOf, Zenon
<1>2. x = [tokens |-> t, age |-> 0, rate |-> r]
  BY RefillOf, Zenon
<1> HIDE DEF x, t, r
<1>3. /\ BucketOK(Spend(x)) /\ Spend(x).rate = r
      /\ t < Window => Fill(Spend(x)) = t
      /\ t >= Window => Fill(Spend(x)) = t - Window
  BY <1>1, <1>2, SpendOf
<1> QED
  BY <1>3, Zenon DEF x, t, r

\* A tick adds the rate, up to the capacity; a bucket of the greatest age is full.
LEMMA OlderOf ==
  ASSUME NEW b, BucketOK(b)
  PROVE  /\ BucketOK(Older(b)) /\ Older(b).rate = b.rate
         /\ Fill(Older(b)) = Least(Fill(b) + b.rate, b.rate * Window)
<1>1. b \in [tokens : Nat, age : Nat, rate : Nat] /\ b.tokens <= b.rate * Window /\ b.age <= MaxAge
  BY Zenon DEF BucketOK, Bucket
<1>2. /\ b.tokens \in Nat /\ b.age \in Nat /\ b.rate \in Nat /\ Window \in Nat \ {0}
      /\ MaxAge = 2 * Window + 1
  BY <1>1, AcceptConstants, Zenon DEF MaxAge
<1> DEFINE g == Least(b.age + 1, MaxAge)
           o == Older(b)
<1>3. g \in Nat /\ g <= MaxAge /\ (g = b.age + 1 \/ (g = b.age /\ Window <= b.age))
  BY <1>1, <1>2 DEF Least
<1>4. /\ o = [b EXCEPT !.age = g]
  BY <1>1, Zenon DEF Older
<1> HIDE DEF g, o
<1>5. o \in Bucket /\ o.tokens = b.tokens /\ o.rate = b.rate /\ o.age = g
  BY <1>1, <1>3, <1>4, Zenon DEF Bucket
<1>6. BucketOK(o)
  BY <1>1, <1>3, <1>5, Zenon DEF BucketOK
<1> DEFINE t == b.tokens
           p == b.rate * b.age
           q == b.rate * g
           r == b.rate
           f == b.rate * Window
<1>7. /\ p \in Nat /\ f \in Nat /\ q \in Nat /\ t \in Nat /\ r \in Nat /\ t <= f
      /\ (g = b.age + 1 => q = p + r) /\ (Window <= b.age => f <= p)
  BY <1>1, <1>2, <1>3, Products, Zenon
<1>8. /\ Fill(b) = Least(t + p, f) /\ Fill(o) = Least(t + q, f)
  BY <1>5, Zenon DEF Fill
<1>9. g = b.age => q = p
  BY Zenon
<1> HIDE DEF t, p, q, r, f
<1>10. Least(t + q, f) = Least(Least(t + p, f) + r, f)
  BY <1>3, <1>7, <1>9 DEF Least
<1> QED
  BY <1>5, <1>6, <1>8, <1>10, Zenon DEF o, r, f

\* Evicting a stale bucket: it would be full, and so would its reference.
LEMMA EvictOf ==
  ASSUME BucketsInv
  PROVE  /\ EvictStale(buckets) \in [Addrs -> Bucket]
         /\ \A a \in Addrs : /\ BucketOK(EvictStale(buckets)[a])
                             /\ Dominated(EvictStale(buckets)[a], ref[a])
                             /\ EvictStale(buckets)[a].rate # 0 => buckets[a].rate # 0
<1> DEFINE E == EvictStale(buckets)
<1>1. /\ E = [a \in Addrs |-> E[a]]
      /\ \A a \in Addrs : E[a] = IF Stale(buckets[a]) THEN NoBucket ELSE buckets[a]
  BY Zenon DEF EvictStale
<1>2. BucketOK(NoBucket) /\ NoBucket.rate = 0
  <2>1. 0 \in Nat /\ 0 <= 0 * Window
    BY AcceptConstants
  <2> QED
    BY <2>1, BucketMade, Zenon DEF NoBucket
<1> HIDE DEF E
<1>3. ASSUME NEW a \in Addrs
      PROVE  BucketOK(E[a]) /\ Dominated(E[a], ref[a]) /\ (E[a].rate # 0 => buckets[a].rate # 0)
  <2>1. BucketOK(buckets[a]) /\ BucketOK(ref[a]) /\ Dominated(buckets[a], ref[a])
    BY Zenon DEF BucketsInv
  <2>2. CASE ~Stale(buckets[a])
    BY <1>1, <2>1, <2>2, Zenon
  <2>3. CASE Stale(buckets[a])
    <3>1. E[a] = NoBucket /\ buckets[a].rate # 0 /\ buckets[a].age > 2 * Window
      BY <1>1, <2>3, Zenon DEF Stale
    <3>2. buckets[a].age >= Window
      <4>1. buckets[a].age \in Nat /\ Window \in Nat
        BY <2>1, FillOf, AcceptConstants, Zenon
      <4> QED
        BY <3>1, <4>1
    <3>3. buckets[a].rate = ref[a].rate /\ Fill(buckets[a]) <= Fill(ref[a])
      BY <2>1, <3>1, Zenon DEF Dominated
    <3>4. Fill(buckets[a]) = ref[a].rate * Window
      BY <2>1, <3>2, <3>3, FillOf, Zenon
    <3>5. Fill(ref[a]) \in Nat /\ ref[a].rate * Window \in Nat /\ Fill(ref[a]) <= ref[a].rate * Window
      BY <2>1, FillOf, Zenon
    <3>6. Fill(ref[a]) = ref[a].rate * Window
      <4> DEFINE f == ref[a].rate * Window
      <4>1. f \in Nat /\ f <= Fill(ref[a]) /\ Fill(ref[a]) <= f
        BY <3>3, <3>4, <3>5, Zenon
      <4> HIDE DEF f
      <4>2. Fill(ref[a]) = f
        BY <3>5, <4>1
      <4> QED
        BY <4>2, Zenon DEF f
    <3>7. Dominated(E[a], ref[a])
      BY <1>2, <3>1, <3>6, Zenon DEF Dominated
    <3> QED
      BY <1>2, <3>1, <3>7, Zenon
  <2> QED
    BY <2>2, <2>3, Zenon
<1>4. E \in [Addrs -> Bucket]
  <2>1. \A a \in Addrs : E[a] \in Bucket
    BY <1>3, Zenon DEF BucketOK
  <2> QED
    BY <1>1, <2>1, Zenon
<1> QED
  BY <1>3, <1>4, Zenon DEF E

\* The invariant, address by address.
LEMMA BucketsPut ==
  ASSUME DOMAIN buckets' = Addrs, DOMAIN ref' = Addrs,
         buckets' = [a \in DOMAIN buckets' |-> buckets'[a]], ref' = [a \in DOMAIN ref' |-> ref'[a]],
         \A a \in Addrs : BucketOK(buckets'[a]) /\ BucketOK(ref'[a]) /\ Dominated(buckets'[a], ref'[a])
  PROVE  BucketsInv'
<1>1. \A a \in Addrs : buckets'[a] \in Bucket /\ ref'[a] \in Bucket
  BY Zenon DEF BucketOK
<1>2. buckets' \in [Addrs -> Bucket] /\ ref' \in [Addrs -> Bucket]
  BY <1>1, Zenon
<1> QED
  BY <1>2, Zenon DEF BucketsInv

\* A tick of the clock.
LEMMA TickBuckets ==
  ASSUME BucketsInv, Tick
  PROVE  BucketsInv'
<1>1. /\ buckets' = [a \in Addrs |-> IF buckets[a].rate # 0 THEN Older(buckets[a]) ELSE NoBucket]
      /\ ref' = [a \in Addrs |-> Older(ref[a])]
  BY Zenon DEF Tick
<1>2. BucketOK(NoBucket) /\ NoBucket.rate = 0
  <2>1. 0 \in Nat /\ 0 <= 0 * Window
    BY AcceptConstants
  <2> QED
    BY <2>1, BucketMade, Zenon DEF NoBucket
<1>3. ASSUME NEW a \in Addrs
      PROVE  BucketOK(buckets'[a]) /\ BucketOK(ref'[a]) /\ Dominated(buckets'[a], ref'[a])
  <2> DEFINE b == buckets[a]
             r == ref[a]
             f == r.rate * Window
  <2>1. BucketOK(b) /\ BucketOK(r) /\ Dominated(b, r)
    BY Zenon DEF BucketsInv
  <2>2. /\ BucketOK(Older(r)) /\ Older(r).rate = r.rate
        /\ Fill(Older(r)) = Least(Fill(r) + r.rate, f)
    BY <2>1, OlderOf, Zenon
  <2>3. Fill(r) \in Nat /\ f \in Nat /\ r.rate \in Nat
    BY <2>1, FillOf, Zenon
  <2>4. ref'[a] = Older(r)
    BY <1>1, Zenon
  <2>5. CASE b.rate # 0
    <3>1. buckets'[a] = Older(b) /\ b.rate = r.rate /\ Fill(b) <= Fill(r)
      BY <1>1, <2>1, <2>5, Zenon DEF Dominated
    <3>2. /\ BucketOK(Older(b)) /\ Older(b).rate = b.rate
          /\ Fill(Older(b)) = Least(Fill(b) + r.rate, f)
      BY <2>1, <3>1, OlderOf, Zenon
    <3>3. Fill(b) \in Nat
      BY <2>1, FillOf, Zenon
    <3> HIDE DEF f
    <3>4. Least(Fill(b) + r.rate, f) <= Least(Fill(r) + r.rate, f)
      BY <2>3, <3>1, <3>3 DEF Least
    <3>5. Dominated(Older(b), Older(r))
      BY <2>2, <2>5, <3>1, <3>2, <3>4, Zenon DEF Dominated
    <3> QED
      BY <2>2, <2>4, <3>1, <3>2, <3>5, Zenon
  <2>6. CASE b.rate = 0
    <3>1. buckets'[a] = NoBucket /\ Fill(r) = f
      BY <1>1, <2>1, <2>6, Zenon DEF Dominated
    <3> HIDE DEF f
    <3>2. Least(Fill(r) + r.rate, f) = f
      BY <2>3, <3>1 DEF Least
    <3>3. Dominated(NoBucket, Older(r))
      BY <1>2, <2>2, <3>2, Zenon DEF Dominated, f
    <3> QED
      BY <1>2, <2>2, <2>4, <3>1, <3>3, Zenon
  <2> QED
    BY <2>5, <2>6, Zenon
<1> QED
  BY <1>1, <1>3, BucketsPut, Zenon

\* A request of an address: its bucket is spent from when the reference is.
LEMMA RequestBuckets ==
  ASSUME BucketsInv, NEW c \in Conns, Request(c)
  PROVE  BucketsInv'
<1> DEFINE a == AddrOf[c]
           b == buckets[a]
           r == ref[a]
           E == EvictStale(buckets)
           rate == IF a \in whitelist THEN ListedRate ELSE Rate
<1>1. /\ buckets' = AllowBuckets(a)
      /\ ref' = IF AllowOK(a) THEN [ref EXCEPT ![a] = Spend(RefRefilled(a))] ELSE ref
  BY Zenon DEF Request
<1>2. a \in Addrs /\ rate \in Nat \ {0} /\ Window \in Nat
  BY AcceptConstants, Zenon
<1>3. /\ buckets \in [Addrs -> Bucket] /\ ref \in [Addrs -> Bucket]
      /\ E \in [Addrs -> Bucket]
  BY EvictOf, Zenon DEF BucketsInv
<1>4. \A x \in Addrs : /\ BucketOK(buckets[x]) /\ BucketOK(ref[x]) /\ Dominated(buckets[x], ref[x])
                       /\ BucketOK(E[x]) /\ Dominated(E[x], ref[x])
  BY EvictOf, Zenon DEF BucketsInv
<1>5. b.rate = 0 => E[a].rate = 0
  BY <1>2, EvictOf, Zenon
<1>6. \E table \in {buckets, E} :
        \/ b.rate # 0 /\ AllowBuckets(a) = [buckets EXCEPT ![a] = Spend(Refilled(b))]
        \/ b.rate = 0 /\ AllowBuckets(a) = table
        \/ b.rate = 0 /\ AllowBuckets(a) = [table EXCEPT ![a] = Spend(FullBucket(rate))]
  BY Zenon DEF AllowBuckets
<1> HIDE DEF a, E, rate
<1>7. PICK table \in {buckets, E} :
        \/ b.rate # 0 /\ AllowBuckets(a) = [buckets EXCEPT ![a] = Spend(Refilled(b))]
        \/ b.rate = 0 /\ AllowBuckets(a) = table
        \/ b.rate = 0 /\ AllowBuckets(a) = [table EXCEPT ![a] = Spend(FullBucket(rate))]
  BY <1>6, Zenon
<1>8. table \in [Addrs -> Bucket]
  BY <1>3, Zenon
<1>9. ASSUME NEW x \in Addrs, x # a
      PROVE  /\ buckets'[x] \in {buckets[x], E[x]} /\ ref'[x] = ref[x]
  BY <1>1, <1>3, <1>7, <1>8, <1>9, Zenon
<1>10. /\ DOMAIN buckets' = Addrs /\ DOMAIN ref' = Addrs
       /\ buckets' = [x \in DOMAIN buckets' |-> buckets'[x]] /\ ref' = [x \in DOMAIN ref' |-> ref'[x]]
  BY <1>1, <1>3, <1>7, <1>8, Zenon
<1>11. ASSUME BucketOK(buckets'[a]), BucketOK(ref'[a]), Dominated(buckets'[a], ref'[a])
       PROVE  BucketsInv'
  <2>1. ASSUME NEW x \in Addrs
        PROVE  BucketOK(buckets'[x]) /\ BucketOK(ref'[x]) /\ Dominated(buckets'[x], ref'[x])
    <3>1. CASE x = a
      BY <1>11, <3>1, Zenon
    <3>2. CASE x # a
      BY <1>4, <1>9, <3>2, Zenon
    <3> QED
      BY <3>1, <3>2, Zenon
  <2> QED
    BY <1>10, <2>1, BucketsPut, Zenon
<1>12. BucketOK(b) /\ BucketOK(r) /\ Dominated(b, r)
  BY <1>2, <1>4, Zenon
<1>13. /\ Fill(b) \in Nat /\ Fill(b) <= b.rate * Window /\ b.rate \in Nat
       /\ Fill(r) \in Nat /\ Fill(r) <= r.rate * Window /\ r.rate \in Nat
  BY <1>12, FillOf, Zenon
<1>14. CASE b.rate # 0
  <2> DEFINE s == Spend(Refilled(b))
             z == Spend(Refilled(r))
  <2>1. AllowBuckets(a) = [buckets EXCEPT ![a] = s]
    BY <1>7, <1>14, Zenon
  <2>2. AllowBuckets(a)[a] = s
    BY <1>2, <1>3, <2>1, Zenon
  <2>3. b.rate = r.rate /\ Fill(b) <= Fill(r)
    BY <1>12, <1>14, Zenon DEF Dominated
  <2>4. /\ BucketOK(s) /\ s.rate = b.rate
        /\ Fill(b) < Window => Fill(s) = Fill(b)
        /\ Fill(b) >= Window => Fill(s) = Fill(b) - Window
    BY <1>12, SpendRefilled, Zenon
  <2>5. /\ BucketOK(z) /\ z.rate = r.rate
        /\ Fill(r) >= Window => Fill(z) = Fill(r) - Window
    BY <1>12, SpendRefilled, Zenon
  <2>6. AllowOK(a) <=> Fill(b) >= Window
    BY <1>12, <1>14, RefillOf, Zenon DEF AllowOK
  <2> HIDE DEF s
  <2>7. RefRefilled(a) = Refilled(r)
    BY <1>14, <2>2, <2>3, <2>4, Zenon DEF RefRefilled, RefRate
  <2>8. ref'[a] = IF AllowOK(a) THEN z ELSE r
    BY <1>1, <1>2, <1>3, <2>7, Zenon
  <2> HIDE DEF z
  <2>9. buckets'[a] = s
    BY <1>1, <2>2, Zenon
  <2>10. CASE AllowOK(a)
    <3>1. Fill(b) >= Window /\ Fill(r) >= Window /\ Fill(b) - Window <= Fill(r) - Window
      BY <1>2, <1>13, <2>3, <2>6, <2>10
    <3>2. Dominated(s, z)
      BY <1>14, <2>3, <2>4, <2>5, <3>1, Zenon DEF Dominated
    <3> QED
      BY <1>11, <2>4, <2>5, <2>8, <2>9, <2>10, <3>2, Zenon
  <2>11. CASE ~AllowOK(a)
    <3>1. Fill(b) < Window
      BY <1>2, <1>13, <2>6, <2>11
    <3>2. Dominated(s, r)
      BY <1>14, <2>3, <2>4, <3>1, Zenon DEF Dominated
    <3> QED
      BY <1>11, <1>12, <2>4, <2>8, <2>9, <2>11, <3>2, Zenon
  <2> QED
    BY <2>10, <2>11, Zenon
<1>15. CASE b.rate = 0 /\ AllowBuckets(a) = table
  <2>1. Tracked(table) \subseteq Tracked(buckets)
    BY EvictOf, Zenon DEF Tracked, E
  <2>2. ~AllowOK(a)
    BY <1>15, <2>1, Zenon DEF AllowOK
  <2>3. ref'[a] = r /\ buckets'[a] \in {b, E[a]}
    <3>1. table[a] \in {b, E[a]}
      BY Zenon
    <3>2. ref' = ref
      BY <1>1, <2>2, Zenon
    <3>3. buckets' = table
      BY <1>1, <1>15, Zenon
    <3> QED
      BY <3>1, <3>2, <3>3, Zenon
  <2> QED
    <3>1. BucketOK(r) /\ \A x \in {b, E[a]} : BucketOK(x) /\ Dominated(x, r)
      BY <1>2, <1>4, Zenon
    <3> HIDE DEF b, r
    <3> QED
      BY <1>11, <2>3, <3>1, Zenon
<1>16. CASE b.rate = 0 /\ AllowBuckets(a) = [table EXCEPT ![a] = Spend(FullBucket(rate))]
  <2> DEFINE f == rate * Window
             full == FullBucket(rate)
             s == Spend(full)
  <2>1. rate \in Nat /\ rate # 0 /\ f \in Nat /\ f <= f
    <3>1. f \in Nat
      BY <1>2, Products, Zenon
    <3> QED
      BY <1>2, <3>1
  <2>2. full = [tokens |-> f, age |-> 0, rate |-> rate]
    BY <2>1, FullOf, Zenon
  <2>3. BucketOK(s) /\ s.rate = rate
    BY <2>1, <2>2, SpendOf, Zenon
  <2>4. AllowBuckets(a)[a] = s
    BY <1>2, <1>8, <1>16, Zenon
  <2> HIDE DEF s
  <2>5. AllowOK(a)
    <3>1. a \in Tracked(AllowBuckets(a)) /\ a \notin Tracked(buckets)
      BY <1>2, <1>16, <2>1, <2>3, <2>4, Zenon DEF Tracked
    <3> QED
      BY <1>16, <3>1, Zenon DEF AllowOK
  <2>6. RefRefilled(a) = full
    <3>1. RefRate(a) = rate
      BY <2>1, <2>3, <2>4, Zenon DEF RefRate
    <3>2. Fill(r) = r.rate * Window
      BY <1>12, <1>16, Zenon DEF Dominated
    <3>3. rate = r.rate => Refilled(r) = full
      BY <1>12, <2>2, <3>2, RefillOf, Zenon
    <3> QED
      BY <3>1, <3>3, Zenon DEF RefRefilled
  <2>7. buckets'[a] = s /\ ref'[a] = s
    BY <1>1, <1>2, <1>3, <2>4, <2>5, <2>6, Zenon DEF s
  <2>8. Dominated(s, s)
    <3>1. Fill(s) \in Nat
      BY <2>3, FillOf, Zenon
    <3>2. Fill(s) <= Fill(s)
      BY <3>1
    <3> QED
      BY <2>1, <2>3, <3>2, Zenon DEF Dominated
  <2> QED
    BY <1>11, <2>3, <2>7, <2>8, Zenon
<1> QED
  BY <1>7, <1>14, <1>15, <1>16, Zenon

\* Evicting idle buckets grants nothing, for any rates, window, table size and clients:
\* whatever RateLimiter.Allow, its eviction and RateLimiterCleanup do, no address gets
\* more than from buckets that are never evicted.
THEOREM EvictionIsHarmless == AcceptSpec => []EvictionGrantsNothing
<1>1. AcceptInit => BucketsInv
  <2> SUFFICES ASSUME AcceptInit PROVE BucketsInv
    BY Zenon
  <2>1. /\ buckets = [a \in Addrs |-> NoBucket] /\ ref = [a \in Addrs |-> FullBucket(Rate)]
        /\ Rate \in Nat
    BY AcceptConstants, Zenon DEF AcceptInit
  <2>2. BucketOK(NoBucket) /\ NoBucket.rate = 0
    <3>1. 0 \in Nat /\ 0 <= 0 * Window
      BY AcceptConstants
    <3> QED
      BY <3>1, BucketMade, Zenon DEF NoBucket
  <2>3. /\ BucketOK(FullBucket(Rate)) /\ FullBucket(Rate).rate = Rate
        /\ Fill(FullBucket(Rate)) = Rate * Window
    <3>1. Rate * Window \in Nat /\ Rate * Window <= Rate * Window
      <4>1. Rate * Window \in Nat
        BY AcceptConstants, Products, Zenon
      <4> QED
        BY <4>1
    <3> QED
      BY <2>1, <3>1, BucketMade, Zenon DEF FullBucket
  <2>4. Dominated(NoBucket, FullBucket(Rate))
    BY <2>2, <2>3, Zenon DEF Dominated
  <2>5. NoBucket \in Bucket /\ FullBucket(Rate) \in Bucket
    BY <2>2, <2>3, Zenon DEF BucketOK
  <2> QED
    BY <2>1, <2>2, <2>3, <2>4, <2>5, Zenon DEF BucketsInv
<1>2. BucketsInv /\ [AcceptNext]_acceptVars => BucketsInv'
  <2> SUFFICES ASSUME BucketsInv, [AcceptNext]_acceptVars PROVE BucketsInv'
    BY Zenon
  <2>1. ASSUME UNCHANGED <<buckets, ref>> PROVE BucketsInv'
    BY <2>1, Zenon DEF BucketsInv
  <2>2. CASE Cleanup
    BY <2>2, EvictOf, Zenon DEF Cleanup, BucketsInv
  <2>3. ASSUME NEW c \in Conns,
               AcceptConn(c) \/ CloseConn(c) \/ SubscribeConn(c) \/ CheckRequest(c)
        PROVE  UNCHANGED <<buckets, ref>>
    BY <2>3, Zenon DEF AcceptConn, CloseConn, SubscribeConn, CheckRequest
  <2>4. CASE SetWhitelist \/ UNCHANGED acceptVars
    BY <2>1, <2>4, Zenon DEF SetWhitelist, acceptVars
  <2> QED
    BY <2>1, <2>2, <2>3, <2>4, TickBuckets, RequestBuckets, Zenon DEF AcceptNext
<1>3. BucketsInv => EvictionGrantsNothing
  <2> SUFFICES ASSUME BucketsInv, NEW a \in Addrs
               PROVE  IF buckets[a].rate # 0
                      THEN buckets[a].rate = ref[a].rate =>
                             Refilled(buckets[a]).tokens <= Refilled(ref[a]).tokens
                      ELSE Refilled(ref[a]).tokens = ref[a].rate * Window
    BY Zenon DEF EvictionGrantsNothing
  <2>1. BucketOK(buckets[a]) /\ BucketOK(ref[a]) /\ Dominated(buckets[a], ref[a])
    BY Zenon DEF BucketsInv
  <2>2. Refilled(buckets[a]).tokens = Fill(buckets[a]) /\ Refilled(ref[a]).tokens = Fill(ref[a])
    BY <2>1, RefillOf, Zenon
  <2> QED
    BY <2>1, <2>2, Zenon DEF Dominated
<1> QED
  BY <1>1, <1>2, <1>3, PTL DEF AcceptSpec

-----------------------------------------------------------------------------
(* The trust store *)

Response == [FromNodeID : Nodes, Accept : BOOLEAN]
Responses == [Nodes -> SUBSET Response]
Inboxes == [Nodes -> SUBSET Nodes]
Respond == [op : {"respond"}, node : Nodes, peer : Nodes, accept : BOOLEAN,
            pc : {"verified", "taken", "added"}]
TrustRequest ==
  {Idle} \cup Respond
  \cup [op : {"report", "request", "revoke"}, node : Nodes, peer : Nodes, pc : {"verified"}]
  \cup [op : {"poll"}, node : Nodes, pc : {"verified"}]

Copied == [pc : {"copied"}, inbox : Inboxes, responses : Responses]
Awaiting == [pc : {"rev"}, rev : Nat, inbox : Inboxes, responses : Responses]
Walking == [pc : {"keys"}, rev : Nat, inbox : Inboxes, responses : Responses,
            left : SUBSET PairSet, got : SUBSET PairSet]
Encoded == [pc : {"encoded"}, inbox : Inboxes, responses : Responses, pairs : SUBSET PairSet,
            ref : BOOLEAN, torn : BOOLEAN]
Encoding == {NoEncoding} \cup Copied \cup Awaiting \cup Walking \cup Encoded

TrustTypes ==
  /\ live \in SUBSET Nodes
  /\ trustPairs \in SUBSET PairSet /\ rev \in Nat
  /\ inbox \in Inboxes /\ responses \in Responses
  /\ reqs \in [Handlers -> TrustRequest]
  /\ \A c \in Handlers : reqs[c].op \in {"report", "respond"} => Pair(c) \in PairSet
  /\ cache \in [rev : Nat, pairs : SUBSET PairSet, cap : Nat, lock : BOOLEAN]
  /\ encs \in [Encoders -> Encoding]
  /\ trustDisk \in [pairs : SUBSET PairSet, inbox : Inboxes, responses : Responses]

\* Every acceptance among the answers rs has its pair in S.
Backed(rs, S) ==
  \A n \in Nodes : \A r \in rs[n] : r.Accept => {n, r.FromNodeID} \in S

\* A pair once accepted stays trusted or has been revoked.
Kept == trustPairs \cup revoked

\* What an encoder still has to find, or has found, of the pairs.
Seen(w) == encs[w].left \cup encs[w].got \cup revoked

\* The answers a snapshot has copied are backed by the pairs it will write: those in the
\* set while it has none yet, then those of any walk, or of the cache, of the revision
\* it has read.
EncoderInv(e) ==
  /\ encs[e].pc \in {"copied", "rev", "keys"} => Backed(encs[e].responses, Kept)
  /\ encs[e].pc = "rev" =>
       /\ encs[e].rev <= rev
       /\ cache.pairs # {} /\ cache.rev = encs[e].rev =>
            Backed(encs[e].responses, cache.pairs \cup revoked)
       /\ \A w \in Encoders : encs[w].pc = "keys" /\ encs[w].rev = encs[e].rev =>
            Backed(encs[e].responses, Seen(w))
  /\ encs[e].pc = "keys" =>
       /\ encs[e].rev <= rev
       /\ encs[e].rev = rev => encs[e].got = trustPairs \ encs[e].left
       /\ Backed(encs[e].responses, Seen(e))
  /\ encs[e].pc = "encoded" => Backed(encs[e].responses, encs[e].pairs \cup revoked)

AnswersInv ==
  /\ Backed(responses, Kept)
  /\ \A c \in Handlers : At(c, "respond", "added") /\ reqs[c].accept => Pair(c) \in Kept

SnapshotInv ==
  /\ Backed(trustDisk.responses, trustDisk.pairs \cup revoked)
  /\ cache.rev <= rev /\ EncodeCacheExact
  /\ \A e \in Encoders : EncoderInv(e)

\* More pairs back the same answers.
LEMMA BackedMore ==
  ASSUME NEW rs, NEW S, NEW T, Backed(rs, S), S \subseteq T
  PROVE  Backed(rs, T)
BY Zenon DEF Backed

\* The set of pairs has finitely many members.
LEMMA PairCounts == \A S \in SUBSET PairSet : Cardinality(S) \in Nat
<1>1. IsFiniteSet(SUBSET Nodes)
  BY TrustAssumption, FS_SUBSET, Zenon
<1>2. \A S \in SUBSET PairSet : S \subseteq SUBSET Nodes
  BY Zenon DEF PairSet
<1>3. \A S \in SUBSET PairSet : IsFiniteSet(S)
  BY <1>1, <1>2, FS_Subset, Zenon
<1> QED
  BY <1>3, FS_CardinalityType, Zenon

\* A handler without a request and an encoder without a snapshot.
LEMMA IdleShape ==
  /\ Idle.op = "none" /\ Idle \in TrustRequest
  /\ NoEncoding.pc = "idle" /\ NoEncoding \in Encoding
BY Zenon DEF Idle, TrustRequest, NoEncoding, Encoding

\* They promise nothing.
LEMMA IdlePromises ==
  /\ \A c \in Handlers : reqs[c] = Idle =>
       reqs[c].op \notin {"report", "respond"} /\ ~At(c, "respond", "added")
  /\ \A e \in Encoders : encs[e] = NoEncoding => EncoderInv(e)
<1>1. Idle.op \notin {"report", "respond"}
  BY IdleShape, Zenon
<1>2. NoEncoding.pc \notin {"copied", "rev", "keys", "encoded"}
  BY IdleShape, Zenon
<1> QED
  BY <1>1, <1>2, Zenon DEF At, EncoderInv

\* A server started from a snapshot file satisfies the invariants.
LEMMA TrustInitial == TrustInit => TrustTypes /\ AnswersInv /\ SnapshotInv
<1> SUFFICES ASSUME TrustInit PROVE TrustTypes /\ AnswersInv /\ SnapshotInv
  BY Zenon
<1>1. inbox \in Inboxes /\ responses \in Responses /\ \A n \in Nodes : responses[n] = {}
  BY Zenon DEF TrustInit, Inboxes, Responses
<1>2. /\ reqs \in [Handlers -> TrustRequest] /\ \A c \in Handlers : reqs[c] = Idle
      /\ encs \in [Encoders -> Encoding] /\ \A e \in Encoders : encs[e] = NoEncoding
  BY Zenon DEF TrustInit, TrustRequest, Encoding
<1>3. rev \in Nat /\ 0 \in Nat /\ 0 <= rev
  <2>1. rev \in Nat
    BY TrustAssumption, PairCounts, Zenon DEF TrustInit
  <2> QED
    BY <2>1
<1>4. cache \in [rev : Nat, pairs : SUBSET PairSet, cap : Nat, lock : BOOLEAN] /\ cache.rev <= rev
      /\ cache.pairs = {}
  BY <1>3, Zenon DEF TrustInit, EmptyCache
<1>5. trustDisk \in [pairs : SUBSET PairSet, inbox : Inboxes, responses : Responses]
      /\ trustDisk.responses = responses
  BY <1>1, TrustAssumption, Zenon DEF TrustInit
<1>6. TrustTypes
  BY <1>1, <1>2, <1>3, <1>4, <1>5, IdlePromises, TrustAssumption, Zenon DEF TrustTypes, TrustInit
<1>7. AnswersInv
  BY <1>1, <1>2, IdlePromises, Zenon DEF AnswersInv, Backed
<1>8. \A e \in Encoders : EncoderInv(e)
  BY <1>2, IdlePromises, Zenon
<1> QED
  BY <1>1, <1>4, <1>5, <1>6, <1>7, <1>8, Zenon DEF SnapshotInv, EncodeCacheExact, Backed

-----------------------------------------------------------------------------
\* A request that answers a handshake, or begins one.
LEMMA RespondShape ==
  ASSUME NEW r \in TrustRequest
  PROVE  /\ r.op = "respond" => r \in Respond
         /\ r.op = "request" => r.node \in Nodes /\ r.peer \in Nodes
<1>1. CASE r \in Respond
  BY <1>1, Zenon DEF Respond
<1>2. CASE r = Idle
  BY <1>2, IdleShape, Zenon
<1>3. CASE r \in [op : {"report", "request", "revoke"}, node : Nodes, peer : Nodes,
                  pc : {"verified"}]
  <2>1. r.op \in {"report", "request", "revoke"} /\ r.node \in Nodes /\ r.peer \in Nodes
    BY <1>3, Zenon
  <2> QED
    BY <2>1, Zenon
<1>4. CASE r \in [op : {"poll"}, node : Nodes, pc : {"verified"}]
  <2>1. r.op = "poll"
    BY <1>4, Zenon
  <2> QED
    BY <2>1, Zenon
<1> QED
  BY <1>1, <1>2, <1>3, <1>4, Zenon DEF TrustRequest

\* What an encoder holds at each point of its snapshot.
LEMMA EncodingShape ==
  ASSUME NEW x \in Encoding
  PROVE  /\ x.pc = "idle" => x = NoEncoding
         /\ x.pc = "copied" => x \in Copied
         /\ x.pc = "rev" => x \in Awaiting
         /\ x.pc = "keys" => x \in Walking
         /\ x.pc = "encoded" => x \in Encoded
<1>1. CASE x = NoEncoding
  BY <1>1, IdleShape, Zenon
<1>2. CASE x \in Copied
  <2>1. x.pc = "copied"
    BY <1>2, Zenon DEF Copied
  <2> QED
    BY <1>2, <2>1, Zenon
<1>3. CASE x \in Awaiting
  <2>1. x.pc = "rev"
    BY <1>3, Zenon DEF Awaiting
  <2> QED
    BY <1>3, <2>1, Zenon
<1>4. CASE x \in Walking
  <2>1. x.pc = "keys"
    BY <1>4, Zenon DEF Walking
  <2> QED
    BY <1>4, <2>1, Zenon
<1>5. CASE x \in Encoded
  <2>1. x.pc = "encoded"
    BY <1>5, Zenon DEF Encoded
  <2> QED
    BY <1>5, <2>1, Zenon
<1> QED
  BY <1>1, <1>2, <1>3, <1>4, <1>5, Zenon DEF Encoding

\* The types of the requests under way.
RequestsTyped ==
  /\ reqs \in [Handlers -> TrustRequest]
  /\ \A c \in Handlers : reqs[c].op \in {"report", "respond"} => Pair(c) \in PairSet

\* The requests keep their type when one of them changes.
LEMMA RequestPut ==
  ASSUME TrustTypes, NEW c \in Handlers, NEW r \in TrustRequest,
         r.op \in {"report", "respond"} => {r.node, r.peer} \in PairSet,
         reqs' = [reqs EXCEPT ![c] = r]
  PROVE  RequestsTyped'
<1>1. reqs \in [Handlers -> TrustRequest]
  BY Zenon DEF TrustTypes
<1>2. reqs' \in [Handlers -> TrustRequest]
  BY <1>1, Zenon
<1>3. ASSUME NEW x \in Handlers, reqs'[x].op \in {"report", "respond"}
      PROVE  {reqs'[x].node, reqs'[x].peer} \in PairSet
  <2>1. CASE x = c
    <3>1. reqs'[x] = r
      BY <1>1, <2>1, Zenon
    <3> QED
      BY <1>3, <3>1, Zenon
  <2>2. CASE x # c
    <3>1. reqs'[x] = reqs[x]
      BY <1>1, <2>2, Zenon
    <3> QED
      BY <1>3, <3>1, Zenon DEF TrustTypes, Pair
  <2> QED
    BY <2>1, <2>2, Zenon
<1> QED
  BY <1>2, <1>3, Zenon DEF RequestsTyped, Pair

\* A handler ends, or moves on.
LEMMA RequestMoves ==
  ASSUME TrustTypes, NEW c \in Handlers
  PROVE  /\ Done(c) => RequestsTyped'
         /\ \A pc \in {"taken", "added"} :
              reqs[c].op = "respond" /\ reqs' = [reqs EXCEPT ![c].pc = pc] =>
                /\ RequestsTyped'
                /\ reqs'[c].op = "respond" /\ reqs'[c].pc = pc
                /\ reqs'[c].accept = reqs[c].accept /\ Pair(c)' = Pair(c)
<1>1. Done(c) => RequestsTyped'
  <2>1. Idle \in TrustRequest /\ Idle.op \notin {"report", "respond"}
    BY Zenon DEF TrustRequest, Idle
  <2> QED
    BY <2>1, RequestPut, Zenon DEF Done
<1>2. ASSUME NEW pc \in {"taken", "added"}, reqs[c].op = "respond",
             reqs' = [reqs EXCEPT ![c].pc = pc]
      PROVE  /\ RequestsTyped'
             /\ reqs'[c].op = "respond" /\ reqs'[c].pc = pc
             /\ reqs'[c].accept = reqs[c].accept /\ Pair(c)' = Pair(c)
  <2> DEFINE r == [reqs[c] EXCEPT !.pc = pc]
  <2>1. reqs \in [Handlers -> TrustRequest] /\ reqs[c] \in Respond /\ Pair(c) \in PairSet
    BY <1>2, RespondShape, Zenon DEF TrustTypes
  <2>2. /\ r.op = "respond" /\ r.pc = pc /\ r.accept = reqs[c].accept
        /\ r.node = reqs[c].node /\ r.peer = reqs[c].peer /\ r \in Respond
    BY <2>1, Zenon DEF Respond
  <2>3. reqs' = [reqs EXCEPT ![c] = r] /\ reqs'[c] = r
    BY <1>2, <2>1, Zenon
  <2>4. r \in TrustRequest /\ {r.node, r.peer} \in PairSet
    BY <2>1, <2>2, Zenon DEF TrustRequest, Pair
  <2> HIDE DEF r
  <2>5. RequestsTyped'
    BY <2>3, <2>4, RequestPut, Zenon
  <2> QED
    BY <2>2, <2>3, <2>5, Zenon DEF Pair
<1> QED
  BY <1>1, <1>2, Zenon

\* The requests of a handler that begins are typed.
LEMMA BeginTypes ==
  ASSUME TrustTypes, NEW c \in Handlers, Begin(c)
  PROVE  /\ RequestsTyped'
         /\ \A x \in Handlers : At(x, "respond", "added")' => x # c /\ reqs'[x] = reqs[x]
<1>1. PICK n \in live, p \in Nodes, r \in TrustRequest :
        /\ p # n
        /\ r.op \in {"report", "respond"} => r.node = n /\ r.peer = p
        /\ r.pc = "verified" /\ reqs' = [reqs EXCEPT ![c] = r]
  <2>1. PICK n \in live, p \in Nodes : p # n /\ (
       \/ /\ p \in live
          /\ \E op \in {"report", "request"} :
               reqs' = [reqs EXCEPT ![c] = [op |-> op, node |-> n, peer |-> p, pc |-> "verified"]]
       \/ /\ p \in live
          /\ \E ok \in BOOLEAN :
               reqs' = [reqs EXCEPT ![c] =
                 [op |-> "respond", node |-> n, peer |-> p, accept |-> ok, pc |-> "verified"]]
       \/ reqs' = [reqs EXCEPT ![c] = [op |-> "revoke", node |-> n, peer |-> p, pc |-> "verified"]]
       \/ reqs' = [reqs EXCEPT ![c] = [op |-> "poll", node |-> n, pc |-> "verified"]])
    BY Zenon DEF Begin
  <2>2. n \in Nodes /\ p \in Nodes
    BY Zenon DEF TrustTypes
  <2> DEFINE A(op) == [op |-> op, node |-> n, peer |-> p, pc |-> "verified"]
             B(ok) == [op |-> "respond", node |-> n, peer |-> p, accept |-> ok, pc |-> "verified"]
             C == [op |-> "poll", node |-> n, pc |-> "verified"]
  <2>3. \A op \in {"report", "request", "revoke"} :
          A(op) \in TrustRequest /\ A(op).node = n /\ A(op).peer = p /\ A(op).pc = "verified"
    BY <2>2, Zenon DEF TrustRequest
  <2>4. \A ok \in BOOLEAN :
          B(ok) \in TrustRequest /\ B(ok).node = n /\ B(ok).peer = p /\ B(ok).pc = "verified"
    BY <2>2, Zenon DEF TrustRequest, Respond
  <2>5. C \in TrustRequest /\ C.op = "poll" /\ C.pc = "verified"
    BY <2>2, Zenon DEF TrustRequest
  <2>6. \E r \in TrustRequest : /\ r.op \in {"report", "respond"} => r.node = n /\ r.peer = p
                                /\ r.pc = "verified" /\ reqs' = [reqs EXCEPT ![c] = r]
    <3>1. CASE \E op \in {"report", "request"} : reqs' = [reqs EXCEPT ![c] = A(op)]
      BY <3>1, <2>3, Zenon
    <3>2. CASE \E ok \in BOOLEAN : reqs' = [reqs EXCEPT ![c] = B(ok)]
      BY <3>2, <2>4, Zenon
    <3>3. CASE reqs' = [reqs EXCEPT ![c] = A("revoke")]
      BY <3>3, <2>3, Zenon
    <3>4. CASE reqs' = [reqs EXCEPT ![c] = C]
      BY <3>4, <2>5, Zenon
    <3> QED
      BY <2>1, <3>1, <3>2, <3>3, <3>4, Zenon
  <2> HIDE DEF A, B, C
  <2> QED
    BY <2>1, <2>6, Zenon
<1>2. n # p /\ n \in Nodes /\ p \in Nodes
  BY <1>1, Zenon DEF TrustTypes
<1>3. {n, p} \in PairSet
  BY <1>2, Zenon DEF PairSet
<1>4. RequestsTyped'
  BY <1>1, <1>3, RequestPut, Zenon
<1>5. reqs'[c] = r /\ \A x \in Handlers \ {c} : reqs'[x] = reqs[x]
  BY <1>1, Zenon DEF TrustTypes
<1> QED
  BY <1>1, <1>4, <1>5, Zenon DEF At

-----------------------------------------------------------------------------
\* What a handler may do to the pairs: none is dropped without being revoked, and the
\* revision goes up with every change.
PairsMove ==
  /\ Kept \subseteq Kept' /\ revoked \subseteq revoked'
  /\ (trustPairs' = trustPairs /\ rev' = rev) \/ rev' = rev + 1
  /\ UNCHANGED <<cache, encs, trustDisk>>

\* The snapshots under way, the cache and the file do not mind.
LEMMA SnapshotKept ==
  ASSUME TrustTypes, SnapshotInv, PairsMove
  PROVE  SnapshotInv'
<1>1. /\ UNCHANGED <<cache, encs, trustDisk>> /\ Kept \subseteq Kept' /\ revoked \subseteq revoked'
  BY Zenon DEF PairsMove
<1>2. \A k \in Nat : k <= rev => k <= rev' /\ (k = rev' => rev' = rev /\ trustPairs' = trustPairs)
  BY DEF PairsMove, TrustTypes
<1>3. cache.rev \in Nat /\ cache.rev <= rev
  BY Zenon DEF TrustTypes, SnapshotInv
<1>4. cache'.rev <= rev' /\ EncodeCacheExact'
  BY <1>1, <1>2, <1>3, Zenon DEF SnapshotInv, EncodeCacheExact
<1>5. \A S : S \cup revoked \subseteq S \cup revoked'
  BY <1>1, Zenon
<1>6. Backed(trustDisk.responses, trustDisk.pairs \cup revoked)'
  BY <1>1, <1>5, BackedMore, Zenon DEF SnapshotInv
<1>7. ASSUME NEW e \in Encoders PROVE EncoderInv(e)'
  <2>1. EncoderInv(e) /\ encs[e] \in Encoding
    BY Zenon DEF SnapshotInv, TrustTypes
  <2>2. (encs[e].pc \in {"copied", "rev", "keys"} => Backed(encs[e].responses, Kept))'
    BY <1>1, <2>1, BackedMore, Zenon DEF EncoderInv
  <2>3. (encs[e].pc = "encoded" => Backed(encs[e].responses, encs[e].pairs \cup revoked))'
    <3>1. encs[e].pc = "encoded" => Backed(encs[e].responses, encs[e].pairs \cup revoked)
      BY <2>1, Zenon DEF EncoderInv
    <3>2. encs[e].pairs \cup revoked \subseteq encs[e].pairs \cup revoked'
      BY <1>5, Zenon
    <3>3. encs[e].pc = "encoded" => Backed(encs[e].responses, encs[e].pairs \cup revoked')
      BY <3>1, <3>2, Zenon DEF Backed
    <3> QED
      BY <1>1, <3>3, Zenon
  <2>4. \A w \in Encoders : Seen(w) \subseteq Seen(w)'
    BY <1>1, Zenon DEF Seen
  <2>5. (encs[e].pc = "rev" =>
          /\ encs[e].rev <= rev
          /\ cache.pairs # {} /\ cache.rev = encs[e].rev =>
               Backed(encs[e].responses, cache.pairs \cup revoked)
          /\ \A w \in Encoders : encs[w].pc = "keys" /\ encs[w].rev = encs[e].rev =>
               Backed(encs[e].responses, Seen(w)))'
    <3> SUFFICES ASSUME encs[e].pc = "rev"
                 PROVE  /\ encs[e].rev <= rev'
                        /\ cache.pairs # {} /\ cache.rev = encs[e].rev =>
                             Backed(encs[e].responses, cache.pairs \cup revoked')
                        /\ \A w \in Encoders : encs[w].pc = "keys" /\ encs[w].rev = encs[e].rev =>
                             Backed(encs[e].responses, Seen(w)')
      BY <1>1, Zenon
    <3>1. encs[e].rev \in Nat /\ encs[e].rev <= rev
      BY <2>1, EncodingShape, Zenon DEF Awaiting, EncoderInv
    <3>2. cache.pairs # {} /\ cache.rev = encs[e].rev =>
            Backed(encs[e].responses, cache.pairs \cup revoked')
      <4>1. cache.pairs # {} /\ cache.rev = encs[e].rev =>
              Backed(encs[e].responses, cache.pairs \cup revoked)
        BY <2>1, Zenon DEF EncoderInv
      <4>2. cache.pairs \cup revoked \subseteq cache.pairs \cup revoked'
        BY <1>5, Zenon
      <4> QED
        BY <4>1, <4>2, BackedMore, Zenon
    <3>3. \A w \in Encoders : encs[w].pc = "keys" /\ encs[w].rev = encs[e].rev =>
            Backed(encs[e].responses, Seen(w)')
      BY <2>1, <2>4, BackedMore, Zenon DEF EncoderInv
    <3> QED
      BY <1>2, <3>1, <3>2, <3>3, Zenon
  <2>6. (encs[e].pc = "keys" =>
          /\ encs[e].rev <= rev
          /\ encs[e].rev = rev => encs[e].got = trustPairs \ encs[e].left
          /\ Backed(encs[e].responses, Seen(e)))'
    <3> SUFFICES ASSUME encs[e].pc = "keys"
                 PROVE  /\ encs[e].rev <= rev'
                        /\ encs[e].rev = rev' => encs[e].got = trustPairs' \ encs[e].left
                        /\ Backed(encs[e].responses, Seen(e)')
      BY <1>1, Zenon
    <3>1. encs[e].rev \in Nat /\ encs[e].rev <= rev
      BY <2>1, EncodingShape, Zenon DEF Walking, EncoderInv
    <3>2. encs[e].rev = rev => encs[e].got = trustPairs \ encs[e].left
      BY <2>1, Zenon DEF EncoderInv
    <3>3. Backed(encs[e].responses, Seen(e)')
      BY <2>1, <2>4, BackedMore, Zenon DEF EncoderInv
    <3> QED
      BY <1>2, <3>1, <3>2, <3>3, Zenon
  <2> QED
    BY <2>2, <2>3, <2>5, <2>6, Zenon DEF EncoderInv
<1> QED
  BY <1>4, <1>6, <1>7, Zenon DEF SnapshotInv

\* A handler that ends or moves on keeps the other requests.
LEMMA AnswersKept ==
  ASSUME AnswersInv, Kept \subseteq Kept', Backed(responses', Kept'), NEW c \in Handlers,
         \A x \in Handlers \ {c} : reqs'[x] = reqs[x],
         At(c, "respond", "added")' /\ reqs'[c].accept => Pair(c)' \in Kept'
  PROVE  AnswersInv'
<1>1. ASSUME NEW x \in Handlers, At(x, "respond", "added")', reqs'[x].accept
      PROVE  Pair(x)' \in Kept'
  <2>1. CASE x = c
    BY <1>1, <2>1, Zenon
  <2>2. CASE x # c
    BY <1>1, <2>2, Zenon DEF AnswersInv, At, Pair
  <2> QED
    BY <2>1, <2>2, Zenon
<1> QED
  BY <1>1, Zenon DEF AnswersInv

\* Adding a pair.
LEMMA PairAdded ==
  ASSUME TrustTypes, NEW p \in PairSet, AddPair(p), UNCHANGED <<cache, encs, trustDisk, revoked>>
  PROVE  /\ trustPairs' \in SUBSET PairSet /\ rev' \in Nat /\ p \in Kept' /\ PairsMove
<1>1. rev \in Nat /\ rev + 1 \in Nat
  BY DEF TrustTypes
<1>2. (trustPairs' = trustPairs /\ rev' = rev) \/ rev' = rev + 1
  BY Zenon DEF AddPair
<1> QED
  BY <1>1, <1>2, Zenon DEF AddPair, TrustTypes, Kept, PairsMove

\* Every step of a handler.
LEMMA HandlerStep ==
  ASSUME TrustTypes, AnswersInv, NEW c \in Handlers, Serve(c)
  PROVE  TrustTypes' /\ AnswersInv' /\ PairsMove
<1> DEFINE World == /\ live' \in SUBSET Nodes /\ trustPairs' \in SUBSET PairSet /\ rev' \in Nat
                    /\ inbox' \in Inboxes /\ responses' \in Responses
<1>1. ASSUME World, RequestsTyped', PairsMove PROVE TrustTypes'
  BY <1>1, Zenon DEF TrustTypes, RequestsTyped, PairsMove
<1>2. /\ UNCHANGED <<trustPairs, rev, revoked, cache, encs, trustDisk>> =>
            PairsMove /\ (responses' = responses => Backed(responses', Kept'))
      /\ PairsMove /\ responses' = responses => Backed(responses', Kept')
  <2>1. UNCHANGED <<trustPairs, rev, revoked, cache, encs, trustDisk>> => PairsMove
    BY Zenon DEF PairsMove, Kept
  <2>2. PairsMove /\ responses' = responses => Backed(responses', Kept')
    BY BackedMore, Zenon DEF PairsMove, AnswersInv
  <2> QED
    BY <2>1, <2>2, Zenon
<1>3. reqs \in [Handlers -> TrustRequest]
  BY Zenon DEF TrustTypes
<1>4. Done(c) => /\ RequestsTyped'
                 /\ \A x \in Handlers \ {c} : reqs'[x] = reqs[x]
                 /\ ~At(c, "respond", "added")'
  <2>1. Done(c) => reqs'[c] = Idle /\ \A x \in Handlers \ {c} : reqs'[x] = reqs[x]
    BY <1>3, Zenon DEF Done
  <2> QED
    BY <2>1, RequestMoves, IdleShape, Zenon DEF At
<1>5. ASSUME Done(c), World, PairsMove, Backed(responses', Kept')
      PROVE  TrustTypes' /\ AnswersInv' /\ PairsMove
  BY <1>1, <1>4, <1>5, AnswersKept, Zenon DEF PairsMove
<1> HIDE DEF World
<1>6. UNCHANGED <<live, trustPairs, rev, inbox, responses>> => World
  BY Zenon DEF World, TrustTypes
<1>7. reqs[c].op \in {"report", "respond"} => Pair(c) \in PairSet
  BY Zenon DEF TrustTypes
<1>8. CASE Begin(c)
  <2>1. /\ UNCHANGED <<live, trustPairs, rev, inbox, responses, revoked, cache, encs, trustDisk>>
        /\ RequestsTyped' /\ ~At(c, "respond", "added")'
        /\ \A x \in Handlers \ {c} : reqs'[x] = reqs[x]
    <3>1. \A x \in Handlers \ {c} : reqs'[x] = reqs[x]
      BY <1>8, <1>3, Zenon DEF Begin
    <3> QED
      BY <1>8, <3>1, BeginTypes, Zenon DEF Begin, handshakeVars
  <2>2. PairsMove /\ World /\ Backed(responses', Kept')
    BY <1>2, <1>6, <2>1, Zenon
  <2> QED
    BY <1>1, <2>1, <2>2, AnswersKept, Zenon DEF PairsMove
<1>9. CASE HandleReportTrust(c)
  <2>1. /\ UNCHANGED <<live, inbox, responses, cache, encs, trustDisk, revoked>> /\ Done(c)
        /\ (Pair(c) \in PairSet /\ AddPair(Pair(c))) \/ UNCHANGED <<trustPairs, rev>>
    BY <1>7, <1>9, Zenon DEF HandleReportTrust, handshakeVars, At
  <2>2. PairsMove /\ trustPairs' \in SUBSET PairSet /\ rev' \in Nat
    BY <1>2, <2>1, PairAdded, Zenon DEF TrustTypes
  <2>3. World
    BY <2>1, <2>2, Zenon DEF World, TrustTypes
  <2> QED
    BY <1>2, <1>5, <2>1, <2>2, <2>3, Zenon
<1>10. CASE HandleRevokeTrust(c)
  <2>1. /\ UNCHANGED <<live, inbox, responses, cache, encs, trustDisk>> /\ Done(c)
        /\ \/ /\ trustPairs' = trustPairs \ {Pair(c)} /\ rev' = rev + 1
              /\ revoked' = revoked \cup {Pair(c)}
           \/ UNCHANGED <<trustPairs, rev, revoked>>
    BY <1>10, Zenon DEF HandleRevokeTrust, handshakeVars
  <2>2. rev \in Nat /\ rev + 1 \in Nat
    BY DEF TrustTypes
  <2>3. PairsMove
    BY <2>1, Zenon DEF PairsMove, Kept
  <2>4. World
    BY <2>1, <2>2, Zenon DEF World, TrustTypes
  <2> QED
    BY <1>2, <1>5, <2>1, <2>3, <2>4, Zenon
<1>11. CASE HandleRequestHandshake(c)
  <2>1. /\ UNCHANGED <<live, trustPairs, rev, responses, revoked, cache, encs, trustDisk>> /\ Done(c)
        /\ \/ UNCHANGED inbox
           \/ inbox' = [inbox EXCEPT ![reqs[c].peer] = inbox[reqs[c].peer] \cup {reqs[c].node}]
        /\ At(c, "request", "verified")
    BY <1>11, Zenon DEF HandleRequestHandshake
  <2>2. reqs[c].node \in Nodes /\ reqs[c].peer \in Nodes
    BY <1>3, <2>1, RespondShape, Zenon DEF At
  <2>3. inbox' \in Inboxes
    <3>1. inbox \in [Nodes -> SUBSET Nodes]
      BY Zenon DEF TrustTypes, Inboxes
    <3>2. inbox[reqs[c].peer] \cup {reqs[c].node} \in SUBSET Nodes
      BY <2>2, <3>1, Zenon
    <3>3. [inbox EXCEPT ![reqs[c].peer] = inbox[reqs[c].peer] \cup {reqs[c].node}]
            \in [Nodes -> SUBSET Nodes]
      BY <2>2, <3>1, <3>2, Zenon
    <3> QED
      BY <2>1, <3>1, <3>3, Zenon DEF Inboxes
  <2>4. World
    BY <2>1, <2>3, Zenon DEF World, TrustTypes
  <2> QED
    BY <1>2, <1>5, <2>1, <2>4, Zenon
<1>12. CASE HandlePollHandshakes(c)
  <2>1. /\ UNCHANGED <<live, trustPairs, rev, revoked, cache, encs, trustDisk>> /\ Done(c)
        /\ inbox' = [inbox EXCEPT ![reqs[c].node] = {}]
        /\ responses' = [responses EXCEPT ![reqs[c].node] = {}]
    BY <1>12, Zenon DEF HandlePollHandshakes
  <2>2. inbox' \in Inboxes /\ responses' \in Responses
    BY <2>1, Zenon DEF TrustTypes, Inboxes, Responses
  <2>3. \A n \in Nodes : responses'[n] \subseteq responses[n]
    BY <2>1, Zenon DEF TrustTypes, Responses
  <2>4. Backed(responses', Kept')
    BY <2>1, <2>3, Zenon DEF Backed, AnswersInv, Kept
  <2>5. World
    BY <2>1, <2>2, Zenon DEF World, TrustTypes
  <2> QED
    BY <1>2, <1>5, <2>1, <2>4, <2>5, Zenon
<1>13. CASE TakePending(c)
  <2>1. /\ UNCHANGED <<live, trustPairs, rev, inbox, responses, revoked, cache, encs, trustDisk>>
        /\ reqs[c].op = "respond"
        /\ \/ Done(c)
           \/ reqs' = [reqs EXCEPT ![c].pc = "taken"]
           \/ reqs' = [reqs EXCEPT ![c].pc = "added"] /\ ~reqs[c].accept
    <3>1. reqs[c].accept => (reqs[c].peer \in pending[reqs[c].node] \/ Done(c))
      BY <1>13, Zenon DEF TakePending
    <3> QED
      BY <1>13, <3>1, Zenon DEF TakePending, At
  <2>2. PairsMove /\ World /\ Backed(responses', Kept')
    BY <1>2, <1>6, <2>1, Zenon
  <2>3. CASE Done(c)
    BY <1>5, <2>2, <2>3, Zenon
  <2>4. ASSUME NEW pc \in {"taken", "added"}, reqs' = [reqs EXCEPT ![c].pc = pc],
               pc = "added" => ~reqs[c].accept
        PROVE  TrustTypes' /\ AnswersInv' /\ PairsMove
    <3>1. RequestsTyped' /\ reqs'[c].pc = pc /\ reqs'[c].accept = reqs[c].accept
      BY <2>1, <2>4, RequestMoves, Zenon
    <3>2. \A x \in Handlers \ {c} : reqs'[x] = reqs[x]
      BY <1>3, <2>4, Zenon
    <3>3. ~(At(c, "respond", "added")' /\ reqs'[c].accept)
      BY <2>4, <3>1, Zenon DEF At
    <3> QED
      BY <1>1, <2>2, <3>1, <3>2, <3>3, AnswersKept, Zenon DEF PairsMove
  <2> QED
    BY <2>1, <2>3, <2>4, Zenon
<1>14. CASE AcceptAddPair(c)
  <2>1. /\ UNCHANGED <<live, inbox, responses, revoked, cache, encs, trustDisk>>
        /\ reqs[c].op = "respond" /\ AddPair(Pair(c))
        /\ reqs' = [reqs EXCEPT ![c].pc = "added"]
    BY <1>14, Zenon DEF AcceptAddPair, handshakeVars, At
  <2>2. /\ trustPairs' \in SUBSET PairSet /\ rev' \in Nat /\ Pair(c) \in Kept' /\ PairsMove
    BY <1>7, <2>1, PairAdded, Zenon
  <2>3. World
    BY <2>1, <2>2, Zenon DEF World, TrustTypes
  <2>4. RequestsTyped' /\ Pair(c)' = Pair(c) /\ \A x \in Handlers \ {c} : reqs'[x] = reqs[x]
    BY <1>3, <2>1, RequestMoves, Zenon
  <2>5. Backed(responses', Kept')
    BY <1>2, <2>1, <2>2, Zenon
  <2> QED
    BY <1>1, <2>2, <2>3, <2>4, <2>5, AnswersKept, Zenon DEF PairsMove
<1>15. CASE AppendResponse(c)
  <2> DEFINE r == [FromNodeID |-> reqs[c].node, Accept |-> reqs[c].accept]
             to == reqs[c].peer
  <2>1. /\ UNCHANGED <<live, trustPairs, rev, inbox, revoked, cache, encs, trustDisk>> /\ Done(c)
        /\ At(c, "respond", "added")
        /\ responses' = [responses EXCEPT ![to] = responses[to] \cup {r}]
    BY <1>15, Zenon DEF AppendResponse
  <2>2. reqs[c] \in Respond
    BY <1>3, <2>1, RespondShape, Zenon DEF At
  <2>3. r \in Response /\ to \in Nodes /\ r.FromNodeID = reqs[c].node /\ r.Accept = reqs[c].accept
    BY <2>2, Zenon DEF Respond, Response
  <2>4. r.Accept => {to, r.FromNodeID} \in Kept
    <3>1. r.Accept => Pair(c) \in Kept
      BY <2>1, <2>3, Zenon DEF AnswersInv
    <3>2. Pair(c) = {to, r.FromNodeID}
      BY <2>3, Zenon DEF Pair
    <3> QED
      BY <3>1, <3>2, Zenon
  <2> HIDE DEF r, to
  <2>5. responses' \in Responses
    BY <2>1, <2>3, Zenon DEF TrustTypes, Responses
  <2>6. \A n \in Nodes : \A x \in responses'[n] : x \in responses[n] \/ (n = to /\ x = r)
    BY <2>1, <2>3, Zenon DEF TrustTypes, Responses
  <2>7. Kept' = Kept
    BY <2>1, Zenon DEF Kept
  <2>8. Backed(responses', Kept')
    BY <2>4, <2>6, <2>7, Zenon DEF Backed, AnswersInv
  <2>9. World
    BY <2>1, <2>5, Zenon DEF World, TrustTypes
  <2> QED
    BY <1>2, <1>5, <2>1, <2>8, <2>9, Zenon
<1> QED
  BY <1>8, <1>9, <1>10, <1>11, <1>12, <1>13, <1>14, <1>15, Zenon DEF Serve

-----------------------------------------------------------------------------
\* Answers backed by two sets are backed by what these have in common.
LEMMA BackedBoth ==
  ASSUME NEW rs, NEW S, NEW T, NEW U, Backed(rs, S), Backed(rs, T), S \cap T \subseteq U
  PROVE  Backed(rs, U)
BY Zenon DEF Backed

\* What a step of an encoder leaves alone.
EncoderFrame == UNCHANGED <<live, trustPairs, rev, handshakeVars, reqs, revoked>>

\* Types and answers do not mind a step of an encoder.
LEMMA EncoderFrameKeeps ==
  ASSUME TrustTypes, AnswersInv, EncoderFrame,
         cache' \in [rev : Nat, pairs : SUBSET PairSet, cap : Nat, lock : BOOLEAN],
         encs' \in [Encoders -> Encoding],
         trustDisk' \in [pairs : SUBSET PairSet, inbox : Inboxes, responses : Responses]
  PROVE  TrustTypes' /\ AnswersInv'
<1>1. UNCHANGED <<live, trustPairs, rev, inbox, responses, reqs, revoked>>
  BY Zenon DEF EncoderFrame, handshakeVars
<1>2. TrustTypes'
  BY <1>1, Zenon DEF TrustTypes, Pair
<1>3. AnswersInv'
  BY <1>1, Zenon DEF AnswersInv, Kept, At, Pair
<1> QED
  BY <1>2, <1>3, Zenon

\* An encoder that takes no step itself.
LEMMA OtherEncoder ==
  ASSUME EncoderFrame, NEW x \in Encoders, EncoderInv(x),
         \/ encs'[x] = encs[x]
         \/ /\ encs[x].pc = "encoded" /\ encs'[x].pc = "encoded"
            /\ encs'[x].pairs = encs[x].pairs /\ encs'[x].responses = encs[x].responses,
         encs[x].pc = "rev" /\ cache'.pairs # {} /\ cache'.rev = encs[x].rev =>
           Backed(encs[x].responses, cache'.pairs \cup revoked),
         \A w \in Encoders : encs[x].pc = "rev" /\ encs'[w].pc = "keys"
                              /\ encs'[w].rev = encs[x].rev =>
           Backed(encs[x].responses, Seen(w)')
  PROVE  EncoderInv(x)'
<1>1. trustPairs' = trustPairs /\ rev' = rev /\ revoked' = revoked /\ Kept' = Kept
  BY Zenon DEF EncoderFrame, Kept
<1>2. CASE encs'[x] = encs[x]
  <2>1. Seen(x)' = Seen(x)
    BY <1>1, <1>2, Zenon DEF Seen
  <2> QED
    BY <1>1, <1>2, <2>1, Zenon DEF EncoderInv
<1>3. CASE /\ encs[x].pc = "encoded" /\ encs'[x].pc = "encoded"
           /\ encs'[x].pairs = encs[x].pairs /\ encs'[x].responses = encs[x].responses
  BY <1>1, <1>3, Zenon DEF EncoderInv
<1> QED
  BY <1>2, <1>3, Zenon

\* A step of one encoder that neither walks nor changes what is cached.
LEMMA OneEncoder ==
  ASSUME TrustTypes, SnapshotInv, EncoderFrame, NEW e \in Encoders, NEW v,
         encs' = [encs EXCEPT ![e] = v], cache'.pairs = cache.pairs, cache'.rev = cache.rev,
         v.pc = "keys" => \A x \in Encoders : encs[x].pc = "rev" /\ encs[x].rev = v.rev =>
                            Backed(encs[x].responses, Seen(e)')
  PROVE  \A x \in Encoders \ {e} : EncoderInv(x)'
<1>1. encs \in [Encoders -> Encoding]
  BY Zenon DEF TrustTypes
<1>2. encs'[e] = v /\ \A x \in Encoders \ {e} : encs'[x] = encs[x]
  BY <1>1, Zenon
<1>3. revoked' = revoked
  BY Zenon DEF EncoderFrame
<1>4. ASSUME NEW x \in Encoders \ {e} PROVE EncoderInv(x)'
  <2>1. EncoderInv(x) /\ encs'[x] = encs[x]
    BY <1>2, Zenon DEF SnapshotInv
  <2>2. encs[x].pc = "rev" /\ cache'.pairs # {} /\ cache'.rev = encs[x].rev =>
           Backed(encs[x].responses, cache'.pairs \cup revoked)
    BY <2>1, Zenon DEF EncoderInv
  <2>3. ASSUME NEW w \in Encoders, encs[x].pc = "rev", encs'[w].pc = "keys",
               encs'[w].rev = encs[x].rev
        PROVE  Backed(encs[x].responses, Seen(w)')
    <3>1. CASE w = e
      BY <1>2, <2>3, <3>1, Zenon
    <3>2. CASE w # e
      <4>1. encs'[w] = encs[w] /\ Seen(w)' = Seen(w)
        BY <1>2, <1>3, <3>2, Zenon DEF Seen
      <4> QED
        BY <2>1, <2>3, <4>1, Zenon DEF EncoderInv
    <3> QED
      BY <3>1, <3>2, Zenon
  <2> QED
    BY <2>1, <2>2, <2>3, OtherEncoder, Zenon
<1> QED
  BY <1>4, Zenon

\* Every step of a snapshot.
LEMMA EncoderStep ==
  ASSUME TrustTypes, AnswersInv, SnapshotInv, NEW e \in Encoders, TakeSnapshot(e)
  PROVE  TrustTypes' /\ AnswersInv' /\ SnapshotInv'
<1> DEFINE CacheType == [rev : Nat, pairs : SUBSET PairSet, cap : Nat, lock : BOOLEAN]
           DiskType == [pairs : SUBSET PairSet, inbox : Inboxes, responses : Responses]
<1>1. /\ encs \in [Encoders -> Encoding] /\ cache \in CacheType /\ trustDisk \in DiskType
      /\ inbox \in Inboxes /\ responses \in Responses /\ rev \in Nat
      /\ trustPairs \in SUBSET PairSet /\ encs[e] \in Encoding
  BY Zenon DEF TrustTypes
<1>2. EncoderInv(e) /\ cache.rev <= rev /\ EncodeCacheExact
  BY Zenon DEF SnapshotInv
<1>3. ASSUME EncoderFrame, UNCHANGED <<cache, trustDisk>>
      PROVE  /\ cache' \in CacheType /\ trustDisk' \in DiskType
             /\ cache'.rev <= rev' /\ EncodeCacheExact'
             /\ Backed(trustDisk.responses, trustDisk.pairs \cup revoked)'
  BY <1>1, <1>2, <1>3, Zenon DEF EncoderFrame, EncodeCacheExact, SnapshotInv
<1>4. ASSUME EncoderFrame, NEW v \in Encoding, encs' = [encs EXCEPT ![e] = v]
      PROVE  encs' \in [Encoders -> Encoding] /\ encs'[e] = v
  BY <1>1, <1>4, Zenon
<1>5. EncoderFrame => Kept' = Kept /\ rev' = rev /\ trustPairs' = trustPairs /\ revoked' = revoked
  BY Zenon DEF EncoderFrame, Kept
<1>6. CASE CopyInboxes(e)
  <2> DEFINE v == [pc |-> "copied", inbox |-> inbox, responses |-> responses]
  <2>1. EncoderFrame /\ UNCHANGED <<cache, trustDisk>> /\ encs' = [encs EXCEPT ![e] = v]
    BY <1>6, Zenon DEF CopyInboxes, EncoderFrame
  <2>2. v \in Encoding /\ v.pc = "copied" /\ v.responses = responses
    BY <1>1, Zenon DEF Encoding, Copied
  <2> HIDE DEF v
  <2>3. encs' \in [Encoders -> Encoding] /\ encs'[e] = v
    BY <1>4, <2>1, <2>2, Zenon
  <2>4. EncoderInv(e)'
    BY <1>5, <2>1, <2>2, <2>3, Zenon DEF EncoderInv, AnswersInv
  <2>5. \A x \in Encoders \ {e} : EncoderInv(x)'
    BY <2>1, <2>2, OneEncoder, Zenon
  <2> QED
    BY <1>3, <2>1, <2>3, <2>4, <2>5, EncoderFrameKeeps, Zenon DEF SnapshotInv
<1>7. CASE ReadRevision(e)
  <2> DEFINE v == [pc |-> "rev", rev |-> rev, inbox |-> encs[e].inbox,
                   responses |-> encs[e].responses]
  <2>1. /\ EncoderFrame /\ UNCHANGED <<cache, trustDisk>> /\ encs' = [encs EXCEPT ![e] = v]
        /\ encs[e].pc = "copied"
    BY <1>7, Zenon DEF ReadRevision, EncoderFrame
  <2>2. encs[e] \in Copied
    BY <1>1, <2>1, EncodingShape, Zenon
  <2>3. v \in Encoding /\ v.pc = "rev" /\ v.responses = encs[e].responses /\ v.rev = rev
    BY <1>1, <2>2, Zenon DEF Encoding, Copied, Awaiting
  <2> HIDE DEF v
  <2>4. encs' \in [Encoders -> Encoding] /\ encs'[e] = v
    BY <1>4, <2>1, <2>3, Zenon
  <2>5. rev <= rev
    BY <1>1
  <2>6. Backed(v.responses, Kept)
    BY <1>2, <2>1, <2>3, Zenon DEF EncoderInv
  <2>7. cache.pairs # {} /\ cache.rev = rev => Backed(v.responses, cache.pairs \cup revoked)
    BY <1>2, <2>6, Zenon DEF EncodeCacheExact, Kept
  <2>8. ASSUME NEW w \in Encoders, encs'[w].pc = "keys", encs'[w].rev = rev
        PROVE  Backed(v.responses, Seen(w)')
    <3>1. w # e
      BY <2>3, <2>4, <2>8, Zenon
    <3>2. encs'[w] = encs[w]
      BY <1>1, <2>1, <3>1, Zenon
    <3>3. encs[w].got = trustPairs \ encs[w].left
      BY <2>8, <3>2, Zenon DEF SnapshotInv, EncoderInv
    <3>4. Kept \subseteq Seen(w)'
      BY <1>5, <2>1, <3>2, <3>3, Zenon DEF Kept, Seen
    <3> QED
      BY <2>6, <3>4, BackedMore, Zenon
  <2>9. EncoderInv(e)'
    BY <1>5, <2>1, <2>3, <2>4, <2>5, <2>6, <2>7, <2>8, Zenon DEF EncoderInv
  <2>10. \A x \in Encoders \ {e} : EncoderInv(x)'
    BY <2>1, <2>3, OneEncoder, Zenon
  <2> QED
    BY <1>3, <2>1, <2>4, <2>9, <2>10, EncoderFrameKeeps, Zenon DEF SnapshotInv
<1>8. ASSUME EncoderFrame, UNCHANGED <<cache, trustDisk>>, encs[e].pc = "rev",
             cache.pairs # {}, cache.rev = encs[e].rev,
             encs' = [encs EXCEPT ![e] = [pc |-> "encoded", inbox |-> encs[e].inbox,
                        responses |-> encs[e].responses, pairs |-> cache.pairs,
                        ref |-> TRUE, torn |-> FALSE]]
      PROVE  TrustTypes' /\ AnswersInv' /\ SnapshotInv'
  <2> DEFINE v == [pc |-> "encoded", inbox |-> encs[e].inbox, responses |-> encs[e].responses,
                   pairs |-> cache.pairs, ref |-> TRUE, torn |-> FALSE]
  <2>1. encs[e] \in Awaiting
    BY <1>1, <1>8, EncodingShape, Zenon
  <2>2. cache.pairs \in SUBSET PairSet
    BY <1>1, Zenon
  <2>3. /\ v \in Encoding /\ v.pc = "encoded" /\ v.responses = encs[e].responses
        /\ v.pairs = cache.pairs
    BY <2>1, <2>2, Zenon DEF Encoding, Awaiting, Encoded
  <2>4. encs' = [encs EXCEPT ![e] = v]
    BY <1>8, Zenon
  <2> HIDE DEF v
  <2>5. encs' \in [Encoders -> Encoding] /\ encs'[e] = v
    BY <1>4, <1>8, <2>3, <2>4, Zenon
  <2>6. EncoderInv(e)'
    BY <1>2, <1>5, <1>8, <2>3, <2>5, Zenon DEF EncoderInv
  <2>7. \A x \in Encoders \ {e} : EncoderInv(x)'
    BY <1>8, <2>3, <2>4, OneEncoder, Zenon
  <2> QED
    BY <1>3, <1>8, <2>5, <2>6, <2>7, EncoderFrameKeeps, Zenon DEF SnapshotInv
<1>9. ASSUME EncoderFrame, UNCHANGED trustDisk, encs[e].pc = "rev",
             cache' = [cache EXCEPT !.lock = TRUE],
             encs' = [encs EXCEPT ![e] = [pc |-> "keys", rev |-> encs[e].rev,
                        inbox |-> encs[e].inbox, responses |-> encs[e].responses,
                        left |-> PairSet, got |-> {}]]
      PROVE  TrustTypes' /\ AnswersInv' /\ SnapshotInv'
  <2> DEFINE v == [pc |-> "keys", rev |-> encs[e].rev, inbox |-> encs[e].inbox,
                   responses |-> encs[e].responses, left |-> PairSet, got |-> {}]
  <2>1. encs[e] \in Awaiting
    BY <1>1, <1>9, EncodingShape, Zenon
  <2>2. /\ v \in Encoding /\ v.pc = "keys" /\ v.responses = encs[e].responses
        /\ v.rev = encs[e].rev /\ v.left = PairSet /\ v.got = {}
    BY <2>1, Zenon DEF Encoding, Awaiting, Walking
  <2>3. encs' = [encs EXCEPT ![e] = v]
    BY <1>9, Zenon
  <2>4. cache' \in CacheType /\ cache'.pairs = cache.pairs /\ cache'.rev = cache.rev
    BY <1>1, <1>9, Zenon
  <2> HIDE DEF v
  <2>5. encs' \in [Encoders -> Encoding] /\ encs'[e] = v
    BY <1>4, <1>9, <2>2, <2>3, Zenon
  <2>6. Kept \subseteq Seen(e)'
    BY <1>1, <1>5, <1>9, <2>2, <2>5, Zenon DEF Seen, Kept
  <2>7. Backed(v.responses, Kept) /\ Backed(v.responses, Seen(e)')
    BY <1>2, <1>9, <2>2, <2>6, BackedMore, Zenon DEF EncoderInv
  <2>8. {} = trustPairs \ PairSet
    BY <1>1, Zenon
  <2>9. EncoderInv(e)'
    BY <1>2, <1>5, <1>9, <2>2, <2>5, <2>7, <2>8, Zenon DEF EncoderInv
  <2>10. \A x \in Encoders : encs[x].pc = "rev" => Backed(encs[x].responses, Seen(e)')
    BY <2>6, BackedMore, Zenon DEF SnapshotInv, EncoderInv
  <2>11. \A x \in Encoders \ {e} : EncoderInv(x)'
    BY <1>9, <2>3, <2>4, <2>10, OneEncoder, Zenon
  <2>12. trustDisk' \in DiskType /\ Backed(trustDisk.responses, trustDisk.pairs \cup revoked)'
    BY <1>1, <1>5, <1>9, Zenon DEF SnapshotInv
  <2>13. cache'.rev <= rev' /\ EncodeCacheExact'
    BY <1>2, <1>5, <1>9, <2>4, Zenon DEF EncodeCacheExact
  <2> QED
    BY <1>9, <2>4, <2>5, <2>9, <2>11, <2>12, <2>13, EncoderFrameKeeps, Zenon DEF SnapshotInv
<1>10. CASE Encode(e)
  <2>1. EncoderFrame /\ UNCHANGED trustDisk /\ encs[e].pc = "rev"
    BY <1>10, Zenon DEF Encode, EncoderFrame
  <2> QED
    BY <1>8, <1>9, <1>10, <2>1, Zenon DEF Encode
<1>11. CASE EncodeShard(e)
  <2>1. PICK p \in encs[e].left :
          encs' = [encs EXCEPT ![e].left = @ \ {p},
                               ![e].got = IF p \in trustPairs THEN @ \cup {p} ELSE @]
    BY <1>11, Zenon DEF EncodeShard
  <2> DEFINE left == encs[e].left \ {p}
             got == IF p \in trustPairs THEN encs[e].got \cup {p} ELSE encs[e].got
             v == [encs[e] EXCEPT !.left = left, !.got = got]
  <2>2. EncoderFrame /\ UNCHANGED <<cache, trustDisk>> /\ encs[e].pc = "keys"
    BY <1>11, Zenon DEF EncodeShard, EncoderFrame
  <2>3. encs[e] \in Walking
    BY <1>1, <2>2, EncodingShape, Zenon
  <2>4. encs' = [encs EXCEPT ![e] = v]
    BY <1>1, <2>1, <2>3, Zenon DEF Walking
  <2>5. left \in SUBSET PairSet /\ got \in SUBSET PairSet
    BY <1>1, <2>3, Zenon DEF Walking
  <2>6. left = encs[e].left \ {p} /\ (p \in trustPairs => got = encs[e].got \cup {p})
        /\ (p \notin trustPairs => got = encs[e].got)
    BY Zenon
  <2> HIDE DEF left, got
  <2>7. /\ v.pc = "keys" /\ v.rev = encs[e].rev /\ v.responses = encs[e].responses
        /\ v.left = left /\ v.got = got /\ v \in Walking
    BY <2>3, <2>5, Zenon DEF Walking
  <2> HIDE DEF v
  <2>8. encs' \in [Encoders -> Encoding] /\ encs'[e] = v
    BY <1>4, <2>2, <2>4, <2>7, Zenon DEF Encoding
  <2>9. Kept \cap Seen(e) \subseteq Seen(e)'
    <3>1. Seen(e)' = left \cup got \cup revoked
      BY <1>5, <2>2, <2>7, <2>8, Zenon DEF Seen
    <3> QED
      BY <2>6, <3>1, Zenon DEF Kept, Seen
  <2>10. Backed(v.responses, Kept) /\ Backed(v.responses, Seen(e)')
    BY <1>2, <2>2, <2>7, <2>9, BackedBoth, Zenon DEF EncoderInv
  <2>11. encs[e].rev = rev => got = trustPairs \ left
    <3>1. encs[e].rev = rev => encs[e].got = trustPairs \ encs[e].left
      BY <1>2, <2>2, Zenon DEF EncoderInv
    <3> QED
      BY <2>1, <2>6, <3>1, Zenon
  <2>12. EncoderInv(e)'
    BY <1>2, <1>5, <2>2, <2>7, <2>8, <2>10, <2>11, Zenon DEF EncoderInv
  <2>13. ASSUME NEW x \in Encoders, encs[x].pc = "rev", encs[x].rev = v.rev
         PROVE  Backed(encs[x].responses, Seen(e)')
    <3>1. EncoderInv(x)
      BY Zenon DEF SnapshotInv
    <3>2. Backed(encs[x].responses, Kept) /\ Backed(encs[x].responses, Seen(e))
      BY <2>2, <2>7, <2>13, <3>1, Zenon DEF EncoderInv
    <3> QED
      BY <2>9, <3>2, BackedBoth, Zenon
  <2>14. \A x \in Encoders \ {e} : EncoderInv(x)'
    BY <2>2, <2>4, <2>13, OneEncoder, Zenon
  <2> QED
    BY <1>3, <2>2, <2>8, <2>12, <2>14, EncoderFrameKeeps, Zenon DEF SnapshotInv
<1>12. CASE EncodeEnd(e)
  <2> DEFINE got == encs[e].got
             v == [pc |-> "encoded", inbox |-> encs[e].inbox, responses |-> encs[e].responses,
                   pairs |-> got, ref |-> got # {}, torn |-> FALSE]
  <2>1. EncoderFrame /\ UNCHANGED trustDisk /\ encs[e].pc = "keys" /\ encs[e].left = {}
    BY <1>12, Zenon DEF EncodeEnd, EncoderFrame
  <2>2. encs[e] \in Walking /\ got \in SUBSET PairSet
    <3>1. encs[e] \in Walking
      BY <1>1, <2>1, EncodingShape, Zenon
    <3> QED
      BY <3>1, Zenon DEF Walking
  <2>3. PICK inPlace \in BOOLEAN :
          /\ cache' = [rev |-> encs[e].rev, pairs |-> got, lock |-> FALSE,
                       cap |-> IF inPlace THEN cache.cap ELSE Cardinality(got)]
          /\ encs' = [x \in Encoders |->
               IF x = e THEN v
               ELSE IF encs[x].pc = "encoded" /\ encs[x].ref
               THEN [encs[x] EXCEPT !.ref = inPlace,
                                    !.torn = @ \/ (inPlace /\ got # encs[x].pairs)]
               ELSE encs[x]]
    <3>1. (got # {} /\ Cardinality(got) <= cache.cap) \in BOOLEAN
      BY Zenon
    <3> QED
      BY <1>12, <3>1, Zenon DEF EncodeEnd
  <2>4. Cardinality(got) \in Nat /\ cache.cap \in Nat /\ encs[e].rev \in Nat
    BY <1>1, <2>2, PairCounts, Zenon DEF Walking
  <2>5. cache' \in CacheType /\ cache'.rev = encs[e].rev /\ cache'.pairs = got
    BY <2>2, <2>3, <2>4, Zenon
  <2>6. v \in Encoded /\ v.pc = "encoded" /\ v.pairs = got /\ v.responses = encs[e].responses
    BY <2>2, Zenon DEF Walking, Encoded
  <2>7. encs'[e] = v
    BY <2>3, Zenon
  <2>8. ASSUME NEW x \in Encoders \ {e}
        PROVE  /\ encs'[x] \in Encoding
               /\ \/ encs'[x] = encs[x]
                  \/ /\ encs[x].pc = "encoded" /\ encs'[x].pc = "encoded"
                     /\ encs'[x].pairs = encs[x].pairs /\ encs'[x].responses = encs[x].responses
    <3>1. encs[x] \in Encoding
      BY <1>1, Zenon
    <3>2. CASE encs[x].pc = "encoded" /\ encs[x].ref
      <4> DEFINE torn == encs[x].torn \/ (inPlace /\ got # encs[x].pairs)
      <4>1. encs[x] \in Encoded /\ torn \in BOOLEAN
        BY <3>1, <3>2, EncodingShape, Zenon
      <4>2. encs'[x] = [encs[x] EXCEPT !.ref = inPlace, !.torn = torn]
        BY <2>3, <3>2, <4>1, Zenon DEF Encoded
      <4> HIDE DEF torn
      <4>3. /\ encs'[x].pc = "encoded" /\ encs'[x] \in Encoded
            /\ encs'[x].pairs = encs[x].pairs /\ encs'[x].responses = encs[x].responses
        BY <4>1, <4>2, Zenon DEF Encoded
      <4> QED
        BY <3>2, <4>3, Zenon DEF Encoding
    <3>3. CASE ~(encs[x].pc = "encoded" /\ encs[x].ref)
      BY <2>3, <3>1, <3>3, Zenon
    <3> QED
      BY <3>2, <3>3, Zenon
  <2>9. encs' \in [Encoders -> Encoding]
    <3>1. \A x \in Encoders : encs'[x] \in Encoding
      BY <2>6, <2>7, <2>8, Zenon DEF Encoding
    <3>2. DOMAIN encs' = Encoders /\ encs' = [x \in DOMAIN encs' |-> encs'[x]]
      BY <2>3, Zenon
    <3> QED
      BY <3>1, <3>2, Zenon
  <2> HIDE DEF v
  <2>10. Seen(e) = got \cup revoked
    BY <2>1, Zenon DEF Seen
  <2>11. Backed(encs[e].responses, got \cup revoked)
    BY <1>2, <2>1, <2>10, Zenon DEF EncoderInv
  <2>12. EncoderInv(e)'
    BY <1>5, <2>1, <2>6, <2>7, <2>11, Zenon DEF EncoderInv
  <2>13. ASSUME NEW x \in Encoders \ {e} PROVE EncoderInv(x)'
    <3>1. EncoderInv(x)
      BY Zenon DEF SnapshotInv
    <3>2. encs[x].pc = "rev" /\ cache'.pairs # {} /\ cache'.rev = encs[x].rev =>
            Backed(encs[x].responses, cache'.pairs \cup revoked)
      BY <2>1, <2>5, <2>10, <3>1, Zenon DEF EncoderInv
    <3>3. ASSUME NEW w \in Encoders, encs[x].pc = "rev", encs'[w].pc = "keys",
                 encs'[w].rev = encs[x].rev
          PROVE  Backed(encs[x].responses, Seen(w)')
      <4>1. w # e
        BY <2>6, <2>7, <3>3, Zenon
      <4>2. encs'[w] = encs[w]
        BY <2>8, <3>3, <4>1, Zenon
      <4>3. Seen(w)' = Seen(w)
        BY <1>5, <2>1, <4>2, Zenon DEF Seen
      <4> QED
        BY <3>1, <3>3, <4>2, <4>3, Zenon DEF EncoderInv
    <3> QED
      BY <2>1, <2>8, <3>1, <3>2, <3>3, OtherEncoder, Zenon
  <2>14. cache'.rev <= rev' /\ EncodeCacheExact'
    <3>1. encs[e].rev <= rev /\ (encs[e].rev = rev => got = trustPairs \ {})
      BY <1>2, <2>1, Zenon DEF EncoderInv
    <3> QED
      BY <1>5, <2>1, <2>5, <3>1, Zenon DEF EncodeCacheExact
  <2>15. trustDisk' \in DiskType /\ Backed(trustDisk.responses, trustDisk.pairs \cup revoked)'
    BY <1>1, <1>5, <2>1, Zenon DEF SnapshotInv
  <2> QED
    BY <2>1, <2>5, <2>9, <2>12, <2>13, <2>14, <2>15, EncoderFrameKeeps, Zenon DEF SnapshotInv
<1>13. CASE WriteSnapshot(e)
  <2>1. /\ EncoderFrame /\ UNCHANGED cache /\ encs' = [encs EXCEPT ![e] = NoEncoding]
        /\ encs[e].pc = "encoded"
        /\ \/ UNCHANGED trustDisk
           \/ trustDisk' = [pairs |-> encs[e].pairs, inbox |-> encs[e].inbox,
                            responses |-> encs[e].responses]
    BY <1>13, Zenon DEF WriteSnapshot, EncoderFrame
  <2>2. encs[e] \in Encoded
    BY <1>1, <2>1, EncodingShape, Zenon
  <2>3. NoEncoding \in Encoding /\ NoEncoding.pc = "idle"
    BY Zenon DEF Encoding, NoEncoding
  <2>4. encs' \in [Encoders -> Encoding] /\ encs'[e] = NoEncoding
    BY <1>4, <2>1, <2>3, Zenon
  <2>5. EncoderInv(e)'
    BY <2>3, <2>4, Zenon DEF EncoderInv
  <2>6. \A x \in Encoders \ {e} : EncoderInv(x)'
    BY <2>1, <2>3, OneEncoder, Zenon
  <2>7. trustDisk' \in DiskType
    <3>1. [pairs |-> encs[e].pairs, inbox |-> encs[e].inbox,
           responses |-> encs[e].responses] \in DiskType
      BY <2>2, Zenon DEF Encoded
    <3> QED
      BY <1>1, <2>1, <3>1, Zenon
  <2>8. Backed(trustDisk.responses, trustDisk.pairs \cup revoked)'
    <3>1. Backed(encs[e].responses, encs[e].pairs \cup revoked)
      BY <1>2, <2>1, Zenon DEF EncoderInv
    <3>2. CASE UNCHANGED trustDisk
      BY <1>5, <2>1, <3>2, Zenon DEF SnapshotInv
    <3>3. CASE trustDisk' = [pairs |-> encs[e].pairs, inbox |-> encs[e].inbox,
                             responses |-> encs[e].responses]
      <4>1. trustDisk'.pairs = encs[e].pairs /\ trustDisk'.responses = encs[e].responses
        BY <3>3, Zenon
      <4> QED
        BY <1>5, <2>1, <3>1, <4>1, Zenon
    <3> QED
      BY <2>1, <3>2, <3>3, Zenon
  <2>9. cache' \in CacheType /\ cache'.rev <= rev' /\ EncodeCacheExact'
    BY <1>1, <1>2, <1>5, <2>1, Zenon DEF EncodeCacheExact
  <2> QED
    BY <2>1, <2>4, <2>5, <2>6, <2>7, <2>8, <2>9, EncoderFrameKeeps, Zenon DEF SnapshotInv
<1> QED
  BY <1>6, <1>7, <1>10, <1>11, <1>12, <1>13, Zenon DEF TakeSnapshot

\* A restart reads the file; its pairs count as one change each.
LEMMA TrustRestarts ==
  ASSUME TrustTypes, SnapshotInv, RestartTrust
  PROVE  TrustTypes' /\ AnswersInv' /\ SnapshotInv'
<1>1. trustDisk \in [pairs : SUBSET PairSet, inbox : Inboxes, responses : Responses]
  BY Zenon DEF TrustTypes
<1>2. /\ trustPairs' = trustDisk.pairs /\ inbox' = trustDisk.inbox
      /\ responses' = trustDisk.responses /\ rev' = Cardinality(trustDisk.pairs)
      /\ UNCHANGED <<live, trustDisk, revoked>> /\ cache' = EmptyCache
  BY Zenon DEF RestartTrust
<1>3. /\ reqs' \in [Handlers -> TrustRequest] /\ \A c \in Handlers : reqs'[c] = Idle
      /\ encs' \in [Encoders -> Encoding] /\ \A e \in Encoders : encs'[e] = NoEncoding
  BY Zenon DEF RestartTrust, TrustRequest, Encoding
<1>4. rev' \in Nat /\ 0 \in Nat /\ 0 <= rev'
  <2>1. rev' \in Nat
    BY <1>1, <1>2, PairCounts, Zenon
  <2> QED
    BY <2>1
<1>5. /\ cache' \in [rev : Nat, pairs : SUBSET PairSet, cap : Nat, lock : BOOLEAN]
      /\ cache'.rev <= rev' /\ cache'.pairs = {}
  BY <1>2, <1>4, Zenon DEF EmptyCache
<1>6. TrustTypes'
  <2>1. \A c \in Handlers : reqs'[c].op \notin {"report", "respond"}
    BY <1>3, IdleShape, Zenon
  <2>2. /\ live' \in SUBSET Nodes /\ trustPairs' \in SUBSET PairSet
        /\ inbox' \in Inboxes /\ responses' \in Responses
        /\ trustDisk' \in [pairs : SUBSET PairSet, inbox : Inboxes, responses : Responses]
    BY <1>1, <1>2, Zenon DEF TrustTypes
  <2> QED
    BY <1>3, <1>4, <1>5, <2>1, <2>2, Zenon DEF TrustTypes
<1>7. AnswersInv'
  <2>1. \A c \in Handlers : ~At(c, "respond", "added")'
    BY <1>3, IdleShape, Zenon DEF At
  <2>2. Backed(responses', Kept')
    BY <1>2, Zenon DEF SnapshotInv, Kept
  <2> QED
    BY <2>1, <2>2, Zenon DEF AnswersInv
<1>8. \A e \in Encoders : EncoderInv(e)'
  <2>1. \A e \in Encoders : encs'[e].pc = "idle"
    BY <1>3, IdleShape, Zenon
  <2> QED
    BY <2>1, Zenon DEF EncoderInv
<1> QED
  BY <1>2, <1>5, <1>6, <1>7, <1>8, Zenon DEF SnapshotInv, EncodeCacheExact

\* The invariants of the trust store hold in every state.
LEMMA TrustAlways == TrustSpec => [](TrustTypes /\ AnswersInv /\ SnapshotInv)
<1>1. TrustTypes /\ AnswersInv /\ SnapshotInv /\ [TrustNext]_trustVars
        => TrustTypes' /\ AnswersInv' /\ SnapshotInv'
  <2> SUFFICES ASSUME TrustTypes, AnswersInv, SnapshotInv, [TrustNext]_trustVars
               PROVE  TrustTypes' /\ AnswersInv' /\ SnapshotInv'
    BY Zenon
  <2>1. ASSUME NEW c \in Handlers, Serve(c) PROVE TrustTypes' /\ AnswersInv' /\ SnapshotInv'
    BY <2>1, HandlerStep, SnapshotKept, Zenon
  <2>2. ASSUME live' \in SUBSET Nodes,
               UNCHANGED <<trustPairs, rev, handshakeVars, reqs, cache, encs, trustDisk, revoked>>
        PROVE  TrustTypes' /\ AnswersInv' /\ SnapshotInv'
    <3>1. TrustTypes'
      BY <2>2, Zenon DEF TrustTypes, handshakeVars, Pair
    <3>2. AnswersInv'
      BY <2>2, Zenon DEF AnswersInv, handshakeVars, Kept, At, Pair
    <3>3. PairsMove
      BY <2>2, Zenon DEF PairsMove, Kept
    <3> QED
      BY <3>1, <3>2, <3>3, SnapshotKept, Zenon
  <2>3. CASE NodeChurn
    <3>1. live' \in SUBSET Nodes
      BY <2>3, Zenon DEF NodeChurn, TrustTypes
    <3> QED
      BY <2>2, <2>3, <3>1, Zenon DEF NodeChurn
  <2>4. CASE UNCHANGED trustVars
    <3>1. live' \in SUBSET Nodes
      BY <2>4, Zenon DEF trustVars, TrustTypes
    <3> QED
      BY <2>2, <2>4, <3>1, Zenon DEF trustVars
  <2> QED
    BY <2>1, <2>3, <2>4, EncoderStep, TrustRestarts, Zenon DEF TrustNext
<1> QED
  BY <1>1, TrustInitial, PTL DEF TrustSpec

\* A requester that finds an acceptance in its inbox finds the pair trusted or revoked,
\* for any number of nodes, handlers and snapshots under way, and after any number of
\* crashes (HandleRespondHandshake, flushSave, load).
THEOREM AcceptancesAreTrusted == TrustSpec => []AcceptanceIsTrust
<1>1. AnswersInv => AcceptanceIsTrust
  BY Zenon DEF AnswersInv, Backed, Kept, AcceptanceIsTrust
<1> QED
  BY <1>1, TrustAlways, PTL

\* The encode cache never holds a stale list under the current revision, however many
\* encoders read revisions and walk the shards while pairs change
\* (trustPairsEncodeCache.encode).
THEOREM EncodeCacheIsExact == TrustSpec => []EncodeCacheExact
<1>1. SnapshotInv => EncodeCacheExact
  BY Zenon DEF SnapshotInv
<1> QED
  BY <1>1, TrustAlways, PTL

-----------------------------------------------------------------------------
(* Verification keys of an identity provider *)

ValType == [at : {"new", "cache", "fetch", "store", "verified", "refused"},
            url : URLs \cup {NoURL}, tok : Nat, key : Nat, lag : Nat]

TokensTypes ==
  /\ idp \in URLs \cup {NoURL}
  /\ jwks \in [url : URLs \cup {NoURL}, key : Nat, age : Nat]
  /\ val \in [Validators -> ValType]
  /\ current \in [URLs -> KeyNos]
  /\ retired \in [URLs -> [KeyNos -> Nat]]

\* The key was published by u, and replaced at most t ticks ago.
ReplacedWithin(u, k, t) == u \in URLs /\ k \in KeyNos /\ k <= current[u] /\ retired[u][k] <= t

\* What bounds the time since a key was replaced: the age of the cache that holds it
\* plus the longest fetch, or the time the fetch that returned it has taken so far.
KeysInv ==
  /\ \A u \in URLs, k \in KeyNos : k >= current[u] => retired[u][k] = 0
  /\ jwks.url # NoURL /\ jwks.age < TTL => ReplacedWithin(jwks.url, jwks.key, jwks.age + FetchTime)
  /\ \A v \in Validators :
       /\ val[v].at \in {"cache", "fetch"} => val[v].url \in URLs /\ val[v].lag = 0
       /\ val[v].at = "store" => /\ val[v].lag <= FetchTime
                                 /\ ReplacedWithin(val[v].url, val[v].key, val[v].lag)
       /\ val[v].at = "verified" =>
            ReplacedWithin(val[v].url, val[v].key, TTL + FetchTime - 1)

\* The numbers of a provider's keys.
LEMMA KeyNumbers == \A k : k \in KeyNos <=> k \in Nat /\ 1 <= k /\ k <= MaxKeys
BY TokensAssumption DEF KeyNos

\* Steps of one request that leave the cache, the provider and time alone.
LEMMA OneValidator ==
  ASSUME TokensTypes, KeysInv, NEW v \in Validators, NEW x \in ValType,
         val' = [val EXCEPT ![v] = x], UNCHANGED <<idp, jwks, current, retired>>,
         x.at \in {"cache", "fetch"} => x.url \in URLs /\ x.lag = 0,
         x.at = "store" => x.lag <= FetchTime /\ ReplacedWithin(x.url, x.key, x.lag),
         x.at = "verified" => ReplacedWithin(x.url, x.key, TTL + FetchTime - 1)
  PROVE  TokensTypes' /\ KeysInv'
<1>1. val'[v] = x /\ \A w \in Validators \ {v} : val'[w] = val[w]
  BY Zenon DEF TokensTypes
<1>2. TokensTypes'
  BY Zenon DEF TokensTypes
<1>3. \A u, k, t : ReplacedWithin(u, k, t)' = ReplacedWithin(u, k, t)
  BY Zenon DEF ReplacedWithin
<1> QED
  BY <1>1, <1>2, <1>3 DEF KeysInv, ReplacedWithin

\* A request that finds the cache fresh takes a key replaced within the bound.
LEMMA CachedKeyStep ==
  ASSUME TokensTypes, KeysInv, NEW v \in Validators, GetKeyCached(v)
  PROVE  TokensTypes' /\ KeysInv'
<1> USE TokensAssumption
<1>1. CASE CacheHit(v)
  <2> DEFINE x == Answered(v, jwks.key)
  <2>1. x \in ValType
    BY Zenon DEF TokensTypes, ValType, Answered
  <2>2. /\ x.at \in {"verified", "refused"}
        /\ x.url = val[v].url /\ x.key = jwks.key
    BY DEF TokensTypes, ValType, Answered
  <2>3. ReplacedWithin(x.url, x.key, TTL + FetchTime - 1)
    <3>1. val[v].url \in URLs
      BY DEF GetKeyCached, KeysInv
    <3>2. ReplacedWithin(jwks.url, jwks.key, jwks.age + FetchTime) /\ jwks.age < TTL
      BY <1>1, <3>1 DEF CacheHit, KeysInv
    <3> QED
      BY <1>1, <2>2, <3>2 DEF CacheHit, ReplacedWithin, TokensTypes
  <2>4. val' = [val EXCEPT ![v] = x] /\ UNCHANGED <<idp, jwks, current, retired>>
    BY <1>1 DEF GetKeyCached
  <2> HIDE DEF x
  <2> QED
    BY <2>1, <2>2, <2>3, <2>4, OneValidator, Zenon
<1>2. CASE ~CacheHit(v)
  <2> DEFINE x == [val[v] EXCEPT !.at = "fetch"]
  <2>1. x \in ValType /\ x.at = "fetch" /\ x.url \in URLs /\ x.lag = 0
    BY DEF TokensTypes, ValType, GetKeyCached, KeysInv
  <2>2. val' = [val EXCEPT ![v] = x] /\ UNCHANGED <<idp, jwks, current, retired>>
    BY <1>2 DEF GetKeyCached
  <2> HIDE DEF x
  <2> QED
    BY <2>1, <2>2, OneValidator, Zenon
<1> QED
  BY <1>1, <1>2, Zenon

\* A fetch returns the key published now, or fails.
LEMMA FetchStep ==
  ASSUME TokensTypes, KeysInv, NEW v \in Validators, FetchJWKSKeys(v)
  PROVE  TokensTypes' /\ KeysInv'
<1> USE TokensAssumption
<1> DEFINE x == [val[v] EXCEPT !.at = "store", !.key = current[val[v].url]]
           y == [val[v] EXCEPT !.at = "refused"]
<1>1. val[v].url \in URLs /\ val[v].lag = 0 /\ val[v] \in ValType
  BY DEF FetchJWKSKeys, KeysInv, TokensTypes
<1>2. x \in ValType /\ y \in ValType /\ y.at = "refused"
  BY <1>1, KeyNumbers, Zenon DEF ValType, TokensTypes
<1>3. x.at = "store" /\ x.lag = 0 /\ x.url = val[v].url /\ x.key = current[x.url]
  BY <1>1 DEF ValType
<1>4. ReplacedWithin(x.url, x.key, x.lag)
  BY <1>1, <1>3, KeyNumbers DEF ReplacedWithin, KeysInv, TokensTypes
<1>5. val' = [val EXCEPT ![v] = x] \/ val' = [val EXCEPT ![v] = y]
  BY <1>1, Zenon DEF FetchJWKSKeys, TokensTypes
<1>6. UNCHANGED <<idp, jwks, current, retired>>
  BY DEF FetchJWKSKeys
<1> HIDE DEF x, y
<1> QED
  BY <1>2, <1>3, <1>4, <1>5, <1>6, OneValidator

\* The key stored was replaced no longer ago than its fetch took, whatever other
\* fetches have stored in the meantime.
LEMMA StoreStep ==
  ASSUME TokensTypes, KeysInv, NEW v \in Validators, StoreKeys(v)
  PROVE  TokensTypes' /\ KeysInv'
<1> USE TokensAssumption
<1>1. /\ val[v] \in ValType /\ val[v].lag <= FetchTime
      /\ ReplacedWithin(val[v].url, val[v].key, val[v].lag)
  BY DEF StoreKeys, KeysInv, TokensTypes
<1>2. ReplacedWithin(val[v].url, val[v].key, TTL + FetchTime - 1)
  BY <1>1 DEF ReplacedWithin, ValType, TokensTypes
<1>3. ReplacedWithin(val[v].url, val[v].key, 0 + FetchTime)
  BY <1>1 DEF ReplacedWithin, ValType, TokensTypes
<1>4. \A u, k, t : ReplacedWithin(u, k, t)' = ReplacedWithin(u, k, t)
  BY Zenon DEF ReplacedWithin, StoreKeys
<1>5. /\ jwks'.url = val[v].url /\ jwks'.key = val[v].key /\ jwks'.age = 0
      /\ TokensTypes'
  BY <1>1, Zenon DEF StoreKeys, TokensTypes, ValType, Answered
<1>6. /\ val'[v].at \in {"verified", "refused"}
      /\ val'[v].url = val[v].url /\ val'[v].key = val[v].key
  BY <1>1 DEF StoreKeys, TokensTypes, ValType, Answered
<1>7. \A w \in Validators \ {v} : val'[w] = val[w]
  BY DEF StoreKeys, TokensTypes
<1>8. UNCHANGED <<current, retired>>
  BY DEF StoreKeys
<1> QED
  BY <1>2, <1>3, <1>4, <1>5, <1>6, <1>7, <1>8, ZenonT(30) DEF KeysInv

\* Time passes: the cache, the fetches under way and the retired keys age together.
LEMMA TickStep ==
  ASSUME TokensTypes, KeysInv, TokensTick
  PROVE  TokensTypes' /\ KeysInv'
<1> USE TokensAssumption
<1>1. /\ \A u \in URLs, k \in KeyNos :
           retired'[u][k] = IF k < current[u] THEN Aged(retired[u][k]) ELSE 0
      /\ UNCHANGED <<idp, current>>
  BY DEF TokensTick
<1>2. \A u \in URLs, k \in KeyNos : retired'[u][k] \in Nat /\ retired'[u][k] <= retired[u][k] + 1
  BY <1>1, KeyNumbers DEF Aged, TokensTypes, Horizon
<1>3. \A v \in Validators :
        /\ val'[v] \in ValType
        /\ val'[v].at = val[v].at /\ val'[v].url = val[v].url /\ val'[v].key = val[v].key
        /\ val'[v].lag = IF val[v].at = "store" THEN val[v].lag + 1 ELSE val[v].lag
  <2> SUFFICES ASSUME NEW v \in Validators
               PROVE  /\ val'[v] \in ValType
                      /\ val'[v].at = val[v].at /\ val'[v].url = val[v].url
                      /\ val'[v].key = val[v].key
                      /\ val'[v].lag = IF val[v].at = "store" THEN val[v].lag + 1 ELSE val[v].lag
    BY Zenon
  <2>1. val'[v] = [val[v] EXCEPT !.lag = IF val[v].at = "store" THEN val[v].lag + 1
                                         ELSE val[v].lag]
    BY Zenon DEF TokensTick
  <2>2. val[v] \in ValType
    BY Zenon DEF TokensTypes
  <2> QED
    BY <2>1, <2>2 DEF ValType
<1>4. /\ jwks' \in [url : URLs \cup {NoURL}, key : Nat, age : Nat]
      /\ jwks'.url = jwks.url /\ jwks'.key = jwks.key
      /\ jwks'.age = IF jwks.age < TTL THEN jwks.age + 1 ELSE jwks.age
  BY DEF TokensTick, TokensTypes
<1>5. TokensTypes'
  <2>1. val' \in [Validators -> ValType]
    BY <1>3 DEF TokensTick
  <2>2. retired' \in [URLs -> [KeyNos -> Nat]]
    BY <1>1, <1>2, Zenon DEF TokensTick
  <2> QED
    BY <1>1, <1>4, <2>1, <2>2, Zenon DEF TokensTypes
<1> DEFINE After(u, k, t) == u \in URLs /\ k \in KeyNos /\ k <= current'[u] /\ retired'[u][k] <= t
<1>6. \A u, k : \A t \in Nat : ReplacedWithin(u, k, t) => After(u, k, t + 1)
  BY <1>1, <1>2 DEF ReplacedWithin, TokensTypes
<1>7. \A u \in URLs, k \in KeyNos : k >= current'[u] => retired'[u][k] = 0
  BY <1>1, KeyNumbers DEF TokensTypes
<1>8. jwks'.url # NoURL /\ jwks'.age < TTL =>
        After(jwks'.url, jwks'.key, jwks'.age + FetchTime)
  <2> HIDE DEF After
  <2> SUFFICES ASSUME jwks'.url # NoURL, jwks'.age < TTL
               PROVE  After(jwks'.url, jwks'.key, jwks'.age + FetchTime)
    BY Zenon
  <2>1. jwks.age \in Nat /\ jwks.age < TTL /\ jwks'.age = jwks.age + 1
    BY <1>4, Zenon DEF TokensTypes
  <2>2. ReplacedWithin(jwks.url, jwks.key, jwks.age + FetchTime)
    BY <1>4, <2>1, Zenon DEF KeysInv
  <2>3. After(jwks.url, jwks.key, jwks.age + FetchTime + 1)
    BY <1>6, <2>1, <2>2
  <2>4. jwks.age + FetchTime + 1 = jwks'.age + FetchTime
    BY <2>1
  <2> QED
    BY <1>4, <2>3, <2>4, Zenon
<1>9. ASSUME NEW v \in Validators
      PROVE  /\ val'[v].at \in {"cache", "fetch"} => val'[v].url \in URLs /\ val'[v].lag = 0
             /\ val'[v].at = "store" =>
                  val'[v].lag <= FetchTime /\ After(val'[v].url, val'[v].key, val'[v].lag)
             /\ val'[v].at # "verified"
  <2> HIDE DEF After
  <2>1. val[v].lag \in Nat /\ val[v].at # "verified"
    BY Zenon DEF TokensTypes, ValType, TokensTick
  <2>2. CASE val[v].at = "store"
    <3>1. val[v].lag < FetchTime
      BY <2>2, Zenon DEF TokensTick
    <3>2. After(val[v].url, val[v].key, val[v].lag + 1)
      BY <1>6, <2>1, <2>2, Zenon DEF KeysInv
    <3> QED
      BY <1>3, <2>1, <2>2, <3>1, <3>2
  <2>3. CASE val[v].at # "store"
    BY <1>3, <2>1, <2>3 DEF KeysInv
  <2> QED
    BY <2>2, <2>3
<1> QED
  BY <1>5, <1>7, <1>8, <1>9 DEF KeysInv, ReplacedWithin

\* However validations, fetches, changes of provider and key rotations overlap, a token
\* is verified only with a key that its provider published and replaced less than the
\* cache's TTL plus one fetch ago (GetKeyWithPinning, HandleValidateToken).
THEOREM VerificationKeysAreRecent == TokensSpec => []VerifiedKeyRecent
<1> USE TokensAssumption
<1>1. TokensInit => TokensTypes /\ KeysInv
  BY KeyNumbers DEF TokensInit, TokensTypes, KeysInv, Unused, ValType
<1>2. ASSUME TokensTypes, KeysInv, [TokensNext]_tokensVars PROVE TokensTypes' /\ KeysInv'
  <2>1. ASSUME NEW u \in URLs \cup {NoURL}, HandleSetIDPConfig(u) PROVE TokensTypes' /\ KeysInv'
    BY <1>2, <2>1, Zenon DEF HandleSetIDPConfig, TokensTypes, KeysInv, ReplacedWithin
  <2>2. ASSUME NEW v \in Validators, NEW k \in KeyNos, HandleValidateToken(v, k)
        PROVE  TokensTypes' /\ KeysInv'
    <3> DEFINE x == [Unused EXCEPT !.at = "cache", !.url = idp, !.tok = k]
    <3>1. x \in ValType /\ x.at = "cache" /\ x.url \in URLs /\ x.lag = 0
      BY <1>2, <2>2, KeyNumbers, Zenon DEF Unused, ValType, HandleValidateToken, TokensTypes
    <3>2. val' = [val EXCEPT ![v] = x] /\ UNCHANGED <<idp, jwks, current, retired>>
      BY <2>2 DEF HandleValidateToken
    <3> HIDE DEF x
    <3> QED
      BY <1>2, <3>1, <3>2, OneValidator, Zenon
  <2>3. ASSUME NEW v \in Validators, Reply(v) PROVE TokensTypes' /\ KeysInv'
    <3>1. Unused \in ValType /\ Unused.at = "new"
      BY DEF Unused, ValType
    <3> QED
      BY <1>2, <2>3, <3>1, OneValidator, Zenon DEF Reply
  <2>4. ASSUME NEW u \in URLs, RotateProvider(u) PROVE TokensTypes' /\ KeysInv'
    <3>0. current[u] + 1 \in KeyNos
      BY <1>2, <2>4, KeyNumbers DEF RotateProvider, TokensTypes
    <3>1. /\ TokensTypes'
          /\ \A w \in URLs : current'[w] \in KeyNos /\ current'[w] >= current[w]
      BY <1>2, <2>4, <3>0, KeyNumbers DEF RotateProvider, TokensTypes
    <3>2. \A w, k, t : ReplacedWithin(w, k, t) => ReplacedWithin(w, k, t)'
      BY <1>2, <2>4, <3>1, KeyNumbers DEF ReplacedWithin, RotateProvider, TokensTypes
    <3>3. \A w \in URLs, k \in KeyNos : k >= current'[w] => k >= current[w]
      BY <1>2, <3>1, KeyNumbers DEF TokensTypes
    <3> QED
      BY <1>2, <2>4, <3>1, <3>2, <3>3 DEF KeysInv, RotateProvider
  <2>5. CASE UNCHANGED tokensVars
    BY <1>2, <2>5, ZenonT(30) DEF tokensVars, TokensTypes, KeysInv, ReplacedWithin
  <2> QED
    BY <1>2, <2>1, <2>2, <2>3, <2>4, <2>5, CachedKeyStep, FetchStep, StoreStep, TickStep, Zenon
       DEF TokensNext
<1>3. TokensTypes /\ KeysInv => VerifiedKeyRecent
  BY KeyNumbers DEF TokensTypes, KeysInv, VerifiedKeyRecent, ReplacedWithin
<1> QED
  BY <1>1, <1>2, <1>3, PTL DEF TokensSpec

-----------------------------------------------------------------------------
(* The beacon table *)

\* A beacon seen lately is in the table with an age no later than that.
BeaconsInv ==
  /\ beacons \in [Beacons -> [addr : BeaconAddrs \cup {NoAddr}, age : Ticks]]
  /\ reap \in [on : BOOLEAN, lag : Ticks]
  /\ seen \in [Beacons -> Ticks]
  /\ \A b \in Beacons : seen[b] <= BeaconTTL => Known(b) /\ beacons[b].age <= seen[b]

\* HandleBeaconList shows every beacon registered within BeaconTTL, whatever the
\* reaper, the clock and refused registrations do.
THEOREM LiveBeaconsAreListed == RoutingSpec => []LiveBeaconsListed
<1> USE RoutingAssumption DEF Ticks
<1>1. RoutingInit => BeaconsInv
  BY DEF RoutingInit, BeaconsInv, NoBeacon, ReaderIdle
<1>2. BeaconsInv /\ [RoutingNext]_routingVars => BeaconsInv'
  <2> SUFFICES ASSUME BeaconsInv, [RoutingNext]_routingVars PROVE BeaconsInv'
    OBVIOUS
  <2>1. ASSUME NEW b \in Beacons, HandleBeaconRegister(b) PROVE BeaconsInv'
    BY <2>1 DEF HandleBeaconRegister, BeaconsInv, Known
  <2>2. CASE ReapClock
    BY <2>2 DEF ReapClock, BeaconsInv, Known
  <2>3. CASE ReapLock
    BY <2>3 DEF ReapLock, ReapStale, Expired, BeaconsInv, Known, NoBeacon, ReaderIdle
  <2>4. CASE BeaconTick
    <3>1. \A t \in Ticks : Later(t) \in Ticks /\ (Later(t) <= BeaconTTL => Later(t) = t + 1)
      BY DEF Later
    <3>2. /\ seen' \in [Beacons -> Ticks] /\ reap' \in [on : BOOLEAN, lag : Ticks]
          /\ \A b \in Beacons : seen'[b] = Later(seen[b])
      BY <2>4, <3>1, Zenon DEF BeaconTick, BeaconsInv
    <3>3. beacons' \in [Beacons -> [addr : BeaconAddrs \cup {NoAddr}, age : Ticks]]
      BY <2>4 DEF BeaconTick, BeaconsInv, NoBeacon, Later
    <3>4. \A b \in Beacons : Known(b) => Known(b)' /\ beacons'[b].age = Later(beacons[b].age)
      BY <2>4 DEF BeaconTick, BeaconsInv, Known, Later
    <3> QED
      BY <3>1, <3>2, <3>3, <3>4 DEF BeaconsInv, Later
  <2>5. CASE UNCHANGED routingVars
    BY <2>5 DEF routingVars, BeaconsInv, Known
  <2> QED
    BY <2>1, <2>2, <2>3, <2>4, <2>5 DEF RoutingNext
<1>3. BeaconsInv => LiveBeaconsListed
  BY DEF BeaconsInv, LiveBeaconsListed, HandleBeaconList, Expired
<1> QED
  BY <1>1, <1>2, <1>3, PTL DEF RoutingSpec

-----------------------------------------------------------------------------
(* The breakers file and its watcher *)

FileType == [there : BOOLEAN, ok : BOOLEAN, open : SUBSET Names, stamp : Nat]
WatchType ==
  [pc : {"idle", "read", "apply"}, stat : Nat, ok : BOOLEAN, open : SUBSET Names, last : Nat]
CallType ==
  [pc : {"idle", "snapshot", "write"}, name : Names \cup {""}, open : BOOLEAN,
   rows : SUBSET Names]

BreakersTypes ==
  /\ breakers \in SUBSET Names
  /\ breakerFile \in FileType
  /\ watch \in WatchType
  /\ adminCalls \in [AdminCalls -> CallType]

\* Stamps grow with every write and start at 1; the stamp 0 stands for no file.
StampsOrdered ==
  /\ watch.last <= breakerFile.stamp /\ watch.stat <= breakerFile.stamp
  /\ breakerFile.there => breakerFile.stamp > 0
  /\ ~breakerFile.there => breakerFile.ok /\ breakerFile.open = {}
  /\ watch.pc # "idle" => watch.stat > 0

\* What the watcher has read is what the file says as long as the stamp it took
\* before reading is still the file's.
ReadExact ==
  watch.pc = "apply" /\ watch.ok /\ breakerFile.there /\ watch.stat = breakerFile.stamp
    => breakerFile.ok /\ watch.open = breakerFile.open

\* A watcher that has applied nothing, or saw the file gone, has nothing installed.
NothingInstalled == watch.last = 0 => installed = {}

BreakersInv ==
  BreakersTypes /\ StampsOrdered /\ ReadExact /\ NothingInstalled /\ WatcherExact

\* A write of the file, by an operator or by the admin API.
LEMMA FileWritten ==
  ASSUME BreakersInv, NEW ok \in BOOLEAN, NEW open \in SUBSET Names,
         breakerFile' = Written(ok, open), UNCHANGED <<watch, installed>>
  PROVE  /\ breakerFile' \in FileType
         /\ StampsOrdered' /\ ReadExact' /\ NothingInstalled' /\ WatcherExact'
<1>1. /\ breakerFile.stamp \in Nat /\ watch.stat \in Nat /\ watch.last \in Nat
      /\ watch.last <= breakerFile.stamp /\ watch.stat <= breakerFile.stamp
      /\ watch.pc # "idle" => watch.stat > 0
      /\ watch.last = 0 => installed = {}
  BY Zenon DEF BreakersInv, BreakersTypes, FileType, WatchType, StampsOrdered, NothingInstalled
<1>2. /\ breakerFile'.there /\ breakerFile'.stamp = breakerFile.stamp + 1
      /\ breakerFile' \in FileType
  BY <1>1 DEF Written, FileType
<1> QED
  BY <1>1, <1>2 DEF StampsOrdered, ReadExact, NothingInstalled, WatcherExact

\* WatcherExact holds however operators, the admin API and the watcher interleave.
THEOREM WatcherIsExact == BreakersSpec => []WatcherExact
<1>1. BreakersInit => BreakersInv
  <2> SUFFICES ASSUME BreakersInit PROVE BreakersInv
    OBVIOUS
  <2>1. BreakersTypes
    BY Zenon DEF BreakersInit, BreakersTypes, FileType, WatchType, CallType, NoAdminCall
  <2> QED
    BY <2>1 DEF BreakersInit, BreakersInv, StampsOrdered, ReadExact, NothingInstalled,
       WatcherExact
<1>2. BreakersInv /\ [BreakersNext]_breakersVars => BreakersInv'
  <2> SUFFICES ASSUME BreakersInv, [BreakersNext]_breakersVars PROVE BreakersInv'
    OBVIOUS
  <2>0. BreakersTypes /\ StampsOrdered /\ ReadExact /\ NothingInstalled /\ WatcherExact
    BY DEF BreakersInv
  <2>1. CASE EditFile
    BY <2>0, <2>1, FileWritten, Zenon DEF EditFile, BreakersInv, BreakersTypes
  <2>2. CASE RemoveFile
    BY <2>0, <2>2, Zenon DEF RemoveFile, BreakersInv, BreakersTypes, FileType, WatchType,
       StampsOrdered, ReadExact, NothingInstalled, WatcherExact
  <2>3. CASE WatchStat
    <3>1. watch' \in WatchType
      BY <2>0, <2>3, Zenon DEF WatchStat, BreakersTypes, FileType, WatchType
    <3>2. /\ watch'.pc = "read" /\ watch'.stat = breakerFile.stamp /\ watch'.last = watch.last
          /\ breakerFile.there /\ breakerFile.stamp \in Nat
      BY <2>0, <2>3 DEF WatchStat, BreakersTypes, FileType, WatchType
    <3> QED
      BY <2>0, <2>3, <3>1, <3>2 DEF WatchStat, BreakersInv, BreakersTypes,
         StampsOrdered, ReadExact, NothingInstalled, WatcherExact
  <2>4. CASE WatchRead
    BY <2>0, <2>4, Zenon DEF WatchRead, BreakersInv, BreakersTypes, FileType, WatchType,
       StampsOrdered, ReadExact, NothingInstalled, WatcherExact
  <2>5. CASE WatchApply
    <3>1. watch' \in WatchType /\ breakers' \in SUBSET Names /\ watch.stat \in Nat
      BY <2>0, <2>5, Zenon DEF WatchApply, BreakersTypes, WatchType
    <3>2. CASE watch.ok
      <4>1. /\ watch'.pc = "idle" /\ watch'.stat = watch.stat /\ watch'.last = watch.stat
            /\ installed' = watch.open
        BY <2>0, <2>5, <3>2, Zenon DEF WatchApply, BreakersTypes, WatchType
      <4> QED
        BY <2>0, <2>5, <3>1, <3>2, <4>1 DEF WatchApply, BreakersInv, BreakersTypes,
           StampsOrdered, ReadExact, NothingInstalled, WatcherExact
    <3>3. CASE ~watch.ok
      <4>1. /\ watch'.pc = "idle" /\ watch'.stat = watch.stat /\ watch'.last = watch.last
            /\ installed' = installed
        BY <2>0, <2>5, <3>3 DEF WatchApply, BreakersTypes, WatchType
      <4> QED
        BY <2>0, <2>5, <3>1, <3>3, <4>1 DEF WatchApply, BreakersInv, BreakersTypes,
           StampsOrdered, ReadExact, NothingInstalled, WatcherExact
    <3> QED
      BY <3>2, <3>3
  <2>6. CASE WatchGone
    <3>1. /\ watch' \in WatchType /\ breakers' \in SUBSET Names /\ watch'.last = 0
          /\ watch'.pc = "idle" /\ watch'.stat = watch.stat /\ breakerFile.stamp \in Nat
      <4>1. 0 \in Nat /\ {} \in SUBSET Names
        OBVIOUS
      <4> QED
        BY <2>0, <2>6, <4>1, Zenon DEF WatchGone, BreakersTypes, FileType, WatchType
    <3>2. /\ installed' = {} /\ ~breakerFile.there
          /\ UNCHANGED <<breakerFile, adminCalls>>
      BY <2>6, Zenon DEF WatchGone
    <3>3. 0 <= breakerFile.stamp
      BY <3>1
    <3> QED
      BY <2>0, <3>1, <3>2, <3>3, Zenon DEF BreakersInv, BreakersTypes,
         StampsOrdered, ReadExact, NothingInstalled, WatcherExact
  <2>7. ASSUME NEW c \in AdminCalls, ChangeBreaker(c) PROVE BreakersInv'
    <3>1. breakers' \in SUBSET Names /\ adminCalls' \in [AdminCalls -> CallType]
      <4>1. PICK n \in Names, open \in BOOLEAN :
              /\ breakers' = IF open THEN breakers \cup {n} ELSE breakers \ {n}
              /\ adminCalls' = [adminCalls EXCEPT ![c] =
                   [pc |-> "snapshot", name |-> n, open |-> open, rows |-> {}]]
        BY <2>7, Zenon DEF ChangeBreaker
      <4>2. breakers' \in SUBSET Names
        BY <2>0, <4>1 DEF BreakersTypes
      <4>3. [pc |-> "snapshot", name |-> n, open |-> open, rows |-> {}] \in CallType
        BY Zenon DEF CallType
      <4> QED
        BY <2>0, <4>1, <4>2, <4>3, Zenon DEF BreakersTypes
    <3> QED
      BY <2>0, <2>7, <3>1 DEF ChangeBreaker, BreakersInv, BreakersTypes, StampsOrdered,
         ReadExact, NothingInstalled, WatcherExact
  <2>8. ASSUME NEW c \in AdminCalls, PersistSnapshot(c) PROVE BreakersInv'
    <3>1. adminCalls' \in [AdminCalls -> CallType]
      <4>1. [adminCalls[c] EXCEPT !.pc = "write", !.rows = breakers] \in CallType
        BY <2>0, Zenon DEF BreakersTypes, CallType
      <4> QED
        BY <2>0, <2>8, <4>1, Zenon DEF PersistSnapshot, BreakersTypes
    <3> QED
      BY <2>0, <2>8, <3>1 DEF PersistSnapshot, BreakersInv, BreakersTypes, StampsOrdered,
         ReadExact, NothingInstalled, WatcherExact
  <2>9. ASSUME NEW c \in AdminCalls, PersistRename(c) PROVE BreakersInv'
    <3>1. adminCalls' \in [AdminCalls -> CallType] /\ adminCalls[c].rows \in SUBSET Names
      BY <2>0, <2>9, ZenonT(30) DEF PersistRename, BreakersTypes, CallType, NoAdminCall
    <3> QED
      BY <2>0, <2>9, <3>1, FileWritten, Zenon DEF PersistRename, BreakersInv, BreakersTypes
  <2>10. CASE UNCHANGED breakersVars
    BY <2>0, <2>10, Zenon DEF breakersVars, BreakersInv, BreakersTypes, StampsOrdered, ReadExact,
       NothingInstalled, WatcherExact
  <2> QED
    BY <2>1, <2>2, <2>3, <2>4, <2>5, <2>6, <2>7, <2>8, <2>9, <2>10, ZenonT(30) DEF BreakersNext
<1>3. BreakersInv => WatcherExact
  BY ZenonT(30) DEF BreakersInv
<1> QED
  BY <1>1, <1>2, <1>3, PTL DEF BreakersSpec

-----------------------------------------------------------------------------
(* Identity recovery *)

NodeType ==
  [exists : BOOLEAN, key : Nat, badge : BOOLEAN, expiry : BOOLEAN, extID : BOOLEAN,
   commitment : Commitments \cup {NoCommitment}, consumed : Auths \cup {NoAuth}]
ReqType ==
  [op : Ops \cup {"none"}, at : {"new", "commit", "nonce", "slot", "swap", "done"},
   key : Nat, auth : Auths \cup {NoAuth}]

IdentityTypes ==
  /\ node \in NodeType
  /\ req \in [IdentityReqs -> ReqType]
  /\ consumedNonces \in SUBSET Auths /\ expired \in SUBSET Auths
  /\ applied \in [Auths -> Nat]

\* Requests that have redeemed their authorization and not yet rotated the key.
Redeemed(r) == req[r].at \in {"slot", "swap"}

\* A request in flight has an unexpired authorization; a redeemed one is in the ledger,
\* belongs to one request and has not been applied; an applied one stays in the ledger
\* until it expires.
RecoveryInv ==
  /\ \A r \in IdentityReqs : req[r].auth \notin expired
  /\ \A r \in IdentityReqs : req[r].at = "nonce" \/ Redeemed(r) => req[r].auth \in Auths
  /\ \A r \in IdentityReqs :
       Redeemed(r) => req[r].auth \in consumedNonces /\ applied[req[r].auth] = 0
  /\ \A r, s \in IdentityReqs :
       r # s /\ Redeemed(r) /\ Redeemed(s) => req[r].auth # req[s].auth
  /\ \A a \in Auths : /\ applied[a] <= 1
                      /\ applied[a] = 1 => a \in consumedNonces \cup expired

\* Steps of a request that holds no authorization afterwards, and that leave the
\* ledger and the key swaps alone.
LEMMA RequestElsewhere ==
  ASSUME IdentityTypes, RecoveryInv, NEW r \in IdentityReqs, NEW x \in ReqType,
         x.auth = NoAuth, x.at \notin {"nonce", "slot", "swap"},
         req' = [req EXCEPT ![r] = x], UNCHANGED <<consumedNonces, expired, applied>>
  PROVE  RecoveryInv'
<1>1. req'[r] = x /\ \A s \in IdentityReqs \ {r} : req'[s] = req[s]
  BY DEF IdentityTypes
<1>2. NoAuth \notin expired
  BY IdentityAssumption, Zenon DEF IdentityTypes
<1> QED
  BY <1>1, <1>2 DEF RecoveryInv, Redeemed

\* Steps that leave the requests, the ledger and the key swaps alone.
LEMMA RequestsSame ==
  ASSUME RecoveryInv, UNCHANGED <<req, consumedNonces, expired, applied>>
  PROVE  RecoveryInv'
BY Zenon DEF RecoveryInv, Redeemed

\* The types hold after every step.
LEMMA IdentityTypesStep ==
  ASSUME IdentityTypes, RecoveryInv, [IdentityNext]_identityVars
  PROVE  IdentityTypes'
<1>0. Finished \in ReqType
  BY Zenon DEF Finished, Waiting, ReqType, Ops
<1>k. node.key + 1 \in Nat
  <2>1. node.key \in Nat
    BY Zenon DEF IdentityTypes, NodeType
  <2> QED
    BY <2>1
<1>1. ASSUME NEW r \in IdentityReqs, NEW op \in Ops, LookupNodeKey(r, op)
      PROVE  IdentityTypes'
  <2>1. [Waiting EXCEPT !.op = op, !.at = "commit", !.key = node.key] \in ReqType
    BY Zenon DEF Waiting, ReqType, IdentityTypes, NodeType
  <2> QED
    BY <1>1, <2>1, Zenon DEF LookupNodeKey, IdentityTypes
<1>2. ASSUME NEW r \in IdentityReqs,
             \/ HandleRotateKey(r) \/ HandleSetKeyExpiry(r) \/ HandleSubmitBadge(r)
             \/ HandleEnrollRecovery(r)
      PROVE  IdentityTypes'
  <2>1. /\ [node EXCEPT !.key = node.key + 1] \in NodeType
        /\ [node EXCEPT !.badge = TRUE] \in NodeType
        /\ \A x \in BOOLEAN : [node EXCEPT !.expiry = x] \in NodeType
        /\ \A c \in Commitments : [node EXCEPT !.commitment = c] \in NodeType
    BY <1>k, Zenon DEF IdentityTypes, NodeType
  <2>2. node' \in NodeType
    BY <1>2, <2>1, ZenonT(30) DEF HandleRotateKey, HandleSetKeyExpiry, HandleSubmitBadge,
       HandleEnrollRecovery, IdentityTypes
  <2> QED
    BY <1>0, <1>2, <2>2, Zenon DEF HandleRotateKey, HandleSetKeyExpiry, HandleSubmitBadge,
       HandleEnrollRecovery, Finish, IdentityTypes
<1>3. ASSUME NEW r \in IdentityReqs, NEW a \in Auths, HandleRecoverIdentity(r, a)
      PROVE  IdentityTypes'
  <2>1. [Waiting EXCEPT !.op = "recover", !.at = "nonce", !.auth = a] \in ReqType
    BY Zenon DEF Waiting, ReqType, Ops
  <2> QED
    BY <1>3, <2>1, Zenon DEF HandleRecoverIdentity, IdentityTypes
<1>4. ASSUME NEW r \in IdentityReqs, consumeNonce(r) PROVE IdentityTypes'
  <2>0. [req[r] EXCEPT !.at = "slot"] \in ReqType
    BY Zenon DEF IdentityTypes, ReqType
  <2>1. req[r].auth \in Auths
    BY <1>4 DEF consumeNonce, RecoveryInv
  <2>2. consumedNonces' \in SUBSET Auths
    <3>1. consumedNonces' \subseteq consumedNonces \cup {req[r].auth}
      BY <1>4, Zenon DEF consumeNonce
    <3> QED
      BY <2>1, <3>1 DEF IdentityTypes
  <2>3. req' \in [IdentityReqs -> ReqType]
    BY <1>0, <1>4, <2>0, Zenon DEF consumeNonce, Finish, IdentityTypes
  <2> QED
    BY <1>4, <2>2, <2>3, Zenon DEF consumeNonce, IdentityTypes
<1>5. ASSUME NEW r \in IdentityReqs, ConsumeRecoveryNonce(r) PROVE IdentityTypes'
  <2>1. /\ [req[r] EXCEPT !.at = "swap"] \in ReqType
        /\ [node EXCEPT !.consumed = req[r].auth] \in NodeType
    BY ZenonT(30) DEF IdentityTypes, ReqType, NodeType
  <2> QED
    BY <1>0, <1>5, <2>1, Zenon DEF ConsumeRecoveryNonce, Finish, IdentityTypes
<1>6. ASSUME NEW r \in IdentityReqs, ForceRotateKey(r) PROVE IdentityTypes'
  <2>1. [node EXCEPT !.key = node.key + 1, !.badge = FALSE] \in NodeType
    BY <1>k, Zenon DEF IdentityTypes, NodeType
  <2>2. applied' \in [Auths -> Nat]
    BY <1>6, <2>1 DEF ForceRotateKey, IdentityTypes
  <2> QED
    BY <1>0, <1>6, <2>1, <2>2, Zenon DEF ForceRotateKey, Finish, IdentityTypes
<1>7. CASE \/ \E id \in BOOLEAN : HandleSetExternalID(id)
           \/ \E a \in Auths : ExpireAuth(a)
           \/ NodeGone \/ UNCHANGED identityVars
  BY <1>7, Zenon DEF HandleSetExternalID, ExpireAuth, NodeGone, identityVars, IdentityTypes,
     NodeType
<1> QED
  BY <1>1, <1>2, <1>3, <1>4, <1>5, <1>6, <1>7, ZenonT(30) DEF IdentityNext

\* Redeeming an authorization: the ledger had not seen it, so no request holds it and it
\* has not rotated the key.
LEMMA RedeemStep ==
  ASSUME IdentityTypes, RecoveryInv, NEW r \in IdentityReqs, consumeNonce(r)
  PROVE  RecoveryInv'
<1> DEFINE a == req[r].auth
           pruned == consumedNonces \ expired
<1>1. a \in Auths /\ a \notin expired /\ UNCHANGED <<expired, applied>>
  BY ZenonT(30) DEF RecoveryInv, consumeNonce
<1>2. CASE a \in pruned
  <2>1. Finished.auth = NoAuth /\ Finished.at = "done"
    BY DEF Finished, Waiting
  <2>2. req'[r] = Finished /\ \A s \in IdentityReqs \ {r} : req'[s] = req[s]
    BY <1>2 DEF consumeNonce, Finish, IdentityTypes
  <2>3. consumedNonces' = pruned /\ NoAuth \notin expired
    BY <1>2, IdentityAssumption, ZenonT(30) DEF consumeNonce, IdentityTypes
  <2> QED
    BY <1>1, <2>1, <2>2, <2>3, SMTT(30) DEF RecoveryInv, Redeemed
<1>3. CASE a \notin pruned
  <2>1. consumedNonces' = pruned \cup {a}
    BY <1>3 DEF consumeNonce
  <2>2. req'[r].at = "slot" /\ req'[r].auth = a
    BY <1>3 DEF consumeNonce, IdentityTypes, ReqType
  <2>3. \A s \in IdentityReqs \ {r} : req'[s] = req[s]
    BY <1>3, Zenon DEF consumeNonce, IdentityTypes
  <2>4. a \notin consumedNonces /\ applied[a] = 0
    BY <1>1, <1>3 DEF RecoveryInv, IdentityTypes
  <2>5. \A s \in IdentityReqs : Redeemed(s) => req[s].auth # a
    BY <2>4, ZenonT(30) DEF RecoveryInv
  <2> QED
    BY <1>1, <2>1, <2>2, <2>3, <2>4, <2>5, SMTT(30) DEF RecoveryInv, Redeemed
<1> QED
  BY <1>2, <1>3

\* Rotating the key with a redeemed authorization: it had not rotated it before.
LEMMA SwapStep ==
  ASSUME IdentityTypes, RecoveryInv, NEW r \in IdentityReqs, ForceRotateKey(r)
  PROVE  RecoveryInv'
<1> DEFINE a == req[r].auth
<1>1. a \in Auths /\ applied[a] = 0 /\ a \in consumedNonces
  BY Zenon DEF RecoveryInv, ForceRotateKey, Redeemed
<1>2. \A s \in IdentityReqs \ {r} : Redeemed(s) => req[s].auth # a
  BY DEF RecoveryInv, ForceRotateKey, Redeemed
<1>3. Finished.auth = NoAuth /\ Finished.at = "done"
  BY DEF Finished, Waiting
<1>4. req'[r] = Finished /\ \A s \in IdentityReqs \ {r} : req'[s] = req[s]
  BY DEF ForceRotateKey, Finish, IdentityTypes
<1>5. UNCHANGED <<consumedNonces, expired>> /\ NoAuth \notin expired
  BY IdentityAssumption DEF ForceRotateKey, IdentityTypes
<1>6. applied'[a] \in {0, 1} /\ \A b \in Auths \ {a} : applied'[b] = applied[b]
  BY <1>1 DEF ForceRotateKey, IdentityTypes
<1> QED
  BY <1>1, <1>2, <1>3, <1>4, <1>5, <1>6, SMTT(30) DEF RecoveryInv, Redeemed

\* Every step keeps the accounting of the recovery authorizations.
LEMMA RecoveryStep ==
  ASSUME IdentityTypes, RecoveryInv, [IdentityNext]_identityVars
  PROVE  RecoveryInv'
<1>0. Finished \in ReqType /\ Finished.auth = NoAuth /\ Finished.at = "done"
  BY Zenon DEF Finished, Waiting, ReqType, Ops
<1>1. ASSUME NEW r \in IdentityReqs, NEW op \in Ops, LookupNodeKey(r, op)
      PROVE  RecoveryInv'
  <2> DEFINE x == [Waiting EXCEPT !.op = op, !.at = "commit", !.key = node.key]
  <2>1. x \in ReqType /\ x.auth = NoAuth /\ x.at = "commit"
    BY Zenon DEF Waiting, ReqType, IdentityTypes, NodeType
  <2>2. req' = [req EXCEPT ![r] = x] /\ UNCHANGED <<consumedNonces, expired, applied>>
    BY <1>1 DEF LookupNodeKey
  <2> HIDE DEF x
  <2> QED
    BY <2>1, <2>2, RequestElsewhere, Zenon
<1>2. ASSUME NEW r \in IdentityReqs,
             \/ HandleRotateKey(r) \/ HandleSetKeyExpiry(r) \/ HandleSubmitBadge(r)
             \/ HandleEnrollRecovery(r)
      PROVE  RecoveryInv'
  <2>1. req' = [req EXCEPT ![r] = Finished] /\ UNCHANGED <<consumedNonces, expired, applied>>
    BY <1>2, Zenon DEF HandleRotateKey, HandleSetKeyExpiry, HandleSubmitBadge,
       HandleEnrollRecovery, Finish
  <2> QED
    BY <1>0, <2>1, RequestElsewhere, Zenon
<1>3. ASSUME NEW r \in IdentityReqs, NEW a \in Auths, HandleRecoverIdentity(r, a)
      PROVE  RecoveryInv'
  <2>1. /\ req'[r].at = "nonce" /\ req'[r].auth = a /\ a \notin expired
        /\ \A s \in IdentityReqs \ {r} : req'[s] = req[s]
        /\ UNCHANGED <<consumedNonces, expired, applied>>
    BY <1>3, Zenon DEF HandleRecoverIdentity, Waiting, IdentityTypes
  <2> QED
    BY <2>1, ZenonT(30) DEF RecoveryInv, Redeemed
<1>4. ASSUME NEW r \in IdentityReqs, ConsumeRecoveryNonce(r) PROVE RecoveryInv'
  <2>1. UNCHANGED <<consumedNonces, expired, applied>>
    BY <1>4 DEF ConsumeRecoveryNonce
  <2>2. CASE req' = [req EXCEPT ![r] = Finished]
    BY <1>0, <2>1, <2>2, RequestElsewhere, ZenonT(30)
  <2>3. CASE req' = [req EXCEPT ![r].at = "swap"]
    <3>1. /\ req'[r].at = "swap" /\ req'[r].auth = req[r].auth /\ Redeemed(r)
          /\ \A s \in IdentityReqs \ {r} : req'[s] = req[s]
      BY <1>4, <2>3, ZenonT(30) DEF ConsumeRecoveryNonce, IdentityTypes, ReqType, Redeemed
    <3> QED
      BY <2>1, <3>1 DEF RecoveryInv, Redeemed
  <2> QED
    BY <1>4, <2>2, <2>3, Zenon DEF ConsumeRecoveryNonce, Finish
<1>5. ASSUME NEW a \in Auths, ExpireAuth(a) PROVE RecoveryInv'
  BY <1>5 DEF ExpireAuth, RecoveryInv, Redeemed
<1>6. CASE (\E id \in BOOLEAN : HandleSetExternalID(id)) \/ NodeGone \/ UNCHANGED identityVars
  BY <1>6, RequestsSame DEF HandleSetExternalID, NodeGone, identityVars
<1> QED
  BY <1>1, <1>2, <1>3, <1>4, <1>5, <1>6, RedeemStep, SwapStep, ZenonT(30) DEF IdentityNext

\* Whatever the requests, their number and their interleaving, a recovery authorization
\* rotates the node's key at most once in a life of the server (consumeNonce,
\* ConsumeRecoveryNonce, ForceRotateKey).
THEOREM AuthorizationsSpentOnce == IdentitySpec => []RecoveredOnce
<1>1. IdentityInit => IdentityTypes
  <2> SUFFICES ASSUME IdentityInit PROVE IdentityTypes
    OBVIOUS
  <2>1. Waiting \in ReqType
    BY Zenon DEF Waiting, ReqType
  <2>2. node \in NodeType
    <3>1. PICK c \in Commitments \cup {NoCommitment} :
            node = [exists |-> TRUE, key |-> 0, badge |-> FALSE, expiry |-> FALSE,
                    extID |-> FALSE, commitment |-> c, consumed |-> NoAuth]
      BY Zenon DEF IdentityInit
    <3>2. 0 \in Nat
      OBVIOUS
    <3> QED
      BY <3>1, <3>2, Zenon DEF NodeType
  <2>3. applied \in [Auths -> Nat]
    BY DEF IdentityInit
  <2> QED
    BY <2>1, <2>2, <2>3, Zenon DEF IdentityInit, IdentityTypes
<1>2. IdentityInit => RecoveryInv
  BY DEF IdentityInit, RecoveryInv, Redeemed, Waiting
<1>3. IdentityTypes /\ RecoveryInv /\ [IdentityNext]_identityVars
        => IdentityTypes' /\ RecoveryInv'
  BY IdentityTypesStep, RecoveryStep, ZenonT(30)
<1>4. RecoveryInv => RecoveredOnce
  BY Zenon DEF RecoveryInv, RecoveredOnce
<1> QED
  BY <1>1, <1>2, <1>3, <1>4, PTL DEF IdentitySpec
=============================================================================

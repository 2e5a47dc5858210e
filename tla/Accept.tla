------------------------------- MODULE Accept -------------------------------
(***************************************************************************)
(* The accept layer (package accept): the connection limit, the request    *)
(* loop of a connection and the three throttles in front of dispatch: a    *)
(* token bucket per address, one for the process, and the rate of a        *)
(* single connection.                                                      *)
(*                                                                         *)
(* Time advances in ticks.  Tokens are kept in units of 1/Window, so that  *)
(* the refill of a bucket per tick is its rate.  A second copy of the      *)
(* buckets, which are never evicted, is the reference the limiter is       *)
(* compared with.                                                          *)
(***************************************************************************)
EXTENDS Integers, FiniteSets

CONSTANTS
  Conns, Addrs,          \* connections, and their addresses
  AddrOf,                \* the address of a connection
  MaxConnections,        \* Acceptor.maxConnections
  Rate, Window, MaxBuckets,      \* NewRateLimiter
  GlobalRate,            \* newGlobalRateBucket
  ListedRate             \* rate of a whitelist entry

ASSUME AcceptAssumption ==
  /\ AddrOf \in [Conns -> Addrs]
  /\ {MaxConnections, Rate, Window, MaxBuckets, GlobalRate, ListedRate} \subseteq Nat \ {0}

VARIABLES
  conns,         \* per connection: none, grace (its first five seconds), open,
                 \* checked (a request found not listed), replication
  connCount,
  buckets,       \* RateLimiter.buckets: tokens, ticks since lastFill, rate
  whitelist,     \* addresses the operator has listed
  global,        \* globalRateBucket.tokens
  ref            \* the reference buckets

acceptVars == <<conns, connCount, buckets, whitelist, global, ref>>

NoBucket == [tokens |-> 0, age |-> 0, rate |-> 0]
MaxAge == 2 * Window + 1
Least(a, b) == IF a < b THEN a ELSE b
Active == {c \in Conns : conns[c] # "none"}
Tracked(bs) == {a \in Addrs : bs[a].rate # 0}

\* Allow's refill of an existing bucket.
Refilled(b) == [b EXCEPT !.tokens = Least(@ + b.rate * b.age, b.rate * Window), !.age = 0]
Spend(b) == IF b.tokens < Window THEN b ELSE [b EXCEPT !.tokens = @ - Window]
FullBucket(rate) == [tokens |-> rate * Window, age |-> 0, rate |-> rate]

AcceptInit ==
  /\ conns = [c \in Conns |-> "none"] /\ connCount = 0
  /\ buckets = [a \in Addrs |-> NoBucket]
  /\ whitelist = {}
  /\ global = GlobalRate
  /\ ref = [a \in Addrs |-> FullBucket(Rate)]

-----------------------------------------------------------------------------
(* Connections *)

\* The accept loop tests the limit and counts the connection; it alone counts up.
AcceptConn(c) ==
  /\ conns[c] = "none"
  /\ IF connCount >= MaxConnections
     THEN UNCHANGED <<conns, connCount>>
     ELSE conns' = [conns EXCEPT ![c] = "grace"] /\ connCount' = connCount + 1
  /\ UNCHANGED <<buckets, whitelist, global, ref>>

\* handleConn ends: end of stream, idle deadline, write error, a refused protocol
\* version, an abusive rate, or a panic, which its deferred calls survive.
CloseConn_Leak(c) ==
  /\ conns[c] # "none"
  /\ conns' = [conns EXCEPT ![c] = "none"]
  /\ connCount' = IF conns[c] = "replication" THEN connCount ELSE connCount - 1
  /\ UNCHANGED <<buckets, whitelist, global, ref>>

CloseConn(c) ==
  /\ conns[c] # "none"
  /\ conns' = [conns EXCEPT ![c] = "none"]
  /\ connCount' = connCount - 1
  /\ UNCHANGED <<buckets, whitelist, global, ref>>

\* A replication subscription takes the connection over, before any throttle.
SubscribeConn(c) ==
  /\ conns[c] \in {"grace", "open"}
  /\ conns' = [conns EXCEPT ![c] = "replication"]
  /\ UNCHANGED <<connCount, buckets, whitelist, global, ref>>

-----------------------------------------------------------------------------
(* Requests *)

Stale(b) == b.rate # 0 /\ b.age > 2 * Window
EvictStale_Soon(bs) == [a \in Addrs |-> IF bs[a].rate # 0 /\ 2 * bs[a].age >= Window THEN NoBucket ELSE bs[a]]
EvictStale(bs) == [a \in Addrs |-> IF Stale(bs[a]) THEN NoBucket ELSE bs[a]]

\* RateLimiter.Allow for an address: the buckets afterwards.  A new address gets a
\* bucket if the table has room once idle buckets are evicted, or if it is listed.
AllowBuckets(a) ==
  LET listed == a \in whitelist
      table == IF ~listed /\ Cardinality(Tracked(buckets)) >= MaxBuckets
               THEN EvictStale(buckets) ELSE buckets
      rate == IF listed THEN ListedRate ELSE Rate
  IN IF buckets[a].rate # 0 THEN [buckets EXCEPT ![a] = Spend(Refilled(@))]
     ELSE IF ~listed /\ Cardinality(Tracked(table)) >= MaxBuckets THEN table
     ELSE [table EXCEPT ![a] = Spend(FullBucket(rate))]

\* ... and its answer.
AllowOK(a) ==
  IF buckets[a].rate # 0 THEN Refilled(buckets[a]).tokens >= Window
  ELSE Tracked(AllowBuckets(a)) \ Tracked(buckets) # {}

\* The reference: the same bucket, never forgotten, of the rate the limiter uses.
RefRate(a) == IF AllowBuckets(a)[a].rate # 0 THEN AllowBuckets(a)[a].rate ELSE ref[a].rate
RefRefilled(a) ==
  IF RefRate(a) = ref[a].rate THEN Refilled(ref[a]) ELSE FullBucket(RefRate(a))

\* A request of the JSON or the binary loop past the grace period.  Listed addresses
\* are dispatched at once; the list is read again when a bucket is made.
CheckRequest(c) ==
  /\ conns[c] = "open" /\ AddrOf[c] \notin whitelist
  /\ conns' = [conns EXCEPT ![c] = "checked"]
  /\ UNCHANGED <<connCount, buckets, whitelist, global, ref>>

\* The address's bucket, then the global one.  (The rate of the connection, checked
\* last, ends the connection: CloseConn.)  A refused request is answered and the
\* loop continues.
Request(c) ==
  /\ conns[c] = "checked"
  /\ LET a == AddrOf[c]
     IN /\ buckets' = AllowBuckets(a)
        /\ ref' = IF AllowOK(a) THEN [ref EXCEPT ![a] = Spend(RefRefilled(a))] ELSE ref
        /\ global' = IF AllowOK(a) /\ global >= 1 THEN global - 1 ELSE global
  /\ conns' = [conns EXCEPT ![c] = "open"]
  /\ UNCHANGED <<connCount, whitelist>>

-----------------------------------------------------------------------------
(* Time and maintenance *)

Older(b) == [b EXCEPT !.age = Least(@ + 1, MaxAge)]

Tick ==
  /\ buckets' = [a \in Addrs |-> IF buckets[a].rate # 0 THEN Older(buckets[a]) ELSE NoBucket]
  /\ ref' = [a \in Addrs |-> Older(ref[a])]
  /\ global' = Least(global + GlobalRate, GlobalRate)
  /\ conns' = [c \in Conns |-> IF conns[c] = "grace" THEN "open" ELSE conns[c]]
  /\ UNCHANGED <<connCount, whitelist>>

\* RateLimiterCleanup, from the reap loop.
Cleanup ==
  /\ buckets' = EvictStale(buckets)
  /\ UNCHANGED <<conns, connCount, whitelist, global, ref>>

\* SetWhitelist replaces the list; existing buckets keep their rate.
SetWhitelist ==
  /\ whitelist' \in SUBSET Addrs
  /\ UNCHANGED <<conns, connCount, buckets, global, ref>>

AcceptNext ==
  \/ \E c \in Conns : AcceptConn(c) \/ CloseConn(c) \/ SubscribeConn(c)
                       \/ CheckRequest(c) \/ Request(c)
  \/ Tick
  \/ Cleanup
  \/ SetWhitelist

AcceptSpec == AcceptInit /\ [][AcceptNext]_acceptVars

-----------------------------------------------------------------------------
(* Properties *)

\* The connection counter is the number of connections being served, however each of
\* them ended, and stays within the limit: it neither leaks slots, which would end in
\* refusing everybody, nor lets more connections in.
ConnsCounted == connCount = Cardinality(Active) /\ connCount <= MaxConnections

\* Evicting idle buckets grants nothing: an address's bucket holds no more tokens than
\* it would hold had it never been evicted, and an address without a bucket is one
\* whose bucket would be full, so that a fresh bucket is not a way around the limit.
EvictionGrantsNothing ==
  \A a \in Addrs :
    LET b == buckets[a]
        r == ref[a]
    IN IF b.rate # 0
       THEN b.rate = r.rate => Refilled(b).tokens <= Refilled(r).tokens
       ELSE Refilled(r).tokens = r.rate * Window
=============================================================================

---------------------------- MODULE ExportProofs ----------------------------
(***************************************************************************)
(* What leaves the server, proved for every value of the constants.        *)
(* Webhook: no event is lost uncounted, and a closed dispatcher drains     *)
(* what it owes.  AuditExport: what an entry that Export has taken can be  *)
(* lost to.                                                                *)
(***************************************************************************)
EXTENDS Webhook, AuditExport, FiniteSetTheorems, TLAPS

-----------------------------------------------------------------------------
(* Channels *)

\* What a channel holds after a send and after a receive.
LEMMA AppendRange ==
  ASSUME NEW S, NEW q \in Seq(S), NEW id \in S
  PROVE  Range(Append(q, id)) = Range(q) \cup {id}
<1>1. Append(q, id) \in Seq(S) /\ Len(Append(q, id)) = Len(q) + 1 /\ Len(q) \in Nat
  OBVIOUS
<1>2. \A i \in 1..Len(q) : Append(q, id)[i] = q[i]
  OBVIOUS
<1>3. Append(q, id)[Len(q) + 1] = id
  OBVIOUS
<1>4. 1..(Len(q) + 1) = (1..Len(q)) \cup {Len(q) + 1}
  BY <1>1
<1>5. DOMAIN q = 1..Len(q) /\ DOMAIN Append(q, id) = 1..(Len(q) + 1)
  BY <1>1
<1> QED
  BY <1>2, <1>3, <1>4, <1>5, ZenonT(30) DEF Range

\* A receive takes the head: what is left holds everything else that was queued.
LEMMA TailRange ==
  ASSUME NEW S, NEW q \in Seq(S), q # <<>>
  PROVE  /\ Head(q) \in S /\ Tail(q) \in Seq(S) /\ Len(q) = Len(Tail(q)) + 1
         /\ Range(q) \ {Head(q)} \subseteq Range(Tail(q))
<1>1. /\ Head(q) \in S /\ Tail(q) \in Seq(S) /\ Len(q) = Len(Tail(q)) + 1
  OBVIOUS
<1>2. ASSUME NEW i \in DOMAIN q, q[i] # Head(q)
      PROVE  q[i] \in Range(Tail(q))
  <2>1. i \in 1..Len(q) /\ i # 1
    BY <1>2
  <2>2. i - 1 \in DOMAIN Tail(q) /\ Tail(q)[i - 1] = q[i]
    BY <2>1
  <2> QED
    BY <2>2, Zenon DEF Range
<1> QED
  BY <1>1, <1>2, Zenon DEF Range

\* An empty channel holds nothing, and a channel holds what its type says.
LEMMA ItemsRange ==
  /\ Range(<<>>) = {}
  /\ \A S : \A q \in Seq(S) : Range(q) \subseteq S
<1>1. Range(<<>>) = {}
  BY DEF Range
<1>2. \A S : \A q \in Seq(S) : Range(q) \subseteq S
  BY DEF Range
<1> QED
  BY <1>1, <1>2, Zenon

-----------------------------------------------------------------------------
(* The webhook dispatchers: one dispatcher *)

EventIDs == Nat \ {0}
Dispatchers ==
  [made : BOOLEAN, closed : BOOLEAN, done : BOOLEAN, nextID : Nat, ch : Seq(EventIDs),
   post : Nat, attempt : Nat, dropped : Nat, failed : Nat, delivered : Nat,
   dlq : Nat, dlqDropped : Nat, counted : BOOLEAN, owed : SUBSET EventIDs]

\* With n emitters about to queue on dispatcher z, its counters account for every id
\* drawn ...
Waiting(z) == Len(z.ch)
Busy(z) == IF z.post # 0 THEN 1 ELSE 0
Total(z, n) == z.delivered + z.failed + z.dropped + Waiting(z) + Busy(z) + n
Balanced(z, n) == ~z.closed => z.nextID = Total(z, n)

\* ... and for every failure ...
Uncounted(z) == IF z.counted THEN 0 ELSE 1
Lettered(z) ==
  /\ z.dlq + z.dlqDropped = z.failed + Uncounted(z)
  /\ ~z.counted => z.post # 0

\* ... and what it owes is queued still.
Owing(z) == z.owed \subseteq Range(z.ch) /\ (z.done => z.closed /\ z.owed = {})

Sound(z, n) == z \in Dispatchers /\ n \in Nat /\ Balanced(z, n) /\ Lettered(z) /\ Owing(z)

\* The numbers among the fields of a dispatcher.
Numbered(z) ==
  /\ z.nextID \in Nat /\ Waiting(z) \in Nat /\ z.post \in Nat /\ Busy(z) \in Nat
  /\ z.attempt \in Nat /\ z.dropped \in Nat /\ z.failed \in Nat /\ z.delivered \in Nat
  /\ z.dlq \in Nat /\ z.dlqDropped \in Nat

\* The fields of a dispatcher.
LEMMA DispatcherFields ==
  ASSUME NEW z \in Dispatchers
  PROVE  /\ Numbered(z) /\ z.ch \in Seq(EventIDs) /\ z.owed \subseteq EventIDs
         /\ z.made \in BOOLEAN /\ z.closed \in BOOLEAN /\ z.done \in BOOLEAN /\ z.counted \in BOOLEAN
<1>1. /\ z.ch \in Seq(EventIDs)
      /\ z.nextID \in Nat /\ z.post \in Nat /\ z.attempt \in Nat /\ z.dropped \in Nat
      /\ z.failed \in Nat /\ z.delivered \in Nat /\ z.dlq \in Nat /\ z.dlqDropped \in Nat
      /\ z.made \in BOOLEAN /\ z.closed \in BOOLEAN /\ z.done \in BOOLEAN /\ z.counted \in BOOLEAN
      /\ z.owed \subseteq EventIDs
  BY Zenon DEF Dispatchers
<1> HIDE DEF Dispatchers
<1>2. Len(z.ch) \in Nat /\ 0 \in Nat /\ 1 \in Nat
  BY <1>1
<1> QED
  BY <1>1, <1>2, Zenon DEF Numbered, Waiting, Busy

\* What a sound dispatcher offers.
LEMMA SoundParts ==
  ASSUME NEW z, NEW n, Sound(z, n)
  PROVE  /\ z \in Dispatchers /\ n \in Nat /\ Numbered(z) /\ z.ch \in Seq(EventIDs)
         /\ Balanced(z, n) /\ Lettered(z) /\ Owing(z)
BY DispatcherFields, Zenon DEF Sound

\* A dispatcher that has just been made, or has not been made, accounts for nothing.
LEMMA FreshSound == Sound(NewDispatcher, 0) /\ Sound(NoDispatcher, 0)
<1>1. 0 \in Nat /\ <<>> \in Seq(EventIDs) /\ Len(<<>>) = 0
  OBVIOUS
<1>2. NewDispatcher \in Dispatchers /\ NoDispatcher \in Dispatchers
  BY <1>1, Zenon DEF NewDispatcher, NoDispatcher, Dispatchers
<1>3. /\ NewDispatcher.nextID = 0 /\ NewDispatcher.ch = <<>> /\ NewDispatcher.post = 0
      /\ NewDispatcher.dropped = 0 /\ NewDispatcher.failed = 0 /\ NewDispatcher.delivered = 0
      /\ NewDispatcher.dlq = 0 /\ NewDispatcher.dlqDropped = 0 /\ NewDispatcher.counted
      /\ NewDispatcher.owed = {} /\ ~NewDispatcher.done
  BY Zenon DEF NewDispatcher
<1>4. /\ NoDispatcher.nextID = 0 /\ NoDispatcher.ch = <<>> /\ NoDispatcher.post = 0
      /\ NoDispatcher.dropped = 0 /\ NoDispatcher.failed = 0 /\ NoDispatcher.delivered = 0
      /\ NoDispatcher.dlq = 0 /\ NoDispatcher.dlqDropped = 0 /\ NoDispatcher.counted
      /\ NoDispatcher.owed = {} /\ ~NoDispatcher.done
  BY Zenon DEF NewDispatcher, NoDispatcher
<1> HIDE DEF NewDispatcher, NoDispatcher
<1>5. /\ Waiting(NewDispatcher) = 0 /\ Busy(NewDispatcher) = 0 /\ Uncounted(NewDispatcher) = 0
      /\ Waiting(NoDispatcher) = 0 /\ Busy(NoDispatcher) = 0 /\ Uncounted(NoDispatcher) = 0
  BY <1>1, <1>3, <1>4, Zenon DEF Waiting, Busy, Uncounted
<1>6. Balanced(NewDispatcher, 0) /\ Balanced(NoDispatcher, 0)
  BY <1>3, <1>4, <1>5, SMT DEF Balanced, Total
<1>7. Lettered(NewDispatcher) /\ Lettered(NoDispatcher)
  BY <1>3, <1>4, <1>5, SMT DEF Lettered
<1>8. Owing(NewDispatcher) /\ Owing(NoDispatcher)
  BY <1>3, <1>4, Zenon DEF Owing
<1> QED
  BY <1>1, <1>2, <1>6, <1>7, <1>8, Zenon DEF Sound

\* The account when an event goes to the channel, and from there to the poster.
LEMMA TotalMoves ==
  ASSUME NEW z, NEW y, NEW n \in Nat, Numbered(z), Numbered(y),
         y.delivered = z.delivered, y.failed = z.failed, y.dropped = z.dropped
  PROVE  /\ Waiting(y) = Waiting(z) + 1 /\ Busy(y) = Busy(z) => Total(y, n) = Total(z, n + 1)
         /\ Waiting(z) = Waiting(y) + 1 /\ Busy(y) = Busy(z) + 1 => Total(y, n) = Total(z, n)
<1>1. \A a, b, c, w, p, k \in Nat : /\ a + b + c + (w + 1) + p + k = a + b + c + w + p + (k + 1)
                                    /\ a + b + c + (w + 1) + p + k = a + b + c + w + (p + 1) + k
  OBVIOUS
<1>2. /\ z.delivered \in Nat /\ z.failed \in Nat /\ z.dropped \in Nat
      /\ Waiting(z) \in Nat /\ Waiting(y) \in Nat /\ Busy(z) \in Nat
  BY Zenon DEF Numbered
<1>3. z.delivered + z.failed + z.dropped + (Waiting(z) + 1) + Busy(z) + n
        = z.delivered + z.failed + z.dropped + Waiting(z) + Busy(z) + (n + 1)
  BY <1>1, <1>2
<1>4. z.delivered + z.failed + z.dropped + (Waiting(y) + 1) + Busy(z) + n
        = z.delivered + z.failed + z.dropped + Waiting(y) + (Busy(z) + 1) + n
  BY <1>1, <1>2
<1> QED
  BY <1>3, <1>4, Zenon DEF Total

\* The account when an id is drawn, and when an event is dropped.
LEMMA TotalGrows ==
  ASSUME NEW z, NEW y, NEW n \in Nat, Numbered(z), y.delivered = z.delivered,
         y.failed = z.failed, Waiting(y) = Waiting(z), Busy(y) = Busy(z)
  PROVE  /\ y.dropped = z.dropped => Total(y, n + 1) = Total(z, n) + 1
         /\ y.dropped = z.dropped + 1 => Total(y, n) = Total(z, n + 1)
<1>1. \A a, b, c, w, p, k \in Nat : /\ a + b + c + w + p + (k + 1) = (a + b + c + w + p + k) + 1
                                    /\ a + b + (c + 1) + w + p + k = a + b + c + w + p + (k + 1)
  OBVIOUS
<1>2. /\ z.delivered \in Nat /\ z.failed \in Nat /\ z.dropped \in Nat
      /\ Waiting(z) \in Nat /\ Busy(z) \in Nat
  BY Zenon DEF Numbered
<1>3. z.delivered + z.failed + z.dropped + Waiting(z) + Busy(z) + (n + 1)
        = (z.delivered + z.failed + z.dropped + Waiting(z) + Busy(z) + n) + 1
  BY <1>1, <1>2
<1>4. z.delivered + z.failed + (z.dropped + 1) + Waiting(z) + Busy(z) + n
        = z.delivered + z.failed + z.dropped + Waiting(z) + Busy(z) + (n + 1)
  BY <1>1, <1>2
<1> QED
  BY <1>3, <1>4, Zenon DEF Total

\* dispatcher.Emit draws an id for one more emitter.
LEMMA DrawSound ==
  ASSUME NEW z, NEW n, Sound(z, n)
  PROVE  \A y : y = [z EXCEPT !.nextID = @ + 1] => Sound(y, n + 1)
<1>1. SUFFICES ASSUME NEW y, y = [z EXCEPT !.nextID = @ + 1] PROVE Sound(y, n + 1)
  BY Zenon
<1>2. /\ z \in Dispatchers /\ n \in Nat /\ Numbered(z)
      /\ Balanced(z, n) /\ Lettered(z) /\ Owing(z)
  BY SoundParts, Zenon
<1>3. z.nextID + 1 \in Nat /\ n + 1 \in Nat
  BY <1>2 DEF Numbered
<1>4. /\ y \in Dispatchers /\ y.nextID = z.nextID + 1
      /\ y.closed = z.closed /\ y.done = z.done /\ y.ch = z.ch /\ y.post = z.post
      /\ y.dropped = z.dropped /\ y.failed = z.failed /\ y.delivered = z.delivered
      /\ y.dlq = z.dlq /\ y.dlqDropped = z.dlqDropped /\ y.counted = z.counted /\ y.owed = z.owed
      /\ y.made = z.made
  BY <1>1, <1>2, <1>3, Zenon DEF Dispatchers
<1>5. Waiting(y) = Waiting(z) /\ Busy(y) = Busy(z) /\ Uncounted(y) = Uncounted(z)
  BY <1>4, Zenon DEF Waiting, Busy, Uncounted
<1>6. Total(y, n + 1) = Total(z, n) + 1
  BY <1>2, <1>4, <1>5, TotalGrows, Zenon
<1> QED
  BY <1>2, <1>3, <1>4, <1>5, <1>6, Zenon DEF Sound, Balanced, Lettered, Owing

\* An emitter puts its event at the end of the channel ...
LEMMA QueueSound ==
  ASSUME NEW z, NEW n \in Nat, Sound(z, n + 1), NEW id \in EventIDs
  PROVE  \A y : y = [z EXCEPT !.ch = Append(@, id)] => Sound(y, n)
<1>1. SUFFICES ASSUME NEW y, y = [z EXCEPT !.ch = Append(@, id)] PROVE Sound(y, n)
  BY Zenon
<1>2. /\ z \in Dispatchers /\ Numbered(z)
      /\ Balanced(z, n + 1) /\ Lettered(z) /\ Owing(z)
  BY SoundParts, Zenon
<1>3. z.ch \in Seq(EventIDs)
  BY SoundParts, Zenon
<1>4. Append(z.ch, id) \in Seq(EventIDs) /\ Len(Append(z.ch, id)) = Len(z.ch) + 1
  BY <1>3
<1>5. y.ch = Append(z.ch, id)
  BY <1>1, <1>2, Zenon DEF Dispatchers
<1>6. /\ y \in Dispatchers
      /\ y.closed = z.closed /\ y.done = z.done /\ y.nextID = z.nextID /\ y.post = z.post
      /\ y.dropped = z.dropped /\ y.failed = z.failed /\ y.delivered = z.delivered
      /\ y.dlq = z.dlq /\ y.dlqDropped = z.dlqDropped /\ y.counted = z.counted /\ y.owed = z.owed
      /\ y.made = z.made
  BY <1>1, <1>2, <1>4, Zenon DEF Dispatchers
<1>7. Waiting(y) = Waiting(z) + 1 /\ Busy(y) = Busy(z) /\ Uncounted(y) = Uncounted(z)
  BY <1>4, <1>6, <1>5, Zenon DEF Waiting, Busy, Uncounted
<1>8. Total(y, n) = Total(z, n + 1)
  BY <1>2, <1>6, <1>7, DispatcherFields, TotalMoves, Zenon
<1>9. Range(z.ch) \subseteq Range(y.ch)
  <2>1. Range(Append(z.ch, id)) = Range(z.ch) \cup {id}
    BY <1>3, AppendRange, SMT
  <2> QED
    BY <1>5, <2>1, Zenon
<1> QED
  BY <1>2, <1>6, <1>7, <1>8, <1>9, Zenon DEF Sound, Balanced, Lettered, Owing

\* ... or drops it, because the channel is full or the dispatcher closed.
LEMMA DropSound ==
  ASSUME NEW z, NEW n \in Nat, Sound(z, n + 1)
  PROVE  /\ z.closed => Sound(z, n)
         /\ \A y : y = [z EXCEPT !.dropped = @ + 1] => Sound(y, n)
<1>1. /\ z \in Dispatchers /\ Numbered(z)
      /\ Balanced(z, n + 1) /\ Lettered(z) /\ Owing(z)
  BY SoundParts, Zenon
<1>2. z.closed => Sound(z, n)
  BY <1>1, Zenon DEF Sound, Balanced
<1>3. ASSUME NEW y, y = [z EXCEPT !.dropped = @ + 1]
      PROVE  Sound(y, n)
  <2>1. z.dropped + 1 \in Nat
    BY <1>1 DEF Numbered
  <2>2. /\ y \in Dispatchers /\ y.dropped = z.dropped + 1
        /\ y.closed = z.closed /\ y.done = z.done /\ y.nextID = z.nextID /\ y.ch = z.ch
        /\ y.post = z.post /\ y.failed = z.failed /\ y.delivered = z.delivered /\ y.dlq = z.dlq
        /\ y.dlqDropped = z.dlqDropped /\ y.counted = z.counted /\ y.owed = z.owed
        /\ y.made = z.made
    BY <1>1, <1>3, <2>1, Zenon DEF Dispatchers
  <2>3. Waiting(y) = Waiting(z) /\ Busy(y) = Busy(z) /\ Uncounted(y) = Uncounted(z)
    BY <2>2, Zenon DEF Waiting, Busy, Uncounted
  <2>4. Total(y, n) = Total(z, n + 1)
    BY <1>1, <2>2, <2>3, TotalGrows, Zenon
  <2> QED
    BY <1>1, <2>2, <2>3, <2>4, Zenon DEF Sound, Balanced, Lettered, Owing
<1> QED
  BY <1>2, <1>3, Zenon

\* run takes the first event of the channel to post it.
LEMMA TakeSound ==
  ASSUME NEW z, NEW n, Sound(z, n), z.ch # <<>>, z.post = 0, ~z.done
  PROVE  \A y : y = [z EXCEPT !.post = Head(z.ch), !.ch = Tail(@), !.owed = @ \ {Head(z.ch)}]
                => Sound(y, n)
<1>1. SUFFICES ASSUME NEW y, y = [z EXCEPT !.post = Head(z.ch), !.ch = Tail(@),
                                           !.owed = @ \ {Head(z.ch)}]
               PROVE  Sound(y, n)
  BY Zenon
<1>2. /\ z \in Dispatchers /\ n \in Nat /\ Numbered(z)
      /\ Balanced(z, n) /\ Lettered(z) /\ Owing(z)
  BY SoundParts, Zenon
<1>3. /\ Head(z.ch) \in EventIDs /\ Tail(z.ch) \in Seq(EventIDs)
      /\ Len(z.ch) = Len(Tail(z.ch)) + 1
      /\ Range(z.ch) \ {Head(z.ch)} \subseteq Range(Tail(z.ch))
  BY SoundParts, TailRange, Zenon
<1>4. Head(z.ch) \in Nat /\ Head(z.ch) # 0
  BY <1>3 DEF EventIDs
<1>5. z.owed \subseteq EventIDs
  BY <1>2, DispatcherFields, Zenon
<1>6. /\ y.post = Head(z.ch) /\ y.ch = Tail(z.ch) /\ y.owed = z.owed \ {Head(z.ch)}
  BY <1>1, <1>2, Zenon DEF Dispatchers
<1>7. /\ y \in Dispatchers
      /\ y.closed = z.closed /\ y.done = z.done /\ y.nextID = z.nextID /\ y.dropped = z.dropped
      /\ y.failed = z.failed /\ y.delivered = z.delivered /\ y.dlq = z.dlq
      /\ y.dlqDropped = z.dlqDropped /\ y.counted = z.counted /\ y.made = z.made
  BY <1>1, <1>2, <1>3, <1>4, <1>5, Zenon DEF Dispatchers
<1>8. Waiting(z) = Waiting(y) + 1
  BY <1>3, <1>6, Zenon DEF Waiting
<1>9. Busy(y) = Busy(z) + 1 /\ Uncounted(y) = Uncounted(z)
  <2>1. Busy(z) = 0 /\ Busy(y) = 1 /\ Uncounted(y) = Uncounted(z)
    BY <1>4, <1>6, <1>7, Zenon DEF Busy, Uncounted
  <2>2. 1 = 0 + 1
    OBVIOUS
  <2> QED
    BY <2>1, <2>2, Zenon
<1>10. Numbered(y)
  BY <1>7, DispatcherFields, Zenon
<1>11. Total(y, n) = Total(z, n)
  BY <1>2, <1>7, <1>8, <1>9, <1>10, TotalMoves, Zenon
<1>12. Lettered(y)
  BY <1>2, <1>7, <1>9, Zenon DEF Lettered
<1>13. Owing(y)
  BY <1>2, <1>3, <1>6, <1>7, Zenon DEF Owing
<1> QED
  BY <1>2, <1>7, <1>11, <1>12, <1>13, Zenon DEF Sound, Balanced

\* Closed, with nothing queued, run returns.
LEMMA ReturnSound ==
  ASSUME NEW z, NEW n, Sound(z, n), z.closed, z.ch = <<>>
  PROVE  \A y : y = [z EXCEPT !.done = TRUE] => Sound(y, n)
<1>1. SUFFICES ASSUME NEW y, y = [z EXCEPT !.done = TRUE] PROVE Sound(y, n)
  BY Zenon
<1>2. z \in Dispatchers /\ n \in Nat /\ Lettered(z) /\ Owing(z)
  BY SoundParts, Zenon
<1>3. /\ y \in Dispatchers /\ y.done = TRUE
      /\ y.closed = z.closed /\ y.nextID = z.nextID /\ y.ch = z.ch /\ y.post = z.post
      /\ y.dropped = z.dropped /\ y.failed = z.failed /\ y.delivered = z.delivered
      /\ y.dlq = z.dlq /\ y.dlqDropped = z.dlqDropped /\ y.counted = z.counted /\ y.owed = z.owed
      /\ y.made = z.made
  BY <1>1, <1>2, Zenon DEF Dispatchers
<1>4. Range(z.ch) = {}
  BY ItemsRange, Zenon
<1>5. Uncounted(y) = Uncounted(z)
  BY <1>3, Zenon DEF Uncounted
<1> QED
  BY <1>2, <1>3, <1>4, <1>5, Zenon DEF Sound, Balanced, Lettered, Owing

\* post delivers an event ...
LEMMA DeliverSound ==
  ASSUME NEW z, NEW n, Sound(z, n), z.post # 0, z.counted
  PROVE  \A y : y = [z EXCEPT !.delivered = @ + 1, !.post = 0, !.attempt = 0] => Sound(y, n)
<1>1. SUFFICES ASSUME NEW y, y = [z EXCEPT !.delivered = @ + 1, !.post = 0, !.attempt = 0]
               PROVE  Sound(y, n)
  BY Zenon
<1>2. /\ z \in Dispatchers /\ n \in Nat /\ Numbered(z)
      /\ Balanced(z, n) /\ Lettered(z) /\ Owing(z)
  BY SoundParts, Zenon
<1>3. z.delivered + 1 \in Nat /\ 0 \in Nat
  BY <1>2 DEF Numbered
<1>4. /\ y \in Dispatchers /\ y.delivered = z.delivered + 1 /\ y.post = 0
      /\ y.closed = z.closed /\ y.done = z.done /\ y.nextID = z.nextID /\ y.ch = z.ch
      /\ y.dropped = z.dropped /\ y.failed = z.failed /\ y.dlq = z.dlq
      /\ y.dlqDropped = z.dlqDropped /\ y.counted = z.counted /\ y.owed = z.owed
      /\ y.made = z.made
  BY <1>1, <1>2, <1>3, Zenon DEF Dispatchers
<1>5. Waiting(y) = Waiting(z) /\ Busy(z) = 1 /\ Busy(y) = 0 /\ Uncounted(y) = Uncounted(z)
  BY <1>4, Zenon DEF Waiting, Busy, Uncounted
<1>6. Total(y, n) = Total(z, n)
  BY <1>2, <1>4, <1>5, SMT DEF Total, Numbered
<1> QED
  BY <1>2, <1>4, <1>5, <1>6, Zenon DEF Sound, Balanced, Lettered, Owing

\* ... or tries again ...
LEMMA RetrySound ==
  ASSUME NEW z, NEW n, Sound(z, n)
  PROVE  \A y : y = [z EXCEPT !.attempt = @ + 1] => Sound(y, n)
<1>1. SUFFICES ASSUME NEW y, y = [z EXCEPT !.attempt = @ + 1] PROVE Sound(y, n)
  BY Zenon
<1>2. /\ z \in Dispatchers /\ n \in Nat /\ Numbered(z)
      /\ Balanced(z, n) /\ Lettered(z) /\ Owing(z)
  BY SoundParts, Zenon
<1>3. z.attempt + 1 \in Nat
  BY <1>2 DEF Numbered
<1>4. /\ y \in Dispatchers
      /\ y.closed = z.closed /\ y.done = z.done /\ y.nextID = z.nextID /\ y.ch = z.ch
      /\ y.post = z.post /\ y.dropped = z.dropped /\ y.failed = z.failed
      /\ y.delivered = z.delivered /\ y.dlq = z.dlq /\ y.dlqDropped = z.dlqDropped
      /\ y.counted = z.counted /\ y.owed = z.owed /\ y.made = z.made
  BY <1>1, <1>2, <1>3, Zenon DEF Dispatchers
<1>5. Total(y, n) = Total(z, n) /\ Uncounted(y) = Uncounted(z)
  BY <1>4, Zenon DEF Total, Waiting, Busy, Uncounted
<1> QED
  BY <1>2, <1>4, <1>5, Zenon DEF Sound, Balanced, Lettered, Owing

\* ... or gives the event to the dead letter queue, dropping the oldest of a full one ...
LEMMA LetterSound ==
  ASSUME NEW z, NEW n, Sound(z, n), z.post # 0, z.counted
  PROVE  \A y : y = addToDLQ(z) => Sound(y, n) /\ y.made = z.made /\ y.closed = z.closed
<1>1. SUFFICES ASSUME NEW y, y = addToDLQ(z)
               PROVE  Sound(y, n) /\ y.made = z.made /\ y.closed = z.closed
  BY Zenon
<1>2. /\ z \in Dispatchers /\ n \in Nat /\ Numbered(z)
      /\ Balanced(z, n) /\ Lettered(z) /\ Owing(z)
  BY SoundParts, Zenon
<1> DEFINE full == z.dlq >= DLQMax
           kept == IF full THEN z.dlq ELSE z.dlq + 1
           lost == IF full THEN z.dlqDropped + 1 ELSE z.dlqDropped
<1>3. /\ z.dlq + 1 \in Nat /\ z.dlqDropped + 1 \in Nat
      /\ z.dlq + (z.dlqDropped + 1) = z.dlq + z.dlqDropped + 1
      /\ (z.dlq + 1) + z.dlqDropped = z.dlq + z.dlqDropped + 1
  BY <1>2 DEF Numbered
<1>4. y = [z EXCEPT !.dlq = kept, !.dlqDropped = lost, !.counted = FALSE]
  BY <1>1, Zenon DEF addToDLQ
<1> HIDE DEF full
<1>5. kept \in Nat /\ lost \in Nat /\ kept + lost = z.dlq + z.dlqDropped + 1
  BY <1>2, <1>3, Zenon DEF Numbered
<1> HIDE DEF kept, lost
<1>6. /\ y \in Dispatchers /\ y.dlq = kept /\ y.dlqDropped = lost /\ y.counted = FALSE
      /\ y.closed = z.closed /\ y.done = z.done /\ y.nextID = z.nextID /\ y.ch = z.ch
      /\ y.post = z.post /\ y.dropped = z.dropped /\ y.failed = z.failed
      /\ y.delivered = z.delivered /\ y.owed = z.owed /\ y.made = z.made
  BY <1>2, <1>4, <1>5, Zenon DEF Dispatchers
<1>7. Total(y, n) = Total(z, n) /\ Uncounted(z) = 0 /\ Uncounted(y) = 1
  BY <1>6, Zenon DEF Total, Waiting, Busy, Uncounted
<1>8. z.failed + 0 = z.failed
  BY <1>2 DEF Numbered
<1>9. Lettered(y)
  BY <1>2, <1>5, <1>6, <1>7, <1>8, Zenon DEF Lettered
<1> QED
  BY <1>2, <1>6, <1>7, <1>9, Zenon DEF Sound, Balanced, Owing

\* ... and counts the failure afterwards.
LEMMA CountSound ==
  ASSUME NEW z, NEW n, Sound(z, n), z.post # 0, ~z.counted
  PROVE  \A y : y = [z EXCEPT !.failed = @ + 1, !.counted = TRUE, !.post = 0, !.attempt = 0]
                => Sound(y, n)
<1>1. SUFFICES ASSUME NEW y, y = [z EXCEPT !.failed = @ + 1, !.counted = TRUE,
                                           !.post = 0, !.attempt = 0]
               PROVE  Sound(y, n)
  BY Zenon
<1>2. /\ z \in Dispatchers /\ n \in Nat /\ Numbered(z)
      /\ Balanced(z, n) /\ Lettered(z) /\ Owing(z)
  BY SoundParts, Zenon
<1>3. z.failed + 1 \in Nat /\ (z.failed + 1) + 0 = z.failed + 1 /\ 0 \in Nat
  BY <1>2 DEF Numbered
<1>4. /\ y \in Dispatchers /\ y.failed = z.failed + 1 /\ y.post = 0 /\ y.counted = TRUE
      /\ y.closed = z.closed /\ y.done = z.done /\ y.nextID = z.nextID /\ y.ch = z.ch
      /\ y.dropped = z.dropped /\ y.delivered = z.delivered /\ y.dlq = z.dlq
      /\ y.dlqDropped = z.dlqDropped /\ y.owed = z.owed /\ y.made = z.made
  BY <1>1, <1>2, <1>3, Zenon DEF Dispatchers
<1>5. Waiting(y) = Waiting(z) /\ Busy(z) = 1 /\ Busy(y) = 0
  BY <1>4, Zenon DEF Waiting, Busy
<1>6. Total(y, n) = Total(z, n)
  BY <1>2, <1>4, <1>5, SMT DEF Total, Numbered
<1>7. Uncounted(z) = 1 /\ Uncounted(y) = 0
  BY <1>4, Zenon DEF Uncounted
<1>8. Lettered(y)
  BY <1>2, <1>3, <1>4, <1>7, Zenon DEF Lettered
<1> QED
  BY <1>2, <1>4, <1>6, <1>8, Zenon DEF Sound, Balanced, Owing

\* Closing an open dispatcher: it owes what is queued.
LEMMA CloseSound ==
  ASSUME NEW z, NEW n, Sound(z, n), ~z.closed
  PROVE  \A y : y = closeDispatcher(z) => Sound(y, n) /\ y.made = z.made
<1>1. SUFFICES ASSUME NEW y, y = closeDispatcher(z) PROVE Sound(y, n) /\ y.made = z.made
  BY Zenon
<1>2. /\ z \in Dispatchers /\ n \in Nat /\ Lettered(z) /\ Owing(z)
  BY SoundParts, Zenon
<1>3. Range(z.ch) \subseteq EventIDs
  BY SoundParts, ItemsRange, Zenon
<1>4. /\ y \in Dispatchers /\ y.closed = TRUE /\ y.owed = Range(z.ch)
      /\ y.done = z.done /\ y.nextID = z.nextID /\ y.ch = z.ch /\ y.post = z.post
      /\ y.dropped = z.dropped /\ y.failed = z.failed /\ y.delivered = z.delivered
      /\ y.dlq = z.dlq /\ y.dlqDropped = z.dlqDropped /\ y.counted = z.counted /\ y.made = z.made
  BY <1>1, <1>2, <1>3, Zenon DEF Dispatchers, closeDispatcher
<1>5. Uncounted(y) = Uncounted(z)
  BY <1>4, Zenon DEF Uncounted
<1> QED
  BY <1>2, <1>4, <1>5, Zenon DEF Sound, Balanced, Lettered, Owing

-----------------------------------------------------------------------------
(* The webhook store *)

EmitStates == [pc : {"idle", "load", "check", "send"}, on : Nat, id : Nat]
AdminStates == [pc : {"idle", "seturl", "close"}, on : Disps \cup {0}, url : BOOLEAN]

\* Dispatchers are made in order.
MadeUpTo(k) == \A i \in Disps : d[i].made <=> i <= k

\* An emitter that has loaded a dispatcher holds one that was made, and has an id to send.
EmittersHold ==
  \A e \in Emitters :
    /\ emit[e].pc \in {"check", "send"} => emit[e].on \in Disps /\ d[emit[e].on].made
    /\ emit[e].pc = "send" => emit[e].id \in EventIDs

\* A dispatcher is closed once only: the one in place is open until SetURL closes it,
\* and the one Close has taken is open and no longer in place.
ClosedOnce ==
  /\ disp # 0 => d[disp].made /\ (admin.pc = "idle" => ~d[disp].closed)
  /\ admin.pc = "close" =>
       disp = 0 /\ (admin.on # 0 => d[admin.on].made /\ ~d[admin.on].closed)

Links ==
  /\ emit \in [Emitters -> EmitStates] /\ disp \in Disps \cup {0} /\ admin \in AdminStates
  /\ \E k \in Disps : MadeUpTo(k)
  /\ EmittersHold /\ ClosedOnce

Slots ==
  /\ d \in [Disps -> Dispatchers]
  /\ \A i \in Disps : IsFiniteSet(Emitting(i)) /\ Sound(d[i], Cardinality(Emitting(i)))

WebhookInv == Links /\ Slots

\* The numbers of the dispatchers, and how many have been made.
LEMMA DispNumbers ==
  /\ 1 \in Disps /\ 0 \notin Disps
  /\ \A i : i \in Disps <=> i \in Nat /\ 1 <= i /\ i <= MaxDispatchers
BY WebhookAssumption DEF Disps

\* Dispatchers are made in order, so MadeDispatchers is the number of the last one.
LEMMA MadeCount ==
  ASSUME NEW k \in Disps, MadeUpTo(k)
  PROVE  Made = k
<1>1. {i \in Disps : d[i].made} = 1..k
  <2>1. {i \in Disps : d[i].made} = {i \in Disps : i <= k}
    BY Zenon DEF MadeUpTo
  <2>2. {i \in Disps : i <= k} = 1..k
    BY DispNumbers, WebhookAssumption
  <2> QED
    BY <2>1, <2>2, Zenon
<1>2. Cardinality(1..k) = k
  BY DispNumbers, FS_Interval
<1> QED
  BY <1>1, <1>2, Zenon DEF Made

\* One dispatcher becomes y, and the emitters stay where they are.
LEMMA SlotPut ==
  ASSUME Slots, NEW i \in Disps, NEW y, Sound(y, Cardinality(Emitting(i))),
         d' = [d EXCEPT ![i] = y], emit' = emit
  PROVE  Slots' /\ d'[i] = y /\ \A j \in Disps : j # i => d'[j] = d[j]
<1>1. \A j \in Disps : Emitting(j)' = Emitting(j)
  BY Zenon DEF Emitting
<1>2. y \in Dispatchers
  BY Zenon DEF Sound
<1>3. d \in [Disps -> Dispatchers]
  BY Zenon DEF Slots
<1>4. d' \in [Disps -> Dispatchers] /\ d'[i] = y /\ \A j \in Disps : j # i => d'[j] = d[j]
  BY <1>2, <1>3, Zenon
<1> QED
  BY <1>1, <1>4, Zenon DEF Slots

\* A dispatcher that keeps being made and being open or closed keeps the links.
LEMMA LinksPut ==
  ASSUME Links, NEW i \in Disps, d'[i].made = d[i].made, d'[i].closed = d[i].closed,
         \A j \in Disps : j # i => d'[j] = d[j], UNCHANGED <<emit, disp, admin>>
  PROVE  Links'
<1>1. \A j \in Disps : d'[j].made = d[j].made /\ d'[j].closed = d[j].closed
  BY Zenon
<1>2. /\ emit' = emit /\ disp' = disp /\ admin' = admin
      /\ disp \in Disps \cup {0} /\ admin.on \in Disps \cup {0}
  BY Zenon DEF Links, AdminStates
<1>3. (\E k \in Disps : MadeUpTo(k))'
  BY <1>1, Zenon DEF Links, MadeUpTo
<1>4. EmittersHold'
  BY <1>1, <1>2, Zenon DEF Links, EmittersHold
<1>5. ClosedOnce'
  BY <1>1, <1>2, ZenonT(30) DEF Links, ClosedOnce
<1> QED
  BY <1>2, <1>3, <1>4, <1>5, Zenon DEF Links

\* The dispatcher's goroutine.
LEMMA DispatcherKeeps ==
  ASSUME WebhookInv, NEW i \in Disps, Dispatcher(i)
  PROVE  WebhookInv'
<1> DEFINE z == d[i]
           n == Cardinality(Emitting(i))
<1>1. Links /\ Slots /\ Sound(z, n) /\ d \in [Disps -> Dispatchers] /\ z \in Dispatchers
  BY Zenon DEF WebhookInv, Slots
<1>2. UNCHANGED <<emit, disp, admin>>
  BY Zenon DEF Dispatcher, Take, Post, CountFailed
<1>3. SUFFICES \E y : /\ d' = [d EXCEPT ![i] = y] /\ Sound(y, n)
                      /\ y.made = z.made /\ y.closed = z.closed
  <2>1. PICK y : d' = [d EXCEPT ![i] = y] /\ Sound(y, n) /\ y.made = z.made /\ y.closed = z.closed
    BY <1>3, Zenon
  <2>2. Slots' /\ d'[i] = y /\ \A j \in Disps : j # i => d'[j] = d[j]
    BY <1>1, <1>2, <2>1, SlotPut, Zenon
  <2> QED
    BY <1>1, <1>2, <2>1, <2>2, LinksPut, Zenon DEF WebhookInv
<1>4. CASE Take(i)
  <2>1. CASE z.ch # <<>> /\ d' = [d EXCEPT ![i].post = Head(d[i].ch), ![i].ch = Tail(@),
                                           ![i].owed = @ \ {Head(d[i].ch)}]
    <3> DEFINE y == [z EXCEPT !.post = Head(z.ch), !.ch = Tail(@), !.owed = @ \ {Head(z.ch)}]
    <3>1. d' = [d EXCEPT ![i] = y]
      BY <1>1, <2>1, Zenon
    <3>2. y.made = z.made /\ y.closed = z.closed
      BY <1>1, Zenon DEF Dispatchers
    <3>3. ~z.done /\ z.post = 0
      BY <1>4, Zenon DEF Take
    <3>4. Sound(y, n)
      BY <1>1, <2>1, <3>3, TakeSound, Zenon
    <3> QED
      BY <3>1, <3>2, <3>4, Zenon
  <2>2. CASE z.closed /\ z.ch = <<>> /\ d' = [d EXCEPT ![i].done = TRUE]
    <3> DEFINE y == [z EXCEPT !.done = TRUE]
    <3>1. d' = [d EXCEPT ![i] = y]
      BY <1>1, <2>2, Zenon
    <3>2. y.made = z.made /\ y.closed = z.closed
      BY <1>1, Zenon DEF Dispatchers
    <3>3. Sound(y, n)
      BY <1>1, <2>2, ReturnSound, Zenon
    <3> QED
      BY <3>1, <3>2, <3>3, Zenon
  <2> QED
    BY <1>4, <2>1, <2>2, Zenon DEF Take
<1>5. CASE Post(i)
  <2>0. z.post # 0 /\ z.counted
    BY <1>5, Zenon DEF Post
  <2>1. CASE d' = [d EXCEPT ![i].delivered = @ + 1, ![i].post = 0, ![i].attempt = 0]
    <3> DEFINE y == [z EXCEPT !.delivered = @ + 1, !.post = 0, !.attempt = 0]
    <3>1. d' = [d EXCEPT ![i] = y]
      BY <1>1, <2>1, Zenon
    <3>2. y.made = z.made /\ y.closed = z.closed
      BY <1>1, Zenon DEF Dispatchers
    <3>3. Sound(y, n)
      BY <1>1, <2>0, DeliverSound, Zenon
    <3> QED
      BY <3>1, <3>2, <3>3, Zenon
  <2>2. CASE d' = [d EXCEPT ![i] = addToDLQ(z)]
    BY <1>1, <2>0, <2>2, LetterSound, Zenon
  <2>3. CASE d' = [d EXCEPT ![i] = [z EXCEPT !.attempt = @ + 1]]
    <3> DEFINE y == [z EXCEPT !.attempt = @ + 1]
    <3>1. y.made = z.made /\ y.closed = z.closed
      BY <1>1, Zenon DEF Dispatchers
    <3>2. Sound(y, n)
      BY <1>1, RetrySound, Zenon
    <3> QED
      BY <2>3, <3>1, <3>2, Zenon
  <2>4. CASE d' = [d EXCEPT ![i] = IF z.attempt + 1 < MaxRetries
                                   THEN [z EXCEPT !.attempt = @ + 1] ELSE addToDLQ(z)]
    <3>1. CASE z.attempt + 1 < MaxRetries
      BY <2>3, <2>4, <3>1, Zenon
    <3>2. CASE ~(z.attempt + 1 < MaxRetries)
      BY <2>2, <2>4, <3>2, Zenon
    <3> QED
      BY <3>1, <3>2, Zenon
  <2>5. \/ d' = [d EXCEPT ![i].delivered = @ + 1, ![i].post = 0, ![i].attempt = 0]
        \/ d' = [d EXCEPT ![i] = addToDLQ(z)]
        \/ d' = [d EXCEPT ![i] = IF z.attempt + 1 < MaxRetries
                                 THEN [z EXCEPT !.attempt = @ + 1] ELSE addToDLQ(z)]
    BY <1>5, Zenon DEF Post
  <2> QED
    BY <2>1, <2>2, <2>4, <2>5, Zenon
<1>6. CASE CountFailed(i)
  <2> DEFINE y == [z EXCEPT !.failed = @ + 1, !.counted = TRUE, !.post = 0, !.attempt = 0]
  <2>1. d' = [d EXCEPT ![i] = y]
    BY <1>1, <1>6, Zenon DEF CountFailed
  <2>2. y.made = z.made /\ y.closed = z.closed
    BY <1>1, Zenon DEF Dispatchers
  <2>3. Sound(y, n)
    BY <1>1, <1>6, CountSound, Zenon DEF CountFailed
  <2> QED
    BY <2>1, <2>2, <2>3, Zenon
<1> QED
  BY <1>4, <1>5, <1>6, Zenon DEF Dispatcher

\* The emitters move without a dispatcher changing, and none begins or ends sending.
LEMMA EmittersMove ==
  ASSUME Slots, d' = d, \A e \in Emitters : \A i \in Disps :
           emit'[e].pc = "send" /\ emit'[e].on = i <=> emit[e].pc = "send" /\ emit[e].on = i
  PROVE  Slots'
<1>1. \A i \in Disps : Emitting(i)' = Emitting(i)
  BY Zenon DEF Emitting
<1> QED
  BY <1>1, Zenon DEF Slots

\* One emitter begins an Emit, gives it up, or loads the dispatcher.
LEMMA EmitterPut ==
  ASSUME WebhookInv, NEW e \in Emitters, NEW m \in EmitStates, emit' = [emit EXCEPT ![e] = m],
         emit[e].pc # "send", m.pc # "send",
         m.pc = "check" => m.on \in Disps /\ d[m.on].made, UNCHANGED <<disp, admin, d>>
  PROVE  WebhookInv'
<1>1. emit \in [Emitters -> EmitStates] /\ Links /\ Slots
  BY Zenon DEF WebhookInv, Links
<1>2. /\ emit' \in [Emitters -> EmitStates] /\ emit'[e] = m
      /\ \A f \in Emitters : f # e => emit'[f] = emit[f]
  BY <1>1, Zenon
<1>3. Slots'
  BY <1>1, <1>2, EmittersMove, Zenon
<1>4. EmittersHold'
  BY <1>1, <1>2, Zenon DEF Links, EmittersHold
<1> QED
  BY <1>1, <1>2, <1>3, <1>4, Zenon DEF WebhookInv, Links, MadeUpTo, ClosedOnce

\* audit, the bus subscriber, and the read of Store.disp.
LEMMA BeginKeeps ==
  ASSUME WebhookInv, NEW e \in Emitters, Audit(e) \/ (e = "subscriber" /\ FromBus) \/ EmitLoad(e)
  PROVE  WebhookInv'
<1>1. emit \in [Emitters -> EmitStates] /\ emit[e] \in EmitStates /\ disp \in Disps \cup {0}
  BY Zenon DEF WebhookInv, Links
<1>2. 0 \in Nat /\ \A i \in Disps : i \in Nat
  BY DispNumbers, Zenon
<1>3. CASE Audit(e) \/ (e = "subscriber" /\ FromBus)
  <2> DEFINE m == [emit[e] EXCEPT !.pc = "load"]
  <2>1. m \in EmitStates /\ m.pc = "load"
    BY <1>1, Zenon DEF EmitStates
  <2>2. emit' = [emit EXCEPT ![e] = m] /\ emit[e].pc = "idle" /\ UNCHANGED <<disp, admin, d>>
    BY <1>1, <1>3, Zenon DEF Audit, FromBus
  <2> QED
    BY <2>1, <2>2, EmitterPut, Zenon
<1>4. CASE EmitLoad(e)
  <2> DEFINE m == IF disp = 0 THEN EmitIdle ELSE [pc |-> "check", on |-> disp, id |-> 0]
  <2>1. m \in EmitStates /\ m.pc # "send" /\ (m.pc = "check" => disp # 0 /\ m.on = disp)
    <3>1. CASE disp = 0
      BY <1>2, <3>1, Zenon DEF EmitStates, EmitIdle
    <3>2. CASE disp # 0
      BY <1>1, <1>2, <3>2, Zenon DEF EmitStates
    <3> QED
      BY <3>1, <3>2, Zenon
  <2>2. emit' = [emit EXCEPT ![e] = m] /\ emit[e].pc = "load" /\ UNCHANGED <<disp, admin, d>>
    BY <1>4, Zenon DEF EmitLoad
  <2>3. disp # 0 => disp \in Disps /\ d[disp].made
    BY <1>1, Zenon DEF WebhookInv, Links, ClosedOnce
  <2> HIDE DEF m
  <2>4. m.pc = "check" => m.on \in Disps /\ d[m.on].made
    BY <2>1, <2>3, Zenon
  <2>5. emit[e].pc # "send"
    BY <2>2, Zenon
  <2> QED
    BY <2>1, <2>2, <2>4, <2>5, EmitterPut, Zenon
<1> QED
  BY <1>3, <1>4, Zenon

\* One emitter's step on the dispatcher it holds: the emitters about to send there
\* become S, and the dispatcher y.
LEMMA EmitterSlot ==
  ASSUME WebhookInv, NEW e \in Emitters, NEW i \in Disps, emit[e].on = i,
         NEW m \in EmitStates, emit' = [emit EXCEPT ![e] = m], m.pc = "send" => m.on = i,
         m.pc \in {"check", "send"} => m.on \in Disps /\ d[m.on].made,
         m.pc = "send" => m.id \in EventIDs,
         NEW y, d' = [d EXCEPT ![i] = y], y.made = d[i].made, y.closed = d[i].closed,
         NEW S, S = IF m.pc = "send" THEN Emitting(i) \cup {e} ELSE Emitting(i) \ {e},
         Sound(y, Cardinality(S)), UNCHANGED <<disp, admin>>
  PROVE  WebhookInv'
<1>1. /\ Links /\ Slots /\ emit \in [Emitters -> EmitStates] /\ d \in [Disps -> Dispatchers]
      /\ y \in Dispatchers /\ IsFiniteSet(Emitting(i))
  BY Zenon DEF WebhookInv, Links, Slots, Sound
<1>2. /\ emit' \in [Emitters -> EmitStates] /\ emit'[e] = m
      /\ \A f \in Emitters : f # e => emit'[f] = emit[f]
  BY <1>1, Zenon
<1>3. /\ d' \in [Disps -> Dispatchers] /\ d'[i] = y /\ \A j \in Disps : j # i => d'[j] = d[j]
      /\ \A j \in Disps : d'[j].made = d[j].made /\ d'[j].closed = d[j].closed
  BY <1>1, Zenon
<1>4. Emitting(i)' = S
  <2>1. CASE m.pc = "send"
    BY <1>2, <2>1, Zenon DEF Emitting
  <2>2. CASE m.pc # "send"
    BY <1>2, <2>2, Zenon DEF Emitting
  <2> QED
    BY <2>1, <2>2, Zenon
<1>5. \A j \in Disps : j # i => Emitting(j)' = Emitting(j)
  BY <1>2, Zenon DEF Emitting
<1>6. IsFiniteSet(S)
  BY <1>1, FS_AddElement, FS_RemoveElement, Zenon
<1>7. ASSUME NEW j \in Disps
      PROVE  IsFiniteSet(Emitting(j)') /\ Sound(d'[j], Cardinality(Emitting(j)'))
  <2>1. CASE j = i
    BY <1>3, <1>4, <1>6, <2>1, Zenon
  <2>2. CASE j # i
    <3>1. IsFiniteSet(Emitting(j)) /\ Sound(d[j], Cardinality(Emitting(j)))
      BY <1>1, Zenon DEF Slots
    <3> QED
      BY <1>3, <1>5, <2>2, <3>1, Zenon
  <2> QED
    BY <2>1, <2>2, Zenon
<1>8. ASSUME NEW f \in Emitters
      PROVE  /\ emit'[f].pc \in {"check", "send"} => emit'[f].on \in Disps /\ d'[emit'[f].on].made
             /\ emit'[f].pc = "send" => emit'[f].id \in EventIDs
  <2>1. CASE f = e
    BY <1>2, <1>3, <2>1, Zenon
  <2>2. CASE f # e
    <3>1. /\ emit[f].pc \in {"check", "send"} => emit[f].on \in Disps /\ d[emit[f].on].made
          /\ emit[f].pc = "send" => emit[f].id \in EventIDs
      BY <1>1, Zenon DEF Links, EmittersHold
    <3> QED
      BY <1>2, <1>3, <2>2, <3>1, Zenon
  <2> QED
    BY <2>1, <2>2, Zenon
<1>9. (\E k \in Disps : MadeUpTo(k))'
  BY <1>1, <1>3, Zenon DEF Links, MadeUpTo
<1>10. ClosedOnce'
  <2>1. /\ disp \in Disps \cup {0} /\ admin.on \in Disps \cup {0} /\ disp' = disp /\ admin' = admin
        /\ disp # 0 => d[disp].made /\ (admin.pc = "idle" => ~d[disp].closed)
        /\ admin.pc = "close" =>
             disp = 0 /\ (admin.on # 0 => d[admin.on].made /\ ~d[admin.on].closed)
    BY <1>1, Zenon DEF Links, AdminStates, ClosedOnce
  <2>2. disp' # 0 => d'[disp'].made /\ (admin'.pc = "idle" => ~d'[disp'].closed)
    <3>1. disp # 0 => d'[disp].made = d[disp].made /\ d'[disp].closed = d[disp].closed
      BY <1>3, <2>1, Zenon
    <3> QED
      BY <2>1, <3>1, Zenon
  <2>3. admin'.pc = "close" =>
          disp' = 0 /\ (admin'.on # 0 => d'[admin'.on].made /\ ~d'[admin'.on].closed)
    BY <1>3, <2>1, Zenon
  <2> QED
    BY <2>2, <2>3, Zenon DEF ClosedOnce
<1>11. Slots' /\ EmittersHold'
  BY <1>3, <1>7, <1>8, Zenon DEF Slots, EmittersHold
<1>12. disp' \in Disps \cup {0} /\ admin' \in AdminStates
  BY <1>1, Zenon DEF Links
<1> QED
  BY <1>2, <1>9, <1>10, <1>11, <1>12, Zenon DEF WebhookInv, Links

\* dispatcher.Emit.
LEMMA EmitKeeps ==
  ASSUME WebhookInv, NEW e \in Emitters, EmitCheck(e) \/ EmitSend(e)
  PROVE  WebhookInv'
<1> DEFINE i == emit[e].on
           z == d[i]
           n == Cardinality(Emitting(i))
<1>1. /\ emit \in [Emitters -> EmitStates] /\ emit[e] \in EmitStates /\ d \in [Disps -> Dispatchers]
      /\ i \in Disps /\ z.made /\ z \in Dispatchers
      /\ emit[e].pc = "send" => emit[e].id \in EventIDs
  <2>1. emit[e].pc \in {"check", "send"}
    BY Zenon DEF EmitCheck, EmitSend
  <2> QED
    BY <2>1, Zenon DEF WebhookInv, Links, EmittersHold, Slots
<1>2. IsFiniteSet(Emitting(i)) /\ Sound(z, n) /\ n \in Nat
  BY <1>1, Zenon DEF WebhookInv, Slots, Sound
<1>3. 0 \in Nat /\ EmitIdle \in EmitStates /\ EmitIdle.pc = "idle"
  <2>1. 0 \in Nat
    OBVIOUS
  <2> QED
    BY <2>1, Zenon DEF EmitIdle, EmitStates
<1>4. CASE EmitCheck(e)
  <2>0. emit[e].pc = "check" /\ e \notin Emitting(i) /\ UNCHANGED <<disp, admin>>
    BY <1>4, Zenon DEF EmitCheck, Emitting
  <2>1. CASE z.closed
    <3>1. emit' = [emit EXCEPT ![e] = EmitIdle] /\ UNCHANGED <<disp, admin, d>>
      BY <1>4, <2>1, Zenon DEF EmitCheck
    <3> QED
      BY <1>3, <2>0, <3>1, EmitterPut, Zenon
  <2>2. CASE ~z.closed
    <3> DEFINE y == [z EXCEPT !.nextID = @ + 1]
               m == [emit[e] EXCEPT !.pc = "send", !.id = z.nextID + 1]
               S == Emitting(i) \cup {e}
    <3>1. d' = [d EXCEPT ![i] = y] /\ emit' = [emit EXCEPT ![e] = m]
      BY <1>1, <1>4, <2>2, Zenon DEF EmitCheck
    <3>2. z.nextID + 1 \in Nat /\ z.nextID + 1 \in EventIDs
      <4>1. z.nextID \in Nat
        BY <1>1, DispatcherFields, Zenon DEF Numbered
      <4> QED
        BY <4>1 DEF EventIDs
    <3>3. m \in EmitStates /\ m.pc = "send" /\ m.on = i /\ m.id = z.nextID + 1
      BY <1>1, <3>2, Zenon DEF EmitStates
    <3>4. y.made = z.made /\ y.closed = z.closed
      BY <1>1, Zenon DEF Dispatchers
    <3>5. Cardinality(S) = n + 1
      BY <1>2, <2>0, FS_AddElement, Zenon
    <3>6. Sound(y, Cardinality(S))
      BY <1>2, <3>5, DrawSound, Zenon
    <3> HIDE DEF y, m
    <3>7. /\ m.pc \in {"check", "send"} => m.on \in Disps /\ d[m.on].made
          /\ m.pc = "send" => m.id \in EventIDs
          /\ S = IF m.pc = "send" THEN Emitting(i) \cup {e} ELSE Emitting(i) \ {e}
      BY <1>1, <3>2, <3>3, Zenon
    <3> HIDE DEF S, z, n, i
    <3> QED
      BY <1>1, <2>0, <3>1, <3>3, <3>4, <3>6, <3>7, EmitterSlot, Zenon DEF i, z
  <2> QED
    BY <2>1, <2>2, Zenon
<1>5. CASE EmitSend(e)
  <2> DEFINE S == Emitting(i) \ {e}
             k == Cardinality(S)
  <2>0. /\ emit[e].pc = "send" /\ e \in Emitting(i) /\ UNCHANGED <<disp, admin>>
        /\ emit' = [emit EXCEPT ![e] = EmitIdle]
    BY <1>5, Zenon DEF EmitSend, Emitting
  <2>1. k \in Nat /\ n = k + 1
    <3>1. IsFiniteSet(S) /\ k = n - 1
      BY <1>2, <2>0, FS_RemoveElement, Zenon
    <3>2. k \in Nat
      BY <3>1, FS_CardinalityType, Zenon
    <3> HIDE DEF k, n
    <3> QED
      BY <1>2, <3>1, <3>2
  <2>2. SUFFICES \E y : /\ d' = [d EXCEPT ![i] = y] /\ y.made = z.made /\ y.closed = z.closed
                        /\ Sound(y, k)
    <3>1. PICK y : d' = [d EXCEPT ![i] = y] /\ y.made = z.made /\ y.closed = z.closed /\ Sound(y, k)
      BY <2>2, Zenon
    <3> DEFINE m == EmitIdle
    <3>2. m \in EmitStates /\ m.pc # "send" /\ m.pc # "check" /\ emit' = [emit EXCEPT ![e] = m]
      BY <1>3, <2>0, Zenon
    <3>3. S = IF m.pc = "send" THEN Emitting(i) \cup {e} ELSE Emitting(i) \ {e}
      BY <3>2, Zenon
    <3> HIDE DEF m, S, z, n, i
    <3> QED
      BY <1>1, <2>0, <3>1, <3>2, <3>3, EmitterSlot, Zenon DEF i, z, k
  <2>3. Sound(z, k + 1)
    BY <1>2, <2>1, Zenon
  <2> HIDE DEF k
  <2>4. CASE d' = [d EXCEPT ![i].ch = Append(@, emit[e].id)]
    <3> DEFINE y == [z EXCEPT !.ch = Append(@, emit[e].id)]
    <3>1. d' = [d EXCEPT ![i] = y]
      BY <1>1, <2>4, Zenon
    <3>2. y.made = z.made /\ y.closed = z.closed
      BY <1>1, Zenon DEF Dispatchers
    <3>3. Sound(y, k)
      BY <1>1, <2>0, <2>1, <2>3, QueueSound, Zenon
    <3> QED
      BY <3>1, <3>2, <3>3, Zenon
  <2>5. CASE z.closed /\ UNCHANGED d
    <3>1. d' = [d EXCEPT ![i] = z]
      BY <1>1, <2>5, Zenon
    <3>2. Sound(z, k)
      BY <2>1, <2>3, <2>5, DropSound, Zenon
    <3> QED
      BY <3>1, <3>2, Zenon
  <2>6. CASE d' = [d EXCEPT ![i].dropped = @ + 1]
    <3> DEFINE y == [z EXCEPT !.dropped = @ + 1]
    <3>1. d' = [d EXCEPT ![i] = y]
      BY <1>1, <2>6, Zenon
    <3>2. y.made = z.made /\ y.closed = z.closed
      BY <1>1, Zenon DEF Dispatchers
    <3>3. Sound(y, k)
      BY <2>1, <2>3, DropSound, Zenon
    <3> QED
      BY <3>1, <3>2, <3>3, Zenon
  <2> QED
    BY <1>5, <2>4, <2>5, <2>6, Zenon DEF EmitSend
<1> QED
  BY <1>4, <1>5, Zenon

\* SetURL and Close close the dispatcher that was in place, which was open.
LEMMA ClosingKeeps ==
  ASSUME WebhookInv, NEW i \in Disps, ~d[i].closed, d' = [d EXCEPT ![i] = closeDispatcher(d[i])],
         emit' = emit, disp' \in Disps \cup {0}, admin' \in AdminStates,
         disp' # 0 => d[disp'].made /\ admin'.pc = "seturl", admin'.pc # "close"
  PROVE  WebhookInv'
<1> DEFINE y == closeDispatcher(d[i])
<1>1. Links /\ Slots /\ Sound(d[i], Cardinality(Emitting(i)))
  BY Zenon DEF WebhookInv, Slots
<1>2. Sound(y, Cardinality(Emitting(i))) /\ y.made = d[i].made
  BY <1>1, CloseSound, Zenon
<1>3. Slots' /\ d'[i] = y /\ \A j \in Disps : j # i => d'[j] = d[j]
  BY <1>1, <1>2, SlotPut, Zenon
<1>4. \A j \in Disps : d'[j].made = d[j].made
  BY <1>2, <1>3, Zenon
<1>5. (\E k \in Disps : MadeUpTo(k))'
  BY <1>1, <1>4, Zenon DEF Links, MadeUpTo
<1>6. EmittersHold'
  BY <1>1, <1>4, Zenon DEF Links, EmittersHold
<1>7. ClosedOnce'
  BY <1>4, Zenon DEF ClosedOnce
<1> QED
  BY <1>1, <1>3, <1>5, <1>6, <1>7, Zenon DEF WebhookInv, Links

\* SetURL puts a new dispatcher in place: nobody has loaded it.
LEMMA FreshKeeps ==
  ASSUME WebhookInv, Made < MaxDispatchers, d' = Fresh(Made + 1), disp' = Made + 1,
         emit' = emit, admin' \in AdminStates, admin'.pc = "idle"
  PROVE  WebhookInv'
<1>1. Links /\ Slots /\ d \in [Disps -> Dispatchers]
  BY Zenon DEF WebhookInv, Slots
<1>2. PICK k \in Disps : MadeUpTo(k)
  BY <1>1, Zenon DEF Links
<1> DEFINE i == k + 1
<1>3. Made + 1 = i /\ i \in Disps /\ ~(i <= k) /\ \A j \in Disps : j <= i <=> j = i \/ j <= k
  BY <1>2, MadeCount, DispNumbers, WebhookAssumption
<1> HIDE DEF i
<1>4. d' = [d EXCEPT ![i] = NewDispatcher] /\ disp' = i
  BY <1>3, Zenon DEF Fresh
<1>5. ~d[i].made
  BY <1>2, <1>3, Zenon DEF MadeUpTo
<1>6. Emitting(i) = {}
  BY <1>1, <1>5, Zenon DEF Links, EmittersHold, Emitting
<1>7. Cardinality({}) = 0
  BY FS_EmptySet, Zenon
<1>8. Slots' /\ d'[i] = NewDispatcher /\ \A j \in Disps : j # i => d'[j] = d[j]
  BY <1>1, <1>3, <1>4, <1>6, <1>7, FreshSound, SlotPut, Zenon
<1>9. NewDispatcher.made /\ ~NewDispatcher.closed
  BY Zenon DEF NewDispatcher
<1>10. MadeUpTo(i)'
  BY <1>2, <1>3, <1>8, <1>9, Zenon DEF MadeUpTo
<1>11. EmittersHold'
  BY <1>1, <1>5, <1>8, Zenon DEF Links, EmittersHold
<1>12. ClosedOnce'
  BY <1>3, <1>4, <1>8, <1>9, DispNumbers, Zenon DEF ClosedOnce
<1> QED
  BY <1>1, <1>3, <1>4, <1>8, <1>10, <1>11, <1>12, Zenon DEF WebhookInv, Links

\* The server starts with no dispatcher and no event.
LEMMA WebhookInvInit == WebhookInit => WebhookInv
<1> SUFFICES ASSUME WebhookInit PROVE WebhookInv
  BY Zenon
<1>1. /\ emit = [e \in Emitters |-> EmitIdle] /\ disp = 1 /\ admin = AdminIdle
      /\ d = [i \in Disps |-> IF i = 1 THEN NewDispatcher ELSE NoDispatcher]
  BY Zenon DEF WebhookInit
<1>2. 0 \in Nat /\ 1 \in Disps /\ \A i \in Disps : i <= 1 <=> i = 1
  BY DispNumbers
<1>3. EmitIdle \in EmitStates /\ EmitIdle.pc = "idle"
  BY <1>2, Zenon DEF EmitIdle, EmitStates
<1>4. AdminIdle \in AdminStates /\ AdminIdle.pc = "idle"
  BY Zenon DEF AdminIdle, AdminStates
<1>5. NewDispatcher.made /\ ~NewDispatcher.closed /\ ~NoDispatcher.made
  BY Zenon DEF NewDispatcher, NoDispatcher
<1>6. d \in [Disps -> Dispatchers] /\ \A i \in Disps : Sound(d[i], 0)
  BY <1>1, FreshSound, Zenon DEF Sound
<1>7. \A i \in Disps : Emitting(i) = {}
  BY <1>1, <1>3, Zenon DEF Emitting
<1>8. IsFiniteSet({}) /\ Cardinality({}) = 0
  BY FS_EmptySet, Zenon
<1>9. Slots
  BY <1>6, <1>7, <1>8, Zenon DEF Slots
<1>10. MadeUpTo(1)
  BY <1>1, <1>2, <1>5, Zenon DEF MadeUpTo
<1>11. EmittersHold /\ emit \in [Emitters -> EmitStates]
  BY <1>1, <1>3, Zenon DEF EmittersHold
<1>12. ClosedOnce
  BY <1>1, <1>2, <1>4, <1>5, Zenon DEF ClosedOnce
<1> QED
  BY <1>1, <1>2, <1>4, <1>9, <1>10, <1>11, <1>12, Zenon DEF WebhookInv, Links

\* Every step of an emitter, a dispatcher, SetURL and Close keeps the invariant.
LEMMA WebhookInvNext == WebhookInv /\ [WebhookNext]_webhookVars => WebhookInv'
<1> SUFFICES ASSUME WebhookInv, [WebhookNext]_webhookVars PROVE WebhookInv'
  BY Zenon
<1>0. /\ disp \in Disps \cup {0} /\ admin \in AdminStates /\ admin.on \in Disps \cup {0}
      /\ d \in [Disps -> Dispatchers] /\ ClosedOnce
      /\ AdminIdle \in AdminStates /\ AdminIdle.pc = "idle"
  BY Zenon DEF WebhookInv, Links, Slots, AdminStates, AdminIdle
<1>1. CASE \E a \in Auditors : Audit(a)
  BY <1>1, BeginKeeps, Zenon DEF Emitters
<1>2. CASE FromBus
  BY <1>2, BeginKeeps, Zenon DEF Emitters
<1>3. CASE \E e \in Emitters : EmitStep(e)
  BY <1>3, BeginKeeps, EmitKeeps, Zenon DEF EmitStep
<1>4. CASE \E i \in Disps : Dispatcher(i)
  BY <1>4, DispatcherKeeps, Zenon
<1>5. ASSUME NEW url \in BOOLEAN, SetURL(url)
      PROVE  WebhookInv'
  <2>0. admin.pc = "idle" /\ emit' = emit
    BY <1>5, Zenon DEF SetURL
  <2>1. CASE disp = 0
    <3>1. Made < MaxDispatchers /\ d' = Fresh(Made + 1) /\ disp' = Made + 1 /\ admin' = admin
      BY <1>5, <2>1, Zenon DEF SetURL
    <3> QED
      BY <1>0, <2>0, <3>1, FreshKeeps, Zenon
  <2>2. CASE disp # 0
    <3> DEFINE a == [pc |-> "seturl", on |-> disp, url |-> url]
    <3>1. /\ admin' = a /\ disp' = disp /\ d' = [d EXCEPT ![disp] = closeDispatcher(d[disp])]
      BY <1>5, <2>2, Zenon DEF SetURL
    <3>2. disp \in Disps /\ ~d[disp].closed /\ d[disp].made
      BY <1>0, <2>0, <2>2, Zenon DEF ClosedOnce
    <3>3. a \in AdminStates /\ a.pc = "seturl"
      BY <1>0, Zenon DEF AdminStates
    <3> HIDE DEF a
    <3>4. /\ disp' \in Disps \cup {0} /\ admin' \in AdminStates /\ admin'.pc # "close"
          /\ disp' # 0 => d[disp'].made /\ admin'.pc = "seturl"
      BY <3>1, <3>2, <3>3, Zenon
    <3> QED
      BY <2>0, <3>1, <3>2, <3>4, ClosingKeeps, Zenon
  <2> QED
    BY <2>1, <2>2, Zenon
<1>6. CASE SetURLDrained
  <2>0. emit' = emit /\ admin' = AdminIdle
    BY <1>6, Zenon DEF SetURLDrained
  <2>1. CASE Made < MaxDispatchers /\ disp' = Made + 1 /\ d' = Fresh(Made + 1)
    BY <1>0, <2>0, <2>1, FreshKeeps, Zenon
  <2>2. CASE disp' = 0 /\ UNCHANGED d
    <3>1. Slots' /\ EmittersHold' /\ (\E k \in Disps : MadeUpTo(k))'
      BY <2>0, <2>2, EmittersMove, Zenon DEF WebhookInv, Slots, Links, EmittersHold, MadeUpTo, Emitting
    <3>2. ClosedOnce'
      BY <1>0, <2>0, <2>2, Zenon DEF ClosedOnce
    <3> QED
      BY <1>0, <2>0, <2>2, <3>1, <3>2, Zenon DEF WebhookInv, Links
  <2> QED
    BY <1>6, <2>1, <2>2, Zenon DEF SetURLDrained
<1>7. CASE Close
  <2> DEFINE a == [pc |-> "close", on |-> disp, url |-> FALSE]
  <2>1. admin.pc = "idle" /\ emit' = emit /\ d' = d /\ admin' = a /\ disp' = 0
    BY <1>7, Zenon DEF Close
  <2>2. a \in AdminStates /\ a.on = disp
    BY <1>0, Zenon DEF AdminStates
  <2> HIDE DEF a
  <2>3. Slots' /\ EmittersHold' /\ (\E k \in Disps : MadeUpTo(k))'
    BY <2>1, Zenon DEF WebhookInv, Slots, Links, EmittersHold, MadeUpTo, Emitting
  <2>4. ClosedOnce'
    BY <1>0, <2>1, <2>2, Zenon DEF ClosedOnce
  <2> QED
    BY <2>1, <2>2, <2>3, <2>4, Zenon DEF WebhookInv, Links
<1>8. CASE CloseUnsub
  <2>1. admin.pc = "close" /\ disp = 0 /\ emit' = emit /\ disp' = disp /\ admin' = AdminIdle
    BY <1>0, <1>8, Zenon DEF CloseUnsub, ClosedOnce
  <2>2. CASE admin.on = 0
    <3>1. d' = d
      BY <1>8, <2>2, Zenon DEF CloseUnsub
    <3>2. Slots' /\ EmittersHold' /\ (\E k \in Disps : MadeUpTo(k))'
      BY <2>1, <3>1, Zenon DEF WebhookInv, Slots, Links, EmittersHold, MadeUpTo, Emitting
    <3>3. ClosedOnce'
      BY <1>0, <2>1, Zenon DEF ClosedOnce
    <3> QED
      BY <1>0, <2>1, <3>2, <3>3, Zenon DEF WebhookInv, Links
  <2>3. CASE admin.on # 0
    <3>1. d' = [d EXCEPT ![admin.on] = closeDispatcher(d[admin.on])]
      BY <1>8, <2>3, Zenon DEF CloseUnsub
    <3>2. admin.on \in Disps /\ ~d[admin.on].closed
      BY <1>0, <2>1, <2>3, Zenon DEF ClosedOnce
    <3> QED
      BY <1>0, <2>1, <3>1, <3>2, ClosingKeeps, Zenon
  <2> QED
    BY <2>2, <2>3, Zenon
<1>9. CASE UNCHANGED webhookVars
  <2>1. emit' = emit /\ disp' = disp /\ admin' = admin /\ d' = d
    BY <1>9, Zenon DEF webhookVars
  <2>2. Slots' /\ EmittersHold' /\ (\E k \in Disps : MadeUpTo(k))' /\ ClosedOnce'
    BY <2>1, Zenon DEF WebhookInv, Slots, Links, EmittersHold, MadeUpTo, Emitting, ClosedOnce
  <2> QED
    BY <2>1, <2>2, Zenon DEF WebhookInv, Links
<1> QED
  BY <1>1, <1>2, <1>3, <1>4, <1>5, <1>6, <1>7, <1>8, <1>9, Zenon DEF WebhookNext

\* The inductive invariant of the dispatchers holds throughout.
LEMMA WebhookAlways == WebhookSpec => []WebhookInv
BY WebhookInvInit, WebhookInvNext, PTL DEF WebhookSpec

\* While a dispatcher is open, every event id it has drawn is delivered, failed, dropped,
\* queued, being posted or about to be queued, and the dead letter queue with its
\* eviction counter accounts for every failure, whatever emitters, the poster, SetURL and
\* Close are doing, for any number of emitters and any capacity of the channels.
THEOREM EventsAreAccounted == WebhookSpec => []EventsAccounted
<1>1. WebhookInv => EventsAccounted
  BY Zenon DEF WebhookInv, Slots, Sound, EventsAccounted, Balanced, Lettered, Total, Waiting, Busy, Uncounted
<1> QED
  BY <1>1, WebhookAlways, PTL

\* A dispatcher that has returned has posted every event queued when SetURL or Close
\* closed it.
THEOREM ClosedDispatchersDrain == WebhookSpec => []CloseDrains
<1>1. WebhookInv => CloseDrains
  BY Zenon DEF WebhookInv, Slots, Sound, CloseDrains, Owing
<1> QED
  BY <1>1, WebhookAlways, PTL

-----------------------------------------------------------------------------
(* The audit exporters *)

\* What a channel can hold: entries, as far as replays are concerned the values of Oldest.
Values == Nat \cup UNION {{Oldest(S, k) : k \in Nat} : S \in SUBSET Nat}
ExporterStates ==
  [made : BOOLEAN, closed : BOOLEAN, done : BOOLEAN, ch : Seq(Values), sending : Values]
FanStates == [pc : {"idle", "check", "append", "send"}, on : Nat, entry : Nat]

Held(i) == Range(x[i].ch) \cup ({x[i].sending} \ {0})
Ended == delivered \cup gaveUp \cup overflowed \cup raced

\* Types, and what holds whatever a Close did: exporters are made in order, one that has
\* returned was closed and posts nothing, and the one in place is open.
ExporterTypes ==
  /\ entries \in Nat /\ exporter \in Exporters \cup {0} /\ closing \subseteq Exporters
  /\ fan \in FanStates /\ x \in [Exporters -> ExporterStates]
  /\ walFile \subseteq Nat /\ IsFiniteSet(walFile) /\ accepted \subseteq Nat \ {0} /\ forced \in BOOLEAN

MadeTo(k) == \A i \in Exporters : x[i].made <=> i <= k

ExporterLinks ==
  /\ \E k \in Exporters : MadeTo(k)
  /\ fan.pc # "idle" => fan.on \in Exporters /\ x[fan.on].made /\ fan.entry # 0
  /\ exporter # 0 => x[exporter].made /\ ~x[exporter].closed
  /\ \A i \in closing : x[i].closed /\ x[i].made
  /\ \A i \in Exporters : /\ ~x[i].made => x[i] = NoExporter
                          /\ x[i].done => x[i].closed /\ x[i].sending = 0

\* While no Close has given up or truncated under a newer exporter: at most one exporter
\* is at work, the file has what the next start needs, and what was accepted is neither
\* lost from the channels nor, should they be lost, from the file.
Unforced ==
  /\ \A i \in Exporters : x[i].made /\ i # exporter => x[i].closed
  /\ \A i \in Exporters : x[i].closed /\ i \notin closing => x[i].done
  /\ exporter # 0 => closing = {}
  /\ \A i, j \in closing : i = j
  /\ \A i \in Exporters : x[i].done => Range(x[i].ch) \subseteq raced
  /\ fan.pc = "send" /\ ~x[fan.on].closed => fan.entry \in walFile
  /\ accepted \subseteq Ended \cup walFile
  /\ \A a \in accepted : a \in Ended \/ \E i \in Exporters : a \in Held(i)

AuditInv == ExporterTypes /\ ExporterLinks /\ (~forced => Unforced)

\* Exporters are numbered from 1; 0 stands for a nil Store.exporter.
LEMMA ExporterNumbers ==
  /\ 1 \in Exporters /\ 0 \notin Exporters
  /\ \A i : i \in Exporters <=> i \in Nat /\ 1 <= i /\ i <= MaxExporters
BY AuditExportAssumption DEF Exporters

\* Exporters are made in order, so their number is the number of the last one.
LEMMA MadeExportersCount ==
  ASSUME NEW k \in Exporters, MadeTo(k)
  PROVE  MadeExporters = k
<1>1. {i \in Exporters : x[i].made} = {i \in Exporters : i <= k}
  BY Zenon DEF MadeTo
<1>2. {i \in Exporters : i <= k} = 1..k
  BY ExporterNumbers, AuditExportAssumption
<1>3. Cardinality(1..k) = k
  BY ExporterNumbers, FS_Interval
<1> QED
  BY <1>1, <1>2, <1>3, Zenon DEF MadeExporters

\* A new exporter holds of the file what it does not count as left out.
LEMMA Replayed ==
  ASSUME NEW p \in SUBSET Nat, IsFiniteSet(p), NEW y, y = newAuditExporter(p)
  PROVE  /\ y \in ExporterStates /\ y.made = TRUE /\ y.closed = FALSE /\ y.done = FALSE
         /\ p \subseteq Range(y.ch) \cup NotReplayed(p)
<1> DEFINE m == IF Cardinality(p) < ExportCap THEN Cardinality(p) ELSE ExportCap
           q == [k \in 1..m |-> Oldest(p, k)]
<1>1. m \in Nat
  BY FS_CardinalityType, AuditExportAssumption, Zenon
<1> HIDE DEF m
<1>2. \A k \in 1..m : k \in Nat
  BY <1>1
<1>3. ASSUME NEW k \in 1..m PROVE Oldest(p, k) \in Values
  <2>1. Oldest(p, k) \in {Oldest(p, j) : j \in Nat}
    BY <1>2, Zenon
  <2>2. {Oldest(p, j) : j \in Nat} \in {{Oldest(S, j) : j \in Nat} : S \in SUBSET Nat}
    BY Zenon
  <2> QED
    BY <2>1, <2>2, Zenon DEF Values
<1>4. q \in Seq(Values)
  BY <1>1, <1>3
<1>5. 0 \in Values
  BY DEF Values
<1>6. NoExporter = [made |-> FALSE, closed |-> FALSE, done |-> FALSE, ch |-> <<>>, sending |-> 0]
  BY Zenon DEF NoExporter
<1> DEFINE r == [made |-> TRUE, closed |-> FALSE, done |-> FALSE, ch |-> q, sending |-> 0]
<1>7. y = r
  BY <1>6, Zenon DEF newAuditExporter, m
<1> HIDE DEF q
<1>8. r \in ExporterStates /\ r.made = TRUE /\ r.closed = FALSE /\ r.done = FALSE
  BY <1>4, <1>5, Zenon DEF ExporterStates
<1>9. p \subseteq Range(y.ch) \cup NotReplayed(p)
  BY Zenon DEF NotReplayed
<1> HIDE DEF r
<1> QED
  BY <1>7, <1>8, <1>9, Zenon

\* The states of one exporter under the steps of its goroutines.
LEMMA ExporterFields ==
  ASSUME NEW r \in ExporterStates
  PROVE  /\ r.made \in BOOLEAN /\ r.closed \in BOOLEAN /\ r.done \in BOOLEAN
         /\ r.ch \in Seq(Values) /\ r.sending \in Values
BY Zenon DEF ExporterStates

\* The subscriber takes an entry, checks the exporter, and writes the file: the
\* exporters stay as they are, and the file loses nothing.
LEMMA FanKeeps ==
  ASSUME AuditInv, Fanout \/ ExportCheck \/ ExportAppend
  PROVE  AuditInv'
<1>1. ExporterTypes /\ ExporterLinks /\ (~forced => Unforced)
  BY Zenon DEF AuditInv
<1>2. /\ UNCHANGED <<exporter, x, closing, accepted, delivered, gaveUp, overflowed, raced, forced>>
      /\ walFile \subseteq walFile' /\ (walFile' = walFile \/ walFile' = walFile \cup {fan.entry})
  BY Zenon DEF Fanout, ExportCheck, ExportAppend, auditHistory
<1>3. /\ entries' \in Nat /\ fan' \in FanStates
      /\ fan'.pc # "idle" => fan'.on \in Exporters /\ x[fan'.on].made /\ fan'.entry # 0
      /\ fan'.pc = "send" => fan' = [fan EXCEPT !.pc = "send"] /\ ExportAppend
  <2>1. FanIdle \in FanStates /\ FanIdle.pc = "idle"
    <3>1. 0 \in Nat
      OBVIOUS
    <3> QED
      BY <3>1, Zenon DEF FanIdle, FanStates
  <2>2. CASE Fanout
    <3>1. entries' \in Nat /\ entries + 1 # 0 /\ entries' = entries + 1
      <4>1. entries \in Nat /\ entries' = entries + 1
        BY <1>1, <2>2, Zenon DEF ExporterTypes, Fanout
      <4> QED
        BY <4>1
    <3> DEFINE f == [pc |-> "check", on |-> exporter, entry |-> entries + 1]
    <3>2. CASE exporter = 0
      BY <2>1, <2>2, <3>1, <3>2, Zenon DEF Fanout
    <3>3. CASE exporter # 0
      <4>1. fan' = f
        BY <2>2, <3>3, Zenon DEF Fanout
      <4>2. exporter \in Exporters /\ exporter \in Nat /\ x[exporter].made
        BY <1>1, <3>3, ExporterNumbers, Zenon DEF ExporterTypes, ExporterLinks
      <4>3. f \in FanStates /\ f.pc = "check" /\ f.on = exporter /\ f.entry = entries + 1
        BY <3>1, <4>2, Zenon DEF FanStates
      <4> HIDE DEF f
      <4> QED
        BY <3>1, <4>1, <4>2, <4>3, Zenon
    <3> QED
      BY <3>2, <3>3, Zenon
  <2>3. CASE ExportCheck \/ ExportAppend
    <3>1. /\ fan \in FanStates /\ entries' \in Nat /\ fan.pc # "idle"
          /\ fan.on \in Exporters /\ x[fan.on].made /\ fan.entry # 0
      BY <1>1, <2>3, Zenon DEF ExporterTypes, ExporterLinks, ExportCheck, ExportAppend
    <3>2. /\ [fan EXCEPT !.pc = "append"] \in FanStates /\ [fan EXCEPT !.pc = "append"].pc = "append"
          /\ [fan EXCEPT !.pc = "append"].on = fan.on /\ [fan EXCEPT !.pc = "append"].entry = fan.entry
          /\ [fan EXCEPT !.pc = "send"] \in FanStates /\ [fan EXCEPT !.pc = "send"].pc = "send"
          /\ [fan EXCEPT !.pc = "send"].on = fan.on /\ [fan EXCEPT !.pc = "send"].entry = fan.entry
      BY <3>1, Zenon DEF FanStates
    <3>3. CASE ExportAppend
      <4>1. fan' = [fan EXCEPT !.pc = "send"]
        BY <3>3, Zenon DEF ExportAppend
      <4> QED
        BY <3>1, <3>2, <3>3, <4>1, Zenon
    <3>4. CASE ExportCheck
      <4>1. fan' = FanIdle \/ fan' = [fan EXCEPT !.pc = "append"]
        BY <3>4, Zenon DEF ExportCheck
      <4> QED
        BY <2>1, <3>1, <3>2, <4>1, Zenon
    <3> QED
      BY <2>3, <3>3, <3>4, Zenon
  <2> QED
    BY <2>2, <2>3, Zenon
<1>4. walFile' \subseteq Nat /\ IsFiniteSet(walFile')
  <2>1. walFile \subseteq Nat /\ IsFiniteSet(walFile) /\ fan.entry \in Nat
    BY <1>1, Zenon DEF ExporterTypes, FanStates
  <2> QED
    BY <1>2, <2>1, FS_AddElement, Zenon
<1>5. ExporterTypes'
  BY <1>1, <1>2, <1>3, <1>4, Zenon DEF ExporterTypes
<1>6. ExporterLinks'
  BY <1>1, <1>2, <1>3, Zenon DEF ExporterLinks, MadeTo
<1>7. ASSUME ~forced'
      PROVE  Unforced'
  <2>0. Unforced
    BY <1>1, <1>2, <1>7, Zenon
  <2>1. fan'.pc = "send" /\ ~x'[fan'.on].closed => fan'.entry \in walFile'
    <3> SUFFICES ASSUME fan'.pc = "send", ~x'[fan'.on].closed PROVE fan'.entry \in walFile'
      BY Zenon
    <3>1. fan \in FanStates /\ fan' = [fan EXCEPT !.pc = "send"] /\ ExportAppend
      BY <1>1, <1>3, Zenon DEF ExporterTypes
    <3>2. fan'.on = fan.on /\ fan'.entry = fan.entry
      BY <3>1, Zenon DEF FanStates
    <3>3. walFile' = walFile \cup {fan.entry}
      BY <1>2, <3>1, <3>2, Zenon DEF ExportAppend
    <3> QED
      BY <3>2, <3>3, Zenon
  <2>2. accepted' \subseteq Ended' \cup walFile'
    BY <1>2, <2>0, Zenon DEF Unforced, Ended
  <2>3. \A a \in accepted' : a \in Ended' \/ \E i \in Exporters : a \in Held(i)'
    BY <1>2, <2>0, Zenon DEF Unforced, Ended, Held
  <2> QED
    BY <1>2, <2>0, <2>1, <2>2, <2>3, Zenon DEF Unforced
<1> QED
  BY <1>5, <1>6, <1>7, Zenon DEF AuditInv

\* One exporter becomes y, as open as before.
LEMMA ExporterPut ==
  ASSUME ExporterTypes, ExporterLinks, NEW i \in Exporters, NEW y \in ExporterStates,
         x' = [x EXCEPT ![i] = y], x[i].made, y.made = x[i].made, y.closed = x[i].closed,
         y.done => y.closed /\ y.sending = 0, UNCHANGED <<exporter, closing>>
  PROVE  /\ x' \in [Exporters -> ExporterStates] /\ x'[i] = y
         /\ \A j \in Exporters : j # i => x'[j] = x[j]
         /\ \A j \in Exporters : x'[j].made = x[j].made /\ x'[j].closed = x[j].closed
         /\ fan' = fan \/ fan'.pc = "idle" => ExporterLinks'
<1>1. x \in [Exporters -> ExporterStates] /\ exporter \in Exporters \cup {0} /\ closing \subseteq Exporters
  BY Zenon DEF ExporterTypes
<1>2. /\ x' \in [Exporters -> ExporterStates] /\ x'[i] = y
      /\ \A j \in Exporters : j # i => x'[j] = x[j]
  BY <1>1, Zenon
<1>3. \A j \in Exporters : x'[j].made = x[j].made /\ x'[j].closed = x[j].closed
  BY <1>2, Zenon
<1>4. ASSUME fan' = fan \/ fan'.pc = "idle"
      PROVE  ExporterLinks'
  <2>1. (\E k \in Exporters : MadeTo(k))'
    BY <1>3, Zenon DEF ExporterLinks, MadeTo
  <2>2. fan'.pc # "idle" => fan'.on \in Exporters /\ x'[fan'.on].made /\ fan'.entry # 0
    <3>1. fan.pc # "idle" => fan.on \in Exporters /\ x[fan.on].made /\ fan.entry # 0
      BY Zenon DEF ExporterLinks
    <3> QED
      BY <1>3, <1>4, <3>1, Zenon
  <2>3. exporter' # 0 => x'[exporter'].made /\ ~x'[exporter'].closed
    <3>1. exporter # 0 => exporter \in Exporters /\ x[exporter].made /\ ~x[exporter].closed
      BY <1>1, Zenon DEF ExporterLinks
    <3> QED
      BY <1>3, <3>1, Zenon
  <2>4. \A j \in closing' : x'[j].closed /\ x'[j].made
    BY <1>1, <1>3, Zenon DEF ExporterLinks
  <2>5. \A j \in Exporters : /\ ~x'[j].made => x'[j] = NoExporter
                             /\ x'[j].done => x'[j].closed /\ x'[j].sending = 0
    BY <1>2, Zenon DEF ExporterLinks
  <2> QED
    BY <2>1, <2>2, <2>3, <2>4, <2>5, Zenon DEF ExporterLinks
<1> QED
  BY <1>2, <1>3, <1>4, Zenon

\* Export hands the entry to the channel, or drops it.
LEMMA ExportSendKeeps ==
  ASSUME AuditInv, ExportSend
  PROVE  AuditInv'
<1> DEFINE i == fan.on
           r == x[i]
           entry == fan.entry
<1>1. /\ ExporterTypes /\ ExporterLinks /\ (~forced => Unforced)
      /\ i \in Exporters /\ r.made /\ entry # 0 /\ entry \in Nat /\ r \in ExporterStates
  BY Zenon DEF AuditInv, ExporterTypes, ExporterLinks, ExportSend, FanStates
<1>2. /\ accepted' = accepted \cup {entry} /\ fan' = FanIdle
      /\ raced' = IF r.closed THEN raced \cup {entry} ELSE raced
      /\ UNCHANGED <<entries, exporter, walFile, closing, delivered, gaveUp, forced>>
  BY Zenon DEF ExportSend
<1>3. FanIdle \in FanStates /\ FanIdle.pc = "idle"
  <2>1. 0 \in Nat
    OBVIOUS
  <2> QED
    BY <2>1, Zenon DEF FanIdle, FanStates
<1>4. /\ r.ch \in Seq(Values) /\ entry \in Values /\ (r.done => r.closed /\ r.sending = 0)
  BY <1>1, ExporterFields, Zenon DEF Values, ExporterLinks
<1>5. PICK y \in ExporterStates :
        /\ x' = [x EXCEPT ![i] = y] /\ y.made = r.made /\ y.closed = r.closed /\ y.done = r.done
        /\ y.sending = r.sending /\ Range(r.ch) \subseteq Range(y.ch)
        /\ Range(y.ch) \subseteq Range(r.ch) \cup {entry}
        /\ overflowed \subseteq overflowed'
        /\ entry \in Range(y.ch) \/ entry \in overflowed' \/ r.closed
  <2>0. x \in [Exporters -> ExporterStates]
    BY <1>1, Zenon DEF ExporterTypes
  <2>1. CASE x' = [x EXCEPT ![fan.on].ch = Append(@, fan.entry)] /\ UNCHANGED overflowed
    <3> DEFINE y == [r EXCEPT !.ch = Append(@, entry)]
    <3>1. Append(r.ch, entry) \in Seq(Values)
      BY <1>4
    <3>2. Range(Append(r.ch, entry)) = Range(r.ch) \cup {entry}
      <4> DEFINE q == r.ch
      <4>1. q \in Seq(Values) /\ entry \in Values
        BY <1>4, Zenon
      <4> HIDE DEF q, entry
      <4>2. Range(Append(q, entry)) = Range(q) \cup {entry}
        BY <4>1, AppendRange, SMT
      <4> QED
        BY <4>2, Zenon DEF q
    <3>3. x' = [x EXCEPT ![i] = y]
      BY <2>0, <2>1, Zenon
    <3>4. /\ y \in ExporterStates /\ y.made = r.made /\ y.closed = r.closed /\ y.done = r.done
          /\ y.sending = r.sending /\ y.ch = Append(r.ch, entry)
      BY <1>1, <3>1, Zenon DEF ExporterStates
    <3> HIDE DEF y, r, entry
    <3> QED
      BY <2>1, <3>2, <3>3, <3>4, Zenon
  <2>2. CASE UNCHANGED x /\ overflowed \subseteq overflowed' /\ (r.closed \/ entry \in overflowed')
    <3>1. x' = [x EXCEPT ![i] = r]
      BY <2>0, <2>2, Zenon
    <3> QED
      BY <1>1, <2>2, <3>1, Zenon
  <2>3. \/ x' = [x EXCEPT ![fan.on].ch = Append(@, fan.entry)] /\ UNCHANGED overflowed
        \/ UNCHANGED x /\ overflowed \subseteq overflowed' /\ (r.closed \/ entry \in overflowed')
    BY Zenon DEF ExportSend
  <2> QED
    BY <2>1, <2>2, <2>3, Zenon
<1> HIDE DEF r
<1>6. /\ x' \in [Exporters -> ExporterStates] /\ x'[i] = y
      /\ \A j \in Exporters : j # i => x'[j] = x[j]
      /\ \A j \in Exporters : x'[j].made = x[j].made /\ x'[j].closed = x[j].closed
      /\ ExporterLinks'
  BY <1>1, <1>2, <1>3, <1>4, <1>5, ExporterPut, Zenon DEF r
<1>7. ExporterTypes'
  <2>1. accepted' \subseteq Nat \ {0}
    BY <1>1, <1>2, Zenon DEF ExporterTypes
  <2> QED
    BY <1>1, <1>2, <1>3, <1>6, <2>1, Zenon DEF ExporterTypes
<1>8. ASSUME ~forced'
      PROVE  Unforced'
  <2>0. Unforced /\ raced \subseteq raced' /\ Ended \subseteq Ended'
    BY <1>1, <1>2, <1>5, <1>8, Zenon DEF Ended
  <2>1. \A j \in Exporters : x'[j].made /\ j # exporter' => x'[j].closed
    BY <1>2, <1>6, <2>0, Zenon DEF Unforced
  <2>2. \A j \in Exporters : x'[j].done = x[j].done /\ Range(x[j].ch) \subseteq Range(x'[j].ch)
                             /\ x'[j].sending = x[j].sending
    BY <1>5, <1>6, Zenon DEF r
  <2>3. \A j \in Exporters : x'[j].closed /\ j \notin closing' => x'[j].done
    BY <1>2, <1>6, <2>0, <2>2, Zenon DEF Unforced
  <2>4. \A j \in Exporters : x'[j].done => Range(x'[j].ch) \subseteq raced'
    <3> SUFFICES ASSUME NEW j \in Exporters, x'[j].done PROVE Range(x'[j].ch) \subseteq raced'
      BY Zenon
    <3>1. Range(x[j].ch) \subseteq raced'
      BY <2>0, <2>2, Zenon DEF Unforced
    <3>2. CASE j = i
      <4>1. r.closed
        BY <1>4, <2>2, <3>2, Zenon DEF r
      <4> QED
        BY <1>2, <1>5, <1>6, <3>1, <3>2, <4>1, Zenon DEF r
    <3>3. CASE j # i
      BY <1>6, <3>1, <3>3, Zenon
    <3> QED
      BY <3>2, <3>3, Zenon
  <2>5. fan'.pc # "send"
    BY <1>2, <1>3, Zenon
  <2>6. entry \in Ended' \cup walFile'
    <3>1. fan.pc = "send"
      BY Zenon DEF ExportSend
    <3>2. CASE r.closed
      BY <1>2, <3>2, Zenon DEF Ended
    <3>3. CASE ~r.closed
      BY <1>2, <2>0, <3>1, <3>3, Zenon DEF Unforced, r
    <3> QED
      BY <3>2, <3>3, Zenon
  <2>7. accepted' \subseteq Ended' \cup walFile'
    BY <1>2, <2>0, <2>6, Zenon DEF Unforced
  <2>8. ASSUME NEW a \in accepted'
        PROVE  a \in Ended' \/ \E j \in Exporters : a \in Held(j)'
    <3>1. CASE a = entry
      <4>1. CASE entry \in Range(y.ch)
        BY <1>1, <1>6, <3>1, <4>1, Zenon DEF Held
      <4>2. CASE entry \in overflowed'
        BY <3>1, <4>2, Zenon DEF Ended
      <4>3. CASE r.closed
        BY <1>2, <3>1, <4>3, Zenon DEF Ended
      <4> QED
        BY <1>5, <4>1, <4>2, <4>3, Zenon
    <3>2. CASE a # entry
      <4>1. a \in Ended \/ \E j \in Exporters : a \in Held(j)
        BY <1>2, <2>0, <3>2, Zenon DEF Unforced
      <4> QED
        BY <2>0, <2>2, <4>1, Zenon DEF Held
    <3> QED
      BY <3>1, <3>2, Zenon
  <2>9. (exporter' # 0 => closing' = {}) /\ \A j, k \in closing' : j = k
    BY <1>2, <2>0, Zenon DEF Unforced
  <2> QED
    BY <2>1, <2>3, <2>4, <2>5, <2>7, <2>8, <2>9, Zenon DEF Unforced
<1> QED
  BY <1>6, <1>7, <1>8, Zenon DEF AuditInv

\* run takes the next entry, or returns once it is closed and has drained.
LEMMA RunKeeps ==
  ASSUME AuditInv, NEW i \in Exporters, Run(i)
  PROVE  AuditInv'
<1> DEFINE r == x[i]
<1>1. /\ ExporterTypes /\ ExporterLinks /\ (~forced => Unforced) /\ r \in ExporterStates
      /\ x \in [Exporters -> ExporterStates] /\ r.made /\ ~r.done /\ r.sending = 0
  BY Zenon DEF AuditInv, ExporterTypes, Run
<1>2. UNCHANGED <<entries, fan, exporter, walFile, closing, accepted, delivered, gaveUp,
                  overflowed, raced, forced>>
  BY Zenon DEF Run, auditHistory
<1>3. PICK y \in ExporterStates :
        /\ x' = [x EXCEPT ![i] = y] /\ y.made = r.made /\ y.closed = r.closed
        /\ y.done => y.closed /\ y.sending = 0 /\ Range(y.ch) = {}
        /\ Range(r.ch) \subseteq Range(y.ch) \cup {y.sending}
  <2> DEFINE q == r.ch
  <2>1. q \in Seq(Values)
    BY <1>1, ExporterFields, Zenon
  <2>2. CASE q # <<>>
    <3> DEFINE y == [r EXCEPT !.sending = Head(q), !.ch = Tail(q)]
    <3>1. /\ Head(q) \in Values /\ Tail(q) \in Seq(Values)
          /\ Range(q) \ {Head(q)} \subseteq Range(Tail(q))
      <4> HIDE DEF q
      <4> QED
        BY <2>1, <2>2, TailRange, Zenon
    <3>2. x' = [x EXCEPT ![i] = y]
      BY <1>1, <2>2, Zenon DEF Run
    <3>3. /\ y \in ExporterStates /\ y.made = r.made /\ y.closed = r.closed /\ y.done = r.done
          /\ y.sending = Head(q) /\ y.ch = Tail(q)
      BY <1>1, <3>1, Zenon DEF ExporterStates
    <3> HIDE DEF y
    <3> QED
      BY <1>1, <3>1, <3>2, <3>3, Zenon
  <2>3. CASE q = <<>>
    <3> DEFINE y == [r EXCEPT !.done = TRUE]
    <3>1. x' = [x EXCEPT ![i] = y] /\ r.closed
      BY <1>1, <2>3, Zenon DEF Run
    <3>2. /\ y \in ExporterStates /\ y.made = r.made /\ y.closed = r.closed
          /\ y.sending = r.sending /\ y.ch = q
      BY <1>1, Zenon DEF ExporterStates
    <3>3. Range(q) = {}
      BY <2>3, ItemsRange, Zenon
    <3> HIDE DEF y
    <3> QED
      BY <1>1, <3>1, <3>2, <3>3, Zenon
  <2> QED
    BY <2>2, <2>3, Zenon
<1> HIDE DEF r
<1>4. /\ x' \in [Exporters -> ExporterStates] /\ x'[i] = y
      /\ \A j \in Exporters : j # i => x'[j] = x[j]
      /\ \A j \in Exporters : x'[j].made = x[j].made /\ x'[j].closed = x[j].closed
      /\ ExporterLinks'
  BY <1>1, <1>2, <1>3, ExporterPut, Zenon DEF r
<1>5. ExporterTypes'
  BY <1>1, <1>2, <1>4, Zenon DEF ExporterTypes
<1>6. ASSUME ~forced'
      PROVE  Unforced'
  <2>0. Unforced /\ Ended' = Ended
    BY <1>1, <1>2, <1>6, Zenon DEF Ended
  <2>1. \A j \in Exporters : x'[j].closed /\ j \notin closing' => x'[j].done
    <3> SUFFICES ASSUME NEW j \in Exporters, x'[j].closed, j \notin closing' PROVE x'[j].done
      BY Zenon
    <3>1. x[j].done
      BY <1>2, <1>4, <2>0, Zenon DEF Unforced
    <3> QED
      BY <1>1, <1>4, <3>1, Zenon DEF r
  <2>2. \A j \in Exporters : x'[j].done => Range(x'[j].ch) \subseteq raced'
    BY <1>2, <1>3, <1>4, <2>0, Zenon DEF Unforced
  <2>3. ASSUME NEW a \in accepted'
        PROVE  a \in Ended' \/ \E j \in Exporters : a \in Held(j)'
    <3>1. a # 0 /\ (a \in Ended \/ \E j \in Exporters : a \in Held(j))
      BY <1>1, <1>2, <2>0, Zenon DEF Unforced, ExporterTypes
    <3>2. ASSUME NEW j \in Exporters, a \in Held(j)
          PROVE  a \in Held(j)'
      <4>1. CASE j = i
        <5>1. a \in Range(r.ch)
          BY <1>1, <3>2, <4>1, Zenon DEF Held, r
        <5>2. a \in Range(y.ch) \/ a = y.sending
          BY <1>3, <5>1, Zenon
        <5> QED
          BY <1>4, <3>1, <4>1, <5>2, Zenon DEF Held
      <4>2. CASE j # i
        BY <1>4, <3>2, <4>2, Zenon DEF Held
      <4> QED
        BY <4>1, <4>2, Zenon
    <3> QED
      BY <2>0, <3>1, <3>2, Zenon
  <2>4. fan'.pc = "send" /\ ~x'[fan'.on].closed => fan'.entry \in walFile'
    <3>1. fan.pc = "send" => fan.on \in Exporters
      BY <1>1, Zenon DEF ExporterLinks
    <3> QED
      BY <1>2, <1>4, <2>0, <3>1, Zenon DEF Unforced
  <2>5. accepted' \subseteq Ended' \cup walFile'
    BY <1>2, <2>0, Zenon DEF Unforced
  <2>6. /\ \A j \in Exporters : x'[j].made /\ j # exporter' => x'[j].closed
        /\ exporter' # 0 => closing' = {}
        /\ \A j, k \in closing' : j = k
    BY <1>2, <1>4, <2>0, Zenon DEF Unforced
  <2> QED
    BY <2>1, <2>2, <2>3, <2>4, <2>5, <2>6, Zenon DEF Unforced
<1> QED
  BY <1>4, <1>5, <1>6, Zenon DEF AuditInv

\* send delivers the entry or gives it up.
LEMMA SenderKeeps ==
  ASSUME AuditInv, NEW i \in Exporters, Send(i)
  PROVE  AuditInv'
<1> DEFINE r == x[i]
           y == [r EXCEPT !.sending = 0]
<1>1. /\ ExporterTypes /\ ExporterLinks /\ (~forced => Unforced) /\ r \in ExporterStates
      /\ x \in [Exporters -> ExporterStates] /\ r.sending # 0
  BY Zenon DEF AuditInv, ExporterTypes, Send
<1>2. /\ UNCHANGED <<entries, fan, exporter, walFile, closing, accepted, overflowed, raced, forced>>
      /\ delivered \subseteq delivered' /\ gaveUp \subseteq gaveUp'
      /\ r.sending \in delivered' \cup gaveUp'
  BY Zenon DEF Send
<1>3. x' = [x EXCEPT ![i] = y]
  BY <1>1, Zenon DEF Send
<1>4. 0 \in Values
  <2>1. 0 \in Nat
    OBVIOUS
  <2> QED
    BY <2>1, Zenon DEF Values
<1>5. /\ y \in ExporterStates /\ y.made = r.made /\ y.closed = r.closed /\ y.done = r.done
      /\ y.ch = r.ch /\ y.sending = 0
  BY <1>1, <1>4, Zenon DEF ExporterStates
<1>6. r.made /\ (r.done => r.closed)
  <2>1. NoExporter.sending = 0
    BY Zenon DEF NoExporter
  <2> QED
    BY <1>1, <2>1, Zenon DEF ExporterLinks
<1> HIDE DEF r, y
<1>7. /\ x' \in [Exporters -> ExporterStates] /\ x'[i] = y
      /\ \A j \in Exporters : j # i => x'[j] = x[j]
      /\ \A j \in Exporters : x'[j].made = x[j].made /\ x'[j].closed = x[j].closed
      /\ ExporterLinks'
  BY <1>1, <1>2, <1>3, <1>5, <1>6, ExporterPut, Zenon DEF r
<1>8. ExporterTypes'
  BY <1>1, <1>2, <1>7, Zenon DEF ExporterTypes
<1>9. ASSUME ~forced'
      PROVE  Unforced'
  <2>0. Unforced /\ Ended \subseteq Ended'
    BY <1>1, <1>2, <1>9, Zenon DEF Ended
  <2>1. \A j \in Exporters : x'[j].done = x[j].done /\ x'[j].ch = x[j].ch
    BY <1>5, <1>7, Zenon DEF r
  <2>2. /\ \A j \in Exporters : x'[j].closed /\ j \notin closing' => x'[j].done
        /\ \A j \in Exporters : x'[j].done => Range(x'[j].ch) \subseteq raced'
    BY <1>2, <1>7, <2>0, <2>1, Zenon DEF Unforced
  <2>3. ASSUME NEW a \in accepted'
        PROVE  a \in Ended' \/ \E j \in Exporters : a \in Held(j)'
    <3>1. a \in Ended \/ \E j \in Exporters : a \in Held(j)
      BY <1>2, <2>0, Zenon DEF Unforced
    <3>2. ASSUME NEW j \in Exporters, a \in Held(j)
          PROVE  a \in Held(j)' \/ a \in Ended'
      <4>1. CASE a \in Range(x[j].ch)
        BY <2>1, <4>1, Zenon DEF Held
      <4>2. CASE a = x[j].sending /\ j = i
        BY <1>2, <4>2, Zenon DEF Ended, r
      <4>3. CASE a = x[j].sending /\ a # 0 /\ j # i
        BY <1>7, <4>3, Zenon DEF Held
      <4> QED
        BY <3>2, <4>1, <4>2, <4>3, Zenon DEF Held
    <3> QED
      BY <2>0, <3>1, <3>2, Zenon
  <2>4. fan'.pc = "send" /\ ~x'[fan'.on].closed => fan'.entry \in walFile'
    <3>1. fan.pc = "send" => fan.on \in Exporters
      BY <1>1, Zenon DEF ExporterLinks
    <3> QED
      BY <1>2, <1>7, <2>0, <3>1, Zenon DEF Unforced
  <2>5. accepted' \subseteq Ended' \cup walFile'
    BY <1>2, <2>0, Zenon DEF Unforced
  <2>6. /\ \A j \in Exporters : x'[j].made /\ j # exporter' => x'[j].closed
        /\ exporter' # 0 => closing' = {}
        /\ \A j, k \in closing' : j = k
    BY <1>2, <1>7, <2>0, Zenon DEF Unforced
  <2> QED
    BY <2>2, <2>3, <2>4, <2>5, <2>6, Zenon DEF Unforced
<1> QED
  BY <1>7, <1>8, <1>9, Zenon DEF AuditInv

\* Exporter e is told to close: nothing else about the exporters changes.
OnlyClosed(f, g, e) ==
  \A j \in Exporters :
    /\ g[j].made = f[j].made /\ g[j].done = f[j].done /\ g[j].ch = f[j].ch
    /\ g[j].sending = f[j].sending
    /\ j = e => g[j].closed = TRUE
    /\ j # e => g[j] = f[j]

\* The signal half of Close changes only the closed flag of its exporter.
LEMMA Signalled ==
  ASSUME NEW f \in [Exporters -> ExporterStates], NEW e, NEW g, g = CloseSignal(f, e)
  PROVE  g \in [Exporters -> ExporterStates] /\ OnlyClosed(f, g, e)
<1>1. ASSUME NEW j \in Exporters, j = e
      PROVE  /\ g[j] \in ExporterStates /\ g[j].made = f[j].made /\ g[j].done = f[j].done
             /\ g[j].ch = f[j].ch /\ g[j].sending = f[j].sending /\ g[j].closed = TRUE
  <2> DEFINE r == f[j]
             c == [r EXCEPT !.closed = TRUE]
  <2>1. r \in ExporterStates
    BY Zenon
  <2>2. /\ c \in ExporterStates /\ c.made = r.made /\ c.done = r.done
        /\ c.ch = r.ch /\ c.sending = r.sending /\ c.closed = TRUE
    BY <2>1, Zenon DEF ExporterStates
  <2>3. g[j] = c
    BY <1>1, Zenon DEF CloseSignal
  <2> HIDE DEF c
  <2> QED
    BY <2>2, <2>3, Zenon
<1>2. ASSUME NEW j \in Exporters, j # e
      PROVE  g[j] = f[j]
  BY <1>2, Zenon DEF CloseSignal
<1>3. g \in [Exporters -> ExporterStates]
  BY <1>1, <1>2, Zenon DEF CloseSignal
<1> QED
  BY <1>1, <1>2, <1>3, Zenon DEF OnlyClosed

\* SetExporter without a configuration and Store.Close take the exporter away and close it.
LEMMA RetireKeeps ==
  ASSUME AuditInv, x' = CloseSignal(x, exporter), exporter' = 0,
         closing' = closing \cup ({exporter} \ {0}),
         UNCHANGED <<entries, fan, walFile, accepted, delivered, gaveUp, overflowed, raced, forced>>
  PROVE  AuditInv'
<1>1. /\ ExporterTypes /\ ExporterLinks /\ (~forced => Unforced)
      /\ x \in [Exporters -> ExporterStates] /\ exporter \in Exporters \cup {0}
      /\ closing \subseteq Exporters
  BY Zenon DEF AuditInv, ExporterTypes
<1>2. /\ x' \in [Exporters -> ExporterStates]
      /\ \A j \in Exporters : /\ x'[j].made = x[j].made /\ x'[j].done = x[j].done
                              /\ x'[j].ch = x[j].ch /\ x'[j].sending = x[j].sending
                              /\ j = exporter => x'[j].closed = TRUE
                              /\ j # exporter => x'[j] = x[j]
  <2>1. x' \in [Exporters -> ExporterStates] /\ OnlyClosed(x, x', exporter)
    BY <1>1, Signalled, Zenon
  <2> QED
    BY <2>1, Zenon DEF OnlyClosed
<1>3. \A j \in Exporters : x[j].closed => x'[j].closed
  BY <1>2, Zenon
<1>4. ExporterTypes'
  BY <1>1, <1>2, Zenon DEF ExporterTypes
<1>5. ExporterLinks'
  <2>1. (\E k \in Exporters : MadeTo(k))'
    BY <1>1, <1>2, ZenonT(30) DEF ExporterLinks, MadeTo
  <2>2. fan'.pc # "idle" => fan'.on \in Exporters /\ x'[fan'.on].made /\ fan'.entry # 0
    <3>1. fan.pc # "idle" => fan.on \in Exporters /\ x[fan.on].made /\ fan.entry # 0
      BY <1>1, Zenon DEF ExporterLinks
    <3> QED
      BY <1>2, <3>1, Zenon
  <2>3. ASSUME NEW j \in closing' PROVE x'[j].closed /\ x'[j].made
    <3>1. CASE j \in closing
      BY <1>1, <1>2, <1>3, <3>1, Zenon DEF ExporterLinks
    <3>2. CASE j = exporter /\ exporter # 0
      BY <1>1, <1>2, <3>2, Zenon DEF ExporterLinks
    <3> QED
      BY <2>3, <3>1, <3>2, Zenon
  <2>4. ASSUME NEW j \in Exporters
        PROVE  /\ ~x'[j].made => x'[j] = NoExporter
               /\ x'[j].done => x'[j].closed /\ x'[j].sending = 0
    <3>1. /\ ~x[j].made => x[j] = NoExporter
          /\ x[j].done => x[j].closed /\ x[j].sending = 0
          /\ j = exporter => x[j].made
      BY <1>1, ExporterNumbers, Zenon DEF ExporterLinks
    <3> QED
      BY <1>2, <1>3, <3>1, Zenon
  <2> QED
    BY <2>1, <2>2, <2>3, <2>4, Zenon DEF ExporterLinks
<1>6. ASSUME ~forced'
      PROVE  Unforced'
  <2>0. Unforced /\ Ended' = Ended
    BY <1>1, <1>6, Zenon DEF Ended
  <2>1. \A j \in Exporters : x'[j].made /\ j # exporter' => x'[j].closed
    BY <1>2, <1>3, <2>0, Zenon DEF Unforced
  <2>2. \A j \in Exporters : x'[j].closed /\ j \notin closing' => x'[j].done
    BY <1>2, <2>0, ExporterNumbers, Zenon DEF Unforced
  <2>3. \A j, k \in closing' : j = k
    <3>1. (exporter # 0 => closing = {}) /\ \A j, k \in closing : j = k
      BY <2>0, Zenon DEF Unforced
    <3>2. CASE exporter = 0
      BY <3>1, <3>2, Zenon
    <3>3. CASE exporter # 0
      BY <3>1, <3>3, Zenon
    <3> QED
      BY <3>2, <3>3, Zenon
  <2>4. \A j \in Exporters : x'[j].done => Range(x'[j].ch) \subseteq raced'
    BY <1>2, <2>0, Zenon DEF Unforced
  <2>5. fan'.pc = "send" /\ ~x'[fan'.on].closed => fan'.entry \in walFile'
    <3>1. fan.pc = "send" => fan.on \in Exporters
      BY <1>1, Zenon DEF ExporterLinks
    <3> QED
      BY <1>3, <2>0, <3>1, Zenon DEF Unforced
  <2>6. accepted' \subseteq Ended' \cup walFile'
    BY <2>0, Zenon DEF Unforced
  <2>7. \A j \in Exporters : Held(j)' = Held(j)
    BY <1>2, Zenon DEF Held
  <2>8. \A a \in accepted' : a \in Ended' \/ \E j \in Exporters : a \in Held(j)'
    BY <2>0, <2>7, Zenon DEF Unforced
  <2> QED
    BY <2>1, <2>2, <2>3, <2>4, <2>5, <2>6, <2>8, Zenon DEF Unforced
<1> QED
  BY <1>4, <1>5, <1>6, Zenon DEF AuditInv

\* SetExporter with a configuration puts a new exporter in place, on the same file, and
\* closes the old one.  If that leaves forced unset there was no old one.
LEMMA ReplaceKeeps ==
  ASSUME AuditInv, SetExporter(TRUE)
  PROVE  AuditInv'
<1>1. /\ ExporterTypes /\ ExporterLinks /\ (~forced => Unforced)
      /\ x \in [Exporters -> ExporterStates] /\ exporter \in Exporters \cup {0}
      /\ closing \subseteq Exporters /\ walFile \in SUBSET Nat /\ IsFiniteSet(walFile)
  BY Zenon DEF AuditInv, ExporterTypes
<1>2. PICK k \in Exporters : MadeTo(k)
  BY <1>1, Zenon DEF ExporterLinks
<1> DEFINE i == k + 1
           n == newAuditExporter(walFile)
           f == [x EXCEPT ![i] = n]
<1>3. /\ MadeExporters < MaxExporters /\ exporter' = MadeExporters + 1
      /\ x' = CloseSignal([x EXCEPT ![MadeExporters + 1] = newAuditExporter(walFile)], exporter)
      /\ closing' = closing \cup ({exporter} \ {0})
      /\ forced' = (forced \/ closing' # {})
      /\ overflowed' = overflowed \cup NotReplayed(walFile)
      /\ UNCHANGED <<entries, fan, walFile, accepted, delivered, gaveUp, raced>>
  BY Zenon DEF SetExporter
<1>4. MadeExporters = k
  BY <1>2, MadeExportersCount, Zenon
<1>5. i \in Exporters /\ ~(i <= k) /\ \A j \in Exporters : j <= i <=> j = i \/ j <= k
  BY <1>2, <1>3, <1>4, ExporterNumbers, AuditExportAssumption
<1>6. exporter' = i /\ x' = CloseSignal(f, exporter)
  BY <1>3, <1>4, Zenon
<1>7. /\ n \in ExporterStates /\ n.made = TRUE /\ n.closed = FALSE /\ n.done = FALSE
      /\ walFile \subseteq Range(n.ch) \cup NotReplayed(walFile)
  BY <1>1, Replayed, Zenon
<1>8. ~x[i].made /\ x[i] = NoExporter /\ i # exporter /\ i \notin closing
  BY <1>1, <1>2, <1>5, ExporterNumbers, Zenon DEF ExporterLinks, MadeTo
<1> HIDE DEF i, n
<1>9. f \in [Exporters -> ExporterStates] /\ f[i] = n /\ \A j \in Exporters : j # i => f[j] = x[j]
  BY <1>1, <1>5, <1>7, Zenon
<1> HIDE DEF f
<1>10. /\ x' \in [Exporters -> ExporterStates] /\ x'[i] = n
       /\ \A j \in Exporters : j # i =>
            /\ x'[j].made = x[j].made /\ x'[j].done = x[j].done
            /\ x'[j].ch = x[j].ch /\ x'[j].sending = x[j].sending
            /\ j = exporter => x'[j].closed = TRUE
            /\ j # exporter => x'[j] = x[j]
  <2>1. x' \in [Exporters -> ExporterStates] /\ OnlyClosed(f, x', exporter)
    BY <1>6, <1>9, Signalled, Zenon
  <2>2. x'[i] = n
    BY <1>5, <1>8, <1>9, <2>1, Zenon DEF OnlyClosed
  <2>3. ASSUME NEW j \in Exporters, j # i
        PROVE  /\ x'[j].made = x[j].made /\ x'[j].done = x[j].done
               /\ x'[j].ch = x[j].ch /\ x'[j].sending = x[j].sending
               /\ j = exporter => x'[j].closed = TRUE
               /\ j # exporter => x'[j] = x[j]
    <3>1. f[j] = x[j]
      BY <1>9, <2>3, Zenon
    <3> QED
      BY <2>1, <3>1, Zenon DEF OnlyClosed
  <2> QED
    BY <2>1, <2>2, <2>3, Zenon
<1>11. \A j \in Exporters : j # i /\ x[j].closed => x'[j].closed
  BY <1>10, Zenon
<1>12. fan.pc # "idle" => fan.on \in Exporters /\ x[fan.on].made /\ fan.entry # 0 /\ fan.on # i
  BY <1>1, <1>8, Zenon DEF ExporterLinks
<1>13. ExporterTypes'
  <2>1. forced' \in BOOLEAN
    BY <1>3, Zenon
  <2> QED
    BY <1>1, <1>3, <1>5, <1>6, <1>10, <2>1, Zenon DEF ExporterTypes
<1>14. ExporterLinks'
  <2>1. MadeTo(i)'
    <3>1. \A j \in Exporters : x'[j].made <=> j = i \/ j <= k
      BY <1>2, <1>7, <1>8, <1>10, Zenon DEF MadeTo
    <3> QED
      BY <1>5, <3>1, Zenon DEF MadeTo, i
  <2>2. fan'.pc # "idle" => fan'.on \in Exporters /\ x'[fan'.on].made /\ fan'.entry # 0
    BY <1>3, <1>10, <1>12, Zenon
  <2>3. ASSUME NEW j \in closing' PROVE x'[j].closed /\ x'[j].made
    <3>1. CASE j \in closing
      BY <1>1, <1>8, <1>10, <1>11, <3>1, Zenon DEF ExporterLinks
    <3>2. CASE j = exporter /\ exporter # 0
      BY <1>1, <1>8, <1>10, <3>2, Zenon DEF ExporterLinks
    <3> QED
      BY <1>3, <2>3, <3>1, <3>2, Zenon
  <2>4. ASSUME NEW j \in Exporters
        PROVE  /\ ~x'[j].made => x'[j] = NoExporter
               /\ x'[j].done => x'[j].closed /\ x'[j].sending = 0
    <3>1. /\ ~x[j].made => x[j] = NoExporter
          /\ x[j].done => x[j].closed /\ x[j].sending = 0
          /\ j = exporter => x[j].made
      BY <1>1, ExporterNumbers, Zenon DEF ExporterLinks
    <3>2. CASE j = i
      BY <1>7, <1>10, <3>2, Zenon
    <3>3. CASE j # i
      BY <1>10, <1>11, <3>1, <3>3, Zenon
    <3> QED
      BY <3>2, <3>3, Zenon
  <2> QED
    BY <1>5, <1>6, <1>7, <1>10, <2>1, <2>2, <2>3, <2>4, Zenon DEF ExporterLinks
<1>15. ASSUME ~forced'
       PROVE  Unforced'
  <2>0. Unforced /\ exporter = 0 /\ closing' = {} /\ Ended \subseteq Ended'
    BY <1>1, <1>3, <1>15, Zenon DEF Ended
  <2>1. \A j \in Exporters : j # i => x'[j] = x[j]
    BY <1>10, <2>0, ExporterNumbers, Zenon
  <2>2. \A j \in Exporters : x'[j].made /\ j # exporter' => x'[j].closed
    BY <1>6, <2>0, <2>1, ExporterNumbers, Zenon DEF Unforced
  <2>3. \A j \in Exporters : x'[j].closed => x'[j].done
    <3>1. closing = {}
      BY <1>3, <2>0, Zenon
    <3> QED
      BY <1>7, <1>10, <2>0, <2>1, <3>1, Zenon DEF Unforced
  <2>4. \A j \in Exporters : x'[j].done => Range(x'[j].ch) \subseteq raced'
    BY <1>3, <1>7, <1>10, <2>0, <2>1, Zenon DEF Unforced
  <2>5. fan'.pc = "send" /\ ~x'[fan'.on].closed => fan'.entry \in walFile'
    BY <1>3, <1>12, <2>0, <2>1, Zenon DEF Unforced
  <2>6. accepted' \subseteq Ended' \cup walFile'
    BY <1>3, <2>0, Zenon DEF Unforced
  <2>7. Held(i) = {}
    <3>1. NoExporter.ch = <<>> /\ NoExporter.sending = 0
      BY Zenon DEF NoExporter
    <3> QED
      BY <1>8, <3>1, ItemsRange, Zenon DEF Held
  <2>8. \A j \in Exporters : j # i => Held(j)' = Held(j)
    BY <2>1, Zenon DEF Held
  <2>9. \A a \in accepted' : a \in Ended' \/ \E j \in Exporters : a \in Held(j)'
    BY <1>3, <2>0, <2>7, <2>8, Zenon DEF Unforced
  <2> QED
    BY <2>0, <2>2, <2>3, <2>4, <2>5, <2>6, <2>9, Zenon DEF Unforced
<1> QED
  BY <1>13, <1>14, <1>15, Zenon DEF AuditInv

\* Close truncates the file.  If that leaves forced unset, its exporter has returned and
\* so has every other one: what was accepted is not in the file only.
LEMMA TruncateKeeps ==
  ASSUME AuditInv, NEW i \in Exporters, CloseTruncate(i)
  PROVE  AuditInv'
<1>1. /\ ExporterTypes /\ ExporterLinks /\ (~forced => Unforced)
      /\ i \in closing /\ closing' = closing \ {i} /\ walFile' = {} /\ forced' = (forced \/ ~x[i].done)
      /\ UNCHANGED <<entries, fan, exporter, x, accepted, delivered, gaveUp, overflowed, raced>>
  BY Zenon DEF AuditInv, CloseTruncate
<1>2. ExporterTypes'
  <2>1. IsFiniteSet({})
    BY FS_EmptySet, Zenon
  <2>2. forced' \in BOOLEAN
    BY <1>1, Zenon
  <2> QED
    BY <1>1, <2>1, <2>2, Zenon DEF ExporterTypes
<1>3. ExporterLinks'
  BY <1>1, Zenon DEF ExporterLinks, MadeTo
<1>4. ASSUME ~forced'
      PROVE  Unforced'
  <2>0. Unforced /\ x[i].done /\ Ended' = Ended /\ exporter = 0
    <3>1. Unforced /\ x[i].done
      BY <1>1, <1>4, Zenon
    <3> QED
      BY <1>1, <3>1, Zenon DEF Unforced, Ended
  <2>1. \A j \in Exporters : x[j].closed /\ j \notin closing' => x[j].done
    BY <1>1, <2>0, Zenon DEF Unforced
  <2>2. ASSUME NEW j \in Exporters, x[j].made
        PROVE  x[j].closed /\ x[j].done
    <3>1. x[j].closed
      BY <2>0, <2>2, ExporterNumbers, Zenon DEF Unforced
    <3>2. j \in closing => j = i
      BY <1>1, <2>0, Zenon DEF Unforced
    <3> QED
      BY <1>1, <2>0, <2>1, <3>1, <3>2, Zenon
  <2>3. \A j \in Exporters : Held(j) \subseteq raced
    <3>1. NoExporter.ch = <<>> /\ NoExporter.sending = 0
      BY Zenon DEF NoExporter
    <3>2. ASSUME NEW j \in Exporters PROVE Held(j) \subseteq raced
      <4>1. CASE x[j].made
        <5>1. x[j].sending = 0 /\ Range(x[j].ch) \subseteq raced
          BY <1>1, <2>0, <2>2, <4>1, Zenon DEF ExporterLinks, Unforced
        <5> QED
          BY <5>1, Zenon DEF Held
      <4>2. CASE ~x[j].made
        <5>1. x[j] = NoExporter
          BY <1>1, <4>2, Zenon DEF ExporterLinks
        <5> QED
          BY <3>1, <5>1, ItemsRange, Zenon DEF Held
      <4> QED
        BY <4>1, <4>2, Zenon
    <3> QED
      BY <3>2, Zenon
  <2>4. accepted \subseteq Ended
    BY <2>0, <2>3, Zenon DEF Unforced, Ended
  <2>5. fan'.pc = "send" /\ ~x'[fan'.on].closed => fan'.entry \in walFile'
    <3>1. fan.pc = "send" => fan.on \in Exporters /\ x[fan.on].made
      BY <1>1, Zenon DEF ExporterLinks
    <3> QED
      BY <1>1, <2>2, <3>1, Zenon
  <2>6. /\ \A j \in Exporters : x'[j].made /\ j # exporter' => x'[j].closed
        /\ \A j \in Exporters : x'[j].done => Range(x'[j].ch) \subseteq raced'
        /\ exporter' # 0 => closing' = {}
        /\ \A j, k \in closing' : j = k
    BY <1>1, <2>0, Zenon DEF Unforced
  <2>7. /\ accepted' \subseteq Ended' \cup walFile'
        /\ \A a \in accepted' : a \in Ended' \/ \E j \in Exporters : a \in Held(j)'
    BY <1>1, <2>0, <2>4, Zenon
  <2> QED
    BY <1>1, <2>1, <2>5, <2>6, <2>7, Zenon DEF Unforced
<1> QED
  BY <1>2, <1>3, <1>4, Zenon DEF AuditInv

\* A server with exporter 1 on file p and no other.
LEMMA Started ==
  ASSUME NEW p \in SUBSET Nat, IsFiniteSet(p), NEW g,
         g = [i \in Exporters |-> IF i = 1 THEN newAuditExporter(p) ELSE NoExporter]
  PROVE  /\ g \in [Exporters -> ExporterStates] /\ g[1].made = TRUE /\ g[1].closed = FALSE
         /\ g[1].done = FALSE /\ p \subseteq Range(g[1].ch) \cup NotReplayed(p)
         /\ \A i \in Exporters : i # 1 => g[i] = NoExporter
         /\ NoExporter.made = FALSE /\ NoExporter.closed = FALSE /\ NoExporter.done = FALSE
         /\ 1 \in Exporters /\ \A i \in Exporters : i <= 1 <=> i = 1
<1> DEFINE n == newAuditExporter(p)
<1>1. /\ n \in ExporterStates /\ n.made = TRUE /\ n.closed = FALSE /\ n.done = FALSE
      /\ p \subseteq Range(n.ch) \cup NotReplayed(p)
  BY Replayed, Zenon
<1>2. <<>> \in Seq(Values) /\ 0 \in Nat
  OBVIOUS
<1>3. /\ NoExporter \in ExporterStates
      /\ NoExporter.made = FALSE /\ NoExporter.closed = FALSE /\ NoExporter.done = FALSE
  <2>1. 0 \in Values
    BY <1>2, Zenon DEF Values
  <2> QED
    BY <1>2, <2>1, Zenon DEF NoExporter, ExporterStates
<1>4. 1 \in Exporters /\ \A i \in Exporters : i <= 1 <=> i = 1
  BY ExporterNumbers
<1> HIDE DEF n
<1>5. g[1] = n /\ \A i \in Exporters : i # 1 => g[i] = NoExporter
  BY <1>4, Zenon DEF n
<1>6. g \in [Exporters -> ExporterStates]
  BY <1>1, <1>3, Zenon DEF n
<1> QED
  BY <1>1, <1>3, <1>4, <1>5, <1>6, Zenon

\* The process ends and starts again: the file holds what the channels lost.
LEMMA CrashKeeps ==
  ASSUME AuditInv, CrashAudit
  PROVE  AuditInv'
<1>1. /\ ExporterTypes /\ (~forced => Unforced) /\ walFile \in SUBSET Nat /\ IsFiniteSet(walFile)
      /\ fan' = FanIdle /\ exporter' = 1 /\ closing' = {}
      /\ x' = [i \in Exporters |-> IF i = 1 THEN newAuditExporter(walFile) ELSE NoExporter]
      /\ overflowed' = overflowed \cup NotReplayed(walFile)
      /\ UNCHANGED <<entries, walFile, accepted, delivered, gaveUp, raced, forced>>
  BY Zenon DEF AuditInv, ExporterTypes, CrashAudit
<1>2. /\ x' \in [Exporters -> ExporterStates] /\ x'[1].made = TRUE /\ x'[1].closed = FALSE
      /\ x'[1].done = FALSE /\ walFile \subseteq Range(x'[1].ch) \cup NotReplayed(walFile)
      /\ \A i \in Exporters : i # 1 => x'[i] = NoExporter
      /\ NoExporter.made = FALSE /\ NoExporter.closed = FALSE /\ NoExporter.done = FALSE
      /\ 1 \in Exporters /\ \A i \in Exporters : i <= 1 <=> i = 1
  <2> DEFINE g == [i \in Exporters |-> IF i = 1 THEN newAuditExporter(walFile) ELSE NoExporter]
  <2>1. x' = g
    BY <1>1, Zenon
  <2> HIDE DEF g
  <2> QED
    BY <1>1, <2>1, Started, Zenon DEF g
<1>3. FanIdle \in FanStates /\ FanIdle.pc = "idle"
  <2>1. 0 \in Nat
    OBVIOUS
  <2> QED
    BY <2>1, Zenon DEF FanIdle, FanStates
<1>4. ExporterTypes'
  BY <1>1, <1>2, <1>3, Zenon DEF ExporterTypes
<1>5. ExporterLinks'
  <2>1. MadeTo(1)'
    BY <1>2, Zenon DEF MadeTo
  <2>2. \A i \in Exporters : /\ ~x'[i].made => x'[i] = NoExporter
                             /\ x'[i].done => x'[i].closed /\ x'[i].sending = 0
    BY <1>2, Zenon
  <2> QED
    BY <1>1, <1>2, <1>3, <2>1, <2>2, Zenon DEF ExporterLinks
<1>6. ASSUME ~forced'
      PROVE  Unforced'
  <2>0. Unforced /\ Ended \subseteq Ended' /\ NotReplayed(walFile) \subseteq Ended'
    BY <1>1, <1>6, Zenon DEF Ended
  <2>1. accepted' \subseteq Ended' \cup walFile'
    BY <1>1, <2>0, Zenon DEF Unforced
  <2>2. ASSUME NEW a \in accepted'
        PROVE  a \in Ended' \/ \E i \in Exporters : a \in Held(i)'
    <3>1. a \in Ended' \/ a \in Range(x'[1].ch)
      BY <1>1, <1>2, <2>0, <2>1, Zenon
    <3> QED
      BY <1>2, <3>1, Zenon DEF Held
  <2>3. \A i \in Exporters : /\ x'[i].made /\ i # exporter' => x'[i].closed
                             /\ ~x'[i].closed /\ ~x'[i].done
    BY <1>1, <1>2, Zenon
  <2> QED
    BY <1>1, <1>3, <2>1, <2>2, <2>3, Zenon DEF Unforced
<1> QED
  BY <1>4, <1>5, <1>6, Zenon DEF AuditInv

\* The server starts with one exporter on an empty file.
LEMMA AuditInvInit == AuditExportInit => AuditInv
<1> SUFFICES ASSUME AuditExportInit PROVE AuditInv
  BY Zenon
<1>1. /\ entries = 0 /\ fan = FanIdle /\ exporter = 1 /\ walFile = {} /\ closing = {} /\ accepted = {}
      /\ forced = FALSE
      /\ x = [i \in Exporters |-> IF i = 1 THEN newAuditExporter({}) ELSE NoExporter]
  BY Zenon DEF AuditExportInit
<1>2. 0 \in Nat /\ IsFiniteSet({}) /\ {} \in SUBSET Nat
  BY FS_EmptySet
<1>3. /\ x \in [Exporters -> ExporterStates] /\ x[1].made = TRUE /\ x[1].closed = FALSE
      /\ x[1].done = FALSE /\ \A i \in Exporters : i # 1 => x[i] = NoExporter
      /\ NoExporter.made = FALSE /\ NoExporter.closed = FALSE /\ NoExporter.done = FALSE
      /\ 1 \in Exporters /\ \A i \in Exporters : i <= 1 <=> i = 1
  BY <1>1, <1>2, Started, Zenon
<1>4. FanIdle \in FanStates /\ FanIdle.pc = "idle"
  BY <1>2, Zenon DEF FanIdle, FanStates
<1>5. ExporterTypes
  BY <1>1, <1>2, <1>3, <1>4, Zenon DEF ExporterTypes
<1>6. ExporterLinks
  <2>1. MadeTo(1)
    BY <1>3, Zenon DEF MadeTo
  <2>2. \A i \in Exporters : /\ ~x[i].made => x[i] = NoExporter
                             /\ x[i].done => x[i].closed /\ x[i].sending = 0
    BY <1>3, Zenon
  <2> QED
    BY <1>1, <1>3, <1>4, <2>1, <2>2, Zenon DEF ExporterLinks
<1>7. Unforced
  <2>1. \A i \in Exporters : /\ x[i].made /\ i # exporter => x[i].closed
                             /\ ~x[i].closed /\ ~x[i].done
    BY <1>1, <1>3, Zenon
  <2> QED
    BY <1>1, <1>4, <2>1, Zenon DEF Unforced
<1> QED
  BY <1>5, <1>6, <1>7, Zenon DEF AuditInv

\* Every step of the subscriber, the senders, a replacement, a Close and a crash keeps it.
LEMMA AuditInvNext == AuditInv /\ [AuditExportNext]_auditVars => AuditInv'
<1> SUFFICES ASSUME AuditInv, [AuditExportNext]_auditVars PROVE AuditInv'
  BY Zenon
<1>1. CASE Fanout \/ ExportCheck \/ ExportAppend
  BY <1>1, FanKeeps, Zenon
<1>2. CASE ExportSend
  BY <1>2, ExportSendKeeps, Zenon
<1>3. CASE \E i \in Exporters : Run(i) \/ Send(i) \/ CloseTruncate(i)
  BY <1>3, RunKeeps, SenderKeeps, TruncateKeeps, Zenon
<1>4. ASSUME NEW cfg \in BOOLEAN, SetExporter(cfg)
      PROVE  AuditInv'
  <2>1. CASE cfg = TRUE
    BY <1>4, <2>1, ReplaceKeeps, Zenon
  <2>2. CASE cfg = FALSE
    <3>1. /\ x' = CloseSignal(x, exporter) /\ exporter' = 0
          /\ closing' = closing \cup ({exporter} \ {0}) /\ forced' = (forced \/ FALSE)
          /\ UNCHANGED <<entries, fan, walFile, accepted, delivered, gaveUp, overflowed, raced>>
      BY <1>4, <2>2, Zenon DEF SetExporter
    <3>2. forced' = forced
      BY <3>1, Zenon DEF AuditInv, ExporterTypes
    <3> QED
      BY <3>1, <3>2, RetireKeeps, Zenon
  <2> QED
    BY <2>1, <2>2, Zenon
<1>5. CASE StoreClose
  BY <1>5, RetireKeeps, Zenon DEF StoreClose, auditHistory
<1>6. CASE CrashAudit
  BY <1>6, CrashKeeps, Zenon
<1>7. CASE UNCHANGED auditVars
  <2>1. UNCHANGED <<entries, fan, exporter, x, walFile, closing, accepted, delivered, gaveUp,
                    overflowed, raced, forced>>
    BY <1>7, Zenon DEF auditVars, auditHistory
  <2> QED
    BY <2>1, Zenon DEF AuditInv, ExporterTypes, ExporterLinks, MadeTo, Unforced, Ended, Held
<1> QED
  BY <1>1, <1>2, <1>3, <1>4, <1>5, <1>6, <1>7, Zenon DEF AuditExportNext

\* An entry that Export has taken is lost only to what the configuration allows: unless a
\* Close gave up waiting or truncated the file under a newer exporter, it has been sent,
\* is queued or in the file, met a full channel, was given up, or raced with Close,
\* whatever the capacity and however often the server crashes and is reconfigured.
THEOREM EntriesAreKept == AuditExportSpec => []LostOnlyTo
<1>1. AuditInv => LostOnlyTo
  <2> SUFFICES ASSUME AuditInv, ~forced, NEW a \in accepted
               PROVE  a \in delivered \cup walFile \cup Queued \cup gaveUp \cup overflowed \cup raced
    BY Zenon DEF LostOnlyTo
  <2>1. a \in Ended \cup walFile
    BY Zenon DEF AuditInv, Unforced
  <2> QED
    BY <2>1, Zenon DEF Ended
<1> QED
  BY <1>1, AuditInvInit, AuditInvNext, PTL DEF AuditExportSpec
=============================================================================

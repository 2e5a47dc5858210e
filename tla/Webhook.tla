------------------------------ MODULE Webhook -------------------------------
(***************************************************************************)
(* The audit webhook (package webhook) behind the event bus (package       *)
(* events).  Server.audit publishes an entry on the bus, from which the    *)
(* store's subscriber emits it, and then emits it itself.  An emit goes to *)
(* the queue of the dispatcher configured when it looked; one goroutine    *)
(* per dispatcher posts what is queued.  SetURL and Close replace and drain *)
(* the dispatcher while emits are under way.                               *)
(***************************************************************************)
EXTENDS Naturals, Sequences, FiniteSets, Functions

CONSTANTS
  Auditors,      \* goroutines that call Server.audit
  BusCap,        \* the bus's per-subscriber buffer
  QueueCap,      \* dispatcher.ch
  DLQMax,        \* dispatcher.dlqMax
  MaxRetries,
  MaxDispatchers, MaxAudits      \* bounds: SetURL calls, audited mutations

ASSUME WebhookAssumption ==
  /\ {BusCap, QueueCap, MaxAudits} \subseteq Nat
  /\ {DLQMax, MaxRetries, MaxDispatchers} \subseteq Nat \ {0}

Disps == 1..MaxDispatchers
Emitters == Auditors \cup {"subscriber"}

VARIABLES
  audits,        \* audited mutations so far
  bus,           \* events in the subscriber's channel, "closed" once unsubscribed
  emit,          \* per emitter: where it is in Store.Emit, on which dispatcher
  disp,          \* Store.disp: 0 is nil
  admin,         \* SetURL or Close under way
  d              \* the dispatchers; owed (history): queued when closed, not yet taken

webhookVars == <<audits, bus, emit, disp, admin, d>>

NewDispatcher == [made |-> TRUE, closed |-> FALSE, done |-> FALSE, nextID |-> 0, ch |-> <<>>,
                  post |-> 0, attempt |-> 0, dropped |-> 0, failed |-> 0, delivered |-> 0,
                  dlq |-> 0, dlqDropped |-> 0, counted |-> TRUE, owed |-> {}]
NoDispatcher == [NewDispatcher EXCEPT !.made = FALSE]
EmitIdle == [pc |-> "idle", on |-> 0, id |-> 0]
AdminIdle == [pc |-> "idle", on |-> 0, url |-> FALSE]

WebhookInit ==
  /\ audits = 0 /\ bus = [n |-> 0, closed |-> FALSE]
  /\ emit = [e \in Emitters |-> EmitIdle]
  /\ disp = 1 /\ admin = AdminIdle
  /\ d = [i \in Disps |-> IF i = 1 THEN NewDispatcher ELSE NoDispatcher]

-----------------------------------------------------------------------------
(* Emitting *)

\* Publish is non-blocking and drops the event for a subscriber whose buffer is full.
Publish == bus' = IF ~bus.closed /\ bus.n < BusCap THEN [bus EXCEPT !.n = @ + 1] ELSE bus

\* audit publishes the entry; the direct Emit follows.
Audit(a) ==
  /\ emit[a].pc = "idle" /\ audits < MaxAudits
  /\ audits' = audits + 1
  /\ Publish
  /\ emit' = [emit EXCEPT ![a].pc = "load"]
  /\ UNCHANGED <<disp, admin, d>>

\* Store.Subscribe's goroutine.
FromBus ==
  /\ emit["subscriber"].pc = "idle" /\ bus.n > 0
  /\ bus' = [bus EXCEPT !.n = @ - 1]
  /\ emit' = [emit EXCEPT !["subscriber"].pc = "load"]
  /\ UNCHANGED <<audits, disp, admin, d>>

\* Store.Emit reads disp under the read lock, which SetURL's write lock excludes.
EmitLoad(e) ==
  /\ emit[e].pc = "load" /\ admin.pc # "seturl"
  /\ emit' = [emit EXCEPT ![e] = IF disp = 0 THEN EmitIdle ELSE [pc |-> "check", on |-> disp, id |-> 0]]
  /\ UNCHANGED <<audits, bus, disp, admin, d>>

\* dispatcher.Emit: give up if closed; else draw an id.
EmitCheck(e) ==
  /\ emit[e].pc = "check"
  /\ LET i == emit[e].on
     IN IF d[i].closed
        THEN emit' = [emit EXCEPT ![e] = EmitIdle] /\ UNCHANGED d
        ELSE /\ d' = [d EXCEPT ![i].nextID = @ + 1]
             /\ emit' = [emit EXCEPT ![e].pc = "send", ![e].id = d[i].nextID + 1]
  /\ UNCHANGED <<audits, bus, disp, admin>>

\* The non-blocking select: any ready case, or the default when none is.
EmitSend_Uncounted(e) ==
  /\ emit[e].pc = "send"
  /\ LET i == emit[e].on
     IN d' = IF Len(d[i].ch) < QueueCap THEN [d EXCEPT ![i].ch = Append(@, emit[e].id)] ELSE d
  /\ emit' = [emit EXCEPT ![e] = EmitIdle]
  /\ UNCHANGED <<audits, bus, disp, admin>>

EmitSend(e) ==
  /\ emit[e].pc = "send"
  /\ LET i == emit[e].on
         room == Len(d[i].ch) < QueueCap
     IN \/ room /\ d' = [d EXCEPT ![i].ch = Append(@, emit[e].id)]
        \/ d[i].closed /\ UNCHANGED d
        \/ ~room /\ ~d[i].closed /\ d' = [d EXCEPT ![i].dropped = @ + 1]
  /\ emit' = [emit EXCEPT ![e] = EmitIdle]
  /\ UNCHANGED <<audits, bus, disp, admin>>

-----------------------------------------------------------------------------
(* The dispatcher's goroutine *)

\* run: take the next event; once closed, drain what is buffered and return.
Take_NoDrain(i) ==
  /\ d[i].made /\ ~d[i].done /\ d[i].post = 0
  /\ \/ /\ d[i].ch # <<>>
        /\ d' = [d EXCEPT ![i].post = Head(d[i].ch), ![i].ch = Tail(@),
                         ![i].owed = @ \ {Head(d[i].ch)}]
     \/ /\ d[i].closed
        /\ d' = [d EXCEPT ![i].done = TRUE]
  /\ UNCHANGED <<audits, bus, emit, disp, admin>>

Take(i) ==
  /\ d[i].made /\ ~d[i].done /\ d[i].post = 0
  /\ \/ /\ d[i].ch # <<>>
        /\ d' = [d EXCEPT ![i].post = Head(d[i].ch), ![i].ch = Tail(@),
                         ![i].owed = @ \ {Head(d[i].ch)}]
     \/ /\ d[i].closed /\ d[i].ch = <<>>
        /\ d' = [d EXCEPT ![i].done = TRUE]
  /\ UNCHANGED <<audits, bus, emit, disp, admin>>

\* addToDLQ drops the oldest event of a full queue.
addToDLQ(x) ==
  [x EXCEPT !.dlq = IF @ >= DLQMax THEN @ ELSE @ + 1,
            !.dlqDropped = IF x.dlq >= DLQMax THEN @ + 1 ELSE @,
            !.counted = FALSE]

\* post: a 2xx or 3xx answer delivers, a 4xx gives up, anything else is tried again
\* until MaxRetries; giving up puts the event in the dead letter queue.
Post(i) ==
  /\ d[i].post # 0 /\ d[i].counted
  /\ \/ d' = [d EXCEPT ![i].delivered = @ + 1, ![i].post = 0, ![i].attempt = 0]
     \/ d' = [d EXCEPT ![i] = addToDLQ(@)]
     \/ d' = [d EXCEPT ![i] = IF d[i].attempt + 1 < MaxRetries
                              THEN [d[i] EXCEPT !.attempt = @ + 1] ELSE addToDLQ(d[i])]
  /\ UNCHANGED <<audits, bus, emit, disp, admin>>

\* ... and counts the failure afterwards.
CountFailed(i) ==
  /\ d[i].post # 0 /\ ~d[i].counted
  /\ d' = [d EXCEPT ![i].failed = @ + 1, ![i].counted = TRUE, ![i].post = 0, ![i].attempt = 0]
  /\ UNCHANGED <<audits, bus, emit, disp, admin>>

-----------------------------------------------------------------------------
(* Reconfiguration and shutdown *)

closeDispatcher(x) == [x EXCEPT !.closed = TRUE, !.owed = Range(x.ch)]
Made == Cardinality({i \in Disps : d[i].made})
Fresh(i) == [d EXCEPT ![i] = NewDispatcher]

\* SetURL holds the store's lock while the old dispatcher drains, five seconds at
\* most, and then starts the new one.
SetURL(url) ==
  /\ admin.pc = "idle" /\ ~bus.closed
  /\ IF disp = 0
     THEN /\ url /\ Made < MaxDispatchers
          /\ disp' = Made + 1 /\ d' = Fresh(Made + 1)
          /\ UNCHANGED admin
     ELSE /\ admin' = [pc |-> "seturl", on |-> disp, url |-> url]
          /\ d' = [d EXCEPT ![disp] = closeDispatcher(@)]
          /\ UNCHANGED disp
  /\ UNCHANGED <<audits, bus, emit>>

SetURLDrained ==
  /\ admin.pc = "seturl"
  /\ IF admin.url /\ Made < MaxDispatchers
     THEN disp' = Made + 1 /\ d' = Fresh(Made + 1)
     ELSE disp' = 0 /\ UNCHANGED d
  /\ admin' = AdminIdle
  /\ UNCHANGED <<audits, bus, emit>>

\* Close takes the dispatcher away under the lock, unsubscribes (what is buffered is
\* still read from the closed channel) and drains without the lock.
Close ==
  /\ admin.pc = "idle" /\ ~bus.closed
  /\ admin' = [pc |-> "close", on |-> disp, url |-> FALSE]
  /\ disp' = 0
  /\ UNCHANGED <<audits, bus, emit, d>>

CloseUnsub ==
  /\ admin.pc = "close"
  /\ bus' = [bus EXCEPT !.closed = TRUE]
  /\ d' = IF admin.on = 0 THEN d ELSE [d EXCEPT ![admin.on] = closeDispatcher(@)]
  /\ admin' = AdminIdle
  /\ UNCHANGED <<audits, emit, disp>>

Dispatcher(i) == Take(i) \/ Post(i) \/ CountFailed(i)
EmitStep(e) == EmitLoad(e) \/ EmitCheck(e) \/ EmitSend(e)

WebhookNext ==
  \/ \E a \in Auditors : Audit(a)
  \/ FromBus
  \/ \E e \in Emitters : EmitStep(e)
  \/ \E i \in Disps : Dispatcher(i)
  \/ \E url \in BOOLEAN : SetURL(url)
  \/ SetURLDrained
  \/ Close
  \/ CloseUnsub

WebhookSpec == WebhookInit /\ [][WebhookNext]_webhookVars

-----------------------------------------------------------------------------
(* Properties *)

Emitting(i) == {e \in Emitters : emit[e].pc = "send" /\ emit[e].on = i}

\* The counters of HandleGetWebhook account for every event: while a dispatcher is
\* open, each event id drawn is delivered, failed, dropped, queued, being posted or
\* about to be queued, whatever emitters and poster are doing; and the dead letter
\* queue with its eviction counter accounts for every failure.
EventsAccounted ==
  \A i \in Disps :
    /\ ~d[i].closed => d[i].nextID = d[i].delivered + d[i].failed + d[i].dropped + Len(d[i].ch)
                         + (IF d[i].post # 0 THEN 1 ELSE 0) + Cardinality(Emitting(i))
    /\ d[i].dlq + d[i].dlqDropped = d[i].failed + (IF d[i].counted THEN 0 ELSE 1)

\* A dispatcher that has returned has posted every event that was queued when SetURL
\* or Close closed it: run drains its buffer first.  (An emit that passed the closed
\* check before and sends after is not among them.)
CloseDrains ==
  \A i \in Disps : d[i].done => Range(d[i].ch) \cap d[i].owed = {}
=============================================================================

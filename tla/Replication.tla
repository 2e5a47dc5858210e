---------------------------- MODULE Replication -----------------------------
(***************************************************************************)
(* Replication from a primary to its standbys: the push loop of the wal    *)
(* package, the subscribers of replication.Manager, the handler of         *)
(* subscribe_replication, and the standby side (RunStandby,                *)
(* applySnapshot), with promotion, broken connections and crashes.         *)
(*                                                                         *)
(* The registry's maps, which applySnapshot swaps together, are the number *)
(* of the primary's state they were copied from (ver); the trust pairs,    *)
(* which applySnapshot restores in a section of their own, are kept apart. *)
(* A connection is a FIFO of snapshots; heartbeats keep it open and carry  *)
(* nothing else.                                                           *)
(***************************************************************************)
EXTENDS Integers, Sequences

CONSTANTS
  Primary, Standbys,
  Pairs,           \* trust pairs
  MaxVer,          \* bound on the primary's mutations of the registry
  MaxTerm,         \* bound on the term of a server
  MaxEvents,       \* bound on crashes, broken connections and promotions
  PromoteMidApply  \* whether a standby is promoted while it applies a snapshot

ASSUME ReplicationAssumption ==
  /\ Primary \notin Standbys
  /\ MaxVer \in Nat /\ MaxTerm \in Nat /\ MaxEvents \in Nat
  /\ PromoteMidApply \in BOOLEAN

Servers == Standbys \cup {Primary}

Snapshot == [ver : Nat, pairs : SUBSET Pairs, term : Nat]

VARIABLES
  ver,             \* the registry maps of each server
  pairs,           \* the trust pairs of each server
  term,            \* Server.term
  disk,            \* the snapshot file of each server
  saving,          \* a handler of the primary has mutated and not yet saved
  pushCh,          \* Store.replicaPushCh holds a signal
  dirty,           \* replicaPushLoop's local of that name
  push,            \* the push under way: none, or a snapshot and its receivers
  link,            \* per standby: the connection and its handler's progress
  chan,            \* per standby: snapshots written and not yet read
  apply,           \* per standby: the applySnapshot under way
  events,          \* how many of those have happened
  had,             \* history: every <<ver, term>> the primary has had
  behind           \* history: subscribers since whose AddSub there was a mutation

contentVars == <<ver, pairs, term, disk>>
loopVars == <<saving, pushCh, dirty, push>>
linkVars == <<link, chan>>
historyVars == <<had, behind>>
replVars == <<contentVars, loopVars, linkVars, apply, events, historyVars>>

NoPush == [pc |-> "idle", snap |-> [ver |-> 0, pairs |-> {}, term |-> 0], to |-> {}]
NoApply == [pc |-> "idle", snap |-> [ver |-> 0, pairs |-> {}, term |-> 0]]

ReplicationInit ==
  /\ ver = [s \in Servers |-> 0] /\ term = [s \in Servers |-> 0]
  /\ pairs = [s \in Servers |-> {}]
  /\ disk = [s \in Servers |-> [ver |-> 0, pairs |-> {}, term |-> 0]]
  /\ saving = FALSE /\ pushCh = FALSE /\ dirty = FALSE
  /\ push = NoPush
  /\ link = [b \in Standbys |-> "down"] /\ chan = [b \in Standbys |-> <<>>]
  /\ apply = [b \in Standbys |-> NoApply]
  /\ events = 0
  /\ had = {<<0, 0>>}
  /\ behind = {}

-----------------------------------------------------------------------------
(* The primary *)

\* snapshotJSON copies maps, pairs and term while it holds Server.mu.
snapshotJSON == [ver |-> ver[Primary], pairs |-> pairs[Primary], term |-> term[Primary]]

Subs == {b \in Standbys : link[b] = "subscribed"}

\* A state the primary has never been in, for the next mutation.
Fresh(v) == /\ \A h \in had : h[1] # v
            /\ \A u \in 0 .. v - 1 : \E h \in had : h[1] = u

\* A handler changes the maps, or the trust store, and saves afterwards.
Mutate ==
  /\ ~saving
  /\ \E v \in 1 .. MaxVer :
       /\ Fresh(v)
       /\ ver' = [ver EXCEPT ![Primary] = v]
       /\ had' = had \cup {<<v, term[Primary]>>}
  /\ \/ UNCHANGED pairs
     \/ \E p \in Pairs :
          pairs' = [pairs EXCEPT ![Primary] = IF p \in @ THEN @ \ {p} ELSE @ \cup {p}]
  /\ saving' = TRUE
  /\ behind' = behind \cup Subs
  /\ UNCHANGED <<term, disk, pushCh, dirty, push, linkVars, apply, events>>

TriggerSave ==
  /\ saving
  /\ saving' = FALSE
  /\ pushCh' = TRUE
  /\ UNCHANGED <<contentVars, dirty, push, linkVars, apply, events, historyVars>>

\* replicaPushLoop receives the signal.
PushSignal ==
  /\ pushCh /\ push.pc = "idle"
  /\ pushCh' = FALSE
  /\ dirty' = TRUE
  /\ UNCHANGED <<contentVars, saving, push, linkVars, apply, events, historyVars>>

\* A tick with something to push and someone to push it to.
PushBuild ==
  /\ dirty /\ push.pc = "idle" /\ Subs # {}
  /\ push' = [pc |-> "built", snap |-> snapshotJSON, to |-> {}]
  /\ UNCHANGED <<contentVars, saving, pushCh, dirty, linkVars, apply, events, historyVars>>

PushSkip ==
  /\ dirty /\ push.pc = "idle" /\ Subs = {}
  /\ dirty' = FALSE
  /\ UNCHANGED <<contentVars, saving, pushCh, push, linkVars, apply, events, historyVars>>

\* Manager.Push copies the writers under its lock, then writes to each.
PushFanOut ==
  /\ push.pc = "built"
  /\ push' = [push EXCEPT !.pc = "sending", !.to = Subs]
  /\ UNCHANGED <<contentVars, saving, pushCh, dirty, linkVars, apply, events, historyVars>>

PushSend(b) ==
  /\ push.pc = "sending" /\ b \in push.to
  /\ push' = [push EXCEPT !.to = @ \ {b}]
  /\ chan' = [chan EXCEPT ![b] = Append(@, push.snap)]
  /\ UNCHANGED <<contentVars, saving, pushCh, dirty, link, apply, events, historyVars>>

\* The loop forgets what it has pushed; a signal that came meanwhile is still
\* in the channel.
PushDone_DrainsSignal ==
  /\ push.pc = "sending" /\ push.to = {}
  /\ push' = NoPush
  /\ dirty' = FALSE
  /\ pushCh' = FALSE
  /\ UNCHANGED <<contentVars, saving, linkVars, apply, events, historyVars>>

PushDone ==
  /\ push.pc = "sending" /\ push.to = {}
  /\ push' = NoPush
  /\ dirty' = FALSE
  /\ UNCHANGED <<contentVars, saving, pushCh, linkVars, apply, events, historyVars>>

\* saveLoop writes the primary's snapshot file.  flushSave leaves the term out.
flushSaved(s) == [ver |-> ver[s], pairs |-> pairs[s], term |-> 0]

FlushPrimary ==
  /\ disk' = [disk EXCEPT ![Primary] = flushSaved(Primary)]
  /\ UNCHANGED <<ver, pairs, term, loopVars, linkVars, apply, events, historyVars>>

-----------------------------------------------------------------------------
(* The connection and its handler on the primary *)

Dial(b) ==
  /\ link[b] = "down"
  /\ link' = [link EXCEPT ![b] = "dialed"]
  /\ UNCHANGED <<contentVars, loopVars, chan, apply, events, historyVars>>

\* handleSubscribeReplication: the current snapshot goes out first, ...
SubscribeSnapshot(b) ==
  /\ link[b] = "dialed"
  /\ link' = [link EXCEPT ![b] = "sent"]
  /\ chan' = [chan EXCEPT ![b] = Append(@, snapshotJSON)]
  /\ UNCHANGED <<contentVars, loopVars, apply, events, historyVars>>

\* ... then the connection joins the subscribers.
AddSub(b) ==
  /\ link[b] = "sent"
  /\ link' = [link EXCEPT ![b] = "subscribed"]
  /\ UNCHANGED <<contentVars, loopVars, chan, apply, events, historyVars>>

\* A standby never writes to its connection, so the handler's read times out
\* after 60 s: RemoveSub, and the connection is closed.  A push that still
\* holds the connection fails on it.
ReadTimeout_Ignored(b) ==
  FALSE /\ UNCHANGED replVars

ReadTimeout(b) ==
  /\ link[b] = "subscribed"
  /\ link' = [link EXCEPT ![b] = "closed"]
  /\ push' = [push EXCEPT !.to = @ \ {b}]
  /\ behind' = behind \ {b}
  /\ UNCHANGED <<contentVars, saving, pushCh, dirty, chan, apply, events, had>>

\* The connection breaks, with what is in flight, or a write to it fails.
Break(b) ==
  /\ events < MaxEvents /\ events' = events + 1
  /\ link[b] \in {"dialed", "sent", "subscribed"}
  /\ link' = [link EXCEPT ![b] = "closed"]
  /\ chan' \in {chan, [chan EXCEPT ![b] = <<>>]}
  /\ push' = [push EXCEPT !.to = @ \ {b}]
  /\ behind' = behind \ {b}
  /\ UNCHANGED <<contentVars, saving, pushCh, dirty, apply, had>>

\* standbySession ends at the end of the stream; RunStandby waits and dials.
SessionEnd(b) ==
  /\ link[b] = "closed" /\ chan[b] = <<>> /\ apply[b].pc = "idle"
  /\ link' = [link EXCEPT ![b] = "down"]
  /\ UNCHANGED <<contentVars, loopVars, chan, apply, events, historyVars>>

-----------------------------------------------------------------------------
(* applySnapshot on a standby *)

\* The term is compared before the new maps are built.
Receive_NoTermCheck(b) ==
  /\ chan[b] # <<>> /\ apply[b].pc = "idle"
  /\ chan' = [chan EXCEPT ![b] = Tail(@)]
  /\ apply' = [apply EXCEPT ![b] = [pc |-> "checked", snap |-> Head(chan[b])]]
  /\ UNCHANGED <<contentVars, loopVars, link, events, historyVars>>

Receive(b) ==
  /\ chan[b] # <<>> /\ apply[b].pc = "idle"
  /\ chan' = [chan EXCEPT ![b] = Tail(@)]
  /\ apply' = IF Head(chan[b]).term < term[b] THEN apply
              ELSE [apply EXCEPT ![b] = [pc |-> "checked", snap |-> Head(chan[b])]]
  /\ UNCHANGED <<contentVars, loopVars, link, events, historyVars>>

Swap(b) ==
  /\ apply[b].pc = "checked"
  /\ ver' = [ver EXCEPT ![b] = apply[b].snap.ver]
  /\ term' = [term EXCEPT ![b] = apply[b].snap.term]
  /\ apply' = [apply EXCEPT ![b].pc = "swapped"]
  /\ UNCHANGED <<pairs, disk, loopVars, linkVars, events, historyVars>>

\* RestorePairs adds the snapshot's pairs to those the standby has.
RestorePairs(b) ==
  /\ apply[b].pc = "swapped"
  /\ pairs' = [pairs EXCEPT ![b] = @ \cup apply[b].snap.pairs]
  /\ apply' = [apply EXCEPT ![b] = [NoApply EXCEPT !.pc = "restored"]]
  /\ UNCHANGED <<ver, term, disk, loopVars, linkVars, events, historyVars>>

\* The save at the end; when it fails that is logged.
FlushApplied(b) ==
  /\ apply[b].pc = "restored"
  /\ disk' \in {disk, [disk EXCEPT ![b] = flushSaved(b)]}
  /\ apply' = [apply EXCEPT ![b] = NoApply]
  /\ UNCHANGED <<ver, pairs, term, loopVars, linkVars, events, historyVars>>

-----------------------------------------------------------------------------
(* Promotion and crashes *)

PromoteToPrimary(s) ==
  /\ term[s] < MaxTerm /\ events < MaxEvents /\ events' = events + 1
  /\ s \in Standbys /\ ~PromoteMidApply => apply[s].pc = "idle"
  /\ term' = [term EXCEPT ![s] = @ + 1]
  /\ had' = IF s = Primary THEN had \cup {<<ver[s], term[s] + 1>>} ELSE had
  /\ disk' = [disk EXCEPT ![s] = flushSaved(s)]
  /\ UNCHANGED <<ver, pairs, loopVars, linkVars, apply, behind>>

\* A restart loads the file.  The primary's WAL may bring its maps up to date,
\* but holds no trust pairs and no term; a standby writes no WAL.
Loaded(s, v) ==
  /\ ver' = [ver EXCEPT ![s] = v]
  /\ pairs' = [pairs EXCEPT ![s] = disk[s].pairs]
  /\ term' = [term EXCEPT ![s] = disk[s].term]

CrashPrimary ==
  /\ events < MaxEvents /\ events' = events + 1
  /\ \E v \in {disk[Primary].ver, ver[Primary]} :
       /\ Loaded(Primary, v)
       /\ had' = had \cup {<<v, disk[Primary].term>>}
  /\ saving' = FALSE /\ pushCh' = FALSE /\ dirty' = FALSE /\ push' = NoPush
  /\ link' = [b \in Standbys |-> IF link[b] = "down" THEN "down" ELSE "closed"]
  /\ behind' = {}
  /\ UNCHANGED <<disk, chan, apply>>

CrashStandby(b) ==
  /\ events < MaxEvents /\ events' = events + 1
  /\ Loaded(b, disk[b].ver)
  /\ apply' = [apply EXCEPT ![b] = NoApply]
  /\ link' = [link EXCEPT ![b] = "down"]
  /\ chan' = [chan EXCEPT ![b] = <<>>]
  /\ push' = [push EXCEPT !.to = @ \ {b}]
  /\ behind' = behind \ {b}
  /\ UNCHANGED <<disk, saving, pushCh, dirty, had>>

-----------------------------------------------------------------------------

PushLoop ==
  PushSignal \/ PushBuild \/ PushSkip \/ PushFanOut \/ PushDone
  \/ \E b \in Standbys : PushSend(b)

SubscribeHandler(b) == SubscribeSnapshot(b) \/ AddSub(b) \/ ReadTimeout(b)

RunStandby(b) ==
  Dial(b) \/ SessionEnd(b) \/ Receive(b) \/ Swap(b) \/ RestorePairs(b) \/ FlushApplied(b)

ReplicationNext ==
  \/ Mutate \/ TriggerSave \/ FlushPrimary \/ PushLoop \/ CrashPrimary
  \/ \E b \in Standbys :
       SubscribeHandler(b) \/ RunStandby(b) \/ Break(b) \/ CrashStandby(b)
  \/ \E s \in Servers : PromoteToPrimary(s)

ReplicationSafety == ReplicationInit /\ [][ReplicationNext]_replVars

\* Every goroutine that can take a step takes it: tickers tick, deadlines expire.
ReplicationFairness ==
  /\ WF_replVars(TriggerSave) /\ WF_replVars(PushLoop)
  /\ \A b \in Standbys : WF_replVars(SubscribeHandler(b)) /\ WF_replVars(RunStandby(b))

ReplicationSpec == ReplicationSafety /\ ReplicationFairness

-----------------------------------------------------------------------------
(* Properties *)

RS == INSTANCE ReplicaSpec WITH
  States <- Nat,
  replica <- [b \in Standbys |-> ver[b]],
  epoch <- [b \in Standbys |-> term[b]],
  online <- [b \in Standbys |-> link[b] # "down"]

\* The replication code implements ReplicaSpec: whatever is pushed, lost or
\* cut off by a crash, applySnapshot leaves a standby in a whole state of the
\* primary, and never takes it to a lower term than it is in.
StandbyIsReplica == RS!Replicated

\* A subscriber misses no mutation made after AddSub: once the push loop has
\* nothing left to do, the last snapshot it was sent is the current one, as long
\* as no promotion makes it reject one ("Subscribers receive updates within
\* replicaPushInterval of any mutation", flushSave).
LastSent(b) ==
  IF chan[b] # <<>> THEN chan[b][Len(chan[b])].ver
  ELSE IF apply[b].pc = "checked" THEN apply[b].snap.ver ELSE ver[b]
PushComplete ==
  \A b \in Subs \cap behind :
    /\ \A s \in Servers : term[s] = 0
    /\ ~saving /\ ~pushCh /\ ~dirty
    => LastSent(b) = ver[Primary]

\* Once the primary is left alone, a standby that is not ahead of it in term
\* comes to hold its maps and its trust pairs, although a mutation between the
\* first snapshot of a subscription and AddSub is not pushed to it.
Converges ==
  \A b \in Standbys :
    <>[](\/ term[b] > term[Primary]
         \/ ver[b] = ver[Primary] /\ pairs[Primary] \subseteq pairs[b])

\* The term is a monotonic epoch, also across a restart of a promoted server
\* ("increments the replication term and persists it", PromoteToPrimary).
TermMonotonic == [][\A s \in Servers : term'[s] >= term[s]]_replVars
=============================================================================

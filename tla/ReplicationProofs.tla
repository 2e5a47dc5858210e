------------------------- MODULE ReplicationProofs --------------------------
(***************************************************************************)
(* Replication implements ReplicaSpec, for every number of standbys, of    *)
(* trust pairs, mutations, promotions and faults, when no standby is       *)
(* promoted while it applies a snapshot; and no subscriber misses a        *)
(* mutation.                                                               *)
(*                                                                         *)
(* A step of a standby must end in a state that is in had, so the          *)
(* invariant follows every copy of a primary's state: in the push under    *)
(* way, in the connections, in the applySnapshot under way, on disk.       *)
(* A second invariant says that a standby which applies one has a session, *)
(* a third where in the push loop a mutation is that it still has to get.  *)
(***************************************************************************)
EXTENDS Replication, TLAPS

\* The snapshot is a state the primary has had.
Published(snap) == <<snap.ver, snap.term>> \in had

\* Some state the primary has had has these maps.
Known(v) == \E h \in had : h[1] = v

\* Every snapshot under way is one of the primary's states.
InFlightPublished ==
  /\ Published(push.snap)
  /\ \A b \in Standbys : \A i \in 1 .. Len(chan[b]) : Published(chan[b][i])
  /\ \A b \in Standbys : Published(apply[b].snap)

\* A standby's maps are the primary's at some time, in memory and on disk.
MapsKnown == \A s \in Servers : Known(ver[s]) /\ Known(disk[s].ver) /\ disk[s].term = 0

\* applySnapshot holds a snapshot whose term is not stale, unless a promotion came between.
CheckedHolds ==
  ~PromoteMidApply => \A b \in Standbys : apply[b].pc = "checked" => apply[b].snap.term >= term[b]

\* The types of the state the argument is about.
CopiesTyped ==
  /\ ver \in [Servers -> Nat] /\ term \in [Servers -> Nat]
  /\ pairs \in [Servers -> SUBSET Pairs]
  /\ disk \in [Servers -> Snapshot]
  /\ push \in [pc : {"idle", "built", "sending"}, snap : Snapshot, to : SUBSET Standbys]
  /\ chan \in [Standbys -> Seq(Snapshot)]
  /\ apply \in [Standbys -> [pc : {"idle", "checked", "swapped", "restored"}, snap : Snapshot]]
  /\ had \subseteq Nat \X Nat

\* The inductive invariant of the refinement.
ReplicaInv ==
  /\ CopiesTyped
  /\ <<ver[Primary], term[Primary]>> \in had
  /\ <<0, 0>> \in had
  /\ InFlightPublished
  /\ MapsKnown
  /\ CheckedHolds

\* A server started without a snapshot satisfies the invariant.
LEMMA ReplicaInvInit == ReplicationInit => ReplicaInv
<1> SUFFICES ASSUME ReplicationInit PROVE ReplicaInv
  OBVIOUS
<1> USE ReplicationAssumption DEF ReplicationInit
<1>1. CopiesTyped
  <2>1. chan \in [Standbys -> Seq(Snapshot)]
    OBVIOUS
  <2>2. had \subseteq Nat \X Nat
    OBVIOUS
  <2> QED
    BY <2>1, <2>2 DEF CopiesTyped, NoPush, NoApply, Snapshot
<1>2. <<ver[Primary], term[Primary]>> \in had /\ <<0, 0>> \in had
  BY DEF Servers
<1>3. InFlightPublished
  BY DEF InFlightPublished, Published, NoPush, NoApply
<1>4. MapsKnown
  BY DEF MapsKnown, Known
<1>5. CheckedHolds
  BY DEF CheckedHolds, NoApply
<1> QED
  BY <1>1, <1>2, <1>3, <1>4, <1>5 DEF ReplicaInv

-----------------------------------------------------------------------------

\* The variables that the invariant reads.
copyVars == <<ver, pairs, term, disk, push, chan, apply, had>>

\* A step that leaves all copies alone keeps the invariant.
LEMMA ReplicaInvStutter == ReplicaInv /\ UNCHANGED copyVars => ReplicaInv'
BY DEF ReplicaInv, copyVars, CopiesTyped, InFlightPublished, Published, MapsKnown, Known,
       CheckedHolds

\* had only grows, so a published snapshot stays published.
LEMMA HadGrows ==
  ASSUME had \subseteq had'
  PROVE  /\ \A snap : Published(snap) => <<snap.ver, snap.term>> \in had'
         /\ \A v : Known(v) => \E h \in had' : h[1] = v
BY DEF Published, Known

\* The first component of a state in had is known.
LEMMA PairKnown ==
  ASSUME NEW S, NEW v, NEW t, <<v, t>> \in S
  PROVE  \E h \in S : h[1] = v
<1>1. <<v, t>>[1] = v
  OBVIOUS
<1> QED
  BY <1>1

\* A mutation moves the primary to a state that joins had.
LEMMA MutateKeeps == ReplicaInv /\ Mutate => ReplicaInv'
<1> SUFFICES ASSUME ReplicaInv, Mutate PROVE ReplicaInv'
  OBVIOUS
<1> USE DEF ReplicaInv
<1>1. PICK v \in 1 .. MaxVer :
        /\ ver' = [ver EXCEPT ![Primary] = v]
        /\ had' = had \cup {<<v, term[Primary]>>}
  BY ZenonT(30) DEF Mutate
<1>2. /\ UNCHANGED <<term, disk, push, chan, apply>>
      /\ v \in Nat /\ Primary \in Servers /\ term[Primary] \in Nat
  BY ReplicationAssumption DEF Mutate, linkVars, CopiesTyped, Servers
<1>3. pairs' \in [Servers -> SUBSET Pairs]
  <2>1. CASE UNCHANGED pairs
    BY <2>1 DEF CopiesTyped
  <2>2. ASSUME NEW p \in Pairs,
               pairs' = [pairs EXCEPT ![Primary] = IF p \in @ THEN @ \ {p} ELSE @ \cup {p}]
        PROVE  pairs' \in [Servers -> SUBSET Pairs]
    BY <1>2, <2>2 DEF CopiesTyped
  <2> QED
    BY <2>1, <2>2 DEF Mutate
<1>4. CopiesTyped'
  <2>1. had' \subseteq Nat \X Nat
    BY <1>1, <1>2 DEF CopiesTyped
  <2>2. ver' \in [Servers -> Nat]
    BY <1>1, <1>2 DEF CopiesTyped
  <2> QED
    BY <1>2, <1>3, <2>1, <2>2 DEF CopiesTyped
<1>5. <<ver[Primary], term[Primary]>>' \in had' /\ <<0, 0>> \in had'
  BY <1>1, <1>2 DEF CopiesTyped
<1>6. InFlightPublished'
  BY <1>1, <1>2 DEF InFlightPublished, Published
<1>7. MapsKnown'
  <2> SUFFICES ASSUME NEW s \in Servers
               PROVE  /\ \E h \in had' : h[1] = ver'[s]
                      /\ \E h \in had' : h[1] = disk'[s].ver
                      /\ disk'[s].term = 0
    BY DEF MapsKnown, Known
  <2>1. \E h \in had' : h[1] = ver'[s]
    <3>1. CASE s = Primary
      <4>1. <<v, term[Primary]>> \in had' /\ ver'[s] = v
        BY <1>1, <1>2, <3>1 DEF CopiesTyped
      <4> QED
        BY <4>1, PairKnown
    <3>2. CASE s # Primary
      BY <1>1, <1>2, <3>2 DEF CopiesTyped, MapsKnown, Known
    <3> QED
      BY <3>1, <3>2
  <2> QED
    BY <1>1, <1>2, <2>1 DEF MapsKnown, Known
<1>8. CheckedHolds'
  BY <1>2 DEF CheckedHolds
<1> QED
  BY <1>4, <1>5, <1>6, <1>7, <1>8

\* A connection that is lost with what is in flight.
LEMMA EmptiedChan ==
  ASSUME CopiesTyped, InFlightPublished, NEW b \in Standbys,
         chan' = [chan EXCEPT ![b] = <<>>]
  PROVE  /\ chan' \in [Standbys -> Seq(Snapshot)]
         /\ \A c \in Standbys : \A i \in 1 .. Len(chan'[c]) : Published(chan'[c][i])
<1>1. <<>> \in Seq(Snapshot) /\ Len(<<>>) = 0
  OBVIOUS
<1>2. chan' \in [Standbys -> Seq(Snapshot)]
  BY <1>1 DEF CopiesTyped
<1>3. ASSUME NEW c \in Standbys, NEW i \in 1 .. Len(chan'[c])
      PROVE  Published(chan'[c][i])
  <2>1. CASE c = b
    BY <1>1, <1>3, <2>1 DEF CopiesTyped
  <2>2. CASE c # b
    BY <1>3, <2>2 DEF CopiesTyped, InFlightPublished
  <2> QED
    BY <2>1, <2>2
<1> QED
  BY <1>2, <1>3

\* The push loop and the subscribe handler copy the primary's state as it is.
LEMMA PushKeeps ==
  ASSUME ReplicaInv, NEW b,
         \/ PushBuild \/ PushFanOut \/ PushDone
         \/ b \in Standbys /\ (PushSend(b) \/ SubscribeSnapshot(b) \/ ReadTimeout(b) \/ Break(b))
  PROVE  ReplicaInv'
<1> USE DEF ReplicaInv
<1>0. /\ UNCHANGED <<ver, pairs, term, disk, apply, had>>
      /\ Primary \in Servers
  BY DEF PushBuild, PushFanOut, PushDone, PushSend, SubscribeSnapshot, ReadTimeout, Break,
         contentVars, historyVars, Servers
<1>1. snapshotJSON \in Snapshot /\ Published(snapshotJSON)
  BY <1>0 DEF CopiesTyped, snapshotJSON, Snapshot, Published
<1>2. NoPush.snap \in Snapshot /\ Published(NoPush.snap)
  BY DEF NoPush, Snapshot, Published
<1>3. /\ push' \in [pc : {"idle", "built", "sending"}, snap : Snapshot, to : SUBSET Standbys]
      /\ Published(push'.snap)
  <2>0. push.snap \in Snapshot /\ Published(push.snap) /\ Subs \subseteq Standbys
    BY DEF CopiesTyped, InFlightPublished, Subs
  <2>1. CASE PushBuild
    BY <1>1, <2>1 DEF PushBuild
  <2>2. CASE PushFanOut
    BY <2>0, <2>2, ZenonT(30) DEF PushFanOut, CopiesTyped
  <2>3. CASE PushDone
    BY <1>2, <2>3 DEF PushDone, NoPush
  <2>4. CASE PushSend(b) \/ ReadTimeout(b) \/ Break(b)
    <3>1. push' = [push EXCEPT !.to = @ \ {b}]
      BY <2>4 DEF PushSend, ReadTimeout, Break
    <3> QED
      BY <2>0, <3>1, ZenonT(30) DEF CopiesTyped
  <2>5. CASE SubscribeSnapshot(b)
    BY <2>0, <2>5 DEF SubscribeSnapshot, loopVars, CopiesTyped
  <2> QED
    BY <2>1, <2>2, <2>3, <2>4, <2>5
<1>4. /\ chan' \in [Standbys -> Seq(Snapshot)]
      /\ \A c \in Standbys : \A i \in 1 .. Len(chan'[c]) : Published(chan'[c][i])
  <2>0. /\ chan \in [Standbys -> Seq(Snapshot)]
        /\ \A c \in Standbys : \A i \in 1 .. Len(chan[c]) : Published(chan[c][i])
    BY DEF CopiesTyped, InFlightPublished
  <2>1. ASSUME NEW snap \in Snapshot, Published(snap), b \in Standbys,
               chan' = [chan EXCEPT ![b] = Append(@, snap)]
        PROVE  <1>4!1 /\ <1>4!2
    <3>1. chan' \in [Standbys -> Seq(Snapshot)]
      BY <2>0, <2>1
    <3>2. ASSUME NEW c \in Standbys, NEW i \in 1 .. Len(chan'[c])
          PROVE  Published(chan'[c][i])
      <4>1. CASE c # b
        BY <2>0, <2>1, <3>2, <4>1
      <4>2. CASE c = b
        <5>1. chan'[b] = Append(chan[b], snap) /\ chan[b] \in Seq(Snapshot)
          BY <2>0, <2>1
        <5>2. i \in 1 .. Len(chan[b]) \/ i = Len(chan[b]) + 1
          BY <3>2, <4>2, <5>1
        <5>3. CASE i \in 1 .. Len(chan[b])
          <6>1. chan'[b][i] = chan[b][i]
            BY <5>1, <5>3
          <6> QED
            BY <2>0, <4>2, <5>3, <6>1
        <5>4. CASE i = Len(chan[b]) + 1
          <6>1. chan'[b][i] = snap
            BY <5>1, <5>4
          <6> QED
            BY <2>1, <4>2, <6>1
        <5> QED
          BY <5>2, <5>3, <5>4
      <4> QED
        BY <4>1, <4>2
    <3> QED
      BY <3>1, <3>2
  <2>2. CASE b \in Standbys /\ PushSend(b)
    BY <2>1, <2>2 DEF PushSend, CopiesTyped, InFlightPublished
  <2>3. CASE b \in Standbys /\ SubscribeSnapshot(b)
    BY <1>1, <2>1, <2>3, ZenonT(30) DEF SubscribeSnapshot
  <2>4. CASE b \in Standbys /\ Break(b)
    <3>1. CASE chan' = chan
      BY <2>0, <3>1
    <3>2. CASE chan' = [chan EXCEPT ![b] = <<>>]
      BY <2>4, <3>2, EmptiedChan, ZenonT(30)
    <3> QED
      BY <2>4, <3>1, <3>2 DEF Break
  <2>5. CASE PushBuild \/ PushFanOut \/ PushDone \/ ReadTimeout(b)
    BY <2>0, <2>5 DEF PushBuild, PushFanOut, PushDone, ReadTimeout, linkVars
  <2> QED
    BY <2>2, <2>3, <2>4, <2>5
<1>5. CopiesTyped'
  BY <1>0, <1>3, <1>4 DEF CopiesTyped
<1>6. InFlightPublished'
  BY <1>0, <1>3, <1>4 DEF InFlightPublished, Published
<1>7. MapsKnown' /\ CheckedHolds' /\ <<ver[Primary], term[Primary]>>' \in had'
  BY <1>0 DEF MapsKnown, Known, CheckedHolds
<1> QED
  BY <1>0, <1>5, <1>6, <1>7

\* A standby's steps: what it receives, swaps in and saves was published, and it
\* holds on to a snapshot only when its term is not stale.
LEMMA StandbyKeeps ==
  ASSUME ReplicaInv, NEW b \in Standbys,
         Receive(b) \/ Swap(b) \/ RestorePairs(b) \/ FlushApplied(b)
  PROVE  ReplicaInv'
<1> USE DEF ReplicaInv
<1>0. /\ UNCHANGED <<push, had>>
      /\ b # Primary /\ b \in Servers /\ Primary \in Servers
      /\ apply[b].snap \in Snapshot /\ Published(apply[b].snap)
  BY ReplicationAssumption, SMTT(30)
     DEF Receive, Swap, RestorePairs, FlushApplied, loopVars, historyVars, Servers,
         CopiesTyped, InFlightPublished
<1>1. CASE Receive(b)
  <2>0. /\ UNCHANGED <<ver, pairs, term, disk>> /\ chan[b] # <<>>
        /\ chan' = [chan EXCEPT ![b] = Tail(@)]
        /\ chan \in [Standbys -> Seq(Snapshot)] /\ chan[b] \in Seq(Snapshot)
    BY <1>1 DEF Receive, contentVars, CopiesTyped
  <2>1. Head(chan[b]) \in Snapshot /\ Published(Head(chan[b]))
    <3>1. Head(chan[b]) = chan[b][1] /\ 1 \in 1 .. Len(chan[b])
      BY <2>0
    <3> QED
      BY <2>0, <3>1 DEF InFlightPublished
  <2>2. /\ chan' \in [Standbys -> Seq(Snapshot)]
        /\ \A c \in Standbys : \A i \in 1 .. Len(chan'[c]) : Published(chan'[c][i])
    <3>1. chan' \in [Standbys -> Seq(Snapshot)]
      BY <2>0
    <3>2. ASSUME NEW c \in Standbys, NEW i \in 1 .. Len(chan'[c])
          PROVE  Published(chan'[c][i])
      <4>1. CASE c # b
        BY <2>0, <3>2, <4>1 DEF InFlightPublished
      <4>2. CASE c = b
        <5>1. chan'[b] = Tail(chan[b])
          BY <2>0
        <5>2. i + 1 \in 1 .. Len(chan[b]) /\ chan'[b][i] = chan[b][i + 1]
          BY <2>0, <3>2, <4>2, <5>1
        <5> QED
          BY <4>2, <5>2 DEF InFlightPublished
      <4> QED
        BY <4>1, <4>2
    <3> QED
      BY <3>1, <3>2
  <2>3. /\ apply' \in [Standbys -> [pc : {"idle", "checked", "swapped", "restored"}, snap : Snapshot]]
        /\ \A c \in Standbys : Published(apply'[c].snap)
    <3>1. CASE apply' = apply
      BY <3>1 DEF CopiesTyped, InFlightPublished
    <3>2. CASE apply' = [apply EXCEPT ![b] = [pc |-> "checked", snap |-> Head(chan[b])]]
      BY <2>1, <3>2 DEF CopiesTyped, InFlightPublished
    <3> QED
      BY <1>1, <3>1, <3>2 DEF Receive
  <2>4. CheckedHolds'
    <3> SUFFICES ASSUME ~PromoteMidApply, NEW c \in Standbys, apply'[c].pc = "checked"
                 PROVE  apply'[c].snap.term >= term[c]
      BY <2>0 DEF CheckedHolds
    <3>1. CASE apply' = apply
      BY <3>1 DEF CheckedHolds
    <3>2. CASE /\ ~(Head(chan[b]).term < term[b])
               /\ apply' = [apply EXCEPT ![b] = [pc |-> "checked", snap |-> Head(chan[b])]]
      <4>1. Head(chan[b]).term \in Nat /\ term[b] \in Nat
        BY <1>0, <2>1, SMTT(30) DEF Snapshot, CopiesTyped
      <4>2. CASE c = b
        BY <3>2, <4>1, <4>2 DEF CopiesTyped
      <4>3. CASE c # b
        BY <3>2, <4>3 DEF CopiesTyped, CheckedHolds
      <4> QED
        BY <4>2, <4>3
    <3> QED
      BY <1>1, <3>1, <3>2 DEF Receive
  <2>5. CopiesTyped'
    BY <1>0, <2>0, <2>2, <2>3, SMTT(30) DEF CopiesTyped
  <2>6. InFlightPublished'
    BY <1>0, <2>2, <2>3, SMTT(30) DEF InFlightPublished, Published
  <2> QED
    BY <1>0, <2>0, <2>4, <2>5, <2>6 DEF MapsKnown, Known
<1>2. CASE Swap(b)
  <2>0. /\ UNCHANGED <<pairs, disk, chan>>
        /\ ver' = [ver EXCEPT ![b] = apply[b].snap.ver]
        /\ term' = [term EXCEPT ![b] = apply[b].snap.term]
        /\ apply' = [apply EXCEPT ![b].pc = "swapped"]
    BY <1>2 DEF Swap, linkVars
  <2>1. apply[b].snap.ver \in Nat /\ apply[b].snap.term \in Nat
    BY <1>0 DEF Snapshot
  <2>2. CopiesTyped'
    <3>1. apply' \in [Standbys -> [pc : {"idle", "checked", "swapped", "restored"}, snap : Snapshot]]
      BY <2>0, ZenonT(30) DEF CopiesTyped
    <3>2. ver' \in [Servers -> Nat] /\ term' \in [Servers -> Nat]
      BY <2>0, <2>1, ZenonT(30) DEF CopiesTyped
    <3> QED
      BY <1>0, <2>0, <3>1, <3>2 DEF CopiesTyped
  <2>3. InFlightPublished'
    <3>1. \A c \in Standbys : apply'[c].snap = apply[c].snap
      BY <2>0 DEF CopiesTyped
    <3> QED
      BY <1>0, <2>0, <3>1 DEF InFlightPublished, Published
  <2>4. MapsKnown'
    <3> SUFFICES ASSUME NEW s \in Servers PROVE Known(ver'[s])
      BY <1>0, <2>0 DEF MapsKnown, Known
    <3>1. CASE s = b
      BY <1>0, <2>0, <3>1, PairKnown, ZenonT(30) DEF CopiesTyped, Published, Known
    <3>2. CASE s # b
      BY <2>0, <3>2 DEF CopiesTyped, MapsKnown
    <3> QED
      BY <3>1, <3>2
  <2>5. CheckedHolds'
    BY <2>0 DEF CheckedHolds, CopiesTyped, Servers
  <2>6. <<ver[Primary], term[Primary]>>' \in had'
    BY <1>0, <2>0, ZenonT(30) DEF CopiesTyped
  <2> QED
    BY <1>0, <2>2, <2>3, <2>4, <2>5, <2>6
<1>3. CASE RestorePairs(b) \/ FlushApplied(b)
  <2>0. UNCHANGED <<ver, term, chan>>
    BY <1>3 DEF RestorePairs, FlushApplied, linkVars
  <2>1. /\ apply' \in [Standbys -> [pc : {"idle", "checked", "swapped", "restored"}, snap : Snapshot]]
        /\ \A c \in Standbys : Published(apply'[c].snap)
        /\ CheckedHolds'
    <3>1. PICK pc \in {"idle", "restored"} : apply' = [apply EXCEPT ![b] = [NoApply EXCEPT !.pc = pc]]
      BY <1>3, ZenonT(30) DEF RestorePairs, FlushApplied, NoApply
    <3>2. [NoApply EXCEPT !.pc = pc].snap \in Snapshot /\ Published([NoApply EXCEPT !.pc = pc].snap)
      BY DEF NoApply, Snapshot, Published
    <3>3. [NoApply EXCEPT !.pc = pc] \in [pc : {"idle", "checked", "swapped", "restored"}, snap : Snapshot]
      BY <3>1 DEF NoApply, Snapshot
    <3>4. [NoApply EXCEPT !.pc = pc].pc # "checked"
      BY <3>1 DEF NoApply
    <3> QED
      BY <2>0, <3>1, <3>2, <3>3, <3>4 DEF CopiesTyped, InFlightPublished, CheckedHolds
  <2>2. pairs' \in [Servers -> SUBSET Pairs]
    <3>1. apply[b].snap.pairs \subseteq Pairs
      BY <1>0 DEF Snapshot
    <3>2. CASE RestorePairs(b)
      <4>1. pairs' = [pairs EXCEPT ![b] = @ \cup apply[b].snap.pairs]
        BY <3>2 DEF RestorePairs
      <4> QED
        BY <3>1, <4>1, ZenonT(30) DEF CopiesTyped
    <3>3. CASE FlushApplied(b)
      BY <3>3 DEF FlushApplied, CopiesTyped
    <3> QED
      BY <1>3, <3>2, <3>3
  <2>3. disk' \in [Servers -> Snapshot] /\ MapsKnown'
    <3>1. flushSaved(b) \in Snapshot /\ flushSaved(b).ver = ver[b] /\ flushSaved(b).term = 0
      BY <1>0 DEF flushSaved, Snapshot, CopiesTyped
    <3>2. CASE disk' = disk
      BY <1>0, <2>0, <3>2 DEF CopiesTyped, MapsKnown, Known
    <3>3. CASE disk' = [disk EXCEPT ![b] = flushSaved(b)]
      <4>1. disk' \in [Servers -> Snapshot]
        BY <3>1, <3>3, ZenonT(30) DEF CopiesTyped
      <4>2. ASSUME NEW r \in Servers
            PROVE  Known(ver[r]) /\ Known(disk'[r].ver) /\ disk'[r].term = 0
        <5>1. Known(ver[r]) /\ Known(disk[r].ver) /\ disk[r].term = 0
          BY DEF MapsKnown
        <5>2. disk'[r] = IF r = b THEN flushSaved(b) ELSE disk[r]
          BY <3>3 DEF CopiesTyped
        <5> QED
          BY <3>1, <5>1, <5>2
      <4> QED
        BY <1>0, <2>0, <4>1, <4>2 DEF MapsKnown, Known
    <3> QED
      BY <1>3, <3>2, <3>3 DEF RestorePairs, FlushApplied
  <2>4. CopiesTyped'
    BY <1>0, <2>0, <2>1, <2>2, <2>3, SMTT(30) DEF CopiesTyped
  <2>5. InFlightPublished'
    BY <1>0, <2>0, <2>1, SMTT(30) DEF InFlightPublished, Published
  <2> QED
    BY <1>0, <2>0, <2>1, <2>3, <2>4, <2>5
<1> QED
  BY <1>1, <1>2, <1>3

\* Saving, promoting and restarting a server: what is on disk was published.
LEMMA ServerKeeps ==
  ASSUME ReplicaInv, NEW s \in Servers,
         \/ s = Primary /\ FlushPrimary
         \/ s = Primary /\ CrashPrimary
         \/ s \in Standbys /\ CrashStandby(s)
         \/ PromoteToPrimary(s)
  PROVE  ReplicaInv'
<1> USE DEF ReplicaInv
<1>0. /\ Primary \in Servers /\ Primary \notin Standbys /\ had \subseteq had'
      /\ ver[s] \in Nat /\ term[s] \in Nat
      /\ disk[s] \in Snapshot /\ disk[s].ver \in Nat /\ disk[s].term = 0
      /\ disk[s].pairs \subseteq Pairs
  BY ReplicationAssumption, SMTT(30)
     DEF Servers, FlushPrimary, CrashPrimary, CrashStandby, PromoteToPrimary, historyVars,
         CopiesTyped, MapsKnown, Snapshot
<1>1. flushSaved(s) \in Snapshot /\ flushSaved(s).ver = ver[s] /\ flushSaved(s).term = 0
  BY <1>0 DEF flushSaved, Snapshot, CopiesTyped
<1>2. NoPush.snap \in Snapshot /\ Published(NoPush.snap)
  BY DEF NoPush, Snapshot, Published
<1>3. NoApply.snap \in Snapshot /\ Published(NoApply.snap)
  BY DEF NoApply, Snapshot, Published
<1>4. CASE s = Primary /\ FlushPrimary
  <2>0. /\ UNCHANGED <<ver, pairs, term, push, chan, apply, had>>
        /\ disk' = [disk EXCEPT ![s] = flushSaved(s)]
    BY <1>4 DEF FlushPrimary, loopVars, linkVars, historyVars
  <2>1. CopiesTyped'
    BY <1>1, <2>0 DEF CopiesTyped
  <2>2. MapsKnown'
    BY <1>1, <2>0, SMTT(30) DEF MapsKnown, Known, CopiesTyped
  <2> QED
    BY <2>0, <2>1, <2>2, SMTT(30) DEF InFlightPublished, Published, CheckedHolds
<1>5. CASE PromoteToPrimary(s)
  <2>0. /\ UNCHANGED <<ver, pairs, push, chan, apply>>
        /\ disk' = [disk EXCEPT ![s] = flushSaved(s)]
        /\ term' = [term EXCEPT ![s] = @ + 1]
        /\ had' = IF s = Primary THEN had \cup {<<ver[s], term[s] + 1>>} ELSE had
        /\ s \in Standbys /\ ~PromoteMidApply => apply[s].pc = "idle"
    BY <1>5, SMTT(30) DEF PromoteToPrimary, loopVars, linkVars
  <2>1. had' \subseteq Nat \X Nat
    BY <1>0, <2>0, SMTT(30) DEF CopiesTyped
  <2>2. term' \in [Servers -> Nat] /\ disk' \in [Servers -> Snapshot]
    BY <1>0, <1>1, <2>0 DEF CopiesTyped
  <2>3. CopiesTyped'
    BY <2>0, <2>1, <2>2 DEF CopiesTyped
  <2>4. InFlightPublished'
    BY <1>0, <2>0 DEF InFlightPublished, Published
  <2>5. MapsKnown'
    <3> SUFFICES ASSUME NEW r \in Servers
                 PROVE  Known(ver[r]) /\ Known(disk'[r].ver) /\ disk'[r].term = 0
      BY <1>0, <2>0 DEF MapsKnown, Known
    <3>1. Known(ver[r]) /\ Known(disk[r].ver) /\ disk[r].term = 0
      BY DEF MapsKnown
    <3>2. CASE r = s
      <4>1. disk'[r] = flushSaved(s)
        BY <2>0, <3>2 DEF CopiesTyped
      <4> QED
        BY <1>1, <3>1, <3>2, <4>1
    <3>3. CASE r # s
      <4>1. disk'[r] = disk[r]
        BY <2>0, <3>3 DEF CopiesTyped
      <4> QED
        BY <3>1, <4>1
    <3> QED
      BY <3>2, <3>3, SMTT(30)
  <2>6. CheckedHolds'
    BY <2>0 DEF CheckedHolds, CopiesTyped
  <2>7. <<ver[Primary], term[Primary]>>' \in had' /\ <<0, 0>> \in had'
    BY <1>0, <2>0, ZenonT(30) DEF CopiesTyped
  <2> QED
    BY <2>3, <2>4, <2>5, <2>6, <2>7
<1>6. CASE s = Primary /\ CrashPrimary
  <2>0. PICK v \in {disk[s].ver, ver[s]} : Loaded(s, v) /\ had' = had \cup {<<v, disk[s].term>>}
    BY <1>6 DEF CrashPrimary
  <2>1. /\ v \in Nat /\ UNCHANGED <<disk, chan, apply>> /\ push' = NoPush
        /\ ver' = [ver EXCEPT ![s] = v] /\ term' = [term EXCEPT ![s] = 0]
        /\ pairs' = [pairs EXCEPT ![s] = disk[s].pairs] /\ had' = had \cup {<<v, 0>>}
    BY <1>0, <1>6, <2>0, ZenonT(30) DEF CrashPrimary, Loaded
  <2>2. had' \subseteq Nat \X Nat
    BY <2>1 DEF CopiesTyped
  <2>3. CopiesTyped'
    BY <1>0, <1>2, <2>1, <2>2 DEF CopiesTyped, NoPush
  <2>4. InFlightPublished'
    BY <1>0, <1>2, <2>1, SMTT(30) DEF InFlightPublished, Published
  <2>5. MapsKnown'
    <3>1. \E h \in had' : h[1] = v
      BY <2>1, PairKnown, ZenonT(30)
    <3> QED
      BY <1>0, <2>1, <3>1, ZenonT(30) DEF MapsKnown, Known, CopiesTyped
  <2>6. CheckedHolds'
    BY <1>0, <1>6, <2>1 DEF CheckedHolds, CopiesTyped
  <2>7. <<ver[Primary], term[Primary]>>' \in had' /\ <<0, 0>> \in had'
    BY <1>0, <1>6, <2>1 DEF CopiesTyped
  <2> QED
    BY <2>3, <2>4, <2>5, <2>6, <2>7
<1>7. CASE s \in Standbys /\ CrashStandby(s)
  <2>0. /\ UNCHANGED <<disk, had>>
        /\ ver' = [ver EXCEPT ![s] = disk[s].ver] /\ term' = [term EXCEPT ![s] = 0]
        /\ pairs' = [pairs EXCEPT ![s] = disk[s].pairs]
        /\ apply' = [apply EXCEPT ![s] = NoApply]
        /\ chan' = [chan EXCEPT ![s] = <<>>]
        /\ push' = [push EXCEPT !.to = @ \ {s}]
    BY <1>0, <1>7 DEF CrashStandby, Loaded
  <2>1. push' \in [pc : {"idle", "built", "sending"}, snap : Snapshot, to : SUBSET Standbys]
        /\ push'.snap = push.snap
    BY <2>0, ZenonT(30) DEF CopiesTyped
  <2>2. /\ chan' \in [Standbys -> Seq(Snapshot)]
        /\ \A b \in Standbys : \A i \in 1 .. Len(chan'[b]) : Published(chan'[b][i])
    BY <1>7, <2>0, EmptiedChan, ZenonT(30)
  <2>3. apply' \in [Standbys -> [pc : {"idle", "checked", "swapped", "restored"}, snap : Snapshot]]
    BY <1>3, <2>0, ZenonT(30) DEF CopiesTyped, NoApply
  <2>4. CopiesTyped'
    BY <1>0, <2>0, <2>1, <2>2, <2>3 DEF CopiesTyped
  <2>5. InFlightPublished'
    <3>1. \A b \in Standbys : Published(apply'[b].snap)
      BY <1>3, <2>0 DEF CopiesTyped, InFlightPublished
    <3> QED
      BY <2>0, <2>1, <2>2, <3>1 DEF InFlightPublished, Published
  <2>6. MapsKnown'
    BY <1>0, <2>0, SMTT(30) DEF MapsKnown, Known, CopiesTyped
  <2>7. CheckedHolds'
    BY <2>0 DEF CheckedHolds, CopiesTyped, NoApply
  <2>8. <<ver[Primary], term[Primary]>>' \in had'
    BY <1>0, <1>7, <2>0, ZenonT(30) DEF CopiesTyped
  <2> QED
    BY <2>0, <2>4, <2>5, <2>6, <2>7, <2>8
<1> QED
  BY <1>4, <1>5, <1>6, <1>7

\* Every step keeps the invariant.
LEMMA ReplicaInvNext ==
  ASSUME ReplicaInv, [ReplicationNext]_replVars
  PROVE  ReplicaInv'
<1>1. CASE TriggerSave \/ PushSignal \/ PushSkip \/ UNCHANGED replVars
  <2>1. UNCHANGED copyVars
    BY <1>1 DEF TriggerSave, PushSignal, PushSkip, copyVars, replVars, contentVars,
                loopVars, linkVars, historyVars
  <2> QED
    BY <2>1, ReplicaInvStutter
<1>2. ASSUME NEW b \in Standbys, Dial(b) \/ AddSub(b) \/ SessionEnd(b)
      PROVE  ReplicaInv'
  <2>1. UNCHANGED copyVars
    BY <1>2 DEF Dial, AddSub, SessionEnd, copyVars, contentVars, loopVars, historyVars
  <2> QED
    BY <2>1, ReplicaInvStutter
<1>3. CASE Mutate
  BY <1>3, MutateKeeps
<1>4. ASSUME NEW b \in Standbys, PushSend(b) \/ SubscribeSnapshot(b) \/ ReadTimeout(b) \/ Break(b)
      PROVE  ReplicaInv'
  BY <1>4, PushKeeps
<1>5. CASE PushBuild \/ PushFanOut \/ PushDone
  BY <1>5, PushKeeps
<1>6. ASSUME NEW b \in Standbys, Receive(b) \/ Swap(b) \/ RestorePairs(b) \/ FlushApplied(b)
      PROVE  ReplicaInv'
  BY <1>6, StandbyKeeps
<1>7. CASE FlushPrimary \/ CrashPrimary
  BY <1>7, ServerKeeps DEF Servers
<1>8. ASSUME NEW b \in Standbys, CrashStandby(b)
      PROVE  ReplicaInv'
  BY <1>8, ServerKeeps DEF Servers
<1>9. ASSUME NEW s \in Servers, PromoteToPrimary(s)
      PROVE  ReplicaInv'
  BY <1>9, ServerKeeps
<1> QED
  BY <1>1, <1>2, <1>3, <1>4, <1>5, <1>6, <1>7, <1>8, <1>9
     DEF ReplicationNext, PushLoop, SubscribeHandler, RunStandby

-----------------------------------------------------------------------------

\* A standby that has something to read or to apply has a session, and a push under
\* way writes to subscribers only.
SessionInv ==
  /\ link \in [Standbys -> {"down", "dialed", "sent", "subscribed", "closed"}]
  /\ \A b \in Standbys : b \in push.to => link[b] = "subscribed"
  /\ \A b \in Standbys : chan[b] # <<>> \/ apply[b].pc # "idle" => link[b] # "down"

\* Before the first dial there is nothing to read or to apply.
LEMMA SessionInvInit == ReplicationInit => SessionInv
BY SMTT(30) DEF ReplicationInit, SessionInv, NoPush, NoApply

\* Sessions end only when all that was sent has been applied or is lost.
LEMMA SessionInvNext ==
  ASSUME CopiesTyped, SessionInv, [ReplicationNext]_replVars
  PROVE  SessionInv'
<1> USE DEF SessionInv
<1>0. /\ chan \in [Standbys -> Seq(Snapshot)]
      /\ push \in [pc : {"idle", "built", "sending"}, snap : Snapshot, to : SUBSET Standbys]
      /\ apply \in [Standbys -> [pc : {"idle", "checked", "swapped", "restored"}, snap : Snapshot]]
      /\ push.to \subseteq Standbys /\ NoPush.to = {} /\ NoApply.pc = "idle"
  BY DEF CopiesTyped, NoPush, NoApply
<1>1. CASE \/ Mutate \/ TriggerSave \/ FlushPrimary \/ PushSignal \/ PushSkip \/ UNCHANGED replVars
           \/ \E s \in Servers : PromoteToPrimary(s)
  <2>1. UNCHANGED <<link, chan, push, apply>>
    BY <1>1, SMTT(30) DEF Mutate, TriggerSave, FlushPrimary, PushSignal, PushSkip, PromoteToPrimary,
                replVars, loopVars, linkVars
  <2> QED
    BY <2>1, SMTT(30)
<1>2. CASE PushBuild \/ PushFanOut \/ PushDone
  <2>1. UNCHANGED <<link, chan, apply>>
    BY <1>2 DEF PushBuild, PushFanOut, PushDone, linkVars
  <2>2. CASE PushBuild
    BY <2>1, <2>2 DEF PushBuild
  <2>3. CASE PushFanOut
    <3>1. push'.to = Subs
      BY <1>0, <2>3 DEF PushFanOut
    <3> QED
      BY <2>1, <3>1 DEF Subs
  <2>4. CASE PushDone
    BY <1>0, <2>1, <2>4 DEF PushDone
  <2> QED
    BY <1>2, <2>2, <2>3, <2>4
<1>3. ASSUME NEW b \in Standbys, PushSend(b)
      PROVE  SessionInv'
  <2>1. /\ UNCHANGED <<link, apply>> /\ link[b] = "subscribed"
        /\ push'.to \subseteq push.to
        /\ \A c \in Standbys : c # b => chan'[c] = chan[c]
    BY <1>0, <1>3 DEF PushSend
  <2> QED
    BY <2>1
<1>4. ASSUME NEW b \in Standbys, Dial(b) \/ SubscribeSnapshot(b) \/ AddSub(b)
      PROVE  SessionInv'
  <2>1. /\ UNCHANGED <<push, apply>> /\ b \notin push.to
        /\ \E l \in {"dialed", "sent", "subscribed"} : link' = [link EXCEPT ![b] = l]
        /\ \A c \in Standbys : c # b => chan'[c] = chan[c]
    BY <1>0, <1>4 DEF Dial, SubscribeSnapshot, AddSub, loopVars
  <2> QED
    BY <2>1
<1>5. ASSUME NEW b \in Standbys, ReadTimeout(b) \/ Break(b)
      PROVE  SessionInv'
  <2>1. /\ UNCHANGED apply /\ push'.to = push.to \ {b}
        /\ link' = [link EXCEPT ![b] = "closed"]
        /\ \A c \in Standbys : c # b => chan'[c] = chan[c]
    BY <1>0, <1>5 DEF ReadTimeout, Break
  <2> QED
    BY <2>1
<1>6. ASSUME NEW b \in Standbys, SessionEnd(b)
      PROVE  SessionInv'
  <2>1. /\ UNCHANGED <<chan, push, apply>> /\ b \notin push.to
        /\ chan[b] = <<>> /\ apply[b].pc = "idle"
        /\ link' = [link EXCEPT ![b] = "down"]
    BY <1>6 DEF SessionEnd, loopVars
  <2> QED
    BY <2>1
<1>7. ASSUME NEW b \in Standbys, Receive(b) \/ Swap(b) \/ RestorePairs(b) \/ FlushApplied(b)
      PROVE  SessionInv'
  <2>1. /\ UNCHANGED <<link, push>> /\ link[b] # "down"
        /\ \A c \in Standbys : c # b => chan'[c] = chan[c] /\ apply'[c] = apply[c]
    BY <1>0, <1>7 DEF Receive, Swap, RestorePairs, FlushApplied, loopVars, linkVars
  <2> QED
    BY <2>1
<1>8. CASE CrashPrimary
  <2>1. /\ UNCHANGED <<chan, apply>> /\ push'.to = {}
        /\ link' = [b \in Standbys |-> IF link[b] = "down" THEN "down" ELSE "closed"]
    BY <1>0, <1>8 DEF CrashPrimary
  <2> QED
    BY <2>1
<1>9. ASSUME NEW b \in Standbys, CrashStandby(b)
      PROVE  SessionInv'
  <2>1. /\ push'.to = push.to \ {b}
        /\ link' = [link EXCEPT ![b] = "down"]
        /\ chan' = [chan EXCEPT ![b] = <<>>] /\ apply' = [apply EXCEPT ![b] = NoApply]
    BY <1>0, <1>9, SMTT(30) DEF CrashStandby
  <2> QED
    BY <1>0, <2>1
<1> QED
  BY <1>1, <1>2, <1>3, <1>4, <1>5, <1>6, <1>7, <1>8, <1>9, ZenonT(30)
     DEF ReplicationNext, PushLoop, SubscribeHandler, RunStandby

-----------------------------------------------------------------------------

\* Under the mapping of RS every step is a step of ReplicaSpec or a stutter.
LEMMA StepRefines ==
  ASSUME ~PromoteMidApply, ReplicaInv, ReplicaInv', SessionInv, [ReplicationNext]_replVars
  PROVE  [RS!ReplicaNext]_<<had, [b \in Standbys |-> ver[b]], [b \in Standbys |-> term[b]],
                            [b \in Standbys |-> link[b] # "down"]>>
<1> DEFINE R == [b \in Standbys |-> ver[b]]
           E == [b \in Standbys |-> term[b]]
           O == [b \in Standbys |-> link[b] # "down"]
<1> USE DEF ReplicaInv
<1>0. /\ ver \in [Servers -> Nat] /\ term \in [Servers -> Nat] /\ had' \subseteq Nat \X Nat
      /\ Primary \in Servers /\ Primary \notin Standbys /\ Standbys \subseteq Servers
      /\ link \in [Standbys -> {"down", "dialed", "sent", "subscribed", "closed"}]
  BY ReplicationAssumption, SMTT(30) DEF CopiesTyped, Servers, SessionInv
<1>1. ASSUME UNCHANGED <<ver, term, had>>, \A b \in Standbys : link'[b] = "down" <=> link[b] = "down"
      PROVE  UNCHANGED <<had, R, E, O>>
  BY <1>1
<1>2. ASSUME had \subseteq had', \A b \in Standbys : ver'[b] = ver[b] /\ term'[b] = term[b],
             \A b \in Standbys : link'[b] = "down" <=> link[b] = "down"
      PROVE  RS!Publish
  <2>1. UNCHANGED <<R, E, O>>
    BY <1>2
  <2> QED
    BY <1>0, <1>2, <2>1, SMTT(30) DEF RS!Publish
<1>3. CASE Mutate
  BY <1>0, <1>2, <1>3, SMTT(30) DEF Mutate, linkVars, RS!ReplicaNext
<1>4. CASE CrashPrimary
  <2>1. \A b \in Standbys : link'[b] = "down" <=> link[b] = "down"
    BY <1>4 DEF CrashPrimary
  <2>2. had \subseteq had' /\ \A b \in Standbys : ver'[b] = ver[b] /\ term'[b] = term[b]
    BY <1>0, <1>4, SMTT(30) DEF CrashPrimary, Loaded
  <2> QED
    BY <1>2, <2>1, <2>2, Zenon DEF RS!ReplicaNext
<1>5. ASSUME NEW b \in Standbys, Swap(b)
      PROVE  RS!Adopt(b)
  <2>1. /\ ver' = [ver EXCEPT ![b] = apply[b].snap.ver]
        /\ term' = [term EXCEPT ![b] = apply[b].snap.term]
        /\ apply[b].snap.term >= term[b]
        /\ <<apply[b].snap.ver, apply[b].snap.term>> \in had
        /\ had' = had /\ link' = link /\ link[b] # "down"
    BY <1>5 DEF Swap, historyVars, linkVars, CheckedHolds, InFlightPublished, Published, SessionInv
  <2>2. /\ R' = [R EXCEPT ![b] = apply[b].snap.ver]
        /\ E' = [E EXCEPT ![b] = apply[b].snap.term]
        /\ E[b] = term[b]
    BY <1>0, <2>1, ZenonT(30)
  <2>3. O' = O /\ O[b]
    BY <2>1, ZenonT(30)
  <2>4. PICK h \in had : h = <<apply[b].snap.ver, apply[b].snap.term>>
    BY <2>1
  <2>5. h[1] = apply[b].snap.ver /\ h[2] = apply[b].snap.term
    BY <2>4
  <2> QED
    BY <2>1, <2>2, <2>3, <2>5, ZenonT(30) DEF RS!Adopt
<1>6. ASSUME NEW s \in Servers, PromoteToPrimary(s)
      PROVE  RS!ReplicaNext
  <2>1. CASE s = Primary
    BY <1>0, <1>2, <1>6, <2>1 DEF PromoteToPrimary, linkVars, RS!ReplicaNext
  <2>2. CASE s \in Standbys
    <3>1. had' = had /\ ver' = ver /\ term' = [term EXCEPT ![s] = @ + 1] /\ link' = link
      BY <1>0, <1>6, <2>2 DEF PromoteToPrimary, linkVars
    <3>2. R' = R /\ E' = [E EXCEPT ![s] = @ + 1] /\ O' = O
      BY <1>0, <2>2, <3>1, ZenonT(30)
    <3> QED
      BY <2>2, <3>1, <3>2, ZenonT(30) DEF RS!ReplicaNext, RS!Promote
  <2> QED
    BY <2>1, <2>2 DEF Servers
<1>7. ASSUME NEW b \in Standbys, CrashStandby(b)
      PROVE  RS!Restart(b)
  <2>1. /\ had' = had /\ disk[b].term = 0 /\ link' = [link EXCEPT ![b] = "down"]
        /\ ver' = [ver EXCEPT ![b] = disk[b].ver] /\ term' = [term EXCEPT ![b] = disk[b].term]
        /\ \E h \in had : h[1] = disk[b].ver
    BY <1>0, <1>7 DEF CrashStandby, Loaded, MapsKnown, Known
  <2>2. R' = [R EXCEPT ![b] = disk[b].ver] /\ E' = [E EXCEPT ![b] = 0]
    BY <1>0, <2>1, ZenonT(30)
  <2>3. O' = [O EXCEPT ![b] = FALSE]
    BY <1>0, <2>1, ZenonT(30)
  <2> QED
    BY <2>1, <2>2, <2>3, ZenonT(30) DEF RS!Restart
<1>8. ASSUME NEW b \in Standbys, Dial(b) \/ SessionEnd(b)
      PROVE  RS!Reconnect(b)
  <2>1. /\ UNCHANGED <<ver, term, had>>
        /\ \/ link[b] = "down" /\ link' = [link EXCEPT ![b] = "dialed"]
           \/ link[b] = "closed" /\ link' = [link EXCEPT ![b] = "down"]
    BY <1>8 DEF Dial, SessionEnd, contentVars, historyVars
  <2>2. O' = [O EXCEPT ![b] = ~@]
    BY <1>0, <2>1, ZenonT(30)
  <2> QED
    BY <2>1, <2>2 DEF RS!Reconnect
<1>9. CASE \/ TriggerSave \/ FlushPrimary \/ PushLoop \/ UNCHANGED replVars
           \/ \E b \in Standbys : \/ SubscribeHandler(b) \/ Receive(b)
                                  \/ RestorePairs(b) \/ FlushApplied(b) \/ Break(b)
  <2>1. UNCHANGED <<ver, term, had>>
    BY <1>9 DEF TriggerSave, FlushPrimary, PushLoop, PushSignal, PushBuild, PushSkip, PushFanOut,
         PushDone, PushSend, SubscribeHandler, SubscribeSnapshot, AddSub, ReadTimeout,
         Receive, RestorePairs, FlushApplied, Break, replVars, contentVars, historyVars
  <2>2. CASE \/ TriggerSave \/ FlushPrimary \/ PushLoop \/ UNCHANGED replVars
             \/ \E b \in Standbys : Receive(b) \/ RestorePairs(b) \/ FlushApplied(b)
    <3>1. link' = link
      BY <2>2 DEF TriggerSave, FlushPrimary, PushLoop, PushSignal, PushBuild, PushSkip, PushFanOut,
         PushDone, PushSend, Receive, RestorePairs, FlushApplied, replVars, linkVars
    <3> QED
      BY <1>1, <2>1, <3>1
  <2>3. ASSUME NEW b \in Standbys, SubscribeHandler(b) \/ Break(b)
        PROVE  UNCHANGED <<had, R, E, O>>
    <3>1. /\ link[b] # "down"
          /\ \E l \in {"sent", "subscribed", "closed"} : link' = [link EXCEPT ![b] = l]
      BY <2>3 DEF SubscribeHandler, SubscribeSnapshot, AddSub, ReadTimeout, Break
    <3> QED
      BY <1>0, <1>1, <2>1, <3>1
  <2> QED
    BY <1>9, <2>2, <2>3, ZenonT(30)
<1> QED
  BY <1>3, <1>4, <1>5, <1>6, <1>7, <1>8, <1>9, ZenonT(30)
     DEF ReplicationNext, RunStandby, RS!ReplicaNext

\* The initial states map to initial states.
LEMMA InitRefines == ReplicationInit => RS!ReplicaInit
<1> SUFFICES ASSUME ReplicationInit PROVE RS!ReplicaInit
  OBVIOUS
<1>1. /\ had = {<<0, 0>>} /\ [b \in Standbys |-> ver[b]] = [b \in Standbys |-> 0]
      /\ [b \in Standbys |-> term[b]] = [b \in Standbys |-> 0]
      /\ [b \in Standbys |-> link[b] # "down"] = [b \in Standbys |-> FALSE]
  BY ZenonT(30) DEF ReplicationInit, Servers
<1>2. <<0, 0>>[1] = 0 /\ <<0, 0>>[2] = 0
  OBVIOUS
<1> QED
  BY <1>1, <1>2, ZenonT(30) DEF RS!ReplicaInit

\* What a standby holds is, at every moment and after every crash, a whole state
\* of the primary, and while it runs it takes none of a lower term than its own:
\* the replication code implements ReplicaSpec, unless a standby is promoted
\* between the term check and the swap of applySnapshot.
THEOREM StandbyIsReplicaTheorem ==
  ASSUME ~PromoteMidApply
  PROVE  ReplicationSafety => StandbyIsReplica
<1>1. ReplicaInv /\ [ReplicationNext]_replVars => ReplicaInv'
  BY ReplicaInvNext
<1>2. ReplicaInv /\ SessionInv /\ [ReplicationNext]_replVars => SessionInv'
  BY SessionInvNext DEF ReplicaInv
<1>3. ReplicaInv /\ ReplicaInv' /\ SessionInv /\ [ReplicationNext]_replVars =>
        [RS!ReplicaNext]_<<had, [b \in Standbys |-> ver[b]], [b \in Standbys |-> term[b]],
                           [b \in Standbys |-> link[b] # "down"]>>
  BY StepRefines
<1> QED
  BY <1>1, <1>2, <1>3, ReplicaInvInit, SessionInvInit, InitRefines, PTL
     DEF ReplicationSafety, StandbyIsReplica, RS!Replicated, RS!replicaVars

-----------------------------------------------------------------------------

\* The standby has rejected no snapshot of term 0, and will not.
Accepts(b) == term[b] = 0 \/ (apply[b].pc = "checked" /\ apply[b].snap.term = 0)

\* Where the primary's present maps are on their way to a subscriber: not yet signalled,
\* in the channel, taken by the loop, in the push under way, or sent.
Underway(b) ==
  \/ saving \/ pushCh
  \/ push.pc = "idle" /\ dirty
  \/ push.pc = "built" /\ push.snap.ver = ver[Primary]
  \/ push.pc = "sending" /\ b \in push.to /\ push.snap.ver = ver[Primary]
  \/ /\ push.pc # "built" /\ (push.pc = "sending" => b \notin push.to)
     /\ LastSent(b) = ver[Primary]

PushInv ==
  /\ behind \subseteq Subs
  /\ push.pc # "idle" => dirty
  /\ \A b \in behind : Accepts(b) => Underway(b)

\* What was last sent to a standby depends on its connection and its maps only.
LEMMA LastSentKept ==
  ASSUME NEW b, chan'[b] = chan[b], apply'[b] = apply[b], ver'[b] = ver[b]
  PROVE  LastSent(b)' = LastSent(b)
BY Zenon DEF LastSent

\* A step outside the push loop that changes for no subscriber what it was sent last.
LEMMA PushAway ==
  ASSUME PushInv, behind' \subseteq behind, behind' \subseteq Subs',
         UNCHANGED <<saving, pushCh, dirty>>, ver'[Primary] = ver[Primary],
         push'.pc = push.pc, push'.snap = push.snap,
         \A b \in behind' : /\ b \in push'.to <=> b \in push.to
                            /\ Accepts(b)' => Accepts(b) /\ LastSent(b)' = LastSent(b)
  PROVE  PushInv'
<1>1. push'.pc # "idle" => dirty'
  BY Zenon DEF PushInv
<1>2. ASSUME NEW b \in behind', Accepts(b)' PROVE Underway(b)'
  <2>1. Underway(b) /\ LastSent(b)' = LastSent(b) /\ (b \in push'.to <=> b \in push.to)
    BY <1>2, Zenon DEF PushInv
  <2> QED
    BY <2>1, Zenon DEF Underway
<1> QED
  BY <1>1, <1>2, Zenon DEF PushInv

\* The primary's side: a mutation and the push loop.
LEMMA LoopKeeps ==
  ASSUME CopiesTyped, PushInv,
         \/ Mutate \/ TriggerSave \/ PushSignal \/ PushBuild \/ PushSkip \/ PushFanOut \/ PushDone
         \/ CrashPrimary
  PROVE  PushInv'
<1>0. push \in [pc : {"idle", "built", "sending"}, snap : Snapshot, to : SUBSET Standbys]
  BY Zenon DEF CopiesTyped
<1>1. CASE Mutate
  <2>1. saving' /\ behind' = behind \cup Subs /\ UNCHANGED <<push, dirty, link>>
    BY <1>1, Zenon DEF Mutate, linkVars
  <2>2. Subs' = Subs
    BY <2>1, Zenon DEF Subs
  <2> QED
    BY <2>1, <2>2, Zenon DEF PushInv, Underway
<1>2. CASE TriggerSave
  <2>1. pushCh' /\ UNCHANGED <<behind, push, dirty, link>>
    BY <1>2, Zenon DEF TriggerSave, linkVars, historyVars
  <2>2. Subs' = Subs
    BY <2>1, Zenon DEF Subs
  <2> QED
    BY <2>1, <2>2, Zenon DEF PushInv, Underway
<1>3. CASE PushSignal
  <2>1. dirty' /\ push.pc = "idle" /\ UNCHANGED <<behind, push, link>>
    BY <1>3, Zenon DEF PushSignal, linkVars, historyVars
  <2>2. Subs' = Subs
    BY <2>1, Zenon DEF Subs
  <2> QED
    BY <2>1, <2>2, Zenon DEF PushInv, Underway
<1>4. CASE PushBuild
  <2>1. /\ dirty /\ push' = [pc |-> "built", snap |-> snapshotJSON, to |-> {}]
        /\ UNCHANGED <<behind, dirty, link, ver>>
    BY <1>4, Zenon DEF PushBuild, linkVars, historyVars, contentVars
  <2>2. Subs' = Subs
    BY <2>1, Zenon DEF Subs
  <2>3. push'.pc = "built" /\ push'.snap.ver = ver'[Primary]
    BY <2>1, Zenon DEF snapshotJSON
  <2> QED
    BY <2>1, <2>2, <2>3, Zenon DEF PushInv, Underway
<1>5. CASE PushSkip
  <2>1. push.pc = "idle" /\ Subs = {} /\ UNCHANGED <<behind, push, link>>
    BY <1>5, Zenon DEF PushSkip, linkVars, historyVars
  <2>2. Subs' = Subs /\ behind' = {}
    BY <2>1, Zenon DEF Subs, PushInv
  <2> QED
    BY <2>1, <2>2, Zenon DEF PushInv
<1>6. CASE PushFanOut
  <2>1. /\ push.pc = "built" /\ push' = [push EXCEPT !.pc = "sending", !.to = Subs]
        /\ UNCHANGED <<behind, saving, pushCh, dirty, link, ver, term, apply>>
    BY <1>6, Zenon DEF PushFanOut, linkVars, historyVars, contentVars
  <2>2. push'.pc = "sending" /\ push'.to = Subs /\ push'.snap = push.snap
    BY <1>0, <2>1, Zenon
  <2>3. Subs' = Subs /\ dirty
    BY <2>1, Zenon DEF Subs, PushInv
  <2>4. ASSUME NEW b \in behind', Accepts(b)' PROVE Underway(b)'
    <3>1. Accepts(b) /\ b \in behind /\ b \in Subs
      BY <2>1, <2>4, Zenon DEF Accepts, PushInv
    <3>2. saving \/ pushCh \/ push.snap.ver = ver[Primary]
      BY <2>1, <3>1, Zenon DEF PushInv, Underway
    <3> QED
      BY <2>1, <2>2, <3>1, <3>2, Zenon DEF Underway
  <2> QED
    BY <2>1, <2>3, <2>4, Zenon DEF PushInv
<1>7. CASE PushDone
  <2>1. /\ push.pc = "sending" /\ push' = NoPush
        /\ UNCHANGED <<behind, saving, pushCh, link, chan, ver, term, apply>>
    BY <1>7, Zenon DEF PushDone, linkVars, historyVars, contentVars
  <2>2. push'.pc = "idle" /\ push.to = {}
    <3>1. NoPush.pc = "idle"
      BY DEF NoPush
    <3> QED
      BY <1>7, <2>1, <3>1, Zenon DEF PushDone
  <2>3. Subs' = Subs
    BY <2>1, Zenon DEF Subs
  <2>4. ASSUME NEW b \in behind', Accepts(b)' PROVE Underway(b)'
    <3>1. Accepts(b) /\ b \in behind /\ LastSent(b)' = LastSent(b)
      BY <2>1, <2>4, Zenon DEF Accepts, LastSent
    <3>2. saving \/ pushCh \/ LastSent(b) = ver[Primary]
      BY <2>1, <2>2, <3>1, Zenon DEF PushInv, Underway
    <3> QED
      BY <2>1, <2>2, <3>1, <3>2, Zenon DEF Underway
  <2> QED
    BY <2>1, <2>2, <2>3, <2>4, Zenon DEF PushInv
<1>8. CASE CrashPrimary
  <2>1. behind' = {} /\ push'.pc = "idle"
    BY <1>8, Zenon DEF CrashPrimary, NoPush
  <2> QED
    BY <2>1, Zenon DEF PushInv
<1> QED
  BY <1>1, <1>2, <1>3, <1>4, <1>5, <1>6, <1>7, <1>8, Zenon

\* The last of the snapshots in a connection once one is written.
LEMMA LastAppended ==
  ASSUME NEW S, NEW q \in Seq(S), NEW x \in S
  PROVE  Append(q, x) # <<>> /\ Append(q, x)[Len(Append(q, x))] = x
<1>1. Len(Append(q, x)) = Len(q) + 1 /\ Append(q, x)[Len(q) + 1] = x
  OBVIOUS
<1> QED
  BY <1>1

\* ... and once the first is read.
LEMMA LastOf ==
  ASSUME NEW S, NEW q \in Seq(S)
  PROVE  /\ q # <<>> /\ Tail(q) = <<>> => Head(q) = q[Len(q)]
         /\ q # <<>> /\ Tail(q) # <<>> => Tail(q)[Len(Tail(q))] = q[Len(q)]
<1>1. q # <<>> => Len(q) \in Nat /\ Len(q) >= 1 /\ Tail(q) \in Seq(S)
                  /\ Len(Tail(q)) = Len(q) - 1
  OBVIOUS
<1>2. ASSUME q # <<>>, Tail(q) = <<>> PROVE Head(q) = q[Len(q)]
  <2>0. Len(<<>>) = 0
    OBVIOUS
  <2>1. Len(Tail(q)) = 0
    BY <1>2, <2>0, Zenon
  <2>2. Len(q) = 1
    BY <1>1, <1>2, <2>1
  <2> QED
    BY <1>2, <2>2
<1>3. ASSUME q # <<>>, Tail(q) # <<>> PROVE Tail(q)[Len(Tail(q))] = q[Len(q)]
  <2>1. Len(Tail(q)) >= 1
    BY <1>1, <1>3
  <2>2. Tail(q)[Len(q) - 1] = q[Len(q)]
    BY <1>1, <1>3, <2>1
  <2> QED
    BY <1>1, <1>3, <2>2
<1> QED
  BY <1>2, <1>3, Zenon

\* Writing a snapshot to a subscriber.
LEMMA SendKeeps ==
  ASSUME CopiesTyped, PushInv, NEW c \in Standbys, PushSend(c)
  PROVE  PushInv'
<1>0. /\ push \in [pc : {"idle", "built", "sending"}, snap : Snapshot, to : SUBSET Standbys]
      /\ chan \in [Standbys -> Seq(Snapshot)] /\ chan[c] \in Seq(Snapshot)
      /\ push.snap \in Snapshot
  BY Zenon DEF CopiesTyped
<1>1. /\ push.pc = "sending" /\ c \in push.to /\ push' = [push EXCEPT !.to = @ \ {c}]
      /\ chan' = [chan EXCEPT ![c] = Append(@, push.snap)]
      /\ UNCHANGED <<behind, saving, pushCh, dirty, link, ver, term, apply>>
  BY Zenon DEF PushSend, historyVars, contentVars
<1>2. push'.pc = "sending" /\ push'.to = push.to \ {c} /\ push'.snap = push.snap
  BY <1>0, <1>1, Zenon
<1>3. /\ chan'[c] = Append(chan[c], push.snap)
      /\ \A b \in Standbys \ {c} : chan'[b] = chan[b]
  BY <1>0, <1>1, Zenon
<1>4. LastSent(c)' = push.snap.ver
  <2>1. chan'[c] # <<>> /\ chan'[c][Len(chan'[c])] = push.snap
    <3> DEFINE q == chan[c]
               x == push.snap
    <3>1. q \in Seq(Snapshot) /\ x \in Snapshot
      BY <1>0, Zenon
    <3>2. chan'[c] = Append(q, x)
      BY <1>3, Zenon
    <3> HIDE DEF q, x
    <3>3. Append(q, x) # <<>> /\ Append(q, x)[Len(Append(q, x))] = x
      BY <3>1, LastAppended, Zenon
    <3>4. chan'[c] # <<>> /\ chan'[c][Len(chan'[c])] = x
      BY <3>2, <3>3, Zenon
    <3> QED
      BY <3>4, Zenon DEF x
  <2> QED
    BY <2>1, Zenon DEF LastSent
<1>5. Subs' = Subs /\ Subs \subseteq Standbys
  BY <1>1, Zenon DEF Subs
<1>6. ASSUME NEW b \in behind', Accepts(b)' PROVE Underway(b)'
  <2>1. Accepts(b) /\ Underway(b)
    BY <1>1, <1>6, Zenon DEF Accepts, PushInv
  <2>2. CASE b = c
    <3>1. saving \/ pushCh \/ push.snap.ver = ver[Primary]
      BY <1>1, <2>1, <2>2, Zenon DEF Underway
    <3> QED
      BY <1>1, <1>2, <1>4, <2>2, <3>1, Zenon DEF Underway
  <2>3. CASE b # c
    <3>1. b \in Standbys
      BY <1>1, <1>5, <1>6, Zenon DEF PushInv
    <3>2. LastSent(b)' = LastSent(b) /\ (b \in push'.to <=> b \in push.to)
      BY <1>1, <1>2, <1>3, <2>3, <3>1, LastSentKept, Zenon
    <3> QED
      BY <1>1, <1>2, <2>1, <3>2, Zenon DEF Underway
  <2> QED
    BY <2>2, <2>3, Zenon
<1> QED
  BY <1>1, <1>5, <1>6, Zenon DEF PushInv

\* The standby's side: what it takes from its connection it has been sent, and what it
\* rejects is of a lower term than its own.
LEMMA ReceiveKeeps ==
  ASSUME CopiesTyped, NEW b \in Standbys, Receive(b)
  PROVE  Accepts(b)' => Accepts(b) /\ LastSent(b)' = LastSent(b)
<1>0. /\ chan \in [Standbys -> Seq(Snapshot)] /\ chan[b] \in Seq(Snapshot)
      /\ apply \in [Standbys -> [pc : {"idle", "checked", "swapped", "restored"}, snap : Snapshot]]
  BY Zenon DEF CopiesTyped
<1>1. /\ chan[b] # <<>> /\ apply[b].pc = "idle" /\ UNCHANGED <<ver, term>>
      /\ chan' = [chan EXCEPT ![b] = Tail(@)]
      /\ apply' = IF Head(chan[b]).term < term[b] THEN apply
                  ELSE [apply EXCEPT ![b] = [pc |-> "checked", snap |-> Head(chan[b])]]
  BY Zenon DEF Receive, contentVars
<1>2. chan'[b] = Tail(chan[b])
  BY <1>0, <1>1, Zenon
<1>3. Head(chan[b]).term \in Nat /\ term[b] \in Nat
  <2>1. Head(chan[b]) \in Snapshot
    BY <1>0, <1>1
  <2> QED
    BY <2>1, Zenon DEF Snapshot, CopiesTyped, Servers
<1>4. CASE Head(chan[b]).term < term[b]
  <2>1. term[b] # 0
    BY <1>3, <1>4
  <2>2. apply' = apply
    BY <1>1, <1>4, Zenon
  <2> QED
    BY <1>1, <2>1, <2>2, Zenon DEF Accepts
<1>5. CASE ~(Head(chan[b]).term < term[b])
  <2>1. Head(chan[b]).term = 0 => term[b] = 0
    BY <1>3, <1>5
  <2>2. apply'[b] = [pc |-> "checked", snap |-> Head(chan[b])]
    BY <1>0, <1>1, <1>5, Zenon
  <2>3. apply'[b].pc = "checked" /\ apply'[b].snap = Head(chan[b])
    BY <2>2
  <2>4. Accepts(b)' => Accepts(b)
    BY <1>1, <2>1, <2>3, Zenon DEF Accepts
  <2>5. LastSent(b) = chan[b][Len(chan[b])].ver
    BY <1>1, Zenon DEF LastSent
  <2>6. CASE Tail(chan[b]) = <<>>
    <3>1. Head(chan[b]) = chan[b][Len(chan[b])]
      BY <1>0, <1>1, <2>6, LastOf, Zenon
    <3> QED
      BY <1>2, <2>3, <2>4, <2>5, <2>6, <3>1, Zenon DEF LastSent
  <2>7. CASE Tail(chan[b]) # <<>>
    <3>1. Tail(chan[b])[Len(Tail(chan[b]))] = chan[b][Len(chan[b])]
      BY <1>0, <1>1, <2>7, LastOf, Zenon
    <3> QED
      BY <1>2, <2>4, <2>5, <2>7, <3>1, Zenon DEF LastSent
  <2> QED
    BY <2>6, <2>7, Zenon
<1> QED
  BY <1>4, <1>5, Zenon

\* The other steps of applySnapshot.
LEMMA ApplyKeeps ==
  ASSUME CopiesTyped, NEW b \in Standbys, Swap(b) \/ RestorePairs(b) \/ FlushApplied(b)
  PROVE  Accepts(b)' => Accepts(b) /\ LastSent(b)' = LastSent(b)
<1>0. /\ ver \in [Servers -> Nat] /\ term \in [Servers -> Nat] /\ b \in Servers
      /\ apply \in [Standbys -> [pc : {"idle", "checked", "swapped", "restored"}, snap : Snapshot]]
  BY Zenon DEF CopiesTyped, Servers
<1>1. chan' = chan
  BY Zenon DEF Swap, RestorePairs, FlushApplied, linkVars
<1>2. CASE Swap(b)
  <2>1. /\ apply[b].pc = "checked" /\ ver'[b] = apply[b].snap.ver /\ term'[b] = apply[b].snap.term
        /\ apply'[b].pc = "swapped"
    BY <1>0, <1>2, Zenon DEF Swap
  <2> QED
    BY <1>1, <2>1, Zenon DEF Accepts, LastSent
<1>3. CASE RestorePairs(b)
  <2>1. apply[b].pc = "swapped" /\ apply'[b].pc = "restored" /\ UNCHANGED <<ver, term>>
    <3>1. [NoApply EXCEPT !.pc = "restored"].pc = "restored"
      BY Zenon DEF NoApply
    <3> QED
      BY <1>0, <1>3, <3>1, Zenon DEF RestorePairs
  <2> QED
    BY <1>1, <2>1, Zenon DEF Accepts, LastSent
<1>4. CASE FlushApplied(b)
  <2>1. apply[b].pc = "restored" /\ apply'[b].pc = "idle" /\ UNCHANGED <<ver, term>>
    BY <1>0, <1>4, Zenon DEF FlushApplied, NoApply
  <2> QED
    BY <1>1, <2>1, Zenon DEF Accepts, LastSent
<1> QED
  BY <1>2, <1>3, <1>4, Zenon

\* Every other step, seen by the subscribers.
LEMMA SubscriberKeeps ==
  ASSUME CopiesTyped, SessionInv, PushInv, NEW c \in Standbys,
         \/ Dial(c) \/ SubscribeSnapshot(c) \/ AddSub(c) \/ ReadTimeout(c) \/ Break(c)
         \/ SessionEnd(c) \/ CrashStandby(c)
         \/ Receive(c) \/ Swap(c) \/ RestorePairs(c) \/ FlushApplied(c)
  PROVE  PushInv'
<1>0. /\ ver \in [Servers -> Nat] /\ term \in [Servers -> Nat] /\ c \in Servers
      /\ Standbys \subseteq Servers /\ Primary \in Servers /\ Primary # c
      /\ apply \in [Standbys -> [pc : {"idle", "checked", "swapped", "restored"}, snap : Snapshot]]
      /\ push \in [pc : {"idle", "built", "sending"}, snap : Snapshot, to : SUBSET Standbys]
      /\ chan \in [Standbys -> Seq(Snapshot)]
      /\ link \in [Standbys -> {"down", "dialed", "sent", "subscribed", "closed"}]
      /\ behind \subseteq Subs /\ Subs \subseteq Standbys
  BY ReplicationAssumption, Zenon DEF CopiesTyped, SessionInv, Servers, PushInv, Subs
<1>1. UNCHANGED <<saving, pushCh, dirty>>
  BY Zenon DEF Dial, SubscribeSnapshot, AddSub, ReadTimeout, Break, SessionEnd, CrashStandby,
               Receive, Swap, RestorePairs, FlushApplied, loopVars
<1>2. \A b \in Servers \ {c} : ver'[b] = ver[b] /\ term'[b] = term[b]
  <2>1. \/ UNCHANGED <<ver, term>>
        \/ \E v, t : ver' = [ver EXCEPT ![c] = v] /\ term' = [term EXCEPT ![c] = t]
    BY Zenon DEF Dial, SubscribeSnapshot, AddSub, ReadTimeout, Break, SessionEnd, CrashStandby,
                 Receive, Swap, RestorePairs, FlushApplied, contentVars, Loaded
  <2> QED
    BY <1>0, <2>1, Zenon
<1>3. \A b \in Standbys \ {c} : apply'[b] = apply[b]
  <2>1. UNCHANGED apply \/ \E a : apply' = [apply EXCEPT ![c] = a]
    <3>1. apply' = [apply EXCEPT ![c].pc = "swapped"] =>
            apply' = [apply EXCEPT ![c] = [apply[c] EXCEPT !.pc = "swapped"]]
      BY Zenon
    <3> QED
      BY <3>1, Zenon DEF Dial, SubscribeSnapshot, AddSub, ReadTimeout, Break, SessionEnd, CrashStandby,
                   Receive, Swap, RestorePairs, FlushApplied
  <2> QED
    BY <1>0, <2>1, Zenon
<1>4. \A b \in Standbys \ {c} : chan'[b] = chan[b]
  <2>1. UNCHANGED chan \/ \E q : chan' = [chan EXCEPT ![c] = q]
    BY Zenon DEF Dial, SubscribeSnapshot, AddSub, ReadTimeout, Break, SessionEnd, CrashStandby,
                 Receive, Swap, RestorePairs, FlushApplied, linkVars
  <2> QED
    BY <1>0, <2>1, Zenon
<1>5. \A b \in Standbys \ {c} : link'[b] = link[b]
  <2>1. UNCHANGED link \/ \E l : link' = [link EXCEPT ![c] = l]
    BY Zenon DEF Dial, SubscribeSnapshot, AddSub, ReadTimeout, Break, SessionEnd, CrashStandby,
                 Receive, Swap, RestorePairs, FlushApplied, linkVars
  <2> QED
    BY <1>0, <2>1, Zenon
<1>6. /\ push'.pc = push.pc /\ push'.snap = push.snap
      /\ push' = push \/ push'.to = push.to \ {c}
  <2>1. UNCHANGED push \/ push' = [push EXCEPT !.to = @ \ {c}]
    BY Zenon DEF Dial, SubscribeSnapshot, AddSub, ReadTimeout, Break, SessionEnd, CrashStandby,
                 Receive, Swap, RestorePairs, FlushApplied, loopVars
  <2> QED
    BY <1>0, <2>1, Zenon
<1>7. ASSUME NEW b \in behind, b # c
      PROVE  /\ b \in Subs' /\ (b \in push'.to <=> b \in push.to)
             /\ Accepts(b)' => Accepts(b) /\ LastSent(b)' = LastSent(b)
  <2>1. b \in Standbys \ {c} /\ b \in Subs
    BY <1>0, <1>7, Zenon
  <2>2. b \in Subs'
    BY <1>5, <2>1, Zenon DEF Subs
  <2>3. LastSent(b)' = LastSent(b)
    BY <1>0, <1>2, <1>3, <1>4, <2>1, LastSentKept, Zenon
  <2>4. Accepts(b)' => Accepts(b)
    BY <1>0, <1>2, <1>3, <2>1, Zenon DEF Accepts
  <2>5. b \in push'.to <=> b \in push.to
    BY <1>6, <1>7, Zenon
  <2> QED
    BY <2>2, <2>3, <2>4, <2>5, Zenon
<1>8. ver'[Primary] = ver[Primary]
  BY <1>0, <1>2, Zenon
<1>9. CASE c \notin behind' /\ behind' \subseteq behind
  <2>1. behind' \subseteq Subs'
    BY <1>7, <1>9, Zenon
  <2>2. \A b \in behind' : /\ b \in push'.to <=> b \in push.to
                           /\ Accepts(b)' => Accepts(b) /\ LastSent(b)' = LastSent(b)
    BY <1>7, <1>9, Zenon
  <2> QED
    BY <1>1, <1>6, <1>8, <1>9, <2>1, <2>2, PushAway, Zenon
<1>10. CASE Receive(c) \/ Swap(c) \/ RestorePairs(c) \/ FlushApplied(c)
  <2>1. UNCHANGED <<behind, link, push>>
    BY <1>10, Zenon DEF Receive, Swap, RestorePairs, FlushApplied, loopVars, linkVars, historyVars
  <2>2. Subs' = Subs
    BY <2>1, Zenon DEF Subs
  <2>3. Accepts(c)' => Accepts(c) /\ LastSent(c)' = LastSent(c)
    BY <1>10, ReceiveKeeps, ApplyKeeps, Zenon
  <2>4. \A b \in behind' : /\ b \in push'.to <=> b \in push.to
                           /\ Accepts(b)' => Accepts(b) /\ LastSent(b)' = LastSent(b)
    BY <1>7, <2>1, <2>3, Zenon
  <2>5. behind' \subseteq behind /\ behind' \subseteq Subs'
    BY <1>0, <2>1, <2>2, Zenon
  <2> QED
    BY <1>1, <1>6, <1>8, <2>4, <2>5, PushAway, Zenon
<1>11. CASE Dial(c) \/ SubscribeSnapshot(c) \/ AddSub(c) \/ SessionEnd(c)
  <2>1. behind' = behind /\ link[c] \in {"down", "dialed", "sent", "closed"}
    BY <1>11, Zenon DEF Dial, SubscribeSnapshot, AddSub, SessionEnd, historyVars
  <2>2. c \notin Subs
    BY <2>1, Zenon DEF Subs
  <2> QED
    BY <1>0, <1>9, <2>1, <2>2, Zenon
<1>12. CASE ReadTimeout(c) \/ Break(c) \/ CrashStandby(c)
  <2>1. behind' = behind \ {c}
    BY <1>12, Zenon DEF ReadTimeout, Break, CrashStandby
  <2> QED
    BY <1>9, <2>1, Zenon
<1> QED
  BY <1>10, <1>11, <1>12, Zenon

\* A promotion makes a server accept less.
LEMMA PromotionKeeps ==
  ASSUME CopiesTyped, PushInv, NEW s \in Servers, PromoteToPrimary(s)
  PROVE  PushInv'
<1>1. /\ UNCHANGED <<ver, saving, pushCh, dirty, push, link, chan, apply, behind>>
      /\ term' = [term EXCEPT ![s] = @ + 1]
  BY Zenon DEF PromoteToPrimary, loopVars, linkVars
<1>2. term \in [Servers -> Nat]
  BY Zenon DEF CopiesTyped
<1>3. Subs' = Subs /\ Subs \subseteq Standbys /\ Standbys \subseteq Servers /\ behind \subseteq Subs
  BY <1>1, Zenon DEF Subs, Servers, PushInv
<1>4. \A b \in Servers : term'[b] = 0 => term[b] = 0
  <2>1. term[s] \in Nat
    BY <1>2, Zenon
  <2>2. term[s] + 1 # 0
    BY <2>1
  <2>3. term'[s] = term[s] + 1 /\ \A b \in Servers \ {s} : term'[b] = term[b]
    BY <1>1, <1>2, Zenon
  <2> QED
    BY <2>2, <2>3, Zenon
<1>5. ASSUME NEW b \in behind
      PROVE  Accepts(b)' => Accepts(b) /\ LastSent(b)' = LastSent(b)
  <2>1. b \in Servers
    BY <1>3, Zenon
  <2>2. LastSent(b)' = LastSent(b)
    BY <1>1, Zenon DEF LastSent
  <2> QED
    BY <1>1, <1>4, <2>1, <2>2, Zenon DEF Accepts
<1> QED
  BY <1>1, <1>3, <1>5, PushAway, Zenon

\* A subscriber misses no mutation made after AddSub, for every number of standbys and
\* mutations, and whatever connections, crashes and promotions do (replicaPushLoop,
\* handleSubscribeReplication, applySnapshot).
THEOREM PushesAreComplete == ReplicationSafety => []PushComplete
<1>1. ReplicationInit => PushInv
  <2> SUFFICES ASSUME ReplicationInit PROVE PushInv
    BY Zenon
  <2>1. behind = {} /\ push.pc = "idle"
    BY Zenon DEF ReplicationInit, NoPush
  <2> QED
    BY <2>1, Zenon DEF PushInv
<1>2. CopiesTyped /\ SessionInv /\ PushInv /\ [ReplicationNext]_replVars => PushInv'
  <2> SUFFICES ASSUME CopiesTyped, SessionInv, PushInv, [ReplicationNext]_replVars PROVE PushInv'
    BY Zenon
  <2>1. CASE FlushPrimary \/ UNCHANGED replVars
    <3>1. UNCHANGED <<ver, term, saving, pushCh, dirty, push, link, chan, apply, behind>>
      BY <2>1, Zenon DEF FlushPrimary, replVars, contentVars, loopVars, linkVars, historyVars
    <3>2. Subs' = Subs /\ \A b : Accepts(b)' = Accepts(b) /\ LastSent(b)' = LastSent(b)
      BY <3>1, Zenon DEF Subs, Accepts, LastSent
    <3>3. behind \subseteq Subs
      BY Zenon DEF PushInv
    <3> QED
      BY <3>1, <3>2, <3>3, PushAway, Zenon
  <2>2. CASE Mutate \/ TriggerSave \/ CrashPrimary
    BY <2>2, LoopKeeps, Zenon
  <2>3. CASE PushLoop
    BY <2>3, LoopKeeps, SendKeeps, Zenon DEF PushLoop
  <2>4. ASSUME NEW c \in Standbys,
               SubscribeHandler(c) \/ RunStandby(c) \/ Break(c) \/ CrashStandby(c)
        PROVE  PushInv'
    BY <2>4, SubscriberKeeps, Zenon DEF SubscribeHandler, RunStandby
  <2> QED
    BY <2>1, <2>2, <2>3, <2>4, PromotionKeeps, Zenon DEF ReplicationNext
<1>3. PushInv => PushComplete
  <2> SUFFICES ASSUME PushInv, NEW b \in Subs \cap behind, \A s \in Servers : term[s] = 0,
                      ~saving, ~pushCh, ~dirty
               PROVE  LastSent(b) = ver[Primary]
    BY Zenon DEF PushComplete
  <2>1. term[b] = 0
    BY Zenon DEF Subs, Servers
  <2>2. Underway(b) /\ push.pc = "idle"
    BY <2>1, Zenon DEF PushInv, Accepts
  <2> QED
    BY <2>2, Zenon DEF Underway
<1>4. ReplicaInv /\ [ReplicationNext]_replVars => ReplicaInv'
  BY ReplicaInvNext
<1>5. ReplicaInv => CopiesTyped
  BY Zenon DEF ReplicaInv
<1>6. CopiesTyped /\ SessionInv /\ [ReplicationNext]_replVars => SessionInv'
  BY SessionInvNext
<1> QED
  BY <1>1, <1>2, <1>3, <1>4, <1>5, <1>6, ReplicaInvInit, SessionInvInit, PTL
     DEF ReplicationSafety
=============================================================================

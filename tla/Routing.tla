------------------------------ MODULE Routing -------------------------------
(***************************************************************************)
(* The beacon table (package routing): beacons register every so often,    *)
(* lists show those seen within BeaconTTL, the reaper deletes the others.  *)
(* The reaper and the list read the clock before they take the lock.       *)
(***************************************************************************)
EXTENDS Naturals

CONSTANTS
  Beacons, BeaconAddrs, NoAddr,
  BeaconTTL, BeaconRegisterCooldown      \* in ticks

ASSUME RoutingAssumption ==
  BeaconTTL \in Nat /\ BeaconRegisterCooldown \in 0..BeaconTTL /\ NoAddr \notin BeaconAddrs

VARIABLES
  beacons,       \* per beacon: its address and the ticks since LastSeen
  reap,          \* the reaper: idle, or the ticks since it read the clock
  seen           \* history: ticks since each beacon's last accepted registration

routingVars == <<beacons, reap, seen>>

Ticks == 0..(2 * BeaconTTL + 2)
Later(t) == IF t + 1 \in Ticks THEN t + 1 ELSE t
NoBeacon == [addr |-> NoAddr, age |-> 0]
ReaderIdle == [on |-> FALSE, lag |-> 0]

RoutingInit ==
  /\ beacons = [b \in Beacons |-> NoBeacon]
  /\ reap = ReaderIdle
  /\ seen = [b \in Beacons |-> 2 * BeaconTTL + 2]

Known(b) == beacons[b].addr # NoAddr

\* A registration within the cooldown of the previous one is refused.
HandleBeaconRegister(b) ==
  /\ ~(Known(b) /\ beacons[b].age < BeaconRegisterCooldown)
  /\ \E addr \in BeaconAddrs : beacons' = [beacons EXCEPT ![b] = [addr |-> addr, age |-> 0]]
  /\ seen' = [seen EXCEPT ![b] = 0]
  /\ UNCHANGED reap

\* Whether a reader that took its time lag ticks ago finds the beacon expired.
Expired(b, lag) == beacons[b].age > BeaconTTL + lag

HandleBeaconList(lag) == {b \in Beacons : Known(b) /\ ~Expired(b, lag)}

ReapClock ==
  /\ ~reap.on
  /\ reap' = [on |-> TRUE, lag |-> 0]
  /\ UNCHANGED <<beacons, seen>>

ReapStale_Early(lag) ==
  beacons' = [b \in Beacons |-> IF Known(b) /\ beacons[b].age + lag >= BeaconTTL
                                THEN NoBeacon ELSE beacons[b]]

ReapStale(lag) ==
  beacons' = [b \in Beacons |-> IF Known(b) /\ Expired(b, lag) THEN NoBeacon ELSE beacons[b]]

ReapLock ==
  /\ reap.on
  /\ ReapStale(reap.lag)
  /\ reap' = ReaderIdle
  /\ UNCHANGED seen

BeaconTick ==
  /\ beacons' = [b \in Beacons |-> IF Known(b) THEN [beacons[b] EXCEPT !.age = Later(@)] ELSE NoBeacon]
  /\ seen' = [b \in Beacons |-> Later(seen[b])]
  /\ reap' = [reap EXCEPT !.lag = IF reap.on THEN Later(@) ELSE @]

RoutingNext ==
  \/ \E b \in Beacons : HandleBeaconRegister(b)
  \/ ReapClock \/ ReapLock
  \/ BeaconTick

RoutingSpec == RoutingInit /\ [][RoutingNext]_routingVars

\* HandleBeaconList shows every beacon that registered within BeaconTTL: neither a
\* slow reaper, whose clock is older than the registrations it meets under the lock,
\* nor a refused early registration takes a live beacon away.
LiveBeaconsListed == \A b \in Beacons : seen[b] <= BeaconTTL => b \in HandleBeaconList(0)
=============================================================================

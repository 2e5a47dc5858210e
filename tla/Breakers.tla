------------------------------ MODULE Breakers ------------------------------
(***************************************************************************)
(* Operator switches (package breakers) and their file: the watcher polls  *)
(* the file's modification stamp and reloads it, the admin API changes the *)
(* map and writes the file back, and operators edit the file by hand.      *)
(***************************************************************************)
EXTENDS Naturals, FiniteSets

CONSTANTS
  Names,         \* breaker names
  AdminCalls,    \* concurrent calls of the admin API
  MaxWrites      \* bound on the writes of the file

ASSUME BreakersAssumption == MaxWrites \in Nat

VARIABLES
  breakers,      \* Manager.breakers: the names that are open
  breakerFile,   \* breakers.json: whether it is there and parses, what it says, its stamp
  watch,         \* the watcher: where it is, what it has read, the stamp it last applied
  adminCalls,    \* per admin call: what it does and where it is
  installed      \* history: the content the watcher applied last

breakersVars == <<breakers, breakerFile, watch, adminCalls, installed>>

NoAdminCall == [pc |-> "idle", name |-> "", open |-> FALSE, rows |-> {}]

BreakersInit ==
  /\ breakers = {}
  /\ breakerFile = [there |-> FALSE, ok |-> TRUE, open |-> {}, stamp |-> 0]
  /\ watch = [pc |-> "idle", stat |-> 0, ok |-> TRUE, open |-> {}, last |-> 0]
  /\ adminCalls = [c \in AdminCalls |-> NoAdminCall]
  /\ installed = {}

\* Every write gives the file a new modification time or size.
Written(ok, open) == [there |-> TRUE, ok |-> ok, open |-> open, stamp |-> breakerFile.stamp + 1]

\* An operator edits the file in place: it may be read half written.
EditFile ==
  /\ breakerFile.stamp < MaxWrites
  /\ \E ok \in BOOLEAN, open \in SUBSET Names : breakerFile' = Written(ok, open)
  /\ UNCHANGED <<breakers, watch, adminCalls, installed>>

RemoveFile ==
  /\ breakerFile.there
  /\ breakerFile' = [breakerFile EXCEPT !.there = FALSE, !.ok = TRUE, !.open = {}]
  /\ UNCHANGED <<breakers, watch, adminCalls, installed>>

-----------------------------------------------------------------------------
(* Watch *)

\* apply: an unchanged stamp is a no-op.  Between the stat and the read, and between
\* the read and Replace, the file and the map may change.
WatchStat ==
  /\ watch.pc = "idle" /\ breakerFile.there /\ breakerFile.stamp # watch.last
  /\ watch' = [watch EXCEPT !.pc = "read", !.stat = breakerFile.stamp]
  /\ UNCHANGED <<breakers, breakerFile, adminCalls, installed>>

WatchRead ==
  /\ watch.pc = "read"
  /\ watch' = [watch EXCEPT !.pc = "apply", !.ok = breakerFile.there /\ breakerFile.ok, !.open = breakerFile.open]
  /\ UNCHANGED <<breakers, breakerFile, adminCalls, installed>>

\* A file that does not parse leaves the map, and is tried again at the next tick.
WatchApply_Restat ==
  /\ watch.pc = "apply"
  /\ IF watch.ok
     THEN /\ breakers' = watch.open /\ installed' = watch.open
          /\ watch' = [watch EXCEPT !.pc = "idle", !.last = breakerFile.stamp]
     ELSE /\ watch' = [watch EXCEPT !.pc = "idle"]
          /\ UNCHANGED <<breakers, installed>>
  /\ UNCHANGED <<breakerFile, adminCalls>>

WatchApply ==
  /\ watch.pc = "apply"
  /\ IF watch.ok
     THEN /\ breakers' = watch.open /\ installed' = watch.open
          /\ watch' = [watch EXCEPT !.pc = "idle", !.last = watch.stat]
     ELSE /\ watch' = [watch EXCEPT !.pc = "idle"]
          /\ UNCHANGED <<breakers, installed>>
  /\ UNCHANGED <<breakerFile, adminCalls>>

\* A file that has been removed empties the map.
WatchGone ==
  /\ watch.pc = "idle" /\ ~breakerFile.there /\ watch.last # 0
  /\ breakers' = {} /\ installed' = {}
  /\ watch' = [watch EXCEPT !.last = 0]
  /\ UNCHANGED <<breakerFile, adminCalls>>

-----------------------------------------------------------------------------
(* BreakerSet and BreakerDelete *)

ChangeBreaker(c) ==
  /\ adminCalls[c].pc = "idle"
  /\ \E n \in Names, open \in BOOLEAN :
       /\ breakers' = IF open THEN breakers \cup {n} ELSE breakers \ {n}
       /\ adminCalls' = [adminCalls EXCEPT ![c] = [pc |-> "snapshot", name |-> n, open |-> open, rows |-> {}]]
  /\ UNCHANGED <<breakerFile, watch, installed>>

\* persistBreakers: snapshot the map, write a temporary file, rename it.
PersistSnapshot(c) ==
  /\ adminCalls[c].pc = "snapshot"
  /\ adminCalls' = [adminCalls EXCEPT ![c].pc = "write", ![c].rows = breakers]
  /\ UNCHANGED <<breakers, breakerFile, watch, installed>>

PersistRename(c) ==
  /\ adminCalls[c].pc = "write" /\ breakerFile.stamp < MaxWrites
  /\ breakerFile' = Written(TRUE, adminCalls[c].rows)
  /\ adminCalls' = [adminCalls EXCEPT ![c] = NoAdminCall]
  /\ UNCHANGED <<breakers, watch, installed>>

BreakersNext ==
  \/ EditFile \/ RemoveFile
  \/ WatchStat \/ WatchRead \/ WatchApply \/ WatchGone
  \/ \E c \in AdminCalls : ChangeBreaker(c) \/ PersistSnapshot(c) \/ PersistRename(c)

BreakersSpec == BreakersInit /\ [][BreakersNext]_breakersVars

\* The watcher misses no version of the file for good: when the stamp it has applied
\* is the file's, or it has seen the file gone, what it installed is what the file
\* says, although file and map change between its stat, its read and its Replace.
WatcherExact ==
  watch.last = (IF breakerFile.there THEN breakerFile.stamp ELSE 0) => (breakerFile.ok /\ installed = breakerFile.open)
=============================================================================

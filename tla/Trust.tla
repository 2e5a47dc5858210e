------------------------------- MODULE Trust --------------------------------
(***************************************************************************)
(* The trust store (package trust): trust pairs, the handshake relay with  *)
(* its inboxes, and the snapshot of both, whose pair list goes through the *)
(* revision-keyed cache of server_persist.go.                              *)
(*                                                                         *)
(* A handler looks nodes up and verifies the signature first, then checks  *)
(* the nodes again and commits; in between other handlers run and nodes    *)
(* come and go.  A request that is refused is one that never started or    *)
(* that ends without a change.                                             *)
(***************************************************************************)
EXTENDS Integers, FiniteSets

CONSTANTS
  Nodes,         \* node ids
  Handlers,      \* requests served at a time
  Pushers,       \* goroutines that take a snapshot for standbys (snapshotJSON)
  SavedPairs,    \* the pairs loaded at start
  MaxInbox,      \* maxHandshakeInbox
  MaxCalls       \* bound on the requests, directory changes and restarts

Encoders == Pushers \cup {"save"}
PairSet == {p \in SUBSET Nodes : \E a, b \in p : a # b /\ p = {a, b}}

ASSUME TrustAssumption ==
  /\ MaxInbox \in Nat /\ MaxCalls \in Nat
  /\ IsFiniteSet(Nodes) /\ SavedPairs \subseteq PairSet

VARIABLES
  live,          \* nodes the directory knows
  trustPairs, rev,               \* trustPairSet
  inbox, responses, pending,     \* handshakeState, by recipient
  reqs,          \* per handler: the request past its verification
  cache,         \* trustPairsEncodeCache
  encs,          \* per encoder: the snapshot being taken
  trustDisk,     \* the trust part of the snapshot file
  revoked,       \* history: pairs that have been revoked
  calls          \* how many of the bounded events have happened

handshakeVars == <<inbox, responses, pending>>
trustVars == <<live, trustPairs, rev, handshakeVars, reqs, cache, encs, trustDisk, revoked, calls>>

Idle == [op |-> "none"]
NoEncoding == [pc |-> "idle"]
EmptyCache == [rev |-> 0, pairs |-> {}, cap |-> 0, lock |-> FALSE]

TrustInit ==
  /\ live = Nodes
  /\ trustPairs = SavedPairs /\ rev = Cardinality(SavedPairs)
  /\ inbox = [n \in Nodes |-> {}] /\ pending = [n \in Nodes |-> {}]
  /\ responses = [n \in Nodes |-> {}]
  /\ reqs = [c \in Handlers |-> Idle]
  /\ cache = EmptyCache
  /\ encs = [e \in Encoders |-> NoEncoding]
  /\ trustDisk = [pairs |-> SavedPairs, inbox |-> inbox, responses |-> responses]
  /\ revoked = {}
  /\ calls = 0

Call == calls < MaxCalls /\ calls' = calls + 1

-----------------------------------------------------------------------------
(* Handlers *)

\* Lookup and verification: the nodes a request names are live.  Revoking and
\* polling look up only the caller.
Begin(c) ==
  /\ reqs[c] = Idle /\ Call
  /\ \E n \in live : \E p \in Nodes \ {n} :
       \/ /\ p \in live
          /\ \E op \in {"report", "request"} :
               reqs' = [reqs EXCEPT ![c] = [op |-> op, node |-> n, peer |-> p, pc |-> "verified"]]
       \/ /\ p \in live
          /\ \E ok \in BOOLEAN :
               reqs' = [reqs EXCEPT ![c] =
                 [op |-> "respond", node |-> n, peer |-> p, accept |-> ok, pc |-> "verified"]]
       \/ reqs' = [reqs EXCEPT ![c] = [op |-> "revoke", node |-> n, peer |-> p, pc |-> "verified"]]
       \/ reqs' = [reqs EXCEPT ![c] = [op |-> "poll", node |-> n, pc |-> "verified"]]
  /\ UNCHANGED <<live, trustPairs, rev, handshakeVars, cache, encs, trustDisk, revoked>>

At(c, op, pc) == reqs[c].op = op /\ reqs[c].pc = pc
Pair(c) == {reqs[c].node, reqs[c].peer}
Done(c) == reqs' = [reqs EXCEPT ![c] = Idle]

\* rev ticks with every real change of the set, under the same shard lock.
AddPair(p) ==
  /\ trustPairs' = trustPairs \cup {p}
  /\ rev' = IF p \in trustPairs THEN rev ELSE rev + 1

HandleReportTrust(c) ==
  /\ At(c, "report", "verified")
  /\ IF Pair(c) \subseteq live THEN AddPair(Pair(c)) ELSE UNCHANGED <<trustPairs, rev>>
  /\ Done(c)
  /\ UNCHANGED <<live, handshakeVars, cache, encs, trustDisk, revoked, calls>>

HandleRevokeTrust(c) ==
  /\ At(c, "revoke", "verified")
  /\ IF reqs[c].node \in live /\ Pair(c) \in trustPairs
     THEN /\ trustPairs' = trustPairs \ {Pair(c)}
          /\ rev' = rev + 1
          /\ revoked' = revoked \cup {Pair(c)}
     ELSE UNCHANGED <<trustPairs, rev, revoked>>
  /\ Done(c)
  /\ UNCHANGED <<live, handshakeVars, cache, encs, trustDisk, calls>>

\* handshakeState.relay, under the recipient's shard lock.
HandleRequestHandshake(c) ==
  /\ At(c, "request", "verified")
  /\ LET to == reqs[c].peer
         from == reqs[c].node
     IN IF /\ Pair(c) \subseteq live
           /\ Cardinality(inbox[to]) < MaxInbox
           /\ from \notin inbox[to]
        THEN /\ inbox' = [inbox EXCEPT ![to] = @ \cup {from}]
             /\ pending' = [pending EXCEPT ![to] = @ \cup {from}]
        ELSE UNCHANGED <<inbox, pending>>
  /\ Done(c)
  /\ UNCHANGED <<live, trustPairs, rev, responses, cache, encs, trustDisk, revoked, calls>>

\* The inboxes are emptied; what is pending stays so.
HandlePollHandshakes(c) ==
  /\ At(c, "poll", "verified")
  /\ inbox' = [inbox EXCEPT ![reqs[c].node] = {}]
  /\ responses' = [responses EXCEPT ![reqs[c].node] = {}]
  /\ Done(c)
  /\ UNCHANGED <<live, trustPairs, rev, pending, cache, encs, trustDisk, revoked, calls>>

\* An answer is given in three sections: the pending request is taken (an accept
\* without one is refused), the pair is added, the answer is put in the inbox.
TakePending(c) ==
  /\ At(c, "respond", "verified")
  /\ LET n == reqs[c].node
         p == reqs[c].peer
         takes == reqs[c].accept /\ p \in pending[n]
     IN IF ~(Pair(c) \subseteq live) \/ (reqs[c].accept /\ ~takes)
        THEN Done(c) /\ UNCHANGED pending
        ELSE /\ pending' = IF takes THEN [pending EXCEPT ![n] = @ \ {p}] ELSE pending
             /\ reqs' = [reqs EXCEPT ![c].pc = IF takes THEN "taken" ELSE "added"]
  /\ UNCHANGED <<live, trustPairs, rev, inbox, responses, cache, encs, trustDisk, revoked, calls>>

AcceptAddPair(c) ==
  /\ At(c, "respond", "taken")
  /\ AddPair(Pair(c))
  /\ reqs' = [reqs EXCEPT ![c].pc = "added"]
  /\ UNCHANGED <<live, handshakeVars, cache, encs, trustDisk, revoked, calls>>

AppendResponse_Early(c) ==
  /\ At(c, "respond", "taken")
  /\ responses' = [responses EXCEPT ![reqs[c].peer] =
       @ \cup {[FromNodeID |-> reqs[c].node, Accept |-> TRUE]}]
  /\ Done(c)
  /\ UNCHANGED <<live, trustPairs, rev, inbox, pending, cache, encs, trustDisk, revoked, calls>>

AppendResponse(c) ==
  /\ At(c, "respond", "added")
  /\ responses' = [responses EXCEPT ![reqs[c].peer] =
       @ \cup {[FromNodeID |-> reqs[c].node, Accept |-> reqs[c].accept]}]
  /\ Done(c)
  /\ UNCHANGED <<live, trustPairs, rev, inbox, pending, cache, encs, trustDisk, revoked, calls>>

\* The directory drops a node, or has it back: the trust store is not told.
NodeChurn ==
  /\ Call
  /\ \E n \in Nodes : live' = IF n \in live THEN live \ {n} ELSE live \cup {n}
  /\ UNCHANGED <<trustPairs, rev, handshakeVars, reqs, cache, encs, trustDisk, revoked>>

-----------------------------------------------------------------------------
(* Snapshots *)

\* flushSave, phase 1: the inboxes are copied under Server.mu.  (snapshotJSON copies
\* them after the pairs are encoded.)
CopyInboxes(e) ==
  /\ encs[e].pc = "idle"
  /\ encs' = [encs EXCEPT ![e] = [pc |-> "copied", inbox |-> inbox, responses |-> responses]]
  /\ UNCHANGED <<live, trustPairs, rev, handshakeVars, reqs, cache, trustDisk, revoked, calls>>

\* Phase 2, without a lock.  The revision is read before the cache is locked.
ReadRevision(e) ==
  /\ encs[e].pc = "copied"
  /\ encs' = [encs EXCEPT ![e] = [pc |-> "rev", rev |-> rev, inbox |-> @.inbox,
                                  responses |-> @.responses]]
  /\ UNCHANGED <<live, trustPairs, rev, handshakeVars, reqs, cache, trustDisk, revoked, calls>>

\* encode returns the cached bytes while the revision is the same and the TTL has
\* not elapsed; otherwise it walks the shards, one lock after the other.
Encode(e) ==
  /\ encs[e].pc = "rev" /\ ~cache.lock
  /\ \/ /\ cache.pairs # {} /\ cache.rev = encs[e].rev
        /\ encs' = [encs EXCEPT ![e] = [pc |-> "encoded", inbox |-> @.inbox,
                                        responses |-> @.responses, pairs |-> cache.pairs,
                                        ref |-> TRUE, torn |-> FALSE]]
        /\ UNCHANGED cache
     \/ /\ encs' = [encs EXCEPT ![e] = [pc |-> "keys", rev |-> @.rev, inbox |-> @.inbox,
                                        responses |-> @.responses, left |-> PairSet, got |-> {}]]
        /\ cache' = [cache EXCEPT !.lock = TRUE]
  /\ UNCHANGED <<live, trustPairs, rev, handshakeVars, reqs, trustDisk, revoked, calls>>

EncodeShard(e) ==
  /\ encs[e].pc = "keys" /\ encs[e].left # {}
  /\ \E p \in encs[e].left :
       encs' = [encs EXCEPT ![e].left = @ \ {p},
                            ![e].got = IF p \in trustPairs THEN @ \cup {p} ELSE @]
  /\ UNCHANGED <<live, trustPairs, rev, handshakeVars, reqs, cache, trustDisk, revoked, calls>>

\* An empty list drops the buffer.  Any other is copied over it when it fits, else
\* into a new one: who still holds the old bytes has them changed, or keeps them.
EncodeEnd_RevAfter(e) ==
  /\ encs[e].pc = "keys" /\ encs[e].left = {}
  /\ cache' = [rev |-> rev, pairs |-> encs[e].got, cap |-> Cardinality(encs[e].got), lock |-> FALSE]
  /\ encs' = [encs EXCEPT ![e] = [pc |-> "encoded", inbox |-> @.inbox, responses |-> @.responses,
                                  pairs |-> @.got, ref |-> @.got # {}, torn |-> FALSE]]
  /\ UNCHANGED <<live, trustPairs, rev, handshakeVars, reqs, trustDisk, revoked, calls>>

EncodeEnd(e) ==
  /\ encs[e].pc = "keys" /\ encs[e].left = {}
  /\ LET got == encs[e].got
         inPlace == got # {} /\ Cardinality(got) <= cache.cap
         holds(x) == encs[x].pc = "encoded" /\ encs[x].ref
     IN /\ cache' = [rev |-> encs[e].rev, pairs |-> got, lock |-> FALSE,
                     cap |-> IF inPlace THEN cache.cap ELSE Cardinality(got)]
        /\ encs' = [x \in Encoders |->
             IF x = e
             THEN [pc |-> "encoded", inbox |-> encs[e].inbox, responses |-> encs[e].responses,
                   pairs |-> got, ref |-> got # {}, torn |-> FALSE]
             ELSE IF holds(x)
             THEN [encs[x] EXCEPT !.ref = inPlace, !.torn = @ \/ (inPlace /\ got # encs[x].pairs)]
             ELSE encs[x]]
  /\ UNCHANGED <<live, trustPairs, rev, handshakeVars, reqs, trustDisk, revoked, calls>>

\* AppendSnapshot and the atomic write: the file is replaced as a whole.
WriteSnapshot(e) ==
  /\ encs[e].pc = "encoded"
  /\ trustDisk' = IF e = "save" THEN [pairs |-> encs[e].pairs, inbox |-> encs[e].inbox,
                                     responses |-> encs[e].responses]
                  ELSE trustDisk
  /\ encs' = [encs EXCEPT ![e] = NoEncoding]
  /\ UNCHANGED <<live, trustPairs, rev, handshakeVars, reqs, cache, revoked, calls>>

\* A restart loads the file: RestorePairs, and RestoreInbox, which rebuilds what is
\* pending from the requests not yet polled.
RestartTrust ==
  /\ Call
  /\ trustPairs' = trustDisk.pairs
  /\ inbox' = trustDisk.inbox /\ responses' = trustDisk.responses
  /\ pending' = trustDisk.inbox
  /\ rev' = Cardinality(trustDisk.pairs)
  /\ reqs' = [c \in Handlers |-> Idle]
  /\ cache' = EmptyCache
  /\ encs' = [e \in Encoders |-> NoEncoding]
  /\ UNCHANGED <<live, trustDisk, revoked>>

Serve(c) ==
  \/ Begin(c)
  \/ HandleReportTrust(c)
  \/ HandleRevokeTrust(c)
  \/ HandleRequestHandshake(c)
  \/ HandlePollHandshakes(c)
  \/ TakePending(c)
  \/ AcceptAddPair(c)
  \/ AppendResponse(c)

TakeSnapshot(e) ==
  \/ CopyInboxes(e)
  \/ ReadRevision(e)
  \/ Encode(e)
  \/ EncodeShard(e)
  \/ EncodeEnd(e)
  \/ WriteSnapshot(e)

TrustNext ==
  \/ \E c \in Handlers : Serve(c)
  \/ \E e \in Encoders : TakeSnapshot(e)
  \/ NodeChurn
  \/ RestartTrust

TrustSpec == TrustInit /\ [][TrustNext]_trustVars

-----------------------------------------------------------------------------
(* Properties *)

\* A requester that finds an acceptance in its inbox finds the pair trusted, unless
\* somebody has revoked it: HandleRespondHandshake adds the pair before it appends
\* the response, flushSave copies the responses before it encodes the pairs, and so
\* this survives a crash at any point between those steps.
AcceptanceIsTrust ==
  \A n \in Nodes : \A r \in responses[n] :
    r.Accept => {n, r.FromNodeID} \in trustPairs \cup revoked

\* The encode cache never serves a stale list: whenever the cached revision is the
\* pair set's revision, the cached bytes are the pair set, although the revision is
\* read before the cache is locked and pairs change during the walk of the shards.
EncodeCacheExact ==
  (cache.pairs # {} /\ cache.rev = rev) => cache.pairs = trustPairs

\* The pair list a snapshot will write is the one it encoded: "The snap struct must
\* therefore own all its slice/map state independently" (snapshotJSON).
SnapshotOwnsPairs ==
  \A e \in Encoders : encs[e].pc = "encoded" => ~encs[e].torn
=============================================================================

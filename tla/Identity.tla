------------------------------ MODULE Identity ------------------------------
(***************************************************************************)
(* The identity commands of package identity on one node: rotate_key,      *)
(* set_key_expiry, set_external_id, submit_badge, enroll_recovery and      *)
(* recover_identity.  A handler first reads what it verifies the request   *)
(* against, verifies with no lock held, and commits through the NodeView   *)
(* in later critical sections.  Signatures and statements that do not      *)
(* verify return early and change nothing, so only verified ones appear.   *)
(***************************************************************************)
EXTENDS Naturals, FiniteSets

CONSTANTS
  IdentityReqs,      \* identity requests the server works on
  Auths,             \* recovery authorizations, by nonce
  Commitments,       \* identity commitments
  CommitmentOf,      \* the commitment an authorization names
  NoAuth, NoCommitment

ASSUME IdentityAssumption ==
  /\ CommitmentOf \in [Auths -> Commitments]
  /\ NoAuth \notin Auths /\ NoCommitment \notin Commitments

VARIABLES
  node,       \* exists, key (number of the key in force), badge, expiry, extID,
              \* commitment, consumed (RecoveryConsumedNonce)
  consumedNonces,    \* the in-memory ledger of recovery nonces
  expired,    \* authorizations past their expiry
  req,        \* per request: operation, phase, what it read
  applied     \* history: how often each authorization rotated the key

identityVars == <<node, consumedNonces, expired, req, applied>>

Ops == {"rotate", "expiry", "badge", "enroll", "recover"}
Waiting == [op |-> "none", at |-> "new", key |-> 0, auth |-> NoAuth]
Finished == [Waiting EXCEPT !.at = "done"]

\* The node as loaded or registered: enrolled for recovery or not.
IdentityInit ==
  /\ \E c \in Commitments \cup {NoCommitment} :
       node = [exists |-> TRUE, key |-> 0, badge |-> FALSE, expiry |-> FALSE,
               extID |-> FALSE, commitment |-> c, consumed |-> NoAuth]
  /\ consumedNonces = {}
  /\ expired = {}
  /\ req = [r \in IdentityReqs |-> Waiting]
  /\ applied = [a \in Auths |-> 0]

Finish(r) == req' = [req EXCEPT ![r] = Finished]

\* LookupNodeKey and the signature over that key; a missing node ends the request.
LookupNodeKey(r, op) ==
  /\ req[r].at = "new"
  /\ op \in Ops \ {"recover"}
  /\ node.exists
  /\ req' = [req EXCEPT ![r] = [Waiting EXCEPT !.op = op, !.at = "commit", !.key = node.key]]
  /\ UNCHANGED <<node, consumedNonces, expired, applied>>

Committing(r, op) == req[r].at = "commit" /\ req[r].op = op

\* UpdateNodeKey: the stale-key re-check, then the swap.
HandleRotateKey(r) ==
  /\ Committing(r, "rotate")
  /\ node' = IF node.exists /\ node.key = req[r].key THEN [node EXCEPT !.key = @ + 1] ELSE node
  /\ Finish(r)
  /\ UNCHANGED <<consumedNonces, expired, applied>>

\* The enterprise gate reads the registry in a section of its own; both answers.
HandleSetKeyExpiry(r) ==
  /\ Committing(r, "expiry")
  /\ node' \in {node} \cup {[node EXCEPT !.expiry = x] : x \in IF node.exists THEN BOOLEAN ELSE {}}
  /\ Finish(r)
  /\ UNCHANGED <<consumedNonces, expired, applied>>

HandleSetExternalID(id) ==
  /\ node.exists
  /\ node' = [node EXCEPT !.extID = id]
  /\ UNCHANGED <<consumedNonces, expired, req, applied>>

\* SubmitBadge commits without looking at the key again.
HandleSubmitBadge(r) ==
  /\ Committing(r, "badge")
  /\ node' = IF node.exists THEN [node EXCEPT !.badge = TRUE] ELSE node
  /\ Finish(r)
  /\ UNCHANGED <<consumedNonces, expired, applied>>

HandleEnrollRecovery(r) ==
  /\ Committing(r, "enroll")
  /\ \E c \in Commitments : node' = IF node.exists THEN [node EXCEPT !.commitment = c] ELSE node
  /\ Finish(r)
  /\ UNCHANGED <<consumedNonces, expired, applied>>

\* recover_identity: the statement verifies, is unexpired and names the enrolled
\* commitment.
HandleRecoverIdentity(r, a) ==
  /\ req[r].at = "new"
  /\ a \notin expired
  /\ node.exists
  /\ node.commitment = CommitmentOf[a]
  /\ req' = [req EXCEPT ![r] = [Waiting EXCEPT !.op = "recover", !.at = "nonce", !.auth = a]]
  /\ UNCHANGED <<node, consumedNonces, expired, applied>>

consumeNonce_Peek(r) ==
  /\ req[r].at = "nonce"
  /\ consumedNonces' = consumedNonces \ expired
  /\ IF req[r].auth \in consumedNonces'
       THEN Finish(r)
       ELSE req' = [req EXCEPT ![r].at = "slot"]
  /\ UNCHANGED <<node, expired, applied>>

\* Prunes expired nonces, refuses one in the ledger, records the others: one section.
consumeNonce(r) ==
  /\ req[r].at = "nonce"
  /\ LET pruned == consumedNonces \ expired
     IN IF req[r].auth \in pruned
          THEN consumedNonces' = pruned /\ Finish(r)
          ELSE /\ consumedNonces' = pruned \cup {req[r].auth}
               /\ req' = [req EXCEPT ![r].at = "slot"]
  /\ UNCHANGED <<node, expired, applied>>

\* The nonce saved with the node: only the last one consumed is remembered.
ConsumeRecoveryNonce(r) ==
  /\ req[r].at = "slot"
  /\ IF ~node.exists \/ node.consumed = req[r].auth
       THEN Finish(r) /\ UNCHANGED node
       ELSE /\ node' = [node EXCEPT !.consumed = req[r].auth]
            /\ req' = [req EXCEPT ![r].at = "swap"]
  /\ UNCHANGED <<consumedNonces, expired, applied>>

\* The key is swapped with no re-check and the badge of the previous holder cleared.
ForceRotateKey(r) ==
  /\ req[r].at = "swap"
  /\ Finish(r)
  /\ IF ~node.exists THEN UNCHANGED <<node, applied>>
     ELSE /\ node' = [node EXCEPT !.key = @ + 1, !.badge = FALSE]
          /\ applied' = [applied EXCEPT ![req[r].auth] = @ + 1]
  /\ UNCHANGED <<consumedNonces, expired>>

\* An authorization expires; a request that verified it in time is not overtaken by
\* its expiry (authorizations last minutes, a request microseconds).
ExpireAuth(a) ==
  /\ a \notin expired
  /\ \A r \in IdentityReqs : req[r].auth # a
  /\ expired' = expired \cup {a}
  /\ UNCHANGED <<node, consumedNonces, req, applied>>

\* Deregistration, the reaper and admin deletes remove the node.
NodeGone ==
  /\ node.exists
  /\ node' = [node EXCEPT !.exists = FALSE]
  /\ UNCHANGED <<consumedNonces, expired, req, applied>>

IdentityNext ==
  \/ \E r \in IdentityReqs :
       \/ \E op \in Ops : LookupNodeKey(r, op)
       \/ HandleRotateKey(r) \/ HandleSetKeyExpiry(r)
       \/ HandleSubmitBadge(r) \/ HandleEnrollRecovery(r)
       \/ \E a \in Auths : HandleRecoverIdentity(r, a)
       \/ consumeNonce(r) \/ ConsumeRecoveryNonce(r) \/ ForceRotateKey(r)
  \/ \E id \in BOOLEAN : HandleSetExternalID(id)
  \/ \E a \in Auths : ExpireAuth(a)
  \/ NodeGone

IdentitySpec == IdentityInit /\ [][IdentityNext]_identityVars

-----------------------------------------------------------------------------
\* A recovery authorization rotates the node's key at most once in one life of the
\* server, however often and however concurrently the request is submitted, another
\* authorization redeemed in between included: the saved slot alone remembers one
\* nonce, the ledger all that have not expired.
RecoveredOnce == \A a \in Auths : applied[a] <= 1
=============================================================================

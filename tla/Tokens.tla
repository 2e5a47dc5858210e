------------------------------- MODULE Tokens -------------------------------
(***************************************************************************)
(* validate_token and the JWKS cache of package identity.  The cache holds *)
(* the key set of one URL and the time it was stored.  A request reads the *)
(* provider configuration, then takes the key from the cache while it is   *)
(* younger than its TTL and of the right URL, and otherwise fetches with   *)
(* no lock held and overwrites the cache, so fetches of several requests   *)
(* overlap and the last to store wins.  A provider rotates its key: key    *)
(* sets are the number of the one key they hold.  Tokens whose claims do   *)
(* not pass ValidateJWTClaims return early and do not appear.              *)
(***************************************************************************)
EXTENDS Naturals

CONSTANTS
  Validators,        \* validate_token requests
  URLs, NoURL,       \* JWKS endpoints
  TTL,               \* jwksCacheTTL, in ticks
  FetchTime,         \* longest fetch, in ticks: the HTTP client's timeout
  MaxKeys            \* keys a provider goes through

ASSUME TokensAssumption ==
  /\ TTL \in Nat \ {0} /\ FetchTime \in Nat /\ MaxKeys \in Nat \ {0}
  /\ NoURL \notin URLs

VARIABLES
  idp,        \* idpConfig: the URL configured, or NoURL
  jwks,       \* jwksCache: URL, key, age (ticks since FetchedAt)
  val,        \* per request: phase, URL read, token, key fetched, ticks since the fetch
  current,    \* per URL: the key it publishes
  retired     \* per URL and key: ticks since the key was replaced

tokensVars == <<idp, jwks, val, current, retired>>

KeyNos == 1..MaxKeys
Horizon == TTL + FetchTime + 1
Aged(t) == IF t < Horizon THEN t + 1 ELSE t

Unused == [at |-> "new", url |-> NoURL, tok |-> 0, key |-> 0, lag |-> 0]

TokensInit ==
  /\ idp = NoURL
  /\ jwks = [url |-> NoURL, key |-> 0, age |-> 0]
  /\ val = [v \in Validators |-> Unused]
  /\ current = [u \in URLs |-> 1]
  /\ retired = [u \in URLs |-> [k \in KeyNos |-> 0]]

\* HandleSetIDPConfig: an empty URL clears the configuration; the cache stays.
HandleSetIDPConfig(u) ==
  /\ idp' = u
  /\ UNCHANGED <<jwks, val, current, retired>>

\* GetIDPConfig once, at the start; with no provider the request is refused.
HandleValidateToken(v, k) ==
  /\ val[v].at = "new"
  /\ idp # NoURL
  /\ val' = [val EXCEPT ![v] = [Unused EXCEPT !.at = "cache", !.url = idp, !.tok = k]]
  /\ UNCHANGED <<idp, jwks, current, retired>>

\* The signature check: the token is signed with the key that was found.
Answered(v, k) == [val[v] EXCEPT !.at = IF k = val[v].tok THEN "verified" ELSE "refused",
                                 !.key = k]

CacheHit_AnyURL(v) == jwks.url # NoURL /\ jwks.age < TTL

CacheHit(v) == jwks.url = val[v].url /\ jwks.age < TTL

\* GetKeyWithPinning under the read lock.
GetKeyCached(v) ==
  /\ val[v].at = "cache"
  /\ val' = [val EXCEPT ![v] = IF CacheHit(v) THEN Answered(v, jwks.key)
                               ELSE [val[v] EXCEPT !.at = "fetch"]]
  /\ UNCHANGED <<idp, jwks, current, retired>>

\* FetchJWKSKeysWithPinning: the provider's answer, or an error.
FetchJWKSKeys(v) ==
  /\ val[v].at = "fetch"
  /\ \/ val' = [val EXCEPT ![v].at = "store", ![v].key = current[val[v].url]]
     \/ val' = [val EXCEPT ![v].at = "refused"]
  /\ UNCHANGED <<idp, jwks, current, retired>>

\* The fetched set replaces whatever the cache holds, with FetchedAt the time now.
StoreKeys(v) ==
  /\ val[v].at = "store"
  /\ jwks' = [url |-> val[v].url, key |-> val[v].key, age |-> 0]
  /\ val' = [val EXCEPT ![v] = Answered(v, val[v].key)]
  /\ UNCHANGED <<idp, current, retired>>

\* The request is answered and forgotten.
Reply(v) ==
  /\ val[v].at \in {"verified", "refused"}
  /\ val' = [val EXCEPT ![v] = Unused]
  /\ UNCHANGED <<idp, jwks, current, retired>>

\* The provider (external) publishes its next key.
RotateProvider(u) ==
  /\ current[u] < MaxKeys
  /\ current' = [current EXCEPT ![u] = @ + 1]
  /\ UNCHANGED <<idp, jwks, val, retired>>

\* Time passes; no fetch outlives the client's timeout, and a request that found its
\* key is answered within the tick.
TokensTick ==
  /\ \A v \in Validators : /\ val[v].at = "store" => val[v].lag < FetchTime
                           /\ val[v].at # "verified"
  /\ jwks' = [jwks EXCEPT !.age = IF @ < TTL THEN @ + 1 ELSE @]
  /\ val' = [v \in Validators |-> [val[v] EXCEPT !.lag = IF val[v].at = "store" THEN @ + 1 ELSE @]]
  /\ retired' = [u \in URLs |-> [k \in KeyNos |-> IF k < current[u] THEN Aged(retired[u][k]) ELSE 0]]
  /\ UNCHANGED <<idp, current>>

TokensNext ==
  \/ \E u \in URLs \cup {NoURL} : HandleSetIDPConfig(u)
  \/ \E v \in Validators :
       \/ \E k \in KeyNos : HandleValidateToken(v, k)
       \/ GetKeyCached(v) \/ FetchJWKSKeys(v) \/ StoreKeys(v) \/ Reply(v)
  \/ \E u \in URLs : RotateProvider(u)
  \/ TokensTick

TokensSpec == TokensInit /\ [][TokensNext]_tokensVars

-----------------------------------------------------------------------------
\* A token is verified only with a key that the provider configured when the request
\* began has published, and has not replaced for TTL plus one fetch or longer: overlapping
\* fetches that store an older key set over a newer one, and a change of provider in
\* between, do not prolong the life of a retired key.
VerifiedKeyRecent ==
  \A v \in Validators : val[v].at = "verified" =>
     /\ val[v].key <= current[val[v].url]
     /\ retired[val[v].url][val[v].key] < TTL + FetchTime
=============================================================================

----------------------------- MODULE MCServices ------------------------------
(***************************************************************************)
(* Instances for TLC of the components beside the registry's maps.  They   *)
(* share no state with one another, so a behaviour is one of one of them:  *)
(* focus, chosen at the start, says which.                                 *)
(***************************************************************************)
EXTENDS Trust, Webhook, AuditExport, Accept, Routing, Breakers, Identity, Tokens,
        Provisioning, ListCache, Resolve, TLC

VARIABLE focus

Services == {"trust", "webhook", "audit", "accept", "routing", "breakers",
             "identity", "tokens", "provisioning", "lists", "resolve"}

ServicesInit ==
  /\ focus \in Services
  /\ TrustInit /\ WebhookInit /\ AuditExportInit /\ AcceptInit /\ RoutingInit
  /\ BreakersInit /\ IdentityInit /\ TokensInit /\ ProvisioningInit /\ ListCacheInit
  /\ ResolveInit
  /\ focus # "resolve" => ~strict
  /\ focus # "identity" => node.commitment = NoCommitment

\* Bounds: a later dispatcher is sent one event, one provider changes its key.
FewEvents == \A i \in Disps \ {1} : d[i].nextID <= 1
OneRotates == \E u \in URLs : \A w \in URLs \ {u} : current[w] = 1

ServicesNext ==
  /\ UNCHANGED focus
  /\ IF focus = "trust" THEN TrustNext ELSE UNCHANGED trustVars
  /\ IF focus = "webhook" THEN WebhookNext /\ FewEvents' ELSE UNCHANGED webhookVars
  /\ IF focus = "audit" THEN AuditExportNext ELSE UNCHANGED auditVars
  /\ IF focus = "accept" THEN AcceptNext ELSE UNCHANGED acceptVars
  /\ IF focus = "routing" THEN RoutingNext ELSE UNCHANGED routingVars
  /\ IF focus = "breakers" THEN BreakersNext ELSE UNCHANGED breakersVars
  /\ IF focus = "identity" THEN IdentityNext ELSE UNCHANGED identityVars
  /\ IF focus = "tokens" THEN TokensNext /\ OneRotates' ELSE UNCHANGED tokensVars
  /\ IF focus = "provisioning" THEN ProvisioningNext ELSE UNCHANGED provVars
  /\ IF focus = "lists" THEN ListCacheNext ELSE UNCHANGED listVars
  /\ IF focus = "resolve" THEN ResolveNext ELSE UNCHANGED resolveVars

ServicesVars ==
  <<focus, trustVars, webhookVars, auditVars, acceptVars, routingVars, breakersVars,
    identityVars, tokensVars, provVars, listVars, resolveVars>>

ServicesSpec == ServicesInit /\ [][ServicesNext]_ServicesVars

\* The calls in flight are interchangeable; the cfg gives every component the same two.
CallSymmetry == Permutations(Handlers)

\* One connection per address.
OneConnPerAddr == (1 :> 1) @@ (2 :> 2)

\* Both authorizations name the same identity.
OneCommitment == ("A" :> "id") @@ ("B" :> "id")

\* Two blueprints for one name, one with everything and one bare.
TwoBlueprints ==
  {[name |-> "n", enterprise |-> TRUE, max |-> 1, expr |-> "e", roles |-> ("x" :> "owner")],
   [name |-> "n", enterprise |-> FALSE, max |-> 0, expr |-> Nil, roles |-> ("x" :> Nil)]}
=============================================================================

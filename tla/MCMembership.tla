---------------------------- MODULE MCMembership -----------------------------
(***************************************************************************)
(* Instances of Membership for TLC.  scope, chosen at the start, spends    *)
(* the bounds on one group of operations: roles and the operator's actions *)
(* in open networks, with no register in flight during a reaper pass;      *)
(* invitations, limits and reclaims in networks that are joined by         *)
(* invitation; or unsigned registrations, with no network.                 *)
(***************************************************************************)
EXTENDS Membership, Functions, TLC

VARIABLE scope

InRoles ==
  /\ \A n \in NetIDs \ {0} : Exists(n) => networks[n].JoinRule = "open"
  /\ \A a \in Admins : adminReqs[a] # None => adminReqs[a].op # "policy"
  /\ reap = IdleReaper \/ \A c \in Clients : regs[c] = None

InInvites ==
  /\ \A n \in NetIDs \ {0} : Exists(n) =>
       networks[n].JoinRule = "invite" /\ "admin" \notin Range(networks[n].MemberRoles)
  /\ \A a \in Admins : adminReqs[a] # None => adminReqs[a].op = "policy"
  /\ \A id \in LiveIDs : 0 \in nodes[id].Networks

InScope ==
  /\ scope = "roles" => InRoles
  /\ scope = "invites" => InInvites
  /\ IF scope = "unsigned" THEN nextNet = 1
     ELSE \A c \in Clients : regs[c] # None => regs[c].sigVerified

ScopedInit == MembershipInit /\ scope \in {"roles", "invites", "unsigned"}

ScopedNext == MembershipNext /\ UNCHANGED scope /\ InScope'

ScopedSpec == ScopedInit /\ [][ScopedNext]_<<membVars, scope>>

KeySymmetry == Permutations(Keys)
=============================================================================

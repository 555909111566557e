--------------------------- MODULE MCOrganization ---------------------------
(***************************************************************************)
(* Instances of Organization and of Invites for TLC.  Nothing they keep is *)
(* shared here, so a behavior runs one of them while the other one stays   *)
(* in its initial state.  Requests and addresses are interchangeable.      *)
(***************************************************************************)
EXTENDS Organization, TLC

CONSTANTS Addresses, Spellings, Lower, MaxInvites, MaxPending, MaxRemovals

VARIABLES page, members, invite, email, request, removals, out, back,
          overlapped, overlooked, crowded

I == INSTANCE Invites WITH
       Members0 <- {}, Nothing <- Nobody

ASSUME AddressesAssumption == I!InvitesAssumption

inviteVars ==
  <<members, invite, email, request, removals, out, back, overlapped, overlooked, crowded>>

MCInit == page \in {"organization", "invites"} /\ Init /\ I!Init

MCNext ==
  \/ page = "organization" /\ Next /\ UNCHANGED <<page, inviteVars>>
  \/ page = "invites" /\ I!Next /\ UNCHANGED <<page, vars>>

MCSpec == MCInit /\ [][MCNext]_<<page, vars, inviteVars>>

Symmetry == Permutations(Reqs) \union Permutations(Addresses)
-----------------------------------------------------------------------------
\* What Invites promises of the limit and of addresses.
PendingWithinLimit == I!TypeOK /\ I!PendingWithinLimit

\* What Invites promises of those who were removed.
RemovedStaysOut == I!RemovedStaysOut
=============================================================================

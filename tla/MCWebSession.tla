---------------------------- MODULE MCWebSession ----------------------------
(***************************************************************************)
(* Two accounts of one organization each, one of them (or nobody yet)      *)
(* invited to a third organization.                                        *)
(***************************************************************************)
EXTENDS WebSession

CONSTANTS a, b, oa, ob, oi

HomeOf == [u \in Users |-> IF u = a THEN {oa} ELSE {}]
=============================================================================

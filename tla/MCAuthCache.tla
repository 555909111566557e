---------------------------- MODULE MCAuthCache ----------------------------
(***************************************************************************)
(* Instances of AuthCache for TLC, two in one run.  `only` is the one key  *)
(* that is looked up and turned off and on, for as long as MaxTime lasts;  *)
(* or it is NoKey, and all the keys fill the cache for CacheTime, with     *)
(* nothing turned off.  Keys and lookups are interchangeable.              *)
(***************************************************************************)
EXTENDS AuthCache, TLC

CONSTANT CacheTime   \* bound on the clock while the cache fills up

VARIABLE only

MCInit ==
  /\ only \in Keys \union {NoKey}
  /\ CacheInit
  /\ KeysInit(IF only = NoKey THEN Keys ELSE {only})

Life ==
  /\ only # NoKey
  /\ Next
  /\ \A l \in Lookups : lkey'[l] \in {only, NoKey}

Cache ==
  /\ only = NoKey
  /\ \/ \E l \in Lookups : Lookup(l)
     \/ Evict
     \/ now < CacheTime /\ Tick

MCNext == (Life \/ Cache) /\ UNCHANGED only
MCSpec == MCInit /\ [][MCNext]_<<vars, only>>

Symmetry == Permutations(Keys) \union Permutations(Lookups)
=============================================================================

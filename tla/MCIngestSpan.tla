---------------------------- MODULE MCIngestSpan ----------------------------
(***************************************************************************)
(* Instances of IngestSpan for TLC.  Session ids are interchangeable;      *)
(* requests differ in what they carry.                                     *)
(***************************************************************************)
EXTENDS IngestSpan, TLC

Symmetry == Permutations(SessIds)
=============================================================================

-------------------------- MODULE MCResultsStream --------------------------
(***************************************************************************)
(* Instances of ResultsStream for TLC.                                     *)
(***************************************************************************)
EXTENDS ResultsStream
=============================================================================

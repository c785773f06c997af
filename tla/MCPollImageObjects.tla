------------------------- MODULE MCPollImageObjects -------------------------
(***************************************************************************)
(* Instances of PollImageObjects for TLC: one image, two requests that     *)
(* delete objects and one cleanup worker.                                  *)
(***************************************************************************)
EXTENDS PollImageObjects
=============================================================================

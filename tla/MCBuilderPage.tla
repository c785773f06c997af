--------------------------- MODULE MCBuilderPage ----------------------------
(***************************************************************************)
(* The instance of BuilderPage for TLC.                                    *)
(***************************************************************************)
EXTENDS BuilderPage
=============================================================================

------------------------------ MODULE MCSignIn ------------------------------
(***************************************************************************)
(* An instance of SignIn for TLC.                                          *)
(***************************************************************************)
EXTENDS SignIn

\* Something fails, or another page is used, not both.
FaultsInOnePage ==
    faults > 0 => \A p \in Pages \ WorkingPages : \A n \in DOMAIN login : login[n].page # p
=============================================================================

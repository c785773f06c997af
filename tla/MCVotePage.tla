----------------------------- MODULE MCVotePage -----------------------------
(***************************************************************************)
(* Instances for TLC of two specifications that share nothing, checked in  *)
(* one run: a behaviour is one of VotePage or one of AuthSession.          *)
(*                                                                         *)
(* VotePage: one definition per kind of element, and definitions between   *)
(* which options, rows, columns and the kind change.                       *)
(*                                                                         *)
(* AuthSession: requests of one session, which are interchangeable.        *)
(***************************************************************************)
EXTENDS VotePage, AuthSession, TLC

CONSTANTS p1, p2, e, a, b, c, r, w, word, name, day, mail

VARIABLE part \* the specification this behaviour is one of

Element(type, required) ==
    [id |-> e, type |-> type, required |-> required, options |-> {}, rows |-> {},
     columns |-> {}, min |-> 0, max |-> 0, windows |-> {}, duration |-> 0, interval |-> 1,
     bufferBefore |-> 0, bufferAfter |-> 0, inviteeMode |-> "none", maxInvitees |-> 0]

Scheduling ==
    [Element("scheduling", FALSE) EXCEPT
        !.windows = {[id |-> w, start |-> 60, end |-> 115]}, !.duration = 30, !.interval = 15,
        !.bufferBefore = 5, !.bufferAfter = 10, !.inviteeMode = "optional", !.maxInvitees = 1]

MCDefinitions ==
    {<<Element("text", TRUE)>>,
     <<[Element("multipleChoice", FALSE) EXCEPT !.options = {a, b}]>>,
     <<[Element("singleChoice", TRUE) EXCEPT !.options = {a, b}]>>,
     <<[Element("singleSelectionGrid", FALSE) EXCEPT !.rows = {r}, !.columns = {a, b}]>>,
     <<[Element("multipleSelectionGrid", TRUE) EXCEPT !.rows = {r}, !.columns = {a, b}]>>,
     <<[Element("number", FALSE) EXCEPT !.max = 1]>>,
     <<Element("date", FALSE)>>,
     <<Scheduling>>}

MCDefinitionsOf == (p1 :> MCDefinitions) @@ (p2 :> {<<Element("statement", FALSE)>>})

MCRevisionsOf ==
    (p1 :> {<<[Element("multipleChoice", TRUE) EXCEPT !.options = {a, c}]>>,
           <<[Element("multipleSelectionGrid", FALSE) EXCEPT !.rows = {r}, !.columns = {b}]>>})
      @@ (p2 :> {})

MCPoliciesOf == (p1 :> {"editable", "multiple"}) @@ (p2 :> {"single"})

-----------------------------------------------------------------------------
MCInit ==
    /\ VoteInit
    /\ Init
    /\ part \in {"page", "session"}
    /\ part = "session" =>
          /\ definition = [p \in Polls |-> CHOOSE d \in DefinitionsOf[p] : TRUE]
          /\ policy = [p \in Polls |-> CHOOSE k \in PoliciesOf[p] : TRUE]

MCNext ==
    \/ part = "page" /\ VoteNext /\ UNCHANGED <<vars, part>>
    \/ part = "session" /\ Next /\ UNCHANGED <<voteVars, part>>

MCSpec == MCInit /\ [][MCNext]_<<voteVars, vars, part>>

Symmetry == Permutations(Requests)
=============================================================================

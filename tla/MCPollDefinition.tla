-------------------------- MODULE MCPollDefinition --------------------------
(***************************************************************************)
(* Instances for TLC of two specifications that share nothing, checked in  *)
(* one run: a behaviour is one of PollSummaries or one of PollAccess.      *)
(*                                                                         *)
(* PollSummaries: a migrated poll and a new one that use the same names,   *)
(* and definitions that reorder, replace, retype, drop and bring back      *)
(* elements and options.                                                   *)
(*                                                                         *)
(* PollAccess: a poll created with any settings and one restricted to the  *)
(* attendance of the same event, a student whose claims come under other   *)
(* names than a teacher's, and files with three delimiters, one of them    *)
(* with a quoted comma in its header line, one of them with as many quoted *)
(* commas as delimiters.                                                   *)
(***************************************************************************)
EXTENDS PollSummaries, PollAccess, TLC

CONSTANTS p1, p2, v1, v2, e1, e2, a, b, c, w1, w2,
          regular, attended, student, teacher, event, n1, n2, mail

VARIABLE part \* the specification this behaviour is one of

Element(id, type, wording, options) ==
    [id |-> id, type |-> type, wording |-> wording, options |-> options]

MCMigrated == p1 :> << Element(e1, "choice", w1, <<a, b>>) >>

MCDefinitions == {
    << Element(e1, "choice", w1, <<a, b>>) >>,
    << Element(e1, "choice", w1, <<b, a>>) >>,
    << Element(e1, "choice", w2, <<a, c>>) >>,
    << Element(e1, "text", w1, << >>) >>,
    << Element(e2, "choice", w1, <<a, b>>) >>,
    << Element(e2, "text", w1, << >>), Element(e1, "choice", w1, <<a, b>>) >> }

-----------------------------------------------------------------------------
Submitted(phase, style, source, times, live) ==
    [phase |-> phase, style |-> style, source |-> source, verified |-> TRUE, event |-> event,
     directLink |-> TRUE, resultsPublic |-> TRUE, resultsLive |-> live,
     visibleFrom |-> times[1], startsAt |-> times[2], endsAt |-> times[3]]

MCSettings == {
    Submitted("none", "secret", "unespUsers", <<Unset, 1, 2>>, TRUE),
    Submitted("none", "public", "eventAttendance", <<Unset, Unset, Unset>>, TRUE),
    Submitted("none", "partiallySecret", "eventAttendanceStudents", <<1, Unset, 2>>, TRUE),
    Submitted("none", "anonymous", "authenticatedUsers", <<Unset, Unset, Unset>>, FALSE),
    Submitted("slateSubmission", "secret", "enrollmentList", <<1, Unset, Unset>>, FALSE),
    Submitted("election", "anonymous", "enrollmentList", <<Unset, Unset, 2>>, FALSE) }

MCCreated ==
    regular :> MCSettings
        @@ attended :> {s \in MCSettings : s.source = "eventAttendance"}

MCClaims ==
    student :> [own |-> [email |-> <<mail>>, unesp_role |-> <<"aluno-graduacao">>,
                         enrollment_number |-> << >>],
                attributes |-> [academicId |-> <<"blank", n1>>,
                                unespRoleVerified |-> <<"true">>]]
        @@ teacher :> [own |-> [secondaryEmails |-> <<"other", mail>>],
                       attributes |-> [enrollmentNumber |-> <<n2>>,
                                       unesp_role |-> <<"docente">>]]

MCAttended == {<<event, student>>, <<event, teacher>>}

File(delimiter, headers, quotedCommas, lines) ==
    [delimiter |-> delimiter, headers |-> headers, rows |-> lines,
     quoted |-> [d \in ToSet(Delimiters) |-> IF d = "," THEN quotedCommas ELSE 0]]

MCFiles == {
    File("tab", <<"name", "number">>, 0, << <<"x", n1>>, <<"y", "blank">> >>),
    File(";", <<"name", "number", "course">>, 1, << <<"x", n1, "c">>, <<"y", n2, "c">> >>),
    File(";", <<"name", "number">>, 1, << <<"x", n1>> >>),
    File(",", <<"number">>, 0, << <<n1>> >>) }

-----------------------------------------------------------------------------
MCInit ==
    /\ Init
    /\ AccessInit
    /\ part \in {"definitions", "access"}
    /\ part = "definitions" =>
          polls = [p \in PollIds |-> NewPoll(CHOOSE s \in Created[p] : TRUE)]
    /\ part = "access" => answers = {}

MCNext ==
    \/ part = "definitions" /\ Next /\ UNCHANGED <<accessVars, part>>
    \/ part = "access" /\ AccessNext /\ UNCHANGED <<vars, part>>

MCSpec == MCInit /\ [][MCNext]_<<vars, accessVars, part>>

Symmetry == Permutations({v1, v2})
=============================================================================

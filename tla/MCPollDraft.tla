---------------------------- MODULE MCPollDraft -----------------------------
(***************************************************************************)
(* The instance of PollDraft for TLC: one kind of element of every shape.  *)
(***************************************************************************)
EXTENDS PollDraft

MCTypes == {"statement", "shortText", "singleChoice", "multipleChoice", "singleSelectionGrid",
            "linearScale", "starRating", "scheduling"}
MCStyles == {"secret", "anonymous"}
MCSources == {"authenticatedUsers", "computerScienceStudents", "enrollmentList",
              "eventAttendance", "eventAttendanceComputerScienceStudents"}
=============================================================================

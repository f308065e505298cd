------------------------ MODULE VersionStateMachine ------------------------
(***************************************************************************)
(* The lifecycle of a package version: the transition table that           *)
(* version-state-machine.ts consults before a governance transaction       *)
(* changes the lifecycle column.  The transactions that hard-code their    *)
(* source and target states instead of consulting the table (begin,        *)
(* complete, decide, deprecate) are shown to follow it by refinement, see  *)
(* PublicationLifecycle.                                                   *)
(***************************************************************************)

\* The lifecycle column.  "validation_failed" is kept by the code for old
\* rows only: no edge enters it and none leaves it.
Lifecycles ==
  { "draft", "validating", "validation_failed", "review_required",
    "published", "deprecated", "delisted", "emergency_disabled" }

\* The states a version can be in once a reviewer has approved it.
Released == { "published", "deprecated", "delisted", "emergency_disabled" }

\* <<current state, event, next state>>, one triple per entry of the table.
Transitions ==
  { <<"draft",           "SUBMIT",            "validating">>,
    <<"validating",      "VALIDATION_PASSED", "review_required">>,
    <<"validating",      "VALIDATION_FAILED", "draft">>,
    <<"review_required", "APPROVE",           "published">>,
    <<"review_required", "REJECT",            "draft">>,
    <<"review_required", "REVISE",            "draft">>,
    <<"published",       "REVISE",            "draft">>,
    <<"published",       "DEPRECATE",         "deprecated">>,
    <<"published",       "DELIST",            "delisted">>,
    <<"published",       "EMERGENCY_DISABLE", "emergency_disabled">>,
    <<"deprecated",      "DELIST",            "delisted">>,
    <<"deprecated",      "EMERGENCY_DISABLE", "emergency_disabled">>,
    <<"delisted",        "EMERGENCY_DISABLE", "emergency_disabled">> }

\* Seeded fault: a version can be revised under a running validation.
MovesUnderValidation(from, event, to) ==
  <<from, event, to>> \in Transitions \cup {<<"validating", "REVISE", "draft">>}

\* transitionVersion throws 409 when the table has no entry: a caller is
\* enabled only for the states that have one.
Moves(from, event, to) == <<from, event, to>> \in Transitions
=============================================================================

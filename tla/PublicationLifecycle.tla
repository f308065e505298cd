------------------------ MODULE PublicationLifecycle ------------------------
(***************************************************************************)
(* What publication governance promises, with none of its machinery: a     *)
(* version moves along the table of version-state-machine.ts only; its     *)
(* content is frozen when it is submitted and stays frozen until the       *)
(* review ends; what the version serves is, to the letter, the content     *)
(* that was frozen; and it is served only while the version is published.  *)
(* Governance implements this specification.                               *)
(***************************************************************************)
EXTENDS VersionStateMachine

CONSTANTS
  Version,   \* the versions
  Content,   \* what a reviewer looks at and a downloader gets
  None       \* no content

VARIABLES
  lifecycle,  \* the state of each version
  frozen,     \* the content under validation or review
  served      \* the content the download service hands out

vars == <<lifecycle, frozen, served>>

Init ==
  /\ lifecycle = [v \in Version |-> "draft"]
  /\ frozen = [v \in Version |-> None]
  /\ served = [v \in Version |-> None]

Move(v, event, to) ==
  /\ Moves(lifecycle[v], event, to)
  /\ lifecycle' = [lifecycle EXCEPT ![v] = to]

Submit(v) ==
  /\ Move(v, "SUBMIT", "validating")
  /\ \E c \in Content : frozen' = [frozen EXCEPT ![v] = c]
  /\ UNCHANGED served

PassValidation(v) ==
  /\ Move(v, "VALIDATION_PASSED", "review_required")
  /\ UNCHANGED <<frozen, served>>

\* Validation failed or review rejected: the content thaws.
SendBack(v) ==
  /\ \/ Move(v, "VALIDATION_FAILED", "draft")
     \/ Move(v, "REJECT", "draft")
  /\ frozen' = [frozen EXCEPT ![v] = None]
  /\ UNCHANGED served

Approve(v) ==
  /\ Move(v, "APPROVE", "published")
  /\ served' = [served EXCEPT ![v] = frozen[v]]
  /\ frozen' = [frozen EXCEPT ![v] = None]

Revise(v) ==
  /\ Move(v, "REVISE", "draft")
  /\ frozen' = [frozen EXCEPT ![v] = None]
  /\ served' = [served EXCEPT ![v] = None]

Withdraw(v) ==
  /\ \/ Move(v, "DEPRECATE", "deprecated")
     \/ Move(v, "DELIST", "delisted")
     \/ Move(v, "EMERGENCY_DISABLE", "emergency_disabled")
  /\ served' = [served EXCEPT ![v] = None]
  /\ UNCHANGED frozen

Next ==
  \E v \in Version :
    \/ Submit(v)
    \/ PassValidation(v)
    \/ SendBack(v)
    \/ Approve(v)
    \/ Revise(v)
    \/ Withdraw(v)

Spec == Init /\ [][Next]_vars
=============================================================================

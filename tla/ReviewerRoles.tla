---------------------------- MODULE ReviewerRoles ----------------------------
(***************************************************************************)
(* Roles and reviewer assignments: the administration routes of the        *)
(* identity module, AuthorizationService and the identity repositories.    *)
(* A person reviews with the role "reviewer"; what he was assigned to (a   *)
(* package type and a category: a scope) is a table of its own, and an     *)
(* assignment and its role are written by separate statements.  A request  *)
(* is a process whose steps are those statements; the server may die       *)
(* between any two of them.                                                *)
(***************************************************************************)
EXTENDS Naturals, Sequences, FiniteSets

CONSTANTS
  User,        \* uids
  Bootstrap,   \* the BOOTSTRAP_ADMIN_UID, as a set of at most one uid
  Scope,       \* pairs of package type and category
  Team,        \* values of a role's scope other than the global one
  Role,        \* the names of roles in use
  Request,     \* requests in flight
  Operations,  \* the operations of this instance
  Backend,     \* "postgres" or "memory"
  Crashes,     \* the server may die
  MaxAssigned, \* BOUND: assignments ever made
  None

AllOperations == {"assign", "revoke", "grant", "withdraw"}
AssignmentId == 1..MaxAssigned
RoleName == {"employee", "maintainer", "reviewer", "platform_admin"}

ReviewerRolesAssumption ==
  /\ Bootstrap \subseteq User
  /\ Operations \subseteq AllOperations
  /\ Role \subseteq RoleName
  /\ {"reviewer", "platform_admin"} \subseteq Role
  /\ Backend \in {"postgres", "memory"}
  /\ Crashes \in BOOLEAN
  /\ MaxAssigned \in Nat
  /\ "global" \notin Team
  /\ None \notin User

VARIABLES
  identities,  \* the uids that ever logged in
  roles,       \* the active rows of role_assignments
  assignment,  \* the rows of reviewer_assignments
  trail,       \* their events, in the audit log and in the outbox
  req          \* requests: program counter, operation and its arguments

vars == <<identities, roles, assignment, trail, req>>

RoleRow == [uid : User, role : Role, scope : Team \cup {"global"}]
NoRow == [reviewer |-> None, scope |-> None, active |-> FALSE]
Assignment == [reviewer : User, scope : Scope, active : BOOLEAN] \cup {NoRow}
Event == {"assigned", "revoked"} \X AssignmentId

Place == {"idle", "assign", "find", "push", "ensure", "grant", "lookup", "read",
          "update", "list", "drop", "bootstrap", "error", "answer"}
Idle == [pc |-> "idle", op |-> None, uid |-> None, role |-> None,
         scope |-> None, id |-> 0]
RequestState ==
  [pc : Place, op : Operations \cup {"login", None}, uid : User \cup {None},
   role : Role \cup {None}, scope : Scope \cup Team \cup {"global", None},
   id : 0..MaxAssigned]

TypeOK ==
  /\ identities \subseteq User
  /\ roles \subseteq RoleRow
  /\ assignment \in [AssignmentId -> Assignment]
  /\ trail \in Seq(Event)
  /\ req \in [Request -> RequestState]

Init ==
  /\ identities = {}
  /\ roles = {}
  /\ assignment = [i \in AssignmentId |-> NoRow]
  /\ trail = <<>>
  /\ req = [r \in Request |-> Idle]

-----------------------------------------------------------------------------
\* What the rows say.

\* A global role counts for every scope, another one only for its own.
HasRole(u, role, scope) ==
  \E row \in roles : row.uid = u /\ row.role = role /\ row.scope \in {"global", scope}

IsAdmin(u) == HasRole(u, "platform_admin", "global")
IsReviewer(u) == HasRole(u, "reviewer", "global")

Active(u, scope) ==
  {i \in AssignmentId : /\ assignment[i].active
                        /\ assignment[i].reviewer = u
                        /\ assignment[i].scope = scope}

\* The scopes a person is assigned to.
Assigned(u) == {scope \in Scope : Active(u, scope) # {}}

\* Rows are numbered one after the other.
Fresh == {i \in AssignmentId : assignment[i] = NoRow}
Follows(i) == i \in Fresh /\ \A j \in Fresh : i <= j

\* A request goes on to pc; nothing else of it changes.
Goto(r, pc) == req' = [req EXCEPT ![r].pc = pc]

-----------------------------------------------------------------------------
\* The routes.  All of them but the login ask for a platform admin, and those
\* that give somebody something for a uid that is known.

Accept(r, state) ==
  /\ req[r] = Idle
  /\ state.op \in Operations
  /\ \E actor \in identities : IsAdmin(actor)
  /\ req' = [req EXCEPT ![r] = state]
  /\ UNCHANGED <<identities, roles, assignment, trail>>

AssignReviewer(r, u, scope) ==
  /\ u \in identities
  /\ Accept(r, [Idle EXCEPT !.pc = "assign", !.op = "assign", !.uid = u,
                            !.role = "reviewer", !.scope = scope])

\* The page names the row it shows; a row that is not there is a 404.
RevokeReviewer(r, i) ==
  /\ assignment[i] # NoRow
  /\ Accept(r, [Idle EXCEPT !.pc = "read", !.op = "revoke", !.role = "reviewer",
                            !.uid = assignment[i].reviewer, !.id = i])

Grantable == Role \ {"platform_admin"}

GrantRole(r, u, role, scope) ==
  /\ u \in identities
  /\ role \in Grantable
  /\ Accept(r, [Idle EXCEPT !.pc = "grant", !.op = "grant", !.uid = u,
                            !.role = role, !.scope = scope])

RevokeRoleAssignment(r, u, role) ==
  /\ role \in Grantable
  /\ Accept(r, [Idle EXCEPT !.pc = "drop", !.op = "withdraw", !.uid = u, !.role = role])

\* The callback of a login, as far as roles go: it writes the identity and then
\* makes the configured uid an admin unless it is one.
Login(r, u) ==
  /\ req[r] = Idle
  /\ identities' = identities \cup {u}
  /\ req' = [req EXCEPT ![r] =
       [Idle EXCEPT !.op = "login", !.uid = u, !.role = "platform_admin",
                    !.pc = IF u \in Bootstrap THEN "bootstrap" ELSE "answer"]]
  /\ UNCHANGED <<roles, assignment, trail>>

GrantBootstrapAdmin(r) ==
  /\ req[r].pc = "bootstrap"
  /\ Goto(r, IF IsAdmin(req[r].uid) THEN "answer" ELSE "grant")
  /\ UNCHANGED <<identities, roles, assignment, trail>>

-----------------------------------------------------------------------------
\* assignReviewer: the transaction, then the role.

Insert(row) ==
  \E i \in AssignmentId :
    /\ Follows(i)
    /\ assignment' = [assignment EXCEPT ![i] = row]
    /\ trail' = Append(trail, <<"assigned", i>>)

RowOf(r) == [reviewer |-> req[r].uid, scope |-> req[r].scope, active |-> TRUE]

\* In Postgres: insert, on conflict do nothing.
InsertAssignment(r) ==
  /\ Backend = "postgres"
  /\ req[r].pc = "assign"
  /\ IF Active(req[r].uid, req[r].scope) = {}
     THEN Insert(RowOf(r)) /\ Goto(r, "ensure")
     ELSE Goto(r, "find") /\ UNCHANGED <<assignment, trail>>
  /\ UNCHANGED <<identities, roles>>

\* Then the row it conflicted with is read, in another statement.
FindAssignment(r) ==
  /\ req[r].pc = "find"
  /\ Goto(r, IF Active(req[r].uid, req[r].scope) = {} THEN "error" ELSE "ensure")
  /\ UNCHANGED <<identities, roles, assignment, trail>>

\* In memory: look it up, write the audit log, and push the row.
LookForAssignment(r) ==
  /\ Backend = "memory"
  /\ req[r].pc = "assign"
  /\ Goto(r, IF Active(req[r].uid, req[r].scope) = {} THEN "push" ELSE "ensure")
  /\ UNCHANGED <<identities, roles, assignment, trail>>

PushAssignment(r) ==
  /\ req[r].pc = "push"
  /\ Insert(RowOf(r))
  /\ Goto(r, "ensure")
  /\ UNCHANGED <<identities, roles>>

EnsureReviewerRole(r) ==
  /\ req[r].pc = "ensure"
  /\ req' = [req EXCEPT ![r].pc = IF IsReviewer(req[r].uid) THEN "answer" ELSE "grant",
                        ![r].scope = "global"]
  /\ UNCHANGED <<identities, roles, assignment, trail>>

Granted(r) ==
  [uid |-> req[r].uid, role |-> req[r].role,
   scope |-> IF req[r].scope = None THEN "global" ELSE req[r].scope]

\* Insert, on conflict do nothing; the memory has the row at hand.
InsertRole(r) ==
  /\ req[r].pc = "grant"
  /\ roles' = roles \cup {Granted(r)}
  /\ Goto(r, IF Granted(r) \in roles /\ Backend = "postgres" THEN "lookup" ELSE "answer")
  /\ UNCHANGED <<identities, assignment, trail>>

FindRole(r) ==
  /\ req[r].pc = "lookup"
  /\ Goto(r, IF Granted(r) \in roles THEN "answer" ELSE "error")
  /\ UNCHANGED <<identities, roles, assignment, trail>>

-----------------------------------------------------------------------------
\* revokeReviewer: the transaction, then the role when no scope is left.

\* A row that was revoked before is not revoked again, but the request goes on.
ReadAssignment(r) ==
  /\ req[r].pc = "read"
  /\ Goto(r, IF assignment[req[r].id].active THEN "update" ELSE "list")
  /\ UNCHANGED <<identities, roles, assignment, trail>>

\* Seeded fault: the update of a revocation does not ask whether the row is active.
StillActiveUnchecked(i) == TRUE

\* The update holds only of a row that is still active; the memory does not ask.
StillActive(i) == assignment[i].active \/ Backend = "memory"

UpdateAssignment(r) ==
  /\ req[r].pc = "update"
  /\ IF StillActive(req[r].id)
     THEN /\ assignment' = [assignment EXCEPT ![req[r].id].active = FALSE]
          /\ trail' = Append(trail, <<"revoked", req[r].id>>)
     ELSE UNCHANGED <<assignment, trail>>
  /\ Goto(r, "list")
  /\ UNCHANGED <<identities, roles>>

ListAssignments(r) ==
  /\ req[r].pc = "list"
  /\ Goto(r, IF Assigned(req[r].uid) = {} THEN "drop" ELSE "answer")
  /\ UNCHANGED <<identities, roles, assignment, trail>>

\* revokeRole: of every scope.
DropRole(r) ==
  /\ req[r].pc = "drop"
  /\ roles' = {row \in roles : ~(row.uid = req[r].uid /\ row.role = req[r].role)}
  /\ Goto(r, "answer")
  /\ UNCHANGED <<identities, assignment, trail>>

-----------------------------------------------------------------------------
\* The end of a request: its answer, 500 for an error, or the death of the server.

Answer(r) ==
  /\ req[r].pc \in {"answer", "error"}
  /\ req' = [req EXCEPT ![r] = Idle]
  /\ UNCHANGED <<identities, roles, assignment, trail>>

Crash ==
  /\ Crashes
  /\ \E r \in Request : req[r].pc # "idle"
  /\ req' = [r \in Request |-> Idle]
  /\ UNCHANGED <<identities, roles, assignment, trail>>

Step(r) ==
  \/ GrantBootstrapAdmin(r)
  \/ InsertAssignment(r)
  \/ FindAssignment(r)
  \/ LookForAssignment(r)
  \/ PushAssignment(r)
  \/ EnsureReviewerRole(r)
  \/ InsertRole(r)
  \/ FindRole(r)
  \/ ReadAssignment(r)
  \/ UpdateAssignment(r)
  \/ ListAssignments(r)
  \/ DropRole(r)
  \/ Answer(r)

Next ==
  \/ \E r \in Request, u \in User :
       \/ Login(r, u)
       \/ \E scope \in Scope : AssignReviewer(r, u, scope)
       \/ \E role \in Role :
            \/ \E scope \in Team \cup {"global"} : GrantRole(r, u, role, scope)
            \/ RevokeRoleAssignment(r, u, role)
  \/ \E r \in Request, i \in AssignmentId : RevokeReviewer(r, i)
  \/ \E r \in Request : Step(r)
  \/ Crash

Spec == Init /\ [][Next]_vars

-----------------------------------------------------------------------------
\* Properties.

\* The audit log and the outbox tell the table: an assignment that exists was
\* announced once, and one that is not active any more was revoked once, after
\* that, however many admins revoked it at the same time.
TrailTellsAssignments ==
  \A i \in AssignmentId :
    LET At(event) == {n \in DOMAIN trail : trail[n] = <<event, i>>} IN
    /\ Cardinality(At("assigned")) = (IF assignment[i] = NoRow THEN 0 ELSE 1)
    /\ Cardinality(At("revoked")) =
         (IF assignment[i] = NoRow \/ assignment[i].active THEN 0 ELSE 1)
    /\ \A m \in At("assigned"), n \in At("revoked") : m < n

\* "Revoking the last admin would take the platform's authority away for good"
\* (revokeRoleAssignment): nobody who is an admin ceases to be one, whatever
\* admins do on either page.
AdminsRemain == \A u \in User : IsAdmin(u) => IsAdmin(u)'

\* What an answered request promises, one request at a time but with the server
\* dying between any two steps: an assignment that was answered gives both the
\* scope and the role, and a revocation that was answered leaves no role behind
\* without a scope, even when it repeats one that died half way.
AnswerKeepsPromise ==
  \A r \in Request : req[r].pc = "answer" =>
    /\ req[r].op = "assign" => Assigned(req[r].uid) # {} /\ IsReviewer(req[r].uid)
    /\ req[r].op = "revoke" =>
         (Assigned(req[r].uid) = {} => ~HasRole(req[r].uid, "reviewer", "global"))

\* "Role and scope come and go together" (revokeReviewer): when no request is
\* under way, a reviewer has a scope and who has a scope is a reviewer.
InAndOutTogether ==
  (\A r \in Request : req[r] = Idle) =>
    \A u \in User : IsReviewer(u) <=> Assigned(u) # {}

\* The error of grantRole and assignReviewer, "no active row after a conflict",
\* is not answered.
ConflictIsFound == \A r \in Request : req[r].pc # "error"
=============================================================================

------------------------- MODULE Identity_proofs -------------------------
(***************************************************************************)
(* Theorems about ReviewerRoles, for any people, scopes and requests, and  *)
(* then about LoginSession, for any number of browsers, callbacks, logins  *)
(* and sessions, any list of allowed uids and any lifetimes.               *)
(***************************************************************************)
EXTENDS ReviewerRoles, FiniteSetTheorems, TLAPS

CONSTANTS
  Browser, Allowed, Requested, Destination, Home, Callback, StateTTL, Lifetime,
  MaxTime, MaxLogins, MaxSessions

VARIABLES now, issued, pending, callback, admitted, session, cookie, known

\* Logging in, for the same people; its identities are those that it admitted.
Logins == INSTANCE LoginSession WITH identities <- admitted

-----------------------------------------------------------------------------
(* What a request under way knows *)

Fits(q) ==
  /\ q.pc \in {"assign", "find", "push", "ensure"} =>
       q.op = "assign" /\ q.uid \in User /\ q.role = "reviewer" /\ q.scope \in Scope
  /\ q.pc \in {"grant", "lookup"} =>
       /\ q.op \in {"assign", "grant", "login"}
       /\ q.uid \in User /\ q.role \in Role /\ q.scope \in Team \cup {"global", None}
       /\ q.op = "assign" => q.role = "reviewer" /\ q.scope = "global"
       /\ q.op = "login" => q.role = "platform_admin"
       /\ q.op = "grant" => q.op \in Operations
  /\ q.pc \in {"read", "update"} =>
       /\ q.op = "revoke" /\ q.role = "reviewer"
       /\ q.id \in AssignmentId /\ assignment[q.id] # NoRow
       /\ q.uid = assignment[q.id].reviewer
  /\ q.pc = "list" => q.op = "revoke" /\ q.uid \in User /\ q.role = "reviewer"
  /\ q.pc = "drop" =>
       /\ q.op \in {"revoke", "withdraw"} /\ q.uid \in User /\ q.role \in Grantable
       /\ q.op = "revoke" => q.role = "reviewer"
       /\ q.op = "withdraw" => q.op \in Operations
  /\ q.pc = "bootstrap" =>
       q.op = "login" /\ q.uid \in User /\ q.role = "platform_admin" /\ q.scope = None

FitInv == TypeOK /\ \A r \in Request : Fits(req[r])

\* No row is taken out of the table, and none changes hands.
RowsStay ==
  \A i \in AssignmentId : assignment[i] # NoRow =>
    assignment'[i] # NoRow /\ assignment'[i].reviewer = assignment[i].reviewer

\* A row that is there is of somebody.
LEMMA RowIsThere ==
  ASSUME ReviewerRolesAssumption, NEW row \in Assignment, row # NoRow
  PROVE  row.reviewer \in User /\ row.scope \in Scope /\ row.active \in BOOLEAN
BY DEF Assignment

LEMMA RowIsMade ==
  ASSUME ReviewerRolesAssumption, NEW u \in User, NEW scope \in Scope, NEW b \in BOOLEAN
  PROVE  LET row == [reviewer |-> u, scope |-> scope, active |-> b]
         IN row \in Assignment /\ row # NoRow
BY DEF Assignment, NoRow, ReviewerRolesAssumption

\* One request moves, the others keep what they know.
LEMMA RequestMoves ==
  ASSUME FitInv, NEW r \in Request, NEW x \in RequestState,
         req' = [req EXCEPT ![r] = x], RowsStay, Fits(x)'
  PROVE  req' \in [Request -> RequestState] /\ \A s \in Request : Fits(req[s])'
<1>1. req' \in [Request -> RequestState] /\ req'[r] = x
  BY DEF FitInv, TypeOK
<1>2. \A s \in Request \ {r} : req'[s] = req[s] /\ Fits(req[s])
  BY DEF FitInv, TypeOK
<1>3. \A s \in Request \ {r} : Fits(req[s])'
  BY <1>2 DEF Fits, RowsStay
<1> QED BY <1>1, <1>3

\* It goes on to its next statement.
LEMMA RequestGoes ==
  ASSUME FitInv, NEW r \in Request, NEW p \in Place, Goto(r, p)
  PROVE  \E x \in RequestState :
           /\ req' = [req EXCEPT ![r] = x]
           /\ x.pc = p /\ x.op = req[r].op /\ x.uid = req[r].uid /\ x.role = req[r].role
           /\ x.scope = req[r].scope /\ x.id = req[r].id
<1> DEFINE x == [req[r] EXCEPT !.pc = p]
<1>1. req[r] \in RequestState
  BY DEF FitInv, TypeOK
<1>2. /\ x \in RequestState /\ x.pc = p /\ x.op = req[r].op /\ x.uid = req[r].uid
      /\ x.role = req[r].role /\ x.scope = req[r].scope /\ x.id = req[r].id
  BY <1>1 DEF RequestState
<1>3. req' = [req EXCEPT ![r] = x]
  BY DEF Goto
<1> QED BY <1>2, <1>3

\* The requests as they come in.
LEMMA RequestsComeIn ==
  ASSUME ReviewerRolesAssumption
  PROVE  /\ Idle \in RequestState
         /\ \A u \in User, scope \in Scope : "assign" \in Operations =>
              [Idle EXCEPT !.pc = "assign", !.op = "assign", !.uid = u,
                           !.role = "reviewer", !.scope = scope] \in RequestState
         /\ \A u \in User, i \in AssignmentId : "revoke" \in Operations =>
              [Idle EXCEPT !.pc = "read", !.op = "revoke", !.role = "reviewer",
                           !.uid = u, !.id = i] \in RequestState
         /\ \A u \in User, role \in Role, scope \in Team \cup {"global"} :
              "grant" \in Operations =>
                [Idle EXCEPT !.pc = "grant", !.op = "grant", !.uid = u,
                             !.role = role, !.scope = scope] \in RequestState
         /\ \A u \in User, role \in Role : "withdraw" \in Operations =>
              [Idle EXCEPT !.pc = "drop", !.op = "withdraw", !.uid = u, !.role = role]
                \in RequestState
         /\ \A u \in User, p \in {"bootstrap", "answer"} :
              [Idle EXCEPT !.op = "login", !.uid = u, !.role = "platform_admin", !.pc = p]
                \in RequestState
<1> USE DEF ReviewerRolesAssumption, Idle, RequestState, Place
<1>1. 0 \in 0 .. MaxAssigned /\ \A i \in AssignmentId : i \in 0 .. MaxAssigned
  BY DEF AssignmentId
<1> QED BY <1>1

-----------------------------------------------------------------------------
(* What each step keeps *)

\* A step that leaves the tables alone.
LEMMA TablesRest ==
  ASSUME FitInv, NEW r \in Request, NEW x \in RequestState,
         req' = [req EXCEPT ![r] = x], Fits(x),
         UNCHANGED <<identities, roles, assignment, trail>>
  PROVE  FitInv'
<1>1. RowsStay /\ Fits(x)'
  BY DEF RowsStay, Fits
<1>2. req' \in [Request -> RequestState] /\ \A s \in Request : Fits(req[s])'
  BY <1>1, RequestMoves
<1> QED BY <1>2 DEF FitInv, TypeOK

\* A route lets a request in with the arguments its first statement takes.
LEMMA RoutesKeep ==
  ASSUME ReviewerRolesAssumption, FitInv, NEW r \in Request,
         \/ \E u \in User, scope \in Scope : AssignReviewer(r, u, scope)
         \/ \E i \in AssignmentId : RevokeReviewer(r, i)
         \/ \E u \in User, role \in Role, scope \in Team \cup {"global"} :
              GrantRole(r, u, role, scope)
         \/ \E u \in User, role \in Role : RevokeRoleAssignment(r, u, role)
  PROVE  FitInv'
<1>1. CASE \E u \in User, scope \in Scope : AssignReviewer(r, u, scope)
  <2>1. PICK u \in User, scope \in Scope : AssignReviewer(r, u, scope)
    BY <1>1
  <2> DEFINE x == [Idle EXCEPT !.pc = "assign", !.op = "assign", !.uid = u,
                               !.role = "reviewer", !.scope = scope]
  <2>2. /\ x.pc = "assign" /\ x.op = "assign" /\ x.uid = u /\ x.role = "reviewer" /\ x.scope = scope
    BY DEF Idle
  <2>3. "assign" \in Operations
    BY <2>1, <2>2 DEF AssignReviewer, Accept
  <2>4. x \in RequestState
    BY <2>3, RequestsComeIn
  <2>5. /\ req' = [req EXCEPT ![r] = x] /\ UNCHANGED <<identities, roles, assignment, trail>>
    BY <2>1 DEF AssignReviewer, Accept
  <2> HIDE DEF x
  <2>6. Fits(x)
    BY <2>2 DEF Fits
  <2> QED BY <2>4, <2>5, <2>6, TablesRest
<1>2. CASE \E i \in AssignmentId : RevokeReviewer(r, i)
  <2>1. PICK i \in AssignmentId : RevokeReviewer(r, i)
    BY <1>2
  <2> DEFINE u == assignment[i].reviewer
             x == [Idle EXCEPT !.pc = "read", !.op = "revoke", !.role = "reviewer",
                               !.uid = u, !.id = i]
  <2>2. /\ x.pc = "read" /\ x.op = "revoke" /\ x.uid = u /\ x.role = "reviewer" /\ x.id = i
    BY DEF Idle
  <2>3. "revoke" \in Operations /\ assignment[i] # NoRow
    BY <2>1, <2>2 DEF RevokeReviewer, Accept
  <2>4. u \in User
    BY <2>3, RowIsThere DEF FitInv, TypeOK
  <2>5. x \in RequestState
    BY <2>3, <2>4, RequestsComeIn
  <2>6. /\ req' = [req EXCEPT ![r] = x] /\ UNCHANGED <<identities, roles, assignment, trail>>
    BY <2>1 DEF RevokeReviewer, Accept
  <2> HIDE DEF x
  <2>7. Fits(x)
    BY <2>2, <2>3 DEF Fits
  <2> QED BY <2>5, <2>6, <2>7, TablesRest
<1>3. CASE \E u \in User, role \in Role, scope \in Team \cup {"global"} : GrantRole(r, u, role, scope)
  <2>1. PICK u \in User, role \in Role, scope \in Team \cup {"global"} : GrantRole(r, u, role, scope)
    BY <1>3
  <2> DEFINE x == [Idle EXCEPT !.pc = "grant", !.op = "grant", !.uid = u,
                               !.role = role, !.scope = scope]
  <2>2. /\ x.pc = "grant" /\ x.op = "grant" /\ x.uid = u /\ x.role = role /\ x.scope = scope
    BY DEF Idle
  <2>3. "grant" \in Operations
    BY <2>1, <2>2 DEF GrantRole, Accept
  <2>4. x \in RequestState
    BY <2>3, RequestsComeIn
  <2>5. /\ req' = [req EXCEPT ![r] = x] /\ UNCHANGED <<identities, roles, assignment, trail>>
    BY <2>1 DEF GrantRole, Accept
  <2> HIDE DEF x
  <2>6. Fits(x)
    BY <2>2, <2>3 DEF Fits
  <2> QED BY <2>4, <2>5, <2>6, TablesRest
<1>4. CASE \E u \in User, role \in Role : RevokeRoleAssignment(r, u, role)
  <2>1. PICK u \in User, role \in Role : RevokeRoleAssignment(r, u, role)
    BY <1>4
  <2> DEFINE x == [Idle EXCEPT !.pc = "drop", !.op = "withdraw", !.uid = u, !.role = role]
  <2>2. /\ x.pc = "drop" /\ x.op = "withdraw" /\ x.uid = u /\ x.role = role
    BY DEF Idle
  <2>3. "withdraw" \in Operations /\ role \in Grantable
    BY <2>1, <2>2 DEF RevokeRoleAssignment, Accept
  <2>4. x \in RequestState
    BY <2>3, RequestsComeIn
  <2>5. /\ req' = [req EXCEPT ![r] = x] /\ UNCHANGED <<identities, roles, assignment, trail>>
    BY <2>1 DEF RevokeRoleAssignment, Accept
  <2> HIDE DEF x
  <2>6. Fits(x)
    BY <2>2, <2>3 DEF Fits
  <2> QED BY <2>4, <2>5, <2>6, TablesRest
<1> QED BY <1>1, <1>2, <1>3, <1>4

\* A login knows the uid it is about to make an admin.
LEMMA LoginKeeps ==
  ASSUME ReviewerRolesAssumption, FitInv, NEW r \in Request, NEW u \in User, Login(r, u)
  PROVE  FitInv'
<1> DEFINE p == IF u \in Bootstrap THEN "bootstrap" ELSE "answer"
           x == [Idle EXCEPT !.op = "login", !.uid = u, !.role = "platform_admin", !.pc = p]
<1>1. p \in {"bootstrap", "answer"}
  OBVIOUS
<1>2. req' = [req EXCEPT ![r] = x] /\ UNCHANGED <<roles, assignment, trail>>
  BY DEF Login
<1> HIDE DEF p
<1>3. x.op = "login" /\ x.uid = u /\ x.role = "platform_admin" /\ x.pc = p /\ x.scope = None
  BY DEF Idle
<1>4. x \in RequestState
  BY <1>1, RequestsComeIn
<1> HIDE DEF x
<1>5. Fits(x) /\ Fits(x)' /\ RowsStay
  BY <1>1, <1>2, <1>3 DEF Fits, RowsStay
<1>6. req' \in [Request -> RequestState] /\ \A s \in Request : Fits(req[s])'
  BY <1>2, <1>4, <1>5, RequestMoves
<1>7. identities' \subseteq User
  BY DEF Login, FitInv, TypeOK
<1> QED BY <1>2, <1>6, <1>7 DEF FitInv, TypeOK

\* A statement that only reads.
LEMMA ReadsKeep ==
  ASSUME ReviewerRolesAssumption, FitInv, NEW r \in Request,
         \/ GrantBootstrapAdmin(r) \/ FindAssignment(r) \/ LookForAssignment(r)
         \/ FindRole(r) \/ ReadAssignment(r) \/ ListAssignments(r)
  PROVE  FitInv'
<1>1. UNCHANGED <<identities, roles, assignment, trail>>
  BY DEF GrantBootstrapAdmin, FindAssignment, LookForAssignment, FindRole, ReadAssignment,
         ListAssignments
<1>2. PICK p \in Place :
        /\ Goto(r, p)
        /\ \/ req[r].pc = "bootstrap" /\ p \in {"answer", "grant"}
           \/ req[r].pc = "find" /\ p \in {"error", "ensure"}
           \/ req[r].pc = "assign" /\ p \in {"push", "ensure"}
           \/ req[r].pc = "lookup" /\ p \in {"answer", "error"}
           \/ req[r].pc = "read" /\ p \in {"update", "list"}
           \/ req[r].pc = "list" /\ p \in {"drop", "answer"}
  <2>1. {"answer", "grant", "error", "ensure", "push", "update", "list", "drop"} \subseteq Place
    BY DEF Place
  <2> QED BY <2>1 DEF GrantBootstrapAdmin, FindAssignment, LookForAssignment, FindRole,
                      ReadAssignment, ListAssignments
<1>3. PICK x \in RequestState :
        /\ req' = [req EXCEPT ![r] = x]
        /\ x.pc = p /\ x.op = req[r].op /\ x.uid = req[r].uid /\ x.role = req[r].role
        /\ x.scope = req[r].scope /\ x.id = req[r].id
  BY <1>2, RequestGoes
<1>4. Fits(req[r]) /\ assignment \in [AssignmentId -> Assignment]
  BY DEF FitInv, TypeOK
<1>5. \A i \in AssignmentId : assignment[i] # NoRow => assignment[i].reviewer \in User
  BY <1>4, RowIsThere
<1>6. "reviewer" \in Grantable /\ "platform_admin" \in Role
  BY DEF Grantable, ReviewerRolesAssumption
<1>7. Fits(x)
  BY <1>2, <1>3, <1>4, <1>5, <1>6 DEF Fits
<1> QED BY <1>1, <1>3, <1>7, TablesRest

\* The row of an assignment is inserted and announced in one transaction.
LEMMA InsertKeeps ==
  ASSUME ReviewerRolesAssumption, FitInv, NEW r \in Request, req[r].pc \in {"assign", "push"},
         Insert(RowOf(r)), Goto(r, "ensure"), UNCHANGED <<identities, roles>>
  PROVE  FitInv' /\ RowsStay
<1>1. PICK i \in AssignmentId :
        /\ assignment[i] = NoRow
        /\ assignment' = [assignment EXCEPT ![i] = RowOf(r)]
        /\ trail' = Append(trail, <<"assigned", i>>)
  BY DEF Insert, Follows, Fresh
<1>2. Fits(req[r]) /\ assignment \in [AssignmentId -> Assignment] /\ trail \in Seq(Event)
  BY DEF FitInv, TypeOK
<1>3. RowOf(r) \in Assignment /\ RowOf(r) # NoRow
  BY <1>2, RowIsMade DEF Fits, RowOf
<1>4. assignment' \in [AssignmentId -> Assignment] /\ trail' \in Seq(Event)
  BY <1>1, <1>2, <1>3 DEF Event
<1>5. RowsStay
  BY <1>1, <1>2 DEF RowsStay
<1>6. PICK x \in RequestState :
        /\ req' = [req EXCEPT ![r] = x]
        /\ x.pc = "ensure" /\ x.op = req[r].op /\ x.uid = req[r].uid /\ x.role = req[r].role
        /\ x.scope = req[r].scope /\ x.id = req[r].id
  BY RequestGoes DEF Place
<1>7. Fits(x)'
  BY <1>2, <1>6 DEF Fits
<1> QED BY <1>4, <1>5, <1>6, <1>7, RequestMoves DEF FitInv, TypeOK

\* A row that is revoked stays where it is.
LEMMA UpdateKeeps ==
  ASSUME ReviewerRolesAssumption, FitInv, NEW r \in Request, UpdateAssignment(r)
  PROVE  FitInv' /\ RowsStay
<1> DEFINE i == req[r].id
<1>1. /\ req[r].pc = "update" /\ Fits(req[r])
      /\ assignment \in [AssignmentId -> Assignment] /\ trail \in Seq(Event)
  BY DEF FitInv, TypeOK, UpdateAssignment
<1>2. i \in AssignmentId /\ assignment[i] # NoRow /\ assignment[i].reviewer \in User
  BY <1>1, RowIsThere DEF Fits
<1> HIDE DEF i
<1>3. /\ assignment' \in [AssignmentId -> Assignment]
      /\ assignment'[i] # NoRow /\ assignment'[i].reviewer = assignment[i].reviewer
      /\ \A j \in AssignmentId \ {i} : assignment'[j] = assignment[j]
  <2>1. CASE UNCHANGED assignment
    BY <1>1, <1>2, <2>1
  <2>2. CASE assignment' = [assignment EXCEPT ![i].active = FALSE]
    <3> DEFINE row == [assignment[i] EXCEPT !.active = FALSE]
    <3>1. assignment[i] \in [reviewer : User, scope : Scope, active : BOOLEAN]
      BY <1>1, <1>2 DEF Assignment
    <3>2. /\ row \in [reviewer : User, scope : Scope, active : BOOLEAN]
          /\ row.reviewer = assignment[i].reviewer
      BY <3>1
    <3>3. assignment' = [assignment EXCEPT ![i] = row]
      BY <2>2
    <3>4. row \in Assignment /\ row # NoRow
      BY <1>2, <3>2 DEF Assignment, NoRow, ReviewerRolesAssumption
    <3> HIDE DEF row
    <3> QED BY <1>1, <1>2, <3>2, <3>3, <3>4
  <2> QED BY <2>1, <2>2 DEF UpdateAssignment, i
<1>4. RowsStay
  BY <1>3 DEF RowsStay
<1>5. trail' \in Seq(Event)
  <2>1. <<"revoked", i>> \in Event
    BY <1>2 DEF Event
  <2> QED BY SMTT(30), <1>1, <2>1 DEF UpdateAssignment, i
<1>6. PICK x \in RequestState :
        /\ req' = [req EXCEPT ![r] = x]
        /\ x.pc = "list" /\ x.op = req[r].op /\ x.uid = req[r].uid /\ x.role = req[r].role
        /\ x.scope = req[r].scope /\ x.id = req[r].id
  BY RequestGoes DEF Place, UpdateAssignment
<1>7. Fits(x)'
  BY <1>1, <1>2, <1>6 DEF Fits, i
<1>8. UNCHANGED <<identities, roles>>
  BY DEF UpdateAssignment
<1> QED BY <1>3, <1>4, <1>5, <1>6, <1>7, <1>8, RequestMoves DEF FitInv, TypeOK

\* A statement of the roles, or of the request alone.
LEMMA RolesKeep ==
  ASSUME ReviewerRolesAssumption, FitInv, NEW r \in Request,
         EnsureReviewerRole(r) \/ InsertRole(r) \/ DropRole(r) \/ Answer(r)
  PROVE  FitInv' /\ UNCHANGED assignment
<1>1. Fits(req[r]) /\ req[r] \in RequestState /\ roles \subseteq RoleRow
  BY DEF FitInv, TypeOK
<1>2. UNCHANGED <<identities, assignment, trail>>
  BY DEF EnsureReviewerRole, InsertRole, DropRole, Answer
<1>3. RowsStay
  BY <1>2 DEF RowsStay
<1>4. CASE EnsureReviewerRole(r)
  <2> DEFINE p == IF IsReviewer(req[r].uid) THEN "answer" ELSE "grant"
             x == [req[r] EXCEPT !.pc = p, !.scope = "global"]
  <2>1. p \in {"answer", "grant"} /\ req[r].pc = "ensure"
    BY <1>4 DEF EnsureReviewerRole
  <2>2. req' = [req EXCEPT ![r] = x] /\ UNCHANGED roles
    BY <1>4 DEF EnsureReviewerRole
  <2> HIDE DEF p
  <2>3. /\ x \in RequestState /\ x.pc = p /\ x.scope = "global"
        /\ x.op = req[r].op /\ x.uid = req[r].uid /\ x.role = req[r].role
    BY <1>1, <2>1 DEF RequestState, Place
  <2> HIDE DEF x
  <2>4. Fits(x)
    BY <1>1, <2>1, <2>3 DEF Fits, ReviewerRolesAssumption
  <2> QED BY <1>2, <2>2, <2>3, <2>4, TablesRest
<1>5. CASE InsertRole(r)
  <2>1. Granted(r) \in RoleRow
    BY <1>1, <1>5 DEF InsertRole, Granted, RoleRow, Fits
  <2>2. PICK p \in Place : p \in {"lookup", "answer"} /\ Goto(r, p) /\ req[r].pc = "grant"
    BY <1>5 DEF InsertRole, Place
  <2>3. PICK x \in RequestState :
          /\ req' = [req EXCEPT ![r] = x]
          /\ x.pc = p /\ x.op = req[r].op /\ x.uid = req[r].uid /\ x.role = req[r].role
          /\ x.scope = req[r].scope /\ x.id = req[r].id
    BY <2>2, RequestGoes
  <2>4. Fits(x)'
    BY <1>1, <2>2, <2>3 DEF Fits
  <2>5. roles' \subseteq RoleRow
    BY <1>1, <1>5, <2>1 DEF InsertRole
  <2> QED BY <1>2, <1>3, <2>3, <2>4, <2>5, RequestMoves DEF FitInv, TypeOK
<1>6. CASE DropRole(r)
  <2>1. PICK x \in RequestState :
          req' = [req EXCEPT ![r] = x] /\ x.pc = "answer"
    BY <1>6, RequestGoes DEF DropRole, Place
  <2>2. Fits(x)' /\ roles' \subseteq RoleRow
    BY <1>1, <1>6, <2>1 DEF Fits, DropRole
  <2> QED BY <1>2, <1>3, <2>1, <2>2, RequestMoves DEF FitInv, TypeOK
<1>7. CASE Answer(r)
  <2>1. Fits(Idle)
    BY DEF Fits, Idle
  <2> QED BY <1>2, <1>7, <2>1, RequestsComeIn, TablesRest DEF Answer
<1> QED BY <1>2, <1>4, <1>5, <1>6, <1>7

\* When the server dies, every request is gone.
LEMMA CrashKeeps == ReviewerRolesAssumption /\ FitInv /\ Crash => FitInv'
<1> SUFFICES ASSUME ReviewerRolesAssumption, FitInv, Crash
             PROVE  FitInv'
  OBVIOUS
<1>1. req' \in [Request -> RequestState] /\ \A r \in Request : req'[r] = Idle
  BY RequestsComeIn DEF Crash
<1>2. \A r \in Request : Fits(req[r])'
  BY <1>1 DEF Fits, Idle
<1> QED BY <1>1, <1>2 DEF Crash, FitInv, TypeOK

\* Every step keeps what requests know, and no row leaves the table.
LEMMA NextFits ==
  ASSUME ReviewerRolesAssumption, FitInv, [Next]_vars
  PROVE  FitInv' /\ RowsStay
<1>1. CASE UNCHANGED vars
  BY <1>1 DEF FitInv, TypeOK, Fits, RowsStay, vars
<1>2. ASSUME NEW r \in Request, NEW u \in User, Login(r, u)
      PROVE  FitInv' /\ RowsStay
  BY <1>2, LoginKeeps DEF Login, RowsStay
<1>3. ASSUME NEW r \in Request,
             \/ \E u \in User, scope \in Scope : AssignReviewer(r, u, scope)
             \/ \E i \in AssignmentId : RevokeReviewer(r, i)
             \/ \E u \in User, role \in Role, scope \in Team \cup {"global"} :
                  GrantRole(r, u, role, scope)
             \/ \E u \in User, role \in Role : RevokeRoleAssignment(r, u, role)
      PROVE  FitInv' /\ RowsStay
  <2>1. UNCHANGED assignment
    BY <1>3 DEF AssignReviewer, RevokeReviewer, GrantRole, RevokeRoleAssignment, Accept
  <2> QED BY <1>3, <2>1, RoutesKeep DEF RowsStay
<1>4. ASSUME NEW r \in Request,
             \/ GrantBootstrapAdmin(r) \/ FindAssignment(r) \/ LookForAssignment(r)
             \/ FindRole(r) \/ ReadAssignment(r) \/ ListAssignments(r)
      PROVE  FitInv' /\ RowsStay
  <2>1. UNCHANGED assignment
    BY <1>4 DEF GrantBootstrapAdmin, FindAssignment, LookForAssignment, FindRole, ReadAssignment,
         ListAssignments
  <2> QED BY <1>4, <2>1, ReadsKeep DEF RowsStay
<1>5. ASSUME NEW r \in Request, InsertAssignment(r)
      PROVE  FitInv' /\ RowsStay
  <2>1. CASE Insert(RowOf(r)) /\ Goto(r, "ensure")
    BY <1>5, <2>1, InsertKeeps DEF InsertAssignment
  <2>2. CASE Goto(r, "find") /\ UNCHANGED <<assignment, trail>>
    <3>1. PICK x \in RequestState :
            /\ req' = [req EXCEPT ![r] = x]
            /\ x.pc = "find" /\ x.op = req[r].op /\ x.uid = req[r].uid /\ x.role = req[r].role
            /\ x.scope = req[r].scope
      BY <2>2, RequestGoes DEF Place
    <3>2. Fits(x)
      BY <1>5, <3>1 DEF FitInv, InsertAssignment, Fits
    <3> QED BY <1>5, <2>2, <3>1, <3>2, TablesRest DEF InsertAssignment, RowsStay
  <2> QED BY <1>5, <2>1, <2>2 DEF InsertAssignment
<1>6. ASSUME NEW r \in Request, PushAssignment(r)
      PROVE  FitInv' /\ RowsStay
  BY <1>6, InsertKeeps DEF PushAssignment
<1>7. ASSUME NEW r \in Request, UpdateAssignment(r)
      PROVE  FitInv' /\ RowsStay
  BY <1>7, UpdateKeeps
<1>8. ASSUME NEW r \in Request, EnsureReviewerRole(r) \/ InsertRole(r) \/ DropRole(r) \/ Answer(r)
      PROVE  FitInv' /\ RowsStay
  BY <1>8, RolesKeep DEF RowsStay
<1>9. CASE Crash
  BY <1>9, CrashKeeps DEF Crash, RowsStay
<1>10. ASSUME NEW r \in Request, Step(r)
       PROVE  FitInv' /\ RowsStay
  BY <1>4, <1>5, <1>6, <1>7, <1>8, <1>10 DEF Step
<1> QED BY <1>1, <1>2, <1>3, <1>9, <1>10 DEF Next

\* In every state of every execution.
LEMMA FitInvariant == ASSUME ReviewerRolesAssumption PROVE Spec => []FitInv
<1>1. Init => FitInv
  <2> SUFFICES ASSUME Init
               PROVE  FitInv
    OBVIOUS
  <2>1. NoRow \in Assignment /\ Idle \in RequestState
    BY RequestsComeIn DEF Assignment
  <2>2. TypeOK
    BY <2>1 DEF Init, TypeOK
  <2>3. \A r \in Request : Fits(req[r])
    BY DEF Init, Fits, Idle
  <2> QED BY <2>2, <2>3 DEF FitInv
<1>2. FitInv /\ [Next]_vars => FitInv'
  BY NextFits
<1> QED BY <1>1, <1>2, PTL DEF Spec

-----------------------------------------------------------------------------
(* Types and admins *)

\* Every table and every request has its type.
THEOREM TypeCorrect == ASSUME ReviewerRolesAssumption PROVE Spec => []TypeOK
<1>1. FitInv => TypeOK
  BY DEF FitInv
<1> QED BY <1>1, FitInvariant, PTL

\* Nobody who is an admin ceases to be one, whatever admins do on either page:
\* the only statement that takes a role takes none of platform_admin
\* (revokeRoleAssignment, revokeReviewer).
THEOREM AdminsRemainHolds ==
  ASSUME ReviewerRolesAssumption PROVE Spec => [][AdminsRemain]_vars
<1>1. FitInv /\ [Next]_vars => AdminsRemain \/ UNCHANGED vars
  <2> SUFFICES ASSUME FitInv, Next
               PROVE  AdminsRemain
    BY DEF vars
  <2>1. ASSUME NEW row \in roles, row.role = "platform_admin"
        PROVE  row \in roles'
    <3>1. CASE UNCHANGED roles
      BY <3>1
    <3>2. ASSUME NEW r \in Request, InsertRole(r)
          PROVE  row \in roles'
      BY <3>2 DEF InsertRole
    <3>3. ASSUME NEW r \in Request, DropRole(r)
          PROVE  row \in roles'
      <4>1. req[r].role # "platform_admin"
        BY <3>3 DEF FitInv, Fits, DropRole, Grantable
      <4> QED BY <2>1, <3>3, <4>1 DEF DropRole
    <3> QED BY ZenonT(30), <3>1, <3>2, <3>3
            DEF Next, Step, Login, AssignReviewer, GrantRole, RevokeRoleAssignment, RevokeReviewer,
                Accept, GrantBootstrapAdmin, InsertAssignment, FindAssignment, LookForAssignment,
                PushAssignment, EnsureReviewerRole, FindRole, ReadAssignment, UpdateAssignment,
                ListAssignments, Answer, Crash
  <2> QED BY <2>1 DEF AdminsRemain, IsAdmin, HasRole
<1> QED BY <1>1, FitInvariant, PTL DEF Spec

-----------------------------------------------------------------------------
(* The trail *)

OneAtATime == \A r, s \in Request : r = s

\* The database looks again when it updates; the memory is asked by one
\* request at a time.
TrailAssumption == Backend = "postgres" \/ OneAtATime

Told(e) == \E n \in DOMAIN trail : trail[n] = e

ToldOnce == \A m, n \in DOMAIN trail : trail[m] = trail[n] => m = n

AssignedFirst ==
  \A i \in AssignmentId, m, n \in DOMAIN trail :
    trail[m] = <<"assigned", i>> /\ trail[n] = <<"revoked", i>> => m < n

\* Where the update does not ask, only a row that is active is updated.
ActiveUpdated ==
  Backend # "postgres" =>
    \A r \in Request : req[r].pc = "update" => assignment[req[r].id].active

TrailInv ==
  /\ FitInv
  /\ ToldOnce
  /\ AssignedFirst
  /\ \A i \in AssignmentId : Told(<<"assigned", i>>) <=> assignment[i] # NoRow
  /\ \A i \in AssignmentId :
       Told(<<"revoked", i>>) <=> assignment[i] # NoRow /\ ~assignment[i].active
  /\ ActiveUpdated

\* An event that is told for the first time is told once.
LEMMA ToldNext ==
  ASSUME trail \in Seq(Event), NEW e \in Event, trail' = Append(trail, e), ToldOnce, ~Told(e)
  PROVE  /\ ToldOnce'
         /\ \A x : Told(x)' <=> Told(x) \/ x = e
         /\ \A n \in DOMAIN trail : n \in DOMAIN trail' /\ trail'[n] = trail[n]
         /\ \A n \in DOMAIN trail' : n \in DOMAIN trail \/ trail'[n] = e
         /\ \A n \in DOMAIN trail' : trail'[n] = e => \A m \in DOMAIN trail : m < n
<1>1. /\ DOMAIN trail = 1 .. Len(trail) /\ DOMAIN trail' = 1 .. Len(trail) + 1
      /\ Len(trail) \in Nat /\ trail'[Len(trail) + 1] = e
      /\ \A n \in DOMAIN trail : trail'[n] = trail[n]
  OBVIOUS
<1>2. \A n \in DOMAIN trail' : n \in DOMAIN trail \/ n = Len(trail) + 1
  BY <1>1
<1>3. \A n \in DOMAIN trail' : trail'[n] = e => n = Len(trail) + 1
  BY <1>1, <1>2 DEF Told
<1>4. ToldOnce'
  BY <1>1, <1>2, <1>3 DEF ToldOnce
<1>5. ASSUME NEW x
      PROVE  Told(x)' <=> Told(x) \/ x = e
  BY <1>1, <1>2 DEF Told
<1> QED BY <1>1, <1>2, <1>3, <1>4, <1>5

\* A step that changes neither table nor trail.
LEMMA TrailRests ==
  ASSUME TrailInv, FitInv', ActiveUpdated', UNCHANGED <<assignment, trail>>
  PROVE  TrailInv'
BY DEF TrailInv, ToldOnce, AssignedFirst, Told

\* Only the reading of a row that is active leads to its update.
LEMMA ActiveStays ==
  ASSUME ReviewerRolesAssumption, TrailAssumption, TrailInv, FitInv', [Next]_vars
  PROVE  ActiveUpdated'
<1> SUFFICES ASSUME Backend # "postgres", NEW r \in Request, req'[r].pc = "update"
             PROVE  assignment'[req'[r].id].active
  BY DEF ActiveUpdated
<1>1. \A s \in Request : s = r
  BY DEF TrailAssumption, OneAtATime
<1>2. req \in [Request -> RequestState] /\ req[r] \in RequestState
  BY DEF TrailInv, FitInv, TypeOK
<1>3. CASE UNCHANGED vars
  BY <1>3 DEF TrailInv, ActiveUpdated, vars
<1>4. CASE ReadAssignment(r)
  <2>1. req'[r].id = req[r].id /\ req'[r].pc = IF assignment[req[r].id].active THEN "update" ELSE "list"
    BY <1>2, <1>4 DEF ReadAssignment, Goto, RequestState
  <2> QED BY <1>4, <2>1 DEF ReadAssignment
<1>5. ASSUME NEW p \in Place \ {"update"}, Goto(r, p)
      PROVE  FALSE
  BY <1>2, <1>5 DEF Goto, RequestState
<1>6. ASSUME NEW x, req' = [req EXCEPT ![r] = x], x.pc # "update"
      PROVE  FALSE
  BY <1>2, <1>6
<1>7. ASSUME Step(r), ~ReadAssignment(r)
      PROVE  FALSE
  <2>1. CASE GrantBootstrapAdmin(r) \/ FindAssignment(r) \/ LookForAssignment(r) \/ FindRole(r)
             \/ ListAssignments(r) \/ InsertAssignment(r) \/ PushAssignment(r) \/ InsertRole(r)
             \/ UpdateAssignment(r) \/ DropRole(r)
    BY <2>1, <1>5 DEF Place, GrantBootstrapAdmin, FindAssignment, LookForAssignment, FindRole,
                      ListAssignments, InsertAssignment, PushAssignment, InsertRole,
                      UpdateAssignment, DropRole
  <2>2. CASE EnsureReviewerRole(r)
    BY <1>2, <2>2 DEF EnsureReviewerRole, RequestState
  <2>3. CASE Answer(r)
    BY <1>6, <2>3 DEF Answer, Idle
  <2> QED BY <1>7, <2>1, <2>2, <2>3 DEF Step
<1>8. ASSUME NEW u \in User, NEW scope \in Scope, AssignReviewer(r, u, scope)
      PROVE  FALSE
  BY <1>2, <1>8 DEF AssignReviewer, Accept, Idle
<1>9. ASSUME NEW u \in User, NEW role \in Role, NEW scope, GrantRole(r, u, role, scope)
      PROVE  FALSE
  BY <1>2, <1>9 DEF GrantRole, Accept, Idle
<1>10. ASSUME NEW u \in User, NEW role \in Role, RevokeRoleAssignment(r, u, role)
       PROVE  FALSE
  BY <1>2, <1>10 DEF RevokeRoleAssignment, Accept, Idle
<1>11. ASSUME NEW i \in AssignmentId, RevokeReviewer(r, i)
       PROVE  FALSE
  BY <1>2, <1>11 DEF RevokeReviewer, Accept, Idle
<1>12. ASSUME NEW u \in User, Login(r, u)
       PROVE  FALSE
  BY <1>2, <1>12 DEF Login, Idle
<1>13. ~Crash
  BY DEF Crash, Idle
<1>14. Next => \/ Step(r) \/ Crash
               \/ \E u \in User :
                    \/ Login(r, u) \/ \E scope \in Scope : AssignReviewer(r, u, scope)
                    \/ \E role \in Role :
                         \/ \E scope \in Team \cup {"global"} : GrantRole(r, u, role, scope)
                         \/ RevokeRoleAssignment(r, u, role)
               \/ \E i \in AssignmentId : RevokeReviewer(r, i)
  BY <1>1 DEF Next
<1> QED BY <1>3, <1>4, <1>7, <1>8, <1>9, <1>10, <1>11, <1>12, <1>13, <1>14

\* A transaction that inserts a row tells that it is assigned, for the first time.
LEMMA InsertTells ==
  ASSUME ReviewerRolesAssumption, TrailInv, FitInv', ActiveUpdated',
         NEW r \in Request, req[r].pc \in {"assign", "push"}, Insert(RowOf(r))
  PROVE  TrailInv'
<1>1. PICK i \in AssignmentId :
        /\ assignment[i] = NoRow
        /\ assignment' = [assignment EXCEPT ![i] = RowOf(r)]
        /\ trail' = Append(trail, <<"assigned", i>>)
  BY DEF Insert, Follows, Fresh
<1>2. /\ Fits(req[r]) /\ assignment \in [AssignmentId -> Assignment] /\ trail \in Seq(Event)
      /\ <<"assigned", i>> \in Event /\ ~Told(<<"assigned", i>>) /\ ~Told(<<"revoked", i>>) /\ ToldOnce
  BY <1>1 DEF TrailInv, FitInv, TypeOK, Event
<1>3. RowOf(r) # NoRow /\ RowOf(r).active
  <2>1. RowOf(r) # NoRow
    BY <1>2, RowIsMade DEF Fits, RowOf
  <2> QED BY <2>1 DEF RowOf
<1>4. /\ assignment'[i] # NoRow /\ assignment'[i].active
      /\ \A j \in AssignmentId \ {i} : assignment'[j] = assignment[j]
  BY <1>1, <1>2, <1>3
<1>5. /\ ToldOnce'
      /\ \A x : Told(x)' <=> Told(x) \/ x = <<"assigned", i>>
      /\ \A n \in DOMAIN trail : n \in DOMAIN trail' /\ trail'[n] = trail[n]
      /\ \A n \in DOMAIN trail' : n \in DOMAIN trail \/ trail'[n] = <<"assigned", i>>
  BY <1>1, <1>2, ToldNext
<1>6. AssignedFirst'
  <2> SUFFICES ASSUME NEW j \in AssignmentId, NEW m \in DOMAIN trail', NEW n \in DOMAIN trail',
                      trail'[m] = <<"assigned", j>>, trail'[n] = <<"revoked", j>>
               PROVE  m < n
    BY DEF AssignedFirst
  <2>1. n \in DOMAIN trail /\ trail[n] = <<"revoked", j>>
    BY <1>5
  <2>2. j # i
    BY <1>2, <2>1 DEF Told
  <2>3. m \in DOMAIN trail /\ trail[m] = <<"assigned", j>>
    BY <1>5, <2>2
  <2> QED BY <2>1, <2>3 DEF TrailInv, AssignedFirst
<1>7. \A j \in AssignmentId : Told(<<"assigned", j>>)' <=> assignment'[j] # NoRow
  BY <1>4, <1>5 DEF TrailInv
<1>8. \A j \in AssignmentId :
        Told(<<"revoked", j>>)' <=> assignment'[j] # NoRow /\ ~assignment'[j].active
  BY <1>2, <1>4, <1>5 DEF TrailInv
<1> QED BY <1>5, <1>6, <1>7, <1>8 DEF TrailInv

\* A transaction that revokes a row finds it active, and tells so once.
LEMMA UpdateTells ==
  ASSUME ReviewerRolesAssumption, TrailInv, FitInv', ActiveUpdated', RowsStay,
         NEW r \in Request, UpdateAssignment(r)
  PROVE  TrailInv'
<1> DEFINE i == req[r].id
<1>1. CASE ~StillActive(i)
  BY <1>1, TrailRests DEF UpdateAssignment
<1>2. CASE StillActive(i)
  <2>1. /\ assignment' = [assignment EXCEPT ![i].active = FALSE]
        /\ trail' = Append(trail, <<"revoked", i>>)
    BY <1>2 DEF UpdateAssignment
  <2>2. /\ i \in AssignmentId /\ assignment[i] # NoRow
        /\ assignment \in [AssignmentId -> Assignment] /\ trail \in Seq(Event)
    BY DEF UpdateAssignment, TrailInv, FitInv, TypeOK, Fits
  <2>3. assignment[i].active
    BY <1>2 DEF StillActive, UpdateAssignment, TrailInv, ActiveUpdated
  <2>4. /\ <<"revoked", i>> \in Event /\ Told(<<"assigned", i>>) /\ ~Told(<<"revoked", i>>) /\ ToldOnce
    BY <2>2, <2>3 DEF TrailInv, Event
  <2> HIDE DEF i
  <2>5. /\ assignment'[i] # NoRow /\ ~assignment'[i].active
        /\ \A j \in AssignmentId \ {i} : assignment'[j] = assignment[j]
    <3>1. assignment[i] \in [reviewer : User, scope : Scope, active : BOOLEAN]
      BY <2>2 DEF Assignment
    <3>2. assignment'[i].active = FALSE
      BY <2>1, <2>2, <3>1
    <3> QED BY <2>1, <2>2, <3>2 DEF RowsStay
  <2>6. /\ ToldOnce'
        /\ \A x : Told(x)' <=> Told(x) \/ x = <<"revoked", i>>
        /\ \A n \in DOMAIN trail : n \in DOMAIN trail' /\ trail'[n] = trail[n]
        /\ \A n \in DOMAIN trail' : n \in DOMAIN trail \/ trail'[n] = <<"revoked", i>>
        /\ \A n \in DOMAIN trail' : trail'[n] = <<"revoked", i>> => \A m \in DOMAIN trail : m < n
    BY <2>1, <2>4, <2>2, ToldNext
  <2>7. AssignedFirst'
    <3> SUFFICES ASSUME NEW j \in AssignmentId, NEW m \in DOMAIN trail', NEW n \in DOMAIN trail',
                        trail'[m] = <<"assigned", j>>, trail'[n] = <<"revoked", j>>
                 PROVE  m < n
      BY DEF AssignedFirst
    <3>1. m \in DOMAIN trail /\ trail[m] = <<"assigned", j>>
      BY <2>6
    <3>2. CASE n \in DOMAIN trail
      BY <2>6, <3>1, <3>2 DEF TrailInv, AssignedFirst
    <3>3. CASE trail'[n] = <<"revoked", i>>
      BY <2>6, <3>1, <3>3
    <3> QED BY <2>6, <3>2, <3>3
  <2>8. \A j \in AssignmentId : Told(<<"assigned", j>>)' <=> assignment'[j] # NoRow
    BY <2>2, <2>5, <2>6 DEF TrailInv
  <2>9. \A j \in AssignmentId :
          Told(<<"revoked", j>>)' <=> assignment'[j] # NoRow /\ ~assignment'[j].active
    BY <2>5, <2>6 DEF TrailInv
  <2> QED BY <2>6, <2>7, <2>8, <2>9 DEF TrailInv
<1> QED BY <1>1, <1>2

\* A transaction that changes a row tells of it, and nothing else is told.
LEMMA TrailKeeps ==
  ASSUME ReviewerRolesAssumption, TrailAssumption, TrailInv, [Next]_vars
  PROVE  TrailInv'
<1>1. FitInv' /\ RowsStay
  BY NextFits DEF TrailInv
<1>2. ActiveUpdated'
  BY <1>1, ActiveStays
<1>3. CASE UNCHANGED <<assignment, trail>>
  BY <1>1, <1>2, <1>3, TrailRests
<1>4. ASSUME NEW r \in Request, InsertAssignment(r) \/ PushAssignment(r)
      PROVE  TrailInv'
  BY <1>1, <1>2, <1>3, <1>4, InsertTells DEF InsertAssignment, PushAssignment
<1>5. ASSUME NEW r \in Request, UpdateAssignment(r)
      PROVE  TrailInv'
  BY <1>1, <1>2, <1>5, UpdateTells
<1> QED BY ZenonT(30), <1>3, <1>4, <1>5
        DEF Next, Step, Login, AssignReviewer, GrantRole, RevokeRoleAssignment, RevokeReviewer,
            Accept, GrantBootstrapAdmin, FindAssignment, LookForAssignment, InsertRole, DropRole,
            EnsureReviewerRole, FindRole, ReadAssignment, ListAssignments, Answer, Crash, vars

\* In every state of every execution.
LEMMA TrailInvariant ==
  ASSUME ReviewerRolesAssumption, TrailAssumption PROVE Spec => []TrailInv
<1>1. Init /\ FitInv => TrailInv
  BY DEF Init, TrailInv, ToldOnce, AssignedFirst, Told, ActiveUpdated, Idle, NoRow
<1>2. TrailInv /\ [Next]_vars => TrailInv'
  BY TrailKeeps
<1> QED BY <1>1, <1>2, FitInvariant, PTL DEF Spec

\* The positions of an event that is told once, or not at all.
LEMMA ToldCounts ==
  ASSUME ToldOnce, NEW e
  PROVE  Cardinality({n \in DOMAIN trail : trail[n] = e}) = IF Told(e) THEN 1 ELSE 0
<1> DEFINE at == {n \in DOMAIN trail : trail[n] = e}
<1>1. CASE Told(e)
  <2>1. PICK n \in DOMAIN trail : trail[n] = e
    BY <1>1 DEF Told
  <2>2. at = {n}
    BY <2>1 DEF ToldOnce
  <2> QED BY <1>1, <2>2, FS_Singleton
<1>2. CASE ~Told(e)
  <2>1. at = {}
    BY <1>2 DEF Told
  <2> QED BY <1>2, <2>1, FS_EmptySet
<1> QED BY <1>1, <1>2

\* The audit log and the outbox tell the table: an assignment is announced once
\* and revoked at most once, after that, however many admins revoke it at the
\* same time: the update looks again whether the row is active
\* (revokeReviewer), which the memory needs no second time for one request.
THEOREM TrailTellsAssignmentsHolds ==
  ASSUME ReviewerRolesAssumption, TrailAssumption
  PROVE  Spec => []TrailTellsAssignments
<1>1. TrailInv => TrailTellsAssignments
  <2> SUFFICES ASSUME TrailInv, NEW i \in AssignmentId
               PROVE  LET At(event) == {n \in DOMAIN trail : trail[n] = <<event, i>>} IN
                      /\ Cardinality(At("assigned")) = (IF assignment[i] = NoRow THEN 0 ELSE 1)
                      /\ Cardinality(At("revoked")) =
                           (IF assignment[i] = NoRow \/ assignment[i].active THEN 0 ELSE 1)
                      /\ \A m \in At("assigned"), n \in At("revoked") : m < n
    BY DEF TrailTellsAssignments
  <2>1. /\ Cardinality({n \in DOMAIN trail : trail[n] = <<"assigned", i>>})
           = IF Told(<<"assigned", i>>) THEN 1 ELSE 0
        /\ Cardinality({n \in DOMAIN trail : trail[n] = <<"revoked", i>>})
           = IF Told(<<"revoked", i>>) THEN 1 ELSE 0
    BY ToldCounts DEF TrailInv
  <2>2. /\ Told(<<"assigned", i>>) <=> assignment[i] # NoRow
        /\ Told(<<"revoked", i>>) <=> assignment[i] # NoRow /\ ~assignment[i].active
    BY DEF TrailInv
  <2>3. \A m, n \in DOMAIN trail :
          trail[m] = <<"assigned", i>> /\ trail[n] = <<"revoked", i>> => m < n
    BY DEF TrailInv, AssignedFirst
  <2> QED BY <2>1, <2>2, <2>3
<1> QED BY <1>1, TrailInvariant, PTL

-----------------------------------------------------------------------------
(* What an answer promises *)

\* What the statements do to the scopes and the role of each person.
LEMMA InsertAssigns ==
  ASSUME ReviewerRolesAssumption, FitInv, NEW r \in Request, req[r].pc \in {"assign", "push"},
         Insert(RowOf(r)), NEW who, who = req[r].uid
  PROVE  /\ Assigned(who)' # {}
         /\ \A u \in User \ {who} : Assigned(u)' = Assigned(u)
<1>1. PICK i \in AssignmentId :
        assignment[i] = NoRow /\ assignment' = [assignment EXCEPT ![i] = RowOf(r)]
  BY DEF Insert, Follows, Fresh
<1>2. /\ req[r].uid \in User /\ req[r].scope \in Scope
      /\ assignment \in [AssignmentId -> Assignment]
  BY DEF FitInv, TypeOK, Fits
<1>3. /\ assignment'[i].active /\ assignment'[i].reviewer = req[r].uid
      /\ assignment'[i].scope = req[r].scope /\ ~assignment[i].active
      /\ \A j \in AssignmentId \ {i} : assignment'[j] = assignment[j]
  BY <1>1, <1>2 DEF RowOf, NoRow
<1> DEFINE ActiveNow(u, scope) ==
             {j \in AssignmentId : /\ assignment'[j].active /\ assignment'[j].reviewer = u
                                   /\ assignment'[j].scope = scope}
           ActiveThen(u, scope) ==
             {j \in AssignmentId : /\ assignment[j].active /\ assignment[j].reviewer = u
                                   /\ assignment[j].scope = scope}
<1>4. i \in ActiveNow(who, req[r].scope)
  BY <1>3
<1>5. \A u \in User \ {who}, scope \in Scope : ActiveNow(u, scope) = ActiveThen(u, scope)
  BY <1>3
<1> QED BY <1>2, <1>4, <1>5 DEF Assigned, Active

LEMMA UpdateRevokes ==
  ASSUME ReviewerRolesAssumption, FitInv, NEW r \in Request, UpdateAssignment(r), NEW who, who = req[r].uid
  PROVE  /\ Assigned(who)' \subseteq Assigned(who)
         /\ \A u \in User \ {who} : Assigned(u)' = Assigned(u)
<1> DEFINE i == req[r].id
           ActiveNow(u, scope) ==
             {j \in AssignmentId : /\ assignment'[j].active /\ assignment'[j].reviewer = u
                                   /\ assignment'[j].scope = scope}
           ActiveThen(u, scope) ==
             {j \in AssignmentId : /\ assignment[j].active /\ assignment[j].reviewer = u
                                   /\ assignment[j].scope = scope}
<1>1. /\ i \in AssignmentId /\ assignment[i] # NoRow /\ who = assignment[i].reviewer
      /\ assignment \in [AssignmentId -> Assignment]
  BY DEF FitInv, TypeOK, Fits, UpdateAssignment
<1>2. /\ UNCHANGED assignment \/ assignment' = [assignment EXCEPT ![i].active = FALSE]
  BY DEF UpdateAssignment
<1> HIDE DEF i
<1>3. assignment[i] \in [reviewer : User, scope : Scope, active : BOOLEAN]
  BY <1>1 DEF Assignment
<1>4. /\ \A j \in AssignmentId \ {i} : assignment'[j] = assignment[j]
      /\ assignment'[i].reviewer = assignment[i].reviewer
      /\ assignment'[i].active => assignment[i].active
      /\ assignment'[i].scope = assignment[i].scope
  <2>1. CASE UNCHANGED assignment
    BY <1>1, <2>1
  <2>2. CASE assignment' = [assignment EXCEPT ![i].active = FALSE]
    BY <1>1, <1>3, <2>2
  <2> QED BY <1>2, <2>1, <2>2
<1>5. \A scope \in Scope : ActiveNow(who, scope) \subseteq ActiveThen(who, scope)
  BY <1>4
<1>6. \A u \in User \ {who}, scope \in Scope : ActiveNow(u, scope) = ActiveThen(u, scope)
  BY <1>1, <1>4
<1>7. Assigned(who)' \subseteq Assigned(who)
  <2>1. \A scope \in Scope : ActiveNow(who, scope) # {} => ActiveThen(who, scope) # {}
    BY <1>5
  <2> QED BY <2>1 DEF Assigned, Active
<1> QED BY <1>6, <1>7 DEF Assigned, Active

\* What is promised on the way to an answer.
Promised(r) ==
  LET q == req[r] IN
  /\ q.op = "assign" /\ q.pc \in {"ensure", "grant", "lookup", "answer"} => Assigned(q.uid) # {}
  /\ q.op = "assign" /\ q.pc \in {"lookup", "answer"} => IsReviewer(q.uid)
  /\ q.op = "revoke" /\ q.pc = "answer" => (Assigned(q.uid) = {} => ~IsReviewer(q.uid))

PromiseInv == FitInv /\ \A r \in Request : Promised(r)

\* A request that goes on, with the fields it has.
LEMMA RequestFields ==
  ASSUME FitInv, NEW r \in Request, NEW p \in Place, Goto(r, p)
  PROVE  /\ req'[r].pc = p /\ req'[r].op = req[r].op /\ req'[r].uid = req[r].uid
         /\ req'[r].role = req[r].role
<1>1. req \in [Request -> RequestState]
  BY DEF FitInv, TypeOK
<1>2. PICK x \in RequestState :
        /\ req' = [req EXCEPT ![r] = x]
        /\ x.pc = p /\ x.op = req[r].op /\ x.uid = req[r].uid /\ x.role = req[r].role
  BY RequestGoes
<1> QED BY <1>1, <1>2

\* Every statement of the one request under way keeps its promise.
LEMMA StepPromises ==
  ASSUME ReviewerRolesAssumption, PromiseInv, NEW r \in Request, Step(r)
  PROVE  Promised(r)'
<1> DEFINE u == req[r].uid
<1>1. /\ FitInv /\ Fits(req[r]) /\ Promised(r) /\ req \in [Request -> RequestState]
  BY DEF PromiseInv, FitInv, TypeOK
<1> USE DEF Promised, Place
<1>3. UNCHANGED assignment => \A x : Assigned(x)' = Assigned(x)
  BY DEF Assigned, Active
<1>4. UNCHANGED roles => \A x : IsReviewer(x)' = IsReviewer(x)
  BY DEF IsReviewer, HasRole
<1>5. \A scope \in Scope : Active(u, scope) # {} => Assigned(u) # {}
  BY DEF Assigned
<1>6. CASE GrantBootstrapAdmin(r) \/ ReadAssignment(r) \/ UpdateAssignment(r)
  <2>1. /\ req'[r].pc \in {"answer", "grant", "update", "list"}
        /\ req'[r].op = "login" \/ (req'[r].op = "revoke" /\ req'[r].pc # "answer")
    BY <1>1, <1>6, RequestFields
       DEF GrantBootstrapAdmin, ReadAssignment, UpdateAssignment, Fits
  <2> QED BY <2>1
<1>7. CASE InsertAssignment(r)
  <2>1. CASE Insert(RowOf(r)) /\ Goto(r, "ensure")
    <3>1. Assigned(u)' # {}
      BY <1>1, <1>7, <2>1, InsertAssigns, RequestFields DEF InsertAssignment
    <3> QED BY <1>1, <2>1, <3>1, RequestFields
  <2>2. CASE Goto(r, "find")
    BY <1>1, <2>2, RequestFields
  <2> QED BY <1>7, <2>1, <2>2 DEF InsertAssignment
<1>8. CASE PushAssignment(r)
  <2>1. Assigned(u)' # {}
    BY <1>1, <1>8, InsertAssigns, RequestFields DEF PushAssignment
  <2> QED BY <1>1, <1>8, <2>1, RequestFields DEF PushAssignment
<1>9. CASE FindAssignment(r) \/ LookForAssignment(r)
  <2>1. PICK p \in {"error", "push", "ensure"} :
          /\ Goto(r, p) /\ (p = "ensure" => Active(u, req[r].scope) # {})
          /\ req[r].scope \in Scope /\ req[r].op = "assign" /\ UNCHANGED assignment
    BY <1>1, <1>9 DEF FindAssignment, LookForAssignment, Fits
  <2>2. req'[r].pc = p /\ req'[r].op = "assign" /\ req'[r].uid = u
    BY <1>1, <2>1, RequestFields
  <2> QED BY <1>3, <1>5, <2>1, <2>2
<1>10. CASE EnsureReviewerRole(r)
  <2>1. /\ req'[r].uid = u /\ req'[r].op = "assign" /\ req'[r].pc \in {"answer", "grant"}
        /\ req'[r].pc = "answer" => IsReviewer(u)
        /\ UNCHANGED <<assignment, roles>> /\ Assigned(u) # {}
    BY <1>1, <1>10 DEF EnsureReviewerRole, Fits, RequestState
  <2> QED BY <1>3, <1>4, <2>1
<1>11. CASE InsertRole(r)
  <2>1. /\ req'[r].uid = u /\ req'[r].op = req[r].op /\ req[r].op \in {"assign", "grant", "login"}
        /\ UNCHANGED assignment /\ roles' = roles \cup {Granted(r)}
    BY <1>1, <1>11, RequestFields DEF InsertRole, Fits
  <2>2. ASSUME req[r].op = "assign"
        PROVE  IsReviewer(u)' /\ Assigned(u) # {}
    <3>1. Granted(r) = [uid |-> u, role |-> "reviewer", scope |-> "global"]
      BY <1>1, <1>11, <2>2 DEF InsertRole, Fits, Granted
    <3>2. \E row \in roles' : row.uid = u /\ row.role = "reviewer" /\ row.scope = "global"
      BY <2>1, <3>1
    <3>3. \A x : x = u => IsReviewer(x)'
      BY <3>2 DEF IsReviewer, HasRole
    <3>4. IsReviewer(u)'
      BY <2>1, <3>3
    <3> QED BY <1>1, <1>11, <2>2, <3>4 DEF InsertRole
  <2> QED BY <1>3, <2>1, <2>2
<1>12. CASE FindRole(r)
  <2>1. /\ req'[r].uid = u /\ req'[r].op = req[r].op /\ req[r].op # "revoke"
        /\ UNCHANGED <<assignment, roles>> /\ req[r].pc = "lookup"
    BY <1>1, <1>12, RequestFields DEF FindRole, Fits
  <2> QED BY <1>1, <1>3, <1>4, <2>1
<1>13. CASE ListAssignments(r)
  <2>1. /\ req'[r].uid = u /\ req'[r].op = "revoke"
        /\ req'[r].pc = "answer" => Assigned(u) # {}
        /\ UNCHANGED assignment
    BY <1>1, <1>13, RequestFields DEF ListAssignments, Fits
  <2> QED BY <1>3, <2>1
<1>14. CASE DropRole(r)
  <2>1. /\ req'[r].uid = u /\ req'[r].op = req[r].op /\ req[r].op \in {"revoke", "withdraw"}
        /\ req[r].op = "revoke" => req[r].role = "reviewer"
        /\ roles' = {row \in roles : ~(row.uid = u /\ row.role = req[r].role)}
    BY <1>1, <1>14, RequestFields DEF DropRole, Fits
  <2>2. req[r].op = "revoke" => \A x : x = u => ~IsReviewer(x)'
    BY <2>1 DEF IsReviewer, HasRole
  <2> QED BY <2>1, <2>2
<1>15. CASE Answer(r)
  <2>1. req'[r] = Idle
    BY <1>1, <1>15 DEF Answer
  <2> QED BY <2>1 DEF Idle
<1> QED BY <1>6, <1>7, <1>8, <1>9, <1>10, <1>11, <1>12, <1>13, <1>14, <1>15 DEF Step

\* In every state of every execution with one request at a time.
LEMMA PromiseInvariant ==
  ASSUME ReviewerRolesAssumption, OneAtATime PROVE Spec => []PromiseInv
<1>1. Init /\ FitInv => PromiseInv
  BY DEF Init, PromiseInv, Promised, Idle
<1>2. ASSUME PromiseInv, [Next]_vars
      PROVE  PromiseInv'
  <2>1. FitInv' /\ req \in [Request -> RequestState]
    BY <1>2, NextFits DEF PromiseInv, FitInv, TypeOK
  <2>2. CASE UNCHANGED vars
    BY <1>2, <2>1, <2>2 DEF PromiseInv, Promised, Assigned, Active, IsReviewer, HasRole, vars
  <2>3. CASE Crash
    BY <2>1, <2>3 DEF PromiseInv, Promised, Crash, Idle
  <2>4. ASSUME NEW r \in Request, Step(r)
        PROVE  PromiseInv'
    BY <1>2, <2>1, <2>4, StepPromises DEF PromiseInv, OneAtATime
  <2>5. ASSUME NEW r \in Request, NEW u \in User, Login(r, u)
        PROVE  PromiseInv'
    <3>1. req'[r].op = "login"
      BY <2>1, <2>5 DEF Login, Idle
    <3> QED BY <2>1, <3>1 DEF PromiseInv, Promised, OneAtATime
  <2>6. ASSUME NEW r \in Request, NEW u \in User, NEW scope \in Scope, AssignReviewer(r, u, scope)
        PROVE  PromiseInv'
    <3>1. req'[r].op = "assign" /\ req'[r].pc = "assign"
      BY <2>1, <2>6 DEF AssignReviewer, Accept, Idle
    <3> QED BY <2>1, <3>1 DEF PromiseInv, Promised, OneAtATime
  <2>7. ASSUME NEW r \in Request, NEW u \in User, NEW role \in Role, NEW scope,
               GrantRole(r, u, role, scope)
        PROVE  PromiseInv'
    <3>1. req'[r].op = "grant"
      BY <2>1, <2>7 DEF GrantRole, Accept, Idle
    <3> QED BY <2>1, <3>1 DEF PromiseInv, Promised, OneAtATime
  <2>8. ASSUME NEW r \in Request, NEW u \in User, NEW role \in Role, RevokeRoleAssignment(r, u, role)
        PROVE  PromiseInv'
    <3>1. req'[r].op = "withdraw"
      BY <2>1, <2>8 DEF RevokeRoleAssignment, Accept, Idle
    <3> QED BY <2>1, <3>1 DEF PromiseInv, Promised, OneAtATime
  <2>9. ASSUME NEW r \in Request, NEW i \in AssignmentId, RevokeReviewer(r, i)
        PROVE  PromiseInv'
    <3>1. req'[r].op = "revoke" /\ req'[r].pc = "read"
      BY <2>1, <2>9 DEF RevokeReviewer, Accept, Idle
    <3> QED BY <2>1, <3>1 DEF PromiseInv, Promised, OneAtATime
  <2> QED BY <1>2, <2>2, <2>3, <2>4, <2>5, <2>6, <2>7, <2>8, <2>9 DEF Next
<1> QED BY <1>1, <1>2, FitInvariant, PTL DEF Spec

\* One request at a time, but with the server dying between any two of its
\* statements: an assignment that was answered gives the scope and the role, and
\* a revocation that was answered leaves no role without a scope (assignReviewer,
\* revokeReviewer).
THEOREM AnswerKeepsPromiseHolds ==
  ASSUME ReviewerRolesAssumption, OneAtATime
  PROVE  Spec => []AnswerKeepsPromise
<1>1. PromiseInv => AnswerKeepsPromise
  BY DEF PromiseInv, Promised, AnswerKeepsPromise, IsReviewer
<1> QED BY <1>1, PromiseInvariant, PTL

-----------------------------------------------------------------------------
(* Role and scope come and go together *)

\* Only the reviewer page is used, and the server lives.
TogetherAssumption == OneAtATime /\ ~Crashes /\ Operations \subseteq {"assign", "revoke"}

Balanced(u) == IsReviewer(u) <=> Assigned(u) # {}

\* Between the statement on the scopes and the one on the role.
Between(r) ==
  \/ req[r].pc \in {"ensure", "grant"} /\ req[r].op = "assign"
  \/ req[r].pc \in {"list", "drop"}

\* What the request knows there.
Knows(r) ==
  LET q == req[r] IN
  /\ q.pc \in {"ensure", "grant"} /\ q.op = "assign" => Assigned(q.uid) # {}
  /\ q.pc = "list" => (Assigned(q.uid) # {} => IsReviewer(q.uid))
  /\ q.pc = "drop" => Assigned(q.uid) = {}

TogetherInv ==
  /\ FitInv
  /\ \A r \in Request : Knows(r)
  /\ \A u \in User : Balanced(u) \/ \E r \in Request : req[r].uid = u /\ Between(r)

\* A statement leaves everybody else's roles alone, and of the person it is
\* about it leaves role and scope together or the other one to do.
LEMMA StepBalances ==
  ASSUME ReviewerRolesAssumption, TogetherAssumption, TogetherInv,
         NEW r \in Request, Step(r), NEW who, who = req[r].uid
  PROVE  /\ Knows(r)'
         /\ \A u \in User : Balanced(u)' \/ (req'[r].uid = u /\ Between(r)')
<1>1. /\ FitInv /\ Fits(req[r]) /\ Knows(r)
      /\ req \in [Request -> RequestState] /\ req[r] \in RequestState
  BY DEF TogetherInv, FitInv, TypeOK
<1>2. \A u \in User : Balanced(u) \/ (who = u /\ Between(r))
  BY DEF TogetherInv, TogetherAssumption, OneAtATime
<1>3. UNCHANGED assignment => \A x : Assigned(x)' = Assigned(x)
  BY DEF Assigned, Active
<1>4. UNCHANGED roles => \A x : IsReviewer(x)' = IsReviewer(x)
  BY DEF IsReviewer, HasRole
<1>5. \A scope \in Scope : Active(who, scope) # {} => Assigned(who) # {}
  BY DEF Assigned
<1>6. req[r].op \in {"assign", "revoke", "login", None}
  BY <1>1 DEF RequestState, TogetherAssumption
<1> USE DEF Place
<1>7. ASSUME UNCHANGED <<assignment, roles>>, req'[r].uid = who, Knows(r)',
             Between(r) => Between(r)' \/ Balanced(who)
      PROVE  \A u \in User : Balanced(u)' \/ (req'[r].uid = u /\ Between(r)')
  BY <1>2, <1>3, <1>4, <1>7 DEF Balanced
<1>8. CASE GrantBootstrapAdmin(r)
  <2>1. /\ req'[r].op = "login" /\ req'[r].uid = who /\ req'[r].pc \in {"answer", "grant"}
        /\ ~Between(r) /\ UNCHANGED <<assignment, roles>>
    BY <1>1, <1>8, RequestFields DEF GrantBootstrapAdmin, Fits, Between
  <2>2. Knows(r)'
    BY <2>1 DEF Knows
  <2> QED BY <1>7, <2>1, <2>2
<1>9. CASE FindAssignment(r) \/ LookForAssignment(r) \/ (InsertAssignment(r) /\ Goto(r, "find") /\ UNCHANGED assignment)
  <2>1. PICK p \in {"error", "push", "ensure", "find"} :
          /\ Goto(r, p) /\ (p = "ensure" => Active(who, req[r].scope) # {})
          /\ req[r].scope \in Scope /\ req[r].op = "assign" /\ UNCHANGED <<assignment, roles>>
          /\ ~Between(r)
    BY <1>1, <1>9 DEF FindAssignment, LookForAssignment, InsertAssignment, Fits, Between
  <2>2. req'[r].pc = p /\ req'[r].op = "assign" /\ req'[r].uid = who
    BY <1>1, <2>1, RequestFields
  <2>3. Knows(r)'
    BY <1>3, <1>5, <2>1, <2>2 DEF Knows
  <2> QED BY <1>7, <2>1, <2>2, <2>3
<1>10. CASE (InsertAssignment(r) \/ PushAssignment(r)) /\ Insert(RowOf(r)) /\ Goto(r, "ensure")
  <2>1. /\ Assigned(who)' # {} /\ \A u \in User \ {who} : Assigned(u)' = Assigned(u)
    BY <1>1, <1>10, InsertAssigns DEF InsertAssignment, PushAssignment
  <2>2. /\ req'[r].pc = "ensure" /\ req'[r].op = "assign" /\ req'[r].uid = who
        /\ UNCHANGED roles /\ ~Between(r)
    BY <1>1, <1>10, RequestFields DEF InsertAssignment, PushAssignment, Fits, Between
  <2>3. Knows(r)' /\ Between(r)'
    BY <2>1, <2>2 DEF Knows, Between
  <2> QED BY <1>2, <1>4, <2>1, <2>2, <2>3 DEF Balanced
<1>11. CASE EnsureReviewerRole(r)
  <2>1. /\ req'[r].uid = who /\ req'[r].op = "assign" /\ req'[r].pc \in {"answer", "grant"}
        /\ req'[r].pc = "answer" => IsReviewer(who)
        /\ UNCHANGED <<assignment, roles>> /\ Assigned(who) # {}
    BY <1>1, <1>11 DEF EnsureReviewerRole, Fits, RequestState, Knows
  <2>2. Knows(r)'
    BY <1>3, <2>1 DEF Knows
  <2> QED BY <1>7, <2>1, <2>2 DEF Between, Balanced
<1>12. CASE InsertRole(r)
  <2>1. /\ req'[r].uid = who /\ req'[r].op = req[r].op /\ req[r].op \in {"assign", "login"}
        /\ UNCHANGED assignment /\ roles' = roles \cup {Granted(r)}
        /\ req'[r].pc \in {"lookup", "answer"}
    BY <1>1, <1>6, <1>12, RequestFields DEF InsertRole, Fits, TogetherAssumption, RequestState
  <2>2. Knows(r)'
    BY <2>1 DEF Knows
  <2>3. CASE req[r].op = "assign"
    <3>1. Granted(r) = [uid |-> who, role |-> "reviewer", scope |-> "global"]
      BY <1>1, <1>12, <2>3 DEF InsertRole, Fits, Granted
    <3>2. \A x : IsReviewer(x)' <=> IsReviewer(x) \/ x = who
      BY <2>1, <3>1 DEF IsReviewer, HasRole
    <3>3. Assigned(who) # {}
      BY <1>1, <1>12, <2>3 DEF InsertRole, Knows
    <3> QED BY <1>2, <1>3, <2>1, <2>2, <3>2, <3>3 DEF Balanced
  <2>4. CASE req[r].op = "login"
    <3>1. Granted(r).role = "platform_admin" /\ ~Between(r)
      BY <1>1, <1>12, <2>4 DEF InsertRole, Fits, Granted, Between
    <3>2. \A x : IsReviewer(x)' <=> IsReviewer(x)
      BY <2>1, <3>1 DEF IsReviewer, HasRole
    <3> QED BY <1>2, <1>3, <2>1, <2>2, <3>1, <3>2 DEF Balanced
  <2> QED BY <2>1, <2>3, <2>4
<1>13. CASE FindRole(r)
  <2>1. /\ req'[r].uid = who /\ req'[r].pc \in {"answer", "error"}
        /\ UNCHANGED <<assignment, roles>> /\ ~Between(r)
    BY <1>1, <1>13, RequestFields DEF FindRole, Between
  <2>2. Knows(r)'
    BY <2>1 DEF Knows
  <2> QED BY <1>7, <2>1, <2>2
<1>14. CASE ReadAssignment(r)
  <2>1. /\ req'[r].uid = who /\ req'[r].pc \in {"update", "list"}
        /\ UNCHANGED <<assignment, roles>> /\ ~Between(r)
        /\ who \in User
    BY <1>1, <1>14, RequestFields, RowIsThere DEF ReadAssignment, Between, Fits, FitInv, TypeOK
  <2>2. Knows(r)'
    BY <1>2, <1>3, <1>4, <2>1 DEF Knows, Balanced
  <2> QED BY <1>7, <2>1, <2>2
<1>15. CASE UpdateAssignment(r)
  <2>1. /\ req'[r].uid = who /\ req'[r].pc = "list" /\ UNCHANGED roles /\ ~Between(r)
        /\ who \in User
    BY <1>1, <1>15, RequestFields, RowIsThere DEF UpdateAssignment, Between, Fits, FitInv, TypeOK
  <2>2. /\ Assigned(who)' \subseteq Assigned(who)
        /\ \A u \in User \ {who} : Assigned(u)' = Assigned(u)
    BY <1>1, <1>15, UpdateRevokes
  <2>3. Assigned(who) # {} => IsReviewer(who)
    BY <1>2, <2>1 DEF Balanced
  <2>4. Knows(r)' /\ Between(r)'
    BY <1>4, <2>1, <2>2, <2>3 DEF Knows, Between
  <2> QED BY <1>2, <1>4, <2>1, <2>2, <2>4 DEF Balanced
<1>16. CASE ListAssignments(r)
  <2>1. /\ req'[r].uid = who /\ UNCHANGED <<assignment, roles>>
        /\ Assigned(who) # {} => IsReviewer(who)
        /\ req'[r].pc = IF Assigned(who) = {} THEN "drop" ELSE "answer"
    BY <1>1, <1>16, RequestFields DEF ListAssignments, Knows
  <2>2. Knows(r)'
    BY <1>3, <2>1 DEF Knows
  <2> QED BY <1>7, <2>1, <2>2 DEF Between, Balanced
<1>17. CASE DropRole(r)
  <2>1. /\ req'[r].uid = who /\ req'[r].pc = "answer" /\ UNCHANGED assignment
        /\ Assigned(who) = {} /\ req[r].role = "reviewer"
        /\ roles' = {row \in roles : ~(row.uid = who /\ row.role = "reviewer")}
    BY <1>1, <1>6, <1>17, RequestFields DEF DropRole, Fits, Knows, RequestState, TogetherAssumption
  <2>2. Knows(r)'
    BY <2>1 DEF Knows
  <2>3. \A x : IsReviewer(x)' <=> IsReviewer(x) /\ x # who
    BY <2>1 DEF IsReviewer, HasRole
  <2> QED BY <1>2, <1>3, <2>1, <2>2, <2>3 DEF Balanced
<1>18. CASE Answer(r)
  <2>1. req'[r] = Idle /\ ~Between(r) /\ UNCHANGED <<assignment, roles>>
    BY <1>1, <1>18 DEF Answer, Between
  <2>2. Knows(r)'
    BY <2>1 DEF Knows, Idle
  <2> QED BY <1>2, <1>3, <1>4, <2>1, <2>2 DEF Balanced
<1>19. InsertAssignment(r) => \/ Insert(RowOf(r)) /\ Goto(r, "ensure")
                              \/ Goto(r, "find") /\ UNCHANGED assignment
  BY DEF InsertAssignment
<1>20. PushAssignment(r) => Insert(RowOf(r)) /\ Goto(r, "ensure")
  BY DEF PushAssignment
<1> QED BY <1>8, <1>9, <1>10, <1>11, <1>12, <1>13, <1>14, <1>15, <1>16, <1>17, <1>18, <1>19, <1>20
        DEF Step

\* A request that comes in changes neither.
LEMMA ComingBalances ==
  ASSUME TogetherAssumption, TogetherInv, FitInv', UNCHANGED <<assignment, roles>>,
         NEW r \in Request, req[r] = Idle,
         req'[r].pc \in {"assign", "read", "bootstrap", "answer"}
  PROVE  TogetherInv'
<1>1. /\ \A x : Assigned(x)' = Assigned(x)
      /\ \A x : IsReviewer(x)' = IsReviewer(x)
  BY DEF Assigned, Active, IsReviewer, HasRole
<1>2. ~Between(r)
  BY DEF Between, Idle
<1>3. \A u \in User : Balanced(u)'
  BY <1>1, <1>2 DEF TogetherInv, TogetherAssumption, OneAtATime, Balanced
<1>4. \A s \in Request : Knows(s)'
  BY DEF Knows, TogetherAssumption, OneAtATime
<1> QED BY <1>3, <1>4 DEF TogetherInv

LEMMA TogetherInvariant ==
  ASSUME ReviewerRolesAssumption, TogetherAssumption PROVE Spec => []TogetherInv
<1>1. Init /\ FitInv => TogetherInv
  BY DEF Init, TogetherInv, Knows, Balanced, Idle, IsReviewer, HasRole, Assigned, Active, NoRow
<1>2. ASSUME TogetherInv, [Next]_vars
      PROVE  TogetherInv'
  <2>1. FitInv' /\ req \in [Request -> RequestState]
    BY <1>2, NextFits DEF TogetherInv, FitInv, TypeOK
  <2>2. CASE UNCHANGED vars
    BY <1>2, <2>1, <2>2 DEF TogetherInv, Knows, Balanced, Between, Assigned, Active, IsReviewer, HasRole, vars
  <2>3. ~Crash
    BY DEF TogetherAssumption, Crash
  <2>4. ASSUME NEW r \in Request, Step(r)
        PROVE  TogetherInv'
    <3>1. /\ Knows(r)'
          /\ \A u \in User : Balanced(u)' \/ (req'[r].uid = u /\ Between(r)')
      BY <1>2, <2>4, StepBalances
    <3>2. \A s \in Request : s = r
      BY DEF TogetherAssumption, OneAtATime
    <3> QED BY <2>1, <3>1, <3>2 DEF TogetherInv
  <2>5. ASSUME NEW r \in Request, NEW u \in User, Login(r, u)
        PROVE  TogetherInv'
    <3>1. req'[r].pc \in {"bootstrap", "answer"} /\ req[r] = Idle
      BY <2>1, <2>5 DEF Login, Idle
    <3> QED BY <1>2, <2>1, <2>5, <3>1, ComingBalances DEF Login
  <2>6. ASSUME NEW r \in Request, NEW u \in User, NEW scope \in Scope, AssignReviewer(r, u, scope)
        PROVE  TogetherInv'
    <3>1. req'[r].pc = "assign" /\ req[r] = Idle /\ UNCHANGED <<assignment, roles>>
      BY <2>1, <2>6 DEF AssignReviewer, Accept, Idle
    <3> QED BY <1>2, <2>1, <3>1, ComingBalances
  <2>7. ASSUME NEW r \in Request, NEW u \in User, NEW role \in Role, NEW scope,
               GrantRole(r, u, role, scope)
        PROVE  FALSE
    BY <2>7 DEF GrantRole, Accept, Idle, TogetherAssumption
  <2>8. ASSUME NEW r \in Request, NEW u \in User, NEW role \in Role, RevokeRoleAssignment(r, u, role)
        PROVE  FALSE
    BY <2>8 DEF RevokeRoleAssignment, Accept, Idle, TogetherAssumption
  <2>9. ASSUME NEW r \in Request, NEW i \in AssignmentId, RevokeReviewer(r, i)
        PROVE  TogetherInv'
    <3>1. req'[r].pc = "read" /\ req[r] = Idle /\ UNCHANGED <<assignment, roles>>
      BY <2>1, <2>9 DEF RevokeReviewer, Accept, Idle
    <3> QED BY <1>2, <2>1, <3>1, ComingBalances
  <2> QED BY <1>2, <2>2, <2>3, <2>4, <2>5, <2>6, <2>7, <2>8, <2>9 DEF Next
<1> QED BY <1>1, <1>2, FitInvariant, PTL DEF Spec

\* "Role and scope come and go together" (revokeReviewer): with one request at a
\* time, a server that lives and nobody who grants the role on the other page,
\* a reviewer has a scope and who has a scope is a reviewer.
THEOREM InAndOutTogetherHolds ==
  ASSUME ReviewerRolesAssumption, TogetherAssumption
  PROVE  Spec => []InAndOutTogether
<1>1. TogetherInv => InAndOutTogether
  BY DEF TogetherInv, InAndOutTogether, Balanced, Between, Idle
<1> QED BY <1>1, TogetherInvariant, PTL

-----------------------------------------------------------------------------
(* LoginSession: the invariant *)

\* A callback under way belongs to a browser and to a login that was begun.
UnderWay(c) ==
  IF callback[c].pc = "idle" THEN callback[c] = Logins!NoCallback
  ELSE /\ callback[c].browser \in Browser
       /\ callback[c].state \in Logins!State /\ issued[callback[c].state].begun
       /\ callback[c].pc \in {"admit", "create"} => callback[c].uid \in User

\* No two callbacks work for one login.
OneCallbackPerState ==
  \A c, d \in Callback :
    /\ callback[c].pc # "idle" /\ callback[d].pc # "idle"
    /\ callback[c].state = callback[d].state
    => c = d

\* A session comes from a login that was begun and can be used no more, for a
\* uid that was admitted.
SessionHasLogin(i) ==
  session[i] # Logins!NoSession =>
    /\ issued[session[i].state].begun /\ session[i].state \notin pending
    /\ session[i].uid \in admitted

\* The strengthening that is inductive.
LoginInv ==
  /\ Logins!TypeOK
  /\ \A s \in pending : issued[s].begun
  /\ \A c \in Callback : UnderWay(c)
  /\ \A i \in Logins!Session : SessionHasLogin(i)
  /\ \A b \in Browser : cookie[b] # 0 => session[cookie[b]] # Logins!NoSession
  /\ OneCallbackPerState
  /\ Logins!StateUsedOnce
  /\ Logins!CallbackFitsLogin
  /\ Logins!OnlyAllowedKnown

-----------------------------------------------------------------------------
(* LoginSession: the initial state and the types *)

\* Nothing was begun, so nothing can be out of place.
LEMMA InitLogin == ASSUME Logins!LoginSessionAssumption, Logins!Init PROVE LoginInv
<1>1. Logins!TypeOK
  BY DEF Logins!LoginSessionAssumption, Logins!Init, Logins!TypeOK, Logins!Time, Logins!State,
         Logins!Login, Logins!NoLogin,
         Logins!NoCallback, Logins!CallbackState
<1> QED BY <1>1
        DEF Logins!LoginSessionAssumption, Logins!Init, LoginInv, UnderWay, SessionHasLogin,
            OneCallbackPerState, Logins!StateUsedOnce, Logins!CallbackFitsLogin,
            Logins!OnlyAllowedKnown, Logins!NoCallback

\* A session that was made is no empty row.
LEMMA RowsAreNotEmpty ==
  ASSUME Logins!LoginSessionAssumption, NEW x \in Logins!SessionRow
  PROVE  x # Logins!NoSession /\ x.state # 0
BY DEF Logins!LoginSessionAssumption, Logins!SessionRow, Logins!NoSession, Logins!State

-----------------------------------------------------------------------------
(* LoginSession: what each step keeps *)

\* A login takes a state that nobody has begun: no callback, no session and no
\* other pending login has it.
LEMMA BeginLoginKeeps ==
  ASSUME Logins!LoginSessionAssumption, LoginInv, NEW returnTo \in Requested, Logins!BeginLogin(returnTo)
  PROVE  LoginInv'
<1>1. PICK s \in Logins!State :
        /\ ~issued[s].begun
        /\ issued' = [issued EXCEPT ![s] =
             [returnTo |-> Logins!SafeReturnTo(returnTo), at |-> now, begun |-> TRUE]]
        /\ pending' = Logins!Prune(pending) \cup {s}
  BY DEF Logins!BeginLogin
<1>2. Logins!SafeReturnTo(returnTo) \in Destination
  BY DEF Logins!SafeReturnTo, Logins!LoginSessionAssumption
<1>3. /\ issued' \in [Logins!State -> Logins!Login] /\ issued'[s].begun
      /\ \A t \in Logins!State \ {s} : issued'[t] = issued[t]
      /\ pending' \subseteq pending \cup {s} /\ pending' \subseteq Logins!State
  BY <1>1, <1>2 DEF LoginInv, Logins!TypeOK, Logins!Login, Logins!Prune
<1>4. UNCHANGED <<now, callback, admitted, session, cookie, known>>
  BY DEF Logins!BeginLogin
<1>5. Logins!TypeOK'
  BY <1>3, <1>4 DEF LoginInv, Logins!TypeOK
<1>6. \A t \in pending' : issued'[t].begun
  BY <1>3 DEF LoginInv
<1>7. \A c \in Callback : callback[c].pc # "idle" =>
        callback[c].state \in Logins!State \ {s} /\ issued'[callback[c].state] = issued[callback[c].state]
  BY <1>1, <1>3 DEF LoginInv, UnderWay
<1>8. \A c \in Callback : UnderWay(c)'
  BY <1>4, <1>7 DEF LoginInv, UnderWay
<1>9. \A i \in Logins!Session : session[i] # Logins!NoSession =>
        session[i].state \in Logins!State \ {s} /\ issued'[session[i].state] = issued[session[i].state]
  BY <1>1, <1>3 DEF LoginInv, Logins!TypeOK, SessionHasLogin, Logins!SessionRow
<1>10. \A i \in Logins!Session : SessionHasLogin(i)'
  BY <1>3, <1>4, <1>9 DEF LoginInv, SessionHasLogin
<1>11. Logins!StateUsedOnce'
  BY <1>3, <1>4, <1>7 DEF LoginInv, Logins!StateUsedOnce
<1>12. Logins!CallbackFitsLogin'
  BY <1>4, <1>7 DEF LoginInv, Logins!CallbackFitsLogin
<1>13. OneCallbackPerState' /\ Logins!OnlyAllowedKnown'
  BY <1>4 DEF LoginInv, OneCallbackPerState, Logins!OnlyAllowedKnown
<1> QED BY <1>4, <1>5, <1>6, <1>8, <1>10, <1>11, <1>12, <1>13 DEF LoginInv

\* A callback takes the state out of the pending ones before it does anything
\* with it, so the next callback with the same state ends.
LEMMA ReceiveCallbackKeeps ==
  ASSUME Logins!LoginSessionAssumption, LoginInv, NEW c \in Callback, NEW b \in Browser,
         NEW s \in Logins!State, Logins!ReceiveCallback(c, b, s)
  PROVE  LoginInv'
<1>1. UNCHANGED <<now, issued, admitted, session, cookie, known>>
  BY DEF Logins!ReceiveCallback
<1>2. Logins!Prune(pending) \subseteq pending
  BY DEF Logins!Prune
<1>3. CASE s \in Logins!Prune(pending)
  <2>1. /\ callback'[c] = [Logins!NoCallback EXCEPT !.pc = "exchange", !.browser = b, !.state = s,
                             !.consumedAt = now, !.returnTo = Logins!PeekReturnTo(s)]
        /\ \A d \in Callback \ {c} : callback'[d] = callback[d]
        /\ DOMAIN callback' = Callback
        /\ callback' = [d \in Callback |-> callback'[d]]
    BY <1>3 DEF Logins!ReceiveCallback, LoginInv, Logins!TypeOK
  <2>2. /\ callback'[c].pc = "exchange" /\ callback'[c].browser = b
        /\ callback'[c].state = s /\ callback'[c].consumedAt = now
        /\ callback'[c].returnTo = issued[s].returnTo
    BY <1>2, <1>3, <2>1 DEF Logins!NoCallback, Logins!PeekReturnTo
  <2>3. s \in pending /\ now <= issued[s].at + StateTTL /\ issued[s] \in Logins!Login
    BY <1>2, <1>3 DEF Logins!Prune, Logins!Expired, LoginInv, Logins!TypeOK, Logins!Login,
                      Logins!Time, Logins!LoginSessionAssumption
  <2>4. pending' = Logins!Prune(pending) \ {s}
    BY <1>3 DEF Logins!ReceiveCallback, Logins!Without
  <2>5. callback'[c] \in Logins!CallbackState
    BY ZenonT(30), <2>1, <2>3, <1>2, <1>3
       DEF Logins!NoCallback, Logins!PeekReturnTo, Logins!CallbackState, LoginInv, Logins!TypeOK,
           Logins!Login
  <2>6. callback' \in [Callback -> Logins!CallbackState]
    BY <2>1, <2>5 DEF LoginInv, Logins!TypeOK
  <2>7. Logins!TypeOK'
    BY <1>1, <1>2, <2>4, <2>6 DEF LoginInv, Logins!TypeOK
  <2>8. \A d \in Callback : UnderWay(d)'
    <3>1. UnderWay(c)'
      BY <1>1, <2>2, <2>3 DEF LoginInv, UnderWay
    <3>2. \A d \in Callback \ {c} : UnderWay(d)'
      BY <1>1, <2>1 DEF LoginInv, UnderWay
    <3> QED BY <3>1, <3>2
  <2>9. OneCallbackPerState'
    <3>1. \A d \in Callback \ {c} : callback'[d].pc # "idle" => callback'[d].state # s
      BY <2>1, <2>3 DEF LoginInv, Logins!StateUsedOnce
    <3>2. \A d, e \in Callback \ {c} :
            /\ callback'[d].pc # "idle" /\ callback'[e].pc # "idle"
            /\ callback'[d].state = callback'[e].state
            => d = e
      BY <2>1 DEF LoginInv, OneCallbackPerState
    <3> QED BY <2>2, <3>1, <3>2 DEF OneCallbackPerState
  <2>10. Logins!StateUsedOnce'
    <3>1. \A i \in Logins!Session : session[i].state # s
      BY <2>3 DEF LoginInv, SessionHasLogin, Logins!NoSession, Logins!State
    <3>2. \A d \in Callback \ {c} : callback'[d].pc # "idle" =>
            /\ callback'[d].state \notin pending
            /\ \A i \in Logins!Session : session[i].state # callback'[d].state
      BY <2>1 DEF LoginInv, Logins!StateUsedOnce
    <3>3. \A d \in Callback : callback'[d].pc # "idle" =>
            /\ callback'[d].state \notin pending'
            /\ \A i \in Logins!Session : session'[i].state # callback'[d].state
      BY <1>1, <1>2, <2>2, <2>4, <3>1, <3>2
    <3> QED BY <1>1, <3>3 DEF LoginInv, Logins!StateUsedOnce
  <2>11. Logins!CallbackFitsLogin'
    <3>1. \A d \in Callback \ {c} : callback'[d].pc # "idle" =>
            LET login == issued[callback'[d].state] IN
            /\ callback'[d].consumedAt <= login.at + StateTTL
            /\ callback'[d].returnTo = login.returnTo
      BY <2>1 DEF LoginInv, Logins!CallbackFitsLogin
    <3> QED BY <1>1, <2>2, <2>3, <3>1 DEF Logins!CallbackFitsLogin
  <2> QED BY <1>1, <1>2, <2>4, <2>7, <2>8, <2>9, <2>10, <2>11
          DEF LoginInv, SessionHasLogin, Logins!OnlyAllowedKnown
<1>4. CASE s \notin Logins!Prune(pending)
  <2>1. pending' \subseteq pending /\ UNCHANGED callback
    BY <1>2, <1>4 DEF Logins!ReceiveCallback
  <2> QED BY <1>1, <2>1
          DEF LoginInv, Logins!TypeOK, UnderWay, SessionHasLogin, OneCallbackPerState,
              Logins!StateUsedOnce, Logins!CallbackFitsLogin, Logins!OnlyAllowedKnown
<1> QED BY <1>3, <1>4

\* A callback that goes on keeps its browser, its login and its page.
LEMMA GoOnKeeps ==
  ASSUME Logins!LoginSessionAssumption, LoginInv, NEW c \in Callback, callback[c].pc # "idle",
         callback' \in [Callback -> Logins!CallbackState],
         \A d \in Callback \ {c} : callback'[d] = callback[d],
         callback'[c].pc # "idle",
         callback'[c].pc \in {"admit", "create"} => callback'[c].uid \in User,
         callback'[c].browser = callback[c].browser,
         callback'[c].state = callback[c].state,
         callback'[c].consumedAt = callback[c].consumedAt,
         callback'[c].returnTo = callback[c].returnTo,
         admitted \subseteq admitted', admitted' \subseteq Allowed,
         UNCHANGED <<now, issued, pending, session, cookie, known>>
  PROVE  LoginInv'
<1>1. Logins!TypeOK'
  BY DEF LoginInv, Logins!TypeOK, Logins!LoginSessionAssumption
<1>2. \A d \in Callback : UnderWay(d)'
  <2>1. UnderWay(c)'
    BY DEF LoginInv, UnderWay
  <2>2. \A d \in Callback \ {c} : UnderWay(d)'
    BY DEF LoginInv, UnderWay
  <2> QED BY <2>1, <2>2
<1>3. \A d \in Callback : callback'[d].pc # "idle" =>
        /\ callback[d].pc # "idle" /\ callback'[d].state = callback[d].state
        /\ callback'[d].consumedAt = callback[d].consumedAt
        /\ callback'[d].returnTo = callback[d].returnTo
  OBVIOUS
<1>4. OneCallbackPerState'
  BY <1>3 DEF LoginInv, OneCallbackPerState
<1>5. Logins!StateUsedOnce'
  BY <1>3 DEF LoginInv, Logins!StateUsedOnce
<1>6. Logins!CallbackFitsLogin'
  BY <1>3 DEF LoginInv, Logins!CallbackFitsLogin
<1> QED BY <1>1, <1>2, <1>4, <1>5, <1>6
        DEF LoginInv, SessionHasLogin, Logins!OnlyAllowedKnown

\* A callback that ends leaves nothing; a restart ends all of them and loses the
\* pending states.
LEMMA EndKeeps ==
  ASSUME Logins!LoginSessionAssumption, LoginInv, NEW ended \in SUBSET Callback,
         callback' = [d \in Callback |-> IF d \in ended THEN Logins!NoCallback ELSE callback[d]],
         pending' \subseteq pending,
         UNCHANGED <<now, issued, admitted, session, cookie, known>>
  PROVE  LoginInv'
<1>1. Logins!NoCallback \in Logins!CallbackState /\ Logins!NoCallback.pc = "idle"
  BY DEF Logins!NoCallback, Logins!CallbackState, Logins!LoginSessionAssumption, Logins!Time
<1>2. \A d \in Callback : callback'[d] = Logins!NoCallback \/ callback'[d] = callback[d]
  OBVIOUS
<1>3. Logins!TypeOK'
  BY <1>1 DEF LoginInv, Logins!TypeOK
<1>4. \A d \in Callback : UnderWay(d)'
  BY <1>1, <1>2 DEF LoginInv, UnderWay
<1>5. OneCallbackPerState'
  BY <1>1, <1>2 DEF LoginInv, OneCallbackPerState
<1>6. Logins!StateUsedOnce'
  BY <1>1, <1>2 DEF LoginInv, Logins!StateUsedOnce
<1>7. Logins!CallbackFitsLogin'
  BY <1>1, <1>2 DEF LoginInv, Logins!CallbackFitsLogin
<1> QED BY <1>3, <1>4, <1>5, <1>6, <1>7
        DEF LoginInv, SessionHasLogin, Logins!OnlyAllowedKnown

\* A session is made by the one callback of its login, which is gone then.
LEMMA CreateSessionKeeps ==
  ASSUME Logins!LoginSessionAssumption, LoginInv, NEW c \in Callback, Logins!CreateSession(c)
  PROVE  LoginInv'
<1>1. PICK i \in Logins!Session :
        /\ session[i] = Logins!NoSession
        /\ session' = [session EXCEPT ![i] =
             [uid |-> callback[c].uid, expiresAt |-> now + Lifetime,
              revoked |-> FALSE, state |-> callback[c].state]]
        /\ cookie' = [cookie EXCEPT ![callback[c].browser] = i]
  BY DEF Logins!CreateSession
<1>2. /\ callback[c].pc = "create" /\ callback[c].uid \in admitted
      /\ callback' = [callback EXCEPT ![c] = Logins!NoCallback]
      /\ UNCHANGED <<now, issued, pending, admitted, known>>
  BY DEF Logins!CreateSession
<1>3. /\ callback[c].browser \in Browser /\ callback[c].uid \in User
      /\ callback[c].state \in Logins!State /\ issued[callback[c].state].begun
      /\ callback[c].state \notin pending
      /\ \A j \in Logins!Session : session[j].state # callback[c].state
  BY <1>2 DEF LoginInv, UnderWay, Logins!StateUsedOnce
<1>4. /\ session'[i] \in Logins!SessionRow /\ session'[i].uid = callback[c].uid
      /\ session'[i].state = callback[c].state
      /\ \A j \in Logins!Session \ {i} : session'[j] = session[j]
      /\ session' \in [Logins!Session -> Logins!SessionRow \cup {Logins!NoSession}]
  BY <1>1, <1>3 DEF LoginInv, Logins!TypeOK, Logins!LoginSessionAssumption, Logins!SessionRow,
                    Logins!Time
<1>5. session'[i] # Logins!NoSession
  BY <1>4, RowsAreNotEmpty
<1>6. /\ callback'[c] = Logins!NoCallback
      /\ \A d \in Callback \ {c} : callback'[d] = callback[d]
      /\ Logins!NoCallback \in Logins!CallbackState /\ Logins!NoCallback.pc = "idle"
      /\ callback' \in [Callback -> Logins!CallbackState]
  BY <1>2 DEF LoginInv, Logins!TypeOK, Logins!NoCallback, Logins!CallbackState,
              Logins!LoginSessionAssumption, Logins!Time
<1>7. /\ cookie' \in [Browser -> Logins!Session \cup {0}]
      /\ \A b \in Browser : cookie'[b] = i \/ cookie'[b] = cookie[b]
  BY <1>1, <1>3 DEF LoginInv, Logins!TypeOK
<1>8. Logins!TypeOK'
  BY <1>2, <1>4, <1>6, <1>7 DEF LoginInv, Logins!TypeOK
<1>9. \A d \in Callback : UnderWay(d)'
  BY <1>2, <1>6 DEF LoginInv, UnderWay
<1>10. \A j \in Logins!Session : SessionHasLogin(j)'
  <2>1. SessionHasLogin(i)'
    BY <1>2, <1>3, <1>4 DEF SessionHasLogin
  <2>2. \A j \in Logins!Session \ {i} : SessionHasLogin(j)'
    BY <1>2, <1>4 DEF LoginInv, SessionHasLogin
  <2> QED BY <2>1, <2>2
<1>11. \A b \in Browser : cookie'[b] # 0 => session'[cookie'[b]] # Logins!NoSession
  BY <1>1, <1>4, <1>5, <1>7 DEF LoginInv, Logins!TypeOK
<1>12. OneCallbackPerState'
  BY <1>6 DEF LoginInv, OneCallbackPerState
<1>13. Logins!StateUsedOnce'
  <2>1. \A j, k \in Logins!Session :
          session'[j] # Logins!NoSession /\ session'[j].state = session'[k].state => j = k
    BY <1>3, <1>4 DEF LoginInv, Logins!StateUsedOnce
  <2>2. \A d \in Callback : callback'[d].pc # "idle" =>
          d # c /\ callback[d].pc # "idle" /\ callback'[d].state = callback[d].state
    BY <1>6
  <2>3. \A d \in Callback : callback'[d].pc # "idle" =>
          callback'[d].state # callback[c].state
    BY <1>2, <2>2 DEF LoginInv, OneCallbackPerState
  <2>4. \A d \in Callback : callback'[d].pc # "idle" =>
          /\ callback'[d].state \notin pending'
          /\ \A j \in Logins!Session : session'[j].state # callback'[d].state
    BY <1>2, <1>4, <2>2, <2>3 DEF LoginInv, Logins!StateUsedOnce
  <2> QED BY <2>1, <2>4 DEF Logins!StateUsedOnce
<1>14. Logins!CallbackFitsLogin'
  BY <1>2, <1>6 DEF LoginInv, Logins!CallbackFitsLogin
<1>15. Logins!OnlyAllowedKnown'
  BY <1>2, <1>4 DEF LoginInv, Logins!OnlyAllowedKnown
<1> QED BY <1>2, <1>8, <1>9, <1>10, <1>11, <1>12, <1>13, <1>14, <1>15 DEF LoginInv

\* Logging out revokes the row and keeps the rest of it.
LEMMA LogoutKeeps ==
  ASSUME Logins!LoginSessionAssumption, LoginInv, NEW b \in Browser, Logins!Logout(b)
  PROVE  LoginInv'
<1>1. PICK i \in Logins!Session : i = cookie[b] /\ session[i] \in Logins!SessionRow
  BY DEF Logins!Logout, LoginInv, Logins!TypeOK
<1>2. /\ session' \in [Logins!Session -> Logins!SessionRow \cup {Logins!NoSession}]
      /\ session'[i] \in Logins!SessionRow
      /\ session'[i].uid = session[i].uid /\ session'[i].state = session[i].state
      /\ \A j \in Logins!Session \ {i} : session'[j] = session[j]
  BY <1>1 DEF Logins!Logout, LoginInv, Logins!TypeOK, Logins!SessionRow
<1>3. session[i] # Logins!NoSession /\ session'[i] # Logins!NoSession
  BY <1>1, <1>2, RowsAreNotEmpty
<1>4. /\ cookie' \in [Browser -> Logins!Session \cup {0}]
      /\ \A d \in Browser : cookie'[d] = 0 \/ cookie'[d] = cookie[d]
      /\ UNCHANGED <<now, issued, pending, callback, admitted, known>>
  BY DEF Logins!Logout, LoginInv, Logins!TypeOK
<1>5. \A j \in Logins!Session :
        /\ session'[j].uid = session[j].uid
        /\ session'[j].state = session[j].state
        /\ (session'[j] = Logins!NoSession) <=> (session[j] = Logins!NoSession)
  BY <1>2, <1>3
<1>6. Logins!TypeOK'
  BY <1>2, <1>4 DEF LoginInv, Logins!TypeOK
<1>7. \A j \in Logins!Session : SessionHasLogin(j)'
  BY <1>4, <1>5 DEF LoginInv, SessionHasLogin
<1>8. \A d \in Browser : cookie'[d] # 0 => session'[cookie'[d]] # Logins!NoSession
  BY <1>4, <1>5 DEF LoginInv, Logins!TypeOK
<1>9. Logins!StateUsedOnce' /\ Logins!OnlyAllowedKnown'
  BY <1>4, <1>5 DEF LoginInv, Logins!StateUsedOnce, Logins!OnlyAllowedKnown
<1> QED BY <1>4, <1>6, <1>7, <1>8, <1>9
        DEF LoginInv, UnderWay, OneCallbackPerState, Logins!CallbackFitsLogin

\* Every step keeps the invariant.
LEMMA NextLogin == ASSUME Logins!LoginSessionAssumption, LoginInv, [Logins!Next]_Logins!vars PROVE LoginInv'
<1>1. callback \in [Callback -> Logins!CallbackState] /\ Allowed \subseteq User
  BY DEF LoginInv, Logins!TypeOK, Logins!LoginSessionAssumption
<1>2. CASE UNCHANGED <<issued, pending, callback, admitted, session, cookie>>
           /\ now' \in Logins!Time /\ known' \subseteq Browser
  BY <1>2 DEF LoginInv, Logins!TypeOK, UnderWay, SessionHasLogin, OneCallbackPerState,
              Logins!StateUsedOnce, Logins!CallbackFitsLogin, Logins!OnlyAllowedKnown
<1>3. ASSUME NEW c \in Callback, Logins!ExchangeCode(c) PROVE LoginInv'
  <2>1. /\ callback' \in [Callback -> Logins!CallbackState]
        /\ \A d \in Callback \ {c} : callback'[d] = callback[d]
        /\ callback'[c].pc = "fetch" /\ callback'[c].browser = callback[c].browser
        /\ callback'[c].state = callback[c].state
        /\ callback'[c].consumedAt = callback[c].consumedAt
        /\ callback'[c].returnTo = callback[c].returnTo
    BY <1>1, <1>3 DEF Logins!ExchangeCode, Logins!Goto, Logins!CallbackState
  <2> QED BY <1>3, <2>1, GoOnKeeps DEF Logins!ExchangeCode, LoginInv, Logins!OnlyAllowedKnown
<1>4. ASSUME NEW c \in Callback, Logins!FetchIdentity(c) PROVE LoginInv'
  <2>1. PICK u \in User :
          callback' = [callback EXCEPT ![c].pc = "admit", ![c].uid = u]
    BY <1>4 DEF Logins!FetchIdentity
  <2>2. /\ callback' \in [Callback -> Logins!CallbackState]
        /\ \A d \in Callback \ {c} : callback'[d] = callback[d]
        /\ callback'[c].pc = "admit" /\ callback'[c].uid = u
        /\ callback'[c].browser = callback[c].browser
        /\ callback'[c].state = callback[c].state
        /\ callback'[c].consumedAt = callback[c].consumedAt
        /\ callback'[c].returnTo = callback[c].returnTo
    BY <1>1, <2>1 DEF Logins!CallbackState
  <2> QED BY <1>4, <2>2, GoOnKeeps DEF Logins!FetchIdentity, LoginInv, Logins!OnlyAllowedKnown
<1>5. ASSUME NEW c \in Callback, callback' = [callback EXCEPT ![c] = Logins!NoCallback],
             pending' \subseteq pending,
             UNCHANGED <<now, issued, admitted, session, cookie, known>>
      PROVE  LoginInv'
  <2>1. callback' = [d \in Callback |-> IF d \in {c} THEN Logins!NoCallback ELSE callback[d]]
    BY <1>1, <1>5
  <2> QED BY <1>5, <2>1, EndKeeps
<1>6. ASSUME NEW c \in Callback, Logins!AdmitIdentity(c) PROVE LoginInv'
  <2>1. CASE Logins!Admitted(callback[c].uid)
    <3>1. /\ callback' \in [Callback -> Logins!CallbackState]
          /\ \A d \in Callback \ {c} : callback'[d] = callback[d]
          /\ callback'[c].pc = "create" /\ callback'[c].uid = callback[c].uid
          /\ callback'[c].browser = callback[c].browser
          /\ callback'[c].state = callback[c].state
          /\ callback'[c].consumedAt = callback[c].consumedAt
          /\ callback'[c].returnTo = callback[c].returnTo
      BY <1>1, <1>6, <2>1 DEF Logins!AdmitIdentity, Logins!Goto, Logins!CallbackState
    <3>2. callback[c].uid \in Allowed /\ admitted' = admitted \cup {callback[c].uid}
      BY <1>6, <2>1 DEF Logins!AdmitIdentity, Logins!Admitted
    <3>3. callback[c].uid \in User /\ admitted' \subseteq Allowed
      BY <1>1, <3>2 DEF LoginInv, Logins!OnlyAllowedKnown
    <3> QED BY <1>6, <3>1, <3>2, <3>3, GoOnKeeps DEF Logins!AdmitIdentity
  <2>2. CASE ~Logins!Admitted(callback[c].uid)
    BY <1>5, <1>6, <2>2 DEF Logins!AdmitIdentity
  <2> QED BY <2>1, <2>2
<1>7. ASSUME Logins!Restart PROVE LoginInv'
  <2>1. callback' = [d \in Callback |-> IF d \in Callback THEN Logins!NoCallback ELSE callback[d]]
    BY <1>7 DEF Logins!Restart
  <2> QED BY <1>7, <2>1, EndKeeps DEF Logins!Restart
<1>8. ASSUME Logins!Tick PROVE LoginInv'
  <2>1. now' \in Logins!Time
    BY <1>8 DEF Logins!Tick, Logins!Time, LoginInv, Logins!TypeOK, Logins!LoginSessionAssumption
  <2> QED BY <1>2, <1>8, <2>1 DEF Logins!Tick, LoginInv, Logins!TypeOK
<1>9. ASSUME NEW b \in Browser, Logins!Me(b) PROVE LoginInv'
  BY <1>2, <1>9 DEF Logins!Me, LoginInv, Logins!TypeOK
<1>10. CASE UNCHANGED Logins!vars
  BY <1>2, <1>10 DEF Logins!vars, LoginInv, Logins!TypeOK
<1> QED BY <1>3, <1>4, <1>5, <1>6, <1>7, <1>8, <1>9, <1>10, BeginLoginKeeps,
           ReceiveCallbackKeeps, CreateSessionKeeps, LogoutKeeps
        DEF Logins!Next, Logins!Answer, Logins!Handle, Logins!ProviderFails

\* The invariant holds.
LEMMA LoginInvariant == ASSUME Logins!LoginSessionAssumption PROVE Logins!Spec => []LoginInv
<1>1. Logins!Init => LoginInv
  BY InitLogin
<1>2. LoginInv /\ [Logins!Next]_Logins!vars => LoginInv'
  BY NextLogin
<1> QED BY <1>1, <1>2, PTL DEF Logins!Spec

-----------------------------------------------------------------------------
(* LoginSession: theorems *)

\* Logins, callbacks, identities and sessions keep their types.
THEOREM LoginTypeCorrect == ASSUME Logins!LoginSessionAssumption PROVE Logins!Spec => []Logins!TypeOK
<1>1. LoginInv => Logins!TypeOK
  BY DEF LoginInv
<1> QED BY <1>1, LoginInvariant, PTL

\* One login makes at most one session, however often and at the same time its
\* callback comes (consumeState).
THEOREM StateUsedOnceHolds == ASSUME Logins!LoginSessionAssumption PROVE Logins!Spec => []Logins!StateUsedOnce
<1>1. LoginInv => Logins!StateUsedOnce
  BY DEF LoginInv
<1> QED BY <1>1, LoginInvariant, PTL

\* A callback that is handled came in time and returns to the page its login was
\* begun from.
THEOREM CallbackFitsLoginHolds ==
  ASSUME Logins!LoginSessionAssumption PROVE Logins!Spec => []Logins!CallbackFitsLogin
<1>1. LoginInv => Logins!CallbackFitsLogin
  BY DEF LoginInv
<1> QED BY <1>1, LoginInvariant, PTL

\* Who is not allowed has neither an identity nor a session (callback route).
THEOREM OnlyAllowedKnownHolds ==
  ASSUME Logins!LoginSessionAssumption PROVE Logins!Spec => []Logins!OnlyAllowedKnown
<1>1. LoginInv => Logins!OnlyAllowedKnown
  BY DEF LoginInv
<1> QED BY <1>1, LoginInvariant, PTL

\* What a step does to a session that exists: it keeps its lifetime, stays
\* revoked, and the clock and the identities only grow.
LEMMA SessionsStay ==
  ASSUME Logins!LoginSessionAssumption, LoginInv, [Logins!Next]_Logins!vars,
         NEW i \in Logins!Session, session[i] # Logins!NoSession
  PROVE  /\ session'[i].expiresAt = session[i].expiresAt
         /\ session[i].revoked => session'[i].revoked
         /\ now <= now'
<1>1. now \in Nat
  BY DEF LoginInv, Logins!TypeOK, Logins!Time
<1>2. ASSUME NEW c \in Callback, Logins!CreateSession(c)
      PROVE  session'[i] = session[i]
  BY <1>2 DEF Logins!CreateSession, LoginInv, Logins!TypeOK
<1>3. ASSUME NEW b \in Browser, Logins!Logout(b)
      PROVE  /\ session'[i].expiresAt = session[i].expiresAt
             /\ session[i].revoked => session'[i].revoked
  <2>1. cookie[b] \in Logins!Session /\ session[i] \in Logins!SessionRow
    BY <1>3 DEF Logins!Logout, LoginInv, Logins!TypeOK
  <2> QED BY <1>3, <2>1 DEF Logins!Logout, LoginInv, Logins!TypeOK, Logins!SessionRow
<1>4. \/ UNCHANGED session
      \/ \E c \in Callback : Logins!CreateSession(c)
      \/ \E b \in Browser : Logins!Logout(b)
  BY DEF Logins!Next, Logins!vars, Logins!BeginLogin, Logins!ReceiveCallback, Logins!Answer,
         Logins!Handle, Logins!ExchangeCode,
         Logins!FetchIdentity, Logins!ProviderFails, Logins!AdmitIdentity, Logins!Me,
         Logins!Restart, Logins!Tick
<1>5. now' = now \/ now' = now + 1
  BY DEF Logins!Next, Logins!vars, Logins!BeginLogin, Logins!ReceiveCallback, Logins!Answer,
         Logins!Handle, Logins!ExchangeCode,
         Logins!FetchIdentity, Logins!ProviderFails, Logins!AdmitIdentity, Logins!CreateSession,
         Logins!Me, Logins!Logout,
         Logins!Restart, Logins!Tick
<1>6. now <= now'
  BY <1>1, <1>5
<1> QED BY <1>2, <1>3, <1>4, <1>6

\* A session that was logged out or has expired stands for nobody again, whatever
\* logins follow: its row is never reused and its uid was admitted for good.
THEOREM EndedStaysEndedHolds ==
  ASSUME Logins!LoginSessionAssumption PROVE Logins!Spec => [][Logins!EndedStaysEnded]_Logins!vars
<1>1. ASSUME LoginInv, LoginInv', [Logins!Next]_Logins!vars PROVE Logins!EndedStaysEnded
  <2> SUFFICES ASSUME NEW i \in Logins!Session, session[i] # Logins!NoSession, ~Logins!Resolves(i)
               PROVE  ~Logins!Resolves(i)'
    BY DEF Logins!EndedStaysEnded
  <2>1. session[i] \in Logins!SessionRow /\ session[i].uid \in admitted
    BY <1>1 DEF LoginInv, Logins!TypeOK, SessionHasLogin
  <2>2. session[i].revoked \/ ~(session[i].expiresAt > now)
    BY <2>1 DEF Logins!Resolves
  <2>3. /\ session'[i].expiresAt = session[i].expiresAt
        /\ session[i].revoked => session'[i].revoked
        /\ now <= now'
    BY <1>1, SessionsStay
  <2>4. now \in Nat /\ now' \in Nat /\ session[i].expiresAt \in Nat
    BY <1>1, <2>1 DEF LoginInv, Logins!TypeOK, Logins!Time, Logins!SessionRow
  <2> QED BY <2>2, <2>3, <2>4 DEF Logins!Resolves
<1>2. LoginInv /\ LoginInv' /\ [Logins!Next]_Logins!vars => [Logins!EndedStaysEnded]_Logins!vars
  BY <1>1
<1> QED BY <1>2, LoginInvariant, PTL DEF Logins!Spec

\* After a logout the token that the browser had stands for nobody.
THEOREM LogoutEndsHolds == ASSUME Logins!LoginSessionAssumption PROVE Logins!Spec => [][Logins!LogoutEnds]_Logins!vars
<1>1. ASSUME LoginInv, [Logins!Next]_Logins!vars PROVE Logins!LogoutEnds
  <2> SUFFICES ASSUME NEW b \in Browser, NEW i \in Logins!Session, cookie[b] = i, cookie'[b] = 0
               PROVE  ~Logins!Resolves(i)'
    BY DEF Logins!LogoutEnds
  <2>1. i # 0 /\ cookie \in [Browser -> Logins!Session \cup {0}]
    BY <1>1 DEF Logins!Session, LoginInv, Logins!TypeOK
  <2>2. ASSUME NEW c \in Callback, Logins!CreateSession(c) PROVE FALSE
    <3>1. PICK j \in Logins!Session : cookie' = [cookie EXCEPT ![callback[c].browser] = j]
      BY <2>2 DEF Logins!CreateSession
    <3> QED BY <2>1, <3>1 DEF Logins!Session
  <2>3. PICK d \in Browser : Logins!Logout(d)
    BY <1>1, <2>1, <2>2
       DEF Logins!Next, Logins!vars, Logins!BeginLogin, Logins!ReceiveCallback, Logins!Answer,
           Logins!Handle, Logins!ExchangeCode,
           Logins!FetchIdentity, Logins!ProviderFails, Logins!AdmitIdentity, Logins!Me,
           Logins!Restart, Logins!Tick
  <2>4. d = b
    BY <2>1, <2>3 DEF Logins!Logout
  <2>5. session[i] \in Logins!SessionRow
    BY <1>1, <2>1 DEF LoginInv, Logins!TypeOK
  <2> QED BY <1>1, <2>1, <2>3, <2>4, <2>5 DEF Logins!Logout, Logins!Resolves, LoginInv,
  Logins!TypeOK, Logins!SessionRow
<1>2. LoginInv /\ [Logins!Next]_Logins!vars => [Logins!LogoutEnds]_Logins!vars
  BY <1>1
<1> QED BY <1>2, LoginInvariant, PTL DEF Logins!Spec

\* A login that begins leaves only states that can still be used, so those
\* nobody comes back for do not pile up (prune).
THEOREM NoneExpiredHolds == ASSUME Logins!LoginSessionAssumption PROVE Logins!Spec => [][Logins!NoneExpired]_Logins!vars
<1>1. ASSUME Logins!LoginSessionAssumption, LoginInv, NEW returnTo \in Requested,
             Logins!BeginLogin(returnTo), NEW s \in pending'
      PROVE  ~(issued'[s].at + StateTTL < now')
  <2>1. PICK t \in Logins!State :
          /\ issued' = [issued EXCEPT ![t] =
               [returnTo |-> Logins!SafeReturnTo(returnTo), at |-> now, begun |-> TRUE]]
          /\ pending' = Logins!Prune(pending) \cup {t}
    BY <1>1 DEF Logins!BeginLogin
  <2>2. issued \in [Logins!State -> Logins!Login] /\ now' = now /\ now \in Nat /\ StateTTL \in Nat
    BY <1>1 DEF Logins!BeginLogin, LoginInv, Logins!TypeOK, Logins!Time,
                Logins!LoginSessionAssumption
  <2>3. CASE s = t
    BY <2>1, <2>2, <2>3
  <2>4. CASE s # t
    BY <1>1, <2>1, <2>2, <2>4 DEF Logins!Prune, Logins!Expired, LoginInv, Logins!TypeOK
  <2> QED BY <2>3, <2>4
<1>2. ASSUME Logins!LoginSessionAssumption, LoginInv, [Logins!Next]_Logins!vars, issued' # issued
      PROVE  \E returnTo \in Requested : Logins!BeginLogin(returnTo)
  BY <1>2 DEF Logins!Next, Logins!vars, Logins!ReceiveCallback, Logins!Answer, Logins!Handle,
              Logins!ExchangeCode, Logins!FetchIdentity,
              Logins!ProviderFails, Logins!AdmitIdentity, Logins!CreateSession, Logins!Me,
              Logins!Logout, Logins!Restart, Logins!Tick
<1>3. Logins!LoginSessionAssumption /\ LoginInv /\ [Logins!Next]_Logins!vars => [Logins!NoneExpired]_Logins!vars
  BY <1>1, <1>2 DEF Logins!NoneExpired, Logins!Expired
<1> QED BY <1>3, LoginInvariant, PTL DEF Logins!Spec

=============================================================================

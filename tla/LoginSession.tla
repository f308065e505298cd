---------------------------- MODULE LoginSession ----------------------------
(***************************************************************************)
(* Logging in and out: the routes of /api/auth, OAuth2IdentityProvider and *)
(* SessionService.  A login leaves a state in the memory of the server and *)
(* sends the browser to the identity provider, which sends it back to the  *)
(* callback with that state and a code; the callback consumes the state,   *)
(* asks the provider two questions, and makes a session.  Callbacks may be *)
(* repeated and interleave, the provider may refuse or not answer, and the *)
(* server may restart, which loses the states but not the sessions.        *)
(***************************************************************************)
EXTENDS Naturals, FiniteSets

CONSTANTS
  Browser,      \* browsers; each has a session cookie or none
  User,         \* uids the provider knows
  Allowed,      \* LOGIN_ALLOWED_UIDS; User when it is not configured
  Requested,    \* the values of returnTo a client sends
  Destination,  \* those of them that are pages of this site
  Home,         \* where it returns without one
  Callback,     \* callbacks in flight
  StateTTL,     \* STATE_TTL_MS
  Lifetime,     \* sessionDurationMs
  MaxTime,      \* BOUND: the clock stops here
  MaxLogins,    \* BOUND: logins begun
  MaxSessions,  \* BOUND: sessions made
  None

State == 1..MaxLogins
Session == 1..MaxSessions
Time == 0..MaxTime

LoginSessionAssumption ==
  /\ Allowed \subseteq User
  /\ Home \in Destination
  /\ Destination \subseteq Requested
  /\ StateTTL \in Nat
  /\ Lifetime \in Nat \ {0}
  /\ MaxTime \in Nat
  /\ MaxLogins \in Nat
  /\ MaxSessions \in Nat
  /\ None \notin User \cup Browser

VARIABLES
  now,
  issued,      \* the logins begun: the page and the time (ghost for those
               \* that are not pending any more)
  pending,     \* pendingStates: the states that still can be consumed
  callback,    \* callbacks: program counter, browser, state, uid, destination
  identities,  \* the uids with a row in identities
  session,     \* the rows of identity_sessions
  cookie,      \* the session cookie of each browser
  known        \* the browsers that have an anonymous id

vars == <<now, issued, pending, callback, identities, session, cookie, known>>

NoLogin == [returnTo |-> Home, at |-> 0, begun |-> FALSE]
Login == [returnTo : Destination, at : Time, begun : BOOLEAN]
NoSession == [uid |-> None, expiresAt |-> 0, revoked |-> FALSE, state |-> 0]
\* "state" is a ghost: which login the session comes from.
SessionRow == [uid : User, expiresAt : Nat, revoked : BOOLEAN, state : State]
NoCallback == [pc |-> "idle", browser |-> None, state |-> 0, uid |-> None,
               consumedAt |-> 0, returnTo |-> Home]
CallbackState ==
  [pc : {"idle", "exchange", "fetch", "admit", "create"}, browser : Browser \cup {None},
   state : State \cup {0}, uid : User \cup {None}, consumedAt : Time,
   returnTo : Destination]

TypeOK ==
  /\ now \in Time
  /\ issued \in [State -> Login]
  /\ pending \subseteq State
  /\ callback \in [Callback -> CallbackState]
  /\ identities \subseteq User
  /\ session \in [Session -> SessionRow \cup {NoSession}]
  /\ cookie \in [Browser -> Session \cup {0}]
  /\ known \subseteq Browser

Init ==
  /\ now = 0
  /\ issued = [s \in State |-> NoLogin]
  /\ pending = {}
  /\ callback = [c \in Callback |-> NoCallback]
  /\ identities = {}
  /\ session = [i \in Session |-> NoSession]
  /\ cookie = [b \in Browser |-> 0]
  /\ known = {}

-----------------------------------------------------------------------------
\* The provider's states.

Expired(s) == issued[s].at + StateTTL < now

Prune(states) == {s \in states : ~Expired(s)}

\* A state is removed as soon as it was looked up.
Without(states, s) == states \ {s}

SafeReturnTo(returnTo) == IF returnTo \in Destination THEN returnTo ELSE Home

BeginLogin(returnTo) ==
  /\ \E s \in State :
       /\ ~issued[s].begun
       /\ \A t \in State : ~issued[t].begun => s <= t
       /\ issued' = [issued EXCEPT ![s] =
                       [returnTo |-> SafeReturnTo(returnTo), at |-> now, begun |-> TRUE]]
       /\ pending' = Prune(pending) \cup {s}
  /\ UNCHANGED <<now, callback, identities, session, cookie, known>>

PeekReturnTo(s) == IF s \in pending THEN issued[s].returnTo ELSE Home

\* The callback of a state that was handed out: by the browser it was meant
\* for, again by reloading the page, or late.  Without the state it ends (400).
ReceiveCallback(c, b, s) ==
  /\ callback[c] = NoCallback
  /\ issued[s].begun
  /\ IF s \in Prune(pending)
     THEN /\ pending' = Without(Prune(pending), s)
          /\ callback' = [callback EXCEPT ![c] =
               [NoCallback EXCEPT !.pc = "exchange", !.browser = b, !.state = s,
                                  !.consumedAt = now, !.returnTo = PeekReturnTo(s)]]
     ELSE pending' = Prune(pending) /\ UNCHANGED callback
  /\ UNCHANGED <<now, issued, identities, session, cookie, known>>

-----------------------------------------------------------------------------
\* The questions to the provider: the code for a token, the token for a uid.

Goto(c, pc) == callback' = [callback EXCEPT ![c].pc = pc]

ExchangeCode(c) ==
  /\ callback[c].pc = "exchange"
  /\ Goto(c, "fetch")
  /\ UNCHANGED <<now, issued, pending, identities, session, cookie, known>>

FetchIdentity(c) ==
  /\ callback[c].pc = "fetch"
  /\ \E u \in User :
       callback' = [callback EXCEPT ![c].pc = "admit", ![c].uid = u]
  /\ UNCHANGED <<now, issued, pending, identities, session, cookie, known>>

\* Seeded fault: a question the provider does not answer is waited for.
GivesUpNever(c) == FALSE

\* The provider refuses, its answer lacks the token or the uid, or ten seconds
\* pass without one.
GivesUp(c) == callback[c].pc \in {"exchange", "fetch"}

ProviderFails(c) ==
  /\ GivesUp(c)
  /\ callback' = [callback EXCEPT ![c] = NoCallback]
  /\ UNCHANGED <<now, issued, pending, identities, session, cookie, known>>

Admitted(u) == u \in Allowed

\* The list of allowed uids comes before the identity is written.
AdmitIdentity(c) ==
  /\ callback[c].pc = "admit"
  /\ IF Admitted(callback[c].uid)
     THEN /\ identities' = identities \cup {callback[c].uid}
          /\ Goto(c, "create")
     ELSE /\ callback' = [callback EXCEPT ![c] = NoCallback]
          /\ UNCHANGED identities
  /\ UNCHANGED <<now, issued, pending, session, cookie, known>>

\* SessionService.create, the cookie and the redirect.
CreateSession(c) ==
  /\ callback[c].pc = "create"
  /\ callback[c].uid \in identities
  /\ \E i \in Session :
       /\ session[i] = NoSession
       /\ \A j \in Session : session[j] = NoSession => i <= j
       /\ session' = [session EXCEPT ![i] =
            [uid |-> callback[c].uid, expiresAt |-> now + Lifetime,
             revoked |-> FALSE, state |-> callback[c].state]]
       /\ cookie' = [cookie EXCEPT ![callback[c].browser] = i]
  /\ callback' = [callback EXCEPT ![c] = NoCallback]
  /\ UNCHANGED <<now, issued, pending, identities, known>>

-----------------------------------------------------------------------------
\* Sessions.

\* Seeded fault: a session lives until it expires.
ResolvesUntilExpiry(i) ==
  /\ session[i] # NoSession
  /\ session[i].expiresAt > now
  /\ session[i].uid \in identities

\* SessionService.resolve: whether the token of session i stands for its uid.
Resolves(i) ==
  /\ session[i] # NoSession
  /\ ~session[i].revoked
  /\ session[i].expiresAt > now
  /\ session[i].uid \in identities

\* /api/auth/me gives an anonymous id to a browser that has neither.
Me(b) ==
  /\ ~(cookie[b] # 0 /\ Resolves(cookie[b]))
  /\ known' = known \cup {b}
  /\ UNCHANGED <<now, issued, pending, callback, identities, session, cookie>>

\* The row is revoked unless it was, and the cookie is cleared.
Logout(b) ==
  /\ cookie[b] # 0
  /\ session' = [session EXCEPT ![cookie[b]].revoked = TRUE]
  /\ cookie' = [cookie EXCEPT ![b] = 0]
  /\ UNCHANGED <<now, issued, pending, callback, identities, known>>

Restart ==
  /\ \/ pending # {}
     \/ \E c \in Callback : callback[c] # NoCallback
  /\ pending' = {}
  /\ callback' = [c \in Callback |-> NoCallback]
  /\ UNCHANGED <<now, issued, identities, session, cookie, known>>

Tick ==
  /\ now < MaxTime
  /\ now' = now + 1
  /\ UNCHANGED <<issued, pending, callback, identities, session, cookie, known>>

Answer(c) ==
  \/ ExchangeCode(c)
  \/ FetchIdentity(c)

Handle(c) ==
  \/ ProviderFails(c)
  \/ AdmitIdentity(c)
  \/ CreateSession(c)

Next ==
  \/ \E returnTo \in Requested : BeginLogin(returnTo)
  \/ \E c \in Callback, b \in Browser, s \in State : ReceiveCallback(c, b, s)
  \/ \E c \in Callback : Answer(c) \/ Handle(c)
  \/ \E b \in Browser : Me(b) \/ Logout(b)
  \/ Restart
  \/ Tick

Spec == Init /\ [][Next]_vars

\* The server goes on with a callback; the provider may never answer.
FairSpec == Spec /\ \A c \in Callback : WF_vars(Handle(c))

-----------------------------------------------------------------------------
\* Properties.

\* "A state can be used once, so that a callback cannot be replayed"
\* (consumeState): whichever callbacks come, also at the same time, and
\* whatever the provider answers them, one login makes at most one session.
StateUsedOnce ==
  /\ \A i, j \in Session :
       session[i] # NoSession /\ session[i].state = session[j].state => i = j
  /\ \A c \in Callback : callback[c].pc # "idle" =>
       /\ callback[c].state \notin pending
       /\ \A i \in Session : session[i].state # callback[c].state

\* A callback that is handled came within the lifetime of its state, and will
\* return to the page its login was begun from.
CallbackFitsLogin ==
  \A c \in Callback : callback[c].pc # "idle" =>
    LET login == issued[callback[c].state] IN
    /\ callback[c].consumedAt <= login.at + StateTTL
    /\ callback[c].returnTo = login.returnTo

\* "Who is not allowed leaves no identity" (callback route), and no session.
OnlyAllowedKnown ==
  /\ identities \subseteq Allowed
  /\ \A i \in Session : session[i] # NoSession => session[i].uid \in Allowed

\* A token that was logged out or has expired does not come back, whatever
\* logins follow.
EndedStaysEnded ==
  \A i \in Session : session[i] # NoSession /\ ~Resolves(i) => ~Resolves(i)'

\* A browser that logs out leaves no token that still stands for it.
LogoutEnds ==
  \A b \in Browser, i \in Session : cookie[b] = i /\ cookie'[b] = 0 => ~Resolves(i)'

\* The map of states holds, after a login began, only states that can still be used.
NoneExpired == issued' # issued => \A s \in pending' : ~Expired(s)'

=============================================================================

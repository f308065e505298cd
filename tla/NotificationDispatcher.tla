----------------------- MODULE NotificationDispatcher -----------------------
(***************************************************************************)
(* The delivery of notifications to channels outside the site: channels    *)
(* made from the configuration, messages rendered once and laid out per    *)
(* channel, and NotificationDispatcher, which tries each target of the     *)
(* recipient a few times and logs the outcome.  Events are dispatched any  *)
(* number of times (an outbox may hand them out again) by any number of    *)
(* workers; a worker may die at any step.                                  *)
(***************************************************************************)
EXTENDS Naturals, Sequences, FiniteSets

CONSTANTS
  Worker,          \* dispatches that may run at the same time
  Event,           \* notification events
  Type,            \* Type[e]: its notificationType
  Payload,         \* Payload[e]: the texts its payload has
  Webhooks,        \* the webhooks the configuration has
  EmailTransport,  \* an email transport was injected
  Directory,       \* the targets of the recipient, in their order
  MaxAttempts,     \* attempts per target
  Reliable,        \* ASSUMPTION of some instances: every request is answered
  Crashes,         \* workers may die
  MaxDispatched,   \* BOUND: dispatches begun
  None

WebhookKinds == {"slack", "teams", "lark"}
Kinds == WebhookKinds \cup {"email"}
SlackFields == 10  \* the most fields a section has

NotificationDispatcherAssumption ==
  /\ Type \in [Event -> {"published", "delisted", "disabled"}]
  /\ Payload \in [Event -> SUBSET {"installed", "notes", "code", "detail"}]
  /\ Webhooks \subseteq WebhookKinds
  /\ EmailTransport \in BOOLEAN
  /\ Directory \in Seq(Kinds)
  /\ MaxAttempts \in Nat \ {0}
  /\ MaxDispatched \in Nat

Targets == {Directory[n] : n \in DOMAIN Directory}

\* createChannels.
Channels == Webhooks \cup (IF EmailTransport THEN {"email"} ELSE {})

VARIABLES
  work,        \* workers: program counter, event, position, attempts, status
  log,         \* the delivery log: a sequence of records
  inbox,       \* what arrived at each target: a sequence of messages
  dispatched   \* dispatches begun

vars == <<work, log, inbox, dispatched>>

Status == {"delivered", "retryable", "rejected"}
Idle == [pc |-> "idle", event |-> None, at |-> 1, attempts |-> 0, last |-> None]
Work == [pc : {"idle", "next", "deliver", "record", "done"}, event : Event \cup {None},
         at : Nat, attempts : 0..MaxAttempts, last : Status \cup {None}]
\* "last" is a ghost: the outcome of the last attempt.
Record == [event : Event, target : Targets, status : Status, attempts : 0..MaxAttempts,
           last : Status \cup {None}]
Message == [event : Event, facts : SUBSET {"package", "version", "installed", "notes",
                                           "code", "detail"}]

TypeOK ==
  /\ work \in [Worker -> Work]
  /\ log \in Seq(Record)
  /\ inbox \in [Targets -> Seq(Message)]
  /\ dispatched \in 0..MaxDispatched

Init ==
  /\ work = [w \in Worker |-> Idle]
  /\ log = <<>>
  /\ inbox = [t \in Targets |-> <<>>]
  /\ dispatched = 0

-----------------------------------------------------------------------------
\* What a message says.

\* renderNotification: the package, the version, and what the payload has of
\* the texts its type asks for.
Rendered(e) ==
  {"package", "version"} \cup
    (Payload[e] \cap (IF Type[e] = "published" THEN {"installed", "notes"}
                                              ELSE {"code", "detail"}))

\* The order in which facts are pushed, and the places of those before the n-th.
FactOrder == <<"package", "version", "installed", "notes", "code", "detail">>
Before(n, facts) == {m \in 1 .. n - 1 : FactOrder[m] \in facts}

\* Slack takes the first ten fields of a section.
SlackSection(facts) ==
  {fact \in facts : \E n \in DOMAIN FactOrder :
     FactOrder[n] = fact /\ Cardinality(Before(n, facts)) < SlackFields}

\* buildPayload of each channel, as far as the facts go.
BuildPayload(kind, facts) ==
  IF kind = "slack" THEN SlackSection(facts) ELSE facts

-----------------------------------------------------------------------------
\* One attempt.

\* The answer of the other side, and whether the message arrived: a status, or
\* none within ten seconds, before or after it arrived.
Answers == {<<"2xx", TRUE>>, <<"429", FALSE>>, <<"4xx", FALSE>>, <<"5xx", FALSE>>}
           \cup (IF Reliable THEN {} ELSE {<<"none", FALSE>>, <<"none", TRUE>>})

ClassifyResponse(status) ==
  CASE status = "2xx" -> "delivered"
    [] status \in {"429", "5xx", "none"} -> "retryable"
    [] status = "4xx" -> "rejected"

\* An email is sent or it is not, and what is not may be tried again.
ClassifySend(status) == IF status = "2xx" THEN "delivered" ELSE "retryable"

Outcome(kind, status) ==
  IF kind = "email" THEN ClassifySend(status) ELSE ClassifyResponse(status)

-----------------------------------------------------------------------------
\* NotificationDispatcher.

HasDelivered(e, t) ==
  \E n \in DOMAIN log : /\ log[n].event = e
                        /\ log[n].target = t
                        /\ log[n].status = "delivered"

Dispatch(w, e) ==
  /\ work[w].pc = "idle"
  /\ dispatched < MaxDispatched
  /\ dispatched' = dispatched + 1
  /\ work' = [work EXCEPT ![w] = [Idle EXCEPT !.pc = "next", !.event = e]]
  /\ UNCHANGED <<log, inbox>>

Target(w) == Directory[work[w].at]

AfterDisabled(w) == [work EXCEPT ![w].at = @ + 1]

\* The next target: none is left, its channel is not enabled, it was served
\* before, or it is tried.
NextTarget(w) ==
  /\ work[w].pc = "next"
  /\ \/ /\ work[w].at > Len(Directory)
        /\ work' = [work EXCEPT ![w].pc = "done"]
        /\ UNCHANGED log
     \/ /\ work[w].at <= Len(Directory)
        /\ Target(w) \notin Channels
        /\ log' = Append(log, [event |-> work[w].event, target |-> Target(w),
                               status |-> "rejected", attempts |-> 0, last |-> None])
        /\ work' = AfterDisabled(w)
     \/ /\ work[w].at <= Len(Directory)
        /\ Target(w) \in Channels
        /\ HasDelivered(work[w].event, Target(w))
        /\ work' = [work EXCEPT ![w].at = @ + 1]
        /\ UNCHANGED log
     \/ /\ work[w].at <= Len(Directory)
        /\ Target(w) \in Channels
        /\ ~HasDelivered(work[w].event, Target(w))
        /\ work' = [work EXCEPT ![w].pc = "deliver", ![w].attempts = 0, ![w].last = None]
        /\ UNCHANGED log
  /\ UNCHANGED <<inbox, dispatched>>

\* Only what may work next time is tried again.
MayRetry(attempts, outcome) == outcome = "retryable" /\ attempts < MaxAttempts

Deliver(w) ==
  /\ work[w].pc = "deliver"
  /\ work[w].attempts < MaxAttempts
  /\ \E answer \in Answers :
       LET outcome == Outcome(Target(w), answer[1])
           attempts == work[w].attempts + 1
           message == [event |-> work[w].event,
                       facts |-> BuildPayload(Target(w), Rendered(work[w].event))] IN
       /\ inbox' = IF answer[2] THEN [inbox EXCEPT ![Target(w)] = Append(@, message)]
                   ELSE inbox
       /\ work' = [work EXCEPT
            ![w].attempts = attempts,
            ![w].last = outcome,
            ![w].pc = IF MayRetry(attempts, outcome) THEN "deliver" ELSE "record"]
  /\ UNCHANGED <<log, dispatched>>

\* deliverWithRetry tells a failure by the number of attempts alone.
FinalStatus(w) ==
  IF work[w].last = "delivered" THEN "delivered"
  ELSE IF work[w].attempts >= MaxAttempts THEN "retryable" ELSE "rejected"

RecordOutcome(w) ==
  /\ work[w].pc = "record"
  /\ log' = Append(log, [event |-> work[w].event, target |-> Target(w),
                         status |-> FinalStatus(w), attempts |-> work[w].attempts,
                         last |-> work[w].last])
  /\ work' = [work EXCEPT ![w].pc = "next", ![w].at = @ + 1]
  /\ UNCHANGED <<inbox, dispatched>>

Finish(w) ==
  /\ work[w].pc = "done"
  /\ work' = [work EXCEPT ![w] = Idle]
  /\ UNCHANGED <<log, inbox, dispatched>>

Die(w) ==
  /\ Crashes
  /\ work[w].pc # "idle"
  /\ work' = [work EXCEPT ![w] = Idle]
  /\ UNCHANGED <<log, inbox, dispatched>>

Run(w) == NextTarget(w) \/ Deliver(w) \/ RecordOutcome(w) \/ Finish(w)

Next == \E w \in Worker : (\E e \in Event : Dispatch(w, e)) \/ Run(w) \/ Die(w)

Spec == Init /\ [][Next]_vars

\* A request ends after ten seconds, so a worker that lives goes on.
FairSpec == Spec /\ \A w \in Worker : WF_vars(Run(w))

-----------------------------------------------------------------------------
\* Properties.

\* One target that fails, is not enabled or was served before does not keep the
\* others from theirs: when a dispatch is done, each target of the recipient
\* has a record of the event.
EveryTargetAccounted ==
  \A w \in Worker : work[w].pc = "done" =>
    \A t \in Targets : \E n \in DOMAIN log :
      log[n].event = work[w].event /\ log[n].target = t

\* What the log calls delivered has arrived.
DeliveredHasArrived ==
  \A n \in DOMAIN log : log[n].status = "delivered" =>
    \E k \in DOMAIN inbox[log[n].target] : inbox[log[n].target][k].event = log[n].event

\* Dispatched one after the other, and with workers dying anywhere, an event
\* does not reach a target again once the log has it as delivered.
NoneAgain ==
  \A n \in DOMAIN log : log[n].status = "delivered" =>
    \A k \in DOMAIN inbox'[log[n].target] :
      inbox'[log[n].target][k].event = log[n].event => k \in DOMAIN inbox[log[n].target]

\* "The text is written once, so that Slack and email cannot tell different
\* stories" (templates.ts): all messages of an event carry the same facts.
SameFactsEverywhere ==
  \A s, t \in Targets : \A m \in DOMAIN inbox[s], n \in DOMAIN inbox[t] :
    inbox[s][m].event = inbox[t][n].event => inbox[s][m].facts = inbox[t][n].facts

\* "An outbox event may be taken out again; it must not be sent to the same
\* recipient twice" (DeliveryLog).
SentOnce ==
  \A t \in Targets : \A m, n \in DOMAIN inbox[t] :
    inbox[t][m].event = inbox[t][n].event => m = n

\* "Not retryable: trying again would give the same result" (DeliveryOutcome):
\* what was rejected is recorded as rejected.
RejectedIsRecorded ==
  \A n \in DOMAIN log : log[n].last = "rejected" => log[n].status = "rejected"
=============================================================================

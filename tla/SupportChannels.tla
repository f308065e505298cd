-------------------------- MODULE SupportChannels --------------------------
(***************************************************************************)
(* The support channels of one package: the editors of the admin page, the *)
(* checks of the service, and the transaction that replaces the whole set, *)
(* statement by statement.                                                  *)
(*                                                                         *)
(* A statement of READ COMMITTED sees the rows committed when it starts.   *)
(* A delete waits for the rows another transaction is deleting, an insert  *)
(* for the keys another transaction has inserted or deleted.                *)
(***************************************************************************)
EXTENDS Naturals, Sequences, FiniteSets, SequencesExt

CONSTANTS
  Editors,       \* the open editors, one per maintainer
  Addresses,     \* channel type and address together, trimmed
  Typed,         \* what can stand in the address field
  Trim(_),       \* the address of a typed one; Blank when nothing is left
  Blank,         \* an empty field
  Label,         \* the one label typed
  MaxChannels,   \* MAX_SUPPORT_CHANNELS
  MaxSaves,      \* bound: requests to save
  MaxEdits       \* bound: edits of all drafts

ChannelsAssumption ==
  /\ MaxChannels \in Nat /\ MaxSaves \in Nat /\ MaxEdits \in Nat
  /\ Blank \notin Addresses /\ Addresses \cup {Blank} \subseteq Typed
  /\ \A v \in Typed : Trim(v) \in Addresses \cup {Blank}

VARIABLES
  table,     \* the committed rows
  tx,        \* the transaction of each editor's request
  editor,    \* the page of each editor
  saves,     \* how many requests were made
  edits,     \* how many edits were made
  last       \* the channels the last committed save sent

channelVars == <<table, tx, editor, saves, edits, last>>

\* at: the save that wrote the row; created: the save its createdAt is from.
Rows == [id : Nat, key : Addresses, order : Nat, created : Nat, at : Nat]

\* A SupportChannelContent; its displayOrder is its place.
Contents == Seq(Addresses)

Drafts == Seq([address : Typed, label : {Label, Blank}])

Editor == [open : BOOLEAN, draft : Drafts, saving : BOOLEAN, error : BOOLEAN, message : BOOLEAN]
Closed == [open |-> FALSE, draft |-> <<>>, saving |-> FALSE, error |-> FALSE, message |-> FALSE]

\* sees: the rows the delete waits for; previous: what the select returned.
Transactions ==
  [state : {"none", "begun", "read", "deletes", "inserts", "saved", "failed"}, save : Nat, sent : Contents,
   previous : SUBSET Rows, sees : SUBSET Rows, deleted : SUBSET Rows, inserted : SUBSET Rows]
NoTx == [state |-> "none", save |-> 0, sent |-> <<>>, previous |-> {}, sees |-> {}, deleted |-> {}, inserted |-> {}]

-----------------------------------------------------------------------------
(* Reading. *)

Earlier(r, s) == r.order < s.order \/ (r.order = s.order /\ r.created < s.created)

\* Rows of which neither is earlier come in any order.
ListSupportChannels(rows) ==
  {list \in [1 .. Cardinality(rows) -> rows] :
    Range(list) = rows /\ \A i, j \in DOMAIN list : i < j => ~Earlier(list[j], list[i])}

ToDraft(list) == [i \in DOMAIN list |-> [address |-> list[i].key, label |-> Label]]

-----------------------------------------------------------------------------
(* The editor. *)

Put(e, page) == editor' = [editor EXCEPT ![e] = page]

\* SupportConsole mounts the editor when its data has come.
Open(e) ==
  /\ ~editor[e].open
  /\ \E list \in ListSupportChannels(table) : Put(e, [Closed EXCEPT !.open = TRUE, !.draft = ToDraft(list)])
  /\ UNCHANGED <<table, tx, saves, edits, last>>

\* Another package is chosen: the key changes and the editor goes away.
Leave(e) ==
  /\ editor[e].open
  /\ Put(e, Closed)
  /\ UNCHANGED <<table, tx, saves, edits, last>>

Edit(e, draft) ==
  /\ editor[e].open /\ edits < MaxEdits
  /\ edits' = edits + 1
  /\ Put(e, [editor[e] EXCEPT !.draft = draft])
  /\ UNCHANGED <<table, tx, saves, last>>

Patch(e) ==
  \E i \in DOMAIN editor[e].draft :
    \/ \E v \in Typed : Edit(e, [editor[e].draft EXCEPT ![i].address = v])
    \/ \E v \in {Label, Blank} : Edit(e, [editor[e].draft EXCEPT ![i].label = v])

RemoveRow(e) == \E i \in DOMAIN editor[e].draft : Edit(e, RemoveAt(editor[e].draft, i))

AddRow(e) ==
  /\ Len(editor[e].draft) < MaxChannels
  /\ Edit(e, Append(editor[e].draft, [address |-> Blank, label |-> Blank]))

ValidateSupportChannels(draft) ==
  /\ Len(draft) <= MaxChannels
  /\ \A i \in DOMAIN draft : draft[i].label # Blank /\ Trim(draft[i].address) # Blank
  /\ \A i, j \in DOMAIN draft : i # j => Trim(draft[i].address) # Trim(draft[j].address)

ToSupportChannelPayload(draft) == [i \in DOMAIN draft |-> Trim(draft[i].address)]

\* The service checks the same of what was sent.
ValidateChannels(sent) ==
  /\ Len(sent) <= MaxChannels
  /\ \A i \in DOMAIN sent : sent[i] # Blank
  /\ \A i, j \in DOMAIN sent : i # j => sent[i] # sent[j]

HandleInvalid(e) ==
  /\ editor[e].open /\ ~editor[e].saving /\ ~ValidateSupportChannels(editor[e].draft)
  /\ Put(e, [editor[e] EXCEPT !.error = TRUE, !.message = FALSE])
  /\ UNCHANGED <<table, tx, saves, edits, last>>

\* A request of a page left earlier may still run: one request at a time of an editor here.
HandleSave(e) ==
  LET sent == ToSupportChannelPayload(editor[e].draft) IN
  /\ editor[e].open /\ ~editor[e].saving /\ ValidateSupportChannels(editor[e].draft)
  /\ saves < MaxSaves /\ tx[e].state = "none"
  /\ saves' = saves + 1
  /\ Put(e, [editor[e] EXCEPT !.saving = TRUE, !.error = FALSE])
  /\ tx' = [tx EXCEPT ![e] = [NoTx EXCEPT !.save = saves + 1, !.sent = sent,
                                           !.state = IF ValidateChannels(sent) THEN "begun" ELSE "failed"]]
  /\ UNCHANGED <<table, edits, last>>

\* The answer replaces the draft with the channels saved, whatever was typed meanwhile.
Answered(e) ==
  /\ \/ /\ tx[e].state = "saved" /\ editor[e].saving
        /\ \E list \in ListSupportChannels(tx[e].inserted) :
             Put(e, [editor[e] EXCEPT !.draft = ToDraft(list), !.message = TRUE, !.saving = FALSE])
     \/ /\ tx[e].state = "failed" /\ editor[e].saving
        /\ Put(e, [editor[e] EXCEPT !.error = TRUE, !.saving = FALSE])
     \/ tx[e].state \in {"saved", "failed"} /\ ~editor[e].saving /\ editor' = editor
  /\ tx' = [tx EXCEPT ![e] = NoTx]
  /\ UNCHANGED <<table, saves, edits, last>>

-----------------------------------------------------------------------------
(* The transaction. *)

Others(e) == Editors \ {e}
Statement(e, new) == tx' = [tx EXCEPT ![e] = new] /\ UNCHANGED <<editor, saves, edits>>

Select(e) ==
  /\ tx[e].state = "begun"
  /\ Statement(e, [tx[e] EXCEPT !.state = "read", !.previous = table])
  /\ UNCHANGED <<table, last>>

\* The delete starts: these are the rows it will look at.
StartDelete(e) ==
  /\ tx[e].state = "read"
  /\ Statement(e, [tx[e] EXCEPT !.state = "deletes", !.sees = table])
  /\ UNCHANGED <<table, last>>

\* What e waits for: deletes it has met, keys it would double.
Uncommitted(o) == IF tx[o].state = "inserts" THEN tx[o].deleted \cup tx[o].inserted ELSE {}
KeysOf(rows) == {r.key : r \in rows}

Inserting(e) == tx[e].state = "inserts" /\ Cardinality(tx[e].inserted) < Len(tx[e].sent)
Key(e) == tx[e].sent[Cardinality(tx[e].inserted) + 1]

WaitsFor(e) ==
  {o \in Others(e) :
    \/ tx[e].state = "deletes" /\ Uncommitted(o) \cap tx[e].sees # {}
    \/ Inserting(e) /\ Key(e) \in KeysOf(Uncommitted(o))}

\* A row another transaction deleted meanwhile is passed over.
Delete(e) ==
  /\ tx[e].state = "deletes" /\ WaitsFor(e) = {}
  /\ Statement(e, [tx[e] EXCEPT !.state = "inserts", !.deleted = tx[e].sees \cap table])
  /\ UNCHANGED <<table, last>>

NewRow(e) ==
  LET known == {r \in tx[e].previous : r.key = Key(e)}
      before == CHOOSE r \in known : TRUE
  IN [id |-> IF known = {} THEN tx[e].save * MaxChannels + Cardinality(tx[e].inserted) ELSE before.id,
      key |-> Key(e), order |-> Cardinality(tx[e].inserted),
      created |-> IF known = {} THEN tx[e].save ELSE before.created, at |-> tx[e].save]

\* Seeded fault: the table has no unique index.
TakenNever(e) == FALSE

Taken(e) == \E r \in table \ tx[e].deleted : r.key = NewRow(e).key \/ r.id = NewRow(e).id

Insert(e) ==
  /\ Inserting(e) /\ WaitsFor(e) = {} /\ ~Taken(e)
  /\ Statement(e, [tx[e] EXCEPT !.inserted = @ \cup {NewRow(e)}])
  /\ UNCHANGED <<table, last>>

RolledBack(e) == [NoTx EXCEPT !.state = "failed", !.save = tx[e].save, !.sent = tx[e].sent]

\* The unique index refuses the row.
Refused(e) ==
  /\ Inserting(e) /\ WaitsFor(e) = {} /\ Taken(e)
  /\ Statement(e, RolledBack(e))
  /\ UNCHANGED <<table, last>>

\* Two wait for one another: Postgres ends one.
Detect(e) ==
  /\ \E o \in WaitsFor(e) : e \in WaitsFor(o)
  /\ Statement(e, RolledBack(e))
  /\ UNCHANGED <<table, last>>

\* The server fails: nothing is left of the transaction.
Fail(e) ==
  /\ tx[e].state \in {"begun", "read", "deletes", "inserts"}
  /\ Statement(e, RolledBack(e))
  /\ UNCHANGED <<table, last>>

\* With the audit line and the event of the same transaction.
Commit(e) ==
  /\ tx[e].state = "inserts" /\ ~Inserting(e)
  /\ table' = (table \ tx[e].deleted) \cup tx[e].inserted
  /\ last' = tx[e].sent
  /\ Statement(e, [tx[e] EXCEPT !.state = "saved", !.deleted = {}])

-----------------------------------------------------------------------------

Init ==
  /\ table = {} /\ tx = [e \in Editors |-> NoTx]
  /\ editor = [e \in Editors |-> Closed]
  /\ saves = 0 /\ edits = 0 /\ last = <<>>

Runs(e) == Select(e) \/ StartDelete(e) \/ Delete(e) \/ Insert(e) \/ Refused(e) \/ Detect(e) \/ Commit(e)

Next ==
  \E e \in Editors :
    \/ Open(e) \/ Leave(e) \/ Patch(e) \/ RemoveRow(e) \/ AddRow(e)
    \/ HandleInvalid(e) \/ HandleSave(e) \/ Answered(e)
    \/ Runs(e) \/ Fail(e)

\* The database runs what it was sent, and the answer comes back.
Fairness == \A e \in Editors : WF_channelVars(Runs(e)) /\ WF_channelVars(Answered(e))

Spec == Init /\ [][Next]_channelVars /\ Fairness

-----------------------------------------------------------------------------
(* Properties. *)

TypeOK ==
  /\ table \subseteq Rows /\ tx \in [Editors -> Transactions] /\ editor \in [Editors -> Editor]
  /\ saves \in 0 .. MaxSaves /\ edits \in 0 .. MaxEdits /\ last \in Contents

(* Two saves at a time may both add a channel; no two rows of the package  *)
(* ever name the same type and address.                                    *)
AddressesUnique == \A r, s \in table : r.key = s.key => r = s

(* Whatever another transaction deletes or is refused for, every channel   *)
(* the last committed save sent is in the table.                           *)
LastSaveComplete == Range(last) \subseteq KeysOf(table)

Commits(e) == tx[e].state = "inserts" /\ tx'[e].state = "saved"

(* The list that was sent is the whole result: what the table holds after  *)
(* a save is that list, in that order.                                     *)
CommitsWhole ==
  \A e \in Editors : Commits(e) =>
    \A list \in ListSupportChannels(table') : tx[e].sent = [i \in DOMAIN list |-> list[i].key]

(* A save that keeps a channel keeps its id and the time it was created,   *)
(* wherever in the list it stands and whatever was saved in between.       *)
KeepsIdentity == \A r \in table, s \in table' : r.key = s.key => r.id = s.id /\ r.created = s.created

=============================================================================

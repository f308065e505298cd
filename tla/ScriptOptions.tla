---------------------------- MODULE ScriptOptions ----------------------------
(***************************************************************************)
(* The options of an install script: the editor they are written in, the   *)
(* checks of the page, of the request schema and of the script target      *)
(* model they pass on their way into a revision, and the generator that    *)
(* resolves them when a script is asked for.                               *)
(*                                                                         *)
(* A value is a text or a switch.  A text is its word, which is empty for  *)
(* a blank one, and whether white space stands around it; trimming takes   *)
(* the white space away.  The commands, the usage text and the cleanup     *)
(* words of a revision go through the same checks and are one text here.   *)
(***************************************************************************)
EXTENDS Naturals, Sequences, FiniteSets, SequencesExt

CONSTANTS
  NameWords,     \* the words tried as names of an option
  Words,         \* the words tried anywhere else
  MaxOptions,    \* bound: options of a list, at most 20 in the code
  MaxEdits       \* bound: edits made in all

ValidNames == {"--option", "--scope"}   \* the words of NameWords that match OPTION_NAME

OptionsAssumption ==
  "--option" \in NameWords /\ {"", "a", "b"} \subseteq Words /\ MaxOptions \in Nat /\ MaxEdits \in Nat

VARIABLES
  draft,         \* the content in the form
  typed,         \* the pieces last typed into the field of choices, and where
  stored,        \* the current revision of the target, NoRevision at first
  verdict,       \* what became of the last save
  edits          \* how many edits were made

vars == <<draft, typed, stored, verdict, edits>>

-----------------------------------------------------------------------------
(* Values and options. *)

Text(w, p) == [kind |-> "text", word |-> w, padded |-> p]
Switch(b) == [kind |-> "boolean", word |-> IF b THEN "true" ELSE "false", padded |-> FALSE]
Texts(ws) == [kind : {"text"}, word : ws, padded : BOOLEAN]
Trim(t) == [t EXCEPT !.padded = FALSE]
IsBlank(t) == t.word = ""

Types == {"select", "boolean", "text"}
Option(name, type, description, default, choices) ==
  [name |-> name, type |-> type, description |-> description, default |-> default,
   choices |-> choices]
NewOption == Option(Text("--option", FALSE), "text", Text("", FALSE), Text("", FALSE), <<>>)

\* A revision's content; only a residual one carries the words for the clean-up.
Content(options, residual, cleanup) ==
  [options |-> options, residual |-> residual, cleanup |-> cleanup]
NoWords == Text("", FALSE)
NoRevision == Content(<<>>, FALSE, NoWords)

-----------------------------------------------------------------------------
(* The editor. *)

ChangeType(o, type) ==
  LET default == CASE type = "boolean" /\ o.type # "boolean" -> Switch(FALSE)
                   [] type # "boolean" /\ o.type = "boolean" -> NoWords
                   [] OTHER -> o.default
      choices == CASE type # "select" -> <<>>
                   [] type = "select" /\ o.choices = <<>> /\ ~(default.word = "" /\ ~default.padded) ->
                        <<default>>
                   [] OTHER -> o.choices
  IN  [o EXCEPT !.type = type, !.default = default, !.choices = choices]

Init ==
  /\ draft = NoRevision
  /\ typed = <<>>
  /\ stored = NoRevision
  /\ verdict = "none"
  /\ edits = 0

Edit(options) ==
  /\ edits < MaxEdits
  /\ draft' = [draft EXCEPT !.options = options]
  /\ edits' = edits + 1 /\ verdict' = "none"
  /\ UNCHANGED stored

Update(i, o) == Edit([draft.options EXCEPT ![i] = o]) /\ typed' = <<>>

AddOption ==
  /\ Len(draft.options) < MaxOptions
  /\ Edit(Append(draft.options, NewOption)) /\ typed' = <<>>

UpdateName(i) == \E t \in Texts(NameWords) : Update(i, [draft.options[i] EXCEPT !.name = t])
UpdateDescription(i) ==
  \E t \in Texts({"", "a"}) : Update(i, [draft.options[i] EXCEPT !.description = t])

UpdateDefault(i) ==
  \E d \in IF draft.options[i].type = "boolean" THEN {Switch(TRUE), Switch(FALSE)}
                                               ELSE Texts(Words) :
    Update(i, [draft.options[i] EXCEPT !.default = d])

UpdateType(i) == \E type \in Types : Update(i, ChangeType(draft.options[i], type))

\* Places of a list, each once, the first of them first.
InOrder(S) ==
  CHOOSE s \in [1 .. Cardinality(S) -> S] :
    /\ \A x \in S : \E i \in DOMAIN s : s[i] = x
    /\ \A i, j \in DOMAIN s : i < j => s[i] < s[j]

\* The field of the choices is read at every key: pieces between commas, trimmed, blanks left out.
Split(pieces) ==
  LET kept == InOrder({k \in DOMAIN pieces : ~IsBlank(pieces[k])})
  IN [n \in DOMAIN kept |-> Trim(pieces[kept[n]])]

UpdateChoices(i, pieces) ==
  /\ draft.options[i].type = "select"
  /\ Edit([draft.options EXCEPT ![i].choices = Split(pieces)])
  /\ typed' = <<i, pieces>>

RemoveOption(i) == Edit(RemoveAt(draft.options, i)) /\ typed' = <<>>

EditCleanup ==
  /\ edits < MaxEdits
  /\ \/ draft' = [draft EXCEPT !.residual = ~@]
     \/ draft.residual /\ \E t \in Texts({"", "a"}) : draft' = [draft EXCEPT !.cleanup = t]
  /\ edits' = edits + 1 /\ verdict' = "none"
  /\ UNCHANGED <<typed, stored>>

-----------------------------------------------------------------------------
(* The check of the page and what it sends. *)

NamesDiffer(options) ==
  \A i, j \in DOMAIN options : Trim(options[i].name) = Trim(options[j].name) => i = j

\* validateTargetDraft looks at the texts as they stand in the form.
FormAccepts(c) ==
  /\ c.residual => ~IsBlank(c.cleanup)
  /\ Len(c.options) <= MaxOptions /\ NamesDiffer(c.options)
  /\ \A i \in DOMAIN c.options : LET o == c.options[i] IN
       /\ o.name.word \in ValidNames /\ ~IsBlank(o.description)
       /\ o.default.kind = (IF o.type = "boolean" THEN "boolean" ELSE "text")
       /\ o.type # "select" => o.choices = <<>>
       /\ o.type = "select" =>
            /\ o.choices # <<>> /\ IsInjective(o.choices) /\ o.default \in ToSet(o.choices)
            /\ \A k \in DOMAIN o.choices : ~IsBlank(o.choices[k])

\* The name, the description and the choices are trimmed, the default is not.
SaveRevisionPayload(c) ==
  Content([i \in DOMAIN c.options |->
             [c.options[i] EXCEPT !.name = Trim(@), !.description = Trim(@), !.choices = Split(@)]],
          c.residual, IF c.residual THEN Trim(c.cleanup) ELSE NoWords)

-----------------------------------------------------------------------------
(* The request schema and the model. *)

\* A default is a string or a boolean in the schema; the validator, which coerces, tries the
\* string first and turns a boolean into its word.
Coerce(c) == [c EXCEPT !.options =
                [i \in DOMAIN c.options |-> [c.options[i] EXCEPT !.default.kind = "text"]]]

SchemaAccepts(c) ==
  /\ Len(c.options) <= MaxOptions
  /\ \A i \in DOMAIN c.options : LET o == c.options[i] IN
       /\ ~(IsBlank(o.name) /\ ~o.name.padded)
       /\ ~(IsBlank(o.description) /\ ~o.description.padded)
       /\ o.type = "select" => o.choices # <<>>

ModelOption(o) ==
  [o EXCEPT !.name = Trim(@), !.description = Trim(@),
            !.choices = [k \in DOMAIN @ |-> Trim(@[k])]]

ModelAccepts(options) ==
  /\ NamesDiffer(options)
  /\ \A i \in DOMAIN options : LET o == ModelOption(options[i]) IN
       /\ o.name.word \in ValidNames /\ ~IsBlank(o.description)
       /\ o.default.kind = (IF o.type = "boolean" THEN "boolean" ELSE "text")
       /\ o.type # "select" => o.choices = <<>>
       /\ o.type = "select" =>
            /\ o.choices # <<>> /\ IsInjective(o.choices) /\ o.default \in ToSet(o.choices)
            /\ \A k \in DOMAIN o.choices : ~IsBlank(o.choices[k])

ValidContent(c) == ModelAccepts(c.options) /\ (c.residual => ~IsBlank(c.cleanup))

\* Seeded fault: names and descriptions are kept as they came.
StoredContentUntrimmed(c) ==
  [c EXCEPT !.cleanup = IF c.residual THEN @ ELSE NoWords]

StoredContent(c) ==
  [c EXCEPT !.options = [i \in DOMAIN @ |-> ModelOption(@[i])],
            !.cleanup = IF c.residual THEN @ ELSE NoWords]

\* What a request leaves out is taken from the current revision.
NextContent(current, patch, cleanupGiven) ==
  [patch EXCEPT !.cleanup = IF cleanupGiven THEN @ ELSE current.cleanup]

Receive(payload, cleanupGiven, refused) ==
  LET next == NextContent(stored, Coerce(payload), cleanupGiven)
      taken == SchemaAccepts(payload) /\ ValidContent(next)
  IN  /\ verdict' = IF taken THEN "saved" ELSE refused
      /\ stored' = IF taken THEN StoredContent(next) ELSE stored

\* The page saves; the form then shows what was stored.
Save ==
  IF FormAccepts(draft)
  THEN /\ Receive(SaveRevisionPayload(draft), draft.residual, "refused by the server")
       /\ draft' = (IF verdict' = "saved" THEN stored' ELSE draft)
       /\ typed' = (IF verdict' = "saved" THEN <<>> ELSE typed)
       /\ UNCHANGED edits
  ELSE /\ verdict' = "refused by the page"
       /\ UNCHANGED <<draft, typed, stored, edits>>

\* Another caller sends the same words without the page, with or without the clean-up.
SaveByCaller(cleanupGiven) ==
  Receive(draft, cleanupGiven, "refused to the caller") /\ UNCHANGED <<draft, typed, edits>>

\* The editor goes to another target and comes back.
Reload ==
  /\ draft' = stored /\ typed' = <<>> /\ verdict' = "none"
  /\ UNCHANGED <<stored, edits>>

\* The revision is copied onto a target: its content is checked once more.
CopyRevision ==
  /\ stored # NoRevision
  /\ verdict' = IF ValidContent(stored) THEN "copied" ELSE "copy refused"
  /\ UNCHANGED <<draft, typed, stored, edits>>

-----------------------------------------------------------------------------
(* The generator. *)

\* The value of an option, selected or default, is of its type and among its choices.
Admits(o, v) ==
  IF o.type = "boolean" THEN v.kind = "boolean"
  ELSE v.kind = "text" /\ (o.type = "select" => v \in ToSet(o.choices))

-----------------------------------------------------------------------------

Pieces == {<<Text("a", FALSE)>>, <<Text("a", FALSE), NoWords>>,
           <<Text("a", FALSE), Text("b", TRUE)>>, <<Text("b", FALSE), Text("b", FALSE)>>, <<NoWords>>}

Next ==
  \/ AddOption \/ EditCleanup \/ Save \/ Reload \/ CopyRevision
  \/ \E given \in BOOLEAN : SaveByCaller(given)
  \/ \E i \in DOMAIN draft.options :
       \/ UpdateName(i) \/ UpdateDescription(i) \/ UpdateDefault(i) \/ UpdateType(i)
       \/ RemoveOption(i)
       \/ \E pieces \in Pieces : UpdateChoices(i, pieces)

Spec == Init /\ [][Next]_vars

-----------------------------------------------------------------------------
(* Properties. *)

OptionLists == Seq([name : Texts(NameWords), type : Types, description : Texts({"", "a"}),
                    default : Texts(Words) \union {Switch(TRUE), Switch(FALSE),
                                                   Text("true", FALSE), Text("false", FALSE)},
                    choices : Seq(Texts(Words))])

(* Everything is of its type, and the editor never leaves an option with a default *)
(* of another type or with choices it does not show.                              *)
OptionsTypeOK ==
  /\ {draft.options, stored.options} \subseteq OptionLists
  /\ \A i \in DOMAIN draft.options : LET o == draft.options[i] IN
       /\ (o.type = "boolean") = (o.default.kind = "boolean")
       /\ o.type # "select" => o.choices = <<>>
  /\ verdict \in {"none", "saved", "copied", "copy refused", "refused by the page",
                  "refused by the server", "refused to the caller"}
  /\ edits \in 0 .. MaxEdits

(* Whatever was stored, a script can be generated from it: with no option selected, *)
(* with any choice of a select, with any text.                                      *)
StoredResolves ==
  \A i \in DOMAIN stored.options : LET o == stored.options[i] IN
    /\ Admits(o, o.default)
    /\ \A k \in DOMAIN o.choices : Admits(o, o.choices[k])

(* What was stored can be stored again: the page lets it through with the same  *)
(* options, the server keeps it as it is, and it can be copied to a new target. *)
StoredSavesAgain ==
  stored # NoRevision =>
    /\ FormAccepts(stored) /\ SaveRevisionPayload(stored).options = stored.options
    /\ ValidContent(stored) /\ StoredContent(stored) = stored
    /\ verdict # "copy refused"

(* Both: what is stored can be used and stored again. *)
StoredOptionsWork == StoredResolves /\ StoredSavesAgain

(* The page promises to stop what cannot be saved: a list without a switch that *)
(* passes its checks is not refused by the server.                              *)
FormStopsWhatIsRefused ==
  (\A i \in DOMAIN draft.options : draft.options[i].type # "boolean") =>
    ~(verdict = "refused by the server" /\ FormAccepts(draft))

(* A switch is one of the three types an option may have: a list of switches that *)
(* passes the checks of the page is stored.                                       *)
SwitchesCanBeSaved ==
  (\A i \in DOMAIN draft.options : draft.options[i].type = "boolean") =>
    ~(verdict = "refused by the server" /\ FormAccepts(draft))

(* The choices are written one after the other with commas between them: the *)
(* field still shows the place for the next choice after its comma is typed. *)
CommaOpensPlace ==
  typed # <<>> => Len(draft.options[typed[1]].choices) = Len(typed[2])

=============================================================================

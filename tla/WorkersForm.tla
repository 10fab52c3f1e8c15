---------------------------- MODULE WorkersForm ----------------------------
(***************************************************************************)
(* The page that edits a worker (internal/server/resources/static/js/      *)
(* workers-form.js) and the parsing of what it posts (internal/services/   *)
(* worker/worker_params.go, worker_manager.go).                            *)
(*                                                                         *)
(* The form has one element per export or import of the worker.  Its       *)
(* fields are named with an index that a counter of the script gives to    *)
(* every element that is connected; the server puts fields with the same   *)
(* index together.  The item of an export is selected in a dialog that all *)
(* elements share: a promise of the element that opened it last is settled *)
(* by the selection.  The dialog lists what the server finds for its       *)
(* filter, asked for 200 ms after the last key: the script hears of keys   *)
(* that go up in the input, and of nothing else that changes it.           *)
(*                                                                         *)
(* A row is its index and one value, for an export the item that was       *)
(* selected, for an import what was typed.  The user does not leave the    *)
(* page while a post is on its way.                                        *)
(***************************************************************************)
EXTENDS SequencesExt, Integers

CONSTANTS
  Values,    \* items, or texts that the server accepts
  NoValue,   \* an empty field
  Queries,   \* filters
  NoQuery,   \* the filter is empty
  Found,     \* query -> the items that the server finds
  Radix,     \* 10: indices are compared as numerals
  MaxRows,   \* bound on the rows of the page
  MaxIdx,    \* bound on the counter
  MaxFetch   \* bound on the searches that are on their way

ASSUME FormAssumption ==
  /\ NoValue \notin Values /\ NoQuery \notin Queries
  /\ Found \in [Queries \union {NoQuery} -> SUBSET Values]
  /\ Radix \in Nat \ {0, 1} /\ MaxIdx \in 1..(Radix * Radix - 1)
  /\ MaxRows \in Nat /\ MaxFetch \in Nat

VARIABLES
  kind,      \* type of the worker that is edited
  rows,      \* elements of the form, in their order
  counter,   \* the script's counter
  dialog,    \* "none", "hidden", "shown" or "detached"
  waiter,    \* index of the row whose promise the dialog holds, or 0
  filter,    \* what is in the dialog's input
  timer,     \* the debounced handler is to run
  fetches,   \* searches on their way, the oldest first: [query, overtaken]
  shown,     \* query whose results are listed, or Nothing
  post,      \* the type and rows that were posted and are not answered yet
  saved,     \* config of the worker in the database, and its type
  stale,     \* history: no search yet, or the newest one failed or was overtaken
             \* by the answer to an older one
  unasked    \* history: the input was changed when no search was to come, and since
             \* then no key went up in it

page == <<kind, rows, counter>>
search == <<filter, timer, fetches, shown, stale, unasked>>
vars == <<page, dialog, waiter, search, post, saved>>

Kinds == {"exporter", "importer"}
Nothing == "nothing"
NoPost == [state |-> "none", kind |-> "none", rows |-> <<>>]
Listed == IF shown = Nothing THEN {} ELSE Found[shown]

Init ==
  /\ kind = "none" /\ rows = <<>> /\ counter = 1
  /\ dialog = "none" /\ waiter = 0
  /\ filter = NoQuery /\ timer = FALSE /\ fetches = <<>>
  /\ shown = Nothing /\ stale = TRUE /\ unasked = FALSE
  /\ post = NoPost
  /\ saved = [kind |-> "none", config |-> <<>>]

-----------------------------------------------------------------------------
\* Elements.

\* Mutant: each element counts for itself.
RowsFromOne(n, values) ==
  [i \in 1..Len(values) |-> [idx |-> i, value |-> values[i]]]

\* Mutant: the counter is raised before it is read.
RowsRaised(n, values) ==
  [i \in 1..Len(values) |-> [idx |-> n + i, value |-> values[i]]]

\* connectedCallback of elements with these values, when the counter is n.
Rows(n, values) ==
  [i \in 1..Len(values) |-> [idx |-> n + i - 1, value |-> values[i]]]

\* The elements in the form are replaced.
Render(n, values) ==
  /\ n + Len(values) - 1 <= MaxIdx
  /\ rows' = Rows(n, values)
  /\ counter' = n + Len(values)

\* Another type is chosen: its fields come with one empty element.
ChangeType(k) ==
  /\ k # kind
  /\ kind' = k
  /\ Render(counter, <<NoValue>>)
  /\ UNCHANGED <<dialog, waiter, search, post, saved>>

Add ==
  /\ kind \in Kinds
  /\ Len(rows) < MaxRows /\ counter <= MaxIdx
  /\ rows' = rows \o Rows(counter, <<NoValue>>)
  /\ counter' = counter + 1
  /\ UNCHANGED <<kind, dialog, waiter, search, post, saved>>

Del(i) ==
  /\ rows' = RemoveAt(rows, i)
  /\ UNCHANGED <<kind, counter, dialog, waiter, search, post, saved>>

\* The user types into a field of an import.
Type(i, v) ==
  /\ kind = "importer"
  /\ rows' = [rows EXCEPT ![i].value = v]
  /\ UNCHANGED <<kind, counter, dialog, waiter, search, post, saved>>

-----------------------------------------------------------------------------
\* The dialog.

\* selectItem: the dialog is made when it is needed first; a promise it still
\* held is forgotten.  A dialog that is no longer in the page stays invisible.
Sel(i) ==
  /\ kind = "exporter" /\ dialog # "shown"
  /\ dialog' = IF dialog = "detached" THEN "detached" ELSE "shown"
  /\ waiter' = rows[i].idx
  /\ UNCHANGED <<page, search, post, saved>>

\* complete: the promise of the row that waits is resolved.  The row may have
\* gone; then nobody sees the item.
Select(v) ==
  /\ dialog = "shown" /\ v \in Listed
  /\ rows' = [i \in DOMAIN rows |->
                IF rows[i].idx = waiter THEN [rows[i] EXCEPT !.value = v] ELSE rows[i]]
  /\ waiter' = 0
  /\ dialog' = "hidden"
  /\ UNCHANGED <<kind, counter, search, post, saved>>

Cancel ==
  /\ dialog = "shown"
  /\ waiter' = 0
  /\ dialog' = "hidden"
  /\ UNCHANGED <<page, search, post, saved>>

\* The input changes: by a key that goes down, or by the mouse (a paste, a text
\* that is dropped, a suggestion of the browser).  The script does not hear of it.
Fill(q) ==
  /\ dialog = "shown" /\ q # filter
  /\ filter' = q
  /\ unasked' = ~timer
  /\ UNCHANGED <<page, dialog, waiter, timer, fetches, shown, stale, post, saved>>

\* Mutant: a key that goes up while a search is on its way starts no timer.
KeyUpOnce ==
  /\ dialog = "shown"
  /\ timer' = (timer \/ fetches = <<>>)
  /\ unasked' = FALSE
  /\ UNCHANGED <<page, dialog, waiter, filter, fetches, shown, stale, post, saved>>

\* A key goes up in the input: debounce runs the handler 200 ms after the last.
KeyUp ==
  /\ dialog = "shown"
  /\ timer' = TRUE
  /\ unasked' = FALSE
  /\ UNCHANGED <<page, dialog, waiter, filter, fetches, shown, stale, post, saved>>

\* The handler asks for what is in the input now.
Search ==
  /\ timer /\ Len(fetches) < MaxFetch
  /\ timer' = FALSE
  /\ fetches' = Append(fetches, [query |-> filter, overtaken |-> FALSE])
  /\ UNCHANGED <<page, dialog, waiter, filter, shown, stale, unasked, post, saved>>

\* A search is over; those before it are overtaken.
Over(i) ==
  fetches' = RemoveAt([j \in DOMAIN fetches |->
                         [fetches[j] EXCEPT !.overtaken = @ \/ j < i]], i)

\* An answer replaces the list, also one that a newer answer has overtaken.
Answer(i) ==
  /\ Over(i)
  /\ shown' = fetches[i].query
  /\ stale' = fetches[i].overtaken
  /\ UNCHANGED <<page, dialog, waiter, filter, timer, unasked, post, saved>>

\* The request fails: the list stays as it is.
AnswerFails(i) ==
  /\ Over(i)
  /\ stale' = (stale \/ ~fetches[i].overtaken)
  /\ UNCHANGED <<page, dialog, waiter, filter, timer, shown, unasked, post, saved>>

-----------------------------------------------------------------------------
\* The post.

\* sort.Strings: numerals, digit by digit.
Leading(n) == IF n < Radix THEN n ELSE n \div Radix
Before(n, m) == Leading(n) < Leading(m) \/ (Leading(n) = Leading(m) /\ n < m)

\* ParseWorkerParams: the fields with one index make one config, the first of
\* two with the same name wins.  Exports are sorted by the index, imports come
\* in the order of a Go map.
Indices(ps) == {ps[i].idx : i \in DOMAIN ps}

FirstWith(ps, x) ==
  CHOOSE i \in DOMAIN ps : ps[i].idx = x /\ \A j \in 1..(i - 1) : ps[j].idx # x

Parsed(ps, order) == [i \in DOMAIN order |-> ps[FirstWith(ps, order[i])].value]

Orders(k, ps) ==
  {order \in SetToSeqs(Indices(ps)) :
     k = "exporter" => \A i, j \in DOMAIN order : i < j => Before(order[i], order[j])}

Valid(config) == Len(config) > 0 /\ \A i \in DOMAIN config : config[i] # NoValue

Submit ==
  /\ post = NoPost /\ kind \in Kinds
  /\ post' = [state |-> "sent", kind |-> kind, rows |-> rows]
  /\ UNCHANGED <<page, dialog, waiter, search, saved>>

\* The server saves the worker; its answer is to go to the worker's page.
Save ==
  /\ post.state = "sent"
  /\ \E order \in Orders(post.kind, post.rows) :
       /\ Valid(Parsed(post.rows, order))
       /\ saved' = [kind |-> post.kind, config |-> Parsed(post.rows, order)]
  /\ post' = [post EXCEPT !.state = "saved"]
  /\ UNCHANGED <<page, dialog, waiter, search>>

\* HX-Location: the body is replaced by the worker's page.  The script lives
\* on, the dialog is no longer in the document.
Located ==
  /\ post.state = "saved"
  /\ kind' = saved.kind
  /\ Render(counter, saved.config)
  /\ dialog' = IF dialog = "none" THEN "none" ELSE "detached"
  /\ post' = NoPost
  /\ UNCHANGED <<waiter, search, saved>>

\* The server refuses the post, for a value, an empty key or another field of the
\* worker; the form comes back as it was parsed.
Refused ==
  /\ post.state = "sent"
  /\ \E order \in Orders(post.kind, post.rows) :
       Render(counter, Parsed(post.rows, order))
  /\ kind' = post.kind
  /\ post' = NoPost
  /\ UNCHANGED <<dialog, waiter, search, saved>>

\* The post, or the answer to it, is lost: the page stays as it is.
PostFails ==
  /\ post # NoPost
  /\ post' = NoPost
  /\ UNCHANGED <<page, dialog, waiter, search, saved>>

\* The page is loaded again, and the script with it; also by the Enter key in
\* the dialog, whose form has no handler.
Reload ==
  /\ post = NoPost /\ saved.kind # "none"
  /\ kind' = saved.kind
  /\ Render(1, saved.config)
  /\ dialog' = "none" /\ waiter' = 0
  /\ filter' = NoQuery /\ timer' = FALSE /\ fetches' = <<>>
  /\ shown' = Nothing /\ stale' = TRUE /\ unasked' = FALSE
  /\ UNCHANGED <<post, saved>>

Edit ==
  \/ \E k \in Kinds : ChangeType(k)
  \/ Add
  \/ \E i \in DOMAIN rows :
       Del(i) \/ Sel(i) \/ \E v \in Values \union {NoValue} : Type(i, v)

Dialog ==
  \/ \E v \in Values : Select(v)
  \/ Cancel
  \/ \E q \in Queries \union {NoQuery} : Fill(q)
  \/ KeyUp
  \/ Search
  \/ \E i \in DOMAIN fetches : Answer(i) \/ AnswerFails(i)

Next == Edit \/ Dialog \/ Submit \/ Save \/ Located \/ Refused \/ PostFails \/ Reload

Spec == Init /\ [][Next]_vars

-----------------------------------------------------------------------------
\* Properties.

RowSet == [idx : 1..MaxIdx, value : Values \union {NoValue}]

\* The elements and what was posted are rows, and the promise of the dialog is
\* one of an element that the script has numbered.
TypeOK ==
  /\ kind \in Kinds \union {"none"} /\ counter \in 1..(MaxIdx + 1)
  /\ rows \in Seq(RowSet) /\ post.rows \in Seq(RowSet)
  /\ dialog \in {"none", "hidden", "shown", "detached"}
  /\ waiter \in 0..(counter - 1)
  /\ filter \in Queries \union {NoQuery} /\ timer \in BOOLEAN
  /\ stale \in BOOLEAN /\ unasked \in BOOLEAN
  /\ fetches \in Seq([query : Queries \union {NoQuery}, overtaken : BOOLEAN])
  /\ shown \in Queries \union {NoQuery, Nothing}
  /\ post.state \in {"none", "sent", "saved"}
  /\ saved.kind \in Kinds \union {"none"} /\ saved.config \in Seq(Values)

\* When no search is to come, the dialog lists what the server finds for its
\* filter: the debounced handler reads the input when it runs, so what is in it
\* when the last key goes up is never lost.  Excepted are a newest search that
\* failed, or whose results were replaced by those of an older one (fetch has no
\* cancellation), and a change of the input that no key has followed: the script
\* listens to keyup alone, so a text pasted with the mouse is not searched for.
ResultsForFilter ==
  (~timer /\ fetches = <<>>) => (shown = filter \/ stale \/ unasked)

Entered(ps) == [i \in DOMAIN ps |-> ps[i].value]
Copies(s) == [v \in Values |-> Cardinality({i \in DOMAIN s : s[i] = v})]
SameDigits(ps) == \A i, j \in DOMAIN ps : (ps[i].idx < Radix) = (ps[j].idx < Radix)

\* A worker is saved with one config for each element that was in the form, and
\* with the values of that element: no two elements ever share an index, also
\* after additions, deletions, a refused post or a swapped page.  Exports keep
\* their order on the page as long as their indices have as many digits (the
\* server sorts them as strings); imports have none.
SavedAsShown ==
  [][saved' # saved =>
       /\ Copies(saved'.config) = Copies(Entered(post.rows))
       /\ post.kind = "exporter" /\ SameDigits(post.rows)
            => saved'.config = Entered(post.rows)]_vars
=============================================================================

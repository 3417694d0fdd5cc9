------------------------------ MODULE Numbering ------------------------------
(***************************************************************************)
(* The numbers of invoices and quotes, and the settings they are counted   *)
(* in: the create handlers of invoiceController and quoteController with   *)
(* increaseBySettingKey, the settings controller, the settings slice of a  *)
(* tab, the forms that suggest the next number (InvoiceForm, QuoteForm)    *)
(* and the form of the finance settings, which writes the counters back.   *)
(*                                                                         *)
(* A call is a record in a slot: the handler at the server takes one step  *)
(* per database call, the answer is taken by the tab, and effects of React *)
(* that follow from an answer run in the step that takes it.               *)
(***************************************************************************)
EXTENDS Integers, FiniteSets

CONSTANTS
    Kinds,          \* "invoice" and "quote"
    TypedNumbers,   \* numbers a user may type
    Tabs,           \* pages of the application that are open
    Calls,          \* slots for calls that are out
    MaxMade,        \* bound on the documents of each kind
    MaxOdd          \* bound on failures, reloads, typed numbers, saved settings

ASSUME NumberingAssumption ==
    /\ Kinds # {} /\ "home" \notin Kinds /\ "finance" \notin Kinds
    /\ Tabs # {} /\ IsFiniteSet(Calls)
    /\ TypedNumbers \subseteq Nat \ {0}
    /\ MaxMade \in [Kinds -> Nat] /\ MaxOdd \in Nat

VARIABLES
    counter,        \* last_invoice_number, last_quote_number in the database
    made,           \* how many documents of a kind were saved
    used,           \* their numbers
    pending,        \* increments that a creation has not awaited
    tab,            \* what each tab shows and holds
    call,           \* what each slot is doing
    odd,            \* failures, reloads, typed numbers and saved settings so far
    missed,         \* history: kinds whose counter was overwritten or missed one
    typed           \* history: kinds one of whose numbers came from a user

numberingVars == <<counter, made, used, pending, tab, call, odd, missed, typed>>

-----------------------------------------------------------------------------
\* page is the route; loaded is isSuccess of the slice, without which nothing
\* but the loader is rendered; slice is finance_settings; number is that of the
\* form of a new document, fields those of the finance settings form.
Tab == [page : Kinds \union {"home", "finance"}, loaded : BOOLEAN,
        loading : BOOLEAN, slice : [Kinds -> Nat],
        number : Nat, fields : [Kinds -> Nat]]

Stages == {"idle", "save", "name", "created", "refused",
           "list", "listed", "write", "written", "failed"}

Call == [pc : Stages, tab : Tabs, kind : Kinds, number : Nat,
         values : [Kinds -> Nat], todo : SUBSET Kinds]

Zeroes == [k \in Kinds |-> 0]

FreeCall == [pc |-> "idle", tab |-> CHOOSE t \in Tabs : TRUE,
             kind |-> CHOOSE k \in Kinds : TRUE, number |-> 0,
             values |-> Zeroes, todo |-> {}]

ListCall(t) == [FreeCall EXCEPT !.pc = "list", !.tab = t]

Free(c) == call[c].pc = "idle"

Goes(c, stage) == call' = [call EXCEPT ![c].pc = stage]

Odd == odd < MaxOdd /\ odd' = odd + 1

-----------------------------------------------------------------------------
(* The tab *)

\* A slip: the form takes the last number, not the one after it.
MountedLast(p) ==
    IF p.page \in Kinds THEN [p EXCEPT !.number = p.slice[p.page]] ELSE p

\* The page of the route is rendered: a form for a new document takes the
\* number after the last one once, the settings form takes what is loaded.
Mounted(p) ==
    CASE p.page \in Kinds    -> [p EXCEPT !.number = p.slice[p.page] + 1]
      [] p.page = "finance" -> [p EXCEPT !.fields = p.slice]
      [] OTHER              -> p

\* REQUEST_SUCCESS.  A page that was behind the loader is rendered anew; a
\* form for a new document that was not keeps its number.
Loaded(p, values) ==
    LET q == [p EXCEPT !.slice = values, !.loaded = TRUE, !.loading = FALSE]
    IN  IF p.loaded /\ p.page \in Kinds THEN q ELSE Mounted(q)

\* REQUEST_FAILED: isSuccess is cleared, and the whole application gives way
\* to the loader.
Unloaded(p) == [p EXCEPT !.loaded = FALSE, !.loading = FALSE,
                         !.number = 0, !.fields = Zeroes]

\* A page for a new document asks for the settings when it is mounted.
Asks(p) == p.page \in Kinds

\* Through the menu, or back from a page.
Visit(t, c, page) ==
    /\ tab[t].loaded /\ Free(c)
    /\ LET p == Mounted([tab[t] EXCEPT !.page = page, !.number = 0, !.fields = Zeroes])
       IN  IF Asks(p)
           THEN /\ tab' = [tab EXCEPT ![t] = [p EXCEPT !.loading = TRUE]]
                /\ call' = [call EXCEPT ![c] = ListCall(t)]
           ELSE /\ tab' = [tab EXCEPT ![t] = p]
                /\ UNCHANGED call
    /\ UNCHANGED <<counter, made, used, pending, odd, missed, typed>>

\* The application is loaded again: an empty slice, and a list is asked for.
\* What the old page had asked for goes unheard.
Reload(t, c) ==
    /\ Odd
    /\ Free(c)
    /\ tab' = [tab EXCEPT ![t] = [Unloaded(tab[t]) EXCEPT !.slice = Zeroes,
                                                          !.loading = TRUE]]
    /\ call' = [d \in Calls |->
                  IF d = c THEN ListCall(t)
                  ELSE IF call[d].tab = t /\ call[d].pc \in {"created", "refused",
                             "list", "listed", "written", "failed"}
                  THEN FreeCall ELSE call[d]]
    /\ UNCHANGED <<counter, made, used, pending, missed, typed>>

\* The user types another number: at least 1, and any document's.
TypeNumber(t, n) ==
    /\ Odd
    /\ tab[t].loaded /\ tab[t].page \in Kinds
    /\ tab' = [tab EXCEPT ![t].number = n]
    /\ typed' = typed \union {tab[t].page}
    /\ UNCHANGED <<counter, made, used, pending, call, missed>>

\* Save.  The form stays until the answer is taken.
Submit(t, c) ==
    /\ tab[t].loaded /\ tab[t].page \in Kinds
    /\ Free(c)
    /\ made[tab[t].page] < MaxMade[tab[t].page]
    /\ call' = [call EXCEPT ![c] =
           [FreeCall EXCEPT !.pc = "save", !.tab = t, !.kind = tab[t].page,
                            !.number = tab[t].number]]
    /\ UNCHANGED <<counter, made, used, pending, tab, odd, missed, typed>>

\* The settings form sends every field it has, touched or not.  A spinner
\* covers it while the slice is loading.
SubmitFinance(t, c, values) ==
    /\ tab[t].loaded /\ ~tab[t].loading /\ tab[t].page = "finance"
    /\ Free(c)
    /\ Odd
    /\ typed' = typed \union {k \in Kinds : values[k] # tab[t].fields[k]}
    /\ tab' = [tab EXCEPT ![t].loading = TRUE, ![t].fields = values]
    /\ call' = [call EXCEPT ![c] =
           [FreeCall EXCEPT !.pc = "write", !.tab = t, !.values = values,
                            !.todo = Kinds]]
    /\ UNCHANGED <<counter, made, used, pending, missed>>

\* The form of the logo, on another page of the settings.  However its upload
\* ends at the server (Files), the answer is never a success, and the settings
\* that would be listed after one are not.
SubmitLogo(t, c) ==
    /\ tab[t].loaded /\ ~tab[t].loading /\ tab[t].page = "home"
    /\ Free(c)
    /\ Odd
    /\ tab' = [tab EXCEPT ![t].loading = TRUE]
    /\ call' = [call EXCEPT ![c] = [FreeCall EXCEPT !.pc = "failed", !.tab = t]]
    /\ UNCHANGED <<counter, made, used, pending, missed, typed>>

-----------------------------------------------------------------------------
(* The server *)

Save(c) == LET q == call[c] IN
    /\ q.pc = "save"
    /\ made[q.kind] < MaxMade[q.kind]
    /\ made' = [made EXCEPT ![q.kind] = @ + 1]
    /\ used' = [used EXCEPT ![q.kind] = @ \union {q.number}]
    /\ Goes(c, "name")
    /\ UNCHANGED <<counter, pending, tab, odd, missed, typed>>

\* A slip: the increment is made before the document is named, and again
\* after it.
NameTwice(c) == LET q == call[c] IN
    /\ q.pc = "name"
    /\ pending' = [pending EXCEPT ![q.kind] = @ + 2]
    /\ Goes(c, "created")
    /\ UNCHANGED <<counter, made, used, tab, odd, missed, typed>>

\* The name of its PDF is written, the increment is begun and not awaited.
Name(c) == LET q == call[c] IN
    /\ q.pc = "name"
    /\ pending' = [pending EXCEPT ![q.kind] = @ + 1]
    /\ Goes(c, "created")
    /\ UNCHANGED <<counter, made, used, tab, odd, missed, typed>>

\* The save or the write of the name fails: 500.  In the second case the
\* document is there and its number is not counted.
CreateFails(c) == LET q == call[c] IN
    /\ Odd
    /\ q.pc \in {"save", "name"}
    /\ missed' = IF q.pc = "name" THEN missed \union {q.kind} ELSE missed
    /\ Goes(c, "refused")
    /\ UNCHANGED <<counter, made, used, pending, tab, typed>>

\* A slip: a counter is increased though no creation asked for it.
IncreaseUnasked(k) ==
    /\ pending' = [pending EXCEPT ![k] = @ - 1]
    /\ counter' = [counter EXCEPT ![k] = @ + 1]
    /\ UNCHANGED <<made, used, tab, call, odd, missed, typed>>

Increase(k) ==
    /\ pending[k] > 0
    /\ pending' = [pending EXCEPT ![k] = @ - 1]
    /\ counter' = [counter EXCEPT ![k] = @ + 1]
    /\ UNCHANGED <<made, used, tab, call, odd, missed, typed>>

\* increaseBySettingKey swallows its errors.
IncreaseFails(k) ==
    /\ Odd
    /\ pending[k] > 0
    /\ pending' = [pending EXCEPT ![k] = @ - 1]
    /\ missed' = missed \union {k}
    /\ UNCHANGED <<counter, made, used, tab, call, typed>>

List(c) ==
    /\ call[c].pc = "list"
    /\ call' = [call EXCEPT ![c].pc = "listed", ![c].values = counter]
    /\ UNCHANGED <<counter, made, used, pending, tab, odd, missed, typed>>

\* One updateOne of the bulk write, which is no transaction.
Write(c, k) == LET q == call[c] IN
    /\ q.pc = "write" /\ k \in q.todo
    /\ counter' = [counter EXCEPT ![k] = q.values[k]]
    /\ missed' = IF counter'[k] = counter[k] THEN missed ELSE missed \union {k}
    /\ call' = [call EXCEPT ![c].todo = @ \ {k},
                            ![c].pc = IF q.todo = {k} THEN "written" ELSE "write"]
    /\ UNCHANGED <<made, used, pending, tab, odd, typed>>

\* A list or the rest of a bulk write fails, and what was written stays.
SettingsFail(c) ==
    /\ Odd
    /\ call[c].pc \in {"list", "write"}
    /\ Goes(c, "failed")
    /\ UNCHANGED <<counter, made, used, pending, tab, missed, typed>>

-----------------------------------------------------------------------------
(* The answers *)

\* A success leads to the page of the new document.
Created(c) == LET q == call[c] IN
    /\ q.pc = "created"
    /\ tab' = IF tab[q.tab].loaded /\ tab[q.tab].page \in Kinds
              THEN [tab EXCEPT ![q.tab].page = "home", ![q.tab].number = 0]
              ELSE tab
    /\ call' = [call EXCEPT ![c] = FreeCall]
    /\ UNCHANGED <<counter, made, used, pending, odd, missed, typed>>

\* The form stays as it is, to be sent again.
Refused(c) ==
    /\ call[c].pc = "refused"
    /\ call' = [call EXCEPT ![c] = FreeCall]
    /\ UNCHANGED <<counter, made, used, pending, tab, odd, missed, typed>>

\* A page that comes out from behind the loader asks for the settings again.
Listed(c) == LET q == call[c]
                 p == Loaded(tab[q.tab], q.values) IN
    /\ q.pc = "listed"
    /\ IF ~tab[q.tab].loaded /\ Asks(p)
       THEN /\ tab' = [tab EXCEPT ![q.tab] = [p EXCEPT !.loading = TRUE]]
            /\ call' = [call EXCEPT ![c] = ListCall(q.tab)]
       ELSE /\ tab' = [tab EXCEPT ![q.tab] = p]
            /\ call' = [call EXCEPT ![c] = FreeCall]
    /\ UNCHANGED <<counter, made, used, pending, odd, missed, typed>>

\* What was written is listed.
Written(c) == LET q == call[c] IN
    /\ q.pc = "written"
    /\ tab' = [tab EXCEPT ![q.tab].loading = TRUE]
    /\ call' = [call EXCEPT ![c] = ListCall(q.tab)]
    /\ UNCHANGED <<counter, made, used, pending, odd, missed, typed>>

Failed(c) == LET q == call[c] IN
    /\ q.pc = "failed"
    /\ tab' = [tab EXCEPT ![q.tab] = Unloaded(@)]
    /\ call' = [call EXCEPT ![c] = FreeCall]
    /\ UNCHANGED <<counter, made, used, pending, odd, missed, typed>>

\* An answer is lost on its way: the tab takes it for a failure.
Lost(c) ==
    /\ Odd
    /\ call[c].pc \in {"created", "listed", "written"}
    /\ Goes(c, IF call[c].pc = "created" THEN "refused" ELSE "failed")
    /\ UNCHANGED <<counter, made, used, pending, tab, missed, typed>>

-----------------------------------------------------------------------------
FreshTab == [page |-> "home", loaded |-> TRUE, loading |-> FALSE, slice |-> Zeroes,
             number |-> 0, fields |-> Zeroes]

\* After set-up, each tab with its settings loaded.
NumberingInit ==
    /\ counter = Zeroes /\ made = Zeroes /\ pending = Zeroes
    /\ used = [k \in Kinds |-> {}]
    /\ tab = [t \in Tabs |-> FreshTab]
    /\ call = [c \in Calls |-> FreeCall]
    /\ odd = 0
    /\ missed = {} /\ typed = {}

Entries(t) == {tab[t].fields} \union
    {[tab[t].fields EXCEPT ![k] = n] : k \in Kinds, n \in TypedNumbers}

User(t) ==
    \/ \E n \in TypedNumbers : TypeNumber(t, n)
    \/ \E c \in Calls :
           \/ \E page \in Kinds \union {"home", "finance"} : Visit(t, c, page)
           \/ Reload(t, c)
           \/ Submit(t, c) \/ SubmitLogo(t, c)
           \/ \E values \in Entries(t) : SubmitFinance(t, c, values)

Serve(c) ==
    \/ Save(c) \/ Name(c) \/ List(c)
    \/ \E k \in Kinds : Write(c, k)
    \/ CreateFails(c) \/ SettingsFail(c)

Take(c) ==
    \/ Created(c) \/ Refused(c) \/ Listed(c) \/ Written(c) \/ Failed(c)
    \/ Lost(c)

NumberingNext ==
    \/ \E t \in Tabs : User(t)
    \/ \E c \in Calls : Serve(c) \/ Take(c)
    \/ \E k \in Kinds : Increase(k) \/ IncreaseFails(k)

NumberingSpec == NumberingInit /\ [][NumberingNext]_numberingVars
-----------------------------------------------------------------------------
NumberingTypeOK ==
    /\ counter \in [Kinds -> Nat] /\ made \in [Kinds -> Nat]
    /\ used \in [Kinds -> SUBSET Nat] /\ pending \in [Kinds -> Nat]
    /\ tab \in [Tabs -> Tab]
    /\ call \in [Calls -> Call]
    /\ odd \in Nat
    /\ missed \subseteq Kinds /\ typed \subseteq Kinds

Naming(k) == {c \in Calls : call[c].pc = "name" /\ call[c].kind = k}

Unnamed(k) == Cardinality(Naming(k))

\* The counter, the increments nobody awaits and the documents still without
\* one add up to the documents that were made, however creations, lists and
\* settings forms overlap, unless an increment failed or a settings form wrote
\* another value over the counter.
CountersKeepUp ==
    \A k \in Kinds \ missed : counter[k] + pending[k] + Unnamed(k) = made[k]

\* No road makes a number larger than the count of the documents, unless a
\* user typed one: neither stale forms, nor forms sent twice, nor counters
\* written back.  So the number after that count is always free.
NumbersInReach ==
    \A k \in Kinds \ typed :
        /\ used[k] \subseteq 1 .. made[k]
        /\ \A t \in Tabs : tab[t].page = k => tab[t].number <= made[k] + 1
=============================================================================

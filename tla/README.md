# A model of the invoicing application

The repository is IDURAR, an invoicing and customer application: an Express
and Mongoose API over MongoDB (`src/backend/src`) and a React, Redux and Ant
Design browser application (`src/frontend/src`). This directory holds TLA+
modules of its parts, TLC runs that check them on small instances, and proofs
that TLAPS checks for every instance. Paths below are relative to the
repository; `B` stands for `src/backend/src` and `F` for `src/frontend/src`.

## The system

| part | state | operations | depends on |
|---|---|---|---|
| invoices and payments (`B/controllers/appControllers/invoiceController`, `paymentController`) | the Invoice and Payment collections | create, update, remove an invoice; create, update, remove a payment; the summary | each payment handler also writes the invoice's credit, status and list |
| default tax, default payment mode (`taxesController`, `paymentModeController`) | `isDefault` and `enabled` of every document | create, update (delete answers 403) | every write also clears or moves the default elsewhere in the collection |
| administrators (`createAuthMiddleware`, `createUserController`, `adminController`) | Admin, AdminPassword with `loggedSessions` and `resetToken` | login, logout, forgotten password, reset, change of password, check of a token | a token is checked on every call of the API |
| collections without rules (`createCRUDController`) | a collection of clients, taxes, modes | create, read, update, delete, list, search, filter | called by the collection pages |
| quotes (`quoteController`) | the Quote collection | like an invoice without payments; conversion and mail are stubs | numbers, totals |
| settings and numbering (`settingController`, `middlewares/settings`) | one document per setting, the last numbers among them | list, update one or many, increase | creating an invoice or a quote increases a number without awaiting it; the settings forms write the counters back |
| browser session (`F/redux/auth`, `F/request`, `F/router`, `F/apps`) | the redux store, `localStorage` keys `auth` and `isLogout`, the Authorization header of axios | login, logout, profile update, any request, page load | `localStorage` is shared by the tabs; the error handler sends a rejected tab to the login page |
| collection pages (`F/redux/crud`, `F/context/crud`, `F/modules/CrudModule`, `F/components`) | the `crud` slice, the panel context, forms | open and close the panel, read, edit, delete, create, list | one slice for all pages; answers arrive in any order |
| invoice, quote and payment pages (`F/redux/erp`, `F/modules/ErpPanelModule`) | the `erp` slice, the route, the forms of the pages | list, read, update, create, record a payment, delete, dashboard links | one slice for all pages, and the route it must agree with |
| search field, asynchronous selects (`F/components/SearchItem`, `AutoCompleteAsync`, `SelectAsync`, `F/hooks`) | options, a debounce timer, a form value | type, search, choose, clear | the `search` key of the slice, the search controller |
| totals (`F/modules/*/Forms`, `ItemRow`, `F/utils/calculate.js`, `B/helpers.js`) | rows, subtotal, tax and total of a form; those of a document | edit, add and remove rows, choose a tax, save | added up once in the browser and once at the server |
| files (`B/controllers/pdfController`, `downloadHandler`, `uploadMiddleware`) | one PDF per document, the uploaded images | download, upload a photo or the logo | a renderer of its own process; the administrator and the setting name an image |
| dashboard (`F/modules/DashboardModule`, the `summary.js` handlers) | the cards | ask, count, show | several aggregates over collections that change meanwhile |
| set-up scripts (`B/setup`) | every collection that must not be empty | set up, reset | run by an operator |
| locale, layout, monitoring | see `PROJECT.json` | | |

Where it is hard:

* The API keeps no locks and uses no transactions. Every `await` on Mongoose is
  a point at which other requests run, and a handler of several calls can stop
  between any two of them. Credits, defaults and sessions are all kept by such
  handlers.
* A call of the database can fail at any point. `catchErrors` answers 400 or
  500 and leaves what was written; a rejection nobody awaits ends the process,
  since no handler is installed for it and the compose file restarts nothing.
* The browser keeps one slice per kind of page, while requests of several
  pages, and of several visits of one page, are out together; the reducers
  take answers as they come.
* Tabs share `localStorage`, but each has a store and an Authorization header
  of its own.

`PROJECT.json` lists each hazard at its line with the properties that would
notice it going wrong, or the reason none does.

## Modules

| module | models | abstract specification, proofs |
|---|---|---|
| `Ledger` | invoice and payment handlers, one action per database call, the locals of a handler in its request slot, failing calls | refines `LedgerBook`; `LedgerProofs` |
| `LedgerBook` | what the payment API promises, entries made, corrected and struck once, and what an update without an amount does besides | |
| `Sums` | the sum of a function over a set: the `$sum` of the aggregates and the loops over rows | `SumsProofs` |
| `DefaultFlag` | the handlers of taxes and payment modes (the two controllers are the same but for names) | `DefaultFlagProofs` |
| `AdminAuth` | sign-in, sign-out, reset links, passwords, the check of a token | `AdminAuthProofs` |
| `BrowserSession` | tabs, their stored session and header, the answers to their calls, moves between pages | `BrowserSessionProofs` |
| `CrudPanel` | a collection page, its slice and context, its requests in flight and the controllers that serve them | `CrudPanelProofs` |
| `ErpPages` | the pages of invoices and quotes, their slice, the route, the calls that are out | `ErpPagesProofs` |
| `Numbering` | the counters of invoices and quotes, their creation, the settings slice and the forms that read and write the counters | `OfficeProofs` |
| `Lookups` | the two fields that search while the user types, their timer and the searches that are out | `OfficeProofs` |
| `Totals` | the form of an invoice or quote with its rows, tax and totals, and what the server adds up again | `OfficeProofs` |
| `Files` | downloads with their renderer, uploads of a photo or a logo, the process that ends and is started again | `OfficeProofs` |
| `Setup` | the scripts that fill and empty the database, insert by insert | `OfficeProofs` |
| `Summaries` | the cards of the dashboard and the aggregates behind them | `OfficeProofs` |

Each `MC…` module gives the constants of a module for TLC. Definitions marked
as slips (a handler with a call dropped, reordered or mistyped) are not part of
a specification: they show that a property would notice them.

### Ledger

`invoice` and `payment` are the collections, `req[r]` is what one request being
served has read and what it does next. `InvoiceUpdateRead` then
`InvoiceUpdateWrite`, `PaymentCreateRead`, `Insert`, `Post`, and so on, follow
the `await`s of the handlers; the guards are their early returns and the
`removed: false` filters of their queries. Population of `invoice` in a payment
is a separate call, as Mongoose makes it. `RequestFail` is a call that rejects:
the handler stops and answers. `posted`, `waived` and `lost` are history: the net
amount that requests have added to a credit for a payment, how much of that
updates without an amount took off again, and the payments that a failed request
was working on.

The body of an update may carry no amount (`None`): the handler refuses 0 and
takes what is absent for 0, so the payment keeps its amount (`Written`) and the
credit loses all of it. Credit and payments part, and `LedgerAgrees`,
`DashboardAddsUp` and `Accounted` say by how much: by `waived`, and by nothing
else. In the book it is a step of its own, `Waive`.

Amounts are whole numbers. A discount is always 0, because the Joi schema of the
bodies rejects the field. The cascade of a removal over payments is one
`updateMany`, modelled as atomic. `Exclusive` is an assumption about the people
who use the application: no two requests at a time write one payment. It is off
in the run that shows what happens without it. `MaxCredit` stops requests once
credits are large, `MaxWaived` updates without an amount once much was waived of
the payment, and `MaxFailures` bounds failing calls.

### DefaultFlag

`Seed` is the document that `setup.js` inserts. The handlers read, clear the
other defaults (`updateMany`), set their own, and on some roads look for a
document to restore; the query that looks takes the first match in an order the
code does not fix, which is a choice in the model. Bodies are a default flag and
an enabled flag that may each be absent.

### AdminAuth

An administrator has a password, sessions, a reset link and a state. A token is
the record of an account, the second it was issued and its life: two of the same
second are equal, as JWTs of equal payload are. `Crash` is the rejection of the
`authUser` promise that `login` does not await. Reads that fail and profile
fields are left out; accounts are put in by the operator, since only `setup.js`
creates them.

### BrowserSession

A tab has a store, a header and calls that are out; the server is the set of
tokens it accepts, and may drop one at any moment. A call is answered, rejected
or lost; each answer runs the code of its action and of `errorHandler`. A page
load forgets the calls of the page before it. A login through a reset link
counts as a login. `MaxOdd` bounds, per tab, profile updates, reloads and lost
calls.

### CrudPanel

One entity with its panel, forms, modal and table. Effects of React that follow
from an answer run in the step of the answer, since React runs them before the
next event. A user clicks only what is visible and not masked by the modal or the
drawer. A request in flight is a record that the server serves and that is
answered later, in any order; `MaxCalls` bounds them, `MaxFailures` those that
are lost. A filter stands for paging, sorting and search text. The search field
and the advanced box, which no page opens, are left out.

### ErpPages

`app` is one record: the keys of the slice, the route, the modal of the list and
how many calls of each kind are out. The reducer's cases (`ResetAction`,
`CurrentAction`, `Succeeded`, ...) and the pages that mount (`OpenList`,
`OpenUpdate`, ...) are functions from a state to a state, and a step composes
them in the order of the code: a handler, a navigation, the effects of the page
that is mounted, and those of the page they lead to. `Answer` ends one call;
what the server says is left open, since other users change the documents
between any two calls, so a document is its identifier and a list any set of
them. `stray` is history: the last document the page took is not the one of its
route, which happens when the read of one document is answered on the page of
another. The user clicks what the page shows, and moves back and forward to any
page. `MaxOut` is the number of calls out at which the user waits. Quote pages
are the same modules with another name and no payments. The payment's own update
page, mails, conversion and search are left out.

### Numbering

`counter` is `last_invoice_number` and `last_quote_number` in the database,
`made` counts the documents and `used` has their numbers. A tab is on the page of
a new invoice, of a new quote, on the form of the finance settings, or elsewhere;
`slice` is its copy of the settings, `number` and `fields` are what the forms
hold. A call goes through the handler one database call at a time: `Save`, then
`Name` (the name of the PDF, and the increment that is begun and not awaited,
`pending`), then an answer. `List` and `Write` are those of the settings, the
latter one setting at a time because a bulk write is no transaction. A settings
call that fails clears `isSuccess`, on which `ErpApp` renders anything at all:
`Unloaded` takes page and forms away. The form of the logo is one of the other
pages: its upload is never answered with a success. `missed` and `typed` are
history: the kinds whose counter was overwritten or missed an increment, and
those one of whose numbers or counters a user typed. `MaxMade` bounds the
documents, `MaxOdd` failures, reloads, typed numbers and saved settings.

### Lookups

One field at a time: the client of a new document, of one that is there, or the
search field of a collection page. `TypingStopped` is the debounce timer, `out`
counts the searches of each text, answered or lost in any order. `Found` is what
the controller finds for a text; it stays while the field is open.
`controlled` tells whether antd is told what to show, since the field sets
`currentValue` once and for all when a form value was there first. A page that
fills its form again (`Refill`) resets it, which mounts the field anew.

### Totals

Quantities and prices are thousandths and totals cents, so that the rounding of
`currency.js` (the first operand of a product, and the product) is seen. The
effects that follow a change run in its step. `taxes` is the select with its two
fetches, and a failed first one ends the page. The server adds up the rows of the
body again (`Stored`); `shown` is history, what the sender saw.

### Files

A PDF is a version of its document, whole or not, mixed or not. A download reads
the document and unlinks its file, waits for the settings, hands the page to the
renderer, and sends what is at the path when the renderer is done. `linked` says
that an open file is still the one at the path. When the process ends
(`RenderFails`, the second answer of `WriteLogo`) its calls are gone and the
renderers go on. The upload middleware stores a file before the handler names it.
A body without a file names what its text says, for the photo (`TypePhoto`) as for
the logo (`WriteLogo`), so neither need name an image that is stored.

### Setup

Each script is a process whose place is a program counter; several may run. One
that fails leaves what it wrote. `spoilt` is history: a script failed, overlapped
another or set up over something, since the last whole reset.

### Summaries

One card: asked for, counted by one or two aggregates, answered, shown. Documents
and clients change between any two of these steps. Shares are whole percentages,
rounded as the handlers do. The payment status of a document is computed from
its total and credit, as the handlers leave it when they are through.

`MCOffice` runs these six. They share no state with each other, so a behaviour is
one of one part, chosen at the start: interleaving them would only multiply their
states.

## Runs

| run | instance | what it shows |
|---|---|---|
| `ledger_serial` | 2 invoices, 2 payments, 1 request at a time, totals 0, 2, amounts -1, 1, 2 or none, one failing call | without overlap, and but for payments of a failed request: credit is the sum of the standing payments less exactly what updates without an amount took off (`LedgerAgrees`), status follows from total and credit (`StatusAgrees`), the totals of the dashboard add up but for the same amounts (`DashboardAddsUp`), and no request takes a credit above the total it read (`NoOverpayment`) |
| `ledger_concurrent` | 1 invoice, 2 payments, 2 requests, amounts 1, 2 or none, `Exclusive`, weak fairness | overlapping handlers keep the credit exact but for what updates without an amount take off, implement the book (`BookSpec`), never edit or revive what was removed, and every payment ends in its invoice's list or removed (`PaymentsGetListed`) |
| `ledger_double_remove` | 1 invoice, 1 payment, 2 requests | violation: see below |
| `default_flag` | 3 documents, 1 request, 2 failing calls | there is a default unless at most one document is enabled or a call failed; a document elected is elected alone; a creation leaves a default, even after failures |
| `auth_serial` | 2 administrators, one disabled, one the demo account, 1 client, 2 passwords, 2 links, 1 failure | a disabled account has no session by any road; a link changes a password once; every request is answered unless the process has ended |
| `auth_sessions` | 1 administrator, 2 clients | a session stays until its own logout, its expiry or a change of password, however requests overlap |
| `session` | 1 tab, 2 tokens, one odd event | a logout removes the stored session before the server is asked; a logout that the server accepts ends the session for good; a rejected session sends the tab to the login page, and it gets there |
| `session_stranded` | 2 tabs | violation: see below |
| `crud_panel` | 2 documents, 2 values, 3 requests out, 1 lost | forms and modal act on the item they show, the table comes to show what it was asked for, and no late update brings back a removed document |
| `erp_pages` | 2 documents, 2 calls out before the user waits | every page shows, edits and pays the document of its route unless it took another one last, and a success is never left on the page that waits for one |
| `erp_delete_again` | the same | violation: see below |
| `office` | numbers: 1 tab, 2 calls, 2 invoices and 1 quote, one odd event; fields: 3 texts, 2 clients, 2 searches of a text; totals: 2 quantities, one of them with three decimals, 1 price, 2 rates, 2 rows; files: 2 documents, one without a template, 2 downloads, 2 versions, 1 image; set-up: 2 scripts, 2 settings, 2 set-ups; cards: 2 documents, 2 statuses, 2 clients | counters follow the documents but for increments that failed and settings written over them (`CountersKeepUp`), no road suggests a number past the next one (`NumbersInReach`), options are those of the text (`OptionsFollow`), the client that is shown is the one that is saved (`ShownIsSaved`), the server stores the total its user saw (`ShownIsStored`), rows add up to the subtotal (`RowsAddUp`), a download that no other overlaps is whole and of the version it read (`SentWhole`), a set-up after a whole reset works (`FreshSetupWorks`), the figures of a card fit together (`CardsAddUp`) |

`CHECK_DEADLOCK FALSE` is set where the system may rest: a server with nothing
to do, a session nobody renews, or a run whose bounds on requests and failures
are used up. `auth_sessions` and `erp_pages` never rest.

Why the bounds are enough. The hazards of the ledger need two requests on one
payment or two payments on one invoice, a total of zero, one that a payment or two
fill, and a refund; one failing call separates the database calls of one handler;
updates without an amount happen twice to one payment. The default flag needs a
document to lose the flag, one to get it and one to be left out of it. The
sessions need an account shared by two clients, and two seconds. Two tabs are
enough for one to undo what the other needs. In the pages two documents tell a
form that writes another one, two values tell a stale table, and three requests
are a list, a write and the list that follows it. Two calls on the invoice pages
are the answer a page waits for and one meant for another page; one action can
send two more. In the office two calls are a creation and the list, the settings
form or the second creation that runs into it; two searches of one text and one of
another come back in every order; a quantity of three decimals shows that the rows
round otherwise than the subtotal; two downloads share a file and two scripts a
database; the exceptions that the properties name (a race, a second typing, a
cleared field, an overlapping download) all occur. Symmetry is used over documents
and values in `crud_panel`, over documents in `erp_pages`, over calls and
downloads in `office`, and over invoices and payments in `ledger_serial`, whose
properties are all safety properties.

Fairness. `Ledger` and `AdminAuth`: the event loop runs a handler whose database
call has returned, so continuations of requests are weakly fair, and beginnings
are not. `BrowserSession`: a call that is out is answered or fails, and a page
load that was begun happens. The modules of the office state safety alone, and
assume no fairness. Nobody is assumed to click anything.

## Where code and documentation disagree

* `ledger_double_remove`: `paymentController/remove.js` says at line 36 that it
  answers `document not found` when the update matched no payment, and does not
  look. A payment that was removed since the handler read it, by another remove
  or by the cascade of its invoice, is deducted from the credit all the same: the
  shortest trace removes the invoice, and two removes of one payment both deduct
  its amount and both answer success.
* `session_stranded`: of two tabs whose session ended, the second to be told
  finds the marks removed by the first and stays on the loader.
* `erp_delete_again`: the key of a deletion keeps its success when the next row
  is chosen, and the effect that closes the modal runs again
  (`F/modules/ErpPanelModule/DeleteItem.jsx:26`): after one deletion no other
  document can be deleted until the list is mounted anew.

Met while reading, and shown by no run:

* An update of a payment that carries no amount (`paymentController/update.js`
  refuses 0 at line 10 and no more) computes the difference to 0 at line 28, keeps
  the stored amount at line 51 and takes all of it off the credit at line 69, with
  one request and no failure; the next one takes it off again. The runs include
  these updates; no line of the code or the docs says otherwise.
* The profile is saved with any photo text a body without a file carries.
* Two payments created together are both measured against the credit before
  either, and can pass the total. Two elections of a default together leave two.
* One reset link used twice at the same time changes the password twice.
* `forgetPassword` uses the account before testing that it was found, so an
  unknown address is answered 500.
* A failed write in `login` after the answer's promise was not awaited ends the
  process.
* The demo account's password is protected only from the demo account itself.
* A logout sends the header of the last request; one that fails restores the
  session without its token in the store; a profile update stores a session
  without one.
* Of two deletions that are out together the second leaves the table as it is:
  the lines that would reset the key are commented out
  (`F/components/DeleteModal/index.jsx:37`).
* The read of a document left before its answer came fills the update form of
  the next one, and saving it writes the former's contents under the latter's
  identifier.
* A save that is answered after its page was left, or a second click on a button
  that the spinner does not cover, leaves a success in the slice; the next visit
  of that page ends at once.
* Lists are taken in the order of their answers; answers to a former page's
  requests land in the slice after it was reset.
* The number of a new invoice is computed from settings fetched before the page
  asks for them, so it can be suggested twice; no index makes it unique.
* Two sign-ins of one account in one second are given equal tokens, so the logout
  of one ends the other.
* The form of the finance settings holds the counters as they were when it was
  filled, and writes them back when anything is saved. A reset of the database
  starts the counters again and keeps the invoices.
* Any settings call that fails hides the whole application behind its loader, and
  no page is left to ask for the settings again.
* The upload of the logo is answered 500 at once, because the middleware returns
  no promise for `catchErrors` to hold; with no file chosen the setting is written
  and the second answer ends the process.
* A download for a model that has no template deletes the old file and is never
  answered.
* Two downloads of one document at the same time unlink and write one file.
* The client field of a document that is there goes on showing its client when
  another is chosen, and a field that is cleared leaves the form's value.
* Typing the last text again within the debounce time empties the search field
  for good.
* A list of taxes that fails ends the page of the form.
* Rows multiply price by quantity and the subtotal quantity by price, and only
  the first operand is rounded before: with three decimals they differ.
* The client card can show more than a hundred per cent of active clients, since
  removed and disabled clients with an invoice are counted.

## Proofs

Everything below holds for every value of the constants that the named
assumptions allow: any number of documents, requests, tabs, rows, texts or
scripts, where the runs have two or three. Every safety property of the runs,
invariant or action property, is stated by a theorem; each inductive invariant
was checked by TLC on a small instance before it was proved.

Some need a hypothesis on how much happens at once, and say so in their
statement. `Orderly` (in `LedgerProofs`) is the `Exclusive` of the runs, or one
request at a time: no two requests in flight write one payment;
`ledger_double_remove` is what happens without it. `Alone` is one request at a
time (`LedgerProofs`, `DefaultFlagProofs`, `LinkOnce`), which two creations or
two elections together need not respect, or one tab (`BrowserSessionProofs`);
`session_stranded` is what two tabs do. `LedgerImplementsBook` also takes
`MaxFailures = 0`, for a payment that a failed request left half entered is not
one of the book. The other theorems have no hypothesis.

* `LedgerProofs`.
  * `Typed` (documents and requests are well formed, and a request names what its
    stage needs) with `Fresh` gives `TypeCorrect`, and with it each action is
    shown to leave removed documents alone (`RemovalIsFinal`).
  * `CreditInv`, of no hypothesis: however requests overlap and fail, the credit
    of an invoice is the sum of what was posted for the payments that name it,
    and its list names no others (`CreditIsPosted`). Every `$inc` is added at one
    place of that sum.
  * `BookInv`, under `Orderly`: it says of each payment, by the stage of the one
    request that holds it, what was posted for it and where it is listed: `Held`
    for a payment in hand, `Rest` for one that is not, `Solo` that at most one
    request holds it. It gives `PaymentsAccounted`, failing calls included, and,
    with no failing call, `LedgerImplementsBook`: every step of the handlers is a
    step of the book or leaves it alone. Joined with `CreditInv` it gives
    `CreditFollowsPayments` (`LedgerAgrees`): what was posted for a payment and
    waived of it is its amount if it stands and nothing if it does not, so the
    sums are equal term by term.
  * `SerialInv`, under `Alone`, adds to `CreditInv` that the figures a handler
    has read are still those of its invoice, with what it compared (`Current`),
    that each status is the one its total and credit call for (`Stated`), and
    that until a call fails a standing payment is on a standing invoice or the
    cascade that removes it is under way (`Upheld`). `StatusFollows` and
    `NeverOverpaid` rest on the first two; `DashboardTotals` on the last, with
    the sums: what the dashboard adds up invoice by invoice is what it adds up
    payment by payment.
* `SumsProofs`: sums over a finite set. Induction is out of reach as a theorem
  with a predicate; in its place stands `Minimal`, that a family of finite sets
  with a member has a smallest one: a law that failed of some set would fail of a
  smallest one, and taking one element from that gives the contradiction. So the
  recursion behind `SumOver` has a value (`AddsExists`), one that does not depend
  on the element chosen (`SumTake`); a change at one place changes the sum by as
  much (`SumChange`), sums of parts add up (`SumUnion`, `SumPlus`), and adding up
  by owner is adding up everything (`SumByOwner`).
* `DefaultFlagProofs`: `FlagInv` follows one request through its calls: what its
  handler has cleared or counted is still so, and between requests, until a call
  fails, a default is missing only if it could be handed to none (`Handed`). It
  gives `DefaultKept` and `ElectionClears` when requests come one at a time, for
  any collection and wherever calls failed before; `CreationLeavesDefault` needs
  only what a creation has counted.
* `AdminAuthProofs`: `SessionsSurvive` and `DisabledStayOut` for any number of
  clients and accounts; `LinkOnce` for one request at a time, from `LinkInv`:
  the token in the database is that of the last link until it is used.
* `BrowserSessionProofs`: types for any number of tabs. For one tab `OneTabInv`
  gives `ClearedOut`, `LogoutEnds` and `RejectedLeaves`: at most one login and
  one logout are out (`Once`); a logout that is out carries the token that was
  stored, and the server has dropped it if it accepted (`LoggingOut`); a tab
  inside the application has something stored, and the header of that session or
  none (`Holding`); and a tab on the login page has nothing stored, unless a
  profile update or a lost call put it back (`Cleared`). The last is not
  inductive without the rest: a logout that fails restores what it saved.
* `CrudPanelProofs`: `PanelInv` joins the types, what the answers in flight
  carry (`Answered`), that a key is not done and at work at once (`Settled`), and
  `FormsAgree` itself. It is needed because a form agrees only if each answer
  still on its way will leave it agreeing. `FormsAlwaysAgree` and
  `RemovalStands` follow. `TableComesFresh` (`ListFresh`) needs `Fresh` besides:
  while nothing was lost or overtaken, either the answer to a write that was
  served is out (`Owed`), or a list is out that has, or will have, what was asked
  for (`Coming`), or the table shows it (`Shown`); and the page will hear each
  answer (`Heard`), with its forms mounted or a deletion that is not yet a
  success, since a write nobody hears asks for no list.
* `ErpPagesProofs`: the state is one record and every handler a function of it,
  so the proof goes along the functions. `ErpInv` is `Slice` (types; what was
  created is there; what was read is shown; what loads has a call) and `Fits`
  (the checked properties, read of any state). A page that mounts makes a state
  that fits of any slice; an answer or a handler makes one of any state that
  fits. Each function has a lemma on the fields it changes, which the later
  lemmas use in place of its definition. All the properties of the run follow.
* `OfficeProofs` has the six parts of the office, each with its invariant, and
  `OfficeTypeCorrect`, that the invariants hold together of the behaviours that
  `MCOffice` checks.
  * `NumberingInv` joins the types, `CountersKeepUp` itself and `Reach`: every
    copy of a counter, in the database, a slice, a form or a call, is at most
    `Room`, the documents less the increments that are still to come. It is
    needed because a counter written back and then increased must still not pass
    the documents. `CountersKeepUp` and `NumbersInReach` follow for any number of
    tabs, calls, kinds and failures.
  * `LookupInv` says what is out (`LastOut`: if no two searches raced, only the
    text that was handed on last, or what a search field that was mounted anew no
    longer hears), what a field that nothing was typed in shows (`Deaf`), and
    `Follows`, which is `OptionsFollow` also while the timer of a client field
    runs: without it an answer that comes before the timer would be lost.
    `OptionsFollow` and `ShownIsSaved` follow.
  * `TotalsInv`: the subtotal, the tax and the total of the form, of a request
    that is out and of the document each follow from its rows and its rate.
    `ShownIsStored` follows, for the server adds up the same rows; `RowsAddUp`
    from a lemma on the two roundings, which agree where there are no more than
    two decimals.
  * `FilesInv`: a download past its first step is of a document (`Placed`); two
    that work on one document each know that they overlap (`Apart`); one that no
    other overlapped has in hand, by its stage, the linked file, the file written
    whole from what it read, the good answer (`InHands`). `SentWhole` follows.
  * `SetupInv`: what each stage of a script still has to insert (`Ready`), that
    no setting or default is there more often than set-up was run (`Counted`),
    that a script which says it is alone is, with what a reset has emptied so far
    (`Alones`), and, if nothing is spoilt, that the database is what the one
    script that runs has built so far, or is empty or works (`Unspoilt`).
    `FreshSetupWorks` follows.
  * `SummariesInv`: no invoice is paid above its total (`Sound`); what the first
    aggregate found is still so until a document changes (`Agreeing`); the shares
    are those of documents counted together (`SharesFit`). `CardsAddUp` follows,
    by sums over the statuses and the bounds of a rounded share.

`CreditIsPosted`, `PaymentsAccounted`, `ModalAlwaysAsks` (an open modal has a
document to delete) and `NothingKeepsLoading` (no loader outlives its calls) are
proved and not in any run's list.

Only model-checked: what must eventually happen, since liveness under fairness is
out of the prover's reach: `PaymentsGetListed` of `Ledger`, `Answered` of
`AdminAuth`, `LeavesForLogin` of `BrowserSession`. The three runs that show a
disagreement show it by an example, and there is nothing to prove.

## Not modelled

Reads that only answer what is stored, the settings of other categories and the
action that changes the currency, formatting of money and dates, cloud storage of
uploads, mails and the conversion of quotes (stubs), translations and layout, the
advanced collection slice that no page uses, the handlers that are routed nowhere
(`coreControllers/setup.js`), and the monitoring and pipeline files.
`PROJECT.json` gives the reason for each.

## Plan

In order of weight; what is done is described above.

1. `Ledger` with its book, `DefaultFlag`, `AdminAuth`, `BrowserSession`,
   `CrudPanel`, `ErpPages`: done, with proofs.
2. `Numbering`, `Lookups`, `Totals`, `Files`, `Setup`, `Summaries`: done, with
   proofs.
3. What holds of the ledger without `Alone`: which statuses and maxima survive
   two requests on different payments of one invoice.
4. What holds of several tabs: that a session left in one is left in all, once
   each was told.
5. The update page of a payment, as one more page of `ErpPages`, with the maximum
   it computes from a credit it read before.

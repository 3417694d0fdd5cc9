------------------------------- MODULE Lookups -------------------------------
(***************************************************************************)
(* The two fields that search while the user types: AutoCompleteAsync, the *)
(* client of an invoice or quote, in a form for a new document ("create")  *)
(* or for one that is there ("update"), and SearchItem, the search field   *)
(* of a collection page ("search").  With them the timer they share        *)
(* (useDebounce over useTimeoutFn), the hook and the slice that keep the   *)
(* answers (useOnFetch, crud.search) and the search controller.            *)
(*                                                                         *)
(* What is found for a text does not change while the field is open.       *)
(* Effects of React run in the step of what causes them.                   *)
(***************************************************************************)
EXTENDS Integers, FiniteSets

CONSTANTS
    Clients,        \* documents that can be found
    Texts,          \* what can be typed
    Blank,          \* the empty text
    Found,          \* the documents that the controller finds for each text
    Nobody,         \* no client
    MaxOut          \* bound on searches of one text that are out

ASSUME LookupsAssumption ==
    /\ Blank \in Texts
    /\ Found \in [Texts -> SUBSET Clients]
    /\ Nobody \notin Clients
    /\ MaxOut \in Nat \ {0}

VARIABLES
    field,          \* the field, and the form value behind it
    out,            \* how many searches of each text are out
    raced,          \* history: the last search began while another was out
    repeated,       \* history: the text that was searched last was typed again
    marred          \* history: the user changed the client in a way that the
                    \* field does not follow

lookupVars == <<field, out, raced, repeated, marred>>

-----------------------------------------------------------------------------
\* entered, timer and debounced are the text, the time-out and the text the
\* time-out hands on; result and success are those of the hook or the slice;
\* listening is isSearching; controlled says whether antd is told what to show
\* (currentValue is set) or keeps it; saved is the value in the form.
Field == [kind : {"create", "update", "search"},
          entered : Texts, timer : BOOLEAN, debounced : Texts,
          result : SUBSET Clients, success : BOOLEAN,
          options : SUBSET Clients, listening : BOOLEAN,
          controlled : BOOLEAN, shown : Clients \union {Nobody},
          saved : Clients \union {Nobody}]

OfClient(f) == f.kind \in {"create", "update"}

NoneOut == [t \in Texts |-> 0]

\* A field as it is mounted, over what is left in the slice.
Fresh(kind, result, success) ==
    [kind |-> kind, entered |-> Blank, timer |-> FALSE, debounced |-> Blank,
     result |-> result, success |-> success, options |-> {}, listening |-> FALSE,
     controlled |-> FALSE, shown |-> Nobody, saved |-> Nobody]

\* A slip: the field takes the form's value without showing it.
FilledUnseen(f, c) == [f EXCEPT !.options = {c}, !.saved = c]

\* The effect on a form value that was there first.
Filled(f, c) == [f EXCEPT !.options = {c}, !.controlled = TRUE,
                          !.shown = c, !.saved = c]

\* onSearch.  A text that differs starts the timer anew.  The search field
\* takes no empty text, and is emptied by any other.
Entering(f, t) ==
    LET g == [f EXCEPT !.entered = t, !.timer = @ \/ t # f.entered]
    IN  CASE OfClient(f) -> g
          [] f.kind = "search" /\ t # Blank ->
                 [g EXCEPT !.options = {}, !.shown = Nobody, !.listening = TRUE]
          [] OTHER -> f

\* The effect on [isSuccess, result] of the client field: what is not a success
\* leaves the options that were there.
ClientTakes(f) == IF f.success THEN [f EXCEPT !.options = f.result] ELSE f

\* That of the search field, which is deaf until something is typed.
SearchTakes(f) ==
    CASE ~f.listening -> f
      [] f.listening /\ f.success -> [f EXCEPT !.options = f.result]
      [] OTHER -> [f EXCEPT !.options = {}, !.shown = Nobody]

Takes(f) == IF OfClient(f) THEN ClientTakes(f) ELSE SearchTakes(f)

\* An answer that is no success.  The hook takes the empty result, the slice
\* keeps the last one, and no effect runs there if the last was none either.
Unfound(f) ==
    IF OfClient(f) THEN Takes([f EXCEPT !.result = {}, !.success = FALSE])
    ELSE IF f.success THEN Takes([f EXCEPT !.success = FALSE])
    ELSE f

-----------------------------------------------------------------------------
\* A text is typed, or antd empties the text it was given.
Type(t) ==
    /\ field' = Entering(field, t)
    /\ repeated' = (repeated \/ (~OfClient(field) /\ t = field.entered))
    /\ UNCHANGED <<out, raced, marred>>

\* A slip: the text before it is searched.
TypingStoppedLate ==
    /\ field.timer
    /\ field' = [field EXCEPT !.timer = FALSE, !.debounced = field.entered]
    /\ IF field.entered # field.debounced
       THEN /\ out[field.debounced] < MaxOut
            /\ out' = [out EXCEPT ![field.debounced] = @ + 1]
            /\ raced' = (out # NoneOut)
            /\ repeated' = FALSE
       ELSE UNCHANGED <<out, raced, repeated>>
    /\ UNCHANGED marred

\* The timer fires, and another text than the last is searched.
TypingStopped ==
    /\ field.timer
    /\ field' = [field EXCEPT !.timer = FALSE, !.debounced = field.entered]
    /\ IF field.entered # field.debounced
       THEN /\ out[field.entered] < MaxOut
            /\ out' = [out EXCEPT ![field.entered] = @ + 1]
            /\ raced' = (out # NoneOut)
            /\ repeated' = FALSE
       ELSE /\ repeated' = ~OfClient(field)
            /\ UNCHANGED <<out, raced>>
    /\ UNCHANGED marred

\* The search for t is answered: 200 with what was found, 202 if that is none.
SearchAnswered(t) ==
    /\ out[t] > 0
    /\ out' = [out EXCEPT ![t] = @ - 1]
    /\ field' = IF Found[t] # {}
                THEN Takes([field EXCEPT !.result = Found[t], !.success = TRUE])
                ELSE Unfound(field)
    /\ UNCHANGED <<raced, repeated, marred>>

SearchLost(t) ==
    /\ out[t] > 0
    /\ out' = [out EXCEPT ![t] = @ - 1]
    /\ field' = Unfound(field)
    /\ UNCHANGED <<raced, repeated, marred>>

\* An option is chosen.  The form takes it; antd shows it unless it is told
\* what to show, which nobody changes.  The text is emptied if there was one.
Choose(c) ==
    /\ OfClient(field) /\ c \in field.options
    /\ LET f == [field EXCEPT !.saved = c,
                              !.shown = IF field.controlled THEN @ ELSE c]
       IN  field' = f \/ field' = Entering(f, Blank)
    /\ marred' = (field.controlled /\ (marred \/ c # field.shown))
    /\ UNCHANGED <<out, raced, repeated>>

\* The field is cleared, and the form keeps what it has.
Clear ==
    /\ OfClient(field) /\ field.shown # Nobody
    /\ field' = [field EXCEPT !.shown = IF field.controlled THEN @ ELSE Nobody]
    /\ marred' = (marred \/ ~field.controlled)
    /\ UNCHANGED <<out, raced, repeated>>

\* The page fills the form again, with another document it was handed: the
\* reset mounts the field anew, over the client of that document.  The timer
\* is cleared, the empty text is searched, and the answers that the former
\* field waits for reach no one.
Refill(c) ==
    /\ field.kind = "update"
    /\ field' = Filled(Fresh("update", {}, FALSE), c)
    /\ out' = [NoneOut EXCEPT ![Blank] = 1]
    /\ raced' = FALSE /\ repeated' = FALSE /\ marred' = FALSE

\* A found document is opened: the panel takes it from the slice and the field
\* is mounted anew.
Open(c) ==
    /\ field.kind = "search" /\ c \in field.options
    /\ field' = Fresh("search", field.result, field.success)
    /\ repeated' = FALSE
    /\ UNCHANGED <<out, raced, marred>>

\* The client field searches the empty text when it is mounted, the search
\* field nothing; a form that is there hands its client over first.
LookupInit ==
    /\ \/ field = Fresh("create", {}, FALSE)
       \/ \E c \in Clients : field = Filled(Fresh("update", {}, FALSE), c)
       \/ field = Fresh("search", {}, FALSE)
    /\ out = [t \in Texts |-> IF OfClient(field) /\ t = Blank THEN 1 ELSE 0]
    /\ raced = FALSE /\ repeated = FALSE /\ marred = FALSE

LookupNext ==
    \/ \E t \in Texts : Type(t) \/ SearchAnswered(t) \/ SearchLost(t)
    \/ TypingStopped
    \/ \E c \in Clients : Choose(c) \/ Refill(c) \/ Open(c)
    \/ Clear

LookupSpec == LookupInit /\ [][LookupNext]_lookupVars
-----------------------------------------------------------------------------
LookupTypeOK ==
    /\ field \in Field
    /\ out \in [Texts -> 0 .. MaxOut]
    /\ raced \in BOOLEAN /\ repeated \in BOOLEAN /\ marred \in BOOLEAN

\* When typing has stopped and every search is in, the options are what the
\* text that was handed on finds, unless two searches were out together (the
\* older answer may have come last) or the last text was typed again (the
\* search field is then emptied for good).  A client field keeps its former
\* options when a search finds nothing or is lost.  An option of the search
\* field can always be opened: the slice still has it.
OptionsFollow ==
    /\ ~field.timer /\ out = NoneOut /\ ~raced /\ ~repeated /\ field.success
       /\ (OfClient(field) \/ field.debounced # Blank)
       => field.options = Found[field.debounced]
    /\ field.kind = "search" => field.options \subseteq field.result

\* No search, however late its answer, changes the client that is shown or the
\* one that will be saved, and they are the same, also when the form is filled
\* again meanwhile, unless the user cleared the field or changed the client of
\* a document that is there.
ShownIsSaved ==
    OfClient(field) /\ ~marred => field.shown = field.saved
=============================================================================

--------------------------- MODULE ErpPagesProofs ---------------------------
(***************************************************************************)
(* ErpPages keeps its invariant for any documents and any number of calls. *)
(*                                                                         *)
(* The state is one record and every handler a function of it, so the      *)
(* proof goes along the functions: Slice holds of what the reducer makes   *)
(* of a state that has it, Fits of what a page that is mounted makes of a  *)
(* slice, and of what an answer makes of a page that fits.                 *)
(***************************************************************************)
EXTENDS ErpPages, TLAPS

\* Some call of each of the kinds that load is out.
Loads(w, kinds) == \A kind \in kinds : w.keys[kind].isLoading =>
    \E c \in Calls : c[1] = kind /\ w.calls[c] > 0

\* The part of the invariant that no page matters to: what was created is
\* there, and what was read is shown.
Core(w, kinds) ==
    /\ w \in App
    /\ w.keys["create"].isSuccess => w.keys["create"].result # None
    /\ Loads(w, kinds)

ReadSeen(w) == w.keys["read"].isSuccess => w.current # None

Slice(w) == Core(w, Kinds) /\ ReadSeen(w)

Routed(w) == w.page.kind \in {"read", "update", "pay"} <=> w.page.id # None

\* FormsAgree, SuccessLeaves and ModalAsks of a state w.
Agrees(w) ==
    LET page == w.page
        put == Shown(w) /\ ~page.stray
    IN  /\ page.kind = "read" /\ put => w.current = page.id
        /\ page.kind = "update" /\ put => w.keys["update"].current = page.id
        /\ page.kind = "pay" =>
               /\ w.keys["pay"].current = w.current
               /\ put \/ (page.id \in w.items /\ ~page.stray) =>
                      w.current = page.id

Leaves(w) ==
    /\ w.page.kind = "create" => ~w.keys["create"].isSuccess
    /\ w.page.kind = "update" /\ Shown(w) => ~w.keys["update"].isSuccess
    /\ w.page.kind = "pay" /\ w.current # None => ~w.keys["pay"].isSuccess

Asks(w) ==
    w.modal => /\ w.page.kind = "list"
               /\ w.keys["delete"].current # None
               /\ ~w.keys["delete"].isSuccess

\* The part of the invariant that is about the page.
Fits(w) == Routed(w) /\ Agrees(w) /\ Leaves(w) /\ Asks(w)

ErpInv == Slice(app) /\ Fits(app)

-----------------------------------------------------------------------------
(* The reducer. *)

LEMMA CallKinds ==
    ASSUME NEW c \in Calls PROVE c[1] \in Kinds /\ c[2] \in Ids /\ c = <<c[1], c[2]>>
  BY DEF Calls, Kinds, Ids

LEMMA KeyFields ==
    ASSUME NEW w \in App, NEW kind \in Kinds
    PROVE  w.keys[kind] \in Key
  BY DEF App

LEMMA InitialKeyTyped ==
    /\ InitialKey \in Key
    /\ InitialKey.current = None /\ InitialKey.result = None
    /\ ~InitialKey.isLoading /\ ~InitialKey.isSuccess
  BY DEF InitialKey, Key, Ids

\* Any change of one key leaves the others as they were.
LEMMA KeyChange ==
    ASSUME NEW w \in App, NEW kind \in Kinds, NEW key \in Key
    PROVE  LET v == [w EXCEPT !.keys[kind] = key] IN
           /\ v \in App
           /\ v.keys[kind] = key
           /\ \A k \in Kinds \ {kind} : v.keys[k] = w.keys[k]
           /\ v.current = w.current /\ v.items = w.items /\ v.page = w.page
           /\ v.modal = w.modal /\ v.calls = w.calls
  BY DEF App

LEMMA ResetActionFields ==
    ASSUME NEW w \in App, NEW kind \in Kinds
    PROVE  LET v == ResetAction(w, kind) IN
           /\ v \in App
           /\ v.keys[kind] = InitialKey
           /\ v.keys[kind].current = None /\ v.keys[kind].result = None
           /\ ~v.keys[kind].isLoading /\ ~v.keys[kind].isSuccess
           /\ \A k \in Kinds \ {kind} : v.keys[k] = w.keys[k]
           /\ v.current = w.current /\ v.items = w.items /\ v.page = w.page
           /\ v.modal = w.modal /\ v.calls = w.calls
  BY KeyChange, InitialKeyTyped DEF ResetAction

LEMMA CurrentActionFields ==
    ASSUME NEW w \in App, NEW kind \in Kinds, NEW d \in Ids
    PROVE  LET v == CurrentAction(w, kind, d) IN
           /\ v \in App
           /\ v.keys[kind].current = d
           /\ v.keys[kind].result = w.keys[kind].result
           /\ v.keys[kind].isLoading = w.keys[kind].isLoading
           /\ v.keys[kind].isSuccess = w.keys[kind].isSuccess
           /\ \A k \in Kinds \ {kind} : v.keys[k] = w.keys[k]
           /\ v.current = w.current /\ v.items = w.items /\ v.page = w.page
           /\ v.modal = w.modal /\ v.calls = w.calls
  <1> DEFINE key == [w.keys[kind] EXCEPT !.current = d]
  <1>1. /\ key \in Key
        /\ key.current = d
        /\ key.result = w.keys[kind].result
        /\ key.isLoading = w.keys[kind].isLoading
        /\ key.isSuccess = w.keys[kind].isSuccess
    BY KeyFields DEF Key
  <1>2. CurrentAction(w, kind, d) = [w EXCEPT !.keys[kind] = key]
    BY DEF CurrentAction, App
  <1> HIDE DEF key
  <1>3. QED
    BY <1>1, <1>2, KeyChange

LEMMA SucceededFields ==
    ASSUME NEW w \in App, NEW kind \in Kinds, NEW d \in Ids
    PROVE  LET v == Succeeded(w, kind, d) IN
           /\ v \in App
           /\ v.keys[kind].current = None /\ v.keys[kind].result = d
           /\ ~v.keys[kind].isLoading /\ v.keys[kind].isSuccess
           /\ \A k \in Kinds \ {kind} : v.keys[k] = w.keys[k]
           /\ v.current = w.current /\ v.items = w.items /\ v.page = w.page
           /\ v.modal = w.modal /\ v.calls = w.calls
  <1> DEFINE key == [InitialKey EXCEPT !.result = d, !.isSuccess = TRUE]
  <1>1. /\ key \in Key
        /\ key.current = None /\ key.result = d
        /\ ~key.isLoading /\ key.isSuccess
    BY DEF Key, Ids, InitialKey
  <1>2. Succeeded(w, kind, d) = [w EXCEPT !.keys[kind] = key]
    BY DEF Succeeded
  <1> HIDE DEF key
  <1>3. QED
    BY <1>1, <1>2, KeyChange

LEMMA FailedFields ==
    ASSUME NEW w \in App, NEW kind \in Kinds
    PROVE  LET v == Failed(w, kind) IN
           /\ v \in App
           /\ v.keys[kind].current = w.keys[kind].current
           /\ v.keys[kind].result = w.keys[kind].result
           /\ ~v.keys[kind].isLoading /\ ~v.keys[kind].isSuccess
           /\ \A k \in Kinds \ {kind} : v.keys[k] = w.keys[k]
           /\ v.current = w.current /\ v.items = w.items /\ v.page = w.page
           /\ v.modal = w.modal /\ v.calls = w.calls
  <1> DEFINE key == [w.keys[kind] EXCEPT !.isLoading = FALSE,
                                         !.isSuccess = FALSE]
  <1>1. /\ key \in Key
        /\ key.current = w.keys[kind].current
        /\ key.result = w.keys[kind].result
        /\ ~key.isLoading /\ ~key.isSuccess
    BY KeyFields DEF Key
  <1>2. Failed(w, kind) = [w EXCEPT !.keys[kind] = key]
    BY DEF Failed, App
  <1> HIDE DEF key
  <1>3. QED
    BY <1>1, <1>2, KeyChange

LEMMA RequestFields ==
    ASSUME NEW w \in App, NEW kind \in Kinds, NEW id \in Ids,
           <<kind, id>> \in Calls
    PROVE  LET v == Request(w, kind, id) IN
           /\ v \in App
           /\ v.keys[kind].current = w.keys[kind].current
           /\ v.keys[kind].result = w.keys[kind].result
           /\ v.keys[kind].isLoading
           /\ v.keys[kind].isSuccess = w.keys[kind].isSuccess
           /\ \A k \in Kinds \ {kind} : v.keys[k] = w.keys[k]
           /\ v.current = w.current /\ v.items = w.items /\ v.page = w.page
           /\ v.modal = w.modal
  <1> DEFINE key == [w.keys[kind] EXCEPT !.isLoading = TRUE]
             out == [w.calls EXCEPT ![<<kind, id>>] = @ + 1]
             v == [w EXCEPT !.keys[kind] = key]
  <1>1. /\ key \in Key
        /\ key.current = w.keys[kind].current
        /\ key.result = w.keys[kind].result
        /\ key.isLoading
        /\ key.isSuccess = w.keys[kind].isSuccess
    BY KeyFields DEF Key
  <1>2. out \in [Calls -> Nat]
    BY DEF App
  <1>3. Request(w, kind, id) = [v EXCEPT !.calls = out]
    BY DEF Request, App
  <1> HIDE DEF key, out
  <1>4. v \in App /\ v.keys[kind] = key /\ v.calls = w.calls
        /\ (\A k \in Kinds \ {kind} : v.keys[k] = w.keys[k])
        /\ v.current = w.current /\ v.items = w.items /\ v.page = w.page
        /\ v.modal = w.modal
    BY <1>1, KeyChange
  <1> HIDE DEF v
  <1>5. [v EXCEPT !.calls = out] \in App
    BY <1>2, <1>4 DEF App
  <1>6. [v EXCEPT !.calls = out].calls = out
        /\ [v EXCEPT !.calls = out].keys = v.keys
        /\ [v EXCEPT !.calls = out].current = v.current
        /\ [v EXCEPT !.calls = out].items = v.items
        /\ [v EXCEPT !.calls = out].page = v.page
        /\ [v EXCEPT !.calls = out].modal = v.modal
    BY <1>4 DEF App
  <1>7. QED
    BY <1>1, <1>3, <1>4, <1>5, <1>6 DEF out

LEMMA RequestCalls ==
    ASSUME NEW w \in App, NEW kind \in Kinds, NEW id \in Ids
    PROVE  Request(w, kind, id).calls = [w.calls EXCEPT ![<<kind, id>>] = @ + 1]
  BY DEF Request, App

LEMMA ResetStateFields ==
    ASSUME NEW w \in App
    PROVE  LET v == ResetState(w) IN
           /\ v \in App
           /\ \A k \in Kinds : v.keys[k] = InitialKey
           /\ v.current = None /\ v.items = {} /\ v.page = w.page
           /\ v.modal = w.modal /\ v.calls = w.calls
  <1> DEFINE keys == [kind \in Kinds |-> InitialKey]
  <1>1. ResetState(w) = [w EXCEPT !.keys = keys, !.current = None, !.items = {}]
    BY DEF ResetState, InitialApp
  <1>2. keys \in [Kinds -> Key] /\ \A k \in Kinds : keys[k] = InitialKey
    BY InitialKeyTyped
  <1> HIDE DEF keys
  <1>3. QED
    BY <1>1, <1>2 DEF App, Ids

LEMMA CurrentItemFields ==
    ASSUME NEW w \in App, NEW d \in Ids
    PROVE  LET v == CurrentItem(w, d) IN
           /\ v \in App
           /\ v.current = d
           /\ v.keys = w.keys /\ v.items = w.items /\ v.page = w.page
           /\ v.modal = w.modal /\ v.calls = w.calls
  BY DEF App, CurrentItem

LEMMA AtFields ==
    ASSUME NEW w \in App, NEW kind \in Routes, NEW id \in Ids
    PROVE  LET v == At(w, kind, id) IN
           /\ v \in App
           /\ v.page.kind = kind /\ v.page.id = id /\ ~v.page.stray
           /\ ~v.modal
           /\ v.keys = w.keys /\ v.items = w.items
           /\ v.current = w.current /\ v.calls = w.calls
  <1> DEFINE page == [kind |-> kind, id |-> id, stray |-> FALSE]
  <1>1. /\ page \in Page
        /\ page.kind = kind /\ page.id = id /\ ~page.stray
    BY DEF Page
  <1>2. At(w, kind, id) = [w EXCEPT !.page = page, !.modal = FALSE]
    BY DEF At
  <1> HIDE DEF page
  <1>3. QED
    BY <1>1, <1>2 DEF App

LEMMA SeenFields ==
    ASSUME NEW w \in App, NEW d \in Docs
    PROVE  LET v == Seen(w, d) IN
           /\ v \in App
           /\ v.current = d
           /\ v.page.kind = w.page.kind /\ v.page.id = w.page.id
           /\ v.page.stray <=> d # w.page.id
           /\ v.keys = w.keys /\ v.items = w.items
           /\ v.modal = w.modal /\ v.calls = w.calls
  <1> DEFINE u == CurrentItem(w, d)
             page == [w.page EXCEPT !.stray = d # w.page.id]
  <1>1. /\ u \in App /\ u.current = d /\ u.page = w.page
        /\ u.keys = w.keys /\ u.items = w.items
        /\ u.modal = w.modal /\ u.calls = w.calls
    BY CurrentItemFields DEF Ids
  <1>2. w.page \in Page
    BY DEF App
  <1>3. /\ page \in Page
        /\ page.kind = w.page.kind /\ page.id = w.page.id
        /\ page.stray <=> d # w.page.id
    BY <1>2 DEF Page
  <1> HIDE DEF u
  <1>4. Seen(w, d) = [u EXCEPT !.page = page]
    BY <1>1 DEF Seen, u
  <1> HIDE DEF page
  <1>5. QED
    BY <1>1, <1>3, <1>4 DEF App

-----------------------------------------------------------------------------
(* What the reducer makes of a slice is a slice. *)

LEMMA ResetActionCore ==
    ASSUME NEW w, NEW kinds \in SUBSET Kinds, Core(w, kinds), NEW kind \in Kinds
    PROVE  Core(ResetAction(w, kind), kinds)
  <1> DEFINE v == ResetAction(w, kind)
  <1>1. /\ v \in App
        /\ ~v.keys[kind].isLoading /\ ~v.keys[kind].isSuccess
        /\ \A k \in Kinds \ {kind} : v.keys[k] = w.keys[k]
        /\ v.calls = w.calls
    BY ResetActionFields DEF Core
  <1> HIDE DEF v
  <1>2. Loads(v, kinds)
    BY <1>1 DEF Core, Loads
  <1>3. v.keys["create"].isSuccess => v.keys["create"].result # None
    BY <1>1 DEF Core, Kinds
  <1>4. QED
    BY <1>1, <1>2, <1>3 DEF Core, v

LEMMA CurrentActionCore ==
    ASSUME NEW w, NEW kinds \in SUBSET Kinds, Core(w, kinds),
           NEW kind \in Kinds, NEW d \in Ids
    PROVE  Core(CurrentAction(w, kind, d), kinds)
  <1> DEFINE v == CurrentAction(w, kind, d)
  <1>1. /\ v \in App
        /\ v.keys[kind].result = w.keys[kind].result
        /\ v.keys[kind].isLoading = w.keys[kind].isLoading
        /\ v.keys[kind].isSuccess = w.keys[kind].isSuccess
        /\ \A k \in Kinds \ {kind} : v.keys[k] = w.keys[k]
        /\ v.calls = w.calls
    BY CurrentActionFields DEF Core
  <1> HIDE DEF v
  <1>2. Loads(v, kinds)
    BY <1>1 DEF Core, Loads
  <1>3. v.keys["create"].isSuccess => v.keys["create"].result # None
    BY <1>1 DEF Core, Kinds
  <1>4. QED
    BY <1>1, <1>2, <1>3 DEF Core, v

\* A kind that is answered loads no more, whatever other calls are out.
LEMMA SucceededCore ==
    ASSUME NEW w, NEW kind \in Kinds, Core(w, Kinds \ {kind}),
           NEW d \in Ids, kind = "create" => d # None
    PROVE  Core(Succeeded(w, kind, d), Kinds)
  <1> DEFINE v == Succeeded(w, kind, d)
  <1>1. /\ v \in App
        /\ v.keys[kind].result = d /\ ~v.keys[kind].isLoading
        /\ \A k \in Kinds \ {kind} : v.keys[k] = w.keys[k]
        /\ v.calls = w.calls
    BY SucceededFields DEF Core
  <1> HIDE DEF v
  <1>2. Loads(v, Kinds)
    BY <1>1 DEF Core, Loads
  <1>3. v.keys["create"].isSuccess => v.keys["create"].result # None
    BY <1>1 DEF Core, Kinds
  <1>4. QED
    BY <1>1, <1>2, <1>3 DEF Core, v

LEMMA FailedCore ==
    ASSUME NEW w, NEW kind \in Kinds, Core(w, Kinds \ {kind})
    PROVE  Core(Failed(w, kind), Kinds)
  <1> DEFINE v == Failed(w, kind)
  <1>1. /\ v \in App
        /\ ~v.keys[kind].isLoading /\ ~v.keys[kind].isSuccess
        /\ \A k \in Kinds \ {kind} : v.keys[k] = w.keys[k]
        /\ v.calls = w.calls
    BY FailedFields DEF Core
  <1> HIDE DEF v
  <1>2. Loads(v, Kinds)
    BY <1>1 DEF Core, Loads
  <1>3. v.keys["create"].isSuccess => v.keys["create"].result # None
    BY <1>1 DEF Core, Kinds
  <1>4. QED
    BY <1>1, <1>2, <1>3 DEF Core, v

LEMMA RequestCore ==
    ASSUME NEW w, NEW kinds \in SUBSET Kinds, Core(w, kinds), NEW kind \in Kinds,
           NEW id \in Ids, <<kind, id>> \in Calls
    PROVE  Core(Request(w, kind, id), kinds)
  <1> DEFINE v == Request(w, kind, id)
             c == <<kind, id>>
  <1>1. /\ v \in App
        /\ v.keys[kind].result = w.keys[kind].result
        /\ v.keys[kind].isSuccess = w.keys[kind].isSuccess
        /\ \A k \in Kinds \ {kind} : v.keys[k] = w.keys[k]
        /\ v.calls = [w.calls EXCEPT ![c] = @ + 1]
    BY RequestFields, RequestCalls DEF Core
  <1> HIDE DEF v
  <1>2. c \in Calls /\ c[1] = kind
    OBVIOUS
  <1> HIDE DEF c
  <1>3. w.calls \in [Calls -> Nat]
    BY DEF Core, App
  <1>4. v.calls[c] > 0 /\ \A e \in Calls : w.calls[e] > 0 => v.calls[e] > 0
    BY <1>1, <1>2, <1>3
  <1>5. Loads(v, kinds)
    BY <1>1, <1>2, <1>4 DEF Core, Loads
  <1>6. v.keys["create"].isSuccess => v.keys["create"].result # None
    BY <1>1 DEF Core, Kinds
  <1>7. QED
    BY <1>1, <1>5, <1>6 DEF Core, v

LEMMA ResetStateCore ==
    ASSUME NEW w \in App
    PROVE  Core(ResetState(w), Kinds)
  <1> DEFINE v == ResetState(w)
  <1>1. v \in App /\ \A k \in Kinds : v.keys[k] = InitialKey
    BY ResetStateFields
  <1> HIDE DEF v
  <1>2. Core(v, Kinds)
    BY <1>1, InitialKeyTyped DEF Core, Loads, Kinds
  <1>3. QED
    BY <1>2 DEF v

\* Whatever leaves keys and calls alone keeps a core a core.
LEMMA SameCore ==
    ASSUME NEW w, NEW kinds \in SUBSET Kinds, Core(w, kinds), NEW v \in App,
           v.keys = w.keys, v.calls = w.calls
    PROVE  Core(v, kinds)
  BY DEF Core, Loads

-----------------------------------------------------------------------------
(* Pages: what is mounted over a slice is a slice and fits. *)

\* A page that loads its document claims nothing.
LEMMA LoaderFits ==
    ASSUME NEW v \in App, NEW d \in Docs, v.page.kind \in {"read", "update"},
           v.page.id = d, v.keys["read"].isLoading, ~v.modal
    PROVE  Fits(v)
  <1>1. Routed(v)
    BY ErpAssumption DEF Routed
  <1>2. Agrees(v) /\ Leaves(v) /\ Asks(v)
    BY DEF Agrees, Leaves, Asks, Shown
  <1>3. QED
    BY <1>1, <1>2 DEF Fits

LEMMA ReadRequest ==
    ASSUME NEW u \in App, NEW d \in Docs
    PROVE  LET v == Request(u, "read", d) IN
           /\ v \in App
           /\ v.keys["read"].isLoading
           /\ v.keys["read"].isSuccess = u.keys["read"].isSuccess
           /\ v.keys["read"].result = u.keys["read"].result
           /\ \A k \in Kinds \ {"read"} : v.keys[k] = u.keys[k]
           /\ v.current = u.current /\ v.items = u.items /\ v.page = u.page
           /\ v.modal = u.modal
  <1> DEFINE kind == "read"
             v == Request(u, kind, d)
  <1>1. kind \in Kinds /\ d \in Ids /\ <<kind, d>> \in Calls
    BY DEF Kinds, Ids, Calls
  <1> HIDE DEF kind
  <1>2. /\ v \in App
        /\ v.keys[kind].isLoading
        /\ v.keys[kind].isSuccess = u.keys[kind].isSuccess
        /\ v.keys[kind].result = u.keys[kind].result
        /\ \A k \in Kinds \ {kind} : v.keys[k] = u.keys[k]
        /\ v.current = u.current /\ v.items = u.items /\ v.page = u.page
        /\ v.modal = u.modal
    BY <1>1, RequestFields
  <1> HIDE DEF v
  <1>3. QED
    BY <1>2 DEF v, kind

LEMMA OpenReadFits ==
    ASSUME NEW w, Slice(w), NEW d \in Docs
    PROVE  LET v == OpenRead(w, d) IN Slice(v) /\ Fits(v)
  <1> DEFINE u == At(w, "read", d)
             v == Request(u, "read", d)
  <1>0. w \in App /\ "read" \in Routes /\ "read" \in Kinds /\ d \in Ids
        /\ <<"read", d>> \in Calls
    BY DEF Slice, Core, Routes, Kinds, Ids, Calls
  <1>1. /\ u \in App
        /\ u.page.kind = "read" /\ u.page.id = d /\ ~u.modal
        /\ u.keys = w.keys /\ u.current = w.current /\ u.calls = w.calls
    BY <1>0, AtFields
  <1>2. Core(u, Kinds)
    BY <1>1, SameCore DEF Slice
  <1> HIDE DEF u
  <1>3. /\ v \in App
        /\ v.keys["read"].isLoading
        /\ v.keys["read"].isSuccess = u.keys["read"].isSuccess
        /\ v.current = u.current /\ v.page = u.page /\ v.modal = u.modal
    BY <1>1, ReadRequest
  <1>4. Core(v, Kinds)
    BY <1>0, <1>2, RequestCore
  <1> HIDE DEF v
  <1>5. ReadSeen(v)
    BY <1>1, <1>3 DEF Slice, ReadSeen
  <1>6. Fits(v)
    BY <1>1, <1>3, LoaderFits
  <1>7. OpenRead(w, d) = v
    BY DEF OpenRead, u, v
  <1>8. QED
    BY <1>4, <1>5, <1>6, <1>7 DEF Slice

LEMMA OpenHomeFits ==
    ASSUME NEW w, Slice(w)
    PROVE  LET v == OpenHome(w) IN Slice(v) /\ Fits(v)
  <1> DEFINE v == At(w, "home", None)
  <1>0. w \in App /\ "home" \in Routes /\ None \in Ids
    BY DEF Slice, Core, Routes, Ids
  <1>1. /\ v \in App
        /\ v.page.kind = "home" /\ v.page.id = None /\ ~v.modal
        /\ v.keys = w.keys /\ v.current = w.current /\ v.calls = w.calls
    BY <1>0, AtFields
  <1> HIDE DEF v
  <1>2. Core(v, Kinds)
    BY <1>1, SameCore DEF Slice
  <1>3. ReadSeen(v)
    BY <1>1 DEF Slice, ReadSeen
  <1>4. Fits(v)
    BY <1>1 DEF Fits, Routed, Agrees, Leaves, Asks
  <1>5. OpenHome(w) = v
    BY DEF OpenHome, v
  <1>6. QED
    BY <1>2, <1>3, <1>4, <1>5 DEF Slice

\* A call that goes out changes nothing that a page is measured by.
LEMMA RequestFits ==
    ASSUME NEW w, Slice(w), Fits(w), NEW kind \in Kinds, NEW id \in Ids,
           <<kind, id>> \in Calls
    PROVE  LET v == Request(w, kind, id) IN Slice(v) /\ Fits(v)
  <1> DEFINE v == Request(w, kind, id)
  <1>1. w \in App
    BY DEF Slice, Core
  <1>2. /\ v.keys[kind].current = w.keys[kind].current
        /\ v.keys[kind].isLoading
        /\ v.keys[kind].isSuccess = w.keys[kind].isSuccess
        /\ \A k \in Kinds \ {kind} : v.keys[k] = w.keys[k]
        /\ v.current = w.current /\ v.items = w.items /\ v.page = w.page
        /\ v.modal = w.modal
    BY <1>1, RequestFields
  <1>3. Core(v, Kinds)
    BY RequestCore DEF Slice
  <1> HIDE DEF v
  <1>4. \A k \in Kinds : /\ v.keys[k].current = w.keys[k].current
                         /\ v.keys[k].isSuccess = w.keys[k].isSuccess
    BY <1>2
  <1>5. /\ "read" \in Kinds /\ "update" \in Kinds /\ "create" \in Kinds
        /\ "pay" \in Kinds /\ "delete" \in Kinds
    BY DEF Kinds
  <1>6. Shown(v) => Shown(w)
    BY <1>2, <1>4, <1>5 DEF Shown
  <1>7. ReadSeen(v)
    BY <1>2, <1>4, <1>5 DEF Slice, ReadSeen
  <1>8. Agrees(v)
    BY <1>2, <1>4, <1>5, <1>6 DEF Fits, Agrees
  <1>9. Leaves(v)
    BY <1>2, <1>4, <1>5, <1>6 DEF Fits, Leaves
  <1>10. Routed(v) /\ Asks(v)
    BY <1>2, <1>4, <1>5 DEF Fits, Routed, Asks
  <1>11. QED
    BY <1>3, <1>7, <1>8, <1>9, <1>10 DEF Slice, Fits, v

LEMMA RelistFits ==
    ASSUME NEW w, Slice(w), Fits(w)
    PROVE  LET v == Request(w, "list", None) IN Slice(v) /\ Fits(v)
  <1>1. "list" \in Kinds /\ None \in Ids /\ <<"list", None>> \in Calls
    BY DEF Kinds, Ids, Calls
  <1>2. QED
    BY <1>1, RequestFits

LEMMA OpenListFits ==
    ASSUME NEW w \in App
    PROVE  LET v == OpenList(w) IN Slice(v) /\ Fits(v)
  <1> DEFINE t == ResetState(w)
             u == At(t, "list", None)
             v == Request(u, "list", None)
  <1>0. "list" \in Routes /\ None \in Ids /\ "read" \in Kinds
    BY DEF Routes, Ids, Kinds
  <1>1. t \in App /\ Core(t, Kinds) /\ t.keys["read"] = InitialKey
    BY <1>0, ResetStateFields, ResetStateCore
  <1> HIDE DEF t
  <1>2. /\ u \in App
        /\ u.page.kind = "list" /\ u.page.id = None /\ ~u.modal
        /\ u.keys = t.keys /\ u.calls = t.calls
    BY <1>0, <1>1, AtFields
  <1> HIDE DEF u
  <1>3. Core(u, Kinds)
    BY <1>1, <1>2, SameCore
  <1>4. ReadSeen(u)
    BY <1>1, <1>2, InitialKeyTyped DEF ReadSeen
  <1>5. Fits(u)
    BY <1>2 DEF Fits, Routed, Agrees, Leaves, Asks
  <1>6. Slice(v) /\ Fits(v)
    BY <1>3, <1>4, <1>5, RelistFits DEF Slice
  <1> HIDE DEF v
  <1>7. Slice(Request(v, "list", None)) /\ Fits(Request(v, "list", None))
    BY <1>6, RelistFits
  <1>8. OpenList(w) = v \/ OpenList(w) = Request(v, "list", None)
    BY DEF OpenList, v, u, t
  <1>9. QED
    BY <1>6, <1>7, <1>8

LEMMA ResetActionSlice ==
    ASSUME NEW w, Slice(w), NEW kind \in Kinds, kind # "read"
    PROVE  Slice(ResetAction(w, kind))
  <1> DEFINE v == ResetAction(w, kind)
  <1>1. Core(v, Kinds)
    BY ResetActionCore DEF Slice
  <1>2. w \in App /\ "read" \in Kinds
    BY DEF Slice, Core, Kinds
  <1>3. (\A k \in Kinds \ {kind} : v.keys[k] = w.keys[k]) /\ v.current = w.current
    BY <1>2, ResetActionFields
  <1> HIDE DEF v
  <1>4. v.keys["read"] = w.keys["read"]
    BY <1>2, <1>3
  <1>5. ReadSeen(v)
    BY <1>3, <1>4 DEF Slice, ReadSeen
  <1>6. QED
    BY <1>1, <1>5 DEF Slice, v

LEMMA CurrentActionSlice ==
    ASSUME NEW w, Slice(w), NEW kind \in Kinds, NEW d \in Ids
    PROVE  Slice(CurrentAction(w, kind, d))
  <1> DEFINE v == CurrentAction(w, kind, d)
  <1>1. Core(v, Kinds)
    BY CurrentActionCore DEF Slice
  <1>2. w \in App /\ "read" \in Kinds
    BY DEF Slice, Core, Kinds
  <1>3. /\ v.keys[kind].isSuccess = w.keys[kind].isSuccess
        /\ \A k \in Kinds \ {kind} : v.keys[k] = w.keys[k]
        /\ v.current = w.current
    BY <1>2, CurrentActionFields
  <1> HIDE DEF v
  <1>4. v.keys["read"].isSuccess = w.keys["read"].isSuccess
    BY <1>2, <1>3
  <1>5. ReadSeen(v)
    BY <1>3, <1>4 DEF Slice, ReadSeen
  <1>6. QED
    BY <1>1, <1>5 DEF Slice, v

LEMMA SavedFits ==
    ASSUME NEW w, Slice(w), w.page.id \in Docs
    PROVE  LET v == Saved(w) IN Slice(v) /\ Fits(v)
  <1>1. Slice(ResetAction(w, "update"))
    BY ResetActionSlice DEF Kinds
  <1>2. QED
    BY <1>1, OpenReadFits DEF Saved

LEMMA CreatedFits ==
    ASSUME NEW w, Slice(w), w.keys["create"].isSuccess
    PROVE  LET v == Created(w) IN Slice(v) /\ Fits(v)
  <1>1. Slice(ResetAction(w, "create"))
    BY ResetActionSlice DEF Kinds
  <1>2. w.keys["create"].result # None
    BY DEF Slice, Core
  <1>3. w.keys["create"] \in Key
    BY DEF Slice, Core, App, Kinds
  <1>4. w.keys["create"].result \in Docs
    BY <1>2, <1>3 DEF Key, Ids
  <1>5. QED
    BY <1>1, <1>4, OpenReadFits DEF Created

LEMMA PaidFits ==
    ASSUME NEW w \in App
    PROVE  LET v == Paid(w) IN Slice(v) /\ Fits(v)
  <1> DEFINE u == ResetAction(w, "pay")
  <1>1. "pay" \in Kinds /\ "list" \in Kinds /\ None \in Ids
        /\ <<"list", None>> \in Calls
    BY DEF Kinds, Ids, Calls
  <1>2. u \in App
    BY <1>1, ResetActionFields
  <1> HIDE DEF u
  <1>3. Request(u, "list", None) \in App
    BY <1>1, <1>2, RequestFields
  <1>4. Paid(w) = OpenList(Request(u, "list", None))
    BY DEF Paid, u
  <1>5. QED
    BY <1>3, <1>4, OpenListFits

LEMMA PayShownFits ==
    ASSUME NEW w, Slice(w), Routed(w), Agrees(w), w.page.kind = "pay", ~w.modal
    PROVE  LET v == PayShown(w) IN Slice(v) /\ Fits(v)
  <1>1. w \in App
    BY DEF Slice, Core
  <1>2. CASE w.current # None /\ w.keys["pay"].isSuccess
    <2>1. PayShown(w) = Paid(w)
      BY <1>2 DEF PayShown
    <2>2. QED
      BY <1>1, <2>1, PaidFits
  <1>3. CASE ~(w.current # None /\ w.keys["pay"].isSuccess)
    <2>1. PayShown(w) = w
      BY <1>3 DEF PayShown
    <2>2. Leaves(w) /\ Asks(w)
      BY <1>3 DEF Leaves, Asks
    <2>3. QED
      BY <2>1, <2>2 DEF Fits
  <1>4. QED
    BY <1>2, <1>3

LEMMA OpenCreateFits ==
    ASSUME NEW w, Slice(w)
    PROVE  LET v == OpenCreate(w) IN Slice(v) /\ Fits(v)
  <1>1. CASE w.keys["create"].isSuccess
    <2>1. OpenCreate(w) = Created(w)
      BY <1>1 DEF OpenCreate
    <2>2. QED
      BY <1>1, <2>1, CreatedFits
  <1>2. CASE ~w.keys["create"].isSuccess
    <2> DEFINE v == At(w, "create", None)
    <2>0. w \in App /\ "create" \in Routes /\ None \in Ids
      BY DEF Slice, Core, Routes, Ids
    <2>1. /\ v \in App
          /\ v.page.kind = "create" /\ v.page.id = None /\ ~v.modal
          /\ v.keys = w.keys /\ v.current = w.current /\ v.calls = w.calls
      BY <2>0, AtFields
    <2> HIDE DEF v
    <2>2. Core(v, Kinds)
      BY <2>1, SameCore DEF Slice
    <2>3. ReadSeen(v)
      BY <2>1 DEF Slice, ReadSeen
    <2>4. Fits(v)
      BY <1>2, <2>1 DEF Fits, Routed, Agrees, Leaves, Asks
    <2>5. OpenCreate(w) = v
      BY <1>2 DEF OpenCreate, v
    <2>6. QED
      BY <2>2, <2>3, <2>4, <2>5 DEF Slice
  <1>3. QED
    BY <1>1, <1>2

\* The update page loads its document, whatever its form was filled with.
LEMMA OpenUpdateFits ==
    ASSUME NEW w, Slice(w), NEW d \in Docs
    PROVE  LET v == OpenUpdate(w, d) IN Slice(v) /\ Fits(v)
  <1> DEFINE t == At(w, "update", d)
             u == Request(t, "read", d)
             x == w.keys["read"].result
             f == CurrentAction(u, "update", x)
  <1>0. /\ w \in App /\ "update" \in Routes /\ d \in Ids
        /\ "read" \in Kinds /\ "update" \in Kinds /\ <<"read", d>> \in Calls
    BY DEF Slice, Core, Routes, Ids, Kinds, Calls
  <1>1. /\ t \in App
        /\ t.page.kind = "update" /\ t.page.id = d /\ ~t.modal
        /\ t.keys = w.keys /\ t.current = w.current /\ t.calls = w.calls
    BY <1>0, AtFields
  <1>2. Core(t, Kinds)
    BY <1>1, SameCore DEF Slice
  <1>3. x \in Ids
    BY <1>0, KeyFields DEF Key
  <1> HIDE DEF t, x
  <1>4. /\ u \in App
        /\ u.keys["read"].isLoading
        /\ u.keys["read"].isSuccess = t.keys["read"].isSuccess
        /\ u.current = t.current /\ u.page = t.page /\ u.modal = t.modal
    BY <1>1, ReadRequest
  <1>5. Core(u, Kinds)
    BY <1>0, <1>2, RequestCore
  <1> HIDE DEF u
  <1>6. Slice(u)
    BY <1>1, <1>4, <1>5 DEF Slice, ReadSeen
  <1>7. Fits(u)
    BY <1>1, <1>4, LoaderFits
  <1>8. Slice(f)
    BY <1>0, <1>3, <1>6, CurrentActionSlice
  <1>9. /\ f \in App /\ f.page = u.page /\ f.modal = u.modal
        /\ \A k \in Kinds \ {"update"} : f.keys[k] = u.keys[k]
    BY <1>0, <1>3, <1>4, CurrentActionFields
  <1> HIDE DEF f
  <1>10. Fits(f)
    BY <1>0, <1>1, <1>4, <1>9, LoaderFits
  <1>11. Slice(Saved(u)) /\ Fits(Saved(u)) /\ Slice(Saved(f)) /\ Fits(Saved(f))
    BY <1>1, <1>4, <1>6, <1>8, <1>9, SavedFits
  <1>12. OpenUpdate(w, d) \in {u, f, Saved(u), Saved(f)}
    BY DEF OpenUpdate, f, u, t, x
  <1>13. QED
    BY <1>6, <1>7, <1>8, <1>10, <1>11, <1>12

\* The pay page pays what the slice shows, its own document if it has it.
LEMMA OpenPayFits ==
    ASSUME NEW w, Slice(w), NEW d \in Docs
    PROVE  LET v == OpenPay(w, d) IN Slice(v) /\ Fits(v)
  <1> DEFINE t == At(w, "pay", d)
  <1>0. /\ w \in App /\ "pay" \in Routes /\ d \in Ids
        /\ "read" \in Kinds /\ "pay" \in Kinds /\ <<"read", d>> \in Calls
        /\ d # None
    BY ErpAssumption DEF Slice, Core, Routes, Ids, Kinds, Calls
  <1>1. /\ t \in App
        /\ t.page.kind = "pay" /\ t.page.id = d /\ ~t.page.stray /\ ~t.modal
        /\ t.keys = w.keys /\ t.current = w.current /\ t.calls = w.calls
        /\ t.items = w.items
    BY <1>0, AtFields
  <1>2. Core(t, Kinds) /\ ReadSeen(t)
    BY <1>1, SameCore DEF Slice, ReadSeen
  <1> HIDE DEF t
  <1>3. CASE d \in w.items
    <2> DEFINE u == CurrentItem(t, d)
               v == CurrentAction(u, "pay", d)
    <2>1. /\ u \in App /\ u.current = d /\ u.keys = t.keys
          /\ u.page = t.page /\ u.modal = t.modal /\ u.calls = t.calls
      BY <1>0, <1>1, CurrentItemFields
    <2>2. Slice(u)
      BY <1>0, <1>2, <2>1, SameCore DEF Slice, ReadSeen
    <2> HIDE DEF u
    <2>3. Slice(v)
      BY <1>0, <2>2, CurrentActionSlice
    <2>4. /\ v.keys["pay"].current = d /\ v.current = d
          /\ v.page = u.page /\ v.modal = u.modal
      BY <1>0, <2>1, CurrentActionFields
    <2> HIDE DEF v
    <2>5. Routed(v) /\ Agrees(v) /\ v.page.kind = "pay" /\ ~v.modal
      BY <1>0, <1>1, <2>1, <2>4 DEF Routed, Agrees
    <2>6. OpenPay(w, d) = PayShown(v)
      BY <1>3 DEF OpenPay, v, u, t
    <2>7. QED
      BY <2>3, <2>5, <2>6, PayShownFits
  <1>4. CASE d \notin w.items
    <2> DEFINE u == Request(t, "read", d)
               x == w.current
               v == CurrentAction(u, "pay", x)
    <2>1. /\ u \in App /\ u.keys["read"].isLoading
          /\ u.keys["read"].isSuccess = t.keys["read"].isSuccess
          /\ u.current = t.current /\ u.items = t.items
          /\ u.page = t.page /\ u.modal = t.modal
      BY <1>1, ReadRequest
    <2>2. Core(u, Kinds)
      BY <1>0, <1>2, RequestCore
    <2> HIDE DEF u
    <2>3. Slice(u)
      BY <1>2, <2>1, <2>2 DEF Slice, ReadSeen
    <2>4. x \in Ids
      BY <1>0 DEF App
    <2> HIDE DEF x
    <2>5. Slice(v)
      BY <1>0, <2>3, <2>4, CurrentActionSlice
    <2>6. /\ v.keys["pay"].current = x /\ v.current = u.current
          /\ v.items = u.items /\ v.page = u.page /\ v.modal = u.modal
          /\ \A k \in Kinds \ {"pay"} : v.keys[k] = u.keys[k]
      BY <1>0, <2>1, <2>4, CurrentActionFields
    <2> HIDE DEF v
    <2>7. v.keys["read"].isLoading
      BY <1>0, <2>1, <2>6
    <2>8. v.keys["pay"].current = v.current /\ d \notin v.items
      BY <1>1, <1>4, <2>1, <2>6 DEF x
    <2>9. Routed(v) /\ Agrees(v) /\ v.page.kind = "pay" /\ ~v.modal
      BY <1>0, <1>1, <2>1, <2>6, <2>7, <2>8 DEF Routed, Agrees, Shown
    <2>10. OpenPay(w, d) = PayShown(v)
      BY <1>4 DEF OpenPay, v, u, t, x
    <2>11. QED
      BY <2>5, <2>9, <2>10, PayShownFits
  <1>5. QED
    BY <1>3, <1>4

-----------------------------------------------------------------------------
(* Answers: what is made of a page that fits, and fits again. *)

\* Once a call is answered, its kind may load with no call out: the answer is
\* what switches that off.
LEMMA Answered ==
    ASSUME NEW w, Slice(w), Fits(w), NEW c \in Calls, w.calls[c] > 0
    PROVE  LET v == [w EXCEPT !.calls[c] = @ - 1] IN
           Core(v, Kinds \ {c[1]}) /\ ReadSeen(v) /\ Fits(v)
  <1> DEFINE v == [w EXCEPT !.calls[c] = @ - 1]
             out == [w.calls EXCEPT ![c] = @ - 1]
  <1>1. w \in App /\ w.calls \in [Calls -> Nat]
    BY DEF Slice, Core, App
  <1>2. w.calls[c] - 1 \in Nat
    BY <1>1
  <1>3. out \in [Calls -> Nat] /\ \A e \in Calls \ {c} : out[e] = w.calls[e]
    BY <1>1, <1>2
  <1>4. v = [w EXCEPT !.calls = out]
    BY <1>1 DEF App
  <1> HIDE DEF v, out
  <1>5. /\ v \in App /\ v.calls = out
        /\ v.keys = w.keys /\ v.current = w.current /\ v.items = w.items
        /\ v.page = w.page /\ v.modal = w.modal
    BY <1>1, <1>3, <1>4 DEF App
  <1>6. Loads(v, Kinds \ {c[1]})
    BY <1>3, <1>5 DEF Slice, Core, Loads
  <1>7. Core(v, Kinds \ {c[1]})
    BY <1>5, <1>6 DEF Slice, Core
  <1>8. ReadSeen(v)
    BY <1>5 DEF Slice, ReadSeen
  <1>9. Fits(v)
    BY <1>5 DEF Fits, Routed, Agrees, Leaves, Asks, Shown
  <1>10. QED
    BY <1>7, <1>8, <1>9 DEF v

\* A failure only takes a success away.
LEMMA FailedFits ==
    ASSUME NEW w, NEW kind \in Kinds, Core(w, Kinds \ {kind}), ReadSeen(w),
           Fits(w)
    PROVE  LET v == Failed(w, kind) IN Slice(v) /\ Fits(v)
  <1> DEFINE v == Failed(w, kind)
  <1>1. Core(v, Kinds)
    BY FailedCore
  <1>2. /\ v.keys[kind].current = w.keys[kind].current
        /\ ~v.keys[kind].isSuccess
        /\ \A k \in Kinds \ {kind} : v.keys[k] = w.keys[k]
        /\ v.current = w.current /\ v.items = w.items /\ v.page = w.page
        /\ v.modal = w.modal
    BY FailedFields DEF Core
  <1> HIDE DEF v
  <1>3. \A k \in Kinds : /\ v.keys[k].current = w.keys[k].current
                         /\ v.keys[k].isSuccess => w.keys[k].isSuccess
    BY <1>2
  <1>4. /\ "read" \in Kinds /\ "update" \in Kinds /\ "create" \in Kinds
        /\ "pay" \in Kinds /\ "delete" \in Kinds
    BY DEF Kinds
  <1>5. Shown(v) => Shown(w)
    BY <1>2, <1>4 DEF Shown
  <1>6. ReadSeen(v)
    BY <1>2, <1>3, <1>4 DEF ReadSeen
  <1>7. Agrees(v)
    BY <1>2, <1>3, <1>4, <1>5 DEF Fits, Agrees
  <1>8. Leaves(v)
    BY <1>2, <1>3, <1>4, <1>5 DEF Fits, Leaves
  <1>9. Asks(v) /\ Routed(v)
    BY <1>2, <1>3, <1>4 DEF Fits, Asks, Routed
  <1>10. QED
    BY <1>1, <1>6, <1>7, <1>8, <1>9 DEF Fits, Slice, v

\* Where nothing is paid, a document that came is only shown.
LEMMA CameFields ==
    ASSUME NEW w, Core(w, Kinds), NEW d \in Docs, w.page.kind # "pay"
    PROVE  LET v == Came(w, d) IN
           /\ Slice(v)
           /\ v.current = d /\ v.keys = w.keys /\ v.items = w.items
           /\ v.modal = w.modal
           /\ v.page.kind = w.page.kind /\ v.page.id = w.page.id
           /\ IF w.page.kind = "update" THEN v.page.stray = w.page.stray
              ELSE v.page.stray <=> d # w.page.id
  <1> DEFINE v == Came(w, d)
  <1>1. w \in App /\ d \in Ids /\ d # None
    BY ErpAssumption DEF Core, Ids
  <1>2. CASE w.page.kind = "update"
    <2>1. v = CurrentItem(w, d)
      BY <1>2 DEF Came
    <2> HIDE DEF v
    <2>2. /\ v \in App /\ v.current = d
          /\ v.keys = w.keys /\ v.items = w.items /\ v.page = w.page
          /\ v.modal = w.modal /\ v.calls = w.calls
      BY <1>1, <2>1, CurrentItemFields
    <2>3. Slice(v)
      BY <1>1, <2>2, SameCore DEF Slice, ReadSeen
    <2>4. QED
      BY <1>2, <2>2, <2>3 DEF v
  <1>3. CASE w.page.kind # "update"
    <2>1. v = Seen(w, d)
      BY <1>3 DEF Came
    <2> HIDE DEF v
    <2>2. /\ v \in App /\ v.current = d
          /\ v.page.kind = w.page.kind /\ v.page.id = w.page.id
          /\ v.page.stray <=> d # w.page.id
          /\ v.keys = w.keys /\ v.items = w.items
          /\ v.modal = w.modal /\ v.calls = w.calls
      BY <1>1, <2>1, SeenFields
    <2>3. Slice(v)
      BY <1>1, <2>2, SameCore DEF Slice, ReadSeen
    <2>4. QED
      BY <1>3, <2>2, <2>3 DEF v
  <1>4. QED
    BY <1>2, <1>3

\* A document that comes fits any page that waits for nothing else.
LEMMA CameFits ==
    ASSUME NEW w, Core(w, Kinds), NEW d \in Docs, Routed(w), Asks(w),
           w.page.kind = "create" => ~w.keys["create"].isSuccess,
           w.page.kind = "update" => Agrees(w) /\ Leaves(w)
    PROVE  LET v == Came(w, d) IN Slice(v) /\ Fits(v)
  <1>1. CASE w.page.kind = "pay"
    <2> DEFINE u == Seen(w, d)
               v == CurrentAction(u, "pay", d)
    <2>1. w \in App /\ d \in Ids /\ d # None /\ "pay" \in Kinds
      BY ErpAssumption DEF Core, Ids, Kinds
    <2>2. /\ u \in App /\ u.current = d
          /\ u.page.kind = w.page.kind /\ u.page.id = w.page.id
          /\ u.page.stray <=> d # w.page.id
          /\ u.keys = w.keys /\ u.modal = w.modal /\ u.calls = w.calls
      BY <2>1, SeenFields
    <2> HIDE DEF u
    <2>3. Slice(u)
      BY <2>1, <2>2, SameCore DEF Slice, ReadSeen
    <2>4. Slice(v)
      BY <2>1, <2>3, CurrentActionSlice
    <2>5. /\ v.keys["pay"].current = d
          /\ v.current = u.current /\ v.page = u.page /\ v.modal = u.modal
      BY <2>1, <2>2, CurrentActionFields
    <2> HIDE DEF v
    <2>6. v.page.kind = "pay" /\ ~v.modal
      BY <1>1, <2>2, <2>5 DEF Asks
    <2>7. Routed(v) /\ Agrees(v)
      BY <1>1, <2>2, <2>5 DEF Routed, Agrees
    <2>8. Came(w, d) = PayShown(v)
      BY <1>1 DEF Came, v, u
    <2>9. QED
      BY <2>4, <2>6, <2>7, <2>8, PayShownFits
  <1>2. CASE w.page.kind # "pay"
    <2> DEFINE v == Came(w, d)
    <2>1. /\ Slice(v)
          /\ v.current = d /\ v.keys = w.keys /\ v.items = w.items
          /\ v.modal = w.modal
          /\ v.page.kind = w.page.kind /\ v.page.id = w.page.id
          /\ IF w.page.kind = "update" THEN v.page.stray = w.page.stray
             ELSE v.page.stray <=> d # w.page.id
      BY <1>2, CameFields
    <2> HIDE DEF v
    <2>2. Agrees(v)
      BY <1>2, <2>1 DEF Agrees, Shown
    <2>3. Leaves(v)
      BY <1>2, <2>1 DEF Leaves, Shown
    <2>4. Asks(v) /\ Routed(v)
      BY <2>1 DEF Asks, Routed
    <2>5. QED
      BY <2>1, <2>2, <2>3, <2>4 DEF Fits, v
  <1>3. QED
    BY <1>1, <1>2

\* What the answer to one kind leaves of the keys of the others.
LEMMA SucceededOthers ==
    ASSUME NEW w, NEW kind \in Kinds, Core(w, Kinds \ {kind}), NEW d \in Ids,
           kind = "create" => d # None
    PROVE  LET v == Succeeded(w, kind, d) IN
           /\ Core(v, Kinds) /\ v \in App
           /\ v.keys[kind].isSuccess
           /\ \A k \in Kinds \ {kind} : v.keys[k] = w.keys[k]
           /\ v.current = w.current /\ v.items = w.items /\ v.page = w.page
           /\ v.modal = w.modal
  <1>1. w \in App
    BY DEF Core
  <1>2. QED
    BY <1>1, SucceededFields, SucceededCore

LEMMA ReadOkFits ==
    ASSUME NEW w, Core(w, Kinds \ {"read"}), Fits(w), NEW d \in Docs
    PROVE  LET v == ReadOk(w, d) IN Slice(v) /\ Fits(v)
  <1> DEFINE r == Succeeded(w, "read", d)
             s == Seen(r, d)
             f == CurrentAction(s, "update", d)
  <1>1. "read" \in Kinds /\ "update" \in Kinds /\ d \in Ids /\ w \in App
        /\ d # None
    BY ErpAssumption DEF Kinds, Ids, Core
  <1>2. /\ Core(r, Kinds) /\ r \in App
        /\ \A k \in Kinds \ {"read"} : r.keys[k] = w.keys[k]
        /\ r.current = w.current /\ r.items = w.items /\ r.page = w.page
        /\ r.modal = w.modal
    BY <1>1, SucceededOthers
  <1> HIDE DEF r
  <1>3. /\ r.keys["create"] = w.keys["create"]
        /\ r.keys["delete"] = w.keys["delete"]
        /\ r.keys["update"] = w.keys["update"]
    BY <1>2 DEF Kinds
  <1>4. Routed(r) /\ Asks(r)
    BY <1>2, <1>3 DEF Fits, Routed, Asks
  <1>5. CASE w.page.kind # "update"
    <2>1. r.page.kind = "create" => ~r.keys["create"].isSuccess
      BY <1>2, <1>3 DEF Fits, Leaves
    <2>2. Slice(Came(r, d)) /\ Fits(Came(r, d))
      BY <1>2, <1>4, <1>5, <2>1, CameFits
    <2>3. ReadOk(w, d) = Came(r, d)
      BY <1>5 DEF ReadOk, r
    <2>4. QED
      BY <2>2, <2>3
  <1>6. CASE w.page.kind = "update"
    <2>1. /\ s \in App /\ s.current = d
          /\ s.page.kind = r.page.kind /\ s.page.id = r.page.id
          /\ s.page.stray <=> d # r.page.id
          /\ s.keys = r.keys /\ s.modal = r.modal /\ s.calls = r.calls
      BY <1>2, SeenFields
    <2> HIDE DEF s
    <2>2. Slice(s)
      BY <1>1, <1>2, <2>1, SameCore DEF Slice, ReadSeen
    <2>3. Slice(f)
      BY <1>1, <2>2, CurrentActionSlice
    <2>4. /\ f \in App /\ f.keys["update"].current = d
          /\ f.keys["update"].isSuccess = s.keys["update"].isSuccess
          /\ f.page = s.page /\ f.modal = s.modal
      BY <1>1, <2>1, CurrentActionFields
    <2> HIDE DEF f
    <2>5. f.page.kind = "update" /\ ~f.modal
      BY <1>2, <1>4, <1>6, <2>1, <2>4 DEF Asks
    <2>6. Routed(f)
      BY <1>4, <2>1, <2>4 DEF Routed
    <2>7. CASE w.keys["update"].isSuccess
      <3>1. f.page \in Page
        BY <2>4 DEF App
      <3>2. f.page.id \in Docs
        BY <2>5, <2>6, <3>1 DEF Routed, Page, Ids
      <3>3. Slice(Saved(f)) /\ Fits(Saved(f))
        BY <2>3, <3>2, SavedFits
      <3>4. ReadOk(w, d) = Saved(f)
        BY <1>6, <2>7 DEF ReadOk, f, s, r
      <3>5. QED
        BY <3>3, <3>4
    <2>8. CASE ~w.keys["update"].isSuccess
      <3>1. Agrees(f)
        BY <2>1, <2>4, <2>5 DEF Agrees
      <3>2. Leaves(f)
        BY <1>3, <2>1, <2>4, <2>5, <2>8 DEF Leaves
      <3>3. Fits(f)
        BY <2>5, <2>6, <3>1, <3>2 DEF Fits, Asks
      <3>4. ReadOk(w, d) = f
        BY <1>6, <2>8 DEF ReadOk, f, s, r
      <3>5. QED
        BY <2>3, <3>3, <3>4
    <2>9. QED
      BY <2>7, <2>8
  <1>7. QED
    BY <1>5, <1>6

\* A page of a document has one.
LEMMA PageId ==
    ASSUME NEW w \in App, Routed(w), w.page.kind \in {"read", "update", "pay"}
    PROVE  w.page.id \in Docs
  <1>1. w.page \in Page
    BY DEF App
  <1>2. w.page.id # None
    BY DEF Routed
  <1>3. QED
    BY <1>1, <1>2 DEF Page, Ids

LEMMA UpdateOkFits ==
    ASSUME NEW w, Core(w, Kinds \ {"update"}), Fits(w), NEW d \in Docs
    PROVE  LET v == UpdateOk(w, d) IN Slice(v) /\ Fits(v)
  <1> DEFINE r == Succeeded(w, "update", None)
             u == Came(r, d)
  <1>1. "update" \in Kinds /\ None \in Ids /\ w \in App
    BY DEF Kinds, Ids, Core
  <1>2. /\ Core(r, Kinds)
        /\ \A k \in Kinds \ {"update"} : r.keys[k] = w.keys[k]
        /\ r.current = w.current /\ r.items = w.items /\ r.page = w.page
        /\ r.modal = w.modal
    BY <1>1, SucceededOthers
  <1> HIDE DEF r
  <1>3. /\ r.keys["create"] = w.keys["create"]
        /\ r.keys["delete"] = w.keys["delete"]
        /\ r.keys["read"] = w.keys["read"]
    BY <1>2 DEF Kinds
  <1>4. Routed(r) /\ Asks(r)
    BY <1>2, <1>3 DEF Fits, Routed, Asks
  <1>5. CASE w.page.kind = "update" /\ Shown(w)
    <2>1. Slice(u) /\ u.page.id = r.page.id
      BY <1>2, <1>5, CameFields
    <2> HIDE DEF u
    <2>2. u.page.id \in Docs
      BY <1>1, <1>2, <1>5, <2>1, PageId DEF Fits
    <2>3. Slice(Saved(u)) /\ Fits(Saved(u))
      BY <2>1, <2>2, SavedFits
    <2>4. UpdateOk(w, d) = Saved(u)
      BY <1>5 DEF UpdateOk, u, r
    <2>5. QED
      BY <2>3, <2>4
  <1>6. CASE ~(w.page.kind = "update" /\ Shown(w))
    <2>1. r.page.kind = "create" => ~r.keys["create"].isSuccess
      BY <1>2, <1>3 DEF Fits, Leaves
    <2>2. r.page.kind = "update" => ~Shown(r)
      BY <1>2, <1>3, <1>6 DEF Shown
    <2>3. r.page.kind = "update" => Agrees(r) /\ Leaves(r)
      BY <2>2 DEF Agrees, Leaves
    <2>4. Slice(u) /\ Fits(u)
      BY <1>2, <1>4, <2>1, <2>3, CameFits
    <2>5. UpdateOk(w, d) = u
      BY <1>6 DEF UpdateOk, u, r
    <2>6. QED
      BY <2>4, <2>5
  <1>7. QED
    BY <1>5, <1>6

LEMMA CreateOkFits ==
    ASSUME NEW w, Core(w, Kinds \ {"create"}), Fits(w), NEW d \in Docs
    PROVE  LET v == CreateOk(w, d) IN Slice(v) /\ Fits(v)
  <1> DEFINE r == Succeeded(w, "create", d)
             u == Came(r, d)
  <1>1. "create" \in Kinds /\ d \in Ids /\ w \in App /\ d # None
    BY ErpAssumption DEF Kinds, Ids, Core
  <1>2. /\ Core(r, Kinds) /\ r.keys["create"].isSuccess
        /\ \A k \in Kinds \ {"create"} : r.keys[k] = w.keys[k]
        /\ r.current = w.current /\ r.items = w.items /\ r.page = w.page
        /\ r.modal = w.modal
    BY <1>1, SucceededOthers
  <1> HIDE DEF r
  <1>3. /\ r.keys["update"] = w.keys["update"]
        /\ r.keys["delete"] = w.keys["delete"]
        /\ r.keys["read"] = w.keys["read"]
    BY <1>2 DEF Kinds
  <1>4. Routed(r) /\ Asks(r)
    BY <1>2, <1>3 DEF Fits, Routed, Asks
  <1>5. CASE w.page.kind = "create"
    <2>1. Slice(u) /\ u.keys = r.keys
      BY <1>2, <1>5, CameFields
    <2> HIDE DEF u
    <2>2. Slice(Created(u)) /\ Fits(Created(u))
      BY <1>2, <2>1, CreatedFits
    <2>3. CreateOk(w, d) = Created(u)
      BY <1>5 DEF CreateOk, u, r
    <2>4. QED
      BY <2>2, <2>3
  <1>6. CASE w.page.kind # "create"
    <2>1. r.page.kind = "update" => Agrees(r) /\ Leaves(r)
      BY <1>2, <1>3 DEF Fits, Agrees, Leaves, Shown
    <2>2. Slice(u) /\ Fits(u)
      BY <1>2, <1>4, <1>6, <2>1, CameFits
    <2>3. CreateOk(w, d) = u
      BY <1>6 DEF CreateOk, u, r
    <2>4. QED
      BY <2>2, <2>3
  <1>7. QED
    BY <1>5, <1>6

LEMMA PayOkFits ==
    ASSUME NEW w, Core(w, Kinds \ {"pay"}), Fits(w), NEW d \in Docs
    PROVE  LET v == PayOk(w, d) IN Slice(v) /\ Fits(v)
  <1> DEFINE r == Succeeded(w, "pay", None)
  <1>1. "pay" \in Kinds /\ None \in Ids
    BY DEF Kinds, Ids
  <1>2. /\ Core(r, Kinds)
        /\ \A k \in Kinds \ {"pay"} : r.keys[k] = w.keys[k]
        /\ r.current = w.current /\ r.items = w.items /\ r.page = w.page
        /\ r.modal = w.modal
    BY <1>1, SucceededOthers
  <1> HIDE DEF r
  <1>3. /\ r.keys["update"] = w.keys["update"]
        /\ r.keys["delete"] = w.keys["delete"]
        /\ r.keys["read"] = w.keys["read"]
        /\ r.keys["create"] = w.keys["create"]
    BY <1>2 DEF Kinds
  <1>4. Routed(r) /\ Asks(r)
    BY <1>2, <1>3 DEF Fits, Routed, Asks
  <1>5. r.page.kind = "create" => ~r.keys["create"].isSuccess
    BY <1>2, <1>3 DEF Fits, Leaves
  <1>6. r.page.kind = "update" => Agrees(r) /\ Leaves(r)
    BY <1>2, <1>3 DEF Fits, Agrees, Leaves, Shown
  <1>7. Slice(Came(r, d)) /\ Fits(Came(r, d))
    BY <1>2, <1>4, <1>5, <1>6, CameFits
  <1>8. QED
    BY <1>7 DEF PayOk, r

\* The pay page takes its document from the new list, or asks for it again.
LEMMA ListOkFits ==
    ASSUME NEW w, Core(w, Kinds \ {"list"}), ReadSeen(w), Fits(w),
           NEW docs \in SUBSET Docs
    PROVE  LET v == ListOk(w, docs) IN Slice(v) /\ Fits(v)
  <1> DEFINE t == Succeeded(w, "list", None)
             r == [t EXCEPT !.items = docs]
             id == w.page.id
  <1>1. "list" \in Kinds /\ None \in Ids /\ w \in App
    BY DEF Kinds, Ids, Core
  <1>2. /\ Core(t, Kinds) /\ t \in App
        /\ \A k \in Kinds \ {"list"} : t.keys[k] = w.keys[k]
        /\ t.current = w.current /\ t.page = w.page /\ t.modal = w.modal
    BY <1>1, SucceededOthers
  <1> HIDE DEF t
  <1>3. /\ r \in App /\ r.items = docs
        /\ r.keys = t.keys /\ r.current = t.current /\ r.page = t.page
        /\ r.modal = t.modal /\ r.calls = t.calls
    BY <1>2 DEF App
  <1> HIDE DEF r
  <1>4. /\ r.keys["create"] = w.keys["create"]
        /\ r.keys["delete"] = w.keys["delete"]
        /\ r.keys["update"] = w.keys["update"]
        /\ r.keys["read"] = w.keys["read"]
        /\ r.keys["pay"] = w.keys["pay"]
    BY <1>2, <1>3 DEF Kinds
  <1>5. Slice(r)
    BY <1>2, <1>3, <1>4, SameCore DEF Slice, ReadSeen
  <1>6. Routed(r) /\ Asks(r) /\ Leaves(r)
    BY <1>2, <1>3, <1>4 DEF Fits, Routed, Asks, Leaves, Shown
  <1>7. CASE w.page.kind = "pay" /\ id \in docs
    <2>1. id \in Docs /\ r.page.kind = "pay"
      BY <1>2, <1>3, <1>7
    <2>2. Slice(Came(r, id)) /\ Fits(Came(r, id))
      BY <1>5, <1>6, <2>1, CameFits DEF Slice
    <2>3. ListOk(w, docs) = Came(r, id)
      BY <1>7 DEF ListOk, r, t
    <2>4. QED
      BY <2>2, <2>3
  <1>8. CASE w.page.kind = "pay" /\ id \in w.items \ docs
    <2> DEFINE v == Request(r, "read", id)
    <2>1. /\ id \in Docs /\ id \in Ids /\ r.page.kind = "pay"
          /\ "read" \in Kinds /\ "pay" \in Kinds /\ <<"read", id>> \in Calls
      BY <1>1, <1>2, <1>3, <1>8 DEF App, Ids, Kinds, Calls
    <2>2. Core(v, Kinds)
      BY <1>5, <2>1, RequestCore DEF Slice
    <2>3. /\ v.keys["read"].isLoading
          /\ v.keys["read"].isSuccess = r.keys["read"].isSuccess
          /\ \A k \in Kinds \ {"read"} : v.keys[k] = r.keys[k]
          /\ v.current = r.current /\ v.items = r.items /\ v.page = r.page
          /\ v.modal = r.modal
      BY <1>3, <2>1, ReadRequest
    <2> HIDE DEF v
    <2>4. v.keys["pay"] = r.keys["pay"]
      BY <2>1, <2>3
    <2>5. ReadSeen(v)
      BY <1>5, <2>3 DEF Slice, ReadSeen
    <2>6. ~v.modal
      BY <1>6, <2>1, <2>3 DEF Asks
    <2>7. v.keys["pay"].current = v.current
      BY <1>2, <1>3, <1>4, <1>8, <2>3, <2>4 DEF Fits, Agrees
    <2>8. v.page.id \notin v.items /\ v.page.kind = "pay"
      BY <1>2, <1>3, <1>8, <2>1, <2>3
    <2>9. Agrees(v)
      BY <2>3, <2>7, <2>8 DEF Agrees, Shown
    <2>10. Leaves(v)
      BY <1>6, <2>3, <2>4, <2>8 DEF Leaves
    <2>11. Routed(v)
      BY <1>6, <2>3 DEF Routed
    <2>12. Fits(v)
      BY <2>6, <2>9, <2>10, <2>11 DEF Fits, Asks
    <2>13. ListOk(w, docs) = v
      BY <1>8 DEF ListOk, v, r, t
    <2>14. QED
      BY <2>2, <2>5, <2>12, <2>13 DEF Slice
  <1>9. CASE ~(w.page.kind = "pay" /\ id \in docs)
             /\ ~(w.page.kind = "pay" /\ id \in w.items \ docs)
    <2>1. r.page.kind = "pay" => r.page.id \notin r.items
      BY <1>2, <1>3, <1>9
    <2>2. Shown(r) <=> Shown(w)
      BY <1>4 DEF Shown
    <2>3. Agrees(r)
      BY <1>2, <1>3, <1>4, <2>1, <2>2 DEF Fits, Agrees
    <2>4. Fits(r)
      BY <1>6, <2>3 DEF Fits
    <2>5. ListOk(w, docs) = r
      BY <1>9 DEF ListOk, r, t
    <2>6. QED
      BY <1>5, <2>4, <2>5
  <1>10. QED
    BY <1>7, <1>8, <1>9

\* The modal that is open while its key succeeds has a document, so it closes.
LEMMA DeleteOkFits ==
    ASSUME NEW w, Core(w, Kinds \ {"delete"}), ReadSeen(w), Fits(w)
    PROVE  LET v == DeleteOk(w) IN Slice(v) /\ Fits(v)
  <1> DEFINE r == Succeeded(w, "delete", None)
             s == [r EXCEPT !.modal = FALSE]
             key == w.keys["delete"]
  <1>1. "delete" \in Kinds /\ None \in Ids
    BY DEF Kinds, Ids
  <1>2. /\ Core(r, Kinds) /\ r \in App
        /\ \A k \in Kinds \ {"delete"} : r.keys[k] = w.keys[k]
        /\ r.current = w.current /\ r.items = w.items /\ r.page = w.page
        /\ r.modal = w.modal
    BY <1>1, SucceededOthers
  <1>3. DeleteOk(w) = IF w.page.kind = "list"
                         /\ (~key.isSuccess \/ key.current # None)
                      THEN Request(s, "list", None) ELSE r
    BY DEF DeleteOk
  <1> HIDE DEF r
  <1>4. /\ r.keys["create"] = w.keys["create"]
        /\ r.keys["update"] = w.keys["update"]
        /\ r.keys["read"] = w.keys["read"]
        /\ r.keys["pay"] = w.keys["pay"]
    BY <1>2 DEF Kinds
  <1>5. Slice(r)
    BY <1>2, <1>4 DEF Slice, ReadSeen
  <1>6. Routed(r) /\ Agrees(r) /\ Leaves(r)
    BY <1>2, <1>4 DEF Fits, Routed, Agrees, Leaves, Shown
  <1>7. CASE w.page.kind = "list" /\ (~key.isSuccess \/ key.current # None)
    <2>1. /\ s \in App /\ ~s.modal
          /\ s.keys = r.keys /\ s.current = r.current /\ s.items = r.items
          /\ s.page = r.page /\ s.calls = r.calls
      BY <1>2 DEF App
    <2>2. DeleteOk(w) = Request(s, "list", None)
      BY <1>3, <1>7
    <2> HIDE DEF s
    <2>3. Slice(s)
      BY <1>5, <2>1, SameCore DEF Slice, ReadSeen
    <2>4. Fits(s)
      BY <1>6, <2>1 DEF Fits, Routed, Agrees, Leaves, Asks, Shown
    <2>5. QED
      BY <2>2, <2>3, <2>4, RelistFits
  <1>8. CASE ~(w.page.kind = "list" /\ (~key.isSuccess \/ key.current # None))
    <2>1. DeleteOk(w) = r
      BY <1>3, <1>8
    <2>2. ~w.modal
      BY <1>8 DEF Fits, Asks
    <2>3. Fits(r)
      BY <1>2, <1>6, <2>2 DEF Fits, Asks
    <2>4. QED
      BY <1>5, <2>1, <2>3
  <1>9. QED
    BY <1>7, <1>8

LEMMA AnswerKeeps ==
    ASSUME ErpInv, NEW c \in Calls, Answer(c)
    PROVE  ErpInv'
  <1> DEFINE w == [app EXCEPT !.calls[c] = @ - 1]
  <1>1. Slice(app) /\ Fits(app) /\ app.calls[c] > 0
    BY DEF ErpInv, Answer
  <1>2. Core(w, Kinds \ {c[1]}) /\ ReadSeen(w) /\ Fits(w)
    BY <1>1, Answered
  <1>3. c[1] \in Kinds
    BY CallKinds
  <1>4. c[1] \in {"read", "update", "pay"} => c[2] \in Docs
    BY DEF Calls
  <1>5. \/ app' = Failed(w, c[1])
        \/ c[1] = "read" /\ app' = ReadOk(w, c[2])
        \/ c[1] = "update" /\ app' = UpdateOk(w, c[2])
        \/ c[1] = "create" /\ \E d \in Docs : app' = CreateOk(w, d)
        \/ c[1] = "pay" /\ app' = PayOk(w, c[2])
        \/ c[1] = "list" /\ \E docs \in SUBSET Docs : app' = ListOk(w, docs)
        \/ c[1] = "delete" /\ app' = DeleteOk(w)
    BY DEF Answer
  <1> HIDE DEF w
  <1> SUFFICES Slice(app') /\ Fits(app')
    BY DEF ErpInv
  <1>6. CASE app' = Failed(w, c[1])
    BY <1>2, <1>3, <1>6, FailedFits
  <1>7. CASE c[1] = "read" /\ app' = ReadOk(w, c[2])
    BY <1>2, <1>4, <1>7, ReadOkFits
  <1>8. CASE c[1] = "update" /\ app' = UpdateOk(w, c[2])
    BY <1>2, <1>4, <1>8, UpdateOkFits
  <1>9. CASE c[1] = "create" /\ \E d \in Docs : app' = CreateOk(w, d)
    BY <1>2, <1>9, CreateOkFits
  <1>10. CASE c[1] = "pay" /\ app' = PayOk(w, c[2])
    BY <1>2, <1>4, <1>10, PayOkFits
  <1>11. CASE c[1] = "list" /\ \E docs \in SUBSET Docs : app' = ListOk(w, docs)
    BY <1>2, <1>11, ListOkFits
  <1>12. CASE c[1] = "delete" /\ app' = DeleteOk(w)
    BY <1>2, <1>12, DeleteOkFits
  <1>13. QED
    BY <1>5, <1>6, <1>7, <1>8, <1>9, <1>10, <1>11, <1>12

-----------------------------------------------------------------------------
(* The user *)

LEMMA CurrentItemSlice ==
    ASSUME NEW w, Slice(w), NEW d \in Docs
    PROVE  Slice(CurrentItem(w, d))
  <1> DEFINE v == CurrentItem(w, d)
  <1>1. w \in App /\ d \in Ids /\ d # None
    BY ErpAssumption DEF Slice, Core, Ids
  <1>2. v \in App /\ v.current = d /\ v.keys = w.keys /\ v.calls = w.calls
    BY <1>1, CurrentItemFields
  <1> HIDE DEF v
  <1>3. Core(v, Kinds)
    BY <1>2, SameCore DEF Slice
  <1>4. ReadSeen(v)
    BY <1>1, <1>2 DEF ReadSeen
  <1>5. QED
    BY <1>3, <1>4 DEF Slice, v

\* Only the modal can be wrong on the list.
LEMMA ListFits ==
    ASSUME NEW v, v.page.kind = "list", v.page.id = None, Asks(v)
    PROVE  Fits(v)
  BY DEF Fits, Routed, Agrees, Leaves

LEMMA RowKeeps ==
    ASSUME Slice(app), Fits(app), NEW d \in Docs, Row(d)
    PROVE  Slice(app') /\ Fits(app')
  <1>1. CASE ReadRow(d)
    <2>1. Slice(CurrentItem(app, d))
      BY CurrentItemSlice
    <2>2. QED
      BY <1>1, <2>1, OpenReadFits DEF ReadRow
  <1>2. CASE EditRow(d)
    <2>1. "update" \in Kinds /\ d \in Ids
      BY DEF Kinds, Ids
    <2>2. Slice(CurrentAction(app, "update", d))
      BY <2>1, CurrentActionSlice
    <2>3. QED
      BY <1>2, <2>2, OpenUpdateFits DEF EditRow
  <1>3. CASE RecordPayment(d)
    <2>1. Slice(CurrentItem(app, d))
      BY CurrentItemSlice
    <2>2. QED
      BY <1>3, <2>1, OpenPayFits DEF RecordPayment
  <1>4. CASE DeleteRow(d)
    <2> DEFINE u == CurrentAction(app, "delete", d)
               v == [u EXCEPT !.modal = TRUE]
    <2>1. "delete" \in Kinds /\ d \in Ids /\ d # None /\ app \in App
      BY ErpAssumption DEF Kinds, Ids, Slice, Core
    <2>2. app.page.kind = "list" /\ app.page.id = None /\ ~app.modal
      BY <1>4 DEF DeleteRow, Sees, Fits, Routed
    <2>3. Slice(u)
      BY <2>1, CurrentActionSlice
    <2>4. /\ u \in App /\ u.keys["delete"].current = d
          /\ u.keys["delete"].isSuccess = app.keys["delete"].isSuccess
          /\ u.page = app.page /\ u.modal = app.modal
      BY <2>1, CurrentActionFields
    <2>5. app' = IF app.keys["delete"].isSuccess THEN Request(u, "list", None)
                 ELSE v
      BY <1>4 DEF DeleteRow
    <2> HIDE DEF u
    <2>6. CASE app.keys["delete"].isSuccess
      <3>1. Fits(u)
        BY <2>2, <2>4, ListFits DEF Asks
      <3>2. QED
        BY <2>3, <2>5, <2>6, <3>1, RelistFits
    <2>7. CASE ~app.keys["delete"].isSuccess
      <3>1. /\ v \in App /\ v.keys = u.keys /\ v.current = u.current
            /\ v.page = u.page /\ v.calls = u.calls
        BY <2>4 DEF App
      <3>2. app' = v
        BY <2>5, <2>7
      <3> HIDE DEF v
      <3>3. Slice(v)
        BY <2>3, <3>1, SameCore DEF Slice, ReadSeen
      <3>4. Asks(v)
        BY <2>1, <2>2, <2>4, <2>7, <3>1 DEF Asks
      <3>5. Fits(v)
        BY <2>2, <2>4, <3>1, <3>4, ListFits
      <3>6. QED
        BY <3>2, <3>3, <3>5
    <2>8. QED
      BY <2>6, <2>7
  <1>5. QED
    BY <1>1, <1>2, <1>3, <1>4 DEF Row

\* What is deleted is the document that the modal asked about.
LEMMA ConfirmKeeps ==
    ASSUME Slice(app), Fits(app), Confirm
    PROVE  Slice(app') /\ Fits(app')
  <1> DEFINE d == app.keys["delete"].current
             u == ResetAction(app, "delete")
             v == [u EXCEPT !.modal = FALSE]
  <1>1. "delete" \in Kinds /\ "delete" # "read" /\ app \in App
    BY DEF Kinds, Slice, Core
  <1>2. app.page.kind = "list" /\ d # None
    BY DEF Confirm, Fits, Asks
  <1>3. app.page.id = None
    BY <1>2 DEF Fits, Routed
  <1>4. app.keys["delete"] \in Key
    BY <1>1, KeyFields
  <1>5. d \in Docs
    BY <1>2, <1>4 DEF Key, Ids
  <1>6. Slice(u)
    BY <1>1, ResetActionSlice
  <1>7. u \in App /\ u.page = app.page
    BY <1>1, ResetActionFields
  <1>8. app' = Request(v, "delete", d)
    BY DEF Confirm
  <1> HIDE DEF u, d
  <1>9. /\ v \in App /\ ~v.modal /\ v.keys = u.keys /\ v.current = u.current
        /\ v.page = u.page /\ v.calls = u.calls
    BY <1>7 DEF App
  <1> HIDE DEF v
  <1>10. Slice(v)
    BY <1>6, <1>9, SameCore DEF Slice, ReadSeen
  <1>11. Fits(v)
    BY <1>2, <1>3, <1>7, <1>9, ListFits DEF Asks
  <1>12. d \in Ids /\ <<"delete", d>> \in Calls
    BY <1>5 DEF Ids, Calls
  <1>13. QED
    BY <1>1, <1>8, <1>10, <1>11, <1>12, RequestFits

LEMMA CancelKeeps ==
    ASSUME Slice(app), Fits(app), Cancel
    PROVE  Slice(app') /\ Fits(app')
  <1>1. app \in App /\ app' = [app EXCEPT !.modal = FALSE]
    BY DEF Cancel, Slice, Core
  <1>2. /\ app' \in App /\ ~app'.modal
        /\ app'.keys = app.keys /\ app'.current = app.current
        /\ app'.items = app.items /\ app'.page = app.page
        /\ app'.calls = app.calls
    BY <1>1 DEF App
  <1>3. Slice(app')
    BY <1>2, SameCore DEF Slice, ReadSeen
  <1>4. Fits(app')
    BY <1>2 DEF Fits, Routed, Agrees, Leaves, Asks, Shown
  <1>5. QED
    BY <1>3, <1>4

LEMMA EditShownKeeps ==
    ASSUME Slice(app), Fits(app), EditShown
    PROVE  Slice(app') /\ Fits(app')
  <1> DEFINE d == app.current
  <1>1. d \in Ids /\ "update" \in Kinds
    BY DEF Slice, Core, App, Kinds
  <1>2. d \in Docs
    BY <1>1 DEF EditShown, Shown, Slice, ReadSeen, Ids
  <1>3. Slice(CurrentAction(app, "update", d))
    BY <1>1, CurrentActionSlice
  <1>4. app' = OpenUpdate(CurrentAction(app, "update", d), d)
    BY DEF EditShown
  <1> HIDE DEF d
  <1>5. QED
    BY <1>2, <1>3, <1>4, OpenUpdateFits

LEMMA SubmitKeeps ==
    ASSUME Slice(app), Fits(app), SubmitUpdate \/ SubmitCreate \/ SubmitPay
    PROVE  Slice(app') /\ Fits(app')
  <1>1. app \in App /\ Routed(app) /\ None \in Ids
    BY DEF Slice, Core, Fits, Ids
  <1>2. CASE SubmitUpdate
    <2> DEFINE id == app.page.id
    <2>1. app.page.kind = "update" /\ app' = Request(app, "update", id)
      BY <1>2 DEF SubmitUpdate, Sees
    <2>2. id \in Docs
      BY <1>1, <2>1, PageId
    <2> HIDE DEF id
    <2>3. id \in Ids /\ "update" \in Kinds /\ <<"update", id>> \in Calls
      BY <2>2 DEF Ids, Kinds, Calls
    <2>4. QED
      BY <2>1, <2>3, RequestFits
  <1>3. CASE SubmitCreate
    <2>1. "create" \in Kinds /\ <<"create", None>> \in Calls
      BY DEF Kinds, Calls
    <2>2. QED
      BY <1>1, <1>3, <2>1, RequestFits DEF SubmitCreate
  <1>4. CASE SubmitPay
    <2> DEFINE id == app.keys["pay"].current
    <2>1. /\ app.page.kind = "pay" /\ app.current # None
          /\ app' = Request(app, "pay", id)
      BY <1>4 DEF SubmitPay, Sees
    <2>2. id = app.current
      BY <2>1 DEF Fits, Agrees
    <2>3. id \in Docs
      BY <1>1, <2>1, <2>2 DEF App, Ids
    <2> HIDE DEF id
    <2>4. id \in Ids /\ "pay" \in Kinds /\ <<"pay", id>> \in Calls
      BY <2>3 DEF Ids, Kinds, Calls
    <2>5. QED
      BY <2>1, <2>4, RequestFits
  <1>5. QED
    BY <1>2, <1>3, <1>4

LEMMA UserKeeps ==
    ASSUME ErpInv, User
    PROVE  ErpInv'
  <1>1. Slice(app) /\ Fits(app) /\ app \in App
    BY DEF ErpInv, Slice, Core
  <1> SUFFICES Slice(app') /\ Fits(app')
    BY DEF ErpInv
  <1>2. CASE \E d \in Docs : Row(d)
    BY <1>1, <1>2, RowKeeps
  <1>3. CASE Confirm
    BY <1>1, <1>3, ConfirmKeeps
  <1>4. CASE Cancel
    BY <1>1, <1>4, CancelKeeps
  <1>5. CASE Relist
    BY <1>1, <1>5, RelistFits DEF Relist
  <1>6. CASE AddNew
    BY <1>1, <1>6, OpenCreateFits DEF AddNew
  <1>7. CASE EditShown
    BY <1>1, <1>7, EditShownKeeps
  <1>8. CASE SubmitUpdate \/ SubmitCreate \/ SubmitPay
    BY <1>1, <1>8, SubmitKeeps
  <1>9. CASE Menu
    BY <1>1, <1>9, OpenListFits, OpenHomeFits DEF Menu
  <1>10. CASE \E kind \in Routes, d \in Docs : History(kind, d)
    <2>1. PICK d \in Docs : \/ app' = OpenRead(app, d)
                            \/ app' = OpenUpdate(app, d)
                            \/ app' = OpenPay(app, d)
                            \/ app' = OpenCreate(app)
                            \/ app' = OpenList(app)
      BY <1>10 DEF History
    <2>2. QED
      BY <1>1, <2>1, OpenReadFits, OpenUpdateFits, OpenPayFits, OpenCreateFits,
         OpenListFits
  <1>11. QED
    BY <1>2, <1>3, <1>4, <1>5, <1>6, <1>7, <1>8, <1>9, <1>10 DEF User

-----------------------------------------------------------------------------
(* The invariant and what it implies *)

LEMMA InitialSlice == Slice(InitialApp) /\ Fits(InitialApp)
  <1> DEFINE w == InitialApp
             none == [c \in Calls |-> 0]
             keys == [kind \in Kinds |-> InitialKey]
             page == [kind |-> "home", id |-> None, stray |-> FALSE]
  <1>1. none \in [Calls -> Nat]
    OBVIOUS
  <1>2. keys \in [Kinds -> Key] /\ \A k \in Kinds : keys[k] = InitialKey
    BY InitialKeyTyped
  <1>3. /\ page \in Page /\ page.kind = "home" /\ page.id = None
    BY DEF Page, Routes, Ids
  <1>4. w = [keys |-> keys, current |-> None, items |-> {}, page |-> page,
             modal |-> FALSE, calls |-> none]
    BY DEF InitialApp
  <1> HIDE DEF none, keys, page, w
  <1>5. /\ w \in App /\ ~w.modal /\ w.page = page
        /\ \A k \in Kinds : w.keys[k] = InitialKey
    BY <1>1, <1>2, <1>3, <1>4 DEF App, Ids
  <1>6. "read" \in Kinds /\ "create" \in Kinds
    BY DEF Kinds
  <1>7. Core(w, Kinds) /\ ReadSeen(w)
    BY <1>5, <1>6, InitialKeyTyped DEF Core, Loads, ReadSeen
  <1>8. Fits(w)
    BY <1>3, <1>5 DEF Fits, Routed, Agrees, Leaves, Asks
  <1>9. QED
    BY <1>7, <1>8 DEF Slice, w

LEMMA InitKeeps ==
    ASSUME Init PROVE ErpInv
  <1>1. Slice(InitialApp) /\ Fits(InitialApp)
    BY InitialSlice
  <1>2. InitialApp \in App
    BY <1>1 DEF Slice, Core
  <1>3. Slice(app) /\ Fits(app)
    BY <1>1, <1>2, OpenListFits, OpenCreateFits, OpenReadFits, OpenUpdateFits,
       OpenPayFits DEF Init
  <1>4. QED
    BY <1>3 DEF ErpInv

\* The invariant holds of every state that any clicks, moves and answers reach.
THEOREM ErpInvariant == Spec => []ErpInv
  <1>1. Init => ErpInv
    BY InitKeeps
  <1>2. ErpInv /\ [Next]_app => ErpInv'
    <2> SUFFICES ASSUME ErpInv, [Next]_app PROVE ErpInv'
      OBVIOUS
    <2>1. CASE User
      BY <2>1, UserKeeps
    <2>2. CASE \E c \in Calls : Answer(c)
      BY <2>2, AnswerKeeps
    <2>3. CASE UNCHANGED app
      BY <2>3 DEF ErpInv, Slice, Core, Loads, ReadSeen, Fits, Routed, Agrees,
                  Leaves, Asks, Shown
    <2>4. QED
      BY <2>1, <2>2, <2>3 DEF Next
  <1>3. QED
    BY <1>1, <1>2, PTL DEF Spec

\* However the user came to a page of a document, the route names it, and the
\* slice and the calls have the shapes that the pages rely on.
THEOREM TypeCorrect == Spec => []TypeOK
  <1>1. ErpInv => TypeOK
    BY DEF ErpInv, Slice, Core, Fits, Routed, TypeOK
  <1>2. QED
    BY <1>1, ErpInvariant, PTL

\* The update form holds the document it is sent for, the document page shows
\* its own, and a payment goes to the invoice that is shown, once the page took
\* its own document last.
THEOREM FormsAlwaysAgree == Spec => []FormsAgree
  <1>1. ErpInv => FormsAgree
    BY DEF ErpInv, Fits, Agrees, FormsAgree
  <1>2. QED
    BY <1>1, ErpInvariant, PTL

\* UpdateItem, CreateItem and RecordPayment never stay on a success.
THEOREM SuccessAlwaysLeaves == Spec => []SuccessLeaves
  <1>1. ErpInv => SuccessLeaves
    BY DEF ErpInv, Fits, Leaves, SuccessLeaves
  <1>2. QED
    BY <1>1, ErpInvariant, PTL

\* The modal of DeleteItem is open over the list only, with a document and no
\* success of an earlier deletion.
THEOREM ModalAlwaysAsks == Spec => []ModalAsks
  <1>1. ErpInv => ModalAsks
    BY DEF ErpInv, Fits, Asks, ModalAsks
  <1>2. QED
    BY <1>1, ErpInvariant, PTL

\* isLoading of a key is never left on by the calls that were answered.
THEOREM NothingKeepsLoading == Spec => []NothingLoads
  <1>1. ErpInv => NothingLoads
    BY DEF ErpInv, Slice, Core, Loads, NothingLoads
  <1>2. QED
    BY <1>1, ErpInvariant, PTL
=============================================================================

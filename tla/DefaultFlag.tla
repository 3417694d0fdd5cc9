---------------------------- MODULE DefaultFlag ----------------------------
(***************************************************************************)
(* The default tax and the default payment mode: the create and update     *)
(* handlers of taxesController and paymentModeController, which are the    *)
(* same code over two collections.                                         *)
(*                                                                         *)
(* Documents are never removed.  Each handler is one action per database   *)
(* call; other requests run in between.                                    *)
(***************************************************************************)
EXTENDS Integers, FiniteSets

CONSTANTS
    Docs,           \* document ids
    Seed,           \* the one the setup script inserts
    Requests,       \* slots for requests being served at the same time
    Defaults,       \* values a body can carry for isDefault
    Enables,        \* values a body can carry for enabled
    MaxFailures     \* bound on database calls that fail

Choice == {"yes", "no"}

ASSUME FlagAssumption ==
    /\ Seed \in Docs
    /\ Defaults \subseteq Choice \union {"absent"}
    /\ Enables \subseteq Choice \union {"absent"}
    /\ MaxFailures \in Nat

VARIABLES
    docs,           \* documents in the collection
    enabled,        \* those with enabled: true
    default,        \* those with isDefault: true
    req,            \* what each slot is doing
    failures        \* database calls that have failed

vars == <<docs, enabled, default, req, failures>>

-----------------------------------------------------------------------------
Stage == {"idle", "createClear", "createCount", "createSave",
          "updateOthers", "updateCount", "updateWrite"}

\* The body of a request and what the handler made of it: isDefault and
\* enabled after the missing ones are filled in.
Request == [pc : Stage, doc : Docs,
            bodyDefault : Choice \union {"absent"},
            bodyEnabled : Choice \union {"absent"},
            isDefault : Choice, enabled : Choice]

IdleRequest == [pc |-> "idle", doc |-> Seed,
                bodyDefault |-> "absent", bodyEnabled |-> "absent",
                isDefault |-> "no", enabled |-> "no"]

Idle(r) == req[r].pc = "idle"

Answer(r) == req' = [req EXCEPT ![r] = IdleRequest]

Goto(r, stage) == req' = [req EXCEPT ![r].pc = stage]

YesNo(b) == IF b THEN "yes" ELSE "no"

\* A field of a body, or what the document has when the body lacks it.
FilledIn(field, flagged, d) ==
    IF field = "absent" THEN YesNo(d \in flagged) ELSE field

\* What a document's flag is after the field of a body is written.
Flagged(flagged, d, field) ==
    CASE field = "yes"    -> flagged \union {d}
      [] field = "no"     -> flagged \ {d}
      [] field = "absent" -> flagged

-----------------------------------------------------------------------------
(* create *)

CreateBegin(r, def, en) ==
    /\ Idle(r)
    /\ req' = [req EXCEPT ![r] =
           [IdleRequest EXCEPT
               !.pc = IF def = "yes" THEN "createClear" ELSE "createCount",
               !.bodyDefault = def, !.bodyEnabled = en]]
    /\ UNCHANGED <<docs, enabled, default, failures>>

CreateClear(r) ==
    /\ req[r].pc = "createClear"
    /\ default' = {}
    /\ Goto(r, "createCount")
    /\ UNCHANGED <<docs, enabled, failures>>

\* A slip: the flag is taken from the body.
CreateCountBody(r) ==
    /\ req[r].pc = "createCount"
    /\ req' = [req EXCEPT ![r].pc = "createSave",
                          ![r].isDefault = YesNo(req[r].bodyDefault = "yes")]
    /\ UNCHANGED <<docs, enabled, default, failures>>

\* The new document is the default if none is, whatever the body says.
CreateCount(r) ==
    /\ req[r].pc = "createCount"
    /\ req' = [req EXCEPT ![r].pc = "createSave",
                          ![r].isDefault = YesNo(default = {})]
    /\ UNCHANGED <<docs, enabled, default, failures>>

\* The schema makes a document enabled unless the body says otherwise.
CreateSave(r, d) ==
    /\ req[r].pc = "createSave"
    /\ d \notin docs
    /\ docs' = docs \union {d}
    /\ default' = IF req[r].isDefault = "yes" THEN default \union {d} ELSE default
    /\ enabled' = IF req[r].bodyEnabled = "no" THEN enabled ELSE enabled \union {d}
    /\ Answer(r)
    /\ UNCHANGED failures

-----------------------------------------------------------------------------
(* update *)

\* A slip: a document that is not there is created.
UpdateReadOrInsert(r, d, def, en) ==
    /\ Idle(r)
    /\ req' = [req EXCEPT ![r] =
           [pc |-> "updateOthers", doc |-> d,
            bodyDefault |-> def, bodyEnabled |-> en,
            isDefault |-> FilledIn(def, default, d),
            enabled |-> FilledIn(en, enabled, d)]]
    /\ UNCHANGED <<docs, enabled, default, failures>>

UpdateRead(r, d, def, en) ==
    /\ Idle(r)
    /\ d \in docs
    /\ req' = [req EXCEPT ![r] =
           [pc |-> "updateOthers", doc |-> d,
            bodyDefault |-> def, bodyEnabled |-> en,
            isDefault |-> FilledIn(def, default, d),
            enabled |-> FilledIn(en, enabled, d)]]
    /\ UNCHANGED <<docs, enabled, default, failures>>

\* The document is to be an enabled default.
Elected(q) == q.isDefault = "yes" /\ q.enabled = "yes"

\* A slip: an elected document does not displace the one before it.
DisplacedNone(q) == default

\* A slip: the elected document is cleared with the others.
DisplacedAll(q) == {}

\* All documents but the elected one stop being the default.
Displaced(q) == default \intersect {q.doc}

\* Another enabled document is made default first, the one the query happens
\* to meet, if there is one; or all others stop being it.
UpdateOthers(r) == LET q == req[r] IN
    /\ q.pc = "updateOthers"
    /\ \/ /\ ~Elected(q)
          /\ IF enabled \ {q.doc} = {} THEN UNCHANGED default
             ELSE \E d \in enabled \ {q.doc} : default' = default \union {d}
       \/ Elected(q) /\ default' = Displaced(q)
    /\ Goto(r, "updateCount")
    /\ UNCHANGED <<docs, enabled, failures>>

\* The only document cannot be disabled nor give the default up.
UpdateCount(r) ==
    /\ req[r].pc = "updateCount"
    /\ IF ~Elected(req[r]) /\ docs = {req[r].doc}
       THEN Answer(r)
       ELSE Goto(r, "updateWrite")
    /\ UNCHANGED <<docs, enabled, default, failures>>

UpdateWrite(r) == LET q == req[r] IN
    /\ q.pc = "updateWrite"
    /\ default' = Flagged(default, q.doc, q.bodyDefault)
    /\ enabled' = Flagged(enabled, q.doc, q.bodyEnabled)
    /\ Answer(r)
    /\ UNCHANGED <<docs, failures>>

-----------------------------------------------------------------------------
\* A call fails: the handler answers 500 where it stands.
RequestFail(r) ==
    /\ ~Idle(r)
    /\ failures < MaxFailures
    /\ failures' = failures + 1
    /\ Answer(r)
    /\ UNCHANGED <<docs, enabled, default>>

Init ==
    /\ docs = {Seed} /\ enabled = {Seed} /\ default = {Seed}
    /\ req = [r \in Requests |-> IdleRequest]
    /\ failures = 0

Begin(r) == \E def \in Defaults, en \in Enables :
    \/ CreateBegin(r, def, en)
    \/ \E d \in Docs : UpdateRead(r, d, def, en)

Continue(r) ==
    \/ CreateClear(r)
    \/ CreateCount(r)
    \/ \E d \in Docs : CreateSave(r, d)
    \/ UpdateOthers(r)
    \/ UpdateCount(r)
    \/ UpdateWrite(r)

Next == \E r \in Requests : Begin(r) \/ Continue(r) \/ RequestFail(r)

Spec == Init /\ [][Next]_vars
-----------------------------------------------------------------------------
TypeOK ==
    /\ docs \subseteq Docs
    /\ enabled \subseteq docs /\ default \subseteq docs
    /\ req \in [Requests -> Request]
    /\ failures \in Nat

Quiet == \A r \in Requests : Idle(r)

\* When requests come one at a time and no call has failed, the collection is
\* without a default only if no document could be handed it: at most one is
\* enabled.
DefaultUnlessLone ==
    Quiet /\ failures = 0 /\ default = {} => \A c, d \in enabled : c = d

\* "we update other taxes and make is isDefault:false": when an update has
\* written an enabled default, it is the only default.
ElectedAlone ==
    [][\A r \in Requests :
           req[r].pc = "updateWrite" /\ Elected(req[r]) /\ Idle(r)'
           /\ failures' = failures
           => default' = {req[r].doc}]_vars

\* When requests come one at a time, a document that has been created leaves
\* a default behind, also after a request that failed halfway left none.
CreationRestores ==
    [][docs' # docs => default' # {}]_vars
=============================================================================

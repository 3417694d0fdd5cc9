-------------------------- MODULE DefaultFlagProofs --------------------------
(***************************************************************************)
(* Theorems about DefaultFlag.  Alone: requests come one at a time.        *)
(***************************************************************************)
EXTENDS DefaultFlag, TLAPS

Alone == Requests # {} /\ \A r, s \in Requests : r = s

-----------------------------------------------------------------------------
(* Types. *)

Typed == TypeOK /\ \A r \in Requests : req[r].pc \in
             {"updateOthers", "updateCount", "updateWrite"} => req[r].doc \in docs

LEMMA IdleTyped == IdleRequest \in Request /\ IdleRequest.pc = "idle"
  BY FlagAssumption DEF IdleRequest, Request, Stage, Choice

LEMMA InitTyped == Init => Typed
  BY FlagAssumption, IdleTyped DEF Init, Typed, TypeOK

LEMMA NextTyped == Typed /\ [Next]_vars => Typed'
  <1> SUFFICES ASSUME Typed, [Next]_vars PROVE Typed'
    OBVIOUS
  <1> USE FlagAssumption, IdleTyped
  <1>1. ASSUME NEW r \in Requests, NEW def \in Defaults, NEW en \in Enables,
               CreateBegin(r, def, en)
        PROVE  Typed'
    <2> DEFINE q == [IdleRequest EXCEPT
               !.pc = IF def = "yes" THEN "createClear" ELSE "createCount",
               !.bodyDefault = def, !.bodyEnabled = en]
    <2>1. q \in Request /\ q.pc \in {"createClear", "createCount"}
      BY DEF IdleRequest, Request, Stage, Choice
    <2>2. req' = [req EXCEPT ![r] = q] /\ UNCHANGED <<docs, enabled, default, failures>>
      BY <1>1 DEF CreateBegin
    <2> HIDE DEF q
    <2>3. QED
      BY <2>1, <2>2 DEF Typed, TypeOK
  <1>2. ASSUME NEW r \in Requests, CreateClear(r)
        PROVE  Typed'
    BY <1>2 DEF CreateClear, Goto, Typed, TypeOK, Request, Stage
  <1>3. ASSUME NEW r \in Requests, CreateCount(r)
        PROVE  Typed'
    <2> DEFINE c == YesNo(default = {})
    <2>1. c \in Choice
      BY DEF YesNo, Choice
    <2>2. /\ req' = [req EXCEPT ![r].pc = "createSave", ![r].isDefault = c]
          /\ UNCHANGED <<docs, enabled, default, failures>>
      BY <1>3 DEF CreateCount
    <2> HIDE DEF c
    <2>3. [req[r] EXCEPT !.pc = "createSave", !.isDefault = c] \in Request
      BY <2>1 DEF Typed, TypeOK, Request, Stage
    <2>4. QED
      BY <2>2, <2>3 DEF Typed, TypeOK
  <1>4. ASSUME NEW r \in Requests, NEW d \in Docs, CreateSave(r, d)
        PROVE  Typed'
    BY <1>4 DEF CreateSave, Answer, Typed, TypeOK
  <1>5. ASSUME NEW r \in Requests, NEW d \in Docs, NEW def \in Defaults,
               NEW en \in Enables, UpdateRead(r, d, def, en)
        PROVE  Typed'
    <2> DEFINE q == [pc |-> "updateOthers", doc |-> d,
            bodyDefault |-> def, bodyEnabled |-> en,
            isDefault |-> FilledIn(def, default, d),
            enabled |-> FilledIn(en, enabled, d)]
    <2>1. q \in Request /\ q.pc = "updateOthers" /\ q.doc = d
      BY DEF FilledIn, YesNo, Request, Stage, Choice
    <2>2. /\ req' = [req EXCEPT ![r] = q] /\ d \in docs
          /\ UNCHANGED <<docs, enabled, default, failures>>
      BY <1>5 DEF UpdateRead
    <2> HIDE DEF q
    <2>3. QED
      BY <2>1, <2>2 DEF Typed, TypeOK
  <1>6. ASSUME NEW r \in Requests, UpdateOthers(r)
        PROVE  Typed'
    <2>1. /\ req' = [req EXCEPT ![r].pc = "updateCount"]
          /\ UNCHANGED <<docs, enabled, failures>>
          /\ req[r].pc = "updateOthers"
      BY <1>6 DEF UpdateOthers, Goto
    <2>2. default' \subseteq docs
      BY <1>6 DEF UpdateOthers, Displaced, Typed, TypeOK
    <2>3. req' \in [Requests -> Request]
      BY <2>1 DEF Typed, TypeOK, Request, Stage
    <2>4. QED
      BY <2>1, <2>2, <2>3 DEF Typed, TypeOK, Request
  <1>7. ASSUME NEW r \in Requests, UpdateCount(r)
        PROVE  Typed'
    BY <1>7 DEF UpdateCount, Goto, Answer, Typed, TypeOK, Request, Stage
  <1>8. ASSUME NEW r \in Requests, UpdateWrite(r)
        PROVE  Typed'
    <2>1. default' \subseteq docs /\ enabled' \subseteq docs
      BY <1>8 DEF UpdateWrite, Flagged, Typed, TypeOK, Request, Choice
    <2>2. QED
      BY <1>8, <2>1 DEF UpdateWrite, Answer, Typed, TypeOK
  <1>9. ASSUME NEW r \in Requests, RequestFail(r)
        PROVE  Typed'
    BY <1>9 DEF RequestFail, Answer, Typed, TypeOK
  <1>10. CASE UNCHANGED vars
    BY <1>10 DEF vars, Typed, TypeOK
  <1>11. QED
    BY <1>1, <1>2, <1>3, <1>4, <1>5, <1>6, <1>7, <1>8, <1>9, <1>10
    DEF Next, Begin, Continue

\* Flags are only ever set on documents of the collection.
THEOREM TypeCorrect == Spec => []TypeOK
  <1>1. Typed => TypeOK
    BY DEF Typed
  <1>2. QED
    BY <1>1, InitTyped, NextTyped, PTL DEF Spec

-----------------------------------------------------------------------------
(* One request at a time: what its handler has established so far. *)

Handed == default = {} => \A c, d \in enabled : c = d

\* How far a request has come decides what is known of the flags.
Stands(q) ==
    /\ q.pc = "idle" /\ failures = 0 => Handed
    /\ q.pc = "createSave" => (q.isDefault = "yes" <=> default = {})
    /\ q.pc \in {"updateOthers", "updateCount", "updateWrite"} =>
           /\ q.bodyDefault # "absent" => q.isDefault = q.bodyDefault
           /\ q.bodyDefault = "absent" /\ q.isDefault = "yes" => q.doc \in default
    /\ q.pc \in {"updateCount", "updateWrite"} =>
           \/ Elected(q) /\ default \subseteq {q.doc}
           \/ ~Elected(q) /\ (default \ {q.doc} # {} \/ enabled \subseteq {q.doc})

Standing == \A r \in Requests : Stands(req[r])

FlagInv == Typed /\ Standing

LEMMA InitFlag == Init => FlagInv
  BY InitTyped, IdleTyped, FlagAssumption
  DEF Init, FlagInv, Standing, Stands, Handed

LEMMA NextFlag ==
    ASSUME Alone
    PROVE  FlagInv /\ [Next]_vars => FlagInv'
  <1> SUFFICES ASSUME FlagInv, [Next]_vars PROVE FlagInv'
    OBVIOUS
  <1> USE FlagAssumption, IdleTyped
  <1>0. Typed' /\ Typed
    BY NextTyped DEF FlagInv
  <1>1. ASSUME NEW r \in Requests, NEW def \in Defaults, NEW en \in Enables,
               CreateBegin(r, def, en)
        PROVE  Standing'
    <2>1. req'[r].pc \in {"createClear", "createCount"}
      BY <1>0, <1>1 DEF CreateBegin, IdleRequest, Typed, TypeOK
    <2>2. \A s \in Requests : s = r
      BY DEF Alone
    <2>3. QED
      BY <1>1, <2>1, <2>2 DEF CreateBegin, Standing, Stands, FlagInv
  <1>2. ASSUME NEW r \in Requests, CreateClear(r)
        PROVE  Standing'
    <2>1. req'[r].pc = "createCount" /\ \A s \in Requests : s = r
      BY <1>0, <1>2 DEF CreateClear, Goto, Typed, TypeOK, Request, Alone
    <2>2. QED
      BY <1>2, <2>1 DEF CreateClear, Standing, Stands, FlagInv
  <1>3. ASSUME NEW r \in Requests, CreateCount(r)
        PROVE  Standing'
    <2>1. /\ req'[r].pc = "createSave"
          /\ req'[r].isDefault = YesNo(default = {})
          /\ \A s \in Requests : s = r
      BY <1>0, <1>3 DEF CreateCount, Typed, TypeOK, Request, Alone
    <2>2. req'[r].isDefault = "yes" <=> default' = {}
      BY <1>3, <2>1 DEF CreateCount, YesNo
    <2>3. QED
      BY <1>3, <2>1, <2>2 DEF CreateCount, Standing, Stands, FlagInv
  <1>4. ASSUME NEW r \in Requests, NEW d \in Docs, CreateSave(r, d)
        PROVE  Standing'
    <2>1. req'[r].pc = "idle" /\ \A s \in Requests : s = r
      BY <1>0, <1>4 DEF CreateSave, Answer, Typed, TypeOK, Alone
    <2>2. default' # {}
      BY <1>4 DEF CreateSave, FlagInv, Standing, Stands
    <2>3. QED
      BY <1>4, <2>1, <2>2 DEF CreateSave, Standing, Stands, Handed, FlagInv
  <1>5. ASSUME NEW r \in Requests, NEW d \in Docs, NEW def \in Defaults,
               NEW en \in Enables, UpdateRead(r, d, def, en)
        PROVE  Standing'
    <2>1. /\ req'[r].pc = "updateOthers" /\ req'[r].doc = d
          /\ req'[r].bodyDefault = def
          /\ req'[r].isDefault = FilledIn(def, default, d)
          /\ \A s \in Requests : s = r
      BY <1>0, <1>5 DEF UpdateRead, Typed, TypeOK, Alone
    <2>2. QED
      BY <1>5, <2>1
      DEF UpdateRead, FilledIn, YesNo, Standing, Stands, FlagInv, Choice
  <1>6. ASSUME NEW r \in Requests, UpdateOthers(r)
        PROVE  Standing'
    <2>1. /\ req'[r] = [req[r] EXCEPT !.pc = "updateCount"]
          /\ req[r] \in Request
          /\ \A s \in Requests : s = r
      BY <1>0, <1>6 DEF UpdateOthers, Goto, Typed, TypeOK, Alone
    <2>2. /\ req'[r].pc = "updateCount" /\ req'[r].doc = req[r].doc
          /\ req'[r].bodyDefault = req[r].bodyDefault
          /\ req'[r].isDefault = req[r].isDefault
          /\ req'[r].enabled = req[r].enabled
      BY <2>1 DEF Request
    <2>3. /\ req[r].bodyDefault # "absent" =>
                 req[r].isDefault = req[r].bodyDefault
          /\ req[r].bodyDefault = "absent" /\ req[r].isDefault = "yes" =>
                 req[r].doc \in default
      BY <1>6 DEF UpdateOthers, FlagInv, Standing, Stands
    <2>4. CASE Elected(req[r])
      <3>1. default' = default \intersect {req[r].doc}
        BY <1>6, <2>4 DEF UpdateOthers, Displaced
      <3>2. QED
        <4>1. Stands(req[r])'
          BY <2>2, <2>3, <2>4, <3>1 DEF Stands, Elected
        <4>2. QED
          BY <1>6, <2>1, <4>1 DEF UpdateOthers, Standing, FlagInv
    <2>5. CASE ~Elected(req[r])
      <3>1. /\ default \subseteq default' /\ enabled' = enabled
            /\ default' \ {req[r].doc} # {} \/ enabled \subseteq {req[r].doc}
        BY <1>6, <2>5 DEF UpdateOthers
      <3>2. QED
        <4>1. Stands(req[r])'
          BY <2>2, <2>3, <2>5, <3>1 DEF Stands, Elected
        <4>2. QED
          BY <1>6, <2>1, <4>1 DEF UpdateOthers, Standing, FlagInv
    <2>6. QED
      BY <2>4, <2>5
  <1>7. ASSUME NEW r \in Requests, UpdateCount(r)
        PROVE  Standing'
    <2>1. \A s \in Requests : s = r
      BY DEF Alone
    <2>2. CASE ~Elected(req[r]) /\ docs = {req[r].doc}
      <3>1. req'[r].pc = "idle" /\ UNCHANGED <<enabled, default, failures>>
        BY <1>0, <1>7, <2>2 DEF UpdateCount, Answer, Typed, TypeOK
      <3>2. \A c, d \in enabled : c = d
        BY <1>0, <2>2 DEF Typed, TypeOK
      <3>3. QED
        BY <2>1, <3>1, <3>2 DEF Standing, Stands, Handed, FlagInv
    <2>3. CASE ~(~Elected(req[r]) /\ docs = {req[r].doc})
      <3>1. /\ req' = [req EXCEPT ![r].pc = "updateWrite"]
            /\ UNCHANGED <<enabled, default, failures>>
            /\ req[r].pc = "updateCount"
        BY <1>7, <2>3 DEF UpdateCount, Goto
      <3>2. /\ req'[r].pc = "updateWrite" /\ req'[r].doc = req[r].doc
            /\ req'[r].bodyDefault = req[r].bodyDefault
            /\ req'[r].isDefault = req[r].isDefault
            /\ req'[r].enabled = req[r].enabled
        BY <1>0, <3>1 DEF Typed, TypeOK, Request
      <3>3. QED
        BY <2>1, <3>1, <3>2 DEF Standing, Stands, Elected, FlagInv
    <2>4. QED
      BY <2>2, <2>3
  <1>8. ASSUME NEW r \in Requests, UpdateWrite(r)
        PROVE  Standing'
    <2>1. /\ req'[r].pc = "idle" /\ \A s \in Requests : s = r
          /\ req[r].bodyDefault \in {"yes", "no", "absent"}
          /\ req[r].bodyEnabled \in {"yes", "no", "absent"}
      BY <1>0, <1>8
      DEF UpdateWrite, Answer, Typed, TypeOK, Alone, Request, Choice
    <2>2. default' = {} => enabled' \subseteq {req[r].doc}
      BY <1>8, <2>1
      DEF UpdateWrite, Flagged, FlagInv, Standing, Stands, Elected
    <2>3. QED
      BY <1>8, <2>1, <2>2 DEF UpdateWrite, Standing, Stands, Handed, FlagInv
  <1>9. ASSUME NEW r \in Requests, RequestFail(r)
        PROVE  Standing'
    <2>1. failures' # 0 /\ req'[r].pc = "idle" /\ \A s \in Requests : s = r
      BY <1>0, <1>9 DEF RequestFail, Answer, Typed, TypeOK, Alone
    <2>2. QED
      BY <2>1 DEF Standing, Stands
  <1>10. CASE UNCHANGED vars
    <2>1. UNCHANGED <<docs, enabled, default, req, failures>>
      BY <1>10 DEF vars
    <2>2. ASSUME NEW r \in Requests PROVE Stands(req[r])'
      <3>1. Stands(req[r])
        BY DEF FlagInv, Standing
      <3>2. QED
        BY <2>1, <3>1 DEF Stands, Elected, Handed
    <2>3. QED
      BY <1>0, <2>1, <2>2 DEF FlagInv, Standing
  <1>11. QED
    BY <1>0, <1>1, <1>2, <1>3, <1>4, <1>5, <1>6, <1>7, <1>8, <1>9, <1>10
    DEF Next, Begin, Continue, FlagInv

\* When requests come one at a time, at most one document is enabled whenever no
\* request is served, no call has failed and there is no default, for any
\* collection and any bodies.
THEOREM DefaultKept ==
    ASSUME Alone
    PROVE  Spec => []DefaultUnlessLone
  <1>1. FlagInv => DefaultUnlessLone
    <2> SUFFICES ASSUME FlagInv, Quiet, failures = 0, default = {},
                        NEW c \in enabled, NEW d \in enabled
                 PROVE  c = d
      BY DEF DefaultUnlessLone
    <2>1. QED
      BY DEF Alone, Quiet, Idle, FlagInv, Standing, Stands, Handed
  <1>2. QED
    BY <1>1, InitFlag, NextFlag, PTL DEF Spec

LEMMA WriteElects ==
    ASSUME FlagInv, NEW r \in Requests, req[r].pc = "updateWrite",
           Elected(req[r]), UpdateWrite(r)
    PROVE  default' = {req[r].doc}
  <1>1. /\ default \subseteq {req[r].doc}
        /\ req[r].bodyDefault \in {"yes", "absent"}
        /\ req[r].bodyDefault = "absent" => req[r].doc \in default
    BY DEF FlagInv, Standing, Stands, Elected, Typed, TypeOK, Request, Choice
  <1>2. default' = Flagged(default, req[r].doc, req[r].bodyDefault)
    BY DEF UpdateWrite
  <1>3. CASE req[r].bodyDefault = "yes"
    BY <1>1, <1>2, <1>3 DEF Flagged
  <1>4. CASE req[r].bodyDefault = "absent"
    <2>1. default' = default
      BY <1>2, <1>4 DEF Flagged
    <2>2. QED
      BY <1>1, <1>4, <2>1
  <1>5. QED
    BY <1>1, <1>3, <1>4

\* A request about to write can only write, or fail.
LEMMA OnlyWrites ==
    ASSUME Alone, Typed, [Next]_vars, NEW r \in Requests,
           req[r].pc = "updateWrite", req'[r].pc = "idle"
    PROVE  UpdateWrite(r) \/ RequestFail(r)
  <1>1. ASSUME NEW s \in Requests PROVE s = r
    BY DEF Alone
  <1>2. ~Begin(r)
    BY DEF Begin, CreateBegin, UpdateRead, Idle
  <1>3. ~CreateClear(r) /\ ~CreateCount(r) /\ ~UpdateOthers(r) /\ ~UpdateCount(r)
    BY DEF CreateClear, CreateCount, UpdateOthers, UpdateCount
  <1>4. \A d \in Docs : ~CreateSave(r, d)
    BY DEF CreateSave
  <1>5. ~UNCHANGED vars
    BY DEF vars
  <1>6. QED
    BY <1>1, <1>2, <1>3, <1>4, <1>5 DEF Next, Continue

\* When requests come one at a time, an update that has written an enabled
\* default has made it the only default, whatever failed before.
THEOREM ElectionClears ==
    ASSUME Alone
    PROVE  Spec => ElectedAlone
  <1>1. FlagInv /\ [Next]_vars => \A r \in Requests :
            req[r].pc = "updateWrite" /\ Elected(req[r]) /\ Idle(r)'
            /\ failures' = failures
            => default' = {req[r].doc}
    <2> SUFFICES ASSUME FlagInv, [Next]_vars, NEW r \in Requests,
                        req[r].pc = "updateWrite", Elected(req[r]), Idle(r)',
                        failures' = failures
                 PROVE  default' = {req[r].doc}
      OBVIOUS
    <2>1. UpdateWrite(r) \/ RequestFail(r)
      BY OnlyWrites DEF FlagInv, Idle
    <2>2. ~RequestFail(r)
      BY DEF RequestFail, FlagInv, Typed, TypeOK
    <2>3. QED
      BY <2>1, <2>2, WriteElects
  <1>2. QED
    BY <1>1, InitFlag, NextFlag, PTL DEF Spec, ElectedAlone

-----------------------------------------------------------------------------
(* What a creation has counted stays so when no other request is served. *)

Counted == \A r \in Requests :
    req[r].pc = "createSave" => (req[r].isDefault = "yes" <=> default = {})

LEMMA NextCounted == ASSUME Alone PROVE Typed /\ Counted /\ [Next]_vars => Counted'
  <1> SUFFICES ASSUME Typed, Counted, [Next]_vars, NEW r \in Requests,
                      req'[r].pc = "createSave"
               PROVE  req'[r].isDefault = "yes" <=> default' = {}
    BY DEF Counted
  <1>1. ASSUME NEW s \in Requests PROVE s = r
    BY DEF Alone
  <1>2. CASE CreateCount(r)
    <2>1. req'[r].isDefault = YesNo(default = {}) /\ default' = default
      BY <1>2 DEF CreateCount, Typed, TypeOK, Request
    <2>2. QED
      BY <2>1 DEF YesNo
  <1>3. ~Begin(r)
    <2>1. \A def, en : ~CreateBegin(r, def, en)
      BY DEF CreateBegin, IdleRequest, Typed, TypeOK
    <2>2. \A d, def, en : ~UpdateRead(r, d, def, en)
      BY DEF UpdateRead, Typed, TypeOK
    <2>3. QED
      BY <2>1, <2>2 DEF Begin
  <1>4. ~CreateClear(r)
    BY DEF CreateClear, Goto, Typed, TypeOK, Request
  <1>5. ~UpdateOthers(r)
    BY DEF UpdateOthers, Goto, Typed, TypeOK, Request
  <1>6. ~UpdateCount(r)
    BY IdleTyped DEF UpdateCount, Goto, Answer, Typed, TypeOK, Request
  <1>7. ~UpdateWrite(r) /\ ~RequestFail(r) /\ \A d \in Docs : ~CreateSave(r, d)
    BY IdleTyped DEF UpdateWrite, RequestFail, CreateSave, Answer, Typed, TypeOK
  <1>8. CASE UNCHANGED vars
    BY <1>8 DEF vars, Counted
  <1>9. QED
    BY <1>1, <1>2, <1>3, <1>4, <1>5, <1>6, <1>7, <1>8 DEF Next, Continue

\* When requests come one at a time, whatever failed before, a document that
\* has been created leaves a default behind.
THEOREM CreationLeavesDefault ==
    ASSUME Alone
    PROVE  Spec => CreationRestores
  <1>1. Init => Typed /\ Counted
    BY InitTyped, IdleTyped DEF Init, Counted
  <1>2. Typed /\ Counted /\ [Next]_vars => (docs' # docs => default' # {})
    <2> SUFFICES ASSUME Counted, [Next]_vars, docs' # docs PROVE default' # {}
      OBVIOUS
    <2>1. PICK r \in Requests, d \in Docs : CreateSave(r, d)
      <3>1. ~UNCHANGED vars
        BY DEF vars
      <3>2. \A r \in Requests : ~Begin(r) /\ ~RequestFail(r)
        <4>1. \A r, def, en : ~CreateBegin(r, def, en)
          BY DEF CreateBegin
        <4>2. \A r, d, def, en : ~UpdateRead(r, d, def, en)
          BY DEF UpdateRead
        <4>3. QED
          BY <4>1, <4>2 DEF Begin, RequestFail
      <3>3. \A r \in Requests : ~CreateClear(r) /\ ~CreateCount(r)
        BY DEF CreateClear, CreateCount
      <3>4. \A r \in Requests :
                ~UpdateOthers(r) /\ ~UpdateCount(r) /\ ~UpdateWrite(r)
        BY DEF UpdateOthers, UpdateCount, UpdateWrite
      <3>5. QED
        BY <3>1, <3>2, <3>3, <3>4 DEF Next, Continue
    <2>2. QED
      BY <2>1 DEF CreateSave, Counted
  <1>3. QED
    BY <1>1, <1>2, NextTyped, NextCounted, PTL DEF Spec, CreationRestores

==============================================================================

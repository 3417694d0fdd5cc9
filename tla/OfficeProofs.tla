----------------------------- MODULE OfficeProofs -----------------------------
(***************************************************************************)
(* Proofs about the parts of MCOffice, for any values of their constants,  *)
(* part after part: the types of each, and what its run checks of it.  In  *)
(* the end they are put together: what a part keeps, the office keeps.     *)
(*                                                                         *)
(*   Numbering   CountersKeepUp, NumbersInReach                            *)
(*   Lookups     OptionsFollow, ShownIsSaved                               *)
(*   Totals      ShownIsStored, RowsAddUp                                  *)
(*   Files       SentWhole                                                 *)
(*   Setup       FreshSetupWorks                                           *)
(*   Summaries   CardsAddUp                                                *)
(***************************************************************************)
EXTENDS MCOffice, SumsProofs, SequenceTheorems

-----------------------------------------------------------------------------
(***************************************************************************)
(* Numbers and settings                                                    *)
(***************************************************************************)

Values == [Kinds -> Nat]

-----------------------------------------------------------------------------
(* Types *)

LEMMA ConstantsTyped ==
    /\ Zeroes \in Values
    /\ FreeCall \in Call
    /\ \A t \in Tabs : ListCall(t) \in Call
  <1>1. Zeroes \in Values
    BY DEF Zeroes, Values
  <1>2. (CHOOSE t \in Tabs : TRUE) \in Tabs /\ (CHOOSE k \in Kinds : TRUE) \in Kinds
    BY NumberingAssumption
  <1>3. FreeCall \in Call
    BY <1>1, <1>2 DEF FreeCall, Call, Stages, Values
  <1>4. \A t \in Tabs : ListCall(t) \in Call
    BY <1>3 DEF ListCall, Call, Stages
  <1>5. QED
    BY <1>1, <1>3, <1>4

\* What may be entered in the finance form are numbers, kind by kind.
LEMMA EntriesTyped ==
    ASSUME NEW t \in Tabs, tab[t] \in Tab, NEW values \in Entries(t)
    PROVE  values \in Values
  <1> DEFINE fields == tab[t].fields
  <1>1. fields \in Values
    BY DEF Tab, Values
  <1>2. CASE values = fields
    BY <1>1, <1>2
  <1>3. CASE values # fields
    <2>1. PICK k \in Kinds, n \in TypedNumbers : values = [fields EXCEPT ![k] = n]
      BY <1>3 DEF Entries
    <2>2. n \in Nat
      BY NumberingAssumption
    <2> HIDE DEF fields
    <2>3. QED
      BY <1>1, <2>1, <2>2 DEF Values
  <1>4. QED
    BY <1>2, <1>3

LEMMA TabsTyped ==
    ASSUME NEW p \in Tab, NEW values \in Values
    PROVE  /\ Mounted(p) \in Tab
           /\ Loaded(p, values) \in Tab
           /\ Unloaded(p) \in Tab
  <1>1. ASSUME NEW q \in Tab PROVE Mounted(q) \in Tab
    <2>1. CASE q.page \in Kinds
      <3>1. Mounted(q) = [q EXCEPT !.number = q.slice[q.page] + 1]
        BY <2>1, NumberingAssumption DEF Mounted
      <3>2. QED
        BY <2>1, <3>1 DEF Tab
    <2>2. CASE q.page = "finance"
      <3>1. Mounted(q) = [q EXCEPT !.fields = q.slice]
        BY <2>2, NumberingAssumption DEF Mounted
      <3>2. QED
        BY <3>1 DEF Tab
    <2>3. CASE q.page \notin Kinds \union {"finance"}
      <3>1. q.page \notin Kinds /\ q.page # "finance"
        BY <2>3
      <3>2. Mounted(q) = q
        BY <3>1 DEF Mounted
      <3>3. QED
        BY <3>2
    <2>4. QED
      BY <2>1, <2>2, <2>3
  <1>2. Loaded(p, values) \in Tab
    <2> DEFINE q == [p EXCEPT !.slice = values, !.loaded = TRUE, !.loading = FALSE]
    <2>1. q \in Tab
      BY DEF Tab, Values
    <2> HIDE DEF q
    <2>2. Loaded(p, values) = q \/ Loaded(p, values) = Mounted(q)
      BY DEF Loaded, q
    <2>3. QED
      BY <1>1, <2>1, <2>2
  <1>3. Unloaded(p) \in Tab
    BY ConstantsTyped DEF Unloaded, Tab, Values
  <1>4. QED
    BY <1>1, <1>2, <1>3

LEMMA UserTyped ==
    ASSUME NumberingTypeOK, NEW t \in Tabs, User(t) PROVE NumberingTypeOK'
  <1> USE DEF NumberingTypeOK, Odd
  <1>1. /\ tab[t] \in Tab /\ FreeCall \in Call /\ ListCall(t) \in Call
        /\ Zeroes \in Values
    BY ConstantsTyped
  <1>2. ASSUME NEW n \in TypedNumbers, TypeNumber(t, n) PROVE NumberingTypeOK'
    <2>1. [tab[t] EXCEPT !.number = n] \in Tab
      BY <1>1, NumberingAssumption DEF Tab
    <2>2. tab' \in [Tabs -> Tab]
      BY <1>2, <2>1 DEF TypeNumber
    <2>3. QED
      BY <1>2, <2>2 DEF TypeNumber
  <1>3. ASSUME NEW c \in Calls, NEW page \in Kinds \union {"home", "finance"},
               Visit(t, c, page)
        PROVE  NumberingTypeOK'
    <2> DEFINE p == Mounted([tab[t] EXCEPT !.page = page, !.number = 0, !.fields = Zeroes])
    <2>1. [tab[t] EXCEPT !.page = page, !.number = 0, !.fields = Zeroes] \in Tab
      BY <1>1 DEF Tab, Values
    <2>2. p \in Tab
      BY <1>1, <2>1, TabsTyped
    <2>3. [p EXCEPT !.loading = TRUE] \in Tab
      BY <2>2 DEF Tab
    <2> HIDE DEF p
    <2>4. /\ tab' = [tab EXCEPT ![t] = [p EXCEPT !.loading = TRUE]]
             \/ tab' = [tab EXCEPT ![t] = p]
          /\ call' = [call EXCEPT ![c] = ListCall(t)] \/ call' = call
      BY <1>3 DEF Visit, p
    <2>5. tab' \in [Tabs -> Tab] /\ call' \in [Calls -> Call]
      BY <1>1, <2>2, <2>3, <2>4
    <2>6. QED
      BY <1>3, <2>5 DEF Visit
  <1>4. ASSUME NEW c \in Calls, Reload(t, c) PROVE NumberingTypeOK'
    <2>1. Unloaded(tab[t]) \in Tab
      BY <1>1, TabsTyped
    <2>2. [Unloaded(tab[t]) EXCEPT !.slice = Zeroes, !.loading = TRUE] \in Tab
      BY <1>1, <2>1 DEF Tab, Values
    <2>3. tab' \in [Tabs -> Tab]
      BY <1>4, <2>2 DEF Reload
    <2>4. call' \in [Calls -> Call]
      BY <1>1, <1>4 DEF Reload
    <2>5. QED
      BY <1>4, <2>3, <2>4 DEF Reload
  <1>5. ASSUME NEW c \in Calls, Submit(t, c) PROVE NumberingTypeOK'
    <2>1. [FreeCall EXCEPT !.pc = "save", !.tab = t, !.kind = tab[t].page,
                           !.number = tab[t].number] \in Call
      BY <1>1, <1>5 DEF Submit, Call, Tab, Stages
    <2>2. QED
      BY <1>5, <2>1 DEF Submit
  <1>6. ASSUME NEW c \in Calls, SubmitLogo(t, c) PROVE NumberingTypeOK'
    <2>1. /\ [tab[t] EXCEPT !.loading = TRUE] \in Tab
          /\ [FreeCall EXCEPT !.pc = "failed", !.tab = t] \in Call
      BY <1>1 DEF Call, Tab, Stages
    <2>2. tab' \in [Tabs -> Tab] /\ call' \in [Calls -> Call]
      BY <1>6, <2>1 DEF SubmitLogo
    <2>3. QED
      BY <1>6, <2>2 DEF SubmitLogo
  <1>7. ASSUME NEW c \in Calls, NEW values \in Entries(t), SubmitFinance(t, c, values)
        PROVE  NumberingTypeOK'
    <2>1. values \in Values
      BY <1>1, EntriesTyped
    <2>2. /\ [tab[t] EXCEPT !.loading = TRUE, !.fields = values] \in Tab
          /\ [FreeCall EXCEPT !.pc = "write", !.tab = t, !.values = values,
                              !.todo = Kinds] \in Call
      BY <1>1, <2>1 DEF Call, Tab, Stages, Values
    <2>3. tab' = [tab EXCEPT ![t] = [tab[t] EXCEPT !.loading = TRUE, !.fields = values]]
      BY <1>1, <1>7 DEF SubmitFinance, Tab
    <2>4. tab' \in [Tabs -> Tab] /\ call' \in [Calls -> Call]
      BY <1>7, <2>2, <2>3 DEF SubmitFinance
    <2>5. QED
      BY <1>7, <2>4 DEF SubmitFinance
  <1>8. QED
    BY <1>2, <1>3, <1>4, <1>5, <1>6, <1>7 DEF User

LEMMA ServeTyped ==
    ASSUME NumberingTypeOK, NEW c \in Calls, Serve(c) PROVE NumberingTypeOK'
  <1> USE DEF NumberingTypeOK, Odd
  <1>1. call[c] \in Call
    OBVIOUS
  <1>2. ASSUME NEW stage \in Stages, Goes(c, stage) PROVE call' \in [Calls -> Call]
    <2>1. [call[c] EXCEPT !.pc = stage] \in Call
      BY <1>1 DEF Call
    <2>2. QED
      BY <1>2, <2>1 DEF Goes
  <1>3. {"name", "created", "refused", "failed"} \subseteq Stages
    BY DEF Stages
  <1>4. CASE Save(c)
    <2>1. /\ call[c].kind \in Kinds /\ call[c].number \in Nat
          /\ call' \in [Calls -> Call]
      BY <1>1, <1>2, <1>3, <1>4 DEF Save, Call
    <2>2. made' \in [Kinds -> Nat] /\ used' \in [Kinds -> SUBSET Nat]
      BY <1>4, <2>1 DEF Save
    <2>3. QED
      BY <1>4, <2>1, <2>2 DEF Save
  <1>5. CASE Name(c)
    <2>1. call[c].kind \in Kinds /\ call' \in [Calls -> Call]
      BY <1>1, <1>2, <1>3, <1>5 DEF Name, Call
    <2>2. pending' \in [Kinds -> Nat]
      BY <1>5, <2>1 DEF Name
    <2>3. QED
      BY <1>5, <2>1, <2>2 DEF Name
  <1>6. CASE List(c)
    <2>1. [call[c] EXCEPT !.pc = "listed", !.values = counter] \in Call
      BY <1>1 DEF Call, Stages
    <2>2. call' = [call EXCEPT ![c] = [call[c] EXCEPT !.pc = "listed", !.values = counter]]
      BY <1>1, <1>6 DEF List, Call
    <2>3. QED
      BY <1>6, <2>1, <2>2 DEF List
  <1>7. ASSUME NEW k \in Kinds, Write(c, k) PROVE NumberingTypeOK'
    <2> DEFINE q == [call[c] EXCEPT !.todo = @ \ {k},
                        !.pc = IF call[c].todo = {k} THEN "written" ELSE "write"]
    <2>1. q \in Call
      BY <1>1 DEF Call, Stages
    <2>2. call' = [call EXCEPT ![c] = q]
      BY <1>1, <1>7 DEF Write, Call
    <2> HIDE DEF q
    <2>3. call' \in [Calls -> Call]
      BY <2>1, <2>2
    <2>4. counter' \in [Kinds -> Nat]
      BY <1>1, <1>7 DEF Write, Call
    <2>5. missed' \subseteq Kinds
      BY <1>7 DEF Write
    <2>6. QED
      BY <1>7, <2>3, <2>4, <2>5 DEF Write
  <1>8. CASE CreateFails(c)
    <2>1. call[c].kind \in Kinds /\ call' \in [Calls -> Call]
      BY <1>1, <1>2, <1>3, <1>8 DEF CreateFails, Call
    <2>2. QED
      BY <1>8, <2>1 DEF CreateFails
  <1>9. CASE SettingsFail(c)
    BY <1>1, <1>2, <1>3, <1>9 DEF SettingsFail
  <1>10. QED
    BY <1>4, <1>5, <1>6, <1>7, <1>8, <1>9 DEF Serve

LEMMA TakeTyped ==
    ASSUME NumberingTypeOK, NEW c \in Calls, Take(c) PROVE NumberingTypeOK'
  <1> USE DEF NumberingTypeOK, Odd
  <1> DEFINE q == call[c]
             t == q.tab
             p == Loaded(tab[t], q.values)
  <1>1. q \in Call /\ t \in Tabs /\ q.values \in Values /\ tab[t] \in Tab
    BY DEF Call, Values
  <1>2. FreeCall \in Call /\ ListCall(t) \in Call
    BY <1>1, ConstantsTyped
  <1>3. /\ p \in Tab
        /\ [p EXCEPT !.loading = TRUE] \in Tab
        /\ Unloaded(tab[t]) \in Tab
        /\ [tab[t] EXCEPT !.loading = TRUE] \in Tab
        /\ [tab[t] EXCEPT !.page = "home", !.number = 0] \in Tab
    <2>1. p \in Tab /\ Unloaded(tab[t]) \in Tab
      BY <1>1, TabsTyped
    <2> HIDE DEF p
    <2>2. QED
      BY <1>1, <2>1 DEF Tab
  <1> HIDE DEF p
  <1>4. CASE Created(c)
    <2>1. tab' = tab \/ tab' = [tab EXCEPT ![t] = [tab[t] EXCEPT !.page = "home", !.number = 0]]
      BY <1>1, <1>4 DEF Created, Tab
    <2>2. QED
      BY <1>1, <1>2, <1>3, <1>4, <2>1 DEF Created
  <1>5. CASE Refused(c)
    BY <1>2, <1>5 DEF Refused
  <1>6. CASE Listed(c)
    <2>1. /\ \/ tab' = [tab EXCEPT ![t] = [p EXCEPT !.loading = TRUE]]
             \/ tab' = [tab EXCEPT ![t] = p]
          /\ \/ call' = [call EXCEPT ![c] = ListCall(t)]
             \/ call' = [call EXCEPT ![c] = FreeCall]
      BY <1>6 DEF Listed, p
    <2>2. tab' \in [Tabs -> Tab] /\ call' \in [Calls -> Call]
      BY <1>1, <1>2, <1>3, <2>1
    <2>3. QED
      BY <1>6, <2>2 DEF Listed
  <1>7. CASE Written(c)
    <2>1. tab' = [tab EXCEPT ![t] = [tab[t] EXCEPT !.loading = TRUE]]
      BY <1>1, <1>7 DEF Written, Tab
    <2>2. QED
      BY <1>1, <1>2, <1>3, <1>7, <2>1 DEF Written
  <1>8. CASE Failed(c)
    <2>1. tab' = [tab EXCEPT ![t] = Unloaded(tab[t])]
      BY <1>8 DEF Failed
    <2>2. QED
      BY <1>1, <1>2, <1>3, <1>8, <2>1 DEF Failed
  <1>9. CASE Lost(c)
    <2>1. /\ [q EXCEPT !.pc = "refused"] \in Call
          /\ [q EXCEPT !.pc = "failed"] \in Call
      BY <1>1 DEF Call, Stages
    <2>2. QED
      BY <1>9, <2>1 DEF Lost, Goes
  <1>10. QED
    BY <1>4, <1>5, <1>6, <1>7, <1>8, <1>9 DEF Take

LEMMA NextTyped ==
    ASSUME NumberingTypeOK, [NumberingNext]_numberingVars PROVE NumberingTypeOK'
  <1>1. ASSUME NEW k \in Kinds, Increase(k) \/ IncreaseFails(k) PROVE NumberingTypeOK'
    <2>1. pending' \in [Kinds -> Nat] /\ counter' \in [Kinds -> Nat]
      BY <1>1 DEF Increase, IncreaseFails, NumberingTypeOK
    <2>2. QED
      BY <1>1, <2>1 DEF Increase, IncreaseFails, NumberingTypeOK, Odd
  <1>2. CASE UNCHANGED numberingVars
    BY <1>2 DEF numberingVars, NumberingTypeOK
  <1>3. QED
    BY <1>1, <1>2, UserTyped, ServeTyped, TakeTyped DEF NumberingNext

LEMMA InitTyped == NumberingInit => NumberingTypeOK
  <1>1. FreshTab \in Tab
    BY ConstantsTyped DEF FreshTab, Tab, Values
  <1>2. QED
    BY <1>1, ConstantsTyped DEF NumberingInit, NumberingTypeOK, Values

-----------------------------------------------------------------------------
(* The inductive invariant *)

\* What a counter may be, at most: the documents less the increments that are
\* still to come.
Room(k) == made[k] - (pending[k] + Unnamed(k))

\* What a tab and a call hold of kind k is within a room, for m documents.
TabFits(p, k, room, m) ==
    /\ p.slice[k] <= room /\ p.fields[k] <= room
    /\ p.page = k => /\ p.number <= m + 1
                     /\ p.loaded => 1 <= p.number

CallFits(q, k, room, m) ==
    /\ q.values[k] <= room
    /\ q.pc = "save" /\ q.kind = k => q.number \in 1 .. m + 1

Within(k) ==
    /\ used[k] \subseteq 1 .. made[k]
    /\ counter[k] <= Room(k)
    /\ \A t \in Tabs : TabFits(tab[t], k, Room(k), made[k])
    /\ \A c \in Calls : CallFits(call[c], k, Room(k), made[k])

Reach == \A k \in Kinds \ typed : Within(k)

NumberingInv == NumberingTypeOK /\ CountersKeepUp /\ Reach

-----------------------------------------------------------------------------
(* The documents without an increment *)

LEMMA UnnamedNat ==
    ASSUME NEW k \in Kinds
    PROVE  IsFiniteSet(Naming(k)) /\ Unnamed(k) \in Nat
  <1>1. IsFiniteSet(Naming(k))
    BY NumberingAssumption, FS_Subset DEF Naming
  <1>2. QED
    BY <1>1, FS_CardinalityType DEF Unnamed

\* Nothing enters or leaves.
LEMMA UnnamedKept ==
    ASSUME NEW k \in Kinds,
           \A c \in Calls : (call'[c].pc = "name" /\ call'[c].kind = k)
                              <=> (call[c].pc = "name" /\ call[c].kind = k)
    PROVE  Unnamed(k)' = Unnamed(k)
  <1>1. Naming(k)' = Naming(k)
    BY DEF Naming
  <1>2. QED
    BY <1>1 DEF Unnamed

\* One call enters the stage.
LEMMA UnnamedMore ==
    ASSUME NEW k \in Kinds, NEW c \in Calls,
           ~(call[c].pc = "name" /\ call[c].kind = k),
           call'[c].pc = "name" /\ call'[c].kind = k,
           \A d \in Calls \ {c} : call'[d] = call[d]
    PROVE  Unnamed(k)' = Unnamed(k) + 1
  <1>1. Naming(k)' = Naming(k) \union {c} /\ c \notin Naming(k)
    BY DEF Naming
  <1>2. Cardinality(Naming(k) \union {c}) = Cardinality(Naming(k)) + 1
    BY <1>1, UnnamedNat, FS_AddElement
  <1>3. QED
    BY <1>1, <1>2 DEF Unnamed

\* One call leaves it.
LEMMA UnnamedLess ==
    ASSUME NEW k \in Kinds, NEW c \in Calls,
           call[c].pc = "name" /\ call[c].kind = k,
           ~(call'[c].pc = "name" /\ call'[c].kind = k),
           \A d \in Calls \ {c} : call'[d] = call[d]
    PROVE  Unnamed(k) = Unnamed(k)' + 1
  <1>1. Naming(k)' = Naming(k) \ {c} /\ c \in Naming(k)
    BY DEF Naming
  <1>2. Cardinality(Naming(k) \ {c}) = Cardinality(Naming(k)) - 1
    BY <1>1, UnnamedNat, FS_RemoveElement
  <1>3. Unnamed(k) \in Nat
    BY UnnamedNat
  <1>4. QED
    BY <1>1, <1>2, <1>3 DEF Unnamed

-----------------------------------------------------------------------------
(* What fits *)

LEMMA RoomFacts ==
    ASSUME NumberingTypeOK, NEW k \in Kinds
    PROVE  /\ Room(k) \in Int /\ Unnamed(k) \in Nat
           /\ counter[k] \in Nat /\ made[k] \in Nat /\ pending[k] \in Nat
           /\ counter[k] <= Room(k) => Room(k) \in Nat /\ Room(k) <= made[k]
  <1>1. /\ counter[k] \in Nat /\ made[k] \in Nat /\ pending[k] \in Nat
        /\ Unnamed(k) \in Nat
    BY UnnamedNat DEF NumberingTypeOK
  <1>2. QED
    BY <1>1 DEF Room

LEMMA FitsMore ==
    ASSUME NEW k \in Kinds, NEW room \in Int, NEW more \in Int,
           NEW m \in Nat, NEW n \in Nat, room <= more, m <= n
    PROVE  /\ \A p \in Tab : TabFits(p, k, room, m) => TabFits(p, k, more, n)
           /\ \A q \in Call : CallFits(q, k, room, m) => CallFits(q, k, more, n)
  <1>1. ASSUME NEW p \in Tab, TabFits(p, k, room, m) PROVE TabFits(p, k, more, n)
    BY <1>1 DEF TabFits, Tab
  <1>2. ASSUME NEW q \in Call, CallFits(q, k, room, m) PROVE CallFits(q, k, more, n)
    BY <1>2 DEF CallFits, Call
  <1>3. QED
    BY <1>1, <1>2

LEMMA ConstantsFit ==
    ASSUME NEW k \in Kinds, NEW room \in Nat, NEW m \in Nat
    PROVE  /\ CallFits(FreeCall, k, room, m)
           /\ \A t \in Tabs : CallFits(ListCall(t), k, room, m)
           /\ FreeCall.pc = "idle"
           /\ \A t \in Tabs : ListCall(t).pc = "list"
    BY DEF FreeCall, ListCall, CallFits, Zeroes

\* A page that is rendered takes its numbers from the slice.
LEMMA MountedFits ==
    ASSUME NEW p \in Tab, NEW k \in Kinds, NEW room \in Nat, NEW m \in Nat,
           room <= m, p.slice[k] <= room, p.fields[k] <= room
    PROVE  TabFits(Mounted(p), k, room, m)
  <1>1. p.slice[k] \in Nat
    BY DEF Tab
  <1>2. CASE p.page \in Kinds
    <2>1. Mounted(p) = [p EXCEPT !.number = p.slice[p.page] + 1]
      BY <1>2, NumberingAssumption DEF Mounted
    <2>2. QED
      BY <1>1, <1>2, <2>1 DEF TabFits, Tab
  <1>3. CASE p.page = "finance"
    <2>1. Mounted(p) = [p EXCEPT !.fields = p.slice] /\ p.page # k
      BY <1>3, NumberingAssumption DEF Mounted
    <2>2. QED
      BY <2>1 DEF TabFits, Tab
  <1>4. CASE p.page \notin Kinds /\ p.page # "finance"
    <2>1. Mounted(p) = p /\ p.page # k
      BY <1>4 DEF Mounted
    <2>2. QED
      BY <2>1 DEF TabFits
  <1>5. QED
    BY <1>2, <1>3, <1>4

LEMMA AnswersFit ==
    ASSUME NEW p \in Tab, NEW values \in Values, NEW k \in Kinds,
           NEW room \in Nat, NEW m \in Nat,
           room <= m, TabFits(p, k, room, m), values[k] <= room
    PROVE  TabFits(Loaded(p, values), k, room, m) /\ TabFits(Unloaded(p), k, room, m)
  <1> DEFINE q == [p EXCEPT !.slice = values, !.loaded = TRUE, !.loading = FALSE]
  <1>1. /\ q \in Tab /\ q.slice[k] <= room /\ q.fields[k] <= room
        /\ p.loaded => TabFits(q, k, room, m)
    BY DEF TabFits, Tab, Values
  <1>2. TabFits(Unloaded(p), k, room, m)
    BY DEF TabFits, Tab, Unloaded, Zeroes
  <1> HIDE DEF q
  <1>3. Loaded(p, values) = IF p.loaded /\ p.page \in Kinds THEN q ELSE Mounted(q)
    BY DEF Loaded, q
  <1>4. TabFits(Mounted(q), k, room, m)
    BY <1>1, MountedFits
  <1>5. QED
    BY <1>1, <1>2, <1>3, <1>4

-----------------------------------------------------------------------------
(* Steps that leave the database alone *)

LEMMA QuietStep ==
    ASSUME NumberingInv, UNCHANGED <<counter, made, used, pending>>,
           missed \subseteq missed', typed \subseteq typed',
           \A c \in Calls : /\ call'[c].pc = "name" <=> call[c].pc = "name"
                            /\ call[c].pc = "name" => call'[c].kind = call[c].kind,
           \A k \in Kinds \ typed' :
               /\ \A t \in Tabs : TabFits(tab'[t], k, Room(k), made[k])
               /\ \A c \in Calls : CallFits(call'[c], k, Room(k), made[k])
    PROVE  CountersKeepUp' /\ Reach'
  <1>1. \A k \in Kinds : Unnamed(k)' = Unnamed(k)
    BY UnnamedKept
  <1>2. \A k \in Kinds : Room(k)' = Room(k)
    BY <1>1 DEF Room
  <1>3. CountersKeepUp'
    BY <1>1 DEF NumberingInv, CountersKeepUp
  <1>4. ASSUME NEW k \in Kinds \ typed' PROVE Within(k)'
    <2>1. Within(k)
      BY <1>4 DEF NumberingInv, Reach
    <2>2. QED
      BY <1>2, <1>4, <2>1 DEF Within
  <1>5. QED
    BY <1>3, <1>4 DEF Reach

\* One tab and one call change.
LEMMA TabCallStep ==
    ASSUME NumberingInv, UNCHANGED <<counter, made, used, pending>>,
           missed' = missed, typed \subseteq typed',
           NEW t \in Tabs, NEW c \in Calls, NEW p \in Tab, NEW q \in Call,
           tab' = tab \/ tab' = [tab EXCEPT ![t] = p],
           call' = call \/ call' = [call EXCEPT ![c] = q],
           call[c].pc # "name", q.pc # "name",
           \A k \in Kinds \ typed' : /\ TabFits(p, k, Room(k), made[k])
                                     /\ CallFits(q, k, Room(k), made[k])
    PROVE  CountersKeepUp' /\ Reach'
  <1>1. tab \in [Tabs -> Tab] /\ call \in [Calls -> Call]
    BY DEF NumberingInv, NumberingTypeOK
  <1>2. /\ \A u \in Tabs : tab'[u] = tab[u] \/ tab'[u] = p
        /\ \A d \in Calls : call'[d] = call[d] \/ (d = c /\ call'[d] = q)
    BY <1>1
  <1>3. \A d \in Calls : /\ call'[d].pc = "name" <=> call[d].pc = "name"
                         /\ call[d].pc = "name" => call'[d].kind = call[d].kind
    BY <1>2
  <1>4. ASSUME NEW k \in Kinds \ typed'
        PROVE  /\ \A u \in Tabs : TabFits(tab'[u], k, Room(k), made[k])
               /\ \A d \in Calls : CallFits(call'[d], k, Room(k), made[k])
    <2>1. Within(k)
      BY <1>4 DEF NumberingInv, Reach
    <2>2. QED
      BY <1>2, <1>4, <2>1 DEF Within
  <1>5. QED
    BY <1>3, <1>4, QuietStep

LEMMA UserKeeps ==
    ASSUME NumberingInv, NEW t \in Tabs, User(t) PROVE CountersKeepUp' /\ Reach'
  <1>1. /\ tab \in [Tabs -> Tab] /\ call \in [Calls -> Call]
        /\ tab[t] \in Tab /\ NumberingTypeOK
    BY DEF NumberingInv, NumberingTypeOK
  <1>2. FreeCall \in Call /\ ListCall(t) \in Call /\ Zeroes \in Values
    BY ConstantsTyped
  <1>3. ASSUME NEW k \in Kinds \ typed
        PROVE  /\ Room(k) \in Nat /\ made[k] \in Nat /\ Room(k) <= made[k]
               /\ TabFits(tab[t], k, Room(k), made[k])
               /\ \A c \in Calls : CallFits(call[c], k, Room(k), made[k])
               /\ CallFits(FreeCall, k, Room(k), made[k])
               /\ CallFits(ListCall(t), k, Room(k), made[k])
    <2>1. Within(k)
      BY <1>3 DEF NumberingInv, Reach
    <2>2. /\ Room(k) \in Nat /\ made[k] \in Nat /\ Room(k) <= made[k]
      BY <1>1, <2>1, RoomFacts DEF Within
    <2>3. QED
      BY <2>1, <2>2, ConstantsFit DEF Within
  <1>4. FreeCall.pc = "idle" /\ ListCall(t).pc = "list"
    BY DEF FreeCall, ListCall
  <1>5. ASSUME NEW n \in TypedNumbers, TypeNumber(t, n) PROVE CountersKeepUp' /\ Reach'
    <2> DEFINE p == [tab[t] EXCEPT !.number = n]
    <2>1. p \in Tab /\ tab' = [tab EXCEPT ![t] = p]
      BY <1>1, <1>5, NumberingAssumption DEF TypeNumber, Tab
    <2>2. typed' = typed \union {tab[t].page} /\ UNCHANGED call
      BY <1>5 DEF TypeNumber
    <2>3. ASSUME NEW k \in Kinds \ typed' PROVE TabFits(p, k, Room(k), made[k])
      BY <1>1, <1>3, <2>2, <2>3 DEF TabFits, Tab
    <2> HIDE DEF p
    <2>4. ASSUME NEW k \in Kinds \ typed' PROVE Within(k)
      BY <2>2, <2>4 DEF NumberingInv, Reach
    <2>5. ASSUME NEW k \in Kinds \ typed'
          PROVE  /\ \A u \in Tabs : TabFits(tab'[u], k, Room(k), made[k])
                 /\ \A c \in Calls : CallFits(call'[c], k, Room(k), made[k])
      BY <1>1, <2>1, <2>2, <2>3, <2>4, <2>5 DEF Within
    <2>6. QED
      BY <1>5, <2>2, <2>5, QuietStep DEF TypeNumber
  <1>6. ASSUME NEW c \in Calls, NEW page \in Kinds \union {"home", "finance"},
               Visit(t, c, page)
        PROVE  CountersKeepUp' /\ Reach'
    <2> DEFINE o == [tab[t] EXCEPT !.page = page, !.number = 0, !.fields = Zeroes]
               p == Mounted(o)
               r == [p EXCEPT !.loading = TRUE]
    <2>1. o \in Tab
      BY <1>1, <1>2 DEF Tab, Values
    <2>2. \A k \in Kinds \ typed : o.slice[k] <= Room(k) /\ o.fields[k] <= Room(k)
      BY <1>1, <1>3 DEF TabFits, Tab, Zeroes
    <2>3. /\ \/ tab' = [tab EXCEPT ![t] = r]
             \/ tab' = [tab EXCEPT ![t] = p]
          /\ call' = [call EXCEPT ![c] = ListCall(t)] \/ call' = call
          /\ call[c].pc # "name"
          /\ UNCHANGED <<counter, made, used, pending, missed, typed>>
      BY <1>6 DEF Visit, Free
    <2> HIDE DEF o
    <2>4. p \in Tab /\ \A k \in Kinds \ typed : TabFits(p, k, Room(k), made[k])
      BY <1>3, <2>1, <2>2, TabsTyped, MountedFits, <1>2
    <2> HIDE DEF p
    <2>5. r \in Tab /\ \A k \in Kinds \ typed : TabFits(r, k, Room(k), made[k])
      BY <2>4 DEF Tab, TabFits
    <2> HIDE DEF r
    <2>6. CASE tab' = [tab EXCEPT ![t] = r]
      BY <1>2, <1>3, <1>4, <2>3, <2>5, <2>6, TabCallStep
    <2>7. CASE tab' = [tab EXCEPT ![t] = p]
      BY <1>2, <1>3, <1>4, <2>3, <2>4, <2>7, TabCallStep
    <2>8. QED
      BY <2>3, <2>6, <2>7
  <1>7. ASSUME NEW c \in Calls, Reload(t, c) PROVE CountersKeepUp' /\ Reach'
    <2> DEFINE p == [Unloaded(tab[t]) EXCEPT !.slice = Zeroes, !.loading = TRUE]
    <2>1. /\ UNCHANGED <<counter, made, used, pending, missed, typed>>
          /\ tab' = [tab EXCEPT ![t] = p]
          /\ call[c].pc = "idle"
      BY <1>7 DEF Reload, Free
    <2>2. \A d \in Calls : \/ call'[d] = call[d]
                           \/ d = c /\ call'[d] = ListCall(t)
                           \/ call[d].pc # "name" /\ call'[d] = FreeCall
      BY <1>1, <1>7 DEF Reload
    <2>3. \A k \in Kinds \ typed : TabFits(p, k, Room(k), made[k])
      BY <1>1, <1>3 DEF TabFits, Tab, Unloaded, Zeroes
    <2> HIDE DEF p
    <2>4. \A d \in Calls : /\ call'[d].pc = "name" <=> call[d].pc = "name"
                           /\ call[d].pc = "name" => call'[d].kind = call[d].kind
      BY <1>4, <2>1, <2>2
    <2>5. ASSUME NEW k \in Kinds \ typed' PROVE Within(k)
      BY <2>1, <2>5 DEF NumberingInv, Reach
    <2>6. ASSUME NEW k \in Kinds \ typed'
          PROVE  /\ \A u \in Tabs : TabFits(tab'[u], k, Room(k), made[k])
                 /\ \A d \in Calls : CallFits(call'[d], k, Room(k), made[k])
      <3>1. \A u \in Tabs : tab'[u] = tab[u] \/ tab'[u] = p
        BY <1>1, <2>1
      <3>2. QED
        BY <1>3, <2>1, <2>2, <2>3, <2>5, <2>6, <3>1 DEF Within
    <2>7. QED
      BY <2>1, <2>4, <2>6, QuietStep
  <1>8. ASSUME NEW c \in Calls, Submit(t, c) PROVE CountersKeepUp' /\ Reach'
    <2> DEFINE q == [FreeCall EXCEPT !.pc = "save", !.tab = t, !.kind = tab[t].page,
                                     !.number = tab[t].number]
    <2>1. q \in Call /\ q.pc = "save"
      BY <1>1, <1>2, <1>8 DEF Submit, Call, Tab, Stages
    <2>2. ASSUME NEW k \in Kinds \ typed PROVE CallFits(q, k, Room(k), made[k])
      <3>1. q.values = FreeCall.values /\ q.kind = tab[t].page /\ q.number = tab[t].number
        BY <1>2 DEF Call
      <3>2. tab[t].loaded
        BY <1>8 DEF Submit
      <3>3. tab[t].number \in Nat
        BY <1>1 DEF Tab
      <3> HIDE DEF q
      <3>4. QED
        BY <1>3, <2>2, <3>1, <3>2, <3>3 DEF CallFits, TabFits
    <2>3. /\ call' = [call EXCEPT ![c] = q] /\ call[c].pc = "idle"
          /\ UNCHANGED <<counter, made, used, pending, tab, missed, typed>>
      BY <1>8 DEF Submit, Free
    <2> HIDE DEF q
    <2>4. QED
      BY <1>1, <1>3, <2>1, <2>2, <2>3, TabCallStep
  <1>9. ASSUME NEW c \in Calls, SubmitLogo(t, c) PROVE CountersKeepUp' /\ Reach'
    <2> DEFINE p == [tab[t] EXCEPT !.loading = TRUE]
               q == [FreeCall EXCEPT !.pc = "failed", !.tab = t]
    <2>1. /\ q \in Call /\ q.pc = "failed"
          /\ p \in Tab
      BY <1>1, <1>2 DEF Call, Tab, Stages
    <2>2. \A k \in Kinds \ typed : /\ TabFits(p, k, Room(k), made[k])
                                   /\ CallFits(q, k, Room(k), made[k])
      BY <1>1, <1>2, <1>3 DEF CallFits, TabFits, Tab, Call
    <2>3. /\ call' = [call EXCEPT ![c] = q] /\ call[c].pc = "idle"
          /\ tab' = [tab EXCEPT ![t] = p]
          /\ UNCHANGED <<counter, made, used, pending, missed, typed>>
      BY <1>1, <1>9 DEF SubmitLogo, Free, Tab
    <2> HIDE DEF p, q
    <2>4. QED
      BY <2>1, <2>2, <2>3, TabCallStep
  <1>10. ASSUME NEW c \in Calls, NEW values \in Entries(t), SubmitFinance(t, c, values)
         PROVE  CountersKeepUp' /\ Reach'
    <2> DEFINE p == [tab[t] EXCEPT !.loading = TRUE, !.fields = values]
               q == [FreeCall EXCEPT !.pc = "write", !.tab = t, !.values = values,
                                     !.todo = Kinds]
    <2>1. values \in Values
      BY <1>1, EntriesTyped
    <2>2. q \in Call /\ q.pc = "write" /\ q.values = values /\ p \in Tab
      BY <1>1, <1>2, <2>1 DEF Call, Tab, Stages, Values
    <2>3. /\ call' = [call EXCEPT ![c] = q] /\ call[c].pc = "idle"
          /\ tab' = [tab EXCEPT ![t] = p] /\ missed' = missed
          /\ typed' = typed \union {k \in Kinds : values[k] # tab[t].fields[k]}
          /\ UNCHANGED <<counter, made, used, pending>>
      BY <1>1, <1>10 DEF SubmitFinance, Free, Tab
    <2>4. ASSUME NEW k \in Kinds \ typed'
          PROVE  TabFits(p, k, Room(k), made[k]) /\ CallFits(q, k, Room(k), made[k])
      <3>1. k \in Kinds \ typed /\ values[k] = tab[t].fields[k]
        BY <2>3, <2>4
      <3>2. /\ p.slice = tab[t].slice /\ p.fields = values /\ p.page = tab[t].page
            /\ p.number = tab[t].number /\ p.loaded = tab[t].loaded
        BY <1>1 DEF Tab
      <3> HIDE DEF p, q
      <3>3. QED
        BY <1>3, <2>2, <3>1, <3>2 DEF CallFits, TabFits
    <2> HIDE DEF p, q
    <2>5. QED
      BY <2>2, <2>3, <2>4, TabCallStep
  <1>11. QED
    BY <1>5, <1>6, <1>7, <1>8, <1>9, <1>10 DEF User

LEMMA TakeKeeps ==
    ASSUME NumberingInv, NEW c \in Calls, Take(c) PROVE CountersKeepUp' /\ Reach'
  <1> DEFINE q == call[c]
             t == q.tab
             p == Loaded(tab[t], q.values)
             gone == Unloaded(tab[t])
             wait == [tab[t] EXCEPT !.loading = TRUE]
             home == [tab[t] EXCEPT !.page = "home", !.number = 0]
             again == [p EXCEPT !.loading = TRUE]
  <1>1. /\ tab \in [Tabs -> Tab] /\ call \in [Calls -> Call] /\ NumberingTypeOK
        /\ q \in Call /\ t \in Tabs /\ q.values \in Values /\ tab[t] \in Tab
    BY DEF NumberingInv, NumberingTypeOK, Call, Values
  <1>2. /\ FreeCall \in Call /\ ListCall(t) \in Call
        /\ FreeCall.pc = "idle" /\ ListCall(t).pc = "list"
    BY <1>1, ConstantsTyped DEF FreeCall, ListCall
  <1>3. ASSUME NEW k \in Kinds \ typed
        PROVE  /\ Room(k) \in Nat /\ made[k] \in Nat /\ Room(k) <= made[k]
               /\ TabFits(tab[t], k, Room(k), made[k])
               /\ CallFits(q, k, Room(k), made[k])
               /\ CallFits(FreeCall, k, Room(k), made[k])
               /\ CallFits(ListCall(t), k, Room(k), made[k])
    <2>1. Within(k)
      BY <1>3 DEF NumberingInv, Reach
    <2>2. /\ Room(k) \in Nat /\ made[k] \in Nat /\ Room(k) <= made[k]
      BY <1>1, <2>1, RoomFacts DEF Within
    <2>3. QED
      BY <1>1, <2>1, <2>2, ConstantsFit DEF Within
  <1>4. /\ p \in Tab /\ gone \in Tab
        /\ \A k \in Kinds \ typed : /\ TabFits(p, k, Room(k), made[k])
                                   /\ TabFits(gone, k, Room(k), made[k])
    BY <1>1, <1>3, TabsTyped, AnswersFit DEF CallFits
  <1> HIDE DEF p, gone
  <1>5. /\ wait \in Tab /\ home \in Tab /\ again \in Tab
        /\ \A k \in Kinds \ typed : /\ TabFits(wait, k, Room(k), made[k])
                                   /\ TabFits(home, k, Room(k), made[k])
                                   /\ TabFits(again, k, Room(k), made[k])
    BY <1>1, <1>3, <1>4, NumberingAssumption DEF Tab, TabFits
  <1> HIDE DEF wait, home, again
  <1>6. CASE Created(c)
    <2>1. /\ tab' = tab \/ tab' = [tab EXCEPT ![t] = home]
          /\ call' = [call EXCEPT ![c] = FreeCall] /\ call[c].pc = "created"
          /\ UNCHANGED <<counter, made, used, pending, missed, typed>>
      BY <1>1, <1>6 DEF Created, Tab, home
    <2>2. QED
      BY <1>1, <1>2, <1>3, <1>5, <2>1, TabCallStep
  <1>7. CASE Refused(c)
    <2>1. /\ call' = [call EXCEPT ![c] = FreeCall] /\ call[c].pc = "refused"
          /\ UNCHANGED <<counter, made, used, pending, tab, missed, typed>>
      BY <1>7 DEF Refused
    <2>2. QED
      BY <1>1, <1>2, <1>3, <2>1, TabCallStep
  <1>8. CASE Listed(c)
    <2>1. /\ call[c].pc = "listed"
          /\ UNCHANGED <<counter, made, used, pending, missed, typed>>
          /\ \/ /\ tab' = [tab EXCEPT ![t] = again]
                /\ call' = [call EXCEPT ![c] = ListCall(t)]
             \/ /\ tab' = [tab EXCEPT ![t] = p]
                /\ call' = [call EXCEPT ![c] = FreeCall]
      BY <1>8 DEF Listed, p, again
    <2>2. CASE tab' = [tab EXCEPT ![t] = again] /\ call' = [call EXCEPT ![c] = ListCall(t)]
      BY <1>1, <1>2, <1>3, <1>5, <2>1, <2>2, TabCallStep
    <2>3. CASE tab' = [tab EXCEPT ![t] = p] /\ call' = [call EXCEPT ![c] = FreeCall]
      BY <1>1, <1>2, <1>3, <1>4, <2>1, <2>3, TabCallStep
    <2>4. QED
      BY <2>1, <2>2, <2>3
  <1>9. CASE Written(c)
    <2>1. /\ tab' = [tab EXCEPT ![t] = wait]
          /\ call' = [call EXCEPT ![c] = ListCall(t)] /\ call[c].pc = "written"
          /\ UNCHANGED <<counter, made, used, pending, missed, typed>>
      BY <1>1, <1>9 DEF Written, Tab, wait
    <2>2. QED
      BY <1>1, <1>2, <1>3, <1>5, <2>1, TabCallStep
  <1>10. CASE Failed(c)
    <2>1. /\ tab' = [tab EXCEPT ![t] = gone]
          /\ call' = [call EXCEPT ![c] = FreeCall] /\ call[c].pc = "failed"
          /\ UNCHANGED <<counter, made, used, pending, missed, typed>>
      BY <1>1, <1>10 DEF Failed, gone
    <2>2. QED
      BY <1>1, <1>2, <1>3, <1>4, <2>1, TabCallStep
  <1>11. CASE Lost(c)
    <2> DEFINE lost == [q EXCEPT !.pc = IF q.pc = "created" THEN "refused" ELSE "failed"]
    <2>1. /\ call' = [call EXCEPT ![c] = lost]
          /\ call[c].pc \in {"created", "listed", "written"}
          /\ UNCHANGED <<counter, made, used, pending, tab, missed, typed>>
      BY <1>1, <1>11 DEF Lost, Goes, Call
    <2>2. lost \in Call /\ lost.pc \in {"refused", "failed"} /\ lost.values = q.values
      BY <1>1 DEF Call, Stages
    <2> HIDE DEF lost
    <2>3. \A k \in Kinds \ typed : CallFits(lost, k, Room(k), made[k])
      BY <1>3, <2>2 DEF CallFits
    <2>4. QED
      BY <1>1, <1>3, <2>1, <2>2, <2>3, TabCallStep
  <1>12. QED
    BY <1>6, <1>7, <1>8, <1>9, <1>10, <1>11 DEF Take

-----------------------------------------------------------------------------
(* Steps at the database *)

\* What a kind may use, and has room for, grows or stays.
LEMMA WithinStep ==
    ASSUME NumberingTypeOK, NumberingTypeOK', NEW k \in Kinds, Within(k),
           used'[k] \subseteq 1 .. made'[k], counter'[k] <= Room(k)',
           Room(k) <= Room(k)', made[k] <= made'[k], tab' = tab,
           \A c \in Calls : \/ CallFits(call'[c], k, Room(k), made[k])
                           \/ CallFits(call'[c], k, Room(k)', made'[k])
    PROVE  Within(k)'
  <1>1. /\ Room(k) \in Int /\ Room(k)' \in Int
        /\ made[k] \in Nat /\ made'[k] \in Nat
    <2>1. Room(k) \in Int /\ made[k] \in Nat
      BY RoomFacts
    <2>2. Unnamed(k)' \in Nat
      <3>1. IsFiniteSet(Naming(k)')
        BY NumberingAssumption, FS_Subset DEF Naming
      <3>2. QED
        BY <3>1, FS_CardinalityType DEF Unnamed
    <2>3. QED
      BY <2>1, <2>2 DEF Room, NumberingTypeOK
  <1>2. /\ tab \in [Tabs -> Tab] /\ call' \in [Calls -> Call]
    BY DEF NumberingTypeOK
  <1>3. /\ \A t \in Tabs : TabFits(tab'[t], k, Room(k)', made'[k])
        /\ \A c \in Calls : CallFits(call'[c], k, Room(k)', made'[k])
    BY <1>1, <1>2, FitsMore DEF Within
  <1>4. QED
    BY <1>3 DEF Within

LEMMA ServeKeeps ==
    ASSUME NumberingInv, NumberingTypeOK', NEW c \in Calls, Serve(c)
    PROVE  CountersKeepUp' /\ Reach'
  <1> DEFINE q == call[c]
  <1>0. PICK x \in Kinds : x = q.kind
    BY DEF NumberingInv, NumberingTypeOK, Call
  <1>1. /\ x = q.kind
        /\ NumberingTypeOK /\ CountersKeepUp
        /\ call \in [Calls -> Call] /\ q \in Call /\ x \in Kinds
        /\ made \in [Kinds -> Nat] /\ pending \in [Kinds -> Nat]
        /\ counter \in [Kinds -> Nat] /\ used \in [Kinds -> SUBSET Nat]
    BY <1>0 DEF NumberingInv, NumberingTypeOK, Call
  <1>2. ASSUME NEW k \in Kinds \ typed
        PROVE  /\ Within(k) /\ Room(k) \in Nat
               /\ \A d \in Calls : CallFits(call[d], k, Room(k), made[k])
    <2>1. Within(k)
      BY <1>2 DEF NumberingInv, Reach
    <2>2. QED
      BY <1>1, <2>1, RoomFacts DEF Within
  <1>3. \A k \in Kinds : Unnamed(k) \in Nat
    BY UnnamedNat
  <1>4. ASSUME NEW stage, Goes(c, stage)
        PROVE  /\ call'[c] = [q EXCEPT !.pc = stage]
               /\ call'[c].pc = stage /\ call'[c].kind = x
               /\ call'[c].values = q.values /\ call'[c].number = q.number
               /\ \A d \in Calls \ {c} : call'[d] = call[d]
    BY <1>1, <1>4 DEF Goes, Call
  <1>5. ASSUME NEW stage, Goes(c, stage), stage # "save", NEW k \in Kinds \ typed
        PROVE  \A d \in Calls : CallFits(call'[d], k, Room(k), made[k])
    BY <1>2, <1>4, <1>5 DEF CallFits
  <1>6. CASE Save(c)
    <2>1. /\ Goes(c, "name") /\ q.pc = "save"
          /\ made' = [made EXCEPT ![x] = @ + 1]
          /\ used' = [used EXCEPT ![x] = @ \union {q.number}]
          /\ UNCHANGED <<counter, pending, tab, missed, typed>>
      BY <1>1, <1>6 DEF Save
    <2>2. Unnamed(x)' = Unnamed(x) + 1
      BY <1>1, <1>4, <2>1, UnnamedMore
    <2>3. \A k \in Kinds \ {x} : Unnamed(k)' = Unnamed(k)
      BY <1>1, <1>4, <2>1, UnnamedKept
    <2>4. \A k \in Kinds : Room(k)' = Room(k) /\ made[k] <= made'[k]
      BY <1>1, <1>3, <2>1, <2>2, <2>3 DEF Room
    <2>5. CountersKeepUp'
      BY <1>1, <1>3, <2>1, <2>2, <2>3 DEF CountersKeepUp
    <2>6. ASSUME NEW k \in Kinds \ typed' PROVE Within(k)'
      <3>1. k \in Kinds \ typed /\ Within(k) /\ CallFits(q, k, Room(k), made[k])
        BY <1>2, <2>1, <2>6
      <3>2. used'[k] \subseteq 1 .. made'[k]
        <4>1. CASE k = x
          BY <1>1, <2>1, <3>1, <4>1 DEF Within, CallFits
        <4>2. CASE k # x
          BY <1>1, <2>1, <3>1, <4>2 DEF Within
        <4>3. QED
          BY <4>1, <4>2
      <3>3. counter'[k] <= Room(k)'
        BY <2>1, <2>4, <3>1 DEF Within
      <3>4. Room(k) <= Room(k)'
        BY <1>2, <2>4, <3>1
      <3>5. QED
        BY <1>1, <1>5, <2>1, <2>4, <3>1, <3>2, <3>3, <3>4, WithinStep
    <2>7. QED
      BY <2>5, <2>6 DEF Reach
  <1>7. CASE Name(c)
    <2>1. /\ Goes(c, "created") /\ q.pc = "name"
          /\ pending' = [pending EXCEPT ![x] = @ + 1]
          /\ UNCHANGED <<counter, made, used, tab, missed, typed>>
      BY <1>1, <1>7 DEF Name
    <2>2. Unnamed(x) = Unnamed(x)' + 1
      BY <1>1, <1>4, <2>1, UnnamedLess
    <2>3. \A k \in Kinds \ {x} : Unnamed(k)' = Unnamed(k)
      BY <1>1, <1>4, <2>1, UnnamedKept
    <2>4. \A k \in Kinds : Unnamed(k)' \in Nat
      <3>1. \A k \in Kinds : IsFiniteSet(Naming(k)')
        BY NumberingAssumption, FS_Subset DEF Naming
      <3>2. QED
        BY <3>1, FS_CardinalityType DEF Unnamed
    <2>5. \A k \in Kinds : Room(k)' = Room(k)
      BY <1>1, <1>3, <2>1, <2>2, <2>3, <2>4 DEF Room
    <2>6. CountersKeepUp'
      BY <1>1, <1>3, <2>1, <2>2, <2>3, <2>4 DEF CountersKeepUp
    <2>7. ASSUME NEW k \in Kinds \ typed' PROVE Within(k)'
      <3>1. k \in Kinds \ typed /\ Within(k) /\ Room(k) \in Nat /\ made[k] \in Nat
        BY <1>1, <1>2, <2>1, <2>7
      <3>2. QED
        BY <1>1, <1>5, <2>1, <2>5, <3>1, WithinStep DEF Within
    <2>8. QED
      BY <2>6, <2>7 DEF Reach
  <1>8. CASE List(c)
    <2> DEFINE r == [q EXCEPT !.pc = "listed", !.values = counter]
    <2>1. /\ call' = [call EXCEPT ![c] = r] /\ q.pc = "list"
          /\ UNCHANGED <<counter, made, used, pending, tab, missed, typed>>
      BY <1>1, <1>8 DEF List, Call
    <2>2. r \in Call /\ r.pc = "listed" /\ r.values = counter
      BY <1>1 DEF Call, Stages
    <2> HIDE DEF r
    <2>3. \A k \in Kinds \ typed : CallFits(r, k, Room(k), made[k])
      BY <1>2, <2>2 DEF CallFits, Within
    <2>4. \A d \in Calls : call'[d] = call[d] \/ (d = c /\ call'[d] = r)
      BY <1>1, <2>1, <2>2
    <2>5. \A k \in Kinds \ typed' :
              /\ \A t \in Tabs : TabFits(tab'[t], k, Room(k), made[k])
              /\ \A d \in Calls : CallFits(call'[d], k, Room(k), made[k])
      BY <1>2, <2>1, <2>3, <2>4 DEF Within
    <2>6. /\ UNCHANGED <<counter, made, used, pending>>
          /\ missed \subseteq missed' /\ typed \subseteq typed'
      BY <2>1
    <2>7. \A d \in Calls : /\ call'[d].pc = "name" <=> call[d].pc = "name"
                           /\ call[d].pc = "name" => call'[d].kind = call[d].kind
      BY <2>1, <2>2, <2>4
    <2>8. QED
      BY <2>5, <2>6, <2>7, QuietStep
  <1>9. ASSUME NEW k \in Kinds, Write(c, k) PROVE CountersKeepUp' /\ Reach'
    <2> DEFINE r == [q EXCEPT !.todo = @ \ {k},
                        !.pc = IF q.todo = {k} THEN "written" ELSE "write"]
    <2>1. /\ call' = [call EXCEPT ![c] = r] /\ q.pc = "write"
          /\ counter' = [counter EXCEPT ![k] = q.values[k]]
          /\ counter'[k] = counter[k] \/ missed' = missed \union {k}
          /\ missed \subseteq missed'
          /\ UNCHANGED <<made, used, pending, tab, typed>>
      BY <1>1, <1>9 DEF Write, Call
    <2>2. r.pc \in {"write", "written"} /\ r.values = q.values
      BY <1>1 DEF Call
    <2> HIDE DEF r
    <2>3. \A d \in Calls : call'[d] = call[d] \/ (d = c /\ call'[d] = r)
      BY <1>1, <2>1
    <2>4. \A j \in Kinds : Unnamed(j)' = Unnamed(j)
      BY <2>1, <2>2, <2>3, UnnamedKept
    <2>5. \A j \in Kinds : Room(j)' = Room(j)
      BY <2>1, <2>4 DEF Room
    <2>6. CountersKeepUp'
      <3>1. ASSUME NEW j \in Kinds \ missed' PROVE counter'[j] = counter[j]
        BY <1>1, <2>1, <3>1
      <3>2. QED
        BY <1>1, <2>1, <2>4, <3>1 DEF CountersKeepUp
    <2>7. ASSUME NEW j \in Kinds \ typed' PROVE Within(j)'
      <3>1. /\ j \in Kinds \ typed /\ Within(j) /\ Room(j) \in Nat /\ made[j] \in Nat
            /\ \A d \in Calls : CallFits(call[d], j, Room(j), made[j])
        BY <1>1, <1>2, <2>1, <2>7
      <3>2. counter'[j] <= Room(j)
        BY <1>1, <2>1, <3>1 DEF Within, CallFits
      <3>3. \A d \in Calls : CallFits(call'[d], j, Room(j), made[j])
        BY <2>2, <2>3, <3>1 DEF CallFits
      <3>4. QED
        BY <1>1, <2>1, <2>5, <3>1, <3>2, <3>3, WithinStep DEF Within
    <2>8. QED
      BY <2>6, <2>7 DEF Reach
  <1>10. CASE CreateFails(c)
    <2>1. /\ Goes(c, "refused") /\ q.pc \in {"save", "name"}
          /\ q.pc = "name" => missed' = missed \union {x}
          /\ missed \subseteq missed'
          /\ UNCHANGED <<counter, made, used, pending, tab, typed>>
      BY <1>1, <1>10 DEF CreateFails
    <2>0. /\ call'[c].pc = "refused" /\ call'[c].kind = x /\ call[c].kind = x
          /\ \A d \in Calls \ {c} : call'[d] = call[d]
      BY <1>1, <1>4, <2>1
    <2>2. /\ \A k \in Kinds \ {x} : Unnamed(k)' = Unnamed(k)
          /\ q.pc = "save" => Unnamed(x)' = Unnamed(x)
      <3>1. \A k \in Kinds \ {x} : Unnamed(k)' = Unnamed(k)
        BY <1>1, <1>4, <2>1, UnnamedKept
      <3>2. CASE q.pc = "save"
        <4>1. \A d \in Calls : (call'[d].pc = "name" /\ call'[d].kind = x)
                                 <=> (call[d].pc = "name" /\ call[d].kind = x)
          BY <2>0, <3>2
        <4>2. QED
          BY <3>1, <4>1, UnnamedKept
      <3>3. QED
        BY <3>1, <3>2
    <2>3. q.pc = "name" => Unnamed(x) = Unnamed(x)' + 1
      <3>1. SUFFICES ASSUME q.pc = "name" PROVE Unnamed(x) = Unnamed(x)' + 1
        OBVIOUS
      <3>2. /\ call[c].pc = "name" /\ call[c].kind = x
            /\ ~(call'[c].pc = "name" /\ call'[c].kind = x)
            /\ \A d \in Calls \ {c} : call'[d] = call[d]
        BY <2>0, <3>1
      <3>3. QED
        BY <1>1, <3>2, UnnamedLess
    <2>4. \A k \in Kinds : Unnamed(k)' \in Nat
      <3>1. \A k \in Kinds : IsFiniteSet(Naming(k)')
        BY NumberingAssumption, FS_Subset DEF Naming
      <3>2. QED
        BY <3>1, FS_CardinalityType DEF Unnamed
    <2>5. \A k \in Kinds : Unnamed(k)' <= Unnamed(k)
      BY <1>3, <2>1, <2>2, <2>3, <2>4
    <2>6. \A k \in Kinds : Room(k) <= Room(k)' /\ Room(k)' \in Int
      BY <1>1, <1>3, <2>1, <2>4, <2>5 DEF Room
    <2>7. CountersKeepUp'
      BY <1>1, <2>1, <2>2 DEF CountersKeepUp
    <2>8. ASSUME NEW k \in Kinds \ typed' PROVE Within(k)'
      <3>1. k \in Kinds \ typed /\ Within(k) /\ Room(k) \in Nat /\ made[k] \in Nat
        BY <1>1, <1>2, <2>1, <2>8
      <3>2. counter'[k] <= Room(k)'
        BY <1>1, <2>1, <2>6, <3>1 DEF Within
      <3>3. used'[k] \subseteq 1 .. made'[k] /\ made[k] <= made'[k] /\ tab' = tab
        BY <2>1, <3>1 DEF Within
      <3>4. QED
        BY <1>1, <1>5, <2>1, <2>6, <3>1, <3>2, <3>3, WithinStep
    <2>9. QED
      BY <2>7, <2>8 DEF Reach
  <1>11. CASE SettingsFail(c)
    <2>1. /\ Goes(c, "failed") /\ q.pc \in {"list", "write"}
          /\ UNCHANGED <<counter, made, used, pending, tab, missed, typed>>
      BY <1>11 DEF SettingsFail
    <2>2. \A d \in Calls : /\ call'[d].pc = "name" <=> call[d].pc = "name"
                           /\ call[d].pc = "name" => call'[d].kind = call[d].kind
      BY <1>4, <2>1
    <2>3. \A k \in Kinds \ typed' :
              /\ \A t \in Tabs : TabFits(tab'[t], k, Room(k), made[k])
              /\ \A d \in Calls : CallFits(call'[d], k, Room(k), made[k])
      BY <1>2, <1>5, <2>1 DEF Within
    <2>4. QED
      BY <2>1, <2>2, <2>3, QuietStep
  <1>12. QED
    BY <1>6, <1>7, <1>8, <1>9, <1>10, <1>11 DEF Serve

LEMMA IncreaseKeeps ==
    ASSUME NumberingInv, NumberingTypeOK', NEW x \in Kinds,
           Increase(x) \/ IncreaseFails(x)
    PROVE  CountersKeepUp' /\ Reach'
  <1>1. /\ NumberingTypeOK /\ CountersKeepUp
        /\ made \in [Kinds -> Nat] /\ pending \in [Kinds -> Nat]
        /\ counter \in [Kinds -> Nat]
    BY DEF NumberingInv, NumberingTypeOK
  <1>2. /\ pending' = [pending EXCEPT ![x] = @ - 1]
        /\ UNCHANGED <<made, used, tab, call, typed>>
        /\ \/ counter' = [counter EXCEPT ![x] = @ + 1] /\ missed' = missed
           \/ counter' = counter /\ missed' = missed \union {x}
    BY DEF Increase, IncreaseFails
  <1>3. \A k \in Kinds : Unnamed(k)' = Unnamed(k) /\ Unnamed(k) \in Nat
    BY <1>2, UnnamedKept, UnnamedNat
  <1>4. CountersKeepUp'
    BY <1>1, <1>2, <1>3 DEF CountersKeepUp
  <1>5. ASSUME NEW k \in Kinds \ typed' PROVE Within(k)'
    <2>1. Within(k) /\ k \in Kinds \ typed
      BY <1>2, <1>5 DEF NumberingInv, Reach
    <2>2. Room(k) <= Room(k)' /\ counter'[k] <= Room(k)'
      BY <1>1, <1>2, <1>3, <2>1 DEF Room, Within
    <2>3. /\ used'[k] \subseteq 1 .. made'[k] /\ made[k] <= made'[k] /\ tab' = tab
          /\ \A c \in Calls : CallFits(call'[c], k, Room(k), made[k])
      BY <1>1, <1>2, <2>1 DEF Within
    <2>4. QED
      BY <1>1, <2>1, <2>2, <2>3, WithinStep
  <1>6. QED
    BY <1>4, <1>5 DEF Reach

-----------------------------------------------------------------------------
(* The theorems *)

LEMMA NumberingInitInv == NumberingInit => NumberingInv
  <1> SUFFICES ASSUME NumberingInit PROVE NumberingInv
    OBVIOUS
  <1>1. NumberingTypeOK
    BY InitTyped
  <1>2. ASSUME NEW k \in Kinds PROVE Unnamed(k) = 0
    <2>1. Naming(k) = {}
      BY DEF NumberingInit, Naming, FreeCall
    <2>2. QED
      BY <2>1, FS_EmptySet DEF Unnamed
  <1>3. CountersKeepUp
    BY <1>2 DEF NumberingInit, CountersKeepUp, Zeroes
  <1>4. ASSUME NEW k \in Kinds PROVE Within(k)
    <2>1. Room(k) = 0 /\ counter[k] = 0 /\ made[k] = 0 /\ used[k] = {}
      BY <1>2 DEF NumberingInit, Room, Zeroes
    <2>2. \A t \in Tabs : TabFits(tab[t], k, 0, 0)
      BY NumberingAssumption DEF NumberingInit, TabFits, FreshTab, Zeroes
    <2>3. \A c \in Calls : CallFits(call[c], k, 0, 0)
      BY DEF NumberingInit, CallFits, FreeCall, Zeroes
    <2>4. QED
      BY <2>1, <2>2, <2>3 DEF Within
  <1>5. QED
    BY <1>1, <1>3, <1>4 DEF NumberingInv, Reach

LEMMA NumberingNextInv ==
    NumberingInv /\ [NumberingNext]_numberingVars => NumberingInv'
  <1> SUFFICES ASSUME NumberingInv, [NumberingNext]_numberingVars PROVE NumberingInv'
    OBVIOUS
  <1>1. NumberingTypeOK'
    BY NextTyped DEF NumberingInv
  <1>2. ASSUME UNCHANGED numberingVars PROVE CountersKeepUp' /\ Reach'
    BY <1>2 DEF numberingVars, NumberingInv, CountersKeepUp, Reach, Within, Room,
       Unnamed, Naming
  <1>3. CountersKeepUp' /\ Reach'
    BY <1>1, <1>2, UserKeeps, ServeKeeps, TakeKeeps, IncreaseKeeps DEF NumberingNext
  <1>4. QED
    BY <1>1, <1>3 DEF NumberingInv

LEMMA NumberingInvariance == NumberingSpec => []NumberingInv
  <1>1. QED
    BY NumberingInitInv, NumberingNextInv, PTL DEF NumberingSpec

\* Tabs, calls and counters keep their types: every number, wherever it was
\* copied to, is a natural number, and every call is at a stage of its handler.
THEOREM NumberingTypeCorrect == NumberingSpec => []NumberingTypeOK
  <1>1. NumberingInv => NumberingTypeOK
    BY DEF NumberingInv
  <1>2. QED
    BY <1>1, NumberingInvariance, PTL

\* However creations, increments, lists and settings forms overlap, fail or are
\* lost, a counter that nothing overwrote and that missed no increment follows
\* the documents that were made.
THEOREM CountersAlwaysKeepUp == NumberingSpec => []CountersKeepUp
  <1>1. NumberingInv => CountersKeepUp
    BY DEF NumberingInv
  <1>2. QED
    BY <1>1, NumberingInvariance, PTL

\* No number is used or suggested past the one after the last document, also
\* where counters were written back by a stale form: the next number is free.
THEOREM NumbersAlwaysInReach == NumberingSpec => []NumbersInReach
  <1>1. NumberingInv => NumbersInReach
    BY DEF NumberingInv, Reach, Within, TabFits, NumbersInReach
  <1>2. QED
    BY <1>1, NumberingInvariance, PTL

-----------------------------------------------------------------------------
(***************************************************************************)
(* Fields that search                                                      *)
(***************************************************************************)

LEMMA Kind == \A f \in Field : OfClient(f) <=> f.kind # "search"
  BY DEF Field, OfClient

-----------------------------------------------------------------------------
(* What the functions of the field change *)

LEMMA FreshFacts ==
    ASSUME NEW kind \in {"create", "update", "search"}, NEW result \in SUBSET Clients,
           NEW success \in BOOLEAN
    PROVE  /\ Fresh(kind, result, success) \in Field
           /\ \A c \in Clients : Filled(Fresh(kind, result, success), c) \in Field
  <1>1. Fresh(kind, result, success) \in Field
    BY LookupsAssumption DEF Fresh, Field
  <1>2. QED
    BY <1>1 DEF Filled, Field

\* Typing leaves what was searched and found, and the client that is saved; it
\* empties the search field, and wakes it.
LEMMA EnteringFacts ==
    ASSUME NEW f \in Field, NEW t \in Texts
    PROVE  LET g == Entering(f, t)
           IN  /\ g \in Field
               /\ g.kind = f.kind /\ g.debounced = f.debounced
               /\ g.result = f.result /\ g.success = f.success
               /\ g.saved = f.saved /\ g.controlled = f.controlled
               /\ OfClient(f) => g.options = f.options /\ g.shown = f.shown
               /\ ~OfClient(f) /\ t = Blank => g = f
               /\ ~OfClient(f) /\ t # Blank =>
                      /\ g.options = {} /\ g.listening
                      /\ ~g.timer => t = f.entered
  <1> DEFINE h == [f EXCEPT !.entered = t, !.timer = @ \/ t # f.entered]
             e == [h EXCEPT !.options = {}, !.shown = Nobody, !.listening = TRUE]
  <1>1. h \in Field /\ e \in Field
    BY DEF Field
  <1>2. OfClient(f) => Entering(f, t) = h
    BY Kind DEF Entering
  <1>3. ~OfClient(f) /\ t = Blank => Entering(f, t) = f
    BY Kind DEF Entering
  <1>4. ~OfClient(f) /\ t # Blank => Entering(f, t) = e
    BY Kind DEF Entering, Field
  <1>5. /\ h.kind = f.kind /\ h.debounced = f.debounced
        /\ h.result = f.result /\ h.success = f.success
        /\ h.saved = f.saved /\ h.controlled = f.controlled
        /\ h.options = f.options /\ h.shown = f.shown
    BY DEF Field
  <1>6. /\ e.kind = f.kind /\ e.debounced = f.debounced
        /\ e.result = f.result /\ e.success = f.success
        /\ e.saved = f.saved /\ e.controlled = f.controlled
        /\ e.options = {} /\ e.listening /\ e.timer = h.timer
    <2> HIDE DEF h
    <2>1. QED
      BY <1>1, <1>5 DEF Field
  <1> HIDE DEF e
  <1>7. ~h.timer => t = f.entered
    <2>1. h.timer = (f.timer \/ t # f.entered)
      BY DEF Field
    <2>2. QED
      BY <2>1
  <1> HIDE DEF h
  <1>8. QED
    BY <1>1, <1>2, <1>3, <1>4, <1>5, <1>6, <1>7

\* An answer changes options, and in the search field what is shown.
LEMMA TakesFacts ==
    ASSUME NEW f \in Field
    PROVE  LET g == Takes(f)
           IN  /\ g \in Field
               /\ g.kind = f.kind /\ g.debounced = f.debounced
               /\ g.result = f.result /\ g.success = f.success
               /\ g.saved = f.saved /\ g.timer = f.timer
               /\ g.listening = f.listening
               /\ f.success /\ (OfClient(f) \/ f.listening) => g.options = f.result
               /\ OfClient(f) => g.shown = f.shown
               /\ ~OfClient(f) /\ ~f.listening => g = f
               /\ ~f.success /\ ~OfClient(f) /\ f.listening => g.options = {}
  <1> DEFINE found == [f EXCEPT !.options = f.result]
             none == [f EXCEPT !.options = {}, !.shown = Nobody]
  <1>1. found \in Field /\ none \in Field
    BY DEF Field
  <1>2. OfClient(f) => Takes(f) = IF f.success THEN found ELSE f
    BY DEF Takes, ClientTakes
  <1>3. ~OfClient(f) => Takes(f) = IF ~f.listening THEN f
                                   ELSE IF f.success THEN found ELSE none
    BY DEF Takes, SearchTakes
  <1>4. /\ found.kind = f.kind /\ found.debounced = f.debounced
        /\ found.result = f.result /\ found.success = f.success
        /\ found.saved = f.saved /\ found.timer = f.timer
        /\ found.listening = f.listening /\ found.options = f.result
        /\ found.shown = f.shown
    BY DEF Field
  <1>5. /\ none.kind = f.kind /\ none.debounced = f.debounced
        /\ none.result = f.result /\ none.success = f.success
        /\ none.saved = f.saved /\ none.timer = f.timer
        /\ none.listening = f.listening /\ none.options = {}
    BY DEF Field
  <1> HIDE DEF found, none
  <1>6. QED
    BY <1>1, <1>2, <1>3, <1>4, <1>5

\* No answer changes what is searched, nor the client that is saved.
LEMMA UnfoundFacts ==
    ASSUME NEW f \in Field
    PROVE  LET g == Unfound(f)
           IN  /\ g \in Field
               /\ g.kind = f.kind /\ g.debounced = f.debounced
               /\ g.saved = f.saved /\ g.timer = f.timer
               /\ g.listening = f.listening
               /\ ~g.success
               /\ OfClient(f) => g.shown = f.shown
               /\ ~OfClient(f) =>
                      g.result = f.result /\ (g.options = {} \/ g.options = f.options)
  <1> DEFINE bare == [f EXCEPT !.result = {}, !.success = FALSE]
             kept == [f EXCEPT !.success = FALSE]
  <1>1. /\ bare \in Field /\ bare.kind = f.kind /\ bare.debounced = f.debounced
        /\ bare.saved = f.saved /\ bare.timer = f.timer
        /\ bare.listening = f.listening /\ bare.shown = f.shown
        /\ bare.success = FALSE
    BY DEF Field
  <1>2. /\ kept \in Field /\ kept.kind = f.kind /\ kept.debounced = f.debounced
        /\ kept.saved = f.saved /\ kept.timer = f.timer
        /\ kept.listening = f.listening /\ kept.options = f.options
        /\ kept.result = f.result /\ kept.success = FALSE
    BY DEF Field
  <1>3. Unfound(f) = IF OfClient(f) THEN Takes(bare)
                     ELSE IF f.success THEN Takes(kept) ELSE f
    BY DEF Unfound
  <1>4. (OfClient(bare) <=> OfClient(f)) /\ (OfClient(kept) <=> OfClient(f))
    BY <1>1, <1>2, Kind
  <1> HIDE DEF bare, kept
  <1>5. CASE OfClient(f)
    BY <1>1, <1>3, <1>4, <1>5, TakesFacts
  <1>6. CASE ~OfClient(f) /\ f.success
    <2>1. Unfound(f) = Takes(kept)
      BY <1>3, <1>6
    <2>2. /\ ~kept.listening => Takes(kept) = kept
          /\ kept.listening => Takes(kept).options = {}
      BY <1>2, <1>4, <1>6, TakesFacts
    <2>3. kept.listening \in BOOLEAN
      BY <1>2 DEF Field
    <2>4. QED
      BY <1>2, <1>4, <1>6, <2>1, <2>2, <2>3, TakesFacts
  <1>7. CASE ~OfClient(f) /\ ~f.success
    BY <1>3, <1>7
  <1>8. QED
    BY <1>5, <1>6, <1>7

-----------------------------------------------------------------------------
(* The invariant *)

Searches(f) == f.kind = "search"

\* A search field that nothing was typed in is empty, and holds no text.
Deaf ==
    Searches(field) /\ ~field.listening =>
        field.options = {} /\ ~field.timer /\ field.debounced = Blank

\* What is out was searched for the text that was handed on last, or before
\* the search field was mounted anew.
LastOut ==
    ~raced => \A t \in Texts : out[t] > 0 =>
        t = field.debounced \/ (Searches(field) /\ field.debounced = Blank)

\* When every search is in, also while a timer runs in a client field.
Follows ==
    /\ ~(Searches(field) /\ field.timer)
    /\ out = NoneOut /\ ~raced /\ field.success
    /\ Searches(field) => ~repeated /\ field.debounced # Blank
    => field.options = Found[field.debounced]

Openable == Searches(field) => field.options \subseteq field.result

LookupInv ==
    /\ LookupTypeOK /\ ShownIsSaved
    /\ Deaf /\ LastOut /\ Follows /\ Openable

-----------------------------------------------------------------------------
(* Every step keeps it *)

LEMMA InvFacts ==
    ASSUME LookupInv
    PROVE  /\ field \in Field /\ out \in [Texts -> 0 .. MaxOut]
           /\ raced \in BOOLEAN /\ repeated \in BOOLEAN /\ marred \in BOOLEAN
           /\ OfClient(field) <=> ~Searches(field)
  BY Kind DEF LookupInv, LookupTypeOK, Searches

LEMMA TypeStep ==
    ASSUME LookupInv, NEW t \in Texts, Type(t) PROVE LookupInv'
  <1>1. /\ field \in Field /\ (OfClient(field) <=> ~Searches(field))
        /\ out \in [Texts -> 0 .. MaxOut]
        /\ raced \in BOOLEAN /\ repeated \in BOOLEAN /\ marred \in BOOLEAN
    BY InvFacts
  <1>2. /\ field' = Entering(field, t)
        /\ repeated' = (repeated \/ (~OfClient(field) /\ t = field.entered))
        /\ UNCHANGED <<out, raced, marred>>
    BY DEF Type
  <1>3. /\ field' \in Field
        /\ field'.kind = field.kind /\ field'.debounced = field.debounced
        /\ field'.result = field.result /\ field'.success = field.success
        /\ field'.saved = field.saved
        /\ OfClient(field) => field'.options = field.options /\ field'.shown = field.shown
        /\ Searches(field) /\ t = Blank => field' = field
        /\ Searches(field) /\ t # Blank =>
               /\ field'.options = {} /\ field'.listening
               /\ ~field'.timer => t = field.entered
    BY <1>1, <1>2, EnteringFacts
  <1>4. (Searches(field)' <=> Searches(field)) /\ (OfClient(field)' <=> OfClient(field))
    BY <1>3 DEF Searches, OfClient
  <1>5. LookupTypeOK'
    BY <1>1, <1>2, <1>3 DEF LookupTypeOK
  <1>6. ShownIsSaved'
    BY <1>2, <1>3, <1>4 DEF LookupInv, ShownIsSaved
  <1>7. Deaf' /\ Openable'
    BY <1>1, <1>3, <1>4 DEF LookupInv, Deaf, Openable
  <1>8. LastOut'
    BY <1>2, <1>3, <1>4 DEF LookupInv, LastOut
  <1>9. Follows'
    <2>1. CASE OfClient(field)
      BY <1>1, <1>2, <1>3, <1>4, <2>1 DEF LookupInv, Follows
    <2>2. CASE Searches(field) /\ t = Blank
      BY <1>1, <1>2, <1>3, <2>2 DEF LookupInv, Follows
    <2>3. CASE Searches(field) /\ t # Blank
      BY <1>1, <1>2, <1>3, <1>4, <2>3 DEF Follows
    <2>4. QED
      BY <1>1, <2>1, <2>2, <2>3
  <1>10. QED
    BY <1>5, <1>6, <1>7, <1>8, <1>9 DEF LookupInv

\* A search that is begun leaves nothing in that it could be compared with; a
\* text typed again is searched no more.
LEMMA TypingStoppedStep ==
    ASSUME LookupInv, TypingStopped PROVE LookupInv'
  <1>1. /\ field \in Field /\ (OfClient(field) <=> ~Searches(field))
        /\ out \in [Texts -> 0 .. MaxOut] /\ MaxOut \in Nat
        /\ raced \in BOOLEAN /\ repeated \in BOOLEAN /\ marred \in BOOLEAN
        /\ field.entered \in Texts
    BY InvFacts, LookupsAssumption DEF Field
  <1>2. /\ field' \in Field /\ ~field'.timer
        /\ field'.kind = field.kind /\ field'.debounced = field.entered
        /\ field'.result = field.result /\ field'.success = field.success
        /\ field'.saved = field.saved /\ field'.shown = field.shown
        /\ field'.options = field.options /\ field'.listening = field.listening
    BY <1>1 DEF TypingStopped, Field
  <1>3. (Searches(field)' <=> Searches(field)) /\ (OfClient(field)' <=> OfClient(field))
    BY <1>2 DEF Searches, OfClient
  <1>4. marred' = marred /\ field.timer
    BY DEF TypingStopped
  <1>5. ShownIsSaved'
    BY <1>2, <1>3, <1>4 DEF LookupInv, ShownIsSaved
  <1>6. Deaf' /\ Openable'
    BY <1>2, <1>3, <1>4 DEF LookupInv, Deaf, Openable
  <1>7. CASE field.entered # field.debounced
    <2>1. /\ out[field.entered] < MaxOut
          /\ out' = [out EXCEPT ![field.entered] = @ + 1]
          /\ raced' = (out # NoneOut) /\ repeated' = FALSE
      BY <1>7 DEF TypingStopped
    <2>2. /\ out' \in [Texts -> 0 .. MaxOut] /\ out'[field.entered] > 0
          /\ \A t \in Texts \ {field.entered} : out'[t] = out[t]
      BY <1>1, <2>1
    <2>3. LookupTypeOK'
      <3>1. raced' \in BOOLEAN /\ repeated' \in BOOLEAN
        BY <2>1
      <3>2. marred' \in BOOLEAN
        BY <1>1, <1>4
      <3>3. QED
        BY <1>2, <2>2, <3>1, <3>2 DEF LookupTypeOK
    <2>4. LastOut'
      <3>1. ~raced' => \A t \in Texts : out[t] = 0
        BY <2>1 DEF NoneOut
      <3>2. \A t \in Texts : out'[t] > 0 /\ out[t] = 0 => t = field.entered
        BY <2>2
      <3>3. QED
        BY <1>2, <3>1, <3>2 DEF LastOut
    <2>5. Follows'
      BY <1>1, <2>2 DEF Follows, NoneOut
    <2>6. QED
      BY <1>5, <1>6, <2>3, <2>4, <2>5 DEF LookupInv
  <1>8. CASE field.entered = field.debounced
    <2>1. repeated' = ~OfClient(field) /\ UNCHANGED <<out, raced>>
      BY <1>8 DEF TypingStopped
    <2>2. LookupTypeOK'
      <3>1. repeated' \in BOOLEAN
        BY <2>1
      <3>2. raced' \in BOOLEAN /\ marred' \in BOOLEAN /\ out' \in [Texts -> 0 .. MaxOut]
        BY <1>1, <1>4, <2>1
      <3>3. QED
        BY <1>2, <3>1, <3>2 DEF LookupTypeOK
    <2>3. LastOut'
      BY <1>2, <1>3, <1>8, <2>1 DEF LookupInv, LastOut
    <2>4. Follows'
      <3>1. Searches(field) => repeated'
        <4>1. SUFFICES ASSUME Searches(field) PROVE repeated'
          OBVIOUS
        <4>2. (~OfClient(field)) = TRUE
          BY <1>1, <4>1
        <4>3. repeated' = TRUE
          BY <2>1, <4>2
        <4>4. QED
          BY <4>3
      <3>2. QED
        BY <1>2, <1>3, <1>8, <2>1, <3>1 DEF LookupInv, Follows
    <2>5. QED
      BY <1>5, <1>6, <2>2, <2>3, <2>4 DEF LookupInv
  <1>9. QED
    BY <1>7, <1>8

\* The last search to come in, if no other was out with it, was for the text
\* that was handed on last.
LEMMA AnswerStep ==
    ASSUME LookupInv, NEW t \in Texts, SearchAnswered(t) \/ SearchLost(t)
    PROVE  LookupInv'
  <1> DEFINE taken == [field EXCEPT !.result = Found[t], !.success = TRUE]
  <1>1. /\ field \in Field /\ (OfClient(field) <=> ~Searches(field))
        /\ out \in [Texts -> 0 .. MaxOut] /\ MaxOut \in Nat
        /\ raced \in BOOLEAN /\ repeated \in BOOLEAN /\ marred \in BOOLEAN
        /\ Found[t] \in SUBSET Clients
    BY InvFacts, LookupsAssumption
  <1>2. /\ out[t] > 0 /\ out' = [out EXCEPT ![t] = @ - 1]
        /\ UNCHANGED <<raced, repeated, marred>>
        /\ field' = Takes(taken) \/ field' = Unfound(field)
    BY DEF SearchAnswered, SearchLost
  <1>3. /\ taken \in Field /\ taken.kind = field.kind
        /\ taken.debounced = field.debounced /\ taken.saved = field.saved
        /\ taken.timer = field.timer /\ taken.listening = field.listening
        /\ taken.shown = field.shown /\ taken.options = field.options
        /\ taken.result = Found[t] /\ taken.success = TRUE
    BY <1>1 DEF Field
  <1>4. OfClient(taken) <=> OfClient(field)
    BY <1>3 DEF OfClient
  <1> HIDE DEF taken
  <1>5. ASSUME field' = Takes(taken)
        PROVE  /\ field' \in Field
               /\ field'.kind = field.kind /\ field'.debounced = field.debounced
               /\ field'.saved = field.saved /\ field'.timer = field.timer
               /\ field'.listening = field.listening /\ field'.result = Found[t]
               /\ OfClient(field) => field'.shown = field.shown
               /\ OfClient(field) \/ field.listening => field'.options = Found[t]
               /\ Searches(field) /\ ~field.listening => field'.options = field.options
    BY <1>1, <1>3, <1>4, <1>5, TakesFacts
  <1>6. ASSUME field' = Unfound(field)
        PROVE  /\ field' \in Field
               /\ field'.kind = field.kind /\ field'.debounced = field.debounced
               /\ field'.saved = field.saved /\ field'.timer = field.timer
               /\ field'.listening = field.listening /\ ~field'.success
               /\ OfClient(field) => field'.shown = field.shown
               /\ Searches(field) =>
                      /\ field'.result = field.result
                      /\ field'.options = {} \/ field'.options = field.options
    BY <1>1, <1>6, UnfoundFacts
  <1>7. /\ field' \in Field
        /\ field'.kind = field.kind /\ field'.debounced = field.debounced
        /\ field'.saved = field.saved /\ field'.timer = field.timer
        /\ field'.listening = field.listening
        /\ OfClient(field) => field'.shown = field.shown
    BY <1>2, <1>5, <1>6
  <1>8. (Searches(field)' <=> Searches(field)) /\ (OfClient(field)' <=> OfClient(field))
    BY <1>7 DEF Searches, OfClient
  <1>9. /\ out' \in [Texts -> 0 .. MaxOut]
        /\ \A u \in Texts : out'[u] > 0 => out[u] > 0
    BY <1>1, <1>2
  <1>10. LookupTypeOK'
    BY <1>1, <1>2, <1>7, <1>9 DEF LookupTypeOK
  <1>11. ShownIsSaved'
    BY <1>2, <1>7, <1>8 DEF LookupInv, ShownIsSaved
  <1>12. LastOut'
    BY <1>2, <1>7, <1>8, <1>9 DEF LookupInv, LastOut
  <1>13. Deaf'
    BY <1>2, <1>5, <1>6, <1>7, <1>8 DEF LookupInv, Deaf
  <1>14. Openable'
    <2>1. CASE field' = Takes(taken)
      BY <1>1, <1>5, <1>8, <2>1 DEF LookupInv, Deaf, Openable, Field
    <2>2. CASE field' = Unfound(field)
      BY <1>6, <1>8, <2>2 DEF LookupInv, Openable
    <2>3. QED
      BY <1>2, <2>1, <2>2
  <1>15. Follows'
    <2>1. CASE field' = Takes(taken)
      <3>1. SUFFICES ASSUME ~raced, ~Searches(field) \/ field.debounced # Blank
                     PROVE  field'.options = Found[field.debounced]
        BY <1>2, <1>7, <1>8 DEF Follows
      <3>2. t = field.debounced
        BY <1>2, <3>1 DEF LookupInv, LastOut
      <3>3. OfClient(field) \/ field.listening
        BY <1>1, <3>1 DEF LookupInv, Deaf
      <3>4. QED
        BY <1>5, <2>1, <3>2, <3>3
    <2>2. CASE field' = Unfound(field)
      BY <1>6, <2>2 DEF Follows
    <2>3. QED
      BY <1>2, <2>1, <2>2
  <1>16. QED
    BY <1>10, <1>11, <1>12, <1>13, <1>14, <1>15 DEF LookupInv

\* Choosing saves what is shown, where antd shows what it is told; no other
\* choice is counted.
LEMMA ChooseStep ==
    ASSUME LookupInv, NEW c \in Clients, Choose(c) PROVE LookupInv'
  <1> DEFINE f == [field EXCEPT !.saved = c,
                                !.shown = IF field.controlled THEN @ ELSE c]
  <1>1. /\ field \in Field /\ OfClient(field)
        /\ out \in [Texts -> 0 .. MaxOut] /\ Blank \in Texts
        /\ raced \in BOOLEAN /\ repeated \in BOOLEAN /\ marred \in BOOLEAN
    BY InvFacts, LookupsAssumption DEF Choose
  <1>2. /\ field' = f \/ field' = Entering(f, Blank)
        /\ marred' = (field.controlled /\ (marred \/ c # field.shown))
        /\ UNCHANGED <<out, raced, repeated>>
    BY DEF Choose
  <1>3. /\ f \in Field /\ f.kind = field.kind /\ f.debounced = field.debounced
        /\ f.success = field.success /\ f.options = field.options
        /\ f.saved = c /\ f.shown = IF field.controlled THEN field.shown ELSE c
    BY <1>1 DEF Field
  <1>4. OfClient(f)
    BY <1>1, <1>3 DEF OfClient
  <1> HIDE DEF f
  <1>5. /\ field' \in Field
        /\ field'.kind = field.kind /\ field'.debounced = field.debounced
        /\ field'.success = field.success /\ field'.options = field.options
        /\ field'.saved = c /\ field'.shown = f.shown
    BY <1>1, <1>2, <1>3, <1>4, EnteringFacts
  <1>6. OfClient(field)' /\ ~Searches(field)' /\ ~Searches(field)
    BY <1>1, <1>5 DEF OfClient, Searches
  <1>7. LookupTypeOK'
    <2>1. marred' \in BOOLEAN
      BY <1>2
    <2>2. QED
      BY <1>1, <1>2, <1>5, <2>1 DEF LookupTypeOK
  <1>8. ShownIsSaved'
    BY <1>2, <1>3, <1>5 DEF ShownIsSaved
  <1>9. Deaf' /\ Openable' /\ LastOut' /\ Follows'
    BY <1>1, <1>2, <1>5, <1>6 DEF LookupInv, Deaf, Openable, LastOut, Follows
  <1>10. QED
    BY <1>7, <1>8, <1>9 DEF LookupInv

LEMMA ClearStep ==
    ASSUME LookupInv, Clear PROVE LookupInv'
  <1>1. /\ field \in Field /\ OfClient(field)
        /\ out \in [Texts -> 0 .. MaxOut]
        /\ raced \in BOOLEAN /\ repeated \in BOOLEAN /\ marred \in BOOLEAN
    BY InvFacts DEF Clear
  <1>2. /\ marred' = (marred \/ ~field.controlled)
        /\ UNCHANGED <<out, raced, repeated>>
    BY DEF Clear
  <1>3. /\ field' \in Field
        /\ field'.kind = field.kind /\ field'.debounced = field.debounced
        /\ field'.success = field.success /\ field'.options = field.options
        /\ field'.saved = field.saved
        /\ field.controlled => field'.shown = field.shown
    BY <1>1 DEF Clear, Field
  <1>4. OfClient(field)' /\ ~Searches(field)' /\ ~Searches(field)
    BY <1>1, <1>3 DEF OfClient, Searches
  <1>5. LookupTypeOK'
    <2>1. marred' \in BOOLEAN
      BY <1>2
    <2>2. QED
      BY <1>1, <1>2, <1>3, <2>1 DEF LookupTypeOK
  <1>6. ShownIsSaved'
    BY <1>1, <1>2, <1>3 DEF LookupInv, ShownIsSaved
  <1>7. Deaf' /\ Openable' /\ LastOut' /\ Follows'
    BY <1>1, <1>2, <1>3, <1>4 DEF LookupInv, Deaf, Openable, LastOut, Follows
  <1>8. QED
    BY <1>5, <1>6, <1>7 DEF LookupInv

\* A form that is filled again starts as one that is filled.
LEMMA RefillStep ==
    ASSUME LookupInv, NEW c \in Clients, Refill(c) PROVE LookupInv'
  <1>1. /\ field' = Filled(Fresh("update", {}, FALSE), c)
        /\ out' = [NoneOut EXCEPT ![Blank] = 1]
        /\ raced' = FALSE /\ repeated' = FALSE /\ marred' = FALSE
    BY DEF Refill
  <1>2. /\ field' \in Field /\ field'.kind = "update" /\ field'.success = FALSE
        /\ field'.debounced = Blank /\ field'.shown = field'.saved
    <2>1. field' \in Field
      BY <1>1, FreshFacts
    <2>2. QED
      BY <1>1, <2>1 DEF Fresh, Filled
  <1>3. /\ out' \in [Texts -> 0 .. MaxOut]
        /\ \A t \in Texts : out'[t] > 0 => t = Blank
    BY <1>1, LookupsAssumption DEF NoneOut
  <1>4. ~Searches(field)' /\ OfClient(field)'
    BY <1>2 DEF Searches, OfClient
  <1>5. LookupTypeOK' /\ ShownIsSaved'
    BY <1>1, <1>2, <1>3 DEF LookupTypeOK, ShownIsSaved
  <1>6. Deaf' /\ Openable' /\ LastOut' /\ Follows'
    BY <1>1, <1>2, <1>3, <1>4 DEF Deaf, Openable, LastOut, Follows
  <1>7. QED
    BY <1>5, <1>6 DEF LookupInv

\* A field that is mounted anew waits for nothing it hears.
LEMMA OpenStep ==
    ASSUME LookupInv, NEW c \in Clients, Open(c) PROVE LookupInv'
  <1>1. /\ field \in Field /\ out \in [Texts -> 0 .. MaxOut]
        /\ raced \in BOOLEAN /\ repeated \in BOOLEAN /\ marred \in BOOLEAN
    BY InvFacts
  <1>2. /\ field.result \in SUBSET Clients /\ field.success \in BOOLEAN
        /\ field' = Fresh("search", field.result, field.success)
        /\ repeated' = FALSE /\ UNCHANGED <<out, raced, marred>>
    BY <1>1 DEF Open, Field
  <1>3. /\ field' \in Field /\ field'.kind = "search"
        /\ field'.debounced = Blank /\ field'.options = {}
        /\ field'.timer = FALSE /\ field'.listening = FALSE
    BY <1>2, FreshFacts DEF Fresh
  <1>4. Searches(field)' /\ ~OfClient(field)'
    BY <1>3 DEF Searches, OfClient
  <1>5. LookupTypeOK' /\ ShownIsSaved'
    BY <1>1, <1>2, <1>3, <1>4 DEF LookupTypeOK, ShownIsSaved
  <1>6. Deaf' /\ Openable' /\ LastOut' /\ Follows'
    BY <1>3, <1>4 DEF Deaf, Openable, LastOut, Follows
  <1>7. QED
    BY <1>5, <1>6 DEF LookupInv

-----------------------------------------------------------------------------
(* The theorems *)

LEMMA LookupInitInv == LookupInit => LookupInv
  <1> SUFFICES ASSUME LookupInit PROVE LookupInv
    OBVIOUS
  <1>1. /\ field \in Field /\ field.success = FALSE /\ field.debounced = Blank
        /\ field.timer = FALSE /\ field.shown = field.saved
        /\ Searches(field) => field.options = {}
    <2>1. CASE field = Fresh("create", {}, FALSE)
      BY <2>1, FreshFacts DEF Fresh
    <2>2. CASE field = Fresh("search", {}, FALSE)
      BY <2>2, FreshFacts DEF Fresh
    <2>3. ASSUME NEW c \in Clients, field = Filled(Fresh("update", {}, FALSE), c)
          PROVE  /\ field \in Field /\ field.success = FALSE /\ field.debounced = Blank
                 /\ field.timer = FALSE /\ field.shown = field.saved
                 /\ ~Searches(field)
      <3>1. field \in Field
        BY <2>3, FreshFacts
      <3>2. QED
        BY <2>3, <3>1 DEF Fresh, Filled, Searches
    <2>4. QED
      BY <2>1, <2>2, <2>3 DEF LookupInit
  <1>2. LookupTypeOK
    <2>1. out \in [Texts -> 0 .. MaxOut]
      BY LookupsAssumption DEF LookupInit
    <2>2. QED
      BY <1>1, <2>1 DEF LookupInit, LookupTypeOK
  <1>3. ShownIsSaved /\ Deaf /\ Openable /\ Follows
    BY <1>1 DEF ShownIsSaved, Deaf, Openable, Follows
  <1>4. LastOut
    BY <1>1 DEF LookupInit, LastOut
  <1>5. QED
    BY <1>2, <1>3, <1>4 DEF LookupInv

LEMMA LookupNextInv == LookupInv /\ [LookupNext]_lookupVars => LookupInv'
  <1> SUFFICES ASSUME LookupInv, [LookupNext]_lookupVars PROVE LookupInv'
    OBVIOUS
  <1>1. CASE UNCHANGED lookupVars
    BY <1>1 DEF lookupVars, LookupInv, LookupTypeOK, ShownIsSaved, Deaf, LastOut,
       Follows, Openable, Searches, OfClient
  <1>2. CASE LookupNext
    BY <1>2, TypeStep, TypingStoppedStep, AnswerStep, ChooseStep, ClearStep,
       RefillStep, OpenStep DEF LookupNext
  <1>3. QED
    BY <1>1, <1>2

LEMMA LookupInvariance == LookupSpec => []LookupInv
  <1>1. QED
    BY LookupInitInv, LookupNextInv, PTL DEF LookupSpec

\* The field and what is out keep their types, and no more than the bound of
\* searches of one text is out.
THEOREM LookupTypeCorrect == LookupSpec => []LookupTypeOK
  <1>1. LookupInv => LookupTypeOK
    BY DEF LookupInv
  <1>2. QED
    BY <1>1, LookupInvariance, PTL

\* Once typing has stopped and every search is in, the options answer the text
\* that was searched last, for any number of searches, unless two raced or the
\* text was typed again; an option of the search field can be opened.
THEOREM OptionsAlwaysFollow == LookupSpec => []OptionsFollow
  <1>1. LookupInv => OptionsFollow
    BY InvFacts DEF LookupInv, Follows, Openable, OptionsFollow, Searches
  <1>2. QED
    BY <1>1, LookupInvariance, PTL

\* No answer changes the client that is shown or that is saved.
THEOREM ShownStaysSaved == LookupSpec => []ShownIsSaved
  <1>1. LookupInv => ShownIsSaved
    BY DEF LookupInv
  <1>2. QED
    BY <1>1, LookupInvariance, PTL

-----------------------------------------------------------------------------
(***************************************************************************)
(* Totals                                                                  *)
(***************************************************************************)

\* The total a body adds up to.
TotalOfBody(rows, rate) == SubTotal(rows) + Tax(SubTotal(rows), rate)

\* The form's sums are those of its rows and of its tax.
FormAddsUp ==
    /\ form.subTotal = SubTotal(form.rows)
    /\ form.total = form.subTotal + Tax(form.subTotal, form.taxRate)
    /\ form.chosen # Missing => form.chosen \in Rates /\ form.taxRate = form.chosen

\* The total that was shown is the one the body adds up to.
RequestAddsUp ==
    request.pc # "none" =>
        /\ request.taxRate \in Rates
        /\ request.shown = TotalOfBody(request.rows, request.taxRate)

DocumentAddsUp ==
    /\ document.subTotal = SubTotal(document.rows)
    /\ document.rows # <<>> => document.taxRate \in Rates
    /\ ShownIsStored

\* Money is whole cents, and not less than none.
TotalsInv == TotalsTypeOK /\ FormAddsUp /\ RequestAddsUp /\ DocumentAddsUp

-----------------------------------------------------------------------------
(* Money *)

LEMMA RowsTyped ==
    ASSUME NEW rows \in Seq(Row)
    PROVE  /\ IsFiniteSet(DOMAIN rows) /\ DOMAIN rows = 1 .. Len(rows) /\ Len(rows) \in Nat
           /\ \A i \in DOMAIN rows : rows[i] \in Row
  <1>1. DOMAIN rows = 1 .. Len(rows) /\ Len(rows) \in Nat
    OBVIOUS
  <1>2. \A i \in DOMAIN rows : rows[i] \in Row
    BY <1>1, ElementOfSeq
  <1>3. IsFiniteSet(1 .. Len(rows))
    BY <1>1, FS_Interval
  <1>4. QED
    BY <1>1, <1>2, <1>3

LEMMA Rounding ==
    ASSUME NEW n \in Nat
    PROVE  /\ (n + 5) \div 10 \in Nat /\ (n + 500) \div 1000 \in Nat
           /\ (n + 50) \div 100 \in Nat
  OBVIOUS

LEMMA TimesNat == \A a, b \in Nat : a * b \in Nat
  OBVIOUS

LEMMA LineNat ==
    ASSUME NEW row \in Row, Complete(row)
    PROVE  Line(row) \in Nat /\ row.quantity \in Nat /\ row.price \in Nat
  <1>1. row.quantity \in Nat /\ row.price \in Nat
    BY TotalsAssumption DEF Row, Complete
  <1>2. Cents(row.quantity) \in Nat
    BY <1>1, Rounding DEF Cents
  <1>3. Cents(row.quantity) * row.price \in Nat
    BY <1>1, <1>2, TimesNat
  <1>4. QED
    BY <1>1, <1>3, Rounding DEF Line, Multiply

LEMMA SubTotalNat == \A rows \in Seq(Row) : SubTotal(rows) \in Nat
  <1> TAKE rows \in Seq(Row)
  <1> DEFINE f == [i \in DOMAIN rows |-> IF Complete(rows[i]) THEN Line(rows[i]) ELSE 0]
  <1>1. \A i \in DOMAIN rows : f[i] \in Nat
    BY RowsTyped, LineNat
  <1>2. SumOver(f, DOMAIN rows) \in Nat
    BY <1>1, RowsTyped, SumNat
  <1>3. QED
    BY <1>2 DEF SubTotal

LEMMA TaxNat == \A subTotal, rate \in Nat : Tax(subTotal, rate) \in Nat
  BY TimesNat, Rounding DEF Tax

LEMMA NoRows ==
    /\ <<>> \in Seq(Row) /\ SubTotal(<<>>) = 0
    /\ <<EmptyRow>> \in Seq(Row) /\ SubTotal(<<EmptyRow>>) = 0
    /\ EmptyRow \in Row /\ Tax(0, 0) = 0
  <1>1. EmptyRow \in Row /\ ~Complete(EmptyRow)
    BY DEF EmptyRow, Row, Complete
  <1>2. <<>> \in Seq(Row) /\ <<EmptyRow>> \in Seq(Row)
    BY <1>1
  <1>3. DOMAIN <<>> = {} /\ DOMAIN <<EmptyRow>> = {1}
    OBVIOUS
  <1>4. SubTotal(<<>>) = 0
    BY <1>3, SumEmpty DEF SubTotal
  <1>5. SubTotal(<<EmptyRow>>) = 0
    <2> DEFINE rows == <<EmptyRow>>
               f == [i \in DOMAIN rows |-> IF Complete(rows[i]) THEN Line(rows[i]) ELSE 0]
    <2>1. f[1] = 0
      BY <1>1, <1>3
    <2>2. IsFiniteSet({1}) /\ {1} \ {1} = {}
      BY FS_Singleton
    <2> HIDE DEF f
    <2>3. SumOver(f, {1}) = f[1] + SumOver(f, {1} \ {1})
      BY <2>1, <2>2, SumTake
    <2>4. SumOver(f, {1}) = 0
      BY <2>1, <2>2, <2>3, SumEmpty
    <2>5. QED
      BY <1>3, <2>4 DEF SubTotal, f
  <1>6. Tax(0, 0) = 0
    BY DEF Tax
  <1>7. QED
    BY <1>1, <1>2, <1>4, <1>5, <1>6

-----------------------------------------------------------------------------
(* What the form's effects change *)

Fits(f) ==
    /\ f \in Form
    /\ f.subTotal = SubTotal(f.rows)
    /\ f.total = f.subTotal + Tax(f.subTotal, f.taxRate)
    /\ f.chosen # Missing => f.chosen \in Rates /\ f.taxRate = f.chosen

LEMMA NothingFits ==
    /\ Fits(Nothing)
    /\ Fits([Nothing EXCEPT !.page = "crashed"])
    /\ Fits([Nothing EXCEPT !.page = "create", !.rows = <<EmptyRow>>])
  <1> DEFINE f(page, rows) == [page |-> page, rows |-> rows, subTotal |-> 0,
                                taxRate |-> 0, chosen |-> Missing, total |-> 0]
  <1>1. ASSUME NEW page \in {"read", "crashed", "create"},
               NEW rows \in {<<>>, <<EmptyRow>>}
        PROVE  Fits(f(page, rows))
    <2>1. rows \in Seq(Row) /\ SubTotal(rows) = 0
      BY <1>1, NoRows
    <2>2. f(page, rows) \in Form
      BY <1>1, <2>1, TotalsAssumption DEF Form
    <2>3. 0 = 0 + Tax(0, 0)
      BY NoRows
    <2>4. QED
      BY <2>1, <2>2, <2>3 DEF Fits
  <1>2. Nothing = f("read", <<>>)
    BY DEF Nothing
  <1>3. [f("read", <<>>) EXCEPT !.page = "crashed"] = f("crashed", <<>>)
    OBVIOUS
  <1>4. [f("read", <<>>) EXCEPT !.page = "create", !.rows = <<EmptyRow>>]
            = f("create", <<EmptyRow>>)
    <2>1. \A g : [g EXCEPT !.page = "create", !.rows = <<EmptyRow>>]
                 = [[g EXCEPT !.page = "create"] EXCEPT !.rows = <<EmptyRow>>]
      OBVIOUS
    <2>2. [f("read", <<>>) EXCEPT !.page = "create"] = f("create", <<>>)
      OBVIOUS
    <2>3. [f("create", <<>>) EXCEPT !.rows = <<EmptyRow>>] = f("create", <<EmptyRow>>)
      OBVIOUS
    <2> HIDE DEF f
    <2>4. QED
      BY <2>1, <2>2, <2>3
  <1>5. /\ Fits(f("read", <<>>)) /\ Fits(f("crashed", <<>>))
        /\ Fits(f("create", <<EmptyRow>>))
    BY <1>1
  <1> HIDE DEF f
  <1>6. QED
    BY <1>2, <1>3, <1>4, <1>5

LEMMA TotalledFacts ==
    ASSUME NEW f \in Form
    PROVE  /\ Totalled(f) \in Form
           /\ Totalled(f).rows = f.rows /\ Totalled(f).subTotal = f.subTotal
           /\ Totalled(f).taxRate = f.taxRate /\ Totalled(f).chosen = f.chosen
           /\ Totalled(f).total = f.subTotal + Tax(f.subTotal, f.taxRate)
  <1>1. f.subTotal \in Nat /\ f.taxRate \in Nat
    BY DEF Form
  <1>2. Tax(f.subTotal, f.taxRate) \in Nat
    BY <1>1, TaxNat
  <1>3. f.subTotal + Tax(f.subTotal, f.taxRate) \in Nat
    BY <1>1, <1>2
  <1> DEFINE total == f.subTotal + Tax(f.subTotal, f.taxRate)
  <1>4. Totalled(f) = [f EXCEPT !.total = total] /\ total \in Nat
    BY <1>3 DEF Totalled
  <1> HIDE DEF total
  <1>5. /\ Totalled(f) \in Form
        /\ Totalled(f).rows = f.rows /\ Totalled(f).subTotal = f.subTotal
        /\ Totalled(f).taxRate = f.taxRate /\ Totalled(f).chosen = f.chosen
        /\ Totalled(f).total = total
    BY <1>4 DEF Form
  <1>6. QED
    BY <1>5 DEF total

LEMMA ChangedFits ==
    ASSUME NEW f, Fits(f), NEW rows \in Seq(Row)
    PROVE  Fits(Changed(f, rows))
  <1> DEFINE g == [f EXCEPT !.rows = rows, !.subTotal = SubTotal(rows)]
  <1>1. /\ g \in Form /\ g.rows = rows /\ g.subTotal = SubTotal(rows)
        /\ g.taxRate = f.taxRate /\ g.chosen = f.chosen
    BY SubTotalNat DEF Fits, Form
  <1>2. Changed(f, rows) = Totalled(g)
    BY DEF Changed
  <1> HIDE DEF g
  <1>3. /\ Totalled(g) \in Form
        /\ Totalled(g).rows = g.rows /\ Totalled(g).subTotal = g.subTotal
        /\ Totalled(g).taxRate = g.taxRate /\ Totalled(g).chosen = g.chosen
        /\ Totalled(g).total = g.subTotal + Tax(g.subTotal, g.taxRate)
    BY <1>1, TotalledFacts
  <1>4. QED
    BY <1>1, <1>2, <1>3 DEF Fits

LEMMA TaxedFits ==
    ASSUME NEW f \in Form, f.subTotal = SubTotal(f.rows), NEW rate \in Rates
    PROVE  Fits(Taxed(f, rate))
  <1> DEFINE g == [f EXCEPT !.chosen = rate, !.taxRate = rate]
  <1>1. /\ g \in Form /\ g.rows = f.rows /\ g.subTotal = f.subTotal
        /\ g.taxRate = rate /\ g.chosen = rate
    BY TotalsAssumption DEF Form
  <1>2. Taxed(f, rate) = Totalled(g)
    BY DEF Taxed
  <1> HIDE DEF g
  <1>3. /\ Totalled(g) \in Form
        /\ Totalled(g).rows = g.rows /\ Totalled(g).subTotal = g.subTotal
        /\ Totalled(g).taxRate = g.taxRate /\ Totalled(g).chosen = g.chosen
        /\ Totalled(g).total = g.subTotal + Tax(g.subTotal, g.taxRate)
    BY <1>1, TotalledFacts
  <1>4. QED
    BY <1>1, <1>2, <1>3 DEF Fits

LEMMA Removing ==
    ASSUME NEW rows \in Seq(Row), NEW i \in DOMAIN rows
    PROVE  RemoveAt(rows, i) \in Seq(Row)
  <1>1. i \in 1 .. Len(rows) /\ Len(rows) \in Nat /\ \A j \in 1 .. Len(rows) : rows[j] \in Row
    BY RowsTyped
  <1>2. SubSeq(rows, 1, i - 1) \in Seq(Row)
    BY <1>1, SubSeqProperties
  <1>3. SubSeq(rows, i + 1, Len(rows)) \in Seq(Row)
    BY <1>1, SubSeqProperties
  <1>4. QED
    BY <1>2, <1>3, ConcatProperties DEF RemoveAt

LEMMA EditedTyped ==
    ASSUME NEW rows \in Seq(Row), NEW i \in DOMAIN rows
    PROVE  /\ \A q \in Quantities \union {Missing} :
                  [rows EXCEPT ![i].quantity = q] \in Seq(Row)
           /\ \A p \in Prices \union {Missing} :
                  [rows EXCEPT ![i].price = p] \in Seq(Row)
  <1>1. rows[i] \in Row /\ i \in 1 .. Len(rows)
    BY RowsTyped
  <1>2. ASSUME NEW row \in Row PROVE [rows EXCEPT ![i] = row] \in Seq(Row)
    BY <1>1, <1>2, ExceptSeq
  <1>3. ASSUME NEW q \in Quantities \union {Missing}
        PROVE  [rows EXCEPT ![i].quantity = q] \in Seq(Row)
    <2>1. [rows[i] EXCEPT !.quantity = q] \in Row
      BY <1>1, <1>3 DEF Row
    <2>2. [rows EXCEPT ![i].quantity = q] = [rows EXCEPT ![i] = [rows[i] EXCEPT !.quantity = q]]
      OBVIOUS
    <2>3. QED
      BY <1>2, <2>1, <2>2
  <1>4. ASSUME NEW p \in Prices \union {Missing}
        PROVE  [rows EXCEPT ![i].price = p] \in Seq(Row)
    <2>1. [rows[i] EXCEPT !.price = p] \in Row
      BY <1>1, <1>4 DEF Row
    <2>2. [rows EXCEPT ![i].price = p] = [rows EXCEPT ![i] = [rows[i] EXCEPT !.price = p]]
      OBVIOUS
    <2>3. QED
      BY <1>2, <2>1, <2>2
  <1>5. QED
    BY <1>3, <1>4

-----------------------------------------------------------------------------
(* The steps *)

\* The sums of the form; a request and a document left alone keep theirs.
LEMMA FormStep ==
    ASSUME TotalsInv, Fits(form'), taxes' \in Taxes, UNCHANGED document,
           request' \in {request, Unsent}
    PROVE  TotalsInv'
  <1>1. Unsent \in Request
    BY NoRows DEF Unsent, Request
  <1>2. TotalsTypeOK'
    BY <1>1 DEF TotalsInv, TotalsTypeOK, Fits
  <1>3. FormAddsUp'
    BY DEF FormAddsUp, Fits
  <1>4. RequestAddsUp'
    BY DEF TotalsInv, RequestAddsUp, Unsent
  <1>5. DocumentAddsUp'
    BY DEF TotalsInv, DocumentAddsUp, ShownIsStored
  <1>6. QED
    BY <1>2, <1>3, <1>4, <1>5 DEF TotalsInv

LEMMA FormFits == ASSUME TotalsInv PROVE Fits(form)
  BY DEF TotalsInv, TotalsTypeOK, FormAddsUp, Fits

LEMMA EditStep ==
    ASSUME TotalsInv,
           \/ AddRow
           \/ \E i \in DOMAIN form.rows : RemoveRow(i) \/ Edit(i)
    PROVE  TotalsInv'
  <1>0. form.rows \in Seq(Row) /\ taxes \in Taxes
    BY DEF TotalsInv, TotalsTypeOK, Form
  <1>1. ASSUME NEW rows \in Seq(Row), form' = Changed(form, rows),
               UNCHANGED <<taxes, request, document>>
        PROVE  TotalsInv'
    <2>1. Fits(form')
      BY <1>1, FormFits, ChangedFits
    <2>2. QED
      BY <1>0, <1>1, <2>1, FormStep
  <1>2. CASE AddRow
    <2>1. Append(form.rows, EmptyRow) \in Seq(Row)
      BY <1>0, NoRows
    <2>2. QED
      BY <1>1, <1>2, <2>1 DEF AddRow
  <1>3. ASSUME NEW i \in DOMAIN form.rows, RemoveRow(i)
        PROVE  TotalsInv'
    BY <1>0, <1>1, <1>3, Removing DEF RemoveRow
  <1>4. ASSUME NEW i \in DOMAIN form.rows, Edit(i)
        PROVE  TotalsInv'
    <2>1. \E rows \in Seq(Row) : form' = Changed(form, rows)
      BY <1>0, <1>4, EditedTyped DEF Edit
    <2>2. QED
      BY <1>1, <1>4, <2>1 DEF Edit
  <1>5. QED
    BY <1>2, <1>3, <1>4

LEMMA PageStep ==
    ASSUME TotalsInv,
           \/ OpenCreate \/ OpenUpdate \/ Leave
           \/ \E rate \in Rates : ChooseTax(rate)
           \/ \E ok \in BOOLEAN : TaxesAnswered(ok)
           \/ Answered \/ AnswerLost \/ FormRefused \/ Recover
    PROVE  TotalsInv'
  <1>0. /\ Fits(form) /\ form \in Form /\ taxes \in Taxes /\ document \in Document
        /\ FreshTaxes \in Taxes
    BY FormFits DEF TotalsInv, TotalsTypeOK, FreshTaxes, Taxes
  <1>1. CASE OpenCreate
    BY <1>0, <1>1, NothingFits, FormStep DEF OpenCreate
  <1>2. CASE OpenUpdate
    <2> DEFINE f == [Nothing EXCEPT !.page = "update", !.rows = document.rows,
                                    !.subTotal = document.subTotal]
    <2>1. /\ document.rows \in Seq(Row) /\ document.subTotal \in Nat
          /\ document.subTotal = SubTotal(document.rows) /\ document.taxRate \in Rates
      BY <1>0, <1>2 DEF OpenUpdate, TotalsInv, DocumentAddsUp, Document
    <2>2. Nothing \in Form
      BY NothingFits DEF Fits
    <2>3. f \in Form /\ f.subTotal = SubTotal(f.rows)
      BY <2>1, <2>2 DEF Form
    <2>4. form' = Taxed(f, document.taxRate) /\ taxes' = FreshTaxes
          /\ UNCHANGED <<request, document>>
      BY <1>2 DEF OpenUpdate
    <2> HIDE DEF f
    <2>5. Fits(form')
      BY <2>1, <2>3, <2>4, TaxedFits
    <2>6. QED
      BY <1>0, <2>4, <2>5, FormStep
  <1>3. CASE Leave
    BY <1>0, <1>3, NothingFits, FormStep DEF Leave
  <1>4. ASSUME NEW rate \in Rates, ChooseTax(rate)
        PROVE  TotalsInv'
    <2>1. Fits(form')
      BY <1>0, <1>4, TaxedFits DEF ChooseTax, Fits
    <2>2. QED
      BY <1>0, <1>4, <2>1, FormStep DEF ChooseTax
  <1>5. ASSUME NEW ok \in BOOLEAN, TaxesAnswered(ok)
        PROVE  TotalsInv'
    <2>1. Fits(form')
      BY <1>0, <1>5, NothingFits DEF TaxesAnswered
    <2>2. taxes' \in Taxes /\ UNCHANGED <<request, document>>
      BY <1>0, <1>5 DEF TaxesAnswered, Taxes
    <2>3. QED
      BY <2>1, <2>2, FormStep
  <1>6. CASE Answered
    <2>1. Fits(form')
      BY <1>0, <1>6, NothingFits DEF Answered
    <2>2. QED
      BY <1>0, <1>6, <2>1, FormStep DEF Answered
  <1>7. CASE AnswerLost \/ FormRefused
    BY <1>0, <1>7, FormStep DEF AnswerLost, FormRefused
  <1>8. CASE Recover
    BY <1>0, <1>8, NothingFits, FormStep DEF Recover
  <1>9. QED
    BY <1>1, <1>2, <1>3, <1>4, <1>5, <1>6, <1>7, <1>8

\* The total the user is shown is the one the body will add up to.
LEMMA SendStep ==
    ASSUME TotalsInv, SendForm PROVE TotalsInv'
  <1>1. /\ form.page \in {"create", "update"} /\ form.rows \in Seq(Row)
        /\ form.chosen \in Rates /\ form.taxRate = form.chosen
        /\ form.total \in Nat
        /\ form.total = TotalOfBody(form.rows, form.chosen)
    BY DEF SendForm, Editing, TotalsInv, TotalsTypeOK, FormAddsUp, Form, TotalOfBody
  <1>2. request' = [pc |-> "sent", page |-> form.page, rows |-> form.rows,
                    taxRate |-> form.chosen, shown |-> form.total]
    BY DEF SendForm, Unsent
  <1>3. request' \in Request
    BY <1>1, <1>2 DEF Request
  <1>4. RequestAddsUp'
    BY <1>1, <1>2 DEF RequestAddsUp
  <1>5. QED
    BY <1>3, <1>4 DEF TotalsInv, TotalsTypeOK, SendForm, FormAddsUp, DocumentAddsUp,
       ShownIsStored

LEMMA StoreStep ==
    ASSUME TotalsInv, Store PROVE TotalsInv'
  <1>0. request \in Request /\ request.rows \in Seq(Row) /\ request.shown \in Nat
    BY DEF TotalsInv, TotalsTypeOK, Request
  <1>1. /\ request.taxRate \in Rates
        /\ request.shown = TotalOfBody(request.rows, request.taxRate)
    BY DEF Store, TotalsInv, RequestAddsUp
  <1> DEFINE subTotal == SubTotal(request.rows)
             total == TotalOfBody(request.rows, request.taxRate)
  <1>2. subTotal \in Nat
    BY <1>0, SubTotalNat
  <1>3. document' = [rows |-> request.rows, taxRate |-> request.taxRate,
                     subTotal |-> subTotal, total |-> total, shown |-> request.shown]
    BY DEF Store, Stored, TotalOfBody
  <1>4. /\ document'.rows = request.rows /\ document'.subTotal = SubTotal(request.rows)
        /\ document'.taxRate = request.taxRate /\ document'.total = request.shown
        /\ document'.shown = request.shown
    BY <1>1, <1>3
  <1>5. document' \in Document
    BY <1>0, <1>1, <1>2, <1>3 DEF Document
  <1>6. DocumentAddsUp'
    BY <1>1, <1>4 DEF DocumentAddsUp, ShownIsStored
  <1>7. request' = [request EXCEPT !.pc = "stored"] /\ UNCHANGED <<form, taxes>>
    BY DEF Store
  <1>8. request' \in Request /\ RequestAddsUp'
    BY <1>0, <1>1, <1>7 DEF Request, RequestAddsUp
  <1>9. QED
    BY <1>5, <1>6, <1>7, <1>8 DEF TotalsInv, TotalsTypeOK, FormAddsUp

LEMMA TotalsInitInv == TotalsInit => TotalsInv
  <1> SUFFICES ASSUME TotalsInit PROVE TotalsInv
    OBVIOUS
  <1>1. form \in Form /\ FormAddsUp
    BY NothingFits DEF TotalsInit, FormAddsUp, Fits
  <1>2. taxes \in Taxes
    BY DEF TotalsInit, FreshTaxes, Taxes
  <1>3. request \in Request /\ RequestAddsUp
    BY NoRows DEF TotalsInit, Unsent, Request, RequestAddsUp
  <1>4. document \in Document /\ DocumentAddsUp
    BY NoRows DEF TotalsInit, NoDocument, Document, DocumentAddsUp, ShownIsStored
  <1>5. QED
    BY <1>1, <1>2, <1>3, <1>4 DEF TotalsInv, TotalsTypeOK

LEMMA TotalsNextInv == TotalsInv /\ [TotalsNext]_totalsVars => TotalsInv'
  <1>1. ASSUME TotalsInv, TotalsNext PROVE TotalsInv'
    BY <1>1, EditStep, PageStep, SendStep, StoreStep DEF TotalsNext
  <1>2. ASSUME TotalsInv, UNCHANGED totalsVars PROVE TotalsInv'
    BY <1>2 DEF TotalsInv, totalsVars, TotalsTypeOK, FormAddsUp, RequestAddsUp,
       DocumentAddsUp, ShownIsStored
  <1>3. QED
    BY <1>1, <1>2

LEMMA TotalsInvariance == TotalsSpec => []TotalsInv
  BY TotalsInitInv, TotalsNextInv, PTL DEF TotalsSpec

\* The form, the request and the document keep their types: no sum is negative.
THEOREM TotalsTypeCorrect == TotalsSpec => []TotalsTypeOK
  BY TotalsInvariance, PTL DEF TotalsInv

\* What the server stores as the total is what the user saw when it was sent, for
\* any rows, prices and rates, however they were edited before.
THEOREM ShownIsAlwaysStored == TotalsSpec => []ShownIsStored
  BY TotalsInvariance, PTL DEF TotalsInv, DocumentAddsUp

\* With quantities and prices of whole hundredths no factor is rounded, so that
\* the order of the factors does not matter.
\* With no more than two decimals it does not matter which operand is rounded.
LEMMA FineLines ==
    ASSUME NEW row \in Row, Complete(row), row.quantity % 10 = 0, row.price % 10 = 0
    PROVE  Line(row) = LineShown(row)
  <1>1. row.quantity \in Nat /\ row.price \in Nat
    BY LineNat
  <1>2. \A n \in Nat : n % 10 = 0 => Cents(n) \in Nat /\ n = 10 * Cents(n)
    BY DEF Cents
  <1>3. \A a, b \in Nat : a * (10 * b) = b * (10 * a)
    OBVIOUS
  <1>4. Cents(row.quantity) * row.price = Cents(row.price) * row.quantity
    BY <1>1, <1>2, <1>3
  <1>5. QED
    BY <1>4 DEF Line, LineShown, Multiply

\* The totals of the rows add up to the subtotal beneath them, for any rows whose
\* quantities and prices have no more than two decimals.
THEOREM RowsAlwaysAddUp == TotalsSpec => []RowsAddUp
  <1>1. ASSUME TotalsInv PROVE RowsAddUp
    <2> DEFINE rows == form.rows
               f == [i \in DOMAIN rows |-> IF Complete(rows[i]) THEN Line(rows[i]) ELSE 0]
               g == [i \in DOMAIN rows |->
                         IF Complete(rows[i]) THEN LineShown(rows[i]) ELSE 0]
    <2>1. rows \in Seq(Row) /\ form.subTotal = SumOver(f, DOMAIN rows)
      BY <1>1 DEF TotalsInv, TotalsTypeOK, Form, FormAddsUp, SubTotal
    <2>2. SUFFICES ASSUME \A i \in DOMAIN rows : Complete(rows[i]) =>
                              rows[i].quantity % 10 = 0 /\ rows[i].price % 10 = 0
                   PROVE  SumOver(f, DOMAIN rows) = SumOver(g, DOMAIN rows)
      BY <2>1 DEF RowsAddUp
    <2>3. \A i \in DOMAIN rows : f[i] \in Int
      BY <2>1, RowsTyped, LineNat
    <2>4. \A i \in DOMAIN rows : f[i] = g[i]
      BY <2>1, <2>2, RowsTyped, FineLines
    <2>5. IsFiniteSet(DOMAIN rows)
      BY <2>1, RowsTyped
    <2> HIDE DEF f, g, rows
    <2>6. Whole(f, DOMAIN rows)
      BY <2>3 DEF Whole
    <2>7. QED
      BY <2>4, <2>5, <2>6, SumSame
  <1>2. QED
    BY <1>1, TotalsInvariance, PTL

-----------------------------------------------------------------------------
(***************************************************************************)
(* Files                                                                   *)
(***************************************************************************)

(* Types, and that a download past its first step is of a document *)

\* The stages in which a download has a document.
Busy == DownloadStages \ {"idle", "asked", "refused"}

Placed == \A d \in Downloads : download[d].pc \in Busy => download[d].of \in Documents

\* Two that work on one document each know that they are not alone.
Apart ==
    \A x \in Documents, d, e \in Downloads :
        d # e /\ Uses(d, x) /\ Uses(e, x) => download[d].overlapped

\* What a download of which no other knows has in its hands: the file it
\* opened is the one at the path, then that file is written, then it is sent.
InHands(d) ==
    LET x == download[d].of
    IN  ~download[d].overlapped =>
           /\ download[d].pc = "writing" =>
                  /\ download[d].linked
                  /\ file[x].version = download[d].read /\ ~file[x].mixed
           /\ download[d].pc = "rendered" =>
                  file[x].version = download[d].read /\ file[x].whole
           /\ download[d].pc \in {"sending", "sent"} => download[d].good

FilesInv ==
    /\ FilesTypeOK /\ Placed /\ Apart
    /\ \A d \in Downloads : InHands(d)

-----------------------------------------------------------------------------
LEMMA FreeSlotTyped ==
    FreeSlot \in Download /\ FreeSlot.pc \notin Busy /\ NoPdf \in Pdf
  BY FilesAssumption DEF FreeSlot, Download, DownloadStages, Busy, NoPdf, Pdf

LEMMA CrashedTyped ==
    ASSUME FilesTypeOK, Placed, Crashed
    PROVE  download' \in [Downloads -> Download] /\ Placed' /\ upload' = NoImage
  <1>1. ASSUME NEW d \in Downloads
        PROVE  /\ download'[d] \in Download
               /\ download'[d].pc \in Busy => download'[d].of \in Documents
    <2>1. download[d] \in Download
      BY DEF FilesTypeOK
    <2>2. download'[d] = CASE download[d].pc = "render"  -> [download[d] EXCEPT !.pc = "orphan"]
             [] download[d].pc = "writing" -> [download[d] EXCEPT !.pc = "orphanWriting"]
             [] download[d].pc \in {"orphan", "orphanWriting"} -> download[d]
             [] OTHER -> FreeSlot
      BY DEF Crashed
    <2>3. CASE download[d].pc = "render"
      BY <2>1, <2>2, <2>3 DEF Placed, Busy, Download, DownloadStages
    <2>4. CASE download[d].pc = "writing"
      BY <2>1, <2>2, <2>4 DEF Placed, Busy, Download, DownloadStages
    <2>5. CASE download[d].pc \in {"orphan", "orphanWriting"}
      BY <2>1, <2>2, <2>5 DEF Placed
    <2>6. CASE download[d].pc \notin {"render", "writing", "orphan", "orphanWriting"}
      BY <2>2, <2>6, FreeSlotTyped
    <2>7. QED
      BY <2>3, <2>4, <2>5, <2>6
  <1>2. QED
    BY <1>1 DEF Crashed, Placed

LEMMA TornTyped ==
    ASSUME FilesTypeOK, NEW x
    PROVE  /\ Torn(x) \in [Downloads -> Download]
           /\ Unlinked(x) \in [Downloads -> Download]
           /\ \A d \in Downloads :
                  /\ Torn(x)[d].pc = download[d].pc /\ Torn(x)[d].of = download[d].of
                  /\ Torn(x)[d].read = download[d].read
                  /\ Torn(x)[d].linked = download[d].linked
                  /\ Torn(x)[d].overlapped = download[d].overlapped
                  /\ download[d].of # x \/ download[d].pc # "sending"
                     => Torn(x)[d] = download[d]
                  /\ Unlinked(x)[d].pc = download[d].pc /\ Unlinked(x)[d].of = download[d].of
                  /\ Unlinked(x)[d].read = download[d].read
                  /\ Unlinked(x)[d].good = download[d].good
                  /\ Unlinked(x)[d].overlapped = download[d].overlapped
                  /\ download[d].of # x => Unlinked(x)[d] = download[d]
  <1>1. ASSUME NEW d \in Downloads
        PROVE  /\ Torn(x)[d] \in {download[d], [download[d] EXCEPT !.good = FALSE]}
               /\ download[d].of # x \/ download[d].pc # "sending" => Torn(x)[d] = download[d]
               /\ Unlinked(x)[d] \in {download[d], [download[d] EXCEPT !.linked = FALSE]}
               /\ download[d].of # x => Unlinked(x)[d] = download[d]
    BY DEF Torn, Unlinked
  <1>2. \A d \in Downloads : download[d] \in Download
    BY DEF FilesTypeOK
  <1>3. ASSUME NEW d \in Downloads
        PROVE  Torn(x)[d] \in Download /\ Unlinked(x)[d] \in Download
    BY <1>1, <1>2 DEF Download
  <1>4. Torn(x) \in [Downloads -> Download] /\ Unlinked(x) \in [Downloads -> Download]
    <2>1. Torn(x) = [d \in Downloads |-> Torn(x)[d]]
      BY DEF Torn
    <2>2. Unlinked(x) = [d \in Downloads |-> Unlinked(x)[d]]
      BY DEF Unlinked
    <2>3. QED
      BY <1>3, <2>1, <2>2
  <1>5. QED
    BY <1>1, <1>2, <1>4 DEF Download

LEMMA DownloadsTyped ==
    ASSUME FilesTypeOK, Placed, NEW d \in Downloads,
           \/ \E x \in Documents \union {NotFound} : Ask(d, x)
           \/ Read(d) \/ Refuse(d) \/ Begin(d) \/ OpenFile(d) \/ WriteFile(d)
           \/ Send(d) \/ Sent(d) \/ Forget(d) \/ RenderFails(d)
    PROVE  FilesTypeOK' /\ Placed'
  <1>0. /\ download \in [Downloads -> Download] /\ download[d] \in Download
        /\ file \in [Documents -> Pdf]
    BY DEF FilesTypeOK
  <1> DEFINE x == download[d].of
  <1>1. CASE \E y \in Documents \union {NotFound} : Ask(d, y)
    <2>1. PICK y \in Documents \union {NotFound} : Ask(d, y)
      BY <1>1
    <2>2. [FreeSlot EXCEPT !.pc = "asked", !.of = y] \in Download
      BY FreeSlotTyped DEF Download, DownloadStages
    <2>3. [FreeSlot EXCEPT !.pc = "asked", !.of = y].pc \notin Busy
      BY DEF FreeSlot, Busy
    <2>4. QED
      BY <1>0, <2>1, <2>2, <2>3 DEF Ask, FilesTypeOK, Placed
  <1>2. CASE Read(d)
    <2>1. x \in Documents /\ version[x] \in 0 .. MaxVersion
      <3>1. x \in Documents
        BY <1>2 DEF Read
      <3>2. version[x] \in 0 .. MaxVersion
        BY <3>1, FilesAssumption DEF FilesTypeOK, Versions
      <3>3. QED
        BY <3>1, <3>2
    <2>2. ASSUME NEW e \in Downloads
          PROVE  /\ download'[e] \in Download
                 /\ download'[e].pc \in Busy => download'[e].of \in Documents
      <3>1. CASE e = d
        BY <1>0, <1>2, <2>1, <3>1 DEF Read, Download, DownloadStages
      <3>2. CASE e # d
        <4>1. Unlinked(x)[e] \in Download
          BY TornTyped
        <4>2. download'[e] = [Unlinked(x)[e] EXCEPT !.overlapped =
                  @ \/ e \in {c \in Downloads \ {d} : Uses(c, x)}]
          BY <1>2, <3>2 DEF Read
        <4>3. PICK b \in BOOLEAN : download'[e] = [Unlinked(x)[e] EXCEPT !.overlapped = b]
          BY <4>1, <4>2 DEF Download
        <4>4. /\ download'[e] \in Download
              /\ download'[e].pc = Unlinked(x)[e].pc /\ download'[e].of = Unlinked(x)[e].of
          BY <4>1, <4>3 DEF Download
        <4>5. QED
          BY <4>4, TornTyped DEF Placed
      <3>3. QED
        BY <3>1, <3>2
    <2>3. download' \in [Downloads -> Download] /\ file' \in [Documents -> Pdf]
      BY <1>0, <1>2, <2>2, FreeSlotTyped DEF Read
    <2>4. QED
      BY <1>2, <2>2, <2>3 DEF Read, FilesTypeOK, Placed
  <1>3. CASE Refuse(d)
    BY <1>0, <1>3 DEF Refuse, FilesTypeOK, Placed, Download, DownloadStages, Busy
  <1>4. CASE Begin(d)
    BY <1>0, <1>4 DEF Begin, FilesTypeOK, Placed, Download, DownloadStages, Busy
  <1>5. CASE OpenFile(d)
    <2>1. x \in Documents
      BY <1>5 DEF OpenFile, Placed, Busy, DownloadStages
    <2>2. [version |-> download[d].read, whole |-> FALSE,
           mixed |-> \E e \in Downloads : Writes(e, x)] \in Pdf
      BY <1>0 DEF Pdf, Download
    <2>3. file' \in [Documents -> Pdf]
      BY <1>0, <1>5, <2>2 DEF OpenFile
    <2>4. Torn(x)[d] \in Download /\ Torn(x) \in [Downloads -> Download]
      BY TornTyped
    <2>5. PICK pc \in {"writing", "orphanWriting"} :
              download' = [Torn(x) EXCEPT ![d].linked = TRUE, ![d].pc = pc]
      BY <1>5 DEF OpenFile
    <2>6. download' \in [Downloads -> Download]
      BY <2>4, <2>5 DEF Download, DownloadStages
    <2>7. \A e \in Downloads : download'[e].of = download[e].of
                               /\ (e # d => download'[e].pc = download[e].pc)
      BY <2>4, <2>5, TornTyped DEF Download
    <2>8. QED
      BY <1>5, <2>1, <2>3, <2>6, <2>7 DEF OpenFile, FilesTypeOK, Placed
  <1>6. CASE WriteFile(d)
    <2>1. x \in Documents /\ file[x] \in Pdf
      BY <1>0, <1>6 DEF WriteFile, Placed, Busy, DownloadStages
    <2>2. [version |-> download[d].read, whole |-> ~file[x].mixed,
           mixed |-> file[x].mixed] \in Pdf
      BY <1>0, <2>1 DEF Pdf, Download
    <2>3. file' \in [Documents -> Pdf]
      BY <1>0, <1>6, <2>1, <2>2 DEF WriteFile
    <2>4. Torn(x)[d] \in Download /\ Torn(x) \in [Downloads -> Download]
      BY TornTyped
    <2>5. PICK s \in {[Torn(x)[d] EXCEPT !.pc = "rendered", !.linked = FALSE], FreeSlot} :
              download' = [Torn(x) EXCEPT ![d] = s]
      BY <1>6, <2>4 DEF WriteFile
    <2>6. s \in Download /\ (s = FreeSlot \/ s.of = x)
      <3>1. CASE s = FreeSlot
        BY <3>1, FreeSlotTyped
      <3>2. CASE s = [Torn(x)[d] EXCEPT !.pc = "rendered", !.linked = FALSE]
        <4>1. s \in Download /\ s.of = Torn(x)[d].of
          BY <2>4, <3>2 DEF Download, DownloadStages
        <4>2. QED
          BY <4>1, TornTyped
      <3>3. QED
        BY <2>5, <3>1, <3>2
    <2>7. download' \in [Downloads -> Download]
      BY <2>4, <2>5, <2>6
    <2>8. \A e \in Downloads : e # d => download'[e].of = download[e].of
                                        /\ download'[e].pc = download[e].pc
      BY <2>4, <2>5, TornTyped
    <2>9. download'[d] = s
      BY <2>4, <2>5
    <2>10. QED
      BY <1>6, <2>1, <2>3, <2>6, <2>7, <2>8, <2>9, FreeSlotTyped
      DEF WriteFile, FilesTypeOK, Placed
  <1>7. CASE Send(d)
    <2>1. x \in Documents /\ file[x] \in Pdf
      BY <1>0, <1>7 DEF Send, Placed, Busy, DownloadStages
    <2>2. PICK s \in {[download[d] EXCEPT !.pc = "refused"],
                      [download[d] EXCEPT !.pc = "sending", !.linked = TRUE,
                       !.good = file[x].whole /\ file[x].version = download[d].read]} :
              download' = [download EXCEPT ![d] = s]
      BY <1>0, <1>7 DEF Send
    <2>3. s \in Download /\ s.of = x
      BY <1>0, <2>1, <2>2 DEF Download, DownloadStages, Pdf
    <2>4. QED
      BY <1>0, <1>7, <2>1, <2>2, <2>3 DEF Send, FilesTypeOK, Placed
  <1>8. CASE Sent(d)
    BY <1>0, <1>8 DEF Sent, FilesTypeOK, Placed, Download, DownloadStages, Busy
  <1>9. CASE Forget(d)
    BY <1>0, <1>9, FreeSlotTyped DEF Forget, FilesTypeOK, Placed
  <1>10. CASE RenderFails(d)
    BY <1>10, CrashedTyped DEF RenderFails, FilesTypeOK
  <1>11. QED
    BY <1>1, <1>2, <1>3, <1>4, <1>5, <1>6, <1>7, <1>8, <1>9, <1>10
\* What does not touch the downloads, and the end of the process.
ImageStep(i) == StorePhoto(i) \/ TypePhoto(i) \/ StoreLogo(i) \/ WriteLogo(i)

LEMMA FilesTyped ==
    ASSUME FilesTypeOK, Placed, FilesNext
    PROVE  FilesTypeOK' /\ Placed'
  <1>1. CASE \E x \in Documents : Change(x)
    BY <1>1, FilesAssumption DEF Change, FilesTypeOK, Placed, Versions
  <1>2. CASE \E i \in Images : ImageStep(i)
    <2>1. PICK i \in Images : ImageStep(i)
      BY <1>2
    <2>2. CASE StorePhoto(i) \/ TypePhoto(i) \/ StoreLogo(i)
      BY <2>2 DEF StorePhoto, TypePhoto, StoreLogo, FilesTypeOK, Placed
    <2>3. CASE WriteLogo(i)
      BY <2>3, CrashedTyped DEF WriteLogo, FilesTypeOK
    <2>4. QED
      BY <2>1, <2>2, <2>3 DEF ImageStep
  <1>3. CASE NamePhoto \/ PhotoRefused
    BY <1>3 DEF NamePhoto, PhotoRefused, FilesTypeOK, Placed
  <1>4. QED
    BY <1>1, <1>2, <1>3, DownloadsTyped DEF FilesNext, ImageStep

-----------------------------------------------------------------------------
(* Two downloads of one document know of each other *)

\* A step that begins no work on a document and makes no one forget.
LEMMA ApartKept ==
    ASSUME Apart,
           \A d \in Downloads, x \in Documents :
               Uses(d, x)' => /\ Uses(d, x)
                              /\ download[d].overlapped => download'[d].overlapped
    PROVE  Apart'
  BY DEF Apart

LEMMA ApartRead ==
    ASSUME FilesTypeOK, Placed, Apart, NEW d \in Downloads, Read(d)
    PROVE  Apart'
  <1> DEFINE y == download[d].of
             others == {e \in Downloads \ {d} : Uses(e, y)}
  <1>1. y \in Documents /\ download[d] \in Download
    BY DEF Read, FilesTypeOK
  <1>2. /\ download'[d].of = y
        /\ download'[d].overlapped = (others # {})
    BY <1>1 DEF Read, Download
  <1>3. ASSUME NEW e \in Downloads \ {d}
        PROVE  /\ download'[e].of = download[e].of /\ download'[e].pc = download[e].pc
               /\ download'[e].overlapped = (download[e].overlapped \/ e \in others)
    <2>1. Unlinked(y)[e] \in Download
      BY TornTyped
    <2>2. download'[e] = [Unlinked(y)[e] EXCEPT !.overlapped = @ \/ e \in others]
      BY DEF Read
    <2>3. QED
      BY <2>1, <2>2, TornTyped DEF Download
  <1>4. \A e \in Downloads \ {d}, x \in Documents : Uses(e, x)' <=> Uses(e, x)
    BY <1>3 DEF Uses
  <1>5. SUFFICES ASSUME NEW x \in Documents, NEW a \in Downloads, NEW e \in Downloads,
                        a # e, Uses(a, x)', Uses(e, x)'
                 PROVE  download'[a].overlapped
    BY DEF Apart
  <1>6. CASE a = d
    <2>1. x = y
      BY <1>2, <1>5, <1>6 DEF Uses
    <2>2. e \in others
      BY <1>4, <1>5, <1>6, <2>1
    <2>3. QED
      BY <1>2, <1>6, <2>2
  <1>7. CASE a # d /\ e = d
    <2>1. x = y
      BY <1>2, <1>5, <1>7 DEF Uses
    <2>2. a \in others
      BY <1>4, <1>5, <1>7, <2>1
    <2>3. QED
      BY <1>3, <1>7, <2>2
  <1>8. CASE a # d /\ e # d
    BY <1>3, <1>4, <1>5, <1>8 DEF Apart
  <1>9. QED
    BY <1>6, <1>7, <1>8

\* A process that ends leaves the renderers it started at their work.
LEMMA CrashedKeeps ==
    ASSUME FilesTypeOK, Crashed, NEW d \in Downloads
    PROVE  \/ download'[d] = FreeSlot
           \/ /\ download'[d].pc \in {"orphan", "orphanWriting"}
              /\ download[d].pc \in {"render", "writing", "orphan", "orphanWriting"}
              /\ download'[d].of = download[d].of
              /\ download'[d].overlapped = download[d].overlapped
  <1>1. download[d] \in Download
    BY DEF FilesTypeOK
  <1>2. download'[d] =
           CASE download[d].pc = "render"  -> [download[d] EXCEPT !.pc = "orphan"]
             [] download[d].pc = "writing" -> [download[d] EXCEPT !.pc = "orphanWriting"]
             [] download[d].pc \in {"orphan", "orphanWriting"} -> download[d]
             [] OTHER -> FreeSlot
    BY DEF Crashed
  <1>3. CASE download[d].pc = "render"
    BY <1>1, <1>2, <1>3 DEF Download
  <1>4. CASE download[d].pc = "writing"
    BY <1>1, <1>2, <1>4 DEF Download
  <1>5. CASE download[d].pc \in {"orphan", "orphanWriting"}
    BY <1>2, <1>5
  <1>6. CASE download[d].pc \notin {"render", "writing", "orphan", "orphanWriting"}
    BY <1>2, <1>6
  <1>7. QED
    BY <1>3, <1>4, <1>5, <1>6
\* A call that moves one slot, and no file.
SlotStep(d) ==
    \/ \E x \in Documents \union {NotFound} : Ask(d, x)
    \/ Refuse(d) \/ Begin(d) \/ Send(d) \/ Sent(d) \/ Forget(d)

LEMMA SlotStepFacts ==
    ASSUME FilesTypeOK, NEW d \in Downloads, SlotStep(d)
    PROVE  /\ file' = file
           /\ \A e \in Downloads \ {d} : download'[e] = download[e]
           /\ \/ download'[d].pc \in {"idle", "asked", "refused"}
              \/ /\ download'[d].of = download[d].of
                 /\ download'[d].overlapped = download[d].overlapped
                 /\ \/ download[d].pc = "settings" /\ download'[d].pc = "render"
                    \/ /\ download[d].pc = "rendered" /\ download'[d].pc = "sending"
                       /\ download'[d].good =
                              (/\ file[download[d].of].whole
                               /\ file[download[d].of].version = download[d].read)
                    \/ /\ download[d].pc = "sending" /\ download'[d].pc = "sent"
                       /\ download'[d].good = download[d].good
  <1>1. download[d] \in Download /\ download \in [Downloads -> Download]
    BY DEF FilesTypeOK
  <1>2. CASE \E x \in Documents \union {NotFound} : Ask(d, x)
    BY <1>1, <1>2 DEF Ask, FreeSlot
  <1>3. CASE Refuse(d) \/ Begin(d)
    <2>1. CASE Refuse(d)
      BY <1>1, <2>1 DEF Refuse, Download
    <2>2. CASE Begin(d)
      BY <1>1, <2>2 DEF Begin, Download
    <2>3. QED
      BY <1>3, <2>1, <2>2
  <1>4. CASE Send(d)
    <2>1. file' = file /\ \A e \in Downloads \ {d} : download'[e] = download[e]
      BY <1>1, <1>4 DEF Send
    <2>2. CASE file[download[d].of].version = 0
      BY <1>1, <1>4, <2>1, <2>2 DEF Send, Download
    <2>3. CASE file[download[d].of].version # 0
      BY <1>1, <1>4, <2>1, <2>3 DEF Send, Download
    <2>4. QED
      BY <2>2, <2>3
  <1>5. CASE Sent(d)
    BY <1>1, <1>5 DEF Sent, Download
  <1>6. CASE Forget(d)
    BY <1>1, <1>6 DEF Forget, FreeSlot
  <1>7. QED
    BY <1>2, <1>3, <1>4, <1>5, <1>6 DEF SlotStep

\* What the renderers do to the downloads.
LEMMA RendererFacts ==
    ASSUME FilesTypeOK, NEW d \in Downloads, OpenFile(d) \/ WriteFile(d)
    PROVE  /\ \A e \in Downloads \ {d} : download'[e] = Torn(download[d].of)[e]
           /\ \A x \in Documents \ {download[d].of} : file'[x] = file[x]
           /\ OpenFile(d) =>
                  /\ download'[d].of = download[d].of
                  /\ download'[d].read = download[d].read
                  /\ download'[d].overlapped = download[d].overlapped
                  /\ download'[d].linked
                  /\ download'[d].pc \in {"writing", "orphanWriting"}
           /\ WriteFile(d) =>
                  \/ download'[d] = FreeSlot
                  \/ /\ download'[d].of = download[d].of
                     /\ download'[d].read = download[d].read
                     /\ download'[d].overlapped = download[d].overlapped
                     /\ download[d].pc = "writing"
                     /\ download'[d].pc = "rendered"
  <1> DEFINE y == download[d].of
  <1>1. file \in [Documents -> Pdf]
    BY DEF FilesTypeOK
  <1>2. Torn(y) \in [Downloads -> Download] /\ Torn(y)[d] \in Download
    BY TornTyped
  <1>3. CASE OpenFile(d)
    <2>1. PICK pc \in {"writing", "orphanWriting"} :
              download' = [Torn(y) EXCEPT ![d].linked = TRUE, ![d].pc = pc]
      BY <1>3 DEF OpenFile
    <2>2. /\ \A e \in Downloads \ {d} : download'[e] = Torn(y)[e]
          /\ download'[d] = [Torn(y)[d] EXCEPT !.linked = TRUE, !.pc = pc]
      BY <1>2, <2>1
    <2>3. /\ download'[d].of = Torn(y)[d].of /\ download'[d].read = Torn(y)[d].read
          /\ download'[d].overlapped = Torn(y)[d].overlapped
          /\ download'[d].linked /\ download'[d].pc = pc
      BY <1>2, <2>2 DEF Download
    <2>4. \A x \in Documents \ {y} : file'[x] = file[x]
      BY <1>1, <1>3 DEF OpenFile
    <2>5. ~WriteFile(d)
      BY <1>3, Zenon DEF OpenFile, WriteFile
    <2>6. QED
      BY <2>2, <2>3, <2>4, <2>5, TornTyped
  <1>4. CASE WriteFile(d)
    <2>1. \A x \in Documents \ {y} : file'[x] = file[x]
      BY <1>1, <1>4 DEF WriteFile
    <2>2. download' = [Torn(y) EXCEPT ![d] =
               IF download[d].pc = "writing"
               THEN [@ EXCEPT !.pc = "rendered", !.linked = FALSE] ELSE FreeSlot]
      BY <1>4 DEF WriteFile
    <2>3. \A e \in Downloads \ {d} : download'[e] = Torn(y)[e]
      BY <1>2, <2>2
    <2>4. download[d].pc = "writing" =>
              download'[d] = [Torn(y)[d] EXCEPT !.pc = "rendered", !.linked = FALSE]
      BY <1>2, <2>2
    <2>5. download[d].pc = "writing" =>
              /\ download'[d].of = Torn(y)[d].of /\ download'[d].read = Torn(y)[d].read
              /\ download'[d].overlapped = Torn(y)[d].overlapped
              /\ download'[d].pc = "rendered"
      BY <1>2, <2>4 DEF Download
    <2>6. download[d].pc # "writing" => download'[d] = FreeSlot
      BY <1>2, <2>2
    <2>7. ~OpenFile(d)
      BY <1>4, Zenon DEF OpenFile, WriteFile
    <2>8. QED
      BY <2>1, <2>3, <2>5, <2>6, <2>7, TornTyped
  <1>5. QED
    BY <1>3, <1>4

LEMMA ApartStep ==
    ASSUME FilesTypeOK, Placed, Apart, FilesNext PROVE Apart'
  <1>1. CASE download' = download
    BY <1>1 DEF Apart, Uses
  <1>2. CASE Crashed
    BY <1>2, CrashedKeeps, ApartKept DEF Uses, FreeSlot
  <1>3. ASSUME NEW d \in Downloads, SlotStep(d)
        PROVE  Apart'
    BY <1>3, SlotStepFacts, ApartKept DEF Uses
  <1>4. ASSUME NEW d \in Downloads, OpenFile(d) \/ WriteFile(d)
        PROVE  Apart'
    <2>1. download[d].pc \in {"render", "orphan", "writing", "orphanWriting"}
      BY <1>4 DEF OpenFile, WriteFile
    <2>2. ASSUME NEW e \in Downloads, NEW x \in Documents, Uses(e, x)'
          PROVE  Uses(e, x) /\ (download[e].overlapped => download'[e].overlapped)
      <3>1. CASE e = d
        BY <1>4, <2>1, <2>2, <3>1, RendererFacts DEF Uses, FreeSlot
      <3>2. CASE e # d
        BY <1>4, <2>2, <3>2, RendererFacts, TornTyped DEF Uses
      <3>3. QED
        BY <3>1, <3>2
    <2>3. QED
      BY <2>2, ApartKept
  <1>5. QED
    BY <1>1, <1>2, <1>3, <1>4, ApartRead, Zenon
    DEF FilesNext, SlotStep, Change, RenderFails, StorePhoto, TypePhoto, StoreLogo,
        WriteLogo, NamePhoto, PhotoRefused

-----------------------------------------------------------------------------
(* What is in hand *)

\* A download whose work another step leaves alone.
LEMMA InHandsKept ==
    ASSUME NEW d \in Downloads, InHands(d),
           /\ download'[d].pc = download[d].pc /\ download'[d].of = download[d].of
           /\ download'[d].read = download[d].read,
           download[d].overlapped => download'[d].overlapped,
           ~download'[d].overlapped =>
               /\ download'[d].linked = download[d].linked
               /\ download'[d].good = download[d].good
               /\ download[d].pc \in {"writing", "rendered"}
                  => file'[download[d].of] = file[download[d].of]
    PROVE  InHands(d)'
  BY DEF InHands

LEMMA InHandsStep ==
    ASSUME FilesTypeOK, Placed, Apart, \A d \in Downloads : InHands(d), FilesNext
    PROVE  \A d \in Downloads : InHands(d)'
  <1>1. CASE UNCHANGED <<download, file>>
    BY <1>1 DEF InHands
  <1>2. CASE Crashed
    BY <1>2, CrashedKeeps DEF InHands, FreeSlot
  <1>3. ASSUME NEW d \in Downloads, SlotStep(d), NEW e \in Downloads
        PROVE  InHands(e)'
    <2>1. CASE e = d
      BY <1>3, <2>1, SlotStepFacts DEF InHands
    <2>2. CASE e # d
      BY <1>3, <2>2, SlotStepFacts DEF InHands
    <2>3. QED
      BY <2>1, <2>2
  <1>4. ASSUME NEW d \in Downloads, Read(d), NEW e \in Downloads
        PROVE  InHands(e)'
    <2> DEFINE y == download[d].of
               others == {c \in Downloads \ {d} : Uses(c, y)}
    <2>1. y \in Documents /\ download[d] \in Download /\ file \in [Documents -> Pdf]
      BY <1>4 DEF Read, FilesTypeOK
    <2>2. CASE e = d
      <3>1. download'[d].pc \in {"settings", "unanswered"}
        BY <1>4, <2>1 DEF Read, Download
      <3>2. QED
        BY <2>2, <3>1 DEF InHands
    <2>3. CASE e # d
      <3>1. Unlinked(y)[e] \in Download
        BY TornTyped
      <3>2. download'[e] = [Unlinked(y)[e] EXCEPT !.overlapped = @ \/ e \in others]
        BY <1>4, <2>3 DEF Read
      <3>3. /\ download'[e].pc = download[e].pc /\ download'[e].of = download[e].of
            /\ download'[e].read = download[e].read
            /\ download'[e].good = download[e].good
            /\ download'[e].linked = Unlinked(y)[e].linked
            /\ download'[e].overlapped = (download[e].overlapped \/ e \in others)
        BY <3>1, <3>2, TornTyped DEF Download
      <3>4. CASE download[e].of = y /\ download[e].pc \in {"writing", "rendered"}
        <4>1. e \in others
          BY <2>3, <3>4 DEF Uses
        <4>2. QED
          BY <3>3, <4>1 DEF InHands
      <3>5. CASE download[e].of # y
        <4>1. file'[download[e].of] = file[download[e].of] \/ download[e].pc \notin {"writing", "rendered"}
          BY <1>4, <2>1, <3>5 DEF Read, Placed, Busy, DownloadStages
        <4>2. download'[e].linked = download[e].linked
          BY <3>3, <3>5, TornTyped
        <4>3. QED
          BY <3>3, <4>1, <4>2, InHandsKept
      <3>6. CASE download[e].pc \notin {"writing", "rendered"}
        BY <3>3, <3>6 DEF InHands
      <3>7. QED
        BY <3>4, <3>5, <3>6
    <2>4. QED
      BY <2>2, <2>3
  <1>5. ASSUME NEW d \in Downloads, OpenFile(d) \/ WriteFile(d),
               NEW e \in Downloads, e # d
        PROVE  InHands(e)'
    <2> DEFINE y == download[d].of
    <2>1. y \in Documents /\ Uses(d, y)
      BY <1>5 DEF OpenFile, WriteFile, Placed, Busy, DownloadStages, Uses
    <2>2. /\ download'[e] = Torn(y)[e]
          /\ \A x \in Documents \ {y} : file'[x] = file[x]
      BY <1>5, RendererFacts
    <2>3. CASE download[e].of = y /\ download[e].pc \in {"writing", "rendered", "sending"}
      <3>1. Uses(e, y)
        BY <2>3 DEF Uses
      <3>2. download[e].overlapped
        BY <1>5, <2>1, <3>1 DEF Apart
      <3>3. QED
        BY <2>2, <3>2, TornTyped DEF InHands
    <2>4. CASE download[e].pc \notin {"writing", "rendered", "sending"}
      BY <2>2, <2>4, TornTyped DEF InHands
    <2>5. CASE download[e].of # y
      <3>1. download[e].pc \in {"writing", "rendered"} => download[e].of \in Documents
        BY DEF Placed, Busy, DownloadStages
      <3>2. QED
        BY <2>2, <2>5, <3>1, TornTyped, InHandsKept
    <2>6. QED
      BY <2>3, <2>4, <2>5
  <1>6. ASSUME NEW d \in Downloads, OpenFile(d)
        PROVE  InHands(d)'
    <2> DEFINE y == download[d].of
    <2>1. /\ y \in Documents /\ Uses(d, y) /\ file \in [Documents -> Pdf]
          /\ download[d].pc \in {"render", "orphan"}
      BY <1>6 DEF OpenFile, Placed, Busy, DownloadStages, Uses, FilesTypeOK
    <2>2. SUFFICES ASSUME ~download[d].overlapped
                   PROVE  file'[y].version = download[d].read /\ ~file'[y].mixed
      BY <1>6, RendererFacts DEF InHands
    <2>3. file'[y] = [version |-> download[d].read, whole |-> FALSE,
                      mixed |-> \E c \in Downloads : Writes(c, y)]
      BY <1>6, <2>1 DEF OpenFile
    <2>4. \A c \in Downloads : ~Writes(c, y)
      BY <2>1, <2>2 DEF Apart, Writes, Uses
    <2>5. QED
      BY <2>3, <2>4
  <1>7. ASSUME NEW d \in Downloads, WriteFile(d)
        PROVE  InHands(d)'
    <2> DEFINE y == download[d].of
    <2>1. y \in Documents /\ file \in [Documents -> Pdf]
      BY <1>7 DEF WriteFile, Placed, Busy, DownloadStages, FilesTypeOK
    <2>2. CASE download'[d] = FreeSlot
      BY <2>2 DEF InHands, FreeSlot
    <2>3. CASE download'[d] # FreeSlot /\ ~download[d].overlapped
      <3>1. /\ download'[d].of = y /\ download'[d].read = download[d].read
            /\ download[d].pc = "writing" /\ download'[d].pc = "rendered"
        BY <1>7, <2>3, RendererFacts
      <3>2. download[d].linked /\ ~file[y].mixed
        BY <2>3, <3>1 DEF InHands
      <3>3. file'[y] = [version |-> download[d].read, whole |-> ~file[y].mixed,
                        mixed |-> file[y].mixed]
        BY <1>7, <2>1, <3>2 DEF WriteFile
      <3>4. file'[y].version = download'[d].read /\ file'[y].whole
        <4>1. file'[y].version = download[d].read /\ file'[y].whole = (~file[y].mixed)
          BY <3>3
        <4>2. QED
          BY <3>1, <3>2, <4>1
      <3>5. QED
        BY <3>1, <3>4 DEF InHands
    <2>4. CASE download'[d] # FreeSlot /\ download[d].overlapped
      BY <1>7, <2>4, RendererFacts DEF InHands
    <2>5. QED
      BY <2>2, <2>3, <2>4
  <1>8. QED
    BY <1>1, <1>2, <1>3, <1>4, <1>5, <1>6, <1>7, Zenon
    DEF FilesNext, SlotStep, Change, RenderFails, StorePhoto, TypePhoto, StoreLogo,
        WriteLogo, NamePhoto, PhotoRefused

LEMMA FilesInitInv == FilesInit => FilesInv
  <1> SUFFICES ASSUME FilesInit PROVE FilesInv
    OBVIOUS
  <1>1. FilesTypeOK
    BY FreeSlotTyped, FilesAssumption DEF FilesInit, FilesTypeOK, Versions
  <1>2. QED
    BY <1>1 DEF FilesInit, FilesInv, Placed, Busy, Apart, Uses, InHands, FreeSlot

LEMMA FilesNextInv == FilesInv /\ [FilesNext]_filesVars => FilesInv'
  <1>1. ASSUME FilesInv, FilesNext PROVE FilesInv'
    BY <1>1, FilesTyped, ApartStep, InHandsStep DEF FilesInv
  <1>2. ASSUME FilesInv, UNCHANGED filesVars PROVE FilesInv'
    BY <1>2 DEF FilesInv, filesVars, FilesTypeOK, Placed, Apart, Uses, InHands
  <1>3. QED
    BY <1>1, <1>2

LEMMA FilesInvariance == FilesSpec => []FilesInv
  BY FilesInitInv, FilesNextInv, PTL DEF FilesSpec

\* Files, downloads and images keep their types.
THEOREM FilesTypeCorrect == FilesSpec => []FilesTypeOK
  BY FilesInvariance, PTL DEF FilesInv

\* A download that neither another one of its document nor a renderer left over
\* from before overlapped sends the file it rendered, whole, whatever downloads,
\* changes and failures there are besides.
THEOREM AlwaysSentWhole == FilesSpec => []SentWhole
  <1>1. FilesInv => SentWhole
    BY DEF FilesInv, InHands, SentWhole
  <1>2. QED
    BY <1>1, FilesInvariance, PTL

-----------------------------------------------------------------------------
(***************************************************************************)
(* Set-up                                                                  *)
(***************************************************************************)

(* Counts: how many copies a setting may still get *)

Writing == {"admin", "password", "settings", "taxes", "modes"}

\* The scripts that still insert the setting k, or a default tax or mode.
Owing(k) == {s \in Scripts : k \in script[s].todo}

OwingOf(l) ==
    {s \in Scripts : script[s].pc \in IF l = "modes" THEN Writing ELSE Writing \ {"modes"}}

\* Every copy that is there or will be inserted is one of a set-up of its own.
Counted ==
    /\ \A k \in Keys : settings[k] + Cardinality(Owing(k)) <= runs
    /\ \A l \in Lists : defaults[l] + Cardinality(OwingOf(l)) <= runs

Ready ==
    \A s \in Scripts :
        /\ script[s].pc \in Writing => script[s].admin # 0
        /\ script[s].pc \notin {"admin", "password", "settings"} => script[s].todo = {}

-----------------------------------------------------------------------------
(* Progress *)

NoDefaults == \A l \in Lists : defaults[l] = 0

\* What a set-up that nothing disturbed has written so far.
Built(s) ==
    \/ At(s, "admin") /\ Empty /\ script[s].todo = Keys
    \/ /\ At(s, "password") /\ admins = <<script[s].admin>>
       /\ (\A k \in Keys : settings[k] = 0) /\ NoDefaults /\ script[s].todo = Keys
    \/ /\ At(s, "settings")
       /\ Len(admins) = 1 /\ admins[1] \in passwords /\ NoDefaults
       /\ \A k \in Keys : settings[k] = IF k \in script[s].todo THEN 0 ELSE 1
    \/ /\ At(s, "taxes")
       /\ Len(admins) = 1 /\ admins[1] \in passwords /\ NoDefaults
       /\ \A k \in Keys : settings[k] = 1
    \/ /\ At(s, "modes")
       /\ Len(admins) = 1 /\ admins[1] \in passwords
       /\ \A k \in Keys : settings[k] = 1
       /\ defaults["taxes"] = 1 /\ defaults["modes"] = 0

\* What a reset that nothing disturbed has emptied so far.
Emptied(s) ==
    /\ script[s].pc \in {"delPassword", "delModes", "delTaxes", "delSettings"} => admins = <<>>
    /\ script[s].pc \in {"delModes", "delTaxes", "delSettings"} => passwords = {}
    /\ script[s].pc \in {"delTaxes", "delSettings"} => defaults["modes"] = 0
    /\ script[s].pc = "delSettings" => defaults["taxes"] = 0

\* A script that says it is alone is.
Alones == \A s \in Scripts : Runs(s) /\ script[s].alone => Alone(s) /\ Emptied(s)

\* While nothing went wrong, there is one script at most, a set-up, and what is
\* there is what it wrote.
Unspoilt ==
    ~spoilt => /\ \A s \in Scripts : Runs(s) => script[s].alone /\ Built(s)
               /\ (\A s \in Scripts : ~Runs(s)) => Empty \/ Works

SetupInv == SetupTypeOK /\ Ready /\ Counted /\ Alones /\ Unspoilt

-----------------------------------------------------------------------------
LEMMA Fewer ==
    ASSUME NEW S, IsFiniteSet(S), NEW A \in SUBSET S, NEW B \in SUBSET S
    PROVE  /\ Cardinality(A) \in Nat /\ Cardinality(B) \in Nat
           /\ B \subseteq A => Cardinality(B) <= Cardinality(A)
           /\ \A x \in S : B \subseteq A \union {x} => Cardinality(B) <= Cardinality(A) + 1
           /\ \A x \in A : x \notin B /\ B \subseteq A
                              => Cardinality(B) + 1 <= Cardinality(A)
  <1>1. IsFiniteSet(A) /\ IsFiniteSet(B)
    BY FS_Subset
  <1>2. Cardinality(A) \in Nat /\ Cardinality(B) \in Nat
    BY <1>1, FS_CardinalityType
  <1>3. B \subseteq A => Cardinality(B) <= Cardinality(A)
    BY <1>1, FS_Subset
  <1>4. ASSUME NEW x \in S, B \subseteq A \union {x}
        PROVE  Cardinality(B) <= Cardinality(A) + 1
    <2>1. /\ IsFiniteSet(A \union {x})
          /\ Cardinality(A \union {x}) \in {Cardinality(A), Cardinality(A) + 1}
      BY <1>1, FS_AddElement
    <2>2. Cardinality(B) <= Cardinality(A \union {x})
      BY <1>4, <2>1, FS_Subset
    <2>3. QED
      BY <1>2, <2>1, <2>2
  <1>5. ASSUME NEW x \in A, x \notin B, B \subseteq A
        PROVE  Cardinality(B) + 1 <= Cardinality(A)
    <2>1. IsFiniteSet(A \ {x}) /\ Cardinality(A \ {x}) = Cardinality(A) - 1
      BY <1>1, FS_RemoveElement
    <2>2. Cardinality(B) <= Cardinality(A \ {x})
      BY <1>5, <2>1, FS_Subset
    <2>3. QED
      BY <1>2, <2>1, <2>2
  <1>6. QED
    BY <1>2, <1>3, <1>4, <1>5

LEMMA OwingTyped ==
    /\ \A k : Owing(k) \in SUBSET Scripts /\ Cardinality(Owing(k)) \in Nat
    /\ \A l : OwingOf(l) \in SUBSET Scripts /\ Cardinality(OwingOf(l)) \in Nat
  <1>1. /\ \A k : Owing(k) \in SUBSET Scripts
        /\ \A l : OwingOf(l) \in SUBSET Scripts
    BY DEF Owing, OwingOf
  <1>2. QED
    BY <1>1, Fewer, SetupAssumption

LEMMA OwingTypedPrime ==
    /\ \A k : Owing(k)' \in SUBSET Scripts /\ Cardinality(Owing(k)') \in Nat
    /\ \A l : OwingOf(l)' \in SUBSET Scripts /\ Cardinality(OwingOf(l)') \in Nat
  <1>1. /\ \A k : Owing(k)' \in SUBSET Scripts
        /\ \A l : OwingOf(l)' \in SUBSET Scripts
    BY DEF Owing, OwingOf
  <1>2. QED
    BY <1>1, Fewer, SetupAssumption

\* The counts allow a step when no copy is added.
LEMMA CountedKept ==
    ASSUME SetupTypeOK, Counted, runs' = runs,
           \A k \in Keys : /\ settings'[k] \in Nat /\ settings'[k] <= settings[k]
                           /\ Owing(k)' \subseteq Owing(k),
           \A l \in Lists : /\ defaults'[l] \in Nat /\ defaults'[l] <= defaults[l]
                            /\ OwingOf(l)' \subseteq OwingOf(l)
    PROVE  Counted'
  <1>0. /\ runs \in Nat
        /\ \A k \in Keys : settings[k] \in Nat
        /\ \A l \in Lists : defaults[l] \in Nat
    BY SetupAssumption DEF SetupTypeOK
  <1>1. ASSUME NEW k \in Keys PROVE settings'[k] + Cardinality(Owing(k)') <= runs'
    <2>1. Cardinality(Owing(k)') <= Cardinality(Owing(k))
      BY OwingTyped, OwingTypedPrime, Fewer, SetupAssumption
    <2>2. settings[k] + Cardinality(Owing(k)) <= runs
      BY DEF Counted
    <2>3. QED
      BY <1>0, <2>1, <2>2, OwingTyped, OwingTypedPrime
  <1>2. ASSUME NEW l \in Lists PROVE defaults'[l] + Cardinality(OwingOf(l)') <= runs'
    <2>1. Cardinality(OwingOf(l)') <= Cardinality(OwingOf(l))
      BY OwingTyped, OwingTypedPrime, Fewer, SetupAssumption
    <2>2. defaults[l] + Cardinality(OwingOf(l)) <= runs
      BY DEF Counted
    <2>3. QED
      BY <1>0, <2>1, <2>2, OwingTyped, OwingTypedPrime
  <1>3. QED
    BY <1>1, <1>2 DEF Counted

Resetting == {"delAdmin", "delPassword", "delModes", "delTaxes", "delSettings"}

LEMMA ThenFacts ==
    ASSUME SetupTypeOK, NEW s \in Scripts, NEW pc \in Writing \union Resetting, Then(s, pc)
    PROVE  /\ script' \in [Scripts -> Script]
           /\ script'[s].pc = pc /\ script'[s].todo = script[s].todo
           /\ script'[s].admin = script[s].admin /\ script'[s].alone = script[s].alone
           /\ \A r \in Scripts \ {s} : script'[r] = script[r]
  BY DEF Then, SetupTypeOK, Script, Writing, Resetting

LEMMA IdleFacts ==
    ASSUME SetupTypeOK, NEW s \in Scripts, script' = [script EXCEPT ![s] = Idle]
    PROVE  /\ script' \in [Scripts -> Script]
           /\ script'[s] = Idle /\ ~Runs(s)'
           /\ \A r \in Scripts \ {s} : script'[r] = script[r]
  <1>1. Idle \in Script
    BY SetupAssumption DEF Idle, Script
  <1>2. script' \in [Scripts -> Script] /\ script'[s] = Idle
        /\ \A r \in Scripts \ {s} : script'[r] = script[r]
    BY <1>1 DEF SetupTypeOK
  <1>3. QED
    BY <1>2 DEF Idle, Runs

LEMMA BeginsFacts ==
    ASSUME SetupTypeOK, NEW s \in Scripts, NEW pc \in Writing \union Resetting,
           NEW todo \in SUBSET Keys, NEW admin \in 0 .. MaxRuns,
           Begins(s, pc, todo, admin)
    PROVE  /\ script' \in [Scripts -> Script]
           /\ script'[s].pc = pc /\ script'[s].todo = todo
           /\ script'[s].admin = admin /\ script'[s].alone = Alone(s)
           /\ \A r \in Scripts \ {s} :
                  /\ script'[r].pc = script[r].pc /\ script'[r].todo = script[r].todo
                  /\ script'[r].admin = script[r].admin
                  /\ script'[r].alone = ~Runs(r)
  <1>1. script'[s] = [pc |-> pc, todo |-> todo, admin |-> admin, alone |-> Alone(s)]
    BY DEF Begins
  <1>2. Alone(s) \in BOOLEAN
    BY DEF Alone
  <1>3. script'[s] \in Script
    BY <1>1, <1>2 DEF Script, Writing, Resetting
  <1>4. ASSUME NEW r \in Scripts \ {s}
        PROVE  /\ script'[r] = [script[r] EXCEPT !.alone = ~Runs(r)]
               /\ script'[r] \in Script
               /\ script'[r].pc = script[r].pc /\ script'[r].todo = script[r].todo
               /\ script'[r].admin = script[r].admin
               /\ script'[r].alone = ~Runs(r)
    <2>1. script'[r] = [script[r] EXCEPT !.alone = ~Runs(r)]
      BY DEF Begins
    <2>2. script[r] \in Script
      BY DEF SetupTypeOK
    <2>3. (~Runs(r)) \in BOOLEAN
      OBVIOUS
    <2>4. QED
      BY <2>1, <2>2, <2>3 DEF Script
  <1>5. script' = [r \in Scripts |-> script'[r]]
    BY DEF Begins
  <1>6. QED
    BY <1>1, <1>3, <1>4, <1>5

LEMMA InsertFacts ==
    ASSUME SetupTypeOK, NEW s \in Scripts, NEW k \in Keys, InsertSetting(s, k)
    PROVE  /\ script' \in [Scripts -> Script]
           /\ script'[s].pc = IF script[s].todo = {k} THEN "taxes" ELSE "settings"
           /\ script'[s].todo = script[s].todo \ {k}
           /\ script'[s].admin = script[s].admin /\ script'[s].alone = script[s].alone
           /\ \A r \in Scripts \ {s} : script'[r] = script[r]
           /\ settings'[k] = settings[k] + 1
           /\ \A j \in Keys \ {k} : settings'[j] = settings[j]
  <1>1. script[s] \in Script /\ script \in [Scripts -> Script] /\ settings \in [Keys -> 0 .. MaxRuns]
    BY DEF SetupTypeOK
  <1>2. PICK pc \in {"settings", "taxes"} :
            /\ pc = IF script[s].todo = {k} THEN "taxes" ELSE "settings"
            /\ script' = [script EXCEPT ![s].todo = @ \ {k}, ![s].pc = pc]
    BY <1>1 DEF InsertSetting, At, Script
  <1>3. /\ script' \in [Scripts -> Script]
        /\ script'[s] = [script[s] EXCEPT !.todo = @ \ {k}, !.pc = pc]
        /\ \A r \in Scripts \ {s} : script'[r] = script[r]
    BY <1>1, <1>2 DEF Script
  <1>4. /\ script'[s].pc = pc /\ script'[s].todo = script[s].todo \ {k}
        /\ script'[s].admin = script[s].admin /\ script'[s].alone = script[s].alone
    BY <1>1, <1>3 DEF Script
  <1>5. settings'[k] = settings[k] + 1 /\ \A j \in Keys \ {k} : settings'[j] = settings[j]
    BY <1>1 DEF InsertSetting
  <1>6. QED
    BY <1>2, <1>3, <1>4, <1>5

-----------------------------------------------------------------------------
(* Types *)

LEMMA SetupTypedInserting ==
    ASSUME SetupTypeOK, Ready, Counted, NEW s \in Scripts,
           \/ \E k \in Keys : InsertSetting(s, k)
           \/ InsertTax(s) \/ InsertMode(s)
    PROVE  SetupTypeOK' /\ Ready' /\ Counted'
  <1>0. /\ runs \in Nat /\ runs <= MaxRuns /\ MaxRuns \in Nat
        /\ \A k \in Keys : settings[k] \in Nat
        /\ \A l \in Lists : defaults[l] \in Nat
        /\ settings \in [Keys -> 0 .. MaxRuns] /\ defaults \in [Lists -> 0 .. MaxRuns]
    BY SetupAssumption DEF SetupTypeOK
  <1>1. ASSUME NEW k \in Keys, InsertSetting(s, k)
        PROVE  SetupTypeOK' /\ Ready' /\ Counted'
    <2>1. k \in script[s].todo /\ script[s].pc = "settings"
          /\ UNCHANGED <<admins, passwords, defaults, runs, spoilt>>
      BY <1>1 DEF InsertSetting, At
    <2>2. /\ \A j \in Keys : Owing(j)' \subseteq Owing(j)
          /\ s \in Owing(k) /\ s \notin Owing(k)'
          /\ \A l \in Lists : OwingOf(l)' \subseteq OwingOf(l)
      BY <1>1, <2>1, InsertFacts DEF Owing, OwingOf, Writing
    <2>3. Cardinality(Owing(k)') + 1 <= Cardinality(Owing(k))
      BY <2>2, OwingTyped, OwingTypedPrime, Fewer, SetupAssumption
    <2>4. settings[k] + Cardinality(Owing(k)) <= runs
      BY DEF Counted
    <2>5. settings'[k] + Cardinality(Owing(k)') <= runs /\ settings'[k] \in 0 .. MaxRuns
      BY <1>0, <1>1, <2>3, <2>4, OwingTyped, OwingTypedPrime, InsertFacts
    <2>6. ASSUME NEW j \in Keys
          PROVE  settings'[j] + Cardinality(Owing(j)') <= runs'
      <3>1. CASE j = k
        BY <2>1, <2>5, <3>1
      <3>2. CASE j # k
        <4>1. Cardinality(Owing(j)') <= Cardinality(Owing(j)) /\ settings'[j] = settings[j]
          BY <1>1, <2>2, <3>2, InsertFacts, OwingTyped, OwingTypedPrime, Fewer, SetupAssumption
        <4>2. settings[j] + Cardinality(Owing(j)) <= runs
          BY DEF Counted
        <4>3. QED
          BY <1>0, <2>1, <4>1, <4>2, OwingTyped, OwingTypedPrime
      <3>3. QED
        BY <3>1, <3>2
    <2>7. ASSUME NEW l \in Lists
          PROVE  defaults'[l] + Cardinality(OwingOf(l)') <= runs'
      <3>1. Cardinality(OwingOf(l)') <= Cardinality(OwingOf(l))
        BY <2>2, OwingTyped, OwingTypedPrime, Fewer, SetupAssumption
      <3>2. defaults[l] + Cardinality(OwingOf(l)) <= runs
        BY DEF Counted
      <3>3. QED
        BY <1>0, <2>1, <3>1, <3>2, OwingTyped, OwingTypedPrime
    <2>8. settings' \in [Keys -> 0 .. MaxRuns]
      BY <1>0, <1>1, <2>5 DEF InsertSetting
    <2>9. Ready'
      BY <1>1, <2>1, InsertFacts DEF Ready, Writing
    <2>10. QED
      BY <1>1, <2>1, <2>6, <2>7, <2>8, <2>9, InsertFacts DEF SetupTypeOK, Counted
  <1>2. ASSUME NEW l \in Lists, s \in OwingOf(l), s \notin OwingOf(l)',
               \A m \in Lists : OwingOf(m)' \subseteq OwingOf(m),
               \A k \in Keys : Owing(k)' \subseteq Owing(k),
               defaults' = [defaults EXCEPT ![l] = @ + 1],
               script' \in [Scripts -> Script], Ready',
               UNCHANGED <<admins, passwords, settings, runs, spoilt>>
        PROVE  SetupTypeOK' /\ Ready' /\ Counted'
    <2>1. Cardinality(OwingOf(l)') + 1 <= Cardinality(OwingOf(l))
      BY <1>2, OwingTyped, OwingTypedPrime, Fewer, SetupAssumption
    <2>2. defaults[l] + Cardinality(OwingOf(l)) <= runs
      BY DEF Counted
    <2>3. /\ defaults'[l] = defaults[l] + 1
          /\ \A m \in Lists \ {l} : defaults'[m] = defaults[m]
      BY <1>0, <1>2
    <2>4. defaults'[l] + Cardinality(OwingOf(l)') <= runs' /\ defaults'[l] \in 0 .. MaxRuns
      BY <1>0, <1>2, <2>1, <2>2, <2>3, OwingTyped, OwingTypedPrime
    <2>5. ASSUME NEW m \in Lists
          PROVE  defaults'[m] + Cardinality(OwingOf(m)') <= runs'
      <3>1. CASE m = l
        BY <2>4, <3>1
      <3>2. CASE m # l
        <4>1. Cardinality(OwingOf(m)') <= Cardinality(OwingOf(m)) /\ defaults'[m] = defaults[m]
          BY <1>2, <2>3, <3>2, OwingTyped, OwingTypedPrime, Fewer, SetupAssumption
        <4>2. defaults[m] + Cardinality(OwingOf(m)) <= runs
          BY DEF Counted
        <4>3. QED
          BY <1>0, <1>2, <4>1, <4>2, OwingTyped, OwingTypedPrime
      <3>3. QED
        BY <3>1, <3>2
    <2>6. ASSUME NEW k \in Keys
          PROVE  settings'[k] + Cardinality(Owing(k)') <= runs'
      <3>1. Cardinality(Owing(k)') <= Cardinality(Owing(k))
        BY <1>2, OwingTyped, OwingTypedPrime, Fewer, SetupAssumption
      <3>2. settings[k] + Cardinality(Owing(k)) <= runs
        BY DEF Counted
      <3>3. QED
        BY <1>0, <1>2, <3>1, <3>2, OwingTyped, OwingTypedPrime
    <2>7. defaults' \in [Lists -> 0 .. MaxRuns]
      BY <1>0, <1>2, <2>4
    <2>8. QED
      BY <1>2, <2>5, <2>6, <2>7 DEF SetupTypeOK, Counted
  <1>3. CASE InsertTax(s)
    <2>1. /\ script[s].pc = "taxes" /\ Then(s, "modes") /\ "taxes" \in Lists
          /\ UNCHANGED <<admins, passwords, settings, runs, spoilt>>
          /\ defaults' = [defaults EXCEPT !["taxes"] = @ + 1]
      BY <1>3 DEF InsertTax, At, Lists
    <2>2. /\ script' \in [Scripts -> Script]
          /\ script'[s].pc = "modes" /\ script'[s].todo = script[s].todo
          /\ script'[s].admin = script[s].admin
          /\ \A r \in Scripts \ {s} : script'[r] = script[r]
      BY <2>1, ThenFacts DEF Writing
    <2>3. /\ s \in OwingOf("taxes") /\ s \notin OwingOf("taxes")'
          /\ \A m \in Lists : OwingOf(m)' \subseteq OwingOf(m)
          /\ \A k \in Keys : Owing(k)' \subseteq Owing(k)
      BY <2>1, <2>2 DEF OwingOf, Owing, Writing
    <2>4. Ready'
      BY <2>1, <2>2 DEF Ready, Writing
    <2>5. QED
      BY <1>2, <2>1, <2>2, <2>3, <2>4
  <1>4. CASE InsertMode(s)
    <2>1. /\ script[s].pc = "modes" /\ "modes" \in Lists
          /\ script' = [script EXCEPT ![s] = Idle]
          /\ UNCHANGED <<admins, passwords, settings, runs, spoilt>>
          /\ defaults' = [defaults EXCEPT !["modes"] = @ + 1]
      BY <1>4 DEF InsertMode, At, Lists
    <2>2. /\ script' \in [Scripts -> Script] /\ script'[s] = Idle
          /\ \A r \in Scripts \ {s} : script'[r] = script[r]
      BY <2>1, IdleFacts
    <2>3. /\ s \in OwingOf("modes") /\ s \notin OwingOf("modes")'
          /\ \A m \in Lists : OwingOf(m)' \subseteq OwingOf(m)
          /\ \A k \in Keys : Owing(k)' \subseteq Owing(k)
      BY <2>1, <2>2 DEF OwingOf, Owing, Writing, Idle
    <2>4. Ready'
      BY <2>1, <2>2 DEF Ready, Writing, Idle
    <2>5. QED
      BY <1>2, <2>1, <2>2, <2>3, <2>4
  <1>5. QED
    BY <1>1, <1>3, <1>4

LEMMA SetupTypedStep ==
    ASSUME SetupTypeOK, Ready, Counted, SetupNext
    PROVE  SetupTypeOK' /\ Ready' /\ Counted'
  <1>0. /\ runs \in Nat /\ runs <= MaxRuns /\ MaxRuns \in Nat
        /\ \A k \in Keys : settings[k] \in Nat
        /\ \A l \in Lists : defaults[l] \in Nat
        /\ settings \in [Keys -> 0 .. MaxRuns] /\ defaults \in [Lists -> 0 .. MaxRuns]
    BY SetupAssumption DEF SetupTypeOK
  <1> PICK s \in Scripts :
          \/ BeginSetup(s) \/ SaveAdmin(s) \/ SavePassword(s)
          \/ \E k \in Keys : InsertSetting(s, k)
          \/ InsertTax(s) \/ InsertMode(s)
          \/ BeginReset(s) \/ DeleteAdmins(s) \/ DeletePasswords(s)
          \/ DeleteModes(s) \/ DeleteTaxes(s) \/ DeleteSettings(s)
          \/ ScriptFails(s)
    BY DEF SetupNext
  <1>1. CASE BeginSetup(s)
    <2>1. /\ script[s].pc = "idle" /\ runs < MaxRuns /\ runs' = runs + 1
          /\ Begins(s, "admin", Keys, runs + 1)
          /\ UNCHANGED <<admins, passwords, settings, defaults>>
      BY <1>1 DEF BeginSetup, At
    <2>2. runs + 1 \in 0 .. MaxRuns /\ runs + 1 # 0
      BY <1>0, <2>1
    <2>3. /\ script' \in [Scripts -> Script]
          /\ script'[s].pc = "admin" /\ script'[s].todo = Keys
          /\ script'[s].admin = runs + 1
          /\ \A r \in Scripts \ {s} :
                 /\ script'[r].pc = script[r].pc /\ script'[r].todo = script[r].todo
                 /\ script'[r].admin = script[r].admin
      BY <2>1, <2>2, BeginsFacts DEF Writing
    <2>4. /\ \A k \in Keys : Owing(k)' \subseteq Owing(k) \union {s}
          /\ \A l \in Lists : OwingOf(l)' \subseteq OwingOf(l) \union {s}
      BY <2>3 DEF Owing, OwingOf
    <2>5. ASSUME NEW k \in Keys PROVE settings'[k] + Cardinality(Owing(k)') <= runs'
      <3>1. Cardinality(Owing(k)') <= Cardinality(Owing(k)) + 1
        BY <2>4, OwingTyped, OwingTypedPrime, Fewer, SetupAssumption
      <3>2. settings[k] + Cardinality(Owing(k)) <= runs
        BY DEF Counted
      <3>3. QED
        BY <1>0, <2>1, <3>1, <3>2, OwingTyped, OwingTypedPrime
    <2>6. ASSUME NEW l \in Lists PROVE defaults'[l] + Cardinality(OwingOf(l)') <= runs'
      <3>1. Cardinality(OwingOf(l)') <= Cardinality(OwingOf(l)) + 1
        BY <2>4, OwingTyped, OwingTypedPrime, Fewer, SetupAssumption
      <3>2. defaults[l] + Cardinality(OwingOf(l)) <= runs
        BY DEF Counted
      <3>3. QED
        BY <1>0, <2>1, <3>1, <3>2, OwingTyped, OwingTypedPrime
    <2>7. Ready'
      BY <2>2, <2>3 DEF Ready, Writing
    <2>8. spoilt' \in BOOLEAN
      BY <1>1 DEF BeginSetup, SetupTypeOK, Empty, Alone
    <2>9. QED
      BY <2>1, <2>2, <2>3, <2>5, <2>6, <2>7, <2>8 DEF SetupTypeOK, Counted
  <1>2. CASE SaveAdmin(s)
    <2>1. /\ script[s].pc = "admin" /\ Then(s, "password")
          /\ admins' = Append(admins, script[s].admin)
          /\ UNCHANGED <<passwords, settings, defaults, runs, spoilt>>
      BY <1>2 DEF SaveAdmin, At
    <2>2. script[s].admin \in 1 .. MaxRuns
      BY <1>0, <2>1 DEF SetupTypeOK, Ready, Script, Writing
    <2>3. admins' \in Seq(1 .. MaxRuns)
      BY <2>1, <2>2 DEF SetupTypeOK
    <2>4. /\ script' \in [Scripts -> Script]
          /\ script'[s].pc = "password" /\ script'[s].todo = script[s].todo
          /\ script'[s].admin = script[s].admin
          /\ \A r \in Scripts \ {s} : script'[r] = script[r]
      BY <2>1, ThenFacts DEF Writing
    <2>5. /\ \A m \in Lists : OwingOf(m)' \subseteq OwingOf(m)
          /\ \A k \in Keys : Owing(k)' \subseteq Owing(k)
      BY <2>1, <2>4 DEF OwingOf, Owing, Writing
    <2>6. Counted'
      BY <1>0, <2>1, <2>5, CountedKept
    <2>7. Ready'
      BY <2>1, <2>4 DEF Ready, Writing
    <2>8. QED
      BY <2>1, <2>3, <2>4, <2>6, <2>7 DEF SetupTypeOK
  <1>3. CASE SavePassword(s)
    <2>1. /\ script[s].pc = "password" /\ Then(s, "settings")
          /\ passwords' = passwords \union {script[s].admin}
          /\ UNCHANGED <<admins, settings, defaults, runs, spoilt>>
      BY <1>3 DEF SavePassword, At
    <2>2. script[s].admin \in 1 .. MaxRuns
      BY <1>0, <2>1 DEF SetupTypeOK, Ready, Script, Writing
    <2>3. passwords' \subseteq 1 .. MaxRuns
      BY <2>1, <2>2 DEF SetupTypeOK
    <2>4. /\ script' \in [Scripts -> Script]
          /\ script'[s].pc = "settings" /\ script'[s].todo = script[s].todo
          /\ script'[s].admin = script[s].admin
          /\ \A r \in Scripts \ {s} : script'[r] = script[r]
      BY <2>1, ThenFacts DEF Writing
    <2>5. /\ \A m \in Lists : OwingOf(m)' \subseteq OwingOf(m)
          /\ \A k \in Keys : Owing(k)' \subseteq Owing(k)
      BY <2>1, <2>4 DEF OwingOf, Owing, Writing
    <2>6. Counted'
      BY <1>0, <2>1, <2>5, CountedKept
    <2>7. Ready'
      BY <2>1, <2>4 DEF Ready, Writing
    <2>8. QED
      BY <2>1, <2>3, <2>4, <2>6, <2>7 DEF SetupTypeOK
  <1>4. CASE (\E k \in Keys : InsertSetting(s, k)) \/ InsertTax(s) \/ InsertMode(s)
    BY <1>4, SetupTypedInserting
  <1>5. CASE BeginReset(s)
    <2>1. /\ script[s].pc = "idle" /\ Begins(s, "delAdmin", {}, 0) /\ spoilt' = TRUE
          /\ UNCHANGED <<admins, passwords, settings, defaults, runs>>
      BY <1>5 DEF BeginReset, At
    <2>2. /\ script' \in [Scripts -> Script]
          /\ script'[s].pc = "delAdmin" /\ script'[s].todo = {}
          /\ \A r \in Scripts \ {s} :
                 /\ script'[r].pc = script[r].pc /\ script'[r].todo = script[r].todo
                 /\ script'[r].admin = script[r].admin
      <3>1. 0 \in 0 .. MaxRuns
        BY <1>0
      <3>2. QED
        BY <2>1, <3>1, BeginsFacts DEF Resetting
    <2>3. /\ \A m \in Lists : OwingOf(m)' \subseteq OwingOf(m)
          /\ \A k \in Keys : Owing(k)' \subseteq Owing(k)
      BY <2>1, <2>2 DEF OwingOf, Owing, Writing
    <2>4. Counted'
      BY <1>0, <2>1, <2>3, CountedKept
    <2>5. Ready'
      BY <2>1, <2>2 DEF Ready, Writing
    <2>6. QED
      BY <2>1, <2>2, <2>4, <2>5 DEF SetupTypeOK
  <1>6. ASSUME script[s].pc \in Resetting, runs' = runs, spoilt' \in BOOLEAN,
               \/ \E pc \in Resetting : Then(s, pc)
               \/ script' = [script EXCEPT ![s] = Idle],
               admins' \in {admins, <<>>}, passwords' \in {passwords, {}},
               \A k \in Keys : settings'[k] \in {settings[k], 0},
               \A l \in Lists : defaults'[l] \in {defaults[l], 0},
               settings' \in [Keys -> 0 .. MaxRuns], defaults' \in [Lists -> 0 .. MaxRuns]
        PROVE  SetupTypeOK' /\ Ready' /\ Counted'
    <2>1. /\ script' \in [Scripts -> Script]
          /\ script'[s].pc \notin Writing /\ script'[s].todo = {}
          /\ \A r \in Scripts \ {s} : script'[r] = script[r]
      <3>1. CASE \E pc \in Resetting : Then(s, pc)
        <4>1. script[s].todo = {}
          BY <1>6 DEF Ready, Resetting
        <4>2. QED
          BY <3>1, <4>1, ThenFacts DEF Resetting, Writing
      <3>2. CASE script' = [script EXCEPT ![s] = Idle]
        BY <3>2, IdleFacts DEF Idle, Writing
      <3>3. QED
        BY <1>6, <3>1, <3>2
    <2>2. /\ \A m \in Lists : OwingOf(m)' \subseteq OwingOf(m)
          /\ \A k \in Keys : Owing(k)' \subseteq Owing(k)
      BY <2>1 DEF OwingOf, Owing, Writing
    <2>3. Counted'
      <3>1. ASSUME NEW k \in Keys PROVE settings'[k] \in Nat /\ settings'[k] <= settings[k]
        <4>1. settings[k] \in Nat /\ settings'[k] \in {settings[k], 0}
          BY <1>0, <1>6
        <4>2. QED
          BY <4>1
      <3>2. ASSUME NEW l \in Lists PROVE defaults'[l] \in Nat /\ defaults'[l] <= defaults[l]
        <4>1. defaults[l] \in Nat /\ defaults'[l] \in {defaults[l], 0}
          BY <1>0, <1>6
        <4>2. QED
          BY <4>1
      <3>3. QED
        BY <1>6, <2>2, <3>1, <3>2, CountedKept
    <2>4. Ready'
      BY <2>1 DEF Ready, Writing
    <2>5. admins' \in Seq(1 .. MaxRuns) /\ passwords' \subseteq 1 .. MaxRuns
      <3>1. admins \in Seq(1 .. MaxRuns) /\ passwords \subseteq 1 .. MaxRuns
            /\ <<>> \in Seq(1 .. MaxRuns)
        BY DEF SetupTypeOK
      <3>2. QED
        BY <1>6, <3>1
    <2>6. QED
      BY <1>0, <1>6, <2>1, <2>3, <2>4, <2>5 DEF SetupTypeOK
  <1>7. CASE DeleteAdmins(s)
    BY <1>0, <1>6, <1>7 DEF DeleteAdmins, At, Resetting, SetupTypeOK
  <1>8. CASE DeletePasswords(s)
    BY <1>0, <1>6, <1>8 DEF DeletePasswords, At, Resetting, SetupTypeOK
  <1>9. CASE DeleteModes(s)
    <2>1. defaults' = [defaults EXCEPT !["modes"] = 0] /\ 0 \in 0 .. MaxRuns
      BY <1>0, <1>9 DEF DeleteModes
    <2>2. /\ defaults' \in [Lists -> 0 .. MaxRuns]
          /\ \A l \in Lists : defaults'[l] \in {defaults[l], 0}
      BY <1>0, <2>1
    <2>3. QED
      BY <1>0, <1>6, <1>9, <2>2 DEF DeleteModes, At, Resetting, SetupTypeOK
  <1>10. CASE DeleteTaxes(s)
    <2>1. defaults' = [defaults EXCEPT !["taxes"] = 0] /\ 0 \in 0 .. MaxRuns
      BY <1>0, <1>10 DEF DeleteTaxes
    <2>2. /\ defaults' \in [Lists -> 0 .. MaxRuns]
          /\ \A l \in Lists : defaults'[l] \in {defaults[l], 0}
      BY <1>0, <2>1
    <2>3. QED
      BY <1>0, <1>6, <1>10, <2>2 DEF DeleteTaxes, At, Resetting, SetupTypeOK
  <1>11. CASE DeleteSettings(s)
    <2>1. settings' = [k \in Keys |-> 0] /\ spoilt' = ~script[s].alone
      BY <1>11 DEF DeleteSettings
    <2>2. /\ settings' \in [Keys -> 0 .. MaxRuns]
          /\ \A k \in Keys : settings'[k] \in {settings[k], 0}
      BY <1>0, <2>1
    <2>3. spoilt' \in BOOLEAN
      BY <2>1
    <2>4. QED
      BY <1>0, <1>6, <1>11, <2>2, <2>3 DEF DeleteSettings, At, Resetting
  <1>12. CASE ScriptFails(s)
    <2>1. /\ script' = [script EXCEPT ![s] = Idle] /\ spoilt' = TRUE
          /\ UNCHANGED <<admins, passwords, settings, defaults, runs>>
      BY <1>12 DEF ScriptFails
    <2>2. /\ script' \in [Scripts -> Script] /\ script'[s] = Idle
          /\ \A r \in Scripts \ {s} : script'[r] = script[r]
      BY <2>1, IdleFacts
    <2>3. /\ \A m \in Lists : OwingOf(m)' \subseteq OwingOf(m)
          /\ \A k \in Keys : Owing(k)' \subseteq Owing(k)
      BY <2>2 DEF OwingOf, Owing, Writing, Idle
    <2>4. Counted'
      BY <1>0, <2>1, <2>3, CountedKept
    <2>5. Ready'
      BY <2>2 DEF Ready, Writing, Idle
    <2>6. QED
      BY <2>1, <2>2, <2>4, <2>5 DEF SetupTypeOK
  <1>13. QED
    BY <1>1, <1>2, <1>3, <1>4, <1>5, <1>7, <1>8, <1>9, <1>10, <1>11, <1>12

-----------------------------------------------------------------------------
(* Progress *)

\* A script that is at work takes a step, and the others do not.
LEMMA AlonesStep ==
    ASSUME Alones, NEW s \in Scripts, Runs(s),
           \A r \in Scripts \ {s} : script'[r] = script[r],
           Runs(s)' => /\ script'[s].alone = script[s].alone
                       /\ script[s].alone /\ Emptied(s) => Emptied(s)'
    PROVE  Alones'
  <1>1. SUFFICES ASSUME NEW t \in Scripts, Runs(t)', script'[t].alone
                 PROVE  Alone(t)' /\ Emptied(t)'
    BY DEF Alones
  <1>2. CASE t = s
    BY <1>1, <1>2 DEF Alones, Alone, Runs
  <1>3. CASE t # s
    <2>1. Runs(t) /\ script[t].alone
      BY <1>1, <1>3 DEF Runs
    <2>2. ~Runs(s)
      BY <1>3, <2>1 DEF Alones, Alone
    <2>3. QED
      BY <2>2
  <1>4. QED
    BY <1>2, <1>3

\* One begins, and whoever is at work knows it.
LEMMA AlonesBegin ==
    ASSUME SetupTypeOK, NEW s \in Scripts, ~Runs(s),
           NEW pc \in {"admin", "delAdmin"}, NEW todo \in SUBSET Keys,
           NEW admin \in 0 .. MaxRuns, Begins(s, pc, todo, admin)
    PROVE  Alones'
  <1>0. /\ script'[s].pc = pc /\ script'[s].alone = Alone(s)
        /\ \A r \in Scripts \ {s} :
               script'[r].pc = script[r].pc /\ script'[r].alone = ~Runs(r)
    BY BeginsFacts DEF Writing, Resetting
  <1>1. SUFFICES ASSUME NEW t \in Scripts, Runs(t)', script'[t].alone
                 PROVE  Alone(t)' /\ Emptied(t)'
    BY DEF Alones
  <1>2. CASE t = s
    BY <1>0, <1>1, <1>2 DEF Alone, Runs, Emptied
  <1>3. CASE t # s
    BY <1>0, <1>1, <1>3 DEF Runs
  <1>4. QED
    BY <1>2, <1>3

\* A set-up that nothing disturbed takes a step.
LEMMA UnspoiltStep ==
    ASSUME Alones, Unspoilt, NEW s \in Scripts, Runs(s), spoilt' = spoilt,
           \A r \in Scripts \ {s} : script'[r] = script[r],
           Runs(s)' => script'[s].alone = script[s].alone,
           Built(s) => IF Runs(s)' THEN Built(s)' ELSE Works'
    PROVE  Unspoilt'
  <1>1. SUFFICES ASSUME ~spoilt'
                 PROVE  /\ \A t \in Scripts : Runs(t)' => script'[t].alone /\ Built(t)'
                        /\ (\A t \in Scripts : ~Runs(t)') => Empty' \/ Works'
    BY DEF Unspoilt
  <1>2. script[s].alone /\ Built(s)
    BY <1>1 DEF Unspoilt
  <1>3. \A r \in Scripts \ {s} : ~Runs(r)'
    BY <1>2 DEF Alones, Alone, Runs
  <1>4. QED
    BY <1>2, <1>3

LEMMA ProgressSetup ==
    ASSUME SetupTypeOK, Alones, Unspoilt, NEW s \in Scripts,
           \/ SaveAdmin(s) \/ SavePassword(s)
           \/ \E k \in Keys : InsertSetting(s, k)
           \/ InsertTax(s) \/ InsertMode(s)
    PROVE  Alones' /\ Unspoilt'
  <1>0. /\ settings \in [Keys -> 0 .. MaxRuns] /\ defaults \in [Lists -> 0 .. MaxRuns]
        /\ Lists = {"taxes", "modes"}
    BY DEF SetupTypeOK, Lists
  <1>1. CASE SaveAdmin(s)
    <2>1. /\ script[s].pc = "admin" /\ Then(s, "password")
          /\ admins' = Append(admins, script[s].admin)
          /\ UNCHANGED <<passwords, settings, defaults, spoilt>>
      BY <1>1 DEF SaveAdmin, At
    <2>2. /\ script'[s].pc = "password" /\ script'[s].todo = script[s].todo
          /\ script'[s].admin = script[s].admin /\ script'[s].alone = script[s].alone
          /\ \A r \in Scripts \ {s} : script'[r] = script[r]
      BY <2>1, ThenFacts DEF Writing
    <2>3. Built(s) => Built(s)'
      <3>1. SUFFICES ASSUME Built(s) PROVE Built(s)'
        OBVIOUS
      <3>2. Empty /\ script[s].todo = Keys
        BY <2>1, <3>1 DEF Built, At
      <3>3. admins' = <<script'[s].admin>>
        BY <2>1, <2>2, <3>2 DEF Empty
      <3>4. QED
        BY <2>1, <2>2, <3>2, <3>3 DEF Built, At, Empty, NoDefaults
    <2>4. Runs(s) /\ Runs(s)' /\ Emptied(s)'
      BY <2>1, <2>2 DEF Runs, Emptied
    <2>5. QED
      BY <2>1, <2>2, <2>3, <2>4, AlonesStep, UnspoiltStep
  <1>2. CASE SavePassword(s)
    <2>1. /\ script[s].pc = "password" /\ Then(s, "settings")
          /\ passwords' = passwords \union {script[s].admin}
          /\ UNCHANGED <<admins, settings, defaults, spoilt>>
      BY <1>2 DEF SavePassword, At
    <2>2. /\ script'[s].pc = "settings" /\ script'[s].todo = script[s].todo
          /\ script'[s].admin = script[s].admin /\ script'[s].alone = script[s].alone
          /\ \A r \in Scripts \ {s} : script'[r] = script[r]
      BY <2>1, ThenFacts DEF Writing
    <2>3. Built(s) => Built(s)'
      <3>1. SUFFICES ASSUME Built(s) PROVE Built(s)'
        OBVIOUS
      <3>2. /\ admins = <<script[s].admin>> /\ script[s].todo = Keys
            /\ (\A k \in Keys : settings[k] = 0) /\ NoDefaults
        BY <2>1, <3>1 DEF Built, At
      <3>3. Len(admins') = 1 /\ admins'[1] \in passwords'
        BY <2>1, <3>2
      <3>4. QED
        BY <2>1, <2>2, <3>2, <3>3 DEF Built, At, NoDefaults
    <2>4. Runs(s) /\ Runs(s)' /\ Emptied(s)'
      BY <2>1, <2>2 DEF Runs, Emptied
    <2>5. QED
      BY <2>1, <2>2, <2>3, <2>4, AlonesStep, UnspoiltStep
  <1>3. ASSUME NEW k \in Keys, InsertSetting(s, k)
        PROVE  Alones' /\ Unspoilt'
    <2>1. /\ script[s].pc = "settings" /\ k \in script[s].todo
          /\ UNCHANGED <<admins, passwords, defaults, spoilt>>
      BY <1>3 DEF InsertSetting, At
    <2>2. /\ script'[s].pc = IF script[s].todo = {k} THEN "taxes" ELSE "settings"
          /\ script'[s].todo = script[s].todo \ {k}
          /\ script'[s].alone = script[s].alone
          /\ \A r \in Scripts \ {s} : script'[r] = script[r]
          /\ settings'[k] = settings[k] + 1
          /\ \A j \in Keys \ {k} : settings'[j] = settings[j]
      BY <1>3, InsertFacts
    <2>3. Built(s) => Built(s)'
      <3>1. SUFFICES ASSUME Built(s) PROVE Built(s)'
        OBVIOUS
      <3>2. /\ Len(admins) = 1 /\ admins[1] \in passwords /\ NoDefaults
            /\ \A j \in Keys : settings[j] = IF j \in script[s].todo THEN 0 ELSE 1
        BY <2>1, <3>1 DEF Built, At
      <3>3. \A j \in Keys : settings'[j] = IF j \in script'[s].todo THEN 0 ELSE 1
        BY <2>1, <2>2, <3>2
      <3>4. CASE script[s].todo = {k}
        BY <2>1, <2>2, <3>2, <3>3, <3>4 DEF Built, At, NoDefaults
      <3>5. CASE script[s].todo # {k}
        BY <2>1, <2>2, <3>2, <3>3, <3>5 DEF Built, At, NoDefaults
      <3>6. QED
        BY <3>4, <3>5
    <2>4. Runs(s) /\ Runs(s)' /\ Emptied(s)'
      BY <2>1, <2>2 DEF Runs, Emptied
    <2>5. QED
      BY <2>1, <2>2, <2>3, <2>4, AlonesStep, UnspoiltStep
  <1>4. CASE InsertTax(s)
    <2>1. /\ script[s].pc = "taxes" /\ Then(s, "modes")
          /\ defaults' = [defaults EXCEPT !["taxes"] = @ + 1]
          /\ UNCHANGED <<admins, passwords, settings, spoilt>>
      BY <1>4 DEF InsertTax, At
    <2>2. /\ script'[s].pc = "modes" /\ script'[s].alone = script[s].alone
          /\ \A r \in Scripts \ {s} : script'[r] = script[r]
      BY <2>1, ThenFacts DEF Writing
    <2>3. Built(s) => Built(s)'
      <3>1. SUFFICES ASSUME Built(s) PROVE Built(s)'
        OBVIOUS
      <3>2. /\ Len(admins) = 1 /\ admins[1] \in passwords /\ NoDefaults
            /\ \A j \in Keys : settings[j] = 1
        BY <2>1, <3>1 DEF Built, At
      <3>3. defaults'["taxes"] = 1 /\ defaults'["modes"] = 0
        BY <1>0, <2>1, <3>2 DEF NoDefaults
      <3>4. QED
        BY <2>1, <2>2, <3>2, <3>3 DEF Built, At
    <2>4. Runs(s) /\ Runs(s)' /\ Emptied(s)'
      BY <2>1, <2>2 DEF Runs, Emptied
    <2>5. QED
      BY <2>1, <2>2, <2>3, <2>4, AlonesStep, UnspoiltStep
  <1>5. CASE InsertMode(s)
    <2>1. /\ script[s].pc = "modes" /\ script' = [script EXCEPT ![s] = Idle]
          /\ defaults' = [defaults EXCEPT !["modes"] = @ + 1]
          /\ UNCHANGED <<admins, passwords, settings, spoilt>>
      BY <1>5 DEF InsertMode, At
    <2>2. /\ script'[s] = Idle /\ ~Runs(s)'
          /\ \A r \in Scripts \ {s} : script'[r] = script[r]
      BY <2>1, IdleFacts
    <2>3. Built(s) => Works'
      <3>1. SUFFICES ASSUME Built(s) PROVE Works'
        OBVIOUS
      <3>2. /\ Len(admins) = 1 /\ admins[1] \in passwords
            /\ \A j \in Keys : settings[j] = 1
            /\ defaults["taxes"] = 1 /\ defaults["modes"] = 0
        BY <2>1, <3>1 DEF Built, At
      <3>3. defaults'["taxes"] = 1 /\ defaults'["modes"] = 1
        BY <1>0, <2>1, <3>2
      <3>4. QED
        BY <1>0, <2>1, <3>2, <3>3 DEF Works
    <2>4. Runs(s)
      BY <2>1 DEF Runs
    <2>5. QED
      BY <2>1, <2>2, <2>3, <2>4, AlonesStep, UnspoiltStep
  <1>6. QED
    BY <1>1, <1>2, <1>3, <1>4, <1>5

LEMMA ProgressReset ==
    ASSUME SetupTypeOK, Alones, Unspoilt, NEW s \in Scripts,
           \/ DeleteAdmins(s) \/ DeletePasswords(s)
           \/ DeleteModes(s) \/ DeleteTaxes(s) \/ DeleteSettings(s)
    PROVE  Alones' /\ Unspoilt'
  <1>0. /\ settings \in [Keys -> 0 .. MaxRuns] /\ defaults \in [Lists -> 0 .. MaxRuns]
        /\ Lists = {"taxes", "modes"}
    BY DEF SetupTypeOK, Lists
  <1>1. script[s].pc \in Resetting
    BY DEF DeleteAdmins, DeletePasswords, DeleteModes, DeleteTaxes, DeleteSettings, At,
       Resetting
  <1>2. Runs(s) /\ ~Built(s)
    BY <1>1 DEF Runs, Built, At, Resetting
  <1>3. ASSUME NEW pc \in Resetting, Then(s, pc), spoilt' = spoilt,
               Emptied(s) /\ script'[s].pc = pc => Emptied(s)'
        PROVE  Alones' /\ Unspoilt'
    <2>1. /\ script'[s].pc = pc /\ script'[s].alone = script[s].alone
          /\ \A r \in Scripts \ {s} : script'[r] = script[r]
      BY <1>3, ThenFacts
    <2>2. QED
      BY <1>2, <1>3, <2>1, AlonesStep, UnspoiltStep
  <1>4. CASE DeleteAdmins(s)
    BY <1>3, <1>4 DEF DeleteAdmins, At, Emptied, Resetting
  <1>5. CASE DeletePasswords(s)
    BY <1>3, <1>5 DEF DeletePasswords, At, Emptied, Resetting
  <1>6. CASE DeleteModes(s)
    <2>1. defaults'["modes"] = 0 /\ admins' = admins /\ passwords' = passwords
          /\ script[s].pc = "delModes" /\ Then(s, "delTaxes") /\ spoilt' = spoilt
      BY <1>0, <1>6 DEF DeleteModes, At
    <2>2. QED
      BY <1>3, <2>1 DEF Emptied, Resetting
  <1>7. CASE DeleteTaxes(s)
    <2>1. defaults'["taxes"] = 0 /\ defaults'["modes"] = defaults["modes"]
          /\ admins' = admins /\ passwords' = passwords
          /\ script[s].pc = "delTaxes" /\ Then(s, "delSettings") /\ spoilt' = spoilt
      BY <1>0, <1>7 DEF DeleteTaxes, At
    <2>2. QED
      BY <1>3, <2>1 DEF Emptied, Resetting
  <1>8. CASE DeleteSettings(s)
    <2>1. /\ script[s].pc = "delSettings" /\ settings' = [k \in Keys |-> 0]
          /\ script' = [script EXCEPT ![s] = Idle] /\ spoilt' = ~script[s].alone
          /\ UNCHANGED <<admins, passwords, defaults>>
      BY <1>8 DEF DeleteSettings, At
    <2>2. /\ ~Runs(s)' /\ \A r \in Scripts \ {s} : script'[r] = script[r]
      BY <2>1, IdleFacts
    <2>3. Alones'
      BY <1>2, <2>2, AlonesStep
    <2>4. ASSUME ~spoilt'
          PROVE  /\ \A t \in Scripts : ~Runs(t)'
                 /\ Empty'
      <3>1. Alone(s) /\ Emptied(s)
        BY <1>2, <2>1, <2>4 DEF Alones
      <3>2. \A t \in Scripts : ~Runs(t)'
        BY <2>2, <3>1 DEF Alone, Runs
      <3>3. Empty'
        BY <1>0, <2>1, <3>1 DEF Empty, Emptied
      <3>4. QED
        BY <3>2, <3>3
    <2>5. QED
      BY <2>3, <2>4 DEF Unspoilt
  <1>9. QED
    BY <1>4, <1>5, <1>6, <1>7, <1>8

LEMMA ProgressStep ==
    ASSUME SetupTypeOK, Alones, Unspoilt, SetupNext
    PROVE  Alones' /\ Unspoilt'
  <1> PICK s \in Scripts :
          \/ BeginSetup(s) \/ SaveAdmin(s) \/ SavePassword(s)
          \/ \E k \in Keys : InsertSetting(s, k)
          \/ InsertTax(s) \/ InsertMode(s)
          \/ BeginReset(s) \/ DeleteAdmins(s) \/ DeletePasswords(s)
          \/ DeleteModes(s) \/ DeleteTaxes(s) \/ DeleteSettings(s)
          \/ ScriptFails(s)
    BY DEF SetupNext
  <1>1. CASE BeginSetup(s)
    <2>0. ~Runs(s) /\ Begins(s, "admin", Keys, runs + 1)
      BY <1>1 DEF BeginSetup, At, Runs
    <2>1. /\ spoilt' = (spoilt \/ ~Empty \/ ~Alone(s))
          /\ UNCHANGED <<admins, passwords, settings, defaults>>
      BY <1>1 DEF BeginSetup
    <2>2. runs + 1 \in 0 .. MaxRuns
      BY <1>1, SetupAssumption DEF BeginSetup, SetupTypeOK
    <2>3. Alones'
      BY <2>0, <2>2, AlonesBegin
    <2>4. /\ script'[s].pc = "admin" /\ script'[s].todo = Keys
          /\ \A r \in Scripts \ {s} : script'[r].pc = script[r].pc
      <3>1. script'[s].pc = "admin" /\ script'[s].todo = Keys
        BY <2>0 DEF Begins
      <3>2. ASSUME NEW r \in Scripts \ {s} PROVE script'[r].pc = script[r].pc
        <4>1. script'[r] = [script[r] EXCEPT !.alone = ~Runs(r)] /\ script[r] \in Script
          BY <2>0 DEF Begins, SetupTypeOK
        <4>2. QED
          BY <4>1 DEF Script
      <3>3. QED
        BY <3>1, <3>2
    <2>5. ASSUME ~spoilt'
          PROVE  /\ \A t \in Scripts : Runs(t)' => script'[t].alone /\ Built(t)'
                 /\ Empty'
      <3>1. Empty /\ Alone(s)
        BY <2>1, <2>5
      <3>2. Empty'
        BY <2>1, <3>1 DEF Empty
      <3>3. \A r \in Scripts \ {s} : ~Runs(r)'
        BY <2>4, <3>1 DEF Alone, Runs
      <3>4. script'[s].alone
        BY <2>0, <3>1 DEF Begins
      <3>5. Built(s)'
        BY <2>4, <3>2 DEF Built, At
      <3>6. QED
        BY <3>2, <3>3, <3>4, <3>5
    <2>6. QED
      BY <2>3, <2>5 DEF Unspoilt
  <1>2. CASE BeginReset(s)
    <2>1. ~Runs(s) /\ Begins(s, "delAdmin", {}, 0) /\ spoilt' = TRUE
          /\ 0 \in 0 .. MaxRuns
      BY <1>2, SetupAssumption DEF BeginReset, At, Runs
    <2>2. QED
      BY <2>1, AlonesBegin DEF Unspoilt
  <1>3. CASE ScriptFails(s)
    <2>1. Runs(s) /\ script' = [script EXCEPT ![s] = Idle] /\ spoilt' = TRUE
      BY <1>3 DEF ScriptFails
    <2>2. /\ ~Runs(s)' /\ \A r \in Scripts \ {s} : script'[r] = script[r]
      BY <2>1, IdleFacts
    <2>3. QED
      BY <2>1, <2>2, AlonesStep DEF Unspoilt
  <1>4. QED
    BY <1>1, <1>2, <1>3, ProgressSetup, ProgressReset

LEMMA SetupInitInv == SetupInit => SetupInv
  <1> SUFFICES ASSUME SetupInit PROVE SetupInv
    OBVIOUS
  <1>1. Idle \in Script /\ 0 \in 0 .. MaxRuns
    BY SetupAssumption DEF Idle, Script
  <1>2. SetupTypeOK
    <2>1. <<>> \in Seq(1 .. MaxRuns) /\ {} \subseteq 1 .. MaxRuns
      OBVIOUS
    <2>2. /\ settings \in [Keys -> 0 .. MaxRuns] /\ defaults \in [Lists -> 0 .. MaxRuns]
          /\ script \in [Scripts -> Script]
      BY <1>1 DEF SetupInit
    <2>3. QED
      BY <1>1, <2>1, <2>2 DEF SetupInit, SetupTypeOK
  <1>3. \A s \in Scripts : script[s].pc = "idle" /\ script[s].todo = {}
    BY DEF SetupInit, Idle
  <1>4. /\ \A k \in Keys : Owing(k) = {}
        /\ \A l \in Lists : OwingOf(l) = {}
    BY <1>3 DEF Owing, OwingOf, Writing
  <1>5. Counted
    <2>1. /\ \A k \in Keys : settings[k] = 0
          /\ \A l \in Lists : defaults[l] = 0
          /\ runs = 0
      BY DEF SetupInit
    <2>2. Cardinality({}) = 0
      BY FS_EmptySet
    <2>3. QED
      BY <1>4, <2>1, <2>2 DEF Counted
  <1>6. Ready
    BY <1>3 DEF Ready, Writing
  <1>7. Empty
    BY DEF SetupInit, Empty
  <1>8. QED
    BY <1>2, <1>3, <1>5, <1>6, <1>7 DEF SetupInv, Alones, Unspoilt, Runs

LEMMA SetupNextInv == SetupInv /\ [SetupNext]_setupVars => SetupInv'
  <1>1. ASSUME SetupInv, SetupNext PROVE SetupInv'
    BY <1>1, SetupTypedStep, ProgressStep DEF SetupInv
  <1>2. ASSUME SetupInv, UNCHANGED setupVars PROVE SetupInv'
    <2>1. UNCHANGED <<admins, passwords, settings, defaults, script, runs, spoilt>>
      BY <1>2 DEF setupVars
    <2>2. SetupTypeOK' /\ Ready'
      BY <1>2, <2>1 DEF SetupInv, SetupTypeOK, Ready
    <2>3. Counted'
      BY <1>2, <2>1 DEF SetupInv, Counted, Owing, OwingOf
    <2>4. Alones'
      BY <1>2, <2>1 DEF SetupInv, Alones, Alone, Runs, Emptied
    <2>5. Unspoilt'
      BY <1>2, <2>1 DEF SetupInv, Unspoilt, Runs, Built, At, Empty, Works, NoDefaults
    <2>6. QED
      BY <2>2, <2>3, <2>4, <2>5 DEF SetupInv
  <1>3. QED
    BY <1>1, <1>2

LEMMA SetupInvariance == SetupSpec => []SetupInv
  BY SetupInitInv, SetupNextInv, PTL DEF SetupSpec

\* Accounts, settings and scripts keep their types, and no setting and no default
\* is there more often than set-up was run.
THEOREM SetupTypeCorrect == SetupSpec => []SetupTypeOK
  BY SetupInvariance, PTL DEF SetupInv

\* However often the database is set up and reset, by any number of scripts, and
\* wherever they fail: unless one ran over what another had left, once none runs
\* the database is empty or works.
THEOREM FreshSetupAlwaysWorks == SetupSpec => []FreshSetupWorks
  <1>1. SetupInv => FreshSetupWorks
    BY DEF SetupInv, Unspoilt, FreshSetupWorks
  <1>2. QED
    BY <1>1, SetupInvariance, PTL

-----------------------------------------------------------------------------
(***************************************************************************)
(* Summaries                                                               *)
(***************************************************************************)

\* No invoice is paid more than it is.
Sound == \A d \in Slots : docs[d].credit <= docs[d].total

Counting == card.kind = "invoice" /\ card.pc = "counted"

Answering == card.kind = "invoice" /\ card.pc \in {"answered", "shown"} /\ card.total > 0

\* What the first aggregate found is still so, and what the second found is.
Agreeing ==
    /\ Counting /\ ~card.changed => card.total = TotalOf(Live)
    /\ Answering /\ ~card.changed => card.total - card.due = CreditOf(Live)

\* The shares are those of documents that were counted together.
SharesFit ==
    /\ (Counting /\ card.total > 0) \/ Answering
       => /\ ShareOf(PaymentStatuses) \in 99 .. 101
          /\ \A r \in InvoiceRows : card.shares[r] <= 100
    /\ card.kind = "quote"
       => ShareOf(QuoteRows) <= 100 + Cardinality(QuoteRows) \div 2
    /\ card.kind = "client" /\ ~card.stray
       => card.shares["active"] <= 100 /\ card.shares["new"] <= 100

SummariesInv == SummariesTypeOK /\ Sound /\ Agreeing /\ SharesFit

-----------------------------------------------------------------------------
(* Rounding to whole percents *)

LEMMA Quotient ==
    ASSUME NEW a \in Nat, NEW b \in Nat, b > 0
    PROVE  /\ a \div b \in Nat
           /\ b * (a \div b) <= a /\ a < b * (a \div b) + b
  OBVIOUS

LEMMA PercentFacts ==
    ASSUME NEW parts \in Nat, NEW whole \in Nat, whole > 0
    PROVE  /\ Percent(parts, whole) \in Nat
           /\ 2 * (whole * Percent(parts, whole)) <= 200 * parts + whole
           /\ 200 * parts <= 2 * (whole * Percent(parts, whole)) + whole
           /\ parts <= whole => Percent(parts, whole) <= 100
  <1> DEFINE a == 200 * parts + whole
             b == 2 * whole
             p == Percent(parts, whole)
  <1>1. a \in Nat /\ b \in Nat /\ b > 0
    OBVIOUS
  <1>2. p = a \div b
    BY DEF Percent
  <1> HIDE DEF p
  <1>3. p \in Nat /\ b * p <= a /\ a < b * p + b
    <2> HIDE DEF a, b
    <2>1. QED
      BY <1>1, <1>2, Quotient
  <1>4. b * p = 2 * (whole * p) /\ whole * p \in Nat
    BY <1>3
  <1> DEFINE q == whole * p
  <1>5. q = whole * p
    OBVIOUS
  <1> HIDE DEF q
  <1>6. q \in Nat /\ 2 * q <= 200 * parts + whole /\ 200 * parts + whole < 2 * q + 2 * whole
    BY <1>3, <1>4, <1>5
  <1>7. 2 * q <= 200 * parts + whole /\ 200 * parts <= 2 * q + whole
    BY <1>6
  <1>8. ASSUME parts <= whole PROVE p <= 100
    <2>1. SUFFICES ASSUME p >= 101 PROVE FALSE
      BY <1>3
    <2>2. whole * p >= 101 * whole
      BY <1>3, <2>1
    <2>3. QED
      BY <1>5, <1>6, <1>8, <2>2
  <1>9. QED
    BY <1>3, <1>5, <1>7, <1>8 DEF p

\* The shares of parts of one whole add up to that of the parts together, but
\* for half a percent each.
LEMMA SharesTogether ==
    ASSUME NEW whole \in Nat, NEW R, IsFiniteSet(R), NEW parts, NEW share,
           \A r \in R : /\ parts[r] \in Nat /\ share[r] \in Nat
                        /\ 2 * (whole * share[r]) <= 200 * parts[r] + whole
                        /\ 200 * parts[r] <= 2 * (whole * share[r]) + whole
    PROVE  /\ SumOver(parts, R) \in Nat /\ SumOver(share, R) \in Nat
           /\ 2 * (whole * SumOver(share, R))
                  <= 200 * SumOver(parts, R) + whole * Cardinality(R)
           /\ 200 * SumOver(parts, R)
                  <= 2 * (whole * SumOver(share, R)) + whole * Cardinality(R)
  <1> DEFINE S(T) == SumOver(share, T)
             P(T) == SumOver(parts, T)
             G == {T \in SUBSET R :
                     /\ 2 * (whole * S(T)) <= 200 * P(T) + whole * Cardinality(T)
                     /\ 200 * P(T) <= 2 * (whole * S(T)) + whole * Cardinality(T)}
  <1>0. ASSUME NEW T \in SUBSET R
        PROVE  /\ S(T) \in Nat /\ P(T) \in Nat /\ IsFiniteSet(T) /\ Cardinality(T) \in Nat
    <2>1. IsFiniteSet(T) /\ \A r \in T : parts[r] \in Nat /\ share[r] \in Nat
      BY FS_Subset
    <2>2. QED
      BY <2>1, SumNat, FS_CardinalityType
  <1>1. {} \in G
    BY SumEmpty, FS_EmptySet
  <1>2. ASSUME NEW T \in SUBSET R, NEW r \in R, r \in T, T \ {r} \in G
        PROVE  T \in G
    <2>1. /\ IsFiniteSet(T) /\ \A y \in T : parts[y] \in Int /\ share[y] \in Int
      BY <1>0
    <2>2. /\ S(T) = share[r] + S(T \ {r}) /\ P(T) = parts[r] + P(T \ {r})
      BY <1>2, <2>1, SumTake
    <2>3. Cardinality(T \ {r}) = Cardinality(T) - 1
      BY <1>2, <2>1, FS_RemoveElement
    <2>4. /\ 2 * (whole * S(T \ {r})) <= 200 * P(T \ {r}) + whole * Cardinality(T \ {r})
          /\ 200 * P(T \ {r}) <= 2 * (whole * S(T \ {r})) + whole * Cardinality(T \ {r})
      BY <1>2
    <2> DEFINE s == S(T \ {r})
               p == P(T \ {r})
               c == Cardinality(T \ {r})
               sr == share[r]
               pr == parts[r]
    <2>5. s \in Nat /\ p \in Nat /\ c \in Nat /\ sr \in Nat /\ pr \in Nat
      BY <1>0, <1>2
    <2>6. S(T) = sr + s /\ P(T) = pr + p /\ Cardinality(T) = c + 1
      BY <1>0, <2>2, <2>3
    <2>7. /\ 2 * (whole * s) <= 200 * p + whole * c
          /\ 200 * p <= 2 * (whole * s) + whole * c
          /\ 2 * (whole * sr) <= 200 * pr + whole
          /\ 200 * pr <= 2 * (whole * sr) + whole
      BY <2>4
    <2> HIDE DEF s, p, c, sr, pr, S, P
    <2>8. /\ whole * (sr + s) = whole * sr + whole * s
          /\ whole * (c + 1) = whole * c + whole
          /\ whole * sr \in Nat /\ whole * s \in Nat /\ whole * c \in Nat
      BY <2>5
    <2>9. /\ 2 * (whole * (sr + s)) <= 200 * (pr + p) + whole * (c + 1)
          /\ 200 * (pr + p) <= 2 * (whole * (sr + s)) + whole * (c + 1)
      BY <2>5, <2>7, <2>8
    <2>10. QED
      BY <2>6, <2>9
  <1>3. R \in G
    <2> HIDE DEF G
    <2>1. QED
      BY <1>1, <1>2, BySubsets
  <1>4. QED
    BY <1>0, <1>3

\* What is counted by what it is labelled with is counted once.
Labelled(D, o, T) == {d \in D : o[d] \in T}

LEMMA CountedOnce ==
    ASSUME NEW D, IsFiniteSet(D), NEW o, NEW R, IsFiniteSet(R),
           NEW parts, \A r \in R : parts[r] = Cardinality(Labelled(D, o, {r}))
    PROVE  SumOver(parts, R) = Cardinality(Labelled(D, o, R))
  <1> DEFINE G == {T \in SUBSET R : SumOver(parts, T) = Cardinality(Labelled(D, o, T))}
  <1>0. ASSUME NEW T
        PROVE  IsFiniteSet(Labelled(D, o, T)) /\ Cardinality(Labelled(D, o, T)) \in Nat
    <2>1. Labelled(D, o, T) \subseteq D
      BY DEF Labelled
    <2>2. QED
      BY <2>1, FS_Subset, FS_CardinalityType
  <1>1. {} \in G
    <2>1. Labelled(D, o, {}) = {}
      BY DEF Labelled
    <2>2. QED
      BY <2>1, SumEmpty, FS_EmptySet
  <1>2. ASSUME NEW T \in SUBSET R, NEW r \in R, r \in T, T \ {r} \in G
        PROVE  T \in G
    <2>0. \A y \in R : parts[y] \in Int
      <3>1. TAKE y \in R
      <3>2. Cardinality(Labelled(D, o, {y})) \in Nat
        BY <1>0
      <3>3. QED
        BY <3>2
    <2>1. IsFiniteSet(T) /\ \A y \in T : parts[y] \in Int
      BY <2>0, FS_Subset
    <2>2. SumOver(parts, T) = parts[r] + SumOver(parts, T \ {r})
      BY <1>2, <2>1, SumTake
    <2>3. /\ Labelled(D, o, T) = Labelled(D, o, {r}) \union Labelled(D, o, T \ {r})
          /\ Labelled(D, o, {r}) \cap Labelled(D, o, T \ {r}) = {}
      BY <1>2 DEF Labelled
    <2> DEFINE A == Labelled(D, o, {r})
               B == Labelled(D, o, T \ {r})
    <2>4. Cardinality(Labelled(D, o, T)) = Cardinality(A) + Cardinality(B)
      <3>1. /\ Labelled(D, o, T) = A \union B /\ A \cap B = {}
            /\ IsFiniteSet(A) /\ IsFiniteSet(B)
            /\ Cardinality(A) \in Nat /\ Cardinality(B) \in Nat
        BY <1>0, <2>3
      <3> HIDE DEF A, B
      <3>2. Cardinality(A \union B) = Cardinality(A) + Cardinality(B) - Cardinality(A \cap B)
        BY <3>1, FS_Union
      <3>3. Cardinality(A \cap B) = 0
        BY <3>1, FS_EmptySet, Zenon
      <3>4. Cardinality(A \union B) = Cardinality(A) + Cardinality(B)
        BY <3>1, <3>2, <3>3
      <3>5. QED
        BY <3>1, <3>4, Zenon
    <2>5. QED
      BY <1>2, <2>2, <2>4
  <1>3. R \in G
    <2> HIDE DEF G
    <2>1. QED
      BY <1>1, <1>2, BySubsets
  <1>4. QED
    BY <1>3

-----------------------------------------------------------------------------
(* Sums of documents *)

LEMMA PaidStatus ==
    ASSUME NEW doc \in Doc
    PROVE  /\ PaymentStatus(doc) \in PaymentStatuses
           /\ PaymentStatus(doc) \notin {"unpaid", "partially"} => doc.total = doc.credit
  BY DEF PaymentStatus, PaymentStatuses, Doc

LEMMA DocumentSums ==
    ASSUME SummariesTypeOK, Sound
    PROVE  /\ TotalOf(Live) \in Nat /\ DueOf(Live) \in Nat
           /\ TotalOf(Live) - DueOf(Live) = CreditOf(Live)
  <1> DEFINE f == [d \in Slots |-> docs[d].total]
             g == [d \in Slots |-> docs[d].credit]
             h == [d \in Slots |-> docs[d].total - docs[d].credit]
  <1>1. ASSUME NEW d \in Slots
        PROVE  /\ f[d] \in Nat /\ g[d] \in Nat /\ h[d] \in Nat /\ f[d] = h[d] + g[d]
               /\ d \notin Unsettled => h[d] = 0
    <2>1. docs[d] \in Doc /\ docs[d].credit <= docs[d].total
      BY DEF SummariesTypeOK, Sound
    <2>2. docs[d].credit \in Nat /\ docs[d].total \in Nat
      BY <2>1 DEF Doc
    <2>3. d \notin Unsettled => docs[d].total = docs[d].credit
      BY <2>1, PaidStatus DEF Unsettled
    <2>4. QED
      BY <2>1, <2>2, <2>3
  <1>2. /\ Live \subseteq Slots /\ IsFiniteSet(Live)
        /\ Live \cap Unsettled \subseteq Slots /\ IsFiniteSet(Live \cap Unsettled)
    <2>1. Live \subseteq Slots /\ Live \cap Unsettled \subseteq Slots
      BY DEF Live
    <2>2. QED
      BY <2>1, FS_Subset, SummariesAssumption
  <1>3. /\ TotalOf(Live) = SumOver(f, Live) /\ CreditOf(Live) = SumOver(g, Live)
        /\ DueOf(Live) = SumOver(h, Live \cap Unsettled)
    BY DEF TotalOf, CreditOf, DueOf
  <1> HIDE DEF f, g, h
  <1>4. Whole(f, Live) /\ Whole(g, Live) /\ Whole(h, Live)
    BY <1>1, <1>2 DEF Whole
  <1>5. SumOver(f, Live) \in Nat /\ SumOver(h, Live \cap Unsettled) \in Nat
    BY <1>1, <1>2, SumNat
  <1>6. SumOver(h, Live) = SumOver(h, Live \cap Unsettled)
    BY <1>1, <1>2, <1>4, SumPart
  <1>7. SumOver(f, Live) = SumOver(h, Live) + SumOver(g, Live)
    BY <1>1, <1>2, <1>4, SumPlus
  <1>8. SumOver(g, Live) \in Int
    BY <1>2, <1>4, SumInt
  <1>9. QED
    BY <1>3, <1>5, <1>6, <1>7, <1>8

LEMMA ZeroSum ==
    ASSUME NEW R, IsFiniteSet(R), NEW f, \A r \in R : f[r] = 0
    PROVE  SumOver(f, R) = 0
  <1>1. Whole(f, R) /\ R \cap {} = {}
    BY DEF Whole
  <1>2. SumOver(f, R) = SumOver(f, R \cap {})
    BY <1>1, SumPart
  <1>3. QED
    BY <1>1, <1>2, SumEmpty

-----------------------------------------------------------------------------
(* Shares *)

LEMMA RowsFacts ==
    /\ IsFiniteSet(PaymentStatuses) /\ Cardinality(PaymentStatuses) = 3
    /\ IsFiniteSet(QuoteRows) /\ Cardinality(QuoteRows) \in Nat
    /\ PaymentStatuses \subseteq Rows /\ QuoteRows \subseteq Rows
    /\ {"active", "new"} \subseteq Rows
  <1>1. IsFiniteSet({"unpaid"}) /\ Cardinality({"unpaid"}) = 1
    BY FS_Singleton
  <1>2. /\ IsFiniteSet({"unpaid"} \union {"partially"})
        /\ Cardinality({"unpaid"} \union {"partially"}) = 2
    BY <1>1, FS_AddElement
  <1>3. /\ IsFiniteSet(({"unpaid"} \union {"partially"}) \union {"paid"})
        /\ Cardinality(({"unpaid"} \union {"partially"}) \union {"paid"}) = 3
    BY <1>2, FS_AddElement
  <1>4. PaymentStatuses = ({"unpaid"} \union {"partially"}) \union {"paid"}
    BY DEF PaymentStatuses
  <1>5. IsFiniteSet(QuoteRows)
    <2>1. IsFiniteSet({})
      BY FS_EmptySet
    <2>2. \A S, x : IsFiniteSet(S) => IsFiniteSet(S \union {x})
      BY FS_AddElement
    <2>3. IsFiniteSet((((((({} \union {"draft"}) \union {"pending"}) \union {"sent"})
                         \union {"accepted"}) \union {"declined"}) \union {"expired"}))
      BY <2>1, <2>2
    <2>4. QuoteRows = (((((({} \union {"draft"}) \union {"pending"}) \union {"sent"})
                         \union {"accepted"}) \union {"declined"}) \union {"expired"})
      BY DEF QuoteRows
    <2>5. QED
      BY <2>3, <2>4
  <1>6. Cardinality(QuoteRows) \in Nat
    BY <1>5, FS_CardinalityType
  <1>7. QED
    BY <1>3, <1>4, <1>5, <1>6 DEF Rows, InvoiceRows

LEMMA ShareFacts ==
    ASSUME NEW D \in SUBSET Live
    PROVE  /\ Share(D) \in Nat /\ Share(D) <= 100
           /\ Live # {} =>
                  /\ Cardinality(D) \in Nat
                  /\ 2 * (Cardinality(Live) * Share(D))
                         <= 200 * Cardinality(D) + Cardinality(Live)
                  /\ 200 * Cardinality(D)
                         <= 2 * (Cardinality(Live) * Share(D)) + Cardinality(Live)
           /\ Live = {} => Share(D) = 0
  <1>1. IsFiniteSet(Live)
    <2>1. Live \subseteq Slots
      BY DEF Live
    <2>2. QED
      BY <2>1, FS_Subset, SummariesAssumption
  <1>2. /\ Cardinality(D) \in Nat /\ Cardinality(Live) \in Nat
        /\ Cardinality(D) <= Cardinality(Live)
        /\ Live # {} => Cardinality(Live) > 0
    BY <1>1, FS_Subset, FS_CardinalityType, FS_EmptySet
  <1>3. CASE Live = {}
    BY <1>3 DEF Share
  <1>4. CASE Live # {}
    BY <1>2, <1>4, PercentFacts DEF Share
  <1>5. QED
    BY <1>3, <1>4

\* The documents are told apart by a status each, and those of the statuses in
\* R have their share in shares.
LEMMA SharesOf ==
    ASSUME NEW R, IsFiniteSet(R), NEW o, NEW shares, Live # {},
           \A r \in R : shares[r] = Share(Labelled(Live, o, {r}))
    PROVE  /\ SumOver(shares, R) \in Nat
           /\ SumOver(shares, R) <= 100 + Cardinality(R) \div 2
           /\ (\A d \in Live : o[d] \in R) => 200 <= 2 * SumOver(shares, R) + Cardinality(R)
  <1> DEFINE N == Cardinality(Live)
             parts == [r \in R |-> Cardinality(Labelled(Live, o, {r}))]
             s == SumOver(shares, R)
             c == Cardinality(R)
  <1>1. IsFiniteSet(Live) /\ N \in Nat /\ N > 0 /\ c \in Nat
    <2>1. Live \subseteq Slots
      BY DEF Live
    <2>2. IsFiniteSet(Live)
      BY <2>1, FS_Subset, SummariesAssumption
    <2>3. QED
      BY <2>2, FS_CardinalityType, FS_EmptySet
  <1>2. ASSUME NEW r \in R
        PROVE  /\ parts[r] \in Nat /\ shares[r] \in Nat
               /\ 2 * (N * shares[r]) <= 200 * parts[r] + N
               /\ 200 * parts[r] <= 2 * (N * shares[r]) + N
    <2>1. Labelled(Live, o, {r}) \in SUBSET Live
      BY DEF Labelled
    <2>2. shares[r] = Share(Labelled(Live, o, {r}))
      OBVIOUS
    <2>3. QED
      BY <2>1, <2>2, ShareFacts
  <1>3. SumOver(parts, R) = Cardinality(Labelled(Live, o, R))
    BY <1>1, CountedOnce
  <1>4. /\ Labelled(Live, o, R) \subseteq Live
        /\ Cardinality(Labelled(Live, o, R)) \in Nat
        /\ Cardinality(Labelled(Live, o, R)) <= N
        /\ (\A d \in Live : o[d] \in R) => Cardinality(Labelled(Live, o, R)) = N
    <2>1. Labelled(Live, o, R) \subseteq Live
      BY DEF Labelled
    <2>2. (\A d \in Live : o[d] \in R) => Labelled(Live, o, R) = Live
      BY DEF Labelled
    <2>3. QED
      BY <1>1, <2>1, <2>2, FS_Subset, FS_CardinalityType
  <1> DEFINE p == SumOver(parts, R)
  <1> HIDE DEF N, parts
  <1>5. /\ p \in Nat /\ s \in Nat
        /\ 2 * (N * s) <= 200 * p + N * c /\ 200 * p <= 2 * (N * s) + N * c
    BY <1>1, <1>2, SharesTogether
  <1>6. p <= N /\ ((\A d \in Live : o[d] \in R) => p = N)
    BY <1>3, <1>4
  <1> HIDE DEF p, s, c
  <1>7. 2 * s <= 200 + c
    <2>1. SUFFICES ASSUME 2 * s >= 201 + c PROVE FALSE
      BY <1>1, <1>5
    <2>2. N * (2 * s) >= N * (201 + c)
      BY <1>1, <1>5, <2>1
    <2>3. N * (2 * s) = 2 * (N * s) /\ N * (201 + c) = 201 * N + N * c
      BY <1>1, <1>5
    <2>4. N * s \in Nat /\ N * c \in Nat
      BY <1>1, <1>5
    <2>5. QED
      BY <1>1, <1>5, <1>6, <2>2, <2>3, <2>4
  <1>8. ASSUME p = N PROVE 200 <= 2 * s + c
    <2>1. SUFFICES ASSUME 2 * s + c <= 199 PROVE FALSE
      BY <1>1, <1>5
    <2>2. N * (2 * s + c) <= N * 199
      BY <1>1, <1>5, <2>1
    <2>3. N * (2 * s + c) = 2 * (N * s) + N * c /\ N * 199 = 199 * N
      BY <1>1, <1>5
    <2>4. N * s \in Nat /\ N * c \in Nat
      BY <1>1, <1>5
    <2>5. QED
      BY <1>1, <1>5, <1>8, <2>2, <2>3, <2>4
  <1>9. s <= 100 + c \div 2
    BY <1>1, <1>5, <1>7
  <1>10. QED
    BY <1>5, <1>6, <1>8, <1>9 DEF s, c

\* Every row of the three kinds of card has a share, and what a card shows fits.
LEMMA InvoiceSharesFit ==
    ASSUME NEW group, NEW shares, shares = InvoiceShares(group)
    PROVE  /\ shares \in [Rows -> Nat]
           /\ \A r \in InvoiceRows : shares[r] <= 100
  <1>1. \A r \in Rows : /\ InvoiceShares(group)[r] \in Nat
                        /\ InvoiceShares(group)[r] <= 100
    <2>1. TAKE r \in Rows
    <2> DEFINE A == {d \in Live : PaymentStatus(docs[d]) = r}
               B == {d \in Live : docs[d].status = r}
               C == {d \in Live : docs[d].late /\ docs[d].status = group}
    <2>2. A \in SUBSET Live /\ B \in SUBSET Live /\ C \in SUBSET Live
      OBVIOUS
    <2>3. /\ Share(A) \in Nat /\ Share(A) <= 100
          /\ Share(B) \in Nat /\ Share(B) <= 100
          /\ Share(C) \in Nat /\ Share(C) <= 100
      <3> HIDE DEF A, B, C
      <3>1. QED
        BY <2>2, ShareFacts
    <2>4. InvoiceShares(group)[r] =
              CASE r \in PaymentStatuses -> Share(A)
                [] r \in {"draft", "pending"} -> Share(B)
                [] r = "overdue" -> Share(C)
                [] OTHER -> 0
      BY DEF InvoiceShares
    <2> HIDE DEF A, B, C
    <2>5. QED
      BY <2>3, <2>4
  <1>2. InvoiceShares(group) = [r \in Rows |-> InvoiceShares(group)[r]]
    BY DEF InvoiceShares
  <1>3. InvoiceRows \subseteq Rows
    BY DEF Rows
  <1>4. QED
    BY <1>1, <1>2, <1>3

LEMMA QuoteSharesTyped == QuoteShares \in [Rows -> Nat]
  <1>1. \A r \in Rows : QuoteShares[r] \in Nat
    <2>1. TAKE r \in Rows
    <2>2. {d \in Live : docs[d].status = r} \in SUBSET Live
      OBVIOUS
    <2>3. Share({d \in Live : docs[d].status = r}) \in Nat
      BY <2>2, ShareFacts
    <2>4. QED
      BY <2>3 DEF QuoteShares
  <1>2. QuoteShares = [r \in Rows |-> QuoteShares[r]]
    BY DEF QuoteShares
  <1>3. QED
    BY <1>1, <1>2

LEMMA PaymentSharesFit ==
    ASSUME SummariesTypeOK, NEW group, NEW shares, shares = InvoiceShares(group), Live # {}
    PROVE  SumOver(shares, PaymentStatuses) \in 99 .. 101
  <1> DEFINE o == [d \in Slots |-> PaymentStatus(docs[d])]
  <1>1. ASSUME NEW r \in PaymentStatuses
        PROVE  shares[r] = Share(Labelled(Live, o, {r}))
    <2>1. shares[r] = Share({d \in Live : PaymentStatus(docs[d]) = r})
      <3> DEFINE A == {d \in Live : PaymentStatus(docs[d]) = r}
                 B == {d \in Live : docs[d].status = r}
                 C == {d \in Live : docs[d].late /\ docs[d].status = group}
      <3>1. r \in Rows
        BY RowsFacts
      <3>2. InvoiceShares(group)[r] =
                CASE r \in PaymentStatuses -> Share(A)
                  [] r \in {"draft", "pending"} -> Share(B)
                  [] r = "overdue" -> Share(C)
                  [] OTHER -> 0
        BY <3>1 DEF InvoiceShares
      <3>3. r \notin {"draft", "pending"} /\ r # "overdue"
        BY DEF PaymentStatuses
      <3> HIDE DEF A, B, C
      <3>4. QED
        BY <3>2, <3>3 DEF A
    <2>2. {d \in Live : PaymentStatus(docs[d]) = r} = Labelled(Live, o, {r})
      BY DEF Labelled, Live
    <2>3. QED
      BY <2>1, <2>2
  <1>2. \A d \in Live : o[d] \in PaymentStatuses
    BY PaidStatus DEF SummariesTypeOK, Live
  <1> HIDE DEF o
  <1>3. /\ SumOver(shares, PaymentStatuses) \in Nat
        /\ SumOver(shares, PaymentStatuses) <= 100 + Cardinality(PaymentStatuses) \div 2
        /\ 200 <= 2 * SumOver(shares, PaymentStatuses) + Cardinality(PaymentStatuses)
    BY <1>1, <1>2, RowsFacts, SharesOf
  <1>4. Cardinality(PaymentStatuses) = 3
    BY RowsFacts
  <1> DEFINE s == SumOver(shares, PaymentStatuses)
  <1>5. s \in Nat /\ s <= 100 + 3 \div 2 /\ 200 <= 2 * s + 3
    BY <1>3, <1>4
  <1> HIDE DEF s
  <1>6. s \in 99 .. 101
    BY <1>5
  <1>7. QED
    BY <1>6 DEF s

LEMMA QuoteSharesFit ==
    ASSUME NEW shares, shares = QuoteShares
    PROVE  SumOver(shares, QuoteRows) <= 100 + Cardinality(QuoteRows) \div 2
  <1> DEFINE o == [d \in Slots |-> docs[d].status]
  <1>1. ASSUME NEW r \in QuoteRows
        PROVE  /\ shares[r] = Share({d \in Live : docs[d].status = r})
               /\ {d \in Live : docs[d].status = r} = Labelled(Live, o, {r})
    <2>1. shares[r] = Share({d \in Live : docs[d].status = r})
      BY RowsFacts DEF QuoteShares
    <2>2. {d \in Live : docs[d].status = r} = Labelled(Live, o, {r})
      BY DEF Labelled, Live
    <2>3. QED
      BY <2>1, <2>2
  <1>2. \A r \in QuoteRows : shares[r] = Share(Labelled(Live, o, {r}))
    BY <1>1
  <1> HIDE DEF o
  <1>3. CASE Live # {}
    BY <1>2, <1>3, RowsFacts, SharesOf
  <1>4. CASE Live = {}
    <2>1. \A r \in QuoteRows : shares[r] = 0
      BY <1>1, <1>4 DEF Share
    <2>2. SumOver(shares, QuoteRows) = 0
      BY <2>1, RowsFacts, ZeroSum
    <2>3. QED
      BY <2>2, RowsFacts
  <1>5. QED
    BY <1>3, <1>4

LEMMA ClientSharesFit ==
    ASSUME SummariesTypeOK, NEW shares, shares = ClientShares
    PROVE  /\ shares \in [Rows -> Nat]
           /\ Active \subseteq Good => shares["active"] <= 100
           /\ shares["new"] <= 100
  <1> DEFINE new == {c \in Good : customers[c] = "new"}
  <1>1. /\ IsFiniteSet(Good) /\ Cardinality(Good) \in Nat
        /\ Good # {} => Cardinality(Good) > 0
    <2>1. Good \subseteq Customers
      BY DEF Good
    <2>2. IsFiniteSet(Good)
      BY <2>1, FS_Subset, SummariesAssumption
    <2>3. QED
      BY <2>2, FS_CardinalityType, FS_EmptySet
  <1>2. Cardinality(Active) \in Nat
    <2>1. Active \subseteq Customers
      BY DEF Active, Live, SummariesTypeOK, Doc
    <2>2. QED
      BY <2>1, FS_Subset, FS_CardinalityType, SummariesAssumption
  <1>3. Active \subseteq Good => Cardinality(Active) <= Cardinality(Good)
    BY <1>1, FS_Subset
  <1>4. Cardinality(new) \in Nat /\ Cardinality(new) <= Cardinality(Good)
    <2>1. new \subseteq Good
      OBVIOUS
    <2>2. QED
      BY <1>1, <2>1, FS_Subset, FS_CardinalityType
  <1> DEFINE a == IF Good = {} THEN 0 ELSE Percent(Cardinality(Active), Cardinality(Good))
             n == IF Good = {} THEN 0 ELSE Percent(Cardinality(new), Cardinality(Good))
  <1>5. a \in Nat /\ (Active \subseteq Good => a <= 100)
    <2> DEFINE g == Cardinality(Good)
               p == Cardinality(Active)
    <2>1. /\ p \in Nat /\ g \in Nat /\ (Good # {} => g > 0)
          /\ Active \subseteq Good => p <= g
      BY <1>1, <1>2, <1>3
    <2> HIDE DEF g, p
    <2>2. Good # {} => /\ Percent(p, g) \in Nat
                       /\ Active \subseteq Good => Percent(p, g) <= 100
      BY <2>1, PercentFacts
    <2>3. QED
      BY <2>2 DEF g, p
  <1>6. n \in Nat /\ n <= 100
    <2> DEFINE g == Cardinality(Good)
               p == Cardinality(new)
    <2>1. p \in Nat /\ g \in Nat /\ p <= g /\ (Good # {} => g > 0)
      BY <1>1, <1>4
    <2> HIDE DEF g, p
    <2>2. Good # {} => Percent(p, g) \in Nat /\ Percent(p, g) <= 100
      BY <2>1, PercentFacts
    <2>3. QED
      BY <2>2 DEF g, p
  <1>7. ClientShares = [[NoShares EXCEPT !["active"] = a] EXCEPT !["new"] = n]
    BY DEF ClientShares
  <1> HIDE DEF a, n
  <1>8. NoShares \in [Rows -> Nat]
    BY DEF NoShares
  <1>9. /\ ClientShares \in [Rows -> Nat]
        /\ ClientShares["active"] = a /\ ClientShares["new"] = n
    BY <1>5, <1>6, <1>7, <1>8, RowsFacts
  <1>10. QED
    BY <1>5, <1>6, <1>9

-----------------------------------------------------------------------------
(* The steps *)

LEMMA NoDocTyped == NoDoc \in Doc /\ NoDoc.credit <= NoDoc.total
  <1>1. /\ (CHOOSE s \in StatusesInUse : TRUE) \in StatusesInUse
        /\ (CHOOSE c \in Customers : TRUE) \in Customers
    BY SummariesAssumption
  <1> DEFINE s0 == CHOOSE s \in StatusesInUse : TRUE
             c0 == CHOOSE c \in Customers : TRUE
  <1>2. NoDoc = [live |-> FALSE, total |-> 0, credit |-> 0, status |-> s0,
                 late |-> FALSE, client |-> c0]
    BY DEF NoDoc
  <1>3. s0 \in StatusesInUse /\ c0 \in Customers
    BY <1>1
  <1> HIDE DEF s0, c0
  <1>4. QED
    BY <1>2, <1>3 DEF Doc

LEMMA PutTyped ==
    ASSUME SummariesTypeOK, Sound, NEW d \in Slots, NEW doc \in Puts(d)
    PROVE  doc \in Doc /\ doc.credit <= doc.total
  <1>1. NoDoc.status \in StatusesInUse /\ NoDoc.client \in Customers
    BY NoDocTyped DEF Doc
  <1>2. CASE doc = [docs[d] EXCEPT !.live = FALSE]
    BY <1>2 DEF SummariesTypeOK, Sound, Doc
  <1>3. CASE doc # [docs[d] EXCEPT !.live = FALSE]
    <2> DEFINE Paid(t) == IF card.kind = "invoice" THEN 0 .. t ELSE {0}
               Of == IF card.kind = "client" THEN {NoDoc.status} ELSE StatusesInUse
               Late == IF card.kind = "invoice" THEN BOOLEAN ELSE {FALSE}
               Whose == IF card.kind = "client" THEN Customers ELSE {NoDoc.client}
               With(t) == [live : {TRUE}, total : {t}, credit : Paid(t), status : Of,
                           late : Late, client : Whose]
    <2>1. doc \in UNION {With(t) : t \in Amounts}
      <3>1. Puts(d) = (UNION {With(t) : t \in Amounts}) \union {[docs[d] EXCEPT !.live = FALSE]}
        BY Zenon DEF Puts
      <3> HIDE DEF With
      <3>2. QED
        BY <1>3, <3>1
    <2>2. PICK t \in Amounts : doc \in With(t)
      <3> HIDE DEF With
      <3>1. QED
        BY <2>1
    <2>3. t \in Nat
      BY SummariesAssumption
    <2>4. Paid(t) \subseteq 0 .. t /\ Of \subseteq StatusesInUse /\ Whose \subseteq Customers
      BY <1>1, <2>3
    <2>5. Late \subseteq BOOLEAN
      BY Zenon
    <2>6. /\ doc = [live |-> doc.live, total |-> doc.total, credit |-> doc.credit,
                    status |-> doc.status, late |-> doc.late, client |-> doc.client]
          /\ doc.live \in {TRUE} /\ doc.total \in {t} /\ doc.credit \in Paid(t)
          /\ doc.status \in Of /\ doc.late \in Late /\ doc.client \in Whose
      <3> HIDE DEF Paid, Of, Late, Whose
      <3>1. QED
        BY <2>2, Zenon
    <2>7. doc.live \in BOOLEAN /\ doc.late \in BOOLEAN
      <3> HIDE DEF Late
      <3>1. QED
        BY <2>5, <2>6, Zenon
    <2>8. /\ doc.total \in Nat /\ doc.credit \in Nat /\ doc.credit <= doc.total
          /\ doc.status \in StatusesInUse /\ doc.client \in Customers
      <3> HIDE DEF Paid, Of, Late, Whose
      <3>1. QED
        BY <2>3, <2>4, <2>6
    <2>9. doc \in Doc
      BY <2>6, <2>7, <2>8, Zenon DEF Doc
    <2>10. QED
      BY <2>8, <2>9
  <1>4. QED
    BY <1>2, <1>3

LEMMA FreshCardTyped ==
    ASSUME NEW kind \in {"invoice", "quote", "client"}
    PROVE  /\ FreshCard(kind) \in Card
           /\ FreshCard(kind).kind = kind /\ FreshCard(kind).pc = "unasked"
           /\ FreshCard(kind).total = 0 /\ FreshCard(kind).shares = NoShares
  BY DEF FreshCard, NoShares, Card

LEMMA NoSharesFit ==
    /\ SumOver(NoShares, QuoteRows) <= 100 + Cardinality(QuoteRows) \div 2
    /\ NoShares["active"] <= 100 /\ NoShares["new"] <= 100
  <1>1. /\ \A r \in QuoteRows : NoShares[r] = 0
        /\ NoShares["active"] = 0 /\ NoShares["new"] = 0
    BY RowsFacts DEF NoShares
  <1>2. SumOver(NoShares, QuoteRows) = 0
    BY <1>1, RowsFacts, ZeroSum
  <1>3. QED
    BY <1>1, <1>2, RowsFacts

\* A card that is made anew, or one that nothing was answered to, shows zeroes.
LEMMA ZeroesFit ==
    ASSUME card'.shares = NoShares, card'.total = 0, card'.pc \in {"unasked", "asked", "shown"}
    PROVE  Agreeing' /\ SharesFit'
  <1>1. ~Counting' /\ ~Answering'
    BY DEF Counting, Answering
  <1>2. Agreeing'
    BY <1>1 DEF Agreeing
  <1>3. /\ ShareOf(QuoteRows)' <= 100 + Cardinality(QuoteRows) \div 2
        /\ card'.shares["active"] <= 100 /\ card'.shares["new"] <= 100
    BY NoSharesFit DEF ShareOf
  <1>4. SharesFit'
    BY <1>1, <1>3 DEF SharesFit
  <1>5. QED
    BY <1>2, <1>4

\* The shares stay, and the card does not come to be counted or answered.
LEMMA SharesStay ==
    ASSUME SharesFit, card'.shares = card.shares, card'.kind = card.kind,
           card'.stray = card.stray,
           (Counting' /\ card'.total > 0) \/ Answering'
               => (Counting /\ card.total > 0) \/ Answering
    PROVE  SharesFit'
  <1>1. \A R : ShareOf(R)' = ShareOf(R)
    BY DEF ShareOf
  <1>2. (Counting' /\ card'.total > 0) \/ Answering'
        => /\ ShareOf(PaymentStatuses) \in 99 .. 101
           /\ \A r \in InvoiceRows : card.shares[r] <= 100
    BY DEF SharesFit
  <1>3. card.kind = "quote"
        => ShareOf(QuoteRows) <= 100 + Cardinality(QuoteRows) \div 2
    BY DEF SharesFit
  <1>4. card.kind = "client" /\ ~card.stray
        => card.shares["active"] <= 100 /\ card.shares["new"] <= 100
    BY DEF SharesFit
  <1>5. QED
    BY <1>1, <1>2, <1>3, <1>4 DEF SharesFit

LEMMA CardHolds ==
    ASSUME SummariesTypeOK
    PROVE  /\ card.kind \in {"invoice", "quote", "client"} /\ card.total \in Nat
           /\ card.due \in Nat /\ card.shares \in [Rows -> Nat]
           /\ card.pc \in {"unasked", "asked", "counted", "answered", "shown"}
  BY DEF SummariesTypeOK, Card

\* The sums of the documents stay with the documents.
LEMMA SumsStay ==
    ASSUME UNCHANGED docs
    PROVE  TotalOf(Live)' = TotalOf(Live) /\ CreditOf(Live)' = CreditOf(Live)
  <1>1. Live' = Live
    BY DEF Live
  <1>2. QED
    BY <1>1 DEF TotalOf, CreditOf

LEMMA StepAsk ==
    ASSUME SummariesInv, AskSummary
    PROVE  SummariesInv'
  <1> USE DEF SummariesInv
  <1>1. /\ card.pc = "unasked" /\ UNCHANGED <<docs, customers>>
        /\ card' = [card EXCEPT !.pc = "asked", !.again = (card.kind = "client")]
    BY DEF AskSummary
  <1>2. SummariesTypeOK'
    BY <1>1 DEF SummariesTypeOK, Card
  <1>3. /\ card'.pc = "asked" /\ card'.kind = card.kind /\ card'.shares = card.shares
        /\ card'.total = card.total
    BY <1>1, CardHolds DEF SummariesTypeOK, Card
  <1>4. card'.stray = card.stray
    BY <1>1, Zenon DEF SummariesTypeOK, Card
  <1>5. ~Counting' /\ ~Answering'
    BY <1>3 DEF Counting, Answering
  <1>6. SharesFit'
    BY <1>3, <1>4, <1>5, SharesStay
  <1>7. Sound' /\ Agreeing'
    BY <1>1, <1>5 DEF Sound, Agreeing
  <1>8. QED
    BY <1>2, <1>6, <1>7

LEMMA StepCount ==
    ASSUME SummariesInv, Count
    PROVE  SummariesInv'
  <1> USE DEF SummariesInv
  <1> DEFINE pcOf == IF card.kind = "invoice" THEN "counted" ELSE "answered"
             totalOf == IF card.kind = "client" THEN 0 ELSE TotalOf(Live)
             sharesOf(group) == CASE card.kind = "invoice" -> InvoiceShares(group)
                                  [] card.kind = "quote" -> QuoteShares
                                  [] OTHER -> ClientShares
             strayOf == ~(Active \subseteq Good)
  <1>1. PICK group \in StatusesInUse :
            card' = [card EXCEPT !.pc = pcOf, !.total = totalOf, !.shares = sharesOf(group),
                                 !.changed = FALSE, !.stray = strayOf]
    BY Zenon DEF Count
  <1> DEFINE sh == sharesOf(group)
  <1>2. UNCHANGED <<docs, customers>>
    BY DEF Count
  <1>3. TotalOf(Live) \in Nat
    BY DocumentSums
  <1>4. pcOf \in {"counted", "answered"} /\ totalOf \in Nat
    BY <1>3
  <1>5. strayOf \in BOOLEAN
    OBVIOUS
  <1>6. sh \in [Rows -> Nat]
    <2>1. CASE card.kind = "invoice"
      BY <2>1, InvoiceSharesFit
    <2>2. CASE card.kind = "quote"
      BY <2>2, QuoteSharesTyped
    <2>3. CASE card.kind = "client"
      BY <2>3, ClientSharesFit
    <2>4. QED
      BY <2>1, <2>2, <2>3, CardHolds
  <1>7. /\ card.kind = "invoice" => sh = InvoiceShares(group)
        /\ card.kind = "quote" => sh = QuoteShares
        /\ card.kind = "client" => sh = ClientShares
    OBVIOUS
  <1>8. /\ card' \in Card /\ card'.kind = card.kind /\ card'.pc = pcOf
        /\ card'.total = totalOf /\ card'.shares = sh
    <2> HIDE DEF pcOf, totalOf, sharesOf, strayOf
    <2>1. card' = [card EXCEPT !.pc = pcOf, !.total = totalOf, !.shares = sh,
                               !.changed = FALSE, !.stray = strayOf]
      BY <1>1
    <2>2. card \in Card
      BY DEF SummariesTypeOK
    <2> HIDE DEF sh
    <2>3. QED
      BY <1>4, <1>5, <1>6, <2>1, <2>2 DEF Card
  <1>9. card'.stray = strayOf
    BY <1>1, Zenon DEF SummariesTypeOK, Card
  <1>10. SummariesTypeOK' /\ Sound'
    BY <1>2, <1>8 DEF SummariesTypeOK, Sound
  <1>11. Agreeing'
    <2>1. Counting' => card'.total = TotalOf(Live)'
      BY <1>2, <1>8, SumsStay DEF Counting
    <2>2. ~Answering'
      BY <1>8 DEF Answering
    <2>3. QED
      BY <2>1, <2>2 DEF Agreeing
  <1>12. SharesFit'
    <2> HIDE DEF sharesOf
    <2>1. ASSUME Counting' /\ card'.total > 0
          PROVE  /\ ShareOf(PaymentStatuses)' \in 99 .. 101
                 /\ \A r \in InvoiceRows : card'.shares[r] <= 100
      <3>1. card.kind = "invoice" /\ sh = InvoiceShares(group) /\ TotalOf(Live) > 0
        BY <1>7, <1>8, <2>1 DEF Counting
      <3>2. Live # {}
        BY <3>1, SumEmpty DEF TotalOf
      <3> HIDE DEF sh
      <3>3. /\ SumOver(sh, PaymentStatuses) \in 99 .. 101
            /\ \A r \in InvoiceRows : sh[r] <= 100
        BY <3>1, <3>2, PaymentSharesFit, InvoiceSharesFit
      <3>4. QED
        BY <1>8, <3>3 DEF ShareOf
    <2>2. ~Answering'
      BY <1>8 DEF Answering
    <2> HIDE DEF sh
    <2>3. ASSUME card'.kind = "quote"
          PROVE  ShareOf(QuoteRows)' <= 100 + Cardinality(QuoteRows) \div 2
      <3>1. sh = QuoteShares
        BY <1>7, <1>8, <2>3
      <3>2. SumOver(sh, QuoteRows) <= 100 + Cardinality(QuoteRows) \div 2
        BY <3>1, QuoteSharesFit
      <3>3. QED
        BY <1>8, <3>2 DEF ShareOf
    <2>4. ASSUME card'.kind = "client", ~card'.stray
          PROVE  card'.shares["active"] <= 100 /\ card'.shares["new"] <= 100
      <3>1. sh = ClientShares
        BY <1>7, <1>8, <2>4
      <3>2. Active \subseteq Good
        BY <1>9, <2>4, Zenon
      <3>3. QED
        BY <1>8, <3>1, <3>2, ClientSharesFit
    <2>5. QED
      BY <2>1, <2>2, <2>3, <2>4 DEF SharesFit
  <1>13. QED
    BY <1>10, <1>11, <1>12

LEMMA StepCountDue ==
    ASSUME SummariesInv, CountDue
    PROVE  SummariesInv'
  <1> USE DEF SummariesInv
  <1>1. /\ card.pc = "counted" /\ UNCHANGED <<docs, customers>>
        /\ card' = [card EXCEPT !.pc = "answered", !.due = DueOf(Live)]
    BY DEF CountDue
  <1>2. /\ DueOf(Live) \in Nat /\ TotalOf(Live) - DueOf(Live) = CreditOf(Live)
    BY DocumentSums
  <1>3. SummariesTypeOK'
    BY <1>1, <1>2 DEF SummariesTypeOK, Card
  <1>4. /\ card'.pc = "answered" /\ card'.kind = card.kind /\ card'.shares = card.shares
        /\ card'.total = card.total /\ card'.due = DueOf(Live)
    BY <1>1, CardHolds DEF SummariesTypeOK, Card
  <1>5. card'.stray = card.stray /\ card'.changed = card.changed
    BY <1>1, Zenon DEF SummariesTypeOK, Card
  <1>6. ~Counting' /\ (Answering' => Counting /\ card.total > 0)
    BY <1>1, <1>4 DEF Counting, Answering
  <1>7. SharesFit'
    BY <1>4, <1>5, <1>6, SharesStay
  <1>8. Agreeing'
    <2>1. ASSUME Answering', ~card'.changed
          PROVE  card'.total - card'.due = CreditOf(Live)'
      <3>1. ~card.changed
        BY <1>5, <2>1, Zenon
      <3>2. card.total = TotalOf(Live)
        BY <1>6, <2>1, <3>1 DEF Agreeing
      <3>3. QED
        BY <1>1, <1>2, <1>4, <3>2, SumsStay
    <2>2. QED
      BY <1>6, <2>1 DEF Agreeing
  <1>9. Sound'
    BY <1>1 DEF Sound
  <1>10. QED
    BY <1>3, <1>7, <1>8, <1>9

LEMMA StepShow ==
    ASSUME SummariesInv, ShowSummary
    PROVE  SummariesInv'
  <1> USE DEF SummariesInv
  <1> DEFINE pcOf == IF card.again THEN "asked" ELSE "shown"
  <1>1. /\ card.pc = "answered" /\ UNCHANGED <<docs, customers>>
        /\ card' = [card EXCEPT !.pc = pcOf, !.again = FALSE]
    BY DEF ShowSummary
  <1>2. pcOf \in {"asked", "shown"}
    OBVIOUS
  <1> HIDE DEF pcOf
  <1>3. SummariesTypeOK'
    BY <1>1, <1>2 DEF SummariesTypeOK, Card
  <1>4. /\ card'.pc = pcOf /\ card'.kind = card.kind /\ card'.shares = card.shares
        /\ card'.total = card.total /\ card'.due = card.due
    BY <1>1, CardHolds DEF SummariesTypeOK, Card
  <1>5. card'.stray = card.stray /\ card'.changed = card.changed
    BY <1>1, Zenon DEF SummariesTypeOK, Card
  <1>6. ~Counting' /\ (Answering' => Answering)
    BY <1>1, <1>2, <1>4 DEF Counting, Answering
  <1>7. SharesFit'
    BY <1>4, <1>5, <1>6, SharesStay
  <1>8. Agreeing'
    <2>1. ASSUME Answering', ~card'.changed
          PROVE  card'.total - card'.due = CreditOf(Live)'
      <3>1. ~card.changed
        BY <1>5, <2>1, Zenon
      <3>2. card.total - card.due = CreditOf(Live)
        BY <1>6, <2>1, <3>1 DEF Agreeing
      <3>3. QED
        BY <1>1, <1>4, <3>2, SumsStay
    <2>2. QED
      BY <1>6, <2>1 DEF Agreeing
  <1>9. Sound'
    BY <1>1 DEF Sound
  <1>10. QED
    BY <1>3, <1>7, <1>8, <1>9

LEMMA StepLost ==
    ASSUME SummariesInv, SummaryLost
    PROVE  SummariesInv'
  <1> USE DEF SummariesInv
  <1> DEFINE pcOf == IF card.again THEN "asked" ELSE "shown"
             fresh == FreshCard(card.kind)
  <1>1. /\ UNCHANGED <<docs, customers>>
        /\ card' = [fresh EXCEPT !.pc = pcOf]
    BY DEF SummaryLost
  <1>2. pcOf \in {"asked", "shown"}
    OBVIOUS
  <1>3. fresh \in Card /\ fresh.total = 0 /\ fresh.shares = NoShares
    BY CardHolds, FreshCardTyped
  <1> HIDE DEF pcOf, fresh
  <1>4. card' \in Card
    BY <1>1, <1>2, <1>3 DEF Card
  <1>5. card'.pc = pcOf /\ card'.total = 0 /\ card'.shares = NoShares
    BY <1>1, <1>2, <1>3 DEF Card
  <1>6. Agreeing' /\ SharesFit'
    BY <1>2, <1>5, ZeroesFit
  <1>7. SummariesTypeOK' /\ Sound'
    BY <1>1, <1>4 DEF SummariesTypeOK, Sound
  <1>8. QED
    BY <1>6, <1>7

LEMMA StepRevisit ==
    ASSUME SummariesInv, Revisit
    PROVE  SummariesInv'
  <1> USE DEF SummariesInv
  <1>1. UNCHANGED <<docs, customers>> /\ card' = FreshCard(card.kind)
    BY DEF Revisit
  <1>2. /\ card' \in Card /\ card'.pc = "unasked" /\ card'.total = 0
        /\ card'.shares = NoShares
    BY <1>1, CardHolds, FreshCardTyped
  <1>3. Agreeing' /\ SharesFit'
    BY <1>2, ZeroesFit
  <1>4. SummariesTypeOK' /\ Sound'
    BY <1>1, <1>2 DEF SummariesTypeOK, Sound
  <1>5. QED
    BY <1>3, <1>4

LEMMA StepPut ==
    ASSUME SummariesInv, NEW d \in Slots, Put(d)
    PROVE  SummariesInv'
  <1> USE DEF SummariesInv
  <1>1. PICK doc \in Puts(d) : docs' = [docs EXCEPT ![d] = doc]
    BY DEF Put
  <1>2. /\ card.pc \in {"asked", "counted"} /\ UNCHANGED customers
        /\ card' = [card EXCEPT !.changed = TRUE]
    BY DEF Put, Matters
  <1>3. doc \in Doc /\ doc.credit <= doc.total
    BY PutTyped
  <1>4. SummariesTypeOK'
    BY <1>1, <1>2, <1>3 DEF SummariesTypeOK, Card
  <1>5. Sound'
    <2>1. \A e \in Slots : docs'[e] = IF e = d THEN doc ELSE docs[e]
      BY <1>1 DEF SummariesTypeOK
    <2>2. QED
      BY <1>3, <2>1 DEF Sound
  <1>6. /\ card'.pc = card.pc /\ card'.kind = card.kind /\ card'.shares = card.shares
        /\ card'.total = card.total
    BY <1>2, CardHolds DEF SummariesTypeOK, Card
  <1>7. card'.stray = card.stray /\ card'.changed
    BY <1>2, Zenon DEF SummariesTypeOK, Card
  <1>8. ~Answering' /\ (Counting' => Counting)
    BY <1>2, <1>6 DEF Counting, Answering
  <1>9. SharesFit'
    BY <1>6, <1>7, <1>8, SharesStay
  <1>10. Agreeing'
    BY <1>7, <1>8 DEF Agreeing
  <1>11. QED
    BY <1>4, <1>5, <1>9, <1>10

LEMMA StepStanding ==
    ASSUME SummariesInv, NEW c \in Customers, NEW standing \in Standings \ {"none"},
           SetStanding(c, standing)
    PROVE  SummariesInv'
  <1> USE DEF SummariesInv
  <1>1. /\ customers' = [customers EXCEPT ![c] = standing]
        /\ UNCHANGED docs /\ UNCHANGED card
    BY DEF SetStanding
  <1>2. SummariesTypeOK'
    BY <1>1 DEF SummariesTypeOK
  <1>3. Counting' = Counting /\ Answering' = Answering /\ Sound'
    BY <1>1 DEF Counting, Answering, Sound
  <1>4. Agreeing'
    BY <1>1, <1>3, SumsStay DEF Agreeing
  <1>5. SharesFit'
    BY <1>1, <1>3, SharesStay
  <1>6. QED
    BY <1>2, <1>3, <1>4, <1>5

LEMMA SummariesInitInv == SummariesInit => SummariesInv
  <1> SUFFICES ASSUME SummariesInit PROVE SummariesInv
    OBVIOUS
  <1>1. PICK kind \in {"invoice", "quote", "client"} : card = FreshCard(kind)
    BY DEF SummariesInit
  <1>2. /\ card \in Card /\ card.pc = "unasked" /\ card.shares = NoShares
    BY <1>1, FreshCardTyped
  <1>3. docs = [d \in Slots |-> NoDoc] /\ customers = [c \in Customers |-> "none"]
    BY DEF SummariesInit
  <1>4. SummariesTypeOK
    BY <1>2, <1>3, NoDocTyped DEF SummariesTypeOK, Standings
  <1>5. Sound
    BY <1>3, NoDocTyped DEF Sound
  <1>6. ~Counting /\ ~Answering
    BY <1>2 DEF Counting, Answering
  <1>7. SharesFit
    BY <1>2, <1>6, NoSharesFit DEF SharesFit, ShareOf
  <1>8. QED
    BY <1>4, <1>5, <1>6, <1>7 DEF Agreeing, SummariesInv

LEMMA SummariesNextInv == SummariesInv /\ [SummariesNext]_summaryVars => SummariesInv'
  <1> SUFFICES ASSUME SummariesInv, [SummariesNext]_summaryVars PROVE SummariesInv'
    OBVIOUS
  <1>1. CASE AskSummary
    BY <1>1, StepAsk
  <1>2. CASE Count
    BY <1>2, StepCount
  <1>3. CASE CountDue
    BY <1>3, StepCountDue
  <1>4. CASE ShowSummary
    BY <1>4, StepShow
  <1>5. CASE SummaryLost
    BY <1>5, StepLost
  <1>6. CASE Revisit
    BY <1>6, StepRevisit
  <1>7. CASE \E d \in Slots : Put(d)
    BY <1>7, StepPut
  <1>8. CASE \E c \in Customers, standing \in Standings \ {"none"} : SetStanding(c, standing)
    BY <1>8, StepStanding
  <1>9. CASE UNCHANGED summaryVars
    <2>1. UNCHANGED card /\ UNCHANGED docs /\ UNCHANGED customers
      BY <1>9 DEF summaryVars
    <2>2. Counting' = Counting /\ Answering' = Answering /\ Sound' = Sound
      BY <2>1 DEF Counting, Answering, Sound
    <2>3. Agreeing' /\ SharesFit'
      BY <2>1, <2>2, SumsStay, SharesStay DEF Agreeing, SummariesInv
    <2>4. SummariesTypeOK'
      BY <2>1 DEF SummariesTypeOK, SummariesInv
    <2>5. QED
      BY <2>2, <2>3, <2>4 DEF SummariesInv
  <1>10. QED
    BY <1>1, <1>2, <1>3, <1>4, <1>5, <1>6, <1>7, <1>8, <1>9, Zenon DEF SummariesNext

LEMMA SummariesInvariance == SummariesSpec => []SummariesInv
  <1>1. QED
    BY SummariesInitInv, SummariesNextInv, PTL DEF SummariesSpec

\* The cards, the documents and the clients are what the code makes them.
THEOREM SummariesTypeCorrect == SummariesSpec => []SummariesTypeOK
  <1>1. SummariesInv => SummariesTypeOK
    BY DEF SummariesInv
  <1>2. QED
    BY <1>1, SummariesInvariance, PTL

\* What a card shows fits together, whatever the documents and the clients: the
\* two aggregates of the invoices agree unless something changed in between, and
\* the shares make a hundred but for rounding.
THEOREM CardsAlwaysAddUp == SummariesSpec => []CardsAddUp
  <1>1. SummariesInv => CardsAddUp
    BY DEF SummariesInv, Agreeing, SharesFit, Answering, CardsAddUp
  <1>2. QED
    BY <1>1, SummariesInvariance, PTL
-----------------------------------------------------------------------------
(***************************************************************************)
(* The office                                                              *)
(***************************************************************************)

OfficeInv ==
    /\ part \in Parts
    /\ NumberingInv /\ LookupInv /\ TotalsInv
    /\ FilesInv /\ SetupInv /\ SummariesInv

\* Each part takes a step of its own, or none.
LEMMA PartsStep ==
    ASSUME [OfficeNext]_officeVars
    PROVE  /\ UNCHANGED part
           /\ [NumberingNext]_numberingVars /\ [LookupNext]_lookupVars
           /\ [TotalsNext]_totalsVars /\ [FilesNext]_filesVars
           /\ [SetupNext]_setupVars /\ [SummariesNext]_summaryVars
  <1>1. CASE UNCHANGED officeVars
    BY <1>1, Zenon DEF officeVars
  <1>2. CASE OfficeNext
    <2>1. UNCHANGED part
      BY <1>2, Zenon DEF OfficeNext, Rest
    <2>2. [NumberingNext]_numberingVars
      BY <1>2 DEF OfficeNext, Rest, Keeps
    <2>3. [LookupNext]_lookupVars
      BY <1>2 DEF OfficeNext, Rest, Keeps
    <2>4. [TotalsNext]_totalsVars
      BY <1>2 DEF OfficeNext, Rest, Keeps
    <2>5. [FilesNext]_filesVars
      BY <1>2 DEF OfficeNext, Rest, Keeps
    <2>6. [SetupNext]_setupVars
      BY <1>2 DEF OfficeNext, Rest, Keeps
    <2>7. [SummariesNext]_summaryVars
      BY <1>2 DEF OfficeNext, Rest, Keeps
    <2>8. QED
      BY <2>1, <2>2, <2>3, <2>4, <2>5, <2>6, <2>7
  <1>3. QED
    BY <1>1, <1>2

LEMMA OfficeInvariance == OfficeSpec => []OfficeInv
  <1>1. OfficeInit => OfficeInv
    BY NumberingInitInv, LookupInitInv, TotalsInitInv, FilesInitInv, SetupInitInv,
       SummariesInitInv DEF OfficeInit, OfficeInv
  <1>2. OfficeInv /\ [OfficeNext]_officeVars => OfficeInv'
    BY PartsStep, NumberingNextInv, LookupNextInv, TotalsNextInv, FilesNextInv,
       SetupNextInv, SummariesNextInv DEF OfficeInv
  <1>3. QED
    BY <1>1, <1>2, PTL DEF OfficeSpec

\* Every variable of the part that moves has a value of its type.
THEOREM OfficeTypeCorrect == OfficeSpec => []OfficeTypeOK
  <1>1. OfficeInv => OfficeTypeOK
    BY DEF OfficeInv, Parts, OfficeTypeOK, NumberingInv, LookupInv, TotalsInv,
       FilesInv, SetupInv, SummariesInv
  <1>2. QED
    BY <1>1, OfficeInvariance, PTL

=============================================================================

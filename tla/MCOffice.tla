------------------------------- MODULE MCOffice -------------------------------
(***************************************************************************)
(* The parts of the back office that share no state with the collections,  *)
(* the ledger and sign-in, checked together: numbers and settings, fields  *)
(* that search, totals, files, set-up, summaries.                          *)
(*                                                                         *)
(* They share none with each other either, so a behaviour is one of one    *)
(* part: interleaving them would only multiply their states.               *)
(***************************************************************************)
EXTENDS Numbering, Lookups, Totals, Files, Setup, Summaries, TLC

CONSTANTS alice, bob, c1, c2, d1, d2

VARIABLE part       \* the part that moves

MCMaxMade == [k \in Kinds |-> IF k = "invoice" THEN 2 ELSE 1]

\* One text finds both clients, one finds one, one finds none.
MCFound ==
    [t \in Texts |->
        CASE t = Blank -> Clients
          [] t = "ali" -> {alice}
          [] OTHER     -> {}]

MCSymmetry == Permutations({c1, c2}) \union Permutations({d1, d2})

Parts == {"numbers", "lookups", "totals", "files", "setup", "summaries"}

officeVars == <<part, numberingVars, lookupVars, totalsVars, filesVars, setupVars, summaryVars>>

\* Initial states that differ only in a part that will not move are left out.
OfficeInit ==
    /\ part \in Parts
    /\ NumberingInit /\ LookupInit /\ TotalsInit /\ FilesInit /\ SetupInit /\ SummariesInit
    /\ part # "lookups" => field.kind = "search"
    /\ part # "summaries" => card.kind = "quote"

Keeps(p, vars) == IF part = p THEN TRUE ELSE UNCHANGED vars

\* The parts that do not move.
Rest ==
    /\ UNCHANGED part
    /\ Keeps("numbers", numberingVars) /\ Keeps("lookups", lookupVars)
    /\ Keeps("totals", totalsVars) /\ Keeps("files", filesVars)
    /\ Keeps("setup", setupVars) /\ Keeps("summaries", summaryVars)

OfficeNext ==
    \/ part = "numbers" /\ NumberingNext /\ Rest
    \/ part = "lookups" /\ LookupNext /\ Rest
    \/ part = "totals" /\ TotalsNext /\ Rest
    \/ part = "files" /\ FilesNext /\ Rest
    \/ part = "setup" /\ SetupNext /\ Rest
    \/ part = "summaries" /\ SummariesNext /\ Rest

OfficeSpec == OfficeInit /\ [][OfficeNext]_officeVars
-----------------------------------------------------------------------------
\* Every variable of the part that moves has a value of its type.
OfficeTypeOK ==
    CASE part = "numbers"   -> NumberingTypeOK
      [] part = "lookups"   -> LookupTypeOK
      [] part = "totals"    -> TotalsTypeOK
      [] part = "files"     -> FilesTypeOK
      [] part = "setup"     -> SetupTypeOK
      [] part = "summaries" -> SummariesTypeOK
=============================================================================

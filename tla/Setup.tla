-------------------------------- MODULE Setup --------------------------------
(***************************************************************************)
(* The scripts that prepare the database (setup.js) and empty it again     *)
(* (reset.js).  Each is a process of its own that writes one collection    *)
(* after the other; one that fails exits and takes nothing back.           *)
(***************************************************************************)
EXTENDS Integers, Sequences, FiniteSets

CONSTANTS
    Scripts,        \* processes that run a script
    Keys,           \* the keys of the default settings
    MaxRuns         \* bound on the set-ups that are begun

ASSUME SetupAssumption == MaxRuns \in Nat /\ IsFiniteSet(Scripts)

VARIABLES
    admins,         \* the administrators in the order they were saved
    passwords,      \* those that have a password
    settings,       \* how many copies there are of each setting
    defaults,       \* how many default taxes and payment modes there are
    script,         \* where each process is
    runs,           \* how many set-ups were begun
    spoilt          \* history: a script failed, or ran on what another had
                    \* left, or overlapped one, since the last whole reset

setupVars == <<admins, passwords, settings, defaults, script, runs, spoilt>>

-----------------------------------------------------------------------------
Lists == {"taxes", "modes"}

\* todo is what is left to insert of the settings; admin is who was saved;
\* alone is history: no other script ran meanwhile.
Script == [pc : {"idle", "admin", "password", "settings", "taxes", "modes",
                 "delAdmin", "delPassword", "delModes", "delTaxes", "delSettings"},
           todo : SUBSET Keys, admin : 0 .. MaxRuns, alone : BOOLEAN]

Idle == [pc |-> "idle", todo |-> {}, admin |-> 0, alone |-> TRUE]

Runs(s) == script[s].pc # "idle"

Alone(s) == \A r \in Scripts \ {s} : ~Runs(r)

Begins(s, pc, todo, admin) ==
    script' = [r \in Scripts |->
        IF r = s THEN [pc |-> pc, todo |-> todo, admin |-> admin, alone |-> Alone(s)]
        ELSE [script[r] EXCEPT !.alone = ~Runs(r)]]

Empty == /\ admins = <<>> /\ passwords = {}
         /\ \A k \in Keys : settings[k] = 0
         /\ \A l \in Lists : defaults[l] = 0

At(s, pc) == script[s].pc = pc

Then(s, pc) == script' = [script EXCEPT ![s].pc = pc]

-----------------------------------------------------------------------------
(* setup.js *)

BeginSetup(s) ==
    /\ At(s, "idle") /\ runs < MaxRuns
    /\ runs' = runs + 1
    /\ Begins(s, "admin", Keys, runs + 1)
    /\ spoilt' = (spoilt \/ ~Empty \/ ~Alone(s))
    /\ UNCHANGED <<admins, passwords, settings, defaults>>

\* Nothing keeps the e-mail address from being there already.
SaveAdmin(s) ==
    /\ At(s, "admin")
    /\ admins' = Append(admins, script[s].admin)
    /\ Then(s, "password")
    /\ UNCHANGED <<passwords, settings, defaults, runs, spoilt>>

SavePassword(s) ==
    /\ At(s, "password")
    /\ passwords' = passwords \union {script[s].admin}
    /\ Then(s, "settings")
    /\ UNCHANGED <<admins, settings, defaults, runs, spoilt>>

\* insertMany is no transaction, and nothing keeps a key from being there.
InsertSetting(s, k) ==
    /\ At(s, "settings") /\ k \in script[s].todo
    /\ settings' = [settings EXCEPT ![k] = @ + 1]
    /\ script' = [script EXCEPT ![s].todo = @ \ {k},
                                ![s].pc = IF script[s].todo = {k} THEN "taxes" ELSE @]
    /\ UNCHANGED <<admins, passwords, defaults, runs, spoilt>>

InsertTax(s) ==
    /\ At(s, "taxes")
    /\ defaults' = [defaults EXCEPT !["taxes"] = @ + 1]
    /\ Then(s, "modes")
    /\ UNCHANGED <<admins, passwords, settings, runs, spoilt>>

InsertMode(s) ==
    /\ At(s, "modes")
    /\ defaults' = [defaults EXCEPT !["modes"] = @ + 1]
    /\ script' = [script EXCEPT ![s] = Idle]
    /\ UNCHANGED <<admins, passwords, settings, runs, spoilt>>

-----------------------------------------------------------------------------
(* reset.js *)

BeginReset(s) ==
    /\ At(s, "idle") /\ ~Empty
    /\ Begins(s, "delAdmin", {}, 0)
    /\ spoilt' = TRUE
    /\ UNCHANGED <<admins, passwords, settings, defaults, runs>>

DeleteAdmins(s) ==
    /\ At(s, "delAdmin")
    /\ admins' = <<>>
    /\ Then(s, "delPassword")
    /\ UNCHANGED <<passwords, settings, defaults, runs, spoilt>>

DeletePasswords(s) ==
    /\ At(s, "delPassword")
    /\ passwords' = {}
    /\ Then(s, "delModes")
    /\ UNCHANGED <<admins, settings, defaults, runs, spoilt>>

DeleteModes(s) ==
    /\ At(s, "delModes")
    /\ defaults' = [defaults EXCEPT !["modes"] = 0]
    /\ Then(s, "delTaxes")
    /\ UNCHANGED <<admins, passwords, settings, runs, spoilt>>

DeleteTaxes(s) ==
    /\ At(s, "delTaxes")
    /\ defaults' = [defaults EXCEPT !["taxes"] = 0]
    /\ Then(s, "delSettings")
    /\ UNCHANGED <<admins, passwords, settings, runs, spoilt>>

\* A slip: the settings are kept.
KeepSettings(s) ==
    /\ At(s, "delSettings")
    /\ script' = [script EXCEPT ![s] = Idle]
    /\ spoilt' = ~script[s].alone
    /\ UNCHANGED <<admins, passwords, settings, defaults, runs>>

DeleteSettings(s) ==
    /\ At(s, "delSettings")
    /\ settings' = [k \in Keys |-> 0]
    /\ script' = [script EXCEPT ![s] = Idle]
    /\ spoilt' = ~script[s].alone
    /\ UNCHANGED <<admins, passwords, defaults, runs>>

-----------------------------------------------------------------------------
\* A call fails, or the process is stopped: it ends, and what it wrote stays.
ScriptFails(s) ==
    /\ Runs(s)
    /\ script' = [script EXCEPT ![s] = Idle]
    /\ spoilt' = TRUE
    /\ UNCHANGED <<admins, passwords, settings, defaults, runs>>

SetupInit ==
    /\ admins = <<>> /\ passwords = {}
    /\ settings = [k \in Keys |-> 0]
    /\ defaults = [l \in Lists |-> 0]
    /\ script = [s \in Scripts |-> Idle]
    /\ runs = 0
    /\ spoilt = FALSE

SetupNext ==
    \E s \in Scripts :
        \/ BeginSetup(s) \/ SaveAdmin(s) \/ SavePassword(s)
        \/ \E k \in Keys : InsertSetting(s, k)
        \/ InsertTax(s) \/ InsertMode(s)
        \/ BeginReset(s) \/ DeleteAdmins(s) \/ DeletePasswords(s)
        \/ DeleteModes(s) \/ DeleteTaxes(s) \/ DeleteSettings(s)
        \/ ScriptFails(s)

SetupSpec == SetupInit /\ [][SetupNext]_setupVars
-----------------------------------------------------------------------------
SetupTypeOK ==
    /\ admins \in Seq(1 .. MaxRuns) /\ passwords \subseteq 1 .. MaxRuns
    /\ settings \in [Keys -> 0 .. MaxRuns] /\ defaults \in [Lists -> 0 .. MaxRuns]
    /\ script \in [Scripts -> Script]
    /\ runs \in 0 .. MaxRuns /\ spoilt \in BOOLEAN

\* Sign-in takes the first administrator of the address, an increment the first
\* copy of a setting, a list the last one: each must be the only one.
Works ==
    /\ Len(admins) = 1 /\ admins[1] \in passwords
    /\ \A k \in Keys : settings[k] = 1
    /\ \A l \in Lists : defaults[l] = 1

\* A set-up that ran to its end works: the administrator can sign in, and there
\* is one copy of every setting, one default tax, one default payment mode.
\* That holds however often the database was reset and set up before, after
\* failures too, if a whole reset came between; it holds no longer for a set-up
\* that ran over what an earlier one had left.
FreshSetupWorks ==
    ~spoilt /\ (\A s \in Scripts : ~Runs(s)) => Empty \/ Works
=============================================================================

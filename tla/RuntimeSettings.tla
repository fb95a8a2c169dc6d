--------------------------- MODULE RuntimeSettings ---------------------------
(***************************************************************************)
(* What administrators change while the processes run: the connection to   *)
(* the portal database and the templates of reports.                       *)
(*                                                                         *)
(* The settings are rows of the application's database, of which the first *)
(* is in force; if two requests add one at a time, the second is never     *)
(* read.  Each process has a configuration of the portal database of its   *)
(* own, which only the middleware of a web request and the pages of the    *)
(* administration bring up to date; a worker keeps the one it was started  *)
(* with.  A connection is opened by a query and closed at the end of the   *)
(* request or task.                                                        *)
(***************************************************************************)
EXTENDS Naturals

CONSTANTS
    Web, Workers,    \* the processes
    Addresses,       \* host, port, name and user of a database
    Passwords, NoPassword,
    EnvPassword,     \* PORTAL_DB_PASSWORD, NoPassword if it is not set
    StartAddress,    \* the database of the environment
    TestAddress, TestPassword, \* what the button for the test database fills in
    Templates, Scopes, \* templates, and what they are for: a PU or the general report
    NoRow, NoLink,
    MaxRekeys

Processes == Web \cup Workers
Profiles == {"TEST", "PROD"}
StoredPasswords == Passwords \cup {NoPassword}
Settings ==
    [profile : Profiles, address : Addresses, password : StoredPasswords, key : 0..MaxRekeys]
Configs ==
    [address : Addresses, password : StoredPasswords \cup {EnvPassword}, readonly : BOOLEAN]
TemplateRows == [of : Scopes, active : BOOLEAN] \cup {NoRow}

ASSUME ProcessesAssumption == Web \cap Workers = {}
ASSUME ValuesAssumption ==
    /\ NoPassword \notin Passwords
    /\ TestPassword \in StoredPasswords
    /\ StartAddress \in Addresses /\ TestAddress \in Addresses
ASSUME NothingAssumption == NoRow \notin Settings /\ NoLink \notin Configs
ASSUME BoundAssumption == MaxRekeys \in Nat
ASSUME NoTemplateAssumption == NoRow \notin [of : Scopes, active : BOOLEAN]

VARIABLES
    row,       \* the first of PortalDbConnectionSettings, ordered by id
    key,       \* how often the key of the stored passwords has changed
    config,    \* connections.databases["portal"], of each process
    sqlProfile, \* PORTAL_PROFILE of each process, whose SQL the sql gateway reads
    link,      \* the open connection, as it was opened
    stage,     \* of each process: "idle", "request", "page" or "task"
    applied,   \* the row a web process has brought its configuration up to
    loaded,    \* the row its page has loaded, and may save
    templates

vars == <<row, key, config, sqlProfile, link, stage, applied, loaded, templates>>

-----------------------------------------------------------------------------
(* apply_portal_db_settings.                                               *)

\* A stored password that was encrypted with the present key.
Readable(r, k) == r.password # NoPassword /\ r.key = k

\* Mutant: the stored password is used without being decrypted.
EncryptedPassword(r, k, current) ==
    IF r.password # NoPassword THEN <<r.password, r.key>> ELSE current.password

\* resolve_portal_password.
Password(r, k, current) ==
    CASE Readable(r, k) -> r.password
      [] ~Readable(r, k) /\ EnvPassword # NoPassword -> EnvPassword
      [] OTHER -> current.password

\* build_django_db_settings, merged into the configuration there is.
Desired(r, k, current) ==
    [address |-> r.address, password |-> Password(r, k, current),
     readonly |-> r.profile = "PROD"]

\* _resolve_runtime_sql_profile.
SqlProfile(r) == IF r.profile = "PROD" THEN "prod_ro" ELSE "dev"

\* Mutant: whether the database may be written is not compared.
SameAddress(current, desired) ==
    current.address = desired.address /\ current.password = desired.password

\* _same_connection_settings.
SameConnection(current, desired) == current = desired

\* The configuration and the connection of process p once r is applied: what
\* does not change keeps its connection.
Apply(p, r) ==
    LET desired == Desired(r, key, config[p])
    IN  /\ sqlProfile' = IF r = NoRow THEN sqlProfile
                         ELSE [sqlProfile EXCEPT ![p] = SqlProfile(r)]
        /\ IF r = NoRow \/ SameConnection(config[p], desired)
           THEN UNCHANGED <<config, link>>
           ELSE /\ config' = [config EXCEPT ![p] = desired]
                /\ link' = [link EXCEPT ![p] = NoLink]

-----------------------------------------------------------------------------
(* Requests and tasks.                                                     *)

Started == [address |-> StartAddress, password |-> EnvPassword, readonly |-> FALSE]

Init ==
    /\ row = NoRow
    /\ key = 0
    /\ config = [p \in Processes |-> Started]
    /\ sqlProfile = [p \in Processes |-> "environment"]
    /\ link = [p \in Processes |-> NoLink]
    /\ stage = [p \in Processes |-> "idle"]
    /\ applied = [p \in Web |-> NoRow]
    /\ loaded = [p \in Web |-> NoRow]
    /\ templates = [t \in Templates |-> NoRow]

\* PortalDbRuntimeSettingsMiddleware.
BeginRequest(p) ==
    /\ stage[p] = "idle"
    /\ stage' = [stage EXCEPT ![p] = "request"]
    /\ applied' = [applied EXCEPT ![p] = row]
    /\ Apply(p, row)
    /\ UNCHANGED <<row, key, loaded, templates>>

\* A task of a worker begins, with the configuration the worker has.
BeginTask(p) ==
    /\ stage[p] = "idle"
    /\ stage' = [stage EXCEPT ![p] = "task"]
    /\ UNCHANGED <<row, key, config, sqlProfile, link, applied, loaded, templates>>

\* A query of the portal opens a connection, or uses the one there is.
Query(p) ==
    /\ stage[p] # "idle"
    /\ link[p] = NoLink
    /\ link' = [link EXCEPT ![p] = config[p]]
    /\ UNCHANGED <<row, key, config, sqlProfile, stage, applied, loaded, templates>>

\* The connections are closed when the request or the task has ended.
End(p) ==
    /\ stage[p] # "idle"
    /\ stage' = [stage EXCEPT ![p] = "idle"]
    /\ link' = [link EXCEPT ![p] = NoLink]
    /\ applied' = [q \in Web |-> IF q = p THEN NoRow ELSE applied[q]]
    /\ loaded' = [q \in Web |-> IF q = p THEN NoRow ELSE loaded[q]]
    /\ UNCHANGED <<row, key, config, sqlProfile, templates>>

Fresh(ps) ==
    /\ config' = [p \in Processes |-> IF p \in ps THEN Started ELSE config[p]]
    /\ sqlProfile' =
          [p \in Processes |-> IF p \in ps THEN "environment" ELSE sqlProfile[p]]
    /\ link' = [p \in Processes |-> IF p \in ps THEN NoLink ELSE link[p]]
    /\ stage' = [p \in Processes |-> IF p \in ps THEN "idle" ELSE stage[p]]
    /\ applied' = [p \in Web |-> IF p \in ps THEN NoRow ELSE applied[p]]
    /\ loaded' = [p \in Web |-> IF p \in ps THEN NoRow ELSE loaded[p]]

\* A process is replaced: a worker after a number of tasks or beyond a limit, a
\* web process after a timeout.
Restart(p) ==
    /\ Fresh({p})
    /\ UNCHANGED <<row, key, templates>>

\* The program is deployed with another key for the stored passwords.
Rekey ==
    /\ key < MaxRekeys
    /\ key' = key + 1
    /\ Fresh(Processes)
    /\ UNCHANGED <<row, templates>>

-----------------------------------------------------------------------------
(* The page of the settings.                                               *)

\* The page is opened: on the first row, or to add one if there is none.
OpenSettings(p) ==
    /\ stage[p] = "request"
    /\ stage' = [stage EXCEPT ![p] = "page"]
    /\ loaded' = [loaded EXCEPT ![p] = row]
    /\ UNCHANGED <<row, key, config, sqlProfile, link, applied, templates>>

\* The first row once the page of p has saved new.
Saved(p, new) == IF loaded[p] = NoRow /\ row # NoRow THEN row ELSE new

\* Saves new, and applies what is in force then.
Save(p, new) ==
    /\ row' = Saved(p, new)
    /\ applied' = [applied EXCEPT ![p] = Saved(p, new)]
    /\ Apply(p, Saved(p, new))
    /\ stage' = [stage EXCEPT ![p] = "request"]
    /\ loaded' = [loaded EXCEPT ![p] = NoRow]
    /\ UNCHANGED <<key, templates>>

\* save_model: an empty password keeps the one that is stored by now.
SaveSettings(p, profile, address, password) ==
    /\ stage[p] = "page"
    /\ LET old == IF loaded[p] = NoRow THEN [password |-> NoPassword, key |-> key]
                  ELSE row
           kept == password = NoPassword
       IN  Save(p, [profile |-> profile, address |-> address,
                    password |-> IF kept THEN old.password ELSE password,
                    key |-> IF kept THEN old.key ELSE key])

\* use_test_db_view: without a password for it, the one that was loaded stays.
UseTestDb(p) ==
    /\ stage[p] = "page"
    /\ loaded[p] # NoRow
    /\ LET kept == TestPassword = NoPassword
       IN  Save(p, [profile |-> "TEST", address |-> TestAddress,
                    password |-> IF kept THEN loaded[p].password ELSE TestPassword,
                    key |-> IF kept THEN loaded[p].key ELSE key])

-----------------------------------------------------------------------------
(* The templates.                                                          *)

\* Mutant: the migration does not make the constraint.
NeverTaken(t, of) == FALSE

\* uniq_active_svodka_template_per_scope_pu.
Taken(t, of) ==
    \E u \in Templates \ {t} : /\ templates[u] # NoRow
                               /\ templates[u].of = of
                               /\ templates[u].active

\* SvodkaTemplate.save: the constraint refuses the row before the others with
\* its scope are deactivated, and the request fails.
SaveTemplate(p, t, of, active) ==
    /\ stage[p] = "request"
    /\ active => ~Taken(t, of)
    /\ templates' =
          [u \in Templates |->
              CASE u = t -> [of |-> of, active |-> active]
                [] u # t /\ active /\ templates[u] # NoRow /\ templates[u].of = of ->
                      [templates[u] EXCEPT !.active = FALSE]
                [] OTHER -> templates[u]]
    /\ UNCHANGED <<row, key, config, sqlProfile, link, stage, applied, loaded>>

DeleteTemplate(p, t) ==
    /\ stage[p] = "request"
    /\ templates[t] # NoRow
    /\ templates' = [templates EXCEPT ![t] = NoRow]
    /\ UNCHANGED <<row, key, config, sqlProfile, link, stage, applied, loaded>>

-----------------------------------------------------------------------------
WebStep(p) ==
    \/ BeginRequest(p)
    \/ OpenSettings(p)
    \/ \E profile \in Profiles, address \in Addresses, password \in StoredPasswords :
          SaveSettings(p, profile, address, password)
    \/ UseTestDb(p)
    \/ \E t \in Templates, of \in Scopes, active \in BOOLEAN : SaveTemplate(p, t, of, active)
    \/ \E t \in Templates : DeleteTemplate(p, t)

Next ==
    \/ \E p \in Web : WebStep(p)
    \/ \E p \in Workers : BeginTask(p)
    \/ \E p \in Processes : Query(p) \/ End(p) \/ Restart(p)
    \/ Rekey

Spec == Init /\ [][Next]_vars
-----------------------------------------------------------------------------
(* What is promised.                                                       *)

TypeOK ==
    /\ row \in Settings \cup {NoRow}
    /\ key \in 0..MaxRekeys
    /\ config \in [Processes -> Configs]
    /\ sqlProfile \in [Processes -> {"environment", "dev", "prod_ro"}]
    /\ link \in [Processes -> Configs \cup {NoLink}]
    /\ stage \in [Processes -> {"idle", "request", "page", "task"}]
    /\ applied \in [Web -> Settings \cup {NoRow}]
    /\ loaded \in [Web -> Settings \cup {NoRow}]
    /\ templates \in [Templates -> TemplateRows]

\* Whatever the process served before, whatever other processes saved and
\* however often the settings were switched: a web request reads the portal
\* through a connection to the database that was in force when the settings
\* were last applied in it, as the user and with the password that were saved,
\* for reading only if that is the production database, and with its queries.
ServedAsSaved ==
    \A p \in Web :
        applied[p] # NoRow /\ link[p] # NoLink =>
            /\ link[p].address = applied[p].address
            /\ link[p].readonly <=> applied[p].profile = "PROD"
            /\ sqlProfile[p] = SqlProfile(applied[p])
            /\ Readable(applied[p], key) => link[p].password = applied[p].password
            /\ ~Readable(applied[p], key) /\ EnvPassword # NoPassword =>
                  link[p].password = EnvPassword

InForce(t) == templates[t] # NoRow /\ templates[t].active

\* No template is put out of force by the save of another one, and no scope
\* has two in force: the constraint refuses the second before save() comes to
\* deactivate the first.
NoTakeover ==
    [][/\ \A t, u \in Templates :
             t # u /\ InForce(t) /\ templates'[u] # templates[u] => templates'[t] = templates[t]
       /\ \A t, u \in Templates :
             t # u /\ InForce(t)' /\ InForce(u)' => templates'[t].of # templates'[u].of]_vars
=============================================================================

------------------------ MODULE RuntimeSettings_proofs ------------------------
(* Proofs of the promises of RuntimeSettings, for any processes, settings    *)
(* and templates.                                                            *)
EXTENDS RuntimeSettings, TLAPS

\* The configuration c and the profile of queries s are those that row r asks
\* for, as far as r and the environment settle them.
Follows(c, s, r) ==
    /\ c.address = r.address
    /\ c.readonly <=> r.profile = "PROD"
    /\ s = SqlProfile(r)
    /\ Readable(r, key) => c.password = r.password
    /\ ~Readable(r, key) /\ EnvPassword # NoPassword => c.password = EnvPassword

\* The configuration of a request follows the row it was brought up to, even
\* where no connection is open: ServedAsSaved alone says nothing about what the
\* next query opens.
ConfigFollows == \A p \in Web : applied[p] # NoRow => Follows(config[p], sqlProfile[p], applied[p])

\* No connection outlives the configuration it was opened with.
LinkIsConfig == \A p \in Processes : link[p] # NoLink => link[p] = config[p]

\* The row a page has loaded is still there: no row is ever deleted.
PageHasRow == \A p \in Web : loaded[p] # NoRow => row # NoRow

IInv == TypeOK /\ ConfigFollows /\ LinkIsConfig /\ PageHasRow

\* What apply_portal_db_settings makes of a configuration is one.
LEMMA DesiredType ==
    ASSUME NEW r \in Settings, NEW k \in Nat, NEW c \in Configs
    PROVE  Desired(r, k, c) \in Configs
  <1>1. r.address \in Addresses /\ r.password \in StoredPasswords
    BY DEF Settings
  <1>2. Password(r, k, c) \in StoredPasswords \cup {EnvPassword}
    BY <1>1 DEF Password, Configs
  <1> QED
    BY <1>1, <1>2 DEF Desired, Configs

\* ... and follows the row, with the key the passwords are read with.
LEMMA DesiredFollows ==
    ASSUME NEW r \in Settings, NEW c
    PROVE  Follows(Desired(r, key, c), SqlProfile(r), r)
  BY DEF Follows, Desired, Password

\* Apply reaches one process, gives it what is desired, and leaves no
\* connection open that was opened with something else.
LEMMA ApplyStep ==
    ASSUME TypeOK, NEW p \in Web, NEW r \in Settings \cup {NoRow}, Apply(p, r)
    PROVE  /\ config' \in [Processes -> Configs]
           /\ sqlProfile' \in [Processes -> {"environment", "dev", "prod_ro"}]
           /\ link' \in [Processes -> Configs \cup {NoLink}]
           /\ \A q \in Processes \ {p} : /\ config'[q] = config[q]
                                         /\ sqlProfile'[q] = sqlProfile[q]
                                         /\ link'[q] = link[q]
           /\ r # NoRow => /\ config'[p] = Desired(r, key, config[p])
                           /\ sqlProfile'[p] = SqlProfile(r)
           /\ link'[p] = NoLink \/ (link'[p] = link[p] /\ config'[p] = config[p])
  <1> p \in Processes
    BY DEF Processes
  <1>1. key \in Nat
    BY BoundAssumption DEF TypeOK
  <1>2. r # NoRow => Desired(r, key, config[p]) \in Configs
    BY <1>1, DesiredType DEF TypeOK
  <1>3. SqlProfile(r) \in {"environment", "dev", "prod_ro"}
    BY DEF SqlProfile
  <1>4. CASE r = NoRow
    BY <1>4 DEF Apply, TypeOK
  <1>5. CASE r # NoRow /\ SameConnection(config[p], Desired(r, key, config[p]))
    BY <1>3, <1>5 DEF Apply, TypeOK, SameConnection
  <1>6. CASE r # NoRow /\ ~SameConnection(config[p], Desired(r, key, config[p]))
    BY <1>2, <1>3, <1>6 DEF Apply, TypeOK
  <1> QED
    BY <1>4, <1>5, <1>6

\* A step that applies r in process p, and says so, keeps the invariant.
LEMMA ApplyKeeps ==
    ASSUME IInv, NEW p \in Web, NEW r \in Settings \cup {NoRow}, Apply(p, r),
           applied' = [applied EXCEPT ![p] = r], key' = key
    PROVE  ConfigFollows' /\ LinkIsConfig'
  <1> p \in Processes /\ Web \subseteq Processes
    BY DEF Processes
  <1>1. TypeOK /\ ConfigFollows /\ LinkIsConfig
    BY DEF IInv
  <1>2. ASSUME NEW q \in Web, applied'[q] # NoRow
        PROVE  Follows(config[q], sqlProfile[q], applied[q])'
    <2>1. CASE q = p
      <3>1. applied'[q] = r /\ r \in Settings
        BY <1>1, <1>2, <2>1 DEF TypeOK
      <3>2. config'[q] = Desired(r, key, config[p]) /\ sqlProfile'[q] = SqlProfile(r)
        BY <1>1, <1>2, <2>1, <3>1, ApplyStep
      <3>3. Follows(Desired(r, key, config[p]), SqlProfile(r), r)
        BY <3>1, DesiredFollows
      <3> QED
        BY <3>1, <3>2, <3>3 DEF Follows
    <2>2. CASE q # p
      <3>1. applied'[q] = applied[q]
        BY <1>1, <2>2 DEF TypeOK
      <3>2. config'[q] = config[q] /\ sqlProfile'[q] = sqlProfile[q]
        BY <1>1, <2>2, ApplyStep
      <3>3. Follows(config[q], sqlProfile[q], applied[q])
        BY <1>1, <1>2, <3>1 DEF ConfigFollows
      <3> QED
        BY <3>1, <3>2, <3>3 DEF Follows
    <2> QED
      BY <2>1, <2>2
  <1>3. ASSUME NEW q \in Processes, link'[q] # NoLink
        PROVE  link'[q] = config'[q]
    BY <1>1, <1>3, ApplyStep DEF LinkIsConfig
  <1> QED
    BY <1>2, <1>3 DEF ConfigFollows, LinkIsConfig

\* A step that leaves the configurations and connections of the processes alone.
LEMMA SettledKeeps ==
    ASSUME IInv, UNCHANGED <<key, config, sqlProfile, link>>,
           \A p \in Web : applied'[p] \in {NoRow, applied[p]}
    PROVE  ConfigFollows' /\ LinkIsConfig'
  BY DEF IInv, ConfigFollows, LinkIsConfig, Follows

-----------------------------------------------------------------------------
LEMMA InitIInv == Init => IInv
  BY ValuesAssumption, BoundAssumption
     DEF Init, IInv, TypeOK, ConfigFollows, LinkIsConfig, PageHasRow, Started, Configs, Processes,
         StoredPasswords, TemplateRows

LEMMA BeginRequestKeeps ==
    ASSUME IInv, NEW p \in Web, BeginRequest(p)
    PROVE  IInv'
  <1> p \in Processes
    BY DEF Processes
  <1>1. TypeOK /\ row \in Settings \cup {NoRow} /\ Apply(p, row)
    BY DEF IInv, TypeOK, BeginRequest
  <1>2. TypeOK'
    BY <1>1, ApplyStep DEF TypeOK, BeginRequest
  <1>3. ConfigFollows' /\ LinkIsConfig'
    BY <1>1, ApplyKeeps DEF BeginRequest
  <1>4. PageHasRow'
    BY DEF IInv, PageHasRow, BeginRequest
  <1> QED
    BY <1>2, <1>3, <1>4 DEF IInv

\* The row a page saves is one, and so is the row that is in force then.
LEMMA SaveKeeps ==
    ASSUME IInv, NEW p \in Web, NEW new \in Settings, Save(p, new)
    PROVE  IInv'
  <1> p \in Processes
    BY DEF Processes
  <1> DEFINE r == Saved(p, new)
  <1>1. TypeOK /\ r \in Settings
    BY DEF IInv, TypeOK, Saved
  <1>2. /\ Apply(p, r) /\ applied' = [applied EXCEPT ![p] = r] /\ key' = key
        /\ row' = r /\ stage' = [stage EXCEPT ![p] = "request"]
        /\ loaded' = [loaded EXCEPT ![p] = NoRow] /\ templates' = templates
    BY DEF Save
  <1> HIDE DEF r
  <1>3. TypeOK'
    BY <1>1, <1>2, ApplyStep DEF TypeOK
  <1>4. ConfigFollows' /\ LinkIsConfig'
    BY <1>1, <1>2, ApplyKeeps
  <1>5. PageHasRow'
    BY <1>1, <1>2, NothingAssumption DEF PageHasRow
  <1> QED
    BY <1>3, <1>4, <1>5 DEF IInv

LEMMA SaveSettingsKeeps ==
    ASSUME IInv, NEW p \in Web, NEW profile \in Profiles, NEW address \in Addresses,
           NEW password \in StoredPasswords, SaveSettings(p, profile, address, password)
    PROVE  IInv'
  <1> DEFINE old == IF loaded[p] = NoRow THEN [password |-> NoPassword, key |-> key] ELSE row
             new == [profile |-> profile, address |-> address,
                     password |-> IF password = NoPassword THEN old.password ELSE password,
                     key |-> IF password = NoPassword THEN old.key ELSE key]
  <1>1. key \in 0..MaxRekeys
    BY DEF IInv, TypeOK
  <1>2. old.password \in StoredPasswords /\ old.key \in 0..MaxRekeys
    <2>1. CASE loaded[p] = NoRow
      BY <1>1, <2>1 DEF StoredPasswords
    <2>2. CASE loaded[p] # NoRow
      BY <2>2 DEF IInv, TypeOK, PageHasRow, Settings
    <2> QED
      BY <2>1, <2>2
  <1> HIDE DEF old
  <1>3. new \in Settings
    BY <1>1, <1>2 DEF Settings
  <1>4. Save(p, new)
    BY DEF SaveSettings, old
  <1> QED
    BY <1>3, <1>4, SaveKeeps

LEMMA UseTestDbKeeps ==
    ASSUME IInv, NEW p \in Web, UseTestDb(p)
    PROVE  IInv'
  <1> DEFINE new == [profile |-> "TEST", address |-> TestAddress,
                     password |-> IF TestPassword = NoPassword THEN loaded[p].password
                                  ELSE TestPassword,
                     key |-> IF TestPassword = NoPassword THEN loaded[p].key ELSE key]
  <1>1. key \in 0..MaxRekeys /\ loaded[p] \in Settings
    BY DEF IInv, TypeOK, UseTestDb
  <1>2. new \in Settings
    BY <1>1, ValuesAssumption DEF Settings, Profiles
  <1>3. Save(p, new)
    BY DEF UseTestDb
  <1> QED
    BY <1>2, <1>3, SaveKeeps

LEMMA OpenSettingsKeeps ==
    ASSUME IInv, NEW p \in Web, OpenSettings(p)
    PROVE  IInv'
  <1> p \in Processes
    BY DEF Processes
  <1>1. TypeOK' /\ PageHasRow'
    BY DEF IInv, TypeOK, PageHasRow, OpenSettings
  <1>2. ConfigFollows' /\ LinkIsConfig'
    BY SettledKeeps DEF OpenSettings
  <1> QED
    BY <1>1, <1>2 DEF IInv

LEMMA TemplatesKeep ==
    ASSUME IInv, NEW p \in Web, NEW t \in Templates,
           DeleteTemplate(p, t) \/ \E of \in Scopes, active \in BOOLEAN :
                                       SaveTemplate(p, t, of, active)
    PROVE  IInv'
  <1>1. templates' \in [Templates -> TemplateRows]
    <2>1. CASE DeleteTemplate(p, t)
      BY <2>1 DEF IInv, TypeOK, DeleteTemplate, TemplateRows
    <2>2. ASSUME NEW of \in Scopes, NEW active \in BOOLEAN, SaveTemplate(p, t, of, active)
          PROVE  templates' \in [Templates -> TemplateRows]
      <3>1. ASSUME NEW u \in Templates
            PROVE  templates'[u] \in TemplateRows
        <4>1. templates[u] \in TemplateRows
          BY DEF IInv, TypeOK
        <4>2. CASE u = t
          BY <2>2, <4>2 DEF SaveTemplate, TemplateRows
        <4>3. CASE u # t /\ active /\ templates[u] # NoRow /\ templates[u].of = of
          <5>1. templates'[u] = [templates[u] EXCEPT !.active = FALSE]
            BY <2>2, <4>3 DEF SaveTemplate
          <5> QED
            BY <4>1, <4>3, <5>1 DEF TemplateRows
        <4>4. CASE u # t /\ ~(active /\ templates[u] # NoRow /\ templates[u].of = of)
          BY <2>2, <4>1, <4>4 DEF SaveTemplate
        <4> QED
          BY <4>2, <4>3, <4>4
      <3> QED
        BY <2>2, <3>1 DEF SaveTemplate
    <2> QED
      BY <2>1, <2>2
  <1>2. UNCHANGED <<row, key, config, sqlProfile, link, stage, applied, loaded>>
    BY DEF DeleteTemplate, SaveTemplate
  <1>3. ConfigFollows' /\ LinkIsConfig'
    BY <1>2, SettledKeeps
  <1> QED
    BY <1>1, <1>2, <1>3 DEF IInv, TypeOK, PageHasRow

\* Processes that are started again have the configuration of the environment
\* and serve nothing.
LEMMA FreshKeeps ==
    ASSUME IInv, NEW ps \in SUBSET Processes, Fresh(ps), UNCHANGED <<row, templates>>,
           key' \in 0..MaxRekeys, key' # key => ps = Processes
    PROVE  IInv'
  <1> Web \subseteq Processes
    BY DEF Processes
  <1>1. TypeOK'
    BY ValuesAssumption DEF IInv, TypeOK, Fresh, Started, Configs
  <1>2. ConfigFollows'
    BY DEF IInv, ConfigFollows, Fresh, Follows, TypeOK
  <1>3. LinkIsConfig' /\ PageHasRow'
    BY DEF IInv, LinkIsConfig, PageHasRow, Fresh, TypeOK
  <1> QED
    BY <1>1, <1>2, <1>3 DEF IInv

LEMMA NextIInv == IInv /\ [Next]_vars => IInv'
  <1> SUFFICES ASSUME IInv, [Next]_vars
               PROVE  IInv'
    OBVIOUS
  <1> Web \subseteq Processes
    BY DEF Processes
  <1>1. ASSUME NEW p \in Web, WebStep(p)
        PROVE  IInv'
    BY <1>1, BeginRequestKeeps, OpenSettingsKeeps, SaveSettingsKeeps, UseTestDbKeeps,
       TemplatesKeep DEF WebStep
  <1>2. ASSUME NEW p \in Workers, BeginTask(p)
        PROVE  IInv'
    <2>1. TypeOK' /\ PageHasRow'
      BY <1>2 DEF IInv, TypeOK, PageHasRow, BeginTask, Processes
    <2>2. ConfigFollows' /\ LinkIsConfig'
      BY <1>2, SettledKeeps DEF BeginTask
    <2> QED
      BY <2>1, <2>2 DEF IInv
  <1>3. ASSUME NEW p \in Processes, Query(p)
        PROVE  IInv'
    BY <1>3 DEF IInv, TypeOK, ConfigFollows, Follows, LinkIsConfig, PageHasRow, Query
  <1>4. ASSUME NEW p \in Processes, End(p)
        PROVE  IInv'
    <2>1. TypeOK' /\ PageHasRow'
      BY <1>4 DEF IInv, TypeOK, PageHasRow, End
    <2>2. ConfigFollows' /\ LinkIsConfig'
      BY <1>4 DEF IInv, TypeOK, ConfigFollows, Follows, LinkIsConfig, End
    <2> QED
      BY <2>1, <2>2 DEF IInv
  <1>5. ASSUME NEW p \in Processes, Restart(p)
        PROVE  IInv'
    BY <1>5, FreshKeeps DEF Restart, IInv, TypeOK
  <1>6. CASE Rekey
    <2>1. key' \in 0..MaxRekeys
      BY <1>6, BoundAssumption DEF Rekey, IInv, TypeOK
    <2> QED
      BY <1>6, <2>1, FreshKeeps DEF Rekey
  <1>7. CASE UNCHANGED vars
    BY <1>7 DEF vars, IInv, TypeOK, ConfigFollows, Follows, LinkIsConfig, PageHasRow
  <1> QED
    BY <1>1, <1>2, <1>3, <1>4, <1>5, <1>6, <1>7 DEF Next

LEMMA AlwaysIInv == Spec => []IInv
  BY InitIInv, NextIInv, PTL DEF Spec

\* Type correctness of the settings, processes and templates.
THEOREM TypeCorrect == Spec => []TypeOK
  BY AlwaysIInv, PTL DEF IInv

\* Every web request reads the portal through the connection that was saved,
\* for any number of processes, databases and passwords, and however often the
\* key of the passwords changes.
THEOREM RequestsServeAsSaved == Spec => []ServedAsSaved
  <1>1. IInv => ServedAsSaved
    <2> SUFFICES ASSUME IInv, NEW p \in Web, applied[p] # NoRow, link[p] # NoLink
                 PROVE  /\ link[p] = config[p]
                        /\ Follows(config[p], sqlProfile[p], applied[p])
      BY DEF ServedAsSaved, Follows
    <2> QED
      BY DEF IInv, LinkIsConfig, ConfigFollows, Processes
  <1> QED
    BY <1>1, AlwaysIInv, PTL

-----------------------------------------------------------------------------
(* The templates.                                                          *)

OneInForce ==
    \A t, u \in Templates :
        t # u /\ InForce(t) /\ InForce(u) => templates[t].of # templates[u].of

TInv == templates \in [Templates -> TemplateRows] /\ OneInForce

\* A save changes its own template alone: what it would deactivate is not
\* active, or the constraint has refused it.
LEMMA SaveChangesOne ==
    ASSUME TInv, NEW p, NEW t \in Templates, NEW of \in Scopes, NEW active \in BOOLEAN,
           SaveTemplate(p, t, of, active)
    PROVE  /\ \A u \in Templates \ {t} : templates'[u] = templates[u]
           /\ templates'[t] = [of |-> of, active |-> active]
           /\ active => ~Taken(t, of)
  <1>1. templates'[t] = [of |-> of, active |-> active] /\ (active => ~Taken(t, of))
    BY DEF SaveTemplate
  <1>2. ASSUME NEW u \in Templates \ {t}
        PROVE  templates'[u] = templates[u]
    <2>1. CASE active /\ templates[u] # NoRow /\ templates[u].of = of
      <3>1. templates[u] \in [of : Scopes, active : BOOLEAN]
        BY <2>1 DEF TInv, TemplateRows
      <3>2. templates[u].active = FALSE
        BY <2>1, <3>1, <1>1 DEF Taken
      <3>3. templates'[u] = [templates[u] EXCEPT !.active = FALSE]
        BY <2>1 DEF SaveTemplate
      <3> QED
        BY <3>1, <3>2, <3>3
    <2>2. CASE ~(active /\ templates[u] # NoRow /\ templates[u].of = of)
      BY <2>2 DEF SaveTemplate
    <2> QED
      BY <2>1, <2>2
  <1> QED
    BY <1>1, <1>2

LEMMA InitTInv == Init => TInv
  BY DEF Init, TInv, OneInForce, InForce, TemplateRows

\* Templates change in a save or a deletion, and otherwise never.
LEMMA TemplatesChange ==
    ASSUME [Next]_vars
    PROVE  \/ templates' = templates
           \/ \E p \in Web, t \in Templates, of \in Scopes, active \in BOOLEAN :
                 SaveTemplate(p, t, of, active)
           \/ \E p \in Web, t \in Templates : DeleteTemplate(p, t)
  <1>1. ASSUME NEW p \in Web, NEW new, Save(p, new)
        PROVE  templates' = templates
    BY <1>1 DEF Save
  <1>2. ASSUME NEW p \in Web, WebStep(p),
               ~\E t \in Templates : DeleteTemplate(p, t),
               ~\E t \in Templates, of \in Scopes, active \in BOOLEAN :
                    SaveTemplate(p, t, of, active)
        PROVE  templates' = templates
    BY <1>1, <1>2 DEF WebStep, BeginRequest, OpenSettings, SaveSettings, UseTestDb
  <1>3. CASE ~\E p \in Web : WebStep(p)
    BY <1>3 DEF Next, BeginTask, Query, End, Restart, Rekey, vars
  <1> QED
    BY <1>2, <1>3

LEMMA NextTInv == TInv /\ [Next]_vars => TInv'
  <1> SUFFICES ASSUME TInv, [Next]_vars
               PROVE  TInv'
    OBVIOUS
  <1>1. CASE templates' = templates
    BY <1>1 DEF TInv, OneInForce, InForce
  <1>2. ASSUME NEW p \in Web, NEW t \in Templates, NEW of \in Scopes, NEW active \in BOOLEAN,
               SaveTemplate(p, t, of, active)
        PROVE  TInv'
    <2>1. /\ \A u \in Templates \ {t} : templates'[u] = templates[u]
          /\ templates'[t] = [of |-> of, active |-> active]
          /\ active => ~Taken(t, of)
      BY <1>2, SaveChangesOne
    <2>2. templates' \in [Templates -> TemplateRows]
      <3>1. ASSUME NEW u \in Templates
            PROVE  templates'[u] \in TemplateRows
        BY <2>1 DEF TInv, TemplateRows
      <3> QED
        BY <1>2, <3>1 DEF SaveTemplate
    <2>3. ASSUME NEW u \in Templates, u # t, InForce(u)', InForce(t)'
          PROVE  templates'[u].of # templates'[t].of
      <3>1. active /\ templates'[t].of = of
        BY <2>1, <2>3 DEF InForce
      <3> QED
        BY <2>1, <2>3, <3>1 DEF Taken, InForce
    <2>4. ASSUME NEW u \in Templates, NEW v \in Templates, u # v, u # t, v # t,
                 InForce(u)', InForce(v)'
          PROVE  templates'[u].of # templates'[v].of
      BY <2>1, <2>4 DEF TInv, OneInForce, InForce
    <2> QED
      BY <2>2, <2>3, <2>4 DEF TInv, OneInForce
  <1>3. ASSUME NEW p \in Web, NEW t \in Templates, DeleteTemplate(p, t)
        PROVE  TInv'
    <2>1. templates' = [templates EXCEPT ![t] = NoRow]
      BY <1>3 DEF DeleteTemplate
    <2> QED
      BY <2>1 DEF TInv, OneInForce, InForce, TemplateRows
  <1> QED
    BY <1>1, <1>2, <1>3, TemplatesChange

\* No save puts another template out of force, and no scope has two in force,
\* for any number of templates and scopes.
THEOREM NoTemplateIsTakenOver == Spec => NoTakeover
  <1>1. ASSUME TInv, [Next]_vars, NEW t \in Templates, NEW u \in Templates,
               t # u, InForce(t), templates'[u] # templates[u]
        PROVE  templates'[t] = templates[t]
    <2>1. ASSUME NEW p \in Web, NEW v \in Templates, NEW of \in Scopes, NEW active \in BOOLEAN,
                 SaveTemplate(p, v, of, active)
          PROVE  templates'[t] = templates[t]
      <3>1. v = u
        BY <1>1, <2>1, SaveChangesOne
      <3> QED
        BY <1>1, <2>1, <3>1, SaveChangesOne
    <2>2. ASSUME NEW p \in Web, NEW v \in Templates, DeleteTemplate(p, v)
          PROVE  templates'[t] = templates[t]
      BY <1>1, <2>2 DEF DeleteTemplate, TInv
    <2> QED
      BY <1>1, <2>1, <2>2, TemplatesChange
  <1>2. TInv /\ [Next]_vars =>
            /\ \A t, u \in Templates :
                  t # u /\ InForce(t) /\ templates'[u] # templates[u] =>
                      templates'[t] = templates[t]
            /\ \A t, u \in Templates :
                  t # u /\ InForce(t)' /\ InForce(u)' => templates'[t].of # templates'[u].of
    BY <1>1, NextTInv DEF TInv, OneInForce
  <1> QED
    BY <1>2, InitTInv, NextTInv, PTL DEF Spec, NoTakeover
=============================================================================

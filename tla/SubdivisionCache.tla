-------------------------- MODULE SubdivisionCache --------------------------
(***************************************************************************)
(* The cached copy of one subdivision of the portal: its CachedSubdivision *)
(* row with the name, the hash of the text that was embedded and the       *)
(* embedding, and the three writers of that row: the signal of a save in   *)
(* the portal administration, sync_subdivision_cache and                   *)
(* sync_portal_reference.                                                  *)
(*                                                                         *)
(* The portal and the cache are two databases.  A command is one           *)
(* transaction of the cache database; a save is one of the portal database *)
(* with the cache written inside it statement by statement.  The rows of   *)
(* other subdivisions only put time between the statements modelled here.  *)
(* Deleted subdivisions and --reset are left out.                          *)
(***************************************************************************)
EXTENDS Naturals

CONSTANTS
    Names,           \* what a subdivision may be called: name and short name
    Jobs,            \* saves and commands, each done once
    ReferenceModes,  \* the modes sync_portal_reference is run in, see Mode
    MaxRenames,      \* bound: changes of the portal that send no signal
    NoEmb,           \* embedding IS NULL
    NoRow, NoJob

\* What get_sentence_model gives in a process: "missing" when it raises,
\* "skipped" when SKIP_SEMANTIC_MODEL is set.
Mode == {"loaded", "missing", "skipped"}

ASSUME SubdivisionCacheAssumption ==
    /\ ReferenceModes \subseteq Mode
    /\ MaxRenames \in Nat
    /\ NoEmb \notin Names
    /\ NoJob \notin Jobs

VARIABLES
    portal,   \* the name committed in the portal
    cache,    \* the row committed in the cache database, or NoRow
    holder,   \* the command whose transaction has inserted or updated the row
    job,      \* job[j]: where save or command j stands
    renames,  \* changes of the portal without a signal so far
    alone     \* history: the job that has had no other beside it, if any

vars == <<portal, cache, holder, job, renames, alone>>

\* hash and emb hold the name they were computed from: the hash and the model
\* tell different names apart.
Row == [name : Names, hash : Names, emb : Names \cup {NoEmb}]

Commands == {"sync", "reference"}

Job == [kind : Commands \cup {"save"}, mode : Mode, rebuild : BOOLEAN,
        pc : {"ready", "get", "hash", "update", "commit", "over"},
        name : Names, obj : Row, skip : BOOLEAN]

\* (A row inserted with the column default for its hash.)
InsertedBare(n, mode) == [name |-> n, hash |-> NoEmb, emb |-> NoEmb]

\* A row as get_or_create inserts it: save() embeds a new row, if there is a model.
Inserted(n, mode) == [name |-> n, hash |-> n,
                      emb |-> IF mode = "loaded" THEN n ELSE NoEmb]

Init ==
    \E n \in Names :
        /\ portal = n
        /\ cache = NoRow
        /\ holder = NoJob
        /\ job = [j \in Jobs |->
                    [kind |-> "sync", mode |-> "loaded", rebuild |-> FALSE,
                     pc |-> "ready", name |-> n, skip |-> FALSE,
                     obj |-> [name |-> n, hash |-> n, emb |-> NoEmb]]]
        /\ renames = 0
        /\ alone = {}

-----------------------------------------------------------------------------
At(j, pc) == job[j].pc = pc
InFlight(j) == job[j].pc \notin {"ready", "over"}

Begin(j, kind, mode, rebuild, n) ==
    /\ At(j, "ready")
    /\ job' = [job EXCEPT ![j] =
                 [@ EXCEPT !.kind = kind, !.mode = mode, !.rebuild = rebuild,
                           !.name = n, !.pc = "get"]]
    /\ alone' = IF \E k \in Jobs : InFlight(k) THEN {} ELSE {j}
    /\ UNCHANGED <<portal, cache, holder, renames>>

\* A command lists the portal: it reads what is committed there.
BeginCommand(j) ==
    \E mode \in Mode, rebuild \in BOOLEAN :
        \/ Begin(j, "sync", mode, rebuild, portal)
        \/ mode \in ReferenceModes /\ Begin(j, "reference", mode, rebuild, portal)

\* The portal row that a save has written and not committed yet is locked.
PortalLocked == \E k \in Jobs : InFlight(k) /\ job[k].kind = "save"

\* A save writes the portal row; its signal calls upsert_subdivision_cache.
BeginSave(j) ==
    /\ ~PortalLocked
    /\ \E mode \in Mode, n \in Names : Begin(j, "save", mode, FALSE, n)

\* The portal's own users change a name: no signal.
Rename(n) ==
    /\ ~PortalLocked
    /\ renames < MaxRenames
    /\ n # portal
    /\ portal' = n
    /\ renames' = renames + 1
    /\ alone' = {}
    /\ UNCHANGED <<cache, holder, job>>

\* The row as it was read, with the columns that copy the portal assigned.
Copied(row, n) == [row EXCEPT !.name = n]

\* (The check for a missing embedding left to save().)
RebuildsOnChange(j, row) == job[j].rebuild \/ row.hash # row.name

\* should_rebuild in both writers; a row just created is built again too, with the
\* same outcome.
Rebuilds(j, row) == \/ job[j].rebuild
                    \/ row.hash # row.name
                    \/ row.emb = NoEmb

\* _upsert_cached_subdivision, up to save().
Upserted(j, row) ==
    IF ~Rebuilds(j, row) THEN [obj |-> row, skip |-> FALSE]
    ELSE [obj |-> [row EXCEPT !.hash = row.name,
                              !.emb = IF job[j].mode = "loaded" THEN row.name
                                      ELSE NoEmb],
          skip |-> job[j].mode # "loaded"]

\* sync_portal_reference, up to save(): without a model, and with no rebuild
\* asked for, the hash is replaced and the embedding is not.
Referenced(j, row) ==
    [obj |-> [row EXCEPT !.hash = row.name,
                         !.emb = IF ~Rebuilds(j, row) THEN @
                                 ELSE IF job[j].mode = "loaded" THEN row.name
                                 ELSE IF job[j].rebuild THEN NoEmb ELSE @],
     skip |-> TRUE]

Prepared(j, row) == IF job[j].kind = "reference" THEN Referenced(j, row)
                    ELSE Upserted(j, row)

\* get_or_create, and the object filled in.  An insert waits for a command that
\* has inserted the row; in a save it is committed at once.
Get(j) ==
    LET new == cache = NoRow
        n == job[j].name
        inserted == Inserted(n, job[j].mode)
        p == Prepared(j, Copied(IF new THEN inserted ELSE cache, n)) IN
    /\ At(j, "get")
    /\ new => holder = NoJob
    /\ cache' = IF new /\ job[j].kind = "save" THEN inserted ELSE cache
    /\ holder' = IF new /\ job[j].kind \in Commands THEN j ELSE holder
    /\ job' = [job EXCEPT ![j] = [@ EXCEPT !.obj = p.obj, !.skip = p.skip,
                                           !.pc = "hash"]]
    /\ UNCHANGED <<portal, renames, alone>>

\* CachedSubdivision.save: should_rebuild, and what becomes of the embedding.
SavedEmb(j, existing) ==
    LET obj == job[j].obj IN
    IF obj.emb # NoEmb /\ existing = obj.name THEN obj.emb
    ELSE IF job[j].mode = "skipped" THEN NoEmb
    ELSE IF job[j].mode = "loaded" /\ ~job[j].skip THEN obj.name
    ELSE obj.emb

\* save() reads the hash that is stored: its own insert, or what is committed.
HashRead(j) ==
    LET obj == job[j].obj
        existing == IF cache = NoRow THEN obj.name ELSE cache.hash IN
    /\ At(j, "hash")
    /\ job' = [job EXCEPT ![j] =
                 [@ EXCEPT !.obj = [obj EXCEPT !.hash = obj.name,
                                               !.emb = SavedEmb(j, existing)],
                           !.pc = "update"]]
    /\ UNCHANGED <<portal, cache, holder, renames, alone>>

\* (A save that names its columns and leaves out an embedding it did not touch.)
StoredNamed(j) ==
    IF cache # NoRow /\ ~Rebuilds(j, job[j].obj)
      THEN [job[j].obj EXCEPT !.emb = cache.emb]
      ELSE job[j].obj

\* super().save() writes every column.
Stored(j) == job[j].obj

\* The UPDATE waits for a command that has written the row.
Update(j) ==
    /\ At(j, "update")
    /\ holder \in {NoJob, j}
    /\ IF job[j].kind \in Commands
         THEN holder' = j /\ UNCHANGED cache
         ELSE cache' = Stored(j) /\ UNCHANGED holder
    /\ job' = [job EXCEPT ![j].pc = "commit"]
    /\ UNCHANGED <<portal, renames, alone>>

\* A command commits the cache, a save the portal.
Commit(j) ==
    /\ At(j, "commit")
    /\ IF job[j].kind \in Commands
         THEN /\ cache' = Stored(j)
              /\ holder' = NoJob
              /\ UNCHANGED portal
         ELSE /\ portal' = job[j].name
              /\ UNCHANGED <<cache, holder>>
    /\ job' = [job EXCEPT ![j].pc = "over"]
    /\ UNCHANGED <<renames, alone>>

\* An error or a lost process: the open transaction is rolled back, and what a
\* save has written to the cache stays.
Abort(j) ==
    /\ InFlight(j)
    /\ holder' = IF holder = j THEN NoJob ELSE holder
    /\ job' = [job EXCEPT ![j].pc = "over"]
    /\ alone' = alone \ {j}
    /\ UNCHANGED <<portal, cache, renames>>

Next ==
    \/ \E j \in Jobs : \/ BeginCommand(j) \/ BeginSave(j)
                       \/ Get(j) \/ HashRead(j) \/ Update(j) \/ Commit(j)
                       \/ Abort(j)
    \/ \E n \in Names : Rename(n)

Spec == Init /\ [][Next]_vars

-----------------------------------------------------------------------------
(* Properties *)

TypeOK ==
    /\ portal \in Names
    /\ cache \in Row \cup {NoRow}
    /\ holder \in Jobs \cup {NoJob}
    /\ job \in [Jobs -> Job]
    /\ renames \in 0..MaxRenames
    /\ alone \subseteq Jobs

\* However saves and commands overlap, and wherever they stop, the embedding in
\* the cache is of the name and the hash it stands beside, or there is none: the
\* matcher never compares a text with the vector of another subdivision name.
EmbeddingMatches ==
    cache # NoRow => /\ cache.hash = cache.name
                     /\ cache.emb \in {cache.name, NoEmb}

Ends(j) == At(j, "commit") /\ job'[j].pc = "over" /\ j \in alone'

\* Whatever was lost before to overlaps, missing models and errors, one save or
\* command that has nothing beside it brings the cache up to the portal, with the
\* embedding if it has a model.
OneRunRepairs ==
    [][\A j \in Jobs : Ends(j) =>
          /\ cache'.name = portal'
          /\ job[j].mode = "loaded" => cache'.emb = portal']_vars

\* What the documentation says of sync_portal_reference, and the code does not
\* always do: it computes an embedding again if there is none or the name has
\* changed, so that after it the embedding is of the present name.
SyncRecomputes ==
    [][\A j \in Jobs : Ends(j) /\ job[j].kind = "reference" /\ job[j].mode = "loaded"
          => cache'.emb = portal']_vars

=============================================================================

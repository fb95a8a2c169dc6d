----------------------- MODULE SubdivisionCache_proofs -----------------------
(***************************************************************************)
(* Every writer of a cached row keeps its embedding beside the name it was *)
(* computed from, for any number of saves and commands, as long as         *)
(* sync_portal_reference runs with its model.                              *)
(***************************************************************************)
EXTENDS SubdivisionCache, TLAPS

Matched(r) == r.hash = r.name /\ r.emb \in {r.name, NoEmb}

\* Not only the row but every object in memory matches, since it will be written
\* whole.
Matching ==
    /\ cache # NoRow => Matched(cache)
    /\ \A j \in Jobs : /\ Matched(job[j].obj)
                       /\ job[j].kind = "reference" => job[j].mode \in ReferenceModes

-----------------------------------------------------------------------------
LEMMA InsertedMatched ==
    ASSUME NEW n \in Names, NEW mode \in Mode
    PROVE  Inserted(n, mode) \in Row /\ Matched(Inserted(n, mode))
  BY DEF Inserted, Row, Matched

LEMMA InitMatching == Init => TypeOK /\ Matching
  BY SubdivisionCacheAssumption
     DEF Init, TypeOK, Matching, Matched, Row, Job, Mode, Commands

\* A step of one job.
LEMMA JobStep ==
    ASSUME TypeOK, NEW j \in Jobs, NEW rec \in Job, job' = [job EXCEPT ![j] = rec]
    PROVE  job' \in [Jobs -> Job] /\ \A k \in Jobs : job'[k] = IF k = j THEN rec ELSE job[k]
  BY DEF TypeOK

-----------------------------------------------------------------------------
\* Types need nothing of the modes.
LEMMA PreparedTyped ==
    ASSUME TypeOK, NEW j \in Jobs, NEW row \in Row
    PROVE  Prepared(j, row).obj \in Row /\ Prepared(j, row).skip \in BOOLEAN
  <1>1. CASE job[j].kind = "reference"
    BY <1>1 DEF Prepared, Referenced, Row
  <1>2. CASE job[j].kind # "reference"
    BY <1>2 DEF Prepared, Upserted, Row
  <1> QED
    BY <1>1, <1>2

LEMMA BeginTyped ==
    ASSUME TypeOK, NEW j \in Jobs, NEW kind \in Commands \cup {"save"}, NEW mode \in Mode,
           NEW rebuild \in BOOLEAN, NEW n \in Names, Begin(j, kind, mode, rebuild, n)
    PROVE  TypeOK'
  <1>1. [job[j] EXCEPT !.kind = kind, !.mode = mode, !.rebuild = rebuild,
                       !.name = n, !.pc = "get"] \in Job
    BY DEF TypeOK, Job
  <1>2. job' \in [Jobs -> Job]
    BY <1>1, JobStep DEF Begin
  <1> QED
    BY <1>2 DEF Begin, TypeOK

LEMMA NextTyped == TypeOK /\ [Next]_vars => TypeOK'
  <1> SUFFICES ASSUME TypeOK, [Next]_vars PROVE TypeOK'
    OBVIOUS
  <1>0. \A j \in Jobs : job[j] \in Job
    BY DEF TypeOK
  <1>1. ASSUME NEW j \in Jobs, BeginCommand(j)
        PROVE  TypeOK'
    <2>1. PICK kind \in Commands, mode \in Mode, rebuild \in BOOLEAN :
            Begin(j, kind, mode, rebuild, portal)
      BY <1>1 DEF BeginCommand, Commands
    <2>2. portal \in Names
      BY DEF TypeOK
    <2> QED
      BY <2>1, <2>2, BeginTyped
  <1>2. ASSUME NEW j \in Jobs, BeginSave(j)
        PROVE  TypeOK'
    <2>1. PICK mode \in Mode, n \in Names : Begin(j, "save", mode, FALSE, n)
      BY <1>2 DEF BeginSave
    <2> QED
      BY <2>1, BeginTyped
  <1>3. ASSUME NEW j \in Jobs, Get(j)
        PROVE  TypeOK'
    <2> DEFINE n == job[j].name
               read == IF cache = NoRow THEN Inserted(n, job[j].mode) ELSE cache
               p == Prepared(j, Copied(read, n))
               rec == [job[j] EXCEPT !.obj = p.obj, !.skip = p.skip, !.pc = "hash"]
    <2>1. n \in Names /\ Inserted(n, job[j].mode) \in Row /\ read \in Row
      BY <1>0, InsertedMatched DEF TypeOK, Job
    <2>2. Copied(read, n) \in Row
      BY <2>1 DEF Copied, Row
    <2>3. p.obj \in Row /\ p.skip \in BOOLEAN
      BY <2>2, PreparedTyped
    <2>4. rec \in Job
      BY <1>0, <2>3 DEF Job
    <2>5. /\ job' = [job EXCEPT ![j] = rec]
          /\ cache' \in {cache, Inserted(n, job[j].mode)} /\ holder' \in {holder, j}
          /\ UNCHANGED <<portal, renames, alone>>
      BY <1>3 DEF Get
    <2> HIDE DEF rec
    <2>6. job' \in [Jobs -> Job]
      BY <2>4, <2>5, JobStep
    <2> QED
      BY <2>1, <2>5, <2>6 DEF TypeOK
  <1>4. ASSUME NEW j \in Jobs, HashRead(j)
        PROVE  TypeOK'
    <2> DEFINE obj == job[j].obj
               existing == IF cache = NoRow THEN obj.name ELSE cache.hash
               rec == [job[j] EXCEPT !.obj = [obj EXCEPT !.hash = obj.name,
                                                         !.emb = SavedEmb(j, existing)],
                                     !.pc = "update"]
    <2>1. obj \in Row
      BY <1>0 DEF Job
    <2>2. SavedEmb(j, existing) \in Names \cup {NoEmb}
      BY <2>1 DEF SavedEmb, Row
    <2>3. rec \in Job
      BY <1>0, <2>1, <2>2 DEF Job, Row
    <2>4. job' = [job EXCEPT ![j] = rec] /\ UNCHANGED <<portal, cache, holder, renames, alone>>
      BY <1>4 DEF HashRead
    <2> HIDE DEF rec
    <2>5. job' \in [Jobs -> Job]
      BY <2>3, <2>4, JobStep
    <2> QED
      BY <2>4, <2>5 DEF TypeOK
  <1>5. ASSUME NEW j \in Jobs, Update(j)
        PROVE  TypeOK'
    <2>1. job[j].obj \in Row
      BY <1>0 DEF Job
    <2> QED
      BY <1>5, <2>1 DEF Update, Stored, TypeOK, Job
  <1>6. ASSUME NEW j \in Jobs, Commit(j)
        PROVE  TypeOK'
    <2>1. job[j].obj \in Row /\ job[j].name \in Names
      BY <1>0 DEF Job
    <2> QED
      BY <1>6, <2>1 DEF Commit, Stored, TypeOK, Job
  <1>7. ASSUME NEW j \in Jobs, Abort(j)
        PROVE  TypeOK'
    BY <1>7 DEF Abort, TypeOK, Job
  <1>8. ASSUME NEW n \in Names, Rename(n)
        PROVE  TypeOK'
    BY <1>8, SubdivisionCacheAssumption DEF Rename, TypeOK
  <1>9. CASE UNCHANGED vars
    BY <1>9 DEF vars, TypeOK
  <1> QED
    BY <1>1, <1>2, <1>3, <1>4, <1>5, <1>6, <1>7, <1>8, <1>9 DEF Next

\* Whatever the writers do, and in whatever mode each process runs, what is
\* stored and what is held in memory are rows: a name and a hash of a name, with
\* an embedding of a name or none.
THEOREM TypeCorrect == Spec => []TypeOK
  BY InitMatching, NextTyped, PTL DEF Spec

-----------------------------------------------------------------------------
\* What a writer makes of a row it has read, before save().
LEMMA PreparedMatched ==
    ASSUME NEW j \in Jobs, NEW row \in Row, TypeOK, row.emb \in {row.hash, NoEmb},
           job[j].kind = "reference" => job[j].mode \in ReferenceModes,
           ReferenceModes \subseteq {"loaded"}
    PROVE  /\ Prepared(j, row).obj \in Row /\ Matched(Prepared(j, row).obj)
           /\ Prepared(j, row).skip \in BOOLEAN
  <1>1. CASE job[j].kind = "reference"
    <2>1. job[j].mode = "loaded"
      BY <1>1
    <2> QED
      BY <1>1, <2>1 DEF Prepared, Referenced, Rebuilds, Row, Matched
  <1>2. CASE job[j].kind # "reference"
    BY <1>2 DEF Prepared, Upserted, Rebuilds, Row, Matched
  <1> QED
    BY <1>1, <1>2

LEMMA NextMatching ==
    ReferenceModes \subseteq {"loaded"} /\ TypeOK /\ Matching /\ [Next]_vars
        => TypeOK' /\ Matching'
  <1> SUFFICES ASSUME ReferenceModes \subseteq {"loaded"}, TypeOK, Matching, [Next]_vars
               PROVE  TypeOK' /\ Matching'
    OBVIOUS
  <1>1. ASSUME NEW j \in Jobs, BeginCommand(j) \/ BeginSave(j)
        PROVE  TypeOK' /\ Matching'
    <2>1. PICK kind \in Commands \cup {"save"}, mode \in Mode, rebuild \in BOOLEAN,
               n \in Names :
            /\ Begin(j, kind, mode, rebuild, n)
            /\ kind = "reference" => mode \in ReferenceModes
      <3>1. CASE BeginCommand(j)
        <4>1. PICK mode \in Mode, rebuild \in BOOLEAN :
                \/ Begin(j, "sync", mode, rebuild, portal)
                \/ mode \in ReferenceModes /\ Begin(j, "reference", mode, rebuild, portal)
          BY <3>1 DEF BeginCommand
        <4>2. portal \in Names
          BY DEF TypeOK
        <4> QED
          BY <4>1, <4>2 DEF Commands
      <3>2. CASE BeginSave(j)
        <4>1. PICK mode \in Mode, n \in Names : Begin(j, "save", mode, FALSE, n)
          BY <3>2 DEF BeginSave
        <4>2. "save" \in Commands \cup {"save"} /\ FALSE \in BOOLEAN /\ "save" # "reference"
          OBVIOUS
        <4> QED
          BY <4>1, <4>2, Zenon
      <3> QED
        BY <1>1, <3>1, <3>2
    <2> DEFINE rec == [job[j] EXCEPT !.kind = kind, !.mode = mode, !.rebuild = rebuild,
                                     !.name = n, !.pc = "get"]
    <2>2. rec \in Job /\ rec.obj = job[j].obj /\ rec.kind = kind /\ rec.mode = mode
      BY DEF TypeOK, Job
    <2>3. job' = [job EXCEPT ![j] = rec]
      BY <2>1 DEF Begin
    <2> HIDE DEF rec
    <2>4. /\ job' \in [Jobs -> Job]
          /\ \A k \in Jobs : job'[k] = IF k = j THEN rec ELSE job[k]
      BY <2>2, <2>3, JobStep
    <2>5. /\ UNCHANGED <<portal, cache, holder, renames>>
          /\ alone' \subseteq Jobs
      BY <2>1 DEF Begin
    <2> QED
      BY <2>1, <2>2, <2>4, <2>5 DEF TypeOK, Matching, Matched
  <1>2. ASSUME NEW j \in Jobs, Get(j)
        PROVE  TypeOK' /\ Matching'
    <2> DEFINE n == job[j].name
               read == IF cache = NoRow THEN Inserted(n, job[j].mode) ELSE cache
               p == Prepared(j, Copied(read, n))
    <2>1. n \in Names
      BY DEF TypeOK, Job
    <2>2. read \in Row /\ Matched(read)
      BY <2>1, InsertedMatched DEF TypeOK, Job, Matching
    <2>3. Copied(read, n) \in Row /\ Copied(read, n).emb \in {Copied(read, n).hash, NoEmb}
      BY <2>1, <2>2 DEF Copied, Row, Matched
    <2>4. p.obj \in Row /\ Matched(p.obj) /\ p.skip \in BOOLEAN
      BY <2>3, PreparedMatched DEF Matching
    <2> DEFINE rec == [job[j] EXCEPT !.obj = p.obj, !.skip = p.skip, !.pc = "hash"]
    <2>5. rec \in Job /\ rec.obj = p.obj /\ rec.kind = job[j].kind /\ rec.mode = job[j].mode
      <3>1. job[j] \in Job
        BY DEF TypeOK
      <3> HIDE DEF p
      <3> QED
        BY <2>4, <3>1 DEF Job
    <2>6. /\ job' = [job EXCEPT ![j] = rec]
          /\ cache' \in {cache, Inserted(n, job[j].mode)} /\ holder' \in {holder, j}
          /\ UNCHANGED <<portal, renames, alone>>
      BY <1>2 DEF Get
    <2>7. cache' \in Row \cup {NoRow} /\ (cache' # NoRow => Matched(cache'))
      BY <2>1, <2>6, InsertedMatched DEF TypeOK, Job, Matching
    <2> HIDE DEF rec, p
    <2>8. /\ job' \in [Jobs -> Job]
          /\ \A k \in Jobs : job'[k] = IF k = j THEN rec ELSE job[k]
      BY <2>5, <2>6, JobStep
    <2> QED
      BY <2>4, <2>5, <2>6, <2>7, <2>8 DEF TypeOK, Matching
  <1>3. ASSUME NEW j \in Jobs, HashRead(j)
        PROVE  TypeOK' /\ Matching'
    <2> DEFINE obj == job[j].obj
               existing == IF cache = NoRow THEN obj.name ELSE cache.hash
               new == [obj EXCEPT !.hash = obj.name, !.emb = SavedEmb(j, existing)]
               rec == [job[j] EXCEPT !.obj = new, !.pc = "update"]
    <2>1. obj \in Row /\ Matched(obj)
      BY DEF TypeOK, Matching, Job
    <2>2. SavedEmb(j, existing) \in {obj.name, NoEmb}
      BY <2>1 DEF SavedEmb, Matched
    <2>3. new \in Row /\ Matched(new)
      BY <2>1, <2>2 DEF Row, Matched
    <2>4. rec \in Job /\ rec.obj = new /\ rec.kind = job[j].kind /\ rec.mode = job[j].mode
      BY <2>3 DEF TypeOK, Job
    <2>5. job' = [job EXCEPT ![j] = rec] /\ UNCHANGED <<portal, cache, holder, renames, alone>>
      BY <1>3 DEF HashRead
    <2> HIDE DEF rec, new
    <2>6. /\ job' \in [Jobs -> Job]
          /\ \A k \in Jobs : job'[k] = IF k = j THEN rec ELSE job[k]
      BY <2>4, <2>5, JobStep
    <2> QED
      BY <2>3, <2>4, <2>5, <2>6 DEF TypeOK, Matching, Matched
  <1>4. ASSUME NEW j \in Jobs, Update(j)
        PROVE  TypeOK' /\ Matching'
    <2>1. /\ job' \in [Jobs -> Job]
          /\ \A k \in Jobs : /\ job'[k].obj = job[k].obj /\ job'[k].kind = job[k].kind
                             /\ job'[k].mode = job[k].mode
      BY <1>4 DEF Update, TypeOK, Job
    <2>2. cache' \in {cache, job[j].obj} /\ job[j].obj \in Row /\ holder' \in {holder, j}
      BY <1>4 DEF Update, Stored, TypeOK, Job
    <2> QED
      BY <1>4, <2>1, <2>2 DEF Update, TypeOK, Matching, Matched
  <1>5. ASSUME NEW j \in Jobs, Commit(j)
        PROVE  TypeOK' /\ Matching'
    <2>1. /\ job' \in [Jobs -> Job]
          /\ \A k \in Jobs : /\ job'[k].obj = job[k].obj /\ job'[k].kind = job[k].kind
                             /\ job'[k].mode = job[k].mode
      BY <1>5 DEF Commit, TypeOK, Job
    <2>2. cache' \in {cache, job[j].obj} /\ job[j].obj \in Row /\ holder' \in {holder, NoJob}
      BY <1>5 DEF Commit, Stored, TypeOK, Job
    <2>3. portal' \in Names
      BY <1>5 DEF Commit, TypeOK, Job
    <2> QED
      BY <1>5, <2>1, <2>2, <2>3 DEF Commit, TypeOK, Matching, Matched
  <1>6. ASSUME NEW j \in Jobs, Abort(j)
        PROVE  TypeOK' /\ Matching'
    BY <1>6 DEF Abort, TypeOK, Matching, Job
  <1>7. ASSUME NEW n \in Names, Rename(n)
        PROVE  TypeOK' /\ Matching'
    BY <1>7, SubdivisionCacheAssumption DEF Rename, TypeOK, Matching
  <1>8. CASE UNCHANGED vars
    BY <1>8 DEF vars, TypeOK, Matching
  <1> QED
    BY <1>1, <1>2, <1>3, <1>4, <1>5, <1>6, <1>7, <1>8 DEF Next

\* EmbeddingMatches holds however saves and commands overlap and abort: a vector
\* in the cache is never of another name than the one beside it.  The hypothesis
\* is needed: without its model sync_portal_reference keeps the old vector.
THEOREM EmbeddingsBelong ==
    ASSUME ReferenceModes \subseteq {"loaded"}
    PROVE  Spec => []EmbeddingMatches
  <1>1. TypeOK /\ Matching => EmbeddingMatches
    BY DEF Matching, Matched, EmbeddingMatches
  <1> QED
    BY InitMatching, NextMatching, <1>1, PTL DEF Spec

-----------------------------------------------------------------------------
\* What a job holds once it has read the row: the name it came with and, if it
\* has a model, the embedding of that name.
FilledJob(b) == b.pc \in {"hash", "update", "commit"} =>
                  /\ b.obj.name = b.name
                  /\ b.mode = "loaded" => b.obj.emb = b.name

Filled == \A j \in Jobs : FilledJob(job[j])

\* Nothing has come between the steps of the job that is alone.
Undisturbed ==
    \A j \in alone :
        /\ \A k \in Jobs \ {j} : ~InFlight(k)
        /\ InFlight(j) /\ job[j].kind \in Commands => job[j].name = portal
        /\ At(j, "commit") /\ job[j].kind = "save" => cache = job[j].obj

Repaired == TypeOK /\ Matching /\ Filled /\ Undisturbed

LEMMA InitRepaired == Init => Repaired
  <1> SUFFICES ASSUME Init PROVE Repaired
    OBVIOUS
  <1>1. alone = {} /\ \A j \in Jobs : job[j].pc = "ready"
    BY DEF Init
  <1>2. Filled /\ Undisturbed
    BY <1>1 DEF Filled, FilledJob, Undisturbed
  <1> QED
    BY <1>2, InitMatching DEF Repaired

\* With a model both writers end up with the embedding of the name.
LEMMA PreparedFilled ==
    ASSUME NEW j \in Jobs, NEW row \in Row, row.emb \in {row.hash, NoEmb}
    PROVE  /\ Prepared(j, row).obj.name = row.name
           /\ job[j].mode = "loaded" => Prepared(j, row).obj.emb = row.name
  <1>1. CASE job[j].kind = "reference"
    BY <1>1 DEF Prepared, Referenced, Rebuilds, Row
  <1>2. CASE job[j].kind # "reference"
    BY <1>2 DEF Prepared, Upserted, Rebuilds, Row
  <1> QED
    BY <1>1, <1>2

LEMMA NextRepaired ==
    ReferenceModes \subseteq {"loaded"} /\ Repaired /\ [Next]_vars => Repaired'
  <1> SUFFICES ASSUME ReferenceModes \subseteq {"loaded"}, Repaired, [Next]_vars
               PROVE  Repaired'
    OBVIOUS
  <1> USE DEF Repaired
  <1>0. TypeOK' /\ Matching'
    BY NextMatching
  <1>1. ASSUME NEW j \in Jobs, BeginCommand(j) \/ BeginSave(j)
        PROVE  Filled' /\ Undisturbed'
    <2>1. PICK kind, mode, rebuild, n :
            Begin(j, kind, mode, rebuild, n) /\ (kind \in Commands => n = portal)
      <3>1. CASE BeginCommand(j)
        BY <3>1, Zenon DEF BeginCommand
      <3>2. CASE BeginSave(j)
        <4>1. PICK mode, n : Begin(j, "save", mode, FALSE, n)
          BY <3>2 DEF BeginSave
        <4>2. "save" \notin Commands
          BY DEF Commands
        <4> QED
          BY <4>1, <4>2, Zenon
      <3> QED
        BY <1>1, <3>1, <3>2
    <2> DEFINE rec == [job[j] EXCEPT !.kind = kind, !.mode = mode, !.rebuild = rebuild,
                                     !.name = n, !.pc = "get"]
    <2>2. rec.pc = "get" /\ rec.kind = kind /\ rec.name = n
      BY DEF TypeOK, Job
    <2>3. job' = [job EXCEPT ![j] = rec]
      BY <2>1 DEF Begin
    <2> HIDE DEF rec
    <2>4. \A k \in Jobs : job'[k] = IF k = j THEN rec ELSE job[k]
      BY <2>3 DEF TypeOK
    <2>5. Filled'
      BY <2>2, <2>4 DEF Filled, FilledJob
    <2>6. /\ UNCHANGED <<portal, cache>>
          /\ alone' = IF \E k \in Jobs : InFlight(k) THEN {} ELSE {j}
      BY <2>1 DEF Begin
    <2>7. Undisturbed'
      BY <2>1, <2>2, <2>4, <2>6 DEF Undisturbed, InFlight, At
    <2> QED
      BY <2>5, <2>7
  <1>2. ASSUME NEW j \in Jobs, Get(j)
        PROVE  Filled' /\ Undisturbed'
    <2> DEFINE n == job[j].name
               read == IF cache = NoRow THEN Inserted(n, job[j].mode) ELSE cache
               p == Prepared(j, Copied(read, n))
               rec == [job[j] EXCEPT !.obj = p.obj, !.skip = p.skip, !.pc = "hash"]
    <2>1. n \in Names /\ read \in Row /\ Matched(read)
      BY InsertedMatched DEF TypeOK, Matching, Job
    <2>2. /\ Copied(read, n) \in Row /\ Copied(read, n).name = n
          /\ Copied(read, n).emb \in {Copied(read, n).hash, NoEmb}
      BY <2>1 DEF Copied, Row, Matched
    <2>3. p.obj.name = n /\ (job[j].mode = "loaded" => p.obj.emb = n)
      BY <2>2, PreparedFilled
    <2>4. FilledJob(rec) /\ rec.pc = "hash" /\ rec.kind = job[j].kind /\ rec.name = n
      BY <2>3 DEF TypeOK, Job, FilledJob
    <2>5. /\ job' = [job EXCEPT ![j] = rec]
          /\ At(j, "get") /\ UNCHANGED <<portal, alone>>
      BY <1>2 DEF Get
    <2> HIDE DEF rec, p
    <2>6. \A k \in Jobs : job'[k] = IF k = j THEN rec ELSE job[k]
      BY <2>5 DEF TypeOK
    <2>7. Filled'
      BY <2>4, <2>6 DEF Filled
    <2>8. alone \subseteq {j}
      BY <2>5 DEF Undisturbed, InFlight, At, TypeOK
    <2>9. Undisturbed'
      BY <2>4, <2>5, <2>6, <2>8 DEF Undisturbed, InFlight, At
    <2> QED
      BY <2>7, <2>9
  <1>3. ASSUME NEW j \in Jobs, HashRead(j)
        PROVE  Filled' /\ Undisturbed'
    <2> DEFINE obj == job[j].obj
               existing == IF cache = NoRow THEN obj.name ELSE cache.hash
               new == [obj EXCEPT !.hash = obj.name, !.emb = SavedEmb(j, existing)]
               rec == [job[j] EXCEPT !.obj = new, !.pc = "update"]
    <2>1. /\ obj \in Row /\ obj.name = job[j].name
          /\ job[j].mode = "loaded" => obj.emb = job[j].name
      BY <1>3 DEF HashRead, At, TypeOK, Filled, FilledJob, Job
    <2>2. job[j].mode = "loaded" => SavedEmb(j, existing) = job[j].name
      BY <2>1 DEF SavedEmb
    <2>3. new.name = job[j].name /\ (job[j].mode = "loaded" => new.emb = job[j].name)
      BY <2>1, <2>2 DEF Row
    <2>4. FilledJob(rec) /\ rec.pc = "update" /\ rec.kind = job[j].kind /\ rec.name = job[j].name
      BY <2>3 DEF TypeOK, Job, FilledJob
    <2>5. /\ job' = [job EXCEPT ![j] = rec]
          /\ At(j, "hash") /\ UNCHANGED <<portal, alone>>
      BY <1>3 DEF HashRead
    <2> HIDE DEF rec, new
    <2>6. \A k \in Jobs : job'[k] = IF k = j THEN rec ELSE job[k]
      BY <2>5 DEF TypeOK
    <2>7. Filled'
      BY <2>4, <2>6 DEF Filled
    <2>8. alone \subseteq {j}
      BY <2>5 DEF Undisturbed, InFlight, At, TypeOK
    <2>9. Undisturbed'
      BY <2>4, <2>5, <2>6, <2>8 DEF Undisturbed, InFlight, At
    <2> QED
      BY <2>7, <2>9
  <1>4. ASSUME NEW j \in Jobs, Update(j)
        PROVE  Filled' /\ Undisturbed'
    <2> DEFINE rec == [job[j] EXCEPT !.pc = "commit"]
    <2>1. /\ rec.obj = job[j].obj /\ rec.pc = "commit" /\ rec.kind = job[j].kind
          /\ rec.name = job[j].name /\ rec.mode = job[j].mode
      BY DEF TypeOK, Job
    <2>2. /\ job' = [job EXCEPT ![j] = rec]
          /\ At(j, "update") /\ UNCHANGED <<portal, alone>>
          /\ job[j].kind = "save" => cache' = job[j].obj
      BY <1>4 DEF Update, Stored, Commands
    <2> HIDE DEF rec
    <2>3. \A k \in Jobs : job'[k] = IF k = j THEN rec ELSE job[k]
      BY <2>2 DEF TypeOK
    <2>4. Filled'
      BY <2>1, <2>2, <2>3 DEF Filled, FilledJob, At
    <2>5. alone \subseteq {j}
      BY <2>2 DEF Undisturbed, InFlight, At, TypeOK
    <2>6. Undisturbed'
      BY <2>1, <2>2, <2>3, <2>5 DEF Undisturbed, InFlight, At
    <2> QED
      BY <2>4, <2>6
  <1>5. ASSUME NEW j \in Jobs, Commit(j) \/ Abort(j)
        PROVE  Filled' /\ Undisturbed'
    <2> DEFINE rec == [job[j] EXCEPT !.pc = "over"]
    <2>1. rec.pc = "over"
      BY DEF TypeOK, Job
    <2>2. job' = [job EXCEPT ![j] = rec] /\ InFlight(j) /\ alone' \subseteq alone
      BY <1>5 DEF Commit, Abort, InFlight, At
    <2> HIDE DEF rec
    <2>3. \A k \in Jobs : job'[k] = IF k = j THEN rec ELSE job[k]
      BY <2>2 DEF TypeOK
    <2>4. Filled'
      BY <2>1, <2>3 DEF Filled, FilledJob
    <2>5. alone \subseteq {j}
      BY <2>2 DEF Undisturbed, TypeOK
    <2>6. Undisturbed'
      BY <2>1, <2>2, <2>3, <2>5 DEF Undisturbed, InFlight, At
    <2> QED
      BY <2>4, <2>6
  <1>6. ASSUME NEW n \in Names, Rename(n)
        PROVE  Filled' /\ Undisturbed'
    <2>1. alone' = {} /\ job' = job
      BY <1>6 DEF Rename
    <2> QED
      BY <2>1 DEF Filled, Undisturbed
  <1>7. CASE UNCHANGED vars
    <2>1. UNCHANGED <<portal, cache, job, alone>>
      BY <1>7 DEF vars
    <2>2. Filled'
      BY <2>1 DEF Filled, FilledJob
    <2>3. Undisturbed'
      BY <2>1 DEF Undisturbed, InFlight, At
    <2> QED
      BY <1>0, <2>2, <2>3
  <1> QED
    BY <1>0, <1>1, <1>2, <1>3, <1>4, <1>5, <1>6, <1>7 DEF Next

\* The step that ends a save or a command.
LEMMA EndRepairs ==
    ASSUME Repaired, Next, NEW j \in Jobs, Ends(j)
    PROVE  /\ cache'.name = portal'
           /\ job[j].mode = "loaded" => cache'.emb = portal'
  <1>1. Commit(j)
    <2>1. job'[j] # job[j] /\ At(j, "commit") /\ j \in alone'
      BY DEF Ends, At
    <2>3. \A k \in Jobs : Get(k) \/ HashRead(k) \/ Update(k) \/ Commit(k) \/ Abort(k) => k = j
      BY <2>1 DEF Get, HashRead, Update, Commit, Abort, Repaired, TypeOK
    <2>4. ~\E n \in Names : Rename(n)
      BY <2>1 DEF Rename
    <2>5. ~(BeginCommand(j) \/ BeginSave(j) \/ Get(j) \/ HashRead(j) \/ Update(j) \/ Abort(j))
      BY <2>1 DEF BeginCommand, BeginSave, Begin, Get, HashRead, Update, Abort, At
    <2>6. \A k \in Jobs : BeginCommand(k) \/ BeginSave(k) => k = j
      BY <2>1 DEF BeginCommand, BeginSave, Begin, Repaired, TypeOK
    <2> QED
      BY <2>3, <2>4, <2>5, <2>6 DEF Next
  <1>2. /\ j \in alone /\ At(j, "commit") /\ job[j].kind \in Commands \cup {"save"}
        /\ job[j].obj.name = job[j].name
        /\ job[j].mode = "loaded" => job[j].obj.emb = job[j].name
    BY <1>1 DEF Commit, Ends, Repaired, TypeOK, Job, Filled, FilledJob, At
  <1>3. CASE job[j].kind \in Commands
    <2>1. cache' = job[j].obj /\ portal' = portal
      BY <1>1, <1>3 DEF Commit, Stored
    <2>2. InFlight(j)
      BY <1>2 DEF InFlight, At
    <2>3. job[j].name = portal
      BY <1>2, <1>3, <2>2 DEF Repaired, Undisturbed
    <2> QED
      BY <1>2, <2>1, <2>3
  <1>4. CASE job[j].kind = "save"
    BY <1>1, <1>2, <1>4 DEF Commit, Commands, Repaired, Undisturbed, At
  <1> QED
    BY <1>2, <1>3, <1>4

\* OneRunRepairs: after any history, one save or command with nothing beside it
\* leaves the cache as the portal is, with its embedding if it has a model.
THEOREM OneRunSuffices ==
    ASSUME ReferenceModes \subseteq {"loaded"}
    PROVE  Spec => OneRunRepairs
  <1> DEFINE Repairs == \A j \in Jobs : Ends(j) =>
                          /\ cache'.name = portal'
                          /\ job[j].mode = "loaded" => cache'.emb = portal'
  <1>1. Repaired /\ [Next]_vars => [Repairs]_vars
    BY EndRepairs
  <1> HIDE DEF Repairs
  <1>2. Spec => [][Repairs]_vars
    BY InitRepaired, NextRepaired, <1>1, PTL DEF Spec
  <1> QED
    BY <1>2 DEF OneRunRepairs, Repairs

=============================================================================

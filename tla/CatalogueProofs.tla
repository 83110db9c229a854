--------------------------- MODULE CatalogueProofs ---------------------------
(***************************************************************************)
(* Proofs about the metadata schemas, metadata writes, folders and file    *)
(* listing of a project, for any number of concurrent requests and         *)
(* failures, any schemas, merge, names and depth of folders, and any       *)
(* number of files and page size.                                          *)
(***************************************************************************)
EXTENDS Catalogue, FiniteSets, FiniteSetTheorems, SequenceTheorems, WellFoundedInduction, TLAPS

\* The parts of a step that touch something other than the request's own call.
Kept == UNCHANGED <<schemas, meta>>

\* A request that begins holds the record it is given.
LEMMA BeginStep ==
  ASSUME TypeOK, NEW h \in Handler, NEW c, Begin(h, c)
  PROVE  /\ call' = [call EXCEPT ![h] = c] /\ call'[h] = c
         /\ requests' \in Nat /\ UNCHANGED faults /\ Kept
  BY DEF Begin, TypeOK, Kept

\* The committed rows are numbered from 1.
LEMMA RowType ==
  ASSUME TypeOK
  PROVE  /\ Rows = 1..Len(schemas)
         /\ Len(schemas) \in Nat
         /\ \A i \in Rows : schemas[i] \in Row
  BY DEF TypeOK, Rows

\* What a version is computed from.
LEMMA MaxVersionNat ==
  ASSUME TypeOK, NEW max \in MaxVersion
  PROVE  max \in Nat
  <1>1. \A i \in Rows : schemas[i] \in Row
    BY RowType
  <1>2. \A i \in Rows : schemas[i].version \in Nat
    BY <1>1 DEF Row
  <1>3. QED
    BY <1>2 DEF MaxVersion

\* The shape of a call follows from its op.
LEMMA CallShape ==
  ASSUME TypeOK, NEW h \in Handler
  PROVE  /\ call[h].op \in {"number", "deactivate"} => call[h] \in Creating
         /\ call[h].op \in {"put", "patch"} => call[h] \in Writing
         /\ call[h] \in Creating => call[h] # Idle /\ call[h] \notin Writing
         /\ call[h] \in Writing => call[h] # Idle
  BY DEF TypeOK, Idle, Creating, Writing

\* The committed rows after a create.
LEMMA CreateRows ==
  ASSUME TypeOK, NEW h \in Handler, create(h)
  PROVE  /\ schemas' \in Seq(Row)
         /\ Len(schemas') = Len(schemas) + 1
         /\ \A i \in Rows : /\ schemas'[i].version = schemas[i].version
                            /\ schemas'[i].body = schemas[i].body
                            /\ schemas'[i].after = schemas[i].after
                            /\ schemas'[i].active <=> /\ schemas[i].active
                                                      /\ i \notin call[h].locked
         /\ schemas'[Len(schemas) + 1].version = call[h].version
         /\ schemas'[Len(schemas) + 1].after = call[h].after
         /\ Rows = 1..Len(schemas) /\ Rows' = 1..(Len(schemas) + 1)
         /\ call[h] \in Creating /\ call[h].op = "deactivate" /\ call[h].todo = {}
         /\ call' = [call EXCEPT ![h] = Idle]
         /\ UNCHANGED <<meta, requests, faults>>
  <1> DEFINE c == call[h]
             new == [version |-> c.version, body |-> c.body, active |-> TRUE, after |-> c.after]
             old == Deactivated(c.locked)
  <1>1. c \in Creating
    BY CallShape DEF create
  <1>2. /\ schemas' = Append(old, new) /\ c.op = "deactivate" /\ c.todo = {}
        /\ call' = [call EXCEPT ![h] = Idle]
        /\ UNCHANGED <<meta, requests, faults>>
    BY DEF create
  <1>3. Rows = 1..Len(schemas) /\ Len(schemas) \in Nat
    BY RowType
  <1>4. /\ old \in [1..Len(schemas) -> Row]
        /\ \A i \in Rows : /\ old[i].version = schemas[i].version
                           /\ old[i].body = schemas[i].body
                           /\ old[i].after = schemas[i].after
                           /\ old[i].active <=> /\ schemas[i].active
                                                /\ i \notin c.locked
    <2>1. ASSUME NEW i \in Rows
          PROVE  /\ old[i] = [schemas[i] EXCEPT !.active = @ /\ i \notin c.locked]
                 /\ schemas[i] \in Row
      BY RowType DEF Deactivated
    <2>2. ASSUME NEW i \in Rows
          PROVE  /\ old[i] \in Row
                 /\ old[i].version = schemas[i].version
                 /\ old[i].body = schemas[i].body
                 /\ old[i].after = schemas[i].after
                 /\ old[i].active <=> schemas[i].active /\ i \notin c.locked
      BY <2>1 DEF Row
    <2>3. old \in [1..Len(schemas) -> Row]
      BY <1>3, <2>2 DEF Deactivated
    <2>4. QED
      BY <2>2, <2>3
  <1>5. old \in Seq(Row) /\ Len(old) = Len(schemas)
    BY <1>4 DEF TypeOK
  <1>6. new \in Row
    BY <1>1 DEF Creating, Row
  <1>7. QED
    BY <1>1, <1>2, <1>3, <1>4, <1>5, <1>6 DEF Rows

\* The history of a step: an open request sees what the step leaves behind.
LEMMA WatchStep ==
  ASSUME TypeOK, Watch, schemas' \in Seq(Row), meta' \in Meta
  PROVE  /\ during' \in [Handler -> SUBSET [meta : Meta, laws : SUBSET Schema]]
         /\ \A h \in Handler : call'[h] # Idle => /\ Now' \in during'[h]
                                                 /\ during[h] \subseteq during'[h]
  <1>0. \A i \in DOMAIN schemas' : schemas'[i] \in Row
    OBVIOUS
  <1>1. \A i \in DOMAIN schemas' : schemas'[i].body \in Schema
    BY <1>0 DEF Row
  <1>2. Now' \in [meta : Meta, laws : SUBSET Schema]
    BY <1>1 DEF Now, Laws, Active, Rows
  <1>3. QED
    BY <1>2 DEF Watch, TypeOK

\* What a metadata request writes is metadata.
LEMMA ResultType ==
  ASSUME TypeOK, NEW h \in Handler, call[h] \in Writing, call[h].base # NoMeta
  PROVE  Result(call[h]) \in Meta
  BY MetadataAssumption DEF Writing, Result

\* A request changes its own call only.
LEMMA OneCall ==
  ASSUME TypeOK, Watch, NEW h \in Handler, NEW d \in {Idle} \cup Creating \cup Writing,
         call' = [call EXCEPT ![h] = d],
         schemas' \in Seq(Row), meta' \in Meta, requests' \in Nat, faults' \in Nat,
         Len(schemas) <= Len(schemas'),
         d \in Creating => /\ d.todo \cup d.locked \subseteq 1..Len(schemas')
                          /\ d.after <= Len(schemas')
                          /\ \A g \in Handler : g # h /\ call[g] \in Creating =>
                               call[g].locked \cap d.locked = {}
  PROVE  TypeOK'
  <1>2. call' \in [Handler -> {Idle} \cup Creating \cup Writing]
    BY DEF TypeOK
  <1>3. /\ Rows = 1..Len(schemas) /\ Rows' = 1..Len(schemas')
        /\ Len(schemas) \in Nat /\ Len(schemas') \in Nat
    BY RowType DEF Rows
  <1>4. Rows \subseteq Rows'
    BY <1>3
  <1>5. ASSUME NEW g \in Handler, call'[g] \in Creating
        PROVE  /\ call'[g].todo \cup call'[g].locked \subseteq Rows'
               /\ call'[g].after <= Len(schemas')
    <2>1. CASE g = h
      BY <1>3, <1>5, <2>1 DEF TypeOK
    <2>2. CASE g # h
      <3>1. call'[g] = call[g]
        BY <2>2 DEF TypeOK
      <3>2. /\ call[g].todo \cup call[g].locked \subseteq Rows
            /\ call[g].after <= Len(schemas) /\ call[g].after \in Nat
        BY <1>5, <3>1 DEF TypeOK, Creating
      <3>3. QED
        BY <1>3, <1>4, <3>1, <3>2
    <2>3. QED
      BY <2>1, <2>2
  <1>6. ASSUME NEW f \in Handler, NEW g \in Handler, f # g,
               call'[f] \in Creating, call'[g] \in Creating
        PROVE  call'[f].locked \cap call'[g].locked = {}
    BY <1>6 DEF TypeOK
  <1>7. during' \in [Handler -> SUBSET [meta : Meta, laws : SUBSET Schema]]
    BY WatchStep
  <1>8. QED
    BY <1>2, <1>5, <1>6, <1>7 DEF TypeOK

\* The calls keep their shapes, and no two transactions hold the same row lock.
LEMMA TypeStep ==
  ASSUME TypeOK, [Next]_vars
  PROVE  TypeOK'
  <1>1. CASE UNCHANGED vars
    BY <1>1 DEF vars, TypeOK, Rows
  <1>2. ASSUME NEW h \in Handler, Create(h) \/ Write(h) \/ stop(h), Watch
        PROVE  TypeOK'
    <2> DEFINE c == call[h]
    <2>2. /\ schemas \in Seq(Row) /\ meta \in Meta /\ requests \in Nat /\ faults \in Nat
          /\ Rows = 1..Len(schemas) /\ Len(schemas) \in Nat
      BY RowType DEF TypeOK
    <2>3. c \in Creating => /\ c.todo \cup c.locked \subseteq 1..Len(schemas)
                            /\ c.after <= Len(schemas)
                            /\ \A g \in Handler : g # h /\ call[g] \in Creating =>
                                 call[g].locked \cap c.locked = {}
      BY <2>2 DEF TypeOK
    <2>4. CASE create_schema(h)
      <3>1. PICK body \in Schema, max \in MaxVersion :
              Begin(h, [op |-> "number", body |-> body, version |-> max + 1,
                        after |-> Len(schemas), todo |-> {}, locked |-> {}])
        BY <2>4 DEF create_schema
      <3>2. max \in Nat
        BY MaxVersionNat
      <3> DEFINE d == [op |-> "number", body |-> body, version |-> max + 1,
                       after |-> Len(schemas), todo |-> {}, locked |-> {}]
      <3>3. d \in Creating
        BY <2>2, <3>2 DEF Creating
      <3>4. call' = [call EXCEPT ![h] = d] /\ Kept /\ requests' \in Nat /\ UNCHANGED faults
        BY <3>1, BeginStep
      <3>5. QED
        <4>1. /\ Len(schemas) <= Len(schemas') /\ requests' \in Nat /\ faults' \in Nat
              /\ schemas' \in Seq(Row) /\ meta' \in Meta /\ Watch
          BY <1>2, <2>2, <3>4 DEF Kept
        <4>2. QED
          BY <2>2, <3>3, <3>4, <4>1, OneCall DEF Kept
    <2>5. CASE deactivate_all(h)
      <3>1. c \in Creating
        BY <2>5, CallShape DEF deactivate_all
      <3> DEFINE d == [c EXCEPT !.op = "deactivate", !.todo = Active]
      <3>2. call' = [call EXCEPT ![h] = d] /\ UNCHANGED <<schemas, meta, requests, faults>>
        BY <2>5 DEF deactivate_all
      <3>3. d \in Creating /\ d.locked = c.locked /\ d.after = c.after /\ d.todo = Active
        <4>1. Active \in SUBSET Nat
          BY <2>2 DEF Active
        <4>2. QED
          BY <3>1, <4>1 DEF Creating
      <3>4. QED
        <4>1. /\ Len(schemas) <= Len(schemas') /\ requests' \in Nat /\ faults' \in Nat
              /\ schemas' \in Seq(Row) /\ meta' \in Meta /\ Watch
          BY <1>2, <2>2, <3>2
        <4>2. QED
          BY <2>2, <2>3, <3>1, <3>2, <3>3, <4>1, OneCall DEF Active
    <2>6. CASE lock_row(h)
      <3>1. c \in Creating
        BY <2>6, CallShape DEF lock_row
      <3>2. PICK i \in c.todo :
              /\ ~ Locked(i)
              /\ call' = [call EXCEPT ![h].todo = @ \ {i},
                                      ![h].locked = IF schemas[i].active THEN @ \cup {i} ELSE @]
        BY <2>6 DEF lock_row
      <3> DEFINE d == [c EXCEPT !.todo = @ \ {i},
                                !.locked = IF schemas[i].active THEN @ \cup {i} ELSE @]
      <3>3. call' = [call EXCEPT ![h] = d] /\ UNCHANGED <<schemas, meta, requests, faults>>
        BY <2>6, <3>2 DEF lock_row
      <3>4. /\ d \in Creating /\ d.locked \subseteq c.locked \cup {i}
            /\ d.after = c.after /\ d.todo \subseteq c.todo
        BY <2>2, <2>3, <3>1 DEF Creating
      <3>5. \A g \in Handler : call[g] \in Creating /\ g # h => i \notin call[g].locked
        BY <3>2 DEF Locked, Creating
      <3>6. QED
        <4>1. /\ Len(schemas) <= Len(schemas') /\ requests' \in Nat /\ faults' \in Nat
              /\ schemas' \in Seq(Row) /\ meta' \in Meta /\ Watch
          BY <1>2, <2>2, <3>3
        <4>2. /\ d.todo \cup d.locked \subseteq 1..Len(schemas')
              /\ d.after <= Len(schemas')
          BY <2>3, <3>1, <3>3, <3>4
        <4>3. \A g \in Handler : g # h /\ call[g] \in Creating => call[g].locked \cap d.locked = {}
          BY <2>3, <3>1, <3>4, <3>5
        <4>4. QED
          BY <3>3, <3>4, <4>1, <4>2, <4>3, OneCall
    <2>7. CASE create(h)
      <3>1. /\ schemas' \in Seq(Row) /\ Len(schemas') = Len(schemas) + 1
            /\ call' = [call EXCEPT ![h] = Idle] /\ UNCHANGED <<meta, requests, faults>>
        BY <2>7, CreateRows
      <3>2. Idle \notin Creating
        BY DEF Idle, Creating
      <3>3. QED
        <4>1. /\ Len(schemas) <= Len(schemas') /\ requests' \in Nat /\ faults' \in Nat
              /\ schemas' \in Seq(Row) /\ meta' \in Meta /\ Watch
          BY <1>2, <2>2, <3>1
        <4>2. QED
          BY <3>1, <3>2, <4>1, OneCall
    <2>8. CASE update_metadata(h) \/ merge_metadata(h)
      <3>1. PICK op \in {"put", "patch"}, m \in Meta :
              Begin(h, [op |-> op, input |-> m, base |-> NoMeta, checked |-> FALSE])
        BY <2>8 DEF update_metadata, merge_metadata
      <3> DEFINE d == [op |-> op, input |-> m, base |-> NoMeta, checked |-> FALSE]
      <3>2. d \in Writing /\ d \notin Creating
        BY DEF Writing, Creating
      <3>3. call' = [call EXCEPT ![h] = d] /\ Kept /\ requests' \in Nat /\ UNCHANGED faults
        BY <3>1, BeginStep
      <3>4. QED
        <4>1. /\ Len(schemas) <= Len(schemas') /\ requests' \in Nat /\ faults' \in Nat
              /\ schemas' \in Seq(Row) /\ meta' \in Meta /\ Watch
          BY <1>2, <2>2, <3>3 DEF Kept
        <4>2. QED
          BY <3>2, <3>3, <4>1, OneCall
    <2>9. CASE get(h) \/ validate(h)
      <3>1. c \in Writing
        BY <2>9, CallShape DEF get, validate, MayValidate
      <3>2. PICK d \in {[c EXCEPT !.base = meta], [c EXCEPT !.checked = TRUE]} :
              call' = [call EXCEPT ![h] = d]
        BY <2>9 DEF get, validate
      <3>3. d \in Writing /\ d \notin Creating
        BY <2>2, <3>1 DEF Writing, Creating
      <3>4. UNCHANGED <<schemas, meta, requests, faults>>
        BY <2>9 DEF get, validate
      <3>5. QED
        <4>1. /\ Len(schemas) <= Len(schemas') /\ requests' \in Nat /\ faults' \in Nat
              /\ schemas' \in Seq(Row) /\ meta' \in Meta /\ Watch
          BY <1>2, <2>2, <3>4
        <4>2. QED
          BY <3>2, <3>3, <4>1, OneCall
    <2>10. CASE refuse(h) \/ commit(h) \/ stop(h)
      <3>1. /\ call' = [call EXCEPT ![h] = Idle] /\ UNCHANGED <<schemas, requests>>
            /\ faults' \in Nat
        BY <2>2, <2>10 DEF refuse, commit, stop
      <3>2. meta' \in Meta
        <4>1. CASE commit(h)
          BY <2>2, <4>1, CallShape, ResultType DEF commit
        <4>2. CASE refuse(h) \/ stop(h)
          BY <2>2, <4>2 DEF refuse, stop
        <4>3. QED
          BY <2>10, <4>1, <4>2
      <3>3. Idle \notin Creating
        BY DEF Idle, Creating
      <3>4. QED
        <4>1. /\ Len(schemas) <= Len(schemas') /\ requests' \in Nat /\ faults' \in Nat
              /\ schemas' \in Seq(Row) /\ meta' \in Meta /\ Watch
          BY <1>2, <2>2, <3>1, <3>2
        <4>2. QED
          BY <3>1, <3>3, <4>1, OneCall
    <2>11. QED
      BY <1>2, <2>4, <2>5, <2>6, <2>7, <2>8, <2>9, <2>10 DEF Create, Write
  <1>3. QED
    BY <1>1, <1>2 DEF Next

\* The type invariant holds initially.
LEMMA TypeInit == Init => TypeOK
  BY MetadataAssumption DEF Init, TypeOK, Idle, Creating, Rows

\* Type correctness: rows, calls and locks, for any schemas and any requests.
THEOREM TypeCorrect == Spec => []TypeOK
  <1>1. TypeOK /\ [Next]_vars => TypeOK'
    BY TypeStep
  <1>2. QED
    BY <1>1, TypeInit, PTL DEF Spec

(***************************************************************************)
(* Versions and active rows.  The inductive invariant: the version of a    *)
(* schema that is being created is one more than the highest version there *)
(* was when its request began, and of the rows there were, those still     *)
(* active are locked by the request or in front of its UPDATE.             *)
(***************************************************************************)

Numbered(c) ==
  /\ \A i \in 1..c.after : schemas[i].version < c.version
  /\ \A v \in 1..(c.version - 1) : \E j \in 1..c.after : schemas[j].version = v

Catches(c) ==
  c.op = "deactivate" =>
    \A i \in 1..c.after : schemas[i].active => i \in c.todo \cup c.locked

CreatesFollow == \A h \in Handler : call[h] \in Creating => Numbered(call[h]) /\ Catches(call[h])

AfterEarlier == \A j \in Rows : schemas[j].after < j

SchemaInv == CreatesFollow /\ AfterEarlier /\ LaterReplaces /\ VersionsGapFree

\* Steps that leave the rows alone and are not those of a schema being created.
LEMMA RowsKept ==
  ASSUME TypeOK, SchemaInv, NEW h \in Handler, UNCHANGED schemas,
         \E d : call' = [call EXCEPT ![h] = d] /\ (d \in Creating => Numbered(d) /\ Catches(d))
  PROVE  SchemaInv'
  <1>1. PICK d : call' = [call EXCEPT ![h] = d] /\ (d \in Creating => Numbered(d) /\ Catches(d))
    OBVIOUS
  <1>2. CreatesFollow'
    <2>1. SUFFICES ASSUME NEW g \in Handler, call'[g] \in Creating
                   PROVE  Numbered(call[g])' /\ Catches(call[g])'
      BY DEF CreatesFollow
    <2>2. Numbered(call'[g]) /\ Catches(call'[g])
      BY <1>1, <2>1 DEF SchemaInv, CreatesFollow, TypeOK
    <2>3. QED
      BY <2>2 DEF Numbered, Catches
  <1>3. QED
    BY <1>2 DEF SchemaInv, AfterEarlier, LaterReplaces, VersionsGapFree, Rows

\* A request that begins numbers its schema after all rows.
LEMMA BeginNumbered ==
  ASSUME TypeOK, SchemaInv, NEW max \in MaxVersion, NEW body,
         NEW d, d = [op |-> "number", body |-> body, version |-> max + 1,
                     after |-> Len(schemas), todo |-> {}, locked |-> {}]
  PROVE  Numbered(d) /\ Catches(d)
  <1>1. /\ Rows = 1..Len(schemas) /\ Len(schemas) \in Nat /\ max \in Nat
        /\ \A i \in Rows : schemas[i].version \in Nat
    BY RowType, MaxVersionNat DEF Row
  <1>2. \A i \in Rows : schemas[i].version <= max
    BY DEF MaxVersion
  <1>3. ASSUME NEW v \in 1..max
        PROVE  \E j \in 1..Len(schemas) : schemas[j].version = v
    <2>1. PICK i \in Rows : schemas[i].version = max
      BY <1>1, <1>3 DEF MaxVersion
    <2>2. CASE v = max
      BY <1>1, <2>1, <2>2
    <2>3. CASE v < max
      <3>1. v \in 1..(schemas[i].version - 1)
        BY <1>1, <1>3, <2>1, <2>3
      <3>2. PICK j \in 1..(i - 1) : schemas[j].version = v
        BY <3>1 DEF SchemaInv, VersionsGapFree
      <3>3. QED
        BY <1>1, <3>2
    <2>4. QED
      BY <1>1, <1>3, <2>2, <2>3
  <1>4. QED
    BY <1>1, <1>2, <1>3 DEF Numbered, Catches

\* The step that adds a row.
LEMMA CreateStep ==
  ASSUME TypeOK, SchemaInv, NEW h \in Handler, create(h)
  PROVE  SchemaInv'
  <1> DEFINE c == call[h]
             n == Len(schemas) + 1
  <1>1. /\ Len(schemas) \in Nat /\ Rows = 1..Len(schemas) /\ Rows' = 1..n
        /\ \A i \in Rows : /\ schemas'[i].version = schemas[i].version
                           /\ schemas'[i].after = schemas[i].after
                           /\ schemas'[i].active => schemas[i].active /\ i \notin c.locked
        /\ schemas'[n].version = c.version /\ schemas'[n].after = c.after
        /\ c \in Creating /\ c.op = "deactivate" /\ c.todo = {}
        /\ call' = [call EXCEPT ![h] = Idle]
    BY CreateRows, RowType
  <1>2. /\ c.after \in Nat /\ c.after <= Len(schemas) /\ c.version \in Nat \ {0}
        /\ \A i \in Rows : schemas[i] \in Row
    BY <1>1, RowType DEF TypeOK, Creating
  <1>3. \A i \in Rows : /\ schemas[i].after \in Nat /\ schemas[i].after < i
                        /\ schemas[i].version \in Nat
    BY <1>2 DEF Row, SchemaInv, AfterEarlier
  <1>4. Numbered(c) /\ Catches(c)
    BY <1>1 DEF SchemaInv, CreatesFollow
  <1>5. CreatesFollow'
    <2>1. SUFFICES ASSUME NEW g \in Handler, call'[g] \in Creating
                   PROVE  Numbered(call[g])' /\ Catches(call[g])'
      BY DEF CreatesFollow
    <2>2. call'[g] = call[g]
      BY <1>1, <2>1 DEF Idle, Creating, TypeOK
    <2>3. /\ Numbered(call[g]) /\ Catches(call[g])
          /\ call[g].after <= Len(schemas) /\ call[g].after \in Nat
      BY <2>1, <2>2 DEF SchemaInv, CreatesFollow, TypeOK, Creating
    <2>4. 1..call[g].after \subseteq Rows
      BY <1>1, <2>3
    <2>5. QED
      BY <1>1, <2>2, <2>3, <2>4 DEF Numbered, Catches
  <1>6. AfterEarlier'
    <2>1. ASSUME NEW j \in Rows'
          PROVE  schemas'[j].after < j
      BY <1>1, <1>2, <1>3
    <2>2. QED
      BY <2>1 DEF AfterEarlier
  <1>7. LaterReplaces'
    <2>1. SUFFICES ASSUME NEW j \in Rows', NEW i \in 1..schemas'[j].after
                   PROVE  ~ schemas'[i].active /\ schemas'[i].version < schemas'[j].version
      BY DEF LaterReplaces
    <2>2. CASE j \in Rows
      <3>1. i \in 1..schemas[j].after /\ i \in Rows
        BY <1>1, <1>3, <2>1, <2>2
      <3>2. QED
        BY <1>1, <2>2, <3>1 DEF SchemaInv, LaterReplaces
    <2>3. CASE j = n
      <3>1. i \in 1..c.after /\ i \in Rows
        BY <1>1, <1>2, <2>1, <2>3
      <3>2. QED
        BY <1>1, <1>4, <2>3, <3>1 DEF Numbered, Catches
    <2>4. QED
      BY <1>1, <2>2, <2>3
  <1>8. VersionsGapFree'
    <2>1. SUFFICES ASSUME NEW i \in Rows', NEW v \in 1..(schemas'[i].version - 1)
                   PROVE  \E j \in 1..(i - 1) : schemas'[j].version = v
      BY DEF VersionsGapFree
    <2>2. CASE i \in Rows
      <3>1. PICK j \in 1..(i - 1) : schemas[j].version = v
        BY <1>1, <2>1, <2>2 DEF SchemaInv, VersionsGapFree
      <3>2. j \in Rows
        BY <1>1, <2>2
      <3>3. QED
        BY <1>1, <3>1, <3>2
    <2>3. CASE i = n
      <3>1. PICK j \in 1..c.after : schemas[j].version = v
        BY <1>1, <1>4, <2>1, <2>3 DEF Numbered
      <3>2. j \in Rows /\ j \in 1..(n - 1)
        BY <1>1, <1>2
      <3>3. QED
        BY <1>1, <2>3, <3>1, <3>2
    <2>4. QED
      BY <1>1, <2>2, <2>3
  <1>9. QED
    BY <1>5, <1>6, <1>7, <1>8 DEF SchemaInv

\* The schema invariant is inductive, relative to the type invariant.
LEMMA SchemaStep ==
  ASSUME TypeOK, SchemaInv, [Next]_vars
  PROVE  SchemaInv'
  <1>1. CASE UNCHANGED vars
    BY <1>1 DEF vars, SchemaInv, CreatesFollow, Numbered, Catches, AfterEarlier, LaterReplaces,
      VersionsGapFree, Rows
  <1>2. ASSUME NEW h \in Handler, create_schema(h)
        PROVE  SchemaInv'
    <2>1. PICK body \in Schema, max \in MaxVersion :
            Begin(h, [op |-> "number", body |-> body, version |-> max + 1,
                      after |-> Len(schemas), todo |-> {}, locked |-> {}])
      BY <1>2 DEF create_schema
    <2>2. QED
      BY <2>1, BeginNumbered, RowsKept DEF Begin
  <1>3. ASSUME NEW h \in Handler, deactivate_all(h)
        PROVE  SchemaInv'
    <2> DEFINE d == [call[h] EXCEPT !.op = "deactivate", !.todo = Active]
    <2>1. call[h] \in Creating /\ call' = [call EXCEPT ![h] = d] /\ UNCHANGED schemas
      BY <1>3, CallShape DEF deactivate_all
    <2>2. Numbered(call[h])
      BY <2>1 DEF SchemaInv, CreatesFollow
    <2>3. call[h].after <= Len(schemas) /\ call[h].after \in Nat
      BY <2>1 DEF TypeOK, Creating
    <2>4. 1..call[h].after \subseteq Rows
      BY <2>3, RowType
    <2>5. d.version = call[h].version /\ d.after = call[h].after /\ d.todo = Active
      BY <2>1 DEF Creating
    <2>6. Numbered(d) /\ Catches(d)
      BY <2>2, <2>4, <2>5 DEF Numbered, Catches, Active
    <2>7. QED
      BY <2>1, <2>6, RowsKept
  <1>4. ASSUME NEW h \in Handler, lock_row(h)
        PROVE  SchemaInv'
    <2>1. PICK i \in call[h].todo :
            call' = [call EXCEPT ![h].todo = @ \ {i},
                                 ![h].locked = IF schemas[i].active THEN @ \cup {i} ELSE @]
      BY <1>4 DEF lock_row
    <2> DEFINE d == [call[h] EXCEPT !.todo = @ \ {i},
                                    !.locked = IF schemas[i].active THEN @ \cup {i} ELSE @]
    <2>2. /\ call[h] \in Creating /\ call[h].op = "deactivate"
          /\ call' = [call EXCEPT ![h] = d] /\ UNCHANGED schemas
      BY <1>4, <2>1, CallShape DEF lock_row
    <2>3. /\ Numbered(call[h]) /\ Catches(call[h])
          /\ d.version = call[h].version /\ d.after = call[h].after
          /\ d.todo = call[h].todo \ {i}
          /\ d.locked = IF schemas[i].active THEN call[h].locked \cup {i} ELSE call[h].locked
      BY <2>2 DEF SchemaInv, CreatesFollow, Creating
    <2>4. Numbered(d) /\ Catches(d)
      BY <2>2, <2>3 DEF Numbered, Catches
    <2>5. QED
      BY <2>2, <2>4, RowsKept
  <1>5. ASSUME NEW h \in Handler, create(h)
        PROVE  SchemaInv'
    BY <1>5, CreateStep
  <1>6. ASSUME NEW h \in Handler, update_metadata(h) \/ merge_metadata(h)
        PROVE  SchemaInv'
    <2>1. PICK op \in {"put", "patch"}, m \in Meta :
            Begin(h, [op |-> op, input |-> m, base |-> NoMeta, checked |-> FALSE])
      BY <1>6 DEF update_metadata, merge_metadata
    <2> DEFINE d == [op |-> op, input |-> m, base |-> NoMeta, checked |-> FALSE]
    <2>3. d \notin Creating
      BY DEF Creating
    <2>2. QED
      BY <2>1, <2>3, RowsKept DEF Begin
  <1>7. ASSUME NEW h \in Handler, get(h) \/ validate(h)
        PROVE  SchemaInv'
    <2>1. call[h] \in Writing /\ UNCHANGED schemas
      BY <1>7, CallShape DEF get, validate, MayValidate
    <2>2. PICK d \in {[call[h] EXCEPT !.base = meta], [call[h] EXCEPT !.checked = TRUE]} :
            call' = [call EXCEPT ![h] = d]
      BY <1>7 DEF get, validate
    <2>3. d \notin Creating
      BY <2>1 DEF Writing, Creating
    <2>4. QED
      BY <2>1, <2>2, <2>3, RowsKept
  <1>8. ASSUME NEW h \in Handler, refuse(h) \/ commit(h) \/ stop(h)
        PROVE  SchemaInv'
    <2>1. call' = [call EXCEPT ![h] = Idle] /\ UNCHANGED schemas
      BY <1>8 DEF refuse, commit, stop
    <2>2. Idle \notin Creating
      BY DEF Idle, Creating
    <2>3. QED
      BY <2>1, <2>2, RowsKept
  <1>9. QED
    BY <1>1, <1>2, <1>3, <1>4, <1>5, <1>6, <1>7, <1>8 DEF Next, Create, Write

\* A schema replaces every schema that was there when its request began, for
\* any number of concurrent requests, lock waits and rollbacks.
THEOREM SchemasAreReplaced == Spec => []LaterReplaces
  <1>1. Init => SchemaInv
    BY DEF Init, SchemaInv, CreatesFollow, AfterEarlier, LaterReplaces, VersionsGapFree, Rows,
      Idle, Creating
  <1>2. TypeOK /\ SchemaInv /\ [Next]_vars => SchemaInv'
    BY SchemaStep
  <1>3. SchemaInv => LaterReplaces
    BY DEF SchemaInv
  <1>4. QED
    BY <1>1, <1>2, <1>3, TypeCorrect, PTL DEF Spec

\* The committed versions have no gap, however requests are numbered and fail.
THEOREM VersionsHaveNoGaps == Spec => []VersionsGapFree
  <1>1. Init => SchemaInv
    BY DEF Init, SchemaInv, CreatesFollow, AfterEarlier, LaterReplaces, VersionsGapFree, Rows,
      Idle, Creating
  <1>2. TypeOK /\ SchemaInv /\ [Next]_vars => SchemaInv'
    BY SchemaStep
  <1>3. SchemaInv => VersionsGapFree
    BY DEF SchemaInv
  <1>4. QED
    BY <1>1, <1>2, <1>3, TypeCorrect, PTL DEF Spec

(***************************************************************************)
(* Metadata writes.  The inductive invariant: the row a request has read,  *)
(* and the schema it was validated against, were committed at some time    *)
(* during the request, and what was validated is what will be written.     *)
(***************************************************************************)

Accepted(m, D) == \E s \in D : AtMostOne(s.laws) /\ Lawful(m, s.laws)

Held(c, D) ==
  /\ c.base # NoMeta => \E s \in D : s.meta = c.base
  /\ c.checked => /\ c.op = "patch" => c.base # NoMeta
                  /\ Enforce => Accepted(Result(c), D)

WriteInv == \A h \in Handler : call[h] \in Writing => Held(call[h], during[h])

\* What was seen during a request stays seen.
LEMMA HeldGrows ==
  ASSUME NEW c, NEW D, NEW E, D \subseteq E, Held(c, D)
  PROVE  Held(c, E)
  BY DEF Held, Accepted

\* A step of one request keeps what the others hold.
LEMMA OneWrite ==
  ASSUME TypeOK, TypeOK', Watch, WriteInv, NEW h \in Handler,
         \E d : call' = [call EXCEPT ![h] = d] /\ (d \in Writing => Held(d, during'[h]))
  PROVE  WriteInv'
  <1>1. PICK d : call' = [call EXCEPT ![h] = d] /\ (d \in Writing => Held(d, during'[h]))
    OBVIOUS
  <1>2. SUFFICES ASSUME NEW g \in Handler, call'[g] \in Writing
                 PROVE  Held(call'[g], during'[g])
    BY DEF WriteInv, Held, Accepted, Result
  <1>3. CASE g = h
    BY <1>1, <1>2, <1>3 DEF TypeOK
  <1>4. CASE g # h
    <2>1. call'[g] = call[g]
      BY <1>1, <1>4 DEF TypeOK
    <2>2. Held(call[g], during[g])
      BY <1>2, <2>1 DEF WriteInv
    <2>3. during[g] \subseteq during'[g]
      <3>1. call'[g] # Idle
        BY <1>2 DEF Idle, Writing
      <3>2. QED
        BY <3>1 DEF Watch, TypeOK
    <2>4. QED
      BY <2>1, <2>2, <2>3, HeldGrows
  <1>5. QED
    BY <1>3, <1>4

\* What an open request sees of a step that changes neither rows nor metadata.
LEMMA SeesNow ==
  ASSUME TypeOK, Watch, NEW h \in Handler, call'[h] # Idle, UNCHANGED <<schemas, meta>>
  PROVE  /\ during[h] \subseteq during'[h]
         /\ \E s \in during'[h] : s.meta = meta /\ s.laws = Laws
  <1>1. during'[h] = during[h] \cup {Now'}
    BY DEF Watch
  <1>2. Now'.meta = meta /\ Now'.laws = Laws
    BY DEF Now, Laws, Active, Rows
  <1>3. QED
    BY <1>1, <1>2

\* If at most one row is active, at most one schema is.
LEMMA OneLaw ==
  ASSUME AtMostOne(Active)
  PROVE  AtMostOne(Laws)
  BY DEF AtMostOne, Laws

\* The write invariant is inductive, relative to the type invariant.
LEMMA WriteStep ==
  ASSUME TypeOK, TypeOK', WriteInv, [Next]_vars
  PROVE  WriteInv'
  <1>1. CASE UNCHANGED vars
    BY <1>1 DEF vars, WriteInv, Held, Accepted, Result
  <1>2. ASSUME NEW h \in Handler, Create(h), Watch
        PROVE  WriteInv'
    <2>1. PICK d : call' = [call EXCEPT ![h] = d] /\ d \notin Writing
      <3>1. CASE create_schema(h)
        <4>1. PICK body \in Schema, max \in MaxVersion :
                Begin(h, [op |-> "number", body |-> body, version |-> max + 1,
                          after |-> Len(schemas), todo |-> {}, locked |-> {}])
          BY <3>1 DEF create_schema
        <4> DEFINE d == [op |-> "number", body |-> body, version |-> max + 1,
                         after |-> Len(schemas), todo |-> {}, locked |-> {}]
        <4>2. call' = [call EXCEPT ![h] = d]
          BY <4>1 DEF Begin
        <4>3. d \notin Writing
          BY DEF Writing
        <4>4. QED
          BY <4>2, <4>3
      <3>2. CASE deactivate_all(h)
        <4>1. call[h] \in Creating
          BY <3>2, CallShape DEF deactivate_all
        <4> DEFINE d == [call[h] EXCEPT !.op = "deactivate", !.todo = Active]
        <4>2. call' = [call EXCEPT ![h] = d] /\ d \notin Writing
          BY <3>2, <4>1 DEF deactivate_all, Creating, Writing
        <4>3. QED
          BY <4>2
      <3>3. CASE lock_row(h)
        <4>1. call[h] \in Creating /\ call[h].op = "deactivate"
          BY <3>3, CallShape DEF lock_row
        <4>2. PICK i \in call[h].todo :
                call' = [call EXCEPT ![h].todo = @ \ {i},
                                     ![h].locked = IF schemas[i].active THEN @ \cup {i} ELSE @]
          BY <3>3 DEF lock_row
        <4> DEFINE d == [call[h] EXCEPT !.todo = @ \ {i},
                                        !.locked = IF schemas[i].active THEN @ \cup {i} ELSE @]
        <4>3. call' = [call EXCEPT ![h] = d] /\ d \notin Writing
          BY <4>1, <4>2 DEF Creating, Writing
        <4>4. QED
          BY <4>3
      <3>4. CASE create(h)
        <4>1. call' = [call EXCEPT ![h] = Idle] /\ Idle \notin Writing
          BY <3>4 DEF create, Idle, Writing
        <4>2. QED
          BY <4>1
      <3>5. QED
        BY <1>2, <3>1, <3>2, <3>3, <3>4 DEF Create
    <2>2. QED
      BY <1>2, <2>1, OneWrite
  <1>3. ASSUME NEW h \in Handler, update_metadata(h) \/ merge_metadata(h), Watch
        PROVE  WriteInv'
    <2>1. PICK op \in {"put", "patch"}, m \in Meta :
            Begin(h, [op |-> op, input |-> m, base |-> NoMeta, checked |-> FALSE])
      BY <1>3 DEF update_metadata, merge_metadata
    <2> DEFINE d == [op |-> op, input |-> m, base |-> NoMeta, checked |-> FALSE]
    <2>2. call' = [call EXCEPT ![h] = d] /\ Held(d, during'[h])
      BY <2>1 DEF Begin, Held
    <2>3. QED
      BY <1>3, <2>2, OneWrite
  <1>4. ASSUME NEW h \in Handler, get(h), Watch
        PROVE  WriteInv'
    <2> DEFINE d == [call[h] EXCEPT !.base = meta]
    <2>1. /\ call[h] \in Writing /\ call[h].base = NoMeta
          /\ call[h].op = "put" => call[h].checked
          /\ call' = [call EXCEPT ![h] = d] /\ UNCHANGED <<schemas, meta>>
      BY <1>4, CallShape DEF get
    <2>2. /\ d.op = call[h].op /\ d.checked = call[h].checked /\ d.base = meta
          /\ d.input = call[h].input /\ d.op \in {"put", "patch"} /\ d \in Writing
          /\ meta \in Meta
      BY <2>1 DEF Writing, TypeOK
    <2>3. call'[h] # Idle
      BY <2>1, <2>2 DEF Idle, Writing, TypeOK
    <2>4. /\ during[h] \subseteq during'[h]
          /\ \E s \in during'[h] : s.meta = meta
      BY <1>4, <2>1, <2>3, SeesNow
    <2>5. Held(call[h], during'[h])
      BY <2>1, <2>4, HeldGrows DEF WriteInv
    <2>6. Held(d, during'[h])
      <3>1. call[h].op = "patch" => ~ call[h].checked
        BY <2>1, <2>5 DEF Held
      <3>2. call[h].op = "put" => Result(d) = Result(call[h])
        BY <2>2 DEF Result
      <3>3. QED
        BY <2>2, <2>4, <2>5, <3>1, <3>2, MetadataAssumption DEF Held
    <2>7. QED
      BY <1>4, <2>1, <2>6, OneWrite
  <1>5. ASSUME NEW h \in Handler, validate(h), Watch
        PROVE  WriteInv'
    <2> DEFINE d == [call[h] EXCEPT !.checked = TRUE]
    <2>1. /\ call[h] \in Writing /\ ~ call[h].checked
          /\ call[h].op = "patch" => call[h].base # NoMeta
          /\ Enforce => AtMostOne(Active) /\ Lawful(Result(call[h]), Laws)
          /\ call' = [call EXCEPT ![h] = d] /\ UNCHANGED <<schemas, meta>>
      BY <1>5, CallShape DEF validate, MayValidate
    <2>2. /\ d.op = call[h].op /\ d.checked = TRUE /\ d.base = call[h].base
          /\ d.input = call[h].input /\ d \in Writing
      BY <2>1 DEF Writing
    <2>3. call'[h] # Idle
      BY <2>1, <2>2 DEF Idle, Writing, TypeOK
    <2>4. /\ during[h] \subseteq during'[h]
          /\ \E s \in during'[h] : s.laws = Laws
      BY <1>5, <2>1, <2>3, SeesNow
    <2>5. Held(call[h], during'[h])
      BY <2>1, <2>4, HeldGrows DEF WriteInv
    <2>6. Result(d) = Result(call[h])
      BY <2>2 DEF Result
    <2>7. Enforce => Accepted(Result(d), during'[h])
      BY <2>1, <2>4, <2>6, OneLaw DEF Accepted
    <2>8. Held(d, during'[h])
      BY <2>1, <2>2, <2>5, <2>7 DEF Held
    <2>9. QED
      BY <1>5, <2>1, <2>8, OneWrite
  <1>6. ASSUME NEW h \in Handler, refuse(h) \/ commit(h) \/ stop(h), Watch
        PROVE  WriteInv'
    <2>1. call' = [call EXCEPT ![h] = Idle] /\ Idle \notin Writing
      BY <1>6 DEF refuse, commit, stop, Idle, Writing
    <2>2. QED
      BY <1>6, <2>1, OneWrite
  <1>7. QED
    BY <1>1, <1>2, <1>3, <1>4, <1>5, <1>6 DEF Next, Write

\* The step that stores metadata is explained by what the request holds.
LEMMA StoreStep ==
  ASSUME TypeOK, WriteInv, [Next]_vars, NEW h \in Handler,
         call[h].op \in {"put", "patch"}, call'[h] = Idle, meta' # meta
  PROVE  /\ \E s \in during[h] :
              meta' = IF call[h].op = "put" THEN call[h].input ELSE Merge(s.meta, call[h].input)
         /\ Enforce => \E s \in during[h] : AtMostOne(s.laws) /\ Lawful(meta', s.laws)
  <1>1. call[h] \in Writing /\ call[h] # Idle
    BY CallShape
  <1>2. PICK g \in Handler : Create(g) \/ Write(g) \/ stop(g)
    BY DEF Next, vars
  <1>3. commit(g)
    BY <1>2 DEF Create, Write, create_schema, update_metadata, merge_metadata, Begin,
      deactivate_all, lock_row, create, get, validate, refuse, stop
  <1>4. g = h
    BY <1>1, <1>3 DEF commit, TypeOK
  <1>5. call[h].base # NoMeta /\ call[h].checked /\ meta' = Result(call[h])
    BY <1>3, <1>4 DEF commit
  <1>6. Held(call[h], during[h])
    BY <1>1 DEF WriteInv
  <1>7. PICK s \in during[h] : s.meta = call[h].base
    BY <1>5, <1>6 DEF Held
  <1>8. Enforce => Accepted(meta', during[h])
    BY <1>5, <1>6 DEF Held
  <1>9. QED
    BY <1>5, <1>7, <1>8 DEF Result, Accepted

\* What a PUT or PATCH stores was asked for and accepted, for any schemas, any
\* merge and any number of requests that change metadata and schemas meanwhile.
THEOREM StoredMetadataIsExplained == Spec => StoredIsExplained
  <1>1. Init => WriteInv
    BY DEF Init, WriteInv, Idle, Writing
  <1>2. TypeOK /\ TypeOK' /\ WriteInv /\ [Next]_vars => WriteInv'
    BY WriteStep
  <1>3. TypeOK /\ WriteInv /\ [Next]_vars =>
          [\A h \in Handler :
             call[h].op \in {"put", "patch"} /\ call'[h] = Idle /\ meta' # meta =>
               /\ \E s \in during[h] :
                    meta' = IF call[h].op = "put" THEN call[h].input
                            ELSE Merge(s.meta, call[h].input)
               /\ Enforce => \E s \in during[h] :
                    AtMostOne(s.laws) /\ Lawful(meta', s.laws)]_vars
    BY StoreStep
  <1>4. QED
    BY <1>1, <1>2, <1>3, TypeCorrect, PTL DEF Spec, StoredIsExplained

-----------------------------------------------------------------------------
(***************************************************************************)
(* The folders.  What makes them correct is what each request under way    *)
(* has seen before it writes: the rows that were committed when it began   *)
(* are in what it has read, or still carry the properties it has read      *)
(* (FolderKnowledge).  A row that it does not know was committed by a      *)
(* request that had not ended when it began.  So the proof needs one lemma *)
(* for all steps: what a request knows survives whatever the others write  *)
(* (KnowledgeKept).                                                        *)
(***************************************************************************)

Front(p) == SubSeq(p, 1, Len(p) - 1)

\* What a row and a request hold, whatever requests there are.
FolderRow == [path : F!Path, parent : Nat, by : Nat, ensured : BOOLEAN, deleters : SUBSET Nat]
AddedRow == [path : F!Path, parent : Nat, fresh : BOOLEAN]
CreatingFolder == [op : {"create"}, id : Nat, path : F!Path, parent : Nat]
EnsuringPath == [op : {"ensure"}, id : Nat, path : F!Path, at : Nat, parent : Nat, fresh : BOOLEAN,
             added : Seq(AddedRow)]
DeletingFolder == [op : {"subfolders", "files", "get", "delete"}, id : Nat, folder : Nat]
MovingFile == [op : {"move"}, id : Nat, file : File, folder : Nat, read : Nat]
UploadingFile == [op : {"upload"}, id : Nat, file : File, folder : Nat]
FolderCalls ==
  CreatingFolder \cup EnsuringPath \cup DeletingFolder \cup MovingFile \cup UploadingFile

\* The path is one segment below the parent's.
Below(path, parent) ==
  IF parent = 0 THEN Len(path) = 1
  ELSE parent \in F!Rows /\ folders[parent].path = Front(path)

\* No delete of the folder had ended when request r began.
OpenFor(d, r) == d \in F!Rows => folders[d].deleters \cap before[r] = {}

\* No active folder with the path was there when request r began.
NoneBefore(path, r) == \A i \in F!Active : folders[i].path = path => folders[i].by \notin before[r]

\* No subfolder, and no file, of the folder that was there when request r
\* began is left.
NoFolderBefore(d, r) == \A i \in F!Active : folders[i].parent = d => folders[i].by \notin before[r]
NoFileBefore(d, r) ==
  \A f \in File : files[f].active /\ files[f].folder = d => files[f].by \notin before[r]

\* What the rows say that ensure_path has added.
AddedFit(c) ==
  \A n \in DOMAIN c.added :
    LET a == c.added[n] IN
      /\ NoneBefore(a.path, c.id)
      /\ a.fresh => n > 1 /\ c.added[n - 1].path = Front(a.path)
      /\ ~ a.fresh => Below(a.path, a.parent) /\ OpenFor(a.parent, c.id)

\* How far a walk has come: in the folder it has found, or in the one it adds.
Walked(c) ==
  /\ c.at <= Len(c.path)
  /\ ~ c.fresh => /\ IF c.at = 0 THEN c.parent = 0
                     ELSE c.parent \in F!Rows /\ folders[c.parent].path = SubSeq(c.path, 1, c.at)
                  /\ OpenFor(c.parent, c.id)
  /\ c.fresh => /\ c.at > 0 /\ c.added # <<>>
                /\ c.added[Len(c.added)].path = SubSeq(c.path, 1, c.at)

\* What a request relies on when it commits.
FolderKnowledge(c) ==
  /\ c.op = "create" => Below(c.path, c.parent) /\ OpenFor(c.parent, c.id)
  /\ c.op = "ensure" => Walked(c) /\ AddedFit(c)
  /\ c.op \in {"subfolders", "files", "get", "delete"} => c.folder \in F!Rows
  /\ c.op \in {"files", "get", "delete"} => NoFolderBefore(c.folder, c.id)
  /\ c.op \in {"get", "delete"} => NoFileBefore(c.folder, c.id)
  /\ c.op \in {"move", "upload"} => c.folder \in {0} \cup F!Rows

\* Requests under way hold what their operation needs and are numbered
\* differently; what preceded a request has ended.
FoldersFit ==
  /\ \A h \in Handler : folderCall[h] # F!Idle => folderCall[h] \in FolderCalls
  /\ \A g, h \in Handler : folderCall[g] # F!Idle /\ folderCall[g].id = folderCall[h].id => g = h
  /\ \A r \in F!Requests : before[r] \subseteq ended
  /\ DOMAIN folderCall = Handler /\ before \in Seq(SUBSET Nat) /\ folders \in Seq(FolderRow)

\* The inductive invariant of the folders.
FoldersTyped == F!TypeOK /\ FoldersFit
FoldersKnown == \A h \in Handler : folderCall[h] # F!Idle => FolderKnowledge(folderCall[h])
FoldersInv ==
  FoldersTyped /\ FoldersKnown /\ F!PathsFollowParents /\ F!EnsureIsIdempotent /\ F!DeletedWereEmpty

\* The record a request holds tells which operation it is.
LEMMA FolderCallShapes ==
  ASSUME NEW c \in FolderCalls
  PROVE  /\ c.op = "create" => c \in CreatingFolder
         /\ c.op = "ensure" => c \in EnsuringPath
         /\ c.op \in {"subfolders", "files", "get", "delete"} => c \in DeletingFolder
         /\ c.op = "move" => c \in MovingFile
         /\ c.op = "upload" => c \in UploadingFile
         /\ c # F!Idle /\ c.id \in Nat
  <1>1. F!Idle.op = "idle" BY DEF F!Idle
  <1>2. QED BY <1>1 DEF FolderCalls, CreatingFolder, EnsuringPath, DeletingFolder, MovingFile,
    UploadingFile

\* A request under way has a number of its own, and no request began after its end.
LEMMA FolderCallOf ==
  ASSUME FoldersTyped, NEW h \in Handler, folderCall[h] # F!Idle
  PROVE  /\ folderCall[h] \in FolderCalls /\ folderCall[h].id \in F!Requests \ ended
         /\ folderCall[h].id \in Nat \ {0} /\ Len(before) \in Nat
         /\ \A r \in F!Requests : folderCall[h].id \notin before[r]
         /\ \A g \in Handler : g # h => folderCall[g].id # folderCall[h].id
  BY DEF FoldersTyped, FoldersFit, F!TypeOK, F!Requests

\* A handler with an operation is not idle.
LEMMA FolderCallNotIdle == \A h \in Handler : folderCall[h].op # "idle" => folderCall[h] # F!Idle
  BY DEF F!Idle

\* A new request changes nothing about what earlier ones found ended.
LEMMA BeforeKept ==
  ASSUME FoldersTyped, before' = before \/ before' = Append(before, ended)
  PROVE  /\ F!Requests \subseteq F!Requests' /\ \A r \in F!Requests : before'[r] = before[r]
         /\ before' = Append(before, ended) => F!Requests' = F!Requests \cup {F!NextId}
                                               /\ before'[F!NextId] = ended
                                               /\ F!NextId \notin F!Requests
                                                    /\ F!NextId \in Nat \ {0}
         /\ before' \in Seq(SUBSET Nat)
  <1>1. before \in Seq(SUBSET Nat) /\ ended \in SUBSET Nat /\ Len(before) \in Nat
    BY DEF FoldersTyped, FoldersFit, F!TypeOK, F!Requests
  <1>2. CASE before' = before BY <1>1, <1>2, AppendProperties DEF F!Requests, F!NextId
  <1>3. CASE before' = Append(before, ended)
    <2>1. before' \in Seq(SUBSET Nat) /\ Len(before') = Len(before) + 1
          /\ before'[Len(before) + 1] = ended
          /\ \A r \in 1..Len(before) : before'[r] = before[r]
      BY <1>1, <1>3, AppendProperties
    <2>2. QED BY <1>1, <1>3, <2>1 DEF F!Requests, F!NextId
  <1>4. QED BY <1>2, <1>3

-----------------------------------------------------------------------------

\* A path is a sequence of names, not empty and not too long.
LEMMA PathIsSeq ==
  ASSUME NEW p
  PROVE  p \in F!Path <=> p \in Seq(Name) /\ Len(p) \in 1..MaxDepth
  <1>1. ASSUME p \in F!Path PROVE p \in Seq(Name) /\ Len(p) \in 1..MaxDepth
    <2>1. PICK n \in 1..MaxDepth : p \in [1..n -> Name] BY <1>1 DEF F!Path
    <2>2. QED BY <2>1, CatalogueAssumption DEF F!FoldersAssumption
  <1>2. ASSUME p \in Seq(Name), Len(p) \in 1..MaxDepth PROVE p \in F!Path
    <2>1. p \in [1..Len(p) -> Name] BY <1>2, LenProperties
    <2>2. QED BY <1>2, <2>1 DEF F!Path
  <1>3. QED BY <1>1, <1>2

\* A part of a path that starts at the root is a path, one segment below the
\* shorter one.
LEMMA PrefixOfPath ==
  ASSUME NEW p \in F!Path, NEW k \in 1..Len(p)
  PROVE  /\ SubSeq(p, 1, k) \in F!Path /\ Len(SubSeq(p, 1, k)) = k
         /\ Front(SubSeq(p, 1, k)) = SubSeq(p, 1, k - 1)
  <1>1. p \in Seq(Name) /\ Len(p) \in 1..MaxDepth /\ MaxDepth \in Nat
    BY PathIsSeq, CatalogueAssumption DEF F!FoldersAssumption
  <1>2. k \in Nat /\ \A i \in 1..k : p[i] \in Name BY <1>1, LenProperties
  <1>3. SubSeq(p, 1, k) \in Seq(Name) /\ Len(SubSeq(p, 1, k)) = k
        /\ \A i \in 1..k : SubSeq(p, 1, k)[i] = p[i]
    BY <1>1, <1>2, SubSeqProperties
  <1>4. SubSeq(p, 1, k) \in F!Path
    <2>1. PICK q : q = SubSeq(p, 1, k) OBVIOUS
    <2>2. q \in Seq(Name) /\ Len(q) \in 1..MaxDepth BY <1>1, <1>3, <2>1
    <2>3. QED BY <2>1, <2>2, PathIsSeq
  <1> DEFINE q == SubSeq(p, 1, k)
  <1>5. SubSeq(q, 1, k - 1) = SubSeq(p, 1, k - 1)
    <2>1. /\ SubSeq(q, 1, k - 1) \in Seq(Name) /\ Len(SubSeq(q, 1, k - 1)) = k - 1
          /\ \A i \in 1..(k - 1) : SubSeq(q, 1, k - 1)[i] = p[i]
      BY <1>2, <1>3, SubSeqProperties
    <2>2. /\ SubSeq(p, 1, k - 1) \in Seq(Name) /\ Len(SubSeq(p, 1, k - 1)) = k - 1
          /\ \A i \in 1..(k - 1) : SubSeq(p, 1, k - 1)[i] = p[i]
      BY <1>2, SubSeqProperties
    <2>3. QED BY <2>1, <2>2, SeqEqual
  <1>6. QED BY <1>3, <1>4, <1>5 DEF Front

\* A path and one more name is one segment below it.
LEMMA ExtendedPath ==
  ASSUME NEW p \in F!Path, NEW n \in Name, Len(p) < MaxDepth
  PROVE  /\ Append(p, n) \in F!Path /\ Len(Append(p, n)) > 1 /\ Front(Append(p, n)) = p
  <1>1. p \in Seq(Name) /\ Len(p) \in 1..MaxDepth /\ MaxDepth \in Nat
    BY PathIsSeq, CatalogueAssumption DEF F!FoldersAssumption
  <1> DEFINE q == Append(p, n)
  <1>2. /\ q \in Seq(Name) /\ Len(q) = Len(p) + 1 /\ \A i \in 1..Len(p) : q[i] = p[i]
    BY <1>1, AppendProperties
  <1>3. q \in F!Path
    <2> HIDE DEF q
    <2>1. Len(q) \in 1..MaxDepth BY <1>1, <1>2
    <2>2. QED BY <1>2, <2>1, PathIsSeq
  <1>4. \A i \in 1..Len(p) : q[i] \in Name BY <1>1, <1>2
  <1> HIDE DEF q
  <1>5. /\ SubSeq(q, 1, Len(p)) \in Seq(Name) /\ Len(SubSeq(q, 1, Len(p))) = Len(p)
        /\ \A i \in 1..Len(p) : SubSeq(q, 1, Len(p))[i] = p[i]
    BY <1>1, <1>2, <1>4, SubSeqProperties
  <1>6. SubSeq(q, 1, Len(p)) = p BY <1>1, <1>5, SeqEqual
  <1>7. QED BY <1>1, <1>2, <1>3, <1>6 DEF Front, q

-----------------------------------------------------------------------------

\* What a step of request id may do to rows and files: add rows, delete rows,
\* and put files somewhere.
Changes(id) ==
  /\ F!Rows \subseteq F!Rows'
  /\ \A i \in F!Rows :
       /\ folders'[i].path = folders[i].path /\ folders'[i].parent = folders[i].parent
       /\ folders'[i].by = folders[i].by /\ folders'[i].ensured = folders[i].ensured
       /\ folders'[i].deleters \in {folders[i].deleters, folders[i].deleters \cup {id}}
  /\ \A i \in F!Rows' \ F!Rows : folders'[i].by = id /\ folders'[i].deleters = {}
  /\ \A f \in File :
       \/ files'[f].by = id
       \/ /\ files'[f].by = files[f].by /\ files'[f].folder = files[f].folder
          /\ files'[f].active => files[f].active

\* The added rows fit, and a deleted folder was known to be empty.
ChangesFit(id) ==
  /\ \A i \in F!Rows' \ F!Rows :
       LET row == folders'[i] IN
         /\ id \in F!Requests
         /\ IF row.parent = 0 THEN Len(row.path) = 1
            ELSE row.parent \in F!Rows' /\ folders'[row.parent].path = Front(row.path)
         /\ OpenFor(row.parent, id)
         /\ row.ensured => NoneBefore(row.path, id)
  /\ \A d \in F!Rows :
       folders'[d].deleters # folders[d].deleters =>
         id \in F!Requests /\ NoFolderBefore(d, id) /\ NoFileBefore(d, id)

\* No step brings a deleted folder back.
LEMMA StillActive ==
  ASSUME NEW id, Changes(id), NEW i \in F!Active', i \in F!Rows
  PROVE  i \in F!Active
  BY DEF Changes, F!Active

\* What a request knows stays true whatever the others do: whoever writes has
\* not ended, so no request began after its end.
LEMMA KnowledgeKept ==
  ASSUME FoldersInv, NEW id, \A r \in F!Requests : id \notin before[r] /\ before'[r] = before[r],
         Changes(id), NEW c \in FolderCalls, c.id \in F!Requests, FolderKnowledge(c)
  PROVE  FolderKnowledge(c)'
  <1>0. before'[c.id] = before[c.id] /\ id \notin before[c.id]
    OBVIOUS
  <1>1. ASSUME NEW i \in F!Active' PROVE i \in F!Active \/ folders'[i].by = id
    <2>1. i \in F!Rows' BY DEF F!Active
    <2>2. CASE i \in F!Rows BY <2>2, StillActive
    <2>3. CASE i \notin F!Rows BY <2>1, <2>3 DEF Changes
    <2>4. QED BY <2>2, <2>3
  <1>2. \A i \in F!Active : i \in F!Rows BY DEF F!Active
  <1>3. ASSUME NEW path, NEW parent, Below(path, parent) PROVE Below(path, parent)'
    BY <1>3 DEF Below, Changes
  <1>4. ASSUME NEW path, NoneBefore(path, c.id) PROVE NoneBefore(path, c.id)'
    BY <1>0, <1>1, <1>2, <1>4 DEF NoneBefore, Changes
  <1>5. ASSUME NEW d, OpenFor(d, c.id) PROVE OpenFor(d, c.id)'
    BY <1>0, <1>5 DEF OpenFor, Changes
  <1>6. ASSUME c.op = "ensure" PROVE Walked(c)' /\ AddedFit(c)'
    <2>1. Walked(c) /\ AddedFit(c) BY <1>6 DEF FolderKnowledge
    <2>2. Walked(c)'
      <3>1. c.parent \in F!Rows =>
              c.parent \in F!Rows' /\ folders'[c.parent].path = folders[c.parent].path
        BY DEF Changes
      <3>2. OpenFor(c.parent, c.id) => OpenFor(c.parent, c.id)' BY <1>5
      <3>3. QED BY <2>1, <3>1, <3>2 DEF Walked
    <2>3. AddedFit(c)'
      <3> SUFFICES ASSUME NEW n \in DOMAIN c.added
                   PROVE  /\ NoneBefore(c.added[n].path, c.id)'
                          /\ c.added[n].fresh =>
                               n > 1 /\ c.added[n - 1].path = Front(c.added[n].path)
                          /\ ~ c.added[n].fresh => /\ Below(c.added[n].path, c.added[n].parent)'
                                                   /\ OpenFor(c.added[n].parent, c.id)'
        BY DEF AddedFit
      <3>1. /\ NoneBefore(c.added[n].path, c.id)
            /\ c.added[n].fresh => n > 1 /\ c.added[n - 1].path = Front(c.added[n].path)
            /\ ~ c.added[n].fresh => /\ Below(c.added[n].path, c.added[n].parent)
                                     /\ OpenFor(c.added[n].parent, c.id)
        BY <2>1 DEF AddedFit
      <3>2. QED BY <3>1, <1>3, <1>4, <1>5
    <2>4. QED BY <2>2, <2>3
  <1>7. ASSUME c.op \in {"files", "get", "delete"} PROVE NoFolderBefore(c.folder, c.id)'
    <2>1. NoFolderBefore(c.folder, c.id) BY <1>7 DEF FolderKnowledge
    <2>2. QED BY <1>0, <1>1, <1>2, <2>1 DEF NoFolderBefore, Changes
  <1>8. ASSUME c.op \in {"get", "delete"} PROVE NoFileBefore(c.folder, c.id)'
    <2>1. NoFileBefore(c.folder, c.id) BY <1>8 DEF FolderKnowledge
    <2>2. QED BY <1>0, <2>1 DEF NoFileBefore, Changes
  <1>9. ASSUME c.op = "create" PROVE Below(c.path, c.parent)' /\ OpenFor(c.parent, c.id)'
    BY <1>3, <1>5, <1>9 DEF FolderKnowledge
  <1>10. F!Rows \subseteq F!Rows' BY DEF Changes
  <1>11. QED BY <1>6, <1>7, <1>8, <1>9, <1>10 DEF FolderKnowledge

\* The three properties survive a step whose changes fit.
LEMMA PropertiesKept ==
  ASSUME FoldersInv, NEW id, \A r \in F!Requests : id \notin before[r] /\ before'[r] = before[r],
         Changes(id), ChangesFit(id)
  PROVE  (F!PathsFollowParents /\ F!EnsureIsIdempotent /\ F!DeletedWereEmpty)'
  <1>0. /\ \A i \in F!Rows :
             folders[i].by \in F!Requests /\ folders[i].parent < i /\ folders[i].parent \in Nat
        /\ F!Rows \subseteq Nat \ {0}
    <2>1. F!Rows = 1..Len(folders) /\ Len(folders) \in Nat
      BY LenProperties DEF FoldersInv, FoldersTyped, FoldersFit, F!Rows
    <2>2. QED BY <2>1 DEF FoldersInv, FoldersTyped, F!TypeOK, F!RowType
  <1>1. \A i \in F!Active' : i \in F!Rows' /\ (i \in F!Rows => i \in F!Active)
    BY StillActive DEF F!Active
  <1>2. F!PathsFollowParents'
    <2> SUFFICES ASSUME NEW i \in F!Rows'
                 PROVE  IF folders'[i].parent = 0 THEN Len(folders'[i].path) = 1
                        ELSE folders'[folders'[i].parent].path = Front(folders'[i].path)
      BY DEF F!PathsFollowParents, Front
    <2>1. CASE i \in F!Rows
      <3>1. IF folders[i].parent = 0 THEN Len(folders[i].path) = 1
            ELSE folders[folders[i].parent].path = Front(folders[i].path)
        BY <2>1 DEF FoldersInv, F!PathsFollowParents, Front
      <3>2. folders[i].parent # 0 => folders[i].parent \in F!Rows
        <4>1. F!Rows = 1..Len(folders) /\ Len(folders) \in Nat
          BY LenProperties DEF FoldersInv, FoldersTyped, FoldersFit, F!Rows
        <4>2. QED BY <2>1, <4>1, <1>0
      <3>3. QED BY <2>1, <3>1, <3>2 DEF Changes
    <2>2. CASE i \notin F!Rows BY <2>2 DEF ChangesFit
    <2>3. QED BY <2>1, <2>2
  <1>3. F!EnsureIsIdempotent'
    <2> SUFFICES ASSUME NEW i \in F!Active', NEW j \in F!Active', i # j,
                        folders'[i].path = folders'[j].path, folders'[j].ensured
                 PROVE  folders'[i].by \notin before'[folders'[j].by]
      BY DEF F!EnsureIsIdempotent
    <2>1. CASE i \notin F!Rows
      <3>1. folders'[i].by = id /\ id \in F!Requests
        BY <1>1, <2>1 DEF Changes, ChangesFit
      <3>2. folders'[j].by \in F!Requests
        BY <1>0, <1>1, <3>1 DEF Changes
      <3>3. QED BY <3>1, <3>2
    <2>2. CASE i \in F!Rows /\ j \in F!Rows
      <3>1. i \in F!Active /\ j \in F!Active BY <1>1, <2>2
      <3>2. folders[i].by \notin before[folders[j].by]
        BY <3>1, <2>2 DEF Changes, FoldersInv, F!EnsureIsIdempotent
      <3>3. QED BY <1>0, <2>2, <3>2 DEF Changes
    <2>3. CASE i \in F!Rows /\ j \notin F!Rows
      <3>1. i \in F!Active /\ folders'[j].by = id /\ NoneBefore(folders'[j].path, id)
              /\ id \in F!Requests
        BY <1>1, <2>3 DEF Changes, ChangesFit
      <3>2. folders[i].path = folders'[j].path /\ folders'[i].by = folders[i].by
        BY <2>3 DEF Changes
      <3>3. QED BY <3>1, <3>2 DEF NoneBefore
    <2>4. QED BY <2>1, <2>2, <2>3
  <1>4. F!DeletedWereEmpty'
    <2> SUFFICES ASSUME NEW d \in F!Rows', NEW r \in folders'[d].deleters
                 PROVE  /\ \A i \in F!Active' : folders'[i].parent = d =>
                             folders'[i].by \notin before'[r] /\ r \notin before'[folders'[i].by]
                        /\ \A f \in File : files'[f].active /\ files'[f].folder = d =>
                             files'[f].by \notin before'[r]
      BY DEF F!DeletedWereEmpty
    <2>0. /\ d \in F!Rows /\ (r \in folders[d].deleters \/ r = id) /\ r \in F!Requests
      <3>1. d \in F!Rows BY DEF Changes
      <3>2. folders[d].deleters \subseteq F!Requests
        BY <3>1 DEF FoldersInv, FoldersTyped, F!TypeOK, F!RowType
      <3>3. r \in folders[d].deleters \/ (r = id /\ folders'[d].deleters # folders[d].deleters)
        BY <3>1 DEF Changes
      <3>4. QED BY <3>1, <3>2, <3>3 DEF ChangesFit
    <2>1. CASE r \in folders[d].deleters
      <3>1. /\ \A i \in F!Active : folders[i].parent = d =>
                 folders[i].by \notin before[r] /\ r \notin before[folders[i].by]
            /\ \A f \in File : files[f].active /\ files[f].folder = d =>
                 files[f].by \notin before[r]
        BY <2>0, <2>1 DEF FoldersInv, F!DeletedWereEmpty
      <3>2. ASSUME NEW i \in F!Active', folders'[i].parent = d
            PROVE  folders'[i].by \notin before'[r] /\ r \notin before'[folders'[i].by]
        <4>1. CASE i \in F!Rows
          <5>1. i \in F!Active /\ folders[i].parent = d /\ folders'[i].by = folders[i].by
            BY <1>1, <3>2, <4>1 DEF Changes
          <5>2. QED BY <1>0, <2>0, <3>1, <4>1, <5>1
        <4>2. CASE i \notin F!Rows
          <5>1. folders'[i].by = id /\ id \in F!Requests /\ OpenFor(d, id)
            BY <1>1, <3>2, <4>2 DEF Changes, ChangesFit
          <5>2. QED BY <2>0, <2>1, <5>1 DEF OpenFor
        <4>3. QED BY <4>1, <4>2
      <3>3. \A f \in File : files'[f].active /\ files'[f].folder = d =>
              files'[f].by \notin before'[r]
        BY <2>0, <3>1 DEF Changes
      <3>4. QED BY <3>2, <3>3
    <2>2. CASE r = id /\ r \notin folders[d].deleters
      <3>1. NoFolderBefore(d, id) /\ NoFileBefore(d, id) BY <2>0, <2>2 DEF ChangesFit
      <3>2. ASSUME NEW i \in F!Active', folders'[i].parent = d
            PROVE  folders'[i].by \notin before'[r] /\ r \notin before'[folders'[i].by]
        <4>1. folders'[i].by \in F!Requests
          <5>1. CASE i \in F!Rows
            <6>1. folders'[i].by = folders[i].by BY <5>1 DEF Changes
            <6>2. QED BY <1>0, <5>1, <6>1
          <5>2. CASE i \notin F!Rows
            <6>1. folders'[i].by = id BY <1>1, <5>2 DEF Changes
            <6>2. QED BY <2>0, <2>2, <6>1
          <5>3. QED BY <5>1, <5>2
        <4>2. CASE i \in F!Rows
          <5>1. i \in F!Active /\ folders[i].parent = d /\ folders'[i].by = folders[i].by
            BY <1>1, <3>2, <4>2 DEF Changes
          <5>2. QED BY <2>0, <2>2, <3>1, <4>1, <5>1 DEF NoFolderBefore
        <4>3. CASE i \notin F!Rows BY <1>1, <2>0, <2>2, <4>1, <4>3 DEF Changes
        <4>4. QED BY <4>2, <4>3
      <3>3. \A f \in File : files'[f].active /\ files'[f].folder = d =>
              files'[f].by \notin before'[r]
        BY <2>0, <2>2, <3>1 DEF Changes, NoFileBefore
      <3>4. QED BY <3>2, <3>3
    <2>3. QED BY <2>0, <2>1, <2>2
  <1>5. QED BY <1>2, <1>3, <1>4

-----------------------------------------------------------------------------

\* The types, and the numbers of the requests, when a request begins ...
LEMMA FoldersTypedBegin ==
  ASSUME FoldersTyped, NEW h \in Handler, NEW c \in FolderCalls, c.id = F!NextId, F!Begin(h, c)
  PROVE  FoldersTyped'
  <1>1. /\ F!Requests' = F!Requests \cup {F!NextId} /\ before'[F!NextId] = ended
        /\ F!NextId \notin F!Requests /\ F!NextId \in Nat \ {0}
        /\ \A r \in F!Requests : before'[r] = before[r]
        /\ before' \in Seq(SUBSET Nat)
    BY BeforeKept DEF F!Begin
  <1>2. /\ UNCHANGED <<folders, files, ended, folderFaults>> /\ F!Rows' = F!Rows
        /\ \A g \in Handler : folderCall'[g] = IF g = h THEN c ELSE folderCall[g]
        /\ DOMAIN folderCall' = Handler /\ c # F!Idle
    BY FolderCallShapes DEF F!Begin, FoldersTyped, FoldersFit, F!Rows
  <1>3. Len(before) \in Nat BY DEF FoldersTyped, FoldersFit
  <1>4. F!TypeOK'
    <2>1. \A i \in F!Rows' : folders'[i] \in F!RowType' /\ folders'[i].parent < i
      BY <1>1, <1>2 DEF FoldersTyped, F!TypeOK, F!RowType
    <2>2. files' \in [File -> [active : BOOLEAN, folder : {0} \cup F!Rows',
            by : {0} \cup F!Requests']]
      BY <1>1, <1>2 DEF FoldersTyped, F!TypeOK
    <2>3. \A g \in Handler : folderCall'[g] = F!Idle \/ folderCall'[g].id \in F!Requests' \ ended'
      BY <1>1, <1>2 DEF FoldersTyped, F!TypeOK
    <2>4. \A r \in F!Requests' : before'[r] \subseteq 1..(r - 1)
      BY <1>1, <1>2, <1>3 DEF FoldersTyped, F!TypeOK, F!Requests, F!NextId
    <2>5. ended' \subseteq F!Requests' /\ folderFaults' \in Nat
      BY <1>1, <1>2 DEF FoldersTyped, F!TypeOK
    <2>6. QED BY <2>1, <2>2, <2>3, <2>4, <2>5 DEF F!TypeOK
  <1>5. FoldersFit'
    <2>1. \A g, k \in Handler : folderCall'[g] # F!Idle /\ folderCall'[k].id = folderCall'[g].id =>
            g = k
      <3>1. \A g \in Handler : folderCall[g] # F!Idle => folderCall[g].id # F!NextId
        BY <1>1 DEF FoldersTyped, F!TypeOK
      <3>2. F!Idle.id = 0 BY DEF F!Idle
      <3>3. QED BY <3>1, <3>2, <1>1, <1>2 DEF FoldersTyped, FoldersFit
    <2>2. QED BY <1>1, <1>2, <2>1 DEF FoldersTyped, FoldersFit
  <1>6. QED BY <1>4, <1>5 DEF FoldersTyped

\* ... when it goes on ...
LEMMA FoldersTypedContinue ==
  ASSUME FoldersTyped, NEW h \in Handler, folderCall[h] # F!Idle, NEW c \in FolderCalls,
         c.id = folderCall[h].id,
         F!Continue(h, c)
  PROVE  FoldersTyped'
  <1>1. /\ \A g \in Handler : folderCall'[g] = IF g = h THEN c ELSE folderCall[g]
        /\ UNCHANGED <<folders, files, before, ended, folderFaults>>
        /\ DOMAIN folderCall' = Handler /\ c # F!Idle /\ F!Requests' = F!Requests
             /\ F!Rows' = F!Rows
        /\ F!RowType' = F!RowType
    BY FolderCallShapes DEF F!Continue, FoldersTyped, FoldersFit, F!Requests, F!Rows, F!RowType
  <1>2. F!TypeOK' BY <1>1, FolderCallOf DEF FoldersTyped, F!TypeOK
  <1>3. \A g, k \in Handler : folderCall'[g] # F!Idle /\ folderCall'[k].id = folderCall'[g].id =>
          g = k
    <2>1. \A g \in Handler : folderCall'[g].id = folderCall[g].id
            /\ (folderCall'[g] # F!Idle <=> folderCall[g] # F!Idle)
      BY <1>1
    <2>2. QED BY <2>1 DEF FoldersTyped, FoldersFit
  <1>4. QED BY <1>1, <1>2, <1>3 DEF FoldersTyped, FoldersFit

\* ... and when it ends.
LEMMA FoldersTypedEnd ==
  ASSUME FoldersTyped, NEW h \in Handler, folderCall[h] # F!Idle,
         folderCall' = [folderCall EXCEPT ![h] = F!Idle], ended' = ended \cup {folderCall[h].id},
         before' = before,
         folderFaults' \in Nat, folders' \in Seq(FolderRow),
         \A i \in F!Rows' : folders'[i] \in F!RowType /\ folders'[i].parent < i,
         files' \in [File -> [active : BOOLEAN, folder : {0} \cup F!Rows',
           by : {0} \cup F!Requests]]
  PROVE  FoldersTyped'
  <1>1. /\ \A g \in Handler : folderCall'[g] = IF g = h THEN F!Idle ELSE folderCall[g]
        /\ DOMAIN folderCall' = Handler /\ F!Requests' = F!Requests /\ F!RowType' = F!RowType
    BY DEF FoldersTyped, FoldersFit, F!Requests, F!RowType
  <1>2. /\ folderCall[h].id \in F!Requests \ ended
        /\ \A g \in Handler : g # h => folderCall[g].id # folderCall[h].id
    BY FolderCallOf
  <1>3. F!TypeOK'
    <2>1. \A g \in Handler : folderCall'[g] = F!Idle \/ folderCall'[g].id \in F!Requests \ ended'
      BY <1>1, <1>2 DEF FoldersTyped, F!TypeOK
    <2>2. ended' \subseteq F!Requests BY <1>2 DEF FoldersTyped, F!TypeOK
    <2>3. QED BY <1>1, <2>1, <2>2 DEF FoldersTyped, F!TypeOK
  <1>4. \A g, k \in Handler : folderCall'[g] # F!Idle /\ folderCall'[k].id = folderCall'[g].id =>
          g = k
    <2>1. F!Idle.id = 0 /\ \A g \in Handler : folderCall[g] # F!Idle => folderCall[g].id # 0
      BY FolderCallOf DEF F!Idle
    <2>2. QED BY <1>1, <2>1 DEF FoldersTyped, FoldersFit
  <1>5. QED BY <1>1, <1>3, <1>4 DEF FoldersTyped, FoldersFit

\* Nothing is written.
LEMMA NoChange ==
  ASSUME UNCHANGED <<folders, files>>, FoldersInv
  PROVE  Changes(0) /\ ChangesFit(0) /\ \A r \in F!Requests : 0 \notin before[r]
  <1>1. F!Rows' = F!Rows BY DEF F!Rows
  <1>2. \A r \in F!Requests : 0 \notin before[r] BY DEF FoldersInv, FoldersTyped, F!TypeOK
  <1>3. QED BY <1>1, <1>2 DEF Changes, ChangesFit

\* A request begins.
LEMMA BeginKept ==
  ASSUME FoldersInv, NEW h \in Handler, NEW c \in FolderCalls, c.id = F!NextId, F!Begin(h, c),
         FolderKnowledge(c)'
  PROVE  FoldersInv'
  <1>1. /\ UNCHANGED <<folders, files>>
        /\ \A g \in Handler : folderCall'[g] = IF g = h THEN c ELSE folderCall[g]
        /\ \A r \in F!Requests : before'[r] = before[r]
    BY BeforeKept DEF F!Begin, FoldersInv, FoldersTyped, FoldersFit
  <1>2. FoldersKnown'
    <2> SUFFICES ASSUME NEW g \in Handler, folderCall'[g] # F!Idle
                 PROVE  FolderKnowledge(folderCall[g])'
      BY DEF FoldersKnown
    <2>1. PICK k : k = folderCall'[g] OBVIOUS
    <2>2. SUFFICES FolderKnowledge(k)' BY <2>1 DEF FolderKnowledge
    <2>3. CASE g = h BY <1>1, <2>1, <2>3
    <2>4. CASE g # h
      <3>1. k = folderCall[g] /\ k \in FolderCalls /\ k.id \in F!Requests /\ FolderKnowledge(k)
        BY <1>1, <2>1, <2>4, FolderCallOf DEF FoldersInv, FoldersKnown
      <3>2. QED BY <1>1, <3>1, NoChange, KnowledgeKept
    <2>5. QED BY <2>3, <2>4
  <1>3. QED BY <1>1, <1>2, FoldersTypedBegin, NoChange, PropertiesKept DEF FoldersInv

\* A request that is under way moves on ...
LEMMA ContinueKept ==
  ASSUME FoldersInv, NEW h \in Handler, folderCall[h] # F!Idle, NEW c \in FolderCalls,
         c.id = folderCall[h].id,
         F!Continue(h, c), FolderKnowledge(c)
  PROVE  FoldersInv'
  <1>1. /\ UNCHANGED <<folders, files, before>>
        /\ \A g \in Handler : folderCall'[g] = IF g = h THEN c ELSE folderCall[g]
    BY DEF F!Continue, FoldersInv, FoldersTyped, FoldersFit
  <1>2. FoldersKnown'
    <2> SUFFICES ASSUME NEW g \in Handler, folderCall'[g] # F!Idle
                 PROVE  FolderKnowledge(folderCall[g])'
      BY DEF FoldersKnown
    <2>1. PICK k : k = folderCall'[g] OBVIOUS
    <2>2. SUFFICES FolderKnowledge(k)' BY <2>1 DEF FolderKnowledge
    <2>3. k \in FolderCalls /\ k.id \in F!Requests /\ FolderKnowledge(k)
      BY <1>1, <2>1, FolderCallOf DEF FoldersInv, FoldersKnown
    <2>4. QED BY <1>1, <2>3, NoChange, KnowledgeKept
  <1>3. QED BY <1>1, <1>2, FoldersTypedContinue, NoChange, PropertiesKept DEF FoldersInv

\* ... and ends.
LEMMA EndKept ==
  ASSUME FoldersInv, NEW h \in Handler, folderCall[h] # F!Idle,
         folderCall' = [folderCall EXCEPT ![h] = F!Idle], ended' = ended \cup {folderCall[h].id},
         before' = before,
         folderFaults' \in Nat, folders' \in Seq(FolderRow),
         \A i \in F!Rows' : folders'[i] \in F!RowType /\ folders'[i].parent < i,
         files' \in [File -> [active : BOOLEAN, folder : {0} \cup F!Rows',
           by : {0} \cup F!Requests]],
         Changes(folderCall[h].id), ChangesFit(folderCall[h].id)
  PROVE  FoldersInv'
  <1>1. \A g \in Handler : folderCall'[g] = IF g = h THEN F!Idle ELSE folderCall[g]
    BY DEF FoldersInv, FoldersTyped, FoldersFit
  <1>2. \A r \in F!Requests : folderCall[h].id \notin before[r] /\ before'[r] = before[r]
    BY FolderCallOf DEF FoldersInv
  <1>3. FoldersKnown'
    <2> SUFFICES ASSUME NEW g \in Handler, folderCall'[g] # F!Idle
                 PROVE  FolderKnowledge(folderCall[g])'
      BY DEF FoldersKnown
    <2>1. PICK k : k = folderCall'[g] OBVIOUS
    <2>2. SUFFICES FolderKnowledge(k)' BY <2>1 DEF FolderKnowledge
    <2>3. k \in FolderCalls /\ k.id \in F!Requests /\ FolderKnowledge(k)
      BY <1>1, <2>1, FolderCallOf DEF FoldersInv, FoldersKnown
    <2>4. QED BY <1>2, <2>3, KnowledgeKept
  <1>4. FoldersTyped' BY FoldersTypedEnd DEF FoldersInv
  <1>5. (F!PathsFollowParents /\ F!EnsureIsIdempotent /\ F!DeletedWereEmpty)'
    BY <1>2, PropertiesKept
  <1>6. QED BY <1>3, <1>4, <1>5 DEF FoldersInv

\* A request that is refused or stopped writes nothing.
LEMMA NothingWritten ==
  ASSUME FoldersInv, NEW h \in Handler, folderCall[h] # F!Idle,
         folderCall' = [folderCall EXCEPT ![h] = F!Idle], ended' = ended \cup {folderCall[h].id},
         before' = before,
         folderFaults' \in Nat, UNCHANGED <<folders, files>>
  PROVE  FoldersInv'
  <1>1. /\ folders' \in Seq(FolderRow) /\ F!Rows' = F!Rows
        /\ \A i \in F!Rows' : folders'[i] \in F!RowType /\ folders'[i].parent < i
        /\ files' \in [File -> [active : BOOLEAN, folder : {0} \cup F!Rows',
             by : {0} \cup F!Requests]]
    BY DEF FoldersInv, FoldersTyped, F!TypeOK, FoldersFit, F!Rows
  <1>2. Changes(folderCall[h].id) /\ ChangesFit(folderCall[h].id)
    BY <1>1 DEF Changes, ChangesFit
  <1>3. QED BY <1>1, <1>2, EndKept

-----------------------------------------------------------------------------

\* The rows the last request sees.
LEMMA RowsFit ==
  ASSUME FoldersTyped
  PROVE  /\ folders \in Seq(FolderRow) /\ F!Rows = 1..Len(folders) /\ Len(folders) \in Nat
         /\ \A i \in F!Rows : folders[i] \in F!RowType /\ folders[i].parent < i
  BY LenProperties DEF FoldersTyped, F!TypeOK, FoldersFit, F!Rows

\* The rows a request adds, behind those there are.
LEMMA RowsAdded ==
  ASSUME FoldersInv, NEW h \in Handler, folderCall[h] # F!Idle, NEW new \in Seq(FolderRow),
         folderCall' = [folderCall EXCEPT ![h] = F!Idle], ended' = ended \cup {folderCall[h].id},
         UNCHANGED <<files, before, folderFaults>>, folders' = folders \o new,
         \A n \in 1..Len(new) :
           /\ new[n].by = folderCall[h].id /\ new[n].deleters = {}
           /\ new[n].parent < Len(folders) + n
           /\ new[n].ensured => NoneBefore(new[n].path, folderCall[h].id)
           /\ OpenFor(new[n].parent, folderCall[h].id)
           /\ \/ Below(new[n].path, new[n].parent)
              \/ /\ n > 1 /\ new[n].parent = Len(folders) + n - 1
                 /\ new[n - 1].path = Front(new[n].path)
  PROVE  FoldersInv'
  <1> DEFINE k == Len(folders)
  <1>0. FoldersTyped /\ k \in Nat /\ F!Rows = 1..k /\ Len(new) \in Nat /\ folders \in Seq(FolderRow)
        /\ folderCall[h].id \in F!Requests /\ F!Requests \subseteq Nat
    BY RowsFit, FolderCallOf DEF FoldersInv, F!Requests
  <1>1. /\ folders' \in Seq(FolderRow) /\ F!Rows' = 1..(k + Len(new))
        /\ \A i \in 1..k : folders'[i] = folders[i]
        /\ \A i \in F!Rows' \ 1..k : i - k \in 1..Len(new) /\ folders'[i] = new[i - k]
        /\ \A n \in 1..Len(new) : k + n \in F!Rows' /\ folders'[k + n] = new[n]
    <2>1. /\ folders \o new \in Seq(FolderRow) /\ Len(folders \o new) = k + Len(new)
          /\ \A i \in 1..(k + Len(new)) :
               (folders \o new)[i] = IF i <= k THEN folders[i] ELSE new[i - k]
      BY <1>0, ConcatProperties
    <2>2. DOMAIN (folders \o new) = 1..(k + Len(new)) BY <2>1, LenProperties
    <2>3. QED BY <1>0, <2>1, <2>2 DEF F!Rows
  <1> HIDE DEF k
  <1>2. F!Requests' = F!Requests /\ F!RowType' = F!RowType BY DEF F!Requests, F!RowType
  <1>3. \A i \in F!Rows' : folders'[i] \in F!RowType /\ folders'[i].parent < i
    <2> SUFFICES ASSUME NEW i \in F!Rows' PROVE folders'[i] \in F!RowType /\ folders'[i].parent < i
      OBVIOUS
    <2>1. CASE i \in 1..k BY <1>0, <1>1, <2>1, RowsFit DEF k
    <2>2. CASE i \notin 1..k
      <3>1. PICK n \in 1..Len(new) : n = i - k /\ folders'[i] = new[n] BY <1>1, <2>2
      <3>2. i = k + n BY <1>0, <1>1, <3>1
      <3>3. new[n] \in FolderRow /\ new[n].by \in F!Requests /\ new[n].deleters = {}
            /\ new[n].parent < i
        BY <1>0, <3>1, <3>2 DEF k
      <3>4. QED BY <3>1, <3>3 DEF FolderRow, F!RowType
    <2>3. QED BY <2>1, <2>2
  <1>4. files' \in [File -> [active : BOOLEAN, folder : {0} \cup F!Rows', by : {0} \cup F!Requests]]
    <2>1. F!Rows \subseteq F!Rows' BY <1>0, <1>1
    <2>2. QED BY <2>1 DEF FoldersInv, FoldersTyped, F!TypeOK
  <1>5. Changes(folderCall[h].id)
    <2>1. ASSUME NEW i \in F!Rows' \ F!Rows
          PROVE  folders'[i].by = folderCall[h].id /\ folders'[i].deleters = {}
      <3>1. F!Rows = 1..k BY <1>0
      <3>2. PICK n \in 1..Len(new) : folders'[i] = new[n] BY <3>1, <1>1
      <3>3. QED BY <3>2
    <2>2. F!Rows \subseteq F!Rows' BY <1>0, <1>1
    <2>3. QED BY <1>0, <1>1, <2>1, <2>2 DEF Changes
  <1>6. ChangesFit(folderCall[h].id)
    <2>1. ASSUME NEW i \in F!Rows' \ F!Rows
          PROVE  LET row == folders'[i] IN
            /\ folderCall[h].id \in F!Requests
            /\ IF row.parent = 0 THEN Len(row.path) = 1
               ELSE row.parent \in F!Rows' /\ folders'[row.parent].path = Front(row.path)
            /\ OpenFor(row.parent, folderCall[h].id)
            /\ row.ensured => NoneBefore(row.path, folderCall[h].id)
      <3>1. PICK n \in 1..Len(new) : n = i - k /\ folders'[i] = new[n] BY <1>0, <1>1, <2>1
      <3>2. CASE Below(new[n].path, new[n].parent)
        <4>1. F!Rows = 1..k BY <1>0
        <4>2. \A j \in F!Rows : folders'[j] = folders[j] BY <4>1, <1>1
        <4>3. F!Rows \subseteq F!Rows' BY <1>0, <1>1, <4>1
        <4>4. QED BY <1>0, <3>1, <3>2, <4>2, <4>3 DEF Below
      <3>3. CASE n > 1 /\ new[n].parent = k + n - 1 /\ new[n - 1].path = Front(new[n].path)
        <4>1. n - 1 \in 1..Len(new) /\ new[n].parent = k + (n - 1) /\ new[n].parent # 0
          BY <1>0, <3>1, <3>3
        <4>2. new[n].parent \in F!Rows' /\ folders'[new[n].parent] = new[n - 1]
          BY <1>1, <4>1
        <4>3. QED BY <1>0, <3>1, <3>3, <4>1, <4>2
      <3>4. QED BY <3>1, <3>2, <3>3 DEF k
    <2>2. \A d \in F!Rows : folders'[d] = folders[d] BY <1>0, <1>1
    <2>3. QED BY <2>1, <2>2 DEF ChangesFit
  <1>7. folderFaults' \in Nat BY DEF FoldersInv, FoldersTyped, F!TypeOK
  <1>8. QED BY <1>1, <1>2, <1>3, <1>4, <1>5, <1>6, <1>7, EndKept

\* create_folder: the parent was active when the request began, so no delete of
\* it had ended.
LEMMA CreateFolderStep ==
  ASSUME FoldersInv, NEW h \in Handler, F!Create(h)
  PROVE  FoldersInv'
  <1>0. FoldersTyped /\ F!NextId \in Nat BY DEF FoldersInv, FoldersTyped, FoldersFit, F!NextId
  <1>1. CASE F!create_root(h)
    <2>1. PICK n \in Name :
            F!Begin(h, [op |-> "create", id |-> F!NextId, path |-> <<n>>, parent |-> 0])
      BY <1>1 DEF F!create_root
    <2>2. PICK c : c = [op |-> "create", id |-> F!NextId, path |-> <<n>>, parent |-> 0]
      OBVIOUS
    <2>3. <<n>> \in F!Path /\ Len(<<n>>) = 1
      <3>1. <<n>> \in Seq(Name) /\ Len(<<n>>) \in 1..MaxDepth
        BY CatalogueAssumption DEF F!FoldersAssumption
      <3>2. QED BY <3>1, PathIsSeq
    <2>4. c \in FolderCalls BY <1>0, <2>2, <2>3 DEF FolderCalls, CreatingFolder
    <2>5. 0 \notin F!Rows' BY <1>0, <2>1, RowsFit DEF F!Begin, F!Rows
    <2>6. FolderKnowledge(c)' BY <2>2, <2>3, <2>5 DEF FolderKnowledge, Below, OpenFor
    <2>7. QED BY <2>1, <2>2, <2>4, <2>6, BeginKept
  <1>2. CASE F!create_child(h)
    <2>1. PICK n \in Name, p \in F!Active :
            /\ Len(folders[p].path) < MaxDepth
            /\ F!Begin(h, [op |-> "create", id |-> F!NextId, path |-> Append(folders[p].path, n),
                         parent |-> p])
      BY <1>2 DEF F!create_child
    <2>2. PICK c : c = [op |-> "create", id |-> F!NextId, path |-> Append(folders[p].path, n),
                        parent |-> p]
      OBVIOUS
    <2>3. p \in F!Rows /\ folders[p].deleters = {} /\ folders[p].path \in F!Path /\ p \in Nat \ {0}
      BY <1>0, RowsFit DEF F!Active, F!RowType
    <2>4. /\ Append(folders[p].path, n) \in F!Path
               /\ Front(Append(folders[p].path, n)) = folders[p].path
      BY <2>1, <2>3, ExtendedPath
    <2>5. c \in FolderCalls BY <1>0, <2>2, <2>3, <2>4 DEF FolderCalls, CreatingFolder
    <2>6. folders' = folders /\ F!Rows' = F!Rows BY <2>1 DEF F!Begin, F!Rows
    <2>7. FolderKnowledge(c)'
      BY <2>2, <2>3, <2>4, <2>6 DEF FolderKnowledge, Below, OpenFor
    <2>8. QED BY <2>1, <2>2, <2>5, <2>7, BeginKept
  <1>3. CASE F!create_folder(h)
    <2> DEFINE c == folderCall[h]
               row == F!Row(c.path, c.parent, h)
    <2>1. c.op = "create" /\ c # F!Idle BY <1>3, FolderCallNotIdle DEF F!create_folder
    <2>2. c \in CreatingFolder /\ FolderKnowledge(c)
      BY <2>1, FolderCallOf, FolderCallShapes DEF FoldersInv, FoldersKnown
    <2>3. Below(c.path, c.parent) /\ OpenFor(c.parent, c.id) BY <2>1, <2>2 DEF FolderKnowledge
    <2>4. row \in FolderRow /\ row.by = c.id /\ row.deleters = {} /\ row.ensured = FALSE
          /\ row.path = c.path /\ row.parent = c.parent
      BY <2>1, <2>2 DEF F!Row, FolderRow, CreatingFolder
    <2>5. c.parent < Len(folders) + 1
      BY <1>0, <2>2, <2>3, RowsFit DEF Below, CreatingFolder
    <2>6. /\ folderCall' = [folderCall EXCEPT ![h] = F!Idle] /\ ended' = ended \cup {c.id}
          /\ UNCHANGED <<files, before, folderFaults>> /\ folders' = folders \o <<row>>
      <3>1. folders' = Append(folders, row) /\ F!End(h) /\ files' = files
        BY <1>3 DEF F!create_folder
      <3>2. Append(folders, row) = folders \o <<row>>
        BY <1>0, <2>4, RowsFit, AppendIsConcat
      <3>3. QED BY <3>1, <3>2 DEF F!End
    <2> HIDE DEF row
    <2>7. /\ <<row>> \in Seq(FolderRow) /\ Len(<<row>>) = 1
          /\ \A n \in 1..1 : n = 1 /\ <<row>>[n] = row
      BY <2>4
    <2>8. QED BY <2>1, <2>3, <2>4, <2>5, <2>6, <2>7, RowsAdded
  <1>4. QED BY <1>1, <1>2, <1>3 DEF F!Create

\* The rows that end up in the table are the rows the request has added.
LEMMA EnsuredFit ==
  ASSUME FoldersInv, NEW h \in Handler, folderCall[h].op = "ensure"
  PROVE  /\ F!Ensured(h) \in Seq(FolderRow)
         /\ \A n \in 1..Len(F!Ensured(h)) :
              LET row == F!Ensured(h)[n] IN
                /\ row.by = folderCall[h].id /\ row.deleters = {}
                /\ row.parent < Len(folders) + n
                /\ row.ensured => NoneBefore(row.path, folderCall[h].id)
                /\ OpenFor(row.parent, folderCall[h].id)
                /\ \/ Below(row.path, row.parent)
                   \/ /\ n > 1 /\ row.parent = Len(folders) + n - 1
                      /\ F!Ensured(h)[n - 1].path = Front(row.path)
  <1> DEFINE c == folderCall[h]
             k == Len(folders)
             new == F!Ensured(h)
             RowOf(a, n) == [path |-> a.path, by |-> c.id, ensured |-> TRUE, deleters |-> {},
                             parent |-> IF a.fresh THEN k + n - 1 ELSE a.parent]
  <1>1. c # F!Idle /\ c \in EnsuringPath /\ Walked(c) /\ AddedFit(c) /\ c.id \in F!Requests
    BY FolderCallNotIdle, FolderCallOf, FolderCallShapes DEF FoldersInv, FoldersKnown,
      FolderKnowledge
  <1>2. FoldersTyped /\ k \in Nat /\ F!Rows = 1..k /\ \A i \in F!Rows : folders[i] \in F!RowType
    BY RowsFit DEF FoldersInv
  <1>3. c.added \in Seq(AddedRow) /\ Len(c.added) \in Nat /\ DOMAIN c.added = 1..Len(c.added)
        /\ \A n \in 1..Len(c.added) : c.added[n] \in AddedRow
    BY <1>1, LenProperties DEF EnsuringPath
  <1>4. \A n \in 1..Len(c.added) : new[n] = RowOf(c.added[n], n)
    BY <1>3 DEF F!Ensured, F!Row
  <1>5. \A n \in 1..Len(c.added) : new[n] \in FolderRow
    <2> SUFFICES ASSUME NEW n \in 1..Len(c.added) PROVE new[n] \in FolderRow OBVIOUS
    <2>1. c.added[n] \in AddedRow /\ c.id \in Nat BY <1>1, <1>3 DEF EnsuringPath
    <2>2. (IF c.added[n].fresh THEN k + n - 1 ELSE c.added[n].parent) \in Nat
      BY <1>2, <1>3, <2>1 DEF AddedRow
    <2>3. PICK a, p : a = c.added[n] /\ p = IF a.fresh THEN k + n - 1 ELSE a.parent OBVIOUS
    <2>4. new[n] = [path |-> a.path, by |-> c.id, ensured |-> TRUE, deleters |-> {}, parent |-> p]
      BY <1>4, <2>3
    <2> HIDE DEF new, c, k, RowOf
    <2>5. a.path \in F!Path /\ p \in Nat BY <2>1, <2>2, <2>3 DEF AddedRow
    <2>6. PICK path, id : path = a.path /\ id = c.id OBVIOUS
    <2>7. path \in F!Path /\ id \in Nat /\ p \in Nat BY <2>1, <2>5, <2>6
    <2>8. [path |-> path, by |-> id, ensured |-> TRUE, deleters |-> {}, parent |-> p] \in FolderRow
      BY <2>7 DEF FolderRow
    <2>9. QED BY <2>4, <2>6, <2>8
  <1>6. new \in Seq(FolderRow) /\ Len(new) = Len(c.added)
    <2>1. new = [n \in 1..Len(c.added) |-> new[n]] BY <1>3 DEF F!Ensured
    <2>2. PICK rows, m : rows = new /\ m = Len(c.added) OBVIOUS
    <2> HIDE DEF new, c
    <2>3. m \in Nat /\ rows = [n \in 1..m |-> rows[n]] /\ \A n \in 1..m : rows[n] \in FolderRow
      BY <1>3, <1>5, <2>1, <2>2
    <2>4. rows \in Seq(FolderRow) /\ DOMAIN rows = 1..m BY <2>3
    <2>5. Len(rows) = m BY <2>3, <2>4, LenProperties
    <2>6. QED BY <2>2, <2>4, <2>5
  <1> HIDE DEF new, k, c, RowOf
  <1>7. ASSUME NEW n \in 1..Len(c.added)
        PROVE  /\ new[n].by = c.id /\ new[n].deleters = {}
               /\ new[n].parent < k + n
               /\ new[n].ensured => NoneBefore(new[n].path, c.id)
               /\ OpenFor(new[n].parent, c.id)
               /\ \/ Below(new[n].path, new[n].parent)
                  \/ /\ n > 1 /\ new[n].parent = k + n - 1
                     /\ new[n - 1].path = Front(new[n].path)
    <2> DEFINE a == c.added[n]
    <2>1. a \in AddedRow /\ new[n] = RowOf(a, n) /\ n \in Nat \ {0}
      BY <1>3, <1>4
    <2>2. /\ NoneBefore(a.path, c.id)
          /\ a.fresh => n > 1 /\ c.added[n - 1].path = Front(a.path)
          /\ ~ a.fresh => Below(a.path, a.parent) /\ OpenFor(a.parent, c.id)
      BY <1>1, <1>3 DEF AddedFit
    <2> HIDE DEF a
    <2>3. /\ new[n].by = c.id /\ new[n].deleters = {} /\ new[n].path = a.path
          /\ new[n].parent = IF a.fresh THEN k + n - 1 ELSE a.parent
      BY <2>1 DEF RowOf
    <2>4. CASE a.fresh
      <3>1. n > 1 /\ n - 1 \in 1..Len(c.added) /\ new[n].parent = k + n - 1
        BY <1>3, <2>1, <2>2, <2>3, <2>4
      <3>2. new[n - 1].path = Front(a.path)
        <4>1. new[n - 1] = RowOf(c.added[n - 1], n - 1) BY <1>4, <3>1
        <4>2. new[n - 1].path = c.added[n - 1].path BY <4>1 DEF RowOf
        <4>3. QED BY <2>2, <2>4, <4>2
      <3>3. k + n - 1 < k + n /\ k + n - 1 \notin F!Rows
        BY <1>2, <2>1, <3>1
      <3>4. QED BY <2>2, <2>3, <3>1, <3>2, <3>3 DEF OpenFor
    <2>5. CASE ~ a.fresh
      <3>1. new[n].parent = a.parent /\ Below(a.path, a.parent) /\ OpenFor(a.parent, c.id)
        BY <2>2, <2>3, <2>5
      <3>2. a.parent < k + n
        <4>1. a.parent = 0 \/ a.parent \in 1..k BY <1>2, <3>1 DEF Below
        <4>2. QED BY <1>2, <2>1, <4>1
      <3>3. QED BY <2>2, <2>3, <3>1, <3>2
    <2>6. QED BY <2>1, <2>4, <2>5 DEF AddedRow
  <1>8. QED BY <1>6, <1>7 DEF new, k, c

\* ensure_path: each round leaves the request with the row of the segment it
\* has found, or with a row to add below the one before.
LEMMA EnsurePathStep ==
  ASSUME FoldersInv, NEW h \in Handler, F!Ensure(h)
  PROVE  FoldersInv'
  <1>0. FoldersTyped /\ F!NextId \in Nat BY DEF FoldersInv, FoldersTyped, FoldersFit, F!NextId
  <1>1. CASE F!ensure_path(h)
    <2>1. PICK p \in F!Path :
            F!Begin(h, [op |-> "ensure", id |-> F!NextId, path |-> p, at |-> 0,
                      parent |-> 0, fresh |-> FALSE, added |-> <<>>])
      BY <1>1 DEF F!ensure_path
    <2>2. PICK c : c = [op |-> "ensure", id |-> F!NextId, path |-> p, at |-> 0,
                        parent |-> 0, fresh |-> FALSE, added |-> <<>>]
      OBVIOUS
    <2>3. c \in FolderCalls BY <1>0, <2>2 DEF FolderCalls, EnsuringPath
    <2>4. Len(p) \in Nat BY PathIsSeq
    <2>5. 0 \notin F!Rows' BY <1>0, <2>1, RowsFit DEF F!Begin, F!Rows
    <2>6. Walked(c)' /\ AddedFit(c)'
      BY <2>2, <2>4, <2>5 DEF Walked, AddedFit, OpenFor
    <2>7. FolderKnowledge(c)' BY <2>2, <2>6 DEF FolderKnowledge
    <2>8. QED BY <2>1, <2>2, <2>3, <2>7, BeginKept
  <1>2. CASE F!ensure_segment(h)
    <2>1. PICK c : c = folderCall[h] OBVIOUS
    <2>2. PICK path : path = SubSeq(c.path, 1, c.at + 1) OBVIOUS
    <2>3. /\ c.op = "ensure" /\ c.at < Len(c.path)
          /\ \/ \E i \in F!get_by_path(path) : F!Continue(h, F!Found(c, i))
             \/ F!get_by_path(path) = {} /\ F!Continue(h, F!Missing(c, path))
             \/ F!Refuse(h)
      BY <1>2, <2>1, <2>2 DEF F!ensure_segment
    <2>4. /\ folderCall[h] # F!Idle /\ c \in EnsuringPath /\ Walked(c) /\ AddedFit(c)
               /\ c.id \in F!Requests
      BY <2>1, <2>3, FolderCallNotIdle, FolderCallOf, FolderCallShapes DEF FoldersInv,
        FoldersKnown, FolderKnowledge
    <2>5. /\ c.path \in F!Path /\ c.at \in Nat /\ Len(c.path) \in Nat /\ c.at + 1 \in 1..Len(c.path)
      BY <2>3, <2>4, PathIsSeq DEF EnsuringPath
    <2>6. path \in F!Path /\ Len(path) = c.at + 1 /\ Front(path) = SubSeq(c.path, 1, c.at)
      <3>1. c.at + 1 - 1 = c.at BY <2>5
      <3>2. QED BY <2>2, <2>5, <3>1, PrefixOfPath
    <2>7. CASE \E i \in F!get_by_path(path) : F!Continue(h, F!Found(c, i))
      <3>1. PICK i \in F!get_by_path(path) : F!Continue(h, F!Found(c, i)) BY <2>7
      <3>2. PICK d : d = F!Found(c, i) OBVIOUS
      <3>3. i \in F!Rows /\ folders[i].path = path /\ folders[i].deleters = {} /\ i \in Nat \ {0}
        BY <1>0, RowsFit DEF F!get_by_path, F!Active
      <3>4. /\ d \in EnsuringPath /\ d.op = "ensure" /\ d.id = c.id /\ d.path = c.path
            /\ d.at = c.at + 1 /\ d.parent = i /\ d.fresh = FALSE /\ d.added = c.added
        <4>1. /\ c = [op |-> c.op, id |-> c.id, path |-> c.path, at |-> c.at, parent |-> c.parent,
                       fresh |-> c.fresh, added |-> c.added]
              /\ c.op = "ensure" /\ c.id \in Nat /\ c.path \in F!Path /\ c.at \in Nat
              /\ c.added \in Seq(AddedRow)
          BY <2>4 DEF EnsuringPath
        <4>2. d = [op |-> "ensure", id |-> c.id, path |-> c.path, at |-> c.at + 1, parent |-> i,
                   fresh |-> FALSE, added |-> c.added]
          BY <3>2, <4>1 DEF F!Found
        <4>3. c.at + 1 \in Nat /\ i \in Nat BY <3>3, <4>1
        <4>4. QED BY <4>1, <4>2, <4>3 DEF EnsuringPath
      <3>5. Walked(d)
        BY <2>2, <2>5, <3>3, <3>4 DEF Walked, OpenFor
      <3>6. AddedFit(d) BY <2>4, <3>4 DEF AddedFit
      <3>7. FolderKnowledge(d) BY <3>4, <3>5, <3>6 DEF FolderKnowledge
      <3>8. d \in FolderCalls BY <3>4 DEF FolderCalls
      <3>9. QED BY <2>1, <2>4, <3>1, <3>2, <3>4, <3>7, <3>8, ContinueKept
    <2>8. CASE F!get_by_path(path) = {} /\ F!Continue(h, F!Missing(c, path))
      <3>1. PICK d : d = F!Missing(c, path) OBVIOUS
      <3>2. PICK a : a = [path |-> path, parent |-> c.parent, fresh |-> c.fresh] OBVIOUS
      <3>3. a \in AddedRow BY <2>4, <2>6, <3>2 DEF EnsuringPath, AddedRow
      <3>4. c.added \in Seq(AddedRow) /\ Len(c.added) \in Nat /\ DOMAIN c.added = 1..Len(c.added)
        BY <2>4, LenProperties DEF EnsuringPath
      <3>5. PICK more : more = Append(c.added, a) OBVIOUS
      <3>6. /\ more \in Seq(AddedRow) /\ Len(more) = Len(c.added) + 1
            /\ more[Len(c.added) + 1] = a /\ \A n \in 1..Len(c.added) : more[n] = c.added[n]
        BY <3>3, <3>4, <3>5, AppendProperties
      <3>7. /\ d \in EnsuringPath /\ d.op = "ensure" /\ d.id = c.id /\ d.path = c.path
            /\ d.at = c.at + 1 /\ d.fresh = TRUE /\ d.added = more
        <4>1. /\ c = [op |-> c.op, id |-> c.id, path |-> c.path, at |-> c.at, parent |-> c.parent,
                       fresh |-> c.fresh, added |-> c.added]
              /\ c.op = "ensure" /\ c.id \in Nat /\ c.path \in F!Path /\ c.at \in Nat
              /\ c.parent \in Nat
          BY <2>4 DEF EnsuringPath
        <4>2. d = [op |-> "ensure", id |-> c.id, path |-> c.path, at |-> c.at + 1,
                   parent |-> c.parent, fresh |-> TRUE, added |-> more]
          BY <3>1, <3>2, <3>5, <4>1 DEF F!Missing
        <4>3. c.at + 1 \in Nat /\ more \in Seq(AddedRow) BY <3>6, <4>1
        <4>4. QED BY <4>1, <4>2, <4>3 DEF EnsuringPath
      <3>8. Walked(d)
        <4>1. more # <<>> /\ more[Len(more)].path = path BY <3>2, <3>4, <3>6
        <4>2. QED BY <2>2, <2>5, <3>7, <4>1 DEF Walked
      <3>9. AddedFit(d)
        <4> SUFFICES ASSUME NEW n \in 1..Len(more)
                     PROVE  /\ NoneBefore(more[n].path, c.id)
                            /\ more[n].fresh => n > 1 /\ more[n - 1].path = Front(more[n].path)
                            /\ ~ more[n].fresh => /\ Below(more[n].path, more[n].parent)
                                                  /\ OpenFor(more[n].parent, c.id)
          <5>1. DOMAIN d.added = 1..Len(more) BY <3>6, <3>7, LenProperties
          <5>2. QED BY <3>7, <5>1 DEF AddedFit
        <4>1. CASE n \in 1..Len(c.added)
          <5>1. /\ NoneBefore(c.added[n].path, c.id)
                /\ c.added[n].fresh => n > 1 /\ c.added[n - 1].path = Front(c.added[n].path)
                /\ ~ c.added[n].fresh => /\ Below(c.added[n].path, c.added[n].parent)
                                         /\ OpenFor(c.added[n].parent, c.id)
            BY <2>4, <3>4, <4>1 DEF AddedFit
          <5>2. more[n] = c.added[n] /\ (n > 1 => more[n - 1] = c.added[n - 1])
            BY <3>4, <3>6, <4>1
          <5>3. QED BY <5>1, <5>2
        <4>2. CASE n = Len(c.added) + 1
          <5>1. more[n] = a BY <3>6, <4>2
          <5>2. NoneBefore(path, c.id) BY <2>8 DEF NoneBefore, F!get_by_path
          <5>3. CASE c.fresh
            <6>1. c.added # <<>> /\ c.added[Len(c.added)].path = Front(path)
              BY <2>4, <2>6, <5>3 DEF Walked
            <6>2. Len(c.added) # 0 BY <3>4, <6>1, EmptySeq
            <6>3. n > 1 /\ n - 1 = Len(c.added) /\ n - 1 \in 1..Len(c.added)
              BY <3>4, <4>2, <6>2
            <6>4. more[n - 1].path = Front(path) BY <3>6, <6>1, <6>3
            <6>5. QED BY <3>2, <5>1, <5>2, <5>3, <6>3, <6>4
          <5>4. CASE ~ c.fresh
            <6>1. /\ IF c.at = 0 THEN c.parent = 0
                     ELSE c.parent \in F!Rows /\ folders[c.parent].path = SubSeq(c.path, 1, c.at)
                  /\ OpenFor(c.parent, c.id)
              BY <2>4, <5>4 DEF Walked
            <6>2. Below(path, c.parent)
              <7>1. CASE c.at = 0 BY <2>6, <6>1, <7>1 DEF Below
              <7>2. CASE c.at # 0
                <8>1. c.parent # 0 BY <1>0, <6>1, <7>2, RowsFit
                <8>2. QED BY <2>6, <6>1, <7>2, <8>1 DEF Below
              <7>3. QED BY <7>1, <7>2
            <6>3. QED BY <3>2, <5>1, <5>2, <5>4, <6>1, <6>2
          <5>5. QED BY <5>3, <5>4
        <4>3. QED BY <3>4, <3>6, <4>1, <4>2
      <3>10. FolderKnowledge(d) BY <3>7, <3>8, <3>9 DEF FolderKnowledge
      <3>11. d \in FolderCalls BY <3>7 DEF FolderCalls
      <3>12. QED BY <2>1, <2>4, <2>8, <3>1, <3>7, <3>10, <3>11, ContinueKept
    <2>9. CASE F!Refuse(h)
      BY <2>4, <2>9, NothingWritten DEF F!Refuse, F!End, FoldersInv, FoldersTyped, F!TypeOK
    <2>10. QED BY <2>3, <2>7, <2>8, <2>9
  <1>3. CASE F!ensure_commit(h)
    <2>1. folderCall[h].op = "ensure" /\ folderCall[h] # F!Idle
      BY <1>3, FolderCallNotIdle DEF F!ensure_commit
    <2>2. PICK new : new = F!Ensured(h) OBVIOUS
    <2>3. /\ folderCall' = [folderCall EXCEPT ![h] = F!Idle]
               /\ ended' = ended \cup {folderCall[h].id}
          /\ UNCHANGED <<files, before, folderFaults>> /\ folders' = folders \o new
      BY <1>3, <2>2 DEF F!ensure_commit, F!End
    <2>4. new \in Seq(FolderRow) BY <2>1, <2>2, EnsuredFit
    <2>5. \A n \in 1..Len(new) :
            /\ new[n].by = folderCall[h].id /\ new[n].deleters = {}
            /\ new[n].parent < Len(folders) + n
            /\ new[n].ensured => NoneBefore(new[n].path, folderCall[h].id)
            /\ OpenFor(new[n].parent, folderCall[h].id)
            /\ \/ Below(new[n].path, new[n].parent)
               \/ /\ n > 1 /\ new[n].parent = Len(folders) + n - 1
                  /\ new[n - 1].path = Front(new[n].path)
      BY <2>1, <2>2, EnsuredFit
    <2>6. QED BY <2>1, <2>3, <2>4, <2>5, RowsAdded
  <1>4. QED BY <1>1, <1>2, <1>3 DEF F!Ensure

\* delete_folder: each query adds to what the request knows to be gone.
LEMMA DeleteFolderStep ==
  ASSUME FoldersInv, NEW h \in Handler, F!Delete(h)
  PROVE  FoldersInv'
  <1>0. FoldersTyped /\ F!NextId \in Nat BY DEF FoldersInv, FoldersTyped, FoldersFit, F!NextId
  <1> DEFINE c == folderCall[h]
  <1>1. CASE F!delete_folder(h)
    <2>1. PICK d \in F!Rows : F!Begin(h, [op |-> "subfolders", id |-> F!NextId, folder |-> d])
      BY <1>1 DEF F!delete_folder
    <2>2. PICK k : k = [op |-> "subfolders", id |-> F!NextId, folder |-> d] OBVIOUS
    <2>3. k \in FolderCalls BY <1>0, <2>2, RowsFit DEF FolderCalls, DeletingFolder
    <2>4. d \in F!Rows' BY <2>1 DEF F!Begin, F!Rows
    <2>5. FolderKnowledge(k)' BY <2>2, <2>4 DEF FolderKnowledge
    <2>6. QED BY <2>1, <2>2, <2>3, <2>5, BeginKept
  <1>2. ASSUME c.op \in {"subfolders", "files", "get", "delete"}
        PROVE  /\ folderCall[h] # F!Idle /\ c \in DeletingFolder /\ c.id \in F!Requests
                    /\ FolderKnowledge(c)
               /\ c.folder \in F!Rows
    <2>1. folderCall[h] # F!Idle BY <1>2, FolderCallNotIdle
    <2>2. QED BY <1>0, <1>2, <2>1, FolderCallOf, FolderCallShapes DEF FoldersInv, FoldersKnown,
      FolderKnowledge
  <1>3. ASSUME c.op \in {"subfolders", "files", "get"}, F!Refuse(h) PROVE FoldersInv'
    BY <1>2, <1>3, NothingWritten DEF F!Refuse, F!End, FoldersInv, FoldersTyped, F!TypeOK
  <1>4. ASSUME c.op \in {"subfolders", "files", "get"}, NEW op \in {"files", "get", "delete"},
               F!Continue(h, [c EXCEPT !.op = op]),
               op = "files" => NoFolderBefore(c.folder, c.id),
               op = "get" => c.op = "files" /\ NoFileBefore(c.folder, c.id),
               op = "delete" => c.op = "get"
        PROVE  FoldersInv'
    <2>1. folderCall[h] # F!Idle /\ c \in DeletingFolder /\ FolderKnowledge(c)
            /\ c.folder \in F!Rows
      BY <1>2, <1>4
    <2>2. PICK d : d = [c EXCEPT !.op = op] OBVIOUS
    <2> HIDE DEF c
    <2>3. d \in DeletingFolder /\ d.op = op /\ d.id = c.id /\ d.folder = c.folder
      BY <2>1, <2>2 DEF DeletingFolder
    <2>4. FolderKnowledge(d) BY <1>4, <2>1, <2>3 DEF FolderKnowledge
    <2>5. d \in FolderCalls BY <2>3 DEF FolderCalls
    <2>6. QED BY <1>4, <2>1, <2>2, <2>3, <2>4, <2>5, ContinueKept DEF c
  <1>5. CASE F!has_subfolders(h)
    <2>1. c.op = "subfolders" BY <1>5 DEF F!has_subfolders
    <2>2. CASE F!HasSubfolders(c.folder) BY <1>3, <1>5, <2>1, <2>2 DEF F!has_subfolders
    <2>3. CASE ~ F!HasSubfolders(c.folder)
      <3>1. F!Continue(h, [c EXCEPT !.op = "files"]) BY <1>5, <2>3 DEF F!has_subfolders
      <3>2. NoFolderBefore(c.folder, c.id) BY <2>3 DEF F!HasSubfolders, NoFolderBefore
      <3>3. QED BY <1>4, <2>1, <3>1, <3>2
    <2>4. QED BY <2>2, <2>3
  <1>6. CASE F!has_files(h)
    <2>1. c.op = "files" BY <1>6 DEF F!has_files
    <2>2. CASE F!HasFiles(c.folder) BY <1>3, <1>6, <2>1, <2>2 DEF F!has_files
    <2>3. CASE ~ F!HasFiles(c.folder)
      <3>1. F!Continue(h, [c EXCEPT !.op = "get"]) BY <1>6, <2>3 DEF F!has_files
      <3>2. NoFileBefore(c.folder, c.id) BY <2>3 DEF F!HasFiles, NoFileBefore
      <3>3. QED BY <1>4, <2>1, <3>1, <3>2
    <2>4. QED BY <2>2, <2>3
  <1>7. CASE F!delete_get(h)
    <2>1. c.op = "get" BY <1>7 DEF F!delete_get
    <2>2. CASE c.folder \notin F!Active BY <1>3, <1>7, <2>1, <2>2 DEF F!delete_get
    <2>3. CASE c.folder \in F!Active
      <3>1. F!Continue(h, [c EXCEPT !.op = "delete"]) BY <1>7, <2>3 DEF F!delete_get
      <3>2. QED BY <1>4, <2>1, <3>1
    <2>4. QED BY <2>2, <2>3
  <1>8. CASE F!delete_commit(h)
    <2>1. c.op = "delete" /\ folderCall[h] # F!Idle
      BY <1>8, FolderCallNotIdle DEF F!delete_commit
    <2>2. /\ c.folder \in F!Rows /\ c.id \in F!Requests
          /\ NoFolderBefore(c.folder, c.id) /\ NoFileBefore(c.folder, c.id)
      BY <1>2, <2>1 DEF FolderKnowledge
    <2>3. /\ folders' = [folders EXCEPT ![c.folder].deleters = @ \cup {c.id}] /\ files' = files
          /\ folderCall' = [folderCall EXCEPT ![h] = F!Idle] /\ ended' = ended \cup {c.id}
          /\ UNCHANGED <<before, folderFaults>>
      BY <1>8 DEF F!delete_commit, F!End
    <2> HIDE DEF c
    <2>4. /\ F!Rows' = F!Rows
          /\ \A i \in F!Rows : folders'[i] = IF i = c.folder
               THEN [folders[i] EXCEPT !.deleters = @ \cup {c.id}] ELSE folders[i]
      BY <2>3 DEF F!Rows
    <2>5. \A i \in F!Rows :
            folders[i] \in F!RowType /\ folders[i].parent < i /\ folders[i] \in FolderRow
      <3>1. F!Rows = 1..Len(folders) /\ folders \in Seq(FolderRow)
            /\ \A i \in F!Rows : folders[i] \in F!RowType /\ folders[i].parent < i
        BY <1>0, RowsFit
      <3>2. QED BY <3>1, LenProperties
    <2>6. F!Requests \subseteq Nat BY DEF F!Requests
    <2>7. \A i \in F!Rows :
            /\ folders'[i] \in F!RowType /\ folders'[i] \in FolderRow
            /\ folders'[i].path = folders[i].path /\ folders'[i].parent = folders[i].parent
            /\ folders'[i].by = folders[i].by /\ folders'[i].ensured = folders[i].ensured
            /\ folders'[i].deleters =
                 IF i = c.folder THEN folders[i].deleters \cup {c.id} ELSE folders[i].deleters
      <3> SUFFICES ASSUME NEW i \in F!Rows
                   PROVE  /\ folders'[i] \in F!RowType /\ folders'[i] \in FolderRow
                          /\ folders'[i].path = folders[i].path
                               /\ folders'[i].parent = folders[i].parent
                          /\ folders'[i].by = folders[i].by
                               /\ folders'[i].ensured = folders[i].ensured
                          /\ folders'[i].deleters =
                               IF i = c.folder THEN folders[i].deleters \cup {c.id}
                               ELSE folders[i].deleters
        OBVIOUS
      <3>1. CASE i # c.folder BY <2>4, <2>5, <3>1
      <3>2. CASE i = c.folder
        <4>1. folders'[i] = [folders[i] EXCEPT !.deleters = @ \cup {c.id}] BY <2>4, <3>2
        <4>2. QED BY <2>2, <2>5, <2>6, <3>2, <4>1 DEF F!RowType, FolderRow
      <3>3. QED BY <3>1, <3>2
    <2>8. folders' \in Seq(FolderRow)
      <3>1. F!Rows = 1..Len(folders) /\ Len(folders) \in Nat BY <1>0, RowsFit
      <3>2. folders' = [i \in 1..Len(folders) |-> folders'[i]] BY <2>3, <3>1 DEF F!Rows
      <3>3. PICK rows, n : rows = folders' /\ n = Len(folders) OBVIOUS
      <3>4. n \in Nat /\ rows = [i \in 1..n |-> rows[i]] /\ \A i \in 1..n : rows[i] \in FolderRow
        BY <2>7, <3>1, <3>2, <3>3
      <3>5. rows \in Seq(FolderRow) BY <3>4
      <3>6. QED BY <3>3, <3>5
    <2>9. files' \in [File -> [active : BOOLEAN, folder : {0} \cup F!Rows',
            by : {0} \cup F!Requests]]
      BY <1>0, <2>3, <2>4 DEF FoldersTyped, F!TypeOK
    <2>10. Changes(c.id) BY <2>3, <2>4, <2>7 DEF Changes
    <2>11. ChangesFit(c.id) BY <2>2, <2>4, <2>7 DEF ChangesFit
    <2>12. \A i \in F!Rows' : folders'[i] \in F!RowType /\ folders'[i].parent < i
      BY <2>4, <2>5, <2>7
    <2>13. folderFaults' \in Nat BY <1>0, <2>3 DEF FoldersTyped, F!TypeOK
    <2>14. QED BY <2>1, <2>3, <2>8, <2>9, <2>10, <2>11, <2>12, <2>13, EndKept DEF c
  <1>9. QED BY <1>1, <1>5, <1>6, <1>7, <1>8 DEF F!Delete

\* A request that ends and changes one file at most.
LEMMA FileWritten ==
  ASSUME FoldersInv, NEW h \in Handler, folderCall[h] # F!Idle,
         folderCall' = [folderCall EXCEPT ![h] = F!Idle], ended' = ended \cup {folderCall[h].id},
         UNCHANGED <<folders, before, folderFaults>>,
         files' \in [File -> [active : BOOLEAN, folder : {0} \cup F!Rows,
           by : {0} \cup F!Requests]],
         \A f \in File : files'[f] = files[f] \/ files'[f].by = folderCall[h].id
  PROVE  FoldersInv'
  <1>1. /\ F!Rows' = F!Rows /\ folders' \in Seq(FolderRow) /\ folderFaults' \in Nat
             /\ before' = before
        /\ \A i \in F!Rows' : folders'[i] \in F!RowType /\ folders'[i].parent < i
        /\ files' \in [File -> [active : BOOLEAN, folder : {0} \cup F!Rows',
             by : {0} \cup F!Requests]]
    BY RowsFit DEF FoldersInv, FoldersTyped, F!TypeOK, F!Rows
  <1>2. Changes(folderCall[h].id) /\ ChangesFit(folderCall[h].id)
    BY <1>1 DEF Changes, ChangesFit
  <1>3. QED BY <1>1, <1>2, EndKept

\* move_file and init_upload write what no later delete had seen.
LEMMA PutFileStep ==
  ASSUME FoldersInv, NEW h \in Handler, F!Put(h)
  PROVE  FoldersInv'
  <1>0. /\ FoldersTyped /\ F!NextId \in Nat /\ F!Rows \subseteq Nat
        /\ files \in [File -> [active : BOOLEAN, folder : {0} \cup F!Rows,
             by : {0} \cup F!Requests]]
    BY RowsFit DEF FoldersInv, FoldersTyped, F!TypeOK, FoldersFit, F!NextId
  <1>1. CASE F!move_file(h)
    <2>1. PICK f \in File, d \in {0} \cup F!Rows :
            F!Begin(h, [op |-> "move", id |-> F!NextId, file |-> f, folder |-> d,
                      read |-> files[f].folder])
      BY <1>1 DEF F!move_file
    <2>2. PICK k : k = [op |-> "move", id |-> F!NextId, file |-> f, folder |-> d,
                        read |-> files[f].folder]
      OBVIOUS
    <2>3. k \in FolderCalls
      <3>1. files[f].folder \in {0} \cup F!Rows /\ d \in {0} \cup F!Rows BY <1>0
      <3>2. \A i \in {0} \cup F!Rows : i \in Nat BY <1>0
      <3>3. files[f].folder \in Nat /\ d \in Nat BY <3>1, <3>2
      <3>4. QED BY <1>0, <2>2, <3>3 DEF FolderCalls, MovingFile
    <2>4. d \in {0} \cup F!Rows' BY <2>1 DEF F!Begin, F!Rows
    <2>5. FolderKnowledge(k)' BY <2>2, <2>4 DEF FolderKnowledge
    <2>6. QED BY <2>1, <2>2, <2>3, <2>5, BeginKept
  <1>2. CASE F!init_upload(h)
    <2>1. PICK f \in File, d \in {0} \cup F!Rows :
            F!Begin(h, [op |-> "upload", id |-> F!NextId, file |-> f, folder |-> d])
      BY <1>2 DEF F!init_upload
    <2>2. PICK k : k = [op |-> "upload", id |-> F!NextId, file |-> f, folder |-> d] OBVIOUS
    <2>3. k \in FolderCalls BY <1>0, <2>2 DEF FolderCalls, UploadingFile
    <2>4. d \in {0} \cup F!Rows' BY <2>1 DEF F!Begin, F!Rows
    <2>5. FolderKnowledge(k)' BY <2>2, <2>4 DEF FolderKnowledge
    <2>6. QED BY <2>1, <2>2, <2>3, <2>5, BeginKept
  <1>3. ASSUME folderCall[h].op \in {"move", "upload"}
        PROVE  /\ folderCall[h] # F!Idle /\ folderCall[h].id \in F!Requests
                    /\ folderCall[h].folder \in {0} \cup F!Rows
               /\ folderCall[h].file \in File
    <2>1. folderCall[h] # F!Idle BY <1>3, FolderCallNotIdle
    <2>2. QED
      BY <1>0, <1>3, <2>1, FolderCallOf, FolderCallShapes
      DEF FoldersInv, FoldersKnown, FolderKnowledge, MovingFile, UploadingFile
  <1>4. CASE F!move_commit(h)
    <2>1. PICK c : c = folderCall[h] OBVIOUS
    <2>2. /\ c.op = "move" /\ F!End(h) /\ folders' = folders
          /\ files' = IF c.folder = c.read THEN files
                      ELSE [files EXCEPT ![c.file].folder = c.folder, ![c.file].by = c.id]
      BY <1>4, <2>1 DEF F!move_commit
    <2>3. folderCall[h] # F!Idle /\ c.id \in F!Requests /\ c.folder \in {0} \cup F!Rows
            /\ c.file \in File
      BY <1>3, <2>1, <2>2
    <2>4. files' \in [File -> [active : BOOLEAN, folder : {0} \cup F!Rows,
            by : {0} \cup F!Requests]]
      BY <1>0, <2>2, <2>3
    <2>5. \A f \in File : files'[f] = files[f] \/ files'[f].by = c.id
      BY <1>0, <2>2, <2>3
    <2>6. QED BY <2>1, <2>2, <2>3, <2>4, <2>5, FileWritten DEF F!End
  <1>5. CASE F!init_commit(h)
    <2>1. PICK c : c = folderCall[h] OBVIOUS
    <2>2. /\ c.op = "upload" /\ F!End(h) /\ folders' = folders
          /\ files' = [files EXCEPT ![c.file] =
                         [active |-> TRUE, folder |-> c.folder, by |-> c.id]]
      BY <1>5, <2>1 DEF F!init_commit
    <2>3. folderCall[h] # F!Idle /\ c.id \in F!Requests /\ c.folder \in {0} \cup F!Rows
            /\ c.file \in File
      BY <1>3, <2>1, <2>2
    <2>4. files' \in [File -> [active : BOOLEAN, folder : {0} \cup F!Rows,
            by : {0} \cup F!Requests]]
      BY <1>0, <2>2, <2>3
    <2>5. \A f \in File : files'[f] = files[f] \/ files'[f].by = c.id
      BY <1>0, <2>2, <2>3
    <2>6. QED BY <2>1, <2>2, <2>3, <2>4, <2>5, FileWritten DEF F!End
  <1>6. QED BY <1>1, <1>2, <1>4, <1>5 DEF F!Put

\* Deleting a file disturbs nothing.
LEMMA DeleteFileStep ==
  ASSUME FoldersInv, NEW f \in File, F!delete_file(f)
  PROVE  FoldersInv'
  <1>1. /\ UNCHANGED <<folders, folderCall, before, ended, folderFaults>>
        /\ files' = [files EXCEPT ![f].active = FALSE]
        /\ F!Rows' = F!Rows /\ F!Requests' = F!Requests /\ F!RowType' = F!RowType
    BY DEF F!delete_file, F!Rows, F!Requests, F!RowType
  <1>2. files \in [File -> [active : BOOLEAN, folder : {0} \cup F!Rows, by : {0} \cup F!Requests]]
    BY DEF FoldersInv, FoldersTyped, F!TypeOK
  <1>3. /\ files' \in [File -> [active : BOOLEAN, folder : {0} \cup F!Rows,
             by : {0} \cup F!Requests]]
        /\ \A g \in File : /\ files'[g].by = files[g].by /\ files'[g].folder = files[g].folder
                           /\ files'[g].active => files[g].active
    BY <1>1, <1>2
  <1>4. Changes(0) /\ ChangesFit(0) BY <1>1, <1>3 DEF Changes, ChangesFit
  <1>5. \A r \in F!Requests : 0 \notin before[r] /\ before'[r] = before[r]
    BY <1>1 DEF FoldersInv, FoldersTyped, F!TypeOK
  <1>6. FoldersTyped'
    <2>1. F!TypeOK' BY <1>1, <1>3 DEF FoldersInv, FoldersTyped, F!TypeOK
    <2>2. FoldersFit' BY <1>1 DEF FoldersInv, FoldersTyped, FoldersFit
    <2>3. QED BY <2>1, <2>2 DEF FoldersTyped
  <1>7. FoldersKnown'
    <2> SUFFICES ASSUME NEW g \in Handler, folderCall'[g] # F!Idle
                 PROVE  FolderKnowledge(folderCall[g])'
      BY DEF FoldersKnown
    <2>1. PICK k : k = folderCall'[g] OBVIOUS
    <2>2. SUFFICES FolderKnowledge(k)' BY <2>1 DEF FolderKnowledge
    <2>3. k \in FolderCalls /\ k.id \in F!Requests /\ FolderKnowledge(k)
      BY <1>1, <2>1, FolderCallOf DEF FoldersInv, FoldersKnown
    <2>4. QED BY <1>4, <1>5, <2>3, KnowledgeKept
  <1>8. (F!PathsFollowParents /\ F!EnsureIsIdempotent /\ F!DeletedWereEmpty)'
    BY <1>4, <1>5, PropertiesKept
  <1>9. QED BY <1>6, <1>7, <1>8 DEF FoldersInv

\* There is nothing to know at the start.
LEMMA FoldersStart == F!Init => FoldersInv
  <1> SUFFICES ASSUME F!Init PROVE FoldersInv OBVIOUS
  <1>1. /\ F!Rows = {} /\ F!Active = {} /\ F!Requests = {} /\ folders = <<>> /\ before = <<>>
        /\ ended = {} /\ folderFaults = 0 /\ \A h \in Handler : folderCall[h] = F!Idle
        /\ DOMAIN folderCall = Handler
    BY DEF F!Init, F!Rows, F!Active, F!Requests
  <1>2. F!TypeOK BY <1>1 DEF F!Init, F!TypeOK
  <1>3. before \in Seq(SUBSET Nat) /\ folders \in Seq(FolderRow) BY <1>1
  <1>4. FoldersFit BY <1>1, <1>3 DEF FoldersFit
  <1>5. FoldersKnown BY <1>1 DEF FoldersKnown
  <1>6. F!PathsFollowParents /\ F!EnsureIsIdempotent /\ F!DeletedWereEmpty
    BY <1>1 DEF F!PathsFollowParents, F!EnsureIsIdempotent, F!DeletedWereEmpty
  <1>7. QED BY <1>2, <1>4, <1>5, <1>6 DEF FoldersInv, FoldersTyped

\* Every step keeps the invariant.
LEMMA FoldersStep == FoldersInv /\ [F!Next]_F!vars => FoldersInv'
  <1> SUFFICES ASSUME FoldersInv, [F!Next]_F!vars PROVE FoldersInv' OBVIOUS
  <1>1. CASE \E h \in Handler : F!Create(h) \/ F!Ensure(h) \/ F!Delete(h) \/ F!Put(h) \/ F!stop(h)
    <2>1. PICK h \in Handler : F!Create(h) \/ F!Ensure(h) \/ F!Delete(h) \/ F!Put(h) \/ F!stop(h)
      BY <1>1
    <2>2. CASE F!stop(h)
      <3>1. folderFaults' \in Nat BY <2>2 DEF F!stop, FoldersInv, FoldersTyped, F!TypeOK
      <3>2. QED BY <2>2, <3>1, NothingWritten DEF F!stop
    <2>3. QED BY <2>1, <2>2, CreateFolderStep, EnsurePathStep, DeleteFolderStep, PutFileStep
  <1>2. CASE \E f \in File : F!delete_file(f) BY <1>2, DeleteFileStep
  <1>3. CASE UNCHANGED F!vars
    <2>1. UNCHANGED <<folders, files, folderCall, before, ended, folderFaults>>
      BY <1>3 DEF F!vars
    <2>2. F!Rows' = F!Rows /\ F!Active' = F!Active /\ F!Requests' = F!Requests
            /\ F!RowType' = F!RowType
      BY <2>1 DEF F!Rows, F!Active, F!Requests, F!RowType
    <2>3. F!TypeOK' /\ FoldersFit'
      BY <2>1, <2>2 DEF FoldersInv, FoldersTyped, F!TypeOK, FoldersFit
    <2>4. (F!PathsFollowParents /\ F!EnsureIsIdempotent /\ F!DeletedWereEmpty)'
      BY <2>1, <2>2 DEF FoldersInv, F!PathsFollowParents, F!EnsureIsIdempotent, F!DeletedWereEmpty
    <2>5. FoldersKnown'
      <3> SUFFICES ASSUME NEW g \in Handler, folderCall'[g] # F!Idle
                   PROVE  FolderKnowledge(folderCall[g])'
        BY DEF FoldersKnown
      <3>1. PICK k : k = folderCall'[g] OBVIOUS
      <3>2. SUFFICES FolderKnowledge(k)' BY <3>1 DEF FolderKnowledge
      <3>3. k \in FolderCalls /\ k.id \in F!Requests /\ FolderKnowledge(k)
        BY <2>1, <3>1, FolderCallOf DEF FoldersInv, FoldersKnown
      <3>4. QED BY <2>1, <3>3, NoChange, KnowledgeKept
    <2>6. QED BY <2>3, <2>4, <2>5 DEF FoldersInv, FoldersTyped
  <1>4. QED BY <1>1, <1>2, <1>3 DEF F!Next

\* Every variable of the schemas and the folders has its type, and a folder's
\* path is its parent's and one more segment, whatever creates, walks, moves
\* and deletes overlap.
THEOREM CatalogueIsSound == Spec /\ F!Spec => []CatalogueOK
  <1>1. FoldersInv => F!TypeOK /\ F!PathsFollowParents BY DEF FoldersInv, FoldersTyped
  <1>2. F!Spec => [](F!TypeOK /\ F!PathsFollowParents)
    BY <1>1, FoldersStart, FoldersStep, PTL DEF F!Spec
  <1>3. TypeOK /\ F!TypeOK /\ F!PathsFollowParents => CatalogueOK BY DEF CatalogueOK
  <1>4. QED BY <1>2, <1>3, TypeCorrect, PTL

\* Of two active folders with one path, the one ensure_path made was not made
\* by a call that began after the other one was committed.
THEOREM EnsureFindsFolders == F!Spec => []EnsureIsIdempotent
  <1>1. FoldersInv => EnsureIsIdempotent BY DEF FoldersInv, EnsureIsIdempotent
  <1>2. QED BY <1>1, FoldersStart, FoldersStep, PTL DEF F!Spec

\* An active folder or file in a deleted folder was put there by a request that
\* had not ended when the delete began, and no folder is created in one whose
\* delete had ended.
THEOREM DeletedFoldersWereEmpty == F!Spec => []DeletedWereEmpty
  <1>1. FoldersInv => DeletedWereEmpty BY DEF FoldersInv, DeletedWereEmpty
  <1>2. QED BY <1>1, FoldersStart, FoldersStep, PTL DEF F!Spec

-----------------------------------------------------------------------------
(***************************************************************************)
(* FileListing.  A page is a set of rows, and what a page holds is counted *)
(* with the theorems about finite sets.                                    *)
(***************************************************************************)

\* A set of natural numbers has a least element.
LEMMA LeastElement ==
  ASSUME NEW P \in SUBSET Nat, P # {}
  PROVE  \E x \in P : \A y \in P : x <= y
  <1> DEFINE R == OpToRel(<, Nat)
  <1>1. IsWellFoundedOn(R, Nat)
    BY NatLessThanWellFounded, Zenon
  <1>2. ASSUME NEW a \in Nat, NEW b \in Nat, a < b PROVE <<a, b>> \in R
    BY <1>2 DEF OpToRel
  <1> HIDE DEF R
  <1>3. PICK x \in P : \A y \in P : ~ (<<y, x>> \in R)
    BY <1>1, WFMin
  <1>4. ASSUME NEW y \in P PROVE x <= y
    <2>1. x \in Nat /\ y \in Nat
      OBVIOUS
    <2>2. ~ (y < x)
      BY <1>2, <1>3, <2>1, Zenon
    <2>3. QED BY <2>1, <2>2
  <1>5. QED BY <1>4

\* The listing counts with the Cardinality of the set theorems.
LEMMA ListingCounts == \A S : L!Cardinality(S) = Cardinality(S)
  BY DEF L!Cardinality, Cardinality

\* A set of the numbers from 1 to n, and a set of them that is not empty has a
\* greatest element.
LEMMA RowSets ==
  ASSUME NEW n \in Nat, NEW S \in SUBSET (1..n)
  PROVE  /\ IsFiniteSet(S) /\ Cardinality(S) \in 0..n
         /\ S # {} => \E x \in S : \A y \in S : y <= x
         /\ S = 1..n => Cardinality(S) = n
  <1>1. IsFiniteSet(1..n) /\ Cardinality(1..n) = n
    BY FS_Interval
  <1>2. IsFiniteSet(S) /\ Cardinality(S) <= n /\ Cardinality(S) \in Nat
    BY <1>1, FS_Subset, FS_CardinalityType
  <1>3. ASSUME S # {} PROVE \E x \in S : \A y \in S : y <= x
    <2> DEFINE P == {n - i : i \in S}
    <2>1. P \in SUBSET Nat /\ P # {}
      <3>1. \A i \in S : n - i \in Nat OBVIOUS
      <3>2. QED BY <1>3, <3>1
    <2> HIDE DEF P
    <2>2. PICK m \in P : \A y \in P : m <= y
      BY <2>1, LeastElement
    <2>3. PICK x \in S : m = n - x
      BY DEF P
    <2>4. ASSUME NEW y \in S PROVE m <= n - y
      <3>1. n - y \in P BY DEF P
      <3>2. QED BY <2>2, <3>1
    <2>5. \A y \in S : y <= x
      BY <2>3, <2>4
    <2>6. QED BY <2>5
  <1>4. ASSUME S = 1..n PROVE Cardinality(S) = n
    BY <1>1, <1>4, Zenon
  <1>5. QED BY <1>2, <1>3, <1>4

\* The files newer than one of them: fewer for a newer file.
LEMMA NewerFacts ==
  ASSUME NEW n \in Nat, NEW S \in SUBSET (1..n), NEW i \in 1..n
  PROVE  /\ L!Newer(i, S) \in Nat
         /\ \A j \in S : j > i => L!Newer(j, S) < L!Newer(i, S)
         /\ S = 1..n => L!Newer(i, S) = n - i
  <1> DEFINE N(k) == {j \in S : j > k}
  <1>1. \A k : L!Newer(k, S) = Cardinality(N(k))
    BY ListingCounts DEF L!Newer
  <1>2. \A k \in 1..n : N(k) \in SUBSET (1..n)
    OBVIOUS
  <1>3. ASSUME NEW k \in 1..n PROVE IsFiniteSet(N(k)) /\ Cardinality(N(k)) \in Nat
    <2>1. N(k) \in SUBSET (1..n) BY <1>2
    <2> HIDE DEF N
    <2>2. IsFiniteSet(N(k)) /\ Cardinality(N(k)) \in 0..n BY <2>1, RowSets
    <2>3. QED BY <2>2
  <1>4. ASSUME NEW j \in S, j > i PROVE Cardinality(N(j)) < Cardinality(N(i))
    <2>1. N(j) \subseteq N(i) /\ j \in N(i) /\ j \notin N(j) /\ j \in 1..n
      <3>1. j \in 1..n /\ j > i /\ ~ (j > j)
        BY <1>4
      <3>2. ASSUME NEW k \in S, k > j PROVE k > i
        <4>1. k \in 1..n OBVIOUS
        <4>2. QED BY <3>1, <3>2, <4>1
      <3>3. QED BY <3>1, <3>2
    <2>2. Cardinality(N(j)) <= Cardinality(N(i)) /\ Cardinality(N(j)) # Cardinality(N(i))
      <3> HIDE DEF N
      <3>1. IsFiniteSet(N(i)) /\ N(j) \in SUBSET N(i) /\ N(j) # N(i) BY <1>3, <2>1
      <3>2. QED BY <3>1, FS_Subset
    <2> HIDE DEF N
    <2>3. Cardinality(N(j)) \in Nat /\ Cardinality(N(i)) \in Nat BY <1>3, <2>1
    <2>4. QED BY <2>2, <2>3
  <1>5. ASSUME S = 1..n PROVE Cardinality(N(i)) = n - i
    <2>1. N(i) = (i + 1)..n
      BY <1>5
    <2>2. Cardinality((i + 1)..n) = n - i
      BY FS_Interval
    <2>3. QED BY <2>1, <2>2
  <1> HIDE DEF N
  <1>6. QED BY <1>1, <1>3, <1>4, <1>5

\* The page of l files at offset o.
PageAt(S, o, l) == {i \in S : L!Newer(i, S) \in o..(o + l - 1)}

\* A page has at most Limit of the files; if it has fewer and begins with the
\* newest, it has all.
LEMMA PageOf ==
  ASSUME NEW n \in Nat, NEW S \in SUBSET (1..n), NEW o \in Nat, NEW l \in Nat \ {0}
  PROVE  /\ PageAt(S, o, l) \in SUBSET S /\ Cardinality(PageAt(S, o, l)) \in 0..l
         /\ o = 0 /\ Cardinality(PageAt(S, o, l)) < l => PageAt(S, o, l) = S
         /\ S = 1..n => PageAt(S, o, l) = {i \in 1..n : n - i \in o..(o + l - 1)}
         /\ S = 1..n /\ Cardinality(PageAt(S, o, l)) < l => \A i \in 1..n : n - i < o + l
  <1> DEFINE P == {i \in S : L!Newer(i, S) \in o..(o + l - 1)}
  <1>1. P \in SUBSET (1..n)
    OBVIOUS
  <1>2. \A i \in 1..n : L!Newer(i, S) \in Nat
    BY NewerFacts
  <1>3. \A i, j \in S : j > i => L!Newer(j, S) < L!Newer(i, S)
    BY NewerFacts
  <1>4. Cardinality(P) <= l
    <2> DEFINE f == [i \in P |-> L!Newer(i, S)]
               T == o..(o + l - 1)
    <2>1. f \in [P -> T]
      OBVIOUS
    <2>2. \A i, j \in P : f[i] = f[j] => i = j
      <3>1. \A i, j \in P : i \in 1..n /\ j \in 1..n /\ i \in S /\ j \in S OBVIOUS
      <3>2. ASSUME NEW i \in P, NEW j \in P, i # j PROVE f[i] # f[j]
        <4>1. L!Newer(i, S) \in Nat /\ L!Newer(j, S) \in Nat BY <1>2, <3>1
        <4>2. i > j \/ j > i BY <3>1, <3>2
        <4>3. L!Newer(i, S) < L!Newer(j, S) \/ L!Newer(j, S) < L!Newer(i, S)
          BY <1>3, <3>1, <4>2
        <4>4. L!Newer(i, S) # L!Newer(j, S) BY <4>1, <4>3
        <4>5. QED BY <4>4
      <3>3. QED BY <3>2
    <2>3. IsFiniteSet(T) /\ Cardinality(T) = l
      BY FS_Interval
    <2> HIDE DEF f, T, P
    <2>4. f \in Injection(P, T)
      BY <2>1, <2>2 DEF Injection, IsInjective
    <2>5. QED BY <2>3, <2>4, FS_Injection
  <1>5. IsFiniteSet(P) /\ Cardinality(P) \in Nat
    BY <1>1, RowSets
  <1>6. ASSUME o = 0, Cardinality(P) < l PROVE P = S
    <2>1. SUFFICES ASSUME S \ P # {} PROVE FALSE
      OBVIOUS
    <2>2. S \ P \in SUBSET (1..n)
      OBVIOUS
    <2>3. PICK x \in S \ P : \A y \in S \ P : y <= x
      <3> HIDE DEF P
      <3>1. QED BY <2>1, <2>2, RowSets
    <2> DEFINE N == {j \in S : j > x}
    <2>4. N \subseteq P
      <3>1. ASSUME NEW j \in N, j \notin P PROVE FALSE
        <4>1. j \in S \ P /\ j > x /\ j \in 1..n /\ x \in 1..n BY <3>1
        <4>2. j <= x BY <2>3, <4>1
        <4>3. QED BY <4>1, <4>2
      <3>2. QED BY <3>1
    <2>5. Cardinality(N) <= Cardinality(P) /\ Cardinality(N) = L!Newer(x, S)
      <3>1. Cardinality(N) = L!Newer(x, S) BY ListingCounts DEF L!Newer
      <3> HIDE DEF N, P
      <3>2. QED BY <1>5, <2>4, <3>1, FS_Subset
    <2>6. L!Newer(x, S) \in Nat /\ ~ (L!Newer(x, S) < l)
      <3>1. L!Newer(x, S) \in Nat BY <1>2, <2>3
      <3>2. L!Newer(x, S) \notin o..(o + l - 1) BY <2>3
      <3>3. QED BY <1>6, <3>1, <3>2
    <2>7. QED
      <3> HIDE DEF N, P
      <3>1. QED BY <1>5, <1>6, <2>5, <2>6
  <1>7. ASSUME S = 1..n
        PROVE  /\ P = {i \in 1..n : n - i \in o..(o + l - 1)}
               /\ Cardinality(P) < l => \A i \in 1..n : n - i < o + l
    <2>1. \A i \in 1..n : L!Newer(i, S) = n - i
      BY <1>7, NewerFacts
    <2>2. P = {i \in 1..n : n - i \in o..(o + l - 1)}
      BY <1>7, <2>1
    <2>3. ASSUME NEW i \in 1..n, ~ (n - i < o + l) PROVE Cardinality(P) = l
      <3>1. (n - o - l + 1)..(n - o) \subseteq P
        BY <2>2, <2>3
      <3>2. Cardinality((n - o - l + 1)..(n - o)) = l
        BY FS_Interval
      <3>3. Cardinality((n - o - l + 1)..(n - o)) <= Cardinality(P)
        <4> HIDE DEF P
        <4>1. QED BY <1>5, <3>1, FS_Subset
      <3> HIDE DEF P
      <3>4. QED BY <1>4, <1>5, <3>2, <3>3
    <2> HIDE DEF P
    <2>4. Cardinality(P) < l => \A i \in 1..n : n - i < o + l
      BY <1>5, <2>3
    <2>5. QED BY <2>2, <2>4
  <1>8. PageAt(S, o, l) = P /\ P \in SUBSET S
    BY DEF PageAt
  <1> HIDE DEF P
  <1>9. Cardinality(P) \in 0..l
    BY <1>4, <1>5
  <1>10. QED BY <1>6, <1>7, <1>8, <1>9

\* Whether the client has got a file that was there when it began, and the rows
\* of these files.
Served(i) == i \in page \/ listed[i].id \in seen
EarlyRows == {i \in DOMAIN listed : listed[i].early}

\* Ids are distinct, and what is paged by is the cursor or the offset.
ListedFit ==
  /\ \A i, j \in DOMAIN listed : listed[i].id = listed[j].id => i = j
  /\ ~ deleted => \A i \in DOMAIN listed : listed[i].active
  /\ mode = "cursor" => place.offset = 0
  /\ mode # "cursor" => place.cursor = 0
  /\ done => asked = {}

\* A count that no file has been created behind counts all.
CountFits == asked = {"count"} /\ ~ deleted /\ ~ between => total = Len(listed)

\* The files that the offset has passed have been given: created files only move
\* the others to larger offsets.
PassedSeen ==
  ~ deleted => \A i \in EarlyRows : Len(listed) - i < place.offset => listed[i].id \in seen

\* A page has the files up to its end; a page that is not full, and one that the
\* total says is the last, has all that are left.
PageFits ==
  "page" \in asked /\ ~ deleted =>
    /\ place.cursor = 0 =>
         \A i \in EarlyRows : Len(listed) - i < place.offset + Limit => Served(i)
    /\ L!Cardinality(page) < Limit =>
         \A i \in EarlyRows : L!After(listed[i].id, place.cursor) => Served(i)
    /\ "count" \in asked /\ ~ between /\ place.cursor = 0 /\ total <= place.offset + Limit =>
         \A i \in EarlyRows : Served(i)

\* The inductive invariant of a client that lists files page by page.
ListingInv == L!TypeOK /\ ListedFit /\ CountFits /\ PassedSeen /\ PageFits /\ L!PagesListAll

\* The numbers of the rows.
LEMMA ListingNumbers ==
  ASSUME L!TypeOK
  PROVE  /\ MaxFiles \in Nat \ {0} /\ Limit \in Nat \ {0}
         /\ listed \in Seq([id : 1..MaxFiles, active : BOOLEAN, early : BOOLEAN])
         /\ Len(listed) \in Nat /\ Len(listed) <= MaxFiles /\ DOMAIN listed = 1..Len(listed)
         /\ \A i \in 1..Len(listed) : listed[i].id \in 1..MaxFiles
         /\ place.offset \in 0..(MaxFiles - 1) /\ place.cursor \in 0..MaxFiles
         /\ EarlyRows \subseteq 1..Len(listed)
  <1>1. MaxFiles \in Nat \ {0} /\ Limit \in Nat \ {0}
    BY CatalogueAssumption DEF L!ListingAssumption
  <1>2. /\ listed \in Seq([id : 1..MaxFiles, active : BOOLEAN, early : BOOLEAN])
        /\ Len(listed) <= MaxFiles
    BY DEF L!TypeOK, L!Id
  <1>3. Len(listed) \in Nat /\ DOMAIN listed = 1..Len(listed)
    BY <1>2
  <1>4. ASSUME NEW i \in 1..Len(listed) PROVE listed[i].id \in 1..MaxFiles
    <2>1. listed[i] \in [id : 1..MaxFiles, active : BOOLEAN, early : BOOLEAN]
      BY <1>2, <1>3, ElementOfSeq
    <2>2. QED BY <2>1
  <1>5. place.offset \in 0..(MaxFiles - 1) /\ place.cursor \in 0..MaxFiles
    <2>1. place \in [offset : 0..(MaxFiles - 1), cursor : {0} \cup (1..MaxFiles)]
      BY DEF L!TypeOK, L!Id
    <2>2. \A c \in {0} \cup (1..MaxFiles) : c \in 0..MaxFiles
      BY <1>1
    <2>3. QED BY <2>1, <2>2
  <1>6. EarlyRows \subseteq 1..Len(listed)
    BY <1>3 DEF EarlyRows
  <1>7. QED BY <1>1, <1>2, <1>3, <1>4, <1>5, <1>6

\* As long as nothing was deleted, every file is active.
LEMMA AllActive ==
  ASSUME L!TypeOK, ListedFit
  PROVE  /\ L!Active \in SUBSET (1..Len(listed)) /\ L!Candidates \in SUBSET (1..Len(listed))
         /\ ~ deleted => L!Active = 1..Len(listed)
         /\ ~ deleted /\ place.cursor = 0 => L!Candidates = 1..Len(listed)
         /\ ~ deleted => \A i \in 1..Len(listed) : L!After(listed[i].id, place.cursor) => i \in L!Candidates
  <1>1. /\ DOMAIN listed = 1..Len(listed) /\ \A i \in 1..Len(listed) : listed[i].id \in 1..MaxFiles
        /\ MaxFiles \in Nat
    BY ListingNumbers
  <1>2. ~ deleted => \A i \in 1..Len(listed) : listed[i].active
    BY <1>1 DEF ListedFit
  <1>3. \A i \in 1..Len(listed) : L!After(listed[i].id, 0)
    BY <1>1 DEF L!After
  <1>4. QED BY <1>1, <1>2, <1>3 DEF L!Active, L!Candidates

\* The count query.
LEMMA CountStep ==
  ASSUME ListingInv, L!count
  PROVE  ListingInv'
  <1>1. /\ ~ done /\ "count" \notin asked /\ total' = L!Cardinality(L!Active) /\ asked' = asked \cup {"count"}
        /\ UNCHANGED <<listed, mode, place, page, done, seen, deleted, between>>
    BY DEF L!count
  <1>2. /\ L!TypeOK /\ ListedFit /\ PassedSeen /\ PageFits
    BY DEF ListingInv
  <1>3. Limit \in Nat /\ Len(listed) \in Nat /\ Len(listed) <= MaxFiles /\ MaxFiles \in Nat
        /\ place.offset \in Nat
    BY <1>2, ListingNumbers
  <1>4. total' \in 0..Len(listed) /\ (~ deleted => total' = Len(listed))
    <2>1. L!Active \in SUBSET (1..Len(listed)) /\ (~ deleted => L!Active = 1..Len(listed))
      BY <1>2, AllActive
    <2>2. Cardinality(L!Active) \in 0..Len(listed)
      BY <1>3, <2>1, RowSets
    <2>3. ~ deleted => Cardinality(L!Active) = Len(listed)
      BY <1>3, <2>1, RowSets
    <2>4. total' = Cardinality(L!Active)
      BY <1>1, ListingCounts
    <2>5. QED BY <2>2, <2>3, <2>4
  <1>5. total' \in 0..MaxFiles
    BY <1>3, <1>4
  <1>6. L!TypeOK'
    BY <1>1, <1>2, <1>5 DEF L!TypeOK, L!Id
  <1>7. ListedFit' /\ PassedSeen' /\ L!PagesListAll'
    BY <1>1, <1>2 DEF ListedFit, PassedSeen, EarlyRows, L!PagesListAll
  <1>8. CountFits'
    BY <1>1, <1>4 DEF CountFits
  <1>9. PageFits'
    <2>1. SUFFICES ASSUME "page" \in asked, ~ deleted PROVE PageFits'
      BY <1>1 DEF PageFits
    <2>2. /\ place.cursor = 0 => \A i \in EarlyRows : Len(listed) - i < place.offset + Limit => Served(i)
          /\ L!Cardinality(page) < Limit => \A i \in EarlyRows : L!After(listed[i].id, place.cursor) => Served(i)
      BY <1>2, <2>1 DEF PageFits
    <2>3. ASSUME place.cursor = 0, total' <= place.offset + Limit, NEW i \in EarlyRows PROVE Served(i)
      <3>1. i \in 1..Len(listed) BY <1>2, ListingNumbers
      <3>2. Len(listed) - i < place.offset + Limit BY <1>3, <1>4, <2>1, <2>3, <3>1
      <3>3. QED BY <2>2, <2>3, <3>2
    <2>4. EarlyRows' = EarlyRows BY <1>1 DEF EarlyRows
    <2>5. \A i : Served(i)' <=> Served(i) BY <1>1 DEF Served
    <2>6. QED BY <1>1, <2>2, <2>3, <2>4, <2>5 DEF PageFits, L!After
  <1>10. QED BY <1>6, <1>7, <1>8, <1>9 DEF ListingInv

\* The query of the page.
LEMMA ListStep ==
  ASSUME ListingInv, L!list
  PROVE  ListingInv'
  <1> DEFINE n == Len(listed)
             S == L!Candidates
             o == L!Offset
             P == PageAt(S, o, Limit)
  <1>1. /\ ~ done /\ "page" \notin asked /\ page' = P /\ asked' = asked \cup {"page"}
        /\ UNCHANGED <<listed, mode, place, total, done, seen, deleted, between>>
    BY DEF L!list, L!Page, PageAt
  <1>2. /\ L!TypeOK /\ ListedFit /\ CountFits /\ PassedSeen
    BY DEF ListingInv
  <1>3. /\ Limit \in Nat \ {0} /\ n \in Nat /\ n <= MaxFiles /\ MaxFiles \in Nat
        /\ place.offset \in Nat /\ DOMAIN listed = 1..n /\ EarlyRows \subseteq 1..n
    BY <1>2, ListingNumbers
  <1>4. /\ S \in SUBSET (1..n) /\ (~ deleted /\ place.cursor = 0 => S = 1..n)
        /\ ~ deleted => \A i \in 1..n : L!After(listed[i].id, place.cursor) => i \in S
    BY <1>2, AllActive
  <1>5. o \in Nat /\ (place.cursor # 0 => o = 0) /\ (place.cursor = 0 => o = place.offset)
    BY <1>3 DEF L!Offset
  <1> HIDE DEF n, S, o
  <1>6. /\ P \in SUBSET S /\ Cardinality(P) \in 0..Limit
        /\ o = 0 /\ Cardinality(P) < Limit => P = S
        /\ S = 1..n => P = {i \in 1..n : n - i \in o..(o + Limit - 1)}
        /\ S = 1..n /\ Cardinality(P) < Limit => \A i \in 1..n : n - i < o + Limit
    <2>1. n \in Nat /\ S \in SUBSET (1..n) /\ o \in Nat /\ Limit \in Nat \ {0}
      BY <1>3, <1>4, <1>5
    <2>2. QED BY <2>1, PageOf
  <1>7. P \subseteq 1..n
    BY <1>4, <1>6
  <1> HIDE DEF P
  <1>8. L!TypeOK'
    BY <1>1, <1>2, <1>3, <1>6, <1>7, ListingCounts DEF L!TypeOK, L!Id
  <1>9. ListedFit' /\ PassedSeen' /\ L!PagesListAll'
    BY <1>1, <1>2 DEF ListedFit, PassedSeen, EarlyRows, L!PagesListAll
  <1>10. CountFits'
    BY <1>1 DEF CountFits
  <1>11. PageFits'
    <2>1. SUFFICES ASSUME ~ deleted PROVE PageFits'
      BY <1>1 DEF PageFits
    <2>2. ASSUME place.cursor = 0, NEW i \in EarlyRows, n - i < place.offset + Limit
          PROVE  i \in P \/ listed[i].id \in seen
      <3>1. i \in 1..n /\ P = {l \in 1..n : n - l \in o..(o + Limit - 1)} /\ o = place.offset
        BY <1>3, <1>4, <1>5, <1>6, <2>1, <2>2
      <3>2. CASE n - i < place.offset
        BY <1>2, <2>1, <3>2 DEF PassedSeen, n
      <3>3. CASE ~ (n - i < place.offset)
        <4>1. n - i \in o..(o + Limit - 1) BY <1>3, <2>2, <3>1, <3>3
        <4>2. QED BY <3>1, <4>1
      <3>4. QED BY <3>2, <3>3
    <2>3. ASSUME Cardinality(P) < Limit, NEW i \in EarlyRows, L!After(listed[i].id, place.cursor)
          PROVE  i \in P \/ listed[i].id \in seen
      <3>1. i \in 1..n /\ i \in S BY <1>3, <1>4, <2>1, <2>3
      <3>2. CASE place.cursor # 0
        BY <1>5, <1>6, <2>3, <3>1, <3>2
      <3>3. CASE place.cursor = 0
        <4>1. n - i < place.offset + Limit BY <1>4, <1>5, <1>6, <2>1, <2>3, <3>1, <3>3
        <4>2. QED BY <2>2, <3>3, <4>1
      <3>4. QED BY <3>2, <3>3
    <2>4. ASSUME "count" \in asked, ~ between, place.cursor = 0, total <= place.offset + Limit,
                 NEW i \in EarlyRows
          PROVE  i \in P \/ listed[i].id \in seen
      <3>1. asked = {"count"}
        BY <1>1, <1>2, <2>4 DEF L!TypeOK
      <3>2. total = n BY <1>2, <2>1, <2>4, <3>1 DEF CountFits, n
      <3>3. i \in 1..n BY <1>3
      <3>4. n - i < place.offset + Limit BY <1>3, <2>4, <3>2, <3>3
      <3>5. QED BY <2>2, <2>4, <3>4
    <2>5. EarlyRows' = EarlyRows BY <1>1 DEF EarlyRows
    <2>6. \A i : Served(i)' <=> i \in P \/ listed[i].id \in seen BY <1>1 DEF Served
    <2>7. QED BY <1>1, <2>2, <2>3, <2>4, <2>5, <2>6, ListingCounts DEF PageFits, L!After, n
  <1>12. QED BY <1>8, <1>9, <1>10, <1>11 DEF ListingInv

\* A page that is not empty has a last file, and the cursor is its id.
LEMMA OldestOnPage ==
  ASSUME L!TypeOK, page # {}
  PROVE  L!Oldest(page) \in page
  <1>1. page \in SUBSET Nat
    <2>1. page \subseteq 1..Len(listed) BY ListingNumbers DEF L!TypeOK
    <2>2. QED BY <2>1, ListingNumbers
  <1>2. \E i \in page : \A j \in page : i <= j
    BY <1>1, LeastElement
  <1>3. QED BY <1>2 DEF L!Oldest

\* The response, and the client's next request or its end.
LEMMA RespondStep ==
  ASSUME ListingInv, L!respond
  PROVE  ListingInv'
  <1>1. /\ asked = {"count", "page"}
        /\ seen' = seen \cup {listed[i].id : i \in page} /\ done' = ~ L!Continues
        /\ place' = IF ~ L!Continues THEN place
                    ELSE IF mode = "cursor" THEN [place EXCEPT !.cursor = listed[L!Oldest(page)].id]
                    ELSE [place EXCEPT !.offset = @ + Limit]
        /\ asked' = {} /\ total' = 0 /\ page' = {}
        /\ UNCHANGED <<listed, mode, deleted, between>>
    BY DEF L!respond
  <1>2. /\ L!TypeOK /\ ListedFit /\ PassedSeen /\ PageFits
    BY DEF ListingInv
  <1>3. /\ Limit \in Nat \ {0} /\ Len(listed) \in Nat /\ Len(listed) <= MaxFiles /\ MaxFiles \in Nat \ {0}
        /\ DOMAIN listed = 1..Len(listed) /\ \A i \in 1..Len(listed) : listed[i].id \in 1..MaxFiles
        /\ place.offset \in 0..(MaxFiles - 1) /\ place.cursor \in 0..MaxFiles
        /\ EarlyRows \subseteq 1..Len(listed)
    BY <1>2, ListingNumbers
  <1>4. /\ page \subseteq 1..Len(listed) /\ L!Cardinality(page) <= Limit /\ total \in 0..MaxFiles
        /\ place \in [offset : 0..(MaxFiles - 1), cursor : {0} \cup (1..MaxFiles)]
        /\ mode = "cursor" => place.offset = 0
        /\ mode # "cursor" => place.cursor = 0
    BY <1>2, <1>3 DEF L!TypeOK, L!Id, ListedFit
  <1>5. Cardinality(page) \in Nat /\ (Cardinality(page) = 0 => page = {})
    <2>1. IsFiniteSet(page) /\ Cardinality(page) \in 0..Len(listed) BY <1>3, <1>4, RowSets
    <2>2. QED BY <1>3, <2>1, FS_EmptySet
  <1>6. ASSUME L!Continues, mode = "cursor" PROVE listed[L!Oldest(page)].id \in 1..MaxFiles
    <2>1. L!Cardinality(page) = Limit
      BY <1>6 DEF L!Continues, L!HasMore
    <2>2. page # {}
      BY <1>3, <2>1, ListingCounts, FS_EmptySet
    <2>3. L!Oldest(page) \in 1..Len(listed)
      BY <1>2, <1>4, <2>2, OldestOnPage
    <2>4. QED BY <1>3, <2>3
  <1>7. ASSUME L!Continues, mode # "cursor" PROVE place.offset + Limit < total
    BY <1>4, <1>7 DEF L!Continues, L!HasMore
  <1>8. place' \in [offset : 0..(MaxFiles - 1), cursor : {0} \cup (1..MaxFiles)]
    <2>1. CASE ~ L!Continues BY <1>1, <1>4, <2>1
    <2>2. CASE L!Continues /\ mode = "cursor"
      <3>1. place' = [place EXCEPT !.cursor = listed[L!Oldest(page)].id] BY <1>1, <2>2
      <3>2. listed[L!Oldest(page)].id \in {0} \cup (1..MaxFiles) BY <1>6, <2>2
      <3>3. QED BY <1>4, <3>1, <3>2
    <2>3. CASE L!Continues /\ mode # "cursor"
      <3>1. place' = [place EXCEPT !.offset = place.offset + Limit] BY <1>1, <2>3
      <3>2. place.offset + Limit \in 0..(MaxFiles - 1) BY <1>3, <1>4, <1>7, <2>3
      <3>3. QED BY <1>4, <3>1, <3>2
    <2>4. QED BY <2>1, <2>2, <2>3
  <1>9. seen' \subseteq 1..MaxFiles
    <2>1. seen \subseteq 1..MaxFiles BY <1>2 DEF L!TypeOK, L!Id
    <2>2. QED BY <1>1, <1>3, <1>4, <2>1
  <1>10. L!TypeOK'
    <2>1. L!Cardinality({}) = 0 BY ListingCounts, FS_EmptySet
    <2>2. L!Cardinality(page') <= Limit /\ page' \subseteq DOMAIN listed' /\ total' \in 0..MaxFiles
      BY <1>1, <1>3, <2>1
    <2>3. done' \in BOOLEAN BY <1>1
    <2>4. QED BY <1>1, <1>2, <1>8, <1>9, <2>2, <2>3 DEF L!TypeOK, L!Id
  <1>11. ListedFit'
    <2>1. mode = "cursor" => place'.offset = 0
      BY <1>1, <1>4
    <2>2. mode # "cursor" => place'.cursor = 0
      BY <1>1, <1>4
    <2>3. QED BY <1>1, <1>2, <2>1, <2>2 DEF ListedFit
  <1>12. CountFits' /\ PageFits'
    BY <1>1 DEF CountFits, PageFits
  <1>13. \A i : Served(i) => listed[i].id \in seen'
    BY <1>1 DEF Served
  <1>14. EarlyRows' = EarlyRows
    BY <1>1 DEF EarlyRows
  <1>15. PassedSeen'
    <2>1. SUFFICES ASSUME ~ deleted, NEW i \in EarlyRows, Len(listed) - i < place'.offset
                   PROVE  listed[i].id \in seen'
      BY <1>1, <1>14 DEF PassedSeen
    <2>2. CASE Len(listed) - i < place.offset
      BY <1>1, <1>2, <2>1, <2>2 DEF PassedSeen
    <2>3. CASE ~ (Len(listed) - i < place.offset)
      <3>1. L!Continues /\ mode # "cursor"
        <4>1. place'.offset # place.offset BY <2>1, <2>3
        <4>2. QED BY <1>1, <1>4, <4>1
      <3>2. place.cursor = 0 /\ place'.offset = place.offset + Limit
        BY <1>1, <1>4, <3>1
      <3>3. Served(i)
        BY <1>1, <1>2, <2>1, <3>2 DEF PageFits
      <3>4. QED BY <1>13, <3>3
    <2>4. QED BY <2>2, <2>3
  <1>16. L!PagesListAll'
    <2>1. SUFFICES ASSUME ~ L!Continues, ~ deleted, ~ between,
                          NEW i \in EarlyRows, L!After(listed[i].id, place.cursor)
                   PROVE  listed[i].id \in seen'
      BY <1>1 DEF L!PagesListAll, EarlyRows, L!After
    <2>2. ASSUME L!Cardinality(page) # Limit PROVE Served(i)
      <3>1. L!Cardinality(page) < Limit BY <1>3, <1>4, <1>5, <2>2, ListingCounts
      <3>2. QED BY <1>1, <1>2, <2>1, <3>1 DEF PageFits
    <2>3. ASSUME place.cursor = 0, ~ (place.offset + Limit < total) PROVE Served(i)
      <3>1. total <= place.offset + Limit BY <1>3, <1>4, <2>3
      <3>2. QED BY <1>1, <1>2, <2>1, <2>3, <3>1 DEF PageFits
    <2>4. Served(i)
      <3>1. CASE mode = "infinite"
        <4>1. place.cursor = 0 BY <1>4, <3>1
        <4>2. QED BY <2>1, <2>3, <3>1, <4>1 DEF L!Continues
      <3>2. CASE mode # "infinite"
        <4>1. ~ L!HasMore BY <2>1, <3>2 DEF L!Continues
        <4>2. QED BY <2>2, <2>3, <4>1 DEF L!HasMore
      <3>3. QED BY <3>1, <3>2
    <2>5. QED BY <1>13, <2>4
  <1>17. QED BY <1>10, <1>11, <1>12, <1>15, <1>16 DEF ListingInv

\* While an id is left, there are fewer than MaxFiles files.
LEMMA RoomForOne ==
  ASSUME L!TypeOK, ListedFit, NEW id \in 1..MaxFiles, \A i \in DOMAIN listed : listed[i].id # id
  PROVE  Len(listed) < MaxFiles
  <1> DEFINE n == Len(listed)
             T == 1..MaxFiles
             f == [i \in 1..n |-> listed[i].id]
  <1>1. /\ n \in Nat /\ n <= MaxFiles /\ MaxFiles \in Nat /\ DOMAIN listed = 1..n
        /\ \A i \in 1..n : listed[i].id \in T
    BY ListingNumbers
  <1>2. \A i, j \in 1..n : listed[i].id = listed[j].id => i = j
    BY <1>1 DEF ListedFit
  <1>3. f \in [1..n -> T] /\ (\A i, j \in 1..n : f[i] = f[j] => i = j) /\ (\A i \in 1..n : f[i] # id)
    BY <1>1, <1>2
  <1>4. IsFiniteSet(T) /\ Cardinality(T) = MaxFiles /\ Cardinality(1..n) = n
    BY <1>1, RowSets
  <1> HIDE DEF f, T, n
  <1>5. f \in Injection(1..n, T)
    BY <1>3 DEF Injection, IsInjective
  <1>6. f \notin Surjection(1..n, T)
    <2>1. id \in T BY DEF T
    <2>2. QED BY <1>3, <2>1 DEF Surjection
  <1>7. n # MaxFiles
    BY <1>4, <1>5, <1>6, FS_Injection
  <1>8. n < MaxFiles
    BY <1>1, <1>7
  <1>9. QED BY <1>8 DEF n

\* A file is created: it is the newest, so that every other file moves one place
\* away from the first.
LEMMA NewFileStep ==
  ASSUME ListingInv, L!create
  PROVE  ListingInv'
  <1>1. PICK id \in 1..MaxFiles \ {listed[i].id : i \in DOMAIN listed} :
          listed' = Append(listed, [id |-> id, active |-> TRUE, early |-> FALSE])
    BY DEF L!create, L!Id
  <1>2. /\ ~ done /\ between' = (between \/ asked = {"count"})
        /\ UNCHANGED <<mode, place, asked, total, page, done, seen, deleted>>
    BY DEF L!create
  <1>3. /\ L!TypeOK /\ ListedFit /\ PassedSeen /\ PageFits
    BY DEF ListingInv
  <1> DEFINE n == Len(listed)
             ListedRow == [id : 1..MaxFiles, active : BOOLEAN, early : BOOLEAN]
             new == [id |-> id, active |-> TRUE, early |-> FALSE]
  <1>4. /\ n \in Nat /\ n <= MaxFiles /\ MaxFiles \in Nat \ {0} /\ DOMAIN listed = 1..n
        /\ listed \in Seq(ListedRow) /\ EarlyRows \subseteq 1..n /\ Limit \in Nat
        /\ place.offset \in Nat
    BY <1>3, ListingNumbers
  <1>5. n < MaxFiles
    BY <1>1, <1>3, RoomForOne
  <1>6. new \in ListedRow /\ new.id = id /\ new.active = TRUE /\ new.early = FALSE
    BY <1>1
  <1> HIDE DEF ListedRow, new
  <1>7. /\ listed' \in Seq(ListedRow) /\ Len(listed') = n + 1 /\ DOMAIN listed' = 1..(n + 1)
        /\ listed'[n + 1] = new /\ \A i \in 1..n : listed'[i] = listed[i]
    <2>1. listed' = Append(listed, new) BY <1>1 DEF new
    <2>2. QED BY <1>4, <1>6, <2>1
  <1> HIDE DEF n
  <1>8. \A i \in 1..(n + 1) : i \in 1..n \/ i = n + 1
    BY <1>4
  <1>9. L!TypeOK'
    <2>1. page' \subseteq DOMAIN listed'
      <3>1. page \subseteq 1..n BY <1>3, <1>4 DEF L!TypeOK
      <3>2. 1..n \subseteq 1..(n + 1) BY <1>4
      <3>3. QED BY <1>2, <1>7, <3>1, <3>2
    <2>2. Len(listed') <= MaxFiles BY <1>4, <1>5, <1>7
    <2>3. between' \in BOOLEAN BY <1>2, <1>3 DEF L!TypeOK
    <2>4. listed' \in Seq([id : L!Id, active : BOOLEAN, early : BOOLEAN]) BY <1>7 DEF ListedRow, L!Id
    <2>5. QED BY <1>2, <1>3, <2>1, <2>2, <2>3, <2>4 DEF L!TypeOK, L!Id
  <1>10. ListedFit'
    <2>1. ASSUME NEW i \in 1..(n + 1), NEW j \in 1..(n + 1), listed'[i].id = listed'[j].id PROVE i = j
      <3>1. \A k \in 1..n : listed[k].id # id BY <1>1, <1>4
      <3>2. CASE i \in 1..n /\ j \in 1..n BY <1>3, <1>4, <1>7, <2>1, <3>2 DEF ListedFit
      <3>3. CASE i \in 1..n /\ j = n + 1 BY <1>6, <1>7, <2>1, <3>1, <3>3
      <3>4. CASE i = n + 1 /\ j \in 1..n BY <1>6, <1>7, <2>1, <3>1, <3>4
      <3>5. QED BY <1>8, <3>2, <3>3, <3>4
    <2>2. ASSUME ~ deleted, NEW i \in 1..(n + 1) PROVE listed'[i].active
      <3>1. CASE i \in 1..n BY <1>3, <1>4, <1>7, <2>2, <3>1 DEF ListedFit
      <3>2. CASE i = n + 1 BY <1>6, <1>7, <3>2
      <3>3. QED BY <1>8, <3>1, <3>2
    <2>3. QED BY <1>2, <1>3, <1>7, <2>1, <2>2 DEF ListedFit
  <1>11. EarlyRows' = EarlyRows /\ \A i \in EarlyRows : listed'[i] = listed[i]
    <2>1. EarlyRows = {i \in 1..n : listed[i].early} BY <1>4 DEF EarlyRows
    <2>2. EarlyRows' = {i \in 1..(n + 1) : listed'[i].early} BY <1>7 DEF EarlyRows
    <2>3. \A i \in 1..n : i \in 1..(n + 1) BY <1>4
    <2>4. EarlyRows' = EarlyRows BY <1>6, <1>7, <1>8, <2>1, <2>2, <2>3
    <2>5. QED BY <1>7, <2>1, <2>4
  <1>12. CountFits'
    BY <1>2 DEF CountFits
  <1>13. \A i \in EarlyRows : \A o \in Nat : Len(listed') - i < o => n - i < o
    BY <1>4, <1>7
  <1>14. PassedSeen'
    BY <1>2, <1>3, <1>4, <1>11, <1>13 DEF PassedSeen, n
  <1>15. PageFits'
    <2>1. \A i \in EarlyRows : Served(i)' <=> Served(i) BY <1>2, <1>11 DEF Served
    <2>2. SUFFICES ASSUME "page" \in asked, ~ deleted PROVE PageFits'
      BY <1>2 DEF PageFits
    <2>3. ASSUME place.cursor = 0, NEW i \in EarlyRows, Len(listed') - i < place.offset + Limit
          PROVE  Served(i)
      <3>1. place.offset + Limit \in Nat BY <1>4
      <3>2. n - i < place.offset + Limit BY <1>13, <2>3, <3>1
      <3>3. QED BY <1>3, <2>2, <2>3, <3>2 DEF PageFits, n
    <2>4. /\ L!Cardinality(page) < Limit =>
               \A i \in EarlyRows : L!After(listed[i].id, place.cursor) => Served(i)
          /\ "count" \in asked /\ ~ between /\ place.cursor = 0 /\ total <= place.offset + Limit =>
               \A i \in EarlyRows : Served(i)
      BY <1>3, <2>2 DEF PageFits
    <2>5. between => between' BY <1>2
    <2>6. QED BY <1>2, <1>11, <2>1, <2>3, <2>4, <2>5 DEF PageFits, L!After
  <1>16. L!PagesListAll'
    BY <1>2 DEF L!PagesListAll
  <1>17. QED BY <1>9, <1>10, <1>12, <1>14, <1>15, <1>16 DEF ListingInv

\* A file is deleted: from now on nothing is promised.
LEMMA GoneFileStep ==
  ASSUME ListingInv, NEW i \in DOMAIN listed, L!delete(i)
  PROVE  ListingInv'
  <1>1. /\ ~ done /\ listed' = [listed EXCEPT ![i].active = FALSE] /\ deleted' = TRUE
        /\ UNCHANGED <<mode, place, asked, total, page, done, seen, between>>
    BY DEF L!delete
  <1>2. L!TypeOK /\ ListedFit
    BY DEF ListingInv
  <1> DEFINE ListedRow == [id : 1..MaxFiles, active : BOOLEAN, early : BOOLEAN]
  <1>3. listed \in Seq(ListedRow) /\ DOMAIN listed = 1..Len(listed) /\ Len(listed) \in Nat
    BY <1>2, ListingNumbers
  <1>4. listed[i] \in ListedRow /\ [listed[i] EXCEPT !.active = FALSE] \in ListedRow
        /\ [listed[i] EXCEPT !.active = FALSE].id = listed[i].id
    <2>1. listed[i] \in ListedRow BY <1>3, ElementOfSeq
    <2>2. QED BY <2>1
  <1> HIDE DEF ListedRow
  <1>5. listed' = [listed EXCEPT ![i] = [listed[i] EXCEPT !.active = FALSE]]
    BY <1>1
  <1>6. /\ listed' \in Seq(ListedRow) /\ Len(listed') = Len(listed) /\ DOMAIN listed' = DOMAIN listed
        /\ \A j \in DOMAIN listed : listed'[j].id = listed[j].id
    BY <1>3, <1>4, <1>5
  <1>7. L!TypeOK'
    BY <1>1, <1>2, <1>6 DEF L!TypeOK, L!Id, ListedRow
  <1>8. ListedFit'
    BY <1>1, <1>2, <1>6 DEF ListedFit
  <1>9. CountFits' /\ PassedSeen' /\ PageFits' /\ L!PagesListAll'
    BY <1>1 DEF CountFits, PassedSeen, PageFits, L!PagesListAll
  <1>10. QED BY <1>7, <1>8, <1>9 DEF ListingInv

\* The client begins with no page.
LEMMA ListingStart == L!Init => ListingInv
  <1> SUFFICES ASSUME L!Init PROVE ListingInv
    OBVIOUS
  <1>1. PICK n \in 0..MaxFiles : \E ids \in [1..n -> 1..MaxFiles] :
          /\ \A i, j \in 1..n : ids[i] = ids[j] => i = j
          /\ listed = [i \in 1..n |-> [id |-> ids[i], active |-> TRUE, early |-> TRUE]]
    BY DEF L!Init, L!Id
  <1>2. PICK ids \in [1..n -> 1..MaxFiles] :
          /\ \A i, j \in 1..n : ids[i] = ids[j] => i = j
          /\ listed = [i \in 1..n |-> [id |-> ids[i], active |-> TRUE, early |-> TRUE]]
    BY <1>1
  <1>3. /\ mode \in Modes /\ place = [offset |-> 0, cursor |-> 0] /\ asked = {} /\ total = 0 /\ page = {}
        /\ done = FALSE /\ seen = {} /\ deleted = FALSE /\ between = FALSE
    BY DEF L!Init
  <1>4. MaxFiles \in Nat \ {0} /\ Limit \in Nat \ {0} /\ n \in Nat /\ n <= MaxFiles
    BY CatalogueAssumption DEF L!ListingAssumption
  <1> DEFINE ListedRow == [id : 1..MaxFiles, active : BOOLEAN, early : BOOLEAN]
  <1>5. \A i \in 1..n : listed[i] \in ListedRow /\ listed[i].id = ids[i] /\ listed[i].active
    BY <1>2
  <1> HIDE DEF ListedRow
  <1>6. listed \in Seq(ListedRow) /\ Len(listed) = n /\ DOMAIN listed = 1..n
    <2>1. listed = [i \in 1..n |-> listed[i]] BY <1>2
    <2>2. QED BY <1>4, <1>5, <2>1
  <1>7. L!TypeOK
    <2>1. L!Cardinality({}) = 0 BY ListingCounts, FS_EmptySet
    <2>2. L!Cardinality(page) <= Limit BY <1>3, <1>4, <2>1
    <2>3. place \in [offset : 0..(MaxFiles - 1), cursor : {0} \cup (1..MaxFiles)]
      <3>1. 0 \in 0..(MaxFiles - 1) BY <1>4
      <3>2. QED BY <1>3, <3>1
    <2>4. total \in 0..MaxFiles BY <1>3, <1>4
    <2>5. QED BY <1>3, <1>4, <1>6, <2>2, <2>3, <2>4 DEF L!TypeOK, L!Id, ListedRow
  <1>8. ListedFit
    BY <1>2, <1>3, <1>5, <1>6 DEF ListedFit
  <1>9. PassedSeen
    <2>1. \A i \in 1..n : ~ (n - i < 0) BY <1>4
    <2>2. EarlyRows \subseteq 1..n BY <1>6 DEF EarlyRows
    <2>3. place.offset = 0 BY <1>3
    <2>4. QED BY <1>6, <2>1, <2>2, <2>3 DEF PassedSeen
  <1>10. CountFits /\ PageFits /\ L!PagesListAll
    BY <1>3 DEF CountFits, PageFits, L!PagesListAll
  <1>11. QED BY <1>7, <1>8, <1>9, <1>10 DEF ListingInv

\* Every step of the client, of a create and of a delete keeps it.
LEMMA ListingStep == ListingInv /\ [L!Next]_L!vars => ListingInv'
  <1> SUFFICES ASSUME ListingInv, [L!Next]_L!vars PROVE ListingInv'
    OBVIOUS
  <1>1. CASE L!Client
    BY <1>1, CountStep, ListStep, RespondStep DEF L!Client
  <1>2. CASE L!create
    BY <1>2, NewFileStep
  <1>3. CASE \E i \in DOMAIN listed : L!delete(i)
    BY <1>3, GoneFileStep
  <1>4. CASE UNCHANGED L!vars
    <2>1. UNCHANGED <<listed, mode, place, asked, total, page, done, seen, deleted, between>>
      BY <1>4 DEF L!vars
    <2>2. L!TypeOK' /\ ListedFit' /\ CountFits' /\ L!PagesListAll'
      BY <2>1 DEF ListingInv, L!TypeOK, L!Id, ListedFit, CountFits, L!PagesListAll, L!After
    <2>3. EarlyRows' = EarlyRows /\ \A i : Served(i)' <=> Served(i)
      BY <2>1 DEF EarlyRows, Served
    <2>4. PassedSeen' /\ PageFits'
      BY <2>1, <2>3 DEF ListingInv, PassedSeen, PageFits, L!After
    <2>5. QED BY <2>2, <2>4 DEF ListingInv
  <1>5. QED BY <1>1, <1>2, <1>3, <1>4 DEF L!Next

\* A client of list_files that pages to the end by offset is given every file
\* that was there when it began, for any number of files, any page size and any
\* creates; one that pages by cursor those whose ids are above its last cursor.
THEOREM ListingIsComplete == L!Spec => []PagesListAll
  <1>1. ListingInv => PagesListAll
    BY DEF ListingInv, PagesListAll
  <1>2. QED BY <1>1, ListingStart, ListingStep, PTL DEF L!Spec

==============================================================================

--------------------------- MODULE MetadataSchemas ---------------------------
(***************************************************************************)
(* The metadata schemas of a project and the metadata of one of its files: *)
(* create_schema, update_metadata (PUT) and merge_metadata (PATCH) of      *)
(* MetadataService, in concurrent requests.                                *)
(*                                                                         *)
(* A request is one READ COMMITTED transaction, and each of its statements *)
(* is a step that sees what was committed when the statement began.  An    *)
(* UPDATE locks the rows it finds one by one: it waits for a row that      *)
(* another transaction has locked, then looks at it again.  Nothing in the *)
(* table keeps two rows from the same version, or from being active.       *)
(***************************************************************************)
EXTENDS Naturals, Sequences

CONSTANTS Handler,      \* requests in progress at once
          Meta,         \* metadata objects
          NoMeta,       \* metadata not read yet
          Merge(_, _),  \* {**current, **updates}
          Schema,       \* JSON Schemas
          Allowed,      \* the metadata each schema accepts
          Enforce,      \* project_configs.enforce_schema, which no endpoint sets
          MaxRequests, MaxFaults

ASSUME MetadataAssumption ==
  /\ NoMeta \notin Meta
  /\ \A m, n \in Meta : Merge(m, n) \in Meta
  /\ Allowed \in [Schema -> SUBSET Meta]
  /\ Enforce \in BOOLEAN
  /\ MaxRequests \in Nat /\ MaxFaults \in Nat

VARIABLES schemas,   \* the committed rows of metadata_schemas, in commit order
          meta,      \* files.metadata_json
          call,      \* what each request holds
          during,    \* history: what was committed at some time during a request
          requests, faults

vars == <<schemas, meta, call, during, requests, faults>>

Rows == DOMAIN schemas
Active == {i \in Rows : schemas[i].active}

Idle == [op |-> "idle"]

\* A schema that is being created.  after: the rows there were when it began.
Creating == [op : {"number", "deactivate"}, body : Schema, version : Nat \ {0}, after : Nat,
             todo : SUBSET Nat, locked : SUBSET Nat]

\* A write of metadata.  base: the row as it was read; checked: validated.
Writing == [op : {"put", "patch"}, input : Meta, base : Meta \cup {NoMeta}, checked : BOOLEAN]

Begin(h, c) ==
  /\ call[h] = Idle
  /\ requests < MaxRequests
  /\ requests' = requests + 1
  /\ call' = [call EXCEPT ![h] = c]
  /\ UNCHANGED <<schemas, meta, faults>>

(***************************************************************************)
(* create_schema                                                           *)
(***************************************************************************)

\* Mutant: the number of rows.
BugMaxVersion == {Len(schemas)}

\* get_max_version: the highest version, 0 in an empty table.
MaxVersion == {n \in {0} \cup {schemas[i].version : i \in Rows} :
                 \A i \in Rows : schemas[i].version <= n}

\* get_max_version, the first statement of create_schema.
create_schema(h) ==
  \E body \in Schema, max \in MaxVersion :
    Begin(h, [op |-> "number", body |-> body, version |-> max + 1, after |-> Len(schemas),
              todo |-> {}, locked |-> {}])

\* deactivate_all begins: its UPDATE finds the active rows.
deactivate_all(h) ==
  /\ call[h].op = "number"
  /\ call' = [call EXCEPT ![h].op = "deactivate", ![h].todo = Active]
  /\ UNCHANGED <<schemas, meta, requests, faults>>

Locked(i) == \E h \in Handler : call[h].op \in {"number", "deactivate"} /\ i \in call[h].locked

\* Mutant: rows that another transaction has locked are skipped.
BugLockRow(h) ==
  /\ call[h].op = "deactivate"
  /\ \E i \in call[h].todo :
       call' = [call EXCEPT
                  ![h].todo = @ \ {i},
                  ![h].locked = IF schemas[i].active /\ ~ Locked(i) THEN @ \cup {i} ELSE @]
  /\ UNCHANGED <<schemas, meta, requests, faults>>

\* The UPDATE reaches a row that nobody has locked: it is changed if it is
\* still active, and passed over if it was deactivated meanwhile.
lock_row(h) ==
  /\ call[h].op = "deactivate"
  /\ \E i \in call[h].todo :
       /\ ~ Locked(i)
       /\ call' = [call EXCEPT ![h].todo = @ \ {i},
                               ![h].locked = IF schemas[i].active THEN @ \cup {i} ELSE @]
  /\ UNCHANGED <<schemas, meta, requests, faults>>

Deactivated(S) == [i \in Rows |-> [schemas[i] EXCEPT !.active = @ /\ i \notin S]]

\* create and the commit.
create(h) ==
  LET c == call[h] IN
    /\ c.op = "deactivate" /\ c.todo = {}
    /\ schemas' = Append(Deactivated(c.locked),
                         [version |-> c.version, body |-> c.body, active |-> TRUE,
                          after |-> c.after])
    /\ call' = [call EXCEPT ![h] = Idle]
    /\ UNCHANGED <<meta, requests, faults>>

(***************************************************************************)
(* update_metadata and merge_metadata                                      *)
(***************************************************************************)

update_metadata(h) ==
  \E m \in Meta : Begin(h, [op |-> "put", input |-> m, base |-> NoMeta, checked |-> FALSE])

merge_metadata(h) ==
  \E m \in Meta : Begin(h, [op |-> "patch", input |-> m, base |-> NoMeta, checked |-> FALSE])

\* Mutant: merge_metadata of the repository reads the row again.
BugResult(c) == IF c.op = "put" THEN c.input ELSE Merge(meta, c.input)

\* What the request writes.  The second read of a PATCH returns the object of
\* the first one, which the session still holds.
Result(c) == IF c.op = "put" THEN c.input ELSE Merge(c.base, c.input)

\* FileRepository.get: first for a PATCH, after the validation for a PUT.
get(h) ==
  /\ call[h].op \in {"put", "patch"} /\ call[h].base = NoMeta
  /\ call[h].op = "put" => call[h].checked
  /\ call' = [call EXCEPT ![h].base = meta]
  /\ UNCHANGED <<schemas, meta, requests, faults>>

\* No schema is active, or m is accepted by the active ones.
Lawful(m, S) == \A body \in S : m \in Allowed[body]

Laws == {schemas[i].body : i \in Active}

AtMostOne(S) == \A a, b \in S : a = b

MayValidate(c) ==
  /\ c.op \in {"put", "patch"} /\ ~ c.checked
  /\ c.op = "patch" => c.base # NoMeta

\* _validate_if_required, when it returns.
validate(h) ==
  /\ MayValidate(call[h])
  /\ Enforce => AtMostOne(Active) /\ Lawful(Result(call[h]), Laws)
  /\ call' = [call EXCEPT ![h].checked = TRUE]
  /\ UNCHANGED <<schemas, meta, requests, faults>>

\* _validate_if_required raises: the metadata is not accepted, or get_active
\* finds several rows (MultipleResultsFound).
refuse(h) ==
  /\ MayValidate(call[h])
  /\ Enforce /\ ~ (AtMostOne(Active) /\ Lawful(Result(call[h]), Laws))
  /\ call' = [call EXCEPT ![h] = Idle]
  /\ UNCHANGED <<schemas, meta, requests, faults>>

\* The assignment and the commit.  An unchanged attribute is not written.
commit(h) ==
  /\ call[h].op \in {"put", "patch"} /\ call[h].base # NoMeta /\ call[h].checked
  /\ \/ meta' = Result(call[h])
     \/ Result(call[h]) = call[h].base /\ UNCHANGED meta
  /\ call' = [call EXCEPT ![h] = Idle]
  /\ UNCHANGED <<schemas, requests, faults>>

\* A request that fails anywhere else is rolled back.
stop(h) ==
  /\ call[h] # Idle
  /\ faults < MaxFaults
  /\ faults' = faults + 1
  /\ call' = [call EXCEPT ![h] = Idle]
  /\ UNCHANGED <<schemas, meta, requests>>

-----------------------------------------------------------------------------

Now == [meta |-> meta, laws |-> Laws]

\* What was committed at some time during each request.
Watch == during' = [h \in Handler |-> IF call'[h] = Idle THEN {}
                                      ELSE during[h] \cup {Now'}]

\* A file may have any metadata: init_upload stores what it is given.
Init ==
  /\ schemas = <<>>
  /\ meta \in Meta
  /\ call = [h \in Handler |-> Idle]
  /\ during = [h \in Handler |-> {}]
  /\ requests = 0
  /\ faults = 0

Create(h) == create_schema(h) \/ deactivate_all(h) \/ lock_row(h) \/ create(h)

Write(h) == \/ update_metadata(h) \/ merge_metadata(h)
            \/ get(h) \/ validate(h) \/ refuse(h) \/ commit(h)

Next == \E h \in Handler : (Create(h) \/ Write(h) \/ stop(h)) /\ Watch

Spec == Init /\ [][Next]_vars

-----------------------------------------------------------------------------
(***************************************************************************)
(* Properties                                                              *)
(***************************************************************************)

Row == [version : Nat \ {0}, body : Schema, active : BOOLEAN, after : Nat]

\* Every variable has its type, and a row lock is held by one transaction.
TypeOK ==
  /\ schemas \in Seq(Row)
  /\ meta \in Meta
  /\ call \in [Handler -> {Idle} \cup Creating \cup Writing]
  /\ \A h \in Handler : call[h] \in Creating =>
       call[h].todo \cup call[h].locked \subseteq Rows /\ call[h].after <= Len(schemas)
  /\ \A g, h \in Handler : g # h /\ call[g] \in Creating /\ call[h] \in Creating =>
       call[g].locked \cap call[h].locked = {}
  /\ during \in [Handler -> SUBSET [meta : Meta, laws : SUBSET Schema]]
  /\ requests \in Nat /\ faults \in Nat

\* A schema replaces every schema that was there when its request began: those
\* are inactive and have lower versions, whatever other requests lock, commit
\* and roll back meanwhile.  So schemas are active together, and versions are
\* given twice, only if their requests overlapped, and a request that overlaps
\* no other leaves one active schema.
LaterReplaces ==
  \A j \in Rows : \A i \in 1..schemas[j].after :
    ~ schemas[i].active /\ schemas[i].version < schemas[j].version

\* The versions are 1, 2, 3, ... without a gap: a version is committed only
\* after all lower ones, although requests number their rows before they wait
\* for each other, and some are rolled back.
VersionsGapFree ==
  \A i \in Rows : \A v \in 1..(schemas[i].version - 1) :
    \E j \in 1..(i - 1) : schemas[j].version = v

\* The metadata that a request stores is what was asked for, applied to
\* metadata that the file had during the request, and with enforce_schema it
\* was accepted by the schema active at some time during the request, or none
\* was.  (Not by the schema active when it is stored, and keys that another
\* request has stored since are lost.)
StoredIsExplained ==
  [][\A h \in Handler :
       call[h].op \in {"put", "patch"} /\ call'[h] = Idle /\ meta' # meta =>
         /\ \E s \in during[h] :
              meta' = IF call[h].op = "put" THEN call[h].input
                      ELSE Merge(s.meta, call[h].input)
         /\ Enforce => \E s \in during[h] : AtMostOne(s.laws) /\ Lawful(meta', s.laws)]_vars

=============================================================================

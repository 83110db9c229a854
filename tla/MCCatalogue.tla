----------------------------- MODULE MCCatalogue -----------------------------
(***************************************************************************)
(* Model-checking instance of Catalogue.  A behaviour moves one of the     *)
(* three parts, and the others stay in one of their initial states.        *)
(***************************************************************************)
EXTENDS Catalogue, TLC

CONSTANTS k1, k2, needs1, forbids2   \* metadata keys, schemas
VARIABLE moves                       \* the part that moves

\* Metadata is the set of keys that are set; one schema requires a key, the
\* other one forbids a key.
Metas == {{}, {k1}, {k2}, {k1, k2}}
Union(a, b) == a \cup b
Accepts == [s \in {needs1, forbids2} |->
              IF s = needs1 THEN {m \in Metas : k1 \in m} ELSE {m \in Metas : k2 \notin m}]

folderVars == <<folders, files, folderCall, before, ended, folderFaults>>
listVars == <<listed, mode, place, asked, total, page, done, seen, deleted, between>>

CatalogueInit ==
  /\ moves \in {"schemas", "folders", "listing"}
  /\ Init /\ F!Init /\ L!Init
  /\ moves # "schemas" => meta = {}
  /\ moves # "listing" => mode = "offset" /\ listed = <<>>

CatalogueNext ==
  \/ moves = "schemas" /\ Next /\ UNCHANGED <<moves, folderVars, listVars>>
  \/ moves = "folders" /\ F!Next /\ UNCHANGED <<moves, vars, listVars>>
  \/ moves = "listing" /\ L!Next /\ UNCHANGED <<moves, vars, folderVars>>

allVars == <<moves, vars, folderVars, listVars>>
CatalogueSpec == CatalogueInit /\ [][CatalogueNext]_allVars

Symmetry == Permutations(Handler) \cup Permutations(Name)

==============================================================================

---------------------------- MODULE MCOriginRules ----------------------------
(***************************************************************************)
(* Model-checking instance of OriginRules.  A behaviour moves one of the   *)
(* three parts, and the others stay in one of their initial states.        *)
(***************************************************************************)
EXTENDS OriginRules, TLC

VARIABLE moves   \* the part that moves

storageVars == <<storage, config, cors, probed, call, before, ended, failed>>
projectVars == <<stored, projectCache, projectRequest>>

RulesInit ==
  /\ moves \in {"clients", "storage", "project"}
  /\ Init /\ Setup!Init /\ Project!Init
  /\ moves # "clients" => db = {}
  /\ moves # "storage" => storage.mode = "byob"
  /\ moves # "project" => stored = All

RulesNext ==
  \/ moves = "clients" /\ Next /\ UNCHANGED <<moves, storageVars, projectVars>>
  \/ moves = "storage" /\ Setup!Next /\ UNCHANGED <<moves, vars, projectVars>>
  \/ moves = "project" /\ Project!Next /\ UNCHANGED <<moves, vars, storageVars>>

allVars == <<moves, vars, storageVars, projectVars>>
RulesSpec == RulesInit /\ [][RulesNext]_allVars

\* The slots of the fetches are the values of Handler: one permutation of them
\* is a symmetry of whichever part moves.
Symmetry == Permutations(Handler) \cup Permutations(Bucket)

==============================================================================

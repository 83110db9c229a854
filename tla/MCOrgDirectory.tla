--------------------------- MODULE MCOrgDirectory ----------------------------
(* Role rows are given nothing, or the permission that is not a default. *)
EXTENDS OrgDirectory, TLC
CONSTANT write
Grants == {{}, {write}}
Requests == Permutations(Call)
=============================================================================

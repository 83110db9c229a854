--------------------------- MODULE MCFileLifecycle ---------------------------
(***************************************************************************)
(* Instances of FileLifecycle for TLC.                                     *)
(***************************************************************************)
EXTENDS FileLifecycle, TLC

CONSTANTS f1, f2, f3

\* Project configurations.
ScanVersioned == {[scan |-> TRUE, versioning |-> TRUE]}
ScanToggled == {[scan |-> TRUE, versioning |-> TRUE],
                [scan |-> FALSE, versioning |-> TRUE]}

NoFiles == {}
OneFile == {f1}
ThreeFiles == {f1, f2, f3}

\* Handlers and runs are interchangeable, and so are files with like bytes.
Slots == Permutations(Request) \cup Permutations(Run)
FilesAndSlots == Slots \cup Permutations(File)

=============================================================================

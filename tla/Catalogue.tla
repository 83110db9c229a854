------------------------------ MODULE Catalogue ------------------------------
(***************************************************************************)
(* The catalogue of a project: its metadata schemas (MetadataSchemas), its *)
(* folders (Folders) and the listing of its files (FileListing).  They     *)
(* share no variable: all three run under one conjunction of their         *)
(* specifications.                                                         *)
(***************************************************************************)
EXTENDS MetadataSchemas

CONSTANTS Name, File, MaxDepth,      \* of the folders
          MaxFiles, Limit, Modes     \* of the listing

VARIABLES folders, files, folderCall, before, ended, folderFaults,
          listed, mode, place, asked, total, page, done, seen, deleted, between

F == INSTANCE Folders WITH call <- folderCall, faults <- folderFaults
L == INSTANCE FileListing WITH rows <- listed

ASSUME CatalogueAssumption == F!FoldersAssumption /\ L!ListingAssumption

\* Every variable of the schemas and the folders has its type, and a folder's
\* path is its parent's and one more segment.
CatalogueOK == TypeOK /\ F!TypeOK /\ F!PathsFollowParents

\* ensure_path does not create a folder that was there when it was called.
EnsureIsIdempotent == F!EnsureIsIdempotent

\* A folder is not deleted with what was in it when delete_folder was called.
DeletedWereEmpty == F!DeletedWereEmpty

\* The variables of list_files have their types, and a client that pages to
\* the end is given what it should be.
PagesListAll == L!TypeOK /\ L!PagesListAll

==============================================================================

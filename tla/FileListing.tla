----------------------------- MODULE FileListing -----------------------------
(***************************************************************************)
(* A client that lists the files of a project page by page (list_files of  *)
(* FileService and list of FileRepository) while others create and delete  *)
(* files.                                                                  *)
(*                                                                         *)
(* The two queries of a request, the count and the page, are statements of *)
(* a READ COMMITTED transaction that run in either order.  The client      *)
(* follows next_cursor, or adds the limit to the offset while has_more (or *)
(* total, as useInfiniteFiles does) says that there is more.               *)
(***************************************************************************)
EXTENDS Naturals, Sequences, FiniteSets

CONSTANTS MaxFiles,   \* bound: files that are ever created
          Limit,      \* files of a page
          Modes       \* how the client pages: "cursor", "offset", "infinite"

\* What an instance must be.
ListingAssumption ==
  /\ MaxFiles \in Nat \ {0} /\ Limit \in Nat \ {0}
  /\ Modes \subseteq {"cursor", "offset", "infinite"} /\ Modes # {}

VARIABLES rows,      \* the files in the order of created_at; ids are random
          mode,
          place,     \* the offset, and the cursor (0: none), of the request
          asked,     \* the queries of the request that have run
          total,     \* of the response: the active files,
          page,      \* and the rows of the page
          done,      \* there are no more pages
          seen,      \* history: the ids the client has been given
          deleted,   \* history: a file was deleted since the listing began
          between    \* history: a file was created between a count and its page

vars == <<rows, mode, place, asked, total, page, done, seen, deleted, between>>

Id == 1..MaxFiles

\* Keyset: ids above the cursor; 0 admits every id.
After(id, cursor) == id > cursor

\* The active files that the query is about.
Active == {i \in DOMAIN rows : rows[i].active}
Candidates == {i \in Active : After(rows[i].id, place.cursor)}

\* How many of the files are newer.
Newer(i, files) == Cardinality({j \in files : j > i})

\* The page, newest first: the order is that of created_at also when a cursor
\* is given, and then the offset is not looked at.
Offset == IF place.cursor # 0 THEN 0 ELSE place.offset
Page == {i \in Candidates : Newer(i, Candidates) \in Offset..(Offset + Limit - 1)}

\* Mutant: one page too few.
BugTooFew ==
  IF place.cursor # 0 THEN Cardinality(page) = Limit
  ELSE Cardinality(page) = Limit /\ place.offset + Limit + 1 < total

\* has_more of the response.
HasMore ==
  IF place.cursor # 0 THEN Cardinality(page) = Limit
  ELSE Cardinality(page) = Limit /\ place.offset + Limit < total

\* Whether the client asks for another page; useInfiniteFiles looks at total.
Continues == IF mode = "infinite" THEN place.offset + Limit < total ELSE HasMore

count ==
  /\ ~ done /\ "count" \notin asked
  /\ total' = Cardinality(Active)
  /\ asked' = asked \cup {"count"}
  /\ UNCHANGED <<rows, mode, place, page, done, seen, deleted, between>>

list ==
  /\ ~ done /\ "page" \notin asked
  /\ page' = Page
  /\ asked' = asked \cup {"page"}
  /\ UNCHANGED <<rows, mode, place, total, done, seen, deleted, between>>

\* The last file of a page; the client takes its id for the next cursor.
Oldest(files) == CHOOSE i \in files : \A j \in files : i <= j

\* The response, and the client's next request.
respond ==
  /\ asked = {"count", "page"}
  /\ seen' = seen \cup {rows[i].id : i \in page}
  /\ done' = ~ Continues
  /\ place' = IF ~ Continues THEN place
              ELSE IF mode = "cursor" THEN [place EXCEPT !.cursor = rows[Oldest(page)].id]
              ELSE [place EXCEPT !.offset = @ + Limit]
  /\ asked' = {} /\ total' = 0 /\ page' = {}
  /\ UNCHANGED <<rows, mode, deleted, between>>

\* init_upload of another client.
create ==
  /\ ~ done
  /\ \E id \in Id \ {rows[i].id : i \in DOMAIN rows} :
       rows' = Append(rows, [id |-> id, active |-> TRUE, early |-> FALSE])
  /\ between' = (between \/ asked = {"count"})
  /\ UNCHANGED <<mode, place, asked, total, page, done, seen, deleted>>

\* soft_delete.
delete(i) ==
  /\ ~ done /\ rows[i].active
  /\ rows' = [rows EXCEPT ![i].active = FALSE]
  /\ deleted' = TRUE
  /\ UNCHANGED <<mode, place, asked, total, page, done, seen, between>>

-----------------------------------------------------------------------------

\* The files there are when the client begins (early).
Init ==
  /\ \E n \in 0..MaxFiles : \E ids \in {f \in [1..n -> Id] : \A i, j \in 1..n : f[i] = f[j] => i = j} :
       rows = [i \in 1..n |-> [id |-> ids[i], active |-> TRUE, early |-> TRUE]]
  /\ mode \in Modes
  /\ place = [offset |-> 0, cursor |-> 0]
  /\ asked = {}
  /\ total = 0 /\ page = {}
  /\ done = FALSE
  /\ seen = {}
  /\ deleted = FALSE /\ between = FALSE

Client == count \/ list \/ respond

Next == Client \/ create \/ \E i \in DOMAIN rows : delete(i)

Spec == Init /\ [][Next]_vars

-----------------------------------------------------------------------------
(***************************************************************************)
(* Properties                                                              *)
(***************************************************************************)

\* Every variable has its type, and no page is asked for that begins behind the
\* last file there has ever been.
TypeOK ==
  /\ rows \in Seq([id : Id, active : BOOLEAN, early : BOOLEAN]) /\ Len(rows) <= MaxFiles
  /\ mode \in Modes
  /\ place \in [offset : 0..(MaxFiles - 1), cursor : {0} \cup Id]
  /\ asked \subseteq {"count", "page"}
  /\ total \in 0..MaxFiles /\ page \subseteq DOMAIN rows /\ Cardinality(page) <= Limit
  /\ done \in BOOLEAN /\ deleted \in BOOLEAN /\ between \in BOOLEAN
  /\ seen \subseteq Id

\* A client that pages by offset to the end has been given every file there was
\* when it began, also if files are created meanwhile: these only move files to
\* later pages.  A client that pages by cursor has been given those whose ids
\* are above its last cursor, and may have passed over any others, although
\* nothing has changed: pages are ordered by created_at and cut at a random id.
\* Neither holds if a file was deleted, or if one was created between a count
\* and its page: then the last page can move behind the total.
PagesListAll ==
  done /\ ~ deleted /\ ~ between =>
    \A i \in DOMAIN rows :
      rows[i].early /\ After(rows[i].id, place.cursor) => rows[i].id \in seen

=============================================================================

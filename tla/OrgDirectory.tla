---------------------------- MODULE OrgDirectory -----------------------------
(***************************************************************************)
(* Organisations, members, their roles and the claims a token carries      *)
(* (organizations.service.ts, usercontext.service.ts, auth.config.ts of    *)
(* iam).  Every handler is a sequence of separate database statements, so  *)
(* other handlers run between them, and a handler may stop half way.       *)
(*                                                                         *)
(* External: Better Auth's own statements (create an organisation with its *)
(* owner, add, update and remove a member), each one atomic.               *)
(***************************************************************************)
EXTENDS Naturals, FiniteSets

CONSTANTS User, Org, Role, Perm,
          Defaults,    \* DEFAULT_ORG_ROLE_PERMISSIONS.owner
          Owner,       \* the role "owner"
          Grant,       \* the sets of permissions an administrator gives a role
          Call,        \* slots for concurrent requests
          MaxRequests, \* bound on requests
          MaxFaults    \* bound on requests that stop half way

ASSUME DirectoryAssumption ==
  /\ Defaults \subseteq Perm /\ Owner \in Role /\ Grant \subseteq SUBSET Perm
  /\ "none" \notin Org
  /\ MaxRequests \in Nat /\ MaxFaults \in Nat

VARIABLES org,       \* the organisations in the database
          member,    \* the roles of a user in an organisation, {} without a row
          orgRole,   \* organizationRole rows; nothing makes <<org, role>> unique
          redirect,  \* userOrgRoleRedirect rows
          context,   \* the userContext row of a user
          session,   \* <<user, activeOrganizationId>> of the sessions
          call,      \* the running requests
          requests, faults, \* how many there were
          seen,      \* history: what was true while a token was being built
          edited,    \* history: organisations whose role rows somebody wrote by hand
          choice,    \* history: the organisation last chosen for a user
          loose      \* history: <<user, org>> whose redirects may not follow the roles

directory == <<org, member, orgRole, redirect, context, session>>
ghosts == <<edited, choice, loose>>
vars == <<directory, call, requests, faults, seen, ghosts>>

NoOrg == "none"
Idle == [kind |-> "idle"]
NoContext == [exists |-> FALSE, org |-> NoOrg, role |-> 0]
Nothing == [held |-> {}, granted |-> {}, away |-> FALSE]

\* The result of a token build, filled in by the statements still `todo`.
Build(u, o) ==
  [kind |-> "build", user |-> u, org |-> o,
   todo |-> {"list", "context"} \union (IF o = NoOrg THEN {} ELSE {"member"}),
   roles |-> {}, perms |-> {}, listed |-> {}, roleId |-> 0, role |-> "none", link |-> 0]

Rows(o, R) == {row \in orgRole : row.org = o /\ row.role \in R}
Links(u, o) == {l \in redirect : l.user = u /\ l.org = o}
Permissions(rows) == UNION {row.perms : row \in rows}

(***************************************************************************)
(* Requests                                                                *)
(***************************************************************************)

\* A request in its own slot, or of a single statement.  The number of the
\* request also names the rows it creates.
Request == requests < MaxRequests /\ requests' = requests + 1 /\ UNCHANGED faults
Start(h, c) == call[h] = Idle /\ call' = [call EXCEPT ![h] = c] /\ Request
Single == Request /\ UNCHANGED call
Go(h, c) == call' = [call EXCEPT ![h] = c] /\ UNCHANGED <<requests, faults>>

Updates(u, o) ==
  {h \in Call : call[h].kind = "update" /\ call[h].user = u /\ call[h].org = o}

\* Every update of u in o under way may now write redirects that do not fit.
Disturbed(u, o, c) ==
  [h \in Call |-> IF h \in Updates(u, o) THEN [c[h] EXCEPT !.alone = FALSE] ELSE c[h]]

(***************************************************************************)
(* Organisations                                                           *)
(***************************************************************************)

\* Better Auth creates the organisation with its owner, in the session's
\* organisation; afterCreateOrganization seeds the owner's role later.
createOrganization(h, u, o) ==
  /\ o \notin org /\ \A row \in orgRole : row.org # o
  /\ \A v \in User : <<v, o>> \notin session
  /\ Start(h, [kind |-> "create", org |-> o, no |-> requests + 1])
  /\ org' = org \union {o}
  /\ member' = [member EXCEPT ![u][o] = {Owner}]
  /\ session' = session \union {<<u, o>>}
  /\ UNCHANGED <<orgRole, redirect, context, ghosts>>

afterCreateOrganization(h) ==
  LET c == call[h] IN
  /\ c.kind = "create"
  /\ orgRole' = IF c.org \in org
                THEN orgRole \union {[id |-> c.no, org |-> c.org, role |-> Owner,
                                      perms |-> Defaults]}
                ELSE orgRole
  /\ Go(h, Idle)
  /\ UNCHANGED <<org, member, redirect, context, session, ghosts>>

\* The members and the roles go with the organisation; contexts, redirects
\* and sessions keep naming it.
deleteOrganization(o) ==
  /\ o \in org
  /\ Request
  /\ org' = org \ {o}
  /\ member' = [u \in User |-> [member[u] EXCEPT ![o] = {}]]
  /\ orgRole' = orgRole \ Rows(o, Role)
  /\ loose' = loose \union (User \X {o})
  /\ call' = [h \in Call |-> IF call[h].kind = "update" /\ call[h].org = o
                             THEN [call[h] EXCEPT !.alone = FALSE] ELSE call[h]]
  /\ UNCHANGED <<redirect, context, session, edited, choice>>

(***************************************************************************)
(* Members and their redirects                                             *)
(***************************************************************************)

addMember(u, o, R) ==
  /\ o \in org /\ member[u][o] = {}
  /\ Single
  /\ member' = [member EXCEPT ![u][o] = R]
  /\ UNCHANGED <<org, orgRole, redirect, context, session, ghosts>>

removeMember(u, o) ==
  /\ member[u][o] # {}
  /\ Request
  /\ member' = [member EXCEPT ![u][o] = {}]
  /\ loose' = loose \union {<<u, o>>}
  /\ call' = Disturbed(u, o, call)
  /\ UNCHANGED <<org, orgRole, redirect, context, session, edited, choice>>

\* L: the roles with a redirect URL in the payload.
updateMemberRole(h, u, o, R, L) ==
  /\ member[u][o] # {}
  /\ call[h] = Idle
  /\ call' = [Disturbed(u, o, call) EXCEPT
                ![h] = [kind |-> "update", at |-> "find", user |-> u, org |-> o,
                        links |-> L, no |-> requests + 1, gone |-> {},
                        alone |-> Updates(u, o) = {}]]
  /\ Request
  /\ member' = [member EXCEPT ![u][o] = R]
  /\ loose' = IF Updates(u, o) = {} THEN loose ELSE loose \union {<<u, o>>}
  /\ UNCHANGED <<org, orgRole, redirect, context, session, edited, choice>>

\* Without the member there is nothing to persist.
findMember(h) ==
  LET c == call[h] IN
  /\ c.kind = "update" /\ c.at = "find"
  /\ Go(h, IF member[c.user][c.org] = {} THEN Idle ELSE [c EXCEPT !.at = "delete"])
  /\ UNCHANGED <<directory, ghosts>>

\* Mutant: the old redirects stay.
BugDeleteRedirects(h) ==
  LET c == call[h] IN
  /\ c.kind = "update" /\ c.at = "delete"
  /\ Go(h, [c EXCEPT !.at = "create"])
  /\ UNCHANGED <<directory, ghosts>>

\* deleteMany finds the rows committed so far.
deleteRedirects(h) ==
  LET c == call[h] IN
  /\ c.kind = "update" /\ c.at = "delete"
  /\ Go(h, [c EXCEPT !.at = "create", !.gone = Links(c.user, c.org)])
  /\ UNCHANGED <<directory, ghosts>>

\* createMany and the commit, which the unique key may refuse.
createRedirects(h) ==
  LET c == call[h]
      kept == redirect \ c.gone
      new == [id : {c.no}, user : {c.user}, org : {c.org}, role : c.links]
  IN /\ c.kind = "update" /\ c.at = "create"
     /\ \A l \in kept : l \in Links(c.user, c.org) => l.role \notin c.links
     /\ redirect' = kept \union new
     /\ loose' = IF c.alone THEN loose \ {<<c.user, c.org>>} ELSE loose
     /\ Go(h, Idle)
     /\ UNCHANGED <<org, member, orgRole, context, session, edited, choice>>

\* A duplicate key: the transaction is undone, the error swallowed.
createRedirects_refused(h) ==
  LET c == call[h] IN
  /\ c.kind = "update" /\ c.at = "create"
  /\ \E l \in Links(c.user, c.org) \ c.gone : l.role \in c.links
  /\ loose' = loose \union {<<c.user, c.org>>}
  /\ Go(h, Idle)
  /\ UNCHANGED <<directory, edited, choice>>

(***************************************************************************)
(* Roles                                                                   *)
(***************************************************************************)

NewRow(o, r, P, n) == [id |-> n, org |-> o, role |-> r, perms |-> P]

\* Nothing looks for a row of this role first.
createOrgRole(o, r, P) ==
  /\ o \in org
  /\ Single
  /\ orgRole' = orgRole \union {NewRow(o, r, P, requests + 1)}
  /\ edited' = edited \union {o}
  /\ UNCHANGED <<org, member, redirect, context, session, choice, loose>>

\* findFirst: any of the rows, 0 if there is none.
updateOrgRole(h, o, r, P) ==
  /\ o \in org
  /\ \E id \in IF Rows(o, {r}) = {} THEN {0} ELSE {row.id : row \in Rows(o, {r})} :
       Start(h, [kind |-> "edit", row |-> NewRow(o, r, P, requests + 1), found |-> id])
  /\ UNCHANGED <<directory, ghosts>>

\* Updates the row found, or creates one; both fail if what they need is gone.
writeOrgRole(h) ==
  LET c == call[h]
      old == {row \in orgRole : row.id = c.found}
  IN /\ c.kind = "edit"
     /\ orgRole' = IF c.found = 0
                   THEN orgRole \union {row \in {c.row} : row.org \in org}
                   ELSE (orgRole \ old) \union {[row EXCEPT !.perms = c.row.perms] : row \in old}
     /\ edited' = edited \union {row.org : row \in old \union {c.row}}
     /\ Go(h, Idle)
     /\ UNCHANGED <<org, member, redirect, context, session, choice, loose>>

deleteOrgRole(o, r) ==
  /\ Rows(o, {r}) # {}
  /\ Single
  /\ orgRole' = orgRole \ Rows(o, {r})
  /\ edited' = edited \union {o}
  /\ UNCHANGED <<org, member, redirect, context, session, choice, loose>>

(***************************************************************************)
(* Sessions and contexts                                                   *)
(***************************************************************************)

\* session.create.before reads the context of the user.
signIn(h, u) ==
  /\ Start(h, [kind |-> "signIn", user |-> u, found |-> context[u]])
  /\ UNCHANGED <<directory, ghosts>>

\* Mutant: an upsert, so that a concurrent first sign-in does not fail.
BugFirstSession(h) ==
  LET c == call[h] IN
  /\ c.kind = "signIn" /\ ~c.found.exists
  /\ context' = [context EXCEPT ![c.user] = [NoContext EXCEPT !.exists = TRUE]]
  /\ session' = session \union {<<c.user, NoOrg>>}
  /\ Go(h, Idle)
  /\ UNCHANGED <<org, member, orgRole, redirect, ghosts>>

\* The first session: the context's row is unique, so the second of two such
\* inserts fails and with it the sign-in.
firstSession(h) ==
  LET c == call[h] IN
  /\ c.kind = "signIn" /\ ~c.found.exists
  /\ IF context[c.user].exists
     THEN UNCHANGED <<context, session>>
     ELSE /\ context' = [context EXCEPT ![c.user] = [NoContext EXCEPT !.exists = TRUE]]
          /\ session' = session \union {<<c.user, NoOrg>>}
  /\ Go(h, Idle)
  /\ UNCHANGED <<org, member, orgRole, redirect, ghosts>>

\* The stored organisation, else the first membership, else none.
nextSession(h) ==
  LET c == call[h]
      orgs == {o \in Org : member[c.user][o] # {}}
  IN /\ c.kind = "signIn" /\ c.found.exists
     /\ \E o \in IF c.found.org # NoOrg THEN {c.found.org}
                 ELSE IF orgs # {} THEN orgs ELSE {NoOrg} :
          session' = session \union {<<c.user, o>>}
     /\ Go(h, Idle)
     /\ UNCHANGED <<org, member, orgRole, redirect, context, ghosts>>

Chosen(u, o) == choice' = [choice EXCEPT ![u] = o] /\ UNCHANGED <<edited, loose>>

\* The superadmin's form; nothing checks that the user is a member.
setUserContext(u, row) ==
  /\ Single
  /\ context' = [context EXCEPT ![u] = [exists |-> TRUE, org |-> row.org, role |-> row.id]]
  /\ Chosen(u, row.org)
  /\ UNCHANGED <<org, member, orgRole, redirect, session>>

\* PATCH active-organization: the membership is checked, then the context
\* written; the role in it is left as it was.
activeOrganization(h, u, o) ==
  /\ member[u][o] # {}
  /\ Start(h, [kind |-> "switch", user |-> u, org |-> o])
  /\ UNCHANGED <<directory, ghosts>>

upsertContext(h) ==
  LET c == call[h] IN
  /\ c.kind = "switch"
  /\ context' = [context EXCEPT ![c.user].exists = TRUE, ![c.user].org = c.org]
  /\ Chosen(c.user, c.org)
  /\ Go(h, Idle)
  /\ UNCHANGED <<org, member, orgRole, redirect, session>>

(***************************************************************************)
(* Building a token                                                        *)
(***************************************************************************)

\* definePayload and customUserInfoClaims, for a session's organisation.
buildUserContext(h, u, o) ==
  /\ <<u, o>> \in session
  /\ Start(h, Build(u, o))
  /\ UNCHANGED <<directory, ghosts>>

Read(h, step, more, c) ==
  /\ call[h].kind = "build" /\ step \in call[h].todo
  /\ Go(h, [c EXCEPT !.todo = (@ \ {step}) \union more])
  /\ UNCHANGED <<directory, ghosts>>

\* getUserPermissions reads the member, and then the rows of its roles.
readMember(h) ==
  LET c == call[h]
      R == member[c.user][c.org]
  IN Read(h, "member", IF R = {} THEN {} ELSE {"rows"}, [c EXCEPT !.roles = R])

\* Mutant: no fallback for an owner.
BugPermissionsOf(R, rows) == Permissions(rows)

\* An organisation from before the roles were seeded: the owner's defaults.
PermissionsOf(R, rows) ==
  IF rows # {} THEN Permissions(rows) ELSE IF Owner \in R THEN Defaults ELSE {}

\* Mutant: the rows of every role of the organisation.
BugReadRows(h) ==
  LET c == call[h] IN
  Read(h, "rows", {}, [c EXCEPT !.perms = PermissionsOf(c.roles, Rows(c.org, Role))])

readRows(h) ==
  LET c == call[h] IN
  Read(h, "rows", {}, [c EXCEPT !.perms = PermissionsOf(c.roles, Rows(c.org, c.roles))])

\* activeOrganizationRoles, from a read of the memberships of its own.
readMemberships(h) ==
  LET c == call[h] IN
  Read(h, "list", {}, [c EXCEPT !.listed = IF c.org = NoOrg THEN {}
                                           ELSE member[c.user][c.org]])

readContext(h) ==
  LET id == context[call[h].user].role IN
  Read(h, "context", IF id = 0 THEN {} ELSE {"role"}, [call[h] EXCEPT !.roleId = id])

\* Once the four reads are in: the active role, and where it leads.
readRole(h) ==
  LET c == call[h]
      found == {row \in orgRole : row.id = c.roleId}
  IN /\ c.kind = "build" /\ c.todo = {"role"}
     /\ Read(h, "role", IF found = {} \/ c.org = NoOrg THEN {} ELSE {"redirect"},
             [c EXCEPT !.role = IF found = {} THEN "none"
                                ELSE (CHOOSE row \in found : TRUE).role])

readRedirect(h) ==
  LET c == call[h]
      found == {l \in Links(c.user, c.org) : l.role = c.role}
  IN Read(h, "redirect", {}, [c EXCEPT !.link = IF found = {} THEN 0
                                                ELSE (CHOOSE l \in found : TRUE).id])

Built(h) == call[h].kind = "build" /\ call[h].todo = {}

issue(h) ==
  /\ Built(h)
  /\ Go(h, Idle)
  /\ UNCHANGED <<directory, ghosts>>

\* A statement fails, or the process stops, before the request's next one.
stop(h) ==
  LET c == call[h] IN
  /\ c # Idle /\ ~Built(h)
  /\ faults < MaxFaults /\ faults' = faults + 1
  /\ call' = [call EXCEPT ![h] = Idle]
  /\ loose' = IF c.kind = "update" THEN loose \union {<<c.user, c.org>>} ELSE loose
  /\ UNCHANGED <<directory, requests, edited, choice>>

(***************************************************************************)
(* History and next-state relation                                         *)
(***************************************************************************)

\* What holds after this step, for a build that it starts or that is under way.
Watched(h) ==
  LET c == call'[h]
      before == IF call[h].kind = "build" THEN seen[h] ELSE Nothing
  IN IF c.kind # "build" \/ c.org = NoOrg THEN Nothing
     ELSE IF Built(h) THEN seen[h]
     ELSE [held |-> before.held \union member'[c.user][c.org],
           granted |-> before.granted \union
                         UNION {{<<row.role, p>> : p \in row.perms} :
                                row \in {r \in orgRole' : r.org = c.org}},
           away |-> before.away \/ member'[c.user][c.org] = {}]

\* Organisations that exist have an owner; some are older than the role rows.
Init ==
  /\ \E old \in SUBSET Org, founder \in User :
       /\ org = old
       /\ member = [u \in User |-> [o \in Org |-> IF u = founder /\ o \in old
                                                  THEN {Owner} ELSE {}]]
       /\ session = {founder} \X old
  /\ orgRole = {} /\ redirect = {}
  /\ context = [u \in User |-> NoContext]
  /\ call = [h \in Call |-> Idle]
  /\ requests = 0 /\ faults = 0
  /\ seen = [h \in Call |-> Nothing]
  /\ edited = {} /\ loose = {}
  /\ choice = [u \in User |-> NoOrg]

\* A role change names at least one role.
Roles == (SUBSET Role) \ {{}}

admin ==
  \/ \E o \in Org : deleteOrganization(o)
  \/ \E u \in User, o \in Org : removeMember(u, o)
  \/ \E u \in User, o \in Org, R \in Roles : addMember(u, o, R)
  \/ \E o \in Org, r \in Role, P \in Grant : createOrgRole(o, r, P)
  \/ \E o \in Org, r \in Role : deleteOrgRole(o, r)
  \/ \E u \in User, row \in orgRole : setUserContext(u, row)

arrive(h) ==
  \/ \E u \in User, o \in Org : createOrganization(h, u, o)
  \/ \E u \in User, o \in Org, R \in Roles : \E L \in SUBSET R : updateMemberRole(h, u, o, R, L)
  \/ \E o \in Org, r \in Role, P \in Grant : updateOrgRole(h, o, r, P)
  \/ \E u \in User : signIn(h, u)
  \/ \E u \in User, o \in Org : activeOrganization(h, u, o)
  \/ \E u \in User, o \in Org \union {NoOrg} : buildUserContext(h, u, o)

continue(h) ==
  \/ afterCreateOrganization(h)
  \/ findMember(h) \/ deleteRedirects(h) \/ createRedirects(h) \/ createRedirects_refused(h)
  \/ writeOrgRole(h)
  \/ firstSession(h) \/ nextSession(h) \/ upsertContext(h)
  \/ readMember(h) \/ readRows(h) \/ readMemberships(h) \/ readContext(h)
  \/ readRole(h) \/ readRedirect(h)
  \/ issue(h)

Step == admin \/ \E h \in Call : arrive(h) \/ continue(h) \/ stop(h)
Next == Step /\ seen' = [h \in Call |-> Watched(h)]

Spec == Init /\ [][Next]_vars

(***************************************************************************)
(* Properties                                                              *)
(***************************************************************************)

OrgOrNone == Org \union {NoOrg}
RowIds == 0..MaxRequests
OrgRoles == [id : RowIds, org : Org, role : Role, perms : SUBSET Perm]
Redirects == [id : RowIds, user : User, org : Org, role : Role]
Contexts == [exists : BOOLEAN, org : OrgOrNone, role : RowIds]
Steps == {"member", "rows", "list", "context", "role", "redirect"}

Creates == [kind : {"create"}, org : Org, no : RowIds]
RoleUpdates == [kind : {"update"}, at : {"find", "delete", "create"}, user : User, org : Org,
                links : SUBSET Role, no : RowIds, gone : SUBSET Redirects, alone : BOOLEAN]
Edits == [kind : {"edit"}, row : OrgRoles, found : RowIds]
SignIns == [kind : {"signIn"}, user : User, found : Contexts]
Switches == [kind : {"switch"}, user : User, org : Org]
\* Without an organisation there is no member to read.
Builds ==
  {c \in [kind : {"build"}, user : User, org : OrgOrNone, todo : SUBSET Steps,
          roles : SUBSET Role, perms : SUBSET Perm, listed : SUBSET Role,
          roleId : RowIds, role : Role \union {"none"}, link : RowIds] :
     c.org = NoOrg => "member" \notin c.todo /\ "rows" \notin c.todo}

Calls == {Idle} \union Creates \union RoleUpdates \union Edits \union SignIns
           \union Switches \union Builds

\* The tables hold well-formed rows, no user has two redirects for one role
\* of one organisation, and nobody is a member of an organisation that is gone.
TypeOK ==
  /\ org \subseteq Org
  /\ member \in [User -> [Org -> SUBSET Role]]
  /\ \A u \in User, o \in Org \ org : member[u][o] = {}
  /\ orgRole \subseteq OrgRoles /\ \A row \in orgRole : row.org \in org
  /\ redirect \subseteq Redirects
  /\ \A k, l \in redirect : k.user = l.user /\ k.org = l.org /\ k.role = l.role => k = l
  /\ context \in [User -> Contexts]
  /\ session \subseteq User \X OrgOrNone
  /\ call \in [Call -> Calls]
  /\ requests \in 0..MaxRequests /\ faults \in 0..MaxFaults
  /\ edited \subseteq Org /\ loose \subseteq User \X Org
  /\ choice \in [User -> OrgOrNone]

\* However the reads of buildUserContext interleave with changes of the
\* directory, and whatever organisation the session still names: a permission
\* in a token came from a role the user held in that organisation while the
\* token was built, granted by the organisation's own rows at that time or by
\* the owner's fallback; and a token with permissions but without roles in
\* activeOrganizationRoles was built across a change of the membership.
TokensAreExplained ==
  \A h \in Call : Built(h) /\ call[h].perms # {} =>
    /\ \A p \in call[h].perms :
         \/ \E r \in seen[h].held : <<r, p>> \in seen[h].granted
         \/ p \in Defaults /\ Owner \in seen[h].held
    /\ call[h].listed = {} => seen[h].away

\* "Seed the owner role with full permissions so the org creator's JWT carries
\* the right scopes from the very first session": as long as nobody has written
\* the organisation's role rows by hand, a token of an owner carries all of the
\* defaults, between the creation and the seeding, after a seeding that failed,
\* and in an organisation older than the rows.
OwnersAreCovered ==
  \A h \in Call :
    Built(h) /\ Owner \in call[h].roles /\ call[h].org \in org \ edited =>
      Defaults \subseteq call[h].perms

\* The organisation last chosen for a user, by the user or by a superadmin,
\* is the one the next session starts in: no sign-in undoes the choice, not
\* even one that found no context before the choice was made.
ChoicesAreKept ==
  \A u \in User : choice[u] # NoOrg => context[u].exists /\ context[u].org = choice[u]

\* The redirects of a member are of roles the member has, unless the last
\* change of roles failed to persist them, overlapped another one, or was
\* followed by the member's removal; the next change on its own repairs that.
RedirectsFollowRoles ==
  \A u \in User, o \in Org :
    <<u, o>> \notin loose /\ Updates(u, o) = {} =>
      {l.role : l \in Links(u, o)} \subseteq member[u][o]
=============================================================================

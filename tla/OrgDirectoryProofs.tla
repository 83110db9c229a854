-------------------------- MODULE OrgDirectoryProofs --------------------------
(***************************************************************************)
(* Theorems about OrgDirectory: its types, and the four invariants that    *)
(* say what concurrent changes of the directory may not do.                *)
(***************************************************************************)
EXTENDS OrgDirectory, TLAPS

USE DirectoryAssumption

-----------------------------------------------------------------------------
(***************************************************************************)
(* Requests                                                                *)
(***************************************************************************)

\* The kind of a request says which record it is.
LEMMA KindOf ==
  ASSUME NEW c \in Calls
  PROVE  /\ c.kind = "create" => c \in Creates
         /\ c.kind = "update" => c \in RoleUpdates
         /\ c.kind = "edit" => c \in Edits
         /\ c.kind = "signIn" => c \in SignIns
         /\ c.kind = "switch" => c \in Switches
         /\ c.kind = "build" => c \in Builds
         /\ c.kind \in {"idle", "create", "update", "edit", "signIn", "switch", "build"}
         /\ c.kind = "idle" => c = Idle
  BY DEF Calls, Idle, Creates, RoleUpdates, Edits, SignIns, Switches, Builds

\* A request may be replaced by any other.
LEMMA PutCall ==
  ASSUME NEW f \in [Call -> Calls], NEW h \in Call, NEW c \in Calls
  PROVE  /\ [f EXCEPT ![h] = c] \in [Call -> Calls]
         /\ [f EXCEPT ![h] = c][h] = c
         /\ \A g \in Call \ {h} : [f EXCEPT ![h] = c][g] = f[g]
  OBVIOUS

\* Updates no longer alone.
Accompanied(f, U) == [h \in Call |-> IF h \in U THEN [f[h] EXCEPT !.alone = FALSE] ELSE f[h]]

\* Disturbing updates changes nothing else of any request.
LEMMA DisturbedCalls ==
  ASSUME NEW f \in [Call -> Calls], NEW U \in SUBSET Call,
         \A h \in U : f[h].kind = "update"
  PROVE  /\ Accompanied(f, U) \in [Call -> Calls]
         /\ \A h \in U : /\ Accompanied(f, U)[h].alone = FALSE
                         /\ Accompanied(f, U)[h].kind = "update"
                         /\ Accompanied(f, U)[h].user = f[h].user
                         /\ Accompanied(f, U)[h].org = f[h].org
                         /\ Accompanied(f, U)[h].links = f[h].links
                         /\ Accompanied(f, U)[h].at = f[h].at
                         /\ Accompanied(f, U)[h].gone = f[h].gone
         /\ \A h \in Call \ U : Accompanied(f, U)[h] = f[h]
<1>1. ASSUME NEW h \in U
      PROVE  /\ [f[h] EXCEPT !.alone = FALSE] \in RoleUpdates
             /\ [f[h] EXCEPT !.alone = FALSE].alone = FALSE
             /\ [f[h] EXCEPT !.alone = FALSE].kind = "update"
             /\ [f[h] EXCEPT !.alone = FALSE].user = f[h].user
             /\ [f[h] EXCEPT !.alone = FALSE].org = f[h].org
             /\ [f[h] EXCEPT !.alone = FALSE].links = f[h].links
             /\ [f[h] EXCEPT !.alone = FALSE].at = f[h].at
             /\ [f[h] EXCEPT !.alone = FALSE].gone = f[h].gone
  <2>1. f[h] \in RoleUpdates
    BY KindOf
  <2> QED
    BY <2>1 DEF RoleUpdates
<1>2. Accompanied(f, U) \in [Call -> Calls]
  BY <1>1 DEF Calls, Accompanied
<1> QED
  BY <1>1, <1>2 DEF Accompanied

\* A request that starts, moves on or ends keeps the requests well-typed.
LEMMA PutTyped ==
  ASSUME TypeOK, NEW h \in Call, NEW c \in Calls,
         call' = [call EXCEPT ![h] = c]
  PROVE  call' \in [Call -> Calls]
  BY PutCall DEF TypeOK

\* Starting a request uses a number for it.
LEMMA NumberOfRequest ==
  ASSUME TypeOK, Request
  PROVE  /\ requests + 1 \in RowIds
         /\ requests' \in 0..MaxRequests
         /\ faults' \in 0..MaxFaults
  BY DEF TypeOK, Request, RowIds

\* What Disturbed does to the requests.
LEMMA DisturbedCallsTyped ==
  ASSUME TypeOK, NEW u \in User, NEW o \in Org
  PROVE  /\ Updates(u, o) \in SUBSET Call
         /\ \A h \in Updates(u, o) : call[h].kind = "update"
         /\ Disturbed(u, o, call) = Accompanied(call, Updates(u, o))
         /\ Disturbed(u, o, call) \in [Call -> Calls]
<1>1. Updates(u, o) \in SUBSET Call /\ \A h \in Updates(u, o) : call[h].kind = "update"
  BY DEF Updates
<1>2. Disturbed(u, o, call) = Accompanied(call, Updates(u, o))
  BY DEF Disturbed, Accompanied
<1>3. call \in [Call -> Calls]
  BY DEF TypeOK
<1> QED
  BY <1>1, <1>2, <1>3, DisturbedCalls

LEMMA IdleIsCall == Idle \in Calls
  BY DEF Calls

-----------------------------------------------------------------------------
(***************************************************************************)
(* Type correctness                                                        *)
(***************************************************************************)

\* The creation of an organisation and the seeding of its owner's role.
LEMMA CreationTypes ==
  ASSUME TypeOK, NEW h \in Call,
         \/ \E u \in User, o \in Org : createOrganization(h, u, o)
         \/ afterCreateOrganization(h)
  PROVE  TypeOK'
<1>1. ASSUME NEW u \in User, NEW o \in Org, createOrganization(h, u, o)
      PROVE  TypeOK'
  <2>1. [kind |-> "create", org |-> o, no |-> requests + 1] \in Calls
    BY <1>1, NumberOfRequest DEF createOrganization, Start, Calls, Creates
  <2>2. call' \in [Call -> Calls]
    BY <1>1, <2>1, PutTyped DEF createOrganization, Start
  <2>3. requests' \in 0..MaxRequests /\ faults' \in 0..MaxFaults
    BY <1>1, NumberOfRequest DEF createOrganization, Start
  <2> QED
    BY <1>1, <2>2, <2>3 DEF TypeOK, createOrganization, ghosts, OrgOrNone
<1>2. CASE afterCreateOrganization(h)
  <2>1. call[h] \in Creates
    BY <1>2, KindOf DEF afterCreateOrganization, TypeOK
  <2>2. call' \in [Call -> Calls]
    BY <1>2, PutTyped, IdleIsCall DEF afterCreateOrganization, Go
  <2>3. /\ orgRole' \subseteq OrgRoles
        /\ \A row \in orgRole' : row.org \in org
    BY <1>2, <2>1 DEF afterCreateOrganization, TypeOK, Creates, OrgRoles
  <2> QED
    BY <1>2, <2>2, <2>3 DEF TypeOK, afterCreateOrganization, ghosts, Go
<1> QED
  BY <1>1, <1>2

\* Requests of a single statement on an organisation and its members.
LEMMA MemberTypes ==
  ASSUME TypeOK, NEW o \in Org,
         \/ deleteOrganization(o)
         \/ \E u \in User : removeMember(u, o)
         \/ \E u \in User, R \in Roles : addMember(u, o, R)
  PROVE  TypeOK'
<1>1. CASE deleteOrganization(o)
  <2>1. call' \in [Call -> Calls]
    <3> DEFINE U == {g \in Call : call[g].kind = "update" /\ call[g].org = o}
    <3>1. call' = Accompanied(call, U)
      BY <1>1 DEF deleteOrganization, Accompanied
    <3> QED
      BY <3>1, DisturbedCalls DEF TypeOK
  <2>2. requests' \in 0..MaxRequests /\ faults' \in 0..MaxFaults
    BY <1>1, NumberOfRequest DEF deleteOrganization
  <2>3. \A row \in orgRole' : row.org \in org'
    BY <1>1 DEF TypeOK, deleteOrganization, Rows, OrgRoles
  <2> QED
    BY <1>1, <2>1, <2>2, <2>3 DEF TypeOK, deleteOrganization
<1>2. ASSUME NEW u \in User, NEW R \in Roles, addMember(u, o, R)
      PROVE  TypeOK'
  <2>1. requests' \in 0..MaxRequests /\ faults' \in 0..MaxFaults
    BY <1>2, NumberOfRequest DEF addMember, Single
  <2> QED
    BY <1>2, <2>1 DEF TypeOK, addMember, Single, Roles, ghosts
<1>3. ASSUME NEW u \in User, removeMember(u, o)
      PROVE  TypeOK'
  <2>1. call' \in [Call -> Calls]
    BY <1>3, DisturbedCallsTyped DEF removeMember
  <2>2. requests' \in 0..MaxRequests /\ faults' \in 0..MaxFaults
    BY <1>3, NumberOfRequest DEF removeMember
  <2> QED
    BY <1>3, <2>1, <2>2 DEF TypeOK, removeMember
<1> QED
  BY <1>1, <1>2, <1>3

\* The change of a member's roles and redirects.
LEMMA RedirectTypes ==
  ASSUME TypeOK, NEW h \in Call,
         \/ \E u \in User, o \in Org, R \in Roles : \E L \in SUBSET R :
              updateMemberRole(h, u, o, R, L)
         \/ findMember(h)
         \/ deleteRedirects(h)
         \/ createRedirects(h)
         \/ createRedirects_refused(h)
  PROVE  TypeOK'
<1>1. ASSUME NEW u \in User, NEW o \in Org, NEW R \in Roles, NEW L \in SUBSET R,
             updateMemberRole(h, u, o, R, L)
      PROVE  TypeOK'
  <2> DEFINE new == [kind |-> "update", at |-> "find", user |-> u, org |-> o,
                     links |-> L, no |-> requests + 1, gone |-> {},
                     alone |-> Updates(u, o) = {}]
  <2>1. /\ requests + 1 \in RowIds
        /\ requests' \in 0..MaxRequests /\ faults' \in 0..MaxFaults
    BY <1>1, NumberOfRequest DEF updateMemberRole
  <2>2. (Updates(u, o) = {}) \in BOOLEAN
    OBVIOUS
  <2>3. new \in RoleUpdates
    BY <2>1, <2>2 DEF RoleUpdates, Roles
  <2>4. Disturbed(u, o, call) \in [Call -> Calls]
    BY DisturbedCallsTyped
  <2>5. call' = [Disturbed(u, o, call) EXCEPT ![h] = new]
    BY <1>1 DEF updateMemberRole
  <2>6. call' \in [Call -> Calls]
    BY <2>3, <2>4, <2>5, PutCall DEF Calls
  <2> HIDE DEF new
  <2> QED
    BY <1>1, <2>1, <2>6 DEF TypeOK, updateMemberRole, Roles
<1>2. ASSUME call[h].kind = "update"
      PROVE  call[h] \in RoleUpdates
  BY <1>2, KindOf DEF TypeOK
<1>3. CASE findMember(h)
  <2>1. [call[h] EXCEPT !.at = "delete"] \in Calls
    BY <1>2, <1>3 DEF findMember, Calls, RoleUpdates
  <2>2. call' \in [Call -> Calls]
    BY <1>3, <2>1, PutTyped, IdleIsCall DEF findMember, Go
  <2> QED
    BY <1>3, <2>2 DEF TypeOK, findMember, directory, ghosts, Go
<1>4. CASE deleteRedirects(h)
  <2>1. Links(call[h].user, call[h].org) \in SUBSET Redirects
    BY DEF Links, TypeOK
  <2>2. call' \in [Call -> Calls]
    <3>1. [call[h] EXCEPT !.at = "create", !.gone = Links(call[h].user, call[h].org)] \in Calls
      BY <1>2, <1>4, <2>1 DEF deleteRedirects, Calls, RoleUpdates
    <3> QED
      BY <1>4, <3>1, PutTyped DEF deleteRedirects, Go
  <2> QED
    BY <1>4, <2>2 DEF TypeOK, deleteRedirects, directory, ghosts, Go
<1>5. CASE createRedirects(h)
  <2> DEFINE c == call[h]
             new == [id : {c.no}, user : {c.user}, org : {c.org}, role : c.links]
             kept == redirect \ c.gone
  <2>1. c \in RoleUpdates
    BY <1>2, <1>5 DEF createRedirects
  <2>2. new \subseteq Redirects /\ loose' \subseteq User \X Org
    BY <1>5, <2>1 DEF RoleUpdates, Redirects, createRedirects, TypeOK
  <2>3. \A k, l \in new : k.role = l.role => k = l
    OBVIOUS
  <2>4. ASSUME NEW k \in kept, NEW l \in new
        PROVE  ~(k.user = l.user /\ k.org = l.org /\ k.role = l.role)
    BY <1>5, <2>4 DEF createRedirects, Links
  <2>5. \A k, l \in redirect' : k.user = l.user /\ k.org = l.org /\ k.role = l.role => k = l
    <3>1. redirect' = kept \union new
      BY <1>5 DEF createRedirects
    <3>2. \A k, l \in kept : k.user = l.user /\ k.org = l.org /\ k.role = l.role => k = l
      BY DEF TypeOK
    <3> HIDE DEF kept, new
    <3> QED
      BY <2>3, <2>4, <3>1, <3>2
  <2>6. redirect' \subseteq Redirects
    BY <1>5, <2>2 DEF createRedirects, TypeOK
  <2>7. call' \in [Call -> Calls]
    BY <1>5, PutTyped, IdleIsCall DEF createRedirects, Go
  <2> HIDE DEF c, new, kept
  <2> QED
    BY <1>5, <2>2, <2>5, <2>6, <2>7 DEF TypeOK, createRedirects, Go
<1>6. CASE createRedirects_refused(h)
  <2>1. call' \in [Call -> Calls]
    BY <1>6, PutTyped, IdleIsCall DEF createRedirects_refused, Go
  <2>2. loose' \subseteq User \X Org
    <3>1. <<call[h].user, call[h].org>> \in User \X Org
      BY <1>2, <1>6 DEF createRedirects_refused, RoleUpdates
    <3> QED
      BY <1>6, <3>1 DEF createRedirects_refused, TypeOK
  <2> QED
    BY <1>6, <2>1, <2>2 DEF TypeOK, createRedirects_refused, directory, Go
<1> QED
  BY <1>1, <1>3, <1>4, <1>5, <1>6

\* The row of a new role.
LEMMA NewRowType ==
  ASSUME NEW o \in Org, NEW r \in Role, NEW P \in Grant, requests + 1 \in RowIds
  PROVE  NewRow(o, r, P, requests + 1) \in OrgRoles
  BY DEF NewRow, OrgRoles

\* Roles created and deleted in a single statement.
LEMMA SingleRoleTypes ==
  ASSUME TypeOK,
         \/ \E o \in Org, r \in Role, P \in Grant : createOrgRole(o, r, P)
         \/ \E o \in Org, r \in Role : deleteOrgRole(o, r)
  PROVE  TypeOK'
<1>1. ASSUME NEW o \in Org, NEW r \in Role, NEW P \in Grant, createOrgRole(o, r, P)
      PROVE  TypeOK'
  <2>1. /\ requests + 1 \in RowIds
        /\ requests' \in 0..MaxRequests /\ faults' \in 0..MaxFaults
    BY <1>1, NumberOfRequest DEF createOrgRole, Single
  <2>2. NewRow(o, r, P, requests + 1) \in OrgRoles /\ NewRow(o, r, P, requests + 1).org = o
    BY NewRowType, <2>1 DEF NewRow
  <2> QED
    BY <1>1, <2>1, <2>2 DEF TypeOK, createOrgRole, Single
<1>2. ASSUME NEW o \in Org, NEW r \in Role, deleteOrgRole(o, r)
      PROVE  TypeOK'
  <2>1. requests' \in 0..MaxRequests /\ faults' \in 0..MaxFaults
    BY <1>2, NumberOfRequest DEF deleteOrgRole, Single
  <2> QED
    BY <1>2, <2>1 DEF TypeOK, deleteOrgRole, Single
<1> QED
  BY <1>1, <1>2

\* A role found and then written.
LEMMA RoleTypes ==
  ASSUME TypeOK, NEW h \in Call,
         \/ \E o \in Org, r \in Role, P \in Grant : updateOrgRole(h, o, r, P)
         \/ writeOrgRole(h)
  PROVE  TypeOK'
<1>1. ASSUME NEW o \in Org, NEW r \in Role, NEW P \in Grant, updateOrgRole(h, o, r, P)
      PROVE  TypeOK'
  <2>1. PICK id \in IF Rows(o, {r}) = {} THEN {0} ELSE {row.id : row \in Rows(o, {r})} :
          Start(h, [kind |-> "edit", row |-> NewRow(o, r, P, requests + 1), found |-> id])
    BY <1>1 DEF updateOrgRole
  <2>2. id \in RowIds
    BY <2>1 DEF Rows, TypeOK, OrgRoles, RowIds
  <2>3. /\ requests + 1 \in RowIds
        /\ requests' \in 0..MaxRequests /\ faults' \in 0..MaxFaults
    BY <2>1, NumberOfRequest DEF Start
  <2>4. [kind |-> "edit", row |-> NewRow(o, r, P, requests + 1), found |-> id] \in Calls
    BY NewRowType, <2>2, <2>3 DEF Calls, Edits
  <2>5. call' \in [Call -> Calls]
    BY <2>1, <2>4, PutTyped DEF Start
  <2> QED
    BY <1>1, <2>3, <2>5 DEF TypeOK, updateOrgRole, directory, ghosts
<1>2. CASE writeOrgRole(h)
  <2> DEFINE c == call[h]
             old == {row \in orgRole : row.id = c.found}
             changed == {[row EXCEPT !.perms = c.row.perms] : row \in old}
  <2>1. c \in Edits
    BY <1>2, KindOf DEF writeOrgRole, TypeOK
  <2>2. c.row \in OrgRoles
    BY <2>1 DEF Edits
  <2>3. ASSUME NEW row \in OrgRoles
        PROVE  /\ [row EXCEPT !.perms = c.row.perms] \in OrgRoles
               /\ [row EXCEPT !.perms = c.row.perms].org = row.org
    BY <2>2 DEF OrgRoles
  <2>4. changed \subseteq OrgRoles /\ \A row \in changed : row.org \in org
    <3>1. ASSUME NEW row \in old
          PROVE  /\ [row EXCEPT !.perms = c.row.perms] \in OrgRoles
                 /\ [row EXCEPT !.perms = c.row.perms].org \in org
      <4>1. row \in OrgRoles /\ row.org \in org
        BY DEF TypeOK
      <4> HIDE DEF c
      <4> QED
        BY <2>3, <4>1
    <3> HIDE DEF c, old
    <3> QED
      BY <3>1
  <2>5. orgRole' \subseteq OrgRoles /\ \A row \in orgRole' : row.org \in org
    <3>1. orgRole' = IF c.found = 0
                     THEN orgRole \union {row \in {c.row} : row.org \in org}
                     ELSE (orgRole \ old) \union changed
      BY <1>2 DEF writeOrgRole
    <3>2. orgRole \subseteq OrgRoles /\ \A row \in orgRole : row.org \in org
      BY DEF TypeOK
    <3> HIDE DEF c, old, changed
    <3> QED
      BY <2>2, <2>4, <3>1, <3>2
  <2>6. edited' \subseteq Org
    <3>1. \A row \in old \union {c.row} : row.org \in Org
      BY <2>2 DEF TypeOK, OrgRoles
    <3>2. edited' = edited \union {row.org : row \in old \union {c.row}}
      BY <1>2 DEF writeOrgRole
    <3> HIDE DEF c, old
    <3> QED
      BY <3>1, <3>2 DEF TypeOK
  <2>7. call' \in [Call -> Calls]
    BY <1>2, PutTyped, IdleIsCall DEF writeOrgRole, Go
  <2> HIDE DEF c, old, changed
  <2> QED
    BY <1>2, <2>5, <2>6, <2>7 DEF TypeOK, writeOrgRole, Go
<1> QED
  BY <1>1, <1>2

\* The superadmin's form.
LEMMA ContextTypes ==
  ASSUME TypeOK, NEW u \in User, NEW row \in orgRole, setUserContext(u, row)
  PROVE  TypeOK'
<1>1. requests' \in 0..MaxRequests /\ faults' \in 0..MaxFaults
  BY NumberOfRequest DEF setUserContext, Single
<1>2. row.org \in OrgOrNone /\ [exists |-> TRUE, org |-> row.org, role |-> row.id] \in Contexts
  BY DEF TypeOK, OrgRoles, Contexts, OrgOrNone
<1>3. context' \in [User -> Contexts] /\ choice' \in [User -> OrgOrNone]
  BY <1>2 DEF setUserContext, Chosen, TypeOK
<1> QED
  BY <1>1, <1>3 DEF TypeOK, setUserContext, Chosen, Single

\* Sessions and contexts.
LEMMA SessionTypes ==
  ASSUME TypeOK, NEW h \in Call,
         \/ \E u \in User : signIn(h, u)
         \/ firstSession(h)
         \/ nextSession(h)
         \/ \E u \in User, o \in Org : activeOrganization(h, u, o)
         \/ upsertContext(h)
  PROVE  TypeOK'
<1>1. ASSUME NEW u \in User, signIn(h, u)
      PROVE  TypeOK'
  <2>1. [kind |-> "signIn", user |-> u, found |-> context[u]] \in Calls
    BY DEF TypeOK, Calls, SignIns
  <2>2. call' \in [Call -> Calls]
    BY <1>1, <2>1, PutTyped DEF signIn, Start
  <2>3. requests' \in 0..MaxRequests /\ faults' \in 0..MaxFaults
    BY <1>1, NumberOfRequest DEF signIn, Start
  <2> QED
    BY <1>1, <2>2, <2>3 DEF TypeOK, signIn, directory, ghosts
<1>2. ASSUME call[h].kind = "signIn"
      PROVE  call[h].user \in User /\ call[h].found \in Contexts
  <2>1. call[h] \in SignIns
    BY <1>2, KindOf DEF TypeOK
  <2> QED
    BY <2>1 DEF SignIns
<1>3. CASE firstSession(h)
  <2>1. call' \in [Call -> Calls]
    BY <1>3, PutTyped, IdleIsCall DEF firstSession, Go
  <2>2. [NoContext EXCEPT !.exists = TRUE] \in Contexts
    <3>1. 0 \in RowIds
      BY DEF RowIds
    <3>2. NoContext \in Contexts
      BY <3>1 DEF NoContext, Contexts, OrgOrNone
    <3>3. ASSUME NEW x \in Contexts
          PROVE  [x EXCEPT !.exists = TRUE] \in Contexts
      BY DEF Contexts
    <3> QED
      BY <3>2, <3>3
  <2>3. context' \in [User -> Contexts]
    BY <1>3, <2>2 DEF firstSession, TypeOK
  <2>4. session' \subseteq User \X OrgOrNone
    BY <1>2, <1>3 DEF firstSession, TypeOK, OrgOrNone
  <2> QED
    BY <1>3, <2>1, <2>3, <2>4 DEF TypeOK, firstSession, ghosts, Go
<1>4. CASE nextSession(h)
  <2>1. call' \in [Call -> Calls]
    BY <1>4, PutTyped, IdleIsCall DEF nextSession, Go
  <2>2. call[h].found.org \in OrgOrNone /\ NoOrg \in OrgOrNone /\ Org \subseteq OrgOrNone
    BY <1>2, <1>4 DEF nextSession, Contexts, OrgOrNone
  <2>3. session' \subseteq User \X OrgOrNone
    BY <1>2, <1>4, <2>2 DEF nextSession, TypeOK
  <2> QED
    BY <1>4, <2>1, <2>3 DEF TypeOK, nextSession, ghosts, Go
<1>5. ASSUME NEW u \in User, NEW o \in Org, activeOrganization(h, u, o)
      PROVE  TypeOK'
  <2>1. [kind |-> "switch", user |-> u, org |-> o] \in Calls
    BY DEF Calls, Switches
  <2>2. call' \in [Call -> Calls]
    BY <1>5, <2>1, PutTyped DEF activeOrganization, Start
  <2>3. requests' \in 0..MaxRequests /\ faults' \in 0..MaxFaults
    BY <1>5, NumberOfRequest DEF activeOrganization, Start
  <2> QED
    BY <1>5, <2>2, <2>3 DEF TypeOK, activeOrganization, directory, ghosts
<1>6. CASE upsertContext(h)
  <2>1. call[h] \in Switches
    BY <1>6, KindOf DEF TypeOK, upsertContext
  <2>2. call' \in [Call -> Calls]
    BY <1>6, PutTyped, IdleIsCall DEF upsertContext, Go
  <2>3. ASSUME NEW x \in Contexts
        PROVE  [x EXCEPT !.exists = TRUE, !.org = call[h].org] \in Contexts
    BY <2>1 DEF Switches, Contexts, OrgOrNone
  <2>4. context' = [context EXCEPT ![call[h].user] =
                      [@ EXCEPT !.exists = TRUE, !.org = call[h].org]]
    BY <1>6, <2>1 DEF upsertContext, TypeOK, Switches, Contexts
  <2>5. context' \in [User -> Contexts]
    BY <2>1, <2>3, <2>4 DEF TypeOK, Switches
  <2>6. choice' \in [User -> OrgOrNone]
    BY <1>6, <2>1 DEF upsertContext, Chosen, TypeOK, Switches, OrgOrNone
  <2> QED
    BY <1>6, <2>2, <2>5, <2>6 DEF TypeOK, upsertContext, Chosen, Go
<1> QED
  BY <1>1, <1>3, <1>4, <1>5, <1>6

\* A build and its reads.
LEMMA BuildTypes ==
  ASSUME TypeOK, NEW h \in Call,
         \/ \E u \in User, o \in OrgOrNone : buildUserContext(h, u, o)
         \/ readMember(h) \/ readRows(h) \/ readMemberships(h) \/ readContext(h)
         \/ readRole(h) \/ readRedirect(h) \/ issue(h)
  PROVE  TypeOK'
<1>1. ASSUME NEW u \in User, NEW o \in OrgOrNone, buildUserContext(h, u, o)
      PROVE  TypeOK'
  <2>1. Build(u, o) \in Builds
    BY DEF Build, Builds, Steps, RowIds
  <2>2. call' \in [Call -> Calls]
    BY <1>1, <2>1, PutTyped DEF buildUserContext, Start, Calls
  <2>3. requests' \in 0..MaxRequests /\ faults' \in 0..MaxFaults
    BY <1>1, NumberOfRequest DEF buildUserContext, Start
  <2> QED
    BY <1>1, <2>2, <2>3 DEF TypeOK, buildUserContext, directory, ghosts
<1>2. ASSUME NEW step, NEW more \in SUBSET Steps, NEW c \in Builds, Read(h, step, more, c),
             c.org # NoOrg \/ more \subseteq {"role", "redirect"}
      PROVE  TypeOK'
  <2>1. [c EXCEPT !.todo = (@ \ {step}) \union more] \in Builds
    BY <1>2 DEF Builds
  <2>2. call' \in [Call -> Calls]
    BY <1>2, <2>1, PutTyped DEF Read, Go, Calls
  <2> QED
    BY <1>2, <2>2 DEF TypeOK, Read, Go, directory, ghosts
<1> DEFINE c == call[h]
<1>3. ASSUME NEW step, NEW more, NEW d, Read(h, step, more, d)
      PROVE  c \in Builds /\ step \in c.todo
  BY <1>3, KindOf DEF TypeOK, Read
<1>4. ASSUME c \in Builds, c.org # NoOrg
      PROVE  member[c.user][c.org] \in SUBSET Role
  BY <1>4 DEF TypeOK, OrgOrNone, Builds
<1>5. CASE readMember(h)
  <2> DEFINE R == member[c.user][c.org]
             d == [c EXCEPT !.roles = R]
             more == IF R = {} THEN {} ELSE {"rows"}
  <2>1. Read(h, "member", more, d)
    BY <1>5 DEF readMember
  <2>2. c \in Builds /\ "member" \in c.todo
    BY <2>1, <1>3
  <2>3. c.org # NoOrg
    BY <2>2 DEF Builds
  <2>4. R \in SUBSET Role
    BY <1>4, <2>2, <2>3
  <2>5. d \in Builds /\ d.org = c.org
    BY <2>2, <2>4 DEF Builds
  <2>6. more \in SUBSET Steps
    BY DEF Steps
  <2> HIDE DEF R, d, c, more
  <2> QED
    BY <1>2, <2>1, <2>3, <2>5, <2>6
<1>6. CASE readRows(h)
  <2> DEFINE P == PermissionsOf(c.roles, Rows(c.org, c.roles))
             d == [c EXCEPT !.perms = P]
  <2>1. Read(h, "rows", {}, d)
    BY <1>6 DEF readRows
  <2>2. c \in Builds
    BY <2>1, <1>3
  <2>3. P \in SUBSET Perm
    BY DEF PermissionsOf, Permissions, Rows, TypeOK, OrgRoles
  <2>4. d \in Builds
    BY <2>2, <2>3 DEF Builds
  <2> HIDE DEF P, d, c
  <2> QED
    BY <1>2, <2>1, <2>4
<1>7. CASE readMemberships(h)
  <2> DEFINE R == IF c.org = NoOrg THEN {} ELSE member[c.user][c.org]
             d == [c EXCEPT !.listed = R]
  <2>1. Read(h, "list", {}, d)
    BY <1>7 DEF readMemberships
  <2>2. c \in Builds
    BY <2>1, <1>3
  <2>3. R \in SUBSET Role
    BY <1>4, <2>2
  <2>4. d \in Builds
    BY <2>2, <2>3 DEF Builds
  <2> HIDE DEF R, d, c
  <2> QED
    BY <1>2, <2>1, <2>4
<1>8. CASE readContext(h)
  <2> DEFINE id == context[c.user].role
             d == [c EXCEPT !.roleId = id]
             more == IF id = 0 THEN {} ELSE {"role"}
  <2>1. Read(h, "context", more, d)
    BY <1>8 DEF readContext
  <2>2. c \in Builds
    BY <2>1, <1>3
  <2>3. id \in RowIds
    BY <2>2 DEF Builds, TypeOK, Contexts
  <2>4. d \in Builds
    BY <2>2, <2>3 DEF Builds
  <2>5. more \in SUBSET Steps /\ more \subseteq {"role", "redirect"}
    BY DEF Steps
  <2> HIDE DEF id, d, c, more
  <2> QED
    BY <1>2, <2>1, <2>4, <2>5
<1>9. CASE readRole(h)
  <2> DEFINE found == {row \in orgRole : row.id = c.roleId}
             r == IF found = {} THEN "none" ELSE (CHOOSE row \in found : TRUE).role
             d == [c EXCEPT !.role = r]
             more == IF found = {} \/ c.org = NoOrg THEN {} ELSE {"redirect"}
  <2>1. Read(h, "role", more, d)
    BY <1>9 DEF readRole
  <2>2. c \in Builds
    BY <2>1, <1>3
  <2>3. r \in Role \union {"none"}
    <3>1. found \subseteq OrgRoles
      BY DEF TypeOK
    <3>2. found # {} => (CHOOSE row \in found : TRUE) \in found
      OBVIOUS
    <3> QED
      BY <3>1, <3>2 DEF OrgRoles
  <2>4. d \in Builds
    BY <2>2, <2>3 DEF Builds
  <2>5. more \in SUBSET Steps /\ more \subseteq {"role", "redirect"}
    BY DEF Steps
  <2> HIDE DEF found, r, d, c, more
  <2> QED
    BY <1>2, <2>1, <2>4, <2>5
<1>10. CASE readRedirect(h)
  <2> DEFINE found == {l \in Links(c.user, c.org) : l.role = c.role}
             n == IF found = {} THEN 0 ELSE (CHOOSE l \in found : TRUE).id
             d == [c EXCEPT !.link = n]
  <2>1. Read(h, "redirect", {}, d)
    BY <1>10 DEF readRedirect
  <2>2. c \in Builds
    BY <2>1, <1>3
  <2>3. n \in RowIds
    <3>1. found \subseteq Redirects
      BY DEF TypeOK, Links
    <3>2. found # {} => (CHOOSE l \in found : TRUE) \in found
      OBVIOUS
    <3>3. 0 \in RowIds
      BY DEF RowIds
    <3> HIDE DEF found
    <3> QED
      BY <3>1, <3>2, <3>3 DEF Redirects
  <2>4. d \in Builds
    BY <2>2, <2>3 DEF Builds
  <2> HIDE DEF found, n, d, c
  <2> QED
    BY <1>2, <2>1, <2>4
<1>11. CASE issue(h)
  <2>1. call' \in [Call -> Calls]
    BY <1>11, PutTyped, IdleIsCall DEF issue, Go
  <2> QED
    BY <1>11, <2>1 DEF TypeOK, issue, Go, directory, ghosts
<1> QED
  BY <1>1, <1>5, <1>6, <1>7, <1>8, <1>9, <1>10, <1>11

\* A request that stops half way.
LEMMA StopTypes ==
  ASSUME TypeOK, NEW h \in Call, stop(h)
  PROVE  TypeOK'
<1>1. call' \in [Call -> Calls]
  BY PutTyped, IdleIsCall DEF stop
<1>2. loose' \subseteq User \X Org
  <2>1. CASE call[h].kind = "update"
    <3>1. call[h] \in RoleUpdates
      BY <2>1, KindOf DEF TypeOK
    <3>2. <<call[h].user, call[h].org>> \in User \X Org
      BY <3>1 DEF RoleUpdates
    <3> QED
      BY <3>2 DEF stop, TypeOK
  <2> QED
    BY <2>1 DEF stop, TypeOK
<1>3. faults' \in 0..MaxFaults
  BY DEF stop, TypeOK
<1> QED
  BY <1>1, <1>2, <1>3 DEF TypeOK, stop, directory

\* A step of the directory keeps the types.
LEMMA StepTypes == TypeOK /\ Step => TypeOK'
<1> SUFFICES ASSUME TypeOK, Step PROVE TypeOK'
  OBVIOUS
<1>1. CASE admin
  BY <1>1, MemberTypes, SingleRoleTypes, ContextTypes DEF admin
<1>2. ASSUME NEW h \in Call, arrive(h) \/ continue(h) \/ stop(h)
      PROVE  TypeOK'
  <2>1. CASE arrive(h)
    BY <2>1, CreationTypes, RedirectTypes, RoleTypes, SessionTypes, BuildTypes
       DEF arrive, OrgOrNone
  <2>2. CASE continue(h)
    BY <2>2, CreationTypes, RedirectTypes, RoleTypes, SessionTypes, BuildTypes DEF continue
  <2>3. CASE stop(h)
    BY <2>3, StopTypes
  <2> QED
    BY <1>2, <2>1, <2>2, <2>3
<1> QED
  BY <1>1, <1>2 DEF Step

\* Every start of the directory is well-typed.
LEMMA InitTypes == Init => TypeOK
<1> SUFFICES ASSUME Init PROVE TypeOK
  OBVIOUS
<1>1. PICK old \in SUBSET Org, founder \in User :
        /\ org = old
        /\ member = [u \in User |-> [o \in Org |-> IF u = founder /\ o \in old
                                                   THEN {Owner} ELSE {}]]
        /\ session = {founder} \X old
  BY DEF Init
<1>2. member \in [User -> [Org -> SUBSET Role]] /\ \A u \in User, o \in Org \ org : member[u][o] = {}
  BY <1>1
<1>3. session \subseteq User \X OrgOrNone
  BY <1>1 DEF OrgOrNone
<1>4. context \in [User -> Contexts]
  <2>1. NoContext \in Contexts
    BY DEF NoContext, Contexts, OrgOrNone, RowIds
  <2> QED
    BY <2>1 DEF Init
<1>5. call \in [Call -> Calls]
  BY IdleIsCall DEF Init
<1> QED
  BY <1>1, <1>2, <1>3, <1>4, <1>5 DEF Init, TypeOK, OrgOrNone

\* The tables hold well-formed rows, no user has two redirects for one role of
\* one organisation, and nobody is a member of an organisation that is gone,
\* whatever requests overlap and wherever they stop.
THEOREM TypeCorrect == Spec => []TypeOK
<1>1. TypeOK /\ [Next]_vars => TypeOK'
  <2>1. TypeOK /\ UNCHANGED vars => TypeOK'
    BY DEF TypeOK, vars, directory, ghosts
  <2> QED
    BY <2>1, StepTypes DEF Next
<1> QED
  BY <1>1, InitTypes, PTL DEF Spec

-----------------------------------------------------------------------------
(***************************************************************************)
(* The organisation last chosen                                            *)
(***************************************************************************)

\* The steps that write a context or record a choice.
LEMMA ContextSteps ==
  ASSUME Step
  PROVE  \/ UNCHANGED <<context, choice>>
         \/ \E u \in User, row \in orgRole : setUserContext(u, row)
         \/ \E h \in Call : firstSession(h) \/ upsertContext(h)
<1>1. CASE admin
  BY <1>1 DEF admin, ghosts, deleteOrganization, removeMember, addMember, createOrgRole, deleteOrgRole
<1>2. ASSUME NEW h \in Call, arrive(h) \/ continue(h) \/ stop(h)
      PROVE  UNCHANGED <<context, choice>> \/ firstSession(h) \/ upsertContext(h)
  <2>1. CASE arrive(h)
    BY <2>1 DEF arrive, directory, ghosts, createOrganization, updateMemberRole, updateOrgRole, signIn,
                activeOrganization, buildUserContext
  <2>2. CASE continue(h)
    BY <2>2 DEF continue, directory, ghosts, Read, afterCreateOrganization, findMember, deleteRedirects,
                createRedirects, createRedirects_refused, writeOrgRole, nextSession, readMember, readRows,
                readMemberships, readContext, readRole, readRedirect, issue
  <2>3. CASE stop(h)
    BY <2>3 DEF stop, directory
  <2> QED
    BY <1>2, <2>1, <2>2, <2>3
<1> QED
  BY <1>1, <1>2 DEF Step

\* A choice is never undone.
LEMMA ChoiceStep == TypeOK /\ ChoicesAreKept /\ Step => ChoicesAreKept'
<1> SUFFICES ASSUME TypeOK, ChoicesAreKept, Step PROVE ChoicesAreKept'
  OBVIOUS
<1>1. CASE UNCHANGED <<context, choice>>
  BY <1>1 DEF ChoicesAreKept
<1>2. ASSUME NEW u \in User, NEW row \in orgRole, setUserContext(u, row)
      PROVE  ChoicesAreKept'
  BY <1>2 DEF TypeOK, ChoicesAreKept, setUserContext, Chosen
<1>3. ASSUME NEW h \in Call, firstSession(h)
      PROVE  ChoicesAreKept'
  BY <1>3 DEF TypeOK, ChoicesAreKept, firstSession, ghosts
<1>4. ASSUME NEW h \in Call, upsertContext(h)
      PROVE  ChoicesAreKept'
  <2>1. call[h] \in Switches
    BY <1>4, KindOf DEF TypeOK, upsertContext
  <2> DEFINE c == call[h]
  <2>2. c.user \in User
    BY <2>1 DEF Switches
  <2>3. /\ choice' = [choice EXCEPT ![c.user] = c.org]
        /\ context' = [context EXCEPT ![c.user].exists = TRUE, ![c.user].org = c.org]
    BY <1>4 DEF upsertContext, Chosen
  <2>4. \A u \in User : u # c.user => context'[u] = context[u] /\ choice'[u] = choice[u]
    BY <2>3 DEF TypeOK
  <2>5. choice'[c.user] = c.org /\ context'[c.user].exists /\ context'[c.user].org = c.org
    BY <2>2, <2>3 DEF TypeOK, Contexts
  <2> HIDE DEF c
  <2> QED
    BY <2>4, <2>5 DEF ChoicesAreKept
<1> QED
  BY <1>1, <1>2, <1>3, <1>4, ContextSteps

\* The organisation last chosen for a user is the one the next session starts
\* in: no sign-in undoes the choice, not even one that found no context before
\* the choice was made.
THEOREM ChoicesKept == Spec => []ChoicesAreKept
<1>1. Init => ChoicesAreKept
  BY DEF Init, ChoicesAreKept
<1>2. TypeOK /\ ChoicesAreKept /\ [Next]_vars => ChoicesAreKept'
  <2>1. ChoicesAreKept /\ UNCHANGED vars => ChoicesAreKept'
    BY DEF ChoicesAreKept, vars, directory, ghosts
  <2> QED
    BY <2>1, ChoiceStep DEF Next
<1> QED
  BY <1>1, <1>2, TypeCorrect, PTL DEF Spec

-----------------------------------------------------------------------------
(***************************************************************************)
(* What a step does to a build                                             *)
(***************************************************************************)

\* One of a build's reads.
OneRead(h) ==
  \/ readMember(h) \/ readRows(h) \/ readMemberships(h) \/ readContext(h)
  \/ readRole(h) \/ readRedirect(h)

\* Disturbing updates leaves every other request as it was.
LEMMA AccompaniedCall ==
  ASSUME TypeOK, NEW U \in SUBSET Call, \A g \in U : call[g].kind = "update",
         NEW h \in Call
  PROVE  Accompanied(call, U)[h] = call[h] \/ Accompanied(call, U)[h].kind = "update"
<1>1. call \in [Call -> Calls]
  BY DEF TypeOK
<1>2. /\ \A g \in U : Accompanied(call, U)[g].kind = "update"
      /\ \A g \in Call \ U : Accompanied(call, U)[g] = call[g]
  BY <1>1, DisturbedCalls
<1> QED
  BY <1>2

\* A step on one request leaves the builds in the other slots alone.
LEMMA OtherSlots ==
  ASSUME TypeOK, NEW g \in Call, arrive(g) \/ continue(g) \/ stop(g),
         NEW h \in Call \ {g}
  PROVE  call'[h] = call[h] \/ call'[h].kind = "update"
<1>1. CASE \E c : call' = [call EXCEPT ![g] = c]
  BY <1>1 DEF TypeOK
<1>2. ASSUME NEW u \in User, NEW o \in Org, NEW R, NEW L, updateMemberRole(g, u, o, R, L)
      PROVE  call'[h] = call[h] \/ call'[h].kind = "update"
  <2>1. call'[h] = Accompanied(call, Updates(u, o))[h]
    BY <1>2, DisturbedCallsTyped DEF updateMemberRole
  <2> QED
    BY <2>1, AccompaniedCall, DisturbedCallsTyped
<1>3. CASE arrive(g)
  BY <1>1, <1>2, <1>3 DEF arrive, createOrganization, updateOrgRole, signIn, activeOrganization,
                          buildUserContext, Start
<1>4. CASE continue(g)
  BY <1>1, <1>4 DEF continue, Go, Read, afterCreateOrganization, findMember, deleteRedirects,
                    createRedirects, createRedirects_refused, writeOrgRole, firstSession, nextSession,
                    upsertContext, readMember, readRows, readMemberships, readContext, readRole,
                    readRedirect, issue
<1>5. CASE stop(g)
  BY <1>1, <1>5 DEF stop
<1> QED
  BY <1>3, <1>4, <1>5

\* A request of a single statement leaves the builds alone.
LEMMA AdminBuilds ==
  ASSUME TypeOK, admin, NEW h \in Call
  PROVE  call'[h] = call[h] \/ call'[h].kind = "update"
<1>1. ASSUME NEW o \in Org, deleteOrganization(o)
      PROVE  call'[h] = call[h] \/ call'[h].kind = "update"
  <2> DEFINE U == {g \in Call : call[g].kind = "update" /\ call[g].org = o}
  <2>1. call' = Accompanied(call, U)
    BY <1>1 DEF deleteOrganization, Accompanied
  <2>2. U \in SUBSET Call /\ \A g \in U : call[g].kind = "update"
    OBVIOUS
  <2> HIDE DEF U
  <2> QED
    BY <2>1, <2>2, AccompaniedCall
<1>2. ASSUME NEW u \in User, NEW o \in Org, removeMember(u, o)
      PROVE  call'[h] = call[h] \/ call'[h].kind = "update"
  <2>1. call' = Accompanied(call, Updates(u, o))
    BY <1>2, DisturbedCallsTyped DEF removeMember
  <2> QED
    BY <2>1, AccompaniedCall, DisturbedCallsTyped
<1> QED
  BY <1>1, <1>2 DEF admin, addMember, createOrgRole, deleteOrgRole, setUserContext, Single

\* A build after a step was there before, or has just started, or has done
\* exactly one of its reads.
LEMMA BuildStep ==
  ASSUME TypeOK, Step, NEW h \in Call, call'[h].kind = "build"
  PROVE  \/ call'[h] = call[h]
         \/ \E u \in User, o \in OrgOrNone : buildUserContext(h, u, o)
         \/ OneRead(h)
<1>1. CASE admin
  BY <1>1, AdminBuilds
<1>2. ASSUME NEW g \in Call \ {h}, arrive(g) \/ continue(g) \/ stop(g)
      PROVE  call'[h] = call[h]
  BY <1>2, OtherSlots
<1>3. CASE arrive(h)
  <2>1. \A c : Start(h, c) => call'[h] = c
    BY DEF TypeOK, Start
  <2>2. ASSUME NEW u \in User, NEW o \in Org, NEW R, NEW L, updateMemberRole(h, u, o, R, L)
        PROVE  FALSE
    BY <2>2, DisturbedCallsTyped DEF updateMemberRole
  <2>3. ASSUME NEW u \in User, NEW o \in Org, createOrganization(h, u, o)
        PROVE  FALSE
    BY <2>1, <2>3 DEF createOrganization
  <2>4. ASSUME NEW o \in Org, NEW r \in Role, NEW P \in Grant, updateOrgRole(h, o, r, P)
        PROVE  FALSE
    BY <2>1, <2>4 DEF updateOrgRole
  <2>5. ASSUME NEW u \in User, NEW o \in Org, signIn(h, u) \/ activeOrganization(h, u, o)
        PROVE  FALSE
    BY <2>1, <2>5 DEF signIn, activeOrganization
  <2>6. ASSUME NEW u \in User, signIn(h, u)
        PROVE  FALSE
    BY <2>1, <2>6 DEF signIn
  <2> QED
    BY <1>3, <2>2, <2>3, <2>4, <2>5, <2>6 DEF arrive, OrgOrNone
<1>4. CASE continue(h)
  <2>1. \A c : call' = [call EXCEPT ![h] = c] => call'[h] = c
    BY DEF TypeOK
  <2>2. Idle.kind = "idle"
    BY DEF Idle
  <2>3. ASSUME call[h].kind = "update"
        PROVE  [call[h] EXCEPT !.at = "delete"].kind = "update"
               /\ \A x : [call[h] EXCEPT !.at = "create", !.gone = x].kind = "update"
    <3>1. call[h] \in RoleUpdates
      BY <2>3, KindOf DEF TypeOK
    <3> QED
      BY <3>1 DEF RoleUpdates
  <2>4. ~findMember(h) /\ ~deleteRedirects(h)
    BY <2>1, <2>2, <2>3 DEF findMember, deleteRedirects, Go
  <2>5. ~(afterCreateOrganization(h) \/ createRedirects(h) \/ createRedirects_refused(h)
          \/ writeOrgRole(h) \/ firstSession(h) \/ nextSession(h) \/ upsertContext(h) \/ issue(h))
    BY <2>1, <2>2 DEF afterCreateOrganization, createRedirects, createRedirects_refused, writeOrgRole,
                      firstSession, nextSession, upsertContext, issue, Go
  <2> QED
    BY <1>4, <2>4, <2>5 DEF continue, OneRead
<1>5. ~stop(h)
  BY DEF stop, Idle, TypeOK
<1> QED
  BY <1>1, <1>2, <1>3, <1>4, <1>5 DEF Step

\* A build is the same but for what a read fills in.
SameBuild(c, d) == d.kind = c.kind /\ d.user = c.user /\ d.org = c.org

\* What each read adds to a build.
LEMMA ReadStep ==
  ASSUME TypeOK, NEW h \in Call, OneRead(h)
  PROVE  /\ call[h] \in Builds /\ SameBuild(call[h], call'[h])
         /\ call[h].todo # {}
         /\ UNCHANGED <<directory, ghosts>>
         /\ \/ /\ "member" \in call[h].todo
               /\ call'[h].roles = member[call[h].user][call[h].org]
               /\ call'[h].todo = (call[h].todo \ {"member"})
                                    \union (IF call'[h].roles = {} THEN {} ELSE {"rows"})
               /\ call'[h].perms = call[h].perms /\ call'[h].listed = call[h].listed
            \/ /\ "rows" \in call[h].todo
               /\ call'[h].perms = PermissionsOf(call[h].roles, Rows(call[h].org, call[h].roles))
               /\ call'[h].todo = call[h].todo \ {"rows"}
               /\ call'[h].roles = call[h].roles /\ call'[h].listed = call[h].listed
            \/ /\ "list" \in call[h].todo
               /\ call'[h].listed = IF call[h].org = NoOrg THEN {}
                                    ELSE member[call[h].user][call[h].org]
               /\ call'[h].todo = call[h].todo \ {"list"}
               /\ call'[h].roles = call[h].roles /\ call'[h].perms = call[h].perms
            \/ /\ \A step \in {"member", "rows", "list"} :
                    step \in call'[h].todo <=> step \in call[h].todo
               /\ call'[h].roles = call[h].roles /\ call'[h].perms = call[h].perms
               /\ call'[h].listed = call[h].listed
<1> DEFINE c == call[h]
           d == call'[h]
<1>1. ASSUME NEW step, NEW more, NEW e, Read(h, step, more, e)
      PROVE  /\ c \in Builds /\ step \in c.todo
             /\ d = [e EXCEPT !.todo = (@ \ {step}) \union more]
             /\ UNCHANGED <<directory, ghosts>>
  BY <1>1, KindOf DEF TypeOK, Read, Go
<1>2. CASE readMember(h)
  <2> DEFINE R == member[c.user][c.org]
             more == IF R = {} THEN {} ELSE {"rows"}
  <2>1. Read(h, "member", more, [c EXCEPT !.roles = R])
    BY <1>2 DEF readMember
  <2> HIDE DEF R, more
  <2>2. /\ c \in Builds /\ "member" \in c.todo
        /\ d = [[c EXCEPT !.roles = R] EXCEPT !.todo = (@ \ {"member"}) \union more]
        /\ UNCHANGED <<directory, ghosts>>
    BY <1>1, <2>1
  <2> HIDE DEF c, d
  <2>3. /\ SameBuild(c, d) /\ d.roles = R /\ d.todo = (c.todo \ {"member"}) \union more
        /\ d.perms = c.perms /\ d.listed = c.listed
    BY <2>2 DEF Builds, SameBuild
  <2> USE DEF R, more, c, d
  <2> QED
    BY <2>2, <2>3
<1>3. CASE readRows(h)
  <2> DEFINE P == PermissionsOf(c.roles, Rows(c.org, c.roles))
  <2>1. Read(h, "rows", {}, [c EXCEPT !.perms = P])
    BY <1>3 DEF readRows
  <2>2. /\ c \in Builds /\ "rows" \in c.todo
        /\ d = [[c EXCEPT !.perms = P] EXCEPT !.todo = (@ \ {"rows"}) \union {}]
        /\ UNCHANGED <<directory, ghosts>>
    BY <1>1, <2>1
  <2> HIDE DEF P, c, d
  <2>3. /\ SameBuild(c, d) /\ d.perms = P /\ d.todo = c.todo \ {"rows"}
        /\ d.roles = c.roles /\ d.listed = c.listed
    BY <2>2 DEF Builds, SameBuild
  <2> USE DEF P, c, d
  <2> QED
    BY <2>2, <2>3
<1>4. CASE readMemberships(h)
  <2> DEFINE R == IF c.org = NoOrg THEN {} ELSE member[c.user][c.org]
  <2>1. Read(h, "list", {}, [c EXCEPT !.listed = R])
    BY <1>4 DEF readMemberships
  <2>2. /\ c \in Builds /\ "list" \in c.todo
        /\ d = [[c EXCEPT !.listed = R] EXCEPT !.todo = (@ \ {"list"}) \union {}]
        /\ UNCHANGED <<directory, ghosts>>
    BY <1>1, <2>1
  <2> HIDE DEF R, c, d
  <2>3. /\ SameBuild(c, d) /\ d.listed = R /\ d.todo = c.todo \ {"list"}
        /\ d.roles = c.roles /\ d.perms = c.perms
    BY <2>2 DEF Builds, SameBuild
  <2> USE DEF R, c, d
  <2> QED
    BY <2>2, <2>3
<1>5. ASSUME NEW step \in {"context", "role", "redirect"}, NEW more \in SUBSET {"role", "redirect"},
             NEW x, \/ Read(h, step, more, [c EXCEPT !.roleId = x])
                    \/ Read(h, step, more, [c EXCEPT !.role = x])
                    \/ Read(h, step, more, [c EXCEPT !.link = x])
      PROVE  /\ c \in Builds /\ SameBuild(c, d) /\ c.todo # {}
             /\ UNCHANGED <<directory, ghosts>>
             /\ \A s \in {"member", "rows", "list"} : s \in d.todo <=> s \in c.todo
             /\ d.roles = c.roles /\ d.perms = c.perms /\ d.listed = c.listed
  <2>1. /\ c \in Builds /\ step \in c.todo /\ UNCHANGED <<directory, ghosts>>
        /\ \/ d = [[c EXCEPT !.roleId = x] EXCEPT !.todo = (@ \ {step}) \union more]
           \/ d = [[c EXCEPT !.role = x] EXCEPT !.todo = (@ \ {step}) \union more]
           \/ d = [[c EXCEPT !.link = x] EXCEPT !.todo = (@ \ {step}) \union more]
    BY <1>1, <1>5
  <2> HIDE DEF c, d
  <2>2. /\ SameBuild(c, d) /\ d.todo = (c.todo \ {step}) \union more
        /\ d.roles = c.roles /\ d.perms = c.perms /\ d.listed = c.listed
    BY <2>1 DEF Builds, SameBuild
  <2> QED
    BY <2>1, <2>2
<1>6. CASE readContext(h)
  <2> DEFINE id == context[c.user].role
             more == IF id = 0 THEN {} ELSE {"role"}
  <2>1. Read(h, "context", more, [c EXCEPT !.roleId = id])
    BY <1>6 DEF readContext
  <2>2. more \in SUBSET {"role", "redirect"}
    OBVIOUS
  <2> HIDE DEF id, more
  <2> QED
    BY <1>5, <2>1, <2>2
<1>7. CASE readRole(h)
  <2> DEFINE found == {row \in orgRole : row.id = c.roleId}
             r == IF found = {} THEN "none" ELSE (CHOOSE row \in found : TRUE).role
             more == IF found = {} \/ c.org = NoOrg THEN {} ELSE {"redirect"}
  <2>1. Read(h, "role", more, [c EXCEPT !.role = r])
    BY <1>7 DEF readRole
  <2>2. more \in SUBSET {"role", "redirect"}
    OBVIOUS
  <2> HIDE DEF r, more
  <2> QED
    BY <1>5, <2>1, <2>2
<1>8. CASE readRedirect(h)
  <2> DEFINE found == {l \in Links(c.user, c.org) : l.role = c.role}
             n == IF found = {} THEN 0 ELSE (CHOOSE l \in found : TRUE).id
  <2>1. Read(h, "redirect", {}, [c EXCEPT !.link = n])
    BY <1>8 DEF readRedirect
  <2> HIDE DEF n
  <2> QED
    BY <1>5, <2>1
<1> QED
  BY <1>2, <1>3, <1>4, <1>6, <1>7, <1>8 DEF OneRead

-----------------------------------------------------------------------------
(***************************************************************************)
(* Owners                                                                  *)
(***************************************************************************)

\* A row that nobody has written by hand is a seeded one.
RowsSeeded ==
  \A row \in orgRole : row.org \notin edited => row.role = Owner /\ row.perms = Defaults

\* A session for an organisation is there before a token is built for it.
BuildsHaveSessions ==
  \A h \in Call : call[h].kind = "build" => <<call[h].user, call[h].org>> \in session

\* Once the rows are read, an owner's permissions have the defaults.
OwnerReads ==
  \A h \in Call :
    /\ call[h].kind = "build" /\ "member" \notin call[h].todo /\ "rows" \notin call[h].todo
    /\ Owner \in call[h].roles /\ call[h].org \in org \ edited
    => Defaults \subseteq call[h].perms

OwnerInv == RowsSeeded /\ BuildsHaveSessions /\ OwnerReads

\* The steps that write role rows.
LEMMA RowSteps ==
  ASSUME Step
  PROVE  \/ orgRole' \subseteq orgRole /\ edited' = edited
         \/ \E o \in Org, r \in Role, P \in Grant : createOrgRole(o, r, P)
         \/ \E o \in Org, r \in Role : deleteOrgRole(o, r)
         \/ \E h \in Call : afterCreateOrganization(h) \/ writeOrgRole(h)
<1>1. CASE admin
  BY <1>1 DEF admin, ghosts, deleteOrganization, removeMember, addMember, setUserContext, Chosen
<1>2. ASSUME NEW h \in Call, arrive(h) \/ continue(h) \/ stop(h)
      PROVE  (orgRole' \subseteq orgRole /\ edited' = edited)
               \/ afterCreateOrganization(h) \/ writeOrgRole(h)
  <2>1. CASE arrive(h)
    BY <2>1 DEF arrive, directory, ghosts, createOrganization, updateMemberRole, updateOrgRole, signIn,
                activeOrganization, buildUserContext
  <2>2. CASE continue(h)
    BY <2>2 DEF continue, directory, ghosts, Read, findMember, deleteRedirects, Chosen,
                createRedirects, createRedirects_refused, firstSession, nextSession, upsertContext,
                readMember, readRows, readMemberships, readContext, readRole, readRedirect, issue
  <2>3. CASE stop(h)
    BY <2>3 DEF stop, directory
  <2> QED
    BY <1>2, <2>1, <2>2, <2>3
<1> QED
  BY <1>1, <1>2 DEF Step

\* A row that is not a seeded one comes with an edit of its organisation.
LEMMA RowsSeededStep == TypeOK /\ RowsSeeded /\ Step => RowsSeeded' /\ edited \subseteq edited'
<1> SUFFICES ASSUME TypeOK, RowsSeeded, Step PROVE RowsSeeded' /\ edited \subseteq edited'
  OBVIOUS
<1>1. CASE orgRole' \subseteq orgRole /\ edited' = edited
  BY <1>1 DEF RowsSeeded
<1>2. ASSUME NEW o \in Org, NEW r \in Role, NEW P \in Grant, createOrgRole(o, r, P)
      PROVE  RowsSeeded' /\ edited \subseteq edited'
  BY <1>2 DEF RowsSeeded, createOrgRole, NewRow
<1>3. ASSUME NEW o \in Org, NEW r \in Role, deleteOrgRole(o, r)
      PROVE  RowsSeeded' /\ edited \subseteq edited'
  BY <1>3 DEF RowsSeeded, deleteOrgRole
<1>4. ASSUME NEW h \in Call, afterCreateOrganization(h)
      PROVE  RowsSeeded' /\ edited \subseteq edited'
  BY <1>4 DEF RowsSeeded, afterCreateOrganization, ghosts
<1>5. ASSUME NEW h \in Call, writeOrgRole(h)
      PROVE  RowsSeeded' /\ edited \subseteq edited'
  <2> DEFINE c == call[h]
             old == {row \in orgRole : row.id = c.found}
             changed == {[row EXCEPT !.perms = c.row.perms] : row \in old}
  <2>1. /\ orgRole' = IF c.found = 0
                      THEN orgRole \union {row \in {c.row} : row.org \in org}
                      ELSE (orgRole \ old) \union changed
        /\ edited' = edited \union {row.org : row \in old \union {c.row}}
    BY <1>5 DEF writeOrgRole
  <2>2. \A row \in old : row.org \in edited'
    BY <2>1
  <2>3. \A row \in changed : row.org \in edited'
    <3>1. ASSUME NEW row \in old
          PROVE  [row EXCEPT !.perms = c.row.perms].org = row.org
      BY DEF TypeOK, OrgRoles
    <3> HIDE DEF old, c
    <3> QED
      BY <2>2, <3>1
  <2>4. c.row.org \in edited'
    BY <2>1
  <2> HIDE DEF c, old, changed
  <2> QED
    BY <2>1, <2>3, <2>4 DEF RowsSeeded
<1> QED
  BY <1>1, <1>2, <1>3, <1>4, <1>5, RowSteps

\* Sessions stay, and an organisation is new only where no session names it.
LEMMA SessionStep ==
  ASSUME Step
  PROVE  /\ session \subseteq session'
         /\ \A o \in org' \ org : \A u \in User : <<u, o>> \notin session
<1>1. CASE admin
  BY <1>1 DEF admin, deleteOrganization, removeMember, addMember, createOrgRole, deleteOrgRole,
              setUserContext
<1>2. ASSUME NEW h \in Call, arrive(h) \/ continue(h) \/ stop(h)
      PROVE  /\ session \subseteq session'
             /\ \A o \in org' \ org : \A u \in User : <<u, o>> \notin session
  <2>1. CASE arrive(h)
    BY <2>1 DEF arrive, directory, createOrganization, updateMemberRole, updateOrgRole, signIn,
                activeOrganization, buildUserContext
  <2>2. CASE continue(h)
    BY <2>2 DEF continue, directory, Read, afterCreateOrganization, findMember, deleteRedirects,
                createRedirects, createRedirects_refused, writeOrgRole, firstSession, nextSession,
                upsertContext, readMember, readRows, readMemberships, readContext, readRole,
                readRedirect, issue
  <2>3. CASE stop(h)
    BY <2>3 DEF stop, directory
  <2> QED
    BY <1>2, <2>1, <2>2, <2>3
<1> QED
  BY <1>1, <1>2 DEF Step

\* A build that starts has a session for what it reads.
LEMMA BuildStarts ==
  ASSUME TypeOK, NEW h \in Call, NEW u \in User, NEW o \in OrgOrNone, buildUserContext(h, u, o)
  PROVE  /\ call'[h] = Build(u, o)
         /\ <<u, o>> \in session
         /\ UNCHANGED <<directory, ghosts>>
  BY DEF buildUserContext, Start, TypeOK

\* Builds only run for the organisations of sessions.
LEMMA BuildsHaveSessionsStep == TypeOK /\ BuildsHaveSessions /\ Step => BuildsHaveSessions'
<1> SUFFICES ASSUME TypeOK, BuildsHaveSessions, Step, NEW h \in Call, call'[h].kind = "build"
             PROVE  <<call'[h].user, call'[h].org>> \in session'
  BY DEF BuildsHaveSessions
<1>1. CASE call'[h] = call[h]
  BY <1>1, SessionStep DEF BuildsHaveSessions
<1>2. ASSUME NEW u \in User, NEW o \in OrgOrNone, buildUserContext(h, u, o)
      PROVE  <<call'[h].user, call'[h].org>> \in session'
  <2>1. call'[h] = Build(u, o) /\ <<u, o>> \in session /\ UNCHANGED <<directory, ghosts>>
    BY <1>2, BuildStarts
  <2>2. Build(u, o).user = u /\ Build(u, o).org = o
    BY DEF Build
  <2> QED
    BY <2>1, <2>2 DEF directory
<1>3. CASE OneRead(h)
  BY <1>3, ReadStep DEF BuildsHaveSessions, directory, SameBuild
<1> QED
  BY <1>1, <1>2, <1>3, BuildStep

\* What an owner reads has the defaults, with seeded rows or with none.
LEMMA OwnerReadsStep == TypeOK /\ OwnerInv /\ Step => OwnerReads'
<1> SUFFICES ASSUME TypeOK, OwnerInv, Step, NEW h \in Call, call'[h].kind = "build",
                    "member" \notin call'[h].todo, "rows" \notin call'[h].todo,
                    Owner \in call'[h].roles, call'[h].org \in org' \ edited'
             PROVE  Defaults \subseteq call'[h].perms
  BY DEF OwnerReads
<1>1. CASE call'[h] = call[h]
  <2>1. call[h] \in Builds
    BY <1>1, KindOf DEF TypeOK
  <2>2. call[h].org \in org
    BY <1>1, <2>1, SessionStep DEF OwnerInv, BuildsHaveSessions, Builds
  <2> QED
    BY <1>1, <2>2, RowsSeededStep DEF OwnerInv, OwnerReads
<1>2. ASSUME NEW u \in User, NEW o \in OrgOrNone, buildUserContext(h, u, o)
      PROVE  FALSE
  <2>1. call'[h] = Build(u, o)
    BY <1>2, BuildStarts
  <2>2. Build(u, o).roles = {}
    BY DEF Build
  <2> QED
    BY <2>1, <2>2
<1>3. CASE OneRead(h)
  <2>1. call'[h].org = call[h].org /\ call[h].org \in org \ edited /\ call[h].kind = "build"
    BY <1>3, ReadStep DEF directory, ghosts, SameBuild
  <2>2. ASSUME call'[h].perms = PermissionsOf(call[h].roles, Rows(call[h].org, call[h].roles)),
               call'[h].roles = call[h].roles
        PROVE  Defaults \subseteq call'[h].perms
    <3> DEFINE rows == Rows(call[h].org, call[h].roles)
    <3>1. \A row \in rows : row.perms = Defaults
      BY <2>1 DEF OwnerInv, RowsSeeded, Rows
    <3>2. rows # {} => Permissions(rows) = Defaults
      BY <3>1 DEF Permissions
    <3>3. call'[h].perms = PermissionsOf(call[h].roles, rows) /\ Owner \in call[h].roles
      BY <2>2
    <3> HIDE DEF rows
    <3> QED
      BY <3>2, <3>3 DEF PermissionsOf
  <2>3. \/ /\ "member" \in call[h].todo
           /\ call'[h].todo = (call[h].todo \ {"member"})
                                \union (IF call'[h].roles = {} THEN {} ELSE {"rows"})
        \/ /\ call'[h].perms = PermissionsOf(call[h].roles, Rows(call[h].org, call[h].roles))
           /\ call'[h].roles = call[h].roles
        \/ /\ "member" \in call'[h].todo <=> "member" \in call[h].todo
           /\ "rows" \in call'[h].todo <=> "rows" \in call[h].todo
           /\ call'[h].roles = call[h].roles /\ call'[h].perms = call[h].perms
    BY <1>3, ReadStep
  <2> QED
    BY <2>1, <2>2, <2>3 DEF OwnerInv, OwnerReads
<1> QED
  BY <1>1, <1>2, <1>3, BuildStep

\* As long as nobody has written an organisation's role rows by hand, a token of
\* an owner carries all of the defaults: between the creation of the organisation
\* and the seeding, after a seeding that failed, and in an organisation older
\* than the rows.
THEOREM OwnersCovered == Spec => []OwnersAreCovered
<1>1. Init => OwnerInv
  BY DEF Init, OwnerInv, RowsSeeded, BuildsHaveSessions, OwnerReads, Idle
<1>2. TypeOK /\ OwnerInv /\ [Next]_vars => OwnerInv'
  <2>1. OwnerInv /\ UNCHANGED vars => OwnerInv'
    BY DEF OwnerInv, RowsSeeded, BuildsHaveSessions, OwnerReads, vars, directory, ghosts
  <2>2. TypeOK /\ OwnerInv /\ Step => OwnerInv'
    BY RowsSeededStep, BuildsHaveSessionsStep, OwnerReadsStep DEF OwnerInv
  <2> QED
    BY <2>1, <2>2 DEF Next
<1>3. OwnerInv => OwnersAreCovered
  BY DEF OwnerInv, OwnerReads, OwnersAreCovered, Built
<1> QED
  BY <1>1, <1>2, <1>3, TypeCorrect, PTL DEF Spec

-----------------------------------------------------------------------------
(***************************************************************************)
(* What a token says                                                       *)
(***************************************************************************)

\* What `now` says of a user in an organisation is in what was seen.
Covers(now, u, o, m, rows) ==
  /\ m[u][o] \subseteq now.held
  /\ \A row \in rows : row.org = o => \A p \in row.perms : <<row.role, p>> \in now.granted
  /\ m[u][o] = {} => now.away

\* A build's results are explained by what was seen.
Explained(c, s) ==
  /\ c.roles \subseteq s.held
  /\ \A p \in c.perms : \/ \E r \in s.held : <<r, p>> \in s.granted
                        \/ p \in Defaults /\ Owner \in s.held
  /\ "list" \notin c.todo /\ c.listed = {} => s.away

\* While a build goes on, everything that holds is seen; its results are
\* explained all along.
SeenInv ==
  \A h \in Call :
    call[h].kind = "build" =>
      IF call[h].org = NoOrg THEN call[h].perms = {}
      ELSE /\ call[h].todo # {} => Covers(seen[h], call[h].user, call[h].org, member, orgRole)
           /\ Explained(call[h], seen[h])

\* What was seen of a build that is not finished.
LEMMA SeenGrows ==
  ASSUME NEW h \in Call, seen' = [g \in Call |-> Watched(g)],
         call'[h].kind = "build", call'[h].org # NoOrg, ~Built(h)
  PROVE  /\ Covers(seen'[h], call'[h].user, call'[h].org, member', orgRole')
         /\ call[h].kind = "build" =>
              /\ seen[h].held \subseteq seen'[h].held
              /\ seen[h].granted \subseteq seen'[h].granted
              /\ seen[h].away => seen'[h].away
<1> DEFINE before == IF call[h].kind = "build" THEN seen[h] ELSE Nothing
           u == call'[h].user
           o == call'[h].org
           grants == UNION {{<<row.role, p>> : p \in row.perms} :
                            row \in {r \in orgRole' : r.org = o}}
<1>1. seen'[h] = [held |-> before.held \union member'[u][o],
                  granted |-> before.granted \union grants,
                  away |-> before.away \/ member'[u][o] = {}]
  BY DEF Watched
<1>2. ASSUME NEW row \in orgRole', row.org = o, NEW p \in row.perms
      PROVE  <<row.role, p>> \in grants
  BY <1>2
<1>3. call[h].kind = "build" => before = seen[h]
  OBVIOUS
<1> HIDE DEF before, u, o, grants
<1>4. /\ seen'[h].held = before.held \union member'[u][o]
      /\ seen'[h].granted = before.granted \union grants
      /\ seen'[h].away = (before.away \/ member'[u][o] = {})
  BY <1>1
<1>5. Covers(seen'[h], u, o, member', orgRole')
  BY <1>2, <1>4 DEF Covers
<1> QED
  BY <1>3, <1>4, <1>5 DEF u, o

\* Seeing more explains no less.
LEMMA ExplainedByMore ==
  ASSUME NEW c, NEW s, NEW t, Explained(c, s),
         s.held \subseteq t.held, s.granted \subseteq t.granted, s.away => t.away
  PROVE  Explained(c, t)
  BY DEF Explained

\* A read explains what it adds.
LEMMA ReadIsExplained ==
  ASSUME TypeOK, NEW h \in Call, OneRead(h), call[h].org # NoOrg, NEW s,
         Explained(call[h], s), Covers(s, call[h].user, call[h].org, member, orgRole)
  PROVE  Explained(call'[h], s)
<1> DEFINE c == call[h]
           d == call'[h]
<1>1. CASE /\ d.roles = member[c.user][c.org]
           /\ d.todo = (c.todo \ {"member"}) \union (IF d.roles = {} THEN {} ELSE {"rows"})
           /\ d.perms = c.perms /\ d.listed = c.listed
  BY <1>1 DEF Explained, Covers
<1>2. CASE /\ d.perms = PermissionsOf(c.roles, Rows(c.org, c.roles))
           /\ d.todo = c.todo \ {"rows"}
           /\ d.roles = c.roles /\ d.listed = c.listed
  <2>1. ASSUME NEW p \in d.perms
        PROVE  \/ \E r \in s.held : <<r, p>> \in s.granted
               \/ p \in Defaults /\ Owner \in s.held
    <3>1. CASE Rows(c.org, c.roles) # {}
      <4>1. PICK row \in Rows(c.org, c.roles) : p \in row.perms
        BY <1>2, <2>1, <3>1 DEF PermissionsOf, Permissions
      <4>2. row \in orgRole /\ row.org = c.org /\ row.role \in c.roles
        BY <4>1 DEF Rows
      <4> QED
        BY <4>1, <4>2 DEF Explained, Covers
    <3>2. CASE Rows(c.org, c.roles) = {}
      BY <1>2, <2>1, <3>2 DEF PermissionsOf, Explained
    <3> QED
      BY <3>1, <3>2
  <2> HIDE DEF c, d
  <2> QED
    BY <1>2, <2>1 DEF Explained, c, d
<1>3. CASE /\ d.listed = IF c.org = NoOrg THEN {} ELSE member[c.user][c.org]
           /\ d.todo = c.todo \ {"list"}
           /\ d.roles = c.roles /\ d.perms = c.perms
  BY <1>3 DEF Explained, Covers
<1>4. CASE /\ \A step \in {"member", "rows", "list"} : step \in d.todo <=> step \in c.todo
           /\ d.roles = c.roles /\ d.perms = c.perms /\ d.listed = c.listed
  BY <1>4 DEF Explained
<1> QED
  BY <1>1, <1>2, <1>3, <1>4, ReadStep

\* A step explains the builds that it leaves under way.
LEMMA SeenStep == TypeOK /\ SeenInv /\ Next => SeenInv'
<1> SUFFICES ASSUME TypeOK, SeenInv, Next, NEW h \in Call, call'[h].kind = "build"
             PROVE  IF call'[h].org = NoOrg THEN call'[h].perms = {}
                    ELSE /\ call'[h].todo # {} =>
                              Covers(seen'[h], call'[h].user, call'[h].org, member', orgRole')
                         /\ Explained(call'[h], seen'[h])
  BY DEF SeenInv
<1>1. Step /\ seen' = [g \in Call |-> Watched(g)]
  BY DEF Next
<1>2. CASE call'[h] = call[h]
  <2>1. CASE Built(h) /\ call'[h].org # NoOrg
    <3>1. seen'[h] = seen[h]
      BY <1>1, <2>1 DEF Watched
    <3> QED
      BY <1>2, <2>1, <3>1 DEF SeenInv, Built
  <2>2. CASE ~Built(h) /\ call'[h].org # NoOrg
    BY <1>1, <1>2, <2>2, SeenGrows, ExplainedByMore DEF SeenInv
  <2>3. CASE call'[h].org = NoOrg
    BY <1>2, <2>3 DEF SeenInv
  <2> QED
    BY <2>1, <2>2, <2>3
<1>3. ASSUME NEW u \in User, NEW o \in OrgOrNone, buildUserContext(h, u, o)
      PROVE  IF call'[h].org = NoOrg THEN call'[h].perms = {}
             ELSE /\ call'[h].todo # {} =>
                       Covers(seen'[h], call'[h].user, call'[h].org, member', orgRole')
                  /\ Explained(call'[h], seen'[h])
  <2>1. call'[h] = Build(u, o)
    BY <1>3, BuildStarts
  <2>2. Build(u, o).roles = {} /\ Build(u, o).perms = {} /\ "list" \in Build(u, o).todo
    BY DEF Build
  <2>3. ~Built(h)
    BY <1>3 DEF buildUserContext, Start, Idle, Built
  <2>4. Explained(call'[h], seen'[h])
    BY <2>1, <2>2 DEF Explained
  <2> QED
    BY <1>1, <2>1, <2>2, <2>3, <2>4, SeenGrows
<1>4. CASE OneRead(h)
  <2>1. /\ call[h] \in Builds /\ SameBuild(call[h], call'[h]) /\ ~Built(h)
        /\ call[h].kind = "build" /\ member' = member /\ orgRole' = orgRole
    BY <1>4, ReadStep DEF Built, directory, Builds
  <2>2. CASE call[h].org = NoOrg
    <3>1. "member" \notin call[h].todo /\ "rows" \notin call[h].todo
      BY <2>1, <2>2 DEF Builds
    <3>2. call'[h].perms = call[h].perms
      BY <1>4, <3>1, ReadStep
    <3> QED
      BY <2>1, <2>2, <3>2 DEF SeenInv, SameBuild
  <2>3. CASE call[h].org # NoOrg
    <3>1. /\ Covers(seen'[h], call[h].user, call[h].org, member, orgRole)
          /\ Explained(call[h], seen'[h])
      BY <1>1, <2>1, <2>3, SeenGrows, ExplainedByMore DEF SeenInv, SameBuild
    <3>2. Explained(call'[h], seen'[h])
      BY <1>4, <2>3, <3>1, ReadIsExplained
    <3> QED
      BY <2>1, <2>3, <3>1, <3>2 DEF SameBuild
  <2> QED
    BY <2>2, <2>3
<1> QED
  BY <1>1, <1>2, <1>3, <1>4, BuildStep

\* A permission in a token came from a role the user held in that organisation
\* while the token was built, granted by the organisation's rows at that time or
\* by the owner's fallback; a token with permissions but without roles was built
\* across a change of the membership.
THEOREM TokensExplained == Spec => []TokensAreExplained
<1>1. Init => SeenInv
  BY DEF Init, SeenInv, Idle
<1>2. TypeOK /\ SeenInv /\ [Next]_vars => SeenInv'
  <2>1. SeenInv /\ UNCHANGED vars => SeenInv'
    BY DEF SeenInv, vars, directory, ghosts, Covers, Explained
  <2> QED
    BY <2>1, SeenStep
<1>3. SeenInv => TokensAreExplained
  BY DEF SeenInv, Explained, TokensAreExplained, Built
<1> QED
  BY <1>1, <1>2, <1>3, TypeCorrect, PTL DEF Spec

-----------------------------------------------------------------------------
(***************************************************************************)
(* Redirects and roles                                                     *)
(***************************************************************************)

\* An update that has been alone so far will write what fits the roles; the
\* others are known not to.
Alone(h, u, o) ==
  /\ Updates(u, o) = {h}
  /\ call[h].links \subseteq member[u][o] /\ member[u][o] # {}
  /\ call[h].at = "create" => Links(u, o) \subseteq call[h].gone

RedirectInv(u, o) ==
  /\ <<u, o>> \notin loose /\ Updates(u, o) = {} =>
       {l.role : l \in Links(u, o)} \subseteq member[u][o]
  /\ \A h \in Updates(u, o) : IF call[h].alone THEN Alone(h, u, o) ELSE <<u, o>> \in loose

\* A step that touches neither the updates nor the roles of a member.
LEMMA Quiet ==
  ASSUME NEW u \in User, NEW o \in Org, RedirectInv(u, o),
         Updates(u, o)' = Updates(u, o),
         \A h \in Updates(u, o) : call'[h] = call[h],
         Links(u, o)' \subseteq Links(u, o),
         member'[u][o] = member[u][o] \/ member[u][o] = {},
         <<u, o>> \in loose' <=> <<u, o>> \in loose
  PROVE  RedirectInv(u, o)'
<1>1. ASSUME NEW h \in Updates(u, o)
      PROVE  IF call'[h].alone THEN Alone(h, u, o)' ELSE <<u, o>> \in loose'
  <2>1. CASE call[h].alone
    <3>1. Alone(h, u, o)
      BY <2>1 DEF RedirectInv
    <3> QED
      BY <2>1, <3>1 DEF Alone
  <2>2. CASE ~call[h].alone
    BY <2>2 DEF RedirectInv
  <2> QED
    BY <2>1, <2>2
<1>2. <<u, o>> \notin loose' /\ Updates(u, o)' = {} =>
        {l.role : l \in Links(u, o)'} \subseteq member'[u][o]
  BY DEF RedirectInv
<1> QED
  BY <1>1, <1>2 DEF RedirectInv

\* A step after which nothing is claimed of a member's redirects.
LEMMA Loud ==
  ASSUME NEW u \in User, NEW o \in Org, <<u, o>> \in loose',
         \A h \in Updates(u, o)' : ~call'[h].alone
  PROVE  RedirectInv(u, o)'
  BY DEF RedirectInv

\* With one of a member's updates, no other is alone.
LEMMA OthersNotAlone ==
  ASSUME NEW u \in User, NEW o \in Org, RedirectInv(u, o),
         NEW g \in Updates(u, o), NEW h \in Updates(u, o), h # g
  PROVE  ~call[h].alone
  BY DEF RedirectInv, Alone

\* The updates after a step on one slot.
LEMMA SlotUpdates ==
  ASSUME TypeOK, NEW g \in Call, NEW c, call' = [call EXCEPT ![g] = c],
         NEW u \in User, NEW o \in Org
  PROVE  /\ Updates(u, o)' = IF c.kind = "update" /\ c.user = u /\ c.org = o
                             THEN Updates(u, o) \union {g} ELSE Updates(u, o) \ {g}
         /\ call'[g] = c
         /\ \A h \in Call \ {g} : call'[h] = call[h]
  BY DEF TypeOK, Updates

\* The updates after a request has ended.
LEMMA SlotFreed ==
  ASSUME TypeOK, NEW g \in Call, call' = [call EXCEPT ![g] = Idle],
         NEW u \in User, NEW o \in Org
  PROVE  /\ Updates(u, o)' = Updates(u, o) \ {g}
         /\ \A h \in Call \ {g} : call'[h] = call[h]
  BY DEF TypeOK, Updates, Idle

\* A step on a slot that neither was nor becomes an update of the member.
LEMMA QuietSlot ==
  ASSUME TypeOK, NEW u \in User, NEW o \in Org, RedirectInv(u, o),
         NEW g \in Call, NEW c, call' = [call EXCEPT ![g] = c],
         g \notin Updates(u, o), ~(c.kind = "update" /\ c.user = u /\ c.org = o),
         Links(u, o)' \subseteq Links(u, o),
         member'[u][o] = member[u][o] \/ member[u][o] = {},
         <<u, o>> \in loose' <=> <<u, o>> \in loose
  PROVE  RedirectInv(u, o)'
<1>1. Updates(u, o)' = Updates(u, o) /\ \A h \in Updates(u, o) : call'[h] = call[h]
  BY SlotUpdates DEF Updates
<1> QED
  BY <1>1, Quiet

\* The updates after a step that disturbs some.
LEMMA AccompaniedUpdates ==
  ASSUME TypeOK, NEW U \in SUBSET Call, \A g \in U : call[g].kind = "update",
         call' = Accompanied(call, U), NEW u \in User, NEW o \in Org
  PROVE  /\ Updates(u, o)' = Updates(u, o)
         /\ \A h \in U : ~call'[h].alone
         /\ \A h \in Call \ U : call'[h] = call[h]
<1>1. call \in [Call -> Calls]
  BY DEF TypeOK
<1>2. /\ \A h \in U : /\ call'[h].alone = FALSE
                      /\ call'[h].kind = "update"
                      /\ call'[h].user = call[h].user
                      /\ call'[h].org = call[h].org
      /\ \A h \in Call \ U : call'[h] = call[h]
  BY <1>1, DisturbedCalls
<1> QED
  BY <1>2 DEF Updates

\* Requests of a single statement.
LEMMA AdminRedirects ==
  ASSUME TypeOK, NEW u \in User, NEW o \in Org, RedirectInv(u, o), admin
  PROVE  RedirectInv(u, o)'
<1>1. ASSUME NEW p \in Org, deleteOrganization(p)
      PROVE  RedirectInv(u, o)'
  <2> DEFINE U == {g \in Call : call[g].kind = "update" /\ call[g].org = p}
  <2>1. /\ call' = Accompanied(call, U)
        /\ U \in SUBSET Call /\ \A g \in U : call[g].kind = "update"
    BY <1>1 DEF deleteOrganization, Accompanied
  <2>2. /\ Updates(u, o)' = Updates(u, o)
        /\ \A h \in U : ~call'[h].alone
        /\ \A h \in Call \ U : call'[h] = call[h]
    <3> HIDE DEF U
    <3> QED
      BY <2>1, AccompaniedUpdates
  <2>3. CASE p = o
    <3>1. <<u, o>> \in loose' /\ Updates(u, o) \subseteq U
      BY <1>1, <2>3 DEF deleteOrganization, Updates
    <3> QED
      BY <2>2, <3>1, Loud
  <2>4. CASE p # o
    <3>1. /\ <<u, o>> \in loose' <=> <<u, o>> \in loose
          /\ member'[u][o] = member[u][o] /\ Links(u, o)' = Links(u, o)
      BY <1>1, <2>4 DEF deleteOrganization, TypeOK, Links
    <3>2. \A h \in Updates(u, o) : call'[h] = call[h]
      BY <2>2, <2>4 DEF Updates
    <3> QED
      BY <2>2, <3>1, <3>2, Quiet
  <2> QED
    BY <2>3, <2>4
<1>2. ASSUME NEW v \in User, NEW p \in Org, removeMember(v, p)
      PROVE  RedirectInv(u, o)'
  <2>1. /\ Updates(u, o)' = Updates(u, o)
        /\ \A h \in Updates(v, p) : ~call'[h].alone
        /\ \A h \in Call \ Updates(v, p) : call'[h] = call[h]
    BY <1>2, DisturbedCallsTyped, AccompaniedUpdates DEF removeMember
  <2>2. CASE v = u /\ p = o
    <3>1. <<u, o>> \in loose'
      BY <1>2, <2>2 DEF removeMember
    <3> QED
      BY <2>1, <2>2, <3>1, Loud
  <2>3. CASE ~(v = u /\ p = o)
    <3>1. /\ <<u, o>> \in loose' <=> <<u, o>> \in loose
          /\ member'[u][o] = member[u][o] /\ Links(u, o)' = Links(u, o)
      BY <1>2, <2>3 DEF removeMember, TypeOK, Links
    <3>2. \A h \in Updates(u, o) : call'[h] = call[h]
      BY <2>1, <2>3 DEF Updates
    <3> QED
      BY <2>1, <3>1, <3>2, Quiet
  <2> QED
    BY <2>2, <2>3
<1>3. ASSUME /\ call' = call /\ redirect' = redirect /\ loose' = loose
             /\ member'[u][o] = member[u][o] \/ member[u][o] = {}
      PROVE  RedirectInv(u, o)'
  <2>1. Updates(u, o)' = Updates(u, o) /\ Links(u, o)' = Links(u, o)
    BY <1>3 DEF Updates, Links
  <2> QED
    BY <1>3, <2>1, Quiet
<1>4. ASSUME NEW v \in User, NEW p \in Org, NEW R, addMember(v, p, R)
      PROVE  member'[u][o] = member[u][o] \/ member[u][o] = {}
  BY <1>4 DEF addMember, TypeOK
<1> QED
  BY <1>1, <1>2, <1>3, <1>4 DEF admin, addMember, createOrgRole, deleteOrgRole, setUserContext, Single,
                              ghosts, Chosen

\* An update that arrives is alone if there is no other.
LEMMA UpdateArrives ==
  ASSUME TypeOK, NEW u \in User, NEW o \in Org, RedirectInv(u, o),
         NEW g \in Call, NEW v \in User, NEW p \in Org, NEW R \in Roles, NEW L \in SUBSET R,
         updateMemberRole(g, v, p, R, L)
  PROVE  RedirectInv(u, o)'
<1> DEFINE new == [kind |-> "update", at |-> "find", user |-> v, org |-> p,
                   links |-> L, no |-> requests + 1, gone |-> {},
                   alone |-> Updates(v, p) = {}]
           U == Updates(v, p)
<1>1. /\ new.kind = "update" /\ new.user = v /\ new.org = p /\ new.links = L /\ new.at = "find"
      /\ new.alone = (U = {})
  OBVIOUS
<1>2. call[g] = Idle /\ \A w \in User, q \in Org : g \notin Updates(w, q)
  BY DEF updateMemberRole, Updates, Idle
<1>3. /\ call'[g] = new
      /\ \A h \in U : ~call'[h].alone /\ call'[h].kind = "update"
                        /\ call'[h].user = call[h].user /\ call'[h].org = call[h].org
      /\ \A h \in Call \ (U \union {g}) : call'[h] = call[h]
  <2>1. call' = [Accompanied(call, U) EXCEPT ![g] = new]
    BY DisturbedCallsTyped DEF updateMemberRole
  <2>2. call \in [Call -> Calls] /\ U \in SUBSET Call /\ \A h \in U : call[h].kind = "update"
    BY DisturbedCallsTyped DEF TypeOK
  <2>3. Accompanied(call, U) \in [Call -> Calls] /\ g \notin U
    BY <1>2, <2>2, DisturbedCalls
  <2>4. call'[g] = new /\ \A h \in Call \ {g} : call'[h] = Accompanied(call, U)[h]
    BY <2>1, <2>3
  <2> HIDE DEF new, U
  <2>5. /\ \A h \in U : /\ Accompanied(call, U)[h].alone = FALSE
                        /\ Accompanied(call, U)[h].kind = "update"
                        /\ Accompanied(call, U)[h].user = call[h].user
                        /\ Accompanied(call, U)[h].org = call[h].org
        /\ \A h \in Call \ U : Accompanied(call, U)[h] = call[h]
    <3> DEFINE A == Accompanied(call, U)
    <3>1. /\ \A h \in U : A[h].alone = FALSE /\ A[h].kind = "update"
          /\ \A h \in U : A[h].user = call[h].user /\ A[h].org = call[h].org
          /\ \A h \in Call \ U : A[h] = call[h]
      <4> HIDE DEF A
      <4> QED
        BY <2>2, DisturbedCalls DEF A
    <3> QED
      BY <3>1
  <2> QED
    BY <2>2, <2>3, <2>4, <2>5
<1>4. /\ Links(u, o)' = Links(u, o)
      /\ member' = [member EXCEPT ![v][p] = R] /\ R # {}
      /\ loose' = IF U = {} THEN loose ELSE loose \union {<<v, p>>}
  <2>1. R # {}
    BY DEF Roles
  <2>2. Links(u, o)' = Links(u, o)
    BY DEF updateMemberRole, Links
  <2> QED
    BY <2>1, <2>2 DEF updateMemberRole
<1> HIDE DEF new, U
<1>5. CASE v = u /\ p = o
  <2>1. Updates(u, o)' = Updates(u, o) \union {g}
    BY <1>1, <1>2, <1>3, <1>5 DEF Updates, U
  <2>2. CASE U = {}
    <3>1. Updates(u, o)' = {g}
      BY <1>5, <2>1, <2>2 DEF U
    <3>2. member'[u][o] = R
      BY <1>4, <1>5 DEF TypeOK
    <3>3. Alone(g, u, o)'
      BY <1>1, <1>3, <1>4, <3>1, <3>2 DEF Alone
    <3> QED
      BY <3>1, <3>3, <1>1, <1>3, <2>2 DEF RedirectInv
  <2>3. CASE U # {}
    <3>1. <<u, o>> \in loose'
      BY <1>4, <1>5, <2>3
    <3>2. \A h \in Updates(u, o)' : ~call'[h].alone
      BY <1>1, <1>3, <1>5, <2>1, <2>3 DEF U
    <3> QED
      BY <3>1, <3>2, Loud
  <2> QED
    BY <2>2, <2>3
<1>6. CASE ~(v = u /\ p = o)
  <2>1. \A h \in Updates(u, o) : h \notin U /\ h # g
    BY <1>2, <1>6 DEF Updates, U
  <2>2. Updates(u, o)' = Updates(u, o) /\ \A h \in Updates(u, o) : call'[h] = call[h]
    BY <1>1, <1>2, <1>3, <1>6, <2>1 DEF Updates, U
  <2>3. member'[u][o] = member[u][o] /\ (<<u, o>> \in loose' <=> <<u, o>> \in loose)
    BY <1>4, <1>6 DEF TypeOK
  <2> QED
    BY <1>4, <2>2, <2>3, Quiet
<1> QED
  BY <1>5, <1>6

\* The other requests that arrive.
LEMMA ArrivalRedirects ==
  ASSUME TypeOK, NEW u \in User, NEW o \in Org, RedirectInv(u, o), NEW g \in Call, arrive(g)
  PROVE  RedirectInv(u, o)'
<1>1. ASSUME NEW c, Start(g, c), c.kind # "update",
             redirect' = redirect, loose' = loose,
             member'[u][o] = member[u][o] \/ member[u][o] = {}
      PROVE  RedirectInv(u, o)'
  <2>1. g \notin Updates(u, o) /\ call' = [call EXCEPT ![g] = c]
    BY <1>1 DEF Start, Updates, Idle
  <2>2. Links(u, o)' = Links(u, o)
    BY <1>1 DEF Links
  <2> QED
    BY <1>1, <2>1, <2>2, QuietSlot
<1>2. ASSUME NEW v \in User, NEW p \in Org, createOrganization(g, v, p)
      PROVE  RedirectInv(u, o)'
  <2>1. member'[u][o] = member[u][o] \/ member[u][o] = {}
    BY <1>2 DEF createOrganization, TypeOK
  <2> QED
    BY <1>1, <1>2, <2>1 DEF createOrganization, ghosts
<1>3. ASSUME NEW p \in Org, NEW r \in Role, NEW P \in Grant, updateOrgRole(g, p, r, P)
      PROVE  RedirectInv(u, o)'
  <2>1. PICK id \in IF Rows(p, {r}) = {} THEN {0} ELSE {row.id : row \in Rows(p, {r})} :
          Start(g, [kind |-> "edit", row |-> NewRow(p, r, P, requests + 1), found |-> id])
    BY <1>3 DEF updateOrgRole
  <2> QED
    BY <1>1, <1>3, <2>1 DEF updateOrgRole, directory, ghosts
<1>4. ASSUME NEW v \in User, signIn(g, v)
      PROVE  RedirectInv(u, o)'
  BY <1>1, <1>4 DEF signIn, directory, ghosts
<1>5. ASSUME NEW v \in User, NEW p \in Org, activeOrganization(g, v, p)
      PROVE  RedirectInv(u, o)'
  BY <1>1, <1>5 DEF activeOrganization, directory, ghosts
<1>6. ASSUME NEW v \in User, NEW p \in OrgOrNone, buildUserContext(g, v, p)
      PROVE  RedirectInv(u, o)'
  <2>1. Build(v, p).kind # "update"
    BY DEF Build
  <2> QED
    BY <1>1, <1>6, <2>1 DEF buildUserContext, directory, ghosts
<1> QED
  BY UpdateArrives, <1>2, <1>3, <1>4, <1>5, <1>6 DEF arrive, OrgOrNone

\* An update of the member goes on to its next statement.
LEMMA UpdateMovesOn ==
  ASSUME TypeOK, NEW u \in User, NEW o \in Org, RedirectInv(u, o),
         NEW g \in Updates(u, o), NEW d, call' = [call EXCEPT ![g] = d],
         d.kind = "update", d.user = u, d.org = o,
         d.alone = call[g].alone, d.links = call[g].links,
         d.at = "create" => Links(u, o) \subseteq d.gone,
         member' = member, redirect' = redirect, loose' = loose
  PROVE  RedirectInv(u, o)'
<1>1. g \in Call /\ Updates(u, o) \subseteq Call
  BY DEF Updates
<1>2. /\ Updates(u, o)' = Updates(u, o)
      /\ call'[g] = d /\ \A h \in Updates(u, o) \ {g} : call'[h] = call[h]
      /\ Links(u, o)' = Links(u, o)
  <2>1. /\ Updates(u, o)' = IF d.kind = "update" /\ d.user = u /\ d.org = o
                            THEN Updates(u, o) \union {g} ELSE Updates(u, o) \ {g}
        /\ call'[g] = d /\ \A h \in Call \ {g} : call'[h] = call[h]
    BY <1>1, SlotUpdates
  <2>2. Links(u, o)' = Links(u, o)
    BY DEF Links
  <2> QED
    BY <1>1, <2>1, <2>2
<1>3. IF d.alone THEN Alone(g, u, o)' ELSE <<u, o>> \in loose'
  BY <1>2 DEF RedirectInv, Alone
<1>4. ASSUME NEW h \in Updates(u, o) \ {g}
      PROVE  ~call'[h].alone /\ <<u, o>> \in loose'
  BY <1>2, <1>4, OthersNotAlone DEF RedirectInv
<1> QED
  BY <1>2, <1>3, <1>4 DEF RedirectInv

\* An update of the member ends, and nothing is claimed of the redirects.
LEMMA UpdateEnds ==
  ASSUME TypeOK, NEW u \in User, NEW o \in Org, RedirectInv(u, o),
         NEW g \in Updates(u, o), call' = [call EXCEPT ![g] = Idle], <<u, o>> \in loose'
  PROVE  RedirectInv(u, o)'
<1>1. g \in Call /\ Updates(u, o) \subseteq Call
  BY DEF Updates
<1>2. Updates(u, o)' = Updates(u, o) \ {g} /\ \A h \in Updates(u, o) \ {g} : call'[h] = call[h]
  BY <1>1, SlotFreed
<1>3. \A h \in Updates(u, o)' : ~call'[h].alone
  BY <1>2, OthersNotAlone
<1> QED
  BY <1>3, Loud

\* The statements of an update.
LEMMA UpdateRedirects ==
  ASSUME TypeOK, NEW u \in User, NEW o \in Org, RedirectInv(u, o), NEW g \in Call,
         findMember(g) \/ deleteRedirects(g) \/ createRedirects(g) \/ createRedirects_refused(g)
  PROVE  RedirectInv(u, o)'
<1> DEFINE c == call[g]
<1>1. c \in RoleUpdates /\ c.kind = "update" /\ c.user \in User /\ c.org \in Org
  <2>1. c.kind = "update"
    BY DEF findMember, deleteRedirects, createRedirects, createRedirects_refused
  <2>2. c \in RoleUpdates
    BY <2>1, KindOf DEF TypeOK
  <2> QED
    BY <2>1, <2>2 DEF RoleUpdates
<1>2. Idle.kind # "update"
  BY DEF Idle
<1>3. /\ \A x : [c EXCEPT !.at = x].kind = "update" /\ [c EXCEPT !.at = x].user = c.user
                  /\ [c EXCEPT !.at = x].org = c.org /\ [c EXCEPT !.at = x].links = c.links
                  /\ [c EXCEPT !.at = x].alone = c.alone /\ [c EXCEPT !.at = x].at = x
      /\ \A x, y : LET d == [c EXCEPT !.at = x, !.gone = y]
                   IN d.kind = "update" /\ d.user = c.user /\ d.org = c.org /\ d.links = c.links
                        /\ d.alone = c.alone /\ d.at = x /\ d.gone = y
  <2> HIDE DEF c
  <2> QED
    BY <1>1 DEF RoleUpdates
<1>4. CASE ~(c.user = u /\ c.org = o)
  <2>1. g \notin Updates(u, o)
    BY <1>4 DEF Updates
  <2>2. PICK d : call' = [call EXCEPT ![g] = d] /\ ~(d.kind = "update" /\ d.user = u /\ d.org = o)
    <3>1. CASE findMember(g)
      <4>1. call' = [call EXCEPT ![g] = Idle] \/ call' = [call EXCEPT ![g] = [c EXCEPT !.at = "delete"]]
        BY <3>1 DEF findMember, Go
      <4>2. ~([c EXCEPT !.at = "delete"].user = u /\ [c EXCEPT !.at = "delete"].org = o)
        BY <1>3, <1>4
      <4> HIDE DEF c
      <4> QED
        BY <4>1, <4>2, <1>2
    <3>2. CASE deleteRedirects(g)
      <4>1. call' = [call EXCEPT ![g] = [c EXCEPT !.at = "create", !.gone = Links(c.user, c.org)]]
        BY <3>2 DEF deleteRedirects, Go
      <4> DEFINE d == [c EXCEPT !.at = "create", !.gone = Links(c.user, c.org)]
      <4>2. ~(d.user = u /\ d.org = o)
        BY <1>3, <1>4
      <4> HIDE DEF c, d
      <4> QED
        BY <4>1, <4>2 DEF d
    <3>3. CASE createRedirects(g) \/ createRedirects_refused(g)
      BY <3>3, <1>2 DEF createRedirects, createRedirects_refused, Go
    <3> QED
      BY <3>1, <3>2, <3>3
  <2>3. Links(u, o)' \subseteq Links(u, o)
    BY <1>4 DEF Links, findMember, deleteRedirects, createRedirects, createRedirects_refused, directory
  <2>4. member' = member /\ (<<u, o>> \in loose' <=> <<u, o>> \in loose)
    BY <1>4 DEF findMember, deleteRedirects, createRedirects, createRedirects_refused, directory, ghosts
  <2> QED
    BY <2>1, <2>2, <2>3, <2>4, QuietSlot
<1>5. CASE c.user = u /\ c.org = o
  <2>1. g \in Updates(u, o)
    BY <1>1, <1>5 DEF Updates
  <2>2. CASE findMember(g)
    <3>1. CASE member[u][o] = {}
      <4>1. <<u, o>> \in loose
        BY <2>1, <3>1 DEF RedirectInv, Alone
      <4> QED
        BY <1>5, <2>1, <2>2, <3>1, <4>1, UpdateEnds DEF findMember, Go, ghosts
    <3>2. CASE member[u][o] # {}
      <4>1. /\ call' = [call EXCEPT ![g] = [c EXCEPT !.at = "delete"]]
            /\ member' = member /\ redirect' = redirect /\ loose' = loose
        BY <1>5, <2>2, <3>2 DEF findMember, Go, directory, ghosts
      <4> DEFINE d == [c EXCEPT !.at = "delete"]
      <4>2. /\ d.kind = "update" /\ d.user = u /\ d.org = o /\ d.alone = call[g].alone
            /\ d.links = call[g].links /\ d.at # "create"
        BY <1>3, <1>5
      <4> HIDE DEF d
      <4> QED
        BY <2>1, <4>1, <4>2, UpdateMovesOn DEF d
    <3> QED
      BY <3>1, <3>2
  <2>3. CASE deleteRedirects(g)
    <3> DEFINE d == [c EXCEPT !.at = "create", !.gone = Links(u, o)]
    <3>1. /\ call' = [call EXCEPT ![g] = d]
          /\ member' = member /\ redirect' = redirect /\ loose' = loose
      BY <1>5, <2>3 DEF deleteRedirects, Go, directory, ghosts
    <3>2. /\ d.kind = "update" /\ d.user = u /\ d.org = o /\ d.alone = call[g].alone
          /\ d.links = call[g].links /\ d.gone = Links(u, o)
      BY <1>3, <1>5
    <3> HIDE DEF d
    <3> QED
      BY <2>1, <3>1, <3>2, UpdateMovesOn
  <2>4. CASE createRedirects(g)
    <3>1. /\ call' = [call EXCEPT ![g] = Idle] /\ member' = member /\ c.at = "create"
          /\ redirect' = (redirect \ c.gone)
                           \union [id : {c.no}, user : {c.user}, org : {c.org}, role : c.links]
          /\ loose' = IF c.alone THEN loose \ {<<c.user, c.org>>} ELSE loose
      BY <2>4 DEF createRedirects, Go
    <3>2. CASE c.alone
      <4>1. Alone(g, u, o)
        BY <2>1, <3>2 DEF RedirectInv
      <4>2. Updates(u, o)' = {}
        <5>1. Updates(u, o)' = Updates(u, o) \ {g}
          BY <3>1, SlotFreed
        <5> QED
          BY <4>1, <5>1 DEF Alone
      <4>3. \A l \in Links(u, o)' : l.role \in c.links
        BY <3>1, <4>1 DEF Links, Alone
      <4>4. {l.role : l \in Links(u, o)'} \subseteq member'[u][o]
        BY <3>1, <4>1, <4>3 DEF Alone
      <4> QED
        BY <4>2, <4>4 DEF RedirectInv
    <3>3. CASE ~c.alone
      BY <2>1, <3>1, <3>3, UpdateEnds DEF RedirectInv
    <3> QED
      BY <3>2, <3>3
  <2>5. CASE createRedirects_refused(g)
    BY <1>5, <2>1, <2>5, UpdateEnds DEF createRedirects_refused, Go
  <2> QED
    BY <2>2, <2>3, <2>4, <2>5
<1> QED
  BY <1>4, <1>5

\* A request that stops, an update with redirects that nothing is claimed of.
LEMMA StopRedirects ==
  ASSUME TypeOK, NEW u \in User, NEW o \in Org, RedirectInv(u, o), NEW g \in Call, stop(g)
  PROVE  RedirectInv(u, o)'
<1>1. /\ call' = [call EXCEPT ![g] = Idle] /\ member' = member /\ redirect' = redirect
      /\ loose' = IF call[g].kind = "update" THEN loose \union {<<call[g].user, call[g].org>>}
                  ELSE loose
  BY DEF stop, directory
<1>2. CASE g \in Updates(u, o)
  BY <1>1, <1>2, UpdateEnds DEF Updates
<1>3. CASE g \notin Updates(u, o)
  <2>1. Links(u, o)' = Links(u, o) /\ Idle.kind # "update"
    BY <1>1 DEF Links, Idle
  <2>2. <<u, o>> \in loose' <=> <<u, o>> \in loose
    BY <1>1, <1>3 DEF Updates
  <2> QED
    BY <1>1, <1>3, <2>1, <2>2, QuietSlot
<1> QED
  BY <1>2, <1>3

\* The statements of the other requests.
LEMMA ContinuationRedirects ==
  ASSUME TypeOK, NEW u \in User, NEW o \in Org, RedirectInv(u, o), NEW g \in Call, continue(g)
  PROVE  RedirectInv(u, o)'
<1>1. ASSUME NEW d, Go(g, d), d.kind # "update", call[g].kind # "update",
             redirect' = redirect, loose' = loose, member' = member
      PROVE  RedirectInv(u, o)'
  <2>1. g \notin Updates(u, o) /\ Links(u, o)' = Links(u, o) /\ call' = [call EXCEPT ![g] = d]
    BY <1>1 DEF Go, Updates, Links
  <2> QED
    BY <1>1, <2>1, QuietSlot
<1>2. CASE afterCreateOrganization(g) \/ writeOrgRole(g) \/ firstSession(g) \/ nextSession(g)
             \/ upsertContext(g) \/ issue(g)
  <2>1. Idle.kind # "update"
    BY DEF Idle
  <2> QED
    BY <1>1, <1>2, <2>1 DEF afterCreateOrganization, writeOrgRole, firstSession, nextSession,
                            upsertContext, issue, Built, Chosen, directory, ghosts
<1>3. CASE OneRead(g)
  <2>1. /\ call[g].kind = "build" /\ call'[g].kind = "build" /\ UNCHANGED <<directory, ghosts>>
    BY <1>3, ReadStep DEF Builds, SameBuild
  <2>2. PICK d : Go(g, d)
    BY <1>3 DEF OneRead, Read, readMember, readRows, readMemberships, readContext, readRole,
                readRedirect
  <2>3. d = call'[g]
    BY <2>2 DEF Go, TypeOK
  <2> QED
    BY <1>1, <2>1, <2>2, <2>3 DEF directory, ghosts
<1> QED
  BY <1>2, <1>3, UpdateRedirects DEF continue, OneRead

\* A step keeps what is known of every member's redirects.
LEMMA RedirectStep ==
  ASSUME TypeOK, Step, NEW u \in User, NEW o \in Org, RedirectInv(u, o)
  PROVE  RedirectInv(u, o)'
  BY AdminRedirects, ArrivalRedirects, ContinuationRedirects, StopRedirects DEF Step

RedirectsInv == \A u \in User, o \in Org : RedirectInv(u, o)

\* The redirects of a member are of roles the member has, unless the last change
\* of roles failed to persist them, overlapped another one, or was followed by
\* the member's removal; the next change on its own repairs that.
THEOREM RedirectsFollow == Spec => []RedirectsFollowRoles
<1>1. Init => RedirectsInv
  BY DEF Init, RedirectsInv, RedirectInv, Links, Updates, Idle
<1>2. TypeOK /\ RedirectsInv /\ [Next]_vars => RedirectsInv'
  <2>1. ASSUME UNCHANGED vars, RedirectsInv PROVE RedirectsInv'
    <3>1. ASSUME NEW u \in User, NEW o \in Org PROVE RedirectInv(u, o)'
      <4>1. Updates(u, o)' = Updates(u, o) /\ Links(u, o)' = Links(u, o)
        BY <2>1 DEF vars, directory, Updates, Links
      <4> QED
        BY <2>1, <4>1, Quiet DEF RedirectsInv, vars, directory, ghosts
    <3> QED
      BY <3>1 DEF RedirectsInv
  <2>2. ASSUME TypeOK, RedirectsInv, Step PROVE RedirectsInv'
    BY <2>2, RedirectStep DEF RedirectsInv
  <2> QED
    BY <2>1, <2>2 DEF Next
<1>3. RedirectsInv => RedirectsFollowRoles
  BY DEF RedirectsInv, RedirectInv, RedirectsFollowRoles
<1> QED
  BY <1>1, <1>2, <1>3, TypeCorrect, PTL DEF Spec

=============================================================================

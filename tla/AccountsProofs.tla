----------------------------- MODULE AccountsProofs -----------------------------
(***************************************************************************)
(* The account database and the admin screens, for every set of users,     *)
(* channels, groups and screens: whatever the screens send and wherever    *)
(* the server stops, an admin remains, rows refer to rows that exist, and  *)
(* a screen shows every grant it would save.                               *)
(***************************************************************************)
EXTENDS AdminConsole, TLAPS, FiniteSetTheorems

-----------------------------------------------------------------------------
(* Tables *)

Table(K, R) == UNION {[S -> R] : S \in SUBSET K}

LEMMA TableParts ==
  ASSUME NEW K, NEW R, NEW f \in Table(K, R)
  PROVE  /\ DOMAIN f \subseteq K /\ f = [k \in DOMAIN f |-> f[k]]
         /\ \A k \in DOMAIN f : f[k] \in R
<1>1. PICK S \in SUBSET K : f \in [S -> R]
  BY DEF Table
<1> QED BY <1>1

LEMMA TableMade ==
  ASSUME NEW K, NEW R, NEW f, f = [k \in DOMAIN f |-> f[k]],
         DOMAIN f \subseteq K, \A k \in DOMAIN f : f[k] \in R
  PROVE  f \in Table(K, R)
<1>1. f \in [DOMAIN f -> R]
  OBVIOUS
<1> QED BY <1>1 DEF Table

LEMMA WithTable ==
  ASSUME NEW K, NEW R, NEW f \in Table(K, R), NEW id \in K, NEW row \in R
  PROVE  With(f, id, row) \in Table(K, R)
<1>1. DOMAIN f \subseteq K /\ \A k \in DOMAIN f : f[k] \in R
  BY TableParts
<1>2. With(f, id, row) \in [DOMAIN f \cup {id} -> R]
  BY <1>1 DEF With
<1>3. DOMAIN f \cup {id} \in SUBSET K
  BY <1>1
<1> QED BY <1>2, <1>3 DEF Table

LEMMA WithoutTable ==
  ASSUME NEW K, NEW R, NEW f \in Table(K, R), NEW id
  PROVE  Without(f, id) \in Table(K, R)
<1>1. DOMAIN f \subseteq K /\ \A k \in DOMAIN f : f[k] \in R
  BY TableParts
<1>2. Without(f, id) \in [DOMAIN f \ {id} -> R]
  BY <1>1 DEF Without, Restrict
<1>3. DOMAIN f \ {id} \in SUBSET K
  BY <1>1
<1> QED BY <1>2, <1>3 DEF Table

LEMMA EmptyTable == ASSUME NEW K, NEW R PROVE <<>> \in Table(K, R)
<1>1. <<>> \in [{} -> R]
  OBVIOUS
<1> QED BY <1>1 DEF Table

\* The tables as a record of tables.
TableTypes ==
  [users : Table(Users, UserRows), channels : Table(ChannelIds, ChannelNames),
   groups : Table(Groups, GroupNames), grants : SUBSET (Users \X ChannelIds),
   members : SUBSET (Users \X Groups), bundles : SUBSET (Groups \X ChannelIds)]

LEMMA TablesTyped == Tables = TableTypes
BY DEF Tables, TableTypes, Table

LEMMA TablesParts ==
  ASSUME NEW d \in Tables
  PROVE  /\ d.users \in Table(Users, UserRows) /\ d.channels \in Table(ChannelIds, ChannelNames)
         /\ d.groups \in Table(Groups, GroupNames) /\ d.grants \in SUBSET (Users \X ChannelIds)
         /\ d.members \in SUBSET (Users \X Groups) /\ d.bundles \in SUBSET (Groups \X ChannelIds)
BY TablesTyped DEF TableTypes

LEMMA TablesKeys ==
  ASSUME NEW d \in Tables
  PROVE  /\ DOMAIN d.users \subseteq Users /\ DOMAIN d.channels \subseteq ChannelIds
         /\ DOMAIN d.groups \subseteq Groups
         /\ \A u \in DOMAIN d.users : d.users[u] \in UserRows
         /\ \A c \in DOMAIN d.channels : d.channels[c] \in ChannelNames
         /\ \A g \in DOMAIN d.groups : d.groups[g] \in GroupNames
BY TablesParts, TableParts

Within(R, A, B) == R \subseteq A \X B

LEMMA WithinMore ==
  ASSUME NEW R, NEW A, NEW B, NEW C, NEW D, Within(R, A, B), A \subseteq C, B \subseteq D
  PROVE  Within(R, C, D)
BY DEF Within

LEMMA WithinRelinked ==
  ASSUME NEW R, NEW A, NEW B, NEW id, NEW S, Within(R, A, B), id \in A, S \subseteq B
  PROVE  Within(Relinked(R, id, S), A, B)
BY DEF Within, Relinked

LEMMA WithinCut ==
  ASSUME NEW R, NEW A, NEW B, NEW id, Within(R, A, B)
  PROVE  Within(Relinked(R, id, {}), A \ {id}, B)
BY DEF Within, Relinked

LEMMA WithinUnlinked ==
  ASSUME NEW R, NEW A, NEW B, NEW id, Within(R, A, B)
  PROVE  Within(Unlinked(R, id), A, B \ {id})
BY DEF Within, Unlinked

LEMMA RefersWithin ==
  ASSUME NEW d
  PROVE  Refers(d) <=> /\ Within(d.grants, DOMAIN d.users, DOMAIN d.channels)
                       /\ Within(d.members, DOMAIN d.users, DOMAIN d.groups)
                       /\ Within(d.bundles, DOMAIN d.groups, DOMAIN d.channels)
BY DEF Refers, Within

-----------------------------------------------------------------------------
(* The statements of the database *)

\* Tables a handler may start from and leave behind, with ids given out so far.
Fine(d, ids) ==
  /\ d \in Tables /\ NamesDiffer(d) /\ Refers(d) /\ IsFiniteSet(DOMAIN d.channels)
  /\ DOMAIN d.users \cup DOMAIN d.groups \subseteq ids

LEMMA FineMore ==
  ASSUME NEW d, NEW ids, NEW more, Fine(d, ids), ids \subseteq more PROVE Fine(d, more)
BY DEF Fine

LEMMA StoredRow ==
  ASSUME NEW d, d \in Tables, NEW id, NEW row, NEW e, e = StoreUser(d, id, row)
  PROVE  /\ DOMAIN e.users = DOMAIN d.users \cup {id} /\ e.channels = d.channels /\ e.groups = d.groups
         /\ Admins(e) \ {id} = Admins(d) \ {id} /\ (id \in Admins(e) <=> row.role = "admin")
<1>1. e = [d EXCEPT !.users = With(@, id, row)] /\ d \in TableTypes
  BY TablesTyped DEF StoreUser
<1>2. e.users = With(d.users, id, row) /\ e.channels = d.channels /\ e.groups = d.groups
  BY <1>1 DEF TableTypes
<1>3. /\ DOMAIN e.users = DOMAIN d.users \cup {id}
      /\ \A u \in DOMAIN e.users : e.users[u] = IF u = id THEN row ELSE d.users[u]
  BY <1>2 DEF With
<1> QED BY <1>2, <1>3 DEF Admins

LEMMA StoredUser ==
  ASSUME NEW d, NEW ids, Fine(d, ids), NEW id \in Users, NEW row \in UserRows,
         NamedUsers(d, row.name) \subseteq {id}, NEW e, e = StoreUser(d, id, row)
  PROVE  Fine(e, ids \cup {id})
<1>1. e = [d EXCEPT !.users = With(@, id, row)] /\ d \in TableTypes
  BY TablesTyped DEF StoreUser, Fine
<1>2. /\ e.users = With(d.users, id, row) /\ e.channels = d.channels /\ e.groups = d.groups
      /\ e.grants = d.grants /\ e.members = d.members /\ e.bundles = d.bundles
  BY <1>1 DEF TableTypes
<1>3. /\ DOMAIN e.users = DOMAIN d.users \cup {id}
      /\ \A u \in DOMAIN e.users : e.users[u] = IF u = id THEN row ELSE d.users[u]
  BY <1>2 DEF With
<1>4. e \in Tables
  <2>1. With(d.users, id, row) \in Table(Users, UserRows)
    BY <1>1, WithTable DEF TableTypes
  <2> QED BY <1>1, <2>1, TablesTyped DEF TableTypes
<1>5. NamesDiffer(e)
  BY <1>2, <1>3 DEF Fine, NamesDiffer, NamedUsers
<1>6. Refers(e)
  BY <1>2, <1>3, RefersWithin, WithinMore DEF Fine
<1> QED BY <1>2, <1>3, <1>4, <1>5, <1>6 DEF Fine

LEMMA StoredChannel ==
  ASSUME NEW d, NEW ids, Fine(d, ids), NEW id \in ChannelIds, NEW name \in ChannelNames,
         NEW e, e = StoreChannel(d, id, name)
  PROVE  /\ Fine(e, ids) /\ e.users = d.users /\ Admins(e) = Admins(d)
         /\ DOMAIN e.channels = DOMAIN d.channels \cup {id}
<1>1. e = [d EXCEPT !.channels = With(@, id, name)] /\ d \in TableTypes
  BY TablesTyped DEF StoreChannel, Fine
<1>2. /\ e.channels = With(d.channels, id, name) /\ e.users = d.users /\ e.groups = d.groups
      /\ e.grants = d.grants /\ e.members = d.members /\ e.bundles = d.bundles
  BY <1>1 DEF TableTypes
<1>3. DOMAIN e.channels = DOMAIN d.channels \cup {id}
  BY <1>2 DEF With
<1>4. e \in Tables
  <2>1. With(d.channels, id, name) \in Table(ChannelIds, ChannelNames)
    BY <1>1, WithTable DEF TableTypes
  <2> QED BY <1>1, <2>1, TablesTyped DEF TableTypes
<1>5. NamesDiffer(e)
  BY <1>2 DEF Fine, NamesDiffer
<1>6. Refers(e)
  BY <1>2, <1>3, RefersWithin, WithinMore DEF Fine
<1>7. IsFiniteSet(DOMAIN e.channels)
  BY <1>3, FS_AddElement DEF Fine
<1> QED BY <1>2, <1>3, <1>4, <1>5, <1>6, <1>7 DEF Fine, Admins

LEMMA StoredGroup ==
  ASSUME NEW d, NEW ids, Fine(d, ids), NEW id \in Groups, NEW name \in GroupNames,
         NamedGroups(d, name) \subseteq {id}, NEW e, e = StoreGroup(d, id, name)
  PROVE  /\ Fine(e, ids \cup {id}) /\ e.channels = d.channels
         /\ DOMAIN e.groups = DOMAIN d.groups \cup {id} /\ Admins(e) = Admins(d)
<1>1. e = [d EXCEPT !.groups = With(@, id, name)] /\ d \in TableTypes
  BY TablesTyped DEF StoreGroup, Fine
<1>2. /\ e.groups = With(d.groups, id, name) /\ e.users = d.users /\ e.channels = d.channels
      /\ e.grants = d.grants /\ e.members = d.members /\ e.bundles = d.bundles
  BY <1>1 DEF TableTypes
<1>3. /\ DOMAIN e.groups = DOMAIN d.groups \cup {id}
      /\ \A g \in DOMAIN e.groups : e.groups[g] = IF g = id THEN name ELSE d.groups[g]
  BY <1>2 DEF With
<1>4. e \in Tables
  <2>1. With(d.groups, id, name) \in Table(Groups, GroupNames)
    BY <1>1, WithTable DEF TableTypes
  <2> QED BY <1>1, <2>1, TablesTyped DEF TableTypes
<1>5. NamesDiffer(e)
  BY <1>2, <1>3 DEF Fine, NamesDiffer, NamedGroups
<1>6. Refers(e)
  BY <1>2, <1>3, RefersWithin, WithinMore DEF Fine
<1> QED BY <1>2, <1>3, <1>4, <1>5, <1>6 DEF Fine, Admins

\* Replacing the grants, memberships or bundles of a row by ones the tables know
LEMMA GrantsSet ==
  ASSUME NEW d, NEW ids, Fine(d, ids), NEW u \in DOMAIN d.users,
         NEW channels \in SUBSET (DOMAIN d.channels), NEW e, e = SetGrants(d, u, channels)
  PROVE  /\ Fine(e, ids) /\ e.users = d.users /\ e.channels = d.channels /\ e.groups = d.groups
         /\ Admins(e) = Admins(d)
<1>1. e = [d EXCEPT !.grants = Relinked(@, u, channels)] /\ d \in TableTypes
  BY TablesTyped DEF SetGrants, Fine
<1>2. /\ e.grants = Relinked(d.grants, u, channels) /\ e.users = d.users /\ e.groups = d.groups
      /\ e.channels = d.channels /\ e.members = d.members /\ e.bundles = d.bundles
  BY <1>1 DEF TableTypes
<1>3. Within(e.grants, DOMAIN d.users, DOMAIN d.channels)
  BY <1>2, RefersWithin, WithinRelinked DEF Fine
<1>4. DOMAIN d.users \subseteq Users /\ DOMAIN d.channels \subseteq ChannelIds
  BY TablesKeys DEF Fine
<1>5. e.grants \in SUBSET (Users \X ChannelIds)
  BY <1>3, <1>4, WithinMore DEF Within
<1>6. e \in Tables
  BY <1>1, <1>2, <1>5, TablesTyped DEF TableTypes
<1> QED BY <1>2, <1>3, <1>6, RefersWithin DEF Fine, NamesDiffer, Admins

LEMMA MembersSet ==
  ASSUME NEW d, NEW ids, Fine(d, ids), NEW u \in DOMAIN d.users,
         NEW groups \in SUBSET (DOMAIN d.groups), NEW e, e = SetMembers(d, u, groups)
  PROVE  /\ Fine(e, ids) /\ e.users = d.users /\ Admins(e) = Admins(d)
<1>1. e = [d EXCEPT !.members = Relinked(@, u, groups)] /\ d \in TableTypes
  BY TablesTyped DEF SetMembers, Fine
<1>2. /\ e.members = Relinked(d.members, u, groups) /\ e.users = d.users /\ e.groups = d.groups
      /\ e.channels = d.channels /\ e.grants = d.grants /\ e.bundles = d.bundles
  BY <1>1 DEF TableTypes
<1>3. Within(e.members, DOMAIN d.users, DOMAIN d.groups)
  BY <1>2, RefersWithin, WithinRelinked DEF Fine
<1>4. DOMAIN d.users \subseteq Users /\ DOMAIN d.groups \subseteq Groups
  BY TablesKeys DEF Fine
<1>5. e.members \in SUBSET (Users \X Groups)
  BY <1>3, <1>4, WithinMore DEF Within
<1>6. e \in Tables
  BY <1>1, <1>2, <1>5, TablesTyped DEF TableTypes
<1> QED BY <1>2, <1>3, <1>6, RefersWithin DEF Fine, NamesDiffer, Admins

LEMMA BundlesSet ==
  ASSUME NEW d, NEW ids, Fine(d, ids), NEW g \in DOMAIN d.groups,
         NEW channels \in SUBSET (DOMAIN d.channels), NEW e, e = SetBundles(d, g, channels)
  PROVE  /\ Fine(e, ids) /\ e.groups = d.groups /\ Admins(e) = Admins(d)
<1>1. e = [d EXCEPT !.bundles = Relinked(@, g, channels)] /\ d \in TableTypes
  BY TablesTyped DEF SetBundles, Fine
<1>2. /\ e.bundles = Relinked(d.bundles, g, channels) /\ e.users = d.users /\ e.groups = d.groups
      /\ e.channels = d.channels /\ e.grants = d.grants /\ e.members = d.members
  BY <1>1 DEF TableTypes
<1>3. Within(e.bundles, DOMAIN d.groups, DOMAIN d.channels)
  BY <1>2, RefersWithin, WithinRelinked DEF Fine
<1>4. DOMAIN d.groups \subseteq Groups /\ DOMAIN d.channels \subseteq ChannelIds
  BY TablesKeys DEF Fine
<1>5. e.bundles \in SUBSET (Groups \X ChannelIds)
  BY <1>3, <1>4, WithinMore DEF Within
<1>6. e \in Tables
  BY <1>1, <1>2, <1>5, TablesTyped DEF TableTypes
<1> QED BY <1>2, <1>3, <1>6, RefersWithin DEF Fine, NamesDiffer, Admins

\* A row that goes takes the rows that refer to it along.
LEMMA UserRemoved ==
  ASSUME NEW d, NEW ids, Fine(d, ids), NEW id, NEW e, e = RemoveUser(d, id)
  PROVE  /\ Fine(e, ids) /\ Admins(e) = Admins(d) \ {id}
<1>1. /\ e = [d EXCEPT !.users = Without(@, id), !.grants = Relinked(@, id, {}),
                       !.members = Relinked(@, id, {})]
      /\ d \in TableTypes
  BY TablesTyped DEF RemoveUser, Fine
<1>2. /\ e.users = Without(d.users, id) /\ e.grants = Relinked(d.grants, id, {})
      /\ e.members = Relinked(d.members, id, {})
      /\ e.channels = d.channels /\ e.groups = d.groups /\ e.bundles = d.bundles
  BY <1>1 DEF TableTypes
<1>3. /\ DOMAIN e.users = DOMAIN d.users \ {id}
      /\ \A u \in DOMAIN e.users : e.users[u] = d.users[u]
  BY <1>2 DEF Without, Restrict
<1>4. Refers(e)
  <2>1. Within(e.grants, DOMAIN e.users, DOMAIN e.channels)
    <3>1. Within(d.grants, DOMAIN d.users, DOMAIN d.channels)
      BY RefersWithin DEF Fine
    <3> QED BY <1>2, <1>3, <3>1, WithinCut
  <2>2. Within(e.members, DOMAIN e.users, DOMAIN e.groups)
    <3>1. Within(d.members, DOMAIN d.users, DOMAIN d.groups)
      BY RefersWithin DEF Fine
    <3> QED BY <1>2, <1>3, <3>1, WithinCut
  <2>3. Within(e.bundles, DOMAIN e.groups, DOMAIN e.channels)
    <3>1. Within(d.bundles, DOMAIN d.groups, DOMAIN d.channels)
      BY RefersWithin DEF Fine
    <3> QED BY <1>2, <1>3, <3>1
  <2> QED BY <2>1, <2>2, <2>3, RefersWithin
<1>5. e \in Tables
  <2>1. e.users \in Table(Users, UserRows)
    BY <1>1, <1>2, WithoutTable DEF TableTypes
  <2>2. e.grants \in SUBSET (Users \X ChannelIds) /\ e.members \in SUBSET (Users \X Groups)
    BY <1>1, <1>2 DEF TableTypes, Relinked
  <2> QED BY <1>1, <1>2, <2>1, <2>2, TablesTyped DEF TableTypes
<1> QED BY <1>2, <1>3, <1>4, <1>5 DEF Fine, NamesDiffer, Admins

LEMMA ChannelRemoved ==
  ASSUME NEW d, NEW ids, Fine(d, ids), NEW id, NEW e, e = RemoveChannel(d, id)
  PROVE  /\ Fine(e, ids) /\ Admins(e) = Admins(d)
<1>1. /\ e = [d EXCEPT !.channels = Without(@, id), !.grants = Unlinked(@, id),
                       !.bundles = Unlinked(@, id)]
      /\ d \in TableTypes
  BY TablesTyped DEF RemoveChannel, Fine
<1>2. /\ e.channels = Without(d.channels, id) /\ e.grants = Unlinked(d.grants, id)
      /\ e.bundles = Unlinked(d.bundles, id)
      /\ e.users = d.users /\ e.groups = d.groups /\ e.members = d.members
  BY <1>1 DEF TableTypes
<1>3. DOMAIN e.channels = DOMAIN d.channels \ {id}
  BY <1>2 DEF Without, Restrict
<1>4. Refers(e)
  <2>1. Within(e.grants, DOMAIN e.users, DOMAIN e.channels)
    <3>1. Within(d.grants, DOMAIN d.users, DOMAIN d.channels)
      BY RefersWithin DEF Fine
    <3> QED BY <1>2, <1>3, <3>1, WithinUnlinked
  <2>2. Within(e.members, DOMAIN e.users, DOMAIN e.groups)
    <3>1. Within(d.members, DOMAIN d.users, DOMAIN d.groups)
      BY RefersWithin DEF Fine
    <3> QED BY <1>2, <1>3, <3>1
  <2>3. Within(e.bundles, DOMAIN e.groups, DOMAIN e.channels)
    <3>1. Within(d.bundles, DOMAIN d.groups, DOMAIN d.channels)
      BY RefersWithin DEF Fine
    <3> QED BY <1>2, <1>3, <3>1, WithinUnlinked
  <2> QED BY <2>1, <2>2, <2>3, RefersWithin
<1>5. e \in Tables
  <2>1. e.channels \in Table(ChannelIds, ChannelNames)
    BY <1>1, <1>2, WithoutTable DEF TableTypes
  <2>2. e.grants \in SUBSET (Users \X ChannelIds) /\ e.bundles \in SUBSET (Groups \X ChannelIds)
    BY <1>1, <1>2 DEF TableTypes, Unlinked
  <2> QED BY <1>1, <1>2, <2>1, <2>2, TablesTyped DEF TableTypes
<1>6. IsFiniteSet(DOMAIN e.channels)
  BY <1>3, FS_RemoveElement DEF Fine
<1> QED BY <1>2, <1>3, <1>4, <1>5, <1>6 DEF Fine, NamesDiffer, Admins

LEMMA GroupRemoved ==
  ASSUME NEW d, NEW ids, Fine(d, ids), NEW id, NEW e, e = RemoveGroup(d, id)
  PROVE  /\ Fine(e, ids) /\ Admins(e) = Admins(d)
<1>1. /\ e = [d EXCEPT !.groups = Without(@, id), !.members = Unlinked(@, id),
                       !.bundles = Relinked(@, id, {})]
      /\ d \in TableTypes
  BY TablesTyped DEF RemoveGroup, Fine
<1>2. /\ e.groups = Without(d.groups, id) /\ e.members = Unlinked(d.members, id)
      /\ e.bundles = Relinked(d.bundles, id, {})
      /\ e.users = d.users /\ e.channels = d.channels /\ e.grants = d.grants
  BY <1>1 DEF TableTypes
<1>3. /\ DOMAIN e.groups = DOMAIN d.groups \ {id}
      /\ \A g \in DOMAIN e.groups : e.groups[g] = d.groups[g]
  BY <1>2 DEF Without, Restrict
<1>4. Refers(e)
  <2>1. Within(e.grants, DOMAIN e.users, DOMAIN e.channels)
    <3>1. Within(d.grants, DOMAIN d.users, DOMAIN d.channels)
      BY RefersWithin DEF Fine
    <3> QED BY <1>2, <1>3, <3>1
  <2>2. Within(e.members, DOMAIN e.users, DOMAIN e.groups)
    <3>1. Within(d.members, DOMAIN d.users, DOMAIN d.groups)
      BY RefersWithin DEF Fine
    <3> QED BY <1>2, <1>3, <3>1, WithinUnlinked
  <2>3. Within(e.bundles, DOMAIN e.groups, DOMAIN e.channels)
    <3>1. Within(d.bundles, DOMAIN d.groups, DOMAIN d.channels)
      BY RefersWithin DEF Fine
    <3> QED BY <1>2, <1>3, <3>1, WithinCut
  <2> QED BY <2>1, <2>2, <2>3, RefersWithin
<1>5. e \in Tables
  <2>1. e.groups \in Table(Groups, GroupNames)
    BY <1>1, <1>2, WithoutTable DEF TableTypes
  <2>2. e.members \in SUBSET (Users \X Groups) /\ e.bundles \in SUBSET (Groups \X ChannelIds)
    BY <1>1, <1>2 DEF TableTypes, Relinked, Unlinked
  <2> QED BY <1>1, <1>2, <2>1, <2>2, TablesTyped DEF TableTypes
<1> QED BY <1>2, <1>3, <1>4, <1>5 DEF Fine, NamesDiffer, Admins

-----------------------------------------------------------------------------
(* The handlers *)

\* Tables with an admin, and a result each image of which is one of them.
Manned(d, ids) == Fine(d, ids) /\ Admins(d) # {}
Kept(r, ids) ==
  /\ Len(r.images) \in DOMAIN r.images
  /\ \A i \in DOMAIN r.images : Manned(r.images[i], ids)

LEMMA FinalKept == ASSUME NEW r, NEW ids, Kept(r, ids) PROVE Manned(Final(r), ids)
BY DEF Kept, Final

LEMMA OneImage ==
  ASSUME NEW ids, NEW code, NEW d, Manned(d, ids), NEW r, r = Done(code, <<d>>)
  PROVE  Kept(r, ids) /\ Final(r) = d /\ r.code = code
BY DEF Done, Kept, Final

LEMMA Refusal ==
  ASSUME NEW ids, NEW code, NEW d, Manned(d, ids), NEW r, r = Refused(d, code)
  PROVE  Kept(r, ids) /\ Final(r) = d /\ r.code = code
BY DEF Refused, Kept, Final

LEMMA TwoImages ==
  ASSUME NEW ids, NEW code, NEW d, Manned(d, ids), NEW e, Manned(e, ids),
         NEW r, r = Done(code, <<d, e>>)
  PROVE  Kept(r, ids) /\ Final(r) = e /\ r.code = code
<1>1. r.images = <<d, e>> /\ r.code = code
  BY DEF Done
<1>2. Len(r.images) = 2 /\ DOMAIN r.images = 1..2 /\ r.images[1] = d /\ r.images[2] = e
  BY <1>1
<1>3. \A i \in 1..2 : i = 1 \/ i = 2
  OBVIOUS
<1> QED BY <1>1, <1>2, <1>3 DEF Kept, Final

LEMMA ThreeImages ==
  ASSUME NEW ids, NEW code, NEW d, Manned(d, ids), NEW e, Manned(e, ids), NEW f, Manned(f, ids),
         NEW r, r = Done(code, <<d, e, f>>)
  PROVE  Kept(r, ids) /\ Final(r) = f /\ r.code = code
<1>1. r.images = <<d, e, f>> /\ r.code = code
  BY DEF Done
<1>2. /\ Len(r.images) = 3 /\ DOMAIN r.images = 1..3
      /\ r.images[1] = d /\ r.images[2] = e /\ r.images[3] = f
  BY <1>1
<1>3. \A i \in 1..3 : Manned(r.images[i], ids)
  <2> SUFFICES ASSUME NEW i \in 1..3 PROVE Manned(r.images[i], ids)
    OBVIOUS
  <2>1. i = 1 \/ i = 2 \/ i = 3
    OBVIOUS
  <2> QED BY <1>2, <2>1
<1> QED BY <1>1, <1>2, <1>3 DEF Kept, Final

\* Whatever a foreign key does to the assignments, the user stays.
LEMMA AssignedKept ==
  ASSUME NEW ids, NEW code, NEW d, Manned(d, ids), NEW u \in DOMAIN d.users,
         NEW channels, NEW groups, NEW r, r = Assigned(code, d, u, channels, groups)
  PROVE  /\ Kept(r, ids) /\ r.code \in {code, 500}
         /\ u \in DOMAIN Final(r).users /\ Final(r).users = d.users
<1> DEFINE e == SetGrants(d, u, channels)
           f == SetMembers(e, u, groups)
<1>1. CASE ~(channels \subseteq DOMAIN d.channels)
  <2>1. r = Done(500, <<d>>)
    BY <1>1 DEF Assigned
  <2> QED BY <2>1, OneImage
<1>2. CASE channels \subseteq DOMAIN d.channels /\ ~(groups \subseteq DOMAIN d.groups)
  <2>1. r = Done(500, <<d, e>>)
    BY <1>2 DEF Assigned
  <2>2. Manned(e, ids) /\ e.users = d.users
    BY <1>2, GrantsSet DEF Manned
  <2> QED BY <2>1, <2>2, TwoImages
<1>3. CASE channels \subseteq DOMAIN d.channels /\ groups \subseteq DOMAIN d.groups
  <2>1. r = Done(code, <<d, e, f>>)
    BY <1>3 DEF Assigned
  <2>2. Manned(e, ids) /\ e.users = d.users /\ e.groups = d.groups
    BY <1>3, GrantsSet DEF Manned
  <2>3. Manned(f, ids) /\ f.users = d.users
    BY <1>3, <2>2, MembersSet DEF Manned
  <2> QED BY <2>1, <2>2, <2>3, ThreeImages
<1> QED BY <1>1, <1>2, <1>3

LEMMA BundledKept ==
  ASSUME NEW ids, NEW code, NEW d, Manned(d, ids), NEW g \in DOMAIN d.groups,
         NEW channels, NEW r, r = Bundled(code, d, g, channels)
  PROVE  Kept(r, ids) /\ r.code \in {code, 500} /\ g \in DOMAIN Final(r).groups
<1> DEFINE e == SetBundles(d, g, channels)
<1>1. CASE channels \subseteq DOMAIN d.channels
  <2>1. r = Done(code, <<d, e>>)
    BY <1>1 DEF Bundled
  <2>2. Manned(e, ids) /\ e.groups = d.groups
    BY <1>1, BundlesSet DEF Manned
  <2> QED BY <2>1, <2>2, TwoImages
<1>2. CASE ~(channels \subseteq DOMAIN d.channels)
  <2>1. r = Done(500, <<d>>)
    BY <1>2 DEF Bundled
  <2> QED BY <2>1, OneImage
<1> QED BY <1>1, <1>2

\* The first admin, when there is none
LEMMA SetupKept ==
  ASSUME NEW ids, NEW d, Fine(d, ids), NEW id \in Users \ ids, NEW name \in UserNames,
         DOMAIN d.users = {}, NEW r, r = SetupAdmin(d, id, name)
  PROVE  Kept(r, ids \cup {id}) /\ r.code = 201
<1> DEFINE row == [name |-> name, role |-> "admin"]
           born == StoreUser(d, id, row)
           e == SetGrants(born, id, DOMAIN d.channels)
<1>1. row \in UserRows /\ row.name = name /\ row.role = "admin"
  BY AccountsAssumption DEF UserRows
<1>2. /\ Manned(born, ids \cup {id}) /\ id \in DOMAIN born.users
      /\ born.channels = d.channels
  <2>1. NamedUsers(d, row.name) \subseteq {id}
    BY DEF NamedUsers
  <2> HIDE DEF row
  <2>2. Fine(born, ids \cup {id})
    BY <1>1, <2>1, StoredUser
  <2>3. DOMAIN born.users = DOMAIN d.users \cup {id} /\ born.channels = d.channels /\ id \in Admins(born)
    BY <1>1, StoredRow DEF Fine
  <2> HIDE DEF born
  <2> QED BY <2>2, <2>3 DEF Manned
<1>3. Manned(e, ids \cup {id})
  <2> HIDE DEF born
  <2> QED BY <1>2, GrantsSet DEF Manned
<1>4. r = Done(201, <<born, e>>)
  BY DEF SetupAdmin, Admins
<1> HIDE DEF born, e
<1> QED BY <1>2, <1>3, <1>4, TwoImages

-----------------------------------------------------------------------------
(* The suffix of a new channel's id *)

\* A set of numbers has a least one: among the intervals that end in it there is
\* one that contains no other, since they are finite.
LEMMA LeastNumber ==
  ASSUME NEW F \in SUBSET Nat, F # {}
  PROVE  \E k \in F : \A j \in F : k <= j
<1> DEFINE T == {1..k : k \in F}
<1>1. T \subseteq FiniteSubsetsOf(Nat) /\ T # {}
  <2>1. ASSUME NEW k \in F PROVE 1..k \in SUBSET Nat /\ IsFiniteSet(1..k)
    BY FS_Interval
  <2> QED BY <2>1 DEF FiniteSubsetsOf
<1>2. PICK X \in T : \A Y \in T : ~(<<Y, X>> \in StrictSubsetOrdering(Nat))
  BY <1>1, FS_StrictSubsetOrderingWellFounded, WFMin
<1>3. PICK k \in F : X = 1..k
  BY <1>2
<1>4. ASSUME NEW j \in F, j < k PROVE FALSE
  <2>1. 1..j \in T /\ 1..j \subseteq 1..k /\ k \in 1..k /\ k \notin 1..j
    BY <1>4
  <2>2. 1..j \in SUBSET Nat /\ 1..k \in SUBSET Nat /\ 1..j # 1..k
    BY <2>1
  <2>3. <<1..j, X>> \in StrictSubsetOrdering(Nat)
    BY <1>3, <2>1, <2>2 DEF StrictSubsetOrdering
  <2> QED BY <1>2, <2>1, <2>3
<1>5. ASSUME NEW j \in F PROVE k <= j
  <2>1. j \in Nat /\ k \in Nat /\ ~(j < k)
    BY <1>4
  <2> QED BY <2>1
<1> HIDE DEF T
<1> QED BY <1>5

\* Below the limit there is a free suffix.
LEMMA FreeSuffix ==
  ASSUME NEW d, IsFiniteSet(DOMAIN d.channels),
         Cardinality(DOMAIN d.channels) < MaxChannels, NEW name
  PROVE  \E k \in 1..MaxChannels + 1 : <<name, k>> \notin DOMAIN d.channels
<1> SUFFICES ASSUME \A k \in 1..MaxChannels + 1 : <<name, k>> \in DOMAIN d.channels PROVE FALSE
  OBVIOUS
<1> DEFINE f == [k \in 1..MaxChannels + 1 |-> <<name, k>>]
<1>1. f \in Injection(1..MaxChannels + 1, DOMAIN d.channels)
  BY DEF Injection, IsInjective
<1>2. Cardinality(1..MaxChannels + 1) <= Cardinality(DOMAIN d.channels)
  BY <1>1, FS_Injection
<1>3. MaxChannels \in Nat
  BY AccountsAssumption
<1>4. Cardinality(1..MaxChannels + 1) = MaxChannels + 1
  BY <1>3, FS_Interval
<1>5. Cardinality(DOMAIN d.channels) \in Nat
  BY FS_CardinalityType
<1> QED BY <1>2, <1>3, <1>4, <1>5

LEMMA FreshChannelId ==
  ASSUME NEW d, IsFiniteSet(DOMAIN d.channels),
         Cardinality(DOMAIN d.channels) < MaxChannels, NEW name \in ChannelNames
  PROVE  FreshChannel(d, name) \in ChannelIds /\ FreshChannel(d, name) \notin DOMAIN d.channels
<1> DEFINE free(k) == <<name, k>> \notin DOMAIN d.channels
           least(k) == free(k) /\ \A j \in 1..k - 1 : ~free(j)
           F == {k \in 1..MaxChannels + 1 : free(k)}
<1>1. MaxChannels \in Nat
  BY AccountsAssumption
<1>2. F \in SUBSET Nat /\ F # {}
  <2>1. \E k \in 1..MaxChannels + 1 : <<name, k>> \notin DOMAIN d.channels
    BY FreeSuffix
  <2> QED BY <1>1, <2>1
<1>3. PICK k \in F : \A j \in F : k <= j
  BY <1>2, LeastNumber
<1>4. k \in 1..MaxChannels + 1 /\ free(k) /\ \A j \in 1..k - 1 : ~free(j)
  BY <1>1, <1>3
<1>5. \E m \in 1..MaxChannels + 1 : least(m)
  BY <1>4
<1> DEFINE n == CHOOSE m \in 1..MaxChannels + 1 : least(m)
<1>6. n \in 1..MaxChannels + 1 /\ least(n)
  <2> HIDE DEF least
  <2> QED BY <1>5
<1>7. FreshChannel(d, name) = <<name, n>>
  BY DEF FreshChannel
<1>8. n \in 1..MaxChannels + 1 /\ <<name, n>> \notin DOMAIN d.channels
  BY <1>6
<1> HIDE DEF n
<1> QED BY <1>7, <1>8 DEF ChannelIds

-----------------------------------------------------------------------------
(* What the handlers make of tables with an admin *)

\* A refused call leaves the tables as they were, a granted one has its row.
Reported(r, d, id, rows) ==
  /\ r.code = 409 => Final(r) = d
  /\ r.code \in {200, 201} => id \in rows

LEMMA CreateUserKept ==
  ASSUME NEW ids, NEW d, Manned(d, ids), NEW id \in Users, id \notin ids, NEW row \in UserRows,
         NEW channels, NEW groups, NEW r, r = CreateUser(d, id, row, channels, groups)
  PROVE  /\ Kept(r, ids \cup {id}) /\ r.code \in {201, 409, 500}
         /\ Reported(r, d, id, DOMAIN Final(r).users)
<1>1. CASE NamedUsers(d, row.name) # {}
  <2>1. r = Refused(d, 409)
    BY <1>1 DEF CreateUser
  <2>2. Manned(d, ids \cup {id})
    BY FineMore DEF Manned
  <2> QED BY <2>1, <2>2, Refusal DEF Reported
<1>2. CASE NamedUsers(d, row.name) = {}
  <2> DEFINE e == StoreUser(d, id, row)
  <2>1. r = Assigned(201, e, id, channels, groups)
    BY <1>2 DEF CreateUser
  <2>2. Fine(e, ids \cup {id})
    BY <1>2, StoredUser DEF Manned
  <2>3. DOMAIN e.users = DOMAIN d.users \cup {id} /\ Admins(e) \ {id} = Admins(d) \ {id}
    BY StoredRow DEF Manned, Fine
  <2>4. id \notin Admins(d)
    BY DEF Manned, Fine, Admins
  <2> HIDE DEF e
  <2>5. Manned(e, ids \cup {id}) /\ id \in DOMAIN e.users
    BY <2>2, <2>3, <2>4 DEF Manned
  <2>6. Kept(r, ids \cup {id}) /\ r.code \in {201, 500} /\ id \in DOMAIN Final(r).users
    BY <2>1, <2>5, AssignedKept
  <2> QED BY <2>6 DEF Reported
<1> QED BY <1>1, <1>2

\* The last admin keeps the role.
LEMMA UpdateUserKept ==
  ASSUME NEW ids, NEW d, Manned(d, ids), NEW id, NEW row \in UserRows,
         NEW channels, NEW groups, NEW r, r = UpdateUser(d, id, row, channels, groups)
  PROVE  /\ Kept(r, ids) /\ r.code \in {200, 404, 409, 500}
         /\ Reported(r, d, id, DOMAIN Final(r).users)
<1>1. CASE id \notin DOMAIN d.users
  <2>1. r = Refused(d, 404)
    BY <1>1 DEF UpdateUser
  <2> QED BY <2>1, Refusal DEF Reported
<1>2. CASE \/ ~(NamedUsers(d, row.name) \subseteq {id})
           \/ row.role # "admin" /\ LastAdmin(d, id)
  <2>1. r = Refused(d, 404) \/ r = Refused(d, 409)
    BY <1>2 DEF UpdateUser
  <2> QED BY <2>1, Refusal DEF Reported
<1>3. CASE /\ id \in DOMAIN d.users /\ NamedUsers(d, row.name) \subseteq {id}
           /\ ~(row.role # "admin" /\ LastAdmin(d, id))
  <2> DEFINE e == StoreUser(d, id, row)
  <2>1. r = Assigned(200, e, id, channels, groups)
    BY <1>3 DEF UpdateUser
  <2>2. id \in Users /\ id \in ids
    BY <1>3, TablesKeys DEF Manned, Fine
  <2>3. Fine(e, ids \cup {id}) /\ ids \cup {id} = ids
    BY <1>3, <2>2, StoredUser DEF Manned
  <2>4. /\ DOMAIN e.users = DOMAIN d.users \cup {id} /\ Admins(e) \ {id} = Admins(d) \ {id}
        /\ id \in Admins(e) <=> row.role = "admin"
    BY StoredRow DEF Manned, Fine
  <2> HIDE DEF e
  <2>5. Admins(e) # {}
    BY <1>3, <2>4 DEF Manned, LastAdmin
  <2>6. Manned(e, ids) /\ id \in DOMAIN e.users
    BY <2>3, <2>4, <2>5 DEF Manned
  <2>7. Kept(r, ids) /\ r.code \in {200, 500} /\ id \in DOMAIN Final(r).users
    BY <2>1, <2>6, AssignedKept
  <2> QED BY <2>7 DEF Reported
<1> QED BY <1>1, <1>2, <1>3

LEMMA DeleteUserKept ==
  ASSUME NEW ids, NEW d, Manned(d, ids), NEW actor, NEW id, NEW r, r = DeleteUser(d, actor, id)
  PROVE  Kept(r, ids) /\ r.code \in {204, 404, 409} /\ (r.code = 409 => Final(r) = d)
<1>1. CASE id \notin DOMAIN d.users \/ id = actor \/ LastAdmin(d, id)
  <2>1. r = Refused(d, 404) \/ r = Refused(d, 409)
    BY <1>1 DEF DeleteUser
  <2> QED BY <2>1, Refusal
<1>2. CASE ~(id \notin DOMAIN d.users \/ id = actor \/ LastAdmin(d, id))
  <2> DEFINE e == RemoveUser(d, id)
  <2>1. r = Done(204, <<e>>)
    BY <1>2 DEF DeleteUser
  <2>2. Fine(e, ids) /\ Admins(e) = Admins(d) \ {id}
    BY UserRemoved DEF Manned
  <2> HIDE DEF e
  <2>3. Manned(e, ids)
    BY <1>2, <2>2 DEF Manned, LastAdmin
  <2> QED BY <2>1, <2>3, OneImage
<1> QED BY <1>1, <1>2

LEMMA CreateChannelKept ==
  ASSUME NEW ids, NEW d, Manned(d, ids), NEW name \in ChannelNames, NEW r, r = CreateChannel(d, name)
  PROVE  /\ Kept(r, ids) /\ r.code \in {201, 409}
         /\ Reported(r, d, FreshChannel(d, name), DOMAIN Final(r).channels)
<1>1. CASE Cardinality(DOMAIN d.channels) >= MaxChannels \/ NamedChannels(d, name) # {}
  <2>1. r = Refused(d, 409)
    BY <1>1 DEF CreateChannel
  <2> QED BY <2>1, Refusal DEF Reported
<1>2. CASE ~(Cardinality(DOMAIN d.channels) >= MaxChannels \/ NamedChannels(d, name) # {})
  <2> DEFINE id == FreshChannel(d, name)
             e == StoreChannel(d, id, name)
  <2>1. r = Done(201, <<e>>)
    BY <1>2 DEF CreateChannel
  <2>2. Cardinality(DOMAIN d.channels) < MaxChannels
    BY <1>2, FS_CardinalityType, AccountsAssumption DEF Manned, Fine
  <2>3. id \in ChannelIds
    BY <2>2, FreshChannelId DEF Manned, Fine
  <2> HIDE DEF id
  <2>4. Fine(e, ids) /\ Admins(e) = Admins(d) /\ DOMAIN e.channels = DOMAIN d.channels \cup {id}
    BY <2>3, StoredChannel DEF Manned
  <2> HIDE DEF e
  <2>5. Kept(r, ids) /\ Final(r) = e /\ r.code = 201
    BY <2>1, <2>4, OneImage DEF Manned
  <2>6. id \in DOMAIN Final(r).channels
    BY <2>4, <2>5
  <2> QED BY <2>5, <2>6 DEF id, Reported
<1> QED BY <1>1, <1>2

LEMMA UpdateChannelKept ==
  ASSUME NEW ids, NEW d, Manned(d, ids), NEW id, NEW name \in ChannelNames,
         NEW r, r = UpdateChannel(d, id, name)
  PROVE  /\ Kept(r, ids) /\ r.code \in {200, 404, 409}
         /\ Reported(r, d, id, DOMAIN Final(r).channels)
<1>1. CASE id \notin DOMAIN d.channels \/ ~(NamedChannels(d, name) \subseteq {id})
  <2>1. r = Refused(d, 404) \/ r = Refused(d, 409)
    BY <1>1 DEF UpdateChannel
  <2> QED BY <2>1, Refusal DEF Reported
<1>2. CASE ~(id \notin DOMAIN d.channels \/ ~(NamedChannels(d, name) \subseteq {id}))
  <2> DEFINE e == StoreChannel(d, id, name)
  <2>1. r = Done(200, <<e>>)
    BY <1>2 DEF UpdateChannel
  <2>2. id \in ChannelIds
    BY <1>2, TablesKeys DEF Manned, Fine
  <2>3. Fine(e, ids) /\ Admins(e) = Admins(d) /\ DOMAIN e.channels = DOMAIN d.channels \cup {id}
    BY <2>2, StoredChannel DEF Manned
  <2> HIDE DEF e
  <2>4. Kept(r, ids) /\ Final(r) = e /\ r.code = 200
    BY <2>1, <2>3, OneImage DEF Manned
  <2> QED BY <2>3, <2>4 DEF Reported
<1> QED BY <1>1, <1>2

LEMMA DeleteChannelKept ==
  ASSUME NEW ids, NEW d, Manned(d, ids), NEW id, NEW r, r = DeleteChannel(d, id)
  PROVE  Kept(r, ids) /\ r.code \in {204, 404}
<1>1. CASE id \notin DOMAIN d.channels
  BY <1>1, Refusal DEF DeleteChannel
<1>2. CASE id \in DOMAIN d.channels
  <2> DEFINE e == RemoveChannel(d, id)
  <2>1. r = Done(204, <<e>>)
    BY <1>2 DEF DeleteChannel
  <2>2. Manned(e, ids)
    BY ChannelRemoved DEF Manned
  <2> HIDE DEF e
  <2> QED BY <2>1, <2>2, OneImage
<1> QED BY <1>1, <1>2

LEMMA CreateGroupKept ==
  ASSUME NEW ids, NEW d, Manned(d, ids), NEW id \in Groups, NEW name \in GroupNames,
         NEW channels, NEW r, r = CreateGroup(d, id, name, channels)
  PROVE  /\ Kept(r, ids \cup {id}) /\ r.code \in {201, 409, 500}
         /\ Reported(r, d, id, DOMAIN Final(r).groups)
<1>1. CASE NamedGroups(d, name) # {}
  <2>1. r = Refused(d, 409)
    BY <1>1 DEF CreateGroup
  <2>2. Manned(d, ids \cup {id})
    BY FineMore DEF Manned
  <2> QED BY <2>1, <2>2, Refusal DEF Reported
<1>2. CASE NamedGroups(d, name) = {}
  <2> DEFINE e == StoreGroup(d, id, name)
  <2>1. r = Bundled(201, e, id, channels)
    BY <1>2 DEF CreateGroup
  <2>2. /\ Fine(e, ids \cup {id}) /\ DOMAIN e.groups = DOMAIN d.groups \cup {id}
        /\ Admins(e) = Admins(d)
    BY <1>2, StoredGroup DEF Manned
  <2> HIDE DEF e
  <2>3. Manned(e, ids \cup {id}) /\ id \in DOMAIN e.groups
    BY <2>2 DEF Manned
  <2>4. Kept(r, ids \cup {id}) /\ r.code \in {201, 500} /\ id \in DOMAIN Final(r).groups
    BY <2>1, <2>3, BundledKept
  <2> QED BY <2>4 DEF Reported
<1> QED BY <1>1, <1>2

LEMMA UpdateGroupKept ==
  ASSUME NEW ids, NEW d, Manned(d, ids), NEW id, NEW name \in GroupNames,
         NEW channels, NEW r, r = UpdateGroup(d, id, name, channels)
  PROVE  /\ Kept(r, ids) /\ r.code \in {200, 404, 409, 500}
         /\ Reported(r, d, id, DOMAIN Final(r).groups)
<1>1. CASE id \notin DOMAIN d.groups \/ ~(NamedGroups(d, name) \subseteq {id})
  <2>1. r = Refused(d, 404) \/ r = Refused(d, 409)
    BY <1>1 DEF UpdateGroup
  <2> QED BY <2>1, Refusal DEF Reported
<1>2. CASE ~(id \notin DOMAIN d.groups \/ ~(NamedGroups(d, name) \subseteq {id}))
  <2> DEFINE e == StoreGroup(d, id, name)
  <2>1. r = Bundled(200, e, id, channels)
    BY <1>2 DEF UpdateGroup
  <2>2. id \in Groups /\ ids \cup {id} = ids
    BY <1>2, TablesKeys DEF Manned, Fine
  <2>3. /\ Fine(e, ids \cup {id}) /\ DOMAIN e.groups = DOMAIN d.groups \cup {id}
        /\ Admins(e) = Admins(d)
    BY <1>2, <2>2, StoredGroup DEF Manned
  <2> HIDE DEF e
  <2>4. Manned(e, ids) /\ id \in DOMAIN e.groups
    BY <2>2, <2>3 DEF Manned
  <2>5. Kept(r, ids) /\ r.code \in {200, 500} /\ id \in DOMAIN Final(r).groups
    BY <2>1, <2>4, BundledKept
  <2> QED BY <2>5 DEF Reported
<1> QED BY <1>1, <1>2

LEMMA DeleteGroupKept ==
  ASSUME NEW ids, NEW d, Manned(d, ids), NEW id, NEW r, r = DeleteGroup(d, id)
  PROVE  Kept(r, ids) /\ r.code \in {204, 404}
<1>1. CASE id \notin DOMAIN d.groups
  BY <1>1, Refusal DEF DeleteGroup
<1>2. CASE id \in DOMAIN d.groups
  <2> DEFINE e == RemoveGroup(d, id)
  <2>1. r = Done(204, <<e>>)
    BY <1>2 DEF DeleteGroup
  <2>2. Manned(e, ids)
    BY GroupRemoved DEF Manned
  <2> HIDE DEF e
  <2> QED BY <2>1, <2>2, OneImage
<1> QED BY <1>1, <1>2

\* A start of the server adds the seeded channels that are missing.
LEMMA SeededFine ==
  ASSUME NEW ids, NEW d, Fine(d, ids), NEW e, e = [d EXCEPT !.channels = Seeded(@)]
  PROVE  Fine(e, ids) /\ Admins(e) = Admins(d)
<1> DEFINE added == (Seeds \X {1}) \ DOMAIN d.channels
<1>1. d \in TableTypes
  BY TablesTyped DEF Fine
<1>2. /\ e.channels = [c \in DOMAIN d.channels \cup added |-> IF c \in added THEN c[1] ELSE d.channels[c]]
      /\ e.users = d.users /\ e.groups = d.groups /\ e.grants = d.grants
      /\ e.members = d.members /\ e.bundles = d.bundles
  BY <1>1 DEF TableTypes, Seeded
<1>3. DOMAIN e.channels = DOMAIN d.channels \cup added
  BY <1>2
<1>4. IsFiniteSet(Seeds \X {1})
  BY FS_Singleton, FS_Product, AccountsAssumption
<1>5. IsFiniteSet(DOMAIN e.channels)
  <2>1. IsFiniteSet(added)
    BY <1>4, FS_Difference
  <2> HIDE DEF added
  <2> QED BY <1>3, <2>1, FS_Union DEF Fine
<1>6. e.channels \in Table(ChannelIds, ChannelNames)
  <2>1. \A c \in added : c \in ChannelIds /\ c[1] \in ChannelNames
    BY AccountsAssumption DEF ChannelIds
  <2>2. /\ DOMAIN d.channels \subseteq ChannelIds
        /\ \A c \in DOMAIN d.channels : d.channels[c] \in ChannelNames
    BY TablesKeys DEF Fine
  <2> HIDE DEF added
  <2>3. DOMAIN e.channels \subseteq ChannelIds /\ \A c \in DOMAIN e.channels : e.channels[c] \in ChannelNames
    BY <1>2, <2>1, <2>2
  <2>4. e.channels = [c \in DOMAIN e.channels |-> e.channels[c]]
    BY <1>2
  <2> QED BY <2>3, <2>4, TableMade
<1>7. e \in Tables
  BY <1>1, <1>6, TablesTyped DEF TableTypes
<1>8. Refers(e)
  BY <1>2, <1>3, RefersWithin, WithinMore DEF Fine
<1> QED BY <1>2, <1>5, <1>7, <1>8 DEF Fine, NamesDiffer, Admins

-----------------------------------------------------------------------------
(* The server and its calls *)

Kinds == Mutations \cup {"open", "load", "login", "setup", "logout"}

\* What a call carries, by its kind
ArgsOK(kind, id, args) ==
  /\ kind = "user" => /\ id \in Users \cup {None} /\ args.row \in UserRows
                      /\ args.channels \subseteq ChannelIds /\ args.groups \subseteq Groups
  /\ kind = "channel" => id \in ChannelIds \cup {None} /\ args \in ChannelNames
  /\ kind = "group" => id \in Groups \cup {None} /\ args.name \in GroupNames
  /\ kind \in {"no user", "no channel", "no group"} => id # None
  /\ kind \in {"login", "setup"} =>
       id = None /\ args.name \in UserNames /\ args.token \in Tokens

\* What the answer to a call carries when it was granted
RowOK(kind, row) ==
  /\ kind = "user" => /\ row.id \in Users /\ row.row \in UserRows
                      /\ row.grants \subseteq ChannelIds /\ row.members \subseteq Groups
  /\ kind = "channel" => row.id \in ChannelIds /\ row.name \in ChannelNames
  /\ kind = "group" => /\ row.id \in Groups /\ row.name \in GroupNames
                       /\ row.bundles \subseteq ChannelIds
  /\ kind \in {"login", "setup"} => row.who \in Users
  /\ kind = "open" => /\ row.who \in Users \cup {None}
                      /\ row.channels \in Table(ChannelIds, ChannelNames)
  /\ kind = "load" => row \in Tables

CallShape(k) ==
  k = [by |-> k.by, kind |-> k.kind, id |-> k.id, args |-> k.args, token |-> k.token,
       seen |-> k.seen, edited |-> k.edited, stage |-> k.stage, code |-> k.code, row |-> k.row]

CallOK(k) ==
  /\ CallShape(k) /\ ArgsOK(k.kind, k.id, k.args)
  /\ k.by \in Consoles \cup {None} /\ k.kind \in Kinds /\ k.token \in Tokens \cup {0}
  /\ k.seen \subseteq ChannelIds
  /\ k.stage = "stored" => k.kind \in {"user", "channel"} /\ k.id # None
  /\ k.stage = "answered" /\ k.code \in {200, 201, 204} => RowOK(k.kind, k.row)

\* Rows have the ids given out, names differ, references hold, an admin remains.
DbInv == Fine(db, issued) /\ issued \subseteq Users \cup Groups /\ AdminRemains

\* Whoever is not barred is an admin.
LEMMA NotBarred ==
  ASSUME DbInv, NEW token, Barred(token) = 0 PROVE Manned(db, issued)
<1>1. Holder(token) \in Admins(db)
  BY DEF Barred, Admins
<1> QED BY <1>1 DEF Manned, DbInv

LEMMA MannedInv ==
  ASSUME NEW ids, NEW d, Manned(d, ids), db' = d, issued' = ids, ids \subseteq Users \cup Groups
  PROVE  DbInv'
BY DEF DbInv, Manned, AdminRemains

\* The id of the row a call is about
RowId(call, fresh) ==
  IF call.id # None THEN call.id
  ELSE IF call.kind = "channel" THEN FreshChannel(db, call.args) ELSE fresh

\* What a handler makes of a call, with the ids given out after it
Granted(call, fresh, r, ids) ==
  /\ Kept(r, ids)
  /\ r.code = 409 => Final(r) = db
  /\ r.code \in {200, 201} =>
       /\ call.kind = "user" => RowId(call, fresh) \in DOMAIN Final(r).users
       /\ call.kind = "channel" => RowId(call, fresh) \in DOMAIN Final(r).channels
       /\ call.kind = "group" => RowId(call, fresh) \in DOMAIN Final(r).groups
       /\ call.kind \in {"user", "channel", "group"}
  /\ r.code = 200 => call.id # None
  /\ r.code = 204 => call.kind \in {"no user", "no channel", "no group"}

LEMMA HandledKept ==
  ASSUME Manned(db, issued), NEW call, CallOK(call), call.kind \in Mutations,
         NEW fresh \in FreshIds(call), NEW r, r = Handled(call, fresh),
         NEW ids, ids = issued \cup ({fresh} \ {None})
  PROVE  Granted(call, fresh, r, ids)
<1>1. Manned(db, ids)
  BY FineMore DEF Manned
<1>2. CASE call.kind = "user" /\ call.id = None
  <2>1. r = CreateUser(db, fresh, call.args.row, call.args.channels, call.args.groups)
    BY <1>2 DEF Handled
  <2>2. fresh \in Users /\ fresh \notin issued /\ ids = issued \cup {fresh}
    BY <1>2, AdminConsoleAssumption DEF FreshIds
  <2>3. call.args.row \in UserRows
    BY <1>2 DEF CallOK, ArgsOK
  <2>4. /\ Kept(r, ids) /\ r.code \in {201, 409, 500}
        /\ Reported(r, db, fresh, DOMAIN Final(r).users)
    BY <2>1, <2>2, <2>3, CreateUserKept
  <2> QED BY <1>2, <2>4 DEF Granted, RowId, Reported
<1>3. CASE call.kind = "user" /\ call.id # None
  <2>1. r = UpdateUser(db, call.id, call.args.row, call.args.channels, call.args.groups)
    BY <1>3 DEF Handled
  <2>2. call.args.row \in UserRows
    BY <1>3 DEF CallOK, ArgsOK
  <2>3. /\ Kept(r, ids) /\ r.code \in {200, 404, 409, 500}
        /\ Reported(r, db, call.id, DOMAIN Final(r).users)
    BY <1>1, <2>1, <2>2, UpdateUserKept
  <2> QED BY <1>3, <2>3 DEF Granted, RowId, Reported
<1>4. CASE call.kind = "channel"
  <2>1. r = IF call.id = None THEN CreateChannel(db, call.args) ELSE UpdateChannel(db, call.id, call.args)
    BY <1>4 DEF Handled
  <2>2. call.args \in ChannelNames
    BY <1>4 DEF CallOK, ArgsOK
  <2>3. CASE call.id = None
    <3>1. /\ Kept(r, ids) /\ r.code \in {201, 409}
          /\ Reported(r, db, FreshChannel(db, call.args), DOMAIN Final(r).channels)
      BY <1>1, <2>1, <2>2, <2>3, CreateChannelKept
    <3> QED BY <1>4, <2>3, <3>1 DEF Granted, RowId, Reported
  <2>4. CASE call.id # None
    <3>1. /\ Kept(r, ids) /\ r.code \in {200, 404, 409}
          /\ Reported(r, db, call.id, DOMAIN Final(r).channels)
      BY <1>1, <2>1, <2>2, <2>4, UpdateChannelKept
    <3> QED BY <1>4, <2>4, <3>1 DEF Granted, RowId, Reported
  <2> QED BY <2>3, <2>4
<1>5. CASE call.kind = "group" /\ call.id = None
  <2>1. r = CreateGroup(db, fresh, call.args.name, call.args.channels)
    BY <1>5 DEF Handled
  <2>2. fresh \in Groups /\ ids = issued \cup {fresh}
    BY <1>5, AdminConsoleAssumption DEF FreshIds
  <2>3. call.args.name \in GroupNames
    BY <1>5 DEF CallOK, ArgsOK
  <2>4. /\ Kept(r, ids) /\ r.code \in {201, 409, 500}
        /\ Reported(r, db, fresh, DOMAIN Final(r).groups)
    BY <2>1, <2>2, <2>3, CreateGroupKept
  <2> QED BY <1>5, <2>4 DEF Granted, RowId, Reported
<1>6. CASE call.kind = "group" /\ call.id # None
  <2>1. r = UpdateGroup(db, call.id, call.args.name, call.args.channels)
    BY <1>6 DEF Handled
  <2>2. call.args.name \in GroupNames
    BY <1>6 DEF CallOK, ArgsOK
  <2>3. /\ Kept(r, ids) /\ r.code \in {200, 404, 409, 500}
        /\ Reported(r, db, call.id, DOMAIN Final(r).groups)
    BY <1>1, <2>1, <2>2, UpdateGroupKept
  <2> QED BY <1>6, <2>3 DEF Granted, RowId, Reported
<1>7. CASE call.kind = "no user"
  <2>1. r = DeleteUser(db, Holder(call.token), call.id)
    BY <1>7 DEF Handled
  <2>2. Kept(r, ids) /\ r.code \in {204, 404, 409} /\ (r.code = 409 => Final(r) = db)
    BY <1>1, <2>1, DeleteUserKept
  <2>3. r.code # 200 /\ r.code # 201 /\ (r.code = 409 => Final(r) = db)
    BY <2>2
  <2> QED BY <1>7, <2>2, <2>3 DEF Granted
<1>8. CASE call.kind = "no channel"
  <2>1. r = DeleteChannel(db, call.id)
    BY <1>8 DEF Handled
  <2>2. Kept(r, ids) /\ r.code \in {204, 404}
    BY <1>1, <2>1, DeleteChannelKept
  <2>3. r.code # 200 /\ r.code # 201 /\ (r.code = 409 => Final(r) = db)
    BY <2>2
  <2> QED BY <1>8, <2>2, <2>3 DEF Granted
<1>9. CASE call.kind = "no group"
  <2>1. r = DeleteGroup(db, call.id)
    BY <1>9 DEF Handled
  <2>2. Kept(r, ids) /\ r.code \in {204, 404}
    BY <1>1, <2>1, DeleteGroupKept
  <2>3. r.code # 200 /\ r.code # 201 /\ (r.code = 409 => Final(r) = db)
    BY <2>2
  <2> QED BY <1>9, <2>2, <2>3 DEF Granted
<1> QED BY <1>2, <1>3, <1>4, <1>5, <1>6, <1>7, <1>8, <1>9 DEF Mutations

-----------------------------------------------------------------------------
(* The calls under way *)

CallsOK == \A k \in calls : CallOK(k)

LEMMA CallAnswered ==
  ASSUME NEW call, CallOK(call), NEW code, NEW row,
         code \in {200, 201, 204} => RowOK(call.kind, row),
         NEW k, k = [call EXCEPT !.stage = "answered", !.code = code, !.row = row]
  PROVE  CallOK(k)
<1>1. k = [by |-> call.by, kind |-> call.kind, id |-> call.id, args |-> call.args,
           token |-> call.token, seen |-> call.seen, edited |-> call.edited,
           stage |-> "answered", code |-> code, row |-> row]
  BY DEF CallOK, CallShape
<1>2. /\ k.by = call.by /\ k.kind = call.kind /\ k.id = call.id /\ k.args = call.args
      /\ k.token = call.token /\ k.seen = call.seen /\ k.edited = call.edited
      /\ k.stage = "answered" /\ k.code = code /\ k.row = row
  BY <1>1
<1>3. CallShape(k)
  BY <1>1, <1>2 DEF CallShape
<1>4. ArgsOK(k.kind, k.id, k.args)
  BY <1>2 DEF CallOK, ArgsOK
<1>5. k.stage = "stored" => k.kind \in {"user", "channel"} /\ k.id # None
  BY <1>2
<1> QED BY <1>2, <1>3, <1>4, <1>5 DEF CallOK

LEMMA CallStored ==
  ASSUME NEW call, CallOK(call), call.kind \in {"user", "channel"}, call.id # None,
         NEW k, k = [call EXCEPT !.stage = "stored"]
  PROVE  CallOK(k)
<1>1. k = [by |-> call.by, kind |-> call.kind, id |-> call.id, args |-> call.args,
           token |-> call.token, seen |-> call.seen, edited |-> call.edited,
           stage |-> "stored", code |-> call.code, row |-> call.row]
  BY DEF CallOK, CallShape
<1>2. /\ k.by = call.by /\ k.kind = call.kind /\ k.id = call.id /\ k.args = call.args
      /\ k.token = call.token /\ k.seen = call.seen /\ k.edited = call.edited
      /\ k.stage = "stored" /\ k.code = call.code /\ k.row = call.row
  BY <1>1
<1>3. CallShape(k)
  BY <1>1, <1>2 DEF CallShape
<1>4. ArgsOK(k.kind, k.id, k.args)
  BY <1>2 DEF CallOK, ArgsOK
<1>5. ~(k.stage = "answered")
  BY <1>2
<1> QED BY <1>2, <1>3, <1>4, <1>5 DEF CallOK

LEMMA CallOrphaned ==
  ASSUME NEW call, CallOK(call), NEW k, k = [call EXCEPT !.by = None]
  PROVE  CallOK(k)
<1>1. k = [by |-> None, kind |-> call.kind, id |-> call.id, args |-> call.args,
           token |-> call.token, seen |-> call.seen, edited |-> call.edited,
           stage |-> call.stage, code |-> call.code, row |-> call.row]
  BY DEF CallOK, CallShape
<1>2. /\ k.by = None /\ k.kind = call.kind /\ k.id = call.id /\ k.args = call.args
      /\ k.token = call.token /\ k.seen = call.seen /\ k.edited = call.edited
      /\ k.stage = call.stage /\ k.code = call.code /\ k.row = call.row
  BY <1>1
<1>3. CallShape(k)
  BY <1>1, <1>2 DEF CallShape
<1>4. ArgsOK(k.kind, k.id, k.args)
  BY <1>2 DEF CallOK, ArgsOK
<1> QED BY <1>2, <1>3, <1>4 DEF CallOK

\* The answer that takes the place of a call
LEMMA AnsweredOK ==
  ASSUME CallsOK, NEW call \in calls, NEW code, NEW row, Answered(call, code, row),
         code \in {200, 201, 204} => RowOK(call.kind, row)
  PROVE  CallsOK'
<1> DEFINE k == [call EXCEPT !.stage = "answered", !.code = code, !.row = row]
<1>1. CallOK(k)
  BY CallAnswered DEF CallsOK
<1>2. calls' = (calls \ {call}) \cup {k}
  BY DEF Answered
<1> HIDE DEF k
<1> QED BY <1>1, <1>2 DEF CallsOK

\* A row of the tables as an answer
LEMMA RowOfOK ==
  ASSUME NEW d \in Tables, NEW kind \in {"user", "channel", "group"}, NEW id,
         kind = "user" => id \in DOMAIN d.users,
         kind = "channel" => id \in DOMAIN d.channels,
         kind = "group" => id \in DOMAIN d.groups
  PROVE  RowOK(kind, RowOf(d, kind, id))
<1>1. CASE kind = "user"
  <2>1. RowOf(d, kind, id) = [id |-> id, row |-> d.users[id], grants |-> Linked(d.grants, id),
                              members |-> Linked(d.members, id)]
    BY <1>1 DEF RowOf, UserRow
  <2>2. id \in Users /\ d.users[id] \in UserRows
    BY <1>1, TablesKeys
  <2>3. Linked(d.grants, id) \in SUBSET ChannelIds /\ Linked(d.members, id) \in SUBSET Groups
    BY TablesParts DEF Linked
  <2> QED BY <1>1, <2>1, <2>2, <2>3 DEF RowOK
<1>2. CASE kind = "channel"
  <2>1. RowOf(d, kind, id) = [id |-> id, name |-> d.channels[id]]
    BY <1>2 DEF RowOf
  <2>2. id \in ChannelIds /\ d.channels[id] \in ChannelNames
    BY <1>2, TablesKeys
  <2> QED BY <1>2, <2>1, <2>2 DEF RowOK
<1>3. CASE kind = "group"
  <2>1. RowOf(d, kind, id) = [id |-> id, name |-> d.groups[id], bundles |-> Linked(d.bundles, id)]
    BY <1>3 DEF RowOf
  <2>2. id \in Groups /\ d.groups[id] \in GroupNames
    BY <1>3, TablesKeys
  <2>3. Linked(d.bundles, id) \in SUBSET ChannelIds
    BY TablesParts DEF Linked
  <2> QED BY <1>3, <2>1, <2>2, <2>3 DEF RowOK
<1> QED BY <1>1, <1>2, <1>3

-----------------------------------------------------------------------------
(* The steps of the server *)

StoreOK == DOMAIN store \subseteq Tokens /\ \A t \in DOMAIN store : store[t] \in Users

LEMMA ServeKept ==
  ASSUME DbInv, CallsOK, NEW call \in calls, Serve(call) PROVE DbInv' /\ CallsOK'
<1>1. CallOK(call) /\ call.kind \in Mutations
  BY DEF CallsOK, Serve
<1>2. CASE Barred(call.token) # 0
  <2>1. Answered(call, Barred(call.token), <<>>) /\ UNCHANGED <<db, issued>>
    BY <1>2 DEF Serve
  <2>2. Barred(call.token) \notin {200, 201, 204}
    BY <1>2 DEF Barred
  <2>3. CallsOK'
    BY <2>1, <2>2, AnsweredOK
  <2> QED BY <2>1, <2>3 DEF DbInv, AdminRemains
<1>3. CASE Barred(call.token) = 0
  <2> DEFINE Served(fresh, r, id) ==
        /\ db' = Final(r)
        /\ issued' = IF r.code = 409 THEN issued ELSE issued \cup ({fresh} \ {None})
        /\ IF r.code = 200 /\ call.kind # "group"
           THEN calls' = (calls \ {call}) \cup {[call EXCEPT !.stage = "stored"]}
           ELSE Answered(call, r.code,
                  IF r.code \in {200, 201} THEN RowOf(Final(r), call.kind, id) ELSE <<>>)
  <2>1. PICK fresh \in FreshIds(call) : Served(fresh, Handled(call, fresh), RowId(call, fresh))
    BY <1>3 DEF Serve, RowId
  <2> DEFINE r == Handled(call, fresh)
             id == RowId(call, fresh)
             ids == issued \cup ({fresh} \ {None})
  <2>2. Served(fresh, r, id)
    BY <2>1
  <2>3. Manned(db, issued)
    BY <1>3, NotBarred
  <2>4. Granted(call, fresh, r, ids)
    BY <1>1, <2>3, HandledKept
  <2>5. ids \subseteq Users \cup Groups
    BY DEF FreshIds, DbInv
  <2> HIDE DEF r, ids
  <2>6. Manned(Final(r), ids)
    BY <2>4, FinalKept DEF Granted
  <2>7. DbInv'
    <3>1. CASE r.code = 409
      BY <2>2, <2>4, <3>1 DEF Granted, DbInv, AdminRemains
    <3>2. CASE r.code # 409
      <4>1. db' = Final(r) /\ issued' = ids
        BY <2>2, <3>2 DEF ids
      <4> QED BY <2>5, <2>6, <4>1, MannedInv
    <3> QED BY <3>1, <3>2
  <2>8. CallsOK'
    <3>1. CASE r.code = 200 /\ call.kind # "group"
      <4>1. call.kind \in {"user", "channel"} /\ call.id # None
        BY <2>4, <3>1 DEF Granted
      <4> DEFINE k == [call EXCEPT !.stage = "stored"]
      <4>2. CallOK(k)
        BY <1>1, <4>1, CallStored
      <4>3. calls' = (calls \ {call}) \cup {k}
        BY <2>2, <3>1
      <4> HIDE DEF k
      <4> QED BY <4>2, <4>3 DEF CallsOK
    <3>2. CASE r.code \in {200, 201} /\ ~(r.code = 200 /\ call.kind # "group")
      <4>1. Answered(call, r.code, RowOf(Final(r), call.kind, id))
        BY <2>2, <3>2
      <4>2. Final(r) \in Tables
        BY <2>6 DEF Manned, Fine
      <4>3. RowOK(call.kind, RowOf(Final(r), call.kind, id))
        <5>1. /\ call.kind \in {"user", "channel", "group"}
              /\ call.kind = "user" => id \in DOMAIN Final(r).users
              /\ call.kind = "channel" => id \in DOMAIN Final(r).channels
              /\ call.kind = "group" => id \in DOMAIN Final(r).groups
          BY <2>4, <3>2 DEF Granted
        <5> QED BY <4>2, <5>1, RowOfOK
      <4> QED BY <4>1, <4>3, AnsweredOK
    <3>3. CASE r.code \notin {200, 201}
      <4>1. Answered(call, r.code, <<>>)
        BY <2>2, <3>3
      <4>2. r.code = 204 => RowOK(call.kind, <<>>)
        BY <2>4 DEF Granted, RowOK
      <4>3. r.code \in {200, 201, 204} => RowOK(call.kind, <<>>)
        BY <3>3, <4>2
      <4> QED BY <4>1, <4>3, AnsweredOK
    <3> QED BY <3>1, <3>2, <3>3
  <2> QED BY <2>7, <2>8
<1> QED BY <1>2, <1>3

LEMMA AnswerKept ==
  ASSUME DbInv, CallsOK, NEW call \in calls, Answer(call) PROVE DbInv' /\ CallsOK'
<1>1. CallOK(call) /\ call.kind \in {"user", "channel"}
  BY DEF CallsOK, CallOK, Answer
<1>2. CASE call.id \in DOMAIN (IF call.kind = "user" THEN db.users ELSE db.channels)
  <2>1. Answered(call, 200, RowOf(db, call.kind, call.id))
    BY <1>2 DEF Answer
  <2>2. RowOK(call.kind, RowOf(db, call.kind, call.id))
    BY <1>1, <1>2, RowOfOK DEF DbInv, Fine
  <2> QED BY <2>1, <2>2, AnsweredOK DEF Answer, DbInv, AdminRemains
<1>3. CASE call.id \notin DOMAIN (IF call.kind = "user" THEN db.users ELSE db.channels)
  <2>1. Answered(call, 500, <<>>)
    BY <1>3 DEF Answer
  <2> QED BY <2>1, AnsweredOK DEF Answer, DbInv, AdminRemains
<1> QED BY <1>2, <1>3

LEMMA ServeLoginKept ==
  ASSUME DbInv, StoreOK, CallsOK, NEW call \in calls, ServeLogin(call) PROVE StoreOK' /\ CallsOK'
<1>1. call.kind = "login" /\ call.args.token \in Tokens
  BY DEF CallsOK, CallOK, ArgsOK, ServeLogin
<1>2. CASE Answered(call, 401, <<>>) /\ UNCHANGED store
  <2>1. CallsOK'
    BY <1>2, AnsweredOK
  <2> QED BY <1>2, <2>1 DEF StoreOK
<1>3. ASSUME NEW u \in NamedUsers(db, call.args.name), store' = With(store, call.args.token, u),
             Answered(call, 200, [who |-> u, role |-> db.users[u].role])
      PROVE  StoreOK' /\ CallsOK'
  <2>1. u \in Users
    BY TablesKeys DEF NamedUsers, DbInv, Fine
  <2>2. RowOK(call.kind, [who |-> u, role |-> db.users[u].role])
    BY <1>1, <2>1 DEF RowOK
  <2>3. CallsOK'
    BY <1>3, <2>2, AnsweredOK
  <2>4. StoreOK'
    <3>1. store' = [t \in DOMAIN store \cup {call.args.token} |->
                      IF t = call.args.token THEN u ELSE store[t]]
      BY <1>3 DEF With
    <3> QED BY <1>1, <2>1, <3>1 DEF StoreOK
  <2> QED BY <2>3, <2>4
<1> QED BY <1>2, <1>3 DEF ServeLogin

\* The first admin is only set up when no user was ever made.
LEMMA ServeSetupKept ==
  ASSUME DbInv, StoreOK, CallsOK, NEW call \in calls, ServeSetup(call)
  PROVE  DbInv' /\ StoreOK' /\ CallsOK'
<1>1. /\ call.kind = "setup" /\ call.id = None /\ call.args.name \in UserNames
      /\ call.args.token \in Tokens
  BY DEF CallsOK, CallOK, ArgsOK, ServeSetup
<1>2. FreshIds(call) = Users \ issued
  BY <1>1 DEF FreshIds
<1> DEFINE Made(fresh, r) ==
      /\ db' = Final(r)
      /\ IF r.code = 201
         THEN /\ store' = With(store, call.args.token, fresh)
              /\ issued' = issued \cup {fresh}
              /\ Answered(call, 201, [who |-> fresh, role |-> "admin"])
         ELSE Answered(call, 409, <<>>) /\ UNCHANGED <<store, issued>>
<1>3. PICK fresh \in Users \ issued : Made(fresh, Handled(call, fresh))
  BY <1>2 DEF ServeSetup
<1> DEFINE r == Handled(call, fresh)
<1>4. Made(fresh, r) /\ r = SetupAdmin(db, fresh, call.args.name)
  BY <1>1, <1>3 DEF Handled
<1> HIDE DEF r
<1>5. CASE Admins(db) # {}
  <2>1. r = Refused(db, 409)
    BY <1>4, <1>5 DEF SetupAdmin
  <2>2. Final(r) = db /\ r.code = 409
    BY <2>1 DEF Refused, Final
  <2>3. Answered(call, 409, <<>>) /\ UNCHANGED <<db, issued, store>>
    BY <1>4, <2>2
  <2>4. CallsOK'
    BY <2>3, AnsweredOK
  <2> QED BY <2>3, <2>4 DEF DbInv, AdminRemains, StoreOK
<1>6. CASE Admins(db) = {}
  <2>1. DOMAIN db.users = {}
    BY <1>6, TablesKeys DEF DbInv, AdminRemains, Fine
  <2>2. Kept(r, issued \cup {fresh}) /\ r.code = 201
    BY <1>1, <1>4, <2>1, SetupKept DEF DbInv
  <2>3. Manned(Final(r), issued \cup {fresh})
    BY <2>2, FinalKept
  <2>4. /\ db' = Final(r) /\ issued' = issued \cup {fresh}
        /\ store' = With(store, call.args.token, fresh)
        /\ Answered(call, 201, [who |-> fresh, role |-> "admin"])
    BY <1>4, <2>2
  <2>5. issued \cup {fresh} \subseteq Users \cup Groups
    BY DEF DbInv
  <2>6. DbInv'
    BY <2>3, <2>4, <2>5, MannedInv
  <2>7. RowOK(call.kind, [who |-> fresh, role |-> "admin"])
    BY <1>1 DEF RowOK
  <2>8. CallsOK'
    BY <2>4, <2>7, AnsweredOK
  <2>9. StoreOK'
    <3>1. store' = [t \in DOMAIN store \cup {call.args.token} |->
                      IF t = call.args.token THEN fresh ELSE store[t]]
      BY <2>4 DEF With
    <3> QED BY <1>1, <3>1 DEF StoreOK
  <2> QED BY <2>6, <2>8, <2>9
<1> QED BY <1>5, <1>6

LEMMA ServeLogoutKept ==
  ASSUME StoreOK, CallsOK, NEW call, ServeLogout(call) PROVE StoreOK' /\ CallsOK'
<1>1. store' = [t \in DOMAIN store \ {call.token} |-> store[t]] /\ calls' = calls \ {call}
  BY DEF ServeLogout, Restrict
<1> QED BY <1>1 DEF StoreOK, CallsOK

\* Who a session is of
LEMMA KnownType ==
  ASSUME DbInv, NEW call PROVE Known(call) \in Users \cup {None}
BY TablesKeys DEF Known, DbInv, Fine

LEMMA ServeOpenKept ==
  ASSUME DbInv, CallsOK, NEW call \in calls, ServeOpen(call) PROVE CallsOK'
<1>1. call.kind = "open" /\ Answered(call, 200, [who |-> Known(call), channels |-> db.channels])
  BY DEF ServeOpen
<1>2. db.channels \in Table(ChannelIds, ChannelNames)
  BY TablesParts DEF DbInv, Fine
<1>3. RowOK(call.kind, [who |-> Known(call), channels |-> db.channels])
  BY <1>1, <1>2, KnownType DEF RowOK
<1> QED BY <1>1, <1>3, AnsweredOK

LEMMA ServeLoadKept ==
  ASSUME DbInv, CallsOK, NEW call \in calls, ServeLoad(call) PROVE CallsOK'
<1>1. RowOK(call.kind, db)
  BY DEF ServeLoad, RowOK, DbInv, Fine
<1>2. Answered(call, 200, db) \/ Answered(call, 401, <<>>)
  BY DEF ServeLoad
<1> QED BY <1>1, <1>2, AnsweredOK

-----------------------------------------------------------------------------
(* Restarts and dashboards *)

InboxOK == inbox \in [Consoles -> Seq(Tables)]

\* The server starts again on tables that were fine.
LEMMA RestartKept ==
  ASSUME CallsOK, NEW image, Restart(image), Fine(image, issued'), issued' \subseteq Users \cup Groups,
         issued' \cap Users # {} => Admins(image) # {}
  PROVE  DbInv' /\ StoreOK' /\ CallsOK' /\ InboxOK'
<1>1. db' = [image EXCEPT !.channels = Seeded(@)]
  BY DEF Restart
<1>2. Fine(db', issued') /\ Admins(db') = Admins(image)
  BY <1>1, SeededFine
<1>3. DbInv'
  BY <1>2 DEF DbInv, AdminRemains
<1>4. CallsOK'
  <2> SUFFICES ASSUME NEW k \in calls' PROVE CallOK(k)
    BY DEF CallsOK
  <2>1. PICK call \in calls : k = [call EXCEPT !.stage = "answered", !.code = 0, !.row = <<>>]
    BY DEF Restart
  <2>2. 0 \notin {200, 201, 204}
    OBVIOUS
  <2> QED BY <2>1, <2>2, CallAnswered DEF CallsOK
<1>5. StoreOK'
  <2>1. store' = <<>>
    BY DEF Restart
  <2>2. DOMAIN store' = {}
    BY <2>1
  <2> QED BY <2>2 DEF StoreOK
<1>6. InboxOK'
  <2>1. inbox' = [c \in Consoles |-> <<>>]
    BY DEF Restart
  <2>2. <<>> \in Seq(Tables)
    OBVIOUS
  <2> QED BY <2>1, <2>2 DEF InboxOK
<1> QED BY <1>3, <1>4, <1>5, <1>6

LEMMA PlainRestartKept ==
  ASSUME DbInv, CallsOK, Restart(db), UNCHANGED issued
  PROVE  DbInv' /\ StoreOK' /\ CallsOK' /\ InboxOK'
<1>1. Fine(db, issued') /\ issued' \subseteq Users \cup Groups /\ (issued' \cap Users # {} => Admins(db) # {})
  BY DEF DbInv, AdminRemains
<1> QED BY <1>1, RestartKept

\* A crash leaves the tables as one of the statements of a handler did.
LEMMA CrashKept ==
  ASSUME DbInv, CallsOK, NEW call \in calls, Crash(call)
  PROVE  DbInv' /\ StoreOK' /\ CallsOK' /\ InboxOK'
<1>1. CallOK(call) /\ call.kind \in Mutations /\ Barred(call.token) = 0
  BY DEF CallsOK, Crash
<1>2. Manned(db, issued)
  BY <1>1, NotBarred
<1> DEFINE Left(fresh, r) ==
      /\ issued' = issued \cup ({fresh} \ {None})
      /\ \E i \in DOMAIN r.images : Restart(r.images[i])
<1>3. PICK fresh \in FreshIds(call) : Left(fresh, Handled(call, fresh))
  BY DEF Crash
<1> DEFINE r == Handled(call, fresh)
           ids == issued \cup ({fresh} \ {None})
<1>4. Left(fresh, r) /\ issued' = ids
  BY <1>3
<1>5. Kept(r, ids)
  BY <1>1, <1>2, HandledKept DEF Granted
<1>6. ids \subseteq Users \cup Groups
  BY DEF FreshIds, DbInv
<1> HIDE DEF r, ids
<1>7. PICK i \in DOMAIN r.images : Restart(r.images[i])
  BY <1>4
<1>8. Fine(r.images[i], issued') /\ Admins(r.images[i]) # {}
  BY <1>4, <1>5 DEF Kept, Manned
<1> QED BY <1>4, <1>6, <1>7, <1>8, RestartKept

LEMMA PushKept ==
  ASSUME DbInv, InboxOK, NEW to, Push(to) PROVE InboxOK'
<1>1. db \in Tables
  BY DEF DbInv, Fine
<1>2. inbox' = [c \in Consoles |-> IF c \in to THEN Append(inbox[c], db) ELSE inbox[c]]
  BY DEF Push
<1>3. \A c \in Consoles : inbox[c] \in Seq(Tables) /\ Append(inbox[c], db) \in Seq(Tables)
  BY <1>1 DEF InboxOK
<1> QED BY <1>2, <1>3 DEF InboxOK

-----------------------------------------------------------------------------
(* The screens *)

ScreenShape ==
  [who : Users \cup {None}, token : Tokens \cup {0}, pending : SUBSET Kinds, lists : Tables,
   editing : Users \cup {None}, boxes : SUBSET ChannelIds, ticked : SUBSET ChannelIds,
   joins : SUBSET Groups]

\* What is ticked has a box.
ScreenOK(s) == s \in ScreenShape /\ s.ticked \subseteq DOMAIN s.lists.channels

ScreensOK == screen \in [Consoles -> ScreenShape] /\ GrantsShown

LEMMA ScreenHas ==
  ASSUME ScreensOK, NEW c \in Consoles PROVE ScreenOK(screen[c])
BY DEF ScreensOK, ScreenOK, GrantsShown

LEMMA ScreenMade ==
  ASSUME ScreensOK, NEW c \in Consoles, NEW s, ScreenOK(s), screen' = [screen EXCEPT ![c] = s]
  PROVE  ScreensOK'
<1>1. screen' \in [Consoles -> ScreenShape]
  BY DEF ScreensOK, ScreenOK
<1>2. \A k \in Consoles : screen'[k].ticked \subseteq DOMAIN screen'[k].lists.channels
  <2> SUFFICES ASSUME NEW k \in Consoles
               PROVE  screen'[k].ticked \subseteq DOMAIN screen'[k].lists.channels
    OBVIOUS
  <2>1. screen'[k] = s \/ screen'[k] = screen[k]
    BY DEF ScreensOK
  <2> QED BY <2>1 DEF ScreensOK, ScreenOK, GrantsShown
<1> QED BY <1>1, <1>2 DEF ScreensOK, GrantsShown

LEMMA ScreenFields ==
  ASSUME NEW s \in ScreenShape
  PROVE  /\ s.who \in Users \cup {None} /\ s.token \in Tokens \cup {0} /\ s.pending \subseteq Kinds
         /\ s.lists \in Tables /\ s.editing \in Users \cup {None} /\ s.boxes \subseteq ChannelIds
         /\ s.ticked \subseteq ChannelIds /\ s.joins \subseteq Groups
         /\ DOMAIN s.lists.channels \subseteq ChannelIds /\ DOMAIN s.lists.users \subseteq Users
         /\ DOMAIN s.lists.groups \subseteq Groups
<1>1. s.lists \in Tables
  BY DEF ScreenShape
<1> QED BY <1>1, TablesKeys DEF ScreenShape

\* The empty tables, and a page that opens
LEMMA BlankOK ==
  /\ ScreenOK(Blank) /\ \A token \in Tokens \cup {0} : ScreenOK(Opening(token))
<1> DEFINE none == [EmptyTables EXCEPT !.channels = <<>>]
           seeded == Seeded(<<>>)
<1>1. none = [users |-> <<>>, channels |-> <<>>, groups |-> <<>>, grants |-> {}, members |-> {},
              bundles |-> {}]
  <2>1. EmptyTables = [users |-> <<>>, channels |-> seeded, groups |-> <<>>, grants |-> {},
                       members |-> {}, bundles |-> {}]
    BY DEF EmptyTables
  <2>2. ASSUME NEW a, NEW b, NEW x
        PROVE  [[users |-> a, channels |-> b, groups |-> a, grants |-> x, members |-> x,
                 bundles |-> x] EXCEPT !.channels = a]
               = [users |-> a, channels |-> a, groups |-> a, grants |-> x, members |-> x,
                  bundles |-> x]
    OBVIOUS
  <2> HIDE DEF seeded
  <2> QED BY <2>1, <2>2
<1>2. none \in Tables /\ none.channels = <<>>
  BY <1>1, EmptyTable, TablesTyped DEF TableTypes
<1> HIDE DEF none
<1>3. Blank = [who |-> None, token |-> 0, pending |-> {}, lists |-> none,
               editing |-> None, boxes |-> {}, ticked |-> {}, joins |-> {}]
  BY DEF Blank, none
<1>4. ScreenOK(Blank)
  BY <1>2, <1>3 DEF ScreenOK, ScreenShape
<1>5. ASSUME NEW token \in Tokens \cup {0} PROVE ScreenOK(Opening(token))
  <2>1. Opening(token) = [who |-> None, token |-> token, pending |-> {"open"}, lists |-> none,
                          editing |-> None, boxes |-> {}, ticked |-> {}, joins |-> {}]
    <3>1. Opening(token) = [Blank EXCEPT !.token = token, !.pending = {"open"}]
      BY DEF Opening
    <3> QED BY <1>3, <3>1
  <2> QED BY <1>2, <2>1 DEF ScreenOK, ScreenShape, Kinds
<1> QED BY <1>4, <1>5

\* A call that is sent carries what its kind asks for.
LEMMA CallMade ==
  ASSUME NEW c \in Consoles \cup {None}, NEW s \in ScreenShape, NEW kind \in Kinds, NEW id, NEW args,
         ArgsOK(kind, id, args), NEW k, k = CallOf(c, s, kind, id, args)
  PROVE  CallOK(k)
<1>1. k = [by |-> c, kind |-> kind, id |-> id, args |-> args, token |-> s.token,
           seen |-> DOMAIN s.lists.channels, edited |-> s.editing,
           stage |-> "sent", code |-> 0, row |-> <<>>]
  BY DEF CallOf
<1>2. /\ k.by = c /\ k.kind = kind /\ k.id = id /\ k.args = args /\ k.token = s.token
      /\ k.seen = DOMAIN s.lists.channels /\ k.edited = s.editing
      /\ k.stage = "sent" /\ k.code = 0 /\ k.row = <<>>
  BY <1>1
<1>3. CallShape(k)
  BY <1>1, <1>2 DEF CallShape
<1>4. s.token \in Tokens \cup {0} /\ DOMAIN s.lists.channels \subseteq ChannelIds
  BY ScreenFields
<1> QED BY <1>2, <1>3, <1>4 DEF CallOK

LEMMA SendKept ==
  ASSUME ScreensOK, CallsOK, NEW c \in Consoles, NEW kind \in Kinds, NEW id, NEW args,
         ArgsOK(kind, id, args), Send(c, Call(c, kind, id, args))
  PROVE  ScreensOK' /\ CallsOK'
<1> DEFINE s == screen[c]
           k == CallOf(c, s, kind, id, args)
           t == [s EXCEPT !.pending = s.pending \cup {kind}]
<1>1. ScreenOK(s) /\ s \in ScreenShape
  BY ScreenHas DEF ScreenOK
<1>2. k.kind = kind
  BY DEF CallOf
<1>3. screen' = [screen EXCEPT ![c] = t] /\ calls' = calls \cup {k}
  BY <1>2 DEF Send, Call, ScreensOK
<1>4. CallOK(k)
  BY <1>1, CallMade
<1>5. ScreenOK(t)
  <2> HIDE DEF s, k
  <2> QED BY <1>1 DEF ScreenOK, ScreenShape
<1> HIDE DEF s, k, t
<1>6. ScreensOK'
  BY <1>3, <1>5, ScreenMade
<1> QED BY <1>3, <1>4, <1>6 DEF CallsOK

LEMMA ChangeKept ==
  ASSUME ScreensOK, CallsOK, NEW c \in Consoles, NEW kind \in Kinds, NEW id, NEW args,
         ArgsOK(kind, id, args), Change(c, Call(c, kind, id, args))
  PROVE  ScreensOK' /\ CallsOK'
BY SendKept DEF Change

LEMMA ReloadKept ==
  ASSUME ScreensOK, CallsOK, InboxOK, NEW c \in Consoles, Reload(c)
  PROVE  ScreensOK' /\ CallsOK' /\ InboxOK'
<1> DEFINE token == screen[c].token
           k == OpenCall(c, token)
<1>1. token \in Tokens \cup {0}
  BY ScreenHas, ScreenFields DEF ScreenOK
<1> HIDE DEF token
<1>2. ScreenOK(Opening(token)) /\ Opening(token) \in ScreenShape
  BY <1>1, BlankOK DEF ScreenOK
<1>3. screen' = [screen EXCEPT ![c] = Opening(token)]
  BY DEF Reload, token
<1>4. ScreensOK'
  BY <1>2, <1>3, ScreenMade
<1>5. CallOK(k)
  BY <1>2, CallMade DEF OpenCall, ArgsOK, Kinds
<1>6. \A o \in Orphans(c) : CallOK(o)
  BY CallOrphaned DEF Orphans, CallsOK
<1>7. calls' = {o \in calls : o.by # c} \cup Orphans(c) \cup {k}
  BY DEF Reload, token
<1> HIDE DEF k
<1>8. CallsOK'
  BY <1>5, <1>6, <1>7 DEF CallsOK
<1>9. InboxOK'
  <2>1. inbox' = [inbox EXCEPT ![c] = <<>>]
    BY DEF Reload
  <2>2. <<>> \in Seq(Tables)
    OBVIOUS
  <2> QED BY <2>1, <2>2 DEF InboxOK
<1> QED BY <1>4, <1>8, <1>9

LEMMA SignInKept ==
  ASSUME ScreensOK, CallsOK, logins \in Nat, NEW c \in Consoles, NEW kind \in {"login", "setup"},
         NEW name \in UserNames, SignIn(c, kind, name)
  PROVE  ScreensOK' /\ CallsOK' /\ logins' \in Nat
<1> DEFINE args == [name |-> name, token |-> logins + 1]
<1>1. logins + 1 \in Tokens /\ logins' \in Nat
  BY AdminConsoleAssumption DEF SignIn, Tokens
<1>2. ArgsOK(kind, None, args)
  <2>1. args.name = name /\ args.token = logins + 1
    OBVIOUS
  <2> HIDE DEF args
  <2> QED BY <1>1, <2>1 DEF ArgsOK
<1>3. Send(c, Call(c, kind, None, args)) /\ kind \in Kinds
  BY DEF SignIn, Kinds
<1> HIDE DEF args
<1> QED BY <1>1, <1>2, <1>3, SendKept

LEMMA SignOutKept ==
  ASSUME ScreensOK, CallsOK, InboxOK, NEW c \in Consoles, SignOut(c)
  PROVE  ScreensOK' /\ CallsOK' /\ InboxOK'
<1> DEFINE s == screen[c]
           t == [s EXCEPT !.who = None, !.token = 0]
           k == [CallOf(c, s, "logout", None, <<>>) EXCEPT !.by = None]
<1>1. ScreenOK(s) /\ s \in ScreenShape
  BY ScreenHas DEF ScreenOK
<1>2. ScreenOK(t)
  <2> HIDE DEF s
  <2> QED BY <1>1 DEF ScreenOK, ScreenShape
<1>3. CallOK(CallOf(c, s, "logout", None, <<>>))
  BY <1>1, CallMade DEF ArgsOK, Kinds
<1>4. CallOK(k)
  BY <1>3, CallOrphaned
<1>5. screen' = [screen EXCEPT ![c] = t] /\ calls' = calls \cup {k}
  BY DEF SignOut, Call, ScreensOK
<1> HIDE DEF s, t, k
<1>6. ScreensOK'
  BY <1>2, <1>5, ScreenMade
<1>7. InboxOK'
  <2>1. inbox' = [inbox EXCEPT ![c] = <<>>]
    BY DEF SignOut
  <2>2. <<>> \in Seq(Tables)
    OBVIOUS
  <2> QED BY <2>1, <2>2 DEF InboxOK
<1> QED BY <1>4, <1>5, <1>6, <1>7 DEF CallsOK

\* The form of a user
LEMMA ClearedOK ==
  ASSUME NEW s, ScreenOK(s), NEW seen \in SUBSET ChannelIds PROVE ScreenOK(Cleared(s, seen))
BY AdminConsoleAssumption DEF Cleared, ScreenOK, ScreenShape

LEMMA BoxedOK ==
  ASSUME NEW s, s \in ScreenShape, NEW channels \in SUBSET ChannelIds,
         s.ticked \cap channels \subseteq DOMAIN s.lists.channels
  PROVE  ScreenOK(Boxed(s, channels))
<1> DEFINE t == [s EXCEPT !.boxes = channels, !.ticked = s.ticked \cap channels]
<1>1. Boxed(s, channels) = t
  BY DEF Boxed, ScreenShape
<1>2. t \in ScreenShape /\ t.ticked = s.ticked \cap channels /\ t.lists = s.lists
  BY DEF ScreenShape
<1> QED BY <1>1, <1>2 DEF ScreenOK

LEMMA EditKept ==
  ASSUME ScreensOK, NEW c \in Consoles, NEW u \in Users, Edit(c, u) PROVE ScreensOK'
<1> DEFINE s == screen[c]
           boxes == DOMAIN s.lists.channels
           ticked == Linked(s.lists.grants, u) \cap DOMAIN s.lists.channels
           joins == Linked(s.lists.members, u)
           t == [s EXCEPT !.editing = u, !.boxes = boxes, !.ticked = ticked, !.joins = joins]
<1>1. ScreenOK(s) /\ s \in ScreenShape
  BY ScreenHas DEF ScreenOK
<1>2. /\ boxes \subseteq ChannelIds /\ ticked \subseteq boxes
  BY <1>1, ScreenFields
<1>3. joins \subseteq Groups
  <2>1. s.lists \in Tables
    BY <1>1, ScreenFields
  <2>2. s.lists.members \in SUBSET (Users \X Groups)
    BY <2>1, TablesParts
  <2> QED BY <2>2 DEF Linked
<1>4. screen' = [screen EXCEPT ![c] = t]
  BY DEF Edit, ScreensOK
<1>5. boxes = DOMAIN s.lists.channels
  OBVIOUS
<1> HIDE DEF s, boxes, ticked, joins
<1>6. ScreenOK(t)
  <2>1. t \in ScreenShape
    BY <1>1, <1>2, <1>3 DEF ScreenShape
  <2>2. t.ticked = ticked /\ t.lists = s.lists
    BY <1>1 DEF ScreenShape
  <2> QED BY <1>2, <1>5, <2>1, <2>2 DEF ScreenOK
<1> HIDE DEF t
<1> QED BY <1>4, <1>6, ScreenMade

LEMMA CancelEditKept ==
  ASSUME ScreensOK, NEW c \in Consoles, CancelEdit(c) PROVE ScreensOK'
<1> DEFINE s == screen[c]
           t == Cleared(s, DOMAIN s.lists.channels)
<1>1. ScreenOK(s) /\ DOMAIN s.lists.channels \subseteq ChannelIds
  BY ScreenHas, ScreenFields DEF ScreenOK
<1>2. ScreenOK(t)
  BY <1>1, ClearedOK
<1>3. screen' = [screen EXCEPT ![c] = t]
  BY DEF CancelEdit
<1> HIDE DEF t
<1> QED BY <1>2, <1>3, ScreenMade

LEMMA TickKept ==
  ASSUME ScreensOK, NEW c \in Consoles, NEW channel, Tick(c, channel) PROVE ScreensOK'
<1> DEFINE s == screen[c]
           ticked == IF channel \in s.ticked THEN s.ticked \ {channel} ELSE s.ticked \cup {channel}
           t == [s EXCEPT !.ticked = ticked]
<1>1. ScreenOK(s) /\ s \in ScreenShape /\ s.ticked \subseteq DOMAIN s.lists.channels
  BY ScreenHas DEF ScreenOK
<1>2. ticked \subseteq DOMAIN s.lists.channels
  BY <1>1 DEF Tick
<1>3. ticked \subseteq ChannelIds
  BY <1>1, <1>2, ScreenFields
<1>4. screen' = [screen EXCEPT ![c] = t]
  BY DEF Tick, ScreensOK
<1> HIDE DEF s, ticked
<1>5. t \in ScreenShape /\ t.ticked = ticked /\ t.lists = s.lists
  BY <1>1, <1>3 DEF ScreenShape
<1>6. ScreenOK(t)
  BY <1>2, <1>5 DEF ScreenOK
<1> HIDE DEF t
<1> QED BY <1>4, <1>6, ScreenMade

LEMMA TickGroupKept ==
  ASSUME ScreensOK, NEW c \in Consoles, NEW g \in Groups, TickGroup(c, g) PROVE ScreensOK'
<1> DEFINE s == screen[c]
           joins == IF g \in s.joins THEN s.joins \ {g} ELSE s.joins \cup {g}
           t == [s EXCEPT !.joins = joins]
<1>1. ScreenOK(s) /\ s \in ScreenShape
  BY ScreenHas DEF ScreenOK
<1>2. joins \subseteq Groups
  BY <1>1, ScreenFields
<1>3. screen' = [screen EXCEPT ![c] = t]
  BY DEF TickGroup, ScreensOK
<1> HIDE DEF s, joins
<1>4. ScreenOK(t)
  BY <1>1, <1>2 DEF ScreenOK, ScreenShape
<1> HIDE DEF t
<1> QED BY <1>3, <1>4, ScreenMade

LEMMA SubmitUserKept ==
  ASSUME ScreensOK, CallsOK, NEW c \in Consoles, NEW row \in Typed, SubmitUser(c, row)
  PROVE  ScreensOK' /\ CallsOK'
<1> DEFINE args == [row |-> row, channels |-> screen[c].ticked, groups |-> screen[c].joins]
           id == screen[c].editing
<1>1. /\ id \in Users \cup {None} /\ screen[c].ticked \subseteq ChannelIds
      /\ screen[c].joins \subseteq Groups
  BY ScreenHas, ScreenFields DEF ScreenOK
<1>2. row \in UserRows
  BY AdminConsoleAssumption
<1>3. ArgsOK("user", id, args)
  BY <1>1, <1>2 DEF ArgsOK
<1>4. Change(c, Call(c, "user", id, args)) /\ "user" \in Kinds
  BY DEF SubmitUser, Kinds, Mutations
<1> HIDE DEF id, args
<1> QED BY <1>3, <1>4, ChangeKept

LEMMA SubmitChannelKept ==
  ASSUME ScreensOK, CallsOK, NEW c \in Consoles, NEW id \in ChannelIds \cup {None},
         NEW name \in ChannelNames, SubmitChannel(c, id, name)
  PROVE  ScreensOK' /\ CallsOK'
<1>1. ArgsOK("channel", id, name)
  BY DEF ArgsOK
<1>2. Change(c, Call(c, "channel", id, name)) /\ "channel" \in Kinds
  BY DEF SubmitChannel, Kinds, Mutations
<1> QED BY <1>1, <1>2, ChangeKept

LEMMA SubmitGroupKept ==
  ASSUME ScreensOK, CallsOK, NEW c \in Consoles, NEW id \in Groups \cup {None},
         NEW name \in GroupNames, NEW picks, SubmitGroup(c, id, name, picks)
  PROVE  ScreensOK' /\ CallsOK'
<1> DEFINE lists == screen[c].lists
           hidden == IF id = None THEN {} ELSE Linked(lists.bundles, id) \ DOMAIN lists.channels
           channels == picks \cup hidden
           args == [name |-> name, channels |-> channels]
<1>1. Change(c, Call(c, "group", id, args)) /\ "group" \in Kinds
  BY DEF SubmitGroup, Kinds, Mutations
<1> HIDE DEF channels
<1>2. ArgsOK("group", id, args)
  BY DEF ArgsOK
<1> HIDE DEF args
<1> QED BY <1>1, <1>2, ChangeKept

\* The deletions
LEMMA HandleDeleteKept ==
  ASSUME ScreensOK, CallsOK, NEW c \in Consoles, NEW id,
         \/ id \in Users /\ HandleDeleteUser(c, id)
         \/ id \in ChannelIds /\ HandleDeleteChannel(c, id)
         \/ id \in Groups /\ HandleDeleteGroup(c, id)
  PROVE  ScreensOK' /\ CallsOK'
<1>1. PICK kind \in {"no user", "no channel", "no group"} : Change(c, Call(c, kind, id, <<>>))
  BY DEF HandleDeleteUser, HandleDeleteChannel, HandleDeleteGroup
<1>2. id # None
  BY AdminConsoleAssumption
<1>3. ArgsOK(kind, id, <<>>) /\ kind \in Kinds
  BY <1>2 DEF ArgsOK, Kinds, Mutations
<1> QED BY <1>1, <1>3, ChangeKept

-----------------------------------------------------------------------------
(* The screens: answers and dashboards *)

\* A relation stays one of its ids when an id of them is linked to others.
LEMMA RelinkedType ==
  ASSUME NEW A, NEW B, NEW R \in SUBSET (A \X B), NEW id, NEW S \in SUBSET B, id \in A \/ S = {}
  PROVE  Relinked(R, id, S) \in SUBSET (A \X B)
BY DEF Relinked

\* Other lists on the screen, with the same channels or more
LEMMA ListsOK ==
  ASSUME NEW s, ScreenOK(s), NEW lists \in Tables, DOMAIN s.lists.channels \subseteq DOMAIN lists.channels,
         NEW t, t = [s EXCEPT !.lists = lists]
  PROVE  ScreenOK(t)
<1>1. t \in ScreenShape /\ t.ticked = s.ticked /\ t.lists = lists
  BY DEF ScreenOK, ScreenShape
<1> QED BY <1>1 DEF ScreenOK

LEMMA AppliedUser ==
  ASSUME NEW s, ScreenOK(s), NEW call, CallOK(call), call.kind = "user", RowOK("user", call.row)
  PROVE  ScreenOK(Applied(s, call))
<1> DEFINE row == call.row
           old == s.lists
           lists == [old EXCEPT !.users = With(old.users, row.id, row.row),
                                !.grants = Relinked(old.grants, row.id, row.grants),
                                !.members = Relinked(old.members, row.id, row.members)]
           t == [s EXCEPT !.lists = lists]
<1>1. /\ row.id \in Users /\ row.row \in UserRows /\ row.grants \in SUBSET ChannelIds
      /\ row.members \in SUBSET Groups
  BY DEF RowOK
<1>2. old \in Tables /\ s \in ScreenShape
  BY DEF ScreenOK, ScreenShape
<1>3. /\ With(old.users, row.id, row.row) \in Table(Users, UserRows)
      /\ Relinked(old.grants, row.id, row.grants) \in SUBSET (Users \X ChannelIds)
      /\ Relinked(old.members, row.id, row.members) \in SUBSET (Users \X Groups)
  <2>1. /\ old.users \in Table(Users, UserRows) /\ old.grants \in SUBSET (Users \X ChannelIds)
        /\ old.members \in SUBSET (Users \X Groups)
    BY <1>2, TablesParts
  <2> HIDE DEF old, row
  <2>2. With(old.users, row.id, row.row) \in Table(Users, UserRows)
    BY <1>1, <2>1, WithTable
  <2>3. Relinked(old.grants, row.id, row.grants) \in SUBSET (Users \X ChannelIds)
    BY <1>1, <2>1, RelinkedType
  <2>4. Relinked(old.members, row.id, row.members) \in SUBSET (Users \X Groups)
    BY <1>1, <2>1, RelinkedType
  <2> QED BY <2>2, <2>3, <2>4
<1>4. Applied(s, call) = Cleared(t, call.seen)
  BY <1>2 DEF Applied, ScreenShape
<1> HIDE DEF old, row
<1>5. lists \in Tables /\ lists.channels = old.channels
  BY <1>2, <1>3, TablesTyped DEF TableTypes
<1> HIDE DEF lists
<1>6. ScreenOK(t)
  BY <1>5, ListsOK DEF old
<1> HIDE DEF t
<1> QED BY <1>4, <1>6, ClearedOK DEF CallOK

LEMMA AppliedNoUser ==
  ASSUME NEW s, ScreenOK(s), NEW call, CallOK(call), call.kind = "no user"
  PROVE  ScreenOK(Applied(s, call))
<1> DEFINE old == s.lists
           lists == [old EXCEPT !.users = Without(old.users, call.id),
                                !.grants = Relinked(old.grants, call.id, {}),
                                !.members = Relinked(old.members, call.id, {})]
           t == [s EXCEPT !.lists = lists]
<1>1. old \in Tables /\ s \in ScreenShape
  BY DEF ScreenOK, ScreenShape
<1>2. /\ Without(old.users, call.id) \in Table(Users, UserRows)
      /\ Relinked(old.grants, call.id, {}) \in SUBSET (Users \X ChannelIds)
      /\ Relinked(old.members, call.id, {}) \in SUBSET (Users \X Groups)
  <2>1. /\ old.users \in Table(Users, UserRows) /\ old.grants \in SUBSET (Users \X ChannelIds)
        /\ old.members \in SUBSET (Users \X Groups)
    BY <1>1, TablesParts
  <2> HIDE DEF old
  <2>2. Without(old.users, call.id) \in Table(Users, UserRows)
    BY <2>1, WithoutTable
  <2>3. Relinked(old.grants, call.id, {}) \in SUBSET (Users \X ChannelIds)
    BY <2>1 DEF Relinked
  <2>4. Relinked(old.members, call.id, {}) \in SUBSET (Users \X Groups)
    BY <2>1 DEF Relinked
  <2> QED BY <2>2, <2>3, <2>4
<1>3. Applied(s, call) = Forget(t, call)
  <2>1. /\ [s EXCEPT !.lists.users = Without(@, call.id), !.lists.grants = Relinked(@, call.id, {}),
                     !.lists.members = Relinked(@, call.id, {})] = t
    BY <1>1, TablesTyped DEF ScreenShape, TableTypes
  <2> QED BY <2>1 DEF Applied
<1> HIDE DEF old
<1>4. lists \in Tables /\ lists.channels = old.channels
  BY <1>1, <1>2, TablesTyped DEF TableTypes
<1> HIDE DEF lists
<1>5. ScreenOK(t)
  BY <1>4, ListsOK DEF old
<1> HIDE DEF t
<1> QED BY <1>3, <1>5, ClearedOK DEF Forget, CallOK

LEMMA AppliedChannel ==
  ASSUME NEW s, ScreenOK(s), NEW call, CallOK(call), call.kind = "channel",
         RowOK("channel", call.row)
  PROVE  ScreenOK(Applied(s, call))
<1> DEFINE row == call.row
           old == s.lists
           lists == [old EXCEPT !.channels = With(old.channels, row.id, row.name)]
           t == [s EXCEPT !.lists = lists]
<1>1. row.id \in ChannelIds /\ row.name \in ChannelNames
  BY DEF RowOK
<1>2. old \in Tables /\ s \in ScreenShape
  BY DEF ScreenOK, ScreenShape
<1>3. /\ With(old.channels, row.id, row.name) \in Table(ChannelIds, ChannelNames)
      /\ DOMAIN With(old.channels, row.id, row.name) = DOMAIN old.channels \cup {row.id}
  <2>1. old.channels \in Table(ChannelIds, ChannelNames)
    BY <1>2, TablesParts
  <2> HIDE DEF old, row
  <2>2. DOMAIN With(old.channels, row.id, row.name) = DOMAIN old.channels \cup {row.id}
    BY DEF With
  <2> QED BY <1>1, <2>1, <2>2, WithTable
<1>4. Applied(s, call) = Boxed(t, call.seen \cup {row.id})
  <2>1. [s EXCEPT !.lists.channels = With(@, row.id, row.name)] = t
    BY <1>2, TablesTyped DEF ScreenShape, TableTypes
  <2> QED BY <2>1 DEF Applied
<1> HIDE DEF old, row
<1>5. lists \in Tables /\ DOMAIN lists.channels = DOMAIN old.channels \cup {row.id}
  BY <1>2, <1>3, TablesTyped DEF TableTypes
<1> HIDE DEF lists
<1>6. ScreenOK(t)
  BY <1>5, ListsOK DEF old
<1>7. call.seen \cup {row.id} \in SUBSET ChannelIds
  BY <1>1 DEF CallOK
<1> HIDE DEF t
<1> QED BY <1>4, <1>6, <1>7, BoxedOK DEF ScreenOK

LEMMA AppliedNoChannel ==
  ASSUME NEW s, ScreenOK(s), NEW call, CallOK(call), call.kind = "no channel"
  PROVE  ScreenOK(Applied(s, call))
<1> DEFINE old == s.lists
           grants == {p \in old.grants : p[2] # call.id}
           lists == [old EXCEPT !.channels = Without(old.channels, call.id), !.grants = grants]
           t == [s EXCEPT !.lists = lists]
<1>1. old \in Tables /\ s \in ScreenShape /\ s.ticked \subseteq DOMAIN old.channels
  BY DEF ScreenOK, ScreenShape
<1>2. /\ Without(old.channels, call.id) \in Table(ChannelIds, ChannelNames)
      /\ DOMAIN Without(old.channels, call.id) = DOMAIN old.channels \ {call.id}
      /\ grants \in SUBSET (Users \X ChannelIds)
  <2>1. old.channels \in Table(ChannelIds, ChannelNames) /\ old.grants \in SUBSET (Users \X ChannelIds)
    BY <1>1, TablesParts
  <2>2. grants \subseteq old.grants
    OBVIOUS
  <2> HIDE DEF old, grants
  <2>3. DOMAIN Without(old.channels, call.id) = DOMAIN old.channels \ {call.id}
    BY DEF Without, Restrict
  <2>4. Without(old.channels, call.id) \in Table(ChannelIds, ChannelNames)
    BY <2>1, WithoutTable
  <2> QED BY <2>1, <2>2, <2>3, <2>4
<1>3. Applied(s, call) = Boxed(t, call.seen \ {call.id})
  <2>1. [s EXCEPT !.lists.channels = Without(@, call.id),
                  !.lists.grants = {p \in @ : p[2] # call.id}] = t
    BY <1>1, TablesTyped DEF ScreenShape, TableTypes
  <2> QED BY <2>1 DEF Applied
<1>4. old = s.lists
  OBVIOUS
<1> HIDE DEF old, grants
<1>5. lists \in Tables /\ DOMAIN lists.channels = DOMAIN old.channels \ {call.id}
  BY <1>1, <1>2, TablesTyped DEF TableTypes
<1> HIDE DEF lists
<1>6. t \in ScreenShape /\ t.ticked = s.ticked /\ t.lists = lists
  BY <1>1, <1>5 DEF ScreenShape
<1>7. call.seen \ {call.id} \in SUBSET ChannelIds
  BY DEF CallOK
<1>8. t.ticked \cap (call.seen \ {call.id}) \subseteq DOMAIN t.lists.channels
  BY <1>1, <1>5, <1>6
<1> HIDE DEF t
<1> QED BY <1>3, <1>6, <1>7, <1>8, BoxedOK

LEMMA AppliedGroup ==
  ASSUME NEW s, ScreenOK(s), NEW call, CallOK(call), call.kind = "group", RowOK("group", call.row)
  PROVE  ScreenOK(Applied(s, call))
<1> DEFINE row == call.row
           old == s.lists
           lists == [old EXCEPT !.groups = With(old.groups, row.id, row.name),
                                !.bundles = Relinked(old.bundles, row.id, row.bundles)]
           t == [s EXCEPT !.lists = lists]
<1>1. row.id \in Groups /\ row.name \in GroupNames /\ row.bundles \in SUBSET ChannelIds
  BY DEF RowOK
<1>2. old \in Tables /\ s \in ScreenShape
  BY DEF ScreenOK, ScreenShape
<1>3. /\ With(old.groups, row.id, row.name) \in Table(Groups, GroupNames)
      /\ Relinked(old.bundles, row.id, row.bundles) \in SUBSET (Groups \X ChannelIds)
  <2>1. old.groups \in Table(Groups, GroupNames) /\ old.bundles \in SUBSET (Groups \X ChannelIds)
    BY <1>2, TablesParts
  <2> HIDE DEF old, row
  <2>2. With(old.groups, row.id, row.name) \in Table(Groups, GroupNames)
    BY <1>1, <2>1, WithTable
  <2>3. Relinked(old.bundles, row.id, row.bundles) \in SUBSET (Groups \X ChannelIds)
    BY <1>1, <2>1, RelinkedType
  <2> QED BY <2>2, <2>3
<1>4. Applied(s, call) = t
  <2>1. [s EXCEPT !.lists.groups = With(@, row.id, row.name),
                  !.lists.bundles = Relinked(@, row.id, row.bundles)] = t
    BY <1>2, TablesTyped DEF ScreenShape, TableTypes
  <2> QED BY <2>1 DEF Applied
<1> HIDE DEF old, row
<1>5. lists \in Tables /\ lists.channels = old.channels
  BY <1>2, <1>3, TablesTyped DEF TableTypes
<1> HIDE DEF lists
<1> QED BY <1>4, <1>5, ListsOK DEF old

LEMMA AppliedNoGroup ==
  ASSUME NEW s, ScreenOK(s), NEW call, CallOK(call), call.kind = "no group"
  PROVE  ScreenOK(Applied(s, call))
<1> DEFINE old == s.lists
           lists == [old EXCEPT !.groups = Without(old.groups, call.id)]
           t == [s EXCEPT !.lists = lists]
<1>1. old \in Tables /\ s \in ScreenShape
  BY DEF ScreenOK, ScreenShape
<1>2. Without(old.groups, call.id) \in Table(Groups, GroupNames)
  <2>1. old.groups \in Table(Groups, GroupNames)
    BY <1>1, TablesParts
  <2> HIDE DEF old
  <2> QED BY <2>1, WithoutTable
<1>3. Applied(s, call) = t
  <2>1. [s EXCEPT !.lists.groups = Without(@, call.id)] = t
    BY <1>1, TablesTyped DEF ScreenShape, TableTypes
  <2> QED BY <2>1 DEF Applied
<1> HIDE DEF old
<1>4. lists \in Tables /\ lists.channels = old.channels
  BY <1>1, <1>2, TablesTyped DEF TableTypes
<1> HIDE DEF lists
<1> QED BY <1>3, <1>4, ListsOK DEF old

\* What follows the screen that ends the wait for a call
LEMMA WaitOver ==
  ASSUME ScreensOK, NEW c \in Consoles, NEW kind, NEW s,
         s = [screen[c] EXCEPT !.pending = @ \ {kind}]
  PROVE  ScreenOK(s)
<1>1. ScreenOK(screen[c]) /\ screen[c] \in ScreenShape
  BY ScreenHas DEF ScreenOK
<1> QED BY <1>1 DEF ScreenOK, ScreenShape

LEMMA TakeChangeKept ==
  ASSUME ScreensOK, CallsOK, NEW call \in calls, TakeChange(call) PROVE ScreensOK' /\ CallsOK'
<1> DEFINE c == call.by
           s == [screen[c] EXCEPT !.pending = @ \ {call.kind}]
           t == IF call.code \in {200, 201, 204} THEN Applied(s, call) ELSE s
<1>1. CallOK(call) /\ c \in Consoles /\ call.kind \in Mutations /\ call.stage = "answered"
  BY DEF CallsOK, CallOK, TakeChange
<1>2. ScreenOK(s)
  BY <1>1, WaitOver
<1>3. screen' = [screen EXCEPT ![c] = t] /\ calls' = calls \ {call}
  BY DEF TakeChange
<1> HIDE DEF s
<1>4. ScreenOK(t)
  <2>1. CASE call.code \in {200, 201, 204}
    <3>1. RowOK(call.kind, call.row)
      BY <1>1, <2>1 DEF CallOK
    <3>2. ScreenOK(Applied(s, call))
      <4>1. CASE call.kind = "user"
        BY <1>1, <1>2, <3>1, <4>1, AppliedUser
      <4>2. CASE call.kind = "no user"
        BY <1>1, <1>2, <4>2, AppliedNoUser
      <4>3. CASE call.kind = "channel"
        BY <1>1, <1>2, <3>1, <4>3, AppliedChannel
      <4>4. CASE call.kind = "no channel"
        BY <1>1, <1>2, <4>4, AppliedNoChannel
      <4>5. CASE call.kind = "group"
        BY <1>1, <1>2, <3>1, <4>5, AppliedGroup
      <4>6. CASE call.kind = "no group"
        BY <1>1, <1>2, <4>6, AppliedNoGroup
      <4> QED BY <1>1, <4>1, <4>2, <4>3, <4>4, <4>5, <4>6 DEF Mutations
    <3> QED BY <2>1, <3>2
  <2>2. CASE call.code \notin {200, 201, 204}
    BY <1>2, <2>2
  <2> QED BY <2>1, <2>2
<1> HIDE DEF c, t
<1>5. ScreensOK'
  BY <1>1, <1>3, <1>4, ScreenMade
<1> QED BY <1>3, <1>5 DEF CallsOK

\* A session on a screen, and the call for its users and groups
LEMMA SignedOK ==
  ASSUME NEW s, ScreenOK(s), NEW who \in Users \cup {None}, NEW token \in Tokens \cup {0}
  PROVE  ScreenOK(Signed(s, who, token))
BY DEF Signed, ScreenOK, ScreenShape

LEMMA LoadCallOK ==
  ASSUME NEW c \in Consoles, NEW s, ScreenOK(s) PROVE CallOK(LoadCall(c, s))
BY CallMade DEF LoadCall, ScreenOK, ArgsOK, Kinds

LEMMA TakeSignInKept ==
  ASSUME ScreensOK, CallsOK, NEW call \in calls, TakeSignIn(call) PROVE ScreensOK' /\ CallsOK'
<1> DEFINE c == call.by
           s == [screen[c] EXCEPT !.pending = @ \ {call.kind}]
           t == Signed(s, call.row.who, call.args.token)
<1>1. CallOK(call) /\ c \in Consoles /\ call.kind \in {"login", "setup"} /\ call.stage = "answered"
  BY DEF CallsOK, CallOK, TakeSignIn
<1>2. ScreenOK(s)
  BY <1>1, WaitOver
<1> HIDE DEF s
<1>3. CASE call.code \in {200, 201} /\ call.row.role = "admin"
  <2>1. call.row.who \in Users /\ call.args.token \in Tokens
    BY <1>1, <1>3 DEF CallOK, ArgsOK, RowOK
  <2>2. ScreenOK(t)
    BY <1>2, <2>1, SignedOK
  <2>3. CallOK(LoadCall(c, t))
    BY <1>1, <2>2, LoadCallOK
  <2>4. screen' = [screen EXCEPT ![c] = t] /\ calls' = (calls \ {call}) \cup {LoadCall(c, t)}
    BY <1>3 DEF TakeSignIn, s
  <2> HIDE DEF c, t
  <2>5. ScreensOK'
    BY <1>1, <2>2, <2>4, ScreenMade
  <2> QED BY <2>3, <2>4, <2>5 DEF CallsOK
<1>4. CASE ~(call.code \in {200, 201} /\ call.row.role = "admin")
  <2>1. screen' = [screen EXCEPT ![c] = s] /\ calls' = calls \ {call}
    BY <1>4 DEF TakeSignIn, s
  <2> HIDE DEF c
  <2>2. ScreensOK'
    BY <1>1, <1>2, <2>1, ScreenMade
  <2> QED BY <2>1, <2>2 DEF CallsOK
<1> QED BY <1>3, <1>4

LEMMA TakeOpenKept ==
  ASSUME ScreensOK, CallsOK, NEW call \in calls, TakeOpen(call) PROVE ScreensOK' /\ CallsOK'
<1> DEFINE c == call.by
           row == IF call.code = 200 THEN call.row ELSE [who |-> None, channels |-> <<>>]
           s == [Blank EXCEPT !.lists.channels = row.channels, !.boxes = DOMAIN row.channels]
           t == Signed(s, row.who, call.token)
<1>1. CallOK(call) /\ c \in Consoles /\ call.kind = "open" /\ call.stage = "answered"
  BY DEF CallsOK, CallOK, TakeOpen
<1>2. row.who \in Users \cup {None} /\ row.channels \in Table(ChannelIds, ChannelNames)
  <2>1. CASE call.code = 200
    BY <1>1, <2>1 DEF CallOK, RowOK
  <2>2. CASE call.code # 200
    BY <2>2, EmptyTable
  <2> QED BY <2>1, <2>2
<1> HIDE DEF row
<1>3. ScreenOK(s)
  <2> DEFINE lists == [Blank.lists EXCEPT !.channels = row.channels]
  <2>1. Blank \in ScreenShape /\ Blank.ticked = {}
    <3>1. Blank.ticked = {}
      BY DEF Blank
    <3> QED BY <3>1, BlankOK DEF ScreenOK
  <2>2. lists \in Tables
    BY <1>2, <2>1, TablesTyped DEF ScreenShape, TableTypes
  <2>3. DOMAIN row.channels \in SUBSET ChannelIds
    BY <1>2, TableParts
  <2>4. s = [Blank EXCEPT !.lists = lists, !.boxes = DOMAIN row.channels]
    BY <2>1 DEF ScreenShape
  <2> HIDE DEF lists, s
  <2>5. s \in ScreenShape /\ s.ticked = {}
    BY <2>1, <2>2, <2>3, <2>4 DEF ScreenShape
  <2> QED BY <2>5 DEF ScreenOK
<1> HIDE DEF s
<1>4. CASE row.who # None
  <2>1. ScreenOK(t)
    BY <1>1, <1>2, <1>3, SignedOK DEF CallOK
  <2>2. CallOK(LoadCall(c, t))
    BY <1>1, <2>1, LoadCallOK
  <2>3. screen' = [screen EXCEPT ![c] = t] /\ calls' = (calls \ {call}) \cup {LoadCall(c, t)}
    BY <1>4 DEF TakeOpen, row, s
  <2> HIDE DEF c, t
  <2>4. ScreensOK'
    BY <1>1, <2>1, <2>3, ScreenMade
  <2> QED BY <2>2, <2>3, <2>4 DEF CallsOK
<1>5. CASE row.who = None
  <2>1. screen' = [screen EXCEPT ![c] = s] /\ calls' = calls \ {call}
    BY <1>5 DEF TakeOpen, row, s
  <2> HIDE DEF c
  <2>2. ScreensOK'
    BY <1>1, <1>3, <2>1, ScreenMade
  <2> QED BY <2>1, <2>2 DEF CallsOK
<1> QED BY <1>4, <1>5

LEMMA TakeLoadKept ==
  ASSUME ScreensOK, CallsOK, NEW call \in calls, TakeLoad(call) PROVE ScreensOK' /\ CallsOK'
<1> DEFINE c == call.by
           s == screen[c]
           lists == [call.row EXCEPT !.channels = s.lists.channels]
           t == [s EXCEPT !.lists = lists]
<1>1. CallOK(call) /\ c \in Consoles /\ call.kind = "load" /\ call.stage = "answered"
  BY DEF CallsOK, CallOK, TakeLoad
<1>2. CallsOK'
  BY DEF CallsOK, TakeLoad
<1>3. CASE call.code # 200 \/ call.token # s.token
  BY <1>2, <1>3 DEF TakeLoad, ScreensOK, GrantsShown
<1>4. CASE ~(call.code # 200 \/ call.token # s.token)
  <2>1. screen' = [screen EXCEPT ![c] = t]
    BY <1>4 DEF TakeLoad, ScreensOK
  <2>2. ScreenOK(s) /\ s.lists \in Tables /\ call.row \in Tables
    BY <1>1, <1>4, ScreenHas, ScreenFields DEF CallOK, RowOK, ScreenOK
  <2> HIDE DEF s
  <2>3. lists \in Tables /\ lists.channels = s.lists.channels
    BY <2>2, TablesTyped DEF TableTypes
  <2> HIDE DEF lists
  <2>4. ScreenOK(t)
    BY <2>2, <2>3, ListsOK
  <2> HIDE DEF c, t
  <2>5. ScreensOK'
    BY <1>1, <2>1, <2>4, ScreenMade
  <2> QED BY <1>2, <2>5
<1> QED BY <1>3, <1>4

LEMMA TakeDashboardKept ==
  ASSUME ScreensOK, InboxOK, NEW c \in Consoles, TakeDashboard(c) PROVE ScreensOK' /\ InboxOK'
<1> DEFINE s == screen[c]
           lists == Head(inbox[c])
           u == [s EXCEPT !.lists = lists]
           t == Boxed(u, DOMAIN lists.channels)
<1>1. inbox[c] \in Seq(Tables) /\ inbox[c] # <<>>
  BY DEF InboxOK, TakeDashboard
<1>2. lists \in Tables /\ Tail(inbox[c]) \in Seq(Tables)
  BY <1>1
<1>3. InboxOK'
  <2>1. inbox' = [inbox EXCEPT ![c] = Tail(inbox[c])]
    BY DEF TakeDashboard, InboxOK
  <2> QED BY <1>2, <2>1 DEF InboxOK
<1>4. CASE ~SignedIn(c)
  BY <1>3, <1>4 DEF TakeDashboard, ScreensOK, GrantsShown
<1>5. CASE SignedIn(c)
  <2>1. screen' = [screen EXCEPT ![c] = t]
    BY <1>5 DEF TakeDashboard
  <2>2. s \in ScreenShape
    BY ScreenHas DEF ScreenOK
  <2>3. DOMAIN lists.channels \in SUBSET ChannelIds
    BY <1>2, TablesKeys
  <2> HIDE DEF s, lists
  <2>4. u \in ScreenShape /\ u.lists = lists
    BY <1>2, <2>2 DEF ScreenShape
  <2> HIDE DEF u
  <2>5. ScreenOK(t)
    BY <2>3, <2>4, BoxedOK
  <2> HIDE DEF t
  <2>6. ScreensOK'
    BY <2>1, <2>5, ScreenMade
  <2> QED BY <1>3, <2>6
<1> QED BY <1>4, <1>5

-----------------------------------------------------------------------------
(* What holds of every state *)

\* Tables with an admin, sessions, screens, dashboards and calls as they should
\* be: a call must carry what its kind asks for, and its answer what the tables
\* held, for a screen to stay sound when it takes the answer.
AccountsInv ==
  /\ DbInv /\ StoreOK /\ ScreensOK /\ InboxOK /\ CallsOK /\ logins \in Nat

LEMMA InitAccounts == Init => AccountsInv
<1> SUFFICES ASSUME Init PROVE AccountsInv
  OBVIOUS
<1> DEFINE whose(start, c) == IF start.token[c] = 0 THEN None ELSE start.store[start.token[c]]
           Begun(start) ==
             /\ db = start.db /\ issued = start.issued /\ store = start.store
             /\ screen = [c \in Consoles |-> Settled(db, whose(start, c), start.token[c])]
             /\ inbox = [c \in Consoles |-> <<>>]
             /\ calls = {OpenCall(c, 0) : c \in {c \in Consoles : whose(start, c) = None}}
             /\ logins = start.used[1]
<1>1. PICK start \in Starts : Begun(start)
  BY DEF Init
<1>2. Sound(start)
  BY AdminConsoleAssumption
<1> DEFINE who(c) == whose(start, c)
<1>3. Begun(start)
  BY <1>1
<1>4. DbInv
  BY <1>2, <1>3 DEF DbInv, Sound, Fine, AdminRemains
<1>5. StoreOK
  BY <1>2, <1>3 DEF StoreOK, Sound
<1>6. ASSUME NEW c \in Consoles PROVE who(c) \in Users \cup {None} /\ start.token[c] \in Tokens \cup {0}
  BY <1>2 DEF Sound
<1>7. ASSUME NEW c \in Consoles PROVE ScreenOK(Settled(db, who(c), start.token[c]))
  <2> DEFINE w == who(c)
             token == start.token[c]
             t == [Blank EXCEPT !.who = w, !.token = token, !.lists = db, !.boxes = DOMAIN db.channels]
  <2>1. w \in Users \cup {None} /\ token \in Tokens \cup {0}
    BY <1>6
  <2> HIDE DEF w, token
  <2>2. CASE w = None
    <3>1. 0 \in Tokens \cup {0}
      OBVIOUS
    <3>2. ScreenOK(Opening(0))
      BY <3>1, BlankOK
    <3> QED BY <2>2, <3>2 DEF Settled, w
  <2>3. CASE w # None
    <3>1. Settled(db, w, token) = t
      BY <2>3 DEF Settled
    <3>2. db \in Tables
      BY <1>4 DEF DbInv, Fine
    <3>3. DOMAIN db.channels \in SUBSET ChannelIds
      BY <3>2, TablesKeys
    <3>4. Blank.ticked = {}
      BY DEF Blank
    <3>5. Blank \in ScreenShape
      BY BlankOK DEF ScreenOK
    <3>6. t \in ScreenShape /\ t.ticked = {}
      BY <2>1, <3>2, <3>3, <3>4, <3>5 DEF ScreenShape
    <3> QED BY <3>1, <3>6 DEF ScreenOK, w, token
  <2> QED BY <2>2, <2>3
<1>8. ScreensOK
  BY <1>3, <1>7 DEF ScreensOK, ScreenOK, GrantsShown
<1>9. InboxOK
  <2>1. inbox = [c \in Consoles |-> <<>>]
    BY <1>3
  <2>2. <<>> \in Seq(Tables)
    OBVIOUS
  <2> QED BY <2>1, <2>2 DEF InboxOK
<1>10. CallsOK
  <2> SUFFICES ASSUME NEW k \in calls PROVE CallOK(k)
    BY DEF CallsOK
  <2>1. PICK c \in Consoles : k = OpenCall(c, 0)
    BY <1>3
  <2>2. 0 \in Tokens \cup {0}
    OBVIOUS
  <2>3. Opening(0) \in ScreenShape
    BY <2>2, BlankOK DEF ScreenOK
  <2> QED BY <2>1, <2>3, CallMade DEF OpenCall, ArgsOK, Kinds
<1>11. logins \in Nat
  BY <1>2, <1>3 DEF Sound
<1> QED BY <1>4, <1>5, <1>8, <1>9, <1>10, <1>11 DEF AccountsInv

\* Each part only depends on its variables.
LEMMA Stays ==
  ASSUME AccountsInv
  PROVE  /\ UNCHANGED <<db, issued>> => DbInv'
         /\ UNCHANGED store => StoreOK'
         /\ UNCHANGED screen => ScreensOK'
         /\ UNCHANGED inbox => InboxOK'
         /\ UNCHANGED calls => CallsOK'
         /\ UNCHANGED logins => logins' \in Nat
<1>1. UNCHANGED <<db, issued>> => DbInv'
  BY DEF AccountsInv, DbInv, AdminRemains
<1>2. UNCHANGED store => StoreOK'
  BY DEF AccountsInv, StoreOK
<1>3. UNCHANGED screen => ScreensOK'
  BY DEF AccountsInv, ScreensOK, GrantsShown
<1>4. UNCHANGED inbox => InboxOK'
  BY DEF AccountsInv, InboxOK
<1>5. UNCHANGED calls => CallsOK'
  BY DEF AccountsInv, CallsOK
<1>6. UNCHANGED logins => logins' \in Nat
  BY DEF AccountsInv
<1> QED BY <1>1, <1>2, <1>3, <1>4, <1>5, <1>6

LEMMA ScreenStepKept ==
  ASSUME AccountsInv, NEW c \in Consoles, ScreenStep(c) PROVE AccountsInv'
<1> USE DEF counters
<1>1. ScreensOK /\ InboxOK /\ CallsOK /\ logins \in Nat
  BY DEF AccountsInv
<1>2. CASE Reload(c)
  BY <1>1, <1>2, Stays, ReloadKept DEF Reload, AccountsInv
<1>3. CASE SignOut(c)
  BY <1>1, <1>3, Stays, SignOutKept DEF SignOut, AccountsInv
<1>4. CASE CancelEdit(c)
  BY <1>1, <1>4, Stays, CancelEditKept DEF CancelEdit, AccountsInv
<1>5. CASE TakeDashboard(c)
  BY <1>1, <1>5, Stays, TakeDashboardKept DEF TakeDashboard, AccountsInv
<1>6. ASSUME NEW kind \in {"login", "setup"}, NEW name \in UserNames, SignIn(c, kind, name)
      PROVE  AccountsInv'
  BY <1>1, <1>6, Stays, SignInKept DEF SignIn, AccountsInv
<1>7. ASSUME NEW u \in Users, Edit(c, u) PROVE AccountsInv'
  BY <1>1, <1>7, Stays, EditKept DEF Edit, AccountsInv
<1>8. ASSUME NEW channel \in ChannelIds, Tick(c, channel) PROVE AccountsInv'
  BY <1>1, <1>8, Stays, TickKept DEF Tick, AccountsInv
<1>9. ASSUME NEW g \in Groups, TickGroup(c, g) PROVE AccountsInv'
  BY <1>1, <1>9, Stays, TickGroupKept DEF TickGroup, AccountsInv
<1>10. ASSUME NEW row \in Typed, SubmitUser(c, row) PROVE AccountsInv'
  BY <1>1, <1>10, Stays, SubmitUserKept DEF SubmitUser, Change, AccountsInv
<1>11. ASSUME NEW id \in ChannelIds \cup {None}, NEW name \in ChannelNames, SubmitChannel(c, id, name)
       PROVE  AccountsInv'
  BY <1>1, <1>11, Stays, SubmitChannelKept DEF SubmitChannel, Change, AccountsInv
<1>12. ASSUME NEW id \in Groups \cup {None}, NEW name \in GroupNames, NEW picks \in SUBSET ChannelIds,
              SubmitGroup(c, id, name, picks)
       PROVE  AccountsInv'
  BY <1>1, <1>12, Stays, SubmitGroupKept DEF SubmitGroup, Change, AccountsInv
<1>13. ASSUME NEW u \in Users, HandleDeleteUser(c, u) PROVE AccountsInv'
  BY <1>1, <1>13, Stays, HandleDeleteKept DEF HandleDeleteUser, Change, AccountsInv
<1>14. ASSUME NEW id \in ChannelIds, HandleDeleteChannel(c, id) PROVE AccountsInv'
  BY <1>1, <1>14, Stays, HandleDeleteKept DEF HandleDeleteChannel, Change, AccountsInv
<1>15. ASSUME NEW g \in Groups, HandleDeleteGroup(c, g) PROVE AccountsInv'
  BY <1>1, <1>15, Stays, HandleDeleteKept DEF HandleDeleteGroup, Change, AccountsInv
<1> QED BY <1>2, <1>3, <1>4, <1>5, <1>6, <1>7, <1>8, <1>9, <1>10, <1>11, <1>12, <1>13, <1>14, <1>15
        DEF ScreenStep

LEMMA CallStepKept ==
  ASSUME AccountsInv, NEW call \in calls, CallStep(call) PROVE AccountsInv'
<1> USE DEF counters
<1>1. DbInv /\ StoreOK /\ ScreensOK /\ CallsOK
  BY DEF AccountsInv
<1>2. CASE Serve(call)
  BY <1>1, <1>2, Stays, ServeKept DEF Serve, AccountsInv
<1>3. CASE Answer(call)
  BY <1>1, <1>3, Stays, AnswerKept DEF Answer, AccountsInv
<1>4. CASE ServeLogin(call)
  BY <1>1, <1>4, Stays, ServeLoginKept DEF ServeLogin, AccountsInv
<1>5. CASE ServeSetup(call)
  BY <1>1, <1>5, Stays, ServeSetupKept DEF ServeSetup, AccountsInv
<1>6. CASE ServeLogout(call)
  BY <1>1, <1>6, Stays, ServeLogoutKept DEF ServeLogout, AccountsInv
<1>7. CASE ServeOpen(call)
  BY <1>1, <1>7, Stays, ServeOpenKept DEF ServeOpen, AccountsInv
<1>8. CASE ServeLoad(call)
  BY <1>1, <1>8, Stays, ServeLoadKept DEF ServeLoad, AccountsInv
<1>9. CASE Crash(call)
  <2>1. UNCHANGED <<screen, logins>>
    BY <1>9 DEF Crash, Restart
  <2> QED BY <1>1, <1>9, <2>1, Stays, CrashKept DEF AccountsInv
<1>10. CASE TakeChange(call)
  BY <1>1, <1>10, Stays, TakeChangeKept DEF TakeChange, AccountsInv
<1>11. CASE TakeSignIn(call)
  BY <1>1, <1>11, Stays, TakeSignInKept DEF TakeSignIn, AccountsInv
<1>12. CASE TakeOpen(call)
  BY <1>1, <1>12, Stays, TakeOpenKept DEF TakeOpen, AccountsInv
<1>13. CASE TakeLoad(call)
  BY <1>1, <1>13, Stays, TakeLoadKept DEF TakeLoad, AccountsInv
<1>14. CASE DropAnswer(call)
  <2>1. CallsOK'
    BY <1>1, <1>14 DEF DropAnswer, CallsOK
  <2> QED BY <1>14, <2>1, Stays DEF DropAnswer, AccountsInv
<1> QED BY <1>2, <1>3, <1>4, <1>5, <1>6, <1>7, <1>8, <1>9, <1>10, <1>11, <1>12, <1>13, <1>14
        DEF CallStep

LEMMA StepAccounts == AccountsInv /\ [Next]_vars => AccountsInv'
<1> SUFFICES ASSUME AccountsInv, [Next]_vars PROVE AccountsInv'
  OBVIOUS
<1>1. CASE \E c \in Consoles : ScreenStep(c)
  BY <1>1, ScreenStepKept
<1>2. CASE \E call \in calls : CallStep(call)
  BY <1>2, CallStepKept
<1>3. CASE \E to \in SUBSET Consoles : Push(to)
  <2>1. PICK to \in SUBSET Consoles : Push(to)
    BY <1>3
  <2>2. InboxOK'
    BY <2>1, PushKept DEF AccountsInv
  <2> QED BY <2>1, <2>2, Stays DEF Push, AccountsInv
<1>4. CASE Restart(db) /\ UNCHANGED issued
  <2>1. UNCHANGED <<screen, logins>>
    BY <1>4 DEF Restart
  <2> QED BY <1>4, <2>1, Stays, PlainRestartKept DEF AccountsInv
<1>5. CASE UNCHANGED vars
  BY <1>5, Stays DEF vars, counters, AccountsInv
<1> QED BY <1>1, <1>2, <1>3, <1>4, <1>5 DEF Next

LEMMA AccountsInvariant == Spec => []AccountsInv
BY InitAccounts, StepAccounts, PTL DEF Spec

\* Whatever admins do to one another at once, in whatever order their calls are
\* served, and after whichever statement the server stops, an admin is left
\* once the first was set up.
THEOREM AdminAlwaysRemains == Spec => []AdminRemains
<1>1. AccountsInv => AdminRemains
  BY DEF AccountsInv, DbInv
<1> QED BY <1>1, AccountsInvariant, PTL

\* A grant, a membership or a bundle never outlives the rows it joins: what a
\* deleted channel was granted does not come back with a new one of its name.
THEOREM RowsAlwaysRefer == Spec => []RowsRefer
<1>1. AccountsInv => RowsRefer
  BY DEF AccountsInv, DbInv, Fine, RowsRefer
<1> QED BY <1>1, AccountsInvariant, PTL

\* The tables, the sessions and the screens keep their shapes, and no two users
\* and no two groups ever have one name.
THEOREM AccountsTypeCorrect == Spec => []AccountsTypeOK
<1>1. AccountsInv => AccountsTypeOK
  <2> SUFFICES ASSUME AccountsInv PROVE AccountsTypeOK
    OBVIOUS
  <2>1. ASSUME NEW c \in Consoles
        PROVE  /\ screen[c].who \in Users \cup {None} /\ screen[c].token \in Tokens \cup {0}
               /\ screen[c].lists \in Tables /\ screen[c].boxes \subseteq ChannelIds
    BY ScreenHas, ScreenFields DEF AccountsInv, ScreenOK
  <2> QED BY <2>1 DEF AccountsInv, DbInv, StoreOK, Fine, AccountsTypeOK
<1> QED BY <1>1, AccountsInvariant, PTL

\* Whatever answers and dashboards come while the form of a user is filled in,
\* what it would save has its box on the screen.
THEOREM GrantsAlwaysShown == Spec => []GrantsShown
<1>1. AccountsInv => GrantsShown
  BY DEF AccountsInv, ScreensOK
<1> QED BY <1>1, AccountsInvariant, PTL
=============================================================================

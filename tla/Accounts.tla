------------------------------- MODULE Accounts -------------------------------
(***************************************************************************)
(* The account database of the CueCommX server and the REST handlers that  *)
(* change it: users with a role, channels, groups, who may use which       *)
(* channel, and which channels and users belong to a group.  Whether a PIN *)
(* is right is left to the person who signs in.                            *)
(*                                                                         *)
(* A handler runs without interruption but its statements are not one      *)
(* transaction: it returns the images of the database after each of them.  *)
(* A foreign key that fails ends it with the images it made so far, a      *)
(* crash of the process leaves any of them.  AdminConsole composes the     *)
(* handlers with the admin screens that call them.                         *)
(***************************************************************************)
EXTENDS Naturals, Sequences, FiniteSets, Functions

CONSTANTS
  Roles,               \* "admin" and others
  Users, UserNames,    \* ids and names of users
  ChannelNames,        \* names of channels; an id is a name and a suffix
  Groups, GroupNames,  \* ids and names of groups
  Seeds,               \* names of the channels every start of the server adds
  MaxChannels          \* config.maxChannels

ChannelIds == ChannelNames \X (1..MaxChannels + 1)

ASSUME AccountsAssumption ==
  /\ "admin" \in Roles /\ Roles \subseteq {"admin", "operator", "user"}
  /\ Seeds \subseteq ChannelNames /\ IsFiniteSet(Seeds)
  /\ MaxChannels \in Nat /\ Cardinality(Seeds) <= MaxChannels

VARIABLES
  db,      \* the tables
  issued   \* ids of users and groups given out; they are never used again

accountVars == <<db, issued>>

UserRows == [name : UserNames, role : Roles]

Tables ==
  [users    : UNION {[S -> UserRows] : S \in SUBSET Users},
   channels : UNION {[S -> ChannelNames] : S \in SUBSET ChannelIds},
   groups   : UNION {[S -> GroupNames] : S \in SUBSET Groups},
   grants   : SUBSET (Users \X ChannelIds),   \* channel_permissions
   members  : SUBSET (Users \X Groups),       \* user_groups
   bundles  : SUBSET (Groups \X ChannelIds)]  \* group_channels

With(table, id, row) == [k \in DOMAIN table \cup {id} |-> IF k = id THEN row ELSE table[k]]
Without(table, id) == Restrict(table, DOMAIN table \ {id})
Linked(relation, id) == {pair[2] : pair \in {p \in relation : p[1] = id}}
Unlinked(relation, id) == {p \in relation : p[2] # id}
Relinked(relation, id, others) == {p \in relation : p[1] # id} \cup ({id} \X others)

\* migrate runs schema.sql at every start: INSERT OR IGNORE of the default channels.
Seeded(channels) ==
  LET added == (Seeds \X {1}) \ DOMAIN channels
  IN [c \in DOMAIN channels \cup added |-> IF c \in added THEN c[1] ELSE channels[c]]

EmptyTables ==
  [users |-> <<>>, channels |-> Seeded(<<>>), groups |-> <<>>,
   grants |-> {}, members |-> {}, bundles |-> {}]

AccountsInit == db = EmptyTables /\ issued = {}

-----------------------------------------------------------------------------
(* What the handlers look up *)

Admins(d) == {u \in DOMAIN d.users : d.users[u].role = "admin"}
NamedUsers(d, name) == {u \in DOMAIN d.users : d.users[u].name = name}
NamedChannels(d, name) == {c \in DOMAIN d.channels : d.channels[c] = name}
NamedGroups(d, name) == {g \in DOMAIN d.groups : d.groups[g] = name}

\* countAdminUsers() is 1 and u is that admin.
LastAdmin(d, u) == Admins(d) = {u}

\* createChannel takes the slug of the name with the first free suffix.
FreshChannel(d, name) ==
  LET free(k) == <<name, k>> \notin DOMAIN d.channels
  IN <<name, CHOOSE k \in 1..MaxChannels + 1 : free(k) /\ \A j \in 1..k - 1 : ~free(j)>>

-----------------------------------------------------------------------------
(* The statements of the database *)

StoreUser(d, id, row) == [d EXCEPT !.users = With(@, id, row)]
StoreChannel(d, id, name) == [d EXCEPT !.channels = With(@, id, name)]
StoreGroup(d, id, name) == [d EXCEPT !.groups = With(@, id, name)]

\* replaceChannelPermissions, replaceUserGroups, replaceGroupChannels
SetGrants(d, u, channels) == [d EXCEPT !.grants = Relinked(@, u, channels)]
SetMembers(d, u, groups) == [d EXCEPT !.members = Relinked(@, u, groups)]
SetBundles(d, g, channels) == [d EXCEPT !.bundles = Relinked(@, g, channels)]

\* The rows that refer to a deleted one go with it (ON DELETE CASCADE).
RemoveUser(d, id) ==
  [d EXCEPT !.users = Without(@, id), !.grants = Relinked(@, id, {}),
            !.members = Relinked(@, id, {})]

\* Slip: the grants of a deleted channel stay for the next channel of that name.
RemoveChannelOnly(d, id) ==
  [d EXCEPT !.channels = Without(@, id), !.bundles = Unlinked(@, id)]

RemoveChannel(d, id) ==
  [d EXCEPT !.channels = Without(@, id), !.grants = Unlinked(@, id), !.bundles = Unlinked(@, id)]

RemoveGroup(d, id) ==
  [d EXCEPT !.groups = Without(@, id), !.members = Unlinked(@, id),
            !.bundles = Relinked(@, id, {})]

-----------------------------------------------------------------------------
(* The handlers: the code of the answer and the images of the database *)

Refused(d, code) == [code |-> code, images |-> <<d>>]
Done(code, images) == [code |-> code, images |-> images]
Final(result) == result.images[Len(result.images)]

\* What follows when the row of a user was written: two transactions, either of
\* which a foreign key can end.
Assigned(code, d, u, channels, groups) ==
  IF ~(channels \subseteq DOMAIN d.channels) THEN Done(500, <<d>>)
  ELSE IF ~(groups \subseteq DOMAIN d.groups) THEN Done(500, <<d, SetGrants(d, u, channels)>>)
  ELSE Done(code, <<d, SetGrants(d, u, channels),
                    SetMembers(SetGrants(d, u, channels), u, groups)>>)

\* And when the row of a group was
Bundled(code, d, g, channels) ==
  IF channels \subseteq DOMAIN d.channels THEN Done(code, <<d, SetBundles(d, g, channels)>>)
  ELSE Done(500, <<d>>)

SetupAdmin(d, id, name) ==
  LET born == StoreUser(d, id, [name |-> name, role |-> "admin"])
  IN IF Admins(d) # {} THEN Refused(d, 409)
     ELSE Done(201, <<born, SetGrants(born, id, DOMAIN d.channels)>>)

\* Slip: a user is created without a look at the names in use.
CreateAnyUser(d, id, row, channels, groups) ==
  Assigned(201, StoreUser(d, id, row), id, channels, groups)

CreateUser(d, id, row, channels, groups) ==
  IF NamedUsers(d, row.name) # {} THEN Refused(d, 409)
  ELSE Assigned(201, StoreUser(d, id, row), id, channels, groups)

\* Slip: the role is taken without a look at the other admins.
UpdateAnyUser(d, id, row, channels, groups) ==
  IF id \notin DOMAIN d.users THEN Refused(d, 404)
  ELSE IF ~(NamedUsers(d, row.name) \subseteq {id}) THEN Refused(d, 409)
  ELSE Assigned(200, StoreUser(d, id, row), id, channels, groups)

UpdateUser(d, id, row, channels, groups) ==
  IF id \notin DOMAIN d.users THEN Refused(d, 404)
  ELSE IF ~(NamedUsers(d, row.name) \subseteq {id}) THEN Refused(d, 409)
  ELSE IF row.role # "admin" /\ LastAdmin(d, id) THEN Refused(d, 409)
  ELSE Assigned(200, StoreUser(d, id, row), id, channels, groups)

DeleteUser(d, actor, id) ==
  IF id \notin DOMAIN d.users THEN Refused(d, 404)
  ELSE IF id = actor \/ LastAdmin(d, id) THEN Refused(d, 409)
  ELSE Done(204, <<RemoveUser(d, id)>>)

CreateChannel(d, name) ==
  IF Cardinality(DOMAIN d.channels) >= MaxChannels \/ NamedChannels(d, name) # {}
  THEN Refused(d, 409)
  ELSE Done(201, <<StoreChannel(d, FreshChannel(d, name), name)>>)

UpdateChannel(d, id, name) ==
  IF id \notin DOMAIN d.channels THEN Refused(d, 404)
  ELSE IF ~(NamedChannels(d, name) \subseteq {id}) THEN Refused(d, 409)
  ELSE Done(200, <<StoreChannel(d, id, name)>>)

DeleteChannel(d, id) ==
  IF id \notin DOMAIN d.channels THEN Refused(d, 404) ELSE Done(204, <<RemoveChannel(d, id)>>)

CreateGroup(d, id, name, channels) ==
  IF NamedGroups(d, name) # {} THEN Refused(d, 409)
  ELSE Bundled(201, StoreGroup(d, id, name), id, channels)

UpdateGroup(d, id, name, channels) ==
  IF id \notin DOMAIN d.groups THEN Refused(d, 404)
  ELSE IF ~(NamedGroups(d, name) \subseteq {id}) THEN Refused(d, 409)
  ELSE Bundled(200, StoreGroup(d, id, name), id, channels)

DeleteGroup(d, id) ==
  IF id \notin DOMAIN d.groups THEN Refused(d, 404) ELSE Done(204, <<RemoveGroup(d, id)>>)

-----------------------------------------------------------------------------
(* What the handlers keep true of the tables *)

\* No two users and no two groups have one name.
NamesDiffer(d) ==
  /\ \A u, v \in DOMAIN d.users : d.users[u].name = d.users[v].name => u = v
  /\ \A g, h \in DOMAIN d.groups : d.groups[g] = d.groups[h] => g = h

\* A grant, a membership or a bundle joins rows that exist.
Refers(d) ==
  /\ d.grants \subseteq (DOMAIN d.users) \X (DOMAIN d.channels)
  /\ d.members \subseteq (DOMAIN d.users) \X (DOMAIN d.groups)
  /\ d.bundles \subseteq (DOMAIN d.groups) \X (DOMAIN d.channels)
=============================================================================

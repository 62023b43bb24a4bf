----------------------------- MODULE AdminConsole -----------------------------
(***************************************************************************)
(* The admin screens and the server they administer: several browsers, the *)
(* HTTP calls each has under way, and the dashboards the server pushes.    *)
(* Calls of one screen are answered in any order; a screen goes on while   *)
(* one is under way, and what it does with the answer depends on what it   *)
(* had on screen when it sent the call.                                    *)
(*                                                                         *)
(* The form of a user is state, since its check boxes outlive changes of   *)
(* the lists; the forms of channels and groups are filled in and sent in   *)
(* one step.  A dashboard reaches any of the screens: a socket may be down *)
(* and a role may be gone.                                                 *)
(***************************************************************************)
EXTENDS Accounts

CONSTANTS
  Consoles,
  Offers,       \* what each screen is used for: kinds of calls, and signing out
  Typed,        \* the names and roles typed into the form of a user
  Starts,       \* at first: tables, issued ids, tokens, the one each screen has,
                \* and what is already used up of the bounds below
  None,         \* no user, no id
  MaxTokens,    \* bound: sign-ins
  MaxChanges,   \* bound: calls that change something
  MaxPushes,    \* bound: dashboards pushed
  MaxRestarts   \* bound: restarts of the server and reloads of a screen

Tokens == 1..MaxTokens
Mutations == {"user", "channel", "group", "no user", "no channel", "no group"}

\* A state the server can be in: its rows got their ids from it, an admin is left.
Sound(start) ==
  /\ start.db \in Tables /\ start.issued \subseteq Users \cup Groups
  /\ NamesDiffer(start.db) /\ Refers(start.db) /\ IsFiniteSet(DOMAIN start.db.channels)
  /\ DOMAIN start.db.users \cup DOMAIN start.db.groups \subseteq start.issued
  /\ start.issued \cap Users # {} => Admins(start.db) # {}
  /\ DOMAIN start.store \subseteq Tokens /\ \A t \in DOMAIN start.store : start.store[t] \in Users
  /\ start.token \in [Consoles -> {0} \cup DOMAIN start.store]
  /\ \A i \in 1..4 : start.used[i] \in Nat

ASSUME AdminConsoleAssumption ==
  /\ \A n \in {MaxTokens, MaxChanges, MaxPushes, MaxRestarts} : n \in Nat
  /\ Offers \in [Consoles -> SUBSET (Mutations \cup {"logout"})] /\ Typed \subseteq UserRows
  /\ None \notin Consoles \cup Users \cup Groups \cup ChannelIds
  /\ \A start \in Starts : Sound(start)

VARIABLES
  store,    \* the session store: token -> user
  screen,   \* what each browser shows and keeps
  inbox,    \* dashboards on their way to each screen
  calls,    \* HTTP calls under way
  logins, changes, pushes, restarts   \* counters for the bounds

counters == <<logins, changes, pushes, restarts>>
vars == <<db, issued, store, screen, inbox, calls, counters>>

Blank ==
  [who |-> None, token |-> 0, pending |-> {}, lists |-> [EmptyTables EXCEPT !.channels = <<>>],
   editing |-> None, boxes |-> {}, ticked |-> {}, joins |-> {}]

\* A page that loads knows the token in localStorage and nothing else.
Opening(token) == [Blank EXCEPT !.token = token, !.pending = {"open"}]

\* A call with what the screen remembers until its answer: the channels it
\* listed (seen) and the user it edited.
CallOf(c, s, kind, id, args) ==
  [by |-> c, kind |-> kind, id |-> id, args |-> args, token |-> s.token,
   seen |-> DOMAIN s.lists.channels, edited |-> s.editing,
   stage |-> "sent", code |-> 0, row |-> <<>>]
Call(c, kind, id, args) == CallOf(c, screen[c], kind, id, args)
OpenCall(c, token) == CallOf(c, Opening(token), "open", None, <<>>)

\* A screen that was opened and, with a token, signed in and loaded
Settled(d, who, token) ==
  IF who = None THEN Opening(0)
  ELSE [Blank EXCEPT !.who = who, !.token = token, !.lists = d, !.boxes = DOMAIN d.channels]

Init ==
  \E start \in Starts :
    LET who(c) == IF start.token[c] = 0 THEN None ELSE start.store[start.token[c]]
    IN /\ db = start.db /\ issued = start.issued /\ store = start.store
       /\ screen = [c \in Consoles |-> Settled(db, who(c), start.token[c])]
       /\ inbox = [c \in Consoles |-> <<>>]
       /\ calls = {OpenCall(c, 0) : c \in {c \in Consoles : who(c) = None}}
       /\ logins = start.used[1] /\ changes = start.used[2]
       /\ pushes = start.used[3] /\ restarts = start.used[4]

-----------------------------------------------------------------------------
(* The screen: opening, signing in and out *)

SignedIn(c) == screen[c].who # None
Busy(c, kind) == kind \in screen[c].pending

Send(c, call) ==
  /\ calls' = calls \cup {call}
  /\ screen' = [screen EXCEPT ![c].pending = @ \cup {call.kind}]

\* The calls of a page that is reloaded may still reach the server.
Orphans(c) == {[k EXCEPT !.by = None] : k \in {k \in calls : k.by = c}}

Reload(c) ==
  /\ restarts < MaxRestarts
  /\ screen' = [screen EXCEPT ![c] = Opening(@.token)]
  /\ calls' = {k \in calls : k.by # c} \cup Orphans(c) \cup {OpenCall(c, screen[c].token)}
  /\ inbox' = [inbox EXCEPT ![c] = <<>>]
  /\ restarts' = restarts + 1
  /\ UNCHANGED <<db, issued, store, logins, changes, pushes>>

SignIn(c, kind, name) ==
  /\ ~SignedIn(c) /\ ~Busy(c, "open") /\ ~Busy(c, kind) /\ logins < MaxTokens
  /\ Send(c, Call(c, kind, None, [name |-> name, token |-> logins + 1]))
  /\ logins' = logins + 1
  /\ UNCHANGED <<db, issued, store, inbox, changes, pushes, restarts>>

\* handleSignOut: the lists and the forms stay, the client is disconnected.
SignOut(c) ==
  /\ SignedIn(c) /\ "logout" \in Offers[c]
  /\ screen' = [screen EXCEPT ![c].who = None, ![c].token = 0]
  /\ inbox' = [inbox EXCEPT ![c] = <<>>]
  /\ calls' = calls \cup {[Call(c, "logout", None, <<>>) EXCEPT !.by = None]}
  /\ UNCHANGED <<db, issued, store, counters>>

-----------------------------------------------------------------------------
(* The screen: lists and forms *)

Edit(c, u) ==
  /\ SignedIn(c) /\ "user" \in Offers[c] /\ u \in DOMAIN screen[c].lists.users
  /\ LET lists == screen[c].lists
     IN screen' = [screen EXCEPT
          ![c].editing = u, ![c].boxes = DOMAIN lists.channels,
          ![c].ticked = Linked(lists.grants, u) \cap DOMAIN lists.channels,
          ![c].joins = Linked(lists.members, u)]
  /\ UNCHANGED <<db, issued, store, inbox, calls, counters>>

\* resetUserForm, with the channels that were listed when it was made
Cleared(s, seen) == [s EXCEPT !.editing = None, !.boxes = seen, !.ticked = {}, !.joins = {}]

CancelEdit(c) ==
  /\ SignedIn(c) /\ screen[c].editing # None
  /\ screen' = [screen EXCEPT ![c] = Cleared(@, DOMAIN screen[c].lists.channels)]
  /\ UNCHANGED <<db, issued, store, inbox, calls, counters>>

\* setPermissionValue: a listed channel without a box cannot be ticked.
Tick(c, channel) ==
  /\ SignedIn(c) /\ "user" \in Offers[c] /\ channel \in DOMAIN screen[c].lists.channels \cap screen[c].boxes
  /\ screen' = [screen EXCEPT ![c].ticked =
       IF channel \in @ THEN @ \ {channel} ELSE @ \cup {channel}]
  /\ UNCHANGED <<db, issued, store, inbox, calls, counters>>

TickGroup(c, g) ==
  /\ SignedIn(c) /\ "user" \in Offers[c] /\ g \in DOMAIN screen[c].lists.groups
  /\ screen' = [screen EXCEPT ![c].joins = IF g \in @ THEN @ \ {g} ELSE @ \cup {g}]
  /\ UNCHANGED <<db, issued, store, inbox, calls, counters>>

Change(c, call) ==
  /\ SignedIn(c) /\ call.kind \in Offers[c] /\ changes < MaxChanges
  /\ Send(c, call)
  /\ changes' = changes + 1
  /\ UNCHANGED <<db, issued, store, inbox, logins, pushes, restarts>>

SubmitUser(c, row) ==
  /\ ~Busy(c, "user")
  /\ Change(c, Call(c, "user", screen[c].editing,
       [row |-> row, channels |-> screen[c].ticked, groups |-> screen[c].joins]))

SubmitChannel(c, id, name) ==
  /\ ~Busy(c, "channel") /\ id \in DOMAIN screen[c].lists.channels \cup {None}
  /\ Change(c, Call(c, "channel", id, name))

\* The form of a group starts from the channels it is listed with; those that
\* are not listed as channels any more have no box and stay.
SubmitGroup(c, id, name, picks) ==
  LET lists == screen[c].lists
      hidden == IF id = None THEN {} ELSE Linked(lists.bundles, id) \ DOMAIN lists.channels
  IN /\ ~Busy(c, "group") /\ id \in DOMAIN lists.groups \cup {None}
     /\ picks \subseteq DOMAIN lists.channels
     /\ Change(c, Call(c, "group", id, [name |-> name, channels |-> picks \cup hidden]))

HandleDeleteUser(c, u) ==
  /\ ~Busy(c, "no user") /\ u \in DOMAIN screen[c].lists.users \ {screen[c].who}
  /\ Change(c, Call(c, "no user", u, <<>>))

HandleDeleteChannel(c, id) ==
  /\ ~Busy(c, "no channel") /\ id \in DOMAIN screen[c].lists.channels
  /\ Change(c, Call(c, "no channel", id, <<>>))

HandleDeleteGroup(c, g) ==
  /\ ~Busy(c, "no group") /\ g \in DOMAIN screen[c].lists.groups
  /\ Change(c, Call(c, "no group", g, <<>>))

-----------------------------------------------------------------------------
(* The server *)

Holder(token) == IF token \in DOMAIN store THEN store[token] ELSE None

\* requireAdminSession: 0 when the call may go on.
Barred(token) ==
  IF Holder(token) \notin DOMAIN db.users THEN 401
  ELSE IF db.users[Holder(token)].role # "admin" THEN 403 ELSE 0

\* What a handler does with a call that gives the new row the id fresh
Handled(call, fresh) ==
  LET args == call.args
      new  == call.id = None
  IN CASE call.kind = "setup" -> SetupAdmin(db, fresh, args.name)
       [] call.kind = "user" /\ new ->
            CreateUser(db, fresh, args.row, args.channels, args.groups)
       [] call.kind = "user" /\ ~new ->
            UpdateUser(db, call.id, args.row, args.channels, args.groups)
       [] call.kind = "channel" -> IF new THEN CreateChannel(db, args)
                                   ELSE UpdateChannel(db, call.id, args)
       [] call.kind = "group"   -> IF new THEN CreateGroup(db, fresh, args.name, args.channels)
                                   ELSE UpdateGroup(db, call.id, args.name, args.channels)
       [] call.kind = "no user"    -> DeleteUser(db, Holder(call.token), call.id)
       [] call.kind = "no channel" -> DeleteChannel(db, call.id)
       [] call.kind = "no group"   -> DeleteGroup(db, call.id)

FreshIds(call) ==
  IF call.id # None \/ call.kind \notin {"setup", "user", "group"} THEN {None}
  ELSE (IF call.kind = "group" THEN Groups ELSE Users) \ issued

\* The row an answer carries; update handlers read it after the refresh of the
\* sessions they wait for, creating ones at once.
UserRow(d, u) == [id |-> u, row |-> d.users[u], grants |-> Linked(d.grants, u),
                  members |-> Linked(d.members, u)]
RowOf(d, kind, id) ==
  CASE kind \in {"user"} -> UserRow(d, id)
    [] kind = "channel"  -> [id |-> id, name |-> d.channels[id]]
    [] kind = "group"    -> [id |-> id, name |-> d.groups[id], bundles |-> Linked(d.bundles, id)]
    [] OTHER -> <<>>

Answered(call, code, row) ==
  calls' = (calls \ {call}) \cup {[call EXCEPT !.stage = "answered", !.code = code, !.row = row]}

Serve(call) ==
  /\ call.stage = "sent" /\ call.kind \in Mutations
  /\ IF Barred(call.token) # 0
     THEN Answered(call, Barred(call.token), <<>>) /\ UNCHANGED <<db, issued>>
     ELSE \E fresh \in FreshIds(call) :
       LET result == Handled(call, fresh)
           d  == Final(result)
           id == IF call.id # None THEN call.id
                 ELSE IF call.kind = "channel" THEN FreshChannel(db, call.args) ELSE fresh
       IN /\ db' = d
          /\ issued' = IF result.code = 409 THEN issued ELSE issued \cup ({fresh} \ {None})
          /\ IF result.code = 200 /\ call.kind # "group"
             THEN calls' = (calls \ {call}) \cup {[call EXCEPT !.stage = "stored"]}
             ELSE Answered(call, result.code,
                    IF result.code \in {200, 201} THEN RowOf(d, call.kind, id) ELSE <<>>)
  /\ UNCHANGED <<store, screen, inbox, counters>>

\* The answer of an update, once the sessions were refreshed
Answer(call) ==
  /\ call.stage = "stored"
  /\ IF call.id \in DOMAIN (IF call.kind = "user" THEN db.users ELSE db.channels)
     THEN Answered(call, 200, RowOf(db, call.kind, call.id))
     ELSE Answered(call, 500, <<>>)
  /\ UNCHANGED <<db, issued, store, screen, inbox, counters>>

\* login and setup-admin give out a token; the PIN may be wrong.
ServeLogin(call) ==
  /\ call.stage = "sent" /\ call.kind = "login"
  /\ LET known == NamedUsers(db, call.args.name)
     IN \/ \E u \in known :
             /\ store' = With(store, call.args.token, u)
             /\ Answered(call, 200, [who |-> u, role |-> db.users[u].role])
        \/ Answered(call, 401, <<>>) /\ UNCHANGED store
  /\ UNCHANGED <<db, issued, screen, inbox, counters>>

ServeSetup(call) ==
  /\ call.stage = "sent" /\ call.kind = "setup"
  /\ \E fresh \in FreshIds(call) :
       LET result == Handled(call, fresh)
       IN /\ db' = Final(result)
          /\ IF result.code = 201
             THEN /\ store' = With(store, call.args.token, fresh)
                  /\ issued' = issued \cup {fresh}
                  /\ Answered(call, 201, [who |-> fresh, role |-> "admin"])
             ELSE Answered(call, 409, <<>>) /\ UNCHANGED <<store, issued>>
  /\ UNCHANGED <<screen, inbox, counters>>

ServeLogout(call) ==
  /\ call.stage = "sent" /\ call.kind = "logout"
  /\ store' = Restrict(store, DOMAIN store \ {call.token})
  /\ calls' = calls \ {call}
  /\ UNCHANGED <<db, issued, screen, inbox, counters>>

\* /api/channels and /api/auth/session for a page that opens
Known(call) == IF Holder(call.token) \in DOMAIN db.users THEN Holder(call.token) ELSE None
ServeOpen(call) ==
  /\ call.stage = "sent" /\ call.kind = "open"
  /\ Answered(call, 200, [who |-> Known(call), channels |-> db.channels])
  /\ UNCHANGED <<db, issued, store, screen, inbox, counters>>

\* /api/users and /api/groups for one that signed in, also as an operator
ServeLoad(call) ==
  /\ call.stage = "sent" /\ call.kind = "load"
  /\ IF Known(call) # None /\ db.users[Known(call)].role # "user"
     THEN Answered(call, 200, db) ELSE Answered(call, 401, <<>>)
  /\ UNCHANGED <<db, issued, store, screen, inbox, counters>>

\* broadcastAdminDashboard, of an update or of anything the operators do
Push(to) ==
  /\ pushes < MaxPushes /\ to # {}
  /\ inbox' = [c \in Consoles |-> IF c \in to THEN Append(inbox[c], db) ELSE inbox[c]]
  /\ pushes' = pushes + 1
  /\ UNCHANGED <<db, issued, store, screen, calls, logins, changes, restarts>>

\* The process ends between two statements of a handler or between two calls
\* and starts again: tokens are gone, schema.sql runs, the calls fail.
Restart(image) ==
  /\ restarts < MaxRestarts
  /\ db' = [image EXCEPT !.channels = Seeded(@)]
  /\ store' = <<>>
  /\ calls' = {[k EXCEPT !.stage = "answered", !.code = 0, !.row = <<>>] :
                 k \in {k \in calls : k.by # None}}
  /\ inbox' = [c \in Consoles |-> <<>>]
  /\ restarts' = restarts + 1
  /\ UNCHANGED <<screen, logins, changes, pushes>>

Crash(call) ==
  /\ call.stage = "sent" /\ call.kind \in Mutations /\ Barred(call.token) = 0
  /\ \E fresh \in FreshIds(call) :
       LET result == Handled(call, fresh)
       IN /\ result.code # 409 /\ issued' = issued \cup ({fresh} \ {None})
          /\ \E i \in DOMAIN result.images : Restart(result.images[i])

-----------------------------------------------------------------------------
(* The screen: answers and dashboards *)

\* Slip: the boxes do not follow the lists of a dashboard.
BoxedAsBefore(s, channels) == s

\* buildPermissionDraft: the channels it is given, the ticks it had of them
Boxed(s, channels) == [s EXCEPT !.boxes = channels, !.ticked = @ \cap channels]

Forget(s, call) == IF call.edited = call.id THEN Cleared(s, call.seen) ELSE s

\* The answer of a change that was made: the lists are changed in place, the
\* form of the user is made again from what was listed at the call.
Applied(s, call) ==
  LET row == call.row
      lists == s.lists
  IN CASE call.kind = "user" ->
            Cleared([s EXCEPT !.lists = [lists EXCEPT
              !.users = With(@, row.id, row.row), !.grants = Relinked(@, row.id, row.grants),
              !.members = Relinked(@, row.id, row.members)]], call.seen)
       [] call.kind = "no user" ->
            Forget([s EXCEPT !.lists.users = Without(@, call.id),
                             !.lists.grants = Relinked(@, call.id, {}),
                             !.lists.members = Relinked(@, call.id, {})], call)
       [] call.kind = "channel" ->
            Boxed([s EXCEPT !.lists.channels = With(@, row.id, row.name)],
                  call.seen \cup {row.id})
       [] call.kind = "no channel" ->
            Boxed([s EXCEPT !.lists.channels = Without(@, call.id),
                            !.lists.grants = {p \in @ : p[2] # call.id}], call.seen \ {call.id})
       [] call.kind = "group" ->
            [s EXCEPT !.lists.groups = With(@, row.id, row.name),
                      !.lists.bundles = Relinked(@, row.id, row.bundles)]
       [] call.kind = "no group" ->
            [s EXCEPT !.lists.groups = Without(@, call.id)]

\* A change that failed only ends the wait for it.
TakeChange(call) ==
  /\ call.stage = "answered" /\ call.by # None /\ call.kind \in Mutations
  /\ LET s == [screen[call.by] EXCEPT !.pending = @ \ {call.kind}]
     IN screen' = [screen EXCEPT ![call.by] =
          IF call.code \in {200, 201, 204} THEN Applied(s, call) ELSE s]
  /\ calls' = calls \ {call}
  /\ UNCHANGED <<db, issued, store, inbox, counters>>

\* A session makes the screen load users and groups and connect its client.
Signed(s, who, token) == [s EXCEPT !.who = who, !.token = token]
LoadCall(c, s) == CallOf(c, s, "load", None, <<>>)

TakeSignIn(call) ==
  /\ call.stage = "answered" /\ call.by # None /\ call.kind \in {"login", "setup"}
  /\ LET s == [screen[call.by] EXCEPT !.pending = @ \ {call.kind}]
         t == Signed(s, call.row.who, call.args.token)
     IN IF call.code \in {200, 201} /\ call.row.role = "admin"
        THEN /\ screen' = [screen EXCEPT ![call.by] = t]
             /\ calls' = (calls \ {call}) \cup {LoadCall(call.by, t)}
        ELSE /\ screen' = [screen EXCEPT ![call.by] = s]
             /\ calls' = calls \ {call}
  /\ UNCHANGED <<db, issued, store, inbox, counters>>

TakeOpen(call) ==
  /\ call.stage = "answered" /\ call.by # None /\ call.kind = "open"
  /\ LET c == call.by
         row == IF call.code = 200 THEN call.row ELSE [who |-> None, channels |-> <<>>]
         s == [Blank EXCEPT !.lists.channels = row.channels, !.boxes = DOMAIN row.channels]
         t == Signed(s, row.who, call.token)
     IN IF row.who # None
        THEN screen' = [screen EXCEPT ![c] = t] /\ calls' = (calls \ {call}) \cup {LoadCall(c, t)}
        ELSE screen' = [screen EXCEPT ![c] = s] /\ calls' = calls \ {call}
  /\ UNCHANGED <<db, issued, store, inbox, counters>>

\* The load of a session that is over is dropped.
TakeLoad(call) ==
  /\ call.stage = "answered" /\ call.by # None /\ call.kind = "load"
  /\ screen' = IF call.code # 200 \/ call.token # screen[call.by].token THEN screen
               ELSE [screen EXCEPT ![call.by].lists =
                      [call.row EXCEPT !.channels = screen[call.by].lists.channels]]
  /\ calls' = calls \ {call}
  /\ UNCHANGED <<db, issued, store, inbox, counters>>

TakeDashboard(c) ==
  /\ inbox[c] # <<>>
  /\ screen' = IF ~SignedIn(c) THEN screen ELSE [screen EXCEPT ![c] =
       Boxed([@ EXCEPT !.lists = Head(inbox[c])], DOMAIN Head(inbox[c]).channels)]
  /\ inbox' = [inbox EXCEPT ![c] = Tail(@)]
  /\ UNCHANGED <<db, issued, store, calls, counters>>

\* Nobody waits for the answer of a page that is gone.
DropAnswer(call) ==
  /\ call.by = None /\ call.stage = "answered"
  /\ calls' = calls \ {call}
  /\ UNCHANGED <<db, issued, store, screen, inbox, counters>>

-----------------------------------------------------------------------------
ScreenStep(c) ==
  \/ Reload(c) \/ SignOut(c) \/ CancelEdit(c) \/ TakeDashboard(c)
  \/ \E kind \in {"login", "setup"}, name \in UserNames : SignIn(c, kind, name)
  \/ \E u \in Users : Edit(c, u)
  \/ \E channel \in ChannelIds : Tick(c, channel)
  \/ \E g \in Groups : TickGroup(c, g)
  \/ \E row \in Typed : SubmitUser(c, row)
  \/ \E id \in ChannelIds \cup {None}, name \in ChannelNames : SubmitChannel(c, id, name)
  \/ \E id \in Groups \cup {None}, name \in GroupNames, picks \in SUBSET ChannelIds :
       SubmitGroup(c, id, name, picks)
  \/ \E u \in Users : HandleDeleteUser(c, u)
  \/ \E id \in ChannelIds : HandleDeleteChannel(c, id)
  \/ \E g \in Groups : HandleDeleteGroup(c, g)

CallStep(call) ==
  \/ Serve(call) \/ Answer(call) \/ ServeLogin(call) \/ ServeSetup(call) \/ ServeLogout(call)
  \/ ServeOpen(call) \/ ServeLoad(call) \/ Crash(call) \/ TakeChange(call) \/ TakeSignIn(call) \/ TakeOpen(call)
  \/ TakeLoad(call) \/ DropAnswer(call)

Next ==
  \/ \E c \in Consoles : ScreenStep(c)
  \/ \E call \in calls : CallStep(call)
  \/ \E to \in SUBSET Consoles : Push(to)
  \/ Restart(db) /\ UNCHANGED issued

Spec == Init /\ [][Next]_vars

-----------------------------------------------------------------------------
(* Properties *)

\* The tables, the sessions and the screens have their shapes, and no two users
\* and no two groups have one name.
AccountsTypeOK ==
  /\ db \in Tables /\ issued \subseteq Users \cup Groups
  /\ DOMAIN store \subseteq Tokens /\ \A t \in DOMAIN store : store[t] \in Users
  /\ \A c \in Consoles :
       /\ screen[c].who \in Users \cup {None} /\ screen[c].token \in Tokens \cup {0}
       /\ screen[c].lists \in Tables /\ screen[c].boxes \subseteq ChannelIds
  /\ NamesDiffer(db)

\* Whatever admins do to one another at the same time, and wherever the server
\* stops, an admin is left once the first was set up ("CueCommX must keep at
\* least one admin account").
AdminRemains == issued \cap Users # {} => Admins(db) # {}

\* No grant and no membership outlives the rows it joins, so that a new channel,
\* whose id may be that of a deleted one, is open to nobody.
RowsRefer == Refers(db)

\* Every grant the form of a user would save has its box on the screen, whatever
\* answers and dashboards came while it was filled in.
GrantsShown ==
  \A c \in Consoles : screen[c].ticked \subseteq DOMAIN screen[c].lists.channels

\* There are never more channels than CUECOMMX_MAX_CHANNELS.
ChannelLimitKept == Cardinality(DOMAIN db.channels) <= MaxChannels
=============================================================================

------------------------------- MODULE MCAccounts -------------------------------
(* Small instances of AdminConsole. *)
EXTENDS AdminConsole, TLC

CONSTANTS a, b, u1, u2, u3, g1, alice, bob, team, stage, foh

NoTokens == [c \in Consoles |-> 0]

\* A server that was just installed
Installed == [db |-> EmptyTables, issued |-> {}, store |-> <<>>, token |-> NoTokens,
              used |-> <<1, 1, 1, 0>>]

\* A server two admins work with: it has a group.
Established ==
  LET first  == Final(SetupAdmin(EmptyTables, u1, alice))
      second == Final(CreateUser(first, u2, [name |-> bob, role |-> "admin"],
                                 DOMAIN first.channels, {}))
      grouped == Final(CreateGroup(second, g1, team, DOMAIN first.channels))
  IN [db |-> grouped, issued |-> {u1, u2, g1}, store |-> <<u1, u2>>,
      token |-> (a :> 1) @@ (b :> 2), used |-> <<2, 0, 1, 1>>]

\* The same after a restart
Restarted == [Established EXCEPT !.store = <<>>, !.token = NoTokens, !.used = <<1, 1, 1, 1>>]

\* The same with a dashboard to come
Watched == [Established EXCEPT !.used = <<2, 1, 0, 1>>]

Each == {Installed, Established, Watched, Restarted}
Working == {Established}

\* One screen edits users, the other removes and edits everything else.
Duties == (a :> {"user", "no channel"})
       @@ (b :> {"no user", "channel", "group", "no group", "logout"})

Demotions == {[name |-> n, role |-> "user"] : n \in UserNames}
=============================================================================

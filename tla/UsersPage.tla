----------------------------- MODULE UsersPage -----------------------------
(* pages/Users.tsx: an administrator's list of users.  Nothing is shown     *)
(* before the server has answered, and nothing refetches but an answer.     *)
EXTENDS OptimisticList

\* Passwords are left out: a save of a password alone changes no row.  The
\* role goes along when it differs from the one listed by now.
SaveUser(i) ==
  /\ ~ Busy("save", i)
  /\ draft[i] # cache[i].tags
  /\ \E s \in Slots : Click(Plain(s, "save", i, draft[i]), selected)

\* The form keeps what was chosen in it when it is closed.  Nobody is offered
\* to delete himself.
UserRow(i) ==
  \/ UNCHANGED budget /\ \E r \in Labels : SetDraft(i, {r})
  \/ SaveUser(i)
  \/ i # Me /\ Question(i)

CreateUserDialog(i) ==
  /\ Unused(i)
  /\ \E s \in Slots, r \in Labels : Click(Plain(s, "create", i, {r}), selected)

UsersUser ==
  \/ \E i \in Visible : UserRow(i)
  \/ \E i \in Ids : CreateUserDialog(i)

\* Another administrator at work.
UsersOutside ==
  \E i \in Ids \ {Me} :
    \/ Unused(i) /\ \E r \in Labels : OutsideWrites(i, Row("enabled", {r}))
    \/ /\ rows[i] # None
       /\ \/ \E r \in Labels : OutsideWrites(i, Served("save", {r}, rows[i]))
          \/ OutsideWrites(i, None)
=============================================================================

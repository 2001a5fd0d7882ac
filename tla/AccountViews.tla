---------------------------- MODULE AccountViews ----------------------------
(***************************************************************************)
(* accounts/views.py of the workshop site (2022/DB/1006/02_db_workshop_-   *)
(* skeleton).  Whether a form is valid is a free choice; a browser that    *)
(* sends a valid login form knows the password.                            *)
(***************************************************************************)
EXTENDS DjangoSite

readOnly == <<site, rows, used, hashes>>

\* A row of accounts_user: of its columns, the two the views compare.
UserRow(me) == [name |-> me.name, hash |-> me.hash]

\* A page: GET, or a form that is not valid.  base.html shows the user.
Page(b) == Open(b, Reply("page")) /\ UserRead(b) /\ UNCHANGED readOnly

\* login; home is how redirect('articles:index') ends, next how the redirect
\* after a valid form ends.
LoginForm(b, home, next) ==
    \/ /\ UserRead(b) /\ UNCHANGED readOnly
       /\ \/ IsAuthenticated(b) /\ Open(b, Reply(home))
          \/ /\ ~IsAuthenticated(b)
             /\ \/ Open(b, Reply("page"))
                \/ \E u \in DOMAIN rows["user"] :
                    Open(b, [Request("login", "enter") EXCEPT !.me =
                        [pk |-> u, name |-> rows["user"][u].name,
                         hash |-> rows["user"][u].hash]])
    \/ At(b, "login", "enter") /\ \E r \in next : AuthLogin(b, r)
    \/ At(b, "login", "session") /\ SaveSession(b)

Login(b) == site = "workshop" /\ LoginForm(b, "redirect", {"redirect"})

Logout(b) ==
    /\ site = "workshop"
    /\ Open(b, Reply("redirect"))
    /\ IF IsAuthenticated(b) THEN AuthLogout(b) ELSE UserRead(b)
    /\ UNCHANGED readOnly

\* What CustomUserCreationForm asks the table before it is valid.
NameIsFree(n) == \A u \in DOMAIN rows["user"] : rows["user"][u].name # n

\* signup: the form looks whether the name is free, then inserts the user.
SignupForm(b, home) ==
    \/ Page(b)
    \/ \E n \in Names :
        /\ NameIsFree(n)
        /\ Open(b, [Request("signup", "save") EXCEPT !.me.name = n])
        /\ UNCHANGED <<readOnly, session>>
    \/ LET me == [pk |-> NewPk("user"), name |-> req[b].me.name,
                  hash |-> hashes + 1]
       IN  /\ At(b, "signup", "save")
           /\ hashes < MaxHashes
           /\ Insert(b, "user", UserRow(me),
                     [req[b] EXCEPT !.step = "enter", !.me = me, !.late = FALSE])
           /\ hashes' = hashes + 1
           /\ UNCHANGED <<site, session>>
    \/ At(b, "signup", "enter") /\ AuthLogin(b, home)
    \/ At(b, "signup", "session") /\ SaveSession(b)

Signup(b) == site = "workshop" /\ SignupForm(b, "redirect")

\* A view behind the user check; "first" is its next step.
Guarded(b, view, first) ==
    /\ UserRead(b) /\ UNCHANGED readOnly
    /\ Open(b, IF IsAuthenticated(b)
               THEN [Request(view, first) EXCEPT !.me = RequestUser(b)]
               ELSE Reply("redirect"))

\* delete: the collector first reads which articles go with the user; their
\* comments are looked up when the transaction deletes.  The session goes after it.
DeleteAccount(b) ==
    LET q == req[b] IN
    /\ site = "workshop"
    /\ \/ Guarded(b, "delete_account", "collect")
       \/ /\ At(b, "delete_account", "collect")
          /\ Go(b, [q EXCEPT !.step = "delete", !.list =
                     {a \in DOMAIN rows["article"] :
                         rows["article"][a].ref = q.me.pk}])
          /\ UNCHANGED <<readOnly, session>>
       \/ LET db == Without(rows, "article", q.list)
              gone == [db EXCEPT !["user"] =
                          Restrict(@, DOMAIN @ \ {q.me.pk})]
          IN  /\ At(b, "delete_account", "delete")
              /\ \/ Delete(b, gone, Request("delete_account", "logout"))
                 \/ Refused(b, gone) /\ UNCHANGED used
              /\ UNCHANGED <<site, hashes, session>>
       \/ /\ At(b, "delete_account", "logout")
          /\ AuthLogout(b) /\ Answer(b, "redirect")
          /\ UNCHANGED readOnly

\* Mutant of Edited: the password is a field of the form as well.
PasswordInForm(me) == [me EXCEPT !.hash = MaxHashes]

\* What CustomUserChangeForm makes of request.user: its three fields are not
\* told apart here.
Edited(me) == me

\* update: saves the whole row as read with the request, the password too.
UpdateAccount(b) ==
    /\ site = "workshop"
    /\ \/ IsAuthenticated(b) /\ Page(b)
       \/ Guarded(b, "update_account", "save")
       \/ /\ At(b, "update_account", "save")
          /\ Save(b, "user", req[b].me.pk, UserRow(Edited(req[b].me)),
                  Reply("redirect"))
          /\ UNCHANGED <<site, hashes, session>>

\* change_password: the row with a new hash; then the session gets it, too.
ChangePassword(b) ==
    LET me == [req[b].me EXCEPT !.hash = hashes + 1] IN
    /\ site = "workshop"
    /\ \/ IsAuthenticated(b) /\ Page(b)
       \/ Guarded(b, "change_password", "save")
       \/ /\ At(b, "change_password", "save")
          /\ hashes < MaxHashes
          /\ Save(b, "user", me.pk, UserRow(me),
                  [req[b] EXCEPT !.step = "session", !.me = me, !.late = FALSE])
          /\ hashes' = hashes + 1
          /\ UNCHANGED <<site, session>>
       \/ /\ At(b, "change_password", "session")
          /\ UpdateSessionAuthHash(b, req[b].me.hash) /\ Answer(b, "redirect")
          /\ UNCHANGED readOnly

AccountStep(b) ==
    \/ Login(b) \/ Logout(b) \/ Signup(b)
    \/ DeleteAccount(b) \/ UpdateAccount(b) \/ ChangePassword(b)
=============================================================================

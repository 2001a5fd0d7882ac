------------------------------- MODULE Sites --------------------------------
(***************************************************************************)
(* The four Django sites, one of which is served to the browsers, and what *)
(* their views promise although requests interleave.                       *)
(***************************************************************************)
EXTENDS ArticleViews, TodoViews, MusicApi

CONSTANT Served        \* the sites a run looks at

ASSUME ServedAssumption ==
    Served \subseteq {"workshop", "todo", "articles", "music"}

Init ==
    /\ site \in Served
    /\ rows = [t \in Tables |-> <<>>]
    /\ used = [t \in Tables |-> 0]
    /\ hashes = 0
    /\ session = [b \in Browsers |-> NoSession]
    /\ req = [b \in Browsers |-> Closed]

Step(b) ==
    \/ AccountStep(b) \/ ArticleStep(b) \/ TodoStep(b)
    \/ ArticleApiStep(b) \/ MusicApiStep(b)

Next == \E b \in Browsers : Step(b)

Spec == Init /\ [][Next]_vars

-----------------------------------------------------------------------------
\* b's request ends with this step.
Answers(b, replies) ==
    req[b].step # "done" /\ req'[b].step = "done" /\ req'[b].reply \in replies

(***************************************************************************)
(* A view raises an exception out of the database only when another        *)
(* request wrote since this one began.  The exceptions are .get() of a pk  *)
(* from the URL (step "lookup" of comment_create and comment_delete; the   *)
(* REST views' .get() is their first step) and the missing app of the todo *)
(* site, which no table has to do with.  Articles without their user,      *)
(* comments left behind by a cascade, or a taken user name would break it. *)
(***************************************************************************)
Errors == {"IntegrityError", "DatabaseError", "DoesNotExist"}
HasACause ==
    \A b \in Browsers :
        Answers(b, Errors) => req[b].late \/ req[b].step = "lookup"
ErrorsHaveACause == [][HasACause]_vars

\* Whatever the requests of other users and of deleted users did meanwhile,
\* the text of an article is its owner's (articles/views.py update).
OwnersWroteTheirArticles ==
    site = "workshop" =>
        \A a \in DOMAIN rows["article"] :
            rows["article"][a].by = rows["article"][a].ref

(***************************************************************************)
(* A user's password changes to a new one only by change_password, and     *)
(* goes back to an old one only by an account update whose request had     *)
(* read the row before (accounts/views.py update saves the whole row).     *)
(***************************************************************************)
MovesOn ==
    site = "workshop" =>
        \A u \in DOMAIN rows["user"] \cap DOMAIN rows'["user"] :
            rows'["user"][u].hash # rows["user"][u].hash =>
                \E b \in Browsers :
                    /\ req[b].me.pk = u
                    /\ \/ /\ At(b, "change_password", "save")
                          /\ rows'["user"][u].hash = hashes'
                          /\ hashes' = hashes + 1
                       \/ /\ At(b, "update_account", "save")
                          /\ req[b].late
                          /\ rows'["user"][u].hash = req[b].me.hash
PasswordsMoveOn == [][MovesOn]_vars

(***************************************************************************)
(* When login, signup and change_password send their redirect, the         *)
(* browser's session names the user and the password of the request: the   *)
(* one that was checked, or just stored.  The session is written after the *)
(* row (accounts/views.py:84-85), so a write in between can put it out;    *)
(* unless there was one, the user is there and the password is the row's,  *)
(* and the browser stays logged in.                                        *)
(***************************************************************************)
LoggedIn ==
    \A b \in Browsers :
        /\ site = "workshop"
        /\ req[b].step = "session" /\ Answers(b, {"redirect"})
        => LET me == req[b].me IN
           /\ session'[b] = [user |-> me.pk, hash |-> me.hash]
           /\ ~req[b].late => /\ me.pk \in DOMAIN rows'["user"]
                              /\ rows'["user"][me.pk].hash = me.hash
StaysLoggedIn == [][LoggedIn]_vars

(***************************************************************************)
(* A row comes back under an id it had before only by the save of a        *)
(* request that read it before it was deleted: AUTOINCREMENT gives no id   *)
(* twice, save() inserts the row it does not find (update, PUT).           *)
(***************************************************************************)
ComeBackLate ==
    \A t \in Tables : \A pk \in DOMAIN rows'[t] \ DOMAIN rows[t] :
        pk <= used[t] =>
            \E b \in Browsers : /\ req[b].step = "save" /\ req[b].late
                                /\ pk \in {req[b].pk, req[b].me.pk}
IdsComeBackLate == [][ComeBackLate]_vars

(***************************************************************************)
(* No article changes hands, and no comment or music moves to another      *)
(* parent.  A save writes the foreign key that the request read with the   *)
(* row, maybe long before; it would give a row that has meanwhile been     *)
(* made under the same id to the parent of the one that is gone.           *)
(***************************************************************************)
KeepTheirParent ==
    \A t \in Tables : \A pk \in DOMAIN rows[t] \cap DOMAIN rows'[t] :
        Parent[t] # "" => rows'[t][pk].ref = rows[t][pk].ref
RowsKeepTheirParent == [][KeepTheirParent]_vars

-----------------------------------------------------------------------------
(***************************************************************************)
(* The inductive invariant that SitesProofs uses: the tables are as SQLite *)
(* left them, and what a request has read and not yet used still stands as *)
(* long as the request is not late.                                        *)
(***************************************************************************)

\* Requests that hold a copy of a user's row; those that hold the pk of a
\* row, and the table it is from; those that hold its foreign key as well.
UserKnown(q) ==
    q.step \in {"enter", "session"}
    \/ q.view \in {"create", "update_account", "change_password"}
RowKnown(q) ==
    q.step \in {"owner", "form", "article"}
    \/ /\ q.step = "save"
       /\ q.view \in {"update", "comment_create", "article_rud",
                      "comment_detail", "music_create", "music_detail"}
TableOf(q) ==
    CASE q.view \in {"update", "comment_create", "article_rud"} -> "article"
      [] q.view \in {"comment_delete", "comment_detail"} -> "comment"
      [] q.view = "music_create" -> "artist"
      [] q.view = "music_detail" -> "music"
KeyKnown(q) ==
    q.view \in {"update", "comment_delete", "comment_detail", "music_detail"}

\* Requests that have the status of their reply ready.
Ready(q) == q.view = "article_rud" \/ q.step = "data"

\* Requests that hold the pk and the foreign key of the row they may save.
Holds(q) == RowKnown(q) /\ KeyKnown(q) /\ Parent[TableOf(q)] # ""

\* What q has read is what the tables hold.
Current(q) ==
    /\ UserKnown(q) => /\ Has("user", q.me.pk)
                       /\ rows["user"][q.me.pk].name = q.me.name
                       /\ rows["user"][q.me.pk].hash = q.me.hash
    /\ RowKnown(q) => /\ Has(TableOf(q), q.pk)
                      /\ KeyKnown(q) => rows[TableOf(q)][q.pk].ref = q.ref
    /\ q.view = "signup" /\ q.step = "save" => NameIsFree(q.me.name)
    /\ q.view = "delete_account" /\ q.step = "delete" =>
         q.list = {a \in DOMAIN rows["article"] :
                      rows["article"][a].ref = q.me.pk}

\* A request q in a session s: the ids it knows have been given, its hash
\* has been made, and it is current or late.
Sound(q, s) ==
    /\ DOMAIN q = DOMAIN Closed /\ DOMAIN q.me = DOMAIN Nobody
    /\ q.late \in BOOLEAN
    /\ q.me.hash \in 0 .. hashes
    /\ UserKnown(q) => "user" \in Tables /\ q.me.pk \in 1 .. used["user"]
    /\ RowKnown(q) => TableOf(q) \in Tables /\ q.pk \in 1 .. used[TableOf(q)]
    /\ q.view = "update" /\ q.step = "save" => IsOwner(q)
    /\ q.view = "change_password" => s.user = q.me.pk
    /\ Ready(q) => q.reply \in {"200", "201"}
    /\ q.step # "done" /\ ~q.late => Current(q)

TablesSound ==
    /\ site \in Served
    /\ DOMAIN rows = Tables /\ Legal(rows)
    /\ used \in [Tables -> Nat]
    /\ \A t \in Tables : DOMAIN rows[t] \subseteq 1 .. used[t]
    /\ hashes \in Nat
    /\ "user" \in Tables =>
         \A u \in DOMAIN rows["user"] : rows["user"][u].hash \in 0 .. hashes

\* A foreign key that is held is the row's as long as there is the row, however
\* late the request; and no two requests hold different ones for the same id.
KeysRight ==
    \A b \in Browsers : LET q == req[b] IN
        Holds(q) /\ Has(TableOf(q), q.pk) => rows[TableOf(q)][q.pk].ref = q.ref
KeysAgree ==
    \A b, c \in Browsers :
        /\ Holds(req[b]) /\ Holds(req[c])
        /\ TableOf(req[b]) = TableOf(req[c]) /\ req[b].pk = req[c].pk
        => req[b].ref = req[c].ref

IInv ==
    /\ TablesSound
    /\ OwnersWroteTheirArticles
    /\ session \in [Browsers -> [user : Nat, hash : 0 .. hashes]]
    /\ DOMAIN req = Browsers
    /\ \A b \in Browsers : Sound(req[b], session[b])
    /\ KeysRight /\ KeysAgree
=============================================================================

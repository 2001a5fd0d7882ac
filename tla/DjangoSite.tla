----------------------------- MODULE DjangoSite -----------------------------
(***************************************************************************)
(* What the views of the four Django sites (2022/DB) run on: the tables,   *)
(* the sessions and the requests in progress, and the operations of Django *)
(* the views call.  Django and SQLite are not in the repository: their     *)
(* operations are modelled from how the views and the settings use them.   *)
(*                                                                         *)
(* Every browser has at most one request in progress.  The development     *)
(* server serves each in a thread of its own, there is no ATOMIC_REQUESTS, *)
(* so the queries of a view are steps of their own and the steps of        *)
(* several requests interleave.  A request's first step opens it: reading  *)
(* the session and its user, or the first query of a view without them.    *)
(* Nobody else writes a browser's session, so what a view and the          *)
(* middleware do to it between two queries of the tables is one step.      *)
(***************************************************************************)
EXTENDS Naturals, FiniteSets, Functions

CONSTANTS
    Browsers,
    Names,        \* the user names the sign-up form may be sent
    MaxRows,      \* bound: ids handed out, table by table
    MaxHashes     \* bound: password hashes ever made

AllTables == {"user", "article", "comment", "todo", "artist", "music"}

ASSUME SiteAssumption == MaxRows \in [AllTables -> Nat] /\ MaxHashes \in Nat

VARIABLES
    site,         \* which of the sites is served
    rows,         \* table -> primary key -> row
    used,         \* table -> the last id AUTOINCREMENT gave
    hashes,       \* salted password hashes made so far: no two are equal
    session,      \* browser -> what its session says: a user and a hash
    req           \* browser -> its request in progress, or the last reply

vars == <<site, rows, used, hashes, session, req>>

Pks(t) == 1 .. MaxRows[t]
Nobody == [pk |-> 0, name |-> "", hash |-> 0]      \* AnonymousUser
NoSession == [user |-> 0, hash |-> 0]

(***************************************************************************)
(* A request: its view and next step; the copy of the user's row, the pk   *)
(* and foreign key of the row, and the list of pks it has read; and        *)
(* whether another request wrote to the database since it began, or since  *)
(* its own last write (late).                                              *)
(***************************************************************************)
Closed == [view |-> "", step |-> "done", me |-> Nobody, pk |-> 0, ref |-> 0,
           list |-> {}, late |-> FALSE, reply |-> ""]

Idle(b) == req[b].step = "done"
At(b, view, step) == req[b].view = view /\ req[b].step = step

Open(b, q) == Idle(b) /\ req' = [req EXCEPT ![b] = q]
Request(view, step) == [Closed EXCEPT !.view = view, !.step = step]
Go(b, q) == req' = [req EXCEPT ![b] = q]
Reply(reply) == [Closed EXCEPT !.reply = reply]
Answer(b, reply) == Go(b, Reply(reply))

-----------------------------------------------------------------------------
\* The tables: a foreign key is the ref of a row.

WorkshopModels == [user |-> "", article |-> "user", comment |-> "article"]
TodoModels == [user |-> "", todo |-> "user"]
ArticleModels == [article |-> "", comment |-> "article"]
MusicModels == [artist |-> "", music |-> "artist"]

\* Every table of the site, and the one its foreign key points to.
Parent == CASE site = "workshop" -> WorkshopModels
            [] site = "todo"     -> TodoModels
            [] site = "articles" -> ArticleModels
            [] site = "music"    -> MusicModels
Tables == DOMAIN Parent
Has(t, pk) == pk \in DOMAIN rows[t]

\* Mutant of NewPk: the largest id in use plus one.
AfterLargest(t) == Cardinality({i \in 1 .. used[t] :
                                \E j \in DOMAIN rows[t] : i <= j}) + 1

\* BigAutoField: AUTOINCREMENT never gives an id twice.
NewPk(t) == used[t] + 1

With(db, t, pk, row) ==
    [db EXCEPT ![t] = [i \in {pk} \cup DOMAIN @ |-> IF i = pk THEN row ELSE @[i]]]

\* Mutant of Without: on_delete=DO_NOTHING.
RowsOnly(db, t, pks) == [db EXCEPT ![t] = Restrict(@, DOMAIN @ \ pks)]

\* Delete with on_delete=CASCADE, one level down.
Without(db, t, pks) ==
    [u \in DOMAIN db |->
        Restrict(db[u], {i \in DOMAIN db[u] :
            /\ u = t => i \notin pks
            /\ Parent[u] = t => db[u][i].ref \notin pks})]

\* What SQLite demands of every transaction when it commits.
ForeignKeysHold(db) ==
    \A t \in Tables : Parent[t] # "" =>
        \A i \in DOMAIN db[t] : db[t][i].ref \in DOMAIN db[Parent[t]]

NamesAreUnique(db) ==
    "user" \in Tables =>
        \A i, j \in DOMAIN db["user"] :
            db["user"][i].name = db["user"][j].name => i = j

Legal(db) == ForeignKeysHold(db) /\ NamesAreUnique(db)

\* One transaction of b's request, which goes on as q.
Commit(b, db, q) ==
    /\ Legal(db)
    /\ rows' = db
    /\ req' = [c \in Browsers |->
                IF c = b THEN q
                ELSE IF Idle(c) THEN req[c]
                ELSE [req[c] EXCEPT !.late = @ \/ db # rows]]

\* A transaction that is rolled back; the exception ends the request.
Refused(b, db) ==
    /\ ~Legal(db)
    /\ Answer(b, "IntegrityError")
    /\ UNCHANGED rows

\* INSERT of a row that has no id yet.
Insert(b, t, row, q) ==
    /\ NewPk(t) <= MaxRows[t]
    /\ \/ /\ Commit(b, With(rows, t, NewPk(t), row), q)
          /\ used' = [used EXCEPT ![t] = NewPk(t)]
       \/ Refused(b, With(rows, t, NewPk(t), row)) /\ UNCHANGED used

\* save() of a loaded row: UPDATE of every column, INSERT when it is gone.
Save(b, t, pk, row, q) ==
    /\ \/ Commit(b, With(rows, t, pk, row), q)
       \/ Refused(b, With(rows, t, pk, row))
    /\ UNCHANGED used

Delete(b, db, q) == Commit(b, db, q) /\ UNCHANGED used

-----------------------------------------------------------------------------
\* The session and authentication middleware, django.contrib.auth.

Stale(b) ==
    LET s == session[b]
    IN  Has("user", s.user) /\ rows["user"][s.user].hash # s.hash

\* request.user, read when a view first asks for it.
RequestUser(b) ==
    LET s == session[b]
    IN  IF Has("user", s.user) /\ ~Stale(b)
        THEN [pk |-> s.user, name |-> rows["user"][s.user].name,
              hash |-> rows["user"][s.user].hash]
        ELSE Nobody

IsAuthenticated(b) == RequestUser(b) # Nobody

\* Reading it flushes a session whose hash is no longer the user's.
UserRead(b) ==
    session' = IF Stale(b) THEN [session EXCEPT ![b] = NoSession] ELSE session

\* login(): the old session goes and last_login is written, which finds no row
\* when the user is gone.
AuthLogin(b, reply) ==
    /\ session' = [session EXCEPT ![b] = NoSession]
    /\ \/ ~Has("user", req[b].me.pk) /\ Answer(b, "DatabaseError")
       \/ /\ Has("user", req[b].me.pk)
          /\ IF reply = "redirect" THEN Go(b, [req[b] EXCEPT !.step = "session"])
                                   ELSE Answer(b, reply)
    /\ UNCHANGED <<rows, used, hashes, site>>

\* The middleware saves the new session with a reply that is no error.
SaveSession(b) ==
    /\ session' = [session EXCEPT ![b] = [user |-> req[b].me.pk,
                                          hash |-> req[b].me.hash]]
    /\ Answer(b, "redirect")
    /\ UNCHANGED <<rows, used, hashes, site>>

AuthLogout(b) == session' = [session EXCEPT ![b] = NoSession]

\* Mutant of UpdateSessionAuthHash: the call is left out.
NoUpdate(b, h) == UNCHANGED session

UpdateSessionAuthHash(b, h) == session' = [session EXCEPT ![b].hash = h]

\* The first query of a view is for a row: get_object_or_404, or .get().
Find(b, t, missing, found(_)) ==
    \E pk \in Pks(t) :
        \/ Has(t, pk) /\ Open(b, found(pk))
        \/ ~Has(t, pk) /\ Open(b, Reply(missing))
=============================================================================

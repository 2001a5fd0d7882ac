----------------------------- MODULE SitesProofs -----------------------------
(***************************************************************************)
(* What the views of the Django sites promise, for every number of         *)
(* browsers, users, rows and passwords.  IInv is inductive: a request that *)
(* is not late still holds what it read, and the tables satisfy what       *)
(* SQLite checked at the last commit.  The action properties are shown     *)
(* with it, step by step: Good is what every step has to keep.             *)
(*                                                                         *)
(* The steps are of three kinds: those that write nothing (ReadStep),      *)
(* those that put a row into a table (WriteStep), and those that delete    *)
(* rows (DeleteStep).  A view's step is brought to one of these.           *)
(***************************************************************************)
EXTENDS Sites, TLAPS

Good == IInv' /\ HasACause /\ MovesOn /\ LoggedIn /\ ComeBackLate
        /\ KeepTheirParent

-----------------------------------------------------------------------------
(***************************************************************************)
(* The tables of the sites.                                                *)
(***************************************************************************)
LEMMA SiteTables ==
    ASSUME site \in Served
    PROVE  /\ site = "workshop" =>
                /\ Tables = {"user", "article", "comment"}
                /\ Parent["user"] = "" /\ Parent["article"] = "user"
                /\ Parent["comment"] = "article"
           /\ site = "todo" =>
                /\ Tables = {"user", "todo"}
                /\ Parent["user"] = "" /\ Parent["todo"] = "user"
           /\ site = "articles" =>
                /\ Tables = {"article", "comment"}
                /\ Parent["article"] = "" /\ Parent["comment"] = "article"
           /\ site = "music" =>
                /\ Tables = {"artist", "music"}
                /\ Parent["artist"] = "" /\ Parent["music"] = "artist"
           /\ site \in {"workshop", "todo", "articles", "music"}
  BY ServedAssumption
     DEF Tables, Parent, WorkshopModels, TodoModels, ArticleModels, MusicModels

\* A foreign key points to a table, and not to its own.
LEMMA Parents ==
    ASSUME site \in Served, NEW t \in Tables
    PROVE  /\ Parent[t] # "" => Parent[t] \in Tables /\ Parent[t] # t
           /\ Parent[t] # "user" => t \notin {"article", "todo"} \/ site = "articles"
  BY SiteTables

LEMMA SameTables ==
    ASSUME site' = site
    PROVE  Parent' = Parent /\ Tables' = Tables
  BY DEF Tables, Parent

\* A row put into a table: nothing else changes.
LEMMA WithRow ==
    ASSUME NEW db, NEW t \in DOMAIN db, NEW pk, NEW row, NEW new,
           new = With(db, t, pk, row)
    PROVE  /\ DOMAIN new = DOMAIN db
           /\ DOMAIN new[t] = {pk} \cup DOMAIN db[t]
           /\ new[t][pk] = row
           /\ \A i \in DOMAIN db[t] : i # pk => new[t][i] = db[t][i]
           /\ \A u \in DOMAIN db : u # t => new[u] = db[u]
  BY DEF With

\* What a row of the table points to is there.
RefExists(t, row) == Parent[t] # "" => row.ref \in DOMAIN rows[Parent[t]]

\* The database commits a new row whose foreign key is there, and a user
\* whose name no other user has.
LEMMA LegalWith ==
    ASSUME site \in Served, DOMAIN rows = Tables, Legal(rows),
           NEW t \in Tables, NEW pk, NEW row,
           RefExists(t, row),
           t = "user" => \A i \in DOMAIN rows["user"] :
                             rows["user"][i].name = row.name => i = pk
    PROVE  Legal(With(rows, t, pk, row))
<1> DEFINE new == With(rows, t, pk, row)
<1>1. /\ DOMAIN new = Tables
      /\ DOMAIN new[t] = {pk} \cup DOMAIN rows[t]
      /\ new[t][pk] = row
      /\ \A i \in DOMAIN rows[t] : i # pk => new[t][i] = rows[t][i]
      /\ \A u \in Tables : u # t => new[u] = rows[u]
  BY DEF With
<1> HIDE DEF new
<1>2. ForeignKeysHold(new)
  <2> SUFFICES ASSUME NEW u \in Tables, Parent[u] # "", NEW i \in DOMAIN new[u]
               PROVE  new[u][i].ref \in DOMAIN new[Parent[u]]
    BY DEF ForeignKeysHold
  <2>1. Parent[u] \in Tables /\ DOMAIN rows[Parent[u]] \subseteq DOMAIN new[Parent[u]]
    BY <1>1, Parents
  <2>2. CASE u = t /\ i = pk
    BY <2>1, <2>2, <1>1 DEF RefExists
  <2>3. CASE ~(u = t /\ i = pk)
    <3>1. i \in DOMAIN rows[u] /\ new[u][i] = rows[u][i]
      BY <2>3, <1>1
    <3>2. rows[u][i].ref \in DOMAIN rows[Parent[u]]
      BY <3>1 DEF Legal, ForeignKeysHold
    <3> QED BY <2>1, <3>1, <3>2
  <2> QED BY <2>2, <2>3
<1>3. NamesAreUnique(new)
  <2> SUFFICES ASSUME "user" \in Tables,
                      NEW i \in DOMAIN new["user"], NEW j \in DOMAIN new["user"],
                      new["user"][i].name = new["user"][j].name
               PROVE  i = j
    BY DEF NamesAreUnique
  <2>1. \A k, l \in DOMAIN rows["user"] :
            rows["user"][k].name = rows["user"][l].name => k = l
    BY DEF Legal, NamesAreUnique
  <2>2. CASE t # "user"
    BY <2>1, <2>2, <1>1
  <2>3. CASE t = "user"
    <3>1. \A k \in DOMAIN rows["user"] : rows["user"][k].name = row.name => k = pk
      BY <2>3
    <3>2. \A k \in DOMAIN new["user"] : k # pk =>
              k \in DOMAIN rows["user"] /\ new["user"][k] = rows["user"][k]
      BY <2>3, <1>1
    <3>3. new["user"][pk] = row
      BY <2>3, <1>1
    <3>4. CASE i = pk
      BY <3>1, <3>2, <3>3, <3>4
    <3>5. CASE i # pk
      BY <2>1, <3>1, <3>2, <3>3, <3>5
    <3> QED BY <3>4, <3>5
  <2> QED BY <2>2, <2>3
<1> QED BY <1>2, <1>3 DEF Legal, new

-----------------------------------------------------------------------------
(***************************************************************************)
(* Ids and hashes only grow.                                               *)
(***************************************************************************)
LEMMA UpTo == \A m, n \in Nat : m <= n => \A i \in 1 .. m : i \in 1 .. n
  OBVIOUS

LEMMA UpToFromZero == \A m, n \in Nat : m <= n => \A i \in 0 .. m : i \in 0 .. n
  OBVIOUS

LEMMA Given == \A n \in Nat : n <= n /\ \A i \in 1 .. n : i \in Nat /\ i <= n
  OBVIOUS

-----------------------------------------------------------------------------
(***************************************************************************)
(* Requests.                                                               *)
(***************************************************************************)

LEMMA NobodysHash == hashes \in Nat => Nobody.hash \in 0 .. hashes
  BY DEF Nobody

\* A request that is done holds nothing.
LEMMA SoundDone ==
    ASSUME hashes \in Nat, NEW q, NEW s, DOMAIN q = DOMAIN Closed, q.me = Nobody,
           q.late = FALSE, q.step = "done", q.view = ""
    PROVE  Sound(q, s)
<1>1. Nobody.hash \in 0 .. hashes
  BY NobodysHash
<1>2. ~UserKnown(q) /\ ~RowKnown(q) /\ ~Ready(q)
  BY DEF UserKnown, RowKnown, Ready
<1> QED BY <1>1, <1>2 DEF Sound

LEMMA SoundReply == hashes \in Nat => \A r, s : Sound(Reply(r), s)
<1> SUFFICES ASSUME hashes \in Nat, NEW r, NEW s PROVE Sound(Reply(r), s)
  OBVIOUS
<1> DEFINE q == Reply(r)
<1>1. /\ DOMAIN q = DOMAIN Closed /\ q.me = Nobody /\ q.late = FALSE
      /\ q.step = "done" /\ q.view = ""
  BY DEF Reply, Closed
<1> HIDE DEF q
<1>2. Sound(q, s)
  BY <1>1, SoundDone
<1> QED BY <1>2 DEF q

LEMMA SoundReplyNext == hashes' \in Nat => \A r, s : Sound(Reply(r), s)'
<1>1. (hashes \in Nat)' => (\A r, s : Sound(Reply(r), s))'
  BY SoundReply, PTL
<1> QED BY <1>1

LEMMA SoundReplied ==
    ASSUME hashes' \in Nat, NEW b, NEW r, req'[b] = Reply(r)
    PROVE  Sound(req[b], session[b])'
<1>1. \A q, s : q = Reply(r) => Sound(q, s)'
  BY SoundReplyNext
<1> QED BY <1>1

\* What another browser's request knows stays true, or it is late.
LEMMA OthersSound ==
    ASSUME IInv, site' = site, hashes' \in Nat, hashes <= hashes',
           used' \in [Tables -> Nat], \A t \in Tables : used[t] <= used'[t],
           NEW c \in Browsers, session'[c] = session[c],
           \/ req'[c] = req[c] /\ (rows' = rows \/ req[c].step = "done")
           \/ req'[c] = [req[c] EXCEPT !.late = req[c].late \/ rows' # rows]
    PROVE  Sound(req[c], session[c])'
<1> DEFINE q == req[c]
           s == session[c]
<1>0. s' = s
  OBVIOUS
<1>1. Sound(q, s) /\ hashes \in Nat /\ used \in [Tables -> Nat]
  BY DEF IInv, TablesSound
<1>2. Tables' = Tables
  BY SameTables
<1>3. /\ DOMAIN q' = DOMAIN Closed
      /\ q'.view = q.view /\ q'.step = q.step /\ q'.me = q.me /\ q'.pk = q.pk
      /\ q'.ref = q.ref /\ q'.list = q.list /\ q'.reply = q.reply
  BY <1>1 DEF Sound, Closed
<1>4. q'.late \in BOOLEAN /\ (q'.step # "done" /\ ~q'.late => ~q.late /\ rows' = rows)
  <2>1. CASE req'[c] = req[c] /\ (rows' = rows \/ req[c].step = "done")
    BY <2>1, <1>1 DEF Sound
  <2>2. CASE req'[c] = [req[c] EXCEPT !.late = req[c].late \/ rows' # rows]
    <3>1. q'.late = (q.late \/ rows' # rows)
      BY <2>2, <1>1 DEF Sound, Closed
    <3> QED BY <3>1, <1>1 DEF Sound
  <2> QED BY <2>1, <2>2
<1>5. /\ UserKnown(q)' <=> UserKnown(q)
      /\ RowKnown(q)' <=> RowKnown(q)
      /\ KeyKnown(q)' <=> KeyKnown(q)
      /\ TableOf(q)' = TableOf(q)
  BY <1>3 DEF UserKnown, RowKnown, KeyKnown, TableOf
<1> HIDE DEF q, s
<1>6. q'.step # "done" /\ ~q'.late => Current(q)'
  <2> SUFFICES ASSUME q'.step # "done", ~q'.late PROVE Current(q)'
    OBVIOUS
  <2>1. rows' = rows /\ Current(q)
    BY <1>1, <1>3, <1>4 DEF Sound
  <2> QED
    BY <2>1, <1>3, <1>5
       DEF Current, Has, NameIsFree, UserRow
<1>7. q'.me.hash \in 0 .. hashes'
  BY <1>1, <1>3 DEF Sound
<1>8. UserKnown(q)' => "user" \in Tables /\ q'.me.pk \in 1 .. used'["user"]
  BY <1>1, <1>3, <1>5 DEF Sound
<1>9. RowKnown(q)' => TableOf(q)' \in Tables /\ q'.pk \in 1 .. used'[TableOf(q)']
  BY <1>1, <1>3, <1>5 DEF Sound
<1>10. /\ q'.view = "update" /\ q'.step = "save" => IsOwner(q)'
       /\ q'.view = "change_password" => s'.user = q'.me.pk
       /\ DOMAIN q'.me = DOMAIN Nobody
       /\ Ready(q)' => q'.reply \in {"200", "201"}
  BY <1>0, <1>1, <1>3 DEF Sound, IsOwner, Ready
<1> QED
  BY <1>2, <1>3, <1>4, <1>6, <1>7, <1>8, <1>9, <1>10 DEF Sound, q, s

-----------------------------------------------------------------------------
(***************************************************************************)
(* The three kinds of steps.                                               *)
(***************************************************************************)

\* b's step ends no request of which a property speaks.
Quiet(b) ==
    \/ Idle(b) \/ req'[b].step # "done"
    \/ /\ req'[b].reply \in Errors => req[b].late \/ req[b].step = "lookup"
       /\ req'[b].reply = "redirect" => req[b].step # "session"

\* The steps and replies of the other browsers stay.
OthersGoOn(b) == \A c \in Browsers \ {b} : req'[c].step = req[c].step

LEMMA QuietAnswers ==
    ASSUME NEW b \in Browsers, Quiet(b), OthersGoOn(b)
    PROVE  HasACause /\ LoggedIn
<1>1. \A c \in Browsers : \A replies : Answers(c, replies) => c = b
  BY DEF Answers, OthersGoOn
<1>2. HasACause
  BY <1>1 DEF HasACause, Answers, Quiet, Idle
<1>3. LoggedIn
  BY <1>1 DEF LoggedIn, Answers, Quiet, Idle, At
<1> QED BY <1>2, <1>3

-----------------------------------------------------------------------------
(***************************************************************************)
(* The foreign keys that requests hold, however late they are.             *)
(***************************************************************************)

\* q holds what b's request held already, or what the tables hold.
Held(b, q) ==
    KeyKnown(q) =>
        \/ /\ RowKnown(req[b]) /\ KeyKnown(req[b])
           /\ TableOf(req[b]) = TableOf(q) /\ req[b].pk = q.pk /\ req[b].ref = q.ref
        \/ Has(TableOf(q), q.pk) /\ rows[TableOf(q)][q.pk].ref = q.ref

\* A row that db has under an id given before keeps its foreign key, or gets the
\* one that b's request holds for it.
KeysKept(b, db) ==
    \A t \in Tables : Parent[t] # "" => \A i \in DOMAIN db[t] : i <= used[t] =>
        \/ i \in DOMAIN rows[t] /\ db[t][i].ref = rows[t][i].ref
        \/ /\ Holds(req[b]) /\ TableOf(req[b]) = t /\ req[b].pk = i
           /\ db[t][i].ref = req[b].ref

\* What a request holds does not depend on its being late.
LEMMA SameHeld ==
    ASSUME site' = site, NEW c \in Browsers, Sound(req[c], session[c]),
           \/ req'[c] = req[c]
           \/ \E l : req'[c] = [req[c] EXCEPT !.late = l]
    PROVE  /\ Holds(req[c])' <=> Holds(req[c])
           /\ TableOf(req[c])' = TableOf(req[c])
           /\ req'[c].pk = req[c].pk /\ req'[c].ref = req[c].ref
<1>1. /\ req'[c].view = req[c].view /\ req'[c].step = req[c].step
      /\ req'[c].pk = req[c].pk /\ req'[c].ref = req[c].ref
  BY DEF Sound, Closed
<1>2. Parent' = Parent
  BY SameTables
<1> QED BY <1>1, <1>2 DEF Holds, RowKnown, KeyKnown, TableOf

\* A request that holds the key of a row knows the row's table, and its id has
\* been given.
LEMMA HeldKnown ==
    ASSUME IInv, NEW c \in Browsers, Holds(req[c])
    PROVE  /\ TableOf(req[c]) \in Tables /\ Parent[TableOf(req[c])] # ""
           /\ req[c].pk \in Nat /\ req[c].pk <= used[TableOf(req[c])]
<1>1. Sound(req[c], session[c]) /\ used \in [Tables -> Nat]
  BY DEF IInv, TablesSound
<1>2. RowKnown(req[c]) /\ Parent[TableOf(req[c])] # ""
  BY DEF Holds
<1>3. TableOf(req[c]) \in Tables /\ req[c].pk \in 1 .. used[TableOf(req[c])]
  BY <1>1, <1>2 DEF Sound
<1>4. used[TableOf(req[c])] \in Nat
  BY <1>1, <1>3
<1> QED BY <1>2, <1>3, <1>4, Given

LEMMA KeysRead ==
    ASSUME IInv, NEW b \in Browsers, NEW q, Go(b, q), UNCHANGED <<site, rows>>,
           ~RowKnown(q) \/ Held(b, q)
    PROVE  KeysRight' /\ KeysAgree'
<1>1. /\ req'[b] = q /\ Parent' = Parent
      /\ \A c \in Browsers \ {b} : req'[c] = req[c] /\ Sound(req[c], session[c])
  BY SameTables DEF Go, IInv
<1>2. ASSUME NEW c \in Browsers \ {b}
      PROVE  /\ Holds(req[c])' <=> Holds(req[c])
             /\ TableOf(req[c])' = TableOf(req[c]) /\ req'[c] = req[c]
  BY <1>1, SameHeld
<1>3. /\ Holds(req[b])' <=> Holds(q)
      /\ TableOf(req[b])' = TableOf(q)
  BY <1>1 DEF Holds, RowKnown, KeyKnown, TableOf
<1>4. KeysRight'
  <2> SUFFICES ASSUME NEW c \in Browsers, Holds(req[c])',
                      req'[c].pk \in DOMAIN rows'[TableOf(req[c])']
               PROVE  rows'[TableOf(req[c])'][req'[c].pk].ref = req'[c].ref
    BY DEF KeysRight, Has
  <2>1. CASE c # b
    BY <2>1, <1>2 DEF IInv, KeysRight, Has
  <2>2. CASE c = b
    <3>1. Holds(q) /\ Has(TableOf(q), q.pk)
      BY <2>2, <1>1, <1>3 DEF Has
    <3>2. rows[TableOf(q)][q.pk].ref = q.ref
      BY <3>1 DEF Holds, Held, IInv, KeysRight
    <3> QED BY <2>2, <3>2, <1>1, <1>3
  <2> QED BY <2>1, <2>2
<1>5. ASSUME NEW c \in Browsers \ {b}, Holds(req[c]), Holds(q),
             TableOf(req[c]) = TableOf(q), req[c].pk = q.pk
      PROVE  req[c].ref = q.ref
  BY <1>5 DEF Holds, Held, IInv, KeysRight, KeysAgree
<1>6. KeysAgree'
  <2> SUFFICES ASSUME NEW c \in Browsers, NEW d \in Browsers,
                      Holds(req[c])', Holds(req[d])',
                      TableOf(req[c])' = TableOf(req[d])', req'[c].pk = req'[d].pk
               PROVE  req'[c].ref = req'[d].ref
    BY DEF KeysAgree
  <2>1. CASE c # b /\ d # b
    BY <2>1, <1>2 DEF IInv, KeysAgree
  <2>2. CASE c = b /\ d # b
    BY <2>2, <1>1, <1>2, <1>3, <1>5
  <2>3. CASE c # b /\ d = b
    BY <2>3, <1>1, <1>2, <1>3, <1>5
  <2>4. CASE c = b /\ d = b
    BY <2>4
  <2> QED BY <2>1, <2>2, <2>3, <2>4
<1> QED BY <1>4, <1>6

LEMMA KeysCommit ==
    ASSUME IInv, NEW b \in Browsers, NEW db, NEW q, Commit(b, db, q), site' = site,
           ~RowKnown(q), KeysKept(b, db), DOMAIN db = Tables
    PROVE  KeysRight' /\ KeysAgree' /\ KeepTheirParent
<1>1. req'[b] = q /\ Parent' = Parent /\ Tables' = Tables /\ rows' = db
  BY SameTables DEF Commit
<1>2. ~Holds(req[b])'
  BY <1>1 DEF Holds, RowKnown
<1>3. ASSUME NEW c \in Browsers, c # b
      PROVE  /\ Holds(req[c])' <=> Holds(req[c])
             /\ TableOf(req[c])' = TableOf(req[c])
             /\ req'[c].pk = req[c].pk /\ req'[c].ref = req[c].ref
  <2>1. \/ req'[c] = req[c]
        \/ \E l : req'[c] = [req[c] EXCEPT !.late = l]
    BY <1>3 DEF Commit
  <2>2. Sound(req[c], session[c])
    BY DEF IInv
  <2> QED BY <2>1, <2>2, SameHeld
<1>4. KeysAgree'
  BY <1>2, <1>3 DEF IInv, KeysAgree
<1>5. KeysRight'
  <2> SUFFICES ASSUME NEW c \in Browsers, Holds(req[c])',
                      req'[c].pk \in DOMAIN rows'[TableOf(req[c])']
               PROVE  rows'[TableOf(req[c])'][req'[c].pk].ref = req'[c].ref
    BY DEF KeysRight, Has
  <2> DEFINE t == TableOf(req[c])
             i == req[c].pk
  <2>1. /\ c # b /\ Holds(req[c]) /\ TableOf(req[c])' = t
        /\ req'[c].pk = i /\ req'[c].ref = req[c].ref
    BY <1>2, <1>3
  <2>2. t \in Tables /\ Parent[t] # "" /\ i <= used[t]
    BY <2>1, HeldKnown
  <2>3. i \in DOMAIN db[t]
    BY <1>1, <2>1 DEF Has
  <2>4. db[t][i].ref = req[c].ref
    <3>1. CASE i \in DOMAIN rows[t] /\ db[t][i].ref = rows[t][i].ref
      BY <2>1, <3>1 DEF IInv, KeysRight, Has
    <3>2. CASE /\ Holds(req[b]) /\ TableOf(req[b]) = t /\ req[b].pk = i
               /\ db[t][i].ref = req[b].ref
      BY <2>1, <3>2 DEF IInv, KeysAgree
    <3> QED BY <2>2, <2>3, <3>1, <3>2 DEF KeysKept
  <2> QED BY <1>1, <2>1, <2>4
<1>6. KeepTheirParent
  <2> SUFFICES ASSUME NEW t \in Tables, NEW i \in DOMAIN rows[t] \cap DOMAIN rows'[t],
                      Parent[t] # ""
               PROVE  rows'[t][i].ref = rows[t][i].ref
    BY DEF KeepTheirParent
  <2>1. i <= used[t]
    <3>1. i \in 1 .. used[t] /\ used[t] \in Nat
      BY DEF IInv, TablesSound
    <3> QED BY <3>1, Given
  <2>2. CASE /\ Holds(req[b]) /\ TableOf(req[b]) = t /\ req[b].pk = i
             /\ db[t][i].ref = req[b].ref
    BY <1>1, <2>2 DEF IInv, KeysRight, Has
  <2> QED BY <1>1, <2>1, <2>2 DEF KeysKept
<1> QED BY <1>4, <1>5, <1>6

\* Every session's hash has been made.
SessionsTyped == session \in [Browsers -> [user : Nat, hash : 0 .. hashes]]
SessionsMove(b) == SessionsTyped' /\ \A c \in Browsers \ {b} : session'[c] = session[c]

\* A step that leaves the tables alone.
LEMMA ReadStep ==
    ASSUME IInv, NEW b \in Browsers, NEW q, Go(b, q),
           UNCHANGED <<site, rows, used>>, hashes' \in Nat, hashes <= hashes',
           SessionsMove(b), Sound(req[b], session[b])', ~RowKnown(q) \/ Held(b, q)
    PROVE  IInv' /\ MovesOn /\ ComeBackLate /\ KeepTheirParent /\ OthersGoOn(b)
           /\ req'[b] = q
<1>1. /\ DOMAIN req = Browsers /\ DOMAIN req' = Browsers /\ req'[b] = q
      /\ \A c \in Browsers \ {b} : req'[c] = req[c]
  BY DEF Go, IInv
<1>2. TablesSound'
  <2>1. TablesSound /\ Tables' = Tables /\ Parent' = Parent
    BY SameTables DEF IInv
  <2>2. "user" \in Tables =>
            \A u \in DOMAIN rows["user"] : rows["user"][u].hash \in 0 .. hashes'
    BY <2>1 DEF TablesSound
  <2> QED
    BY <2>1, <2>2 DEF TablesSound, Legal, ForeignKeysHold, NamesAreUnique
<1>3. \A c \in Browsers : Sound(req[c], session[c])'
  <2> SUFFICES ASSUME NEW c \in Browsers, c # b PROVE Sound(req[c], session[c])'
    OBVIOUS
  <2>1. hashes \in Nat /\ used \in [Tables -> Nat]
    BY DEF IInv, TablesSound
  <2>2. req'[c] = req[c] /\ session'[c] = session[c]
    BY <1>1 DEF SessionsMove
  <2>3. /\ site' = site /\ rows' = rows
        /\ used' \in [Tables -> Nat] /\ \A t \in Tables : used[t] <= used'[t]
    BY <2>1
  <2> QED BY <2>2, <2>3, OthersSound
<1>4. OwnersWroteTheirArticles'
  BY DEF IInv, OwnersWroteTheirArticles
<1>5. KeysRight' /\ KeysAgree'
  BY KeysRead
<1>6. IInv'
  BY <1>1, <1>2, <1>3, <1>4, <1>5 DEF IInv, SessionsMove, SessionsTyped
<1> QED BY <1>1, <1>6 DEF MovesOn, ComeBackLate, KeepTheirParent, OthersGoOn

LEMMA QuietRead ==
    ASSUME IInv, NEW b \in Browsers, NEW q, Go(b, q),
           UNCHANGED <<site, rows, used>>, hashes' \in Nat, hashes <= hashes',
           SessionsMove(b), Sound(req[b], session[b])', Quiet(b),
           ~RowKnown(q) \/ Held(b, q)
    PROVE  Good
  BY ReadStep, QuietAnswers DEF Good

\* A commit: requests that are in progress become late.
LEMMA CommitStep ==
    ASSUME IInv, NEW b \in Browsers, NEW db, NEW q, Commit(b, db, q),
           site' = site, hashes' \in Nat, hashes <= hashes',
           used' \in [Tables -> Nat], \A t \in Tables : used[t] <= used'[t],
           SessionsMove(b), Sound(req[b], session[b])',
           TablesSound', OwnersWroteTheirArticles',
           ~RowKnown(q), KeysKept(b, db), DOMAIN db = Tables
    PROVE  IInv' /\ KeepTheirParent /\ OthersGoOn(b) /\ req'[b] = q
<1>1. /\ DOMAIN req = Browsers /\ DOMAIN req' = Browsers /\ rows' = db
      /\ req'[b] = q
  BY DEF IInv, Commit
<1>2. ASSUME NEW c \in Browsers, c # b
      PROVE  /\ \/ req'[c] = req[c] /\ req[c].step = "done"
                \/ req'[c] = [req[c] EXCEPT !.late = req[c].late \/ rows' # rows]
             /\ req'[c].step = req[c].step
  <2>1. \/ req'[c] = req[c] /\ req[c].step = "done"
        \/ req'[c] = [req[c] EXCEPT !.late = req[c].late \/ rows' # rows]
    BY <1>2 DEF Commit, Idle
  <2>2. DOMAIN req[c] = DOMAIN Closed
    BY DEF IInv, Sound
  <2> QED BY <2>1, <2>2 DEF Closed
<1>3. \A c \in Browsers : Sound(req[c], session[c])'
  <2> SUFFICES ASSUME NEW c \in Browsers, c # b PROVE Sound(req[c], session[c])'
    OBVIOUS
  <2>1. session'[c] = session[c]
    BY DEF SessionsMove
  <2> QED BY <2>1, <1>2, OthersSound
<1>4. KeysRight' /\ KeysAgree' /\ KeepTheirParent
  BY KeysCommit
<1>5. IInv'
  BY <1>1, <1>3, <1>4 DEF IInv, SessionsMove, SessionsTyped
<1> QED BY <1>1, <1>2, <1>4, <1>5 DEF OthersGoOn

LEMMA LegalNext ==
    ASSUME Legal(rows'), site' = site
    PROVE  Legal(rows)'
  BY SameTables DEF Legal, ForeignKeysHold, NamesAreUnique

\* As q, b's request is sound, holds no row, and no property speaks of it.
Continues(b, q) ==
    req'[b] = q => Sound(req[b], session[b])' /\ Quiet(b) /\ ~RowKnown(q)

\* A reply that no property speaks of.
LEMMA ReplyContinues ==
    ASSUME IInv, NEW b \in Browsers, NEW r, hashes' = hashes, r \notin Errors,
           r = "redirect" => req[b].step # "session"
    PROVE  Continues(b, Reply(r))
<1> SUFFICES ASSUME req'[b] = Reply(r)
             PROVE  Sound(req[b], session[b])' /\ Quiet(b) /\ ~RowKnown(Reply(r))
  BY DEF Continues
<1>1. Sound(req[b], session[b])'
  BY SoundReplied DEF IInv, TablesSound
<1> QED BY <1>1 DEF Quiet, Reply, Closed, RowKnown

\* Rows are deleted, and none is changed.
LEMMA DeleteStep ==
    ASSUME IInv, NEW b \in Browsers, NEW db, NEW q, Delete(b, db, q),
           UNCHANGED <<site, hashes>>, SessionsMove(b), Continues(b, q),
           DOMAIN db = Tables,
           \A t \in Tables : /\ DOMAIN db[t] \subseteq DOMAIN rows[t]
                             /\ \A i \in DOMAIN db[t] : db[t][i] = rows[t][i]
    PROVE  Good
<1>1. /\ Commit(b, db, q) /\ rows' = db /\ Legal(rows') /\ used' = used
      /\ TablesSound /\ req'[b] = q
  BY DEF Delete, Commit, IInv
<1>2. /\ site' = site /\ hashes' = hashes /\ hashes \in Nat
      /\ used \in [Tables -> Nat] /\ Tables' = Tables
  BY <1>1, SameTables DEF TablesSound
<1>3. TablesSound'
  <2>1. Legal(rows)'
    BY <1>1, <1>2, LegalNext
  <2>2. \A t \in Tables : DOMAIN rows'[t] \subseteq 1 .. used[t]
    BY <1>1 DEF TablesSound
  <2>3. "user" \in Tables =>
            \A u \in DOMAIN rows'["user"] : rows'["user"][u].hash \in 0 .. hashes
    BY <1>1 DEF TablesSound
  <2> QED BY <2>1, <2>2, <2>3, <1>1, <1>2 DEF TablesSound
<1>4. site = "workshop" => "user" \in Tables /\ "article" \in Tables
  BY <1>1, SiteTables DEF TablesSound
<1>5. OwnersWroteTheirArticles'
  BY <1>1, <1>2, <1>4 DEF IInv, OwnersWroteTheirArticles
<1>6. Sound(req[b], session[b])' /\ Quiet(b) /\ ~RowKnown(q)
  BY <1>1 DEF Continues
<1>7. IInv' /\ KeepTheirParent /\ OthersGoOn(b)
  <2>1. \A t \in Tables : used[t] <= used'[t]
    BY <1>1, <1>2
  <2>2. used' \in [Tables -> Nat] /\ hashes' \in Nat /\ hashes <= hashes'
    BY <1>1, <1>2
  <2>3. KeysKept(b, db)
    BY DEF KeysKept
  <2> QED BY <2>1, <2>2, <2>3, <1>1, <1>2, <1>3, <1>5, <1>6, CommitStep
<1>8. MovesOn /\ ComeBackLate
  BY <1>1, <1>4 DEF MovesOn, ComeBackLate
<1> QED BY <1>6, <1>7, <1>8, QuietAnswers DEF Good

\* A row is put into a table: its id, hash and author are what they should be,
\* and so is the reason for its coming.
LEMMA WriteStep ==
    ASSUME IInv, NEW b \in Browsers, NEW t \in Tables, NEW pk, NEW row, NEW q,
           Commit(b, With(rows, t, pk, row), q),
           site' = site, hashes' \in Nat, hashes <= hashes',
           used' \in [Tables -> Nat], \A u \in Tables : used[u] <= used'[u],
           SessionsMove(b), Sound(req[b], session[b])',
           pk \in 1 .. used'[t],
           t = "user" => row.hash \in 0 .. hashes',
           t = "article" /\ site = "workshop" => row.by = row.ref,
           t = "user" /\ pk \in DOMAIN rows[t] =>
               \/ row.hash = rows[t][pk].hash
               \/ /\ req[b].me.pk = pk
                  /\ \/ /\ At(b, "change_password", "save")
                        /\ row.hash = hashes' /\ hashes' = hashes + 1
                     \/ /\ At(b, "update_account", "save") /\ req[b].late
                        /\ row.hash = req[b].me.hash,
           pk \notin DOMAIN rows[t] /\ pk <= used[t] =>
               /\ req[b].step = "save" /\ req[b].late
               /\ pk \in {req[b].pk, req[b].me.pk},
           ~RowKnown(q),
           Parent[t] # "" /\ pk <= used[t] =>
               /\ Holds(req[b]) /\ TableOf(req[b]) = t /\ req[b].pk = pk
               /\ row.ref = req[b].ref
    PROVE  IInv' /\ MovesOn /\ ComeBackLate /\ KeepTheirParent /\ OthersGoOn(b)
           /\ req'[b] = q
<1> DEFINE db == With(rows, t, pk, row)
<1>1. /\ rows' = db /\ Legal(rows') /\ TablesSound /\ req'[b] = q
      /\ DOMAIN rows = Tables
  BY DEF Commit, IInv, TablesSound
<1>2. /\ DOMAIN db = Tables
      /\ DOMAIN db[t] = {pk} \cup DOMAIN rows[t]
      /\ db[t][pk] = row
      /\ \A i \in DOMAIN rows[t] : i # pk => db[t][i] = rows[t][i]
      /\ \A u \in Tables : u # t => db[u] = rows[u]
  BY <1>1 DEF With
<1>3. Commit(b, db, q)
  OBVIOUS
<1> HIDE DEF db
<1>4. Tables' = Tables /\ hashes \in Nat /\ used \in [Tables -> Nat]
  BY <1>1, SameTables DEF TablesSound
<1>5. TablesSound'
  <2>1. Legal(rows)'
    BY <1>1, LegalNext
  <2>2. \A u \in Tables : DOMAIN rows'[u] \subseteq 1 .. used'[u]
    <3> SUFFICES ASSUME NEW u \in Tables, NEW i \in DOMAIN rows'[u]
                 PROVE  i \in 1 .. used'[u]
      OBVIOUS
    <3>1. CASE u = t /\ i = pk
      BY <3>1
    <3>2. CASE ~(u = t /\ i = pk)
      <4>1. i \in 1 .. used[u]
        BY <3>2, <1>1, <1>2 DEF TablesSound
      <4>2. used[u] \in Nat /\ used'[u] \in Nat /\ used[u] <= used'[u]
        BY <1>4
      <4> QED BY <4>1, <4>2, UpTo
    <3> QED BY <3>1, <3>2
  <2>3. ASSUME "user" \in Tables, NEW u \in DOMAIN rows'["user"]
        PROVE  rows'["user"][u].hash \in 0 .. hashes'
    <3>1. CASE t = "user" /\ u = pk
      BY <3>1, <1>1, <1>2
    <3>2. CASE ~(t = "user" /\ u = pk)
      <4>1. u \in DOMAIN rows["user"] /\ rows'["user"][u] = rows["user"][u]
        BY <3>2, <2>3, <1>1, <1>2
      <4>2. rows["user"][u].hash \in 0 .. hashes
        BY <4>1, <2>3, <1>1 DEF TablesSound
      <4>3. rows'["user"][u].hash \in 0 .. hashes
        BY <4>1, <4>2
      <4>4. \A h \in 0 .. hashes : h \in 0 .. hashes'
        BY <1>4, UpToFromZero
      <4> QED BY <4>3, <4>4
    <3> QED BY <3>1, <3>2
  <2>4. DOMAIN rows' = Tables /\ site' \in Served
    BY <1>1, <1>2 DEF TablesSound
  <2> QED BY <2>1, <2>2, <2>3, <2>4, <1>4 DEF TablesSound
<1>6. site = "workshop" => "user" \in Tables /\ "article" \in Tables
  BY <1>1, SiteTables DEF TablesSound
<1>7. OwnersWroteTheirArticles'
  <2> SUFFICES ASSUME site = "workshop", NEW a \in DOMAIN rows'["article"]
               PROVE  rows'["article"][a].by = rows'["article"][a].ref
    BY DEF OwnersWroteTheirArticles
  <2>1. CASE t = "article" /\ a = pk
    BY <2>1, <1>1, <1>2
  <2>2. CASE ~(t = "article" /\ a = pk)
    <3>1. a \in DOMAIN rows["article"] /\ rows'["article"][a] = rows["article"][a]
      BY <2>2, <1>1, <1>2, <1>6
    <3> QED BY <3>1 DEF IInv, OwnersWroteTheirArticles
  <2> QED BY <2>1, <2>2
<1>8. IInv' /\ KeepTheirParent /\ OthersGoOn(b)
  <2>1. KeysKept(b, db)
    <3> SUFFICES ASSUME NEW u \in Tables, Parent[u] # "", NEW i \in DOMAIN db[u],
                        i <= used[u]
                 PROVE  \/ i \in DOMAIN rows[u] /\ db[u][i].ref = rows[u][i].ref
                        \/ /\ Holds(req[b]) /\ TableOf(req[b]) = u /\ req[b].pk = i
                           /\ db[u][i].ref = req[b].ref
      BY DEF KeysKept
    <3> QED BY <1>2
  <2> QED BY <2>1, <1>2, <1>3, <1>5, <1>7, CommitStep
<1>9. MovesOn
  <2> SUFFICES ASSUME site = "workshop",
                      NEW u \in DOMAIN rows["user"] \cap DOMAIN rows'["user"],
                      rows'["user"][u].hash # rows["user"][u].hash
               PROVE  /\ req[b].me.pk = u
                      /\ \/ /\ At(b, "change_password", "save")
                            /\ rows'["user"][u].hash = hashes'
                            /\ hashes' = hashes + 1
                         \/ /\ At(b, "update_account", "save")
                            /\ req[b].late
                            /\ rows'["user"][u].hash = req[b].me.hash
    BY DEF MovesOn
  <2>1. t = "user" /\ u = pk
    BY <1>1, <1>2, <1>6
  <2> QED BY <2>1, <1>1, <1>2
<1>10. ComeBackLate
  <2> SUFFICES ASSUME NEW u \in Tables, NEW i \in DOMAIN rows'[u] \ DOMAIN rows[u],
                      i <= used[u]
               PROVE  /\ req[b].step = "save" /\ req[b].late
                      /\ i \in {req[b].pk, req[b].me.pk}
    BY DEF ComeBackLate
  <2>1. u = t /\ i = pk
    BY <1>1, <1>2
  <2> QED BY <2>1
<1> QED BY <1>1, <1>8, <1>9, <1>10

LEMMA SessionsStay ==
    ASSUME IInv, NEW b, session' = session, hashes' \in Nat, hashes <= hashes'
    PROVE  SessionsMove(b)
<1>1. hashes \in Nat
  BY DEF IInv, TablesSound
<1>2. 0 .. hashes \subseteq 0 .. hashes'
  BY <1>1
<1> QED BY <1>2 DEF IInv, SessionsMove, SessionsTyped

\* A transaction that is rolled back for a reason.
LEMMA RefusedStep ==
    ASSUME IInv, NEW b \in Browsers, NEW db, Refused(b, db),
           UNCHANGED <<site, used, session>>, hashes' \in Nat, hashes <= hashes',
           ~Idle(b) /\ ~req[b].late => Legal(db)
    PROVE  Good
<1>1. /\ Go(b, Reply("IntegrityError")) /\ rows' = rows
      /\ req'[b] = Reply("IntegrityError") /\ ~Legal(db)
  BY DEF Refused, Answer, Go, IInv
<1>3. Sound(req[b], session[b])' /\ SessionsMove(b)
  BY <1>1, SoundReplied, SessionsStay
<1>4. Quiet(b) /\ ~RowKnown(Reply("IntegrityError"))
  BY <1>1 DEF Quiet, Reply, Closed, RowKnown
<1> QED BY <1>1, <1>3, <1>4, QuietRead

\* INSERT into a table other than that of the users.
LEMMA InsertStep ==
    ASSUME IInv, NEW b \in Browsers, NEW t \in Tables, t # "user", NEW row, NEW q,
           Insert(b, t, row, q), UNCHANGED <<site, hashes, session>>,
           t = "article" /\ site = "workshop" => row.by = row.ref,
           ~Idle(b) /\ ~req[b].late => RefExists(t, row),
           Continues(b, q)
    PROVE  Good
<1> DEFINE pk == NewPk(t)
<1>1. /\ TablesSound /\ site \in Served /\ DOMAIN rows = Tables /\ Legal(rows)
      /\ used \in [Tables -> Nat] /\ hashes \in Nat /\ used[t] \in Nat
      /\ pk = used[t] + 1
  BY DEF IInv, TablesSound, NewPk
<1>2. site' = site /\ hashes' \in Nat /\ hashes <= hashes' /\ session' = session
  BY <1>1
<1> HIDE DEF pk
<1>3. CASE Commit(b, With(rows, t, pk, row), q) /\ used' = [used EXCEPT ![t] = pk]
  <2>1. /\ used' \in [Tables -> Nat] /\ \A u \in Tables : used[u] <= used'[u]
        /\ pk \in 1 .. used'[t] /\ ~(pk <= used[t])
    BY <1>1, <1>3
  <2>2. pk \notin DOMAIN rows[t]
    <3>1. DOMAIN rows[t] \subseteq 1 .. used[t]
      BY <1>1 DEF TablesSound
    <3> QED BY <3>1, <1>1
  <2>3. req'[b] = q
    BY <1>3 DEF Commit
  <2>4. SessionsMove(b)
    BY <1>2, SessionsStay
  <2>5. IInv' /\ MovesOn /\ ComeBackLate /\ KeepTheirParent /\ OthersGoOn(b)
    BY <1>2, <1>3, <2>1, <2>2, <2>3, <2>4, WriteStep DEF Continues
  <2> QED BY <2>3, <2>5, QuietAnswers DEF Good, Continues
<1>4. CASE Refused(b, With(rows, t, pk, row)) /\ used' = used
  <2>1. ~Idle(b) /\ ~req[b].late => Legal(With(rows, t, pk, row))
    BY <1>1, LegalWith
  <2> QED BY <1>2, <1>4, <2>1, RefusedStep
<1> QED BY <1>3, <1>4 DEF Insert, pk

\* save() of a row of another table than that of the users.
LEMMA SaveStep ==
    ASSUME IInv, NEW b \in Browsers, NEW t \in Tables, t # "user", NEW row, NEW q,
           Save(b, t, req[b].pk, row, q), UNCHANGED <<site, hashes, session>>,
           t = "article" /\ site = "workshop" => row.by = row.ref,
           req[b].step = "save", req[b].pk \in 1 .. used[t],
           Parent[t] # "" => /\ RowKnown(req[b]) /\ KeyKnown(req[b])
                             /\ TableOf(req[b]) = t /\ row.ref = req[b].ref,
           ~req[b].late => req[b].pk \in DOMAIN rows[t] /\ RefExists(t, row),
           Continues(b, q)
    PROVE  Good
<1> DEFINE pk == req[b].pk
<1>1. /\ TablesSound /\ site \in Served /\ DOMAIN rows = Tables /\ Legal(rows)
      /\ used \in [Tables -> Nat] /\ hashes \in Nat
  BY DEF IInv, TablesSound
<1>2. /\ site' = site /\ hashes' \in Nat /\ hashes <= hashes' /\ session' = session
      /\ used' = used
  BY <1>1, Given DEF Save
<1>3. CASE Commit(b, With(rows, t, pk, row), q)
  <2>1. used' \in [Tables -> Nat] /\ (\A u \in Tables : used[u] <= used'[u])
        /\ pk \in 1 .. used'[t]
    BY <1>1, <1>2, Given
  <2>2. req'[b] = q
    BY <1>3 DEF Commit
  <2>3. SessionsMove(b)
    BY <1>2, SessionsStay
  <2>4. pk \notin DOMAIN rows[t] => req[b].late
    OBVIOUS
  <2>5. IInv' /\ MovesOn /\ ComeBackLate /\ KeepTheirParent /\ OthersGoOn(b)
    <3>1. pk \notin DOMAIN rows[t] /\ pk <= used[t] =>
               /\ req[b].step = "save" /\ req[b].late
               /\ pk \in {req[b].pk, req[b].me.pk}
      BY <2>4
    <3>2. Parent[t] # "" => /\ Holds(req[b]) /\ TableOf(req[b]) = t /\ req[b].pk = pk
                            /\ row.ref = req[b].ref
      BY DEF Holds
    <3> HIDE DEF pk
    <3> QED BY <1>2, <1>3, <2>1, <2>2, <2>3, <3>1, <3>2, WriteStep DEF Continues
  <2> QED BY <2>2, <2>5, QuietAnswers DEF Good, Continues
<1>4. CASE Refused(b, With(rows, t, pk, row))
  <2>1. ~Idle(b) /\ ~req[b].late => Legal(With(rows, t, pk, row))
    BY <1>1, LegalWith
  <2> QED BY <1>2, <1>4, <2>1, RefusedStep
<1> QED BY <1>3, <1>4 DEF Save

-----------------------------------------------------------------------------
(***************************************************************************)
(* Steps that read, and end with a reply or with a request that knows more.*)
(***************************************************************************)
LEMMA SoundSame ==
    ASSUME UNCHANGED readOnly, NEW q, NEW s, Sound(q, s)
    PROVE  Sound(q, s)'
<1>1. Tables' = Tables /\ rows' = rows /\ used' = used /\ hashes' = hashes
  BY SameTables DEF readOnly
<1>2. Current(q)' <=> Current(q)
  BY <1>1 DEF Current, Has, NameIsFree, UserRow,
              UserKnown, RowKnown, KeyKnown, TableOf
<1> QED
  BY <1>1, <1>2 DEF Sound, UserKnown, RowKnown, TableOf, IsOwner, Ready

\* The request goes on as q, which is sound.
LEMMA GoesOn ==
    ASSUME IInv, NEW b \in Browsers, NEW q, Go(b, q), UNCHANGED readOnly,
           SessionsMove(b), Sound(q, session'[b]), q.step # "done",
           ~RowKnown(q) \/ Held(b, q)
    PROVE  Good
<1>1. /\ req'[b] = q /\ UNCHANGED <<site, rows, used>>
      /\ hashes' \in Nat /\ hashes <= hashes'
  BY DEF Go, IInv, TablesSound, readOnly
<1>2. \A s : Sound(q, s) => Sound(q, s)'
  BY SoundSame
<1>3. Sound(req[b], session[b])'
  BY <1>1, <1>2
<1>4. Quiet(b)
  BY <1>1 DEF Quiet
<1> QED BY <1>1, <1>3, <1>4, QuietRead

\* The request is answered.
LEMMA Replies ==
    ASSUME IInv, NEW b \in Browsers, NEW r, Go(b, Reply(r)), UNCHANGED readOnly,
           SessionsMove(b),
           \/ Idle(b)
           \/ /\ r \in Errors => req[b].late \/ req[b].step = "lookup"
              /\ r = "redirect" => req[b].step # "session"
    PROVE  Good
<1>1. /\ req'[b] = Reply(r) /\ UNCHANGED <<site, rows, used>>
      /\ hashes' \in Nat /\ hashes <= hashes'
  BY DEF Go, IInv, TablesSound, readOnly
<1>3. Sound(req[b], session[b])'
  BY <1>1, SoundReplied
<1>4. Quiet(b) /\ ~RowKnown(Reply(r))
  BY <1>1 DEF Quiet, Reply, Closed, RowKnown
<1> QED BY <1>1, <1>3, <1>4, QuietRead

LEMMA SessionReads ==
    ASSUME IInv, NEW b \in Browsers, UserRead(b), UNCHANGED readOnly
    PROVE  SessionsMove(b) /\ (~Stale(b) => session' = session)
<1>1. hashes' = hashes /\ hashes \in Nat
  BY DEF readOnly, IInv, TablesSound
<1>2. session \in [Browsers -> [user : Nat, hash : 0 .. hashes]]
  BY DEF IInv
<1>3. NoSession \in [user : Nat, hash : 0 .. hashes]
  BY <1>1 DEF NoSession
<1> QED BY <1>1, <1>2, <1>3 DEF UserRead, SessionsMove, SessionsTyped

\* Who is logged in has a row, and request.user is a copy of it.
LEMMA UserIsRow ==
    ASSUME IInv, "user" \in Tables, NEW b, IsAuthenticated(b)
    PROVE  LET me == RequestUser(b) IN
           /\ ~Stale(b) /\ DOMAIN me = {"pk", "name", "hash"}
           /\ me.pk = session[b].user
           /\ me.pk \in DOMAIN rows["user"] /\ me.pk \in 1 .. used["user"]
           /\ me.hash \in 0 .. hashes
           /\ rows["user"][me.pk].name = me.name
           /\ rows["user"][me.pk].hash = me.hash
<1> DEFINE u == session[b].user
           me == RequestUser(b)
<1>1. /\ Has("user", u) /\ ~Stale(b)
      /\ me = [pk |-> u, name |-> rows["user"][u].name, hash |-> rows["user"][u].hash]
  BY DEF IsAuthenticated, RequestUser
<1>2. /\ u \in DOMAIN rows["user"] /\ u \in 1 .. used["user"]
      /\ rows["user"][u].hash \in 0 .. hashes
  BY <1>1 DEF Has, IInv, TablesSound
<1>3. /\ me.pk = u /\ me.name = rows["user"][u].name /\ me.hash = rows["user"][u].hash
      /\ DOMAIN me = {"pk", "name", "hash"}
  BY <1>1
<1> QED BY <1>1, <1>2, <1>3

-----------------------------------------------------------------------------
(***************************************************************************)
(* accounts/views.py.                                                      *)
(***************************************************************************)
LEMMA UsersTable ==
    ASSUME IInv
    PROVE  /\ site \in Served
           /\ site \in {"workshop", "todo"} => "user" \in Tables
           /\ site = "workshop" => Tables = {"user", "article", "comment"}
           /\ site = "todo" => Tables = {"user", "todo"}
           /\ site = "articles" => Tables = {"article", "comment"}
           /\ site = "music" => Tables = {"artist", "music"}
  BY SiteTables DEF IInv, TablesSound

LEMMA PageStep ==
    ASSUME IInv, NEW b \in Browsers, Page(b)
    PROVE  Good
<1>1. Idle(b) /\ Go(b, Reply("page")) /\ UserRead(b) /\ UNCHANGED readOnly
  BY DEF Page, Open, Go
<1> QED BY <1>1, SessionReads, Replies

\* A page, or the first step of a view, asks for the user.
LEMMA GuardedStep ==
    ASSUME IInv, NEW b \in Browsers, site = "workshop", NEW view, NEW first,
           Guarded(b, view, first), view # "article_rud",
           \/ first \in {"lookup", "collect"}
              /\ view \notin {"create", "update_account", "change_password"}
           \/ first = "save" /\ view \in {"create", "update_account", "change_password"}
    PROVE  Good
<1> DEFINE me == RequestUser(b)
           q == [Request(view, first) EXCEPT !.me = me]
<1>1. /\ Idle(b) /\ UserRead(b) /\ UNCHANGED readOnly
      /\ IsAuthenticated(b) => Go(b, q)
      /\ ~IsAuthenticated(b) => Go(b, Reply("redirect"))
  BY DEF Guarded, Open, Go
<1>2. SessionsMove(b) /\ (~Stale(b) => session' = session)
  BY <1>1, SessionReads
<1>3. CASE ~IsAuthenticated(b)
  BY <1>1, <1>2, <1>3, Replies
<1>4. CASE IsAuthenticated(b)
  <2>1. /\ ~Stale(b) /\ DOMAIN me = {"pk", "name", "hash"}
        /\ me.pk = session[b].user
        /\ me.pk \in DOMAIN rows["user"] /\ me.pk \in 1 .. used["user"]
        /\ me.hash \in 0 .. hashes
        /\ rows["user"][me.pk].name = me.name
        /\ rows["user"][me.pk].hash = me.hash
        /\ "user" \in Tables
    BY <1>4, UsersTable, UserIsRow
  <2>2. session'[b].user = me.pk
    BY <1>2, <2>1
  <2> HIDE DEF me
  <2>3. /\ DOMAIN q = DOMAIN Closed /\ DOMAIN Nobody = {"pk", "name", "hash"}
        /\ q.view = view /\ q.step = first /\ q.me = me /\ q.late = FALSE
    BY DEF Request, Closed, Nobody
  <2> HIDE DEF q
  <2>4. /\ ~RowKnown(q) /\ (q.view = "update" => q.step # "save")
        /\ q.view # "signup" \/ q.step # "save"
        /\ q.view # "delete_account" \/ q.step # "delete"
        /\ q.step # "done"
        /\ ~Ready(q)
    BY <2>3 DEF RowKnown, Ready
  <2>5. Current(q)
    BY <2>1, <2>3, <2>4 DEF Current, Has
  <2>6. Sound(q, session'[b])
    BY <2>1, <2>2, <2>3, <2>4, <2>5 DEF Sound
  <2>7. Go(b, q)
    BY <1>1, <1>4
  <2> QED BY <1>1, <1>2, <2>4, <2>6, <2>7, GoesOn
<1> QED BY <1>3, <1>4

LEMMA LogoutMoves ==
    ASSUME IInv, NEW b \in Browsers, AuthLogout(b), hashes' = hashes
    PROVE  SessionsMove(b)
<1>1. hashes \in Nat /\ session \in [Browsers -> [user : Nat, hash : 0 .. hashes]]
  BY DEF IInv, TablesSound
<1>2. NoSession \in [user : Nat, hash : 0 .. hashes]
  BY <1>1 DEF NoSession
<1> QED BY <1>1, <1>2 DEF AuthLogout, SessionsMove, SessionsTyped

\* login() in a login or a sign-up: the old session goes.
LEMMA AuthLoginStep ==
    ASSUME IInv, NEW b \in Browsers, NEW reply, reply \notin Errors,
           req[b].step = "enter", req[b].view \in {"login", "signup"},
           AuthLogin(b, reply)
    PROVE  Good
<1> DEFINE q == [req[b] EXCEPT !.step = "session"]
<1>1. /\ UNCHANGED readOnly /\ hashes' = hashes /\ Sound(req[b], session[b])
      /\ session' = [session EXCEPT ![b] = NoSession]
  BY DEF AuthLogin, readOnly, IInv
<1>2. SessionsMove(b)
  BY <1>1, LogoutMoves DEF AuthLogout
<1>3. /\ UserKnown(req[b]) /\ "user" \in Tables /\ req[b].me.pk \in 1 .. used["user"]
      /\ ~req[b].late => Has("user", req[b].me.pk)
  BY <1>1 DEF Sound, UserKnown, Current
<1>4. CASE ~Has("user", req[b].me.pk) /\ Answer(b, "DatabaseError")
  BY <1>1, <1>2, <1>3, <1>4, Replies DEF Answer
<1>5. CASE reply # "redirect" /\ Answer(b, reply)
  BY <1>1, <1>2, <1>5, Replies DEF Answer
<1>6. CASE Go(b, q)
  <2>1. /\ DOMAIN q = DOMAIN Closed /\ q.view = req[b].view /\ q.step = "session"
        /\ q.me = req[b].me /\ q.late = req[b].late
    BY <1>1 DEF Sound, Closed
  <2> HIDE DEF q
  <2>2. UserKnown(q) /\ ~RowKnown(q) /\ ~Ready(q)
    BY <2>1 DEF UserKnown, RowKnown, Ready
  <2>3. ~q.late => Current(q)
    BY <1>1, <1>3, <2>1, <2>2 DEF Sound, Current
  <2>4. Sound(q, session'[b])
    BY <1>1, <1>3, <2>1, <2>2, <2>3 DEF Sound
  <2> QED BY <1>1, <1>2, <1>6, <2>1, <2>2, <2>4, GoesOn
<1> QED BY <1>4, <1>5, <1>6 DEF AuthLogin

\* The session is saved with the redirect.
LEMMA SessionSaved ==
    ASSUME IInv, NEW b \in Browsers, req[b].step = "session",
           Answer(b, "redirect"), UNCHANGED readOnly, NEW new,
           new = [user |-> req[b].me.pk, hash |-> req[b].me.hash],
           session' = [session EXCEPT ![b] = new]
    PROVE  Good
<1> DEFINE me == req[b].me
<1>1. /\ Sound(req[b], session[b]) /\ hashes \in Nat /\ hashes' = hashes
      /\ used \in [Tables -> Nat] /\ DOMAIN req = Browsers
      /\ session \in [Browsers -> [user : Nat, hash : 0 .. hashes]]
  BY DEF IInv, TablesSound, readOnly
<1>2. /\ "user" \in Tables /\ me.pk \in 1 .. used["user"] /\ me.hash \in 0 .. hashes
      /\ ~req[b].late => Has("user", me.pk) /\ rows["user"][me.pk].hash = me.hash
  BY <1>1 DEF Sound, UserKnown, Current
<1>3. new \in [user : Nat, hash : 0 .. hashes]
  <2>1. me.pk \in Nat
    BY <1>1, <1>2
  <2> QED BY <2>1, <1>2
<1>4. SessionsMove(b) /\ session'[b] = new /\ rows' = rows
  BY <1>1, <1>3 DEF SessionsMove, SessionsTyped, readOnly
<1>5. /\ Go(b, Reply("redirect")) /\ req'[b] = Reply("redirect")
      /\ Reply("redirect").reply = "redirect" /\ ~RowKnown(Reply("redirect"))
      /\ UNCHANGED <<site, rows, used>> /\ hashes' \in Nat /\ hashes <= hashes'
  <2>1. /\ Go(b, Reply("redirect")) /\ req'[b] = Reply("redirect")
        /\ Reply("redirect").reply = "redirect" /\ ~RowKnown(Reply("redirect"))
    BY <1>1 DEF Answer, Go, Reply, Closed, RowKnown
  <2>2. UNCHANGED <<site, rows, used>> /\ hashes' \in Nat /\ hashes <= hashes'
    BY <1>1 DEF readOnly
  <2> QED BY <2>1, <2>2
<1>6. Sound(req[b], session[b])'
  BY <1>5, SoundReplied
<1>7. IInv' /\ MovesOn /\ ComeBackLate /\ KeepTheirParent /\ OthersGoOn(b)
  BY <1>4, <1>5, <1>6, ReadStep
<1>8. \A c \in Browsers : \A replies : Answers(c, replies) => c = b /\ "redirect" \in replies
  BY <1>5, <1>7 DEF Answers, OthersGoOn
<1>9. HasACause
  BY <1>8 DEF HasACause, Errors
<1>10. LoggedIn
  BY <1>2, <1>4, <1>8 DEF LoggedIn, Has
<1> QED BY <1>7, <1>9, <1>10 DEF Good

LEMMA LoginStep ==
    ASSUME IInv, NEW b \in Browsers, site \in {"workshop", "todo"}, NEW home,
           NEW next, next \cap Errors = {}, LoginForm(b, home, next)
    PROVE  Good
<1>1. CASE At(b, "login", "enter") /\ \E r \in next : AuthLogin(b, r)
  <2>1. PICK r \in next : AuthLogin(b, r)
    BY <1>1
  <2> QED BY <1>1, <2>1, AuthLoginStep DEF At
<1>2. ASSUME UserRead(b), UNCHANGED readOnly, NEW r, Open(b, Reply(r)) PROVE Good
  BY <1>2, SessionReads, Replies DEF Open, Go
<1>3. ASSUME UserRead(b), UNCHANGED readOnly, NEW u \in DOMAIN rows["user"],
             Open(b, [Request("login", "enter") EXCEPT !.me =
                        [pk |-> u, name |-> rows["user"][u].name,
                         hash |-> rows["user"][u].hash]])
      PROVE  Good
  <2> DEFINE me == [pk |-> u, name |-> rows["user"][u].name,
                    hash |-> rows["user"][u].hash]
             q == [Request("login", "enter") EXCEPT !.me = me]
  <2>1. /\ "user" \in Tables /\ u \in 1 .. used["user"]
        /\ rows["user"][u].hash \in 0 .. hashes
    BY UsersTable DEF IInv, TablesSound
  <2>2. /\ DOMAIN me = {"pk", "name", "hash"} /\ me.pk = u
        /\ me.name = rows["user"][u].name /\ me.hash = rows["user"][u].hash
    OBVIOUS
  <2> HIDE DEF me
  <2>3. /\ DOMAIN q = DOMAIN Closed /\ DOMAIN Nobody = {"pk", "name", "hash"}
        /\ q.view = "login" /\ q.step = "enter" /\ q.me = me /\ q.late = FALSE
    BY DEF Request, Closed, Nobody
  <2>4. Go(b, q)
    BY <1>3 DEF Open, Go, me
  <2> HIDE DEF q
  <2>5. ~RowKnown(q) /\ ~Ready(q)
    BY <2>3 DEF RowKnown, Ready
  <2>6. Current(q)
    BY <2>1, <2>2, <2>3, <2>5 DEF Current, Has
  <2>7. Sound(q, session'[b])
    BY <2>1, <2>2, <2>3, <2>5, <2>6 DEF Sound
  <2>8. SessionsMove(b)
    BY <1>3, SessionReads
  <2> QED BY <1>3, <2>3, <2>4, <2>5, <2>7, <2>8, GoesOn
<1>4. CASE At(b, "login", "session") /\ SaveSession(b)
  BY <1>4, SessionSaved DEF At, SaveSession, readOnly
<1> QED BY <1>1, <1>2, <1>3, <1>4 DEF LoginForm

LEMMA LogoutStep ==
    ASSUME IInv, NEW b \in Browsers, Logout(b)
    PROVE  Good
<1>1. /\ Idle(b) /\ Go(b, Reply("redirect")) /\ UNCHANGED readOnly
      /\ AuthLogout(b) \/ UserRead(b)
  BY DEF Logout, Open, Go
<1>2. SessionsMove(b)
  BY <1>1, LogoutMoves, SessionReads DEF readOnly
<1> QED BY <1>1, <1>2, Replies

\* The form of a sign-up whose name was free.
LEMMA SignupOpens ==
    ASSUME IInv, NEW b \in Browsers, NEW n, NameIsFree(n),
           Open(b, [Request("signup", "save") EXCEPT !.me.name = n]),
           UNCHANGED <<readOnly, session>>
    PROVE  Good
<1> DEFINE q == [Request("signup", "save") EXCEPT !.me.name = n]
<1>1. /\ DOMAIN q = DOMAIN Closed /\ DOMAIN q.me = DOMAIN Nobody
      /\ q.view = "signup" /\ q.step = "save" /\ q.late = FALSE
      /\ q.me.name = n /\ q.me.hash = 0
  BY DEF Request, Closed, Nobody
<1>2. Go(b, q) /\ UNCHANGED readOnly
  BY DEF Open, Go
<1> HIDE DEF q
<1>3. ~RowKnown(q) /\ ~UserKnown(q) /\ ~Ready(q)
  BY <1>1 DEF RowKnown, UserKnown, Ready
<1>4. Current(q)
  BY <1>1, <1>3 DEF Current
<1>5. hashes \in Nat /\ hashes' = hashes /\ 0 \in 0 .. hashes
  BY <1>2 DEF IInv, TablesSound, readOnly
<1>6. Sound(q, session'[b])
  BY <1>1, <1>3, <1>4, <1>5 DEF Sound
<1>7. SessionsMove(b)
  BY <1>5, SessionsStay
<1> QED BY <1>1, <1>2, <1>3, <1>6, <1>7, GoesOn

\* What the request of b says of its user, if it is not late.
LEMMA OwnUser ==
    ASSUME IInv, NEW b \in Browsers, UserKnown(req[b])
    PROVE  /\ "user" \in Tables /\ req[b].me.pk \in 1 .. used["user"]
           /\ req[b].me.hash \in 0 .. hashes
           /\ ~req[b].late /\ ~Idle(b) =>
                /\ req[b].me.pk \in DOMAIN rows["user"]
                /\ rows["user"][req[b].me.pk].name = req[b].me.name
                /\ rows["user"][req[b].me.pk].hash = req[b].me.hash
<1>1. Sound(req[b], session[b])
  BY DEF IInv
<1> QED BY <1>1 DEF Sound, Current, Has, Idle

LEMMA UsersParent ==
    ASSUME IInv, "user" \in Tables
    PROVE  Parent["user"] = ""
<1>1. site \in Served
  BY DEF IInv, TablesSound
<1>2. CASE site = "articles"
  <2>1. Tables = {"article", "comment"}
    BY <1>1, <1>2, SiteTables
  <2> QED BY <2>1
<1>3. CASE site = "music"
  <2>1. Tables = {"artist", "music"}
    BY <1>1, <1>3, SiteTables
  <2> QED BY <2>1
<1>4. CASE site \in {"workshop", "todo"}
  BY <1>1, <1>4, SiteTables
<1>5. site \in {"workshop", "todo", "articles", "music"}
  BY <1>1, SiteTables
<1> QED BY <1>2, <1>3, <1>4, <1>5

\* Names are unique in a table in which one user's row is replaced.
LEMMA LegalUser ==
    ASSUME IInv, "user" \in Tables, NEW pk, NEW row,
           \A i \in DOMAIN rows["user"] :
               rows["user"][i].name = row.name => i = pk
    PROVE  Legal(With(rows, "user", pk, row))
<1>1. /\ site \in Served /\ DOMAIN rows = Tables /\ Legal(rows)
      /\ Parent["user"] = ""
  BY SiteTables DEF IInv, TablesSound
<1> QED BY <1>1, LegalWith DEF RefExists

\* The user of a sign-up is inserted, with a hash that is new.
LEMMA SignupSaves ==
    ASSUME IInv, NEW b \in Browsers, "user" \in Tables,
           NEW me, me = [pk |-> NewPk("user"), name |-> req[b].me.name,
                         hash |-> hashes + 1],
           At(b, "signup", "save"), hashes' = hashes + 1, UNCHANGED <<site, session>>,
           Insert(b, "user", UserRow(me),
                  [req[b] EXCEPT !.step = "enter", !.me = me, !.late = FALSE])
    PROVE  Good
<1> DEFINE q == [req[b] EXCEPT !.step = "enter", !.me = me, !.late = FALSE]
           row == UserRow(me)
           pk == NewPk("user")
<1>1. /\ TablesSound /\ used \in [Tables -> Nat] /\ hashes \in Nat
      /\ used["user"] \in Nat /\ pk = used["user"] + 1 /\ pk \in Nat
      /\ Sound(req[b], session[b]) /\ req[b].step = "save" /\ req[b].view = "signup"
  BY DEF IInv, TablesSound, NewPk, At
<1>2. hashes' \in Nat /\ hashes <= hashes' /\ hashes' \in 0 .. hashes'
  BY <1>1
<1>3. SessionsMove(b)
  BY <1>2, SessionsStay
<1>4. /\ DOMAIN me = {"pk", "name", "hash"}
      /\ me.pk = pk /\ me.name = req[b].me.name /\ me.hash = hashes'
      /\ row.name = me.name /\ row.hash = me.hash
  BY DEF UserRow
<1>5. /\ DOMAIN q = DOMAIN Closed /\ q.step = "enter" /\ q.me = me
      /\ q.late = FALSE /\ q.view = "signup" /\ DOMAIN Nobody = {"pk", "name", "hash"}
  BY <1>1 DEF Sound, Closed, Nobody
<1> HIDE DEF q, row, pk
<1>6. CASE Commit(b, With(rows, "user", pk, row), q) /\ used' = [used EXCEPT !["user"] = pk]
  <2>1. /\ used' \in [Tables -> Nat] /\ \A u \in Tables : used[u] <= used'[u]
        /\ pk \in 1 .. used'["user"] /\ ~(pk <= used["user"])
    BY <1>1, <1>6
  <2>2. pk \notin DOMAIN rows["user"]
    <3>1. DOMAIN rows["user"] \subseteq 1 .. used["user"]
      BY <1>1 DEF TablesSound
    <3> QED BY <3>1, <1>1
  <2>3. req'[b] = q /\ rows' = With(rows, "user", pk, row)
    BY <1>6 DEF Commit
  <2>4. pk \in DOMAIN rows'["user"] /\ rows'["user"][pk] = row
    BY <2>3, <1>1, WithRow DEF TablesSound
  <2>5. Sound(req[b], session[b])'
    <3>1. /\ UserKnown(req[b])' /\ ~RowKnown(req[b])' /\ ~Ready(req[b])'
          /\ Tables' = Tables
      BY <2>3, <1>5, SameTables DEF UserKnown, RowKnown, Ready
    <3>2. Current(req[b])'
      BY <2>3, <2>4, <3>1, <1>4, <1>5 DEF Current, Has
    <3>3. req'[b].late \in BOOLEAN
      BY <2>3, <1>1, <1>5 DEF Sound
    <3> QED
      BY <2>1, <2>3, <3>1, <3>2, <3>3, <1>2, <1>4, <1>5 DEF Sound
  <2>6. IInv' /\ MovesOn /\ ComeBackLate /\ KeepTheirParent /\ OthersGoOn(b)
    <3>1. ~RowKnown(q) /\ Parent["user"] = ""
      BY <1>5, UsersParent DEF RowKnown
    <3>2. row.hash \in 0 .. hashes' /\ pk \in 1 .. used'["user"] /\ site' = site
      BY <1>2, <1>4, <2>1
    <3>3. pk \notin DOMAIN rows["user"] /\ ~(pk <= used["user"])
      BY <2>1, <2>2
    <3> QED BY <1>2, <1>3, <1>6, <2>1, <2>5, <3>1, <3>2, <3>3, WriteStep
  <2>7. Quiet(b)
    BY <2>3, <1>5 DEF Quiet
  <2> QED BY <2>6, <2>7, QuietAnswers DEF Good
<1>7. CASE Refused(b, With(rows, "user", pk, row)) /\ used' = used
  <2>1. ASSUME ~req[b].late PROVE Legal(With(rows, "user", pk, row))
    <3>1. NameIsFree(row.name)
      BY <2>1, <1>1, <1>4 DEF Sound, Current
    <3> QED BY <3>1, LegalUser DEF NameIsFree
  <2> QED BY <1>1, <1>2, <1>7, <2>1, RefusedStep
<1> QED BY <1>6, <1>7 DEF Insert, q, row, pk

LEMMA SignupStep ==
    ASSUME IInv, NEW b \in Browsers, site \in {"workshop", "todo"}, NEW home,
           home \notin Errors, SignupForm(b, home)
    PROVE  Good
<1>1. CASE At(b, "signup", "enter") /\ AuthLogin(b, home)
  BY <1>1, AuthLoginStep DEF At
<1>2. ASSUME NEW n, NameIsFree(n),
             Open(b, [Request("signup", "save") EXCEPT !.me.name = n]),
             UNCHANGED <<readOnly, session>>
      PROVE  Good
  BY <1>2, SignupOpens
<1>3. ASSUME NEW me, me = [pk |-> NewPk("user"), name |-> req[b].me.name,
                           hash |-> hashes + 1],
             At(b, "signup", "save"), hashes' = hashes + 1, UNCHANGED <<site, session>>,
             Insert(b, "user", UserRow(me),
                    [req[b] EXCEPT !.step = "enter", !.me = me, !.late = FALSE])
      PROVE  Good
  BY <1>3, UsersTable, SignupSaves
<1>4. CASE At(b, "signup", "session") /\ SaveSession(b)
  BY <1>4, SessionSaved DEF At, SaveSession, readOnly
<1> QED BY <1>1, <1>2, <1>3, <1>4, PageStep DEF SignupForm

-----------------------------------------------------------------------------
LEMMA UpdateAccountStep ==
    ASSUME IInv, NEW b \in Browsers, UpdateAccount(b)
    PROVE  Good
<1> DEFINE q == req[b]
           row == UserRow(Edited(q.me))
<1>1. CASE site = "workshop" /\ Page(b)
  BY <1>1, PageStep
<1>2. CASE site = "workshop" /\ Guarded(b, "update_account", "save")
  BY <1>2, GuardedStep
<1>3. CASE /\ site = "workshop" /\ At(b, "update_account", "save")
           /\ Save(b, "user", q.me.pk, row, Reply("redirect"))
           /\ UNCHANGED <<site, hashes, session>>
  <2>1. /\ UserKnown(q) /\ ~Idle(b) /\ q.step = "save" /\ q.view = "update_account"
    BY <1>3 DEF UserKnown, At, Idle
  <2>2. /\ "user" \in Tables /\ q.me.pk \in 1 .. used["user"]
        /\ q.me.hash \in 0 .. hashes
        /\ ~q.late => /\ q.me.pk \in DOMAIN rows["user"]
                      /\ rows["user"][q.me.pk].name = q.me.name
                      /\ rows["user"][q.me.pk].hash = q.me.hash
    BY <2>1, OwnUser
  <2>3. row.name = q.me.name /\ row.hash = q.me.hash
    BY DEF UserRow, Edited
  <2>4. /\ used' = used /\ used \in [Tables -> Nat] /\ hashes' = hashes
        /\ hashes \in Nat /\ Legal(rows) /\ q.late \in BOOLEAN
    BY <1>3 DEF Save, IInv, TablesSound, Sound
  <2>5. SessionsMove(b)
    BY <1>3, <2>4, SessionsStay
  <2> HIDE DEF row
  <2>6. CASE Commit(b, With(rows, "user", q.me.pk, row), Reply("redirect"))
    <3>1. req'[b] = Reply("redirect")
      BY <2>6 DEF Commit
    <3>2. Sound(req[b], session[b])'
      BY <3>1, <2>4, SoundReplied
    <3>3. Quiet(b)
      BY <3>1, <2>1 DEF Quiet, Reply, Closed, Errors, At
    <3>4. IInv' /\ MovesOn /\ ComeBackLate /\ KeepTheirParent /\ OthersGoOn(b)
      <4>1. /\ used' \in [Tables -> Nat] /\ \A u \in Tables : used[u] <= used'[u]
            /\ hashes' \in Nat /\ hashes <= hashes'
            /\ q.me.pk \in 1 .. used'["user"] /\ row.hash \in 0 .. hashes'
        BY <2>2, <2>3, <2>4
      <4>2. q.me.pk \in DOMAIN rows["user"] =>
                \/ row.hash = rows["user"][q.me.pk].hash
                \/ At(b, "update_account", "save") /\ q.late /\ row.hash = q.me.hash
        BY <1>3, <2>2, <2>3
      <4>3. q.me.pk \notin DOMAIN rows["user"] => q.step = "save" /\ q.late
        BY <2>1, <2>2
      <4>4. ~RowKnown(Reply("redirect")) /\ Parent["user"] = ""
        BY <2>2, UsersParent DEF RowKnown, Reply, Closed
      <4> QED BY <1>3, <2>2, <2>5, <2>6, <3>2, <4>1, <4>2, <4>3, <4>4, WriteStep
    <3> QED BY <3>3, <3>4, QuietAnswers DEF Good
  <2>7. CASE Refused(b, With(rows, "user", q.me.pk, row))
    <3>1. ASSUME ~q.late PROVE Legal(With(rows, "user", q.me.pk, row))
      <4>1. \A i \in DOMAIN rows["user"] : rows["user"][i].name = row.name => i = q.me.pk
        BY <3>1, <2>2, <2>3, <2>4 DEF Legal, NamesAreUnique
      <4> QED BY <4>1, <2>2, LegalUser
    <3> QED BY <1>3, <2>1, <2>4, <2>7, <3>1, RefusedStep
  <2> QED BY <1>3, <2>6, <2>7 DEF Save
<1> QED BY <1>1, <1>2, <1>3 DEF UpdateAccount

\* The new hash goes to the row; the request knows it.
LEMMA PasswordSaved ==
    ASSUME IInv, NEW b \in Browsers, site = "workshop",
           At(b, "change_password", "save"), NEW me,
           me = [req[b].me EXCEPT !.hash = hashes + 1],
           Commit(b, With(rows, "user", me.pk, UserRow(me)),
                  [req[b] EXCEPT !.step = "session", !.me = me, !.late = FALSE]),
           UNCHANGED <<site, used, session>>, hashes' = hashes + 1
    PROVE  Good
<1> DEFINE q == req[b]
           row == UserRow(me)
           new == [q EXCEPT !.step = "session", !.me = me, !.late = FALSE]
<1>1. /\ UserKnown(q) /\ ~Idle(b) /\ q.step = "save" /\ q.view = "change_password"
      /\ Sound(q, session[b]) /\ Sound(req[b], session[b])
  BY DEF UserKnown, At, Idle, IInv
<1>2. /\ "user" \in Tables /\ q.me.pk \in 1 .. used["user"] /\ Parent["user"] = ""
      /\ ~q.late => q.me.pk \in DOMAIN rows["user"]
  BY <1>1, OwnUser, SiteTables DEF IInv, TablesSound
<1>3. /\ used' = used /\ used \in [Tables -> Nat] /\ hashes \in Nat /\ hashes' \in Nat
      /\ hashes <= hashes' /\ hashes' \in 0 .. hashes' /\ DOMAIN rows = Tables
      /\ session[b].user = q.me.pk /\ q.late \in BOOLEAN
  BY <1>1 DEF IInv, TablesSound, Sound
<1>4. /\ me.pk = q.me.pk /\ me.name = q.me.name /\ me.hash = hashes'
      /\ row.name = me.name /\ row.hash = hashes' /\ DOMAIN me = DOMAIN Nobody
  BY <1>1 DEF Sound, Nobody, UserRow
<1>5. /\ DOMAIN new = DOMAIN Closed /\ new.view = "change_password"
      /\ new.step = "session" /\ new.me = me /\ new.late = FALSE
  BY <1>1 DEF Sound, Closed
<1>6. SessionsMove(b)
  BY <1>3, SessionsStay
<1> HIDE DEF row, new
<1>7. Commit(b, With(rows, "user", q.me.pk, row), new)
  BY <1>4 DEF row, new
<1>8. req'[b] = new /\ rows' = With(rows, "user", q.me.pk, row) /\ Tables' = Tables
  BY <1>7, SameTables DEF Commit
<1>9. q.me.pk \in DOMAIN rows'["user"] /\ rows'["user"][q.me.pk] = row
  <2>1. "user" \in DOMAIN rows
    BY <1>2, <1>3
  <2> QED BY <1>8, <2>1, WithRow
<1>10. Sound(req[b], session[b])'
  <2>1. UserKnown(req[b])' /\ ~RowKnown(req[b])' /\ ~Ready(req[b])'
    BY <1>5, <1>8 DEF UserKnown, RowKnown, Ready
  <2>2. /\ req'[b].me.pk = q.me.pk /\ req'[b].me.name = row.name
        /\ req'[b].me.hash = row.hash /\ req'[b].view = "change_password"
    BY <1>4, <1>5, <1>8
  <2>3. Current(req[b])'
    BY <1>9, <2>1, <2>2 DEF Current, Has
  <2> QED BY <2>3, <1>2, <1>3, <1>4, <1>5, <1>8, <2>1, <2>2 DEF Sound
<1>11. IInv' /\ MovesOn /\ ComeBackLate /\ KeepTheirParent /\ OthersGoOn(b)
  <2>1. used' \in [Tables -> Nat] /\ \A u \in Tables : used[u] <= used'[u]
    BY <1>3
  <2>2. q.me.pk \in 1 .. used'["user"] /\ row.hash \in 0 .. hashes'
    BY <1>2, <1>3, <1>4
  <2>3. q.me.pk \notin DOMAIN rows["user"] => q.step = "save" /\ q.late
    BY <1>1, <1>2
  <2>4. ~RowKnown(new)
    BY <1>5 DEF RowKnown
  <2> QED BY <1>2, <1>3, <1>4, <1>6, <1>7, <1>10, <2>1, <2>2, <2>3, <2>4, WriteStep
<1>12. Quiet(b)
  BY <1>5, <1>8 DEF Quiet
<1> QED BY <1>11, <1>12, QuietAnswers DEF Good

LEMMA ChangePasswordStep ==
    ASSUME IInv, NEW b \in Browsers, ChangePassword(b)
    PROVE  Good
<1> DEFINE me == [req[b].me EXCEPT !.hash = hashes + 1]
           db == With(rows, "user", me.pk, UserRow(me))
           new == [req[b] EXCEPT !.step = "session", !.me = me, !.late = FALSE]
<1>1. CASE site = "workshop" /\ Page(b)
  BY <1>1, PageStep
<1>2. CASE site = "workshop" /\ Guarded(b, "change_password", "save")
  BY <1>2, GuardedStep
<1>3. CASE /\ site = "workshop" /\ At(b, "change_password", "save")
           /\ Save(b, "user", me.pk, UserRow(me), new)
           /\ hashes' = hashes + 1 /\ UNCHANGED <<site, session>>
  <2>1. used' = used /\ hashes \in Nat /\ hashes' \in Nat /\ hashes <= hashes'
    BY <1>3 DEF Save, IInv, TablesSound
  <2>2. CASE Commit(b, db, new)
    BY <1>3, <2>1, <2>2, PasswordSaved
  <2>3. CASE Refused(b, db)
    <3>2. ASSUME ~req[b].late PROVE Legal(db)
      <4>1. /\ UserKnown(req[b]) /\ ~Idle(b) /\ Sound(req[b], session[b])
        BY <1>3 DEF UserKnown, At, Idle, IInv
      <4>2. /\ "user" \in Tables /\ req[b].me.pk \in DOMAIN rows["user"]
            /\ rows["user"][req[b].me.pk].name = req[b].me.name
        BY <4>1, <3>2, OwnUser
      <4>3. me.pk = req[b].me.pk /\ UserRow(me).name = req[b].me.name
        BY <4>1 DEF Sound, Nobody, UserRow
      <4>4. NamesAreUnique(rows)
        BY DEF IInv, TablesSound, Legal
      <4>5. \A i \in DOMAIN rows["user"] :
                rows["user"][i].name = UserRow(me).name => i = me.pk
        BY <4>2, <4>3, <4>4 DEF NamesAreUnique
      <4> QED BY <4>2, <4>5, LegalUser
    <3> HIDE DEF db
    <3> QED BY <1>3, <2>1, <2>3, <3>2, RefusedStep
  <2> QED BY <1>3, <2>2, <2>3 DEF Save
<1>4. CASE /\ At(b, "change_password", "session")
           /\ UpdateSessionAuthHash(b, req[b].me.hash) /\ Answer(b, "redirect")
           /\ UNCHANGED readOnly
  <2> DEFINE s == [user |-> req[b].me.pk, hash |-> req[b].me.hash]
  <2>1. /\ session[b].user = req[b].me.pk
        /\ session \in [Browsers -> [user : Nat, hash : 0 .. hashes]]
    BY <1>4 DEF At, IInv, Sound
  <2>2. [session[b] EXCEPT !.hash = req[b].me.hash] = s
    BY <2>1
  <2>3. session' = [session EXCEPT ![b] = s]
    BY <1>4, <2>1, <2>2 DEF UpdateSessionAuthHash
  <2> HIDE DEF s
  <2> QED BY <1>4, <2>3, SessionSaved DEF At, s
<1> QED BY <1>1, <1>2, <1>3, <1>4 DEF ChangePassword

-----------------------------------------------------------------------------
(***************************************************************************)
(* Deleting.                                                               *)
(***************************************************************************)

\* The rows that a cascade leaves are as they were.
LEMMA WithoutRows ==
    ASSUME NEW db, NEW t, NEW pks, NEW new, new = Without(db, t, pks)
    PROVE  /\ DOMAIN new = DOMAIN db
           /\ \A u \in DOMAIN db :
                /\ DOMAIN new[u] = {i \in DOMAIN db[u] :
                        /\ u = t => i \notin pks
                        /\ Parent[u] = t => db[u][i].ref \notin pks}
                /\ \A i \in DOMAIN new[u] : new[u][i] = db[u][i]
  BY DEF Without, Restrict

\* The last step of a view that deletes a row and what refers to it.
LEMMA DeleteRowStep ==
    ASSUME IInv, NEW b \in Browsers, NEW t, NEW pk, NEW r,
           Delete(b, Without(rows, t, {pk}), Reply(r)),
           UNCHANGED <<site, hashes, session>>, req[b].step = "delete",
           r \in {"redirect", "204"}
    PROVE  Good
<1> DEFINE db == Without(rows, t, {pk})
<1>1. DOMAIN rows = Tables /\ hashes \in Nat /\ hashes' \in Nat /\ hashes <= hashes'
  BY DEF IInv, TablesSound
<1>2. /\ DOMAIN db = Tables
      /\ \A u \in Tables : /\ DOMAIN db[u] \subseteq DOMAIN rows[u]
                           /\ \A i \in DOMAIN db[u] : db[u][i] = rows[u][i]
  BY <1>1, WithoutRows
<1>4. Continues(b, Reply(r))
  BY ReplyContinues DEF Errors
<1>5. SessionsMove(b)
  BY <1>1, SessionsStay
<1> HIDE DEF db
<1>6. Delete(b, db, Reply(r))
  BY DEF db
<1> QED BY <1>2, <1>4, <1>5, <1>6, DeleteStep

\* What is left of the workshop's tables without some articles and a user.
LEMMA GoneRows ==
    ASSUME site = "workshop", DOMAIN rows = Tables, site \in Served,
           NEW list, NEW db, db = Without(rows, "article", list)
    PROVE  /\ DOMAIN db["user"] = DOMAIN rows["user"]
           /\ DOMAIN db["article"] = DOMAIN rows["article"] \ list
           /\ DOMAIN db["comment"] = {i \in DOMAIN rows["comment"] :
                                         rows["comment"][i].ref \notin list}
           /\ \A u \in Tables : \A i \in DOMAIN db[u] : db[u][i] = rows[u][i]
           /\ DOMAIN db = Tables
<1>1. /\ Tables = {"user", "article", "comment"}
      /\ Parent["user"] = "" /\ Parent["article"] = "user"
      /\ Parent["comment"] = "article"
  BY SiteTables
<1>2. db = [u \in Tables |->
               Restrict(rows[u], {i \in DOMAIN rows[u] :
                   /\ u = "article" => i \notin list
                   /\ Parent[u] = "article" => rows[u][i].ref \notin list})]
  BY DEF Without
<1>3. db["user"] = Restrict(rows["user"], DOMAIN rows["user"])
  <2>1. DOMAIN rows["user"] = {i \in DOMAIN rows["user"] :
                   /\ "user" = "article" => i \notin list
                   /\ Parent["user"] = "article" => rows["user"][i].ref \notin list}
    BY <1>1
  <2> QED BY <1>1, <1>2, <2>1
<1>4. db["article"] = Restrict(rows["article"], DOMAIN rows["article"] \ list)
  <2>1. DOMAIN rows["article"] \ list = {i \in DOMAIN rows["article"] :
                   /\ "article" = "article" => i \notin list
                   /\ Parent["article"] = "article" =>
                        rows["article"][i].ref \notin list}
    BY <1>1
  <2> QED BY <1>1, <1>2, <2>1
<1>5. db["comment"] = Restrict(rows["comment"],
            {i \in DOMAIN rows["comment"] : rows["comment"][i].ref \notin list})
  <2>1. {i \in DOMAIN rows["comment"] : rows["comment"][i].ref \notin list}
            = {i \in DOMAIN rows["comment"] :
                   /\ "comment" = "article" => i \notin list
                   /\ Parent["comment"] = "article" =>
                        rows["comment"][i].ref \notin list}
    BY <1>1
  <2> QED BY <1>1, <1>2, <2>1
<1>6. DOMAIN db = Tables
  BY <1>2
<1>7. \A f, S : DOMAIN Restrict(f, S) = S /\ \A i \in S : Restrict(f, S)[i] = f[i]
  BY DEF Restrict
<1>8. ASSUME NEW u \in Tables PROVE \A i \in DOMAIN db[u] : db[u][i] = rows[u][i]
  <2>1. CASE u = "user"
    BY <2>1, <1>3, <1>7
  <2>2. CASE u = "article"
    BY <2>2, <1>4, <1>7
  <2>3. CASE u = "comment"
    BY <2>3, <1>5, <1>7
  <2> QED BY <1>1, <2>1, <2>2, <2>3
<1> QED BY <1>3, <1>4, <1>5, <1>6, <1>7, <1>8

\* Neither the articles of a user nor their comments are left: the keys hold.
LEMMA LegalRest ==
    ASSUME Tables = {"user", "article", "comment"},
           Parent["user"] = "", Parent["article"] = "user",
           Parent["comment"] = "article", Legal(rows), NEW me, NEW new,
           \A t \in Tables : /\ DOMAIN new[t] \subseteq DOMAIN rows[t]
                             /\ \A i \in DOMAIN new[t] : new[t][i] = rows[t][i],
           DOMAIN rows["user"] \ {me} \subseteq DOMAIN new["user"],
           \A i \in DOMAIN new["article"] : rows["article"][i].ref # me,
           \A i \in DOMAIN new["comment"] :
               rows["comment"][i].ref \in DOMAIN new["article"]
    PROVE  Legal(new)
<1>1. /\ \A i \in DOMAIN rows["article"] :
            rows["article"][i].ref \in DOMAIN rows["user"]
      /\ \A i, j \in DOMAIN rows["user"] :
            rows["user"][i].name = rows["user"][j].name => i = j
  BY DEF Legal, ForeignKeysHold, NamesAreUnique
<1>2. ForeignKeysHold(new)
  <2>1. ASSUME NEW i \in DOMAIN new["article"]
        PROVE  new["article"][i].ref \in DOMAIN new["user"]
    <3>1. i \in DOMAIN rows["article"] /\ new["article"][i] = rows["article"][i]
      OBVIOUS
    <3> QED BY <3>1, <1>1
  <2>2. ASSUME NEW i \in DOMAIN new["comment"]
        PROVE  new["comment"][i].ref \in DOMAIN new["article"]
    OBVIOUS
  <2> QED BY <2>1, <2>2 DEF ForeignKeysHold
<1>3. NamesAreUnique(new)
  BY <1>1 DEF NamesAreUnique
<1> QED BY <1>2, <1>3 DEF Legal

\* What remains when a user and a list of articles are gone.
Remains(new, me, list) ==
    /\ DOMAIN new["user"] = DOMAIN rows["user"] \ {me}
    /\ DOMAIN new["article"] = DOMAIN rows["article"] \ list
    /\ DOMAIN new["comment"] = {i \in DOMAIN rows["comment"] :
                                   rows["comment"][i].ref \notin list}
    /\ \A u \in Tables : \A i \in DOMAIN new[u] : new[u][i] = rows[u][i]

\* The collector has found every article of the user, so no row is left that
\* points to a deleted one.
LEMMA GoneIsLegal ==
    ASSUME IInv, site = "workshop", NEW me, NEW list,
           \A a \in DOMAIN rows["article"] : rows["article"][a].ref = me => a \in list,
           NEW new, Remains(new, me, list)
    PROVE  Legal(new)
<1>1. /\ Tables = {"user", "article", "comment"}
      /\ Parent["user"] = "" /\ Parent["article"] = "user"
      /\ Parent["comment"] = "article" /\ Legal(rows)
  BY SiteTables DEF IInv, TablesSound
<1>2. \A i \in DOMAIN rows["comment"] : rows["comment"][i].ref \in DOMAIN rows["article"]
  BY <1>1 DEF Legal, ForeignKeysHold
<1>3. \A t \in Tables : /\ DOMAIN new[t] \subseteq DOMAIN rows[t]
                        /\ \A i \in DOMAIN new[t] : new[t][i] = rows[t][i]
  BY <1>1 DEF Remains
<1>4. \A i \in DOMAIN new["article"] : rows["article"][i].ref # me
  BY DEF Remains
<1>5. \A i \in DOMAIN new["comment"] : rows["comment"][i].ref \in DOMAIN new["article"]
  BY <1>2 DEF Remains
<1>6. DOMAIN rows["user"] \ {me} \subseteq DOMAIN new["user"]
  BY DEF Remains
<1> QED BY <1>1, <1>3, <1>4, <1>5, <1>6, LegalRest

\* The request that has deleted its user goes on to log out.
LEMMA LogoutContinues ==
    ASSUME hashes \in Nat, hashes' = hashes, NEW b \in Browsers
    PROVE  Continues(b, Request("delete_account", "logout"))
<1> DEFINE q == Request("delete_account", "logout")
<1> SUFFICES ASSUME req'[b] = q
             PROVE  Sound(req[b], session[b])' /\ Quiet(b) /\ ~RowKnown(q)
  BY DEF Continues
<1>1. /\ DOMAIN q = DOMAIN Closed /\ q.view = "delete_account" /\ q.step = "logout"
      /\ q.me = Nobody /\ q.late = FALSE
  BY DEF Request, Closed
<1> HIDE DEF q
<1>2. ~UserKnown(req[b])' /\ ~RowKnown(req[b])' /\ ~Ready(req[b])' /\ ~RowKnown(q)
  BY <1>1 DEF UserKnown, RowKnown, Ready
<1>3. Current(req[b])'
  BY <1>1, <1>2 DEF Current
<1>4. Nobody.hash \in 0 .. hashes
  BY NobodysHash
<1>5. Sound(req[b], session[b])'
  BY <1>1, <1>2, <1>3, <1>4 DEF Sound
<1> QED BY <1>1, <1>2, <1>5 DEF Quiet

LEMMA DeleteAccountStep ==
    ASSUME IInv, NEW b \in Browsers, DeleteAccount(b)
    PROVE  Good
<1> DEFINE q == req[b]
           db == Without(rows, "article", q.list)
           gone == [db EXCEPT !["user"] = Restrict(@, DOMAIN @ \ {q.me.pk})]
<1>0. /\ site = "workshop" /\ Sound(q, session[b]) /\ DOMAIN rows = Tables
      /\ site \in Served
      /\ hashes \in Nat /\ Tables = {"user", "article", "comment"}
  BY UsersTable DEF DeleteAccount, IInv, TablesSound
<1>1. CASE Guarded(b, "delete_account", "collect")
  BY <1>0, <1>1, GuardedStep
<1>2. CASE /\ At(b, "delete_account", "collect")
           /\ Go(b, [q EXCEPT !.step = "delete", !.list =
                     {a \in DOMAIN rows["article"] :
                         rows["article"][a].ref = q.me.pk}])
           /\ UNCHANGED <<readOnly, session>>
  <2> DEFINE list == {a \in DOMAIN rows["article"] :
                         rows["article"][a].ref = q.me.pk}
             new == [q EXCEPT !.step = "delete", !.list = list]
  <2> HIDE DEF list
  <2>1. /\ DOMAIN new = DOMAIN Closed /\ new.step = "delete" /\ new.list = list
        /\ new.me = q.me /\ new.view = "delete_account" /\ new.late = q.late
    BY <1>0, <1>2 DEF Sound, Closed, At
  <2>2. Go(b, new) /\ UNCHANGED readOnly /\ session' = session /\ hashes' = hashes
    BY <1>2 DEF list, readOnly
  <2> HIDE DEF new
  <2>3. ~UserKnown(new) /\ ~RowKnown(new) /\ ~Ready(new)
    BY <2>1 DEF UserKnown, RowKnown, Ready
  <2>4. Current(new)
    BY <2>1, <2>3 DEF Current, list
  <2>5. Sound(new, session'[b])
    BY <1>0, <2>1, <2>3, <2>4 DEF Sound
  <2>6. SessionsMove(b)
    BY <1>0, <2>2, SessionsStay
  <2> QED BY <2>1, <2>2, <2>3, <2>5, <2>6, GoesOn
<1>3. CASE /\ At(b, "delete_account", "delete")
           /\ Delete(b, gone, Request("delete_account", "logout"))
           /\ UNCHANGED <<site, hashes, session>>
  <2>1. /\ DOMAIN db = Tables
        /\ \A u \in Tables : /\ DOMAIN db[u] \subseteq DOMAIN rows[u]
                             /\ \A i \in DOMAIN db[u] : db[u][i] = rows[u][i]
    BY <1>0, WithoutRows
  <2>2. /\ DOMAIN gone = Tables
        /\ \A u \in Tables : /\ DOMAIN gone[u] \subseteq DOMAIN rows[u]
                             /\ \A i \in DOMAIN gone[u] : gone[u][i] = rows[u][i]
    <3> HIDE DEF db
    <3>1. /\ DOMAIN gone = Tables
          /\ \A u \in Tables : u # "user" => gone[u] = db[u]
          /\ DOMAIN gone["user"] \subseteq DOMAIN db["user"]
          /\ \A i \in DOMAIN gone["user"] : gone["user"][i] = db["user"][i]
      BY <1>0, <2>1 DEF Restrict
    <3> HIDE DEF gone
    <3> QED BY <2>1, <3>1
  <2>3. SessionsMove(b)
    BY <1>0, <1>3, SessionsStay
  <2> HIDE DEF gone
  <2>4. Continues(b, Request("delete_account", "logout"))
    BY <1>0, <1>3, LogoutContinues
  <2> QED BY <1>3, <2>2, <2>3, <2>4, DeleteStep
<1>4. CASE /\ At(b, "delete_account", "delete")
           /\ Refused(b, gone) /\ UNCHANGED used
           /\ UNCHANGED <<site, hashes, session>>
  <2>1. ASSUME ~Idle(b), ~q.late PROVE Legal(gone)
    <3>1. q.list = {a \in DOMAIN rows["article"] : rows["article"][a].ref = q.me.pk}
      BY <1>0, <1>4, <2>1 DEF Sound, Current, At, Idle
    <3>2. /\ DOMAIN db["user"] = DOMAIN rows["user"]
          /\ DOMAIN db["article"] = DOMAIN rows["article"] \ q.list
          /\ DOMAIN db["comment"] = {i \in DOMAIN rows["comment"] :
                                        rows["comment"][i].ref \notin q.list}
          /\ \A u \in Tables : \A i \in DOMAIN db[u] : db[u][i] = rows[u][i]
          /\ DOMAIN db = Tables
      BY <1>0, GoneRows
    <3> HIDE DEF db
    <3>3. /\ gone["user"] = Restrict(db["user"], DOMAIN db["user"] \ {q.me.pk})
          /\ gone["article"] = db["article"] /\ gone["comment"] = db["comment"]
      BY <1>0, <3>2
    <3> HIDE DEF gone
    <3>4. /\ DOMAIN gone["user"] = DOMAIN rows["user"] \ {q.me.pk}
          /\ \A i \in DOMAIN gone["user"] : gone["user"][i] = db["user"][i]
      BY <3>2, <3>3 DEF Restrict
    <3>5. \A a \in DOMAIN rows["article"] :
              rows["article"][a].ref = q.me.pk => a \in q.list
      BY <3>1
    <3>6. \A u \in Tables : \A i \in DOMAIN gone[u] : gone[u][i] = rows[u][i]
      <4>1. \A i \in DOMAIN gone["user"] : gone["user"][i] = rows["user"][i]
        BY <1>0, <3>2, <3>4
      <4>2. \A i \in DOMAIN gone["article"] : gone["article"][i] = rows["article"][i]
        BY <1>0, <3>2, <3>3
      <4>3. \A i \in DOMAIN gone["comment"] : gone["comment"][i] = rows["comment"][i]
        BY <1>0, <3>2, <3>3
      <4> QED BY <1>0, <4>1, <4>2, <4>3
    <3>7. Remains(gone, q.me.pk, q.list)
      BY <3>2, <3>3, <3>4, <3>6 DEF Remains
    <3> HIDE DEF q
    <3> QED BY <1>0, <3>5, <3>7, GoneIsLegal
  <2>2. hashes' \in Nat /\ hashes <= hashes'
    BY <1>0, <1>4
  <2> HIDE DEF gone
  <2> QED BY <1>4, <2>1, <2>2, RefusedStep DEF At
<1>5. CASE /\ At(b, "delete_account", "logout")
           /\ AuthLogout(b) /\ Answer(b, "redirect") /\ UNCHANGED readOnly
  <2>1. SessionsMove(b)
    BY <1>5, LogoutMoves DEF readOnly
  <2> QED BY <1>5, <2>1, Replies DEF Answer, At, Errors
<1> QED BY <1>1, <1>2, <1>3, <1>4, <1>5 DEF DeleteAccount

LEMMA AccountsStep ==
    ASSUME IInv, NEW b \in Browsers, AccountStep(b)
    PROVE  Good
<1>1. CASE Login(b)
  BY <1>1, LoginStep DEF Login, Errors
<1>2. CASE Signup(b)
  BY <1>2, SignupStep DEF Signup, Errors
<1> QED BY <1>1, <1>2, LogoutStep, DeleteAccountStep, UpdateAccountStep,
           ChangePasswordStep DEF AccountStep

LEMMA TodosStep ==
    ASSUME IInv, NEW b \in Browsers, TodoStep(b)
    PROVE  Good
<1>1. CASE TodoLogin(b)
  BY <1>1, LoginStep DEF TodoLogin, Home, Errors
<1>2. CASE TodoSignup(b)
  BY <1>2, SignupStep DEF TodoSignup, Home, Errors
<1> QED BY <1>1, <1>2 DEF TodoStep

-----------------------------------------------------------------------------
(***************************************************************************)
(* articles/views.py of the workshop site.                                 *)
(***************************************************************************)
LEMMA AnswerStep ==
    ASSUME IInv, NEW b \in Browsers, NEW r, Answer(b, r),
           UNCHANGED <<readOnly, session>>,
           \/ Idle(b)
           \/ /\ r \in Errors => req[b].late \/ req[b].step = "lookup"
              /\ r = "redirect" => req[b].step # "session"
    PROVE  Good
<1>1. Go(b, Reply(r)) /\ UNCHANGED readOnly /\ session' = session
  BY DEF Answer
<1>2. SessionsMove(b)
  BY <1>1, SessionsStay DEF readOnly, IInv, TablesSound
<1> QED BY <1>1, <1>2, Replies

LEMMA OpensReply ==
    ASSUME IInv, NEW b \in Browsers, NEW r, Open(b, Reply(r)),
           UNCHANGED <<readOnly, session>>
    PROVE  Good
  BY AnswerStep DEF Open, Answer, Go

\* A request that goes on, with no change to the session.
LEMMA ReadsOn ==
    ASSUME IInv, NEW b \in Browsers, NEW q, Go(b, q),
           UNCHANGED <<readOnly, session>>, Sound(q, session[b]), q.step # "done",
           ~RowKnown(q) \/ Held(b, q)
    PROVE  Good
<1>1. SessionsMove(b)
  BY SessionsStay DEF readOnly, IInv, TablesSound
<1> QED BY <1>1, GoesOn

\* What a request says of the row it has found, if it is not late.
LEMMA OwnRow ==
    ASSUME IInv, NEW b \in Browsers, RowKnown(req[b]), ~Idle(b),
           NEW t, t = TableOf(req[b])
    PROVE  /\ t \in Tables /\ req[b].pk \in 1 .. used[t]
           /\ ~req[b].late => req[b].pk \in DOMAIN rows[t]
           /\ ~req[b].late /\ KeyKnown(req[b]) =>
                /\ rows[t][req[b].pk].ref = req[b].ref
                /\ Parent[t] # "" => req[b].ref \in DOMAIN rows[Parent[t]]
<1>1. /\ Sound(req[b], session[b]) /\ Legal(rows) /\ DOMAIN rows = Tables
  BY DEF IInv, TablesSound
<1>2. t \in Tables /\ req[b].pk \in 1 .. used[t]
  BY <1>1 DEF Sound
<1>3. ~req[b].late => /\ req[b].pk \in DOMAIN rows[t]
                      /\ KeyKnown(req[b]) => rows[t][req[b].pk].ref = req[b].ref
  BY <1>1 DEF Sound, Current, Has, Idle
<1>4. \A i \in DOMAIN rows[t] :
          Parent[t] # "" => rows[t][i].ref \in DOMAIN rows[Parent[t]]
  BY <1>1, <1>2 DEF Legal, ForeignKeysHold
<1> QED BY <1>2, <1>3, <1>4

\* The views of the workshop site that look for a row once they know the user.
Looking == {<<"delete", "article", "delete">>, <<"update", "article", "owner">>,
            <<"comment_create", "article", "form">>,
            <<"comment_delete", "comment", "article">>}

LEMMA LookStep ==
    ASSUME IInv, NEW b \in Browsers, site = "workshop", NEW view, NEW t, NEW then,
           NEW missing, missing # "redirect", <<view, t, then>> \in Looking,
           Look(b, view, t, missing, then)
    PROVE  Good
<1>1. /\ req[b].view = view /\ req[b].step = "lookup"
      /\ UNCHANGED <<readOnly, session>> /\ Sound(req[b], session[b])
  BY DEF Look, At, IInv
<1>2. CASE Answer(b, missing)
  BY <1>1, <1>2, AnswerStep
<1>3. ASSUME NEW pk, Has(t, pk),
             Go(b, [req[b] EXCEPT !.step = then, !.pk = pk, !.ref = rows[t][pk].ref])
      PROVE  Good
  <2> DEFINE q == [req[b] EXCEPT !.step = then, !.pk = pk, !.ref = rows[t][pk].ref]
  <2>1. /\ DOMAIN q = DOMAIN Closed /\ q.view = view /\ q.step = then /\ q.pk = pk
        /\ q.ref = rows[t][pk].ref /\ q.me = req[b].me /\ q.late = req[b].late
    BY <1>1 DEF Sound, Closed
  <2>2. Go(b, q)
    BY <1>3
  <2> HIDE DEF q
  <2>3. /\ view \in {"delete", "update", "comment_create", "comment_delete"}
        /\ then \in {"delete", "owner", "form", "article"}
    BY DEF Looking
  <2>4. ~UserKnown(q) /\ ~Ready(q)
    BY <2>1, <2>3 DEF UserKnown, Ready
  <2>5. RowKnown(q) => TableOf(q) = t
    BY <2>1 DEF RowKnown, TableOf, Looking
  <2>6. t \in Tables /\ pk \in DOMAIN rows[t] /\ pk \in 1 .. used[t]
    BY <1>3, UsersTable DEF Looking, Has, IInv, TablesSound
  <2>7. Current(q)
    BY <2>1, <2>3, <2>4, <2>5, <2>6 DEF Current, Has
  <2>8. Sound(q, session[b])
    BY <1>1, <2>1, <2>3, <2>4, <2>5, <2>6, <2>7 DEF Sound
  <2>9. ~RowKnown(q) \/ Held(b, q)
    BY <2>1, <2>5, <2>6 DEF Held, Has
  <2> QED BY <1>1, <2>1, <2>2, <2>3, <2>8, <2>9, ReadsOn
<1> QED BY <1>2, <1>3 DEF Look

LEMMA CreateStep ==
    ASSUME IInv, NEW b \in Browsers, Create(b)
    PROVE  Good
<1> DEFINE me == req[b].me.pk
<1>1. CASE site = "workshop" /\ Page(b)
  BY <1>1, PageStep
<1>2. CASE site = "workshop" /\ Guarded(b, "create", "save")
  BY <1>2, GuardedStep
<1>3. CASE /\ site = "workshop" /\ At(b, "create", "save")
           /\ Insert(b, "article", ArticleRow(me), Reply("redirect"))
           /\ UNCHANGED <<site, hashes, session>>
  <2>1. UserKnown(req[b])
    BY <1>3 DEF UserKnown, At
  <2>2. ~Idle(b) /\ ~req[b].late => me \in DOMAIN rows["user"]
    BY <2>1, OwnUser
  <2>3. "article" \in Tables /\ Parent["article"] = "user"
    BY <1>3, SiteTables DEF IInv, TablesSound
  <2>4. ArticleRow(me).by = me /\ ArticleRow(me).ref = me
    BY DEF ArticleRow
  <2>5. ~Idle(b) /\ ~req[b].late => RefExists("article", ArticleRow(me))
    BY <2>2, <2>3, <2>4 DEF RefExists
  <2>6. req[b].step = "save"
    BY <1>3 DEF At
  <2>7. Continues(b, Reply("redirect"))
    BY <1>3, <2>6, ReplyContinues DEF Errors
  <2> HIDE DEF me
  <2> QED BY <1>3, <2>3, <2>4, <2>5, <2>6, <2>7, InsertStep
<1> QED BY <1>1, <1>2, <1>3 DEF Create

LEMMA DetailStep ==
    ASSUME IInv, NEW b \in Browsers, Detail(b)
    PROVE  Good
<1>1. CASE Page(b)
  BY <1>1, PageStep
<1>2. CASE Open(b, Reply("404")) /\ UNCHANGED <<readOnly, session>>
  BY <1>2, OpensReply
<1> QED BY <1>1, <1>2 DEF Detail

LEMMA DeleteArticleStep ==
    ASSUME IInv, NEW b \in Browsers, DeleteArticle(b)
    PROVE  Good
<1>1. CASE site = "workshop" /\ Guarded(b, "delete", "lookup")
  BY <1>1, GuardedStep
<1>2. CASE site = "workshop" /\ Look(b, "delete", "article", "404", "delete")
  BY <1>2, LookStep DEF Looking
<1>3. CASE /\ At(b, "delete", "delete")
           /\ Delete(b, Without(rows, "article", {req[b].pk}), Reply("redirect"))
           /\ UNCHANGED <<site, hashes, session>>
  BY <1>3, DeleteRowStep DEF At
<1> QED BY <1>1, <1>2, <1>3 DEF DeleteArticle

\* Only the owner's request goes on to save.
LEMMA OwnerStep ==
    ASSUME IInv, NEW b \in Browsers, site = "workshop",
           At(b, "update", "owner"), IsOwner(req[b]),
           Go(b, [req[b] EXCEPT !.step = "save"]),
           UNCHANGED <<readOnly, session>>
    PROVE  Good
<1> DEFINE q == [req[b] EXCEPT !.step = "save"]
<1>1. /\ Sound(req[b], session[b]) /\ req[b].view = "update" /\ req[b].step = "owner"
  BY DEF At, IInv
<1>2. /\ DOMAIN q = DOMAIN Closed /\ q.view = "update" /\ q.step = "save"
      /\ q.pk = req[b].pk /\ q.ref = req[b].ref /\ q.me = req[b].me
      /\ q.late = req[b].late
  BY <1>1 DEF Sound, Closed
<1>3. Go(b, q)
  OBVIOUS
<1> HIDE DEF q
<1>4. /\ RowKnown(req[b]) /\ TableOf(req[b]) = "article" /\ KeyKnown(req[b])
      /\ RowKnown(q) /\ TableOf(q) = "article" /\ ~UserKnown(q) /\ ~Ready(q)
  BY <1>1, <1>2 DEF RowKnown, TableOf, KeyKnown, UserKnown, Ready
<1>5. "article" \in Tables /\ q.pk \in 1 .. used["article"] /\ IsOwner(q)
  BY <1>1, <1>2, <1>4 DEF Sound, IsOwner
<1>6. ~q.late => Current(q)
  BY <1>1, <1>2, <1>4 DEF Sound, Current
<1>7. Sound(q, session[b])
  BY <1>1, <1>2, <1>4, <1>5, <1>6 DEF Sound
<1>8. Held(b, q)
  BY <1>2, <1>4 DEF Held
<1> QED BY <1>2, <1>3, <1>7, <1>8, ReadsOn

LEMMA UpdateStep ==
    ASSUME IInv, NEW b \in Browsers, Update(b)
    PROVE  Good
<1> DEFINE q == req[b]
<1>0. site = "workshop" /\ "article" \in Tables /\ Parent["article"] = "user"
  BY SiteTables DEF Update, IInv, TablesSound
<1>1. CASE Guarded(b, "update", "lookup")
  BY <1>0, <1>1, GuardedStep
<1>2. CASE Look(b, "update", "article", "404", "owner")
  BY <1>0, <1>2, LookStep DEF Looking
<1>3. CASE /\ At(b, "update", "owner")
           /\ \/ ~Has("user", q.ref) /\ Answer(b, "DoesNotExist")
              \/ Has("user", q.ref) /\ ~IsOwner(q) /\ Answer(b, "redirect")
              \/ /\ Has("user", q.ref) /\ IsOwner(q)
                 /\ Answer(b, "page") \/ Go(b, [q EXCEPT !.step = "save"])
           /\ UNCHANGED <<readOnly, session>>
  <2>1. /\ RowKnown(q) /\ KeyKnown(q) /\ TableOf(q) = "article" /\ ~Idle(b)
        /\ q.step = "owner"
    BY <1>3 DEF RowKnown, KeyKnown, TableOf, At, Idle
  <2>2. CASE ~Has("user", q.ref) /\ Answer(b, "DoesNotExist")
    <3>1. q.late
      BY <1>0, <2>1, <2>2, OwnRow DEF Has
    <3> QED BY <1>3, <2>1, <2>2, <3>1, AnswerStep
  <2>3. CASE Answer(b, "redirect")
    BY <1>3, <2>1, <2>3, AnswerStep DEF Errors
  <2>4. CASE Answer(b, "page")
    BY <1>3, <2>1, <2>4, AnswerStep DEF Errors
  <2>5. CASE IsOwner(q) /\ Go(b, [q EXCEPT !.step = "save"])
    BY <1>0, <1>3, <2>5, OwnerStep
  <2> QED BY <1>3, <2>2, <2>3, <2>4, <2>5
<1>4. CASE /\ At(b, "update", "save")
           /\ Save(b, "article", q.pk, Rewritten(ArticleRow(q.ref), q.me.pk),
                   Reply("redirect"))
           /\ UNCHANGED <<site, hashes, session>>
  <2> DEFINE row == Rewritten(ArticleRow(q.ref), q.me.pk)
  <2>1. /\ RowKnown(q) /\ KeyKnown(q) /\ TableOf(q) = "article" /\ ~Idle(b)
        /\ q.step = "save" /\ q.view = "update"
    BY <1>4 DEF RowKnown, KeyKnown, TableOf, At, Idle
  <2>2. /\ q.pk \in 1 .. used["article"]
        /\ ~q.late => q.pk \in DOMAIN rows["article"] /\ q.ref \in DOMAIN rows["user"]
    BY <1>0, <2>1, OwnRow
  <2>3. q.ref = q.me.pk
    BY <2>1 DEF IInv, Sound, IsOwner
  <2>4. row.ref = q.ref /\ row.by = q.me.pk
    BY DEF Rewritten, ArticleRow
  <2>5. Continues(b, Reply("redirect"))
    BY <1>4, <2>1, ReplyContinues DEF Errors
  <2> HIDE DEF row
  <2>6. ~q.late => RefExists("article", row)
    BY <1>0, <2>2, <2>4 DEF RefExists
  <2>7. Save(b, "article", q.pk, row, Reply("redirect"))
    BY <1>4 DEF row
  <2> QED BY <1>0, <1>4, <2>1, <2>2, <2>3, <2>4, <2>5, <2>6, <2>7, SaveStep
<1> QED BY <1>1, <1>2, <1>3, <1>4 DEF Update

LEMMA CommentCreateStep ==
    ASSUME IInv, NEW b \in Browsers, CommentCreate(b)
    PROVE  Good
<1> DEFINE q == req[b]
<1>0. site = "workshop" /\ "comment" \in Tables /\ Parent["comment"] = "article"
  BY SiteTables DEF CommentCreate, IInv, TablesSound
<1>1. CASE Guarded(b, "comment_create", "lookup")
  BY <1>0, <1>1, GuardedStep
<1>2. CASE Look(b, "comment_create", "article", "DoesNotExist", "form")
  BY <1>0, <1>2, LookStep DEF Looking
<1>3. CASE /\ At(b, "comment_create", "form")
           /\ Answer(b, "page") /\ UNCHANGED <<rows, used>>
           /\ UNCHANGED <<site, hashes, session>>
  BY <1>3, AnswerStep DEF At, Errors, readOnly
<1>4. CASE /\ At(b, "comment_create", "form")
           /\ Insert(b, "comment", CommentRow(q.pk), Reply("redirect"))
           /\ UNCHANGED <<site, hashes, session>>
  <2>1. /\ RowKnown(q) /\ TableOf(q) = "article" /\ ~Idle(b) /\ q.step = "form"
    BY <1>4 DEF RowKnown, TableOf, At, Idle
  <2>2. ~q.late => q.pk \in DOMAIN rows["article"]
    BY <2>1, OwnRow
  <2>3. ~q.late => RefExists("comment", CommentRow(q.pk))
    BY <1>0, <2>2 DEF RefExists, CommentRow
  <2>4. Continues(b, Reply("redirect"))
    BY <1>4, <2>1, ReplyContinues DEF Errors
  <2> QED BY <1>0, <1>4, <2>1, <2>3, <2>4, InsertStep
<1> QED BY <1>1, <1>2, <1>3, <1>4 DEF CommentCreate

LEMMA CommentDeleteStep ==
    ASSUME IInv, NEW b \in Browsers, CommentDelete(b)
    PROVE  Good
<1> DEFINE q == req[b]
<1>0. site = "workshop" /\ "comment" \in Tables /\ Parent["comment"] = "article"
  BY SiteTables DEF CommentDelete, IInv, TablesSound
<1>1. CASE Guarded(b, "comment_delete", "lookup")
  BY <1>0, <1>1, GuardedStep
<1>2. CASE Look(b, "comment_delete", "comment", "DoesNotExist", "article")
  BY <1>0, <1>2, LookStep DEF Looking
<1>3. CASE /\ At(b, "comment_delete", "article") /\ ~Has("article", q.ref)
           /\ Answer(b, "DoesNotExist") /\ UNCHANGED <<readOnly, session>>
  <2>1. /\ RowKnown(q) /\ KeyKnown(q) /\ TableOf(q) = "comment" /\ ~Idle(b)
        /\ q.step = "article"
    BY <1>3 DEF RowKnown, KeyKnown, TableOf, At, Idle
  <2>2. q.late
    BY <1>0, <1>3, <2>1, OwnRow DEF Has
  <2> QED BY <1>3, <2>1, <2>2, AnswerStep
<1>4. CASE /\ At(b, "comment_delete", "article")
           /\ Go(b, [q EXCEPT !.step = "delete"]) /\ UNCHANGED <<readOnly, session>>
  <2> DEFINE new == [q EXCEPT !.step = "delete"]
  <2>1. /\ Sound(q, session[b]) /\ q.view = "comment_delete" /\ Go(b, new)
    BY <1>4 DEF At, IInv
  <2>2. /\ DOMAIN new = DOMAIN Closed /\ new.view = "comment_delete"
        /\ new.step = "delete" /\ new.me = q.me /\ new.late = q.late
    BY <2>1 DEF Sound, Closed
  <2> HIDE DEF new
  <2>3. ~RowKnown(new) /\ ~UserKnown(new) /\ ~Ready(new)
    BY <2>2 DEF RowKnown, UserKnown, Ready
  <2>4. Current(new)
    BY <2>2, <2>3 DEF Current
  <2>5. Sound(new, session[b])
    BY <2>1, <2>2, <2>3, <2>4 DEF Sound
  <2> QED BY <1>4, <2>1, <2>2, <2>3, <2>5, ReadsOn
<1>5. CASE /\ At(b, "comment_delete", "delete")
           /\ Delete(b, Without(rows, "comment", {q.pk}), Reply("redirect"))
           /\ UNCHANGED <<site, hashes, session>>
  BY <1>5, DeleteRowStep DEF At
<1> QED BY <1>1, <1>2, <1>3, <1>4, <1>5 DEF CommentDelete

LEMMA ArticlesStep ==
    ASSUME IInv, NEW b \in Browsers, ArticleStep(b)
    PROVE  Good
  BY PageStep, CreateStep, DetailStep, DeleteArticleStep, UpdateStep,
     CommentCreateStep, CommentDeleteStep DEF ArticleStep, Index

-----------------------------------------------------------------------------
(***************************************************************************)
(* The REST interfaces.                                                    *)
(***************************************************************************)
LEMMA NoWriteReads == noWrite' = noWrite => UNCHANGED <<readOnly, session>>
  BY DEF noWrite, readOnly

\* A request whose first query has found the row pk.
Fresh(q, view, step, pk) ==
    /\ DOMAIN q = DOMAIN Closed /\ q.me = Nobody /\ q.late = FALSE
    /\ q.view = view /\ q.step = step /\ q.pk = pk

\* The views that begin with a row, what they do next, and the row's table.
Fetching == {<<"article_rud", "data", "article">>,
             <<"article_rud", "save", "article">>,
             <<"article_rud", "delete", "article">>,
             <<"comment_detail", "save", "comment">>,
             <<"comment_detail", "delete", "comment">>,
             <<"comment_create", "save", "article">>,
             <<"artist_rud", "data", "artist">>,
             <<"music_create", "save", "artist">>,
             <<"music_detail", "save", "music">>,
             <<"music_detail", "delete", "music">>}

LEMMA FetchStep ==
    ASSUME IInv, NEW b \in Browsers, NEW t \in Tables, NEW pk \in DOMAIN rows[t],
           NEW q, NEW view, NEW step, Fresh(q, view, step, pk),
           <<view, step, t>> \in Fetching,
           KeyKnown(q) => q.ref = rows[t][pk].ref,
           Ready(q) => q.reply = "200",
           Open(b, q), noWrite' = noWrite
    PROVE  Good
<1>1. Go(b, q) /\ UNCHANGED <<readOnly, session>>
  BY NoWriteReads DEF Open, Go
<1>2. /\ view \in {"article_rud", "comment_detail", "comment_create",
                   "artist_rud", "music_create", "music_detail"}
      /\ step \in {"data", "save", "delete"}
  BY DEF Fetching
<1>3. ~UserKnown(q)
  BY <1>2 DEF Fresh, UserKnown
<1>4. RowKnown(q) => TableOf(q) = t
  BY DEF Fresh, RowKnown, TableOf, Fetching
<1>5. pk \in 1 .. used[t] /\ hashes \in Nat
  BY DEF IInv, TablesSound
<1>6. Current(q)
  BY <1>2, <1>3, <1>4 DEF Current, Fresh, Has
<1>7. Nobody.hash \in 0 .. hashes
  BY <1>5, NobodysHash
<1>8. Sound(q, session[b])
  BY <1>2, <1>3, <1>4, <1>5, <1>6, <1>7 DEF Sound, Fresh
<1>9. q.step # "done"
  BY <1>2 DEF Fresh
<1>10. ~RowKnown(q) \/ Held(b, q)
  BY <1>4 DEF Held, Has, Fresh
<1> QED BY <1>1, <1>8, <1>9, <1>10, ReadsOn

\* The first query is answered at once when there is no row.
LEMMA FindStep ==
    ASSUME IInv, NEW b \in Browsers, NEW r, Open(b, Reply(r)), noWrite' = noWrite
    PROVE  Good
  BY NoWriteReads, OpensReply

\* A request that has its reply ready, and holds no row.
LEMMA DataContinues ==
    ASSUME IInv, NEW b \in Browsers, NEW q, hashes' = hashes,
           DOMAIN q = DOMAIN Closed, DOMAIN q.me = DOMAIN Nobody,
           q.late \in BOOLEAN, q.me.hash \in 0 .. hashes,
           q.view \in {"article_cr", "article_rud", "artist_cr"},
           q.step = "data", q.reply \in {"200", "201"}
    PROVE  Continues(b, q)
<1> SUFFICES ASSUME req'[b] = q
             PROVE  Sound(req[b], session[b])' /\ Quiet(b) /\ ~RowKnown(q)
  BY DEF Continues
<1>1. ~UserKnown(req[b])' /\ ~RowKnown(req[b])' /\ ~RowKnown(q)
  BY DEF UserKnown, RowKnown
<1>2. Current(req[b])'
  BY <1>1 DEF Current
<1>3. Sound(req[b], session[b])'
  BY <1>1, <1>2 DEF Sound
<1> QED BY <1>1, <1>3 DEF Quiet

\* The serializer's queries, and the reply.
LEMMA DataStep ==
    ASSUME IInv, NEW b \in Browsers, req[b].step = "data",
           Answer(b, req[b].reply), noWrite' = noWrite
    PROVE  Good
<1>1. req[b].reply \in {"200", "201"}
  BY DEF IInv, Sound, Ready
<1>2. UNCHANGED <<readOnly, session>>
  BY NoWriteReads
<1> QED BY <1>1, <1>2, AnswerStep DEF Errors

LEMMA ApiTables ==
    ASSUME IInv
    PROVE  /\ site = "articles" => /\ Tables = {"article", "comment"}
                                   /\ Parent["article"] = ""
                                   /\ Parent["comment"] = "article"
           /\ site = "music" => /\ Tables = {"artist", "music"}
                                /\ Parent["artist"] = ""
                                /\ Parent["music"] = "artist"
  BY SiteTables DEF IInv, TablesSound

LEMMA ArticleDataStep ==
    ASSUME IInv, NEW b \in Browsers, ArticleData(b)
    PROVE  Good
  BY DataStep DEF ArticleData

LEMMA ArticleCrStep ==
    ASSUME IInv, NEW b \in Browsers, ArticleCr(b)
    PROVE  Good
<1> DEFINE q == [Request("article_cr", "data") EXCEPT
                    !.pk = NewPk("article"), !.reply = "201"]
<1>0. /\ site = "articles" /\ "article" \in Tables /\ Parent["article"] = ""
      /\ hashes \in Nat
  BY ApiTables DEF ArticleCr, IInv, TablesSound
<1>1. ASSUME NEW r, Open(b, Reply(r)), UNCHANGED noWrite PROVE Good
  BY <1>1, FindStep
<1>2. CASE /\ Idle(b) /\ Insert(b, "article", ApiArticleRow, q)
           /\ UNCHANGED apiUnchanged
  <2>1. UNCHANGED <<site, hashes, session>>
    BY <1>2 DEF apiUnchanged
  <2>2. /\ DOMAIN q = DOMAIN Closed /\ q.me = Nobody /\ q.late = FALSE
        /\ q.view = "article_cr" /\ q.step = "data" /\ q.reply = "201"
    BY DEF Request, Closed
  <2> HIDE DEF q
  <2>3. Continues(b, q)
    <3>1. Nobody.hash \in 0 .. hashes
      BY <1>0, NobodysHash
    <3> QED BY <2>1, <2>2, <3>1, DataContinues
  <2>4. RefExists("article", ApiArticleRow)
    BY <1>0 DEF RefExists
  <2>5. req[b].step = "done"
    BY <1>2 DEF Idle
  <2> QED BY <1>0, <1>2, <2>1, <2>3, <2>4, <2>5, InsertStep
<1> QED BY <1>1, <1>2 DEF ArticleCr

LEMMA ArticleRudStep ==
    ASSUME IInv, NEW b \in Browsers, ArticleRud(b)
    PROVE  Good
<1> DEFINE q == req[b]
<1>0. /\ site = "articles" /\ "article" \in Tables /\ Parent["article"] = ""
      /\ Sound(q, session[b])
  BY ApiTables DEF ArticleRud, IInv
<1>1. ASSUME NEW step \in {"data", "save", "delete"},
             NEW pk, Has("article", pk),
             Open(b, [Request("article_rud", step) EXCEPT
                         !.pk = pk, !.reply = "200"]),
             UNCHANGED noWrite
      PROVE  Good
  <2> DEFINE new == [Request("article_rud", step) EXCEPT !.pk = pk, !.reply = "200"]
  <2>1. Fresh(new, "article_rud", step, pk) /\ new.reply = "200" /\ Open(b, new)
    BY <1>1 DEF Fresh, Request, Closed
  <2> HIDE DEF new
  <2>2. ~KeyKnown(new) /\ pk \in DOMAIN rows["article"]
    BY <1>1, <2>1 DEF KeyKnown, Fresh, Has
  <2>3. <<"article_rud", step, "article">> \in Fetching
    BY DEF Fetching
  <2> QED BY <1>0, <1>1, <2>1, <2>2, <2>3, FetchStep
<1>2. CASE Open(b, Reply("404")) /\ UNCHANGED noWrite
  BY <1>2, FindStep
<1>3. CASE /\ At(b, "article_rud", "save") /\ Answer(b, "400")
           /\ UNCHANGED <<rows, used>> /\ UNCHANGED apiUnchanged
  BY <1>3, AnswerStep DEF At, Errors, readOnly, apiUnchanged
<1>4. CASE /\ At(b, "article_rud", "save")
           /\ Save(b, "article", q.pk, ApiArticleRow, [q EXCEPT !.step = "data"])
           /\ UNCHANGED apiUnchanged
  <2> DEFINE new == [q EXCEPT !.step = "data"]
  <2>1. UNCHANGED <<site, hashes, session>> /\ Save(b, "article", q.pk, ApiArticleRow, new)
    BY <1>4 DEF apiUnchanged
  <2>2. /\ RowKnown(q) /\ TableOf(q) = "article" /\ ~Idle(b) /\ Ready(q)
        /\ q.view = "article_rud" /\ q.step = "save"
    BY <1>4 DEF RowKnown, TableOf, At, Idle, Ready
  <2>3. /\ q.pk \in 1 .. used["article"]
        /\ ~q.late => q.pk \in DOMAIN rows["article"]
    BY <2>2, OwnRow
  <2>4. /\ DOMAIN new = DOMAIN Closed /\ new.me = q.me /\ new.late = q.late
        /\ new.view = "article_rud" /\ new.step = "data"
        /\ new.reply = q.reply
    BY <1>0, <2>2 DEF Sound, Closed
  <2> HIDE DEF new
  <2>5. Continues(b, new)
    <3>1. /\ DOMAIN new.me = DOMAIN Nobody /\ new.late \in BOOLEAN
          /\ new.me.hash \in 0 .. hashes /\ new.reply \in {"200", "201"}
      BY <1>0, <2>2, <2>4 DEF Sound
    <3> QED BY <2>1, <2>4, <3>1, DataContinues
  <2>6. RefExists("article", ApiArticleRow)
    BY <1>0 DEF RefExists
  <2> QED BY <1>0, <2>1, <2>2, <2>3, <2>5, <2>6, SaveStep
<1>5. CASE /\ At(b, "article_rud", "delete")
           /\ Delete(b, Without(rows, "article", {q.pk}), Reply("204"))
           /\ UNCHANGED apiUnchanged
  BY <1>5, DeleteRowStep DEF At, apiUnchanged
<1> QED BY <1>1, <1>2, <1>3, <1>4, <1>5 DEF ArticleRud, Find

LEMMA CommentDetailStep ==
    ASSUME IInv, NEW b \in Browsers, CommentDetail(b)
    PROVE  Good
<1> DEFINE q == req[b]
<1>0. site = "articles" /\ "comment" \in Tables /\ Parent["comment"] = "article"
  BY ApiTables DEF CommentDetail
<1>1. ASSUME NEW step \in {"save", "delete"}, NEW pk, Has("comment", pk),
             Open(b, [Request("comment_detail", step) EXCEPT
                         !.pk = pk, !.ref = rows["comment"][pk].ref]),
             UNCHANGED noWrite
      PROVE  Good
  <2> DEFINE new == [Request("comment_detail", step) EXCEPT
                        !.pk = pk, !.ref = rows["comment"][pk].ref]
  <2>1. /\ Fresh(new, "comment_detail", step, pk) /\ Open(b, new)
        /\ new.ref = rows["comment"][pk].ref
    BY <1>1 DEF Fresh, Request, Closed
  <2> HIDE DEF new
  <2>2. ~Ready(new) /\ pk \in DOMAIN rows["comment"]
    BY <1>1, <2>1 DEF Ready, Fresh, Has
  <2>3. <<"comment_detail", step, "comment">> \in Fetching
    BY DEF Fetching
  <2> QED BY <1>0, <1>1, <2>1, <2>2, <2>3, FetchStep
<1>2. ASSUME NEW r, Open(b, Reply(r)), UNCHANGED noWrite PROVE Good
  BY <1>2, FindStep
<1>3. CASE /\ At(b, "comment_detail", "save") /\ Answer(b, "400")
           /\ UNCHANGED <<rows, used>> /\ UNCHANGED apiUnchanged
  BY <1>3, AnswerStep DEF At, Errors, readOnly, apiUnchanged
<1>4. CASE /\ At(b, "comment_detail", "save")
           /\ Save(b, "comment", q.pk, CommentWritten(ApiCommentRow(q.ref)), Reply("200"))
           /\ UNCHANGED apiUnchanged
  <2>1. UNCHANGED <<site, hashes, session>>
    BY <1>4 DEF apiUnchanged
  <2>2. /\ RowKnown(q) /\ KeyKnown(q) /\ TableOf(q) = "comment" /\ ~Idle(b)
        /\ q.step = "save"
    BY <1>4 DEF RowKnown, KeyKnown, TableOf, At, Idle
  <2>3. /\ q.pk \in 1 .. used["comment"]
        /\ ~q.late => /\ q.pk \in DOMAIN rows["comment"]
                      /\ q.ref \in DOMAIN rows["article"]
    BY <1>0, <2>2, OwnRow
  <2>4. ~q.late => RefExists("comment", CommentWritten(ApiCommentRow(q.ref)))
    BY <1>0, <2>3 DEF RefExists, CommentWritten, ApiCommentRow
  <2>5. Continues(b, Reply("200"))
    BY <2>1, <2>2, ReplyContinues DEF Errors
  <2>6. CommentWritten(ApiCommentRow(q.ref)).ref = q.ref
    BY DEF CommentWritten, ApiCommentRow
  <2> QED BY <1>0, <1>4, <2>1, <2>2, <2>3, <2>4, <2>5, <2>6, SaveStep
<1>5. CASE /\ At(b, "comment_detail", "delete")
           /\ Delete(b, Without(rows, "comment", {q.pk}), Reply("204"))
           /\ UNCHANGED apiUnchanged
  BY <1>5, DeleteRowStep DEF At, apiUnchanged
<1> QED BY <1>1, <1>2, <1>3, <1>4, <1>5 DEF CommentDetail, Find

LEMMA ApiCommentCreateStep ==
    ASSUME IInv, NEW b \in Browsers, ApiCommentCreate(b)
    PROVE  Good
<1> DEFINE q == req[b]
<1>0. /\ site = "articles" /\ "comment" \in Tables /\ "article" \in Tables
      /\ Parent["comment"] = "article"
  BY ApiTables DEF ApiCommentCreate
<1>1. ASSUME NEW pk, Has("article", pk),
             Open(b, [Request("comment_create", "save") EXCEPT !.pk = pk]),
             UNCHANGED noWrite
      PROVE  Good
  <2> DEFINE new == [Request("comment_create", "save") EXCEPT !.pk = pk]
  <2>1. Fresh(new, "comment_create", "save", pk) /\ Open(b, new)
    BY <1>1 DEF Fresh, Request, Closed
  <2> HIDE DEF new
  <2>2. ~Ready(new) /\ ~KeyKnown(new) /\ pk \in DOMAIN rows["article"]
    BY <1>1, <2>1 DEF Ready, KeyKnown, Fresh, Has
  <2>3. <<"comment_create", "save", "article">> \in Fetching
    BY DEF Fetching
  <2> QED BY <1>0, <1>1, <2>1, <2>2, <2>3, FetchStep
<1>2. ASSUME NEW r, Open(b, Reply(r)), UNCHANGED noWrite PROVE Good
  BY <1>2, FindStep
<1>3. CASE /\ At(b, "comment_create", "save") /\ Answer(b, "400")
           /\ UNCHANGED <<rows, used>> /\ UNCHANGED apiUnchanged
  BY <1>3, AnswerStep DEF At, Errors, readOnly, apiUnchanged
<1>4. CASE /\ At(b, "comment_create", "save")
           /\ Insert(b, "comment", ApiCommentRow(q.pk), Reply("201"))
           /\ UNCHANGED apiUnchanged
  <2>1. UNCHANGED <<site, hashes, session>>
    BY <1>4 DEF apiUnchanged
  <2>2. /\ RowKnown(q) /\ TableOf(q) = "article" /\ ~Idle(b) /\ q.step = "save"
    BY <1>4 DEF RowKnown, TableOf, At, Idle
  <2>3. ~q.late => q.pk \in DOMAIN rows["article"]
    BY <2>2, OwnRow
  <2>4. ~q.late => RefExists("comment", ApiCommentRow(q.pk))
    BY <1>0, <2>3 DEF RefExists, ApiCommentRow
  <2>5. Continues(b, Reply("201"))
    BY <2>1, <2>2, ReplyContinues DEF Errors
  <2> QED BY <1>0, <1>4, <2>1, <2>2, <2>4, <2>5, InsertStep
<1> QED BY <1>1, <1>2, <1>3, <1>4 DEF ApiCommentCreate, Find

LEMMA ArticleApisStep ==
    ASSUME IInv, NEW b \in Browsers, ArticleApiStep(b)
    PROVE  Good
  BY ArticleDataStep, ArticleCrStep, ArticleRudStep, CommentDetailStep,
     ApiCommentCreateStep DEF ArticleApiStep

LEMMA ArtistDataStep ==
    ASSUME IInv, NEW b \in Browsers, ArtistData(b)
    PROVE  Good
  BY DataStep DEF ArtistData

LEMMA ArtistCrStep ==
    ASSUME IInv, NEW b \in Browsers, ArtistCr(b)
    PROVE  Good
<1> DEFINE q == [Request("artist_cr", "data") EXCEPT
                    !.pk = NewPk("artist"), !.reply = "201"]
<1>0. /\ site = "music" /\ "artist" \in Tables /\ Parent["artist"] = ""
      /\ hashes \in Nat
  BY ApiTables DEF ArtistCr, IInv, TablesSound
<1>1. ASSUME NEW r, Open(b, Reply(r)), UNCHANGED noWrite PROVE Good
  BY <1>1, FindStep
<1>2. CASE /\ Idle(b) /\ Insert(b, "artist", ArtistRow, q)
           /\ UNCHANGED apiUnchanged
  <2>1. UNCHANGED <<site, hashes, session>>
    BY <1>2 DEF apiUnchanged
  <2>2. /\ DOMAIN q = DOMAIN Closed /\ q.me = Nobody /\ q.late = FALSE
        /\ q.view = "artist_cr" /\ q.step = "data" /\ q.reply = "201"
    BY DEF Request, Closed
  <2> HIDE DEF q
  <2>3. Continues(b, q)
    <3>1. Nobody.hash \in 0 .. hashes
      BY <1>0, NobodysHash
    <3> QED BY <2>1, <2>2, <3>1, DataContinues
  <2>4. RefExists("artist", ArtistRow)
    BY <1>0 DEF RefExists
  <2>5. req[b].step = "done"
    BY <1>2 DEF Idle
  <2> QED BY <1>0, <1>2, <2>1, <2>3, <2>4, <2>5, InsertStep
<1> QED BY <1>1, <1>2 DEF ArtistCr

LEMMA ArtistRudStep ==
    ASSUME IInv, NEW b \in Browsers, ArtistRud(b)
    PROVE  Good
<1>0. "artist" \in Tables
  BY ApiTables DEF ArtistRud
<1>1. ASSUME NEW pk, Has("artist", pk),
             Open(b, [Request("artist_rud", "data") EXCEPT
                         !.pk = pk, !.reply = "200"]),
             UNCHANGED noWrite
      PROVE  Good
  <2> DEFINE new == [Request("artist_rud", "data") EXCEPT
                        !.pk = pk, !.reply = "200"]
  <2>1. Fresh(new, "artist_rud", "data", pk) /\ new.reply = "200" /\ Open(b, new)
    BY <1>1 DEF Fresh, Request, Closed
  <2> HIDE DEF new
  <2>2. ~KeyKnown(new) /\ pk \in DOMAIN rows["artist"]
    BY <1>1, <2>1 DEF KeyKnown, Fresh, Has
  <2>3. <<"artist_rud", "data", "artist">> \in Fetching
    BY DEF Fetching
  <2> QED BY <1>0, <1>1, <2>1, <2>2, <2>3, FetchStep
<1>2. CASE Open(b, Reply("404")) /\ UNCHANGED noWrite
  BY <1>2, FindStep
<1> QED BY <1>1, <1>2 DEF ArtistRud, Find

LEMMA MusicCreateStep ==
    ASSUME IInv, NEW b \in Browsers, MusicCreate(b)
    PROVE  Good
<1> DEFINE q == req[b]
<1>0. /\ site = "music" /\ "music" \in Tables /\ "artist" \in Tables
      /\ Parent["music"] = "artist"
  BY ApiTables DEF MusicCreate
<1>1. ASSUME NEW pk, Has("artist", pk),
             Open(b, [Request("music_create", "save") EXCEPT !.pk = pk]),
             UNCHANGED noWrite
      PROVE  Good
  <2> DEFINE new == [Request("music_create", "save") EXCEPT !.pk = pk]
  <2>1. Fresh(new, "music_create", "save", pk) /\ Open(b, new)
    BY <1>1 DEF Fresh, Request, Closed
  <2> HIDE DEF new
  <2>2. ~Ready(new) /\ ~KeyKnown(new) /\ pk \in DOMAIN rows["artist"]
    BY <1>1, <2>1 DEF Ready, KeyKnown, Fresh, Has
  <2>3. <<"music_create", "save", "artist">> \in Fetching
    BY DEF Fetching
  <2> QED BY <1>0, <1>1, <2>1, <2>2, <2>3, FetchStep
<1>2. ASSUME NEW r, Open(b, Reply(r)), UNCHANGED noWrite PROVE Good
  BY <1>2, FindStep
<1>3. CASE /\ At(b, "music_create", "save") /\ Answer(b, "400")
           /\ UNCHANGED <<rows, used>> /\ UNCHANGED apiUnchanged
  BY <1>3, AnswerStep DEF At, Errors, readOnly, apiUnchanged
<1>4. CASE /\ At(b, "music_create", "save")
           /\ Insert(b, "music", MusicRow(q.pk), Reply("201"))
           /\ UNCHANGED apiUnchanged
  <2>1. UNCHANGED <<site, hashes, session>>
    BY <1>4 DEF apiUnchanged
  <2>2. /\ RowKnown(q) /\ TableOf(q) = "artist" /\ ~Idle(b) /\ q.step = "save"
    BY <1>4 DEF RowKnown, TableOf, At, Idle
  <2>3. ~q.late => q.pk \in DOMAIN rows["artist"]
    BY <2>2, OwnRow
  <2>4. ~q.late => RefExists("music", MusicRow(q.pk))
    BY <1>0, <2>3 DEF RefExists, MusicRow
  <2>5. Continues(b, Reply("201"))
    BY <2>1, <2>2, ReplyContinues DEF Errors
  <2> QED BY <1>0, <1>4, <2>1, <2>2, <2>4, <2>5, InsertStep
<1> QED BY <1>1, <1>2, <1>3, <1>4 DEF MusicCreate, Find

LEMMA MusicDetailStep ==
    ASSUME IInv, NEW b \in Browsers, MusicDetail(b)
    PROVE  Good
<1> DEFINE q == req[b]
<1>0. site = "music" /\ "music" \in Tables /\ Parent["music"] = "artist"
  BY ApiTables DEF MusicDetail
<1>1. ASSUME NEW step \in {"save", "delete"}, NEW pk, Has("music", pk),
             Open(b, [Request("music_detail", step) EXCEPT
                         !.pk = pk, !.ref = rows["music"][pk].ref]),
             UNCHANGED noWrite
      PROVE  Good
  <2> DEFINE new == [Request("music_detail", step) EXCEPT
                        !.pk = pk, !.ref = rows["music"][pk].ref]
  <2>1. /\ Fresh(new, "music_detail", step, pk) /\ Open(b, new)
        /\ new.ref = rows["music"][pk].ref
    BY <1>1 DEF Fresh, Request, Closed
  <2> HIDE DEF new
  <2>2. ~Ready(new) /\ pk \in DOMAIN rows["music"]
    BY <1>1, <2>1 DEF Ready, Fresh, Has
  <2>3. <<"music_detail", step, "music">> \in Fetching
    BY DEF Fetching
  <2> QED BY <1>0, <1>1, <2>1, <2>2, <2>3, FetchStep
<1>2. ASSUME NEW r, Open(b, Reply(r)), UNCHANGED noWrite PROVE Good
  BY <1>2, FindStep
<1>3. CASE /\ At(b, "music_detail", "save") /\ Answer(b, "400")
           /\ UNCHANGED <<rows, used>> /\ UNCHANGED apiUnchanged
  BY <1>3, AnswerStep DEF At, Errors, readOnly, apiUnchanged
<1>4. CASE /\ At(b, "music_detail", "save")
           /\ Save(b, "music", q.pk, MusicWritten(MusicRow(q.ref)), Reply("200"))
           /\ UNCHANGED apiUnchanged
  <2>1. UNCHANGED <<site, hashes, session>>
    BY <1>4 DEF apiUnchanged
  <2>2. /\ RowKnown(q) /\ KeyKnown(q) /\ TableOf(q) = "music" /\ ~Idle(b)
        /\ q.step = "save"
    BY <1>4 DEF RowKnown, KeyKnown, TableOf, At, Idle
  <2>3. /\ q.pk \in 1 .. used["music"]
        /\ ~q.late => /\ q.pk \in DOMAIN rows["music"]
                      /\ q.ref \in DOMAIN rows["artist"]
    BY <1>0, <2>2, OwnRow
  <2>4. ~q.late => RefExists("music", MusicWritten(MusicRow(q.ref)))
    BY <1>0, <2>3 DEF RefExists, MusicWritten, MusicRow
  <2>5. Continues(b, Reply("200"))
    BY <2>1, <2>2, ReplyContinues DEF Errors
  <2>6. MusicWritten(MusicRow(q.ref)).ref = q.ref
    BY DEF MusicWritten, MusicRow
  <2> QED BY <1>0, <1>4, <2>1, <2>2, <2>3, <2>4, <2>5, <2>6, SaveStep
<1>5. CASE /\ At(b, "music_detail", "delete")
           /\ Delete(b, Without(rows, "music", {q.pk}), Reply("204"))
           /\ UNCHANGED apiUnchanged
  BY <1>5, DeleteRowStep DEF At, apiUnchanged
<1> QED BY <1>1, <1>2, <1>3, <1>4, <1>5 DEF MusicDetail, Find

LEMMA MusicApisStep ==
    ASSUME IInv, NEW b \in Browsers, MusicApiStep(b)
    PROVE  Good
  BY ArtistDataStep, ArtistCrStep, ArtistRudStep, FindStep, MusicCreateStep,
     MusicDetailStep DEF MusicApiStep, MusicAll

-----------------------------------------------------------------------------
(***************************************************************************)
(* The whole of the sites.                                                 *)
(***************************************************************************)
LEMMA InitIInv == Init => IInv
<1> SUFFICES ASSUME Init PROVE IInv
  OBVIOUS
<1>1. site \in Served /\ hashes = 0
  BY DEF Init
<1>2. /\ DOMAIN rows = Tables /\ \A t \in Tables : rows[t] = <<>> /\ used[t] = 0
      /\ used \in [Tables -> Nat] /\ DOMAIN <<>> = {}
  BY DEF Init
<1>3. ForeignKeysHold(rows)
  BY <1>2 DEF ForeignKeysHold
<1>4. NamesAreUnique(rows)
  BY <1>2 DEF NamesAreUnique
<1>5. TablesSound
  BY <1>1, <1>2, <1>3, <1>4 DEF TablesSound, Legal
<1>6. OwnersWroteTheirArticles
  BY <1>1, <1>2, SiteTables DEF OwnersWroteTheirArticles
<1>7. session \in [Browsers -> [user : Nat, hash : 0 .. hashes]]
  BY <1>1 DEF Init, NoSession
<1>8. /\ Closed.me = Nobody /\ Closed.late = FALSE
      /\ Closed.step = "done" /\ Closed.view = ""
  BY DEF Closed
<1>9. \A s : Sound(Closed, s)
  BY <1>1, <1>8, SoundDone
<1>10. DOMAIN req = Browsers /\ \A b \in Browsers : req[b] = Closed
  BY DEF Init
<1>11. \A b \in Browsers : ~Holds(req[b])
  BY <1>8, <1>10 DEF Holds, RowKnown
<1>12. KeysRight /\ KeysAgree
  BY <1>11 DEF KeysRight, KeysAgree
<1> QED BY <1>5, <1>6, <1>7, <1>9, <1>10, <1>12 DEF IInv

LEMMA StepGood == IInv /\ Next => Good
  BY AccountsStep, ArticlesStep, TodosStep, ArticleApisStep, MusicApisStep
     DEF Next, Step

LEMMA IInvNext == IInv /\ [Next]_vars => IInv'
<1> SUFFICES ASSUME IInv, [Next]_vars PROVE IInv'
  OBVIOUS
<1>1. CASE Next
  BY <1>1, StepGood DEF Good
<1>2. CASE UNCHANGED vars
  <2>1. Tables' = Tables /\ Parent' = Parent
    BY <1>2, SameTables DEF vars
  <2>2. UNCHANGED readOnly /\ req' = req /\ session' = session
    BY <1>2 DEF vars, readOnly
  <2>3. TablesSound'
    BY <2>1, <2>2 DEF IInv, TablesSound, Legal, ForeignKeysHold, NamesAreUnique, readOnly
  <2>4. \A b \in Browsers : Sound(req[b], session[b])'
    BY <2>2, SoundSame DEF IInv
  <2>5. KeysRight' /\ KeysAgree'
    <3>1. \A b \in Browsers : /\ Holds(req[b])' <=> Holds(req[b])
                             /\ TableOf(req[b])' = TableOf(req[b])
      BY <2>2, SameHeld DEF IInv, readOnly
    <3> QED BY <2>2, <3>1 DEF IInv, KeysRight, KeysAgree, Has, readOnly
  <2> QED BY <2>2, <2>3, <2>4, <2>5 DEF IInv, OwnersWroteTheirArticles, readOnly
<1> QED BY <1>1, <1>2

\* The tables are as SQLite left them, and every request that is not late
\* holds what the tables hold.
THEOREM Invariance == Spec => []IInv
  BY InitIInv, IInvNext, PTL DEF Spec

\* The text of an article is its owner's, whatever requests interleave
\* (articles/views.py update).
THEOREM OwnersWrite == Spec => []OwnersWroteTheirArticles
<1>1. IInv => OwnersWroteTheirArticles
  BY DEF IInv
<1> QED BY <1>1, Invariance, PTL

LEMMA GoodSteps ==
    IInv /\ [Next]_vars => /\ [HasACause]_vars /\ [MovesOn]_vars /\ [LoggedIn]_vars
                           /\ [ComeBackLate]_vars /\ [KeepTheirParent]_vars
  BY StepGood DEF Good

\* A view raises an exception out of the database only when another request
\* wrote since it began, or for a pk from the URL that is not there.
THEOREM ErrorsExplained == Spec => ErrorsHaveACause
  BY Invariance, GoodSteps, PTL DEF Spec, ErrorsHaveACause

\* A user's password becomes an old one again only by an account update whose
\* request read the row before (accounts/views.py update).
THEOREM PasswordsNeverGoBackButLate == Spec => PasswordsMoveOn
  BY Invariance, GoodSteps, PTL DEF Spec, PasswordsMoveOn

\* Whoever is redirected by login, signup or change_password has a session of
\* the user and the password that the request checked or stored, and is logged in
\* with it unless another request wrote meanwhile (accounts/views.py:84-85).
THEOREM LoggedInAfterwards == Spec => StaysLoggedIn
  BY Invariance, GoodSteps, PTL DEF Spec, StaysLoggedIn

\* A deleted row comes back under its id only by the save of a request that
\* had read it.
THEOREM IdsAreNew == Spec => IdsComeBackLate
  BY Invariance, GoodSteps, PTL DEF Spec, IdsComeBackLate

\* No save, however late, gives a row to another parent: an article stays its
\* user's, a comment its article's, music its artist's (update, PUT).
THEOREM ParentsAreKept == Spec => RowsKeepTheirParent
  BY Invariance, GoodSteps, PTL DEF Spec, RowsKeepTheirParent
=============================================================================

---------------------------- MODULE ArticleViews ----------------------------
(***************************************************************************)
(* articles/views.py of the workshop site: articles of users, and comments *)
(* on them.  An article's row keeps, for the properties, who wrote it last *)
(* (by).                                                                   *)
(***************************************************************************)
EXTENDS AccountViews

ArticleRow(owner) == [ref |-> owner, by |-> owner]
CommentRow(article) == [ref |-> article]

\* What ArticleForm makes of a loaded article: a new text, the same owner.
Rewritten(row, by) == [row EXCEPT !.by = by]

\* index: a page whatever the tables hold.
Index(b) == site = "workshop" /\ Page(b)

\* create: the article belongs to request.user.
Create(b) ==
    LET me == req[b].me.pk IN
    /\ site = "workshop"
    /\ \/ IsAuthenticated(b) /\ Page(b)
       \/ Guarded(b, "create", "save")
       \/ /\ At(b, "create", "save")
          /\ Insert(b, "article", ArticleRow(me), Reply("redirect"))
          /\ UNCHANGED <<site, hashes, session>>

\* detail: 404, or a page.
Detail(b) ==
    /\ site = "workshop"
    /\ \/ Page(b)
       \/ /\ \E pk \in Pks("article") : ~Has("article", pk) /\ Open(b, Reply("404"))
          /\ UNCHANGED <<readOnly, session>>

\* What follows the user check: the row with the pk of the URL.
Look(b, view, t, missing, then) ==
    /\ At(b, view, "lookup")
    /\ \E pk \in Pks(t) :
        \/ Has(t, pk) /\ Go(b, [req[b] EXCEPT !.step = then, !.pk = pk,
                                              !.ref = rows[t][pk].ref])
        \/ ~Has(t, pk) /\ Answer(b, missing)
    /\ UNCHANGED <<readOnly, session>>

\* delete: asks who is logged in, and nothing more.
DeleteArticle(b) ==
    /\ site = "workshop"
    /\ \/ Guarded(b, "delete", "lookup")
       \/ Look(b, "delete", "article", "404", "delete")
       \/ /\ At(b, "delete", "delete")
          /\ Delete(b, Without(rows, "article", {req[b].pk}),
                    Reply("redirect"))
          /\ UNCHANGED <<site, hashes, session>>

\* Mutant of IsOwner: every user may go on.
AnyUser(q) == TRUE

IsOwner(q) == q.ref = q.me.pk

\* update: article.user is a query of its own; only the owner goes on.
Update(b) ==
    LET q == req[b] IN
    /\ site = "workshop"
    /\ \/ Guarded(b, "update", "lookup")
       \/ Look(b, "update", "article", "404", "owner")
       \/ /\ At(b, "update", "owner")
          /\ \/ ~Has("user", q.ref) /\ Answer(b, "DoesNotExist")
             \/ Has("user", q.ref) /\ ~IsOwner(q) /\ Answer(b, "redirect")
             \/ /\ Has("user", q.ref) /\ IsOwner(q)
                /\ Answer(b, "page") \/ Go(b, [q EXCEPT !.step = "save"])
          /\ UNCHANGED <<readOnly, session>>
       \/ /\ At(b, "update", "save")
          /\ Save(b, "article", q.pk, Rewritten(ArticleRow(q.ref), q.me.pk),
                  Reply("redirect"))
          /\ UNCHANGED <<site, hashes, session>>

\* comment_create: .get() raises when the article is not there.
CommentCreate(b) ==
    /\ site = "workshop"
    /\ \/ Guarded(b, "comment_create", "lookup")
       \/ Look(b, "comment_create", "article", "DoesNotExist", "form")
       \/ /\ At(b, "comment_create", "form")
          /\ \/ Answer(b, "page") /\ UNCHANGED <<rows, used>>
             \/ Insert(b, "comment", CommentRow(req[b].pk), Reply("redirect"))
          /\ UNCHANGED <<site, hashes, session>>

\* comment_delete: .get(), then comment.article, a query of its own.
CommentDelete(b) ==
    LET q == req[b] IN
    /\ site = "workshop"
    /\ \/ Guarded(b, "comment_delete", "lookup")
       \/ Look(b, "comment_delete", "comment", "DoesNotExist", "article")
       \/ /\ At(b, "comment_delete", "article")
          /\ \/ ~Has("article", q.ref) /\ Answer(b, "DoesNotExist")
             \/ Has("article", q.ref) /\ Go(b, [q EXCEPT !.step = "delete"])
          /\ UNCHANGED <<readOnly, session>>
       \/ /\ At(b, "comment_delete", "delete")
          /\ Delete(b, Without(rows, "comment", {q.pk}), Reply("redirect"))
          /\ UNCHANGED <<site, hashes, session>>

ArticleStep(b) ==
    \/ Index(b) \/ Create(b) \/ Detail(b) \/ DeleteArticle(b) \/ Update(b)
    \/ CommentCreate(b) \/ CommentDelete(b)
=============================================================================

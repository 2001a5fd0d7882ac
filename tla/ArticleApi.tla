----------------------------- MODULE ArticleApi -----------------------------
(***************************************************************************)
(* The REST interface to articles and their comments (2022/DB/1017): the   *)
(* views and the serializer that reports an article with its comments.     *)
(***************************************************************************)
EXTENDS DjangoSite

apiUnchanged == <<site, hashes, session>>
noWrite == <<site, hashes, session, rows, used>>

ApiArticleRow == [ref |-> 0]
ApiCommentRow(article) == [ref |-> article]

\* What CommentSerializer makes of a loaded comment: article is read-only.
CommentWritten(row) == row

\* ArticleSerializer.data: the article's comments and their number.
ArticleData(b) ==
    /\ site = "articles"
    /\ req[b].step = "data"
    /\ Answer(b, req[b].reply)
    /\ UNCHANGED noWrite

\* article_cr: GET lists all, 404 when there are none; POST inserts.
ArticleCr(b) ==
    /\ site = "articles"
    /\ \/ /\ Open(b, Reply(IF rows["article"] = <<>> THEN "404" ELSE "200"))
          /\ UNCHANGED noWrite
       \/ Open(b, Reply("400")) /\ UNCHANGED noWrite
       \/ /\ Idle(b)
          /\ Insert(b, "article", ApiArticleRow,
                    [Request("article_cr", "data") EXCEPT
                        !.pk = NewPk("article"), !.reply = "201"])
          /\ UNCHANGED apiUnchanged

\* article_rud: GET, PUT or DELETE of the article found.
ArticleRud(b) ==
    LET q == req[b] IN
    /\ site = "articles"
    /\ \/ /\ \E step \in {"data", "save", "delete"} :
                Find(b, "article", "404", LAMBDA pk :
                     [Request("article_rud", step) EXCEPT
                        !.pk = pk, !.reply = "200"])
          /\ UNCHANGED noWrite
       \/ /\ At(b, "article_rud", "save")
          /\ \/ Answer(b, "400") /\ UNCHANGED <<rows, used>>
             \/ Save(b, "article", q.pk, ApiArticleRow,
                     [q EXCEPT !.step = "data"])
          /\ UNCHANGED apiUnchanged
       \/ /\ At(b, "article_rud", "delete")
          /\ Delete(b, Without(rows, "article", {q.pk}), Reply("204"))
          /\ UNCHANGED apiUnchanged

\* comment_detail: the same for a comment; article is read-only.
CommentDetail(b) ==
    LET q == req[b] IN
    /\ site = "articles"
    /\ \/ /\ \/ Find(b, "comment", "404", LAMBDA pk : Reply("200"))
             \/ \E step \in {"save", "delete"} :
                  Find(b, "comment", "404", LAMBDA pk :
                       [Request("comment_detail", step) EXCEPT
                          !.pk = pk, !.ref = rows["comment"][pk].ref])
          /\ UNCHANGED noWrite
       \/ /\ At(b, "comment_detail", "save")
          /\ \/ Answer(b, "400") /\ UNCHANGED <<rows, used>>
             \/ Save(b, "comment", q.pk, CommentWritten(ApiCommentRow(q.ref)),
                     Reply("200"))
          /\ UNCHANGED apiUnchanged
       \/ /\ At(b, "comment_detail", "delete")
          /\ Delete(b, Without(rows, "comment", {q.pk}), Reply("204"))
          /\ UNCHANGED apiUnchanged

\* comment_create: .get() raises when the article is not there.
ApiCommentCreate(b) ==
    /\ site = "articles"
    /\ \/ /\ Find(b, "article", "DoesNotExist", LAMBDA pk :
                  [Request("comment_create", "save") EXCEPT !.pk = pk])
          /\ UNCHANGED noWrite
       \/ /\ At(b, "comment_create", "save")
          /\ \/ Answer(b, "400") /\ UNCHANGED <<rows, used>>
             \/ Insert(b, "comment", ApiCommentRow(req[b].pk), Reply("201"))
          /\ UNCHANGED apiUnchanged

ArticleApiStep(b) ==
    \/ ArticleData(b) \/ ArticleCr(b) \/ ArticleRud(b)
    \/ CommentDetail(b) \/ ApiCommentCreate(b)
=============================================================================

------------------------------ MODULE MusicApi ------------------------------
(***************************************************************************)
(* The REST interface to artists and their music (2022/DB/1018).  No view  *)
(* deletes or changes an artist.                                           *)
(***************************************************************************)
EXTENDS ArticleApi

ArtistRow == [ref |-> 0]
MusicRow(artist) == [ref |-> artist]

\* What MusicSerializer makes of a loaded music: artist is read-only.
MusicWritten(row) == row

\* ArtistSerializer.data: the artist's music and its number.
ArtistData(b) ==
    /\ site = "music"
    /\ req[b].step = "data"
    /\ Answer(b, req[b].reply)
    /\ UNCHANGED noWrite

\* artist_cr: GET lists all, 404 when there are none; POST inserts.
ArtistCr(b) ==
    /\ site = "music"
    /\ \/ /\ Open(b, Reply(IF rows["artist"] = <<>> THEN "404" ELSE "200"))
          /\ UNCHANGED noWrite
       \/ Open(b, Reply("400")) /\ UNCHANGED noWrite
       \/ /\ Idle(b)
          /\ Insert(b, "artist", ArtistRow,
                    [Request("artist_cr", "data") EXCEPT
                        !.pk = NewPk("artist"), !.reply = "201"])
          /\ UNCHANGED apiUnchanged

ArtistRud(b) ==
    /\ site = "music"
    /\ Find(b, "artist", "404", LAMBDA pk :
            [Request("artist_rud", "data") EXCEPT
               !.pk = pk, !.reply = "200"])
    /\ UNCHANGED noWrite

MusicAll(b) ==
    /\ site = "music"
    /\ Open(b, Reply(IF rows["music"] = <<>> THEN "404" ELSE "200"))
    /\ UNCHANGED noWrite

\* music_create: .get() raises when the artist is not there.
MusicCreate(b) ==
    /\ site = "music"
    /\ \/ /\ Find(b, "artist", "DoesNotExist", LAMBDA pk :
                  [Request("music_create", "save") EXCEPT !.pk = pk])
          /\ UNCHANGED noWrite
       \/ /\ At(b, "music_create", "save")
          /\ \/ Answer(b, "400") /\ UNCHANGED <<rows, used>>
             \/ Insert(b, "music", MusicRow(req[b].pk), Reply("201"))
          /\ UNCHANGED apiUnchanged

\* music_detail: GET, PUT or DELETE of the music found.
MusicDetail(b) ==
    LET q == req[b] IN
    /\ site = "music"
    /\ \/ /\ \/ Find(b, "music", "404", LAMBDA pk : Reply("200"))
             \/ \E step \in {"save", "delete"} :
                  Find(b, "music", "404", LAMBDA pk :
                       [Request("music_detail", step) EXCEPT
                          !.pk = pk, !.ref = rows["music"][pk].ref])
          /\ UNCHANGED noWrite
       \/ /\ At(b, "music_detail", "save")
          /\ \/ Answer(b, "400") /\ UNCHANGED <<rows, used>>
             \/ Save(b, "music", q.pk, MusicWritten(MusicRow(q.ref)),
                     Reply("200"))
          /\ UNCHANGED apiUnchanged
       \/ /\ At(b, "music_detail", "delete")
          /\ Delete(b, Without(rows, "music", {q.pk}), Reply("204"))
          /\ UNCHANGED apiUnchanged

MusicApiStep(b) ==
    \/ ArtistData(b) \/ ArtistCr(b) \/ ArtistRud(b)
    \/ MusicAll(b) \/ MusicCreate(b) \/ MusicDetail(b)
=============================================================================

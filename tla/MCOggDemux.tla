----------------------------- MODULE MCOggDemux -----------------------------
(***************************************************************************)
(* The files for the runs of OggDemux: a film with sound, whose packets go *)
(* over several pages; two songs in one file with a stream of another kind *)
(* beside them; and a film without sound.  A page is longer than a read,   *)
(* shorter than one by far, or about as long.  Of the film and the songs   *)
(* also what comes when a window has been read again: the first window,    *)
(* amid the headers or amid the data, or a later one.                      *)
(***************************************************************************)
EXTENDS OggDemux

Pg(s, n, ids) == [serial |-> s, no |-> n, bos |-> n = 0, cont |-> FALSE, ids |-> ids,
                  open |-> FALSE]
Opening(p) == [p EXCEPT !.open = TRUE]
Continuing(p) == [p EXCEPT !.cont = TRUE]

Film ==
  [pageUnits |-> 5, kind |-> (1 :> "theora" @@ 2 :> "vorbis"),
   pages |-> << Pg(1, 0, <<1>>), Pg(2, 0, <<1>>), Pg(1, 1, <<2, 3>>), Pg(2, 1, <<2, 3>>),
                Opening(Pg(1, 2, <<>>)), Pg(2, 2, <<4, 5>>),
                Continuing(Opening(Pg(1, 3, <<>>))), Continuing(Pg(1, 4, <<4, 5>>)),
                Pg(2, 3, <<6>>) >>]

TwoSongs ==
  [pageUnits |-> 1, kind |-> (1 :> "vorbis" @@ 2 :> "other" @@ 3 :> "vorbis"),
   pages |-> << Pg(2, 0, <<1>>), Pg(3, 0, <<1>>), Pg(1, 0, <<1>>), Pg(3, 1, <<2, 3>>),
                Pg(1, 1, <<2, 3>>), Pg(2, 1, <<2>>), Pg(3, 2, <<4>>), Opening(Pg(1, 2, <<4>>)),
                Continuing(Pg(1, 3, <<5>>)), Pg(3, 3, <<5>>), Pg(1, 4, <<6>>) >>]

Silent ==
  [pageUnits |-> 2, kind |-> (1 :> "theora"),
   pages |-> << Pg(1, 0, <<1>>), Pg(1, 1, <<2, 3>>), Pg(1, 2, <<4>>) >>]

\* After its page k a file is delivered again from its page j on.
Again(v, j, k) ==
  [v EXCEPT !.pageUnits = 1, !.pages = SubSeq(@, 1, k) \o SubSeq(@, j, Len(@))]

AllVideos ==
  {Film, TwoSongs, Silent, Again(Film, 1, 3), Again(Film, 3, 4), Again(Film, 1, 6), Again(Film, 6, 7),
   Again(TwoSongs, 1, 7), Again(TwoSongs, 7, 9)}
=============================================================================

------------------------------ MODULE OggDemux ------------------------------
(***************************************************************************)
(* The decoder's loop (client/PloggOggDecoder.cpp): play() takes the pages *)
(* of an Ogg file from the byte stream, hands them to the logical streams  *)
(* and takes packets out of those: first the headers of all streams, then  *)
(* the audio packets one after the other and, when a frame is due, a video *)
(* packet in between.  The two parts of libogg that it drives are          *)
(* modelled with it: the sync state, which finds the pages in the bytes    *)
(* and recovers after a damaged one, and the stream state, which puts      *)
(* packets together from pages and leaves a hole where a page is missing.  *)
(*                                                                         *)
(* A file is a sequence of pages, all of the same length, and a read       *)
(* returns at most ReadUnits units.  Packets are numbered per stream.  The *)
(* file is what the byte stream delivers: when the fetcher has placed a    *)
(* window twice, some pages come again (see ChunkFetcher!ReadFails).       *)
(***************************************************************************)
EXTENDS Naturals, Sequences, FiniteSets, FiniteSetsExt, SequencesExt

CONSTANTS Videos,          \* the files that may be played
          ReadUnits,       \* how much read_page asks the byte stream for
          HeaderPackets,   \* headers of a theora or vorbis stream (three)
          MaxDamaged       \* bound: pages whose checksum fails

\* A page of stream serial carries the ends of the packets ids.  cont: the
\* first packet on it began on an earlier page; open: its last one goes on.
Pages == [serial : Nat, no : Nat, bos : BOOLEAN, cont : BOOLEAN,
          ids : Seq(Nat \ {0}), open : BOOLEAN]

NoStream == 0
Hole == 0

ASSUME SizesAssumption ==
  /\ {ReadUnits, HeaderPackets} \subseteq Nat \ {0}
  /\ MaxDamaged \in Nat
ASSUME VideosAssumption ==
  \A v \in Videos :
    /\ v.pageUnits \in Nat \ {0}
    /\ DOMAIN v.kind \subseteq Nat \ {NoStream}
    /\ \A s \in DOMAIN v.kind : v.kind[s] \in {"theora", "vorbis", "other"}
    /\ v.pages \in Seq(Pages)
    /\ \A k \in DOMAIN v.pages :
         v.pages[k].serial \in DOMAIN v.kind /\ (v.pages[k].bos <=> v.pages[k].no = 0)

\* Pages of a stream come in the order of their numbers and its packets are numbered
\* on from page to page, but for pages that come again.
ASSUME NumberingAssumption ==
  \A v \in Videos : \A k \in DOMAIN v.pages :
    LET p == v.pages[k]
        Own == {j \in DOMAIN v.pages : v.pages[j].serial = p.serial}
    IN  /\ p.no > 0 => \E j \in Own :
             j < k /\ p.no = v.pages[j].no + 1 /\ (p.cont => v.pages[j].open)
        /\ p.cont => p.no > 0
        /\ \A i \in DOMAIN p.ids : p.ids[i] = p.ids[1] + i - 1
        /\ \A j \in Own :
             /\ v.pages[j].no = p.no => v.pages[j] = p
             /\ v.pages[j].no < p.no =>
                  \A a \in DOMAIN v.pages[j].ids, i \in DOMAIN p.ids :
                    v.pages[j].ids[a] < p.ids[i]

\* Before the first packet of data ends, and in the whole file, every stream has begun
\* and all its headers have come.
ASSUME HeadersAssumption ==
  \A v \in Videos : \A s \in DOMAIN v.kind, e \in 1 .. Len(v.pages) + 1 :
    LET Data(k) == /\ v.kind[v.pages[k].serial] # "other"
                   /\ \E i \in DOMAIN v.pages[k].ids : v.pages[k].ids[i] > HeaderPackets
        Own == {j \in DOMAIN v.pages : v.pages[j].serial = s}
    IN  e = Len(v.pages) + 1 \/ Data(e) =>
          \E l \in Own :
            /\ l <= e /\ \A j \in Own : j <= l \/ j > e
            /\ v.kind[s] # "other" => \A h \in 1 .. HeaderPackets :
                 \E k \in Own : v.pages[k].no <= v.pages[l].no /\ h \in ToSet(v.pages[k].ids)

VARIABLES
  video, damaged, cut,          \* the file, its damaged pages, where it ends
  good, got,                    \* the byte stream: good(), units read so far
  returned, unsynced,           \* ogg_sync_state: pages passed, in recapture
  mStreams, expected, queue, partial,  \* the ogg_stream_state of each stream
  headers,                      \* header packets each decoder has taken
  audio, movie, active,         \* the streams play() chose
  pc, caller, page, peeked,     \* control, and read_page's result
  taken,                        \* history: packets taken from each stream
  escaped                       \* history: the user pressed Escape

file == <<video, damaged, cut>>
sync == <<good, got, returned, unsynced>>
streams == <<mStreams, expected, queue, partial>>
chosen == <<audio, movie, active>>
vars == <<file, sync, streams, headers, chosen, pc, caller, page, peeked, taken, escaped>>

Serials == DOMAIN video.kind
Num == Len(video.pages)
PageUnits == video.pageUnits

Init ==
  /\ video \in Videos
  /\ damaged \in {d \in SUBSET (1 .. Num) : Cardinality(d) <= MaxDamaged}
  /\ cut \in 0 .. Num * PageUnits
  /\ good = TRUE /\ got = 0 /\ returned = 0 /\ unsynced = FALSE
  /\ mStreams = {} /\ partial = [s \in Serials |-> FALSE]
  /\ expected = [s \in Serials |-> 0] /\ queue = [s \in Serials |-> <<>>]
  /\ headers = [s \in Serials |-> 0]
  /\ audio = NoStream /\ movie = NoStream /\ active = Serials
  /\ pc = "read_page" /\ caller = "read_headers" /\ page = 0 /\ peeked = NoStream
  /\ taken = [s \in Serials |-> <<>>]
  /\ escaped = FALSE
-----------------------------------------------------------------------------
(* ogg_sync_pageout *)

Whole(k) == k \in 1 .. Num /\ k * PageUnits <= got

\* The first bad checksum is reported (-1) with the page skipped; while it
\* is unsynced, further bad ones are skipped in silence.
Recapture == ~unsynced /\ Whole(returned + 1) /\ returned + 1 \in damaged

Found(k) ==
  /\ ~Recapture
  /\ k > returned /\ Whole(k) /\ k \notin damaged
  /\ (returned + 1) .. (k - 1) \subseteq damaged

PageOut(k) == Found(k) /\ returned' = k /\ unsynced' = FALSE

Skippable ==
  IF Recapture THEN {returned + 1}
  ELSE {k \in 0 .. Num : k >= returned
          /\ \A j \in (returned + 1) .. k : Whole(j) /\ j \in damaged}

NoPageOut ==
  /\ \A k \in 1 .. Num : ~Found(k)
  /\ returned' = Max(Skippable)
  /\ unsynced' = (unsynced \/ Recapture)
-----------------------------------------------------------------------------
(* read_page *)

\* Mutant of EnterReadPage: at the end of the file read_page gives up
\* without trying its buffer.
ForgetfulEnterReadPage ==
  /\ pc = "read_page"
  /\ IF good THEN pc' = "pageout" /\ page' = page ELSE pc' = "no_page" /\ page' = 0
  /\ UNCHANGED <<file, sync, streams, headers, chosen, caller, peeked, taken, escaped>>

EnterReadPage ==
  /\ pc = "read_page"
  /\ pc' = IF good THEN "pageout" ELSE "last_pageout"
  /\ UNCHANGED <<file, sync, streams, headers, chosen, caller, page, peeked, taken, escaped>>

ReturnPage ==
  /\ pc \in {"pageout", "last_pageout"}
  /\ \E k \in 1 .. Num : PageOut(k) /\ page' = k
  /\ pc' = "page_read"
  /\ UNCHANGED <<file, good, got, streams, headers, chosen, caller, peeked, taken, escaped>>

NeedData ==
  /\ pc = "pageout" /\ NoPageOut
  /\ pc' = "read"
  /\ UNCHANGED <<file, good, got, streams, headers, chosen, caller, page, peeked, taken, escaped>>

\* Mutant of Read: the "continue" of the original plogg (see the comment on
\* line 327): after a read of nothing the loop goes on.
RetryingRead ==
  /\ pc = "read"
  /\ LET n == IF cut - got < ReadUnits THEN cut - got ELSE ReadUnits
     IN  /\ got' = got + n
         /\ good' = (n = ReadUnits)
         /\ pc' = "pageout"
  /\ UNCHANGED <<file, returned, unsynced, streams, headers, chosen, caller, page, peeked,
                 taken, escaped>>

\* The stream returns less than was asked for only at the end of the file,
\* and is not good() from then on (XChunkSocketStream!ShortReadMeansEnd).
\* After a short read the loop still tries the bytes it has got.
Read ==
  /\ pc = "read"
  /\ LET n == IF cut - got < ReadUnits THEN cut - got ELSE ReadUnits
     IN  /\ got' = got + n
         /\ good' = (n = ReadUnits)
         /\ pc' = IF n = 0 THEN "last_pageout" ELSE "pageout"
  /\ UNCHANGED <<file, returned, unsynced, streams, headers, chosen, caller, page, peeked,
                 taken, escaped>>

ReturnNoPage ==
  /\ pc = "last_pageout" /\ NoPageOut
  /\ pc' = "no_page" /\ page' = 0
  /\ UNCHANGED <<file, good, got, streams, headers, chosen, caller, peeked, taken, escaped>>

ReadPage == EnterReadPage \/ ReturnPage \/ NeedData \/ Read \/ ReturnNoPage
-----------------------------------------------------------------------------
(* ogg_stream_pagein: a gap in the page numbers drops the packet that was
   begun and leaves a hole; what continues a packet whose beginning is
   missing is dropped.  (A stream is made at its first page, number 0.) *)

Pagein(p, exp, q, part) ==
  LET s == p.serial
      gap == p.no # exp[s]
      lost == p.cont /\ (gap \/ ~part[s])
      ends == IF lost /\ p.ids # <<>> THEN Tail(p.ids) ELSE p.ids
  IN  /\ expected' = [exp EXCEPT ![s] = p.no + 1]
      /\ queue' = [q EXCEPT ![s] = (IF gap THEN Append(@, Hole) ELSE @) \o ends]
      /\ partial' = [part EXCEPT ![s] = p.open /\ ~(lost /\ p.ids = <<>>)]

Abort ==
  /\ pc' = "aborted"
  /\ UNCHANGED <<file, sync, streams, headers, chosen, caller, page, peeked, taken, escaped>>

(* read_headers *)

\* Only a first page makes a stream, in the place of one of its number if it comes
\* again; the page is then given to its stream.
HeadersPage ==
  /\ pc = "page_read" /\ caller = "read_headers"
  /\ LET p == video.pages[page]
         New(f, x) == IF p.bos THEN [f EXCEPT ![p.serial] = x] ELSE f
     IN  /\ p.bos \/ p.serial \in mStreams
         /\ mStreams' = mStreams \cup {p.serial} /\ headers' = New(headers, 0)
         /\ Pagein(p, New(expected, 0), New(queue, <<>>), New(partial, FALSE))
         /\ peeked' = p.serial
  /\ pc' = "peek"
  /\ UNCHANGED <<file, sync, chosen, caller, page, taken, escaped>>

\* assert(mStreams.find(serial) != mStreams.end())
UnknownStream ==
  /\ pc = "page_read"
  /\ LET p == video.pages[page] IN
       p.serial \notin mStreams /\ (caller = "read_headers" => ~p.bos)
  /\ Abort

IsHeader(s, id) == video.kind[s] # "other" /\ id <= HeaderPackets

\* The first packet of data: for theora only when its headers are complete,
\* for vorbis once the stream is known as one.
FirstData(s, id) ==
  /\ ~IsHeader(s, id)
  /\ \/ video.kind[s] = "theora" /\ headers[s] = HeaderPackets
     \/ video.kind[s] = "vorbis" /\ headers[s] > 0

Peeked == Head(queue[peeked])

\* A header, or a packet of a stream that is neither theora nor vorbis.
ConsumeHeader ==
  /\ pc = "peek" /\ queue[peeked] # <<>> /\ Peeked # Hole
  /\ ~FirstData(peeked, Peeked)
  /\ headers' = [headers EXCEPT ![peeked] = IF IsHeader(peeked, Peeked) THEN @ + 1 ELSE @]
  /\ queue' = [queue EXCEPT ![peeked] = Tail(@)]
  /\ taken' = [taken EXCEPT ![peeked] = Append(@, Peeked)]
  /\ UNCHANGED <<file, sync, mStreams, expected, partial, chosen, pc, caller, page,
                 peeked, escaped>>

\* assert(ret == 1) after ogg_stream_packetpeek
HoleAmidHeaders ==
  /\ pc = "peek" /\ queue[peeked] # <<>> /\ Peeked = Hole
  /\ Abort

NextHeaderPage ==
  /\ pc = "peek" /\ queue[peeked] = <<>>
  /\ pc' = "read_page"
  /\ UNCHANGED <<file, sync, streams, headers, chosen, caller, page, peeked, taken, escaped>>

HeadersDone ==
  /\ \/ /\ pc = "peek" /\ queue[peeked] # <<>> /\ Peeked # Hole
        /\ FirstData(peeked, Peeked)
     \/ pc = "no_page" /\ caller = "read_headers"
  /\ pc' = "start"
  /\ UNCHANGED <<file, sync, streams, headers, chosen, caller, page, peeked, taken, escaped>>

ReadHeaders ==
  HeadersPage \/ UnknownStream \/ ConsumeHeader \/ HoleAmidHeaders \/ NextHeaderPage \/ HeadersDone
-----------------------------------------------------------------------------
(* play *)

\* The streams whose first header has been taken know their type.
Known(kind) == {s \in mStreams : video.kind[s] = kind /\ headers[s] > 0}

\* The first of each type in the order of the map, which is that of the
\* serial numbers.
FirstOf(kind) ==
  IF Known(kind) = {} THEN NoStream ELSE Min(Known(kind))

\* th_decode_alloc returns NULL without the setup header, vorbis does without.
CanStart ==
  /\ FirstOf("vorbis") # NoStream
  /\ FirstOf("theora") # NoStream => headers[FirstOf("theora")] = HeaderPackets

StartPlay ==
  /\ pc = "start" /\ CanStart
  /\ audio' = FirstOf("vorbis") /\ movie' = FirstOf("theora")
  /\ active' = active \ (mStreams \ {audio', movie'})
  /\ pc' = "packetout" /\ caller' = "audio"
  /\ UNCHANGED <<file, sync, streams, headers, page, peeked, taken, escaped>>

\* assert(mCtx != NULL) and assert(audio)
CannotStart == pc = "start" /\ ~CanStart /\ Abort

(* read_packet(stream), for stream = audio or movie *)

Wanted == IF caller = "audio" THEN audio ELSE movie

\* A header that comes again is no sound (OV_ENOTAUDIO, passed over) and no picture
\* (TH_EBADPACKET, which handle_theora_data asserts away).
Decoded(id) ==
  CASE caller = "audio"                           -> "decoded"
    [] caller = "movie" /\ IsHeader(movie, id)    -> "aborted"
    [] caller = "movie" /\ ~IsHeader(movie, id)   -> "poll"

\* Mutant of PacketOut: a hole is taken for a packet (the result is tested
\* for 0).
BlindPacketOut ==
  /\ pc = "packetout" /\ queue[Wanted] # <<>>
  /\ queue' = [queue EXCEPT ![Wanted] = Tail(@)]
  /\ taken' = [taken EXCEPT ![Wanted] = Append(@, Head(queue[Wanted]))]
  /\ pc' = Decoded(Head(queue[Wanted]))
  /\ UNCHANGED <<file, sync, mStreams, expected, partial, headers, chosen, caller, page,
                 peeked, escaped>>

PacketOut ==
  /\ pc = "packetout" /\ queue[Wanted] # <<>> /\ Head(queue[Wanted]) # Hole
  /\ queue' = [queue EXCEPT ![Wanted] = Tail(@)]
  /\ taken' = [taken EXCEPT ![Wanted] = Append(@, Head(queue[Wanted]))]
  /\ pc' = Decoded(Head(queue[Wanted]))
  /\ UNCHANGED <<file, sync, mStreams, expected, partial, headers, chosen, caller, page,
                 peeked, escaped>>

\* Mutant of NoPacketOut: a hole is asserted away in read_packet as in read_headers.
StrictNoPacketOut ==
  /\ pc = "packetout"
  /\ IF queue[Wanted] # <<>> THEN Head(queue[Wanted]) = Hole /\ pc' = "aborted"
                             ELSE pc' = "read_page"
  /\ UNCHANGED <<file, sync, streams, headers, chosen, caller, page, peeked, taken, escaped>>

\* A hole is passed over, but like an empty queue it asks for another page.
NoPacketOut ==
  /\ pc = "packetout"
  /\ queue[Wanted] # <<>> => Head(queue[Wanted]) = Hole
  /\ queue' = [queue EXCEPT ![Wanted] = IF @ = <<>> THEN @ ELSE Tail(@)]
  /\ pc' = "read_page"
  /\ UNCHANGED <<file, sync, mStreams, expected, partial, headers, chosen, caller, page, peeked,
                 taken, escaped>>

\* Mutant of FeedPage: a page of another stream than the wanted one is dropped.
SelfishFeedPage ==
  /\ pc = "page_read" /\ caller # "read_headers"
  /\ LET p == video.pages[page] IN
       /\ p.serial \in mStreams
       /\ IF p.serial = Wanted THEN Pagein(p, expected, queue, partial)
                               ELSE UNCHANGED <<expected, queue, partial>>
  /\ pc' = "packetout"
  /\ UNCHANGED <<file, sync, mStreams, headers, chosen, caller, page, peeked, taken, escaped>>

\* It is the wanted stream that is asked whether it is active.
FeedPage ==
  /\ pc = "page_read" /\ caller # "read_headers"
  /\ LET p == video.pages[page] IN
       /\ p.serial \in mStreams
       /\ IF Wanted \in active THEN Pagein(p, expected, queue, partial)
                               ELSE UNCHANGED <<expected, queue, partial>>
  /\ pc' = "packetout"
  /\ UNCHANGED <<file, sync, mStreams, headers, chosen, caller, page, peeked, taken, escaped>>

\* No page any more: without audio play() ends, without a frame it goes on.
NoPacket ==
  /\ pc = "no_page" /\ caller # "read_headers"
  /\ pc' = IF caller = "audio" THEN "ended" ELSE "poll"
  /\ UNCHANGED <<file, sync, streams, headers, chosen, caller, page, peeked, taken, escaped>>

\* After an audio packet a frame may be due, by the position of the sound.
FrameDue ==
  /\ pc = "decoded" /\ movie # NoStream
  /\ pc' = "packetout" /\ caller' = "movie"
  /\ UNCHANGED <<file, sync, streams, headers, chosen, page, peeked, taken, escaped>>

NoFrameDue ==
  /\ pc = "decoded"
  /\ pc' = "poll"
  /\ UNCHANGED <<file, sync, streams, headers, chosen, caller, page, peeked, taken, escaped>>

NextPacket ==
  /\ pc = "poll"
  /\ pc' = "packetout" /\ caller' = "audio"
  /\ UNCHANGED <<file, sync, streams, headers, chosen, page, peeked, taken, escaped>>

Escape ==
  /\ pc = "poll"
  /\ pc' = "ended" /\ escaped' = TRUE
  /\ UNCHANGED <<file, sync, streams, headers, chosen, caller, page, peeked, taken>>

Play == StartPlay \/ CannotStart \/ PacketOut \/ NoPacketOut \/ FeedPage \/ NoPacket
          \/ FrameDue \/ NoFrameDue \/ NextPacket \/ Escape

Next == ReadPage \/ ReadHeaders \/ Play

Spec == Init /\ [][Next]_vars

\* One thread runs play(), and every call in it returns.
FairSpec == Spec /\ WF_vars(Next)
-----------------------------------------------------------------------------
TypeOK ==
  /\ video \in Videos /\ damaged \subseteq 1 .. Num /\ cut \in 0 .. Num * PageUnits
  /\ good \in BOOLEAN /\ got \in 0 .. cut /\ unsynced \in BOOLEAN
  /\ returned \in 0 .. Num /\ page \in 0 .. Num
  /\ mStreams \subseteq Serials /\ expected \in [Serials -> Nat]
  /\ queue \in [Serials -> Seq(Nat)] /\ taken \in [Serials -> Seq(Nat \ {Hole})]
  /\ partial \in [Serials -> BOOLEAN] /\ headers \in [Serials -> 0 .. HeaderPackets]
  /\ {audio, movie, peeked} \subseteq Serials \cup {NoStream} /\ active \subseteq Serials
  /\ pc \in {"read_page", "pageout", "read", "last_pageout", "page_read", "no_page", "peek",
             "start", "packetout", "decoded", "poll", "ended", "aborted"}
  /\ caller \in {"read_headers", "audio", "movie"} /\ escaped \in BOOLEAN

Fed == IF pc = "page_read" THEN page - 1 ELSE returned

Serial(k) == video.pages[k].serial

\* Page k carries only a middle part of a packet.
Middle(k) == video.pages[k].cont /\ video.pages[k].ids = <<>>

\* Page k is the last of those of stream s among the first n that have come.
Latest(k, s, n) ==
  /\ k \in 1 .. n /\ k \notin damaged /\ Serial(k) = s
  /\ \A i \in (k + 1) .. n : i \in damaged \/ Serial(i) # s

\* Page k comes next after page j in its stream, by its number too.
Follows(k, j) ==
  Latest(j, Serial(k), k - 1) /\ video.pages[k].no = video.pages[j].no + 1

\* The packet of stream s that begins last on page b goes on over all its pages to n.
Begun(b, s, n) ==
  /\ b \notin damaged /\ Serial(b) = s /\ video.pages[b].open /\ ~Middle(b)
  /\ \A k \in (b + 1) .. n : k \notin damaged /\ Serial(k) = s =>
       /\ Middle(k) /\ video.pages[k].open
       /\ \E j \in b .. (k - 1) : Follows(k, j)

\* The packets that end on page e and that no damage and no repetition has touched.
Survivors(e) ==
  LET p == video.pages[e]
      begun == ~p.cont \/ \E b \in 1 .. (e - 1) :
        Begun(b, p.serial, e - 1) /\ \E j \in b .. (e - 1) : Follows(e, j)
  IN  IF e \in damaged THEN <<>> ELSE IF begun \/ p.ids = <<>> THEN p.ids ELSE Tail(p.ids)

\* Those that end on the first n pages of stream s.
Fate(s, n) == FlattenSeq([e \in 1 .. n |-> IF Serial(e) = s THEN Survivors(e) ELSE <<>>])

Packets(q) == FlattenSeq([i \in DOMAIN q |-> IF q[i] = Hole THEN <<>> ELSE <<q[i]>>])

\* Of every stream, the packets that no damage has touched are taken or still
\* queued, all of them, as often as they come and in that order, and no others: a
\* page that arrives while another stream is wanted is kept for its own stream, and
\* after a gap no packet is put together from the parts of two.
NothingVanishes ==
  pc # "aborted" =>
    \A s \in Serials : taken[s] \o Packets(queue[s]) = Fate(s, Fed)

\* A page is hit that is damaged or does not come whole.
Hit(k) == k \in damaged \/ k * PageUnits > cut

ComesAgain(k) ==
  \E j \in 1 .. (k - 1) : Serial(j) = Serial(k) /\ video.pages[j].no = video.pages[k].no

\* If the player is not stopped, all the sound before the first page that is hit or
\* comes again is played: nothing that was buffered when the stream ended is forgotten.
SoundBeforeDamageIsPlayed ==
  pc = "ended" /\ ~escaped =>
    \A e \in 1 .. Num :
      Serial(e) = audio /\ (\A k \in 1 .. e : ~Hit(k) /\ ~ComesAgain(k))
        => ToSet(video.pages[e].ids) \subseteq ToSet(taken[audio])

Headed(k) == video.kind[Serial(k)] # "other"
CarriesHeader(k) == Headed(k) /\ \E id \in ToSet(video.pages[k].ids) : id <= HeaderPackets
EndsData(k) == Headed(k) /\ \E id \in ToSet(video.pages[k].ids) : id > HeaderPackets
BeforeData(k) == \A j \in 1 .. (k - 1) : ~EndsData(j)

\* Page k comes again, but not so the page before it in its stream.
OutOfStep(k) ==
  /\ ~video.pages[k].bos
  /\ \A j \in 1 .. (k - 1) : Serial(j) = Serial(k) /\ video.pages[k].no = video.pages[j].no + 1 =>
       \E i \in (j + 1) .. (k - 1) : Serial(i) = Serial(k)

\* An assertion of the decoder fails only for a file without sound, if up to the first
\* packet of data a page is hit or comes again without those before it, or if headers
\* of the picture come again later: once the player has started, no damage, no early
\* end and no repetition of any other pages aborts it.
Cause ==
  \/ \A s \in Serials : video.kind[s] # "vorbis"
  \/ \E k \in 1 .. Num :
       IF BeforeData(k) THEN Hit(k) \/ OutOfStep(k)
       ELSE ComesAgain(k) /\ CarriesHeader(k) /\ video.kind[Serial(k)] = "theora"

AbortsWithCause == pc = "aborted" => Cause

(***************************************************************************)
(* The inductive invariant behind them, of what has been fed.              *)
(***************************************************************************)
InHeaders == caller = "read_headers" /\ pc \notin {"start", "aborted"}

Asking == {"read_page", "pageout", "read", "last_pageout", "no_page"}

Control ==
  /\ pc = "page_read" => page = returned /\ page # 0 /\ page \notin damaged
  /\ pc = "peek" => /\ peeked \in mStreams /\ returned # 0 /\ returned \notin damaged
                    /\ peeked = Serial(returned)
  /\ pc \in {"peek", "start"} => caller = "read_headers"
  /\ pc \in {"packetout", "decoded", "poll", "ended"} => caller # "read_headers"
  /\ IF caller = "read_headers" THEN active = Serials ELSE audio \in active
  /\ movie # NoStream => movie \in active /\ video.kind[movie] = "theora"
  /\ caller = "movie" => movie # NoStream
  /\ pc = "ended" /\ ~escaped => caller = "audio"
  /\ InHeaders => \A s \in Serials : queue[s] = <<>> \/ (pc = "peek" /\ s = peeked)
  /\ ~good \/ pc \in {"last_pageout", "no_page"} => got = cut
  /\ pc = "no_page" /\ returned < Num => \E k \in 1 .. (returned + 1) : Hit(k)

Kept(s, n) ==
  /\ s \in mStreams => \E k \in 1 .. n : Latest(k, s, n) /\ expected[s] = video.pages[k].no + 1
  /\ s \notin mStreams =>
       /\ \A k \in 1 .. n : k \in damaged \/ Serial(k) # s
       /\ expected[s] = 0 /\ headers[s] = 0
  /\ partial[s] <=> \E b \in 1 .. n : Begun(b, s, n)
  /\ taken[s] \o Packets(queue[s]) = Fate(s, n)

AllKept == pc # "aborted" => \A s \in Serials : Kept(s, Fed)

Clean(e) == \A k \in 1 .. e : ~Hit(k) /\ ~ComesAgain(k)

\* What is in queue q before the first hole.
BeforeHole(q) == {q[i] : i \in {j \in DOMAIN q : \A h \in 1 .. j : q[h] # Hole}}

Holeless(q) == \A i \in DOMAIN q : q[i] # Hole

\* Up to page n a packet goes on where the last page says so, and there is no hole.
Smooth(s, n) ==
  /\ Holeless(queue[s])
  /\ \A k \in 1 .. n : Latest(k, s, n) => partial[s] = video.pages[k].open

Heard(e) == ToSet(video.pages[e].ids) \subseteq ToSet(taken[Serial(e)])

Unhurt ==
  /\ pc # "aborted" /\ Clean(Fed) => \A s \in Serials : Smooth(s, Fed)
  /\ pc # "aborted" => \A e \in 1 .. Fed : Clean(e) =>
       ToSet(video.pages[e].ids) \subseteq ToSet(taken[Serial(e)]) \cup BeforeHole(queue[Serial(e)])
  /\ pc \in Asking /\ caller # "read_headers" =>
       \A e \in 1 .. Fed : Clean(e) /\ Serial(e) = Wanted => Heard(e)
  /\ SoundBeforeDamageIsPlayed

\* The packets of a stream come one after the other, as long as nothing is missing.
Counted(s) ==
  /\ \A i \in DOMAIN queue[s] :
       (\A j \in 1 .. i : queue[s][j] # Hole) =>
         queue[s][i] = queue[s][1] + i - 1 /\ queue[s][i] >= headers[s] + i
  /\ Holeless(queue[s]) => \A k \in 1 .. Num :
       Serial(k) = s /\ video.pages[k].no >= expected[s] =>
         \A i \in DOMAIN video.pages[k].ids :
           video.pages[k].ids[i] >= headers[s] + Len(queue[s]) + i

HeadersCounted == InHeaders => \A s \in Serials : Counted(s)

\* Every header that has come is taken or queued.
Complete(s) == \A k \in 1 .. Num :
  Serial(k) = s /\ video.pages[k].no < expected[s] =>
    \A id \in ToSet(video.pages[k].ids) :
      id <= HeaderPackets => id <= headers[s] \/ id \in ToSet(queue[s])

\* Up to the first packet of data, if nothing goes wrong, no header is missed.
BeginsWell == InHeaders /\ ~Cause =>
  /\ BeforeData(Fed)
  /\ \A s \in Serials : Smooth(s, Fed) /\ (video.kind[s] # "other" => Complete(s))
  /\ IF pc = "peek"
       THEN /\ ToSet(queue[peeked]) \subseteq ToSet(video.pages[returned].ids)
            /\ EndsData(returned) => \E id \in ToSet(queue[peeked]) : id > HeaderPackets
       ELSE Fed # 0 => ~EndsData(Fed)

\* And then none comes any more.
PlaysWell == pc # "aborted" /\ ~InHeaders /\ ~Cause =>
  /\ mStreams = Serials
  /\ Fed = Num \/ ~BeforeData(Fed + 1)
  /\ pc = "start" => CanStart
  /\ \A s \in Serials : video.kind[s] = "theora" =>
       \A i \in DOMAIN queue[s] : queue[s][i] = Hole \/ queue[s][i] > HeaderPackets

\* What DemuxInvariant proves: all of this, whatever happens to the file.
IInv ==
  /\ TypeOK /\ Control /\ AllKept /\ Unhurt /\ HeadersCounted
  /\ BeginsWell /\ PlaysWell /\ AbortsWithCause

\* play() comes to an end with the file, whether it was whole or not.
PlayEnds == <>(pc \in {"ended", "aborted"})

\* "Drop data for streams we're not interested in" (PloggOggDecoder.cpp:351).
OtherStreamsDropped ==
  [][\A s \in mStreams \ active : Len(queue'[s]) <= Len(queue[s])]_vars
=============================================================================

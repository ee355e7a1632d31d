# Verification of the XIA video client and its servers

TLA+ models, TLC runs and TLAPS proofs for the video-on-demand system in
`client/` and `server/`: a player that fetches a video chunk by chunk over XIA,
the content servers that hold the chunks, and the directory that tells the player
the chunks' identifiers (CIDs).

    tlc -config MCChunkFetcher.cfg MCChunkFetcher.tla     # check a model
    tlapm ChunkFetcherProofs.tla                          # check proofs

Each run of `PROJECT.json` names its module and its `.cfg`; `ChunkFetcher`,
`OggDemux` and `ChunkDag` have an MC module of their own, because the sequences they are run
with (locations, pages) cannot be written in a `.cfg`.

## 1. The system

```
 ContentServer x N --write--> CIDs_BigBuckBunny.txt --read once--> CidDirectoryServer
      |  (XputFile, later XremoveChunk)                                  |
      | chunks over XIA                            requests/replies on one XIA stream
      v                                                                  |
   fetcher thread (ChunkFetcher) <---- shared socket ---- main thread (VideoClient)
      | push                                                             | play
      v                                                                  v
   ChunkQueue --front/pop--> getNextChunkFromQueue --> XChunkSocketStream --> PloggOggDecoder
```

| Component | Source | State | Operations | Talks to |
|---|---|---|---|---|
| Chunk queue | `client/ChunkQueue.*`, `Chunk.*` | an `std::list`, one mutex | `size`, `front`, `pop`, `push` | fetcher and player thread |
| Chunk fetcher | `client/ChunkFetcher.*`, `VideoInformation.*`, `ClientConfig.*` | `nextChunkToRequest`, `reachedEndOfFile` (volatile, no lock), the locations in their present order | thread `fetchChunks`: windows of CIDs, chunk requests, statuses, reads, failover; player thread: `getNextChunkFromQueue` | queue, directory (stream), XIA chunk calls |
| Byte stream | `client/XChunkSocketStream.*` | current chunk, bytes used of it, count of the last read, end flag | constructor (starts the fetcher thread), `read`, `gcount`, `good` | fetcher, decoder |
| Client main | `client/VideoClient.cpp` | the socket, `VideoInformation` | ask for the number of chunks, play, "done", close, return | directory; shares the socket with the fetcher thread |
| Ogg decoder | `client/PloggOggDecoder.*` | libogg sync state, the streams found | `play`, `read_headers`, `read_page`, `read_packet` | byte stream, libraries |
| CID directory | `server/CidDirectoryServer.cpp` | per process `CIDlist`; per session `videoName` | `readInCIDLists` at the start; one thread per session: number of chunks, block, done | list file, client |
| Content server | `server/ContentServer.cpp` | the published chunks | `uploadContent`: put, write the list, sleep, take down | list file, XIA |
| Chunk DAG | `ChunkFetcher::createDag`, `VideoInformation::rotateServerLocations` | the locations in their present order | build the graph a chunk is requested with; rotate | XIA |
| Legacy server | `server/VideoServer.cpp` | | no longer built by the Makefile | |

The rest of the repository is not the system's own code: `third_party_libraries/`
(SDL, libogg, libtheora, libvorbis), `player_example/`, `plogg/` and `SDL Example/` (the
programs the decoder was taken from), `demoVideo/`, `xsockconf/`.

### What is hard here

*Threads.* The player tests the queue's size and the flag without a lock that spans
the tests and the `front`/`pop` that rely on them (`ChunkFetcher.cpp:60-69`). main shuts
the socket down while the fetcher thread may be using it, and the fetcher's `exit(-1)`
races main's `return 0`.

*Failure.* A lost connection shows as an error *or* as a reply of 0 bytes, which the
client takes for an empty answer. A chunk request can fail, a wait can be given up, and
a read can fail in the middle of a window; each starts the window again with the
locations rotated. Content servers take their chunks down one by one while clients
fetch them.

*Ordering.* Content servers truncate and write one file at the same time, and the
directory reads it once, whenever it happens to start. The stream keeps no message
boundaries: "block" and "done" can arrive in one receive, a reply in pieces.

*Damaged or short files.* The decoder takes pages of several streams, interleaved, out of
reads that do not respect them; a page may fail its checksum and the file may end anywhere,
with pages still buffered. A window that is read again after a failed read brings its pages
a second time. Half of what read_headers and play check are assertions.

*Time.* The position of the sound device is the player's only clock. It moves on while the
player decodes, and stops when a stalled stream lets the device run dry.

*Boundaries.* The last, shorter window; the queue's threshold, which is tested before a
whole window goes in; reads that end within a chunk.

`PROJECT.json` lists each hazard at its line with the properties that cover it. What
makes each component correct:

* queue: every call acts at one instant on one FIFO list; the mutex comes free;
* fetcher: chunks arrive in the order pushed, none skipped, none twice unless a read
  fails; the queue stays bounded; the unlocked tests still hold when acted on; the end is
  declared only when everything has been placed, if every reply came whole, and what is missing
  otherwise is known; the player is told the end in the end;
* stream: every byte once and in order, short reads only at the end, nothing after it;
* session: no request of the client ends the directory's process; the windows are the
  list, also when the stream cuts and joins what is sent; nothing outgrows its buffer while
  replies come whole; the client fails only when the session was lost or abandoned; both sides end;
* list file: complete once the writers are done, whatever their order;
* decoder: no packet is lost, repeated or given to another stream except by damage to its
  own pages; all sound before the damage is played; no assertion fails once play has begun,
  unless headers of the picture come a second time; play ends with the file; the picture keeps
  in step with the sound that is heard;
* chunk DAG: a request passes over servers that cannot serve it to one that can, the earlier
  ones first; rotation gets past whatever the graph cannot.

## 2. Modules

| Module | Models | Abstract counterpart / use |
|---|---|---|
| `FifoQueue` | what `ChunkQueue.h` promises: atomic operations on a FIFO list | abstract specification |
| `ChunkQueue` | the four operations as lock, read, write and unlock steps | implements `FifoQueue` |
| `ChunkPipe` | what `ChunkFetcher.h` promises: a pipe with an end, bounded until more CIDs come at once than `chunkStatuses` holds | abstract specification |
| `ChunkFetcher` | fetcher thread, `getNextChunkFromQueue`, network, content servers | implements `ChunkPipe`; relies on `ChunkQueue`'s atomicity |
| `XChunkSocketStream` | `read`, `gcount`, `good` | relies on `ChunkPipe`: NULL once is NULL for ever |
| `DirectorySession` | main, the fetcher's requests, the stream, the directory's thread | |
| `CidListFile` | content servers and directory around the list file | |
| `OggDemux` | `play`, `read_headers`, `read_page`, `read_packet` over libogg's sync and stream states | relies on `XChunkSocketStream`: a short read is the end |
| `PlayClock` | the clock in `play`: sound written, sound heard, frames shown | resolves the choice `OggDemux` leaves open: whether a frame is due |
| `ChunkDag` | `createDag`, a request along its graph, rotation | justifies what `PlayerReachesEnd` assumes of a primary location |
| `*Proofs` | theorems about the module of that name | |

### How state and actions correspond to the code

**ChunkQueue.** `pc[t]` is the place within a call. `std::list` is not atomic, so the work
under the lock is a read (`ReadList`, where `front` and `pop` assert) and a later write of
what follows from that read (`WriteList`); without the mutex two calls would lose updates.
`AssertFails` ends the process.

**ChunkFetcher.** `fetcherPc` follows `fetchChunks`: `loop` (the two `while` conditions and
the sleep), `retrieve` and `reply` (`retrieveCIDs`), `request`, `status`, `read`
(`readChunkData`), `done`, `exited` for `exit(-1)` or an exception, and `stuck` for a window
that is requested for ever. `playerPc` follows
`getNextChunkFromQueue`: `idle`, the two halves of the loop's condition (`size`, `flag`),
the second test (`recheck`), `front`, `pop`. Each unlocked access is a step of its own. A
call of the queue is one step, which `ChunkQueue` justifies. `Failover` is
`rotateServerLocations` and the repetition of `readChunkData`. The network is external:
chunks of a requested window become local one by one (`Bring`), a location of `Transient`
loses its chunks first to last (as `uploadContent` removes them), and the stream to the
directory may be lost for good. `placed` and `delivered` are histories.

`arriving` is what will still come on the stream: the CIDs of the replies to requests made. `SendBlock`
adds the block, or nothing if the directory receives the request together with the one before, of which
it then answers only the first (`ReplyAwaited`; the directory's side is in `DirectorySession`). One `Xrecv`
is taken for the reply (`ChunkFetcher.cpp:142-157`): `ReceiveReply(k)` takes any number of the CIDs that
arrive, a part of a reply or several joined, and the next request begins a window further on all the same.
A reply may end within a CID (`ReceivePartOfCid`), and a list longer than `chunkStatuses` may end the process
or be survived (`OverrunStatuses`, `ReceiveReply`), as in `DirectorySession`. When the connection is lost
any part of what arrives may still come (`LoseConnection`). `pieced` remembers that a reply was not
received whole, `overrun` that a list was too long.

A chunk that is local stays local: the client's cache is never evicted in the model.

**XChunkSocketStream.** A byte is its place among all bytes handed out. The inner copy
loop is one step (`CopyBytes`) of the length it copies; the loops around it are separate.
`getNextChunkFromQueue` is `NextChunk` or `NextIsNull`.

**DirectorySession.** Two threads of the client (`mainPc`, `fetcherPc`) use one socket;
`toServer` and `toClient` are what is on its way. The server receives the first `n`
requests on their way as one string and looks for "numchunks", then "done", as the
predicates at `CidDirectoryServer.cpp:262-274` do; otherwise the string is a block request
and its first numbers count. `CIDlist[""]` (no video selected) and `at()` past the end are the
two ways in which a request could end the process; they are the action `Crash`. A lost reply to
the first request leaves `numChunks` to chance, since the buffer is read uninitialized:
any value from 0 to one more than the list (a larger one behaves the same). `Fail` is
`Xclose` and `exit(-1)` in either thread.

`retrieveCIDs` takes what one `Xrecv` returns for the reply. `ReceiveReply(k)` therefore takes
any number of the CIDs that are there; what is left is received with the next reply. If the
cut is within a CID (`ReceivePartOfCid`), the fetcher asks for a chunk that does not exist, for
ever (`stuck`), or `substr(4)` throws (`abort`), by how much of it has come. A list longer than
`chunkStatuses` may end the process as well or be survived (`OverrunStatuses`, `ReceiveReply`):
both are outcomes of writing past an array. `pieced` remembers that a reply was cut. The first
reply, a short number and the locations, is taken to arrive whole, and so is each request.

**CidListFile.** A file is a sequence of lines, each written at its writer's own offset.
Another server's truncation may leave a hole below that offset. The directory reads a line
in two parts, since a block of `ifstream` can end within one; a hole has no white space
and runs into the next word (`token = "bad"`). `AllSettled` says that every server has
closed its file or died before writing, and at least one has closed it.

**OggDemux.** `pc` is the place in the calls and `caller` who called `read_page` or
`read_packet`: `read_headers`, or play for `audio` or for the `movie`. The sync state is the
number of pages passed (`returned`) and the recapture flag; `Found` and `Recapture` are the
results 1 and -1 of `ogg_sync_pageout`. A damaged page is passed as a whole: false captures
within it only delay that. A stream state is the page number expected, the packets
and holes ready, and whether a packet has begun; `Pagein` is `ogg_stream_pagein`, with packets
that continue over pages. The codecs are their answers: which packets are headers, and that
Theora knows when its headers are complete while Vorbis only knows its type. Each audio
packet gives sound at most once (`vorbis_synthesis_pcmout` returns all of it), so at most one frame is
due after it; whether one is, is left open here. A stream whose first page comes a second time is
begun anew in `read_headers` (`mStreams[serial] = stream`) and its packets are lost; during play
that page is fed to the stream there is, like any other, and libogg reports a hole. `Decoded` is `th_decode_packetin`
and its assertion, which a header packet among the data fails.

What a file is stands in three assumptions, which TLC evaluates for the files of the runs.
`VideosAssumption`: pages of known streams, the first of each marked. `NumberingAssumption`: what
an Ogg multiplexer writes, a stream's pages in the order of their numbers and its packets one after
the other, but for pages that come again. `HeadersAssumption`: before the first packet of data ends every
stream has begun and all headers of the sound and the picture have come, as the Ogg mappings of both
codecs demand. Nothing is assumed of damage, of where the file ends, or of which pages come again.
The properties say what becomes of a packet by its pages alone. `Survivors(e)` are the
packets that end on page `e` and of which no page was damaged, missed or repeated amid them;
`Cause` lists what makes an assertion fail: no sound, a page hit up to the first data, a page there that comes again
without the one before it, or headers of the picture that come again later.

**PlayClock.** Time is counted in ticks of sound. `pc` is the place in play's loop: `packet`
(before `read_packet`), `write` (in `sa_stream_write`), `clock` (before the position is asked), and
`drain` (in the destructor). The device is external: it plays what it has, in parallel, and
a write returns when all that is still unheard fits into it. `videoTime` is `th_granule_time`:
libtheora's granule position counts the frames that have been decoded. Packets and frames are
numbers, since what is in them is `OggDemux`'s matter; a stalled stream is a player that does not
take its next step while the device plays on. `noFrame` and `excess` are histories.

**ChunkDag.** The graph is the sequence of ways that `createDag` adds; nodes are told apart by
their place, as the `Node` objects are. XIA's part is external: a request follows, at each
node, the first usable edge in the order of adding, and never goes back. A host may be within
the client's reach without its AD (`nearby`), which is what the edges to hosts from the client are for.

## 3. Runs

| Run | Question | Result |
|---|---|---|
| `queue` | Is the locked list an atomic FIFO queue for two threads, and does the mutex come free? | holds |
| `fetcher` | Order, completeness, bound of the queue, soundness of the unlocked tests, refinement of the pipe, with replies in pieces, requests joined, a lost connection, a server taking its chunks down, and a failed read; and does failover always lead the player to the end? | holds |
| `early_null` | Is NULL returned only when every chunk has been had? (`ChunkFetcher.h:53`) | **violated** |
| `placed_twice` | Is each chunk of a list placed once? (`ChunkFetcher.h:85-86`) | **violated** |
| `stream` | Every byte once, in order; short reads; nothing after the end; reads return | holds |
| `session` | Windows, buffers, survival of the server, exit status and end of both sides, replies received whole or in pieces | holds |
| `window_overrun` | Does no window exceed the size that `ClientConfig.cpp:3-5` calls the limit? | **violated** |
| `list_file` | Three servers write (or die first), one directory reads | holds |
| `demux` | Packets kept and in order, sound played up to the damage, what makes assertions fail, and the end of play, for files damaged and cut off anywhere, and files with pages that come twice | holds |
| `demux_others` | Is data of inactive streams dropped? (`PloggOggDecoder.cpp:351`) | **violated** |
| `clock` | How far can picture and sound come apart, however long the stream stalls? | holds |
| `dag` | Does a request pass over servers that cannot serve it, in their order, and does rotation reach one that can? | holds |

The four violations are disagreements between the code and its own comments:

* `early_null`: the flag means that no CID is left to *request*, but
  `getNextChunkFromQueue` returns NULL on it before looking at the queue. The last chunks,
  up to the queue's contents, are never played.
* `placed_twice`: a failed `XreadChunk` for a later chunk of a window repeats the window
  from its first chunk, with the earlier ones already in the queue.
* `window_overrun`: after a reply that was received in two parts, the rest of it and the next
  reply are taken for one window, which is longer than `chunkStatuses` and than what the comment
  says `XrequestChunks` can take.
* `demux_others`: the test for activity asks the wanted stream instead of the page's own, so it is
  always true and pages of further streams pile up.

Three more follow from the code without a run. Nothing makes the directory start after the
content servers have written the list (`CidDirectoryServer.cpp:105`, `start_servers.sh`), which
is why `LateListIsWhole` has a premise. At the end of the file `read_page` takes a damaged page
(-1 from `ogg_sync_pageout`) for the end, although `PloggOggDecoder.cpp:309-310` wants what is
buffered processed, which is why `SoundBeforeDamageIsPlayed` ends at the damage. And the
direct route of `ChunkFetcher.h:93` has been taken out of `createDag` (`ChunkFetcher.cpp:259`).

Further limits that the properties state openly: `QueueBounded` grows by up to a window
less one chunk for each failed read, and like `ImplementsPipe` promises no bound once a list has been longer
than `chunkStatuses`; `EndOfFileIsComplete`, `AllCidsAtEnd` exclude a lost
connection, since a reply of 0 bytes skips a window. A live connection does not suffice for
completeness: after a reply in pieces the end is declared with CIDs unread on the stream, and a window whose
request was joined with the one before is never answered. `EndOfFileIsComplete` therefore promises every
chunk only while replies come whole, and otherwise says which may be missing: those unread and those of
such windows, no others; `NoGaps` likewise admits a gap in front of a window after a cut, but none within one, and
`PlacedOnceUnlessReadFails` keeps the order but not the count. `PlayerReachesEnd` admits a fetcher that is stuck with
half a CID or has exited. `AllCidsAtEnd`, `BuffersSuffice` and the half of
`WindowsInOrder` that excludes gaps hold only while no reply is cut, and `SessionEnds` admits a
fetcher stuck with half a CID; `PictureInStep` lets the picture fall behind for good by what
packets of sound outlast frames, since at most one frame follows each packet; `MissedOnlyBehindDeadAd` admits that the
dead AD of a server that is not the first hides the servers from it on, until rotation makes it primary or moves it behind them; `AbortsWithCause`
admits that damage up to the first page of data can abort the player, and so can headers of
the picture that come again after it (a first window read twice).

### Bounds

* `queue`: two threads, as in the client; two chunks, so that order shows; a list of at most
  one chunk when a push is called (two pushes under way make it longer), so that empty,
  full and contended states all occur. The proof has no such bound (any `MaxLen`).
* `fetcher`: five chunks in windows of two give two full windows and a short one; the
  threshold of two lets a window in on top of a chunk already there and then blocks; one wait
  before giving up; two locations, so that rotation comes back; one failed read. With three requests the
  first reply can be cut, its rest be received with the second or instead of it, and the third be lost by
  joining; that a window in the middle is lost needs a fourth, which `session` has. The proofs have no bound.
* `stream`: chunks of 1-3 bytes and reads of 1-5 over 7 bytes: reads within, at the end of
  and across several chunks.
* `session`: seven CIDs in windows of two: three full windows, so that what is left of a first
  reply can meet a second and still leave a rest, and a short one. `window_overrun` needs five.
* `list_file`: three servers, three chunks, so that a truncation falls before, within and after
  another's lines, with either the whole file of an earlier run or none at the start.
* `demux`: a film whose pages are longer than a read, with packets over two and three pages and
  sound between them; a file of pages much shorter than a read (so that several are
  buffered at the end) with two sound streams and one of another kind; a film without sound. Two damaged
  pages of each (gaps next to each other and apart), every length of each file. Of the first two also
  six files in which a run of pages comes twice: within the headers (with and without the first
  pages), headers with data behind them, in the middle of a packet that goes over pages, and sound alone.
* `clock`: packets that are empty, shorter than a frame, as long and longer; a device that holds
  more than a frame; more packets than frames, so that frames run out.
* `dag`: three servers, so that there is one before, between and after; all 4096 combinations
  of ADs and hosts up, hosts nearby and chunks held.

`CHECK_DEADLOCK FALSE` stands where the system may really stop: all threads have ended, the
process has exited or aborted, the player has been stopped and the fetcher sleeps at a full
queue, play has returned, the sound has been drained, the request has reached the chunk. `stream` checks deadlock.

### Fairness

* `queue`: a thread that holds the mutex runs on. Acquiring it is given no fairness:
  nothing in the code or in a pthread mutex promises it, and no property needs it.
* `fetcher`: both threads are scheduled (weak fairness). A request made again and
  again with the same primary location is accepted in the end, if that server keeps its content; while the
  primary of such requests holds chunks that have not come, one does (each chunk comes once, so all do); and a window
  that is local is reported so (strong fairness, since failover interrupts all three again and
  again). Fallback locations owe nothing: the property therefore rests on the rotation.
  This is an assumption about the network, not about the code; that some location keeps the
  content is a premise of the property.
* `stream`: `read` runs on and `getNextChunkFromQueue` returns.
* `session`: each thread is scheduled. Nothing is assumed of Escape or of the connection.
  A lost connection is reported to each side in the end, as a transport with retransmission
  limits does.
* `list_file`: every process is scheduled; a server may die before it writes.
* `demux`: one thread, whose calls return.
* `dag`: the network forwards what it can, and the fetcher gives up waiting after
  `NUM_WAITING_MESSAGES_THRESHOLD` polls. Nothing need be taken down; that one server goes on
  serving is a premise of the property.

## 4. Proofs

Every theorem holds for all values of the constants under the modules' named
assumptions (`NoThreadAssumption`, `SizesAssumption`, `LocationsAssumption`,
`StreamAssumption`, `SessionAssumption`, `FileAssumption`, `DirectoryAssumption`, `ClockAssumption`),
which say only that sizes are natural numbers, windows and frames are not empty, there is a
location and no two of the directory's servers are the same, there are finitely many content servers, and
`NoThread` is no thread; `OggDemux` adds what an Ogg file is (`VideosAssumption`,
`NumberingAssumption`, `HeadersAssumption`, see section 2).

| Module | Theorems | Argument |
|---|---|---|
| `ChunkQueueProofs` | `QueueInvariant`, `QueueIsAtomicFifo` | `IInv`: only the owner of the mutex is past the lock, and what it has read is still the list. Hence each write maps to the atomic effect and all else to call, return or stutter. |
| `ChunkFetcherProofs` | `FetcherInvariant`, `DeliveryIsFifo`, `PopTakesTheFront`, `QueueIsBounded`, `PlacedInSequence`, `NothingPlacedTwice`, `EndIsComplete`, `FetcherIsPipe` | `IInv` adds to the properties what links them, in two layers. However replies are cut: CIDs are asked for, arrive, stand in the window and are placed in one order (`OrderKept`); the one before each of them has been placed or comes before it, unless it starts a window (`Linked`); what has been asked for on a live connection is placed, in the window, arriving, or lost with its window (`OnlyWindowsLost`); the player's tests stay true (`PlayerTestsHold`); and so much room the fetcher's next pushes take (`QueueRoom`). While replies come whole: the window is the block asked for (`WindowShape`), only the reply waited for arrives (`OneReplyArrives`), and the chunks placed are counted by the requests (`PlacedIsCounted`). `StepKinds` reduces all steps to five that disturb these, one kind that gives up and one that is quiet. |
| `XChunkSocketStreamProofs` | `StreamInvariant`, `EndIsFinal` | the bytes out and the unread rest of the current chunk make up what was handed out; the current chunk is the latest. |
| `DirectorySessionProofs` | `SessionIsSafe`, `DirectorySurvives`, `ClientFailsWithCause`, `DirectoryEndsWhenTold`, `WindowsAreWhole`, `CidsComeInOrder`, `ListIsReceived`, `NothingOverflows` | in layers. `SafeInv`: how far the three threads are (`Phases`) and what can be on its way (`InTransit`); a block on its way lies within the list because the client knows its size as long as the stream is up (`SizeKnown`). `ServedAscending`, for any way of cutting replies: what is received and on its way, and then the blocks still asked for, lie one behind the other, below the end of the last request. `ServedInOrder`, while replies come whole: at most one block and its reply are on their way, so received and coming CIDs are the windows asked for. With `DoneOnce` that bounds what either side receives at once. |
| `CidListFileProofs` | `ListFileInvariant`, `FileIsComplete`, `LateDirectoryIsWhole`, `ListIsInOrder`, `LoneListIsPrefix` | `SurvivingWriter`: the lines of the last server to open the file have all survived, since a truncation makes its own author that server and a write never changes a line that is there. `LinesInPlace` and `ListedBehind`: line `i` never holds anything but CID `i` or a hole, and the directory only goes forward, so its list is in order whatever is truncated under it. `LoneWriter`: a server that is the only one to open the file truncates it before it has written, so the file is what it wrote and the list a prefix; this is an invariant of its own, on top of `SharedInv`, since a second server ends it for good. |
| `OggDemuxProofs` | `DemuxInvariant`, `NothingIsLost`, `SoundIsPlayed`, `AbortsHaveCause` | in layers, each on the ones before, see below. |
| `ChunkDagProofs` | `RequestInvariant`, `NoServerMissed`, `PrimaryFirst` | `IInv`: wherever the request is, the servers before it are passed over. `EdgeKinds` says which edges there are and with which way each is added (three ways per server); an edge to a later server is added after those that a serving earlier one would have offered, so it is taken only when that one does not serve. |
| `PlayClockProofs` | `ClockInvariant`, `PictureKeepsStep` | between two packets all that is *written*, heard or not, is only `Buffer + excess` ahead of the picture: a write adds a packet, which is at most a frame and its excess; then either a frame is shown, or the sound heard has not come that far and the device holds the rest. |

The invariants alone are not inductive: `NoGaps` needs to know what the fetcher will push
next, `QueueBounded` how much of its window it has pushed, `CompleteWhenSettled` whose lines
survive, `PictureInStep` what the device still holds. Each `IInv` is also checked by TLC.

### The decoder's invariant

All parts of `OggDemux!IInv` but the control state speak of `Fed`, the number of pages that have gone to
their streams, and compare the streams with the first `Fed` pages of the file.

1. `Control` ties `pc`, `caller` and the chosen streams together; above all that `read_page` gives up
   only when everything up to the end or up to a page that is hit has been passed.
2. `AllKept`: each `ogg_stream_state` expects the number after that of its latest page, is amid a packet
   exactly if the file is (`Begun`), and taken and queued packets are `Fate(s, Fed)`. A page changes
   its own stream only. It gives `NothingVanishes`.
3. `Unhurt`: while nothing is hit or comes again there are no holes, so the packets of a clean page are taken
   or stand before the first hole of their queue. When `read_page` is called for a stream its queue is
   empty, hence at the end all its clean pages have been heard: `SoundBeforeDamageIsPlayed`.
4. `HeadersCounted`: as long as no hole is queued, the next packet's number is above the count of headers taken, so
   what `read_headers` takes for data is data.
5. `BeginsWell`, unless there is a `Cause`: no packet of data has been fed before the one that ends the
   headers, and every header that has come is taken or queued. With `HeadersAssumption`
   all streams are then known and complete when `read_headers` returns (`HeadersDonePlays`).
6. `PlaysWell`, unless there is a `Cause`: from then on every page is of a stream that is known and no stream of
   pictures holds a header.
7. `AbortsWithCause` follows action by action, since each of the four ways to abort contradicts 5 or 6.

Two properties were sharpened by the attempt to prove them. `NothingVanishes` now also says that no packet is
made of parts of two, and counts packets that come twice. `AbortsWithCause` used to allow only damage up to the first
page with data; it is false when the first frame goes over several pages and one of them is damaged, since headers
are read until a packet of data is *whole*, and when a window amid the headers comes again by itself.

`FlattenSeq` is recursive over data. `FlatExists` to `FlatConcat` characterise it by an induction in the form of sets:
`Nat` is well-founded, so a set of numbers that holds 0 and each successor is `Nat` (lemma `Induction`). No
induction theorem with an operator for a parameter is needed.

Model-checked only: everything under fairness (`LockReleased`, `PlayerReachesEnd`,
`ReadReturns`, `SessionEnds`, `CompleteInTheEnd`, `PlayEnds`, `FailoverReachesChunk`), which
is out of the prover's reach, and the violations. Every other property of a passing run is a theorem.

## 5. Not modelled

* Most of the repository's lines. All but a percent of its source is vendored
  (`third_party_libraries/`: SDL, ALSA, libogg, libtheora, libvorbis with their code books and tables) or copied
  examples; the system's own code is some two thousand lines in `client/` and `server/`, and
  the modules cover nearly all of it that changes state. The share of all lines that the models
  map therefore cannot be large, and modelling the libraries would say nothing of this system
  beyond the interfaces that `OggDemux` and `PlayClock` have of them.
* The decoding of Theora and Vorbis and the display: third-party libraries; a decoder that
  rejects a packet that is whole and comes once.
* Sound or frames that are lost shift the two against each other for good, since both clocks count
  only what has been decoded: `PlayClock` says nothing of what a tick or a frame was in the file.
* The texts of requests and replies: their kinds and numbers are kept, their formatting is not.
  Their sizes are counted in CIDs and requests (`BuffersSuffice`), not in bytes.
* The first reply, or a request, received in pieces; a reply cut within a CID ends what is said of
  that session.
* A location that is misread from the reply is one that is never up; that a reply without any
  location leaves `createDag` nothing to start from is plain from the code (`ChunkFetcher.cpp:253`).
* A blank that is cut off from the reply it ends: white space behind a CID counts as received with it.
* Other sessions of the directory: its threads share only `CIDlist`, which is not written
  after the start.
* The legacy `VideoServer.cpp`, which is no longer built.
* Memory: leaks, `delete`, allocation failure.

## 6. Plan

Done, in this order: queue, fetcher, stream, session, list file, with their proofs; the
decoder's loop, model-checked; the chunk DAG and the player's clock with their proofs; the session
with replies in pieces, and the decoder with pages that come twice; the rest of the list file's proofs, and
those of the decoder for any file.

Not started: that the stream implements a byte pipe over `ChunkPipe`, which would compose
fetcher and stream.

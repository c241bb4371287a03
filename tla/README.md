# A TLA+ model of the EDU glasses host SDK

This directory holds TLA+ modules for `looktech_glasses_sdk`, the Python SDK
with which a host talks to a pair of glasses over Bluetooth RFCOMM: the modules,
the configurations TLC checks them with, and the theorems TLAPS proves about
them. Paths below are relative to `src/looktech_glasses_sdk/` unless they begin
with `docs/` or `tests/`.

## 1. The system

The glasses offer four RFCOMM channels, each an ordered byte stream: **CTRL**
(requests, answers, events), **IMG** (photos), **AUDIO** (a recording) and
**OTA** (firmware upgrades). On each of them the SDK has a client object; a
session owns the clients and offers the operations users call. A link may drop
at any time; nothing is persisted except the files saved.

There are two ways to drive the clients. On most systems each client has a
*reader thread* that fills queues, and the session empties the queues when it
polls. On macOS the Bluetooth library works only on the main thread: the
clients have no reader, and every wait calls a *pump*, which is the session's
own `poll`, so that listeners run inside requests and inside upgrades.

| Component | State it keeps | Operations | What makes it correct |
|---|---|---|---|
| control client, `client.py` | `_seq`, the table `_pending`, reader, `_stop` | `hello`, `request`, `start`, `close`, `poll` | an answer goes to the call it answers; no entry outlives its call; calls and `close` end; events precede the answers sent after them |
| photo channel, `image_client.py` with `protocol.py` 699-900 | bytes not cut, photo in assembly, next name | `start`, `close`, `set_next_photo_path`, `poll` | a file is one whole photo, under the name meant for it; a photo sent whole arrives |
| frame codec, `protocol.py`, `crc16.py` | bytes not cut | `encode_frame`, `FrameParser.feed`, parsers | loses no frame to the way reads cut the stream, and a whole one only to bytes that look like another |
| firmware upgrade, `ota_client.py` | `_sn`, block, attempt | `upgrade` | never passes a block the device lacks; reports success only of a verified image; ends |
| session, `session.py` | flags of photo, recording, upgrade; two queues | `connect`, `close`, `poll`, `trigger_photo`, `wait_photo`, `record_start`, `record_stop`, `ota`, ... | operations exclude one another as documented; the photo returned is the one asked for; no stream is left running |
| audio stream, `audio_client.py` | parser, sink, statistics, reader | `start`, `stop`, `poll` | losses are counted exactly; the tail is not cut off; the file is open exactly while the session records |
| capture and video, `capture.py` | operation of the video | `photo`, `video_start`, `video_stop`, `set_video_config`, `status` | an operation and a setting belong to the connection that made them; a session closed leaves no video running |
| catalog, `catalog.py` | none between calls | `list`, `item` | pages advance; what stays in the catalog is listed |
| Wi-Fi, `wifi.py` | none between calls | `scan`, `connect`, `status`, `disconnect` | a scan ends with what was there, or gives up |
| media import, `media.py` | worker, keep-alive, socket, flags of cancellation | `list`, `download`, `delete`, `cancel`, `close` | cancellation always takes effect; a final file is complete and of the item described; the device is released |
| macOS transport, `mac_bt.py`, `rfcomm_transport.py` | worker process, pipe, bytes not read | `open`, `read`, `write`, `close` | data before a close is delivered; acknowledgements go to their request; one process per channel |
| other transports and discovery, `transport.py`, `bt_socket.py`, `bt_discovery.py` | a socket or port | `open`, `read`, `write`, `close` | thin wrappers |

How they interact: the session calls `request` on the control client and
`set_next_photo_path` on the photo client; the clients call listeners of the
session, which put events and photos in `_incoming` and `_images`; `poll` takes
them out and calls the listeners of the program, which may call the session
again. The upgrade uses its own channel and must have the session to itself.

What is hard here: the reader and several callers on one table; a late answer
to a request that was given up; sequence numbers, serial numbers and group ids
of eight or sixteen bits that come round; a link lost between any two steps;
lost sub-frames and packages; listeners nested in operations; a cancellation
racing a socket about to be published; lists that change between two pages; a
process that hangs behind a full pipe; state kept across connections.
`PROJECT.json` lists each hazard at its line with the properties that cover it.

## 2. The modules

### CtrlRpc, CtrlClient
`CtrlRpc` is the abstract promise of `GlassesClient.request`: calls, the status
the device answered each with, the status reported to the caller. `CtrlClient`
is the code: any number of callers in `_transact`, the reader thread, the
lifecycle, the device and the link.

| TLA+ | code |
|---|---|
| `seq`, `table`, `frame` | `_seq`, `_pending`, `_Pending.frame` with its event |
| `pc[c]`, `callOf[c]` | where a thread is in `_transact`, and in which call |
| `reader`, `readerFrame`, `readerTarget` | the reader thread between the lookup under the lock and the delivery after it |
| `stop`, `closing`, `link` | `_stop`, `close()` at its join, the transport |
| `Alloc`, `Register`, `Write`/`WriteFails`, `Return`/`Timeout`, `Pop` | the lines of `_transact` between which another thread can run |
| `ReaderTake`, `ReaderDeliver`, `ReaderEvent`, `ReaderFails`, `ReaderExits` | `_handle_frame` and `_reader_loop` |

The device answers a request at most once and in any order, and its answers
can be OK, another status, or too short. `of` and `evts` in a frame are history
for the properties. `SeqMod` stands for 256. `Calls` numbers the calls in the
order of `_next_seq`. A start waits for the end of a close: `close()` joins the
reader for 2 s while a read lasts 0.05 s, and `CloseCompletes` says that the
join gets its reader. Listeners are taken to return.

### ImageClient
The device sends photos as HEAD, BODYs and TAIL, may leave out any of them, and
may lose the link in the middle of a sub-frame. A sub-frame is two halves, so
that a read can end between them: the first says what it is, as the first bytes
do in the code; the second is skipped byte by byte if it comes first (`Resync`).
`OnHead`, `OnBody`, `TailFits`, `MarkBroken` are the methods of the reassembler;
`SaveLook` .. `SaveWrite` are the lines of `_save_image`, between which other
threads set names. A payload that happens to look like the start of a sub-frame
is not modelled.

### OtaClient
The loop of `upgrade()`, with `Request` for the requests that have one answer,
`SendChunk` for a turn of the loop of `send_data_block`, `Read(n)` for one
`transport.read` that returns n packets, and `Handle` for what is done with the
answer. The device is as free as the host's code allows for: it may refuse,
repeat, ignore, resume in the middle, ask for blocks again, and ask for a block
past the end. It is taken not to acknowledge or verify units it does not have.
Time is counted in polls; the pause between packets is left out.

### GlassesSession
`stack` holds the operations in progress, the innermost last, because listeners
called by the poll of one may begin another. An operation has a place (`at`):
it polls before its checks, sends its request, waits, drains the queues, settles
or loops. `pump` chooses between the two ways of driving the clients: with it,
polls also happen in `await` and `upgrade`, and a poll may raise (`PollBreaks`):
because it meets the control channel lost (`LinkRaises`), or because the image
or the audio channel, which the same poll drains, ends by an error or an image
cannot be written, while the control channel stays up (`ChannelRaises`).
`Interrupted` is what becomes of the operation: a request fails by something
other than a timeout (`Fail("other", ...)`), though the device may execute it.
Without a pump those errors end a reader and reach nobody (`LinkNoticed`,
`PhotoDropped`). Requests are steps of `CtrlRpc`, the specification that
`CtrlClient` implements. The device executes in order, may refuse any request,
AUDIO_STOP included, takes one photo at a time, and a photo ends as a saved
image, an error event, or nothing at all. `broken` is history: the requests that
such an error has left. Here an audio file is a flag and a
video does not exist: `AudioStream` and `Capture` go further down.
`RecordStart`, `RecordStop` and their ends appear in both `GlassesSession` and
`AudioStream`: the first has the listeners, the second the packages, the reader
and the file. `photo` and `record` are their parts in sequence.

### AudioStream
Recordings from the command to the file. The device sends packages of
`Sections` frames on the audio channel, each `SnStep` numbers after the last:
`Sections` if `sn` numbers frames, as `audio_client.py:11-13` says, 1 if it
numbers packages, as `docs/PROTOCOL.md:272` says. `wire` is what the host has not
read; the reader thread (`threaded`) takes any number of packages
off it at once (`held`) and handles them one after the other, while calls and
the device go on; whoever polls the session is in no other call meanwhile, so
that `Poll` takes one. `Handle` is `_handle_package` with `_check_sn`. A new
stream goes on with the numbers of the last or begins at 0. A command stays in `cmds` until
the device executes or refuses it, also when its caller has timed out.
`PumpBreaks` is a poll after the answer, or in the wait, that raises (with a
pump only); `StartBreaks` and `StopTimesOut` are failures before it. `due` is history:
the packages that reached the channel while the file was open. `Settled` is
the `wait(0.1)` after the stop, which is taken to be long enough to read what is
on the channel; the join of the reader is taken to succeed.

### StreamParsers
`FrameParser`, `RecordStreamParser` and `OTAPacketParser` are one loop with
different tests, and so they are one recursive function over positions,
`Loop(kind, bytes)`, with `Starts`, `Plausible`, `Sound` and `Resume` by kind;
`Scan` is its value at 0. The device appends to the stream: `SendFrame` a whole
frame, `SendGarbage` anything that may come between frames. `Feed` is `feed()`
with the next bytes of the stream, `Trim` the limit on the buffer. The largest
byte, the limits, the checksum, payloads and garbage are constants: only the
fields the loop looks at are kept, so a header is two or three bytes. In
`MC_StreamParsers` bytes are 0..5, the CRC is a sum, and a stream is up to three
parts, each a whole frame, a damaged one, or the beginning or end of one;
payloads contain the start bytes.

### MacChannel, ByteChannel
`MacChannel` is the host side of `mac_bt.py`, the worker process and the two
pipes. `host` is the call in progress, `after` what follows a `close()` made in
the middle of another call. A worker at any place may hang for ever (no fairness)
or die. The pipe to the host holds `PipeMax` messages; a worker that finds it
full waits. `ByteChannel` is what a reader is promised: the bytes sent
since the channel was opened, in order, none twice; `ImplementsChannel` is the
refinement, with `got <- out`, what `read()` has returned.

### MediaImport
The caller in an operation (`main`), the executor's worker and the keep-alive
(`http`), a thread that calls `cancel()`, and a `close()` that may come from a
listener in the middle of an operation (`closing`). `_http` is cut where
another thread can run between two lines: `Acquire`, `Connect`, `Publish`,
`CheckAgain`, `Send`, reading, `Close`. The device has one item with a
revision, which changes and goes away at will; `got` holds the revision each
piece of the temporary file came from; another program may take the name.
`Join` makes one step of the capabilities, `wifi.connect` and `start_media`,
which may leave the device serving though the host gave up.

### PagedQuery
`CatalogClient.list` and `WifiClient.scan` are the same loop: a page, its
entries, a cursor that must advance. The device answers with pages of any
length up to the largest and with any offset for the page after it, also the
same or an earlier one, and its list changes between any two requests. `stable`
and `shifted` are history for the property; `shifted` becomes true when an entry
before the cursor is removed or the device's offset steps over entries.

### Capture
`CaptureClient` over a session that a listener may close and connect again at
every poll inside a call (`at = "poll"` and `"pause"`). `call.owner` is the
local `owner` of `wait` and `set_video_config`; `video` is `_video_operation`.
The device's rules (one capture at a time, operations known only to the
connection that began them, captures ended with their connection) are those
the code and `docs/PROTOCOL.md` section 3 rely on. `profile` is what the device
keeps of the video settings: the profile saved, the one asked for, and whether
it says that it is applied. `known` is history: the captures whose acceptance a
call has read at the return of `GlassesClient.request`, before the `poll(0)` of
`_request`; an error of that poll takes the capture out again, since the call
raises and nobody learns its number. Listeners are taken to begin
no capture of their own: a listener that calls `video_start` inside another
`video_start` would have `_video_operation` overwritten.

## 3. The runs

| run | configuration | what it shows |
|---|---|---|
| `ctrl_shared` | 2 threads, 2 calls, SeqMod 2, 1 event, 2 starts | the table is exact, the reader lives while `is_open`, events precede answers, `CtrlClient` implements `CtrlRpc` |
| `ctrl_wrap` | 1 thread, 3 calls, SeqMod 2 | after a wrap an answer is crossed only with one a cycle away and of the same type; calls and `close` end |
| `ota` | image of 6 units, blocks of 2, packets of 1, 3 attempts, 2 polls, 2 extra blocks | no block is passed early, success is success, the upgrade ends |
| `image` | 3 photos of 2, 1, 1 BODYs, 2 groups, 3 halves in the air, 2 starts, 2 names | files are whole photos, no name is reused, whole photos arrive |
| `session` | 3 requests, 2 top-level photos, nesting 2, 2 of: connects, errors of the image or the audio channel, other events | upgrades exclude the rest; photos are attributed and no stream is left, but in the cases named; no operation is stuck |
| `session_retake` | 2 requests, 1 photo | *violation*: a dropped image leaves the session pending |
| `media` | main file and companion, 2 pieces, 2 attempts, 2 revisions, 2 connections, 1 operation, 1 fault | nothing goes out after `cancel()`, files appear whole, the device is released, threads and operations end |
| `paged` | 3 entries, pages of 2, offsets up to 4, 2 changes, 2 turns | what stayed is listed unless the list shifted; the listing ends |
| `mac` | pipe of 2 messages, 1 retry, 3 bytes, 2 writes, 2 openings | ordered bytes, all of them before the end, own acknowledgements, one process, calls end |
| `parsers` | all streams of up to 3 parts, every split into reads | reads do not matter; a whole frame is lost only to another |
| `audio` | 2 recordings, 4 packages of 3 frames, SnMod 16, SnStep 3, 2 faults | losses are exact, the tail is kept, file and flag agree |
| `capture` | 2 captures, 2 connections, 2 profiles (symmetric), 1 change by others, 1 fault | `close()` leaves no video running that the session knows; a setting confirmed is the one made |

**Bounds.** The constants named `Max...` cap what the environment does.
Two callers and two calls reach every interleaving of a lookup with a
removal; with SeqMod 2 three calls come round. Two groups make the first and
the third photo collide, and the second is what must be lost for a splice. Six
units give blocks with two packets and a last short one, three attempts a middle
one whose answer meets a later one. In the session three requests allow a start
that times out, its clean-up, and one more; a nesting of two is a listener
inside an operation, and the listeners of one event call the session at most
once. `MaxOutside` bounds connections, errors of a channel and events other than
the failure of a photo together: 2 are a connection with an error or an event,
or a second connection. What an error leaves behind ends with its connection, and
listeners run for photos and their failures in any case; the theorems have any
number of each. In `media` one operation after `__enter__` is enough for every race with
the threads, because operations leave nothing but `known` and the files behind;
`Attempts = 2` is a first and a last attempt, and one fault at a time meets every
place of every thread. In `paged` three entries are a full page and another,
and an offset of 4 is past the end. In `parsers`
three parts are a frame between two pieces of garbage, or garbage between two
frames. In `audio` the sn of 12 frames passes the wrap of 16 from every starting
point, and the assumption `MaxPackages * SnStep < SnMod` keeps a gap from
being a whole cycle, which no host could tell. In `capture` two captures are one
of a connection and one of the next; the two profiles may be exchanged, since no
definition tells one from the other.

`TypeOK` of the modules other than `CtrlClient` holds in these instances too; the
configurations list only what says something about the code.

**Deadlock** is not checked: the program may stop calling, and every bound ends
in a state without a step. That waits end is stated by the liveness properties
and, for the nested operations of the session, by `NeverStuck`.

**Fairness.** `CtrlClient`: each thread inside `_transact`, the reader and a
close at its join are run, and a timeout that is due fires, since `Event.wait`
has a deadline. `ImageClient`: the reader is run. `OtaClient`: the host sends,
and a wait ends with an answer or its deadline. `MediaImport`: the threads of the
host run and control requests end by their timeouts; nothing is asked of the
HTTP server, whose answers have no fairness. `PagedQuery`: a request is answered
or times out. `MacChannel`: the host runs and its timeouts pass; the worker need
not do anything. Nothing is assumed of the link, of the callers, or of an
answering device. A write is taken to return: `CallsEnd` of `CtrlClient` is about
the wait, and a serial port opened without a write timeout may block before it.

## 4. Findings and limits

One run shows a disagreement between the code and what is said of it:
`session_retake` - an image dropped by the reassembler leaves `_photo_pending`
set for the rest of the connection (`session.py:367`), while
`docs/PROTOCOL.md:249` says that the photo is taken again.

A second disagreement has no run of its own. `_check_sn` takes `sn` for a number
of frames (`audio_client.py:11-13`, `:397`), while `docs/PROTOCOL.md:272`, the
document that `audio_client.py:4` calls the ground truth, says that it numbers
packages. Of a device that does so the code counts losses with every package of
more than one frame: with `SnStep = 1` in `MC_AudioStream.cfg` TLC finds
`LossCounted` violated. Which of the two the firmware does cannot be told from
the repository; run `audio`, `LossCounted` and `LossIsCounted` are about the
numbering the code takes it to have.

Limits of the code met while modelling. The properties are stated so that they
hold beside them, and say so by name:

* A sequence number may be handed out again while a request of another thread
  waits under it (`client.py:220`); it needs 256 calls within one timeout.
  `OwnsItsEntry` and the refinement are stated while the numbers do not wrap.
* The range test of `ota_client.py:416` is empty when the serial number wraps
  inside a block: a timeout and an attempt are lost.
* `_next_photo_path` is read three times without a lock
  (`image_client.py:110-112`): a name set while a photo is being saved goes to
  that photo or is cleared. `NoOverwrite` says what holds all the same.
* `ImageClient.close()` resets the reassembler and not the stream parser
  (`image_client.py:67`): half a sub-frame swallows the first HEAD after a
  restart. The session makes a new client for each connection. `WholeArrives`
  speaks of the first start.
* `_on_head` counts again a photo that `_mark_broken` has counted
  (`protocol.py:852`).
* On macOS the poll inside `TAKE_PHOTO` drains the image and the audio channel
  too. An `OSError` of one of them, with the control channel up, takes the branch
  of `trigger_photo` that clears the pending flag and the name
  (`session.py:378-381`), but the device takes the photo: it is *astray*, and
  comes without a name or under that of the next trigger. From then on, until the
  next connection, `PhotoAttribution` says nothing.
* The same error in `AUDIO_START` is not a timeout, so that no stop is sent
  (`session.py:412-421`): the device goes on streaming although no recording is
  in progress. Likewise `record_stop`, `close` and the clean-up of `record_start`
  clear `_recording` when the device refuses AUDIO_STOP (`session.py:432`).
* A listener that, inside `record_start`, stops the recording and starts another
  one has its flag cleared when the outer call fails. `NoOrphanStream` names
  these three cases: a stream without a recording is always one of them.
* A listener that calls `close()` in the `poll(0)` of VIDEO_START
  (`session.py:208`), after the acceptance was read and before
  `_video_operation` is set (`capture.py:193-194`), sends no VIDEO_STOP: the
  video is left to the device, which ends it with the connection
  (`docs/PROTOCOL.md`, section 3). `README.md:44` of the repository asks
  listeners to do no more than queue. `ClosedQuiet` excepts this case and no
  other poll (`BeingBegun`). When the poll raises, the number of the capture is
  lost to the caller as well.
* A listener that closes the import inside `__enter__` (`media.py:193-202`)
  closes it before it is connected; the rest of `__enter__` may then start the
  media server, and `close()` does nothing the second time. `LanReleased`
  excepts it, and a DISCONNECT that was not confirmed.
* Packages that arrive after the end of a recording stay on the channel on macOS
  until somebody polls (`audio_client.py:380-381`): if nobody does, the next
  recording begins with them. `LossCounted` speaks of files of one stream.
* `AudioStreamClient.stop` joins its reader for 2 s (`audio_client.py:353`); a
  reader stuck longer would write to a sink that is closed.
* A write that fails on macOS closes the channel and clears the bytes not read
  (`mac_bt.py:275`, `mac_bt.py:303`): what was received before is lost.
* `CatalogClient.list` misses an entry when one before the cursor is removed
  between two pages (`catalog.py:100`): the cursor is an offset. It is the
  device's own: an offset beyond the page is not noticed, one that does not
  advance ends the listing with an error.

## 5. What is proved

TLC checks the small instances of section 3; the theorems hold for every value
of the constants that satisfies the assumption of the module. None of the
properties is inductive as it stands: each follows from an invariant that says
where its data have been, and TLC has checked that invariant too. Two devices
come back. Where an order matters, the invariant says how any two members of a
sequence are related, so that a step has to be looked at for the first and the
last only; where a count matters, it says that there is a function that counts
along the sequence (`Accounts`, `Underway`), and a step shifts that function.
Both take the place of an induction over the sequence. Where a recursive
function is itself the subject, as the loop of the parsers is, the induction is
over the set of positions at which the claim fails: it has no last member.

`CtrlClient_proofs`: any set of callers, commands and statuses, from
`CtrlAssumption` alone except where said.

* `TypeCorrect`: `Spec => []TypeOK`, by the inductive `TypeInv`, which adds to
  `TypeOK` that a caller that is not idle is in a call.
* `Invariance`: `Spec => []IInv`. `IInv` joins `TypeInv` with: *numbering* (the
  number to be given next lies ahead of each of the last SeqMod calls by as much
  as they are calls ago, and calls of equal number are SeqMod or more apart);
  *honest frames* (every frame in the air, in the reader or in a table object
  carries the number and the type of the call it answers); *lookups* (what the
  reader looked up had the number of its frame); *once per call* (no two callers
  are in one call); *open calls* (an entry of the table belongs to a caller
  between `Register` and `Pop`). A returned frame is right because the lookup
  was, that because the entry was, that because the numbers were handed out in
  order.
* `CrossedAfterWrap`, `TypesMatch`, `NoEntryLeft`, `ReaderWhileOpen`: the
  invariants of the runs, from `IInv` (the last by an invariant of its own).
* `EntryOwned` and `Refinement` assume `MaxCalls <= SeqMod`, that is, no wrap:
  without it a number may be handed out again while a request waits under it
  (section 4). `Refinement` is `Spec => Rpc!Spec`, with one step of the proof per
  action.
* `EventsComeFirst`: `Spec => []EventsBeforeAnswer`. `EventsInv` counts the
  events along `inbound`: an answer on its way was written after no more events
  than will have been given to the listeners when the reader comes to it.

`OtaClient_proofs`: any image, block and packet, from `OtaAssumption` and
`SerialsSuffice`, which asks that the packets of the attempts at two blocks fit
in the cycle of serial numbers. With 65535 numbers and three attempts that is a
block of 10922 packets.

* `UpgradeIsComplete` (`DoneIsComplete`) and `BlocksPassedAreStored`
  (`PassedIsStored`), from `OtaInv` (`UpgradeInvariant`) and the types
  (`UpgradeTypes`). `Flight`: beside packets of a block at most one request or
  answer is on its way, and the host waits for it. `Window`: what is on its way
  is in the order in which its numbers were taken and none of it is older than
  the attempts at two blocks, so that a number tells an attempt. `Sending` or
  `Sent`: either the device waits for the block that is sent, and whatever it
  says ok to was sent in an earlier attempt; or it has the block, and says ok to
  this attempt only together with the block it wants next. That is why
  `send_data_block` may take an answer whose number lies in `first..last` as
  the end of the block, and must not take one outside.

`ImageClient_proofs`: any photos, number of group ids, names and starts.

* `NamesAreNotReused` (`NoOverwrite`), from `NameInv`: names are numbered in
  their order, and one used for a file is neither set nor in the hands of the
  reader, at each of the four places of `_save_image`.
* `StreamIsFramed`: buffer and air together are whole sub-frames (`InStep`), or
  all but the half in front that was left by a lost link (`OutOfStep`), in which
  case no photo is being collected.
* `PhotosAreWhole` (`SplicedOnlyAfterWrap`), from `PhotoInv`, which needs the
  framing: what is collected are the data of 1, 2, 3, ... of photos with the
  group id of the HEAD.

`LongCalls_proofs`: any finite set of entries and length of pages; any number
of captures, connections, failures and profiles.

* `NothingIsMissed` (`MissedOnlyIfShifted`), from `KeptInv`: unless the list has
  shifted, an entry that was there all the time is listed, or in the page at
  hand, or behind the cursor. `NotTwice` says that no media item is listed twice,
  which no run checks.
* `ClosingIsQuiet` (`ClosedQuiet`), an action property of `Capture`, from `Inv`:
  at most the last capture is active; the request waited for is the last one on
  its way, so an answer to a new capture is about the last capture
  (`Newest`), also when requests given up earlier are executed before it; and
  a video of this connection that is known and still runs is the one in
  `_video_operation`, unless it is still in the poll of its start
  (`CaptureInv`). So the stop that `close()` sends is the one needed, and when it
  is answered none runs.
* `ConfigurationIsOwn` (`ConfigIsOwn`), from the same invariant: once the first
  request of `set_video_config` is answered, the profile it compares with is the
  last one this host has sent, and none is on its way (`Settled`). That the
  profile is also the one saved is the check of `_video_config`.

`GlassesSession_proofs`: any bounds and any depth of listeners that call back.

* `UpgradeAlone`: `Spec => []SessionInv`, where `SessionInv` joins that the
  stack is a sequence of operations, that an upgrade in progress is the innermost
  operation and at its place in the upgrade loop (`UpgradeOnTop`), and
  `OtaExclusive`. The second is what makes the third inductive: with something
  above the upgrade on the stack, a recording could be finished or a photo be
  triggered by it; nothing gets there because every public operation that
  sends passes `_require_connected`, which refuses while `_in_ota` is set.
* `OtaExcludes`: `OtaExclusive` of run `session`, from it.
* `PhotosAreOwn` (`PhotoAttribution`), from `PhotoInOnePlace`: as long as a photo
  may come, there is one in at most one place - a `trigger_photo` that has not
  sent, a request not executed, a refusal not read, the camera, the queue of
  images, or an error event in the queue (`Stages`) - only while the flag is set,
  and it is the last one triggered. All this holds unless a photo is astray
  (section 4), and a request that an error has left counts as a place no more;
  that one executed later makes the photo astray is why both are needed. With a pump and a link that is lost only the
  queue is left, and a `trigger_photo` finds it empty because it polled before its
  check (`Emptied`).
* `NoStreamIsLeft` (`NoOrphanStream`), from `StartsAreCovered`: while the link is
  up, a start that the device may have obeyed and that no stop follows in the
  order of requests means that the session records (`Covered`); an operation that
  is about to clear the flag finds no such start, or its own only (`RecordOf`);
  and what the device streams is due to a start after which it has obeyed no stop
  (`StreamStarted`). Starts sent from within another start or stop, and starts
  that an error of a channel has left, are left out, as in the property; a start
  followed by stops that were all refused is the third case it names.
* `SessionTypes`: `TypeOK`. The photos triggered exceed their bound by no more
  than the depth of the nesting (`BoundInv`), since each level may have passed
  the test of the bound.

`AudioStream_proofs`, from `AudioAssumption`, which says that the gaps are
smaller than the cycle of `sn`, for either numbering except where said.

* `FileFollowsFlag` (`FileWithRecording`), from `RecordingInv`
  (`RecordingHasFile`), which says for every place of `record_start` and
  `record_stop` whether flag and file are set; in particular no failure leads
  out of them past `SetStop` and `Finish`.
* `LossIsCounted` (`LossCounted`), from `PackagesAreKept`: the packages written,
  held and unread were sent in that order, and the numbers of two of one
  stream differ, in the cycle, by as many packages as lie between them
  (`OrderInv`). If `SnStep = Sections`, which the theorem assumes, the gap that `_check_sn` computes is the number of packages
  missing (`GapCounted`), and adding it keeps packages and losses equal to what
  was sent (`CountInv`).
* `TailIsKept` (`TailKept`), an action property, from the same theorem: what is
  due is written, held or on the channel (`TailInv`); once a stop is confirmed
  the device sends no more (`StopInv`), and the wait, the end of the reader and
  the join empty the other two places.

`MediaImport_proofs`: any number of operations, attempts, connections and
faults.

* `NothingSentAfterCancel`: `Spec => QuietAfterCancel`. The inductive `QuietInv`
  (`SocketFound`) says that one thread at a time is between `Acquire` and
  `Close`, that from the second check on the published socket is its own, and
  that a thread which passed that check before a `cancel()` returned has had its
  socket shut down. The second part is why the check must come after the
  publication: a thread that has not published is checked again, and one that
  has is found.
* `CloseReleasesDevice`: `Spec => []LanReleased`. `ReleaseInv` (`OwnerReleases`)
  adds that connections are numbered, so that a new one is never the owner; that
  only an import that was entered has operations or a `close()`; and that a
  `close()` in the middle of `__enter__` is excused, since only `Join` makes the
  device serve.
* `FilesAppearWhole`: `Spec => AppearsWhole`, from `WholeInv` (`OneRevision`). A
  download is with the executor only while its caller waits for it, and is the
  last job submitted, so that the pieces found after the wait are those of this
  attempt; each piece is of a revision between the one selected and the device's,
  and the second look at the catalog finds the device still at the selected one.

`Streams_proofs`, of `MacChannel`: any size of the pipe, attempts, bytes, writes
and openings.

* `OneProcess` (`OneWorker`): the host is about to start a process only when none
  is left (`WorkerReaped`), because every way there leads through `Reap`; that
  the commands in the pipe are commands is needed so that a worker taking one
  does not begin anew.
* `ReadsInOrder`: `Spec => ImplementsChannel`, the refinement of `ByteChannel`,
  from `FlowInv` (`BytesInOrder`): the bytes sent and not returned follow one
  another through the buffer of the host, the pipe, the worker and the air.
* `EndComesLast` (`AllBeforeEnd`), from `EndInv`: `closed` or an error is the last
  message of a worker, which has no bytes by then.
* `AcksAreOwn` (`AckIsOwn`), from `AckInv`: while no write is in progress none is
  in the pipes or with the worker, since a write that is given up closes the
  channel.

`Streams_proofs`, of `StreamParsers`: any bytes, limits, checksum, payloads,
garbage and reads, from `ParsersAssumption`. That the recursive function is one
at all is `LoopExists`, from the order of positions.

* `OneFeed` (`ReadsDontMatter`). A decision of the loop looks at the bytes of the
  candidate only (`Local`), so the loop on a stream is the loop on its beginning,
  followed by the loop from where that one ended (`LoopOfLonger`, `LoopOfRest`).
  What is left when it ends is shorter than the longest frame, so the limit on
  the buffer is never met (`NeverCut`).
* `Resynchronised` (`MissedOnlyToAnother`), from `ParserInv`: frames sent whole lie
  apart, each as `encode_frame` made it, and such bytes pass every test of the
  loop (`Encoded`). A loop passes the start of one only by taking a frame across
  it (`WholeMet`): one byte at a time it stops there, and the skip of two after
  a false sync pair cannot jump over it, since the second byte of the pair is
  not the first of another.

**Only model-checked**: `NeverStuck` of `GlassesSession`, which says that a step
is enabled, and all liveness properties, since the prover reaches neither
`ENABLED` nor fairness.

## 6. Not modelled

* `parse_event`, the parsers of answers, `parse_catalog`, `_media_file`,
  `OTAFirmwareImage.parse`, decoding of audio: functions of one input without
  state, whose errors a unit test reaches.
* Requests of the session without an effect on it (`info`, `set_led`,
  `play_tone`, ...): a `_request` and nothing else.
* `WifiClient.connect`, `start_media` and `status` as requests of their own: a
  loop that polls until a final state or a deadline, one step in `MediaImport`.
* The client of the control channel driven by a pump: its calls are steps of
  `CtrlRpc` in `GlassesSession`, its parser is `StreamParsers`.
* Rebuilding the ACL link between two attempts to open a channel on macOS, and
  the callbacks of IOBluetooth inside the worker, which are a turn of its run
  loop in `MacChannel`.
* A reconnection without `close()`: two image clients alive at once, or an audio
  client replaced while it records (`session.py:128-151`).
* `transport.py`, `bt_socket.py`, `bt_discovery.py`, `opus_loader.py`, the
  packaging, the command line and the examples: thin wrappers, reads of the
  system, or no state.
* Time other than as a deadline that may pass, and the contents of requests,
  images and media.

## 7. What could come next

A session connected again without `close()`, with the clients of the old
connection still running; and the liveness properties for every value of the
constants, which needs a prover that reaches fairness.

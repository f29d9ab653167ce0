# TLA+ models of wt-rs

wt-rs is a WebTransport library over HTTP/3 and quinn (`wt-rs/`), with its own
HTTP/3 codecs (`wt-proto/`). This directory holds TLA+ modules translated from
that code, TLC configurations that check them on small instances, and TLAPS
proofs of the properties that matter most. `PROJECT.json` maps every definition
to the lines it stands for. Source paths below are relative to `src/`.

## 1. The system

| Component | State | Operations | Interacts with | What makes it correct |
|---|---|---|---|---|
| **Accept side** `wt-rs/src/conn.rs` (`WTAccept`, `Connection::accept_uni/accept_bi`) | per direction: quinn's accept stream, a `FuturesUnordered` of header-decoding futures; placeholders for three H3 streams; all behind one `Mutex` shared by the clones of a connection | `poll_accept_*`: drain, select, keep or drop; cancellation | application tasks (wakers), quinn (incoming streams, bytes, resets, close) | no lost wakeup; a stream of the session is handed over at most once and refused only for cause; it never waits for an unrelated one |
| **Session handshake** `conn.rs` (`upgrade`, `open`), `settings.rs`, `connect.rs`, `wt-proto/src/h3/{settings,connect,streams}.rs` | the position in the handshake, the peer's settings | control streams and SETTINGS both ways at once, CONNECT request, 200 response | the peer, quinn close | both ends return; a client's session exists at its server; only justified sessions; failure only for cause |
| **Connection facade** `conn.rs`, **stream wrappers** `wt-rs/src/streams.rs` | quinn connection, optional session; where each open call is, what it has written | `accept_*`, `open_*`, a `WriteStream` finished, reset or dropped, datagrams | accept side of the peer, quinn | what `open` returned comes out of the peer's `accept`, and nothing else does |
| **VarInt codec** `wt-proto/src/coding.rs` | none, or a partly read integer | `write_varint`, two `read_varint` | every codec, `ReadStream` | what is read is what was written, in whatever pieces it arrives |
| **SETTINGS codec** `wt-proto/src/h3/settings.rs` | map of settings | `encode`, `decode`, `supports_webtransport`, `enable_webtransport` | VarInt, handshake | settings decode to what was sent; a cut payload is an error |
| **HTTP/3 frames** `wt-proto/src/h3/frame.rs` | what of a frame has been read | `encode`, `accept`, grease | VarInt, handshake | the frames written are the frames read, grease changes nothing |
| **Stream types** `wt-proto/src/h3/streams.rs` | none | `UniStream::open/accept`, `BiStream::open` | handshake, `open_*` | |
| **QPACK** `wt-proto/src/h3/qpack.rs` | the header map so far | encode/decode headers | Huffman, handshake | round trip; a bad block is an error |
| **Huffman** `wt-proto/src/h3/huffman.rs` | position in the bits, table | decode a string | QPACK | a string that lacks bytes never yields a symbol that was not sent |
| **Endpoint** `wt-rs/src/endpoint.rs` | quinn's queue of connections, the one that `accept` has taken | `accept` (upgrades before it returns), `connect` | handshake, the application's accept loop | no connection is forgotten; each is answered unless a silent client blocks the loop |
| **Errors**, **examples** | | error conversions; programs with accept loops | | |

Hard behaviours, each listed at its line under `hazards` in `PROJECT.json`:

* events that arrive between the two halves of a poll, whose wakers must all
  be registered when it returns Pending; several tasks, one waker slot;
* calls dropped at any await (`select!`, timeouts), and what they leave behind:
  a taken connection, a stream with half a header, a waker in a slot;
* one `accept` that serves connections one after the other, whose clients are
  slow, silent, rude or gone;
* the connection lost between any two steps, on either side;
* streams finished, reset or stopped by either end at any time, so that what was
  written is gone or a write fails on a live connection;
* bytes in arbitrary pieces, streams that end inside a header, headers that
  complete in another order than their streams;
* two ends that each wait for the other's settings;
* boundaries of the integer encodings, values cut to 32 bits, payloads whose
  length is announced by someone else, bit strings that end inside a code.

## 2. Modules

### WTAccept - the accept side

`loc`, `hdr` and `fate` say, per stream, who holds it (quinn's queue
`incoming`, the futures queue `drained`, the application `delivered`, a
placeholder `stored`, nobody `dropped`/`failed`), how many header varints have
arrived and whether the peer ended it. `ready` is the ready-to-run queue of the
two `FuturesUnordered`. `task`, `want` and `woken` are the tasks in
`accept_uni` / `accept_bi`; `acceptWaker` and `queueWaker` are the waker slots.

| Action | Code |
|---|---|
| `Call`, `Cancel` | `accept_uni` / `accept_bi` is awaited, which polls it at once; its future is dropped while it is pending |
| `StartPoll` | the closure of `poll_fn` has the Mutex: the first poll of a call (`"calling"`) or one after a wakeup (`"waiting"`) |
| `DrainStream`, `DrainDone`, `DrainError` | one round of `drain_uni` / `drain_bi`: quinn yields a stream, nothing, the connection error |
| `SelectPending`, `SelectError`, `SelectNone` | `select_uni` / `select_bi`: a future pends again, fails, there is none |
| `ReturnStream`, `KeepPlaceholder`, `DropUnknown` | the arms of the `match` in `poll_accept_*` |
| `PeerOpen`, `PeerHeader`, `PeerEnd`, `Close` | quinn: external events |

A poll is split at every call into quinn or the queue, so that external events
fall between its steps. While the Mutex is held (`Locked`) no other task starts
a poll; this holds across both directions.

External semantics assumed, from how the code uses the libraries: quinn's
accept yields the streams already received, also after a close, and then the
error; its pending future keeps one waker, that of the last poll.
`FuturesUnordered` keeps the waker of the last `poll_next`, registers it on
every call, gives it up when it wakes, polls ready futures in any order, and may
yield after a round by waking its own task. Data received before a close stays
readable, a reset discards it.

**StreamInbox** is the specification a user of `accept_uni` / `accept_bi` would
write: an inbox that each call takes at most one stream from. `WTAccept`
implements it under the mapping `Inbox` (`InboxPlace` for the streams; `broken`
are the streams whose header can never be read; a call is `asking` from `Call`
until it returns).

### Session - the handshake

Two ends `client` and `server`. `utype`, `uni` and `bi` are the wire: the type of
the first uni stream of each end, the frames behind it and the frames on the
request stream. `foreign` are the ends that are another HTTP/3 implementation,
the same throughout a behaviour. `phase` is the await at which `open` / `upgrade` stands; `acc`
and `opn` are the two futures that `try_join!` runs in
`wt-rs/src/settings.rs:22`. One action per await (`OpenControl`,
`SendSettings`, `AcceptControl`, `ReadSettings`, `CheckSupport`, `SendRequest`,
`ReadResponse`, `ReadRequest`, `SendOk`); `OpenAs` is `UniStream::open`,
`SendHeaders` the write of HEADERS on the request stream. `Abandon` is a dropped
future.

| Action | What happens to streams and connection |
|---|---|
| `Finish`, `Reset` | a stream ends: behind what was written, or instead of what has not been read. The end is an item `"end"` in `uni` or `bi`, or the stream type `"end"` |
| `Stop` | STOP_SENDING: the peer's next write on the stream fails (`WriteFails`) |
| `DropStream` | a wt-rs end that has failed drops its streams one by one: quinn finishes what it writes and stops what it reads |
| `Lose` | the connection gets its final error: after `Quit` the end drops its handles, which closes it, and the peer learns of it (`Closing`); or it is lost |
| `Disconnected` | an await that meets the loss. It ends in `"lost"`: only `"failed"` and `"panicked"` are judgements of the peer |
| `ForeignStep` | another implementation opens its control stream, or a stream of another type, writes frames (`ForeignFrames`, `ForeignHeaders`), finishes, resets and stops streams in any order, or stops doing anything |

Of a foreign end only the wire is modelled, so it never loses the connection
itself. It writes nothing behind a frame that counts but the end of the stream,
and nothing on a stream that is not read any more. `OpenAs` and `SendRequest`
open a stream and write on it in one step; a stop that arrives between the two
is one that came before.

### StreamOpen - a stream from end to end

EXTENDS WTAccept and adds the other end. `call` is where `open_uni` / `open_bi`
of a stream stands: `WriteType` and `WriteId` are its two writes, `DropCall` is a
call dropped at either await (its `SendStream` goes with it, which finishes the
stream), `EndStream` a `WriteStream` that the application drops or finishes, or
resets through the public field `inner` (`streams.rs:8`), before or after it
finished it. `sent` and `ended` are what has been written, and how it ended; `Arrive` carries it over, in order, as steps
of the peer of WTAccept. `LoseCalls` is the loss of the connection, which both
ends notice in one step here; until then the accepting side may have read less
than was sent, as after a loss of packets. The streams outside `Called` belong to another implementation and
do anything that WTAccept lets a peer do. `EndArrives` is the FIN, which comes behind
all that was written, or the reset, which discards what was not read. A reset of a stream
whose header is unread makes accept fail or never see the stream, so `OnlyOpened` and
`OpenedDelivered` exempt streams that their own application has reset: what they promise
is that no other stream suffers.

### Endpoint - accept and connect

`queue` are the connections quinn has for `accept`, `stage` what the server has
done with each, `client` where each `connect` is and `sent` how far its messages have
got. `app` is the loop that calls `accept`: it goes on after an error (`tolerant`)
or ends, as `main` of the echo server does. `kind` says what a client is like: the
ALPN of its handshake, and whether it asks for a session, for something else, or
for nothing.

| Action | Code |
|---|---|
| `Call`, `Cancel` | `accept` is awaited; its future is dropped, and the connection it has taken with it |
| `Take` | `inner.accept()` yields the oldest connection (`endpoint.rs:40`) |
| `HandshakeDone`, `HandshakeFails` | the QUIC handshake, the ALPN check and its `unwrap` |
| `Answer`, `UpgradeDone`, `UpgradeFails` | `Connection::upgrade`: the response is written, `accept` returns; or it fails |
| `Connect`, `Connected`, `Ask`, `Opened`, `Rejected`, `GiveUp` | `Endpoint<Client>::connect`, its errors, and its future dropped |

An upgrade is `Answer` and `UpgradeDone`: its other awaits are those of Session, and
here only matters which connection it keeps busy. The response is on its way from
`Answer` on, so a client may be `Opened` before `accept` has returned. `Cancel`
does not come between the two, since the future waits for nothing behind the
last write of the response (`connect.rs:19`) and a future is dropped only where it
waits. That a session a client holds is one `accept` returned is thus an assumption
of the model, and not among the properties.

### VarInt, FrameStream, SettingsCodec - the codecs

`VarInt` holds the pure operators, with the width of a byte as a parameter
(`Bits`, 8 in the code). Powers of two and the value of some bytes are recursive
functions (`Pow2`, `upTo` in `Value`), since the prover cannot use recursive operators.
`FrameStream` is `Frame::accept` and the `read_varint` of a `RecvStream` beside a
writer that chooses types, payloads and longer forms of integers and may
finish or reset the stream after any byte, while bytes arrive one by one.
`field` and `buf` are the read that is pending, `Missing` the bytes it waits for;
`ReadFirst`, `ReadType`, `ReadLength`, `ReadPayload` and `ReadEnd` are its
outcomes, a greased frame is skipped behind its payload. `SettingsCodec` is
`Settings::decode` on a buffer that may end anywhere, with the panicking `get_u8`
of an empty buffer.

### Qpack, Huffman - header blocks

`Headers::decode` on a block that any implementation may have written: `sent`
is what the lines of the block say, `tail` how it ends (not at all, cut inside a
line, with a line that must be refused, with a Huffman coded value that lacks
bytes, with an index beyond a `usize`), `data` the bytes left, `fields` the map so
far. One action per form of line (`ReadIndex`, `ReadNameRef`, `ReadLiteral`,
`RefuseLine`), after `ReadHead`. `WordBits` stands for the 64 bits of a `usize`; the
static table is a parameter. `Find` and `FindName` return the first entry
that fits, as the two generated `match`es do for the 99 entries of
`PREDEFINED_HEADERS`. The order in which `encode` sorts the fields is left open: the
writer puts them in any.

`Huffman` is the bit reader and the walk through tables of `huffman.rs` over any
tree of tables (`Tree`, `Root`), with its rule for the end of the input, beside
the encoder of another implementation derived from the same tree. `Depth` says how many
bits lead to each table: it makes the tables a tree, as the constants of
`bits_decode!` are, each of which names only tables behind it. The rule is
lenient: a string may end wherever a table's window no longer fits and the
bits left are ones, and a code that is cut by the last byte is dropped without an error.
HTTP/2's rule (RFC 7541, 5.2), which would refuse padding of eight bits and more, is not
quoted in the code; what the code does keep, that nothing comes out that was
not sent, is `ShortIsPrefix`.

`MC*.tla` define the constants of the instances.

## 3. Runs

| Run | Question | Bounds |
|---|---|---|
| AcceptInbox | Does the accept side implement `StreamInbox`? Does a call that other streams keep busy sleep through an event? | one task for both directions, a push stream that shares a queue with a stream of the session, a stream of an unknown type |
| AcceptLoop | Does every stream that an open call returned come out of the peer's accept loop, and nothing else, although a QPACK stream may block for ever and calls are dropped between their writes? Does every call that has something to return, an error included, return? Is a stream refused without cause? | a looping task per direction, which share the Mutex; an `open_uni` behind a foreign QPACK stream |
| Sessions | Do two wt-rs ends agree, return, and establish if nothing goes wrong? Does an end accept and refuse exactly what it should from another implementation? | connection loss and dropped futures anywhere; no end foreign, or either; two frames per foreign stream (`MaxFrames`), every frame type; each stream finished, reset or stopped at any point |
| Frames | Are the frames read the frames written, whatever the pieces they arrive in, the forms of their integers and the end of the stream? | two frames (`MaxFrames`), types on both sides of the bounds and greased ones, every cut |
| SettingsDecode | Does decoding return what was sent, and only that? | two settings (`MaxSettings`) and a cut third one |
| HeadersDecode | Does decoding a header block return the fields that were sent, whichever forms the writer chose, and nothing for a block that is cut or needs a dynamic table? What of a coded value that lacks bytes? | two fields (`MaxLines`) in every form, or one and then a cut, refused or short line |
| Accepting | Is every waiting connection answered, and does every `connect` return, whatever the others do? Is a connection ever forgotten? | three clients in any order: a proper one, one that may share no ALPN, one of any kind; an application that stops at errors or not |

The five violated runs are in section 4.

Why these bounds are enough to be interesting. *Streams and tasks:* a wakeup is
lost between one task and one event; a second direction brings in the shared
Mutex; a second stream of a direction is what competes for a placeholder or
overtakes a blocked one. The safety properties are proved for any number
(section 5), among them what happens when one push stream replaces another in
its placeholder, for which the runs have no second push stream. *Clients:* one that
keeps accept busy, one that waits behind it and one behind that, whose turn comes
only if both are dealt with.
*MaxFrames = 2* in Session: one frame to be skipped or refused and one after it; an end
stops reading after the first frame that counts. In FrameStream: a frame and
what the next one starts with; one payload reads as the beginning of a frame, so
a frame skipped too early shows. *MaxSettings = 2:* a repeated identifier. *Bits = 3:*
the smallest byte width at which an encoded length has tag and value bits in
its first byte and all four lengths differ by more than the tag; eight bytes
hold 22 bits then, within TLC's integers. The tag arithmetic is the same for
every width. *MaxLines = 2:* a repeated name, and a line that
could run into the next; the end of a block counts as a line. *The tree* has
codes of three to eight bits in tables of one, two, three and eight bits, with
eight ones as the end of a string, so that a code can straddle a byte and be
cut in several of its tables. *WordBits = 15:* one more than a multiple of seven, as
64 is, so that the last continuation byte fits only in part. *The table* has 70
entries and one name eight bytes, so that every prefix (6, 4, 3 bits) is
also exceeded. *U32 = 2* in Session makes the announced value 2 one that the cast
to `u32` turns into 0.

`CHECK_DEADLOCK FALSE` is set where the system stops: a handshake or a decode
that has returned, a writer and a reader that are done, an endpoint whose
application has left its accept loop. The runs of `WTAccept` have no end,
applications call and cancel for ever.

### Fairness

* `WTAccept!Fairness`: strong fairness of `StartPoll`, weak fairness of
  `PollStep`. The runtime polls woken tasks; a poll does not block once it has
  the Mutex, which is held only inside polls, so a waiting thread finds it free
  again and again. Nothing is assumed of the peer. `LoopingSpec` adds that
  the application calls accept again after each result; this is an assumption on
  the application. (The examples loop, but end at the first error.)
* `StreamOpen!OpenFairSpec`: the same of the accepting side, and weak fairness of
  `Arrive`: QUIC retransmits what was written until it arrives. Nothing is assumed
  of the application that opens, nor of the other streams.
* `Session!Fairness`: a wt-rs end goes on when it can, and the close of its peer
  reaches it (or quinn's idle timeout does). An end that quit drops its handles,
  which closes the connection; that its streams are seen to end before is not assumed. Foreign ends have no fairness, so
  `Settled` promises them nothing before the connection is lost: no await of the
  handshake has a timeout of its own.
* `FrameStream!FairSpec`: bytes written arrive, the reader is polled.
* `Endpoint!Fairness`: packets arrive, handshakes complete or time out
  (`ClientStep`, `AcceptStep`), the application calls accept again after a
  result. It may drop its calls for ever, each time before the connection has
  been upgraded; strong fairness of `Take` says that a call that is awaited is
  polled at once and so takes a connection that waits. A silent client need not
  ever do anything.

## 4. Disagreements between code and intent

Each is a run TLC finds violated; the quoted lines are in `PROJECT.json`.

* **AcceptShared** (`conn.rs:228`). Connections are `Clone`, clones share one
  `WTAccept`, and quinn and `FuturesUnordered` each remember one waker. Two
  clones that accept in one direction: the one that polled first is not woken
  again. This is why the theorems assume `OneAcceptor`.
* **AcceptDropsH3** (`conn.rs:202`). The session id is read and compared before
  the stream type is looked at. QPACK and push streams carry no session id, so
  they reach their placeholder only if the next varint happens to equal it;
  otherwise accept fails and the stream is dropped.
* **AcceptClosed** (`conn.rs:214`). After the close `drain_*` returns the error
  before `select_*` runs, so complete streams in the queue are unreachable.
* **SettingsShort** (`coding.rs:109`). A SETTINGS payload that ends after an
  identifier panics in `get_u8`; `CodingError::UnexpectedEnd` is meant for it.
* **HeadersExcess** (`qpack.rs:273`). An index or a length beyond a `usize` loses
  bits in the shift of its last byte, or overflows in the sum: it is taken for a
  small one, or panics in a debug build. `BoundsExceeded` is meant for it.

## 5. Proofs

All for arbitrary constants under the named assumptions of the modules.

* **WTAcceptProofs**
  * `TypeCorrect`: `Spec => []TypeOK`.
  * `NoLostWakeupCorrect`: `Spec => []NoLostWakeup` if no two tasks accept in
    the same direction (`OneAcceptor`, which AcceptShared shows to be needed).
    `NoLostWakeup` speaks of sleeping calls only and is not inductive. The
    invariant `WakeInv` adds `RolesKept` (a call waits for a direction its task
    has), `QueueSound` (a future that is not ready to run still waits for
    its header, so an event that matters finds it pending) and `Registered`
    (from the end of the drain on, an unwoken task holds the accept waker and
    there is nothing to accept; from the end of the select on it holds the queue
    waker too). A peer step either leaves `Registered` alone or wakes the
    task whose clause it breaks; a poll step of one task touches only the slots
    of its direction, which by `OneAcceptor` no other call uses.
  * `OursNeverLostCorrect`: `Spec => []OursNeverLost`, from typing and the
    fact that an unreadable header stays unreadable.
  * `Implementation`: `Spec => ImplementsInbox`. The initial state maps to the
    inbox's; every step maps to one of its steps or to a stutter. It needs
    `ReadyDrained`: only drained streams are selected, so every selected stream is
    still in the inbox.
  * `Refinement`: `OpenSpec => Spec` of WTAccept. A peer that opens streams with
    wt-rs is one of the peers WTAccept allows, so every theorem above holds of
    both ends together (`OpenNoLostWakeup` restates one).
  * `OpenTypeCorrect`, and `OnlyOpenedCorrect`: `OpenSpec => []OnlyOpened`. The
    invariant `OpenInv` adds `Matched`: exactly the calls that returned have
    written both integers, no more of the header has arrived than was written,
    a FIN arrives after all of it, and a refused stream has a dropped call, was
    reset by its application, or has a closed connection.
* **SessionProofs** `AgreementCorrect`: `Spec => []Agreement` if both ends are
  wt-rs. `AgreeInv` adds that the server's half of the request stream holds no frame,
  but perhaps its end, until the server holds the session. For any peer: `SessionTypeCorrect`; `JustifiedCorrect`:
  `Spec => []Justified`; `FailsForCauseCorrect`: `Spec => []FailsForCause`. Both
  properties look back from the end of the handshake at what the end has read of its
  peer, and the second one at the streams it has had stopped. The invariant `Judged` carries the judgement along: at each
  await, the frames read so far were greased (`Greased`) or the last one is the
  first that counts (`Counts`), with the settings decoded from it; later awaits keep
  what earlier ones have found (`Announced`, `Agreed`). A step of the peer appends to
  its streams or, when it resets one, cuts off what has not been read (`Later`, `WireStep`), so
  what was read stays as it was (`Keeps`, `FoundStays`). `ValidFair` and `SupportsFair` compare the code's checks with
  what the properties ask.
* **EndpointProofs**: `TypeCorrect`, `NoneForgottenCorrect`, from `EndpointInv`, which adds that a client that has
  not connected is unknown to the server and that no connection waits twice in
  the queue (`QueueSound`); `Take` would otherwise leave one behind.

* **VarIntProofs** `ReadsBack`: an integer below `Bound(n)` that is written in `n`
  bytes, the fewest or not, is read back from them, and its first byte announces
  `n`, for every width of a byte of at least two bits. `Units` and `Bounds` say how the
  powers of two hang together, `Leads` that byte `i` of an encoding is one digit of the
  value to the base of a byte, `ValueSteps` that `Value` puts the digits together
  again. The rest of the module is about rows of bytes: what `Stands` where
  (`StandsReads`: a reader there gets it), rows put together from parts (`Laid`,
  `FlattenLaid`), what `Remains` of one.
* **FrameStreamProofs**: `FrameStreamTypeOK`, `FrameStreamOnlyWritten`,
  `FrameStreamNothingMissed`, for any set of types and payloads, any number of frames
  and any width of a byte. The bytes in the pipe alone do not say what is being read. `IInv` says
  that they are a piece of a row `w` of bytes, from byte `q` to byte `l`, which
  consists of the encodings of frames `fs` that end at `at[i]`: those written, and,
  after the stream was finished, the one it stopped in, with its missing end
  (`Sent`, `Unread`). The reader has read `r` frames and stands at `at[r]` or behind
  the first byte, the type or the length of the next one, whose fields its
  variables hold (`Reader`); `out` is what the first `r` frames mean. A read then takes
  a part of one integer or payload that `Stands` there (`TakesNext`, `TypeRead`,
  `LengthRead`), and it cannot complete in the frame whose end is missing.
  `ReadEndIInv` is the other half: a read of a frame that was written has all its
  bytes.
* **SettingsCodecProofs**: `SettingsTypeOK` and `SettingsDecodesSent`, for any
  identifiers, values, number of settings and end of the payload. `IInv` is of the
  same form: the payload is the beginning of a row of whole settings, the last of which is
  the one it ends in (`Whole`), the bytes left start at one of its integers
  (`Reader`), and the map holds the last value of each setting read (`Kept`).
  `EndsWithin` says which settings are complete.
* **HuffmanProofs** `EncodedDecodes`: for every tree of tables, the payload that an
  encoder makes of a string decodes to that string and to no other; if it lacks bytes at
  its end, to an error or to a prefix. A payload `Packs` the bits of a row `h`, a
  window is the number that its bits make (`WindowIs`), so where the code of a symbol
  stands in `h` the walk comes to that symbol, and it ends without one where the
  payload ends inside the code (`CodeWalk`, by induction over the tree,
  `TreeInduction`). `FillerWalk` is the end of the last byte, `SpelledWalk` the
  induction over the symbols, from the last to the first. `Decoded` and `Codes` are
  recursive functions over places in a payload and over tables; they have their equations
  (`DecodedFollows`, `CodesBelow`) because the bits left, and the bits still to come,
  get fewer with each step (`MeasuredRecursion` in VarIntProofs). The assumptions
  hold of the tables in `huffman.rs`: no window is wider than five bits but that of
  the empty table `EOF`, which stands behind 30 bits (`HuffmanAssumption`), and
  seven ones lead to the table `END5_11` and to no symbol (`FillerAssumption`).
* **QpackProofs**: `QpackTypeOK`, `QpackDecodesSent`, `QpackShortIsPrefix`, for any width of
  a `usize` of nine bits or more, any static table and fields of single-byte characters
  (`TableAssumption`: their number and lengths fit in a `usize`), any number of lines
  and any tree as above. A prefix integer that fits in a `usize` is read as
  it was written, with whatever stands behind it, and is never read when it lacks
  bytes (`PrefixWhole`, `PrefixCut`). From this follows the same of a string in either form
  (`Reads`), of the part of a line that tells the name (`Heading`), and of a line
  (`LineReads`): its first byte tells its form (`FirstBytes`), and what it comes to
  (`Outcomes`) is the field and what stood behind it, in each of the forms a
  writer may choose (`LineIs`). The inductive invariant `IInv` says that the bytes
  left are `rem[r]`, where `rem` is a `Chain`: each `rem[i - 1]` is a line of field `i` and
  then `rem[i]`, and the last one is empty, is an end that is refused (`Refuses`) or a line
  whose value is short (`ShortEnd`). The map is `Kept`: it holds the last value of
  each name among the first `r` fields. `ReadHeadTakes` and `ReadLineTakes` turn the
  actions into outcomes.
  `QpackDecodesSent` assumes `~Excess`; with an index beyond a `usize` the property
  is false, as HeadersExcess shows. `IInv` promises nothing of such a block but its
  types, which is why the other two theorems need no such assumption.
  `RefusedAssumption` says that the two coded values that `Refused` uses are
  codes of no string, which depends on the tree. It holds in `huffman.rs`, where
  the zeros left at the end of either are no filling.

The invariants of FrameStreamProofs, SettingsCodecProofs and QpackProofs speak of
bytes that are not in the state (`\E w, fs, at, ...`, `\E rem, N, ...`), which TLC
cannot enumerate: the runs check the properties, the prover checks that the
invariant is inductive. Induction over
bytes and frames is induction over a set of naturals (`NatSetInduction`) in `VarIntProofs`,
which gets it from the least element of a set; `Recursion` gives the recursive functions
their equations. `Insert` of SettingsCodec and of Qpack is written out as a function,
because the prover does not know `@@`, and the sum and the powers in `Qpack` are
recursive functions.

Only model-checked: every liveness property (`OpenedDelivered`, `CallAnswered`,
`Settled`, `BothEstablish`, `AllRead`, `Served`, `ConnectReturns`), since liveness
under fairness and ENABLED are beyond this prover. Every safety property of a
passing run is stated by a theorem.

## 6. Not modelled, and the plan

Not planned: TLS, certificates and endpoint configuration, datagrams and
connections without a session (single calls into quinn), flow control and stream
credit (quinn's), the memory that `Frame::accept` allocates for an announced
length, logging, the wording and variants of errors, `Debug` formatting,
`Settings::new` (called by nobody), the 256-entry Huffman tree and the static
QPACK table as data, what the example programs do with their streams. A panic
while the accept Mutex is held would poison it; the code under it has no
panicking call.

What could follow:

1. **Established**: Session followed by WTAccept, for streams that another
   implementation opens before the handshake is over.
2. An endpoint that is closed while `accept` is pending.

# Verification of u2

u2 is a C++ library that drives card readers ("subway" readers and "terminal"
devices) over a serial port, a USB bridge, a TCP or a local socket, or against a
virtual card stored in a file.  These TLA+ modules model the parts of it whose
correctness depends on the order in which things happen, check them with TLC and
prove the most important facts with TLAPS.

## 1. The system

### Components, their state and their operations

| component (source) | state | operations |
|---|---|---|
| `Reader`, `Protocol` (`protocol.h`, `protocol.cpp`) | the provider; an answer promise per command | `send_command`: construct a protocol object on the stack, `send`, `get_answer` (blocks), copy the data, destroy |
| `SubwayProtocol` (`subway_protocol.*`) | write buffer, unbytestaffing filter, connection to the provider's signal | `send`, `write_callback`, `feed`, `timeout`, `set_answer` |
| `TerminalProtocol` (`terminal_protocol.*`) | the same, and the address, code and timeout of the request | the same, with filtering of foreign packets |
| asio-mt, unix (`asio_mt_impl.cpp`, `unix_impl.cpp`) | io_service, port, timer, one read buffer, signal `data_received`, an io thread | `listen`, `send`, `set_timeout`, `cancel_timeout`, four handlers |
| asio (`asio_impl.cpp`) | the same without a thread | `send` runs the handlers until there is no work left |
| tcp (`tcp_impl.cpp`) | the same over a socket, and a `Connector` | reads all the time; resolve and connect with a timeout |
| blockwise, cp210x (`blockwise_impl.cpp`, `cp210x_impl.cpp`) | own timeout object; a completion port thread, or a receive loop in `listen` | the same interface |
| file (`file_impl.cpp`) | a stored card, the sector authenticated to | a table of command handlers, answered inside `send` |
| card storage (`card_storage.*`) | 16 sectors of 3 blocks, keys, encryption flags, serial number | `load`, `save`; `Reader::save` reads a card into a file |
| card API (`card.cpp`, `api_subway_*.h`) | none | `scan`, `request_std`, `anticollision`, `select`, `authenticate`, block and sector operations |
| reader API (`reader.cpp`, `crc16.*`) | the two bytes of the CRC, shared by all callers | open, close, sync, the frames of a package, CRC |
| wrappers (`stoppark.cpp`, `transport.cpp`, `contract.cpp`) | none | field packing and one command each |

### How they interact

`Reader::send_command` constructs a protocol, whose constructor connects `feed`
to the provider's signal.  `send` hands the packet and a bound
`write_callback` to the provider; the provider's handler calls it back, starts
reading, and calls `feed` for every chunk that arrives and `timeout` when time
is up.  Whichever comes first calls `set_answer`: disconnect, cancel the timer,
fulfil the promise.  The client, blocked in `get_answer`, wakes up *inside* that
call, and from there on runs concurrently with the rest of the handler.  The
protocol object dies with `send_command`, but the handlers bound to it do not.

### What is hard

- two threads sharing a port, a timer and a signal with no lock, where the
  promise is set in the middle of a handler;
- handlers already queued when their operation is cancelled, bound to an object
  that may be gone;
- replies without a sequence number: late ones answer a later command;
- `serial.cancel()` after a timeout, which aborts everybody's operations;
- liveness: nothing but a timer started by a write handler wakes the client up;
- timeouts that are looked at only when something else completes, completions that
  are dropped, signals shared by all commands;
- calls of many commands, over cards that are moved and replies that are another
  command's;
- lengths that wrap, framing state kept between reads, frame arithmetic at
  multiples of the frame size.

`PROJECT.json` lists each of these at its line under `hazards`.

## 2. Modules

| module | what it is |
|---|---|
| `CommandService` | the abstract promise of `send_command`, whatever the provider |
| `Exchange` | state and steps common to the asio providers: client, `SubwayProtocol`, boost.asio, line, device |
| `AsioMT` | `Exchange` with an io thread: `AsioMTImpl`, and `UnixImpl`, whose control is the same |
| `AsioRun` | `Exchange` run by the client's own thread inside `send`: `AsioImpl` |
| `ExchangeProofs` | lemmas about the steps of `Exchange`, whoever runs them: types, the service, the order of the replies |
| `AsioMTProofs`, `AsioRunProofs` | theorems about `AsioMT` and `AsioRun` |
| `TcpTerminal` | `Exchange` under `TerminalProtocol` and `TcpImpl`: address and code filter, commands without a timeout, a socket that is always read |
| `TcpTerminalProofs` | theorems about `TcpTerminal` |
| `OwnTimer` | `Exchange` with `class Timeout` in the place of a timer: what the two providers without boost.asio share |
| `Blockwise`, `Cp210x` | `BlockwiseImpl` and its completion port thread; `CP210XImpl` and its receive loop |
| `OwnTimerReader` | a `Reader` over either of them |
| `OwnTimerReaderProofs` | theorems about `OwnTimerReader` |
| `TcpConnector` | the constructor of `TcpImpl`: resolve, each endpoint, the connect timer |
| `CardReader` | `send_command` as one step, with a card reader, cards that come and go, and replies that come late |
| `ReaderApi` | the calls of several commands over `CardReader`: scan, reset, save, packages; and those of one |
| `ReaderLife` | a `Reader` from `reader_open` to `reader_close`: `TcpConnector` and `ReaderApi` composed, the provider chosen by its tag |
| `ReaderLifeProofs` | theorems about `ReaderLife` |
| `Crc16` | `crc16.cpp` and the polynomial it stands for |
| `Framing` | both protocols byte by byte: stuffing, filters, checksums |
| `MCFraming` | `Framing` with the checksum of `Crc16` |
| `FramingProofs` | theorems about `Framing`, for any packet, any cut and any CRC |
| `VirtualCard` | `FileImpl` and `CardStorage`: access to the sectors, the image, deaths and restarts |
| `VirtualCardProofs` | theorems about `VirtualCard` |

`AsioMT`, `AsioRun`, `TcpTerminal` and `OwnTimerReader` each compose `Exchange` with
a provider.  `Exchange` instantiates `CommandService`, with what the caller has sent
and been given, as the specification that all four implement.
The calls of the library are modelled above that: `CardReader` takes from the
providers that a command ends with an error or with the first reply that came while
it waited, which may be an earlier command's.

### Exchange: state and steps against the code

`cmd`, `pc`, `returned` are the client in `send_command`; commands are numbered
in the order they are issued.  `slots` is the signal `data_received`; `filter`
and `answer` are the unbytestaffer and the promise of each protocol object.
`reads`, `writes` and `timer` are asio operations not completed; `ready` is
asio's queue of completed ones, whose handlers run in that order, one at a
time.  `read_buf` is the provider's buffer: a handler only knows how many bytes
it was given, so that a later read may have overwritten them.  `io` is
`"cancel"` between the end of `callback()` in `wait_callback` and
`serial.cancel()`: the client runs on in between.  `device` and `rx` are the
reader at the other end and the bytes not yet read.  `stale`, `expired` and
`faulted` are history.

Every handler of the source is an action with its name (`write_callback`,
`read_callback`, `wait_callback`); `Construct`, `SendThen`/`SendFails`,
`GetAnswer` and `Destroy` are the client's steps.  `set_answer` is one step
(`SetAnswer`): nobody can tell its three statements apart before the promise is
set, which is the last of them.

*A destroyed protocol.*  `Storage(c)` says what a callback bound to `c` works
on.  If `c` is alive, `c`.  If not, its stack slot holds dead bytes, or the
protocol of the command that came after it at the same place, and each is
explored; a crash simply ends the behaviour.  The provider pointer in the dead
bytes is taken to be intact (all commands of one `Reader` have the same one).

*boost.asio (external).*  Completed operations are queued in order.  A cancelled
wait or read completes with an error, but one that has already completed is not
recalled.  `async_read` first tries the port itself when no other read is
waiting and only otherwise waits for the reactor.  The reactor is polled between
handlers; a poll finds reads before it finds timers and there is no other poll
until the expired timer's handler has run (`Polled`).  Writes may complete at
any time, as they may be completed by the call that starts them.

*Data.*  A reply is a head fragment and a body fragment; the body says what
`feed` will make of it (data, data of the wrong length, NACK, bad checksum).
The fragments of two replies glued together fail the checksum.

### TcpTerminal

The client's and asio's steps are those of `Exchange`.  `request` is the address
and code a protocol compares packets with; it is `Unassigned` from the
construction, which connects the listener, until `send` (`Assign`), and `early`
records the commands answered in that gap, when the members are uninitialised
and may compare equal to anything.  `timeout` is FALSE for the protocols made with
timeout 0 (`CustomTerminalProtocol<0>` in `stoppark.cpp`), which are answered in
`write_callback` although their reply may come.  Unlike `AsioMTImpl`, `TcpImpl`
reads from the connection on, restarts the read whatever `feed` says and cancels
nothing after a timeout.  `TerminalUnbytestaff` stops at the first `FEND`.

### OwnTimer, Blockwise, Cp210x, OwnTimerReader

`timer` is the protocol the `Timeout` object is bound to, `None` when it is not
active; `due` says that `time_left()` is 0, which nobody notices before `check` is
called.  `unheard` is history: commands with a failure that no callback reports.

*Blockwise.*  `ready` is the completion port; a turn of `iocp_thread` looks at the
time first (`TurnTimesOut`, which drops the packet it has dequeued), then at the
packet (`TurnFailed`, `TurnRead`, `TurnWritten`, `TurnStops`).  `sent` is the signal
`data_sent`: one for all writes, so that a completion calls whoever waits.
`CancelIo` reaches only what its own thread has begun, and is a step of its own
after `check`, since the client runs on from inside it.  A refused `WriteFile` calls
`data_sent` in the client's thread.

*Cp210x.*  `reads` counts the receives asked for; `recv_handler` is the lambda of
`listen`, called with what has arrived or with nothing when a receive ends.  The
next receive is started only from there, and the result of `recv_async` is not
looked at.  Nothing is ever cancelled.

The completion port and the USB library are external: a read completes with the
next fragment, a write completes well or badly, in any order with each other; a
receive ends at the latest with its own time limit, which is how the code, whose
timeout is looked at nowhere else, uses it.

### TcpConnector

`pc` is the constructor, which calls `async_resolve`, arms the timer and waits
for `connect_promise`; `resolving`, `attempt` and `timer` are the operations
under way, `ready` the queue of their handlers, `peer` what the socket is
connected to.  A connect may complete at once or later, accepted or refused; on a
connected socket it fails.  The module has no specification of its own:
`ReaderLife` runs it.  Where the constructor throws, `io_svc` is destroyed under the
thread that runs it: the reader has failed to open, or the process has crashed.

### CardReader and ReaderApi

`send_command(q, r)` is a command from beginning to end: the reader executes it or
not (`Serve`), its reply is appended to `late`, and the result is an error, or the
first of the replies in `late`, the command's own if none was late.  A reply is what
the length of its data and the card it is from make of it: `Received` is the
comparison of lengths in `Reader::send_command`, with the copy into the answer that
happens before it.  `field` is the card held to the reader, `opened` the sector that
was authenticated, `got` and `taken` the frames of a package it has.  `missed` and
`zero` are history: a reply has outlived its command; a NACK had the code 0.  How
the device behaves is external, inferred from the library's use of it.

A call of several commands is a sequence of actions, one a command, `at` being the
next; cards are moved in between.  `type` and `sn` are the caller's `Card`: what type
and whose number, `"mixed"` when the bytes are of nobody, or were on the stack
before.  `access` is the table of `Reader::save`, `entry` and `key` where its loop
is; the by-block loop ends before its first block, `save_sector` says so.  `todo`,
`shift` and `len` are the locals of `reader_send_package`.

### ReaderLife

`tag` is the provider's name, `reader` what has become of the `Reader`.  `"line"`
stands for every provider over which a card reader is reached, and its calls are
those of `ReaderApi`; over tcp a call is one command to a terminal, which fails at
once on a socket that was closed; over a file only `load` and `save` are here, the
commands being `VirtualCard`'s; with an unknown tag there is no provider, `load` and
`save` say `NO_IMPL`, and a command constructs its protocol on a null pointer.

### Framing and Crc16

`SubwayStep` and `TerminalStep` are the loops of the two unbytestaffers, one byte
each; `Feed` folds them over a chunk, `subway_feed` and `terminal_feed` are the
protocols' `feed`.  `bytestaff` is the device's and the library's alike.  `Init`
chooses a packet and what is left of an earlier one; `Deliver` hands over any
non-empty prefix of what is still to come.

The subway checksums are parameters of `Framing`, so that it can be proved about:
`DeviceCrc`, with which the device makes its packets, and `LibraryCrc`, with which the
library checks them.  `MCFraming` gives them the polynomial (`Ccitt`) and the two
tables of the code (`CRC16_Calc`), whose length has 8 bits: `LengthMod` is the
number of values it can take, 256 in the code.  `WrappedIsRefused`, an assumption TLC
evaluates, is that the two agree except for a packet whose length wraps (252 data
bytes and more), which never fits.  The terminal's sum is computed in `Framing`.

### VirtualCard

`sectors` is `storage.sectors` with data, encryption flags, key, mode and status.
A command is one step, as `FileImpl::send` answers before it returns; `shown` is the
set of sectors whose data is in the answer.  `file` is the image: `save` replaces
it, `DieInSave` leaves the first sectors of the new one, `load` overlays the card
in use, `Start` is the constructor in the next process.  `granted` and `mixed` are
history.  A cut is at the border of a sector.

### Assumptions on the client

One thread uses a `Reader` at a time, as the API documents no other use.

## 3. What is checked

| run | instance | shows |
|---|---|---|
| `asio_mt_3` | 3 commands, data replies, read and write faults | the safety properties of the two threads |
| `asio_mt_2` | 2 commands, every reply and fault, fairness | types, `CommandService` is implemented, every command returns |
| `asio_mt_late_timer` | 2 commands | **violation**: the timeout callback runs for a command that has its packet |
| `asio_run_3` | 3 commands, data and NACK, both faults, reads of one fragment | a run ends answered, with nothing left over; `CommandService` is implemented |
| `asio_run_hangs` | fairness | **violation**: `send` may block for good after a timeout |
| `tcp_terminal_3` | 3 commands, two requests, data replies | what the address and code filter lets through |
| `tcp_terminal_2` | 2 commands with and without timeout, good and bad replies, faults, fairness | `CommandService` is implemented, `NO_ANSWER` is a timeout, every command returns |
| `tcp_terminal_lost` | 2 commands | **violation**: a whole reply in hand ends in `NO_ANSWER` |
| `own_timer` | both providers, 3 commands, failing reads and writes, fairness | what outlives a command, which commands return, `CommandService` is implemented |
| `reader_life` | 3 endpoints, 2 cards, 2 calls, errors, late replies, NACKs 0, fairness | connecting; scan, reset, save and packages over a bad line; every call returns |
| `framing` | packets of up to 3 data bytes, all special bytes, real checksums whose length wraps, all cuts | the filters find the packet, all of it and nothing else |
| `virtual_card` | 2 sectors, 2 keys, 2 encryptions, any sequence of commands, deaths and restarts | access to sectors |

The properties, in words:

- `WaitingClientHasWaker`: a blocked client always has a write, a timer, or the
  queued completion of one of them, that will set its promise.
- `OneListener`: only the current command's protocol is ever fed.
- `MisattributionNeedsTimeout`: a command is given another command's reply only
  if a command up to that other one was answered with `NO_ANSWER`.
- `ReadsAccounted`: reads in flight are at most one for the current command and
  one per command that timed out.
- `IoErrorNeedsTimeout` (asio-mt) and `IoErrorIsAFault` (asio): `IO_ERROR` comes
  from the port's refusal of that very write, or, with two threads, from the
  `serial.cancel()` of an earlier command's timer; without a second thread never
  from that.
- `ImplementsCommandService`: the caller sees the abstract service; in
  particular the value returned is the first answer given, and a reply is always
  one to a command that was really sent, this one or an earlier one.
- `EveryCommandReturns`: a command that waits returns, as long as no handler has
  used a destroyed protocol (see below).
- `RunReturnsAnswered`, `NothingOutlivesCommand`: with the asio provider
  `io_svc.run` never returns without an answer, and leaves nothing pending.

- `MisattributionNeedsSameRequest`: a terminal's command is given another
  command's reply only if that one came earlier, was not given it, and had the
  same address and code -- or if the packet came before `send` had set them.
- `ReplyUsedOnce`: at most one read is in flight and no reply answers two commands.
- `NoAnswerIsTimeout`: `NO_ANSWER` is the command's own timeout (or its timeout
  0), or that of an earlier one whose handler came late.
- `OnlyTheLastCounts`: as long as the connect timer has not fired, the
  constructor succeeds exactly because the *last* endpoint accepted and no other
  did; an endpoint accepted before the last makes it fail.
- `ClosedOnlyByTimer`: a provider whose constructor succeeded has its socket
  closed under it only by a timer that had expired before it could be cancelled.
- `InterruptedFails`: an attempt the timer interrupts is the last one.
- `StaleNeedsTimeout`: with the providers that look at the clock themselves a dead
  protocol is used only by the completion port thread, and only after a timeout.
- `OwnWriteOnly`, `ReadsNeedTimeout`: but for a timeout, nobody's write completion
  calls another protocol, and there is one read, with its one buffer, at a time.
- `TimeoutOfTheWaiting`: an active timeout is that of the command that waits and
  has no answer, so that `check` never reports one that has its packet -- what
  `AsioMTImpl` does not achieve (below).
- `Cp210xQuiet`: nothing of a cp210x command outlives its answer, although nothing
  is cancelled.
- `ReturnsUnlessUnheard`: a command that waits returns, unless its failure is
  reported to nobody -- a write that completes in error on the port, a receive that
  the USB library refuses: then it may wait for good.
- `PackageWhole`: a package reported as sent has reached the reader whole, in frames
  numbered from 0, all full but the last; *no* frame is marked as the last one when
  the length is a multiple of 128.
- `SpeaksOfTheCard`: a scan or a reset that succeeds has the number of the card that
  is there, although an answer of any length passes for a serial number.
- `SavesWhatIsOpen`: `save` reads a sector while it is the one authenticated.
- `EveryCallReturns`: `reader_open` and every call return, or end the process.
- `FoundWithItsLastByte`, `OnlyWhatWasSent`, `FilterOK`: any cut of a packet into
  chunks gives the same answer, at its last byte, and its checksum decides which (so
  `PACKET_CRC_ERROR` for a packet whose length wraps); nothing that was not sent
  passes for data, behind a piece of a packet of one repeated byte; the filter stays in
  its buffer.
- `OneSectorOpen`, `OpenWasGranted`, `ClosedIsUntouched`: one sector at a time is
  open; it is the one whose key was given last, in this process or in the one
  that saved the image; nothing else is changed or shown.

### What the three violations say

*Late timer.*  A poll of the reactor that finds both the last bytes of a packet
and the expiry of the timer queues both handlers.  `read_callback` recognises
the packet and cancels the timer, to no effect: `wait_callback` runs with
`error == 0`, calls `timeout()` on a protocol that has its answer (or is already
destroyed), and then `serial.cancel()` aborts what the next command has started.
The comments at `subway_protocol.cpp:233` and `asio_mt_impl.cpp:84` rule it out.

*Run that does not return.*  With `AsioImpl`, a read that was completed at once
is queued behind the expired timer; `serial.cancel()` does not reach it; its
handler finds no listener, so it starts another read.  There is no timer any
more: with a silent device `io_svc.run` and `send` never return.

Both of these come from the same fact: cancelling does not recall a completed
operation.

*Reply lost.*  When a late reply to another request and the right reply come in
one read, `TerminalProtocol::feed` looks at the first packet of the chunk only,
rejects it and resets the filter; the rest of the chunk is gone and the command
times out, although `timeout_callback` is documented to mean that not enough
data came.

The passing runs state more facts of this kind that no comment speaks of, as they
are: a host name with several endpoints (`localhost` with an IPv6 and an IPv4
address) can be connected to only through its last one; an expired timer can close a
socket that has been reported as connected; `terminal`'s and `subway`'s NACK with the
code 0 is a success; a package of a multiple of 128 bytes has no last frame; a write
that fails on the completion port, or a receive the USB library refuses, leaves its
command waiting for good.

`Reader::save` of a card can never end well: it returns `NO_IMPL_SUPPORT` after its
last sector, and its loop over blocks (`card_storage.cpp:147`) tests and advances `i`,
the index of the table, so that for the two sectors to be read by blocks it ends
before the first.  The comments at `card_storage.cpp:88` and 143 ("by-block reading
should be used") describe something else.  `ReaderApi` models
the code.

### Bounds

Three commands are needed for an effect to pass through a command in the middle
(a reply to the first given to the third, a left-over read of the first found by
the second when it ends); reads, handlers and fragments are not bounded, they
are finite because commands are.  Every fault can hit every command.  Four
commands without faults were explored too (3.7 million states), with the same
result; that is not a run kept here.  The bounds are `MaxCommands`, `Replies`,
`Faults` and `ReadSize`, the only constants.  `ReadSize` is 4 where the provider
reads up to 512 bytes and 1 where it reads byte by byte (`read_size(1)`).

`TcpTerminal`: two requests, so that commands have equal or different ones;
three commands, so that a reply can pass over one in the middle.  `OwnTimer`: three
commands, for the same reason, and one kind of reply, the others being handled
alike.  `Framing`: data of up to three bytes out of all bytes with a meaning and one
without; the buffer and the 8-bit length are small, 10 bytes for 1024 and 7 values
for 256, so that the packets of three bytes wrap and what an earlier packet leaves
can fill the buffer, as packets of 252 bytes and a long noise do in the code.
`ReaderLife` (`ReaderLife.cfg`): three endpoints, so that there is one before and one
after the one looked at; two cards of different types, so that one can be taken for
another; two calls, so that one can find what another has left (a `Card`, a late
reply, half a package); at most one reply under way when a command begins
(`MaxLate`), which is enough to shift all that follow by one; frames of 2 bytes and
packages of 3 and 4, a last frame that is not full and one that is.  The proofs of
`ReaderLifeProofs` have none of these bounds.
`VirtualCard`: two sectors, so that one can be open and another asked for; requests
also name a sector and a block too many; data, which only has to change, is in the
encryption flags.  The module is proved for every size.

Deadlock is not checked: an application may stop issuing commands, and `Close`
ends the provider.

### Fairness

`IoThread`, or `Run` and `RunReturns`: the scheduler runs every thread.
`GetAnswer`: a client whose promise is set wakes up.  `WriteDone`: a few bytes
written to a port without flow control go out.  `TimerExpires`: time passes.
`ReadSome`, for `AsioRun` only: bytes that have arrived are read.
For `ReaderLife`: the caller's thread and the io thread run, the resolver answers,
and the system gives up a connection attempt in the end; the connect timer need not
fire; a command is one step, that it ends is what the runs of the providers show.
For `OwnTimerReader`: the serving thread runs; a write ends, well or badly; a receive
of the USB library ends, at least by its own limit; time passes.  Nothing is
assumed of the device, nor of the application issuing commands.  Liveness is
stated under `[]~stale`, since a handler that uses a destroyed protocol can cancel
the timer of the live one, and then nothing wakes the client.

## 4. What is proved

Every theorem is about every value of the constants that their assumptions allow.

`ExchangeProofs` holds what the four modules over `Exchange` share:

- `BaseInv`, types and the listener.  `TypeInv` adds to `TypeOK` that a queued read
  handler never counts more bytes than `read_buf` holds, without which the chunk it
  passes on would not be a sequence of fragments.
- `SentInv` and `CallInv`, for the refinement of `CommandService`.  What the device has
  heard, what it sends and what is left in buffers and filters of earlier reads comes
  from commands that were sent; where `send_command` is fits what it has returned.
  With them every step of `Exchange` maps to a step of the service or to a stutter: a
  handler of a destroyed protocol finds dead storage, a promise already set, or the
  promise of the open command.
- `OrderInv`, for the order of replies.  As long as no command has been answered with
  `NO_ANSWER` (`Calm`) everything is `Orderly`: one operation at a time is under way for
  the command that waits, all that is on the line is its reply, and nothing is left of
  it when it has its answer.  And if the commands up to an earlier one, `d`, were
  calm, then `d` is `Gone` whatever happened after it: nothing of its reply is in the
  device, on the line, in a filter that is listened to, or counted by a queued handler.

`AsioMTProofs`, for any number of commands, any set of replies and faults and any read
size:

- `TypeCorrect` and `ListenerIsCurrent`: `Spec => []TypeOK` and `Spec => []OneListener`.
- `ClientHasWaker`: `Spec => []WaitingClientHasWaker`.  The waker is handed over
  from the write to its completion, to the timer, to its completion, to the
  promise; each action either keeps it or hands it on.  The step that needs care
  is a handler of an earlier command cancelling the timer: it only happens to a
  destroyed protocol, which `stale` records.
- `IoErrorIsBlamed`: `Spec => []IoErrorNeedsTimeout`.  The inductive invariant
  `IoErrorInv` tells three times apart.  Before any timer has expired (`Untimed`) one
  thing at most is under way for the waiting command (its write, the handler of its
  write, or its timer with one read), nothing an earlier command left does anything,
  and `serial.cancel()` cannot run.  From the expiry of a command's timer to the next
  command (`JustTimed`) no write is pending, so that the cancellation has none to
  abort.  After that some earlier timer has expired (`TimedBefore`), which stays so.
- `ServiceIsGiven`: `Spec => ImplementsCommandService`.
- `RepliesInTurn`: `Spec => []MisattributionNeedsTimeout`, by `OrderInv`.
- `ReadsAreAccounted`: `Spec => []ReadsAccounted`.  The number of reads in flight is not
  inductive by itself, as reads come from writes and from other reads.  `TurnsInv`
  counts *turns*: reads, writes, and queued handlers that may start a read.  There are
  never more than one for each `NO_ANSWER` given and one for the command that waits,
  if it has been sent; a handler that answers uses its turn up, unless the answer is
  the `NO_ANSWER` that leaves it to those to come.

`AsioRunProofs`, for the same constants:

- `NothingIsLeft`, `RunAnswers` and `IoErrorIsOwn`: `Spec => []NothingOutlivesCommand`,
  `Spec => []RunReturnsAnswered` and `Spec => []IoErrorIsAFault`.  The inductive
  invariant `RunInv` says that a run is at one of four places: idle, the write under way,
  the write completed and its handler next, or the timer set and the reply being read;
  and what there is in each of them.
- `ServiceIsGiven` and `RepliesInTurn`, as above, from the lemmas about `Exchange`.

`TcpTerminalProofs`, for any requests and any set of timeouts, too:

- `TypeCorrect`, `ListenerIsCurrent`, `ClientHasWaker` and `ServiceIsGiven`, as above.
  `TerminalInv` adds the types of what only the terminal has.
- `RepliesUsedOnce`: `Spec => []ReplyUsedOnce`.  `StreamInv`: at most one read is in
  flight or has a handler that brings something (so that `read_buf` is what it counts);
  a reply's head is once on the line or in the filter, and never again when the reply
  has answered a command.
- `RepliesMatch`: `Spec => []MisattributionNeedsSameRequest`.  `MatchInv` says that the
  reply to another command was compared with the same address and code, and that the
  other one came earlier; that it was not given the reply itself is `ReplyUsedOnce`.
- `NoAnswerIsBlamed`: `Spec => []NoAnswerIsTimeout`.  Until an earlier command times out
  (`Punctual`) the replies come in turn (`InTurn`): what there is on the line is the
  waiting command's, and what is queued is due to it.  Then a `NO_ANSWER` can only be
  its own timeout; and afterwards a handler that comes late is allowed for.

`OwnTimerReaderProofs`, for both providers and the same constants as `AsioMTProofs`:

- `ServiceIsGiven`: `Spec => ImplementsCommandService`.  The steps that are not those of
  `Exchange` (a turn of the completion port, `check`, the receive loop) are mapped one by
  one; `ReaderInv` has the types of their state, the key that stops the thread among the
  packets, and where a dead protocol can be called from.
- `DeadOnlyAfterTimeout`, `ListenerOfOwnWrite`, `OneReadUntilTimeout`, `NothingToCancel`
  and `TimeoutHasWaiter`: `StaleNeedsTimeout`, `OwnWriteOnly`, `ReadsNeedTimeout`,
  `Cp210xQuiet` and `TimeoutOfTheWaiting`, all from one inductive invariant,
  `OwnTimerInv`.  For cp210x (`UsbInv`) it says what the one thing under way is, a write
  or the receive loop of the waiting command; for the completion port (`PortInv`) the
  same, but only until a command has timed out (`LateBefore`), after which what that
  command began may still come.  `History` says that nothing is held for commands to
  come.

`VirtualCardProofs`, for any number of sectors and blocks, any keys, encryption
modes and contents:

- `OneOpen`: `Spec => []OneSectorOpen`, and `OpenGranted`: `Spec =>
  []OpenWasGranted`.  The inductive invariant `CardInv` adds that the image, too,
  has at most one open sector (the status is saved with the sectors, so that what
  holds of the card must hold of its image to survive a restart) and that the last
  answer shows nothing but what was granted.
- `ClosedUntouched`: `Spec => ClosedIsUntouched`, an action property, from the same
  invariant and one lemma for each way a step may change a sector.

`ReaderLifeProofs`, for any cards, keys and faults, any frame size and lengths, any
number of late replies, calls and endpoints:

- `PackageIsWhole`: `LifeSpec => []PackageWhole`.  `PackageInv` adds how far the loop of
  `send_package` has come (the bytes taken and those still to be sent make up the
  length, and the frames the device has got are numbered in order) and `LineInv`, that as
  long as no reply has come late (`~missed`) none is under way when a command is sent,
  so that a reply is the one to the frame just written.
- `NumberIsTheCards`: `LifeSpec => []SpeaksOfTheCard`, from the same fact about the
  line, which makes the type and the number one answer.
- `SectorIsOpen`: `LifeSpec => []SavesWhatIsOpen`, by itself inductive with `LineInv`.
- `OnlyTheTimerCloses`: `LifeSpec => []ClosedOnlyByTimer`.  `ConnectInv`: a connection
  stands, or a completion that says so waits in the queue behind it, until a timer
  that has expired closes it.
- `LastEndpointDecides` and `InterruptedIsLast`: `LifeSpec => []OnlyTheLastCounts` and
  `LifeSpec => []InterruptedFails`.  `ChainInv`: there is at most one token, the name
  being resolved, the attempt under way, its queued handler or the promise, and
  the promise's value is what the chain ended with.

`FramingProofs`, of a packet with any data and of any length that fits the buffer:

- `FramingFound`: `Spec => []FoundWithItsLastByte`.  A packet on the line is `Rest(name,
  p, k)`, what stands for its bytes after the first `k`.  `FoundInv` says where the
  receiver is (`At`): *before* the packet, its buffer empty, with the end of an earlier
  one in front in which nothing can start; *inside* it, its buffer the first `k`
  bytes and the line `Rest(name, p, k)`; or *between* the two bytes of an escape.  One byte
  keeps this (`StepAt`), so any chunk does (`FeedAt`, by induction over a set with
  `UpTo`, which stands in for the library's induction theorem).  The buffer is the packet
  exactly when the line is empty (`AtEnd`), and a shorter one is never enough
  (`SubwayVerdict`) nor complete.
- `FramingFilterOK`: `Spec => []FilterOK`, from `Sound`, for any bytes at all.
- `FramingNeedsNoCrc`: `Spec => [](protocol = "terminal" \/ clean => OnlyWhatWasSent)`.
  Behind an end without a start byte this follows from the first theorem.  For the
  terminal, any piece of an earlier packet of one repeated byte (`Longer`) may be in
  front, and the filter may start anywhere in it.  `OnlyInv` says that the receiver is
  `Within` what came: it *waits* where only something harmless can start; it *gathers*
  the end of a packet (the one sent, or an earlier one from a start byte inside it),
  which is the packet sent or will be
  refused; it gathers an earlier packet that is cut off, *glued* to the packet sent; it
  is *done*, with what is harmless; or it is *stuck* with a full buffer.  One byte keeps
  this (`WithinStep`), so any chunk does (`FeedWithin`).  What is left is arithmetic on the
  sums.  The end of a packet from a start byte inside it is shorter than a reply, does
  not have the address and the code where they are looked for, or has lost a nonzero
  part of its sum (`EndRefused`).  Two packets glued together have gained the part of the
  first that came and the second's start; the checksum read is the second's, so they could
  only agree modulo 65536, and `NoWord` shows that the parts of a packet with one byte
  repeated never add up to that (`GlueRefused`).
  For data of other bytes this is false, and the proof shows where: 255 bytes that add up
  to 65007, in a packet that has lost nothing but its last byte, glued to any other reply
  make a packet with the right sum.
- `FramingOnlyWhatWasSent`: `Spec => [](OnlyWhatWasSent \/ Collision)`.  The subway
  protocol behind a piece with a start byte in it tells what it gathers from a packet by
  the CRC alone, and no CRC tells everything apart.  `Collision` is just that: it has
  gathered enough bytes, they are not the packet, and its CRC accepts them.  That the
  real CRC does not for the bytes of the run is left to TLC.
- `FlattenSteps`, `FlattenFirst` and `FlattenLast` are what these need of
  `FlattenSeq`, `FeedSteps` and `FeedAlong` what they need of the loop of `feed`, and
  `TotalSteps` and the lemmas after it what they need of the sum.

The subway's CRC may be any functions, and its two bytes are not assumed to be bytes:
they may be anything but are escaped like bytes.

The proofs rest on the assumptions on the constants, and on nothing else:
`ExchangeAssumption`, `TcpTerminalAssumption`, `VirtualCardAssumption`, and for
`ReaderLife` `ReaderAssumption`, `ApiAssumption` and `ConnectorAssumption`, each of which only
says of what kind a constant is; and `FramingAssumption`, that a packet fits the
buffer of 1024 bytes.  A subway packet always does: 255 bytes of data and 6 around them.
A terminal's reply has no length of its own; the assumption leaves out those of more
than 255 bytes, the length the library's own packets can have.

Model-checked and not proved are the properties that need fairness
(`EveryCommandReturns`, `ReturnsUnlessUnheard`, `EveryCallReturns`), which is out of
the prover's reach; that there is no `Collision` among the bytes of `Framing`'s run; and
what `CRC16_Calc` computes, since it is defined with `Bitwise`.  The properties of the
three violation runs are false.

## 5. Plan

Done, in this order: `CommandService`, `Exchange`, `AsioMT`, `AsioRun` (the
exchange of a command is what every call of the library does), `AsioMTProofs`,
`TcpTerminal`, `Framing`, `VirtualCard`, `VirtualCardProofs`, `TcpConnector`;
then `OwnTimer`, `Blockwise`, `Cp210x`, `CardReader`, `ReaderApi`, `ReaderLife`,
`ReaderLifeProofs`, and the real checksum in `Framing`; then `ExchangeProofs`,
`AsioRunProofs`, `TcpTerminalProofs`, `OwnTimerReaderProofs` and `FramingProofs`.

Left to be modelled: what two threads do to the CRC's registers (any value may come
out, and nothing is promised of it); SubwayProtocol over tcp, which is `TcpTerminal`
without its filter.

### What is not modelled, and why

- Opening devices, port options, `dllmain.cpp`, the version resource, the build:
  pure I/O or no behaviour.
- `contract.cpp`, and the fields of `transport.cpp` and `stoppark.cpp`: packing
  of fields over calls that are modelled, with no state of their own.
- The ISO 14443 checksums of `crc16.cpp`, which nothing in the library calls.
- Bytes outside their arrays: `reader_send_package` copies two bytes past the end of
  a full frame (`reader.cpp:69`).
- What a program does after undefined behaviour, beyond the two outcomes
  `Storage` gives a destroyed protocol, and beyond "crashed" in `ReaderLife`.
- Two threads that use one `Reader` at the same time: the library has no lock and
  promises nothing there.

# elink: a verification project

`elink` is the client a mesh access point runs to talk e-Link to two servers: the
home gateway (TCP port 32768) and a local cloud client (unix socket
`/tmp/ctc_elinkap.sock`). This directory models the program in TLA+, checks the models
with TLC and proves the most important results with TLAPS. Paths below are relative to
`src/`.

## 1. Inventory

| component | code | state | operations |
|---|---|---|---|
| main | `src/main.c` | `g_client`: two zeroed nodes | start the logger, create the remote and the local client thread |
| client node | `src/remote.c`, `src/local.c` (same code), `include/client.h` | `client_node_t`: fd, sequence_num, recv_buf, msg_len, link_state, dhkey | client thread, recv thread, heart thread, no lock |
| authentication | `src/authentication.c` | link_state, dhkey | `_init`, `start_authentication` (three send-and-sleep loops), `restart_authentication` |
| connection | `src/client.c` | fd | `client_init` (retry loop), `client_send_buf` |
| sending | `src/msg.c` | p_shared_key (read), sequence_num | `msg_sent`, `send_secret_request`, `send_dh_info`, `send_dev_reg`, `send_heart_msg` |
| dispatch and handlers | `src/distribution.c`, `src/handler.c` | handler tables | `data_distribution`, `handler_event`, the `recv_*` handlers |
| keys and ciphers | `src/dhkey.c`, `src/des.c`, `src/base64.c` | dhkey_t | DH parameters, the shared key, AES-CBC, base64 |
| framing | `src/common.c`, recv loops | recv_buf, msg_len | `check_msg_header`, header and body reads |
| helper process | `src/common.c` `mk_popen` | pipe, child | fork, exec, read the output |
| process | all of `src/` | table of descriptors, SIGPIPE | shared by both nodes, the pipe and the log file |
| logger core | `easylogger/src/elog.c` | output lock, flags, line buffer | `elog_init`, `elog_start`, `elog_output`, `elog_raw`, `elog_find_lvl`, `elog_find_tag` |
| asynchronous logger | `easylogger/src/elog_async.c` | ring buffer, its lock, a semaphore, the output thread | put, get, output |
| log file | `easylogger/plugins/file` | file, semaphore set | rotate, write, lock |

**How they interact.** Each node has three threads on one `client_node_t`. The client
thread connects, creates the other two and authenticates: `keyngreq`, then `dh`, then
`dev_reg`, each sent again every two seconds until `link_state` has moved on. The recv
thread moves it: it reads a header and a body, decrypts if `p_shared_key` is not NULL, and
the handlers write `link_state` and the shared key. The heart thread looks at `link_state`
every 15 seconds, sends a keepalive when registered and, when the send fails, closes the
socket, reconnects and authenticates itself. Every thread logs through easylogger: debug
lines through the ring buffer and its output thread, and to a file shared through a
System V semaphore.

**What is hard.** Nothing in a node is protected by a lock, so the properties rest on the
order of single reads and writes: what the heart thread frees while a handler runs, what
the client thread sees while the key is computed, what a handler of an old connection does
to the new one. Messages are repeated without numbering the answers. The connection may
break at any point. In the logger, an index arithmetic with four cases is shared between
producers and the output thread, and a start-up flag is set after the thread that asserts
it. The `hazards` of `PROJECT.json` list each at its line.

**What makes each component correct.**

* client node: both ends agree on the key whenever the client believes it is registered;
  nothing that needs the key is sent without it; only a restart lets `link_state` fall
  back; the client gets registered, and again after every connection it lost once it was;
  the keys are the end of the process only where `dhkey_init` failed or a handler outlived
  a restart.
* asynchronous logger: the output thread writes exactly what was accepted, in order, none
  of it twice; a full buffer drops the tail of a line and nothing else.
* log file: one writer at a time; the set of files stays bounded.
* framing: bodies reach `data_distribution` whole and in order, within `recv_buf` if they
  fit it; a reader does not stay in the body of a connection that is gone.
* process: a node's descriptor is its own connection; nothing leaks but what the code is
  known to leak; as far as descriptors and signals go, the process ends only when that has
  used up the table; a node whose server is there gets connected, unless it lost its
  connection before it was registered.
* dispatch: every message reaches the handler its type names, and no other.
* codecs and encryption: decoding inverts encoding, whatever the length.
* logger core: a line is complete or cut cleanly, and can be taken apart again.

## 2. Plan

The order is the order of importance: what the program is for, then what everything in it
depends on.

1. **Node and gateway** (done): `Link`, `ClientNode`, `Gateway`, composed by
   `ElinkSystem`; theorems in `ElinkSystemProofs`, `OrderProofs` and `KeyProofs`.
2. **Asynchronous logger** (done): `AsyncLog`, shown to implement `LogQueue`;
   `AsyncLogProofs`.
3. **Log file** (done): `FileLog`; `FileLogProofs`.
4. **Framing** (done): `Framing`; `FramingProofs`.
5. **Process** (done): `Process`, both nodes' connections and `mk_popen` over one table of
   descriptors; `ProcessProofs`.
6. **Texts** (done): `Base64`, `Seal`, `Dispatch`, `LogLine`, pure functions that
   `MCTexts` gives their inputs; `TextProofs`.

What comes next: `SizeBounded` where the semaphore comes late but nobody writes before it
is there; the order of the negotiation for connections that break during it, where
`early_drop` leaves room for a weaker statement.

## 3. The modules and the code

### ElinkSystem: one node, its gateway, their connection

`ClientNode` has one action for each stretch of code between two accesses to what the
three threads share; `pc[t]` is the place of thread `t`.

| variable | code |
|---|---|
| `link_state`, `fd`, `p_shared_key`, `p_dh` | the fields of `client_node_t` and its `dhkey`; `p_dh` is NULL, a key pair, `Bare` (a DH object `dhkey_init` failed to give keys) or `Dangling` (freed) |
| `goal[t]` | which of the three loops of `start_authentication` thread `t` is in |
| `out[t]` | the message built, and encrypted or not, but not yet given to `send` |
| `rmsg`, `rdh` | `recv_buf`, and the argument `dh` of `gen_dh_shared_key` |
| `slow` | threads whose `sleep` began while a handler ran, see `Timely` |
| `net`, `toGw`, `toCli` (`Link`) | the connection and the bytes in it |
| `session` (`Link`) | what the gateway knows of this connection (external) |

A key is the pair of key pairs it was computed from; `ZeroKey` is the buffer between
`memset` and `DH_compute_key`, and what is left of it when that fails, `FreedKey` one that
was freed and is still pointed to, `BadKey` one computed from or into something freed.
`InitFree`, `InitKeys`, `InitNull`, `InitWipe`, `InitState` and `DhGenerate` are `_init`,
line by line where another thread could see the difference; `CheckGoal`, `BuildRequest`,
`SendRequest` and `Advance` the loops; `HeartCheck` to `RestartState` the heart thread and
`restart_authentication`; `Receive` to `StatusSend` the recv thread with the handlers.
`DhFaults` says which OpenSSL calls may fail, each time they are made: `dhkey_init`, after
which `start_authentication` goes on with `pub_key` NULL, and `DH_compute_key`, after which
`recv_dh` sets `key_exc_e` all the same. The remote and the local node run this code on
separate data, so one node is modelled.

Abstractions, each of them a claim about the code:

* `send` blocks while the stream is full and otherwise takes the whole message. Its 0 and
  `EAGAIN` results are left out: the sockets are blocking and no handler of a signal
  returns to the code.
* Decryption with a wrong key gives something that is no JSON, and is dropped.
* `data_distribution` and `msg_sent` read `p_shared_key` once. The code reads the pointer
  twice, with nothing but the encryption between.
* `gen_dh_shared_key` reads `p_dh` once, with the allocation.
* The gateway answers what it is sent, and asks for a status only if nothing is on its
  way to the client; two full streams would otherwise block both ends for ever.
* `Timely` says that a handler, which takes milliseconds, ends before a two-second sleep
  that began while it ran. With drops and without `Timely`, a handler of the old
  connection may survive the reconnection and the whole restart, and set `link_state` on
  the new connection: several of the properties fail then. `TypeOK` and `CrashesKnown`
  hold without it as well (`Timely = FALSE` in `MCStatus.cfg`, 85,000 states).
* Drops. `DropWhen` is "registered" where the code is meant to recover: connections break
  only once the client thread has returned from `start_authentication`; from then on at
  any time, also while the heart thread authenticates anew. With "any", a connection lost
  before the first registration is the finding of `early_drop`, and one lost in the last
  sleep of the client thread gives two authenticators, see section 6.

### AsyncLog and LogQueue

`log_buf`, `write_index`, `read_index`, `buf_is_full`, `buf_is_empty` and the output lock
have their names; the semaphore `output_notice` is a number. A producer goes through
`OutputLock`, `MeasureSpace`, `Put` or `PutNothing`, `OutputNotice`, `OutputUnlock`; the
output thread through `AssertInit`, `AwaitNotice`, and the poll loop `GetLock`,
`MeasureUsed`, `GetLog`, `GetUnlock`, `WriteLog`. Bytes are model values. The four cases
of the copying (`Copied`, `Fetched`, `Forward`) are those of the code.

`LogQueue` is what a caller may rely on: a queue of at most `BufSize` bytes, a line is
accepted up to what fits, taken in order, written once. The refinement maps the queue to
the bytes between the indices and `hand` to `poll_get_buf`. Left out: the other assertions,
`ELOG_ASYNC_LINE_OUTPUT` (not configured), the file behind `elog_port_output`, which is
FileLog's. A `printf` is one step. `PromptInit` says that `elog_async_init` sets `init_ok`
before the thread it created looks at it; the run `async_init` shows what happens if not.

### FileLog

A record is one unit, `dir` maps the names `xxx.log`, `xxx.log.0`, ... to files, `data`
files to records. `lock_init` is `SemCreate`, `SemSetVal`, `SemUp` for who creates the
semaphore and `SemExists`, `LockOpen`, `LockOpenFails` for the others; `elog_file_write`
is `Lock`, `Fstat`, `Rename` (one for each name), `Reopen` or `ReopenFails`,
`AppendRecord`, `Unlock`. A process may die between any two of them; its files close and
the kernel undoes its semaphore operation. `elog_file_config` is one step, for it does
under the lock what nobody may interrupt; `fwrite` and `fflush` are one append.

### Framing

A recv thread's loop: `ReadHeader`, `ReadBody` once for each call of `recv`, `BodyFails`
when it gives -1. `recv` may return any part of what is there. A header announces the
length of its body; bytes that are no header may announce any `int32_t` (`Announced`), for
neither the flag nor the length is looked at. `msg_len` is unsigned and wraps at `Width`.
The other threads close (`Close`) and replace (`Reconnect`) the descriptor, and free the
key and zero the buffer (`ClearBuffer`), at any time; the gateway hangs up or resets the
connection anywhere in a frame. `odd` collects what the connection met and `Benign` says
which of it the code can bear.

`Distribute` is `data_distribution` as far as `recv_buf` and `msg_len` go. Without a key
(`keyed`) the text is parsed to the end of its JSON, however long `msg_len` says it is, and
may be the `dh` that brings the key; with one, `msg_len` bytes are decrypted, and dumped by
`bin_print` before that: if `msg_len` has wrapped around, the process dies there (`fate` is
"died"). `BufLen` is `MAX_BUF_LEN`: a `recv` that writes behind `recv_buf`, over `msg_len`,
`link_state` and the keys, ends the behaviour ("overrun"); what the program does from then
on is not modelled. The last `recv` of a body and `data_distribution` are one step, as are
a `recv` of a header and `check_msg_header`; a message without JSON, an empty one for
example, is dropped.

### Process

`table` says what each descriptor is open for. The kernel gives out the lowest one that is
free (`Lowest`), which is what makes a stale number dangerous. A node goes through
`Socket` and `Connect`, or `SocketFails` and `ConnectFails` and back; the remote one runs
`mk_popen` before each attempt: `OpenPipe`, `Fork`, `CloseWrite`, the reads, `CloseRead`,
`WaitPid`. `Register` says that the heart thread has seen `dev_reg_e` (`reg`). From then on
`SendFails`, `CloseFd`, `ClearFd` are the way back to `client_init`, out of the keepalive
or out of the loop around `restart_authentication`; before, `SendFails` is the client
thread's, which authenticates again on the descriptor it has. The child is external: it
prints while there is room in the pipe and somebody may read, and ends. `address` is how
many bytes of its output were copied to `ip_addr`: with none the remote node connects to
0.0.0.0, where no gateway is (`Reachable`); with more than `AddrLen` the `strcpy` has
written behind it, and the process may go on or end ("smashed"). `failed` only counts, for
the properties.

Abstractions: the child's copies of the descriptors, which live as long as a shell command,
are left out, and so are the log file and the semaphore (FileLog's), which open their
descriptors once. A connection is noticed to be gone by the next send. That a node gets
registered is not assumed, only that it may; once it is, one thread of it connects or
sends at a time, but for the two authenticators of section 6.
The module speaks of descriptors, signals and `ip_addr` only: what else ends the process
is Framing's (a wrapped length) and ElinkSystem's (keys).
`PromptLocal` says that the local thread has executed its first statement, the one that
ignores SIGPIPE, before the remote node, which has to connect and register first, sends on
a connection that ended. Without it `EndsOnlyExhausted` fails.

### Base64, Seal, Dispatch, LogLine

Pure functions; `MCTexts` makes each input an initial state and each function a step.

* `Base64`: `Encode` and `Decode`, a fold over the characters with the decoder's state;
  `do_b64_encrypt` and `do_b64_decrypt` add the buffer sizes of `do_b64_cmd`.
* `Seal`: what `msg_sent` puts on the wire, what the recv thread has in `recv_buf` after
  the header and a body that arrived whole, and the text `data_distribution` parses; of a
  body longer than `recv_buf` (`BufLen`) that is `Overrun`, nothing one could count on. A
  byte on the wire is a character and the key it is encrypted with. `EVP_CipherUpdate`
  gives whole blocks and drops the rest, which is why the padding matters.
* `Dispatch`: the three tables and `handler_event`. A request is its type, the names in a
  `get_status`, the words of a `cfg` (where `strstr` looks for any table name, `Within`).
  A handler is its name; the outcome is who was called, what was answered, and whether
  NULL was called.
* `LogLine`: `elog_output` as the pieces of the header copied one by one into the buffer
  as far as there is room, the message printed behind them, what is reserved for the end;
  the filters; `elog_raw`; `elog_find_lvl` and `elog_find_tag`. The time, process and
  thread texts are inputs. `vsnprintf` does not fail.

## 4. The runs

| run | shows | instance |
|---|---|---|
| `first_auth` | on a connection that stays up the client registers under the gateway's key and stays registered, whatever the timing | streams of 3, no drops, no `Timely` |
| `restart_status` | with two drops after registration, status requests, and OpenSSL calls that may fail: agreed keys, no crash but the known one, nothing in the clear, `keyngreq` first, no fall back, every loss followed by a new registration unless the keys fail | streams of 2, 3 connections |
| `early_drop` | **violation**: a connection lost before the first registration is never replaced | 1 slot, 2 connections |
| `key_pointer` | **violation**: a message is encrypted with the zeroed buffer | streams of 2 |
| `async_log` | the ring, its lock and thread are a bounded queue; flags agree; no wake-up is lost; all is written in the end | ring of 4, lines of 1 to 3, 2 producers, 3 lines |
| `async_init` | **violation**: the assertion `init_ok` fails if the new thread is quick | the same |
| `file_rotation` | files stay bounded and rotation loses only the oldest, also over deaths in the middle of it | limit 1, 2 rotated files, 9 writes, 2 deaths |
| `file_lock` | one holder of the lock, who waits gets it, with failing `fopen` and a slow or dying creator | 2 processes, 3 writes, 1 death |
| `framing` | on benign connections frames arrive intact, in order, none missing, and within `recv_buf`; a closed descriptor gets the reader out of a body, to the next header or, with a key, to the end of the process | headers of 2, bodies of 1 and 2, a buffer of 2, `Width` 8, 2 frames, 3 connections |
| `framing_length` | **violation**: a message gets longer than announced, by the next frame's header | the same, 2 connections |
| `process` | no descriptor is mixed up, only failed connects leak, no lost connection kills the process; `mk_popen` returns, a node with a server gets connected unless it lost its connection before it was registered | 4 free descriptors, a command that prints 0, 1 or 4 bytes to a pipe of 1, read into 2, copied to 1 |
| `texts` | base64 reads back and has one spelling; what one end seals the other reads; requests reach the handlers they name; log lines are well formed and can be taken apart | 5 bytes of 5 values, 5 characters of 8; messages of 0 to 40 bytes, a `recv_buf` of 32; 4 names; lines of 22 |

**Why the bounds are enough.** Two requests of a kind in a stream is where a repeated `dh`
overtakes its answer; a third connection follows one that began with a restart. A ring of
four with lines of one to three bytes meets every case of the index arithmetic: cut,
wrapped, exactly full, one short of the end. Two rotated files make the loop run twice,
and nine writes fill all three files and rotate twice more. Two frames are one and the
next one behind it; a body of two is the shortest that comes in pieces. A buffer of two
holds every body, the longest exactly, and is shorter than what bytes that are no header
may announce (3 with `Width` 8), so that `recv_buf` ends where it should and where it
should not; the wrap-around is then a few failing calls away. On the third connection the
descriptor may be closed before the node has a key again. Five bytes are a
whole group and each incomplete one behind it. Of four free descriptors the remote node
needs two for the pipe, so two failed connects exhaust the table, and before that both
nodes and the pipe compete for what is left; a command that prints none, one or four bytes
to a pipe of one, for a reader of two and an address of one, ends in every way: read to
the end, cut off, blocked on a full pipe; no address, one, one too long. Messages of 0 to 40 are nothing, shorter than a block, whole blocks and each length
between, up to and beyond what `recv_buf` holds. The line of 22 is shorter than the longest header, and messages end at every
distance from the buffer's end that the code distinguishes. The threads' loops are not bounded: only
messages in flight, connections, lines, writes and frames are.

**Fairness.** ElinkSystem: each thread is scheduled, a live gateway handles what it is
sent, the kernel notices a dead peer; nothing is assumed of drops, requests or how long a
sleep lasts. AsyncLog: weak fairness of a started line and of the output thread; since
lines are finite in number the mutex needs no more. FileLog: started writes go on, and
strong fairness of the semaphore, whose waiters Linux serves in turn; nobody has to call,
start or die. Framing: the recv thread keeps reading. Process: every thread is scheduled,
a node sends a keepalive now and then, the command ends; nothing is assumed of servers, a
node need not get registered, and nothing has to fail.

`CHECK_DEADLOCK FALSE` stands where a behaviour ends because a bound of the instance is
used up, or because the program has nothing left to do.

## 5. What is proved

For every value of the constants, from the named assumptions of the modules and, where one
is named below, a condition on the constants:

* `ElinkSystemProofs`: `TypeCorrect`, for every choice of `DhFaults`, `Timely` and
  `DropWhen`.
* `OrderProofs`: `OnlyKnownCrashes` (`CrashesKnown`), `NothingInTheClear`
  (`RegistrationEncrypted`), `KeyngreqFirst` (`NegotiationFirst`) and `NoWayBack`
  (`LinkStateMonotone`), under `Gentle`: connections break only once the client thread has
  registered, from then on at any time, the heart thread's re-authentications included,
  and, where they break, `Timely` holds. What `dhkey_init` and `DH_compute_key` may fail at
  is left open. All four follow from one invariant, `IInv`: the messages in
  each stream, those built and not sent, what the recv thread has in hand and the link
  state stand in the order of the negotiation (`MayFollow`: no keyngreq or answer to one
  behind a dh or a registration, no dh behind a registration). A repeated request is
  answered again, but before anything that comes after it. The client thread is done
  before anything breaks, so that one thread authenticates at a time, and the keys it
  sends are those of its own `_init`. Without `Gentle` several of them fail: two threads
  authenticate, or a handler of the old connection outlives a restart and puts an old
  answer into the new order.
* `KeyProofs`: `SameKey` (`KeyAgreement`), under `Gentle` and `GwIds # 1`: the gateway's
  answers to two dh in a row bring two different key pairs, as `DH_generate_key` does.
  Several dh may be under way, for the request is repeated. `ChainInv` says what becomes
  of them: the client sends one only under the key it has, so those behind the first are
  sealed with a key the gateway has replaced by then, and it drops them; while an answer
  is under way or in hand the client's next key is the gateway's present one, and when
  none is, the two are equal.
* `AsyncLogProofs`: `AsyncTypeCorrect`, `RingFlagsAgree`, `NoWakeupIsLost` and
  `ImplementsQueue`, the refinement of `LogQueue`. The invariant ties the flags to the
  indices (`RingInv`), each thread to the lock it holds (`LockInv`), what a thread
  measured to what is still true while it holds the lock (`SizeInv`), the poll buffer to
  the output (`HandInv`), and bytes in the ring to a notice or a poll to come (`WakeInv`).
  The ring arithmetic is a set of lemmas about `Copied`, `Fetched` and `Contents`.
* `FileLogProofs`: `FileTypeCorrect` and `OneWriterAtATime`. The invariant `SemInv` says
  when the semaphore can be 1: it was initialised, by the one process that created it, and
  no thread holds it. This makes the kernel's undo at a death exact.
* `FramingProofs`: `FramingTypeCorrect`, `FramesIntactAlways` and `StaysInBounds`
  (`InBounds`), for any lengths of header, body, buffer and counter. The invariant gives
  every frame sent a place in `stream` (`Offsets`): each unit there is the one its frame's
  place says, and the frame being read begins where the reader is (`Reader`), or as far
  before as it has read. A body in pieces excludes a crowded connection, so nothing of the
  next frame can be taken with the last piece; that is the one step `framing_length`
  breaks. What a reader on a benign connection has is the body of its own frame, so it
  never gets behind `recv_buf` if no body does. Nothing is claimed from the step on that
  writes behind it, or once the process died of a wrapped length.

* `ProcessProofs`: `ProcessTypeCorrect`, `DescriptorsAreOwn`, `OnlyFailuresLeak` and, if
  `PromptLocal`, `EndsWhenExhausted`: all the safety of `process`, for a table of any size.
  The invariant says what every descriptor is open for, by where the nodes and `mk_popen`
  are: `StdOpen`, `Held`, `PipeInv`; then each step can only change an entry whose owner
  it knows, and a node's descriptors are counted one by one (`CountInv`). When no entry is
  free, the table is the union of the failed connects, and a pipe or one connection. An
  address longer than `ip_addr` is the other way a process may end that
  `EndsWhenExhausted` names. That
  the lowest free descriptor exists is the well-foundedness of the naturals (`LowestIn`).

* `TextProofs`: for inputs of every length, `NumbersComeThrough` (`RoundTrip`),
  `NoSecondSpelling` (`Canonical`), `BufferLargeEnough` (`RoomEnough`),
  `MessagesComeThrough` (`SealedReadsBack`, for messages that `recv_buf` holds, padding
  included, whatever its size), `LinesComplete` (`LineWellFormed`),
  `LevelAndTagReadBack` (`LevelAndTagFound`), `HandlersAsked` (`Dispatched`). `TextInv`
  only says that an output is what the code makes of its input, a number, a text, a message
  or a call like those of `Init`; what is proved are the lemmas below it. A fold over a
  sequence is a function that takes its steps (`FoldExists`, `FoldSteps`), and what such a
  function keeps is shown by a least counterexample (`UpTo`), the naturals being well
  founded; the induction theorems of the library cannot be cited, as they take an operator.
  The decoder is then a walk over the characters with its state, base64's groups are
  numbers (three bytes, four digits), and a header is the front of its pieces put together
  (`CopyKept`), whatever is shown and however long it is. A request is worked off name by
  name, and for each the table entry by entry: as no name is in a table twice, the search
  adds at most one entry (`AskedKnown`, `AskedUnknown`), whatever the names and however
  many; a `cfg` is about any set of names at all. The lemmas about a log line hold for any
  characters that are no NUL and any tag without a blank; `TextsAssumption` says that what
  `Init` offers are such inputs. The sizes of the logger's buffers, tags and line numbers,
  its two levels, colours and level names are those `MCTexts` defines.

`FileLogProofs` also proves `SizeLimitKept` (`SizeBounded`), under `InitSafe` and
`~FopenFails`. A thread about to append holds the lock and has seen the size of the file it
appends to, and one about to reopen finds no file of that name (`SizeInv`). Both conditions
are needed: after a failed `fopen` there is no descriptor to look at, so the size of the
file that stays open is not seen any more, and a thread that found the semaphore missing
looks and writes beside another that does the same.

Its last theorem is `RecordsKept` (`KeepsRecords`), if one process writes to the log
(`Single`) and `InitSafe`; it may die anywhere, and `fopen` may fail. The archive is the
last value of a function over the positions of the directory that puts each file before
the newer ones (`Joins`), and what a rename, an `fopen` or a record does to the archive
follows from what it does to the files at one or two positions (`JoinsMoved`, `JoinsSame`,
`JoinsAppended`), each by a first position where it would fail (`Upwards`). The invariant
`KeepInv` says that the stream of the process is the newest file, that no file has two
names, and that whoever rotates has left nothing where the next file goes. With two
processes TLC finds `KeepsRecords` violated: the one that did not rotate goes on writing
to the renamed file. Without the lock two threads may rotate at once.

Model-checked only:

* liveness, in every module: fairness and `ENABLED` are beyond the prover;
* what the four violations show, and the properties above outside their conditions.

## 6. Findings

Each is a `findings` entry with the run that shows it.

1. `authentication.c:69`: a connection lost before the first registration is never replaced.
2. `dhkey.c:93`: the shared key is published before it is computed.
3. `elog_async.c:286`: the output thread may run before `init_ok` is set.
4. `remote.c:33`: the body loop reads into the next frame.

The exploration shows more, each listed as a hazard where it is one:

* a connection lost in the client thread's last sleep (`authentication.c:87`): the heart
  thread, which sees `dev_reg_e` as well, reconnects and starts over, and the client thread,
  which finds `link_state` changed, sends `dev_reg` on the new connection, in the clear; two
  threads authenticate from then on (`DropWhen = "any"` in `MCStatus.cfg` violates
  `RegistrationEncrypted`);
* a descriptor closed under a reader in the middle of a body (`remote.c:33`): recv's -1 is
  added until `msg_len` wraps around; a registered node has a key, so `do_aes_cbc_crypt`
  gets the length -1, `bin_print` reads 4 GB from `recv_buf` on and the whole process dies,
  before the connection is replaced (the second alternative of `LeavesBody`);
* a failed `DH_compute_key` (`handler.c:62`): the key stays zeros, `link_state` becomes
  `key_exc_e`, and the node goes on to send `dev_reg` under it until the connection is lost;
* a process that finds the semaphore not yet initialised writes without a lock
  (`elog_file_port.c:154`), and after a failed `fopen` in a rotation the size is never
  looked at again (`elog_file.c:108`); if several processes wrote to one log, one that did
  not rotate would write on to the file another renamed, and rotate again
  (`elog_file.c:134`);
* a status reply prepared before a restart is sent in the clear on the new connection
  (`distribution.c:158`);
* `dhkey_init` fails, the failure is logged and the authentication goes on
  (`authentication.c:52`): `send_dh_info` then uses a NULL `pub_key`;
* `recv_buf` is 4096 bytes long and no announced length is compared with that
  (`remote.c:31`); the output of the command for the gateway's address, up to 127 bytes, is
  copied to 16 (`client.c:33`);
* each failed connect leaks a descriptor (`client.c:53`, `client.c:90`); when they are used
  up the local node's `socket` fails and the whole process exits, the remote node's
  connection with it;
* a `cfg` request calls a NULL handler unless it is for `reboot`, `reset` or `save`
  (`distribution.c:176`), and one for `upgrade_client` is taken for `upgrade`;
* a text shorter than the header, received without a key, is followed by what the header
  left in the buffer (`remote.c:33`): one of seven characters by the length's last byte.
  elink's messages are longer;
* a raw log of the buffer's length or more ends in a NUL (`elog.c:351`), and line numbers
  are cut to four digits (`elog.c:480`).

## 7. Not modelled, and why

The JSON of messages; `elog_hexdump` (elink does not call it), the logger's set-up
functions (one assignment each) and switching its lock off; `elog_buf.c` (not compiled in);
OpenSSL, json-c and libubox (external: only what the code relies on); failures of `malloc`
and `pthread_create`; signals other than SIGPIPE; `sequence_num`, which three threads
increment without a lock, but which nothing in the client reads back.

What the models keep of the rest, and what they let go of, in one place:

* Key pairs are numbered cyclically (`NextId`, `DhIds`, `GwIds`): the numbering is the
  model's own, made so that a new pair differs from those still on the way.
* What is freed stays apart from what is not, but reading a freed key gives a key nobody
  has, never a crash; freeing or computing with a freed DH object may crash. `msg_sent`,
  `data_distribution` and `gen_dh_shared_key` read each pointer once.
* A key freed in the middle of an encryption or decryption (one step each) is left out.
* What is behind `recv_buf` is not modelled: writing there ends a behaviour of Framing and
  makes the text of Seal unknown, and the properties are for what fits. A text that fills
  `recv_buf` to its last byte is ended by the first byte of `msg_len`, which is 0 for 4096.
* The process dies of a wrapped length at the dump of 4 GB: `ENABLE_AES_DEBUG` is 1 in
  `common.h`. That so many bytes can be read from `recv_buf` on is taken to be impossible.
* `Gentle`, `Timely`, `PromptLocal`, `PromptInit`, `InitSafe` are assumptions on timing or
  on the environment, each a constant, so that the run or theorem that uses it says so.
* A `strcpy` behind `ip_addr` may end the process and otherwise changes nothing: what
  it writes over keeps its values in the model.
* A connect to 0.0.0.0 fails; the gateway does not run on the access point itself.
* The two nodes meet in Process only, over descriptors and SIGPIPE; `printf` and the log
  are the only other things they share.

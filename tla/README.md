# A verification of the HTTP/HTTPS server

TLA+ modules for the core of this repository: routing, parsing, the connection
over TCP and TLS, the accept loop with its forked children, the start of the
server, the logging system with its reload thread, and the way of a log line
into the file. TLC checks them on small
instances; TLAPS proves the main safety properties for every value of the
constants.

Source paths below are relative to the repository root.

## 1. The system

| Component | State | Operations | Talks to |
|---|---|---|---|
| `RoutingTree` (`src/routing/.../routing_tree.h`) | one hash map per method, nested by path segment | `add`, `get`, `set_elem` | owned by `Router` |
| `RouterManager` (`router.h`, `router.cc`) | static `router_` | `Init`, `Clear`, `Get`/`Post`/`Put`/`Del`/`Patch`, `Route` | called by `HttpCodec::process` |
| `HttpCodec` (`http_codec.cc`, `http_message.cc`) | none | `parse`, `process`, `serialize`, `makeResp` | called by a connection, calls `RouterManager::Route` |
| `HttpConnection`, `HttpsConnection` | socket, request bytes | `process` = `recv`, `execution`, `send`; destructor | one per child process |
| `HttpServer` (`http_server.cc`) | `sockfd_`, `servinfo_` | `listen` (`buildSocket`, `listenInternal`), `clientIntakeCycle`, `stopListen` | forks a child per connection |
| `HttpsServer` (`https_server.cc`) | `ctx_` | `sslHandshake`, its own `clientIntakeCycle` | as above, handshake in the parent |
| `LogSystem`, `LogManager`, `ConfigWatcher` | `lm_`, `cw_`; logger, pause; kqueue, thread | `Init`, `Start`, `Stop`, `Get`; reload callback | used by everyone through `LOG` |
| `LogStream`, `Logger`, sinks (`logging_system.h`, `logging.cc`) | a copy of the logger; level, shared sinks; a buffered file | the `LOG` macros, `Logger::log`, `FileSink::log`, `flush` | called by everyone, in every process |
| status codes (`src/common`) | none | `to_http_status`, `to_log`, `important_log` | answers and log levels |
| `uuid` | a thread-local generator | `generate_uuid_v4` | copied by `fork` |

What is hard here: requests have no framing but "a read that does not fill the
buffer", so segmentation decides what a handler sees; every connection is a
forked process that inherits descriptors and generator state; `stopListen` runs
against a blocked `accept`; the watcher's thread reloads the logger without the
lock that serialises `Start` and `Stop`, and frees the logger that callers of
`LOG` refer to; log lines wait in a buffer that `fork` copies and `_exit` drops;
no read, write or handshake has a timeout, and nobody ignores SIGPIPE.
`PROJECT.json` lists these hazards at
their lines with the properties that cover them.

## 2. Modules

| Module | Models | Kind |
|---|---|---|
| `RouteTable` | what routing promises: a flat table of claims | abstract specification |
| `RoutingTree`, `RouterManager` | the tree as operators; the manager as a state machine | refines `RouteTable` |
| `HttpCodec` | `parse` as an operator on words and delimiters | pure algorithm |
| `CodecRoundTrip` | a client that writes a request piece by piece | reference for `parse` |
| `Exchange` | what a connection promises its peer | abstract specification |
| `Status` | result codes, statuses, log levels | tables |
| `Connection` | the peer, `execution`, the loop of `send`, which may block | shared by the next two |
| `HttpConnection`, `HttpsConnection` | `recv` and the destructor over TCP and TLS | compose `HttpCodec`, `Status` and `Connection`; refine `Exchange` |
| `HttpServer`, `HttpsServer` | the accept loop and the children | the second extends the first and adds the handshake |
| `ServerStart` | `listen` up to the accept loop | |
| `ServerProcess` | a server of either class, from `listen` to `stopListen` | composes `ServerStart` with the two accept loops |
| `LogSystem` | `LogSystem`, `LogManager`, `ConfigWatcherImpl` | |
| `LogConfig` | the level and the sinks of a configuration | operators |
| `LogLines` | `LOG`, `LogStream`, `Logger`, `FileSink` in server and children | uses `Status` |
| `MC...`, `ConnectionMessages` | constants for TLC | |
| `...Proofs` | theorems | |

Definitions named `Mut...` (and `NeverLastRead`, `LockedRead`) are faulty
variants of the definition that follows them. No specification uses them; they
serve to show that each property notices a plausible mistake.

### Routing

A path is kept split at its slashes, which is one to one. The nested maps are
one function from `<<method, segments>>` to a handler; `NoHandler` is an empty
`std::function`, as intermediate nodes hold. The switch on the length of the
path is kept, because `add` and `get` treat one-character paths differently.
`accepted` is a history variable: the registrations that returned true. That a
node's parent exists is a fact of the nested maps; of the flat function it is an
auxiliary invariant of the proofs and not a property.

### Codec

A request is a sequence of units: words, each of length one, and the
delimiters. Offsets are those of the code. `std::string::npos` is -1 and a
negative count is a huge `size_t`. JSON is two constants: the texts that are
accepted, with their values, and the texts on which nlohmann raises
`out_of_range`, which the code does not catch.

`CodecRoundTrip` is the reference: a client that writes a target line, header
lines, a blank line and a body, one piece per step. It keeps both what it means
(`target`, `fields`, `body`) and the units it has written so far (`raw`), which
`parse` is applied to. Its constants are any target lines and header lines
without a line end in them; a header line may lack a colon, have blanks, or have
several colons.

### Connections

One system call is one action. The peer writes any number of units at any time
and may end its stream at any time (`fin`; `cut`, over TLS, without a
close_notify; `rst`). `recv` in `HttpConnection` works on a memory: the array
keeps what the read before left, its first content is any member of `Stack`,
and behind it lies any member of `Beyond`; the string appended ends at the
first NUL. `HttpsConnection` keeps where records end, since `SSL_read` never
returns more than the rest of one. `execution` is the whole of
`HttpCodec::process`: a failed parse, an exception out of a noexcept function,
no router, no route, a handler that returns or throws. A closed or killed
process is `pc \in Ended`.

`::recv` that returns -1 is answered with 500 whatever the reason:
`RecvError` after a reset, `RecvInterrupted` at any time, for EINTR or want of
memory, since `recv` does not repeat the call. `send` does repeat an
interrupted one. `::send`, `SSL_write` and `SSL_shutdown` block while the socket
has no room: it holds `SndBuf` units of the response that the peer has not read
(`taken`), nothing makes the peer read (`ReadResponse`), and there is no
timeout. `Blocked` names that situation. Over TLS a peer that cut its stream may
or may not make OpenSSL refuse to write (`CutNoticed`).

`Exchange` is what remains when reads, writes and buffers are left out: at most
one handler is called, at most one answer is chosen and only its bytes are sent,
and the connection is closed early only if the peer left. Both connections are
shown to implement it, with `resp` for the answer and `total_send` for what is
out.

### Accept loop

The child of a connection is named after it. `lfds` and `fds` say which process
holds which socket; `fork` copies them, and an exit drops them. The id
generator is a counter per process, copied by `fork`: two equal states yield
equal ids. Children that ended are zombies, which count against `MaxProcs`.
`fork` and `accept` may fail at any time. `process` of a client in `Idle` does
not end: such a client sends nothing, stops at a full buffer or does not read.
A child may be killed while it serves. `HttpsServer` puts the handshake between
accept and fork, in the server process itself: a client in `Silent` never
answers it, and one in `Refused` makes it fail or, gone when `SSL_accept`
writes, ends the server process by SIGPIPE (`HandshakeKilled`); the children
that run go on.

### Start

`ServerStart` gives descriptors numbers the kernel reuses and closes as the code
does. `freeaddrinfo(p)` in the loop of `buildSocket` frees the nodes from `p`
on, and the loop goes on with the next one: from there each read and each
further free may go well or end the program (`dead`). Number 0 is standard input
or, when that is closed, a free descriptor; `closeConnection` does not close a
socket that has it, but forgets it.

`ServerProcess` puts the parts together: `listen` until it accepts, then the
loop of the class (`tls`), and `stopListen`, which is one step for the member
`sockfd_` and the loop: it closes the socket, unless its number is 0.

### Logging

`ctl` is the call under way, of which there is one (`LogSystem::mtx_`). The
watcher's thread moves between the steps of a call. A kqueue holds each of its
two events at most once, in the order they became active. Replacing `cw_`
builds the new watcher before the old one is destroyed, hence two slots. A
manager freed under a callback (`stale`) and a second `Start` on a running
watcher lead to `dead`, the end of the program. The callback dereferences `lm_`
when it is entered (`Enter`), so only a thread that is past that point is in a
manager that can be freed under it. `std::thread` may throw, with `started_` set
already (`LaunchFails`). `LogConfig` says what
`ParseLogConfig` makes of a level and a list of sinks.

`LogLines` follows a line. Each process has a memory: the logger in force and its
level, the buffer of each logger's `FileSink`, which sinks are destroyed, and
where the thread is in `LOG`. A line is two units, the text and the line end,
because the code inserts them separately. `Put` and `WriteOut` are
`std::ofstream`, modelled from how `FileSink` uses it: insertions fill a buffer
of `Cap` units, an overflow writes it, with or without what did not fit, and
closing writes the rest, or loses it without a word. A write that fails leaves
nothing in the file or a part of what it was given (`Short`, recorded in `torn`);
flush keeps the buffer and the next write takes all of it again. A reload is one
step, the replacement of `logger_`; the old sinks are destroyed unless a
`LogStream` has a share in them. A logger freed between `Get` and the copy is
undefined behaviour: the line is lost or the process ends. Three simplifications:
the file sink keeps its path over reloads, a process logs from one thread (the
watcher's thread logs by `syslog.h`), and the end of a process by an exception
out of a noexcept function (`JsonFormat` on bad UTF-8, `ConsoleSink` on a closed
console) is `Killed`, which is possible everywhere.

## 3. Runs

### Passing

| Run | Bounds | Shows |
|---|---|---|
| `router` | 2 methods, 7 paths, 2 handlers (symmetric) | every order of calls keeps the tree a table: accepted routes are found, a rooted path finds nothing else, and `RouteTable!Spec` holds |
| `codec` | 3 target lines, up to 2 of 5 header lines, bodies of up to 5 of 5 units | `parse` reads back what was written |
| `http_connection` | 8 requests of 11 to 17 units, buffer 4, limit 16, responses of 3 units, 2 of which fit into the socket | the waiting rule, the limit, that a hang-up or a short last read ends the process unless the peer leaves a write blocked for good, and `Exchange` |
| `https_connection` | the same, up to 3 records unread | the bytes and the body are the ones sent; a hang-up or a short last read ends the process, with the same exception; `Exchange` |
| `server_process` | both classes; 3 connections, one idle, one silent and one refused in the handshake; backlog 2, 3 processes, 2 addresses, 3 descriptors | sockets stay apart, client ids distinct, at most one late accept, a TLS child has its SSL object; no descriptor leaks but number 0, the loop runs on a bound socket, the search ends; connections are accepted and closed but for the clients and the SIGPIPE the properties name |
| `log_system` | 6 configurations | silence after `Stop` and by `enabled: false`, the logger follows the file, when a started watcher has a thread and when it has none, no thread is left in a freed manager, `Stop` returns |
| `log_lines` | 2 children (symmetric), 3 lines, of info and warning, 2 loggers of level info, buffer of 4 units | an important line is in the file once `log` returned, with all lines before it; order is kept, copies come from `fork` only and lines stay whole until a buffer overflows or a write fails half way, a copied logger's sinks stay open |

What holds for every value of the constants by a theorem of section 4 is not
checked again: the type invariants of routing, of the connections, of the accept
loops and of `LogLines`, and the waiting rule and the limit over TLS.

Why the bounds are enough. The paths hold each shape the switch tells apart, an
alias pair and a nested pair. The requests hold, for buffer 4, lengths with
every remainder modulo 4, one exactly at and one past the limit, and every
outcome of `execution`. A response of three units and room for two let a write
block in the middle of it. Three connections let two children overlap while a
third is dispatched, and each may be the one for which fork fails, so that the
loop has to go on after it. The client that is idle over TCP is idle over TLS
too, so that a silent, a refused and an idle one meet in one run; over TCP the
silent and the refused one are ordinary clients. Two addresses let a failure
follow a failure or precede a success, and three descriptors are one for each
socket of a call that replaces an earlier one and one left open under number 0.
The six
configurations are two that are accepted (one without a sink that can be made),
one that disables, one that enables and is then rejected, and two that throw,
before and after they enabled logging. Three lines of two units in a buffer of
four overflow it in the middle of a line;
two children let a line be copied twice; two loggers let one be replaced under a
`LogStream`. One level is enough, because a stricter one only takes lines away.

Deadlock is checked for routing. The others may stop: a connection ends, the
clients run out, the program ends.

### Disagreements between code and documents

Each of these runs checks one property taken from a document or comment and
ends with a counterexample. `PROJECT.json` quotes the lines.

| Run | The code |
|---|---|
| `http_raw_bytes` | appends bytes of an earlier read |
| `https_whole_request` | calls a handler without the body when it comes in a record of its own |
| `http_server_ids` | gives two responses one X-Request-Id |
| `route_key` | finds under `u` or `ab/u` what was registered for `/u`, where the key is said to be method and path |
| `http_limit` | answers 413 to a request of exactly `kReceptionBufLimit`, said to be the maximal size |

The passing properties also record, as their conditions, behaviour a reader of
the documents may not expect:

- `RoundTrip` says nothing of the headers of a request whose body has a line
  end: `http_codec.cc:44` gives `substr` a position for a count, so that the
  header text reaches into the body and a body line with a colon is taken for a
  header, or overwrites one.
- `DisabledIsSilent` excepts `Start()`, which clears the pause of
  `enabled: false` along with that of `Stop`.
- `FreedOnlyDuringCall` excepts a `Start(path)` that fails: it has replaced the
  manager and leaves the old watcher's thread running.
- `LossIsASuffix` allows that a child's lines below warning after its last
  graver one are lost: `_exit` does not write the buffer, so what a request
  logged at info is often not in the file.
- `CopiesComeFromFork` allows copies: lines of the server process that were
  buffered at a fork are written again by the child's next important line.
- `WholeLines` ends with the first overflow, which may tear a line, and with the
  first write that fails half way, which leaves a piece of one; the repeated
  write also copies units, which `CopiesComeFromFork` excepts.
- `WatcherAlive` has two halves. Once the watcher's thread is lost, because
  `kevent` failed in it or `std::thread` threw, `Stop` leaves its user event in
  the kqueue, and that event ends the thread of the next `Start` at once.
- `NoSocketLeak` excepts descriptor 0, which `closeConnection` never closes.
- `HangUpEnds` and `ShortLastReadEnds` except a peer that does not read and does
  not reset: the process stays in `send`, `SSL_write` or `SSL_shutdown`.
  `config/server_config.yml` has a send timeout that no code reads.
- `ShortLastReadEnds` excludes requests that fill their last buffer: over a
  connection that stays open these are never answered.
- `EventuallyClosed` excepts clients that keep `process` waiting and, over TLS,
  one that is silent in the handshake; `EventuallyAccepted` excepts, over TLS,
  that silence, which holds up everybody, and the end of the server process by
  SIGPIPE. `config/server_config.yml` has receive and idle timeouts that no code
  reads.
- `EventuallyAccepted` and `EventuallyClosed` do not say that an accepted
  connection is processed: nobody waits for the children, and once zombies fill
  the process limit connections are closed unprocessed.
- Connections are processed in parallel by forked children, although
  `README.md` calls their life cycle synchronous and blocking.

### Fairness

- Connections: weak fairness of the serving process (its `Transfer` steps and
  `execution`). The process runs unless it is blocked, in a read for want of
  bytes or in a write for want of room, and then the step is not enabled.
  Nothing is assumed of the peer, neither that it sends nor that it reads.
  `RecvInterrupted` and `CutNoticed` may happen and need not. That `execution`
  ends means that handlers return or throw.
- Accept loop: weak fairness of the loop and of each child, which does not help
  a child whose client is `Idle`: there `process` is not enabled. That it ends
  for the others rests on the connection models, which show it for a peer that
  hangs up, or sends a request with a short last read, and does not leave a
  write blocked. Nobody need be killed, by a signal or SIGPIPE. Strong fairness
  of `accept`: it may fail now and then, not forever while a connection is
  waiting.
- Start: weak fairness of `buildSocket` and `listenInternal`, single-threaded
  code without blocking calls. Nobody has to call.
- Logging: weak fairness of the watcher's thread and of a call that has begun.
  Nobody has to call or to write the file, and neither `kevent` nor
  `std::thread` need fail.

## 4. Proofs

All theorems are checked by TLAPS to the last leaf, for every value of the
constants that satisfies the named assumptions (`RoutingTreeAssumption`,
`PathsAssumption`, `ConnectionAssumption`, `HttpConnectionAssumption`,
`HttpsConnectionAssumption`, `HttpServerAssumption`, `HttpsServerAssumption`,
`ServerStartAssumption`, `LogSystemAssumption`, `LogLinesAssumption`,
`CodecRoundTripAssumption`). `LogLinesAssumption`
asks, besides sizes and levels, that the children be a finite set: copies in the
file are counted against them. `CodecRoundTripAssumption` says what a client may
write: the words of a target line are separated by its first two spaces, no part
of a line holds a line end, and `colon` is the place of a header line's first
colon.

- `RouterManagerProofs`. `IInv` adds to the type that every node of the function
  hangs from its parent path (`PrefixClosed`, true of nested maps by their
  shape), that each accepted registration is stored at its key and that each
  stored handler was accepted (`Stored`). `add` never overwrites a handler, so
  `Stored` is inductive; with every parent node present the walk of `get` reaches
  what is stored. `Refinement` maps the tree to the function on the keys that
  carry a handler: growing intermediate nodes is a stutter of that function.
- `HttpsConnectionProofs`. `RecvExact` and the waiting rule are inductive with
  the type invariant. `LimitRespected` follows from the stronger `StopsAtLimit`,
  what the code's own test yields, which also needs `CalledLate`: while a
  connection is receiving, no handler was called. `HttpConnectionProofs` proves
  type, waiting rule and limit over TCP in the same way; the array stays a
  sequence of `BufSize` through every read, whatever the append takes from it.
  `BodyAsSentAlways` needs that the handler's request was parsed from a beginning
  of the peer's (`CalledWithPrefix`, from `RecvExact`). The separator of head and
  body, if found in that beginning, is the first one of the whole request
  (`FoundInPrefix`, by the least element of a set of positions), so the body
  parsed is all of the body sent, or nothing, or a proper beginning of it that is
  JSON, which the property excludes.
- `CodecProofs`. `RoundTrip` is about four searches in a text of any length, and
  an induction over the text is out of the prover's reach. Since the client's
  text is a variable, `raw`, the induction is over the client's steps instead:
  `Layout` says that there are positions `at[1]`, `at[2]`, ... at which the header
  lines stand one behind the other after the target line (`Placed`) and what
  follows the last of them (`Closed`: nothing, or the blank line and the body).
  Each write keeps it by adding one position. The rest is about one state. In a
  text laid out like this the first line end closes the target line
  (`TargetEnd`), and the first blank line is the client's, because no line before
  it is empty or holds a line end (`BlankFound`). The text of the header loop
  begins behind the target line; its length is a position taken for a count, too
  long by the target line, so it also takes in the blank line
  (`HeaderTextIs`, where it is used that a target line has at least its two
  spaces) and the beginning of the body. Without a line end in the body this adds
  no line, and the lines with a colon are the client's (`LinesAre`,
  `HeaderLinesAre`), of two with one name the later one (`HeadersAre`).
- `ConnectionProofs`, `HttpConnectionProofs`: the refinement of `Exchange`.
  `Phases` says how far the answer is at each place of `process`: nothing is
  decided during reception and execution; a status is chosen and not all of it
  out during `send`; and `close` is reached only when all is out or the peer
  left. Each step then is a step of `Exchange` or not visible there; the lemmas
  are shared, and each kind of connection adds its reception and its close.
  `HttpProcessBounded` and `HttpsProcessBounded` are the part of `HangUpEnds` and
  `ShortLastReadEnds` that is safety: `Left`, a number, is lowered by every step
  that changes the state of the process, so there are at most
  `Limit + RespLen + 3` of them, whatever the peer sends. That recv is below the
  limit whenever it goes on (`LimitRespected`) is what makes the bound
  independent of the request. An interrupted write and `WANT_READ` or
  `WANT_WRITE`, after which the call is repeated, change nothing and are not
  counted; an interrupted `::recv` is not repeated, and counts as a step.
- `ServerProofs`, accept loops. `HasClient`: while the loop is between accept and
  the end of an iteration, `client` is a connection, so that its end closes the
  right socket. `IdsBelow`: no client id is ahead of the server's generator, so
  the next is new. `StopCloses`: after `stopListen` the loop does not call accept
  again, so a late accept can only be the one it was in. The handshake is between
  accept and fork in one of the two classes; `DispatchHasSsl` says that over TLS
  a connection that is being dispatched finished it. All theorems are about
  `ProcessSpec`: a step of the composition is one of `listen` or one of the loop
  (`ProcessParts`), and `ProcessInv` is the conjunction of both invariants.
- `ServerProofs`, start. `OwnSocket` says which sockets are open at each place of
  `listen`: the member's and, between `socket` and `bind`, the new one.
  `MemberOpen`: a member that names a descriptor names one that is open and
  bound. Without it the step in `buildSocket` that closes the old socket might
  close a number the kernel has given to the new one. `AtNode` keeps the walk
  inside the list, which type correctness needs. `ListenBounded` is the safety
  part of `ListenDecides`: `StepsLeft` falls from at most `4 * MaxAddrs + 4` with
  every step of a call, also where `buildSocket` walks on in a freed list.
- `LogSystemProofs`. `PauseLast` is the heart of `IInv`: while a call is at its
  pause, and while the system is down, no watcher has a thread. `OneThread`,
  `NotStartedNoThread`, `JoiningStopped` and `CallHasWatcher` say where a
  thread can be, which makes it inductive. `FInv` follows a write of the file to
  the logger: its event is in the queue or the callback is about to read it
  (`SeenFollows`), what was read last is in force or being installed
  (`LoggerSeen`, with `ConfSeen` for what is being installed), and if it disables
  logging the pause is set, unless `Start()` cleared it (`DisabledPauses`).
  `StaleLoads` says how long a thread may be inside a freed manager, and yields
  `FreedOnlyDuringCall`. `UserEvent` says when a stop event is in the queue: while
  `Stop` waits for a thread that has not ended and, after a thread was lost,
  whenever there is a new one. It yields both halves of `WatcherAlive`: while
  `failed` is false no event waits for the thread of a started watcher, and while
  it is true there is no thread or an event waits for it.
- `LogLinesProofs`, first part. `ImportantIsDurable` is inductive with `Kept`:
  what a process has inserted of its line is in the file or in the buffer of the
  sink it holds, so that a flush that succeeds completes the line. That nobody
  empties that buffer meanwhile rests on `SinksOK`: only loggers of the past have
  closed sinks, and a copied logger's are not among them, which is also
  `CopyKeepsSinksOpen`. `LevelsAgree` is about the tables: each result code has a
  known status, and both macros log it at the same level.
- `LogLinesProofs`, second part. A process has one buffer that is not empty
  (`OneBuf`), that of the logger it uses. Every action is first reduced to what
  it does to the file and to these buffers (`NextEffect`): a line begins, a unit
  is inserted, with or without an overflow, a buffer is flushed or closed, a
  write fails with a part of the buffer in the file and the buffer kept or
  dropped (`Partly`), a process ends, a child is forked. The invariants are then
  kept by each of these few effects. `Counted`: no unit is ahead of its process's
  count of lines, so a new unit is new. `OwnUnits`, `OwnLines`: what a running
  process made is in the file or its own buffer; a successful flush of an
  important line hence leaves all earlier ones in the file (`LossIsASuffix`).
  `Ordered`: before each unit, in the file or a buffer behind the file, come all
  earlier ones of its process, which appending a buffer to the file preserves,
  whoever's copy it is (`OrderKept`). `WholeInv`: a buffer is whole lines, but
  for the text of a line in progress (`WholeLines`); it says nothing after an
  overflow or a `Partly`. The order survives a `Partly`, because what is written
  is a beginning of the buffer. `CopiesInv`, as long as there was no `Partly`,
  counts: a unit has as many copies, in the file and in buffers together, as it
  was inserted (once) and inherited; writing a buffer moves a copy and forking
  adds one (`CopiesComeFromFork`).

Only model-checked: the liveness properties (`HangUpEnds`, `ShortLastReadEnds`,
`EventuallyAccepted`, `EventuallyClosed`, `ListenDecides` and `StopReturns`),
because fairness and `ENABLED` are out of the prover's reach; for connections and
start the bounds above are the part of them that can be proved. Every other
property of the passing runs has a theorem.

## 5. Not modelled

- The texts of log records (`ConsoleFormat`, `JsonFormat`, `operator<<`) and of
  statuses, and the console as a sink: no state behind them.
- `LogManager::ShutDown`: nobody calls it.
- SipHash: the routing maps behave the same under any hash, also under the 0 a
  failed hash returns. Its 64-bit arithmetic is beyond TLC's integers.
- `HttpsServer`'s constructor: straight-line OpenSSL set-up.
- `serialize` and the text of responses: a response is a status and a length.
- What the peer receives: the connection models end at the send buffer.
- `fork` inside a reload, below the assignment of `logger_`: the child would
  inherit the allocator's locks as they are.
- `ServerManager`: no target builds it.
- `main`, `tostring.h`, benchmarks and the load script.

## 6. Plan

Modelled: routing, parsing, both connections with their abstract specification,
the accept loops, the start, the logging system and the way of a log line.
Proved: every safety property, the round trip of the parser and the
refinements. What could follow:

1. The enabling half of the liveness arguments, as explicit predicates: a
   connection that is not ended has a step unless it waits for its peer.
2. A bound like `Left` for a call of `LogSystem::Stop` and for one iteration of
   the accept loop.
3. `serialize`, as the inverse of a client's reading, in the manner of
   `CodecRoundTrip`.

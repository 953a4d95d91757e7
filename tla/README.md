# Verification of smtp-gateway in TLA+

This directory models the SMTP gateway of this repository in TLA+, checks the
models with TLC and proves their main invariants with TLAPS. The reference is
the source; a comment of a definition names the function it stands for, and
`PROJECT.json` gives its lines.

## The system

`smtpgateway` is a library: an application calls `Serve` with a listener and a
`Handler`, and the library speaks SMTP to every client that connects.

| Component | Source | State | Operations | Interacts with |
|---|---|---|---|---|
| Server lifecycle | `gateway.go` `Serve`, `Shutdown` | context, `connSem`, `wg`, `shutdownOnce` | accept, admit or reject, spawn, cancel, wait | listener (owned by the caller), sessions, concurrent `Shutdown` calls |
| Connection | `smtp.go` `handleConn`, `readCommands`, `connState` | socket, `bufio.Reader`, channels `events` (32) and `resumeCh` (1), context | read, enqueue, pause, take over, TLS handshake, write, close | three goroutines of its own; the client; the server context |
| Session | `smtp.go` command handlers | `phase`, `tx`, `inBdat`, `bodyBuf`, `tlsState` | one handler per SMTP verb | `Handler` callbacks, message store |
| Content transfer | `smtp.go` `readDotUnstuffed`, `readLine`, `readNBytes` | buffered bytes | unstuff, drain, discard | worker goroutine |
| Argument parsers | `smtp.go` `parse*`, `validateHeloDomain` | none | pure functions | handlers |
| Message store and format | `internal/postcat` | one directory | `Write`, `Parse`, `FormatEnvelope` | sessions after a 250; command-line tools |
| Replay client | `cmd/postcat-replay` | where it is in the dialogue | parses a message file, sends it, waits for each reply | a server |
| S3 handler | `examples/s3` | one pool of gzip writers for all sessions | `Data`: format, compress, upload, answer | the sessions of a server, a bucket |
| Embedding programs | `cmd/test-server`, `examples/s3`, `examples/postcat-only` | signal goroutine, `main` | SIGTERM, close, `Shutdown`, exit | server |

What is hard in it, and what makes each part correct:

- **Connection.** Two goroutines read one `bufio.Reader` in turns. The reader
  stops after DATA, BDAT and STARTTLS until the worker puts a token in
  `resumeCh`, on every return path including a panic. Correct means: never two
  readers, never a lost or doubled token, content and clear-text bytes never
  taken for trusted commands, pipelined commands in order, and an end for every
  goroutine after a cancel or when the client is gone.
- **Session.** Five pieces of state are reset by hand on about fifteen paths.
  Correct means that they stay in step, that no chunk or recipient of one
  message reaches the next, that the size limit holds in spite of `int`
  overflow, and that the client can tell from the replies what was delivered.
- **Server.** The accept loop, the sessions and any number of `Shutdown` calls
  race on a semaphore, a `WaitGroup` and a `sync.Once`. Correct means no leaked
  slot, the cap, and a nil result that means drained.
- **Store.** A crash at any step must leave a whole file or none.
- **Content and replay.** Dot-stuffing, bare LF line ends, over-long lines, the
  size limit and the deadline meet in one loop, which must find the end of the
  content that the sender meant. Correct means that a message goes from a file
  through the wire to the handler whole or not at all, and that the client's
  verdict is true.
- **S3 handler.** Concurrent calls share writers, the clock of the object key
  has a resolution of a second, and an upload may arrive after it failed.
  Correct means that a 250 is kept by the bucket whatever stops, that no two
  messages mix, and that none replaces another unless their keys agree.

## Modules

| Module | Stands for |
|---|---|
| `Connection` | reader, worker, watchdog and client of one connection |
| `Transaction` | abstract: what a session promises, in terms of its replies |
| `Session` | the worker loop's state and every command handler; implements `Transaction` |
| `Server` | `Serve`, the session goroutines as far as `Serve` sees them, `Shutdown` |
| `Program` | extends `Server` with the signal goroutine and the exit of `main` |
| `MailStore` | abstract: an atomic, durable directory of messages |
| `Postcat` | `postcat.Write`, the file system and its failures; implements `MailStore` |
| `PostcatFile` | pure: `FormatEnvelope` and `Parse` of message files |
| `Replay` | extends `PostcatFile` with the replay client, a link that fails, and a session reading DATA content |
| `S3Handler` | `Handler.Data` of the S3 example, its writer pool and the bucket |
| `Delivery` | extends `S3Handler` with the copy on disk (`Postcat`): the two places of one message |
| `ConnectionProofs`, `ConnectionStreamProofs`, `SessionProofs`, `ServerProofs`, `PostcatProofs`, `DeliveryProofs`, `ReplayProofs`, `ReplayDialogueProofs` | theorems |
| `MC*` | what the configurations instantiate |

### Connection

`reader`, `worker` and `watchdog` are program counters of the three goroutines;
`events` and `token` are the two channels; `net` is the stream still in flight
and `rbuf` what `conn.r` has buffered; `out` holds the replies the client has
not read. A command is its verb: only DATA, BDAT, STARTTLS and QUIT change who
reads the socket, so the others are `CMD`, and `LONG` is a line over the limit.
`BADBDAT` is a BDAT that may be refused without reading its chunk (its size
does not parse, or exceeds `maxBDATChunk`), `BDAT0` one of no bytes. `BODY` is
the content of one DATA (with its terminator) or of one chunk. A reply carries
the number of its command, which the client has from counting. Each line knows
whether it was sent in the clear.

| Actions | Code |
|---|---|
| `ReadCommand`, `ReadCommandFails`, `Enqueue`, `SendCancelled`, `Resume`, `PauseEnds` | the loop of `readCommands`, one action per blocking point |
| `Banner` .. `Take`, `EventsClosed`, `SeesCancel`, `Farewell` | `handleConn`: banner, select, QUIT and shutdown |
| `Interim`, `ReadContent`, `Handshake`, `CallbackReturns`, `Signal`, `WriteReply` and their failures | the steps of a handler: intermediate reply, body, handshake, callback, deferred token, reply |
| `WatchdogCloses`, `Shutdown` | the watchdog goroutine, `Server.cancel` |
| `Client*` | the peer: pipelines, waits for 354, closes or goes silent at any time |

A read deadline may pass whenever a reader finds nothing to read, message
content included. Content can then come late, and a `BADBDAT` can leave its
chunk behind: the reader takes what it finds for commands (`Parsed`: any
command), and the client, which counts replies, may take the answers to it for
others (`Mistaken`). The history variable `strayed` says whether, and why first,
this has happened: a failed read (`late`) or a BDAT refused unread (`unread`).
`writeTimeout` is whether `Server.WriteTimeout` is set; without it, the default,
a write waits for as long as the client leaves its window full.

### Session and Transaction

`Session` runs one handler per step, to the write of its reply. `code` of a
step is what the `Handler` callback answers; 503 also stands for a nil answer.
`open` turns false when the client hangs up, after which writes fail. `handled`
is the message the last command gave to `Handler.Data`. What a refused or
failed BDAT leaves of its chunk in the stream is a matter of `Connection`.
`Add` is addition of `int`, so that a declared size near the maximum wraps.
`Transaction` knows only the greeting, TLS, the open envelope, the delivered
message and the last reply; `Session!T` maps the one to the other.

### Server and Program

`conn[c]` follows a connection from the backlog through the semaphore, the run
of its session and its two deferred calls. `waiter[w]` is a goroutine inside
`wg.Wait`: `WaitGroup` is modelled with its registration, wake-up and the check
after the wake-up, because its panic on reuse is observable. `owed` is a history
variable: the sessions that ran when a wait was started. `Program` adds the
signal goroutine of the shipped programs in both orders: `CloseFirst` for
`cmd/test-server` and `examples/s3`, otherwise `examples/postcat-only`.

### Postcat and MailStore

Each call of `Write` is a process; its steps are the calls on the file system,
and `Fail` is the deferred cleanup of an error before or in the rename. `entry`
and `content` are what processes see of a file, `entries` and `contents` every
state the disk may have: a write adds one, a sync leaves only the last, and
`PowerLoss` picks. A sync of a file says nothing of its name. `dirSync` is
whether the file system can sync a directory; `SyncDir` may fail even so, and
the call returns the same. `Crash` also stands for the exit of `main` over
running sessions (`Program`). Calls that have not begun when the process dies
are those of the next run on the same directory. File names are taken as unique
(time and random bytes). `MailStore` keeps only which messages are visible,
which are safe and what each call returned; `kept` and `lost` are history.

### PostcatFile and Replay

A file and a stream are sequences of symbols: CR, LF, a dot, another character,
an 8-bit one, the angle brackets; a verb or a record's letter is one symbol.
`Split`, `Separators` and `Parse` follow the code's own steps. The timestamp of
an envelope is left out, and so is an address with a `>`, which the parsers of
MAIL and RCPT take for the end of the path.

`pc` is where the client is in `replay`, named after the reply it waits for;
`todo` are the recipients, later the body lines, it has yet to send. `wire` and
`replies` are the two directions of the connection, `phase`, `from`, `to`, `buf`
and `skip` the session's side. `taken`, `handled`, `disturbed` and `late` are
history: what was read since the last 354, what the handler accepted, whether
anything but the message itself could have made the replay fail, and whether a
deadline has passed amid the content.

| Actions | Code |
|---|---|
| `Start`, `DialFails` | `replay` up to the dial, with its checks for recipients and a body |
| `Expected`, `ReplyContinues`, `Refused` | `expect`: a final line, a continuation, another code or the end of the stream |
| `SendEhlo` .. `SendData`, `SendQuit`, `QuitEnds` | the dialogue of `replay` |
| `BeginBody`, `SendLine`, `SendDot`, `WriteFails` | `sendBody` |
| `Greet`, `Serve*` | the replies of a session to this client; the order of commands is checked in `Session`, and this client keeps to it |
| `KeepLine`, `LongLine`, `SkipLine` | the loop of `readDotUnstuffed`, one line a step |
| `RejectContent`, `AcceptContent` | the end of `handleData`: 500, 552, 550 for 8-bit, or the handler's answer |
| `ContentDeadline`, `ContentCut`, `CommandCut` | a deadline or the end of the stream, which loses the part of a line that had come |
| `ServerCloses`, `LinkFails` | the session's end, and a failure that both ends come to see, with what is under way cut anywhere |

The initial states also hold another client, with its 354, that sends any short
content. What comes after a deadline in the content is read as commands here
too, so that `OkDelivered` and `NeverPartial` are checked against it. A body
with MAIL, RCPT and DATA lines of its own is then delivered in part
(`Spilled`); `NeverPartial` names this case and shows that there is no other.

### S3Handler and Delivery

`step` is the program counter of a call of `Data`, each of which takes the
time, a writer from the pool or a new one, copies, closes, puts the writer back
and uploads. A writer (`compress/gzip`, external) holds what it was given in
`pending` until `Close`, which adds it to the buffer of the call it was last
`Reset` to (`target`); this is what makes a shared writer visible. Its writes go
to a `bytes.Buffer` and never fail, so the error returns around them are not
taken. The key is the second and four bytes of the hash of the content, which the
constant `Digest` stands for: nothing is assumed of it, and two contents may
share it. A PUT is atomic; one that failed for the caller is in `late` and
may arrive at any time, also after the process is gone. In `Delivery` a call
that answered 250 goes on to `Postcat`'s `Write`; `Stop` ends both with the
process or with the machine, and the bucket outlives it.

## Runs

| Run | Question | Result |
|---|---|---|
| `conn` | the safety of the hand-over, of content and of order, in every interleaving | holds |
| `connlive` | does every connection end, with and without a `WriteTimeout`? | holds, but for a write without a deadline |
| `conn_late` | is content that misses its read deadline kept from the command parser? | violated |
| `conn_pipelined` | are commands pipelined behind STARTTLS always discarded? | violated |
| `conn_idle` | is an idle client closed on every kind of listener? | violated |
| `session` | state in step, size limit, refinement of `Transaction` | holds |
| `server` | accounting, cap, drained results, termination of `Serve` and `Shutdown` | holds |
| `replay` | does a stored message cross the wire whole, once and with a true verdict? does every content end where it should? does every replay return? | holds |
| `delivery` | is what was acknowledged stored and unmixed, and on disk only if in the bucket, keys that collide apart? | holds |
| `postcat` | is the message store atomic and durable through failures, crashes and power loss? | holds |
| `server_wait` | can waiting in `Shutdown` end the process? | violated |
| `program` | do sessions in flight survive SIGTERM until they end or time out? | violated |

Bounds, and why they are enough:

- `conn`: channel capacity 2 (32 in the code), three commands, one unread
  reply, a plain listener. Three commands fill the channel with one more in the
  reader's hand, and put a takeover command before and behind an ordinary one;
  one unread reply is enough to block the worker or to make its write fail. Once
  content has strayed the client sends no third command (`MaxAstray`): what is
  left of one content is read as one more line, of any verb. An implicit TLS
  listener differs in the banner only, before the reader starts; `connlive` and
  `conn_idle` have it, and the theorems cover it. `WriteTimeouts` is `{TRUE}` in
  the safety runs, because a write that can fail has every behaviour of one that
  cannot. `connlive` has both, and uses capacity 1, two commands and one reply,
  where every blocking point (full channel, full window, pause) is still reached.
- `session`: two addresses, two bytes (one 8-bit), a limit of 2 bytes, a chunk
  limit of 3, a largest `int` of 5, so that 2 + 4 overflows; two of three
  recipients within the limit; accepting and refusing handlers. TLS is
  available and required; sessions start with and without it.
- `server`: two connections, one slot, two calls of `Shutdown`: one connection
  is rejected while the other runs, and two waits and the one of `Serve` sleep
  on the same counter. `CHECK_DEADLOCK FALSE` because the server stops.
- `replay`: every body of up to three symbols of {x . CR LF}, and chosen ones
  (a long line, a body that looks like an envelope, one with MAIL, RCPT and
  DATA lines, 8-bit, a null sender, line ends in an address, no recipient);
  every raw content of up to four symbols from another client; `MaxLine` of two
  symbols, no size limit or one of three (a character and its CRLF). A
  terminator needs three symbols, so four reach every near miss (`. LF`, `. CR
  x`, `CR . LF`). `CHECK_DEADLOCK FALSE` because a replay ends.
- `delivery`: two calls, of one message (a retry) or two, two writers, two
  seconds. Two calls suffice for a shared writer, a shared second and an upload
  that arrives late behind a retry; the theorems lift the bound. `MCDigest` lets
  all contents of the last second collide and those of the others not, so that
  both sides of `Clash` occur.
  `CHECK_DEADLOCK FALSE` because calls end.
- `postcat`: three calls: two that overlap, so that one syncs the directory for
  the other, and one that begins after a crash. Files are independent but for
  the directory sync.

Fairness: every goroutine that can run does (weak fairness of the steps of
reader, worker and watchdog, of the accept loop, the deferred calls and the
waits), timers fire, and callbacks return. Nothing is assumed of clients, of
the owner of the listener, or that anyone calls `Shutdown`. In `Server`, a
session ends when its context is cancelled; that is `ShutdownDrains` of
`connlive`. In `Replay` the client and the session keep working (weak fairness of
each); deadlines, stops and failures of the link may never come. `Finishes` rests
on the target answering or closing: the client has no timeout, and would wait
for ever for a target that goes silent.

### What the passing runs show besides

- A stored message with 8-bit content is refused on replay with 550: the session
  that took it was told BODY=8BITMIME, the replay client never says so. Lines
  over the limit after stuffing and bodies over the size limit fail likewise
  (`Transferable` names all of them).
- A replay that reports FAIL may have been delivered: the reply, or the write of
  the QUIT, was lost. Only OK is conclusive (`OkDelivered`).
- Two identical messages in one second have one S3 object, and so may two
  different ones whose hashes agree in four bytes: the later upload replaces the
  earlier, acknowledged one (`Clash`). `AckedIsStored` and `CopyIsStored` hold
  for every other message.
- With `WriteTimeout` zero, its default, a client that stops reading holds its
  connection until a shutdown: the worker waits in a write, the reader on the
  full channel, and no deadline is running (`StuckWrite`). `docs/spec.md` L2 says
  that zero means no deadline; L3 makes no such exception.
- A BDAT whose size does not parse (`smtp.go:776`) or exceeds the chunk limit
  (`smtp.go:718`) leaves its bytes in the stream, where they are read as
  commands. `ContentNeverCommand` shows that no other refusal does.

### What the violated runs show

- `conn_late`: after the read deadline passes in a body or a chunk the handler
  answers 451 (`smtp.go:654`, `802`) and the loop goes on. What the client
  sends late is then parsed as commands. The documents say a read timeout
  closes the socket.
- `conn_pipelined`: when the handshake fails, `handleStartTLS` closes the
  socket and returns to the loop with the old buffer (`smtp.go:526`); what was
  buffered in the clear runs until the reader meets the closed socket. After a
  successful handshake the buffer is replaced, and `ClearNeverTrusted` holds.
- `conn_idle`: on an implicit TLS listener the first write performs the
  handshake, and no read deadline has been set (`smtp.go:98`). The same write in
  the accept loop, for a client over `MaxConnections` (`gateway.go:383`), is why
  `ServeReturns` is claimed for plain listeners only: there the loop is stuck.
- `server_wait`: `Shutdown` does not close the listener. If the last session
  ends, wakes the waiting goroutine, and `Serve` counts a new connection before
  that goroutine has looked at the counter again, `WaitGroup` panics.
- `program`: the listener is closed before the context is cancelled, so `Serve`
  takes its error branch and `main` returns over running sessions. With
  `CloseFirst = FALSE` the order is right, and what is left is a `Shutdown` that
  comes before `Serve` has made the context: it consumes `shutdownOnce` without
  cancelling anything.

Each property of a passing run has a mutant: an operator that changes a mapped
definition the way a plausible bug would, and that makes the property fail.

## Proofs

The theorems hold for every value of the constants that satisfies the named
assumptions (`QueueDepthAssumption`, `SizeAssumption`, `LimitAssumption` ...):
positive capacities, the sum of size and chunk limit within an `int`,
`RequireTLS` only with TLS available, finite sets of connections and callers.

- **ConnectionProofs.** `HandoffInv` is the inductive invariant: a takeover
  command is the last in `events`, and while it is queued, runs, or its token is
  pending, the reader is paused or gone and the other two do not exist.
  `ExclusiveRead` alone is not inductive: that the worker reads only while the
  reader is paused needs that the token of an earlier takeover is gone.
  `SignalNeverBlocks` and `NoLostWakeup` follow from the same argument.
  `ClearInv` gives `ClearNeverTrusted`: what is in flight turns from clear to
  secret once, at the ClientHello (`TurnInv`); the handshake takes that off the
  stream, drops the buffer, and by `HandoffInv` finds the channel empty and the
  reader paused, so from then on everything that was received is secret.
- **ConnectionStreamProofs.** `ContentNeverCommand` and `InOrder`, for every
  client and timing; what they claim ends where content has strayed, which the
  code lets happen in two ways (`strayed`). `StreamInv` is inductive: it looks
  at the whole way from the worker over the channel, the reader's hand and its
  buffer to the network as one stream (`PipeInv`), where content lies directly
  behind the chunk it belongs to, or alone before a worker that has asked for
  it; the other parts say that the commands in it are numbered without a gap
  (`NumbersInv`), what the replies on the way allow the client to do (`OutInv`,
  `RoleInv`, `TalkInv`), and where a handshake may begin (`HelloInv`,
  `StartInv`). `CountInv` adds that replies are numbered like their commands.
  So each command the worker takes is the next one, but for those that a
  handshake discards and, after a cancel, the notice of an over-long line.
- **SessionProofs.** `TxInv` is inductive with the types; `SizeLimit` needs in
  addition that the buffer is within the limit, so that the sum wraps only for
  sizes above the chunk limit, which `readNBytes` refuses. For
  the refinement of `Transaction`, each handler, with every outcome, is by the
  types, `TxInv` and `SizeLimit` a step of the abstract transaction or leaves
  its state alone.
- **ServerProofs.** `Counted` joins the types with `Accounting` (a counter that
  is decremented is positive because its connection is counted), by cardinality
  lemmas; `CapRespected` follows. `WaitInv` says what a wait owes: the sessions
  of `owed` are running or gone; once woken, all gone; and no session is added
  behind a loop that drains. `ShutdownNilDrained` and `ServeNilDrained` follow.
- **PostcatProofs.** `IInv` says that the cache is one of the states the disk may
  have and a possible final name an actual one (`DiskInv`), that from the sync
  on every copy of the content is whole (`ContentInv`), and what name each
  program counter implies (`PlaceInv`). `WholeOrNothing` alone is not inductive:
  it needs what the disk may have, before the power fails. The refinement has
  one step per action: the rename is `Appear`, the return is `Succeed`, and
  everything else is invisible.
- **DeliveryProofs.** `IInv` follows one message through the handler: a writer in
  use belongs to one call, is outside the pool and points at that call's buffer
  (`WriterInv`); so the content is in the writer, then in the buffer, alone
  (`ContentInv`); so every upload, stored or late, is some call's whole message
  under the key made of it (`BucketInv`), and storing it replaces an object only
  by its equal or by that of a call it clashes with. None of the properties is
  inductive without these. `CopyInv` adds that a
  call without a 250 has nothing on disk, whatever the machine loses. Every step
  is also a step of `Postcat`'s `Write` or leaves its files alone
  (`CopiesImplementPostcat`), so what `PostcatProofs` shows holds of the copies
  (`CopiesKeepPromises`) and their types follow (`TypeCorrect`).
- **ReplayProofs.** `OkDelivered` by `OkInv`: the reply that follows a 354 answers
  the content, so the 250 that the client takes for its message comes from the
  handler, whatever else has been lost. `RoundTrip` is about data of any length
  (assumption `MessagesAssumption`: the fields are sequences of symbols).
  `NatInductive` is induction over a set of numbers, from the pigeonhole
  principle for finite sets; from it `SeqInductive`, that a function written by
  recursion over a sequence exists, and so what `Split` and `FlattenSeq` do to
  a sequence one element longer. `RecipientsRead` then reads the records back
  one by one, `BlankLineFound` shows that no blank line comes before the one
  that ends the envelope, and `ParseInverts` puts the two together. `EndOfData`
  and `AcceptedAsSent` hold of any client: what was kept is the decoded text of
  what was read since the 354, line by line, and no line of it is a dot
  (`ReadInv`, `EndInv`, on the types in `Typed`).
- **ReplayDialogueProofs.** `NeverPartial` by `NeverInv`. It says what is under
  way at each point of the client: the one command it waits for an answer to is
  unread, with no final reply under way (`Unread`), or has been read or cut, and
  only if it was granted has the session accepted the part of the envelope that
  was sent (`Waiting`, `Accepted`). In the content, the lines the session has
  read and those on the way make up what the client has sent of the body, and
  with those to come the whole (`IsReading`, `Content`); `WholeIsNormalised` is
  the same fact about the text. Once the content has ended, nothing on the way
  is a DATA that could be served (`Harmless`). After a deadline this holds only
  of a body without DATA, and without a deadline the content ends early only when
  the connection is gone (`Cut`), so nothing more of it comes: hence the exception
  `Spilled`, and no other. `AddressAssumption` keeps `>` out of addresses, at
  which the parsers of MAIL and RCPT end a path. `FailsForCause` needs no
  hypothesis: by `CalmInv`, while nothing disturbs a message that can be
  transferred, each reply is the one the client waits for (`Smooth`).

Only model-checked: the liveness properties (liveness under fairness is outside
the prover). Every invariant and every action property that a passing run checks
is the statement of a theorem.

## Not modelled

Logging, configuration options and their defaults, for the library and the S3
example; the syntax of command arguments but for the paths of `Replay` (its
outcome is a choice in `Session`); the loop and the flags of the replay program;
read-only inspection tools, benchmarks and end-to-end scripts. A second `Serve`
on one `Server` is excluded by `docs/spec.md` S11. Memory races between Go
goroutines are modelled where the outcome differs (`s.cancel` read by `Shutdown`
while `Serve` sets it); the watchdog's read of `conn.netConn` during the TLS
upgrade closes the same socket either way.

## Plan

Done, in the order planned: the connection, the session, the server, the
programs, the message store; then the message file, the content of DATA and the
replay client (`PostcatFile`, `Replay`), the S3 handler and its composition with
the store (`S3Handler`, `Delivery`), with proofs of every safety property. Left:

1. The remaining parsers (`parseBdatArgs`, the parameters of `parseMailFrom`,
   `validateHeloDomain`) over bounded inputs.

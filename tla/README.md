# Verification of quickjs-runtime

TLA+ specifications of the C++ code in this repository, checked with TLC on small
instances and, where it says so, proved with TLAPS for every value of the constants. Paths
below are relative to the repository; headers are under `src/include/` in `PROJECT.json`,
which maps each definition to the lines it stands for.

## The system

The repository embeds QuickJS in C++20: a JavaScript runtime whose asynchronous
functions are stdexec senders, driven by a boost-asio `io_context`, with a Web API
(fetch, streams, abort signals, timers, URL, form data) and an HTML selection library on
top.

| Component | State it keeps | Operations | Hard behaviour | Correct when |
|---|---|---|---|---|
| `co::mpsc` channel (`dart_cpp_bridge/channel.hpp`) | buffer, list of parked sends, slot of the parked receive, `closed`, sender count; per operation its node, stop callback and flag | send, recv, try_send, try_recv, clone and drop handles, close, stop, destroy | every operation is completed by one of four threads, outside the lock | it is a FIFO; each operation is completed once and told the truth; nobody waits in vain |
| `co::oneshot` (same file) | value or error, waiter, settled, detached | send, send_error, close, receive, destroy | settling and starting race; completion outside the lock | it is a single assignment, seen once |
| sleep (`dart_cpp_bridge/sleep.hpp`) | a control block shared by the timer callback and the operation | start, callback, destroy | destruction racing the callback, from any thread | no callback in a destroyed frame; every destructor returns |
| stream combinators (`dart_cpp_bridge/stream.hpp`) | a pull source, counters and flags | map, filter, flat_map, take, skip, take_while, skip_while, scan, zip, merge | a `next()` that suspends, or is stopped, half-way | the items are those its name promises |
| event loop (`qjsbind/loop.hpp`, `context.hpp`) | `pending_`, `done_`, `shutdown_done_`, scope, `io_` | spawn, run, run_to_completion, stop, shutdown, ~Runtime | leaving the loop at the right time, closing in the right order | nothing is left behind, and every shutdown returns |
| timers (`qjsbind/web/timers.hpp`) | one registry for the process, one asio wait per timer | setTimeout, setInterval, clear | a handler that is queued cannot be cancelled | what is registered fires, a timeout once |
| promise settlement (`qjsbind/promise.hpp`) | the two resolving functions | resolve, reject, abort | completion on another thread, settlement on the loop's | with the loop |
| ReadableStream, tee, body sources (`web/stream.hpp`) | queue of pending reads, error, cancelled, source | read, cancel, tee, consume | reads, cancel and the abort signal around an asynchronous source | every block once, in order; the source lives as long as a branch needs it |
| Request, Response (`web/request_response.hpp`) | the body stream, the cached `body` and `headers` objects | construct, clone, text/json/formData/..., getReader | trees of tees, bodies shared and replaced | one consumer per body, and it gets all of it |
| fetch and its client (`web/fetch.hpp`, `fetch/client.hpp`, `types.hpp`, `url_check.hpp`) | the request that is being redirected, the promise | fetch, follow redirect, abort | method and body across redirects, an abort at any point | requests are what the statuses allow; the call ends as it was told to |
| middleware (`fetch/middleware.hpp`) | decoder and digest state | read | blocks split anywhere, truncated data | decoded whole or reported broken |
| transport, SOCKS5 (`src/fetch/*.cpp`) | socket, step of the exchange | resolve, connect, handshake, write, read | failure or abort at every step | no socket is left open |
| AbortSignal, EventTarget (`web/abort.hpp`, `events.hpp`) | aborted, listeners | abort, dispatch, timeout, any | listeners that abort, combine and listen | `any()` follows its sources |
| URL and params, headers, forms (`web/url.hpp`, `headers.hpp`, `formdata.hpp`) | lists of named entries | append, set, delete, iterate, encode, parse | two views of one state; iteration under edits; round trips | the views agree, what is sent arrives |
| cheerio (`qjsbind/cheerio/*.hpp`) | a document, a selection | $, find, filter, closest, siblings, ... | matching with backtracking, order and duplicates | a selector selects what it denotes |
| conversion, class binding, blobs, encoding, command line | | | C++ lifetimes, tables | not modelled |

Senders and channels connect threads: a worker completes a sender or sends on a channel,
`continues_on` posts the rest to `io_`, and the loop's one thread settles promises and
runs scripts. `shutdown()` closes that from the other side: it asks the scope to stop,
drives `io_` until `pending_` is 0, cancels the timers and joins the scope. A fetch is such
a task: the binding takes the body of its request (a branch of a tee), the client loops over
redirects, each hop goes through the middleware to the transport, and the response's body is
a stream over the sources of the middleware over the socket. An abort signal reaches the
socket and every stream of the body.

## Modules

| Module | Models | Checked by | Proved in |
|---|---|---|---|
| `MpscChannel` | `co::mpsc`, `channel.hpp` 375-1336 | `MpscBounded`, `MpscRendezvous` | `MpscProofs` |
| `FifoChannel` | what a channel promises: an atomic FIFO with capacity and close | refined by `MpscChannel` | `MpscProofs` |
| `Oneshot` | `co::oneshot`, `channel.hpp` 92-338 | `Oneshot` | `OneshotProofs` |
| `Once` | what a oneshot promises: an outcome decided once, seen once | refined by `Oneshot` | `OneshotProofs` |
| `Sleep` | the control block and both backends of `sleep.hpp` | `SleepThreads` | `SleepProofs` |
| `Timers` | `timers.hpp` and the asio waits and handlers under it | with `EventLoop` | `EventLoopProofs` |
| `EventLoop` | `loop.hpp`, the `Runtime` of `context.hpp`, spawn of `promise.hpp` | `LoopService`, `LoopRound`, `LoopDestroy` | `EventLoopProofs` |
| `ReadableStream` | `web/stream.hpp`, the network source of `beast_transport.cpp` behind it, one `clone()` | `StreamTee` | `ReadableStreamProofs` |
| `Bodies` | the bodies of `request_response.hpp`, with `stream.hpp` and `fetch.hpp` where they touch them | `Bodies`, `HeaderSync` | `BodiesProofs` |
| `Fetch` | one call of `fetch()`: `web/fetch.hpp`, `client.hpp`, `beast_transport.cpp`, `socks5.cpp` | `Fetch` | `FetchProofs` |
| `Decoding` | the sources of `middleware.hpp` under a response; `Fetch` extends it | `Fetch` | `FetchProofs` |
| `Abort` | `abort.hpp`, `events.hpp` | `Library` | `LibraryProofs` |
| `Combinators` | `dart_cpp_bridge/stream.hpp` | `Library` | `LibraryProofs` |
| `UrlParams`, `Headers`, `Forms` | `url.hpp` and `utf8.hpp`; `headers.hpp`; `formdata.hpp`; all over `Entries`, the list of named entries they share | `Library` | `LibraryProofs` (`UrlParams`, `Headers`) |
| `Selection` | `lexbor_match.hpp`, `lexbor_api.hpp`, `cheerio.hpp` | `Library` | |

An `MC...` module gives the constants of the module it is named for their small values.
`MCLibrary` puts the six parts that share no state into one run: a behaviour picks one of
them (`topic`) and stays with it, so that their state spaces add up. The `Mutant...`
operators beside a definition are faults of the kind a change to that code could bring;
nothing uses them in the specification, and each one is known to break a property, which
shows that the property looks at that code.

### MpscChannel

A send operation stands for the value it carries. Each section under `State::mu` is one
action (`SendDirect`, `RecvValue`, `OnStop`, `CloseLocked`, ...), chosen by what the
section finds; what the code does after the unlock is one action per call that another
thread can see: completing a partner (`CompletePartner`), waiting for a stop callback
(`Unregister`), completing itself (`OwnSignal`). `pc` is the position in `start()`,
`outcome` the enum the section chose, `stage` the node's stage, `owes` the partner whose
completion the thread still has to deliver. `cb` and `token` are stdexec's
`inplace_stop_callback`: registering with a stopped token runs the callback inline, and
deregistering waits for one that is running on another thread.

* `NodesSound`: list and slot hold the parked operations, each once, and nothing in the
  channel, in another thread or in a stop callback refers to one that is over.
* `NoLostWakeup`: no send is parked while there is room, no receive while there is a value.
* `CompletedOnce`: a claimed operation is owed exactly one completion, by one party.
* `TellsTruth`: what an operation reports is what happened to its value.
* `StartedSettles`: an operation that was stopped, or had started when the channel closed,
  completes.
* `ImplementsFifo`: with `buf` and the parked sends mapped to one queue, the code implements
  `FifoChannel`: values come out in the order of their acceptance, accepted ones are not lost
  except with the receiver, and refused ones never come out.

### Oneshot

The fields of `State`, where the owner of the `Sender` stands (`tx`) and the life of the
receiver's operation (`op`). A section under `mu` is one action (`Send`, `Start`, `Destroy`,
...), the completion that follows the unlock another (`Deliver`, `Complete`). `apart` says
whether the two ends run on one thread, where calls of one side come between those of the
other but not inside them, or on two. There the operation may be destroyed at any time, also
between `settle()`'s unlock and its `deliver()`, which then completes what is no more.

* `StateSound`: whom `settle()` calls back after the unlock is an operation that still waits,
  or one that the other thread destroyed since the unlock (`DestroyedInFlight`: the code does
  not rule it out, see "What the code does not keep"); none is completed twice, before
  `start()`, or after a destructor that found it in the state.
* `SendTellsTruth`: `send()` answers true for the one value that can be received, and false
  for every value that never will be.
* `WaitEnds`: an operation that waits is completed or destroyed.
* `ImplementsOnce`: the refinement of `Once`, with what was written into the state as the
  outcome and what the operation completed with as what was seen.

### Sleep

One control block per sleep: `done`, `in_flight`, `completing_thread`, the receiver. `Begin`
and `End` are `begin_completion()` and `end_completion()` with the continuation between
them; `Abandon` is the destructor, run by an owner or from a continuation. `RunsOn` says
which threads run a callback: one each (`thread_sleep`) or the io threads (`asio_sleep`).
`Destroys` says whose continuation may destroy which sleep; it is a partial order here.

* `CallbackSound`: a callback runs in a frame that is there, counts itself in, and delivers
  once or not at all.
* `NeverCompletesLate`: a destroyed sleep is not completed.
* `SleepSettles`: every destructor returns and every sleep ends.

### Timers and EventLoop

`Timers` has the registry (`timer_map`), the outstanding asio waits (`armed`), their
`expiry` against a clock, and each `io_context`'s queue of handlers (`ready`). An asio
fact matters: a wait becomes a queued handler only inside `run_one`/`poll_one`
(`Expire`), and `cancel()` does not reach a queued handler. Aborted handlers do nothing
and are left out.

`EventLoop` adds one thread per runtime. `phase` and `loop` are its position in
`run()`, `run_to_completion()` or the cancel loop of `shutdown()` (each of them `check`,
`pump`, `poll` in its own order); a job may throw, which ends the pump with the jobs behind it
queued (`JobThrows`). `js` says it is inside a script, which then may schedule
and clear timers, spawn tasks and queue jobs in any number before it returns. A task is in
flight, then posted (its `continues_on` hop is queued), then settled. `SpawnIn` and
`TimersIn` say which scripts (evaluated by the host, a job, a timer's callback) start
something.
`poll_one()` is taken to return 0 only when nothing is queued, and `run_one()` to block
until something is: on a stopped `io_context` both may return earlier.

* `CountsExact`: `pending_` is the number of tasks in flight.
* `InTurn`: nothing blocks with a job left to pump, and `run_to_completion()` leaves only when
  nothing is in flight and no job is left; but for the jobs behind one that threw in the pump
  just before (`threw`).
* `RegisteredWillFire`, `OneShotOnce`: a registered timer has a wait or a handler on its way;
  a timeout is called once.
* `RoundLeavesNothing`: after a round no timer and no task is left but those that were started
  too late to be swept, and no forgotten wait but that of an interval. `late` collects what
  was started after the last sweep: after the cancelling loop for tasks, after the registry was
  cleared for timers, and after the first `shutdown()` for both. It is empty in a runtime of one
  round whose scripts start nothing from then on; what it holds otherwise is listed under "What
  the code does not keep".
* `ShutdownReturns`, `StopEndsTheRound`.

### ReadableStream

The streams of one body: `Body`, whose source is the network's, and, once `Clone` has
replaced it, `Branches`, whose sources are the two sides of a `TeeSource`. All of it runs on
the loop's thread, but `read()` is a coroutine that is resumed through the queue of `io_`.
So a read is several actions: `Read` looks at the stream and asks the source (`pulls`),
`Answer` ends the source's read and queues the resumption (`hops`), `ResumeTee` and
`ResumeRead` are what the tee and the stream make of it, each of them a loop that may start
over. Cancels, stops, other reads and collected objects come between any two of them.
`Abort` is the stop of the fetch, whose callbacks post `OnStop`; `SourceStop` is the source's
own callback. The source answers a read with the next block, the end or an error, and
may answer it as stopped once it was cancelled. `got` records what the reads of a stream
have returned.

* `EveryBlockOnce`: what a stream's reads returned, what it and its branch hold and what is
  on its way are the blocks of the source, in order and each once (a cancelled branch has a
  prefix of them); and a read reports the end only after the last block, unless its stream
  was cancelled.
* `SourceFollowsBranches`: a branch does not take the source from the other, and the last one
  to close cancels it.
* `StreamSound`: types, and the promise `closed` is pending exactly while the stream is
  readable.
* `ReadsEnd`: after `on_stop()` no read returns a block or an end, and once the source is
  cancelled every read that waits for it ends.

### Bodies

Where `ReadableStream` has one body and every interleaving inside a read, `Bodies` has every
way to make a body out of another and one block per step. `streams` are the
`ReadableStreamImpl`s as trees: `Extract` (the body of another object's stream, in `clone()`,
`new Request(r)` and `fetch(r)`) gives the stream a tee, the object one branch and the new
object the other; `RequestOver` passes `init.body`, `RequestOverNull` shares the stream.
`objects` have the cached `body` and `headers` objects beside the fields they were made from;
`calls` are `text()`, `formData()`, ..., and fetches that read their stream block by block.
`CancelBody` and `CancelReader` are a script's `cancel()`, of a stream that a call reads as
well: it marks the stream as read and as `cut`, and the call ends there. A branch that is
cancelled leaves the other one its source. `spoiled` names the bodies that a script has taken
around the checks (read by a reader after `releaseLock()`, read or cancelled through a `body`
object of before `clone()`, `body: null`).

* `WholeBody`: each consumption gets the blocks in order, and all of them unless its own stream
  was cancelled; what is not used is whole, and nobody has cancelled it.
* `ConsumedOnce`: of the calls on one object only the first is served.
* `UsedIsForGood`: `bodyUsed` never goes back.

### Fetch and Decoding

A call goes through `Begin` (the checks of the binding and the port check), possibly the
draining of a request body, and hops. `Path(u)` is the list of operations an exchange with `u`
awaits: resolve, connect, the SOCKS5 messages, the TLS handshakes, write, read. Each is
waiting until it is `Complete` (ok or error) or `Abort` cancels it, and its result is looked
at in a later step (`Advance`, `Fail`, `Answer`): the resumption goes through the queue of
`io_`, so an abort may come in between and finds nothing to cancel. `Answer` chooses among
all responses (status, location, coding): a redirect that is an error, followed, or
opaque, a final response with or without a body.

`Decoding` is the body after that. Bytes are counted: the first `i` input symbols of the
coded body decode to `Ends[i]` bytes, and the last one ends the stream; the decoder itself
(zlib, brotli) is external. `Round` is one turn of the loop of `DecompressSource::read()`, with
`kMaxChunk`, the total limit and output held back by the decoder; `Checked` is
`IntegritySource`.

* `StateSound`: a socket is open only while an exchange or a body needs it.
* `DecodedWhole`: a complete body is returned whole, one that broke off is reported, nothing
  is returned twice or beyond the limit.
* `RedirectsFaithful`: no blocked port, no GET with a body, a method that changes to GET only,
  a body dropped only with it, within the limit.
* `CallEnds`: an abort that cancels an operation ends the call with AbortError, which no other
  call gets; and every call ends.

### Abort

`frames` are the dispatches under way, innermost last: `abort()` runs the listeners inside
the call, and a listener may be a script (`l \in Listeners`), which calls `abort()`, `any()`,
`addEventListener` or `dispatchEvent` in turn, or the function that `any()` added. A change to
the very list a dispatch walks through is left out: the code then iterates over a vector that
is being changed.

* `AnyFollowsSources`: when no dispatch is under way, a signal of `any()` is aborted if and
  only if a source is (or the script faked its event), through any nesting.

### Combinators, UrlParams, Headers, Forms, Selection

* `Combinators`: each `next()` is a call, its awaits of the upstream (`pc`) and what follows
  them; it may be stopped in between. `CombinatorsExact` compares with reference definitions
  on sequences.
* `UrlParams`: a text is a sequence of the characters that the form coding treats apart.
  `ParamsMatchUrl`: the URL's query decodes to the list, whichever side was changed. The loops
  of `from_query` and `percent_decode` are recursive functions over the position they have
  come to, and `form_encode` joins one item after the other.
* `Headers`: the guards, and the iterator that sorts and joins the list again at every step.
  `HeadersExact`: `has()`, `get()`, `getSetCookie()` and iteration agree, but for the names that
  guard `response` hides from the first two, and an iteration under edits gives every header
  that stays.
* `Forms`: the multipart encoder and parser on pieces of text; the body may be cut anywhere.
  `FormsSurvive`: the form that arrives is the one that was sent, or the body is refused.
* `Selection`: a document is a tree with nodes numbered in document order. `match_chain`
  goes from right to left with the code's depth bound, `c_query_all` goes through `MaxNodes`
  nodes and no more; the calls `find`, `filter`, `has`, `closest`, `siblings`, ... map a list
  of nodes to a list. `SelectorsMeanIt` compares `$()`, `find()` from every element, `has()`
  and `:has()` with the meaning of the selector. `Means` gives each test a meaning of its own,
  by the sets of siblings, of descendants and of an + b, and shares nothing with the matcher but
  the tree. `SelectionsSound` asks for no duplicates and document order.

## Runs

Twelve runs, one for each question. Times are of two workers with coverage.

| Run | Properties | States | What it shows |
|---|---|---|---|
| `MpscBounded` | `TypeOK`, `NodesSound`, `NoLostWakeup`, `CompletedOnce`, `TellsTruth`, `ImplementsFifo` | 729k, 160 s | three sends and two `recv()` on a channel of capacity 1, with stops, destruction and `close()` anywhere |
| `MpscRendezvous` | `ImplementsFifo`, `StartedSettles` | 124k, 120 s | capacity 0: every value changes hands directly, between two sends, a `recv()` and a `try_recv()`; two sender handles; liveness |
| `Oneshot` | `StateSound`, `SendTellsTruth`, `WaitEnds`, `ImplementsOnce` | 431, 1 s | every order of the two ends, on one thread and on two, destruction in flight included |
| `SleepThreads` | `CallbackSound`, `NeverCompletesLate`, `SleepSettles` | 6.9k, 5 s | three sleeps, one on a thread of its own and two on an `io_context` with two threads |
| `LoopService` | `CountsExact`, `InTurn`, `RegisteredWillFire`, `RoundLeavesNothing`, `OneShotOnce` | 2.08M, 185 s | two rounds and the destructor, every kind of script starts everything, and jobs throw |
| `LoopRound` | `ShutdownReturns`, `StopEndsTheRound` | 234k, 60 s | one round in which only the evaluated script starts tasks; liveness |
| `LoopDestroy` | `ShutdownReturns` (violated) | | a task spawned after the first round |
| `StreamTee` | `StreamSound`, `EveryBlockOnce`, `SourceFollowsBranches`, `ReadsEnd` | 239k, 85 s | five reads of a body and the two bodies of its `clone()` |
| `Bodies` | `WholeBody`, `ConsumedOnce`, `UsedIsForGood` | 1.61M, 215 s | every way to make, pass, read and cancel bodies, two objects of the script beside the fetches |
| `HeaderSync` | `HeadersSent` (violated) | | a header set through `r.headers` and `fetch(r)` |
| `Fetch` | `StateSound`, `DecodedWhole`, `RedirectsFaithful`, `CallEnds` | 14k, 65 s | a call over direct, TLS and SOCKS5 hops that succeed, fail or are aborted, with a coded body split anywhere |
| `Library` | `CombinatorsExact`, `ParamsMatchUrl`, `HeadersExact`, `FormsSurvive`, `AnyFollowsSources`, `SelectorsMeanIt`, `SelectionsSound` | 548k, 180 s | six parts, one at a time |

`CHECK_DEADLOCK FALSE` stands where the system may stop: a runtime that was destroyed or
whose scripts have nothing left to do, a call or a body that is at its end, a script that has
used up its operations. In the channel and in sleep every stop is the state `Quiescent`, with
a step that stays there, and anything else is a deadlock.

### Bounds and why they are enough

* Channels: `SendOps`, `RecvOps`, `Polls`, `Capacity`, `MaxSenders`. Three sends fill a buffer
  of one and park two, so that order, refill and a withdrawal from the middle of the list
  happen; two receives, so that a second one meets a parked one; capacity 0 is the hand-over
  in both directions. `PlainSends` is a symmetry of operations nothing tells apart; the run
  with liveness uses none. The unbounded channel is the bounded one without parked sends; it
  is in the proofs (`Capacity = Unbounded`) and was run while it was modelled.
* Oneshot: two values, so that a second `send()` is refused while the first is on its way.
* Sleep: three, the least for a continuation to destroy a sleep whose callback is
  queued behind it.
* Loop: two tasks (one settles while the other starts), two timers (an interval and a
  timeout), `Rounds`, `MaxStops`, `MaxJobs`, `MaxTime` of one or two. A settlement and a
  `then()` queue two jobs, so that one is left behind one that throws.
* `ReadableStream`: `Blocks = 2` lets one branch lag and an end or error follow a block; two
  reads of the body and three of its branches, so that two reads of one branch overlap with
  one of the other; `getReader()` on the body only, since readers do the same on every stream
  (the proofs have readers on all of them).
* `Bodies`: `MaxStreams = 5` is a tee of a tee, `MaxObjects = 2`, `MaxCalls = 2` two consumers
  of what was one body, `MaxNew = 1` body made by the script, `MaxEdits = 1` header set,
  `MaxReaders = 1` stream read by a reader and `MaxCuts = 1` stream cancelled before its end,
  so that its sibling is read on. `HeaderSync` needs no cancel and has `MaxCuts = 0`.
* `Fetch`: four URLs, one per scheme and route (direct, TLS over a proxy with a password,
  blocked, data), `MaxRedirects = 2` so that a redirect can follow one and the limit be
  passed; requests of every method, mode and integrity. `Ends = <<1, 4, 4>>` with
  `MaxChunk = 2` has a symbol that fills more than one block and a trailer; `Trailing = 1`
  block follows the end; `Limits` are none and one that the body goes beyond.
* `Library`: upstreams of up to `MaxLen = 3` items, with `MaxStops = 2`; `UrlEdits`, `FormEdits`
  and `HeaderEdits` of two, enough to overwrite or remove what an edit before brought; the
  header names are one for each way the code treats a name, with both that are hidden; `AbortEdits = 4` calls of the script on two controllers and two combined signals,
  so that a signal combined from a combined one is made inside a dispatch; every tree of six
  nodes in three labellings, ten selectors with each combinator and each kind of
  pseudo-class, `MaxDepth = 3` in place of the code's 64 and `MaxNodes = 4` in place of its
  100000, so that both bounds are met: `$()` and `find()` from the root lose the last nodes.

### Fairness

* Channel: a thread inside an operation goes on, and a stop callback that runs ends. Nobody
  has to call anything.
* Oneshot: a completion that is owed is delivered, and an owner lets go of its `Sender`.
* Sleep: timers fire, continuations return, a notified wait wakes up.
* Loop: the thread goes on, scripts return, and a task of a scope that was asked to stop
  completes; no other task has to.
* Streams: `io_` runs what is queued, a stopped token calls back, and a cancelled source ends
  its reads. The peer need not answer and scripts need not call anything.
* Fetch: the coroutine is resumed, and an operation on the network ends, one way or another.
  The second is an assumption about the network: the client has no timeout of its own, and a
  call whose peer keeps silent waits until it is aborted.

## Proofs

All proofs are for arbitrary constants under the `ASSUME`s of the modules, which TLC
evaluates in every run; bounds such as `MaxSenders`, `Rounds`, `MaxTime`, `MaxObjects` or
`AbortEdits` have any value in them.

* `MpscProofs`: `TypeCorrect`, `NodesAreSound`, `NoWakeupIsLost`, `CompletionsAreExact`. The
  invariant is the conjunction of the checked ones with what they need to be inductive: which
  stage an operation has at each `pc`, that list, slot and close list are disjoint and without
  repetition, and that each claimed operation has exactly one party that owes its completion.
  `BothEndsToldTheTruth` rests on a second invariant, `Ledger` (`LedgerIsKept`): a value is in
  the buffer or taken once, what is placed is what was accepted, each outcome fits the place
  of its operation, and every receiver holds a value that was taken. `ChannelIsFifo` is the
  refinement of `FifoChannel`, for every capacity, 0 and `Unbounded` included: each action is
  one abstract step or none, and `Ledger` says which value of the abstract queue it is about.
* `SleepProofs`: `CallbackIsSound`, `AbandonedNeverCompletes`. Who has the receiver, and what
  `in_flight` counts, makes the absence of dangling callbacks inductive; the action property
  follows from it.
* `EventLoopProofs`: `CountsAreExact` needs the shape of the queue: every posted task is
  queued once, on its own runtime, so each is counted out once. `TurnsAreKept` needs that a
  script loop reaches its check with no job left. `RegistrationsFire` and `TimeoutsRunOnce`
  need that a timer's wait and its handler exclude each other. `NoWaitIsForgotten` and
  `RoundsLeaveNothing` say what a round leaves behind, of every number of rounds and whatever
  scripts start: what is in flight or registered once the sweep is over (`LateOnly`) was
  started after it.
* `ReadableStreamProofs`: `StreamsAreSound` needs that what a coroutine is resumed with is an
  answer of the source or of its branch; `SourceIsShared` is inductive with it.
  `BlocksArriveOnce` follows from `Whole`. The blocks a stream has, those that are on their way
  to it, those its branch holds and those on their way to the tee are segments (`Split`) that
  follow on each other from 1 to what the source has given; each step moves one boundary by
  one block. The ends must come last (`EndsLast`), a stream that is closed has every block or
  was given up (`ClosedIsWhole`), and body and branches are never active together
  (`OneFamily`). `AbortedReadsReject` is the safety half of `ReadsEnd`.
* `OneshotProofs`: `StateIsSound`, `SendIsTruthful` and `ChannelIsOnce`, that every step of the
  channel is one of `Once` or leaves its variables alone. The invariant says where the payload
  is between the write and the read of it (`PayloadKept`), that the waiter is in the state or
  in the hands of `settle()` and not in both (`OneWaiter`), and that what was seen was decided;
  an operation destroyed in flight keeps all of it, whether it sees the outcome or not.
* `FetchProofs`: `RedirectsAreFaithful`. The property speaks of requests that were sent, the
  invariant of the locals between two of them: a hop has written its request once, in one
  step, and otherwise holds the method and the body the status before left. `AbortsEndCalls`
  is the safety half of `CallEnds`. `CallStateSound` follows each socket through the steps of
  an exchange, its redirects and the body. `NothingPassesForWhole` holds of every decoder: done
  is reported with all of a body only, and nothing is decoded twice. That a complete body is
  never refused (`BodiesAreDecodedWhole`) needs `Trailer`: the end of the stream is a symbol of
  its own, as the checksum of gzip and zlib is, so that the decoder has input as long as it
  holds output back; without one the code does refuse such a body (same section). The
  invariant, `DecodeInv`, says that what was returned and what the decoder holds back are what
  the input taken in decodes to.
* `BodiesProofs`: `BodyConsumedOnce`, `UsedStaysUsed`. A call belongs to an object that is
  used, a body is replaced only while it is not, and no step takes a mark away. The content of
  the blocks plays no part, so the streams are typed over whatever set they come from.
  `BodiesStayWhole` is about the trees that `clone()` builds. `Roots`, `Chain` and `Remaining`
  are recursive over the streams, each of which branches off one made before it; that such
  functions exist and mean what their equations say is proved once, by the least stream for
  which they would not. What is left for a stream is then followed through a read, which takes
  a block along its chain and hands it to the branches, and through a tee. The invariant
  (`BodiesWhole`) must say that a stream of an unspoiled tree that a call reads or an object
  holds has no branches and is of that call and that object alone: another reader would take
  blocks that `WholeBody` counts on, and a branch would be given some it has already had.
* `LibraryProofs`: `SourcesAreFollowed`. Between the abort of a source and that of what was
  combined from it there is a frame at the source that has not passed the listener `any()`
  added, and a signal that is not aborted has such a listener at each of its sources.
  `CombinatorsAreExact`: what a combinator has given agrees item by item with the reference
  definition (`Agrees`), as long as no call was stopped where that costs items, so that being
  a prefix, and being all of it at the end, is a matter of lengths. The invariant of each kind
  (`TakeAt`, `ZipAt`, `MergeAt` ...) gives that length from the positions in the upstreams and
  from what survives a stop: the count, the flag, the kept item, whose turn it is. `filter`,
  `scan` and `flat_map` rest on functions recursive over a sequence, which exist because there
  is no least length for which they would not (`LineRecursion`).
  `HeadersAreExact`: the entries that `sorted_entries()` gives are those of every name in turn,
  joined (`EntriesAre`), so that the last entry of a name is at the length of what the names
  up to it are joined to. That the three readings agree follows from it. The invariant of a
  live iteration (`StillAhead`) is that it has given a name that was there all along or is not
  past its last entry: a change to one name moves the entries of all names after it by the same
  number, which is negative only when an entry goes. It is assumed of the names that `Keys`
  lists each of them once.
  `ParamsFollowUrl` rests on `FormBack`: decoding what `form_encode` makes of a list gives the
  list. An encoded text holds no ampersand and no equals sign (`EncodeMeans`), so the query is
  split where it was joined (`SplitForm`) and each item at its own equals sign (`ItemMeans`);
  and the decoder, which has read what comes before a character, goes on to read that
  character from the one or three it was sent as (`DecodeEncode`). The invariant
  (`UrlInvariant`) adds the types to `ParamsMatchUrl`. It is assumed of the characters that
  those that are escaped are among them, and that every other one is sent as it is.

Only model-checked:

* liveness (`StartedSettles`, `WaitEnds`, `SleepSettles`, `ShutdownReturns`,
  `StopEndsTheRound`, `ReadsEnd`, `CallEnds`), which with fairness and `ENABLED` is out of the
  prover's reach;
* `FormsSurvive`: what the multipart parser makes of a body that may be cut anywhere. A
  function that is recursive over a number is within reach (see `LibraryProofs`), but the
  parser goes through `Find` on texts that may hold the delimiter, and when it may refuse them
  is part of the property;
* `SelectorsMeanIt`, `SelectionsSound`: `Selection` is recursive over trees and selectors, with
  RECURSIVE operators.

## What the code does not keep

Two runs end in a violation, with the text they contradict in `PROJECT.json`:

* `LoopDestroy`: a task spawned after the first round makes the next `shutdown()` wait for
  ever in `sync_wait(join)`, on the only thread that could run the completion.
* `HeaderSync`: `fetch(r)` synchronises the headers object of its own copy of the request,
  which is empty, and not that of `r`; a header set through `r.headers` is not sent.

The rest was seen while modelling, in the code or in instances that are easy to set up again.

Loop, timers and sleep
* Only the first `shutdown()` clears timers; a timeout of a second round survives the round
  and the runtime. (This and the next item are what `late` and the intervals of
  `ArmedIsRegistered` stand for: `LoopService` meets them, and violates `RoundLeavesNothing`
  without either exception.)
* A job that throws ends `pump_js_jobs()` (`loop.hpp` 42-52, "drained at one go" in 41): the jobs
  behind it wait until a handler has run, and `run_to_completion()` with nothing in flight
  returns without them.
* A timer that is due together with the last task calls back after `shutdown()` has cancelled
  it, and an interval then arms itself again with no id left to clear it; the same happens to
  `clearInterval` called while the handler is queued. A rejection handler that starts another
  task in the last pump leaves it in flight at the join, which waits for it (`LoopRound` with
  `SpawnIn <- Scripts` violates `ShutdownReturns`).
* An interval repeats at once: `run_timer()` waits again on a timer whose expiry has passed
  (`timers.hpp` 69-71).
* The registry is one for the process: with several runtimes any round's end clears it.
* Two sleeps whose continuations destroy each other deadlock (`SleepThreads` with a cycle in
  `Destroys`), where `docs/exec_timer_sleep.md` 122-123 has the destructor safe from any thread.

Oneshot
* The continuation that `deliver()` runs may destroy or assign to the `Sender` whose call is
  running it, before that call has reset `state_`. A receiver that was never connected does not
  count as detached: `send()` answers true.
* An operation that is destroyed on another thread between `settle()`'s unlock and the
  completion is completed all the same. `channel.hpp` 102-104 has a `settle()` that meets a
  destroyed waiter fail, and 272-275 the destructor see to it that a late `send()` "never
  touches a destroyed opstate". The trace: `Connect`, `Start`; `Send` takes the waiter out and
  unlocks; `Destroy` on the other thread finds no waiter of its own and leaves; `Deliver` calls
  it. `StateSound` without `DestroyedInFlight` is violated by it.

Streams and bodies
* Nothing sets `pumping`: after `clone()` one `text()` on each object reads the network source
  twice at the same time, which the comment at `stream.hpp` 313 says cannot happen.
* A read of a cancelled branch whose other branch is open stays suspended until the peer sends
  something, and an error then turns its stream from `Closed` to `Errored`;
  `docs/fetch_streaming_design.md` 138 has such reads end with done.
* `releaseLock()` never refuses, since no read is linked to the list it looks at (140 there),
  and its reader goes on reading; a `body` object of before `clone()` still reads the stream
  the branches share; `new Request(r, {body: null})` shares `r`'s stream and is born used, and
  `fetch(r, {body: null})` drains it unchecked; `new Request(r1, {body: r2})` does not mark
  `r1`. These are the ways of `spoiled`, and so is `cancel()` of a `body` object of before
  `clone()`: with `b = r.body; r.clone(); b.cancel()` both `r.text()` and that of the clone give
  nothing, although `bodyUsed` was false of both.
* A `cancel()` of `r.body` while `p = r.text()` reads it ends `p` with what has come by then, as
  if that were the body (`cut`).

Fetch
* An abort has nothing to cancel during name resolution, between two operations and between
  two hops; the call then goes on to its end. `fetch(new Request(u, {signal}))` loses the
  signal.
* A decoder without a trailer that holds output back at the end of the input, more than
  `kMaxChunk` of it, is reported as truncated; integrity is not looked at for `data:` URLs.

Events, headers, forms and selection
* `dispatchEvent({type: "abort"})` aborts what `any()` made, although no source is aborted.
  Listeners that `any()` added are never removed. Dispatch and `URLSearchParams.forEach`
  iterate over vectors their callbacks may change.
* Guard `response` hides `set-cookie` and `set-cookie2` from `has()` and `get()`, not from
  iteration.
* In multipart bodies `filename=` inside a name reads as the parameter; a Blob without name and
  type comes back as a string, a string without its byte order mark; an empty body is an
  empty form. `FormsSurvive` excludes exactly these (`Sendable`).
* Beyond the matcher's depth a list of selectors does not match, so that `:not()` does;
  `has("+ x")` finds no sibling where `find("+ x")` does.
* `c_query_all` stops without a word after `kMaxNodes` nodes: of a document with more than 100000
  `$()`, `find()` and `has()` lose what comes after them. `lexbor_match.hpp` 596 calls the bound a
  mere safeguard, since the tree has no cycle; `:has()` and `closest()` have none.
* A stopped `next()` of `skip`, `skip_while` or `zip` loses what it had taken; `StopIsHarmless`
  says so.

## Not modelled

Value conversion, class binding and the QuickJS reference counts: C++ lifetimes and overload
resolution, not protocols. Blobs, `TextEncoder`, exceptions: immutable data and tables. The
parsers that are boost's or lexbor's (URLs, HTTP, HTML, selectors), the decoders, TLS, and the
assembly of header lines in the transport. Two threads in one `std::unordered_map` (the
registry with several runtimes) and a vector changed under an iteration are undefined, and the
models show neither. Each component's note in `PROJECT.json` says what is left out of it.

## Plan

The plan of the first stage is done: the channel, sleep, the loop with its timers, streams,
oneshot, bodies and aborts, the fetch client with its redirects and middleware, and the pure
parts as operators against reference definitions. So is the proof of every safety property of
the channels, sleep, the loop, the streams, bodies, fetch, aborts, combinators, headers and a
URL's params. What is left is `FormsSurvive`, whose parser would first have to be written as a
function recursive over a position, as `Split` and `percent_decode` are; and `Selection`, whose
RECURSIVE operators over trees and selectors would have to become functions on the nodes of a
document.

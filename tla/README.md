# A TLA+ verification of nginx 0.1.0 (annotated tree)

The repository is nginx as of its first release line, 0.1.0: a master process
and its workers, an event loop with several back ends, and on top of it an HTTP
server with a proxy, and a small IMAP/POP3 proxy. This directory holds TLA+
models of the parts whose correctness depends on order, failure, concurrency or
a delicate algorithm, the TLC runs that check them, and machine-checked proofs.

    tlc -config MCSystem_core.cfg MCSystem    # any run of Section 4
    tlapm AcceptMutex_proofs.tla              # any module named *_proofs

All paths below are relative to `src/src/` of the repository unless they are
files of this directory.

## 1. The system

### 1.1 Components

| Component | Code | State it keeps | Operations | Model |
|---|---|---|---|---|
| master and workers | `os/unix/ngx_process_cycle.c`, `ngx_process.c`, `ngx_posix_init.c` | `ngx_processes[]`, `ngx_last_process`, the `sig_atomic_t` flags, `live`, `delay` | start, signal, reap, respawn workers; reload, reopen, upgrade, quit, terminate | ProcessCycle |
| command channels | `os/unix/ngx_channel.c` | a socket pair per child, bounded | write a command, read one | ProcessCycle |
| configuration cycle | `core/ngx_cycle.c`, `nginx.c` | listening sockets, open files, pid file, the old cycles | init, commit, rollback, inherit, reopen | Cycle |
| accept mutex | `event/ngx_event_accept.c`, `ngx_event.h`, `modules/ngx_epoll_module.c` | the shared word, `ngx_accept_mutex_held`, `ngx_accept_disabled` per worker | try to lock, add and remove the listening sockets, accept, unlock | AcceptMutex |
| event loop and methods | `event/modules/ngx_{epoll,kqueue,select,poll,devpoll}_module.c`, `ngx_event_posted.c` | the arrays and change lists of a method, the batch, posted queues, the instance bit | add and delete an event, wait, dispatch, post | EventMethods |
| real time signals | `event/modules/ngx_rtsig_module.c` | the kernel's queue, the state of a recovery | take a signal, overflow, poll all connections | RtSig |
| timers | `event/ngx_event_timer.c`, `core/ngx_rbtree.c` | a red-black tree keyed by `ngx_msec_t` | find, add, delete, expire | EventTimers |
| proxy | `http/modules/proxy/*.c`, `event/ngx_event_connect.c`, `http/ngx_http_busy_lock.c` | peers (`fails`, `accessed`, `current`), busy lock, one context per request | connect, send, read, next upstream, finalize | ProxyUpstream |
| event pipe | `event/ngx_event_pipe.c`, `core/ngx_buf.c` | raw buffers, shadow buffers, five chains, a temporary file | read, filter, write, spill | EventPipe |
| request lifecycle and body | `http/ngx_http_request.c`, `ngx_http_request_body.c` | connection and request, their buffers, handlers and timers | read header, process, read or discard the body, finalize, keepalive, lingering close | HttpRequest |
| parsers | `http/ngx_http_parse.c`, `proxy/ngx_http_proxy_parse.c` | `state` and the pointers of a request | resume at any byte, move to a larger buffer | HttpParse |
| servers | `http/ngx_http.c`, parts of `ngx_http_core_module.c` and `ngx_http_request.c` | ports, addresses, names | build the lists, find the server of a request | HttpServers |
| phases and locations | `http/ngx_http_core_module.c`, rewrite, access, index handlers, `ngx_http_special_response.c` | `phase`, `phase_handler`, location, content handler | walk, internal redirect, error page | HttpPhases |
| output | `core/ngx_output_chain.c`, `http/ngx_http_write_filter.c`, `os/unix/ngx_linux_sendfile_chain.c` | chains `in`, `out`, `free`, `busy` | copy, delay, send, resume | OutputChain |
| imap proxy | `imap/*.c` | session, two buffers, two connections | parse a command, log in, relay | Imap |
| conversions, configuration file, containers, log, openssl, garbage collector, caches, threads | `core/ngx_string.c`, `ngx_conf_file.c`, ... | | | not modelled, see Section 9 |

### 1.2 How they interact

* The administrator sends signals to the **master**; it sleeps in `sigsuspend()`,
  so its flags change only there. It commands a worker by a message on its
  **channel** and, when that fails, by `kill()`. A child's death is a SIGCHLD; the
  handler marks the slot and gives back the **accept mutex** if the dead worker
  owned it.
* Each **worker** runs an **event loop**. At the top of a round it competes for
  the accept mutex, and the winner has the listening sockets in its epoll set; the
  **timers** bound its wait and are expired at its end.
* A handler called by the loop runs to its end. It may open and close connections
  for which the **event method** has already reported events. Requests meet only
  through what they share in one worker: the **peers** of a location with their
  failure counters, and the location's **busy lock**.
* A connection's **request** is parsed as its bytes come, finds its **server** by
  address and name, walks the **phases** to the handler of its **location**, and its
  response goes through the **output chain** as the socket takes it.
* Once a peer has answered, the **event pipe** alternates between reading it and
  writing to the client through the output filters, with two edge-triggered
  events and two timers as its only wake-ups.

### 1.3 What is hard here

* **A table that is walked while it changes.** `ngx_reap_childs` shrinks and
  reuses `ngx_processes[]`; descriptors of closed channels stay in it. The arrays of
  select and poll are compacted under a handler that deletes its own event.
* **Flags and locals that outlive their meaning.** `live` is recomputed only
  after a reap, `ngx_accept_mutex_held` says where the sockets are registered and
  is used as if it said who owns the lock, `ngx_noaccepting` outlasts a reload, the
  location and content handler of a request outlast an internal redirect.
* **Partial failure.** The k-th `epoll_ctl()` of a loop, a `fork()` after a
  `socketpair()`, a send that fails or is interrupted after a part.
* **Crash at any step**, with the lock held, with a command unread.
* **Edge-triggered events.** Whoever returns to the loop with something left to
  do and no event and no timer to come has lost the connection.
* **Buffers with two owners.** A raw buffer is the memory of a buffer that is
  still to be sent; links in both directions, and a file that can take its place.
  Pointers of a parser into a buffer that is moved.
* **Stale events.** An event of a closed connection whose descriptor is in use
  again; a signal queue that overflows while it is recovered from an overflow.

The list of `hazards` in `PROJECT.json` names each of these at its line with the
properties that cover it.

### 1.4 What makes each part correct

* master: no child is ever lost; a reload has no gap and spares the new workers;
  a stop spawns nothing, outlives the workers, and always ends.
* accept mutex: `accept()` only by the owner, never leaked, recovered from the
  dead, every waiting connection accepted.
* event methods: what is active is watched, and nothing else; an event reaches the
  connection it was reported for; no change of a descriptor is forgotten.
* timers: the tree holds the set timers; nobody waits past one or fires it early.
* proxy: a peer is asked once and gets the whole request; one answer to the
  client; no peer left untried for nothing; every wait has a timer; the busy
  lock's counter of waiting requests is that of its users.
* event pipe: the client gets the upstream's bytes once and in order; no buffer
  leaks or is reused early; nothing stays behind when the loop is not called again.
* requests: what is parsed is what was sent, however it was cut; one response to
  each; the server, the location and the access rules are those of its address, name
  and URI; handlers, timers and counters fit the state; each ends.
* output: each byte once and in order; a response that waits is timed.
* POP3: the name and password that go upstream are those the client gave; what is
  relayed is complete and never stuck.

## 2. Plan

| # | Modules | Composes | Abstract specification or reference | State |
|---|---|---|---|---|
| 1 | ProcessCycle, ProcessCycle_proofs | master, channels, workers, kernel | | checked, proved |
| 2 | AcceptMutex, AcceptLock, AcceptMutex_proofs | workers' loops, lock, master's recovery | AcceptLock: an exclusive lock recovered from the dead | checked, proved |
| 3 | ProxyUpstream, ProxyUpstream_proofs | requests, peers, busy lock | | checked, proved |
| 4 | EventPipe, ProxyUpstream_proofs | pipe, output chain, file | the identity on a sequence of units | checked, proved in part |
| 5 | Cycle, Cycle_proofs | masters, reload, sockets, files, pid file, upgrade by inherited sockets | what the running cycle names is open | checked, proved |
| 6 | EventMethods, EventMethods_proofs, RtSig, RtSig_proofs | event methods, batch, posted queue, handlers that open and close | an event is handled by the connection it was meant for, or dropped; no change is forgotten | checked, proved |
| 7 | EventTimers | tree, round of the loop, handlers that add and delete | the set of the timers that are set | checked |
| 8 | HttpRequest, HttpRequest_proofs | request lifecycle, body, keepalive, pipelining, lingering close, write filter | the stream of what the client sent | checked, proved in part |
| 9 | HttpParse, HttpServers, HttpPhases (their inputs in HttpCases) | parsers and buffers; listen, server_name and the search; phases, locations, redirects | what the parts of a head, the directives of a configuration, the kinds of locations mean | checked |
| 10 | OutputChain, Buffers_proofs | output chain, write filter, sendfile, writer | the identity on a sequence of bytes | checked, proved in part |
| 11 | Imap, Buffers_proofs | client, session, upstream server, relay | the identity on two sequences | checked, the relay proved |

Two MC modules are composites: MCServer runs AcceptMutex with failures, EventPipe,
HttpParse, HttpServers and HttpPhases, MCSystem runs ProcessCycle, EventMethods, RtSig,
EventTimers, OutputChain and Imap. The parts of a composite have no variable in common;
a behaviour is about one of them, which `part` names from the start, and the variables
of the others do not change. A property of a composite is one of a part's, under the
part's name.

What is left, in order of worth: OneResponse and AsSent of HttpRequest, for
clients whose tokens make requests; DataConserved of EventPipe; the tokenizer of the configuration file
and the filters that rewrite a body (SSI, range, chunked), which are parsers resumed at
any byte like HttpParse.

## 3. Modules and code

Every definition that models code is listed in `PROJECT.json` under `map` with the
lines it stands for. Definitions whose comment begins with "Mutant:" stand before the
definition they change: one plausible bug per property, or more, with which TLC finds
the property violated.

**ProcessCycle.** The master is a program counter `pc`: the names of the stages of
`ngx_master_process_cycle` ("reconfigure", "reopen", ...), and of the calls of
`ngx_start_worker_processes` and `ngx_signal_worker_processes` ("reconf_start",
"quit_signal", ...), which take one step per iteration. `After` says where a call
returns to. `tbl`, `last` and `slot` are `ngx_processes`, `ngx_last_process` and
`ngx_process_slot`. `flags` is the set of `ngx_*` flags that are set. `fdmap` and `os`
are the kernel's side: which channel descriptors are open, and whether a child is
starting, running, a zombie or reaped. Signals are `pending` until the master is
in `sigsuspend()`. A child inherits the flags set at its `fork()`. `delay` counts as
the code does, capped at 1600 ms, above the 1000 at which SIGKILL is chosen. The
descriptors of a closed channel stay in the slot as they do in the code, and are
used again from there. A worker is its flags `w` and its `inbox`; its clients
appear as the freedom to stay in "exiting".

**AcceptMutex.** One `pc` per worker along `ngx_epoll_process_events`: "top" (trylock),
"enable"/"disable" (the `epoll_ctl()` loops), "wait", "events", "accepting". `active` is
the set of listening sockets in the worker's epoll set, `batch` the accept events
of the last `epoll_wait()`. `Overloaded` is the countdown of `ngx_accept_disabled`; its
negative values behave as 0 and are one value. `Unlock` is the inline function: it
tests `held`, not the owner. `Reap` is the master's compare-and-set in
`ngx_process_get_status`. **AcceptLock** is the abstract lock.

**ProxyUpstream.** A request is a record with the fields of `ngx_http_proxy_ctx_t`,
`ngx_peer_connection_t` and its connection's handlers and timers that matter. `at`
names the function about to run; "idle" and "wait" are back in the event loop, and
an event of another request is taken only when every request is there
(`Returned`), because a handler runs to its end. `pos`, `whole`, `hdr` say how much of the
request chain is consumed, whether this connection got it from the start, and
whose bytes are in `header_in`. `Passed` is the loop of `ngx_event_connect_peer` over hot
peers; `fails` and `hot` are `peer->fails` and whether `fail_timeout` has yet to pass.
`NextUpstream` is `ngx_http_proxy_next_upstream` with
`ngx_event_connect_peer_failed`, the close of the connection and the unlock.

**EventPipe.** `p` is `ngx_event_pipe_t`. Raw buffers are numbered, 0 being what was
read with the header; shadow buffers are numbered as they are made and reused from
`p.free`. `mem` is the memory of a raw buffer and is overwritten by the next read, so
that a shadow that points to it too long is seen to send the wrong units. The
functions `AddFreeBuf`, `RemoveShadowLinks`, `InputFilter`, `Filled`, `Written`, `Sent`, `Updated`
and `Drained` map a record of the whole pipe to another, as the C functions do;
`ok` records that a followed link was there. `Reading`, `Writing` and `Loop` are the
calls `ngx_event_pipe` makes; `UpstreamEvent`, `DownstreamEvent` and `Timeout` are the ways
it is called.

**Cycle.** A master is a `pc` along `ngx_init_cycle` ("parse", "pid", "files", "match",
"open", "commit" or "rollback"), its running cycle `cyc` and the one it builds, `new`.
`fds` is its descriptor table, lowest free number first; a socket is named by its
address and shared by the masters that have it. `OpenFile` and `OpenFileFails` are one
step each of the walk over the files, `Match` is the double loop over old and new
sockets, `OpenSocket`, `AddressInUse` and `OpenSocketFails` are one step each of
`ngx_open_listening_sockets`, `Commit` closes what the old cycle alone had. A new binary
is another master whose `cyc` is the init cycle with the inherited sockets; a
`parent` that still runs is what `getppid() > 1` tells. `foreign` holds the addresses
another program, or workers of a master that is gone, still listen on. The parts of
the list of open files are kept as the length `part` of the first one.

**EventMethods.** `m` is the method of the worker, `t` its tables: the bits `active`,
`disabled` and `index` of the events, the array or change list, and what the kernel has
(`kernel`, with the instance bit of the pointer it returns). `SelectAdd` ... `EpollDel` map `t` to
another as the C functions do. A handler is a sequence of calls (`AddEvent`, `DelEvent`,
`AddConnection`, `Open`, `Close`) made while the batch or the posted queue is walked; a reported
event remembers the generation (`gen`) of its connection, which only the properties read.
`MovedIndex` is kqueue's write through a pointer that still has its instance bit; `t.mislaid` has the
events whose place in the change list was lost by it, until the kernel has their change as it should be.

**RtSig.** `queue` and `sigio` are the kernel's. `conn[f].unseen` are the changes of a descriptor no
handler was called for yet; `over` is the state of the recovery from an overflow. Signals are
taken in the order of their numbers, which is that of the instance bit. The recovery is
`Scan`, `Ready`, `ReadyDone`/`AlmostEmpty` and `Recovered`; between two polls the queue is drained by the
normal function (`at = "drain"`).

**EventTimers.** `tree` is the red-black tree with its links, keys and colours; `Inserted` and `Deleted`
follow `ngx_rbtree.c` rotation by rotation. `clock` has `ngx_elapsed_msec`, `ngx_old_elapsed_msec` and
the locals of a round of `ngx_epoll_process_events`: `timer`, `delta` and whether the round
expires timers at all. `due` is what was asked for.

**HttpRequest.** `script` is what the client does: the requests it asks for (`asks`) and a
sequence of tokens (`stream`), each a part of a line, a header or a body and the request it is
of. The module takes any such sequence; MCConnection makes those of well-formed requests
(`TokensOf`, `Sends`). `c` is the connection with its two events, `hc` the buffers that outlive a request, `r`
the request; `call` is the function that runs and how it was called (by an event or by
another function), so that each function of `ngx_http_request.c` is one action, and the socket
goes on meanwhile. `mode` is edge-triggered or level events: `Handled` and `LevelHandled` are
`ngx_handle_read_event` and `ngx_handle_level_read_event`.

**HttpParse.** Memory is a sequence of buffers, a pointer a buffer and an offset. The parsers are
tables of rows: in a state, on one of these characters, go to a state and set these
pointers; `Processed` runs them over what is in the buffer and does what the handlers
of `ngx_http_request.c` do with the result (`AllocLargeHeaderBuffer`, `Relocated`). Heads are given as parts,
and what the parts mean is the reference the result is compared with.

**HttpServers.** `Read`, `AddListen` and `Bind` are `ngx_set_listen` with the merge, the double loop of
`ngx_http_block` and its end; `Connect`, `ProcessHeader` and `KeptAlive` the search. `garbage` is the flag
`default_server` that the merge leaves uninitialised.

**HttpPhases.** `FindLocation` is the recursive search over a list sorted by `CmpLocations`; `r` is a request
in `phase`, with what an internal redirect leaves of it (`loc`, `content`, `err`). File system answers
are nondeterministic.

**OutputChain.** `t` has the contexts of `ngx_output_chain` (`in`, `free`, `busy`, `allocated`), of the write filter (`saved`), the
locals of `ngx_linux_sendfile_chain` (`chain`, `send`) and the write event (`ready`, `delayed`, `timer`). `Send` is one
system call; the socket takes data between them.

**Imap.** `s` is the session until login, `up` the upstream server during it, `way` the two
directions of the relay, `call` a handler that runs: `WriteStep` and `ReadStep` are the halves of
the loop of `ngx_imap_proxy_handler`. `s.timedout` is the flag of the client's read event that the login
leaves set: `TimedOutEvent` is the event of the relay that finds it.

## 4. Runs

A run's bounds are named in its module's CONSTANTS. Violations are of Section 8.

| Run | Bounds | Shows |
|---|---|---|
| core (MCSystem) | *master*: table of 4, 1 worker, channel of 2 messages, 2 of quit, terminate, reload, reopen (ten-day alarms included), 2 crashes. *events*: 5 methods, 2 descriptors of 2 connections each, change lists of 2, 3 calls by the handlers of a round. *rtsig*: 3 connections, a queue of 2, polls of 2, 2 opened or closed. *timers*: trees of up to 7 timers; 2 timers over time. *output*: 3 bodies, 8 settings of a location, a socket that takes 3 bytes, 1 EINTR. *pop3*: 9 dialogues, buffers of 8 and 3 units, a socket of 2, 5 units relayed | TypeOK, ExitsAfterWorkers, WorkersReplaced, ServiceContinuity; WatchedAreActive, DeliveredToOwner; ChangesKept; TimersKept; ResponseWhole, ResponseTimed; SessionKept, Relayed |
| table | all six signals, 2 of them, table of 4, a quit that came before signals were blocked, 1 crash, 1 failing `socketpair()`, `fork()` or `ngx_init_cycle` | ChildrenTracked, ExitedMeansReaped, NoSpawnWhileStopping; StopExits (liveness, unless a spawn failed) |
| normal | 3 workers, 2 sockets, one quits, 2 deaths or interrupted waits; no overload, no failing `epoll_ctl()` | TypeOK, AcceptsUnderLock, OnlyOwnerReleases, ImplementsLock, SocketsServed |
| faults (MCServer) | *accept*: 2 workers, overload up to 2, `epoll_ctl()` may fail, 2 faults. *parse*: 1025 heads of requests and responses, buffers of 20 and 2 of 32 bytes, 2 peers. *servers*: 257 configurations of up to 3 servers. *phases*: 4 servers with nested, exact and regular locations, rewrites, error pages, one without a location for every URI, 11 URIs. *pipe*: 8 units, 2 raw buffers of 2, 1 unit read with the header, busy size 2, file of 4 | NeverLeaked; HeadMeant; ServerMeant; LocationMeant, AccessEnforced; DataConserved, NothingStuck, EveryCallReturns |
| connection (MCConnection) | 10 scripts of up to two requests, edge-triggered and level events, buffers of 4 and 2 of 5 tokens, a body buffer of 2, a response of 2 units, a socket that takes 3 | Consistent, AsSent, OneResponse, RequestEnds |
| proxy | 2 requests, 3 peers, `max_fails` 1, next upstream on error, timeout and 500, a busy lock for 1 busy and 1 waiting request and 2 s | CleanRetries, PeersTriedOnce, WaitsBounded, EveryRequestEnds |
| reload | 3 masters, 2 configurations over 2 addresses and 2 files, 3 of reload, reopen, upgrade, 1 failing call, 7 descriptors, connections for 5 | FdsConserved, ReloadHarmless, EveryReloadEnds |
| orphans, steal, lastpeer, tempfile, reopen | see Section 8 | violated: a comment of the code against the code |

Several properties are conjunctions of named parts that belong together (WorkersReplaced,
WaitsBounded, CleanRetries, PeersTriedOnce, DataConserved, Consistent, AsSent, ...); the parts have
their own definitions and comments.

Why the bounds are enough:

* ProcessCycle: a table of 4 holds an old worker, a new one, a new binary and a free
  slot; two requests are a reload and a second signal, a stop or another
  reload, that meets it half way; two crashes kill both generations. One worker per generation suffices for the loops over the table, which
  meet the others' slots: generations, not siblings, are what the properties
  tell apart. The `exited` slot in the middle of the table, reuse of a slot and of a
  descriptor, and a full table all occur.
* AcceptMutex: of three workers one owns the lock, one has stale state and one
  competes; two sockets make the first and the second `epoll_ctl()` call differ.
  Ordinary connections do not touch the lock. The proofs remove the bounds.
* EventMethods: two descriptors with two sides are four entries, so that an entry that
  moves, the one it moves over and its other side differ; a change list of two is full in
  the middle of a close. Two generations are what one bit can tell apart.
* RtSig: three connections polled by twos are a first, a last and a partial poll; the
  queue of two overflows again during the recovery.
* EventTimers: seven nodes are enough for every case of the insertion and of the deletion
  (each branch is taken). Keys are as they are added; one pair is equal.
* HttpRequest: buffers small enough that a line fills one, moves to a large one, and is
  refused; bodies that are empty, in the header buffer in part, whole, or with the start of
  the next request behind them, and longer than the body buffer.
* HttpParse: every sequence of up to four of a slash, a dot, a letter and an escaped dot,
  and of up to three of these with a question mark and other escapes; heads longer than
  each buffer; every cut of the longer ones into reads.
* HttpServers: three servers, each with any of six lists of addresses and ports, so that
  every order of "*", an address and another one in a port occurs.
* HttpPhases: four configurations made to meet each branch of the search: an exact name
  next to a prefix, a regular expression inside and outside, an automatic redirect, rewrites in a
  row, pages whose location denies. Locations are declared in order and no exact
  location is the prefix of a URI without an inclusive one, see Section 8.
* OutputChain: seven or eight bytes in up to five buffers, memory before, between and after files,
  copies of two bytes that are used again, a page of two bytes and rates of two and three.
* Imap: a wrong line of each kind before the right ones; relay buffers that wrap and
  fill, a socket that is full.
* ProxyUpstream: three peers are a first, a middle and a last try, which the code
  treats differently; two requests are enough to move the shared cursor, to make
  a peer hot for the other and to hold the busy lock against it.
* EventPipe: two raw buffers of two units and eight units make every buffer be
  used twice; busy size of one buffer makes the gather loop stop in the middle; a
  file of two buffers is filled and refused.
* Cycle: one configuration has what the other has, at another index, and more, so
  that a reload keeps, opens and closes sockets and files. Two tries stand for the
  code's STUB of 5: the first, and one after it. Seven descriptors hold both cycles
  with one to spare, and with one forgotten none; a socket numbered 5 or
  above fails a reload for want of connections. Of three masters the second is a
  child and a parent in turn; a master whose parent runs may not upgrade, so a
  fourth would be to the third what the third is to the second.

`CHECK_DEADLOCK FALSE`: the master exits, requests end, a response ends. Only `normal`
checks for deadlock, as the workers' loops have no end.

What some properties do not claim, because the code does not keep it (Section 8):

* ServerMeant leaves out names that several servers of an address have, a default that
  an uninitialised flag has chosen, and configurations in which an address takes the place of a
  "*" of its port that has names already, those of its second server.
* HeadMeant leaves out the answer of a peer after one that failed inside a line.
* OneResponse and RequestEnds leave out requests whose line or headers were refused, and
  RequestEnds those that wait for their body without a timer.
* BodyNotLost (in Consistent) is about edge-triggered events.
* ParsedAsSent and BodyAsSent (in AsSent) are about connections on which no body was left unread.
  BodyAsSent says that what goes upstream begins with the whole body, in order; not that it ends
  there: the tokens of the next request that came in the same buffer may follow.
* LocationMeant lets a request that was redirected to a URI without a location stay in the old one.
* WatchedAreActive and DeliveredToOwner leave out the events whose change kqueue mislaid.
* DeliveredToOwner leaves out /dev/poll, which has no instance bit, and the second half of an
  event that reports both sides.
* SessionKept is about a client that waits for each answer before its next line.
* NothingStuck leaves the busy chain of the pipe to the events that are to come.

## 5. Fairness

* ProcessCycle: weak fairness of the master's own steps (the kernel schedules it)
  and of the short alarm once armed. Not of workers: TerminateExits holds even if
  they hang. QuitExits has their running, and their clients' end, as its
  hypothesis, because the code waits for them without a limit.
* AcceptMutex: workers in the middle of a round run on; `epoll_wait()` returns if it
  has a timer (workers without the lock pass `ngx_accept_mutex_delay`) or an event in
  their set; the master reaps and respawns. No fairness of arrivals, deaths or of
  who wins the lock.
* ProxyUpstream: a called handler runs to its end, and an armed timer fires. Peers
  and clients owe nothing.
* HttpRequest: a called function runs to its end; an event that is pending and
  registered is reported; a timer that is set again and again fires in the end (strong
  fairness: it is disabled while a handler runs); the upstream side answers. The client
  owes nothing.
* Cycle: `ngx_init_cycle` is a call that runs on. An address need not become free.
* EventPipe: a call of `ngx_event_pipe` runs on. No event and no timer is owed.

The parts of MCSystem have no liveness property: ResponseTimed and Relayed state as
invariants that whatever waits has a timer or an event to wait for.

## 6. Proofs

`AcceptMutex_proofs.tla`, for every finite or infinite set of workers, every number of
listening sockets and every bound, from `AcceptMutexAssumption` alone (0 is no pid;
there is a socket; the bounds are numbers):

* **TypeCorrect**: `Spec => []TypeOK`.
* **LockNeverLeaked**: `Spec => []NeverLeaked`, overload and every failure included.
  NeverLeaked is not inductive: at the end of a round the unlock depends on two
  local marks, `held` and `accept_lock`, that must both be right. `OwnerMarked` adds them:
  the owner is between trylock and the end of the round, and from `epoll_wait()` on
  both marks are set. This is the argument for the code's scattered unlocks.
* **AcceptExclusion**, **OwnerReleases**, **Refinement**: `accept()` only by the owner; the
  word is zeroed only by its owner or for a dead one; the loops implement
  `AcceptLock`. They assume `Undisturbed`: no worker is ever overloaded and `epoll_ctl()`
  does not fail. The assumption is necessary: without it the run `steal` shows a
  stale `held`, and workers that accept without the lock. The inductive invariant
  `HeldOwns` says that under it `held` does mean ownership from `epoll_wait()` on, that
  a worker without it listens nowhere, and that its batch is then empty.
* **SetFollows**: `Spec => []SetFollowsHeld`, with overload and while `epoll_ctl()` does not
  fail: a worker listens on all sockets or on none, as `held` says. What makes it inductive
  is that `ngx_enable_accept_events` is entered without `held` only.

`ProcessCycle_proofs.tla`, for every length of `ngx_processes[]`, every number of
workers, every channel size and every bound, from `ProcessCycleAssumption` alone:

* **TypeCorrect**: `Spec => []TypeOK`. The slot a fork takes is a slot and
  `ngx_last_process` stays within the array; both rest on FreeSlotIs, which needs the
  well-ordering of the numbers (LeastExists).
* **NoChildLost**, **ExitedIsReaped**: `Spec => []ChildrenTracked` and
  `[]ExitedMeansReaped`. Neither is inductive: a fork writes into a slot and must not
  meet a row or a process it could overwrite. `TableInv` adds what a fork meets:
  `Forked` (pids above `forks` are unborn), `Rows` (below `ngx_last_process` no pid is
  0 or still to come, and `exited` says "waited for", of crashes, `SIGKILL` and ESRCH
  alike), `Distinct` (no pid in two slots) and `Tracked`. The arguments are four: a step that
  neither moves, forks nor reaps (Unmoved), a fork that succeeds (Spawned), one that fails
  (NotSpawned), and, inside TableStep, the removal of a slot and the handler of `SIGCHLD`.
  The freed slot is always one whose child was reaped: so shrinking the table while
  walking it loses nobody.
* **StopSpawnsNothing**: `Spec => NoSpawnWhileStopping`, by `Running`: in every stage after
  the exit test no stop is wanted. It holds because flags are set by handlers that
  run inside `sigsuspend()` only; the respawn in `ngx_reap_childs` comes before that
  test and has tests of its own.

The second half of the module is about the generations of workers, under the same assumption
and one more: nobody asks for an upgrade of the binary. During an upgrade two masters start workers, each for itself, and a slot that is `detached`
is no worker at all; the run `orphans` is about that.

* **ExitsLast**: `Spec => []ExitsAfterWorkers`. `live` is a verdict of the last
  `ngx_reap_childs`, and the exit test comes stages later. `NoneLeft` says that the verdict
  is still true then: whoever forks sets `live` again.
* **GenerationsReplaced**: `Spec => [](fails = 0 => WorkersReplaced)`. `Fresh` says for how long
  `just_respawn` spares a new worker, `Swept` that a slot marked exited meets the next
  `ngx_reap_childs`, and the parts of `FailFree` that channels lead to the children of
  their own slots and that the staying slots are counted. These fail after a failed
  `ngx_spawn_process`, which leaves the descriptors of its pair in the slot: `fails = 0`
  is the condition that no call has failed so far, and not one about the calls.
* **ServiceGoesOn**: `Spec /\ []Room => []ServiceContinuity`. `Room` says that the table has a free
  slot whenever a generation is started. Without it `ngx_spawn_process` refuses silently
  and the master then tells the old generation to quit.

`ProxyUpstream_proofs.tla`, for any number of requests and of peers, any limits of
the busy lock and any conditions of `proxy_next_upstream`, from `ProxyUpstreamAssumption`:

* **TypeCorrect**: `Spec => []TypeOK`. That `cur_peer` stays in the array needs a second
  part, Sound: a request that talks to a peer has a try left, so that the one after it
  exists.
* **WaitsAlwaysBounded**: `Spec => []WaitsBounded`, for a finite set of requests and
  without TCP_CORK. `Timely` tells, per place a request can be at, which timers are
  armed. `WaitersCounted` compares a counter with the size of a set; each step's effect
  on the counter is proved to follow its effect on the one request it moves (Timed, Waits).
* **RetriesAlwaysClean**: `Spec => []CleanRetries`. `Fresher` says what is left of the
  attempt before while there is another try. It is not inductive, since a late event may
  call the handlers of that attempt; `Ordered` says that there is no such handler: the
  answer is read when the write handler is done and its timer is gone. This assumes
  that a peer does not answer before it has the request, does not fail after a part of it,
  and that TCP_CORK does not end the sending early. Each of the three leaves a handler,
  a position or a timer of the attempt before. And it is about peers that are not the
  last: the run `lastpeer` shows what the last one meets.

* **PeersAlwaysTriedOnce**: `Spec => []PeersTriedOnce`, unless `http_404` asks the next peer. The peers of
  a request are a circle and what it tried is a window of it that ends at the
  current one, so that `tries` is the length of the rest (Window). WindowMoves and
  Wraps are the modular arithmetic. A 404 is excluded because `ngx_http_proxy_upstream.c`
  keeps the peer that answered it without counting it as failed, and the window no
  longer ends where it should.

* **PipeNeverStuck**: `[]NothingStuck` of EventPipe, for buffers and limits of any size. NothingStuck
  speaks of the moment a call returns, or of the end; the call is a loop of reading and
  writing that goes on while something was read. `Unfilled` says that a read that brought
  nothing found both chains empty, if the client is ready; `Ending` that the end of the response
  counts as something read, so that it is followed by the write that hands everything on.
  `First` is about the bytes that came with the header: when there are none, nothing was
  in the chains either. The functions on chains are folds, of which nothing can be computed
  here; the model names the fields each of them changes, and the proof needs no more.

`Cycle_proofs.tla`, for any set of configuration files, any number of masters, any limit of
descriptors and any number of calls that fail, from `CycleAssumption` (no address or file
twice in one configuration; neither list is empty):

* **DescriptorsConserved**: `Spec => []FdsConserved`, which holds at rest only: in a reload some
  descriptors belong to the old cycle, some to the new one and some to both. `Sound` judges a
  master at every stage by its label, its two cycles and its descriptors alone, in four
  parts. `Running`: what the running cycle names is open. `Coming`: what the new one names is
  open and new, but for a socket that it takes over, and `remain` has just these. `Staged`: what
  is done at each label, such as that a pass over the sockets that saw no address in use
  has skipped none. `Named`: what is open is named or "lost". Each handler has a lemma over
  those four values (FileOpenedRight, MatchRight, SocketOpenedRight, RollbackRight,
  CommitRight, ReopenRight, ExecRight); LocalRight lifts them to all the masters. The visits
  of `ngx_reopen_files` are a recursive function, and what they leave goes by the least
  visit that leaves something else (WalkGood).
* **ReloadsAreHarmless**: `Spec => []ReloadHarmless`. That the running cycle is served is
  `Running`. For the pid file `There` says which of its two names holds the pid: its own name
  if nobody executed the master, the one with the extension while its parent runs. `Family`
  says that at most two masters run and one of them executed the other, so that what
  one writes is never the file of the other (WriteElsewhere). The exceptions are those of the
  property: a rolled back reload that had moved the file, and a new binary whose parent
  is gone and that executes another.
* **TypeCorrect**: `Spec => []TypeOK`, from the same invariant.

`HttpRequest_proofs.tla`, for any clients (any sequence of tokens, well-formed requests or
not), any sizes of the buffers and of the responses, and both kinds of events, from
`HttpRequestAssumption` (the sizes are at least 1):

* **ConnectionConsistent**: `Spec => []Consistent`. Consistent speaks of the moments between
  two events, and each of some twenty functions sees what the ones before it left. `IInv` adds
  what each finds when it runs. `Begun` says which functions run with which data of
  the connection, and `Phase`, by the handler of the read event, which of them can be
  called then, with what return codes, and which timers are set: `LineState`, `BlockState`,
  `BodyState`, `BrokenState`, `DiscardState`, `LingeringState`. `Writes` says when the writer may be without
  a timer, `Ended` that a request which is kept or lingers has no write timer left, `Watched`
  that epoll has the socket, and `Counted` is the gauges in the middle of a function.
  `Shape` keeps positions inside buffers and buffers inside their sizes. One lemma per
  function, per event and per way in which several of them end. What the
  code leaves to its reader is how long `timedout` stays set: while lines, headers or a body are
  read, it is seen by the function it is meant for; a request that is blocked or
  watched for a client that leaves has it clear; one whose body timed out keeps it while the body is
  discarded, and then there is nothing in the header buffer to discard.
* **LargeBuffers**: `Spec => []LargeBuffersBounded`, from the same invariant.

`RtSig_proofs.tla`, for any number of connections, any length of the queue of signals and
any thresholds, from `RtSigAssumption` alone:

* **NoChangeForgotten**: `Spec => [](TypeOK /\ ChangesKept)`. ChangesKept lists where a change may be
  remembered; `Recovery` adds what the stage of the worker says about the recovery:
  when it is on, and that below `overflow_current` the list has only what `poll()` told. The
  scan ends at the least index at which enough is polled; that there is one is
  EndIs, and that an empty scan has passed every open connection is EmptyScan.

`EventMethods_proofs.tla`, for select, poll, /dev/poll, kqueue and epoll, any number of
descriptors, any length of the lists of changes and any number of calls by the handlers,
from `EventMethodsAssumption` alone:

* **TypeCorrect**: `Spec => []TypeOK`; no list of changes outgrows its array, also when a
  close adds two changes to a list that is nearly full.
* **ActiveAreWatched**: `Spec => []WatchedAreActive`. The property speaks of what the next wait
  watches, the waiting changes applied; it says nothing of indices, and deletion depends on
  them. `TablesHold` has an invariant per method. `SelectInv`, `PollInv`: each active event has the
  index of its own entry, so that the compaction moves what it means to move. `EpollInv`: the
  kernel has the instance of the connection. `DevpollInv`: the changes, written in their order,
  end in a set that has the active events. `KqueueInv`: an event has at most one change, at
  its index, that makes true what its bits say; without one the kernel has it already. It holds
  of the events that were not mislaid (Section 8), and it is preserved for these because the entry
  that moves over another is the only one whose place changes. Lemmas follow the functions:
  one for each addition and deletion of each method, for the deletion of an entry in the
  middle and at the end, for the flush of a full list, and for the close of a connection. What a
  list does to the kernel is told by the greatest place at which it names the event
  (GreatestIs, from the well-ordering of the numbers).
* **Delivered**: `Spec /\ []OneNew => []DeliveredToOwner`. `RoundHolds` adds to the tables that the
  instance is the parity of the generation, that a reported event has the instance of
  the connection it was reported for, and that a posted one has not been closed since,
  as `ngx_close_connection` takes it out of the queue. The instance is one bit: `OneNew`
  says that no descriptor is closed and opened twice while an event of it waits in the
  batch. The code does nothing to ensure that, it relies on it.
* **DeliveredInShortRounds**: with at most three calls in a round OneNew need not be assumed.
  This is the bound of the run `core`.

`Buffers_proofs.tla`, the relay of Imap for buffers and sockets of any size (from
`ImapAssumption`: sizes and bounds are at least 1), and the output chain for every response,
setting of the location and behaviour of the socket:

* **RelaySafe**: `Spec => []Relayed`: in each direction what arrived, what is in the buffer and what is
  in the socket are together what was sent, in order and once; and when no event
  is to come, what waits has no room where it goes. The second half is the
  classical lost wakeup of edge-triggered events. `RelayInv` says for each direction that a side
  marked not ready has nothing to take or an event to come (`Ready`), and that after
  its handler what is in the buffer waits for the socket (`Flushed`) and what is in the socket for
  the buffer (`Drained`). A call has two halves, and between them one of the two need
  not hold: `Handled` says which one, and that the handler of one direction leaves the other alone.
* **WaitsAreTimed**: `Spec => []ResponseTimed`. `Timed` tells, per place of the writer, which of its two
  timers may be armed and whether it is delayed; a response that pauses for `limit_rate`
  and one that waits for the socket are told apart by the same flag.

Each preservation proof has one step per action of the specification, or one for a
group of actions that leave the invariant's variables alone.

## 7. Model-checked only

EventTimers, HttpParse, HttpServers and HttpPhases are checked by TLC and not proved, nor are
SessionKept of Imap (its parser is a fold over the tokens of a line), DataConserved of EventPipe
and ResponseWhole of OutputChain, whose chains are filled and flattened by folds over data. Of HttpRequest,
ParsedAsSent and BodyAsSent compare what was read with a sorted selection of the stream, which is
defined by recursion over it; and OneResponse holds only of clients whose tokens make
requests (of any tokens a refused request can end its headers twice, and be answered again
while its body is discarded), so that its proof needs the grammar of the stream in the invariant. All
liveness (StopExits, ConnectionsAccepted, EveryRequestEnds, EveryCallReturns, EveryReloadEnds,
RequestEnds) stays with TLC: fairness and ENABLED are beyond the prover. EventTimers,
HttpParse and HttpPhases have recursive operators, for trees, texts and nested locations,
which the prover cannot use.

## 8. Where the code and its comments disagree

Each is a run that TLC finds violated.

* **orphans** (`os/unix/ngx_process_cycle.c:179`). A reload while `ngx_new_binary` is set
  starts workers but does not set `live` (lines 212-219). After an upgrade and a
  noaccept the old workers are reaped and `live` is 0; reload, then quit: the master
  exits at once and leaves the workers it has just started without one. The
  comment says that the workers have all exited.
* **steal** (`event/modules/ngx_epoll_module.c:530`). A worker that is loaded skips the
  lock but keeps `ngx_accept_mutex_held` from the last round it had it. If its
  `epoll_wait()` is interrupted it unlocks, that is, zeroes the word, which another
  worker owns by then. The comment at `event/ngx_event.c:68` says of the flag that it
  tells whether the lock was obtained.
* **lastpeer** (`http/modules/proxy/ngx_http_proxy_upstream.c:649`). The request chain and
  the header buffer are reinitialised for another peer only while more than one
  try is left, so the last peer, which is also the second of two, gets what the one
  before it did not consume, and its answer is parsed after the other's bytes.
* **tempfile** (`event/ngx_event_pipe.c:679`). A buffer saved to the temporary file gives
  its raw buffer back at once but keeps being its shadow; the next read into it
  clears the file marks of the saved buffer, which is then sent from memory that
  holds later bytes.

* **reopen** (`core/ngx_cycle.c:688`). `ngx_reopen_files` goes to the next part of the
  list of open files without taking its elements, so it reopens the files of the
  first part twice and never those of the second, where a log that a reload adds
  is. `core/ngx_list.h:61` describes the walk with `data = part->elts`.

Others were met while modelling. They are in the models unless the text says otherwise; the
properties are stated so that they do not claim what these break (Section 4), and they
have no run of their own.

Master and configuration cycle:

* `ngx_noaccepting` outlasts a plain reload, so the later death of a new binary
  starts a second set of workers. `core` does not ask for noaccept.
* A spawn that fails leaves the numbers of closed descriptors in its slot, which
  later are another worker's channel: a reload's quit for the dead slot then
  reaches a worker just started. WorkersReplaced is checked without failing
  spawns for this reason.
* A master none of whose workers could be started keeps `live` set, and with no child
  to reap it never exits on quit or terminate (the `fails > 0` of TerminateExits and
  QuitExits).
* A reload that is rolled back after it has moved the pid file leaves no file for
  the configuration that goes on (`moved` in Cycle).
* The sockets that a new binary inherits are put in records that are not cleared:
  one that happens to be marked `ignore` is bound anew, in vain while it is open, and
  closed; the new binary then gives up after its tries.
* A new binary keeps the pid file with the extension when its parent is gone, and
  a second upgrade writes the next binary's pid over it (the second exception of
  PidFileThere).
* Several error returns of `ngx_open_listening_sockets` and of the write of the pid
  file forget a descriptor ("lost" in Cycle).

Event loop and methods:

* kqueue's deletion of a change that waits finds the owner of the entry that moves by a
  pointer that still has its instance bit (`modules/ngx_kqueue_module.c:265`), so it writes one
  byte off (`MovedIndex`). The test of the pointer at the next deletion keeps the wrong index from
  deleting another entry, but not from leaving the change of a closed connection in the list:
  open, add read, add write, close and open again within a round, and it is passed to the kernel
  for the new connection with the old instance bit, so that its events are dropped
  as stale. The comment in line 314 says that a change not passed yet is not passed at
  all. (`t.mislaid`; the properties leave these events out.) An event
  added after a deletion of it that waits is refused with NGX_ERROR.
* /dev/poll: an event of a descriptor closed earlier in the batch ends the process
  (`DevpollExits`); deleting one side of a connection watches the other, active or not.
* `modules/ngx_epoll_module.c:590`: the read handler is called after a write handler that
  closed the connection and opened another with its descriptor.
* rtsig: a failed `poll()` during a recovery skips its connections, and the early return
  at `modules/ngx_rtsig_module.c:417` keeps the accept mutex (both not modelled).
* `ngx_poll_init` copies `sizeof(pointer) * nevents` bytes of the old list (not modelled).
* A timer set again within 100 ms of its old time keeps that time, as documented; timers
  are not expired in a round that the accept mutex shortened.

Requests:

* After an error in the request line or the headers their handler stays on the event,
  and a later event makes a second error response; with level events in every round.
* `ngx_http_discard_body` leaves the part of a body that came with the headers in their
  buffer, where keepalive takes it for a pipelined request (`http/ngx_http_request.c:1463`).
* `ngx_http_read_client_request_body` never cuts what it takes from the header buffer to the length
  of the body: the buffer ends at `header_in->last` (`http/ngx_http_request_body.c:35`) also when
  the whole body was pre-read, which lines 40 to 48 only move `header_in->pos` past. A
  pipelined request that came in the same buffer is sent upstream behind the body
  (`http/modules/proxy/ngx_http_proxy_upstream.c:398`), and is still parsed and served as the next
  request of the connection. (`PreRead`; BodyAsSent says what does hold.)
* `client_body_timeout` starts on EAGAIN only; with level events a part of a body that was
  read leaves neither timer nor event.
* `ngx_stat_writing` points at `ngx_stat_reading0` (`event/ngx_event.c:86`) without shared
  statistics (not modelled: the gauges are two variables).

Parsers:

* `ngx_http_proxy_reinit_upstream` resets neither `p->parse_state` nor `r->state`
  (`http/modules/proxy/ngx_http_proxy_upstream.c:451`): after a peer that failed inside a line the
  next answer is misread. A status line read in parts is refused as too long (line 888).
* A request without headers whose last CR fills the buffer is refused as too long
  (`http/ngx_http_request.c:965`).
* A `?` after an escape or after "/." stays in the path; "/.." and "/." at the end are
  not normalised; an escape cut by the end of the URI is dropped.
* `ch < '0' && ch > '9'` in the port (`http/ngx_http_parse.c:195`) is never true.
* `r->proxy` is never set, so the branch for doubled HTTP/1.1 lines
  (`http/ngx_http_parse.c:525`) is dead (not modelled).

Servers, locations, phases:

* An address that `ngx_http_block` moves behind a new one leaves its names to that one
  (`http/ngx_http.c:359`); it has some once a second server listens on it.
* The server that creates an address does not add its own names, so with
  `restrict_host_names` its own name is refused; when all names lead to one server
  the list is emptied and every name is.
* The `listen` that the merge adds leaves `default_server` uninitialised
  (`http/ngx_http_core_module.c:1307`), and it is read at `http/ngx_http.c:341`. Port 65536 is accepted
  and stored as 0.
* Nested locations are not sorted although the search stops at the first greater name
  (`http/ngx_http_core_module.c:601`); an exact location also matches as a prefix of longer
  URIs. The configurations of the run have neither.
* An internal redirect to a URI without a location keeps the old location, and the old
  content handler is kept whenever the new location has none. The index handler forgets
  the descriptor in `r->file.fd` (not modelled). `ngx_http_handler` turns keepalive on again after an
  error has turned it off. Rewriting into a directory may loop.

Proxy, pipe, output:

* A request that ends with an error, refused or abandoned, leaves `busy_lock->busy` one too
  low or one too high (`http/ngx_http_busy_lock.c:111`): more requests than `busy` run at once. No
  property bounds it. A client that leaves while it waits is not counted out.
* With `http_404` in the list of next upstreams a 404 does not take a try, and the same peer is asked for ever;
  a peer that answers early leaves a write timer that tries another peer after the
  header was sent; an error in the middle of the request is not reinitialised. The run excludes
  all three by its constants.
* When nothing is in `in` or its first buffer does not fit,
  `ngx_event_pipe_write_chain_to_temp_file` follows a null pointer (`ReadCrashes`; with
  the limits the run uses it needs a file that is nearly full). A saved buffer that is used
  again loses a raw buffer (`event/ngx_event_pipe.c:668`). A header that fills its buffer exactly makes
  the pipe read into a chain without room (excluded by an assumption).
* `sendfile()` returning 0 for a file that became shorter is taken for a full socket: the
  response ends in `send_timeout`. After EINTR the rate limit counts unsent bytes again.

IMAP:

* The 60 s timer of the first read is never deleted: a relay in use is cut 60 s after
  the connect. In the login `ngx_imap_proxy_block_read` ignores it, so a silent upstream
  server hangs the session (`Timer`); and as it leaves the event marked `timedout`, the first thing
  the client sends in the relay closes the session (`imap/ngx_imap_proxy.c:266`, `TimedOutEvent`).
* "-ERR", junk and a reply longer than the buffer are taken for "+OK"
  (`imap/ngx_imap_proxy.c:117`).
* A failed send of the login closes the upstream connection by the client's function, with
  the pool of the session (`orphaned`). Closing the session closes the upstream descriptor
  only and leaves its events with freed memory (line 375, not modelled).
* The rest of a refused line that comes later is parsed as a command; what a client sends
  right after PASS waits for another event; an end of file on either side drops what
  the buffers still hold.

## 9. Not modelled

* Memory pools, arrays, lists, slab (unfinished), radix tree, string, number and address
  conversions, regular expressions: sequential code that the models take for granted.
* The tokenizer and the setters of the configuration file, but for those of listen,
  server_name and locations (HttpServers, HttpPhases).
* The filters that format (header, chunked, gzip, charset, range, SSI, userid), the static,
  status and log handlers, the garbage collector: file I/O and text.
* OpenSSL (a library); `NGX_HTTP_CACHE` (off in this tree) with the file cache and the
  cachable variants of the busy lock; the event busy lock and the event mutex (called only
  from code in `#if 0`); everything behind `NGX_THREADS`; Windows-only code, aio and iocp.

Abstractions to know of: a process that exits is a zombie at once; `sendmsg()` on a
channel fails only when the channel is full or closed; messages carry the command
and not the pid, slot and descriptor by which the workers learn of each other,
which nothing in this version of the code reads except to store it; `peer->fails` is
capped one above `max_fails`; in the pipe a unit is any number of bytes, limits are in
units, and the file is written at once. In Cycle a first master is a daemon (its
parent is init), a master's workers are not followed beyond the sockets they hold,
and the shared directory paths, the cleaner of old cycles of a single process and
the `-t` option are left out. In HttpRequest a line is a few tokens and the parser is
HttpParse's affair; in HttpPhases a URI is a short sequence of letters, and what a handler
writes is its status; `content_length_n` is not changed when an error discards the body. In Imap a word is one token. In OutputChain the client's reading is seen by
calls of the socket only, and buffers are of a few bytes.


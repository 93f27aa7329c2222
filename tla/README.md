# Verification of c_std

c_std reimplements a large part of the C++ standard library and some of
Python's in C17: containers, algorithms, strings, threads, a logger, sockets,
an HTTP server, parsers. This directory holds TLA+ models of the parts whose
correctness depends on the order of events or on long sequences of calls, and
of the algorithms whose results can be compared with a definition; the TLC
configurations that check them on small instances; and TLAPS proofs of the
most important results for instances of any size.

Paths below are relative to the root of the repository, `src/` standing for
the library itself. `PROJECT.json` lists every run with the properties it
checks, the changed definitions (mutants) that show each property to have
teeth, the lines of code that each definition models, the hazards the
properties are aimed at and the theorems.

- [Running it](#running-it)
- [Inventory](#inventory): the parts, their state, what is hard about them
- [Modules](#modules): which module models what, and how
- [Runs](#runs): what is checked, with which bounds and which fairness
- [Findings](#findings) and [remarks](#remarks)
- [Proofs](#proofs)
- [What is not modelled](#what-is-not-modelled) and [the plan](#plan)

## Running it

    tlc -config Server.cfg MCServer.tla     # a run: see PROJECT.json for the pairs
    tlapm ServerProofs.tla                  # the proofs of one module

A run takes from seconds to about four minutes with two workers. A name
`...Doc.cfg` or `...Docs.cfg` is of a run that TLC ends with a counterexample: it asks for
something that a comment or a document of the repository promises and the
code does not do.

## Inventory

### Concurrency

**Thread pool** (`concurrent/thread_pool.c`). State: a linked queue of tasks
and its count under `queue.lock`, a count `pending` of unfinished tasks under
`workMutex`, the flag `keepAlive`, the workers' handles and how many of them
were started, two condition variables. Operations: create, submit (with and
without an answer), wait, wait with a deadline, destroy, three counters.
Hard: a submission is two critical sections, a worker's turn is two as well,
waits look at `pending` alone; tasks may submit tasks, also while the pool is
destroyed; creation can fail half-way. Correct when `pending` is exactly the
outstanding work, a wait covers what was submitted before it, nothing runs
twice or is lost, nobody sleeps through a wake-up, and memory is freed after
the last worker has left and no call is under way.

**Read-write lock** (`concurrent/concurrent.c`, from line 1800). State: three
counters, a mutex, two condition variables. Operations: read lock, write lock,
two try forms, one unlock for both. Hard: the unlock does not know who calls;
it wakes one side or the other; writers are preferred. Correct when writers are
alone, nobody is forgotten, and writers get in however many readers come.

**Condition variables and call_once on Windows** (`concurrent/concurrent.c`,
lines 480-700 and 1600-1640). POSIX has both; on Windows the library builds
them from events, critical sections and an unlocked status word. Hard: the
steps between the sections.

**Thread-specific storage on Windows** (`concurrent/concurrent.c`, lines
820-880 and 1350-1560). State: per key a slot of the system's, per thread a
list of the entries it has set (`_Thread_local`, :830). Operations: create,
delete, set, get, and the destructors at the end of a thread, in passes. Hard:
destructors set values again while the list is walked; entries leave the list
in the middle; the system may refuse a value for which an entry is already
linked. Correct when every destructor runs for what was set and nothing freed
is touched.

**Threads, mutexes, semaphores.** Wrappers of the platform's.

### Network

**HTTP server** (`network/http.c`). State: the run flag, the listening flag,
socket and port, all static under one mutex, and per call of
`http_start_server_ex` a listening socket and a thread pool. Operations:
start, stop, the settings. It uses the pool (a call per connection) and TCP.
Hard: stop clears a flag and then wakes a blocked `accept` with a connection
of its own, while clients connect and the server starts or drains. Correct
when a stop is never undone and ends the server, and every connection is
served or closed once before the server returns.

**HTTP request reader** (`network/http.c`, lines 170-300 and 1380-1560).
State: a growing buffer, how far it was searched, the decoder of a chunked
body. Hard: bytes arrive in pieces of any size, every read can time out or
fail, sizes come from the peer. Correct when the split never matters, what is
returned is what was sent, and no limit or buffer is exceeded.

**HTTP routing, request parsing, responses.** A table of routes with
parameters, the parser of the request line and headers, the response writer.

**TLS sessions** (`network/tcp.c`, from line 40 and from line 1030). State:
one context for the process with its verify mode, a fixed table from
descriptors to SSL objects, one mutex. Operations: initialise, clean up,
enable, disable, accept, connect, and two ways to close, of which one does
not know of the table. Hard: descriptors come back, the
context is shared by connections that want different modes, the table fills
up. Correct when no entry outlives its connection and a verified connection
has a trusted peer.

**TCP, UDP.** Wrappers of the socket calls with time-outs.

### Log

`log/log.c`. State: the settings, the open file with its path, the rate
limiter's counts, the totals. Operations: `log_message`, a dozen setters,
rotation, archiving, redirection. It uses the file writer. Hard: the gates are
read and the setters written without the mutex; files fail to open or to be
renamed in the middle of an operation. Correct when all outputs show one
order, the limit holds, and what was written is found.

### Containers

| part | state | what is hard |
|---|---|---|
| vector | items, size, capacity | growth that wraps or fails |
| queue | a vector and the index of its front | dead slots, compaction |
| stack | a vector | copying and assigning without memory |
| priority queue | a vector, a comparison | the heap under a sift that moves a hole |
| deque | an array of blocks, a front and a back index | blocks that come and go at both ends, iterators |
| list | doubly linked nodes | links of two lists changed at once, stable sorting |
| forward list | singly linked nodes, a sentinel | the predecessor of every change |
| map, set | red-black trees that own their entries | fix-up after insertion and deletion, iterators, set algebra |
| hashmap | buckets of chains, a load factor | rehashing, also without memory, and ownership |

All report failed allocations by a result or not at all; a container is
correct when every call does what its name says to the abstract sequence, bag
or map, or, without memory, changes nothing.

### Files

**Atomic replacement** (`file_writer_write_all_atomic` of
`file_io/file_writer.c`). State: that of the file system. One call: open a
temporary file named after the process, write, flush, fsync, close, rename,
or remove it. Hard: every step can fail, processes and the machine can crash
between two steps, others replace or read the path meanwhile, and the disk
follows at its own pace. Correct when the path always has one whole content
and only a crash leaves a temporary file.

**Readers and writers** (`file_io/file_reader.c`, `file_writer.c`). State: a
`FILE`, its mode and position, what the C library still holds. Correct when
what was written in any pieces is read in any pieces.

### Algorithms, values and texts

Sequential code that runs to its end: nobody sees it in between, but it has
many cases, and some of it keeps state between calls.

| part | state | what is hard |
|---|---|---|
| algorithm, sort, statistics | an array | a dozen sorts by size and memory, stability, selection, positions one past the end |
| matrix | entries row by row | elimination and its pivots, inverses, indexes of special forms |
| bigint, evalexpr, date, time | numbers | signs of quotients, precedence, leap years of two calendars |
| string | a buffer, a pool, a registry of live strings | capacity, overlapping arguments, tombstones of the registry |
| encoding | | groups that are not full, surrogates, overlong forms |
| json, csv, config, cli | trees, rows, sections, options | what is written must be read back; quoting; empty cells and values |
| variant, uniqueptr, tuple | a tag and a block | one owner for each block, also when memory runs out |
| random, secrets, uuid | a generator, the system's source | bias, a spare value, a source that fails |

### The rest

Regular expressions (those of the platform or of PCRE), xml, unit-test
registry, directories, cryptography, tokens, big floating-point numbers,
plots, turtle graphics, system information, database and serial ports on top
of other libraries.

### How the parts interact

The HTTP server submits connections to a thread pool and waits for it; a
worker reads a request with the request reader, over TCP or a TLS session.
The pool, the logger, the TLS table and the server use the mutexes, condition
variables and `call_once` of `concurrent`. The queue, the stack and the
priority queue are vectors with a discipline. The logger writes through
`file_io`.

## Modules

A module's comments say what each of its constants, variables and actions
stands for; this section says how they were cut. Names are those of the
source wherever TLA+ allows it.

| module | models | implements |
|---|---|---|
| `ThreadPool` | `concurrent/thread_pool.c` | `TaskExecutor` |
| `RWLock` | `rwlock_*` of `concurrent/concurrent.c` | `SharedLock` |
| `Win32Condition` | `condition_*` of `concurrent/concurrent.c` on Windows | |
| `CallOnce` | `call_once` of `concurrent/concurrent.c` on Windows | |
| `ThreadSpecific` | `thread_specific_*` of `concurrent/concurrent.c` on Windows | |
| `HttpServer` | start and stop of `network/http.c` | drives `TaskExecutor` |
| `HttpRequestReader` | `hp_read_full_request_to` and the decoder of chunks of `network/http.c` | |
| `TlsSessions` | the TLS part of `network/tcp.c` | |
| `Log` | `log/log.c` | |
| `AtomicFile` | `file_writer_write_all_atomic` of `file_io/file_writer.c` | `FileRegister` |
| `VectorOps`, `Vector` | `vector/vector.c`, and `queue/queue.c` and `stack/stack.c` on it | `ItemSequence` |
| `PriorityQueue` | `priority_queue/priority_queue.c`, on `VectorOps` | `PriorityBag` |
| `Deque`, `List`, `ForwardList` | `deque/deque.c`, `list/list.c`, `forward_list/forward_list.c` | `ItemSequence` |
| `RedBlackTree`, `Map` | `map/map.c` | `ItemMap` |
| `SetTree` | `set/set.c`, on `RedBlackTree` | `ItemMap` |
| `HashMap` | `hashmap/hashmap.c` | `ItemMap` |
| `Calls` | the vocabulary of calls the container modules share | |
| `Matrix` | `matrix/matrix.c` | |
| `Arrays` | `algorithm/algorithm.c`, `sort/sort.c`, `statistics/statistics.c`, `bitset/bitset.c`, `span/span.c` | |
| `Numbers` | `bigint/bigint.c`, `date/date.c`, `time/std_time.c`, `random/random.c`, `secrets/secrets.c`, `uuid/uuid.c` | |
| `Strings` | `string/std_string.c`, `encoding/encoding.c` | |
| `Json` | `json/json.c` | |
| `Documents` | `file_io/*.c`, `csv/csv.c`, `config/config.c`, `cli/cli.c`, `evalexpr/evalexpr.c` | |
| `Ownership` | `variant/variant.c`, `uniqueptr/uniqueptr.c`, `tuple/tuple.c` | |
| `Values` | exact fractions and a heap of blocks, which the code does not have | |
| `LogProofs`, `AtomicFileProofs` | theorems about the modules they extend | |
| `ServerProofs` | theorems about `ThreadPool`, and about `HttpServer` as `MCServer` runs it | |
| `NetworkProofs` | theorems about `HttpRequestReader`, and about `TlsSessions` as `MCNetwork` runs it | |
| `PrimitivesProofs` | theorems about the four modules of `MCPrimitives` | |
| `ContainerProofs` | theorems about `Vector` (vectors, stacks and queues) and `PriorityQueue` | |
| `MC...` | instances of more than one module for TLC, and their properties | |

**Threads and locks.** One action is one critical section, from `mutex_lock`
to the matching `mutex_unlock` or `condition_wait`, or one step outside every
lock. That is sound because the shared fields of these parts are only touched
under their mutex; where the code touches them without it (the status word of
`call_once`, the gates of the logger, the steps of a Windows wait between its
two sections) each access is a step of its own. A thread blocked on a
condition variable is one whose program counter says so: a signal moves one
of them, a broadcast all, and any may wake spuriously. Failures of
allocations, `thread_create`, sockets, files and handshakes are choices of
the environment.

**Histories.** A comment `history:` marks the variables that the code does
not have and no guard reads: how far each task has come and which tasks a wait
owes, which servers a stop was meant for, the order of messages. They exist to
state properties.

**`ThreadPool`.** A submission is `CountTask` (under `workMutex`), then the
enqueueing (under `queue.lock`), or nothing at all where there is no memory
for the task; a worker's turn is `WorkerTakes`, the task itself,
`WorkerCompletes`. A running task may submit further tasks. A client submits,
waits, and waits with a deadline; the deadline is an event that may come at
any time. `thread_pool_create` starts the workers one by one and may fail at
each. `thread_pool_destroy` may be called with tasks still queued: the workers
run them before they leave, against what it documents (finding 4), and
`TaskExecutor`, which closes when it owes nothing, is what the code does.

**`HttpServer`.** The pool is what `TaskExecutor` says of it, and
`UsesPoolAsExecutor` says that the server keeps to it: together with
`ImplementsFairExecutor` of the pool that composes the two without multiplying
their states. `Overlap` allows a second server before the first has returned,
for which the code has only one set of variables; the run excludes it. `HttpRequestReader`
takes over where a worker has a connection. `MCServer` puts the server and the
pool side by side: a behaviour is of one of them.

**`HttpRequestReader`.** A request is a sequence over the five kinds of bytes
that the framing tells apart, with the two headers that frame a body given by
their values: the header parser is another component. Every read takes any
number of bytes that is available and asked for. `BufferStarves`, `DecodingStarves`
and `BodyStarves` are the allocations that fail, each with the status the code
answers: a buffer that cannot grow gives 500, a decoded body that cannot grow the
same answer as a malformed one. The requests for TLC, and what
the grammar of chunks says of them, are at the end of the module.

**`TlsSessions`.** `tcp_connect_tls` and `tcp_enable_ssl` are sequences of
sections under `tcp_mutex` with the handshake between; each section is an
action. `tcp_ssl_close` takes the session out of the table; `tcp_close` closes
the descriptor and leaves it: `left` (a history) has the descriptors of which
that is so. The platform hands out any descriptor that is closed, those too.

**`Log`.** A call of `log_message` passes the gates, takes the mutex, meets
the rate limit, the filters, writes and leaves, in separate steps; setters
without the mutex may come between any two of them. The filters (keywords,
custom filters) answer as they like. The level, visibility, output and rate
are the settings that are modelled; colours, formats and time stamps are not.

**Containers.** The modules are sequential: one action per function, with its
arguments, with memory or without. A function is an operator on the value of
the struct; `call` records the last call with what it reported and handed out,
which is how `ItemSequence` and `PriorityBag` can say what it should have been.
A slot that holds no item holds `Nothing`, so that reading a dead slot shows.
A list is nodes with `next` and `prev` in one heap for all lists, so that
nodes that are lost or shared show. A tree's nodes are in a heap of their own,
for the same reason; keys and values that a map owns are counted as they are
released. `MCContainers` lets a behaviour be of one kind of container at a time.

**`ThreadSpecific`.** One thread with any number of keys; the list is
`_Thread_local`, so no other thread sees it. A destructor is a step between
taking the value out and looking up the next entry, in which it may set values.
Any key may be deleted, and `TlsSetValue` may refuse any value. What the code then
does to the list is recorded in `harm` (a history): `"lost"` when entries fell off it, by a third one
or with a key whose entry was the first, `"dangling"` when it leads to a freed entry.
Where the code follows such a link, behaviour is undefined: the phase is
`"undefined"` and the behaviour ends.

**`AtomicFile`.** A content is a set of pieces, so that a mixture of two writes
shows. Names lead to inodes, on the disk (`kept`, `disk`) as in memory (`dir`,
`content`); a process's death ends its calls, a crash of the machine takes
memory back to the disk, which holds what was synced and, of the rest, anything
that has been written. `Faults` says which calls may fail.

**The library.** A module of algorithms defines the functions as operators and
then, under a heading of its own, their laws: what a result has to be, said
without the function's loops, or that two functions agree or undo each other.
Numbers that the code computes in floating point are exact fractions, and a
function that needs roots or limits is left out. Loops are recursive operators
over their locals. `MCLibrary` builds every small input entry by entry, or makes
every short sequence of calls, and looks at the laws in every state. Where the code
does not do what its documentation says, the law is about the rest, its comment says
so, and what the documentation says is one of the `Claims` of `MCLibrary`.

## Runs

`PROJECT.json` has a sentence on each run. The bounds, and why they are enough:

| run | instance | states |
|---|---|---|
| `server` | pool: 2 workers, 2 clients, 2 tasks; server: 2 in a row, 2 stops, 1 visitor, one port | 69 thousand |
| `primitives` | 4 threads at a lock; 3 waiters, 2 producers, 2 items, 1 time-out; 4 callers of `call_once`; 3 keys | 183 thousand |
| `network` | reader: buffer 3 to 8 bytes, body of 4, `size_t` of 6 bits, 2 chunks; TLS: 2 threads, 3 descriptors, 2 slots, 3 objects | 1.8 million |
| `log` | 2 threads, 2 messages, 2 paths, 1 archive, limits 0 and 1 | 2.1 million |
| `containers` | 2 objects of each of ten kinds; 2 to 5 items | 13 thousand, 1.1 million steps |
| `files` | 2 processes, 1 reader, 5 inodes, 2 calls, 1 crash | 253 thousand |
| `library` | inputs of up to 6 items, 5 characters or tokens, 3 calls | 203 thousand |

- **server.** Of the pool, two workers are needed for a wake-up to go to the wrong one
  and for one to leave while the other runs, two clients for a wait to overlap
  a submission, two tasks for one to submit the other. Of the server, the waker that
  arrives after the accept it was meant for returned a client instead is left for the
  next server on the same port; that takes two servers, two stops and a visitor.
  `Overlap = FALSE` is the use that one set of variables allows. What holds of any number is proved.
- **primitives.** A lock with two that read or write and two more that wait for
  it; proved for any number. A reset that takes back the next broadcast needs a
  waiter of the first, the last one that resets, and one of the second; `leaked`
  bounds the time-outs, each of which leaves the counter one too high. Three keys
  are one more than the list of a thread can hold (finding 2), each can be deleted
  wherever its entry is, and the value of two can be refused. Destructors get two
  passes and set a value again once. The parts share no state, so a behaviour is of one.
- **network.** The buffer doubles from 3 to 6 and would exceed 8, a
  chunk of two bytes is smaller than a read and two of them fill the body, and
  three hexadecimal digits overflow `size_t`. Every message of the
  grammar with up to two chunks, with and without extensions and trailers, is
  sent as it is and with each byte dropped or replaced. Of TLS, three descriptors
  for two slots fill the table; of two threads one changes the shared mode, closes
  or cleans up between two sections of the other. Symmetry is not used, since
  slots are searched in their order; any number of threads is proved.
- **log.** One level is enough to run, since the limiter and the counters go by
  level and a level never looks at another; any number is proved. A rotation may ask for a size of nothing or of one message,
  two paths let a redirection meet a rotation.
- **containers.** `size_t` ends at 3 (7 for heaps), so that doubling wraps
  within a few calls; blocks have two slots, so that every operation crosses
  one, and in the `wide deque` one, as the code gives to items above 1024 bytes; keys
  that compare equal show instability; maps have two keys and sets, on the same
  `RedBlackTree`, five elements, which meets every case of both fix-ups; three keys of a hash map share
  chains before and after a rehash. Once both objects together are large enough
  no further two-object calls are made (`FewItems`). The view leaves out the last
  call, which no guard reads, and the identity of well-linked nodes. What a call
  reports is still checked on every step, since the action properties are
  checked on transitions.
- **files.** Two writers of one path, one of two pieces so that a part of it is
  no whole; a reader that is as slow as it likes; one crash, of either process or
  of the machine, at any step. A second crash meets nothing new: what the disk
  holds after the first is a state to start from. Opening, writing and renaming
  fail; `flush` failing is finding 3.
- **library.** Arrays of up to 6 items are longer than the thresholds between the
  sorts, which are set to 2 to 5; matrices reach 3 by 3 (over zeros and ones) and
  2 by 3 (over three values); words have 4 bits for shifts and for the bytes of
  the system's source, so that every value is drawn; a pool string starts with
  2 characters and the registry with 4 slots, so both grow; a reader's buffer is of
  9 characters, one longer than the longest line; dates go over ends of months,
  years, centuries and leap years of both calendars; token alphabets of the
  parsers have one token of every class their control tells apart.

- **library_docs.** Each claim is evaluated on inputs on which the code shows
  what it does, and the run ends at the state where all are evaluated.

**Deadlock** is checked where the system must always have a step:
`server`, `log`, `pool_destroy_doc`, `w32cond_broadcast_doc`. A request that has
been read is over, TLS objects and calls are bounded, a thread that has ended
stays so, and a container whose calls are all refused by the bounds is at rest.

**Fairness** is what the code's scheduling justifies. The pool: every worker
and every client inside a call goes on, the owner starts, joins and frees;
tasks return. No fairness for submissions, deadlines or spurious wake-ups.
The lock: a thread that waits in a call or holds the lock goes on; nobody has
to ask for it. Which of several waiting threads a signal wakes is the platform's
choice: `WaitersServed` says that while writers wait writers enter, that the only
writer enters, and that a reader enters if writers stop coming; one of several
writers may be passed by the others for ever. `call_once`: every caller goes on, and a critical section
is granted at some time to one who keeps asking (strong fairness of
`EnterLock`), as Windows does. The HTTP server: its thread goes on, `accept`
returns a connection at some time if there is one again and again, pool and
stopper go on. `StopEndsServer` is about servers that a waker reaches: the
code has no other means when the waker gets no socket.

Type invariants are parts of the named invariants (`ConditionKeepsCount`,
`PublishedIsOpen`, `FindsTheRequest`, `SessionsOfConnections`, `MessagesKept`,
`WellFormed`) or, for `ThreadPool`, `RWLock` and `AtomicFile`, proved only.

## Findings

Places where the code does not do what a comment or a document of the repository
says of it; `PROJECT.json` quotes each. Five runs end with a counterexample.

1. `w32cond_broadcast_doc`. A broadcast on Windows is said to unblock all
   blocked threads (`concurrent/concurrent.c:568`). The last waiter of a
   broadcast decides under the lock that it resets the event and does so
   outside: it may take back the next broadcast, whose waiters sleep on.
   `ConditionKeepsCount` shows that in the use the pool makes of it somebody is
   always awake to take what was added.
2. `tss_third_key_doc`. On Windows `thread_specific_set` links a new entry
   behind `_cthread_tss_tail` and never moves the tail (`concurrent/concurrent.c:1536`):
   the third key overwrites the link to the second, whose destructor
   (`concurrent/concurrent.c:1352`) never runs and whose entry is never freed.
3. `atomic_file_full_doc`. `file_writer_write_all_atomic` promises old or new
   content and `false` on any error (`file_io/file_writer.c:586`, :597). What
   `fwrite` takes may still be in the C library; `fflush`, `fsync` and `fclose`
   (:638-651) are not asked whether they succeeded. On a full disk a truncated
   file replaces the path and the call returns `true`.
4. `pool_destroy_doc`. `thread_pool_destroy` is said to discard the tasks that are
   still queued (`concurrent/thread_pool.c:198`, `concurrent/README.md:446`). The
   workers leave only when the queue is empty (:25), so all of them run before it returns.
5. `library_docs`, one property, `ClaimsHold`, over the 31 claims listed in
   `MCLibrary`. TLC evaluates them one by one and the trace ends with the set of those
   that the code does not keep, which is all of them:

   | part | what the code does instead | where |
   |---|---|---|
   | http | an oversize chunked body is answered 400 unless it reached the limit to the byte | `network/http.c:1465`, against :28 |
   | deque | `deque_back` is a slot nobody wrote after a first push to the front | `deque/deque.h:108`, against `deque/README.md:112` |
   | map, hashmap, set | `map_copy`, `hashmap_copy` and the four functions of set algebra return a part of the result without memory for the rest | `map/map.c:1667`, `hashmap/hashmap.c:1412`, `set/set.c:1107`, :1137, :1162, :1189 |
   | matrix | circulant rows turn left, the coefficients of a companion matrix are reversed, a rank is too large after an exchange of rows, a matrix of one entry has the inverse 0 | `matrix/matrix.c:5895`, :6646, :5487, :5269 |
   | sort | `sort_timsort` is not stable for the middle sizes (11 to 100 items) | `sort/sort.c:1667`, against `sort/README.md:468` |
   | evalexpr | a sign after an operator becomes `0` and a binary operator, so `3*-x` is `3*0-x` | `evalexpr/evalexpr.c:76`, against :481 |
   | date | `is_persian_leap_year` and the conversion of dates disagree about some years | `date/date.c:852` |
   | random | the spare of `random_gauss` survives a new seed; `random_randrange` takes steps below 0 | `random/random.c:617`, :120, against :57, :111 |
   | variant | an item pushed to its own array is read after it was freed; a push and a custom variant hide that memory ran out | `variant/variant.c:1259`, :1265, :1420 |
   | file_io | `file_writer_copy` misses what is buffered, and gives up the lock; `file_writer_write_batch` reports a failure for UTF-16; a reader of UTF-16 drops half of the text; `file_reader_copy` drops what is left of a `wchar_t` | `file_io/file_writer.c:548`, :1132, `file_io/file_reader.c:373`, :599 |
   | csv | a blank line is a row of a file and none of a string; `csv_file_insert_column` measures the index by the rows | `csv/csv.c:253`, :495 |
   | config | an encrypted value ends where a character is that of the key; an empty value is none after it was saved and read, and is gone the next time; the comment of a section is not saved; a line that begins with `=` is an entry of a file and none of a string | `config/config.c:1176`, :186, :253, :183 |

Three more are seen in passing runs, whose properties have to excuse them.

6. `primitives`. `thread_specific_delete` frees an entry that is not the head of the list and
   leaves it linked (`concurrent/concurrent.c:1426`), and `thread_specific_set` frees an
   entry it has linked when `TlsSetValue` fails (:1546). `ThreadExitCleansUp`
   excuses the histories that these have harmed.
7. `network`. `tcp_close` of a socket with TLS (`network/tcp.c:564`) leaves the
   session in the table for the next owner of the descriptor, against the comment of
   `tcp_get_ssl` (:1056). `SessionsOfConnections` excuses the descriptors so left, and
   only those.

## Remarks

Observations made while modelling that no run is about:

- `thread_pool_thread_count` is said to be smaller than what was asked for if
  some threads failed to start (`concurrent/thread_pool.c:334`); there is no
  such pool, since the creation then fails as a whole.
- The Windows wait that times out returns before the counter is taken down,
  against the note at `concurrent/concurrent.c:641`: the counter only grows, and later
  broadcasts find no last waiter to reset the event. `CountExact` counts the
  time-outs in.
- `rwlock_unlock` (`concurrent/concurrent.c:1966`) believes whoever calls it;
  a thread that asks for a lock while it holds one waits for itself (:1841).
  Both are outside of the contract that the model's threads keep.
- `tcp_enable_ssl` is said to return `TCP_SUCCESS` when TLS is enabled
  (`network/tcp.c:1078`). With the table full `tcp_set_ssl` (:1037) drops the
  object and reports nothing, and so does its caller.
- Two servers at a time share one published state (`network/http.c:1226`):
  the first one's return unpublishes the second. A stop whose waker cannot
  connect leaves `accept` blocked (:1270).
- `httpbuf_append` compares with `max - n` (`network/http.c:191`), which wraps
  if a build sets a limit below the size of one read.
- The verify mode of `tcp_connect_tls` is that of the shared context
  (`network/tcp.c:1286`): a connection that asked for no verification is
  verified if another thread asked in between. The other way round cannot
  happen, which is `VerifiedIsTrusted`.
- The logger counts a message as written if the output is a file and none
  is open (`log/log.c:312`), against the comment at :1051. A rename that
  fails in a rotation (:586) still lets the file be opened anew, and emptied.
- `vector_erase` and its like compare `pos + len` with the size
  (`vector/vector.c:385`), which wraps for a length near the largest `size_t`.
- `deque_resize` (`deque/deque.c:619`) and `list_resize` (`list/list.c:348`)
  never end if no memory can be had: the push they loop on reports nothing.
  The models have no step for such a call.
- A reverse iterator of a deque that is moved past the front keeps its
  position (`deque/deque.c:1341`), and `iterator_get` returns the first item.
- `list_insert` returns `list->head->value` after a push that may have failed
  (`list/list.c:222`).

Of the files:

- The directory is not synced, so a replacement that has returned `true` may be
  undone by a crash, to the old content as a whole. Threads of one process
  share the temporary file (`file_io/file_writer.c:605`): `Careful` excludes that.

Of the containers:

- `hashmap_max_load_factor_set` (`hashmap/hashmap.c:1152`) cuts a factor below
  0.001 to zero, by which `hashmap_reserve` divides.
- A forward list that is merged into or spliced onto itself loses its nodes
  (`forward_list/forward_list.c:371`, :567, :769): `AnyCall` excludes it.

Of the algorithms, texts and documents:

- `matrix_rank` (`matrix/matrix.c:5464`) reads past the rows of a wide matrix.
- `sort_radix` takes no negative keys. `bigint_sqrt` of a negative number makes
  GMP stop the program.
- `string_count` and `string_replace_all` with an empty pattern never end.
- The parser of json takes missing and leading commas and anything after a
  number; strings are not escaped by `json_format` and `json_print`.
- A csv row of one empty cell is not read back; `csv_file_read` cuts lines at
  1023 characters; `csv_file_concatenate` of a file to itself never ends.
- Only the first of two sections of a name in a configuration is found.
- `cli_set_option_dependencies` stores nothing; a required option at the end of
  the arguments gets none without an error.
- `variant_hash` (`variant/variant.c:987`) hashes the address of a custom value.
- `random_randint` over the full range divides by zero. The version 4 and 7
  UUIDs ignore a source that fails.

## Proofs

The six proof modules prove safety and refinement for instances of any size;
`tlapm` checks every leaf. Each safety property that a run checks of a
concurrent part is a theorem.

**Assumptions.** Those of the modules, which TLC evaluates on the runs, say no
more than that sets which the code tells apart are disjoint, that what is
counted is finite, and that limits are numbers. `PoolAssumption` has at least
one worker (`thread_pool_create` refuses less). `HttpRequestReaderAssumption`
keeps a read below the limit of a body, as the constants of the code do (64 KiB
and 16 KiB to 16 MiB); without it `max - n` wraps. `MaxChunksAssumption` says that
messages have a number of chunks. `VectorAssumption` and
`VectorClientAssumption` keep a new vector and the longest sequence a client builds
within what can be addressed. Four more are hypotheses of the theorems
that need them: `~Overlap`, that a server is started after the last one has
returned (`PublishedStaysOpen`, `StopsStick`); `Ordering`, that a comparison function puts items in an order, as
`priority_queue.h:15` asks of it; `Careful` and `RoomToDouble`, below. With the values that the runs give their constants, they hold.

**The pool.** `PendingIsOutstanding` and `WaitCoversEarlierTasks` are not
inductive by themselves: that a completion takes off the count a task that is
on it needs to know whose task a worker holds. `IInv` adds where every task
is. A counted task is in the hands of exactly the thread that submits it, a
queued one at exactly one place of the queue, a running one with exactly one
worker (`CurInv`, `AddingInv`, `QueueInv`, the three `...Unique`, `Held`).
`OwnerInv` and `ClientInv` say how far creation and destruction have come and
who may be inside a call meanwhile. `Drained` is what makes destruction right:
while something is queued some worker has not left, because a worker leaves
only from an empty queue and only workers submit by then. The step lemmas
preserve the four groups `Control`, `Hands`, `Places` and the two counts, one
step per action. From `IInv` follow `PendingCorrect`, `WaitCorrect`,
`RunsOnce`, `FreedSafely`; `WakeCorrect` needs two more inductions on top of it, one for each
condition variable (`WakeStep`, `WaitersStep`).
`Refinement` maps the state to `TaskExecutor` (what is accepted, running,
done; whether submissions are open) and shows each step to be one of its or to
leave it alone. The executor may close only when nothing it accepted is left;
`NothingOwed` derives that from `Held`, `Drained` and `OwnerInv`.

**The primitives.** For the lock, `CountersExact` gives the counters a meaning as sets of threads,
`Apart` keeps readers and writers apart, `ReadersKeptOut` says that a
blocked reader has a writer to blame, and `NobodyForgotten` that a thread is
blocked only while it could not have the lock. They are
inductive together and not singly: an unlock decides by the counters whom to
wake, and nobody is forgotten only if the counters tell the truth.
`MutualExclusion`, `Preference` and the refinement of `SharedLock` follow.
For `call_once`, `OnceInv` says that at most one thread is past the exchange of
the status and not yet done, and which status each of its steps has; nobody else
moves it. For the condition variable, `CondInv` joins `CountExact` and
`NotAllAsleep`: who sleeps is counted, and a signal that is dropped found nobody
counted. For thread-specific storage, `ListInv` describes the list as long as it is not harmed, whatever the number of keys: the entries
before `head` are freed and the others linked in their order. `PassInv` says where a
pass over it stands: what the destructor has had is what lies before the entry at
hand. `LiveInv` is what is left when entries were lost and nothing dangles: what the list leads
to is live. The counts of the specifications are those of the library's finite sets
(`SameCardinality`).

**The server.** `HandsInv` says where each connection is: in the backlog of a
listening socket, in the accept loop, with one job of the pool, or closed; it
names the server for each, and holds for servers that overlap.
`DrainedBeforeReturn` follows, and so does `ServedOnce`, which maps the jobs of each server
to a `TaskExecutor` of its own. `FlagsInv` ties the static variables to the one
server that is running and keeps the run flag clear from a stop to that server's return;
`PublishedIsOpen` and `StopSticks` need it.

**The request reader.** Its invariant is `FindsTheRequest` with `Shape`, which
says what is known in each phase: up to the framing the whole header block is in
the buffer and the decoder is new. Three arguments carry it. A search that starts three
bytes early finds the first end of the headers if none was found before
(`FoundIs`). The decoder comes to the same state with a block as with its bytes
one by one: a turn in `DATA`, which takes many bytes, equals as many turns with
one byte or fails where they fail (`TurnAgrees`, `FeedAgrees`); so a read between
any two bytes takes it from where the bytes before have led to where all of them
lead (`FeedWindow`). And an end, once reached, is not left (`AfterFinal`), so that
what is returned is what the bytes decode to however many were read. `Feed` and the bytes
one by one are recursive functions on numbers; that they are defined and that
every number has its turn is proved from the well-foundedness of the numbers, in
`Recursion` and `Induction`, with sets in the place of predicates.
`DecodesAnySplit` goes on from there. `Leads` says that some text takes the decoder, byte
by byte, from one state to another. A digit and an extension lead it to the
data (`LeadsDigit`, `LeadsExtension`), a chunk back to a new size with its data appended (`LeadsChunk`),
all chunks of a message to its body (`LeadsChunks`, by induction on their
number), the last chunk and the trailer to `DONE` (`LeadsMessage`) and a size that overflows to
`ERROR` (`LeadsOversized`). As no proper part of the text leads to an end (`LeadsInside`),
`Decided` is an invariant: of a message that fits, the decoder is done exactly
when all bytes are read.

**The TLS sessions.** `TlsInv`: a descriptor that is in use is one thread's, the object
of a slot is live and belongs to the thread whose descriptor the slot is for, two
slots never share either, and a verified connection has a trusted peer. It
is the ownership of descriptors that keeps what one section has looked up good for
the next: what others do to the table in between is in other slots. The slots of the descriptors in
`left` are excepted from the first part and from nothing else: what they hold is live
and in no other slot.

**The logger.** `LockInv` has one thread inside the mutex and each message
with one thread. On it rest `RateInv` (a thread about to count has found room),
`ShownInv` (what is on its way is at the end of the console and in no file, so that what
it is appended to keeps the console's order) and `CountInv` (the counters are the
numbers of the messages shown or about to be). The files of a logger are told apart only
by their paths, which is why `MessagesKept` ends where a path is used twice.

**The file.** `NeverHalfWritten` needs to know more of the files that have no
name yet: `Progress` says, for each step of a call, which part of the payload is
in the temporary file, in the buffer and on the disk, so that what is renamed is
whole in both. `TempsAlone` keeps temporary files apart from what the path, the
disk's path and the readers have; `Settled` says that whatever is visible in one
of these ways is whole and does not change any more, and `ReadInOrder` that a
reader has read the first pieces of it. A crash of the machine is the step that
shows why `kept` is needed: the path goes back to an older file, which has to
be whole still. The theorems assume `Careful`: a process replaces the path in one
thread at a time, and neither `fflush` nor `fsync` fails unnoticed. Without the
second there is finding 3, without the first two threads write one temporary
file. `FileRegisterRefined` maps the path's content to a register with a
durable copy: a rename is its write, the disk's update of the names its save.

**Vectors, stacks and queues.** Each function of `VectorOps` has a lemma that says what
it makes of the items and that the result is `Sound`: no more items than slots,
no more slots than can be addressed (`PushBackIs`, `InsertIs`, `ReserveIs`, ...;
`AssignItemsIs` by induction on what is pushed). That every vector, and the buffer of
every stack and queue, is sound is inductive; a queue is `Good` if besides its
index is inside the buffer and what it shows from there on are items, no `Nothing`.
`CompactIs`, `PushedIs` and `PoppedIs` say what the queue's moves do to the live part.
Then one lemma per call shows the step to be the call of the same name of
`ItemSequence`. Comparisons rest on where two sequences first differ (`SomeAgree`,
`CompareIs`, `LexIs`). `RoomToDouble`, that items are one byte wide or that the
vectors stay below half of what can be addressed, is needed where a call promises
to fail only without memory: `vecbuf_next_capacity` clamps a capacity that wraps as it
doubles (`vector/vector.c:46`), not one whose bytes cannot be counted, so past that
a push of wider items fails with memory to be had. What is well formed and how
they compare does not need it. A sort of a queue keeps it `Good` (proved); that
it sorts stably is defined with the library's `SelectSeq`, which the provers cannot
expand, and stays with TLC, so the queue's theorem lets a sort be what `QueueSort` says.

**The priority queue.** A sift holds an item aside and moves others past its slot, so in between
the slots hold one item twice and another not at all. `Sinking` is the invariant of the way
down: the slots are a heap but for the children of the slot where the hole began. It goes
to a leaf without looking at the item. `Rising` is that of the way up, of both functions: the slots
are a heap but for the leaf the hole came from, and the item would be above the
children of the hole. The two turns keep them (`RisingOn`, `SinkingOn`); the way up stops at the
latest where the way down began, because the slots it goes through are those of
a path (`OnPath`). A move of the hole is a swap of the row as it is when filled, and a swap
keeps the bag (`MovedIs`, `SwapBag`). The loops are recursive functions with as many turns as the
row has slots; `LoopIs` shows once for all that a loop whose turns bring a number down is
over by then. `SiftUpIs`, `SiftDownIs` and `HeapifyIs` say of each function that it
leaves a heap of the same items. `HeapStaysOrdered` follows. For `PriorityQueueImplementsBag`,
`RootIsFirst` has the root come after no other, by the least slot that
would be an exception, and `RootTakenOut` counts what is left. Both are proved for items
that may compare equal, while the run has only functions that tell all items apart.

**Only model-checked**: everything under fairness (`CallsReturn`,
`ImplementsFairExecutor`'s liveness, `WaitersServed`, `StopEndsServer`), which
is out of reach of these provers; the stability of `QueueSort`; the other containers and the library, most of which
recursive operators define (sorting and merging of lists, trees, loops over texts).

## What is not modelled

`PROJECT.json` gives the reason for each part. Some are not models of this
program's logic at all: wrappers of MPFR, PCRE, libpq, OpenSSL, raylib or
of the operating system's calls, tables of constants, formatting. Others are
planned. Within the modelled parts: wording and layout of messages and logs,
the values of time-outs (a deadline is an event), colours and formats of the
logger, printing and iterating for output, and addresses; in matrices,
statistics and random numbers, functions whose results are roots, limits or
rounded; in the containers, the deallocation of a whole object; text in locales
other than C and in wide characters of Windows.

## Plan

Done: pool, lock, Windows primitives, server, request reader, TLS table,
logger, files, ten containers, and the algorithms, values and texts of
`MCLibrary`; proofs of the safety of the concurrent parts and of the vector, the
stack, the queue and the priority queue.

Next, to model:

1. HTTP routes, the request line, headers and responses; TCP and UDP time-outs.
   Abstract specification: the first route that matches, with its parameters.
2. xml, on the tokens that tell its parser's states apart.

To prove:

1. The deque's blocks: that it implements `ItemSequence` at any size of a block. Its
   `Resize` has to become a recursive function first.
2. `List`'s links: `WellFormed` for lists of any length, where the pushes and pops
   need no recursion; its other operations, once theirs are functions too.

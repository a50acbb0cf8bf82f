# libdap4 in TLA+

TLA+ modules of libdap, the C++ library behind OPeNDAP's servers and clients, with the
configurations that model-check them with TLC and proofs that TLAPS checks. The modules are
translated from the C++ code; where a comment or a document says something else than the code,
the code is what is modelled and the difference is listed under *Divergences*.

    tlc -config MT.cfg MCMarshallerThread.tla
    tlapm MarshallerThreadProofs.tla

## 1. Inventory

A DAP server reads a data set description (DDS/DAS or, for DAP4, DMR), evaluates a constraint
expression against it, and writes the constrained variables to an `ostream`; a client gets the
response over HTTP, perhaps out of a cache, and reads it back. The library holds both sides.

### 1.1 Streams

| component | state it keeps | operations | what makes it correct |
|---|---|---|---|
| `MarshallerThread`, `Locker`, `ChildLocker` | mutex, condition variable, `d_child_thread_count` (0 or 1), the error text, the shared `ostream` | `start_thread`, the thread functions `write_thread`/`write_thread_part`, the destructor | one writer at a time, blocks in the order of the calls, every block written, calls return, nothing is destroyed under a running child |
| `XDRStreamMarshaller` / `XDRStreamUnMarshaller` | two XDR buffers each (static `d_buf`), a count of bytes over the parts of a vector | `put_*`/`get_*` of scalars, strings, opaques, vectors; `put_vector_start/part/end` | the reader takes exactly the bytes the writer sent, decodes what it read, within its buffers |
| `XDRFileMarshaller` / `XDRFileUnMarshaller`, `XDRUtils` | an XDR stream on a `FILE*` | the same calls, one `xdr_*` call each | as above, by Sun's library |
| `D4StreamMarshaller` / `D4StreamUnMarshaller` | a CRC32 context, byte order, a `MarshallerThread` | `put_*`/`get_*`, `reset_checksum`, `get_checksum`, `put_checksum` | the checksum covers exactly the bytes of one top-level variable |
| `chunked_ostream` / `chunked_istream` | write buffer; get area, `d_buf_size`, error flag | `put`, `write`, `flush`, end and error chunks; `get`, `read`, `read_next_chunk` | bytes arrive once, in order, within buffers; errors end the stream; reads return |
| `fdiostream` | a fixed buffer with put-back over a file descriptor | `underflow`, `overflow`, `sync` | as for any `streambuf` |

The marshaller's main thread and its child share the `ostream`; a chunked stream is the
`ostream` that a `D4StreamMarshaller` writes to.

### 1.2 Caches and HTTP

| component | state it keeps | operations | what makes it correct |
|---|---|---|---|
| `DAPCache3` | files in a directory, an info file with the total size, `fcntl` locks, a map of descriptors | `create_and_lock`, `get_read_lock`, `exclusive_to_shared_lock`, `lock_cache_*`, `unlock_*`, `update_cache_info`, `update_and_purge`, `purge_file` | processes that share the directory never see a half-written file, the recorded size is the size of the files, purging brings it down and spares files in use |
| `HTTPCache`, `HTTPCacheTable`, `Entry` | the table of entries with readers and two mutexes each, the cache-wide mutex, `d_locked_entries`, the sizes, the index and response files, the lock file of the single user | `get_cached_response`, `release_cached_response`, `cache_response`, `update_response`, `is_url_valid`, garbage collection, `purge_cache`, reading and writing the index | a body is not replaced while it is read, sizes are right, collection makes room, calls return, the index survives |
| `HTTPConnect`, `HTTPResponse` | temporary files, the cache | `fetch_url`, `caching_fetch_url`, `plain_fetch_url` | a cached answer is used only while valid, each file closed and each entry released |
| `SignalHandler`, `HTTPCacheInterruptHandler` | handlers and previous actions per signal | `register_handler`, `remove_handler`, `dispatcher` | a handler runs when its signal comes and the previous action after it |
| `Connect`, `D4Connect`, `Response` | URL, protocol, the response stream | `request_*`, `read_*`, `process_data` | errors in a response are reported, versions are taken from headers |
| `RCReader` | settings of `.dodsrc` | `read_rc_file`, `write_rc_file`, proxies | a value read is a value of the file or the default |
| `AISConnect`, `AISMerge`, `AISResources`, `AISDatabaseParser` | a database of ancillary resources by URL and regular expression | `request_das`, `merge`, `get_resource` | resources are merged in order with the stated rule |

### 1.3 Data model

| component | state it keeps | operations | what makes it correct |
|---|---|---|---|
| `BaseType`, the atomic types (`Byte` ... `Url`, `D4Enum`, `D4Opaque`) | value, `read_p`, `send_p`, parent, attributes | `buf2val`, `val2buf`, `serialize`, `deserialize`, `ops` | a value sent is the value read |
| `Vector`, `Array` | buffer or vector of elements, capacity, dimensions with start, stride, stop | `set_value*`, `vec_resize`, `add_constraint`, `reset_constraint`, `rename_dim`, `serialize` | the constrained size is the size of the buffer; indices stay in the dimension |
| `Constructor`, `Structure`, `Grid`, `D4Group` | variables in order | `add_var*`, `del_var`, `var`, `set_send_p`, `set_read_p`; `projection_yields_grid` | names are unique, the projection is closed upwards |
| `Sequence`, `D4Sequence` | rows, row numbers, start and end of instance markers | `read_row`, `serialize_parent_part_one/two`, `serialize_leaf`, `intern_data`, `deserialize` | markers nest, rows kept are those the selection and the row constraint admit |
| `AttrTable`, `DAS`, `D4Attributes` | nested tables, aliases | `append_attr`, `append_container`, `del_attr`, `find`, `add_container_alias`, `transfer_attributes` | an alias names what it was made for, deleting keeps the rest |
| `DDS`, `DataDDS`, `DMR`, `D4Dimensions`, `D4EnumDefs` | the variables of a data set, a factory, the response limit, the container | `add_var`, `del_var`, `mark`, `tag_nested_sequences`, `parse*`, `print*` | the response is what the constraint marked |

### 1.4 Languages

| component | state it keeps | operations | what makes it correct |
|---|---|---|---|
| `das.yy`, `dds.yy`, `Error.yy`, their scanners | a stack of tables or of variables | parsing | parse what is printed |
| `ce_expr.yy`, `ConstraintEvaluator`, `Clause`, `RValue`, `expr` | projection and selection clauses, constants to delete | `parse_constraint`, `eval_selection`, `eval_function*`, `append_*` | the selection is the conjunction of the clauses; ownership |
| `d4_ce`, `d4_function`, `D4FilterClause`, `D4RValue`, `ServerFunctionsList` | slices on an index stack, filters, functions | `parse`, `push_index`, `search_for_and_mark_arrays`, `eval` | slices apply to the dimensions named |
| `DDXParserSAX2`, `D4ParserSax2` | stacks of states, variables and attributes | SAX callbacks | states nest; an error leaves no half-built object in use; ownership |
| `Keywords2`, `escaping`, `mime_util`, `util`, `parser-util`, `XMLWriter` | little or none | conversions | inverse conversions, bounds, dates |
| `DODSFilter`, `Ancillary`, `getdap`, `getdap4`, `D4AsyncUtil` | options, the MIME headers | driver code | headers before bodies |

`Error`, `InternalErr` and the many exception classes hold a code and a message. `GNU/`, `gl/`,
`win32/`, `VCPP/`, `old/`, `tests/`, `unit-tests/`, `html/`, `conf/` are vendored, generated,
historical or tests.

### 1.5 What is hard in this code

* **Threads.** The marshaller's child thread; the HTTP cache, which is a singleton with per-entry
  reader counts and mutexes.
* **Processes.** `DAPCache3` synchronises processes with `fcntl` locks on the cached files and on an
  info file that also stores the total size; a process may crash at any point.
* **Protocols of calls.** `put_vector_start/part/end`; the mixture of `get`, `read` and
  `read_next_chunk`; the sequence markers; the states of the XML parsers.
* **Partial failure.** Streams that fail amid a block, threads that cannot be created, exceptions
  thrown between a lock and its unlock, truncated responses.
* **Numeric edges.** Rounding to four bytes, buffers filled to the last byte, sizes kept in narrow
  or unsigned integers, strides and stops of array constraints.

## 2. Plan

The order follows what a mistake costs and what a test can hardly reach: first the places where
threads and processes meet, then the protocols that two sides must keep in step, then the data
model and the languages.

| step | modules | composed of | state |
|---|---|---|---|
| 1 | `OrderedWriter`, `MarshallerThread` | the second implements the first | done, proved |
| 2 | `XDRStream` | takes the order of writes from step 1 | done, safety proved |
| 3 | `ChunkedStream` | writer and reader at the ends of a connection | done, safety proved |
| 4 | `HTTPCache` | `HTTPCache` and its table, threads and the disk | done, safety proved |
| 5 | `DAPCache3` | processes, POSIX locks and their caller | done, safety proved |
| 6 | `D4Response` | groups, DAP4 Sequences, counts and checksums; what the locks of step 1 order | done, safety proved |
| 7 | `ResponseCache`, `HTTPClient` | `fetch_url()` over an abstract cache that step 4 is proved to implement | done, safety proved |
| 8 | `NestedSequence` | the markers of nested sequences against their reader, and against `intern_data()` | done, safety proved |
| 9 | `DMRParser` | the stacks of `D4ParserSax2` under any document | done, safety proved |
| 10 | `D4Constraint` (`Array`, `D4Dimensions`, `D4Maps`, `d4_ce`) | slices, shared dimensions, and the sizes that DMR and data give | later |
| 11 | `Marks` (`Constructor`, `Structure`, `Grid`, `DDS::mark`), `Vectors` | algorithms against reference definitions | later |
| 12 | `AttrTables`, the DAP2 languages, settings, conversions | algorithms | later |

Abstract specifications: an ordered writer (step 1); a cache as a set of entries with holders,
which the HTTP cache implements and the HTTP client is built on (steps 4, 7); a writer and a reader
that agree on a tree (steps 2, 6, 8). Theorems: the safety invariants of each step for every number
of threads, processes, files, levels and elements; the refinements of steps 1 and 7. Parts that
share no state (steps 6 to 9) have one run through one MC module. A module that carries a proof
uses no RECURSIVE operator.

## 3. The modules

### 3.1 `OrderedWriter`, `MarshallerThread` (`MarshallerThread.cc`, callers in `XDRStreamMarshaller.cc`, `D4StreamMarshaller.cc`)

A marshaller's main thread writes small values itself and gives large vectors to a detached child
thread; both write to one `ostream`. `OrderedWriter` is the promise: blocks are accepted, and each
is written once, in order, until the stream fails. `MarshallerThread` has the main thread's program
counter (`main`, the points between two lock operations), the mutex (`owner`), the predicate
(`count` is `d_child_thread_count`), the condition variable (`signalled`), the children (`child`,
one per block), and the stream (`out`, `stream`). `LockerLock`/`LockerWake`/`LockerUnlock` are the
constructor and destructor of `Locker`; `ChildLock`/`ChildUnlock` those of `ChildLocker`;
`DtorLock` to `Destroy` the destructor of `MarshallerThread`. A write is a step in and a step out,
so that two at once would be seen. Switches add the failures: a failing stream (which throws for
DAP4, `StreamThrows`), `pthread_create()` that fails, spurious wake-ups.

### 3.2 `XDRStream` (`XDRStreamMarshaller.cc`, `XDRStreamUnMarshaller.cc`)

What one `put_*()` adds to the stream and what the matching `get_*()` takes from it, in bytes:
paddings, doubled lengths of vectors, the rounding of both sides, the two static buffers. A value
is its kind and its length; values themselves are left out. `PutVectorStart`, `PutVectorPart` and
the padding of `put_vector_end()` keep `partial` (`d_partial_put_byte_count`) modulo `CounterMod`.
Reading is one action per `get_*()`, with the number of bytes read, the room they were read into,
and whether what is decoded is what was read.

### 3.3 `ChunkedStream` (`chunked_ostream.cc`, `chunked_istream.cc`)

Bytes are numbered in the order they are put; a chunk says which numbers it disposes of and how
many of them arrived. `PutByte` is `sputc()` with `overflow()`; `Buffer`, `FillChunk` and `NextChunk` are
the cases and the loop of `xsputn()`, `DataChunk` and `EndChunk` the two calls that flush, `Close` the end chunk and `ErrChunk` the error chunk. On the
reader's side `area` is the get area, `cap` is `d_buf_size` and the loop of `xsgetn()` takes one step for each
chunk. The stream under the writer may fail before or anywhere inside a chunk.

### 3.4 `HTTPCache` (`HTTPCache.cc`, `HTTPCacheTable.cc`, `HTTPCacheTable.h`)

Every public call locks `d_cache_mutex` first and unlocks it last, so one program counter `at` and
the thread that runs (`iface`) are enough; only `release_cached_response()` is a step of its own,
taken by the holder of a response. An entry is numbered by its files; it has a reader count and
two locks, as in `CacheEntry`. Waiting for an entry's lock is a step that is not enabled. The
index on disk, the body and header files, and the table survive or vanish at a crash as they do in
the program: `Crash` drops the table and leaves the files, `Restart` reads the index. Garbage collection
removes expired entries (which ones is left open), then by hits, pass by pass. Sizes are counted
in blocks, dates are fresh or stale. An I/O error may strike each place: a write of body or headers may
throw (`NotCached`), or fail at the `fclose()` whose result nobody looks at, and then the file has a part
only (`Closed`). The index is emptied (`OpenIndex`) before it is written (`WriteIndex`); a failing `fprintf()` or
`fclose()` (`IndexCutOff`) and a crash leave some of its lines, of which the last may be cut (`CutOff`): without a
hash it cannot be read (`Unreadable`), and `Restart` is refused as long as it is there.

### 3.5 `DAPCache3` (`DAPCache3.cc`, its caller in `old/D4ResponseBuilder.cc`)

Neither file is in `Makefile.am` at this commit, but the class is in the tree, its header documents
what it promises, and `read_cached_dataset()` is the only caller. Processes share a directory and
an info file with the total size. A file is an inode under a name. Locks are POSIX `fcntl()` locks:
they belong to a process and an inode, a process is not hindered by its own, closing any
descriptor of the inode gives them up, and a wait that would close a cycle is refused with
`EDEADLK`. The program counter `pc` says which lock a process asks for next, or what it does under
the locks it has: `Request` is `is_valid()`; `Purge`, `Unlink`, `Resize`, `Store` are
`purge_file()`; `Get`, `Wait` are `get_read_lock()`; `Open`, `Read` are
`get_cached_data_ddx()`; `Create` is `create_and_lock()`; `Compute`, `Write` the evaluation and `cache_data_ddx()`;
`Downgrade`, `Count`, `Shrink` the three calls after it; `Use` is `unlock_and_close()`.

### 3.6 `ResponseCache` and the promise of `HTTPCache`

`ResponseCache` is what callers of the HTTP cache may rely on: at most one entry for a URL
(`Replace`), an entry that is open is neither replaced nor dropped (`Drop`), `Get` and `Release`
pair up, and what `Restart` finds was in the index when it was last written (`Save`). In
`HTTPCache`, `Promise` maps the table, the open responses and the index to it; `KeepsPromise` is
the refinement. `AddEntry` is `Replace`, `OpenBody` is `Get`, every removal is a `Drop`, the writing
of the index a `Save`; all the rest stutters.

### 3.7 `HTTPClient` (`HTTPConnect.cc`, `HTTPResponse.h`, `HTTPCacheResponse.h`)

`fetch_url()` for threads that share one `ResponseCache`, one step for a call of the cache or of
the server. `LookupFound` to `Condition` are the branches of `caching_fetch_url()` up to the
request, `GetTempFile`, `ReadFails`, `ReadNew` and `ReadNotModified` the request and its
outcomes, `UpdateResponse`, `Reopen` and `ReopenNothing` the 304 branch, `Stored`, `NotStored` and
`StoreFails` what `cache_response()` does; `stuck` are the locks that entries keep after `get_cached_response()`
or `update_response()` threw (`LookupFails`, the throwing branch of `UpdateResponse`), which the calls that follow respect; `plain_fetch_url()` is the same request without the
cache. `Redirect` deletes the response and starts again. A response holds a number out of
`MaxStreams` open files. `Collect` stands for other users of the cache, `Change` for the server. A
body is known by the version it had at the server, so that an old body can be told from a new one.

### 3.8 `NestedSequence` (`Sequence.cc`, `read()` as in `tests/TestSequence.cc`)

`serialize()` and `intern_data()` walk the same rows; one walk yields both the response (`wire`) and
the interned values with their stack of vectors (`interned`, `stack`). `Enter` is the beginning of
`serialize()` at a level, `NotAhead` and `ReadRow` are `read_row()`, round by round, with the
selection true or false; `LeafBegins`, `LeafRow`, `LeafEnds` are `serialize_leaf()`, `ParentRow` and
`ParentEnds` `serialize_parent_part_one()`, `SendParent` the sending of parents that the leaf
triggers, outermost first, one parent after the other and nothing in between, and `Return` the way
back to the parent. `client` is `deserialize()` at the other end: which Sequences it is in and what
it looks for there. The response arrives as it is written and the client never answers, so that it
takes each item as soon as it is written (`SendRow`, `SendEnd`). The constraint may give ranges of
rows (`Constrain`).

### 3.9 `DMRParser` (`D4ParserSax2.cc`, `D4ParserSax2.h`)

The SAX callbacks, for a document that `print_dap4()` writes (`Rank` is its order of elements) or
for any nest of elements, in strict and in permissive mode (`strict`). A printed Map names an array that was
found or, when its data come later or were not asked for, is not; an Attribute may have no values, and an OtherXML
may hold elements of other namespaces. `parser` has the four stacks and what the parser works on, one
operator for each `process_*()` method and each case of `dmr_end_element()`; `made` is what
is in the DMR at the end, `written` what the document said. XML attributes are good, missing or bad.
`top()` and `pop()` of an empty stack end in the result "undefined", the exception of a
dimension that is not found in "exception".

### 3.10 `D4Response` (`D4Group.cc`, `D4Sequence.cc`, counts and checksums of the DAP4 marshallers)

The variables of all groups in the order they are sent, each a scalar or a Sequence down to some
depth. `ReadNextInstance` is one round of `read_next_instance()`, `EndOfInstance` the end of
`read_sequence_values()` with the copy that the parent keeps; `values` is `d_values` of the
Sequences themselves, which nothing empties, `truth` the rows of the current instance.

`serialize()` and `deserialize()` go down one row at a time, at both ends. The server has a place in
the rows of each Sequence it is in (`sendLevel`, `rowsAt`, `toSend`): `SendOutermost` and `SendChild` write
a count, `SendValue` a row's value, `SequenceSent` leaves a Sequence, `SendScalar` and `SendChecksum` are those of
`D4Group::serialize()`. The client has its own (`getLevel`, `toCome`, `cell`), which it knows from counts and its DMR only:
`GetCount`, `GetValue`, `GetChecksum` take an item, `ClientEnds` leaves the loop of `deserialize()`. The stream has no
types, so an item that is not what the client looks for is misread ("error"). As the response is one
stream that the client never answers, the model lets it take each item when it is written, and be as far
as it gets before the next one.

### 3.11 `MCDataAccess`

Steps 6 to 9 of the plan have no variable in common. `MCDataAccess` takes all four modules and
lets a behaviour be of one of them (`part`), so that they share a run. Nothing is lost by that: each
part takes all its steps, and no step of one could disturb another.

## 4. Runs

| run | module | what it asks | size |
|---|---|---|---|
| `MT` | `MCMarshallerThread` | one writer, the mutex outlives the child unless the destructor's wait returned early, the count tells of the children, calls return, blocks arrive, the refinement of `OrderedWriter` | four blocks, every failure and spurious wake-ups |
| `MTHang` | `MCMarshallerThread` | *violation*: calls return also when a child cannot be created | four blocks |
| `XDR` | `MCXDRStream` | alignment, parts as the whole, the reader in step, buffers, what is decoded | two values of eight kinds and eleven lengths |
| `XDRMisround` | `MCXDRStream` | *violation*: the reader is in step after every value | two byte vectors |
| `Chunked` | `MCChunkedStream` | nothing twice, in order, nothing lost, buffers, reads return | six bytes, a buffer of two |
| `HTTPCache` | `MCHTTPCache` | held responses stay, counts, sizes, files, torn bodies, what the index misses, calls return or are stuck in a named way, the refinement of `ResponseCache` | two threads, two URLs, two entries, one failure, one crash; 1,018,291 states |
| `HTTPCacheDeadlock` | `MCHTTPCache` | *violation*: calls return, given that responses are released | two threads, one URL, no failures |
| `DAPCache` | `MCDAPCache3` | readers undisturbed, new files stay, the recorded size, deadlocks, requests end | two processes, two files, three requests, one failure; 508,623 states |
| `DAPCacheDeadlock` | `MCDAPCache3` | *violation*: no cycle of waits | two processes, two requests, no failures |
| `DataAccess` | `MCDataAccess` | DAP2 Sequences arrive as selected, interned as sent, rows never backed up; a printed DMR is read back, but where the parser is strict and a Map leads nowhere; refused start tags are not forgotten; DAP4 data and checksums in step; no response or file left open, no entry removed under a lock that was left, no stale body, ETags that fit | see below; 2,167,282 states |
| `ClientStreams` | `MCDataAccess` | *violation*: a body that turned out not valid is closed | the client of `DataAccess`, one thread |
| `D4Nested` | `MCDataAccess` | *violation*: `d_values` holds all and only the values to be sent | one Sequence in another, two rows each |

**Bounds.** Each bounds something the properties do not tell apart beyond it.
*MT*: four blocks are two calls with a child, one after another, and direct writes before and
between them; there is never more than one child, so a third call repeats the second.
*XDR*: a value out of step is seen by the next value, so two suffice; lengths cover every remainder
by four below, at and above both buffers, and the counter wraps at 8.
*Chunked*: with a buffer of two, six bytes make three chunks, a write of five is two whole chunks
and a rest, a read of three spans chunks, and the reader's buffer of one must grow.
*HTTPCache*: two entries suffice for an eviction, a replacement and a collision of two URLs, two threads
for each race of a holder with a call; readers are capped at two, hits at one, which lets the
collection by hits take two passes. Failures and crashes are one each:
a second failure is of a kind with the first, and what a crash meets after a failure is there.
*DAPCache*: three requests let one process evict or purge a file that a second made and still
uses; the cache holds one file of size two and evicts at the second. Once, outside the runs, it
was also checked with files of two sizes (1.79 million states, with `RequestEnds`) and
with three processes (safety).

*DataAccess*: Sequences of one or two levels have three rows in an instance, of three levels two; a
leaf, a parent that is a child, and the outermost Sequence are all there, and an instance may be the
first, one in the middle or the last. Ranges begin at row 0 or 1 and have strides 1 and 2 for one level.
A printed document has six elements, which is an attribute with a value in a container of a variable
of a group, and any document three, which is enough to put each element in each state that is three
deep; the theorem about it has no bound. A DAP4 response has two variables, so that the second shows
what the first left in the stream, and Sequences of two levels with two rows read. The client: two threads, two
versions and two entries, which is one answer that overtakes another; one URL redirects to the other. One lock
may be left by a call that throws (`MaxStuck`): a second one stays on another entry just as well.

**Deadlock checking** is off where the system really stops: a marshaller that is destroyed
(`MT*`), a response that was read (`XDR*`), a cache in which every thread waits (`HTTPCache*`), a
server that has had its last request or whose processes are dead (`DAPCache*`), a response or
document that is done, or a client whose entry stays locked (`DataAccess`, `ClientStreams`, `D4Nested`). `Chunked` checks it.

**Fairness.** `MarshallerThread`: weak fairness of the steps of the main thread inside a call and
of each child, as the operating system schedules both (a wait ends only once it is signalled: no
fairness of spurious wake-ups); a marshaller is not obliged to make a call.
`ChunkedStream`: weak fairness of `NextChunk` and `ReadChunk`, the loops of a write and of a read
that were begun. `HTTPCache`: weak fairness of the
steps of the call that has the interface, and of the release by each thread that holds a response:
a caller who never releases may block others, which is the caller's fault. `DAPCache3`: weak
fairness of each process's steps within a request; an `fcntl()` lock that is free is granted. No
fairness is assumed of failures, deaths, signals, or of new requests, so that liveness never
relies on them. `MCDataAccess` checks safety only and needs none.

## 5. Proofs

Each `*Proofs` module proves `Spec => []IInv` from `Init => IInv` and `IInv /\ [Next]_vars =>
IInv'`, one lemma per action, and derives the properties. The assumptions are the named ones of
the constants (naturals, non-empty sets); none of the theorems depends on a bound but as an
arbitrary number. Where a theorem needs more it says so in its statement.

* `MarshallerThreadProofs`. `IInv` ties the mutex to program counters (`LockInv`), the count
  to live children (`CountInv`), and the written blocks to those handed over (`OrderInv`). That
  `InOrder` holds is not inductive by itself: it needs that a child which has not written yet
  carries the last block handed over. All safety theorems hold under every failure, spurious wake-ups included.
  The destructor waits without a loop; so `DtorInv` says what its wait leaves: a wait that returned without a
  signal sets `early`, and `DestroyedLast` is that nothing else brings the destructor past a child. `CountExact`
  makes the same exception, and so does the `Refinement` of `OrderedWriter`: after such a wait the end of the
  marshaller is not mapped to the end of the writer, and no more than that is given up.
* `XDRStreamProofs`. The strengthening for the writer is `PartsInv`: the counter over the parts and
  the length of the stream agree modulo four, whatever wrapped. `Aligned`, `PartsEqualWhole` for
  every sequence of calls and length. For the reader it is `SentAsPut`: what a value takes in the
  stream depends on its kind and length alone (`WireBytes`), however it was put. `InStepUnlessMisrounded`,
  `BufferHolds` and `DecodedAsRead` follow, for any two buffers of which the reader's is at least three
  bytes larger (`BuffersAssumption`; they measure 256 and 4096 bytes), as an opaque that the writer's
  buffer holds is rounded up on its way into the reader's. The proof found a case that the runs had
  not: `get_vector(char **)` compares the length *as the reader rounds it* with its buffer, so the exception
  `LongBytes` begins at that length; there is now a length for it in the run.
* `ChunkedStreamProofs`. `IInv` is all six safety properties with `WriterInv`, `WireInv` and
  `ReaderInv`: what the buffer holds, that only the last chunk can be cut, that the get area is
  the tail of the last chunk read.
* `HTTPCacheProofs`. `IInv` ties a call's program counter to the state of the entry it works on
  (`CallKnows`), locks to counts (`LocksAgree`, `HeldCounted`), and the table to files that are
  there. `Held`, `Unique` follow, for any number of threads, URLs, failures and crashes. `Untorn` adds that the
  body of the entry that is made is whole once it was written (`WholeMade`): as long as no write failed, no
  crash or collection leaves an entry with half a body, and a held response is whole. After a failure neither is
  true (`NoTornBody`).
  `Refinement` is `Spec => KeepsPromise`. It needs `RInv`, which adds to `IInv` that a call about to
  take a response does not have it yet and that a process that is down has no table (`Fresh`). One
  lemma for each kind of change: what removes entries drops them (`RemoveDrops`), what touches only
  locks, counts and files is not seen (`NotSeen`).
  `SizeIsExact`: a sum over a set of entries is the cardinality of the set of their blocks (`Sum`),
  so that the library's facts on finite sets do what induction would; adding, replacing and removing entries
  add and remove disjoint sets of blocks. `LossIsBounded`: as long as no write
  fails, what is not in the index is counted (`Counted`); a failing write of the index may lose any of it.
  `LocksGivenBack` and `FilesMatch` need `EInv` together: while nothing fails, each entry is locked and counted
  exactly (`LockedExactly`), each file has its entry (`Here`, `NotHere`, `HeadersThere`), and a call that
  is about to remove or keep an entry knows which (`Kept`).
* `DAPCache3Proofs`. `IInv` says that a process that works on a file has it locked, under the name
  it knows (`OnFile`, `OnNew`), that locks exclude each other (`CacheLocked`, `FilesLocked`), that an
  inode has one name at most (`Names`), and where a file is incomplete (`Complete`). Lemma
  `Frame` reduces an action to what it does to its own process, `GoneKeeps` serves the two actions
  that remove names. `Undisturbed` and `Stays` follow, for any number of processes and files.
  `PurgeDeadlocks`: only three places of a request keep the cache locked (`CacheHeld`), and without failures only a
  maker has a file locked for writing (`NewWritten`), so who is waited for does not wait, unless it
  is `purge_file()`. `SizeIsRecorded`: `Recorded` says of each place of a request what the sum has of the file
  that comes or goes. The theorem is about files that together measure less than `Word`
  (2^64), as an antecedent of the temporal formula: nothing in the code sees to it but the disk.
* `HTTPClientProofs`. `FInv` says that an open file belongs to one thread at most (`Handles`), that locks
  and temporary files are those at hand (`Left`), and what a thread has at hand at each place of its
  call (`AtHand`), and `StuckStays` that an entry which a throwing call left locked stays in the cache:
  `NothingLeftBehind`. `CInv` adds that an entry has the newest body stored
  for its URL and no newer ETag (`Newest`), and what each thread knows of its question, the
  answer and the body (`Knows`): that an entry which took the place of another is no older is what
  makes `HandsOutCurrent` and `TagsFit` hold although entries are found again by URL. For any threads,
  URLs, redirections, versions and failures, over any cache that keeps the promise of `ResponseCache`.
* `NestedSequenceProofs`. `SInv` says of each level outside the one at work that its row number is
  behind the row asked for next, or -1 below it: `NoEndInside` is the heart, that without a range a child
  leaves its loop only at the end of its instance, where the handler resets it. `NeverBehind` for
  any depth, number of rows, selection and range of the outermost Sequence.
  `RowsAlwaysArrive` and `InternAlwaysAgrees` are about the same Sequences, and need `IInv`. Its heart
  is that the parents whose rows are not sent are just the levels from `Len(stack)` on (`UnsentFits`), that each
  vector on the stack is that of the rows its parents are at (`StackFits`), and that `d_wrote_soi` (`WroteFits`,
  `LeafWroteFits`) and `orig_stack_size` (`BaseFits`) tell the same of a level: that its vector is on the stack.
  So an instance that ends takes its vector, and closes it at the client, if it has been begun there and
  only then (`InstanceEnds`), and the client always is where the sender is (`ClientKeepsUp`). What was chosen
  is what the vectors hold, and the row of the leaf that is about to be sent (`Filling`, `ChosenFits`). That the
  rows chosen are those of the range takes some arithmetic: read_row() stops at the multiples of the
  stride, and no row between two of them is asked for (`FlatFits`, `AskedInTurn`). The rows of the leaf
  come from all vectors one after the other, which a recursive function adds up (`FlattenSeq`): what
  it does to one more vector (`FlattenAppend`) is proved by induction, for which the library's theorem on
  least elements (`WFMin`) does: a set of numbers that has 0 and, with a number, the next, has them all
  (`SetInduction`).
* `DAP4Proofs`, the DMR. `PInv` says that an error that a start tag pushed is still in the stack of
  states and that the state of an accepted document can only be at its bottom. `RefusedIsNotAccepted`
  for any document, however long, nested or wrong.
  `PrintedReadBack` is about a document that `print_dap4()` writes, of any size and depth, for a strict and a permissive
  parser. What it says is what the code does: an exception comes from a strict parser only, an attribute without
  a value is not made, and where an OtherXML has elements of other namespaces nothing more is said. Its invariant
  `PrintedInv` needs to know what the four stacks hold, and so what can be nested: the elements that have begun
  and not ended are first `g` groups, then `v` variables, then containers of attributes up to element `t`, and then
  at most one element without a table with what is in it (`Layered`). These three numbers give the stacks
  (`Grouped`, `Varied`, `Tabled`, `Stated`), the values that the methods note (`Working`), and what is not made
  until end tags come (`Left`). The order in which `print_dap4()` writes matters twice: a Structure becomes an array
  only after its members, so that no member goes into a prototype that is replaced (`Varied`); and `EndGroup()`
  leaves the group's attribute table on its stack, which does no harm as nothing but another group comes after
  a group (`Tabled`). One lemma for each group of kinds of element at start tags (`GroupBegins` to `HeldBegins`,
  joined in `Begins`) and at end tags (`GroupEnds` to `XmlEnds`, joined in `Finishes`).

* `DAP4Proofs`, the data. `StepInv` has for each thing the server may write next what the client looks for and
  where it is (`AtBegin`, `AtCount`, `AtValue`, `AtChecksum`). Client and server need not be in the same Sequence:
  the client leaves one as soon as it has the rows it was told of, the server only when it asks for the next
  row. So `AtValue` says that the Sequences between the two have no rows left to send, and those up to the client's as many
  as it waits for. How deep rows nest is not said by a number but by a set of sequences of rows that has the
  children of all its rows (`AreRows`), which grows as rows are kept (`RowsGrow`). `AlwaysInStep` for any variables,
  nesting, rows and filter. `DataInv` adds what was read (`LoadedFits`, `ReadsOne`, `ReadsTwo`: the first child starts with no rows,
  as it should, the second would not) and that what the client has is the first rows of it (`OneSent`, `TwoSent`):
  `AlwaysAllAndOnlyOnce`, with the exception that the property makes.

**Only model-checked.** Liveness (`CallsReturn`, `BlocksReachStream`, `ReadsReturn`,
`InterfaceFreedOrWedged`, `RequestEnds`): the prover does no ENABLED. All safety
properties of the passing runs are proved, some under an assumption that is named above: `SizeExactAlone` for
sizes within a word, `RowsArrive` and `InternAgrees` without ranges inside.
The type invariants and `OnePerUrl` are the other way round: they are proved (`TypeCorrect`, `Unique`) or part
of the inductive invariants, and no run repeats them.

## 6. Divergences

What the code does and what its comments say, where they differ. Six are findings that
a run shows, which is named; the others were met while modelling, and the models follow the code. Some
of those are stated in the modules as what the comment says, and are false of the code: `CountAlwaysTells`,
`NoTornBody`, `ForceStarts`, `AllCanBeReleased`, `OtherXMLKept`, `ErrorsThrow`, `NoMisuse`. TLC finds each of
them violated when it is put into the `.cfg` of the component's run as its invariant (`NoMisuse` with four
elements); no run repeats that.

*MarshallerThread.* The count stays at one when `pthread_create()` fails, so the next call waits
for ever (`MTHang`). The destructor waits once, not in a loop: after a spurious wake-up the mutex is destroyed under a
child, and the count is forced to zero (`CountAlwaysTells`). A DAP4 stream throws in a detached
child without a handler, which ends the process (`D4StreamMarshaller.cc:217`). `d_thread_error`
is never read. The byte count of a DAP4 vector is cut from 64 to 32 bits on its way to the child (`D4StreamMarshaller.cc:561`).

*XDR.* `len & 3` is not the number of bytes that is missing to a multiple of four (`XDRMisround`). Byte
vectors that do not fit the reader's buffer are decoded from that buffer
(`XDRStreamUnMarshaller.cc:272`). A vector of just the buffer's size leaves no room for its length
(306). A premature end of the stream is noticed by `get_byte()` only. 16-bit vectors are decoded with a stride of
four into memory of two bytes each (300). The encode buffer is static and filled before the lock is
taken.

*Chunked.* `sync()` returns `not_eof(-1)`, which is 0, where its comment says -1
(`chunked_ostream.cc:326`). A truncated body counts as read. A read that ends early returns -1
where the comment says the number of bytes (`chunked_istream.cc:172`). Counts of 64 bits are
kept in 32.

*HTTPCache.* Updating or replacing a response that is open elsewhere never returns, with the interface locked
(`HTTPCacheDeadlock`). `hits_gc()` does not end when too much is in use (415-425; the comment at
1462 says such entries are merely kept). A failed update gives back a read lock where it has a write lock (1369). A
failed open leaves its read lock (1508, and 1369 likewise): the caller has an exception and nothing to release the entry with
(`AllCanBeReleased`). `write_body()` throws "if an I/O error was detected", but a failing `fclose()` is none: an entry gets
half a body (`NoTornBody`). A line of the index that was cut off, by a crash or a full disk, makes every later
process throw when it starts, with force too (`ForceStarts`); so does a line longer than the 1023 characters that
`fgets()` is given. A failed write of the index may set the count of new entries to 0 (429). `is_url_in_cache()` says it locks and does not (940). The lock file is
looked for and then made (468). Releasing a body twice leaves a null entry for which every later
purge is refused.

*DAPCache3.* `purge_file()` closes a cycle of waits (`DAPCacheDeadlock`). The change to a shared
lock is not atomic in effect (608), as closing the output stream has dropped the exclusive one; in between another
process may remove the new file, and `update_cache_info()` throws. `purge_file()` writes the size
without the lock (969). A file that is written but not yet counted is counted twice by an eviction in between, and
purging one wraps the unsigned size. `d_locks.insert()` keeps an older descriptor (183), so that
`unlock_and_close()` closes that one. A request that throws leaves its file empty and locked. A
process that dies while it makes the info file leaves it empty for ever (446). A data set that
changes while its result is computed gives a file that looks newer.

*HTTP client.* The body of a response that is to be validated is not closed (`ClientStreams`). A 304 for an
entry that was collected meanwhile gives a response without a stream (`HTTPConnect.cc:919-920`). An exception of
`cache_response()` leaves the temporary file, open and on disk (870, 907). When an older answer is stored
after a newer one, the next update gives the old body the newer ETag, and the server will call it valid
from then on. The type of content of the last reply is added to the headers of a response from the cache (662-664). Redirections are
followed without a limit (676).

*Sequences.* `reset_row_number()` is there so that an inner Sequence "will start off reading row zero"
(`Sequence.cc:424-426`), but only the handler calls it, at the end of an instance: a range of rows of
an inner Sequence leaves it where it was, and the next instance throws (`NoBackUp` is violated once
"inner" is in `Ranged`). `reset_row_number(bool)` calls itself, not the child's (444), for ever. The child
rows of a DAP4 Sequence pile up (`D4Nested`).

*DMR parser.* An error that is found at an end tag is pushed and popped again, and the document is accepted
(`ErrorsThrow` against `D4ParserSax2.h:68-70`). An `Attribute` in an `Attribute` changes the
name under which the rest of the outer values go. A Structure in an array of Structures replaces the
prototype (1086). Elements of another namespace inside OtherXML are dropped (`OtherXMLKept`), and a DAP4 element inside a foreign one
ends the state of the foreign one. The end of a group does not pop its attributes. `other_xml_depth` is not
reset. `print_dap4()` writes attributes without a value, which the parser never makes. A strict parser refuses a Map
whose data come later or were not asked for, though `print_dap4()` writes it. Some documents make the parser pop an empty stack (`NoMisuse`).

*DAP4.* Counts and checksums are not byte-swapped by the reader, and no checksum is ever compared. A part of a vector of 64-bit
reals is sent as one of 32-bit reals (`D4StreamMarshaller.cc:797`): half of its bytes.

*Constraints* (read, not modelled). A stop before a start passes (`Array.cc:659`). A slice of a shared dimension
takes one map of an array away where the comment says "any". `a[0:2];a` leaves the size of the first and the name of the
shared dimension. Arrays in a Structure in a Structure are not given the slices of shared dimensions.

## 7. What is not modelled

The components marked *not modelled* in `PROJECT.json` have no module. The constraint expressions with
`Array` and the dimensions, the marks, and the attribute tables could have one, and are the rest of the
plan. Signal handlers act amid calls, which is undefined behaviour as soon as one does anything.
Formatting, scanners, generated parsers, settings and the drivers are conversions or I/O.
Within the modelled components: the `start_thread()` overload for descriptors (not called), the
values of XDR items, the byte-order bit of chunks, the two calls of `HTTPCache` that do not lock
(`is_url_in_cache()`, a data race with any other call) and its settings other than the size, the
mangling of names in `DAPCache3`, libcurl and headers below `HTTPClient`, printing and copying of
Sequences, characters, entities and prefixes of a DMR, and printed OtherXML whose own elements have the names of DAP4
elements in the DAP4 namespace (they would count as such), lines of the index by their length. The layout of memory (strides, buffers that overlap) is modelled only as
far as sizes go.

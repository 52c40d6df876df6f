# TLA+ models of the KeystoneDB Python client

These modules model the Python client layer of KeystoneDB (`src/bindings/python/client/keystonedb/`)
and the contact-manager example that uses the embedded binding
(`src/examples/python-embedded/contacts.py`). They cover the gRPC `Client`, the request builders and
the `ContactManager` class, and check them with TLC. The remote
storage service is not modelled: it is outside this layer (spec §1). It appears only as the
environment that answers calls and streams scan chunks.

## 1. Inventory

| Component | Source | State | Operations |
|---|---|---|---|
| Client | `client.py` | `_channel` (a gRPC channel) and `_stub`. A caller blocked in a call holds that call's gRPC call object. `scan()` also holds a local `items` list. | `connect`, `close` (also run by `__exit__`), ten unary methods that each do `return self._stub.X(request)`, and `scan` (iterates a server stream, raises on the first chunk with a non-empty `error`, otherwise extends `items`) |
| Request builders | `builders.py` | One object per call site. It holds the fields set so far: partition/sort key, attributes, condition, expression values, sort-key condition, limit, index, scan direction, segment. | constructors, chained `with_*` mutators, writes to the public attributes that have no mutator (`expression_values`, `filter_expression`), and `build()` |
| Package exports / setup | `__init__.py`, `setup.py` | none | none |
| Contact manager example | `examples/python-embedded/contacts.py` | `db` (an embedded Database) over a file at `db_path` | `__init__` (open, falling back to create on any exception), `add_contact`, `get_contact`, `update_contact` (read-modify-write, its read outside the try), `delete_contact`, `flush`; `main()` runs three demo scripts: one of these calls, and two of direct Database calls (sort keys, in-memory) |
| Task example | `examples/grpc-client/python/tasks.py` | none | It calls an API this client does not have (`Client(addr)`, `async with`, argument-less builders, `.partition_key()`, `BatchGetRequestBuilder`). It raises TypeError at its first statement. |
| Embedded smoke tests | `bindings/python/embedded/test_smoke.py` | none | Assertions about the embedded Rust binding: put/get/delete, reopen after flush, value types. |

**How the parts interact.** A caller builds a request with a builder and passes the result to
a `Client` method. The Client sends one RPC over the shared channel. Several threads may use
one Client: the channel multiplexes their calls, and the client itself has no lock (spec §5).
Any thread may call `close()`. Closing the channel cancels every RPC still in flight, and any
later call raises `ValueError`.

**What makes this hard.**
- Concurrency: several callers block on one channel while another thread closes it.
- Failure: a stream can fail at any point. The chunks still in transit are lost. The one chunk
  gRPC has already received is still yielded, and then the iterator raises.
- Ordering: the aggregated scan list must follow chunk arrival order. An error chunk must stop
  the aggregation at once and discard the items gathered so far (spec §4.4).
- No stub call has a deadline: a silent server blocks the caller until someone calls `close()`.
- Builders:
  - Several mutators write the same field (the three sort-key conditions).
  - Some fields can only be set through public attributes.
  - `build()` of Query/Scan returns the builder's own `expression_values` dict.

**What makes each part correct.**
- Client:
  - A completed scan returns exactly the items of all chunks, in order.
  - A stream error raises the first erroneous chunk's error and returns no items.
  - A transport failure never looks like a result.
  - `close()` releases every blocked caller.
- Builders:
  - Each field holds the argument of the last call that set it.
  - `build()` validates the request (spec §4.2).
  - A built request never changes afterwards.

## 2. Modules

### `ScanAggregation` (abstract)
The promise of spec §4.4, per caller, written without transport detail.
- Variables: `status` (idle or receiving), `stream` (the chunks the service produced), `ended`
  (end-of-stream signalled) and `result`.
- Actions:
  - `Dispatch`; `Reject` (the call cannot be sent at all).
  - `Produce` and `EndOfStream`, taken by the service.
  - `Complete`: needs end-of-stream and no error chunk; returns the concatenation.
  - `Fail`: raises the first error chunk's error.
  - `Abort`: a transport error, allowed at any time.

### `Client`
Models `client.py`.

| Variable | What it stands for |
|---|---|
| `channel` | `none` before `connect`, then `open`, then `closed` |
| `pc[c]` | the call caller `c` is blocked in |
| `rpc[c]` | gRPC's status of that call |
| `inbox[c]` | chunks gRPC delivered and the loop has not consumed |
| `items[c]` | the local list in `scan()` |
| `scanResult[c]`, `unaryResult[c]` | what the caller's last call returned or raised |
| `sent[c]` | history: every chunk the server sent on the current scan |
| `calls[c]` | number of calls `c` has made, bounded |
| `reachable` | a server listens at the address given to `connect()`; either value is an initial state |

| Action | Code |
|---|---|
| `Connect` | `__init__`, `connect` |
| `Close` | `close`, and `__exit__`, which only calls it. `self._channel` is always truthy, so `channel.close()` runs every time. It cancels all active RPCs; each keeps at most the one response already received. |
| `CallUnary`, `ReturnUnary` | the ten unary methods. Their bodies are identical; runs use two of them. On a closed channel the call raises `ValueError` before anything is sent. |
| `StartScan` | `scan()` lines 136–137. On a closed channel it raises `ValueError`. |
| `ScanNext` | one loop iteration, lines 138–140: raise on an error chunk (dropping the local list and the abandoned call), else extend the list |
| `ScanEnd` | the iterator is exhausted: return the list if the status is OK, else raise `RpcError` |
| `Respond`, `SendChunk`, `EndStream`, `FailCall` | the environment: the server and the transport. Only a reachable server responds, streams or ends a stream. On an unreachable address, `FailCall` is gRPC's UNAVAILABLE after the failed connection attempt. |

The refinement mapping sends `sent` to the abstract `stream`. Both `RpcError` and `ValueError`
map to the abstract `TransportError`.

### `Builders`
Models `builders.py`. The call site holds one builder of any of the four classes.
- Variables: `builder` (its fields), `log` (history: the calls made on it, the constructor
  first) and `built` (history: each request `build()` returned, with the log at that moment
  and the request's contents then).
- Actions:
  - One per `with_*` method (`Put_with_sort_key`, ..., `Scan_with_segment`).
  - `SetExpressionValue` and `SetFilterExpression`: the caller writes public attributes,
    because no mutator exists for them.
  - `Put_build`, `Get_build`, `Query_build`, `Scan_build`.
  - `NewBuilder`: the call site drops its builder and constructs another.
- Put and Get build protobuf messages, which copy their fields.
- Query and Scan return dicts holding `AliasRef`, the builder's own `expression_values` dict.
  `Deref` reads what such a request holds now.
- `Expected(L)` is a reference definition of the last-call-wins contract. It folds over the
  call log with `LastCall`, independently of how the actions update the builder.

### `Contacts`
Models the `ContactManager` class of `contacts.py` over one database file. The embedded
`Database` is a Rust extension that is not in this repository. It is modelled by what
`test_smoke.py` asserts of it:
- `put` replaces the item;
- `get` returns the item, or `None` when there is none;
- `delete` removes the item;
- what was written before `flush()` is there after the file is reopened.

Two things nothing in the repository states are left open:
- Whether writes made after the last flush survive a process exit: reopening may recover either
  state.
- What `Database.create` does to an existing file: the constant `CreateReplaces` chooses.

| Variable | What it stands for |
|---|---|
| `manager` | a `ContactManager` exists (`ready`) or not (`none`: not started, exited, or the constructor raised) |
| `fileExists` | `db_path` holds a database file |
| `mem`, `disk` | the items `self.db` serves; the items as of the last successful flush |
| `log`, `flushed` | history: the writes the database accepted, and how many of them the last flush made durable |
| `faults`, `ops` | bounded counts of raised Database calls and of manager calls |
| `result` | what the last manager call returned (`True`, `False`, `None`, an item) or that it raised |

| Action | Code |
|---|---|
| `Start` | `__init__`: `Database.open`; on any exception `Database.create` |
| `add_contact`, `get_contact`, `update_contact`, `delete_contact`, `flush` | the methods of those names, each with its Database call succeeding or raising (`Raises`, for the calls in `FaultyOps`) |
| `Exit` | the process ends between two calls (no close exists) |

- `ContactId` is `f"contact#{name.lower().replace(' ', '-')}"`. A name is a sequence of
  characters, and `Lower` is `str.lower` on the characters the names use.
- `Expected(L)` is a reference definition of what the accepted writes imply. A contact exists
  after its last add, unless a delete came later. Each field has the value of the last add, or of
  the last update after it that set the field. It is stated over the log, independently of
  `Merged` and `ContactData`.

### `ContactsDemo`
Composes the two callers `contacts.py` has for `ContactManager`. `Init` chooses one:
- **any program** (`caller = "any"`): the `Contacts` actions in any order, with exits and
  reopening. This is instance `Anyone` of `Contacts`.
- **the script's `main()`** (`caller = "main"`): straight-line code, with `pc` naming the
  statement it is at. Its nine `ContactManager` calls are the actions of instance `Script` of
  `Contacts`. `Script` uses main()'s three names (Alice, Bob and Charlie, with distinct ids),
  its own company values, 9 calls and `DemoMaxFaults` raised Database calls.

| Variable | What it stands for |
|---|---|
| `caller`, `pc` | which program calls, and the statement `main()` is at (`raised`: a traceback ended it) |
| `diana` | `demo_value_types` has put `b"contact#diana-prince"` |
| `skdb`, `memdb` | the keys in the databases of `demo_sort_keys` and `demo_in_memory` |

| Action | Code |
|---|---|
| `Main` | `main()`: `--help` returns, otherwise the demos run |
| `DemoStart` … `DemoFlush` | the `ContactManager` calls of `demo_basic_operations`, each a `Script` action. An exception of `update_contact` ends `main()` (`After`). |
| `PutDiana`, `GetDiana` | `demo_value_types`: `manager.db.put` and `manager.db.get` outside any try (`Unguarded`) |
| `SkPut`, `SkGet`, `SkDelete`, `SkCheck` | `demo_sort_keys`: four `put_with_sk`, `get_with_sk`, `delete_with_sk`, all unguarded; then the removal check, whose `except` prints the same success line |
| `MemPut`, `MemGet`, `MemDelete` | `demo_in_memory`: three puts, a get and a delete, unguarded; then `main()` prints its final line |

`Database.create` on a fresh path and `create_in_memory` are not faulted, as in `Contacts`.
Item contents of the sort-key and in-memory databases are abstracted to their keys: no statement
of the script depends on them.

## 3. Runs

| Run | Checks | Shows |
|---|---|---|
| `client_scan` (`MC_Client.cfg`) | `TypeOK`, `ScanRefinement` | `Client` implements `ScanAggregation` (`Scan!ASpec` as a PROPERTY). The setting is 2 callers, concurrent unary calls, close at any point, and a server that may be unreachable. 146k states, about 1 min. |
| `client_close_liveness` (`MC_Client_live.cfg`) | `CallsEndAfterClose` | Once the channel is closed, every caller blocked in a unary call or a scan returns, whatever the server does. 299k states, about 75 s. |
| `builders` (`MC_Builders.cfg`) | `TypeOK`, `BuildReflectsCalls` | Every request built after any sequence of up to 3 calls equals `Expected(log)`. |
| `builders_empty_key` | `PartitionKeyRequired`, **violated** | `build()` accepts `b""` (spec §4.2, §7). |
| `builders_segment` | `SegmentInRange`, **violated** | `with_segment(0, 0)` builds (spec §8.2). |
| `builders_between` | `BetweenOrdered`, **violated** | `with_sort_key_between(2, 1)` builds (spec §4.2, §8.3). |
| `builders_placeholders` | `PlaceholdersBound`, **violated** | `with_condition(f)` and then `build()` with no binding builds. No mutator can bind a placeholder. |
| `builders_aliasing` | `RequestsStable`, **violated** | A Scan/Query request changes when `builder.expression_values[p]` is written after `build()` (spec §3). |
| `contacts` (`MC_ContactsDemo.cfg`) | `TypeOK`, `StoreMatchesWrites` | Any program: any Database call (open included) may raise once, and the process may exit and reopen at any point. The contacts a manager serves are still exactly `Expected(log)` of the writes that survived, and no stored contact holds `None`. This assumes `create` raises on an existing file. The same holds for the manager `main()` drives, with two raised Database calls anywhere among its calls, its value-type, sort-key and in-memory demos included (this run fires every statement of `main()`). 188k states, about 20 s; `CHECK_DEADLOCK FALSE` because `main()` returns. |
| `contacts_id_collision` | `GetReturnsNamedContact`, **violated** | `get_contact("A a")` returns the contact added as `"a-a"`: both names map to `contact#a-a`. |
| `contacts_update_raises` | `ErrorsReturned`, **violated** | A failing `Database.get` raises out of `update_contact` (line 77). Every other method returns `False`/`None`. |
| `contacts_reopen` | `StoreMatchesWrites`, **violated** | With `CreateReplaces`, one failed `open` at start-up replaces the file and loses every flushed contact. |

Each property of a passing run has a mutant in `PROJECT.json`. Each mutant is a plausible slip
in the code, and TLC finds the property violated with that mutant in place:
- `ScanNextNoneCheck`: `is not None` on a protobuf string.
- `ScanNextBreakOnError`: `break` instead of `raise`.
- `CloseWithoutCancel`: close drops the channel reference without closing it.
- `Put_with_bool_as_string` and `Query_with_sort_key_begins_with_as_equal`: bodies copied from
  a neighbouring method.
- `ContactData_always_company`: `add_contact` without `if company:`, which stores `None`.
- `Merged_truthy`: `update_contact` testing `if value:` instead of `is not None`, so an empty
  company is not written.

**Bounds.**
- Client:
  - 2 callers, so close can race a caller, and two calls run concurrently.
  - 2 item values and 2 errors, so order and "the first error" are observable.
  - Chunks carry 0 or 1 items and 0 or 1 errors, including the case of an error chunk that also
    carries items.
  - Up to 2 chunks per stream, enough for "items, then error" and "items, items, end".
  - 1 call per caller (2 calls per caller took 25 min for the same coverage of chunk patterns).
- Builders:
  - The empty key and one real key.
  - Sort values 1..2, so lower > upper is reachable.
  - Segment arguments 0..2, so segment = total and total = 0 are reachable.
  - One expression that references one placeholder.
  - Up to 3 calls and 2 builds per builder (the passing run allows 4 calls).
- Contacts:
  - Three names: `"A a"` and `"a-a"` share one id, and `"B"` has its own. So both a collision
    and two independent contacts are reachable.
  - One email, two phones, and companies `""` and `co1`, so a merge can change a field, keep it,
    or write an empty company.
  - 3 manager calls (add, update/flush, get) and 1 raised Database call. Exits and restarts are
    unbounded. 4 calls gives the same kinds of behaviour in 3.5 min instead of 12 s.
  - `main()`: its own fixed arguments (Bob's company differs from Alice's, as "Tech
    Innovations" differs from "Acme Corp"), and 2 raised Database calls placed anywhere among
    its 24 Database calls.

**Fairness.** A caller blocked in gRPC is woken whenever its call object has a response, an end
or an error, so `WF` is taken on the client's own steps. Nothing in the code guarantees that the
server answers: no deadline is set, and spec §5 leaves timeouts to the transport. Nothing
guarantees that someone closes the client either. So neither gets fairness. One step of the
transport is fair: failing a call when the address is unreachable. The stub calls leave
`wait_for_ready` at its default (False), so gRPC fails a call with UNAVAILABLE once the channel's
connection attempt fails. That attempt is bounded by gRPC's connect timeout. The liveness claim
checked is that calls end after `close()`. That calls end when nobody listens is not stated as
a property: under this fairness it would only restate the fail-fast step.

## 4. Findings
The five builder runs above are divergences from spec §4.2/§3: `build()` validates nothing, and
Query/Scan requests alias the builder's dict. The three contact runs are findings in `contacts.py`:
- Distinct names share one contact id, so one contact silently overwrites another (line 38).
- `update_contact` lets a Database error escape (line 77).
- The open-or-create fallback can destroy the database if `create` replaces an existing file
  (line 32). The repository does not say whether it does.

`main()`'s deletion check (line 176) cannot tell a deleted contact from a failed `get`: after
`delete_contact` and the check's `get` both raise, it prints "Contact successfully deleted" while
the contact is stored, although the comment above it says `# Verify deletion` (line 175). TLC
reaches this state on `ContactsDemo` (two faults: `delete_contact` raises, then `get_contact`
raises). No run checks it, because the project's runs are given to the findings above. "All examples completed successfully!" (line 187) is printed
even when an `add_contact` returned `False`. The demo ignores the return values it prints about.

`connect()` is lazy (`grpc.insecure_channel`), while spec §4.3 says it is eager. No run shows
this as a violation, because it is visible in the one line of `connect`. The model lets
`connect()` succeed for an unreachable address; each call then fails with `RpcError`.

A further divergence is not checked by any run:
- The scan raises a bare `Exception("Scan error: ...")`, not a distinct StreamError type.

## 5. Not modelled, and the plan

Done:
- First sitting: `ScanAggregation`, `Client`, `Builders`.
- Second sitting: `Contacts`.
- Third sitting: server reachability in `Client` (the lazy connect). The value model and
  `tasks.py` are settled as not modelled.
- Fourth sitting: `ContactsDemo`: `main()` and its three demos as the second caller of
  `ContactManager`, in the `contacts` run.
- Fifth sitting: properties that held by the shape of the model were removed
  (`NoCallOutlivesReturn`, `CallsEndWhenUnreachable` and two claims about `main()`'s output), with
  four hazards that the code does not have.

Every run slot is used. Further work must add properties to existing passing runs, or replace a
run with a deeper one.

What is left:
1. **End-to-end (`KeyValueSession`).** Compose `Builders` and `Client` with a store modelled from
   spec §6, for spec §8.6 (Put then Get returns the item) and §8.7 (concurrent callers never see
   another caller's fields). It needs a run of its own. The client passes a request to the stub
   without reading it, so the only way one caller's fields could reach another's request is the
   Query/Scan aliasing. `builders_aliasing` already shows that aliasing within one call site.
2. Larger client instances: 2 calls per caller, so a second scan can follow an abandoned one.
   It would take about 25 min at the present bounds.

Not modelled at all:
- packaging and exports (no behaviour);
- `tasks.py` (it fails before any state change);
- logging and printing in the examples (`display_contact` and `main()`'s messages);
- the proto wire encoding (abstracted to records);
- how long an abandoned streaming call (`client.py:139`) lives. CPython releases the iterator as
  the exception unwinds the frame, and its finaliser cancels the call. The model cancels it in the
  same step. A runtime that delays the finaliser is not represented;
- the value model of spec §4.1: the recursive native/AttributeValue conversion is in the embedded
  Rust binding, which is not in this repository. A model of it would check the spec against
  itself. The one conversion under `src/` (the `{kind: value}` dict given to `pb.Value`) is in
  `Builders`.

# Formal models of MySQL Router (routing and metadata-cache configuration)

This directory holds TLA+ models of parts of MySQL Router. Each module is
translated from the sources under `src/`. It also holds the TLC configurations
that model-check the modules and TLAPS proofs about them. `PROJECT.json` maps
every modelling definition to the source lines it stands for. It also lists the
runs, the mutants that show each checked property can fail, the findings and
the hazards.

## The system and what is in the repository

spec.md describes a router with seven parts:

- C1: the harness and its plugins;
- C2: the routing plugin (`MySQLRouting`: listeners, accept loops, pair
  workers, counters, blacklist, `stop()`);
- C3: protocol framers;
- C4: destinations;
- C5: socket operations;
- C6: metadata-cache configuration;
- C7: utilities.

The source tree holds only a few of these:

| source | what it is | module |
|---|---|---|
| `src/unnamed/part_000` | `SocketOperations`: `get_mysql_socket`, `connect_non_blocking_wait/status`, `set_socket_blocking`, the syscall wrappers, access-mode names | `Connect`, `ConnectProofs` |
| `src/src/metadata_cache/src/plugin_config.cc` | `MetadataCachePluginConfig`: `get_option_ttl`, `get_bootstrap_servers`, `get_default`, `is_required`; and, appended after the C++ code, the CMake function `ADD_HARNESS_PLUGIN` | `PluginConfig`; `PluginBuild` |
| `src/src/routing/tests/test_routing.cc` | routing unit tests, including `MockServer` and the two-listener scenario `bug_24841281` | `MockServer`, `MockServerProofs`; `Route`, `RouteLifecycle`, `RouteProofs` (follows spec.md; the code is not in `src/`) |
| `src/unnamed/part_001`, `utilities-windows.cc`, `json_statement_reader.h` | CMake project setup, Windows error-message formatting, declarations | not modelled |

How the parts interact:

- A route's accept loop admits a client and spawns a pair worker.
- The pair worker dials the destinations with `get_mysql_socket` (module
  `Connect` is one such dial) and relays until one side closes.
- The metadata cache reads its `ttl` with `get_option_ttl` and its
  `bootstrap_server_addresses` with `get_bootstrap_servers`.
- At build time, `ADD_HARNESS_PLUGIN` creates each plugin's library and
  decides where it is built and installed. The harness loads plugins from
  that directory.

## Modules

### Connect: `get_mysql_socket` (part_000:89-258)

One thread runs the procedure. `pc` names the statement it is at: resolve,
loop head, connect, wait, status, good, done. The state holds:

- the code's locals: `info` as an index into the addrinfo list, `sock`,
  `timeout_expired`;
- the thread's `errno`;
- the descriptors the call opened and has not closed (`open`);
- the O_NONBLOCK flag of every descriptor;
- the outcome of each candidate, in `tried`;
- the number of whole connect timeouts spent in `poll()` (`elapsed`).

There is one action per step of the code:

- `GetAddrInfo`: failure returns -1.
- `OpenSocket`: `socket()` may fail with EMFILE.
- `Connect`: immediate success, EINPROGRESS, or another errno that closes the
  socket.
- `Wait`: the three failures of `connect_non_blocking_wait` (timeout, poll
  error, not writable) and success.
- `Status`: SO_ERROR.
- `AllFailed`: returns -2 or -1 from `timeout_expired`.
- `Connected`: back to blocking mode, then TCP_NODELAY, whose failure closes
  the socket and returns -1.

A candidate's failure paths all end in `CloseAndTryNext`, the close at line
234. `WaitFailed` is lines 203-208, including the assignment to
`timeout_expired`.

`DialContract` is the abstract specification: what a caller of
`get_mysql_socket` relies on. A dial is idle until it returns once. While
it runs, attempts may time out (`TimeOut`). `Return` hands over one
descriptor, or returns -1 or -2 holding nothing, and -2 only after a
timeout. `Connect` instantiates it as `Contract` with this refinement
mapping:

- `dial` is "done" when `pc` is;
- `result` is `ret`;
- `held` is `open` once done (empty before);
- `timedOut` is whether `tried` records a timeout.

The candidates, the sockets of failed candidates and `errno` are internal
steps that map to stutters; a timed-out poll maps to `TimeOut`.

### Route: one `MySQLRouting` route (spec-modelled)

The implementation is not among the sources, so this module follows spec.md
§4.6, §5 and §8, with the two listeners of the test `bug_24841281`. Its
actions:

- accept and check (blacklist, `active == max_connections`);
- admit (`active += 1`, spawn a worker);
- dial failed (error counter, blacklist, `active -= 1`);
- dial succeeded (counter reset);
- teardown;
- the accept loop exiting on stop;
- `stop()` and its join.

The check and the increment are separate steps because the spec lists them
separately and the two listeners run in separate threads.

`RouteLifecycle` is what a user of the route relies on. Its state is the
route's life cycle (configured, started, stopping, stopped), the connections
being served (`live`) and those served and closed (`closed`). A connection
opens only while the route runs and at most once, and closes once. `stop()`
returns only when none is open. Under fairness, every connection closes once
`stop()` is called, and `stop()` returns. `Route` maps onto it through
`Lifecycle`:

- `state` is the route's state;
- `live` is the set of connections whose worker is dialing or relaying;
- `closed` is the set whose worker has exited.

Admitting a connection is `Open`. A failed dial or a teardown is `Close`.
`start()`, `stop()` and its join are `Start`, `RequestStop` and `Stopped`.
The accept steps, a successful dial and the exit of a loop stutter.

### PluginConfig: `get_option_ttl`, `get_bootstrap_servers`, `get_default`, `is_required` (plugin_config.cc:36-113)

An option string is a sequence of tokens: space, minus, junk, or a numeral
that stands for a whole run of digits. The code is modelled step by step:

- `Trim` is the two `erase` calls.
- `Strtol` is what `strtol` does on such a string: sign, digits, saturation
  with ERANGE, and the end pointer.
- The test at line 107 is evaluated with the integer widths as constants.
- `ToSigned` and `ToUnsigned` model the two casts.

`errno` is thread-local state that nothing here clears. The widths are scaled
down, with unsigned int at 3 bits and long at 5 bits (LP64) or 3 bits
(Windows), so the boundary values are few and all are enumerated.

`get_bootstrap_servers` reads a bootstrap option: a sequence of commas, junk
characters (anything no URI allows, such as a space) and URI tokens. A URI
token is a maximal run of URI text, kept as its host and port.

- `GetlineSplit` is the `getline(ss, address, ',')` loop: the text between
  commas, where the text after the last comma is an entry only when it is
  not empty.
- `Uri` is `mysqlrouter::URI`, which is not under `src/`. It parses a single
  URI token and throws on anything with junk. For the empty string, the
  constant `EmptyUriParses` decides: host "" and port 0, or a throw. The
  runs use TRUE, since the constructor skips parsing an empty string.
- `BindInfo` replaces port 0 by `default_port`.
- One failing entry makes the whole call throw `invalid_argument`
  (`Thrown`).

`get_default` and `is_required` are translated as they are.
`BasePluginConfig::get_option_string` is not under `src/`, so
`GetOptionString` is spec-modelled from how these callers use it: an
absent or empty option gives the default, or an error if it is required.
Both options read here have the empty default.

### PluginBuild: `ADD_HARNESS_PLUGIN` (plugin_config.cc:163-244)

A CMake configure calls the function once per plugin, sequentially, so one
call is one action (`AddHarnessPlugin`), enumerated over its arguments:

- `NO_INSTALL`, `INTERFACE`, `DESTINATION_SUFFIX` (absent, a CMake false
  constant, or a name), `REQUIRES`, and unrecognised arguments.

It does everything the body does:

- the AUTHOR_WARNING;
- the suffix default, with `if(NOT ...)` truthiness;
- the loader naming (no prefix, `.so`) off Windows;
- the PUBLIC include directory and the flat copy of the interface headers
  into the build tree;
- the links;
- the Darwin link flags;
- the output directories (`OutputDirOf`): per configuration of
  `CMAKE_CONFIGURATION_TYPES` on WIN32, one directory elsewhere;
- the install rules (`InstallRules`), when not NO_INSTALL and
  `HARNESS_INSTALL_PLUGINS` is on.

`noInstallCalls` records which calls passed NO_INSTALL. The header comment
makes different promises for those plugins, and the property must tell
them apart.

The platform, `HARNESS_INSTALL_PLUGINS` and the generator's configuration
types are chosen in the initial state and fixed for the configure. Paths are
the variable names they are built from.

### MockServer: the test server of `bug_24841281` (test_routing.cc:183-287, 320-423)

Three kinds of thread:

- **The test thread:** `Start`, `StopAfterNAccepts`, then `BeginStop` once
  `routing.stop()` has closed the router's connections. After that come the
  statements of `stop()`: `StopCheck`, `Shutdown`, `Close` and `Join`. The
  second call, from the destructor, returns at `StopCheck`.
- **The runloop:** `RunloopCheck` is the loop condition, followed by
  `accept()` on the socket. `RunloopAccept` either takes a queued connection
  and spawns a detached `new_client`, or fails after a shutdown.
- **One `new_client` per accepted connection:** `num_connections_++` and
  `--` are each a load and a store (`IncLoad`/`IncStore`,
  `DecLoad`/`DecStore`). `Read` waits for the router's bye or close. It
  either succeeds or fails into `FAIL()`, which returns without closing.

The router's side is two environment steps:

- `Dial`: connections are queued and then accepted in order.
- `Bye`.

Linux socket semantics are kept because `stop()` depends on them:

- `shutdown()` wakes a blocked `accept()`;
- `close()` alone does not;
- `accept()` on a closed descriptor fails at once.

## Runs

| run | checks | result |
|---|---|---|
| `connect` | TypeOK, NoFdLeak, TimeoutOnlyAfterTimeout, WaitBounded, Terminates | pass, 3,656 states |
| `connect_timeout_iff_errno` | TimeoutIffFinalErrno (spec 4.5) | violated: a timeout, then EMFILE, returns -2 |
| `route` | TypeOK, ActiveCountsWorkers, StopCompletes | pass, 240,199 states |
| `route_active_within_max` | ActiveWithinMax (spec 8.1) | violated: both listeners pass the check at max-1 |
| `plugin_config_ttl` | TtlMeansOption, BootstrapMeansOption | pass: one read (a ttl or a bootstrap option), LP64, 561 states |
| `ttl_stale_errno` | TtlMeansOption, two reads | violated: ERANGE from "16" rejects a later "1" |
| `ttl_windows_width` | TtlMeansOption, long as wide as unsigned int | violated: every ttl becomes the default |
| `mock_server` | JoinedOnce, StopReturns | pass, 141,293 states |
| `mock_server_lost_update` | ConnectionsCounted (the test's EXPECT_EQ on num_connections_) | violated: two interleaved `++` leave 1 |
| `mock_server_use_after_free` | HandlersDoneBeforeDestroy | violated: a new_client accepted during stop() runs after the destructor |
| `plugin_build` | PluginsInOutputDir (plugins without NO_INSTALL) | pass, 5,426 states: Linux and macOS with any generator, Windows with Visual Studio |
| `plugin_build_single_config_windows` | PluginsInOutputDir | violated: on Windows with Ninja or NMake, no output directory is set |

`BootstrapMeansOption` checks `get_bootstrap_servers` against a reference
that counts instead of splitting: one address per comma, plus one for text
after the last comma; the addresses with a host are the URI tokens, in
order, with port 0 defaulted. It shows that the loop neither drops nor
invents an entry. With `EmptyUriParses` TRUE, a leading or doubled comma
gives an address with an empty host. spec.md §2 says an address's host is
never empty.

`PluginsInOutputDir` states what the header comment promises for plugins
added without NO_INSTALL. For NO_INSTALL plugins the comment (lines 143-148)
says they are left in their default location, but the code runs the
output-directory block for every call. In the states of `plugin_build`, a
NO_INSTALL plugin has the same `outDir` as any other. That is listed as a
hazard; no run checks the comment's claim. The comment at lines
150-152 says DESTINATION_SUFFIX is appended to the install destinations.
`InstallRules` shows that the WIN32 library install at line 233 leaves it
out. Neither comment has a run of its own.

`WaitBounded` bounds what a dial costs: `poll()` times out at most once per
address getaddrinfo() returned. spec 4.5 says a dial waits only the
remaining timeout. The code waits one full timeout per candidate, so the
worst case is `ncand` timeouts. No run holds spec 4.5 against the code.

Spec 8.4 says an IP is blacklisted exactly when its counter reached
`max_connect_errors`. One direction holds by `DialFailed`'s own step: the
failure that reaches the threshold blacklists the IP in the same step. The
converse fails, and no run checks it. A worker of the IP admitted before
the blacklisting can succeed and reset the counter of a blacklisted IP.

The `route_active_within_max` trace also shows that the overshoot has no
bound of its own. Spec 4.6 rejects on `active == max_connections`. Once two
loops have taken `active` past the limit, that test is false again, so
later clients are admitted until workers exit. With two listeners and a
limit of 2, `active` reaches 4.

Bounds, and why they are enough:

- **Connect:** two descriptor numbers and up to three candidates. Only one
  socket of the call is open at a time, and the second number exercises the
  choice of a free one. Three candidates let a timeout be followed by each
  other outcome.
- **Route:**
  - two listeners: the race needs exactly two;
  - two IPs, so blacklisting one does not block the other;
  - `max_connections` of 2, so the limit is reached;
  - `max_connect_errors` of 2;
  - four accepts: two failures blacklist an IP while a third connection of
    it is in flight, and one connection beyond the limit is rejected.
- **MockServer:** three router connections and `stop_after_n_accepts(2)`.
  The runloop can return by itself with a connection still queued, or be
  stopped while blocked in `accept()`. Two `new_client` threads are enough
  for a lost update.
- **PluginConfig:** the numeral values include 0, 1, UINT_MAX,
  UINT_MAX + 1, LONG_MAX and LONG_MAX + 1 of both widths, and strings have up
  to three tokens. Bootstrap options have up to three tokens of one host,
  with port 0 and an explicit port. That covers leading, doubled and
  trailing commas, junk next to a URI, and two entries.
- **PluginBuild:** two plugins, whose interfaces share one header name, and
  suffixes "", "OFF" and a name. Every platform, every generator kind and
  both settings of `HARNESS_INSTALL_PLUGINS` are initial states.

Every property of a passing run has a mutant in `PROJECT.json`. A mutant is a
plausible bug in the mapped definition, and TLC finds that it breaks the
property:

- the EINTR path taken for a timeout;
- a re-poll after SO_ERROR;
- failure returning 0;
- the TCP_NODELAY path not closing;
- a timed-out `poll()` retried on the same socket (`WaitBounded`);
- a double or missing `active -= 1`;
- `stop()` not shutting relays down;
- trimming only the leading spaces;
- `stop()` without its `if (!stop_)` guard;
- `stop()` without `shutdown()`.
- the default port not applied;
- the `if(WIN32)` test dropped from the output-directory block.

## Fairness

- **Connect:** `WF_vars(Next)`. The thread is never descheduled forever.
  Every blocking call it makes returns: `poll()` is bounded by the timeout and
  `connect()` is on a non-blocking socket.
- **Route:**
  - an admitting loop spawns its worker;
  - a dial ends, because it is bounded by the connect timeout;
  - a shut-down listener's `accept()` returns;
  - a relay whose sockets `stop()` shut down ends;
  - `stop()` returns once everything has joined.

  Clients are not forced to connect or close, and nobody is forced to call
  `stop()`.
- **PluginConfig, PluginBuild:** none. Only safety is checked: a read, or a
  configure, may stop at any point.
- **MockServer:** weak fairness for each step of:
  - the runloop;
  - every `new_client`;
  - the test thread inside `stop()`.

  Every one of these is a thread that the OS schedules. The router's
  connects and closes, and the test's decision to stop, are not forced.

## What is proved

`ConnectProofs.NoFdLeakTheorem` proves `Spec => [](TypeOK /\ NoFdLeak)` for
every set of descriptor numbers and every bound on the addrinfo list. The
proof rests on the assumptions `FdsAssumption` and `MaxCandidatesAssumption`.

`NoFdLeak` speaks only of the final state, so it is not inductive. The
inductive invariant `IInv` adds what holds at each statement:

- At the loop head, no socket of this call is open.
- Between `socket()` and the end of a candidate, exactly `sock` is open, and
  `info` is within the list.
- `elapsed` is bounded by the candidates tried.

`ConnectProofs.TypeTheorem` restates the type part on its own.

`InitIInv` shows that the initial state satisfies `IInv`. `NextIInv` shows
that every step preserves it, with one case per action and one sub-case per
branch of the code.

`ConnectProofs.TimeoutOnlyAfterTimeoutTheorem` and
`ConnectProofs.RefinementTheorem` rest on a second invariant, `TInv`. It is
inductive relative to `IInv` and says:

- `timeout_expired` is set only when `tried` records a timeout;
- `ret` keeps its initial -1 until the call returns.

`NextRefines` shows that every step of `Connect` is a `DialContract` step or
a stutter under the mapping: a timed-out wait is `TimeOut`, the three
returning actions are `Return`, and everything else stutters. The lemma
`AppendTimedOut` says what appending an outcome does to "some candidate
timed out". The refinement theorem is about `SafeSpec`, the contract
without its fairness. That the dial returns stays with TLC. The lemma
`AppendNoTimeout` covers an outcome other than a timeout. Each step that
appends one is split by branch, so that the provers instantiate it once.

`ConnectProofs.WaitBoundedTheorem` proves `Spec => []WaitBounded`. `IInv`
gives `elapsed <= info - 1`. `WInv` adds `info <= ncand + 1`: `info`
advances only from a candidate of the list.

`RouteProofs.ActiveCountsWorkersTheorem` proves `Spec => [](TypeOK /\
ActiveCountsWorkers /\ StoppedMeansQuiescent)`, where `StoppedMeansQuiescent`
says a stopped route has no loop, no live worker and `active` = 0, for every set of clients and
listeners and every bound, from `RouteAssumption`. The counter alone is not
inductive, so `IInv` adds:

- an accept loop about to increment `active` holds a connection that has
  no worker yet;
- two loops never hold the same connection;
- connections not yet accepted have no worker;
- accepted ones have a client IP;
- a stopped route has no loop and no live worker.

The cardinality steps cite `FS_AddElement`, `FS_RemoveElement`,
`FS_Subset` and `FS_Interval` from the library. Lemmas `LiveSpawn` and
`LiveExit` say how spawning and exiting change the set of live workers.
`TypeTheorem` restates its type part on its own.

`RouteProofs.LifecycleTheorem` proves `Spec => Lifecycle!SafeSpec`: the
route implements the safety part of `RouteLifecycle`. It needs a third
invariant, `LInv`, which is inductive relative to `IInv`. `LInv` says that
before `start()` every loop is at `accept` and every worker is `none`.
Without it, a step taken in the configured state could not be shown to be a
lifecycle step. `NextRefinesLifecycle` has one step per action:

- `Admit` opens the held connection. By `IInv`, the connection has no worker
  yet, so it is neither live nor closed.
- `DialFailed` and `Teardown` close a live connection.
- `Start` and `RequestStop` are the lifecycle steps of the same name.
- `StopDone` finds no live worker and is `Stopped`.
- Every other step stutters.

The abstract spec's fairness (every connection closes once `stop()` is
called, and `stop()` returns) is not proved. No run checks it either: the
`route` run's `StopCompletes` already checks that `stop()` returns.

`RouteProofs.CounterStepTheorem` proves `Spec => CounterStep`, the action
property that each step moves `active` by at most one, up exactly when a
worker is spawned and down exactly when one exits. The lemma
`StepCounter` shows that every step allowed by `IInv` satisfies
`CounterMoves`, with one case per action. `QuietStep` covers the actions that
neither spawn nor end a worker. `IInv` is needed for the admitted
connection: it has no worker yet, so the counter goes up exactly when some
worker goes from `none` to `dial`.

`MockServerProofs.JoinedOnceTheorem` proves `Spec => [](TypeOK /\
JoinedOnce)` for every number of connections and every limit. It rests on
`MockServerAssumption`. Its inductive invariant `IInv` ties the test thread's
statement to `calls`, `joins` and `stop_`:

- before the first `stop()`, `stop_` is false;
- inside the first call, after `StopCheck`, `stop_` is true and nothing has
  been joined;
- the second call finds `stop_` set.

It also states `numAccepts + backlog <= dialed`. That bound keeps the index
of the spawned `new_client` inside `Conns`, which TypeOK needs.

Only model-checked:

- the liveness properties (`Terminates`, `StopCompletes`, `StopReturns`),
  since TLAPS does
  not handle fairness and ENABLED;
- the `PluginConfig` properties. `PluginConfig` extends `SequencesExt`,
  which reaches the RECURSIVE operators of `Folds`. No proof can be checked
  in a module that extends it. Two further obstacles would remain without
  it:
  - `TtlMeansOption` rests on facts about `2^UIntBits` and `2^LongBits`
    (`2^U` divides `2^L` when U <= L). The provers know nothing of `^`
    with a variable exponent.
  - `BootstrapMeansOption` compares a split of the option with a count over
    it. That is induction over the token sequence.

## Not modelled, and what is planned

- The syscall wrappers: their effect is part of the actions that call them.
- The access-mode name lookups: stateless. The nullptr hazard is listed.
- The CMake project setup (`part_001`): variables and targets with no
  behaviour beyond CMake's own.
- The Windows helpers (`utilities-windows.cc`). `get_message_error`
  replaces an error code of 0 or SOCKET_ERROR by `WSAGetLastError()`, then
  formats with `FormatMessage` and frees the buffer. `matches_glob` and
  `sleep_seconds` forward single calls. None of them keeps state the router
  depends on. What a caller's last error is afterwards depends on the
  Windows API, not on this code.
- `BasePluginConfig::get_option_string` and `mysqlrouter::URI`: they are not
  under `src/`, and they enter `PluginConfig` only through what they return
  (see above).
- `copy_packets` and the framers: their code is not in `src/`.

Planned next:

- the `MockServer` constructor's failure paths;
- moving `PluginConfig`'s string helpers off `SequencesExt`, so that the
  ttl range can be proved.

# neopool-modbus in TLA+

A verification project for `neopool-modbus`, the async Python client of NeoPool
pool controllers (`src/`). It holds TLA+ modules translated from
`src/src/neopool_modbus/`, TLC configurations that check them on small
instances, and proofs that TLAPS checks. Line numbers below are those of
`src/src/neopool_modbus/client.py` unless another file is named.

## The system

The client talks to one controller over one Modbus TCP connection. A host (a
Home Assistant integration, a script) polls it with `async_read_all` and
`read_all_timers` and changes settings with some twenty write methods. All of
it runs as tasks of one asyncio event loop: code between two `await`s is
atomic, every request and every lock is an `await`, and a task can be cancelled
at any of them. There is no persistence of its own; what survives is in the
controller, which changes its registers by itself too (its panel, telemetry).

| Component | State | Operations | Modelled in |
|---|---|---|---|
| Packed-word cache and read-modify-writes (RMW) | `_cached_result`, `_cache_lock`, `_rmw_generation`, `_rmw_key_generation` (271-324) | `_merge_poll_result` 1400, `_rmw_commit` 1481, the RMW methods 1509, 1548, 1721, 1779, 1979, `close` 585 | RmwCache, WordFreshness, RmwCacheProofs |
| Poll cycle | `_polls_since_full_read`, `_last_notification`, `_last_was_full_read`, the controller's MBF_NOTIFICATION | `async_read_all` 780, `_perform_read_all` 872, `_read_register_ranges` 818 | PollCycle, PollProofs |
| Timer block cache | `_cached_timers` | `read_all_timers` 2134, `_perform_read_all_timers` 2151 | TimerCache (on top of PollCycle), PollProofs |
| Timer writes and relays | the controller's timer blocks, `_cached_timers` as a guard | `write_timer` 2223, `async_set_relay_state` 1875, `async_set_relay_mode` 1917 | TimerWrites, TimerWritesProofs |
| Connection management | `_client`, `_client_lock`, `_backoff_until`, `_last_successful_operation` | `get_client` 326, `_establish_connection_with_retry` 357, the error paths 803, 1439, 2144, 2244, `close` 585 | Connection, Session, ConnectionProofs |
| FC20 filter | `_socket_buf` per pymodbus client | `_install_fc20_filter` 441 | Fc20Filter, Fc20FilterProofs |
| Temperature setpoint pair | two registers of the controller, the line for `_cache_lock` | `async_set_temp_setpoint` 1704, `async_set_setpoint` 1721 | TempSetpoints, TempSetpointsProofs |
| Guarded and multi-step writes | the controller's mode, pump, boost and valve registers, `_cached_result` as a guard | `async_set_filtration_mode` 1446, `async_set_cell_boost` 1470, `async_start_backwash` 1584, `async_stop_backwash` 1620, `async_set_filtvalve_mode` 1655, `async_set_config_option` 1812, `async_set_manual_filtration` 1933 | GuardedWrites, GuardedWritesProofs |
| Timer schedule arithmetic | the registers of one timer block | `parse_timer_block`, `build_timer_block`, `derive_timer_stop`, `get_timer_interval` (`decoders.py` 366-521), `_perform_write_timer` 2284-2305 | TimerSchedule, TimerScheduleProofs |
| Reported state of the filtration pump | three pages of `_cached_result` | `_perform_read_all` 917-1367, `decode_named_relay_states` (`status_mask.py` 63) | PumpState, PollProofs |
| Register tables, other codecs | none (pure) | `registers.py`, the rest of `decoders.py` | no: tables and conversions of single values |
| Capabilities, status decoding | none (pure) | `capabilities.py`, `status_mask.py` | no: tables of bit tests |
| Probe | none | `probe.py` | no: a straight line of requests |
| Diagnostics counters | deques and counts | `connection_stats` 2376 | no: they steer nothing |
| Exceptions, package surface | none | `exceptions.py`, `__init__.py` | no |

How they interact: every operation gets its connection from `get_client` (under
`_client_lock`) and may find it closed by the error path of another. An RMW
holds `_cache_lock` across its requests, so takes `_client_lock` inside it;
nothing takes them the other way round. A poll takes its snapshot without
`_cache_lock` and takes the lock only to merge. `read_all_timers` goes by what
the last poll recorded. `close()` takes the two locks one after the other.

What is hard in it, and what makes each part correct:

- *Polls against RMWs.* A poll reads for seconds outside the lock. A merge must
  not put back a word from before an RMW; two RMWs of one word must not undo
  each other's field; a derived key must not outlive the word it comes from.
- *Stale by design.* Only flagged pages are read, plus everything every
  `_FULL_READ_INTERVAL` polls. The cache may lag, but only so long, only for
  known reasons, and it must recover.
- *Failure halfway.* A poll whose request fails or whose task is cancelled must
  not lose the changes it was told of; an RMW that fails must release the lock.
- *close() in the middle of everything.* Whatever is under way still has data
  of the old session in hand.
- *Writes in several calls*, under no lock, guarded by cached state: a timer
  block is read, changed and written back; a relay is driven by three writes.
  What a call reports must have happened, and it must not undo what others do.
- *Guards on the cache.* What a call checks is the last poll; the controller may
  have moved on, and a second request of the same call comes later still.
- *Two halves of a pair.* Two setpoints that must agree are two RMWs; the lock is
  free between them.
- *A byte stream in chunks.* The FC20 filter must tell frames apart by what
  happens to have arrived.
- *Arithmetic at the boundaries.* A schedule over midnight, a run of a whole day,
  32-bit values split over two registers.
- *One connection for all.* Every error path closes whatever connection there is
  by then, perhaps a new one of another task. No client may be lost sight of,
  backoff must hold for the calls already waiting, and every call must end.

## Modules

**RmwCache** is the interplay of polls, RMWs, panel and `close()` over packed
words. A word is a function from fields to values and carries a *version*, the
number of changes its register has had: versions flow along with the words and
steer nothing, they say which of two words is older. State and code:

- `cachedResult`, `rmwGeneration`, `rmwKeyGeneration` (0 for an absent stamp),
  `cacheLock` are the attributes of that name. `derived` is the word a derived
  key (`_RMW_DERIVED_KEYS`) was last computed from.
- One poll is `PollStart` (captures the generation before the first await, 879),
  `PollOverlay` (the copy of the cache, 966-998), `PollReadPage` for each key
  read, `PollReadDone`, and `PollMerge` under the lock. `PollAbort` is a failing
  request or a cancellation at any of its awaits.
- One RMW is `Request`, `Acquire` (the lock and the base word), `ReadBase` where
  the word has to be read first, `DeviceWrite` (the main write has reached the
  controller), `Commit` (1504-1507 and the release of the lock). `RmwAbort` at
  any point: after `DeviceWrite` it is the failed confirmation, EEPROM save or
  EXEC. `Base[k]` says which of the three kinds of base word a register has:
  `"cached"` (filtration configuration: cache, else read), `"zero"` (masked and
  bitmask registers: cache, else 0), `"live"` (low-byte setpoints: always read,
  cached decoded, which is `View`).
- `Close` is the second half of `close()`, the part under `_cache_lock`.

Which keys a poll reads is left open here (any subset), as are the requests of
an RMW beyond the ones above.

**WordFreshness** is the abstract specification: per register a version, the
version the cache holds, and a floor below which the cache may not fall, raised
by a commit and dropped by closing. `RmwCache!Contract` is the refinement
mapping, `KeepsContract` the property.

**PollCycle** is how a poll decides what to read, and what it may lose. A page
has several ranges (requests), so a page can be torn by a change between two of
them; the contents of a range is its version. Pages outside `Notifying` are
those whose changes the firmware never flags. One poll is `PollMeasure`
(966-1000: bits, full read or not, the ranges to read), `PollReadRange`,
`PollClear` or `PollNothingToClear` (1298-1327), `PollMerge`; `PollFail` is a
failing request, `PollCancel` a cancellation while it clears or waits for the
lock. The write that clears the bits may fail and wipes whatever bits there are.
`Close` is all of `close()`; the module says why its halves are one step here.

**TimerCache** extends PollCycle by `read_all_timers`: `TimersFromCache` is the
early return (2179-2188), otherwise `TimersStart`, one of `TimerReuse`,
`TimerRead` and `TimerReadFails` for each block asked for, and `TimersDone` or
`TimersRaise`. The host alternates between a poll and `read_all_timers` with one
of `AskedSets`, which is how the integration calls them; `force_read` is any
subset. `TimedPoll` is a poll with what it records for the timers (1322-1327).
`cachedIn` and `readIn` are history: the session a block was read in.

**TimerWrites** is the calls that write timer blocks, at the same time and under
no lock. A block is a function from fields (the mode `enable`, the function
code, and the schedule, which stands for start, interval and period) to
contents; the controller has it in its registers (`block`), in its EEPROM
(`saved`) and in what its modules run (`running`). `write_timer` is `TimerCall`,
`BlockRead` (2271-2305: the requested fields replace those read), `BlockWrite`,
`EepromSave`, `Exec`. `async_set_relay_mode` is the same with `dropsResult`:
nobody looks at the bool (`ModeCall`). `async_set_relay_state` is `StateCall`
behind its guard on `_cached_timers`, else `StateRefused`, then `FieldWrite` for
one register or two, and `Exec`. `Rejected` is an error response, which
`write_timer` turns into False and the single writes into an exception;
`Raised` is no answer, no connection or a cancellation, at any point (so also
after a write has taken effect). `ReadTimer`, `TimersDone`, `TimersRaise` and
`CloseTimers` are what changes `_cached_timers`. `touched` is history: the
fields of the target that others have changed since a call read or wrote them.

**Connection** is `get_client` and everything that closes a connection. `link`
is the state of each pymodbus client object, `client` is `self._client`; a
client that is not closed may be reconnected by pymodbus (`LinkBack`).
`GetClient` is what happens without an await once the lock is free: refusing in
backoff, reusing, or starting the health check or the first attempt; `Healthy`,
`Unhealthy`, `Connects`, `AttemptFails`, `NextAttempt`, `GiveUp` follow under the
lock. `NoConnection` and `Fails` send a call to its `ErrorPath` (803, 1439,
2144, 2244), which a single read does not have; a poll tries once more. An RMW
is `RmwTakesCache` and then a read or none, and a write, under the cache lock
(`cacheHolder`; `Releases` gives it back); a poll ends in `PollTakesCache`. `close()` is
`CloseClient` and `CloseCache`, one lock after the other. `Cancel` can come at
any await.

**Session** is the abstract specification of that: one session at most, dialled
in a series of tries that nobody else interrupts (`Dial`, `Established`,
`Abandon`), a refusal to dial that only a whole failed series begins (`Refuse`)
and only time or closing ends (`Lapse`, `Drop`). It knows neither tasks nor
locks. In Connection, `Status` is the link of `self._client` and `Tries` the
attempts that the holder of the client lock has made; `Policy` is the mapping,
`KeepsPolicy` the property.

**GuardedWrites** is the calls that look at `_cached_result`, hold no lock and
write one or two requests later. `reg` is the controller, `cached` the cache,
`found` what the poll under way has gathered (it starts as a copy of the cache,
975-979; which registers it reads is any subset). A call begins with its guards
(`ExitManual`, `SetMode`, `SetManualFiltration`, `SetCellBoost`,
`StartBackwash`, `StopBackwash`, `SetFiltvalveMode`, `SetInterval`): a call that
raises there changes nothing and is no step. `at` says what it is about to write
(`StopPump`, `WriteMode`, `TogglePump`, `WriteBoost`, `AskInterval`,
`WriteRemaining`, `WriteValveMode`, `WriteInterval`), `UseFails` that the request
fails or the call is cancelled, before the write or after. `outdated` and
`foundOutdated` are history: entries that tell a value the register has no
longer; so is `meddled`: for a call under way, the registers that its guard was
not right about or that have changed since. That the firmware ignores the
countdown in AUTO mode (`WriteRemaining`), counts it down and starts backwashes
of its own is modelled from how the code speaks of it, as external.

**TempSetpoints** is several tasks that set the pair. Each half holds
`_cache_lock`; the line for it is `place`, an arrival number, because
`asyncio.Lock` serves its waiters in order, and a task that releases the lock
after the first half is back in the line before anybody else runs.
`SetPair`, then for each half `HalfWrite` (the value has reached the controller),
`HalfSave` (second half, `apply`), `HalfDone` (the lock is released); `PairFails`
anywhere. `PanelSets`, `OtherSave` and `PowerCycle` are the controller's.
`disturbed` is history: the panel, or a call that raised after its first write,
has been the last to touch the pair.

**TimerSchedule** is the registers of one timer block and the arithmetic of
`write_timer`: `ParseTimerBlock` and `BuildTimerBlock` on fifteen registers of
width `Base`, `TimerStop` and `TimerInterval` modulo `Day`, `EditedInterval` for
which of start, stop and interval a call was given (2284-2303). Editors read,
compute and write in two steps, so edits meet. `wanted` is history: the start and
stop the user has in mind, which the caller never computes; `basis` is what was
wanted when a task read the block, for an edit overtaken by another one (that it
is then lost is TimerWrites' subject).

**Fc20Filter** is `filtered_data_received` (485-534) in front of pymodbus, over
the stream that the gateway sends (`Send`) and TCP cuts anywhere. Bytes are named
by their places in `stream`, so an order, a loss and a duplicate show. A chunk is
held back (`Buffer`), dropped (`Drop`) or forwarded (`Forward`), in both framings.
`PymodbusReconnects` keeps the filter and its buffer, `NewClient` replaces both.
`troubled` is history: bytes that came in a chunk of which no filter of chunks
could have made the right thing (`Unclear`).

**PumpState** is what a poll reports as "Filtration Pump": `Measure` (the relay
word, on top of a copy of the cache), `ReadInstaller` with the named decode, `ReadUser`,
and the fixup in the step that merges (`Merge`). Which pages a poll reads is any
subset. `Truthful` says which register the pump's state can be told from, by its
type; the other register may hold anything. `wasRunning` is history: what the
pump has done since the poll began.

**MCParts** puts the last five side by side: they share no register, no lock and no
cached word, so each behaviour of the run is one of one part while the others
rest, and the states are the sum of the parts', not their product. GuardedWrites
counts as two parts, because its filtration calls and its valve calls share
nothing either. **MCLocks** does the same with RmwCache and Connection, under the
fairness of both.

**...Proofs** hold the theorems, **PollProofs** those about PollCycle, TimerCache
and PumpState. **MC...** modules give the
constants of the instances, each **.cfg** is one run.

## Runs

| Run | Instance | What it shows |
|---|---|---|
| `rmw_races` | one register, two polls, two RMWs, 3 changes, 3 generations; tasks symmetric | `SiblingsKept`: when the last change of a register is a committed RMW, the next RMW writes every other field back as it is on the controller, whatever polls do to the cached base. `DerivedFollows`: after a merge the derived key belongs to the cached word. |
| `locks`, cache | a bitmask and a low-byte setpoint, one poll, two RMWs | `CommitSurvives`: since the last `close()` the cache is never older than the last commit. `KeepsContract`: the refinement. `RmwEnds`, `PollEnds`: no path keeps `_cache_lock`. |
| `locks`, connection | two tasks with calls of any kind, for ever; three client objects, two attempts | `OneConnection`: no client but `self._client` is open. `BackoffMeansDown`, `NoAttemptInBackoff`: backoff refuses no usable connection, and nobody connects in it. `NoCircularWait`: who waits for a lock waits for a call that goes on, or for one that waits for such a call. `KeepsPolicy`: the refinement of Session. `CallsEnd`: no deadlock, no lock kept. |
| `rmw_close` (violation) | one poll, one RMW | the promise of `_rmw_commit` without the proviso "since the last `close()`" |
| `poll_cycle` | a flagged page of two ranges, a never flagged one, one failure, cancellation and `close()` each, full read every third poll | `BoundedStaleness`, `StaleIsKnown`, `EventuallyFresh` |
| `poll_race` (violation) | two pages of one range, nothing fails | "unchanged pages skip the read" |
| `timer_cache` | polls and `read_all_timers` in turn, two blocks, one of them asked for in every call, one lost reading besides | `TimerStaleness`, `NoReuseAcrossClose`, `TimersEventuallyFresh` |
| `timer_writes` | one relay, two calls, one change at the panel; tasks symmetric | `RestKept`: `write_timer` disturbs a field it was not asked for only when someone else changes that very field between its read and its write. `SuccessApplied`: a call that ends well has been applied, and a `write_timer` saved. |
| `relay_mode` (violation) | one call | "a write (including its EEPROM/EXEC follow-ups) is rejected" raises |
| `relay_guard` (violation) | one task, two calls, no panel | driving a relay in AUTO mode raises |
| `parts`, FC20 filter | both framings, three frames of responses and broadcasts, one lost connection; responses whose first bytes look like a broadcast are among them | `InOrder`: pymodbus gets bytes in order and none twice. `Exact`: from chunks that can be judged it gets all of the responses and nothing of the broadcasts. |
| `parts`, setpoints | three tasks, three calls, the panel, a foreign save or a power cycle | `PairInSync`: equal when none is half done. `SavedInSync`: in the EEPROM too after a call that applied. |
| `parts`, schedule | two tasks, three edits, one at the panel, days of three seconds | `RunsAsWanted`: the timer runs in exactly the seconds between the edited start and stop. `OthersAsRead`: what was not asked for is written back as read. |
| `parts`, filtration and valve | two tasks, three calls, one change at the controller or one `close()` | `SwitchReachesPump`: a manual switch is not ignored by the controller, `BackwashAsConfigured`: a backwash runs the configured time, unless what the guard read has changed. `LeavesManualStopped`: manual mode is left with the pump off, with the same proviso. `StartNeverStops`: starting a backwash never ends one. |
| `parts`, reported pump | two outputs, one switching or replacement under each poll | `PumpIsTrue`: a poll that knows output and type and has read the register to go by reports what the pump has done while it was under way. |
| `fc20_promise` (violation) | the instance of `parts` | "Drops FC20 (0x20) broadcast frames before pymodbus processes them" |
| `mode_name` (violation) | one call, nothing else happens | "Unknown mode/speed names [...] raise `ValueError` before any I/O happens" |

*Bounds.* `MaxVersion` and `MaxGeneration` cap changes of a register, and
commits with closes. The races of RmwCache need one change before the snapshot,
an RMW within it and one more RMW after: two commits and a close fit into 3
generations, and TLC finds each broken variant of the code within them. Two
polls and two RMWs let each kind overlap with itself; a third would only wait
for the same lock. `locks` begins with a setpoint of 0, which every RMW of it reads
before it does anything else. The theorems hold for every value of these bounds. In PollCycle
`FullReadInterval` is 2 where the code has a larger constant: the bound on
staleness is a formula in it, and 2 lets a poll be full, partial, and partial
just before the next full one. One failure, one cancellation and one `close()`
can occur at every point and in every order; each is counted in the bound
claimed. In TimerWrites a call can only meet another one or the panel, two calls
and one change let any two of the three meet at every point, and the blocks of
different relays share nothing but EEPROM save and EXEC, which act on all of
them. Connection has no counter at all: its two tasks begin calls for ever.
Three client objects are one the other task still holds, the current one and the
next; two attempts are a first and a last one (the code makes three). In
Fc20Filter four bytes are enough (unit id, code, zero, another), since the filter
compares with these only; three frames are one before, one in and one after a
chunk. In TempSetpoints a third task is needed to come between two in the line;
`Byte` is 2 and values go up to 2, so one of them does not fit. In TimerSchedule
`Base` is 2 and `Day` 3, so a time of day needs both halves and a run of a whole
day both; three edits are one of each end and one over the other's. In
GuardedWrites two calls under one change at the controller let each pair of
{call, call, poll, panel} meet between a guard and its write; a third call shows
what the first two left behind. In PumpState one change falls before, between or
after the pages of a poll; two outputs are the pump's and another. Where the start
of a part is free, `MCParts` picks the starts that are not mirror images (unequal
saved pairs, a boost under way and an output other than the first are reached by
steps, or are the same up to a name). The theorems hold for every value of the
bounds. `LagCap` and `TimerLagCap` stop the counts of lag above anything the
invariants allow; the proofs do not use them.

*Fairness.* Every Modbus request ends, in an answer or in pymodbus' timeout, so
each task that can take its next step takes it: weak fairness of a poll's, an
RMW's and a timer reading's steps. `asyncio.Lock` hands itself to its waiters in
the order they came, so taking the lock (`Acquire`, `PollMerge` in RmwCache,
`LockStep` in Connection) has strong fairness. In PollCycle and TimerCache
fairness includes starting the next poll: the host keeps polling. Nothing is
assumed fair about the controller's changes, failures, cancellations or
`close()`.

### What the properties say of the poll cycle

`BoundedStaleness`: with a firmware that flags nothing at all, a change is
missing from the cache after at most `FullReadInterval + 1` merges, and every
cancelled poll costs at most one more such round, because a cancelled full read
has already reset the counter (1322). `StaleIsKnown`: with a firmware that flags
its changes, a stale range is still flagged, on its way into the cache, or due
for a full read, except for changes in the window between a poll's look at the
bits and its clearing of them, and what a cancelled poll took along.
`TimerStaleness` is the same for timer blocks: the poll consumes the INSTALLER
bit, so a block read that fails is not tried again before the next full read.

### Findings

- `rmw_close`: the docstring of `_rmw_commit` (1493-1496) says that a poll that
  took its snapshot before the write "cannot restore it afterwards". A `close()`
  drops the stamps (605), so a poll that has been under way since before the RMW
  and the `close()` restores the old word. The comment at 597-602 keeps the
  generation monotonic for RMWs after the reconnect, which does hold
  (`CommitSurvives`).
- `poll_race`: README.md:530 says that unchanged pages skip the read. The
  poll writes 0 to MBF_NOTIFICATION whatever it holds by then (1300), so a page
  that changes between the poll's look and that write is skipped until the next
  full read.

- `relay_mode`: README.md:504 says that `NeoPoolModbusError` is raised when a
  write "(including its EEPROM/EXEC follow-ups) is rejected". `write_timer`
  returns False instead, which its own callers can see; `async_set_relay_mode`
  drops it (1929) and returns its optimistic update, although the controller has
  kept the old mode.
- `relay_guard`: the docstring of `async_set_relay_state` (1880-1884) says that a
  call while the relay is in AUTO mode raises. The guard looks at the mode cached
  by the last `read_all_timers` (1892-1894), which no write of the client
  updates: after `async_set_relay_mode` has set AUTO the call goes through and
  replaces the mode.
- `fc20_promise`: the docstring of the filter (444) says that it drops FC20
  broadcasts "before pymodbus processes them", its comment (480-482) that the
  decision is always made with at least 4 bytes. The tests need two bytes or more
  (501, 509, 512), so the first byte of a broadcast that comes in a chunk of its
  own goes to pymodbus, and so does the rest, which no longer begins with the unit
  id.
  `Exact` says what does hold.
- `mode_name`: README.md:438-439 says that unknown mode names raise `ValueError`
  "before any I/O happens", and a test (`tests/test_client.py:3215`) "before any
  write happens". In manual mode the pump is switched off first (1464), and the
  name is encoded for the request after that (1467): the call raises with the
  controller still in manual mode and its pump off. The test starts from an empty
  cache, where there is no manual mode to leave.

One more promise does not hold and has no run of its own: the docstrings of the
backwash calls (1594-1597, 1628-1630) and README.md:430-431 say that they raise
while the valve is in AUTO mode. The guard (1641-1653) looks at the cached mode. With
nothing cached, and after a change of the mode until the next poll, it lets the call
pass, and the controller ignores the write. In GuardedWrites that is two steps from
the start: `StopBackwash` with the mode unread, `WriteRemaining` with the valve in
AUTO. `BackwashAsConfigured` says that there are no other ways to it, so it leaves out
entries that are outdated or absent (`Unreliable`) and changes after the guard
(`meddled`).

Not findings, because nothing in the repository says otherwise, but worth knowing:

- A response whose last two or three bytes look like the beginning of a broadcast
  (unit id, 0x20), with these in a chunk of their own, is not complete when the line
  is quiet: the filter holds them back (501-507), and the request times out. They are
  then joined to the next chunk, and dropped together with it unless the joined bytes
  3 and 4 are 0 (512-514). The run has such a response; `Exact` leaves these bytes out
  (`Unclear`, `troubled`), as it does a prefix that outlives its connection, and no
  property says that nothing is held back. A filter of chunks cannot tell such an end
  from a broadcast that has just begun.
- A call of `async_set_relay_state` that fails after its first write, or two
  `write_timer` of one block at once, leave what they leave: a changed function code,
  an edit lost. TimerWrites has both; `SuccessApplied` is about calls that end well,
  and `RestKept` leaves out what others change between the read and the write of a
  call (`touched`).
- A switch of the pump on the word of an outdated cache is ignored by the
  controller, and the exit from manual mode can be undone by others between its two
  writes. `SwitchReachesPump` and `LeavesManualStopped` say that nothing else goes
  wrong (`meddled`).
- A setpoint of 256 and more wraps round, in both halves alike (1764).
- Editing the start of a timer that runs for 24 h to the start it has makes its
  run 0 s: stop and start are equal, and `get_timer_interval` says 0. `RunsAsWanted`
  takes equal ends for a run of 0 s, as the code does.
- `build_timer_block` writes the unused register 12 of a block as 0 and the
  countdown as it was read, seconds ago.
- A poll that does not read the INSTALLER page reports a variable-speed pump by its
  relay bit; README.md:536-538 says that its state is taken from
  MBF_PAR_FILTRATION_STATE. The comment at 1334-1340 explains the choice, and
  `PumpIsTrue` asks for the page to have been read.

## Proofs

Each theorem holds for every value of the constants that the constant
assumptions of its module allow: any number of tasks, keys, fields, values,
blocks, client objects, and any bound.

### RmwCache

- `TypeCorrect`: `Spec => []TypeOK`.
- `CommitSafe`: `Spec => []CommitSurvives`.
- `SiblingsSafe`: `Spec => SiblingsKept`.
- `Refinement`: `Spec => KeepsContract`, that is `Contract!Spec`.
- `DerivedAlwaysFollows`: `Spec => DerivedFollows`.

`CommitSurvives` is not inductive: it says nothing of the snapshots in flight
that the next merge takes over. The invariant `IInv` adds

- `DeviceInv`, `CacheInv`: nothing the client holds is newer than the register,
  an entry of the register's own version is the register's word, and no stamp is
  above the generation;
- `PollInv`: if a key's stamp is not above the generation the poll captured, the
  key's last commit came before the poll began, so what the poll holds for that
  key, the copied cache entry or the word it has read, is at least that commit;
- `WriterInv`: an RMW beyond `Acquire` holds the lock, its base is at least the
  last commit, and the word it has written is strictly newer than it.

Each action has a lemma that it keeps `IInv` (`...Keeps`), over frame lemmas for
the polls and writers it does not touch. A merge only takes keys whose stamp the
poll is not behind: `PollInv` is then `CommitSurvives` after the merge.
`SiblingsSafe` follows from `WriterInv`: a base as old as the register is the
register's word. The refinement maps `PollMerge` to `Refresh`, `Commit` to
`Commit` (which needs the strict part of `WriterInv`), `PanelChange` and
`DeviceWrite` to `Change`, `Close` to `Forget`, all else to stuttering.
`DerivedFollows` is a fact of the merge alone, whatever state it meets: a skipped word
has its derived key computed from the cached word, a merged one brings its own.

### TimerWrites

- `TypeCorrect`: `Spec => []TypeOK`; `RestAlwaysKept`: `Spec => RestKept`;
  `SuccessAlwaysApplied`: `Spec => SuccessApplied`.

`TypeOK` is not inductive by itself, because what `BlockWrite` writes must be a
whole block. `CallInv` says for each point of a call what the call relies on:
before a write, the block in hand agrees with the request, and with the
registers on every other field nobody has touched; after it, the registers (and
after the EEPROM save the EEPROM) agree with the request wherever nobody has
touched it. `Undisturbed` is the frame lemma: a step of somebody else that
counts what it changes as touched keeps this. `RestKept` is then the first part
at `BlockWrite`, `SuccessApplied` the second at `Exec`, the only step that can
end a call well (`AnswerInv`: a call under way has no answer yet).

### Connection

- `TypeCorrect`, `OneConnectionOnly`, `BackoffIsDown`: `ConnSpec => []` of
  `ConnTypeOK`, `OneConnection`, `BackoffMeansDown`; `NoAttemptsInBackoff`:
  `ConnSpec => NoAttemptInBackoff`.

`OneConnection` is inductive with the types: each attempt closes what there was.
The backoff needs `ConnectingInv`: who is in the middle of `get_client` holds the
client lock and is not in backoff, and an attempt under way is that of
`self._client`, which is not connected. So when `GiveUp` sets the backoff,
nothing is connected, and the backoff cannot begin under an attempt.

- `PolicyKept`: `ConnSpec => KeepsPolicy`, that is `Policy!Spec`.

The mapping reads `Tries` off the holder of the lock, so the refinement needs
`SeriesInv`: who has made attempts holds the lock, and between them its client
object is the current one and has not connected. Then a step of any other task,
which needs the lock free, finds `Tries` at 0, as `Dial` of a new series and `Drop`
demand; each action is one step of the policy or a stutter.

- `NoCircles`: `ConnSpec => []NoCircularWait`, the safety half of `CallsEnd`, for any
  number of tasks: no lock is waited for in a circle and none is kept by a call that
  has ended, failed or been cancelled.

`LockInv` is the order of the locks: the holder of the client lock is in the middle
of `get_client`, where no other lock is needed; the holder of the cache lock is an
RMW that needs no lock but the client lock from then on. This takes the call's kind:
the only call that comes to the cache lock after its requests (to merge), and the
only one that tries again after an error, is a poll, which does not hold it.

### PollCycle

Let `OneAtATime` say that no two polls are under way at once. A host polls in that
way; nothing in the library makes it, so it is a hypothesis about the behaviour, for
any number of poll tasks, and not an assumption of the model. It is needed: with two
overlapping polls TLC finds `StaleIsKnown`, `BoundedStaleness`, and of TimerCache
`TimerStaleness` and `NoReuseAcrossClose`, violated (the later merge may be that of
the older snapshot), and the hazard is listed as such.

- `PollTypes`: `Spec => []TypeOK`, with any overlap.
- `StaleIsAlwaysKnown`: `Spec /\ []OneAtATime => []StaleIsKnown`.
- `SkippedIsUnchanged`: `Spec /\ []OneAtATime => SkippedUnlessExcused`, what is true
  of the promise that `poll_race` refutes: a poll skips a changed range of a flagged
  page only if an earlier poll has wiped its bit unseen or a cancelled one has taken
  it along.
- `StalenessBounded`: `Spec /\ []OneAtATime => []BoundedStaleness`.

All of them rest on `CycleInv`: nothing the client holds is newer than the
controller, and a poll that clears bits has nothing left to read. `StaleIsKnown`
speaks of the cache; `KnownInv` adds what each poll under way *brings*: of each
flagged range it still has the range to read, or holds its present version, or will
leave the bit set. A step that clears bits keeps this because the poll that clears
brings what the bits stand for, or the range is excused in that step.

The bound is not inductive because a full read resets the counter at its end, before
it merges. `LagInv` counts instead with `SinceFull`, the polls since the last full
read: `lag` is at most `SinceFull + 1` plus a round per cancelled poll, a full read
under way has a newer version of whatever lags or is going to read it, and any other
poll has begun before one was due (or `close()` has emptied the cache since).

### TimerCache

- `TimerTypes`: `TimersSpec => []TimersTypeOK`, with any overlap.
- `TimerStalenessBounded`: `TimersSpec /\ []OneAtATime => []TimerStaleness`.
- `NothingReusedAcrossClose`:
  `TimersSpec /\ []OneAtATime => NoReuseAcrossClose`.

`TurnInv` is the host's alternation of polls and timer readings. `TimerLagInv` is
`LagInv` one step further on: between a full poll and the reading that follows it the
lag may be a round old, but then `_last_was_full_read` is set and the reading will
not use the cache; while it reads, a block is still to be read, or has been read
since the lag began. `OldInv` says of a block of an earlier session in the cache that
the next poll to end is a full one, and that no reading answers from it until then.

### PumpState

- `PumpTold`: `PumpSpec => PumpIsTrue`.

`SightInv` follows the entries of the result: while output and type of the pump stay
what they are, a relay bit read for a single-speed pump, and a filtration state read
for a variable-speed one, is something the pump has done since the poll began; and
the named entry is the bit of the output that the page names, whatever copy of the
cache it began as.

### GuardedWrites

- `GuardedTypesHold`, `PumpIsReached`, `BackwashIsConfigured`: `GuardedSpec => []`
  of `GuardedTypeOK`, `SwitchReachesPump`, `BackwashAsConfigured`;
  `ManualIsLeftStopped`, `StartStopsNothing`: `GuardedSpec =>` the action
  properties `LeavesManualStopped`, `StartNeverStops`.

None of them is inductive. The invariant says of the cache, and of what a poll has
found, that an entry not counted as outdated is the register; and of each call
that a register it relies on and that nobody has meddled with is as the guard has
seen it (`TrustOK`), and that an interval in its hands is not 0. A change anywhere
puts the register into the three histories at once, a guard starts from the
entries that are reliable.

### TempSetpoints

- `SetpointTypes`, `PairStaysInSync`, `SavedStaysInSync`: `TempSpec => []` of
  `TempTypeOK`, `PairInSync`, `SavedInSync`.

The invariant is about the line (`LineInv`): places differ, none is beyond the
last arrival, and the first in line holds the lock. `Latest` is the call that
will be the last of those halfway to write its second half: either it is still in
its first half, or it stands last in the line. The heating setpoint is its value
(`PairInv`), so the pair is equal when it has written the second half. For the EEPROM, the save of the second half is the one that counts.

### TimerSchedule

- `ScheduleTypes`, `TimerRunsAsWanted`: `SchedSpec => []` of `SchedTypeOK`,
  `RunsAsWanted`; `OthersStayAsRead`: `SchedSpec => OthersAsRead`.

First the arithmetic: two halves of a value below `Base * Base` join to the value,
registers split and joined are the registers, and a stop derived from the interval
between two times is the stop. The inductive invariant is that the block fits what
is wanted (its start and its start plus its length, modulo the day), and that the
block a task has in hand fits its basis. `Base` and `Day` are any numbers with
`Day < Base * Base`, so 65536 and 86400 are covered.

### Fc20Filter

- `FilterTypes`, `BytesStayInOrder`, `FilterIsExact`: `FcSpec => []` of
  `FcTypeOK`, `InOrder`, `Exact`.

The invariant says of the stream that it is a row of frames, each byte followed by
the next one of its frame or the first of another (`StreamInv`), and of the buffer
that it holds the last bytes taken, without a gap (`BufferInv`), none of which has
been passed on (`OrderInv`). So the four bytes by which a chunk with nothing unclear about it is judged are the first four of a frame, and
the assumptions on what responses and broadcasts begin with decide. Frames of any
length and chunks of any size are covered.

Every invariant and every action property of the passing runs is stated by a
theorem. Only model-checked are the liveness properties, `RmwEnds`, `PollEnds`,
`EventuallyFresh`, `TimersEventuallyFresh` and `CallsEnd`: they rest on fairness, so on
`ENABLED`, which is out of the prover's reach. `NoCircles` and the bounds on
staleness are the parts of them that are safety.

## What is left out

- Contents of registers beyond fields and versions, decoding, formatting, the
  statistics of the connection, logging.
- In the modules other than Connection a request simply fails; the second attempt
  of `async_read_all` is, seen from the cache, one more poll. In Connection the
  requests of a call are one step that ends in success or failure, and the delays
  (between attempts, before a poll's second attempt) have no length.
- Who suffers from whose error path: one task may close the connection another
  has just made, and two hosts that retry at once could keep doing so. Connection
  has these steps; no property says they are rare.
- `async_sync_device_time` (1692-1702), `async_reset_user_counters` and the writes
  of one request without a guard or a base word: they read no state, and what
  they write depends on none. The clamp of the relay activation delay (1843-1867).
- The probe, the capability predicates, the tables of status bits and registers,
  the codecs of single values: stateless, and a table of tests reads them off.
- Texts of times (`HH:MM`), of modes and of options.
- A write confirmation that reads back another value: the code logs it and goes
  on (`_perform_write_register`), and so does the model.
- `Borrowed ModbusUnit` handles: the same requests without the connection part.

## Plan

What is left, in this order.

1. Refinements that say more of the components that have only invariants so far: an
   abstract schedule for TimerWrites (a block changes field by field, each change
   somebody's) and an atomic pair for TempSetpoints.
2. Polls that overlap: what remains true of staleness when the slower poll merges
   last. `TypeOK` and `CommitSurvives` do; the bounds do not, and the right statement
   would bound the lag by the polls that overlap.
3. A composition of GuardedWrites with PollCycle's choice of pages, if a property is
   found that needs to know which pages a poll reads; as it stands any subset is
   allowed, which includes every choice the code makes.

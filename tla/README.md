# TLA+ models of the DDoS protection daemon

The daemon captures packets with libpcap, keeps statistics per source address,
lets a set of protection modules judge each packet, and blocks sources with
iptables. It is written in C with POSIX threads. This directory holds TLA+
modules translated from that code, TLC configurations that check them, and
proofs that TLAPS checks. `PROJECT.json` maps every definition to source lines.

Paths below are relative to the repository; `storage/ipset.c` stands for
`src/src/storage/ipset.c` and so on.

## 1. The system

### Threads

| Thread | Code | Touches |
| --- | --- | --- |
| main = capture | `main`, `pcap_loop` -> `pcap_callback` -> `packet_handler` (core/main.c, packet/capture.c) | analyzer, connection cache, IP sets, firewall, global statistics, logger |
| statistics | `stats_thread_func` | global statistics, logger |
| cleanup | `cleanup_thread_func`, every 30 s | connection cache, analyzer's IP sets, logger |
| API, WebSocket | api/*.c, a `running` flag each | global statistics, logger |
| whichever thread the kernel picks | `signal_handler` | logger, then `g_shutdown`, then the context |
| in the kernel, one per CPU | `xdp_ddos_filter` (ebpf/xdp_filter.c) | BPF maps |

### Components

| Component | State | Operations | Interacts with | What makes it correct |
| --- | --- | --- | --- | --- |
| IP set (storage/ipset.c) | chained buckets of address, prefix, expiry; count; rwlock | add, add with expiry, remove, add range, two lookups, purge, clear, save, load | analyzer's black- and whitelist, firewall's tracking set | the count is exact and bounded; one listing per host; a removal removes; both lookups agree; a reload covers what was saved |
| Connection cache (storage/lru_cache.c) | doubly linked list + hash table + size, one rwlock | get (hit, miss, eviction), update, remove, sweep, destroy | packet thread keeps a pointer after the unlock, cleanup thread frees | list, table and size agree at every step; least recent goes first; no use of a freed entry; expired connections go |
| Hash table (storage/hashtable.c) | chains with a lock each, atomic counter | insert, update, remove, clear, iterate, size | connection cache | no key twice; counter exact; iterations complete; an update changes one entry |
| Analyzer (detection/analyzer.c) | statistics table, two IP sets, cache, config | statistics lookup, packet verdict, reputation | handler, protection modules | statistics exist for each source; a verdict follows from them |
| Protection modules (detection/*_protect.c) | fields of one source's `ip_stats_t` | one analyze function each | analyzer; the connection cache | a flood is a rate in one second and is caught; the score stays in its range and follows the verdicts |
| Logger (core/logger.c) | mutex, FILE, byte count | log, rotate, cleanup | every thread and the signal handler | calls return; the mutex is held by the writer; the file is bounded |
| Packet handler, start-up, shutdown (core/main.c) | context, threads, flag | handler, signal, threads, `goto cleanup` | all | shutdown ends; nothing is freed in use; success leaves nothing behind that a command could take away |
| Firewall (filter/firewall.c) | iptables chain, jump and rules in the kernel, tracking set | init, block, unblock, limit, flush, cleanup | handler | what is tracked has a rule; a stop restores; a restart adds nothing to what a crash left |
| Rate limiter (filter/ratelimit.c) | per-address sliding windows | allow, get, reset, destroy | nobody calls it | a window holds the last seconds, and the verdict is its limit |
| Configuration (core/config.c) | strings and thresholds | load, validate, reload, free | all | what is validated is usable |
| Capture, parser (packet/*.c) | pcap handle, one packet's memory | capture, parse, test for malformed packets | XDP before, handler after | nothing is read past the captured bytes or kept |
| XDP filter (ebpf/), eBPF loader (filter/ebpf_loader.c) | BPF maps | filter | kernel, whoever edits the maps | counters balance; the lists are respected |
| REST API, WebSocket | sockets, flag | start, loop, stop | statistics | they end when told to |
| GeoIP, dashboard, scripts | - | answer | - | - |

### What is hard here

* `lru_cache_get` hands out an entry after releasing the lock and another
  thread frees entries; the cleanup thread reads the clock before it waits.
* A sweep removes list elements while it walks them, and `hashtable_remove`
  frees what its three callers free again.
* The hash table's counter is adjusted after the unlock; clear and iterate take
  one lock after another.
* The four protection modules share one window start; the score they lower is
  unsigned, and the flag of a blacklisted source outlives its entry.
* The logger logs about itself with its mutex held, and the signal handler logs
  on top of a call it interrupted; a rotation's rename and reopen can each fail.
* What a list file gives back after a restart is not what was saved.
* The kernel's firewall rules outlive the process, its commands fail unnoticed,
  and the tracking set that stands for them has a capacity and expiry of its own.
* main's error exits, four threads, signals at any point and one label that
  frees the context.
* The rate limiter reads the clock before the lock and keeps a ring indexed by it.
* The XDP program and the parser bound the same headers by different lengths,
  and HTTP requests are searched as strings without any bound.

`PROJECT.json` lists these hazards at their lines with the properties that cover
them.

## 2. Modules and their correspondence to the code

| Module | Models | Remarks |
| --- | --- | --- |
| `IpSetOps` | ipset.c as functions on the value of a set | a bucket's order is kept by stamps: newest first; widths 32 and 128 are parameters |
| `IpSet` | the set shared by callers, a clock, the list file and a load in progress | each call is one step (rwlock), a load one step per line; `Loaded` is a load of the whole file after a restart |
| `IpTtl` | abstract: a map from hosts to deadlines | expiry happens with the clock; refused adds and purges are invisible |
| `LruCache` | lru_cache.c with pointers, `tcp_protect_analyze`'s use of an entry, `cleanup_thread_func` | a sweep is a sequence of steps; double free and use after free are outcomes |
| `LruSpec` | abstract: the recency order of keys | implemented by `LruCache` (`ImplementsLru`) |
| `Hashtable` | hashtable.c under racing callers | chains as sequences, the counter as a step of its own, modulo its width; `lost` and `cleared` only observe |
| `Pipeline` | `packet_handler`, `analyzer_get_ip_stats`, `analyzer_process_packet`, `analyzer_update_reputation` | the modules' verdict is an input; `found`, `leaked`, `starved` only observe |
| `Protect` | `analyzer_process_packet` for one source: blacklist, the four analyze functions, reputation and its blacklisting | packet contents are the tests made on them; the source is not whitelisted; `sent`, `cur`, `peak` only observe |
| `Logger` | `log_message`, `logger_rotate`, `logger_cleanup`, mutex, `signal_handler` | a thread's nested calls are a stack; rename and reopen fail or not; `file_size` and `stuck` (failed renames) only observe |
| `Firewall` | firewall.c with the iptables backend, one step per command | the kernel part of the state survives `Crash`; `lost`, `clean`, `failed` only observe |
| `Config` | `parse_config_json`, `config_validate` as functions of a file's sections and values | widths as parameters |
| `Lifecycle` | `main` from start to exit, both loops, both server threads, `signal_handler`'s test and write, opening and end of the capture | extends `Config`; every call that can fail has both outcomes; `refused` is what failing commands of the release left |
| `RateLimiter` | ratelimit.c; a caller reads the clock, then waits for the lock | `sent`, `counted`, `last` only observe |
| `Parser` | parser.c's length arithmetic and `packet_is_malformed` as operators on a frame's fields | `reads` is the end of the furthest byte read, `scan` how far `parse_http`'s string functions read from the payload on |
| `Xdp` | `xdp_ddos_filter`, one step per map lookup, on several CPUs, with a tool that edits the maps | extends `Parser`; `hits` and what the maps answered during an invocation only observe |
| `Ingress` | composition: frame -> `Xdp` -> `pcap_callback` -> `Parser` -> handler, with the callback's memory | extends `Xdp` |
| `MC*` | instances | |
| `IpSetProofs`, `LruCacheProofs`, `FirewallProofs`, `LifecycleProofs`, `IngressProofs` | theorems about the module of that name | |
| `IpSetOpsProofs` | the lemmas that `IpSetProofs` and `FirewallProofs` share | |
| `DetectionProofs` | theorems about `Protect` and `Pipeline` | extends both, which have no name in common |
| `SharedProofs` | theorems about `Hashtable`, `Logger` and `RateLimiter`, the components threads share under locks | extends all three, which have no name in common |

Names of actions follow the C functions where there is one function per
action. Remarks on scope:

* `IpSet`, `LruCache`, `Hashtable` and `Protect` speak of callers of the public
  interface in the headers. In the program as it stands `Pipeline` shows that
  the code behind `analyzer_get_ip_stats` is not reached, because that function
  always returns NULL; the component models say what happens once it is.
* In `Hashtable`, an update passes an entry whose `next` is NULL, as the
  calloc'ed entries of the only kind of caller are.
* `RateLimiter` speaks of callers of ratelimit.h; the program has none. Where
  two addresses share a bucket the code reads an entry as a window: the
  behaviour is undefined and the model ends it (`undefined`).
* `Xdp`'s maps are changed by a tool outside the daemon: the loader only logs.

`Firewall` and `IpSet` share `IpSetOps`: the tracking set is an ipset. `Logger`
and `Lifecycle` both have `signal_handler`, the first with its log call (and the
thread it interrupts, another handler included), the second with what it does
to the context, one handler at a time.

Failed allocations: in `Pipeline` an input; in `IpSet` and `LruCache` a failed
allocation returns before any change of the set or list (for the cache: in
`Protect` the fate "noconn"), so it is a stuttering step there.

## 3. Runs

"Holds" runs finish without error; "violated" runs state what a comment or a
document says and the counterexample is what the code does (see `findings` in
`PROJECT.json`).

| Run | Question | Result | Distinct states |
| --- | --- | --- | --- |
| `ipset_v4` | count, removal, and the set as an `IpTtl` map | holds | 3 296 |
| `ipset_file` | ranges and hosts of both families with save and load: count and capacity between any two lines; a reload covers what was covered | holds | 302 196 |
| `lru` | list, table, order, sweep position; who frees an entry in use; the cache implements `LruSpec`; an expired connection goes (fairness) | holds | 1 373 559 |
| `lru_abort` | the sweep that expires connections survives | violated: it frees an entry twice (storage/lru_cache.c:329) | |
| `hash_race` | keys once, counter exact until a clear, iterations complete | holds | 2 397 428 |
| `pipeline_stats` | "Get or create IP statistics" | violated: NULL for a new source (detection/analyzer.c:139) | |
| `protect_mixed` | for a source of one kind a verdict needs the rate and the rate gets the verdict; the score stays within 0..100 | holds | 2 076 577 |
| `logger` | holder of the mutex, size of the file; above INFO no call hangs and all return, and only a thread that waits for itself keeps a signal from being noticed (fairness) | holds | 47 535 |
| `firewall` | what is tracked has a rule; what a stop leaves | holds | 323 982 |
| `lifecycle` | the context is not freed under a thread once the capture was opened; what success leaves; loops and shutdown end (fairness) | holds | 73 221 |
| `ratelimit` | what the ring holds, what a reader is told at least and at most, the verdict | holds | 990 488 |
| `ingress` | counters and lists of the XDP program; where the parser reads and puts the payload after it; memory | holds | 1 784 202 |

### Bounds

* `IpSet`: two places and three hosts, so that an add is refused, a place freed
  by removal, purge or clear is used again, and an expired entry can block one.
  Addresses of 2 and 3 bits have every kind of prefix (some bits, all bits, one
  too many).
  `MaxAllocs` bounds insertions since the last clear, `MaxTime` the clock; both
  reach past the longest lifetime.
* `LruCache`: a cache of two, three keys and three blocks: a hit on head and
  tail, an eviction with a block to spare, a block freed and reused. Times 0..2
  with timeouts 0 and 1 let an entry expire while another does not, and while
  the packet thread holds it; only differences of times matter. `SlowAge` is the
  age from which `is_slowloris_attack` may fire (30 and 60 s in the code, with
  few packets or bytes, which the model leaves open). (`lru_abort`: timeouts 1
  and 2, times 0..4.)
* `Hashtable`: three keys, two in one bucket, three threads. The counter wraps
  at 8, above everything that can be counted, so that a decrement which
  overtakes an increment is seen to wrap and come back. `MaxLost` bounds the
  entries that updates lose.
* `Pipeline`: three sources, two in one slot, 12 packets; `ScoreWrap` 1000 stands for
  2^32. The proofs remove all of these.
* `Protect`: threshold 2, up to 3 packets a second, seconds 0..2: below, at and
  above the threshold, in one window and over two, with one reset between. Time
  counts from the first packet, which creates the statistics. Requests of a bot
  (20 points down with the update) and without an agent (5 down before they are
  judged) bring the score around 0, and floods below 10, where the source is
  blacklisted for `BlacklistDuration` and its entry expires; the list takes it
  (`Room`; the proofs cover a full list too). `Wrap` 1000 stands for 2^32,
  `FileAckLimit` for the file's `tcp_ack_pps`.
* `Logger`: three threads, up to 5 calls, a limit of 3 with lines of 1 and 2,
  levels INFO and WARN: rotations, failed renames and reopens, signals and
  cleanup all occur.
* `Firewall`: three starts, so that a crash is followed by a stop and that by
  another start; two IPv4 hosts and one IPv6 host, which iptables refuses; a
  tracking set of one place, so that a block is not tracked; two rules per
  host, so that an unblock leaves one; a block that expires and one that does
  not. The proofs remove all of these.
* `Lifecycle`: two signals (one before, one after the context exists) and five
  files: all features, no network section, a capture length of 0, too many
  workers, and a number of workers that wraps to a small one.
* `RateLimiter`: a ring of three seconds and times past two rings, two callers:
  an index wraps, a pause is shorter than, as long as and longer than the ring,
  and a caller is overtaken between reading the clock and the lock.
* `Ingress`: frames whose lengths are one below and at the end of every header,
  with length fields that are too small, exact and too large, one at a time; or
  two of six kinds at once on two CPUs with one change of a map. A capture
  length of 70 cuts some of them. HTTP requests that fit it have text that ends
  a byte before the payload does, with it and a byte after it, and `tot_len`s
  that are exact, too large by one and far too large.

`CHECK_DEADLOCK FALSE` is used where a run really may stop: the clock, packet,
call or allocation bound is reached, or the process has ended.

### What else the models show

Beside the two violated runs, these definitions state what a comment, a document
or the configuration file says; TLC refutes each when it is checked with the
constants of the configuration named, and none is a property of a run.

| Statement | Refuted with | What says so | What the code does |
| --- | --- | --- | --- |
| `Pipeline!NothingLeaked` | `Pipeline_stats.cfg` | STATUS.md:176 "Memory leak free"; docs/ARCHITECTURE.md:402 bounds the statistics | every packet loses a block (detection/analyzer.c:125, 139) |
| `Protect!FloodNeedsRate` | `Protect_mixed.cfg` | detection/udp_protect.c:177 "Calculate PPS over last second" | the modules share `last_update`: a ping restarts the window and leaves the count of datagrams, so that one datagram a second can be a flood (detection/udp_protect.c:178) |
| `Protect!FloodReconsidered` | `Protect_mixed.cfg` | the same comment | a flood verdict returns before the reset; later packets are judged by all since the first window (detection/udp_protect.c:199) |
| `Protect!AckLimitKept` | `Protect_mixed.cfg` | config/default.conf:13 `"tcp_ack_pps": 8000` | the threshold is never set, and one ACK in a later second is dropped (detection/tcp_protect.c:166) |
| `Protect!DropNotRewarded` | `Protect_mixed.cfg` | detection/http_protect.c:204 "Lower reputation for bot-like behavior"; include/common.h:137 "0-100, lower is worse" | a low unsigned score goes around and is cut to 100 (detection/http_protect.c:205, detection/analyzer.c:156-158) |
| `Protect!LowScoreListed` | `Protect_mixed.cfg` | docs/ARCHITECTURE.md:88 "Auto-blacklist on low scores" | `is_blacklisted` is never cleared, so that an expired entry is not renewed (detection/analyzer.c:163) |
| `Logger!CallsReturn` | `Logger.cfg` | docs/ARCHITECTURE.md:479 "Automatic rotation at 100 MB" | at level INFO a rotation logs with the mutex held and waits for itself (core/logger.c:224); hence `QuietNeverHangs` and `QuietCallsReturn` are about levels above INFO |
| `Firewall!OneJump` | `Firewall.cfg` | docs/ARCHITECTURE.md:202 "Rule cleanup" and 206-208, the chain structure | a start after a crash inserts another jump (filter/firewall.c:31) |
| `Xdp!BlacklistFirst` | `Ingress.cfg` | docs/ARCHITECTURE.md:233-234 "Blacklist check -> Drop if found", then the whitelist | the whitelist is asked first and a source on both lists passed (ebpf/xdp_filter.c:118); hence `ListsRespected` is about sources on one list |

Further behaviour that a reader should know of; each follows from the definition
named.

* `analyzer_get_ip_stats` returns NULL for every source (`pipeline_stats`): as
  the program stands no packet is dropped, limited or blocked (`FailsOpen`),
  and every packet costs a block of memory (`LeakPerPacket`); both are proved.
* A counter above its threshold never comes down (`FloodSticks`), and a source
  of ACKs alone is dropped from its second second on (`AcksShutOut`); both are
  proved.
* `parse_http` searches the payload with `strncmp`, `strchr` and `strstr`, which
  know neither `payload_len` nor the captured length (packet/parser.c:217-268).
  What they read ends inside the captured bytes only if the text does, which no
  code makes sure: hence the premise `TextEnds` of `VettedReads`. It also needs
  that the packet is not malformed, which is tested only after the parsing.
* After a failed rename a rotation appends to the full file with the byte count
  at 0 (core/logger.c:209-222), so that the file has no bound of its own:
  `SizeBounded` counts the renames that failed.
* Failing commands of `firewall_cleanup` and `ebpf_unload_program` are ignored
  and main returns 0 with rules or program in the kernel (`Release`; hence
  `refused` in `SuccessReleasesAll` and `RulesLeftOnlyByFailure`).
* INPUT holds one jump for each process that ended without its cleanup
  (`JumpsExact`, proved).
* `signal_handler` logs before it sets the flag (core/main.c:54). On top of a
  log call of the same thread it waits for ever and the signal is not noticed
  (`Hung` in `Logger`).
* After a signal nobody breaks `pcap_loop`: although main logs "press Ctrl+C to
  stop" (core/main.c:405), the call at core/main.c:408 ends only with a capture
  error. `ShutdownCompletes` starts behind it.
* A start that fails when opening the capture frees the context under the two
  threads it has created, and leaves the rules in the kernel (core/main.c:393;
  `misuse`, and the premise `opened` of `ThreadsGoneBeforeFree`). A handler that
  has tested `g_ctx` can write to the freed context on any way out.
* SIGHUP, which docs/ADMIN_GUIDE.md:108 uses to reload, has no handler and ends the
  process (`Hangup`); `config_reload` has no caller.
* A block in the kernel never expires; only its tracking entry does
  (filter/firewall.c:83; docs/ARCHITECTURE.md:200 says "IP blocking with TTL"). The converse of
  `TrackedHasRule` is false for this reason, for a full tracking set, and
  because every block of the same host inserts another rule of which an unblock
  deletes one.
* The rate limiter's packet windows are overwritten by the chain pointer, so
  that the PPS limit of docs/ARCHITECTURE.md:177 is not enforced
  (filter/ratelimit.c:242, `AllowNew`), and the memory of each is lost.
* The XDP program counts a blacklisted frame twice as dropped
  (`CountersBalance`).
* `packet_is_malformed` does not compare `tot_len` with the header's length;
  hence the last premise of `PayloadInside`.
* An IPv6 host has prefix 128 and is never recognised by `ipset_add_expiring`
  (storage/ipset.c:119), so that a second add makes a second entry and one
  removal leaves it listed (`ipset_add_expiring`; hence `V4HostOnce` and
  the run of `RemoveRemoves` are about IPv4).
* A line without a prefix is a /32 in both families (storage/ipset.c:293,
  `LinePrefix`).
* Deadlines are not written to the list file: a temporary entry saved and loaded
  is permanent (storage/ipset.c:463, `ipset_save_to_file`).
* A packet thread stalled for longer than a timeout uses a freed entry
  (storage/lru_cache.c:198, `UseAfterFree`; `HeldFreedOnlyIfStalled` says that
  nothing else can cause it).
* An update in place loses the rest of the chain (storage/hashtable.c:199-200,
  `InsertExisting`), and a clear forgets what is inserted meanwhile
  (storage/hashtable.c:308, `ClearEnd`; hence `CountExact` counts `lost` and
  ends with the first clear).
* A verdict of CHALLENGE or RATE_LIMIT skips the reputation update. `ScoreBounded`
  holds nevertheless, because the HTTP module's lowering by 5 that goes around
  leaves a score above 20, which is accepted or dropped and then cut to 100.

### Fairness

* `LruCache!FairSpec`: weak fairness of the cleanup thread. It loops around
  `sleep` as long as the process runs (core/main.c:121-132) and needs the
  cache's lock only for one call; the packet thread releases it at the end of
  each call. Nothing is assumed of the packet thread or the clock. The
  property allows that the process ends or the connection is used again.
* `Logger!FairSpec`: weak fairness of each thread inside a log call. A thread
  waiting for the mutex gets it if it stays free; the calls are finitely many,
  so that this does not require a fair mutex. No new call is required.
* `Lifecycle!FairSpec`: weak fairness of main, of each thread and of the write
  with which a signal handler ends. All of them only wait for `sleep`, a join or
  each other. A capture error, a signal and a hang-up are not fair: none need
  ever come. `pthread_create` of the two loops is taken to succeed.

## 4. Proofs

TLAPS checks these for every value of the constants under the named
assumptions of the modules: `IpSetAssumption` and the two `WidthAssumption`s
(IP sets, parser), `LruAssumption`, `FirewallAssumption`,
`LifecycleAssumption`, `ConfigAssumption`, `ProtectAssumption`,
`XdpAssumption`, `IdleAssumption`, `SnaplenAssumption`,
`HashtableAssumption`, `LoggerAssumption`, `RateAssumption`, `AbsentAssumption`.
They speak of finite heaps and capacities, widths, and types of the
parameters, and of nothing about traffic or scheduling. TLC evaluates all of
them on the constants of the runs. The theorems about `Pipeline` have a
hypothesis of the same kind, `PathConstants`.

* **`IpSetProofs`**: `TypeCorrect`, `CountCorrect`, `V4HostOnceCorrect`,
  `RemoveCorrect`, `TtlCorrect`, `ReloadCorrect`. `CountExact` is not inductive:
  a refresh replaces an entry, and keeps the count only if the replacement is not already there, and a
  removal needs an entry to take out. The invariant adds finiteness and unique
  stamps bounded by `allocs` (`StampsUnique`). In `IpSetOpsProofs` a lemma per
  operation shows it keeps a good set good (`AddGood`, `RemoveGood`, ...),
  resting on `NewestIsMember` (the walk finds a first match). `V4HostOnce` needs
  further that every IPv4 entry has the full prefix (`V4Single`), which holds
  when the set is fed by the add calls only (`HostsOnly`); `RemoveCorrect`
  follows from both and is false with IPv6 (section 3). `TtlCorrect` is the
  refinement of `IpTtl`, for sets of IPv4 hosts: under `HInv` (the above, no
  load in progress, the clock in its bound) each operation is the map's
  operation of the same name, and a refused add and a purge leave the map as it
  is, a purge because what it takes has expired for both lookups already.

  `ReloadCorrect` is about what a file of saved lines loads, which is a fold
  over the lines and thus a recursive function over their subsets. That the
  function exists and takes one line at a time (`LoadsExist`, `LoadedIs`) is
  shown without an induction theorem: among the sizes at which it could fail
  there would be a least one (`Least`), and one line less is no failure
  (`OneLess`). The same argument gives that each line that fits the set's
  capacity leaves an entry of its address and prefix (`LoadedHolds`). The
  invariant `Prefixes` says that every prefix in the set is legal for its
  family, without which a saved line would be refused when it is read back.
* **`FirewallProofs`**: `TypeCorrect`, `TrackedCorrect`, `JumpsCorrect`,
  `StopCorrect`, from two invariants. `TrackedHasRule` is not inductive: an
  unblock may delete the last rule of an address, and must then take its only
  entry out of the tracking set. `RulesInv` therefore says that the set is good
  and has one entry per IPv4 host, that only accepted (IPv4) addresses are in
  it, and that it is empty until a start is complete, whose flush would
  otherwise take rules away; the lemmas of `IpSetOpsProofs` do the rest.
  `ChainInv` is `StopRestores` with what it needs: `JumpsExact` (the running
  process's jump and one for every process that ended without its cleanup,
  without which it is not known whether the chain is still referred to), and
  that without a failed command the chain exists from a start on and is empty
  when it is deleted.
* **`LifecycleProofs`**: `ThreadsGoneCorrect`, `SuccessCorrect`, `RulesCorrect`,
  `TypeCorrect`. The invariant says, point by point of `main`, where the threads
  may be (none before they are created, the loops ended after the joins, the
  servers gone after their stop), that the context lives until the label frees
  it, and that the only way from an opened capture to the label is through the
  release, which leaves in the kernel at most what its failing commands left. One lemma per group of actions.
* **`LruCacheProofs`**: `TypeCorrect`, `SizeCorrect`, `LinkedCorrect`,
  `SweepCorrect`, `StallCorrect`, `ListCorrect`, `RecencyCorrect`,
  `RefinementCorrect`. Cutting an element out and linking one in
  front are two lemmas about lists in general (`CutOK`, `LinkOK` and their
  kin); evictions, moves and removals compose them. `Linked` alone is not
  inductive: a cycle beside the list would satisfy it, so the invariant says
  that `lru_next` goes up in some ranking of the blocks (`Ranked`), which both
  lemmas preserve. `StallCorrect` has an invariant of its own (`StallInv`) that
  relates `last_seen` of the held entry, the time it was got and the sweep's
  `now`.

  The last three theorems need the order of the list. `OrderInv` says that some
  sequence lists the live entries along `lru_next` (`Chain`), sorted by
  `last_seen` (`Sorted`), that no entry was seen after now, and that the entry
  the packet thread still works on is in front, so that its unlocked write of
  `last_seen` keeps the order. The recursive function with which the
  model walks the list is evaluated on that sequence: a least place at which the
  two differ, which `WFMin` would give, cannot exist. `ListExact` and
  `RecencySorted` follow, and each step maps to the step of `LruSpec` that cuts,
  moves or adds the same key, or to a stutter.
* **`DetectionProofs`**, `Protect`: `TypeCorrect`, `FloodNeedsRateCorrect`,
  `FloodSticksCorrect`, `AcksShutOutCorrect`, `FloodCaughtCorrect`,
  `ScoreCorrect`. Each handler is first reduced to its effect on the fields
  of the statistics (the lemmas `...Effect`). `FloodNeedsRateAlone` needs that,
  below the threshold, the counter holds at most one second's packets
  (`WindowInv`, `PeakInv`); `AcksShutOut` that ACKs never restart the window
  (`AckInv`); `FloodCaught` that the packet which restarts it is the only one of
  its second not counted (`CaughtInv`). `ScoreBounded` is inductive with the
  types; its step (`ScoreKept`) follows the score through the modules and the
  reputation update and needs only that scores which went around (at most 20
  below 0) are above 100, that is `Wrap > 200`.
* **`DetectionProofs`**, `Pipeline`: `PathTypeCorrect`, `LookupEndsCorrect`,
  `FailsOpenCorrect`, `LeakCorrect`, from the invariant `PathInv`: the statistics table stays empty
  (`TableEmpty`), without which a lookup of another source in the slot would not
  end and a block could be judged and its packet dropped.
* **`IngressProofs`**: `TypeCorrect`, `NoLeakCorrect`, `BalanceCorrect`,
  `ListsCorrect`, `VettedReadsCorrect`, `PayloadInsideCorrect`, for any frames,
  CPUs, map changes and capture length. `CallbackInv` ties the packet and the
  live allocations to the progress of `pcap_callback`; `VettedInv` follows what
  the XDP program's tests have shown of a frame through the kernel's queue to the
  parser, and the lemma `PayloadEnd` where the payload ends, for the strings of
  `parse_http`; `ListsInv` says that every lookup which brought an invocation where it
  is, is in what the maps have answered meanwhile.
* **`SharedProofs`**, `Hashtable`: `TableTypeCorrect`, `KeysOnceCorrect`,
  `CountCorrect`, `ForeachCorrect`, from one invariant `TableInv`: the chains
  hold keys of their own bucket once (`ChainsOK`), no iteration has skipped a key
  that stayed (`ForeachOK`), a thread is inside a clear only after one has begun,
  and counter, linked keys, losses and pending adjustments balance modulo the
  counter's width (`Balance`). `CountExact` alone is not inductive: an update
  that cuts a chain changes the number of keys by what is behind the position
  (`SuffixCount`), which is known only if no key is there twice.
* **`SharedProofs`**, `Logger`: `LogTypeCorrect`, `HeldCorrect`,
  `LogSizeCorrect`, `QuietCorrect`. `LogInv` says of each thread's nested calls that exactly one is past the lock and not past
  the unlock if the thread has the mutex, and none if it has not. The bound on
  the size needs that between lines the byte count of an open file is within the
  limit, and that the file holds at most that many bytes more than one limit and
  line per failed rename: only the line that starts a rotation passes the limit. `QuietCorrect` says that above INFO no thread
  waits for the mutex it holds: no call is on top of another there (`Flat`),
  since the rotation's own line and the handler's are of level INFO.
* **`SharedProofs`**, `RateLimiter`: `RateTypeCorrect`, `WindowCorrect`,
  `VerdictCorrect`, `RateCorrect`, `StaleCorrect`.
  `WindowExact` needs that nothing is counted after a window's last second and that an address without an
  entry has nothing counted (`RateInv`); the three ways in which
  `sliding_window_add` moves the ring are a lemma each (`RingSame`, `RingOn`,
  `RingAnew`), for any length of the window.

  The other three compare a sum over the ring's places with a sum over seconds.
  The sum of f over S is the number of pairs of an element of S and a number
  below its value (`Cells`, `TotalCells`), so that sums are compared by
  cardinalities: a map that sends each non-zero term to a term of its own that
  is at least as large shows one sum below another (`TotalLeq`), and one in each
  direction that they are equal (`RingSum`).
  That the recursive definition of the sum has this value is once more shown by
  a least counterexample (`AddsUnique`). `RateNotUnderstated` is about the
  bytes sent and needs, beside `RateInv`, that from any second on at least as
  much was counted as was sent (`NotLost`: a late caller counts into a later
  second, never an earlier one) and that no window is ahead of the clock
  (`LateInv`, which TLC checked before); `RateNotStale` follows from `RateInv`
  and the test with which `sliding_window_sum` begins.

Only model-checked:

* liveness (`ExpiredGoes`, `QuietCallsReturn`, `SignalNoticedUnlessHung`,
  `LoopersNotice`, `ShutdownCompletes`): fairness is beyond the prover.

Only proved: the type invariants of the modules with proofs, `V4HostOnce`,
`SizeExact`, `RulesLeftOnlyByFailure`, and `FailsOpen`, `LeakPerPacket`,
`FloodSticks`, `AcksShutOut` and `JumpsExact`, which say how the code comes to
differ from what its documents say, and `LookupEnds`; no run repeats them.

## 5. Not modelled

* The nftables backend of firewall.c (main passes iptables only) and
  `config_reload` (no caller).
* The lists of countries and user agents in the configuration; the texts of
  HTTP requests beyond the tests made on them.
* GeoIP: a stub with constant answers. Dashboard, scripts, shell tests: no state
  of the daemon. The eBPF loader's map operations: they only log.
* What the REST and WebSocket servers answer: formatting of read-only
  statistics. Their threads are in `Lifecycle`.
* Entropy, baseline and classification in analyzer.c: floating-point functions
  without callers.
* `conn_tuple_hash` and MurmurHash3: an arbitrary function here.
* syslog, stderr, formatting of log lines.
* Frames lost in the kernel's ring before libpcap delivers them: `Ingress` has
  the failed allocation, with the same effect.

## 6. Plan

Done: all components that keep state have a module, and each of these modules
has theorems.

Every invariant and action property that a passing run checks is also proved.

Left: several sources at once in `Protect` (they share nothing but the
blacklist's capacity, which is an input here), and `Protect` on top of
`LruCache`'s connections, whose state only `is_slowloris_attack` reads.

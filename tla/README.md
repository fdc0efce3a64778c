# rdnstun in TLA+

rdnstun answers every packet the kernel routes into a tun device as if a chain
of routers stood behind it, so that `traceroute` shows a made-up path.  This
directory holds TLA+ modules that model the program, the TLC configurations
that check them and the theorems about them that TLAPS proves.

## 1. Inventory

| component | source | state it keeps | operations | who calls it |
|---|---|---|---|---|
| address arithmetic and checksums | `inet.c`, `inet.h` | none (pure) | `membcmp`, `inet_isnetwork`, `inet_shift`, `inet_cksum*` | chain, host, options |
| hosts | `host.c` | one fake host `{ttl, mtu, addr}` | `FakeHost_reply`, `FakeHost6_reply`: rewrite a received packet in place | chain array |
| chains | `chain.c` | null-terminated array of hosts, a route `network/prefix` | `HostChain_init` (parse), `_find`, `_in`, `_shift`, `_copy`, `_compare`, array `_find`, `_reply`, `_sort`, `_destroy_size` | options, worker |
| tun device | `iface.c` | file descriptors, the device name | `tun_alloc`, `tuns_alloc`, `ifup` | main |
| worker loop | `rdnstun.c:37-118` | one fd, one packet buffer, the shared `shutdown` flag | poll, test the flag, read, dispatch, reply, write | main thread or N threads |
| options | `rdnstun.c:163-351` | the two chain arrays and their lengths, interface name, thread count | `-4 -6 -E -T -D`, terminate and sort the arrays | the user |
| life cycle | `rdnstun.c:353-454` | fds, threads, chain arrays, `shutdown` | open, daemonize, spawn, join, close, free; SIGINT | kernel, user |
| logger | `log.c`, `log.h`, `color.h` | level, streams; an event's status and flags | begin, write and end an event | everywhere, the SIGINT handler included |
| crash handler | `log.c` | the exit status; in `wait_debugger`, the saved terminal mode and SIGINT action | `sigsegv_handler`, `exit_debug`, `wait_debugger` | SIGSEGV, the end of a fatal event |
| thread names | `threadname.c` | none | get / set / format | worker, main |
| macros, build files | `macro.h`, `Makefile*`, `mk/` | none | control-flow macros, build flags | everywhere |

### How they interact

`main()` is one straight line: options fill the two chain arrays, the arrays are
terminated by a null buffer and sorted by prefix, the tun device is opened once
per thread, SIGINT gets its handler, and N threads run `rdnstun()`.  From then
on the arrays are read by every worker and written by nobody, so there is no
lock; what makes that right is only the order in which `main()` creates, joins,
closes and frees.  The one thing threads share and change is the flag
`rdnstun_shutdown`, which the signal handler and a failing spawn set, and which
each worker reads after a `poll` of at most a second.  The kernel hands a packet
for the device to any of its queues; each queue has one worker.

A worker gives the packet it read to `HostChain4Array_reply` or
`HostChain6Array_reply`, which searches the chains for the host that the packet's
destination and TTL select, and to `FakeHost_reply` or `FakeHost6_reply`, which
turns the packet, in place, into that host's answer.

Every component logs.  Two signal handlers do as well, on top of whatever their
thread was doing: `shutdown_rdnstun`, before it sets the flag, and
`sigsegv_handler`, whose event is fatal, so that its end is `exit_debug` and the
prompt of `wait_debugger` while all other threads go on.

### What is hard, and what makes each part correct

| component | hard about it | correct when |
|---|---|---|
| life cycle, tun device, worker loop | N threads, a signal that may come anywhere, resources released on five different paths (`tuns_alloc` unwinding, failing `daemon`, failing `thrd_create`, shutdown, one thread only), a device that vanishes | nothing is used after its release, everything is released once, one device, no blocking read, shutdown ends the process, packets get served |
| chains: lookup | overlapping routes, each chain tried overwrites what the one before found; null addresses end a chain | host and index belong together and lie within the TTL; where one chain matches, the answers are those of a row of routers |
| hosts | checksums computed, updated or recomputed over a cut packet, in a buffer whose start is the source and the destination of the copy; the same function written twice | answers verify at the receiver, quote what was received, are as long as they say; both families alike |
| address arithmetic | prefixes ending inside a byte or a word, carries between words, shifts by the width of a word | comparison, route check and shift agree on what a prefix is |
| chains: parser | three different bounds on one buffer, options anywhere between addresses, 32-bit counts of ranges | no write behind the buffer, a host per name, TTLs that outlive the chain, MTUs that never grow |
| options | two arrays grown in two different ways, allocations failing midway, terminator and sort at the end, numbers cut to an int | each host buffer is owned once, there is room for the terminator, duplicates are where they should be, workers get terminated sorted arrays with routes that are routes |
| worker loop, together | probes of one client on several queues, answers overtaking each other, lost or doubled | each worker answers as if alone; the trace shows the routers of the chain |
| logger, crash handler | handlers that log over a thread that logs; a prompt that changes the terminal and SIGINT of the whole process and may end in four ways, while others run or crash | everything changed is given back, a fatal event does not return without a debugger, the status tells, shutdowns and crashes come to an end |

PROJECT.json lists every hazard at its line, with the properties that watch it.

## 2. Modules

    Lifetime  <--implements--  Lifecycle <- MCLifecycle
                                   ^------- LifecycleProofs
    Inet <- Route <- MCRoute
      ^---- ChainInit <- MCChainInit
      |        ^-------- ChainInitProofs
      ^---- Chain <- Options <- MCOptions
              ^----- ChainArray <- Responder <- MCResponder  (ChainArray also extends Host)
                        ^            |
                        |            v (each worker is one)
    PathTrace <--implements--  Traceroute <- MCTraceroute
    Log <- MCLog
      ^--- LogProofs

    ChainArray <- ChainArrayProofs <- RouteProofs       (with Route)
                          ^---------- OptionsProofs     (with Options)
                          ^---------- ResponderProofs   (with Responder)
                          ^---------- TracerouteProofs  (with Traceroute)

**Lifetime** is the abstract promise about shared resources: users with a handle
each and one table; nobody works without an open handle and a live table, handles
close once and not under their user, the table goes last.  It says nothing about
threads, signals or failures.

**Lifecycle** is `main()` from `tuns_alloc` on, the loop of each worker, SIGINT
and the kernel.  `pc` is where `main()` is, `i` its loop counter; every iteration
of a loop of `main()` that calls the system is a step (`TunAlloc`,
`TunsAllocUnwind`, `ThrdCreate`, `AbortJoin`, `ThrdJoin`, ...), and every call of a
worker that the others may interleave with is one (`PollReady`, `PollTimeout`,
`PollFail`, `CheckShutdown`, `Read`, `ReadFail`, `Reply`, `Write`).  A packet is a
token of its queue; the fd table tells a closed descriptor from one closed twice,
and the device each queue is attached to follows `if_name`, which `tun_alloc`
writes back.  The device may be deleted under the process, once or again and while
queues are still being opened: on the queues it had (`gone`) `poll` reports an error
at once and `read` fails, a queue opened later has a new device of the same name.

**Inet** has the pure functions of `inet.c`.  Addresses are numbers; `ByteBits` and
`WordBits` give the widths, so that all of a small address space can be
enumerated.  The route check yields a *set* of results, because a prefix that
leaves nothing of a word shifts by the word's width, which C leaves open.  The
checksum is at its real 16 and 32 bits, over sums of words.  **Route** takes a
route through the program: `HostChain_init` accepts it, `-E` moves it together with
an address, `HostChain_in` compares the two.

**Chain** has the lookups and orders of `chain.c`, **Host** the two reply
functions.  A packet is its header fields, the first 8 bytes behind the header,
the word sum of the rest (and of the part that is left when it is cut to the MTU)
and, in an answer, the quote.
**ChainArray** puts the two together (`HostChain4Array_reply`,
`HostChain6Array_reply`) and says what an answer means to who gets it.
**Responder** is a turn of the worker's loop: `Read`, `Reply4` / `Reply6` /
`UndefinedIpver`, `Write`.  A packet that ends within the 8 bytes behind its
header keeps the fields that were read whole; the others are what lay in the
buffer, any of `Stale` (`LeftOver`).

**PathTrace** is the abstract promise to who traces a path: there is one, every hop
shows up once, in any order, stays as it was shown, and in the end all have.  `Safety` is
all of it but the end.
**Traceroute** composes N workers, the kernel's queues, a network that reorders and
loses, and a client that repeats its probes.  The workers' steps (`Read`, `Reply`,
`Write`) are the loop's; client, queues and network are external.  Its
`WorkersRespond` says that each worker, projected, is a Responder; `ShowsPath`
that the whole is a PathTrace whose path is the chain's row of routers.  It assumes
that one chain of the array matches the destination, since where several do the
path is not that of one chain (NestedRoutes, section 5).

**Log** is the logger and the crash handler on all threads of a process.  `thread`
is where each thread is (polling, at work, in an event, in `wait_debugger`, call by
call) with `wait_debugger`'s locals; `frame` is where the SIGINT handler is on top
of it.  An event takes the lock of `localtime_r` (`Begin`) and gives it back
(`Time`); the terminal mode, the action of SIGINT, the typed key and the state of
the process are the kernel's, one each for all threads.  A fault may come anywhere
in a turn's own code and on several threads at once.

**ChainInit** is `HostChain_init`, one action per kind of token.  `named` and `ranged`
are not in the code: they count the addresses the tokens name, so that properties
can compare them with the hosts made.

**Options** is `main()` up to the opening of the device: each option is an action,
`malloc` and `realloc` may fail at each call, array slots hold what `realloc` left
there until they are written, and `heap` is the set of live host buffers.  `int`
is what an int, which is as wide as a word, keeps of a number: `argtoi` cuts a long
to it, and the product of `-E` wraps in it.

A mutant is an operator in front of the definition it replaces, with a comment
saying what went wrong in it.  PROJECT.json pairs each property of a run with one
that it catches: the property is about the code, not about the model's shape.

## 3. Runs

| run | distinct states | bounds | shows |
|---|---|---|---|
| LifecycleThreads | 35943 | 3 workers, 1 packet a queue | all of life cycle, safety, liveness and the refinement of Lifetime, with every failure possible |
| LifecycleSingle | 151 | 1 worker, 2 packets | the path without `-T`, on which the main thread works and `tuns_alloc` unwinds nothing |
| Route | 236830 | bytes of 2 bits, words of 4, two shifts | comparison, route check and shifts agree; a shifted route stays one |
| Answers | 335921 | 2-bit addresses, arrays of up to 3 chains of up to 3 hosts, TTLs 0 to 4; checksums and sums around each carry, lengths around each MTU and below 8 bytes of data, codes 0 and others | who answers, and how; both families alike; answers verify, quote and measure right |
| ChainInit | 646036 | 5 tokens, buffer of 6, words of 4 bits | the parser's buffer, hosts, TTLs, MTUs |
| Options | 1197168 | 3 chains a family, duplicates by 0 to 2, words and ints of 4 bits, arguments within, beyond and cut to an int | ownership, terminator, order, routes, where duplicates are |
| Log | 147726 | `main()` and 2 workers, one poll of the prompt | terminal and SIGINT given back, fatal events, exit status, shutdowns and crashes end |
| Traceroute | 190336 | 2 workers, 3 hops, 1 packet a queue, 2 arrays, 2 destinations | workers together: each a Responder, the whole a PathTrace |
| NestedRoutes, RangeTtl, Interval, DebugShutdown | - | as the passing run of the module, with fewer values where they do not matter (DebugShutdown: `main()` alone) | the findings below |

Why the bounds are enough.  *Workers*: the paths that unwind or join start in the
middle of a range, so the smallest interesting number is three (one before, at and
behind the failure).  *Queues*: a worker only tells an empty queue from another;
with two packets one can arrive while one is handled.  *Widths*: words of two
bytes, IPv6 addresses of four words, prefixes inside and at the end of a byte and
of a word; a carry can go through all words.  *Chains*: nested, equal and disjoint
routes, a destination in none, one or several of them, null addresses at the start
and in the middle, TTLs one past the longest chain.  *Parser*: a buffer of six is
filled and overrun by single addresses and by ranges, and a word of sixteen
addresses is larger than the buffer, as 2^32 is than 255.  *Options*: an array
grows by each of the two ways after each other; an int of four bits is exceeded by
an option's number, by the product of `-E` and by neither.  *Log*: `main()`, a thread
that crashes and one that does not, or crashes too, is all that the terminal and
the lock tell apart; what five polls do that one does not is count, which LogProofs
has for any number.  rdnstun asks for exit status 0, which is kept as 1; the
instance uses 256, the harder case.  *Traceroute*: with two queues answers overtake
each other, with three hops a destination is the last router, one before it, or
none; a lost or repeated probe finds the same state as the first.  A constant that is not a bound of
the instance has its real value (MTUs and the TTL in ChainInit keep the order of
the real ones).

CHECK_DEADLOCK is off where the program ends: `main()` returns, a chain is parsed
once, an array is shifted MaxShift times, a process told to stop has stopped, a trace
is complete.  Responder never stops.

### Fairness

`FairSpec` has weak fairness of `main()`'s steps and of each worker's: threads are
scheduled and their system calls return.  In `MainStep`, waiting in `thrd_join` is
not enabled until the thread has ended, and the worker of the single-threaded
process is `main()`'s own.  `PollReady` has strong fairness: `poll` may be
interrupted or fail again and again, but not for ever while a packet waits.
Nothing is assumed of the environment: no packet need arrive, no signal need
come, a device need not vanish.  `ShutdownStops` does not use the strong part; it
holds because `poll` has a timeout, the mutant that tests the flag only when
`poll` found something breaks it.

`Log!FairSpec` has strong fairness of each thread's steps and of its signal
handler's, and weak fairness of `main()`'s return.  Strong, because others take the
lock, or the key at the prompt, in turn: a thread is not passed over for ever by a
fair lock.  Interrupts, faults, keys and debuggers need not come.  The violated run
has the same fairness: its process hangs because no step of it is left to take.

`Traceroute!Spec` has weak fairness of the workers, and asks of its environment what
any trace needs: that a probe is sent while one is missing and a queue has room,
and that answers are not all lost (strong, since `Lose` may take each one before it
is delivered).  Nothing says that a given worker gets a probe or a given answer
arrives.

## 4. Proofs

LifecycleProofs (for any number of workers, any flags and queue bound):

- assumptions: `NThread`, `MaxQueue` are positive, a process without `-T` has one
  worker;
- `IInv`, the inductive invariant, says what `pc` and `i` mean.  `FdInv`: below,
  at and above `i` queues are open or not, in a way of its own for each value of
  `pc`.  `WorkerInv`: workers exist only once the handler is installed, those
  from `i` on do not in "spawn", those above `i` do not run in "abort", those below `i` do not in "join",
  none does in "fail_tun" and later.  `ChainsInv`: chains are freed at "exit" only.
  The safety properties alone are not inductive: that `fail_tun` may close queue
  `i` depends on no worker being left at it, which depends on the join loop having
  come by;
- proof of the step: one lemma for `main()`, with a case per action, one for
  workers (`WorkerMoves`: none of their steps touches what `main()` owns, and each
  keeps a running worker running unless shutdown is set), one for the environment;
- `Refinement` shows that each step is a step of `Lifetime` or a stutter:
  `TunAlloc` is `Open`, `ThrdCreate` is `Start`, a worker that leaves its loop is
  `Stop`, closing is `Close`, freeing is `Release`.

ChainInitProofs (for any buffer, any width of words, any tokens):

- assumptions: the defaults lie within the limits, tokens are numbers, a word has
  at least one value;
- `Inv` adds to the properties that the options are set once a host exists and
  that the current MTU is not larger than any host's: the first keeps TTLs and
  MTUs of hosts positive, the second makes `MtuNeverGrows` inductive;
- `CountOfRange` is the arithmetic: the 32-bit count of a range is the number of
  its addresses, up and down, if that is less than 2^32.  Hence the condition
  `Countable`, which a range of all addresses (section 5) shows is needed;
- `AddInv` is about any step that adds hosts; single addresses and ranges are
  instances with different reasons for there being room.

LogProofs (for any threads, number of polls and exit status):

- assumptions: the threads are finitely many, with `Main` among them; statuses are
  numbers; there is at least one poll;
- `IInv` adds to the types and to `StatusTells` where a thread may be and how far it
  has counted (`PlaceInv`), that who is in the crash handler has crashed (`CrashInv`),
  and, while one thread at most has, what each place of `wait_debugger` has saved,
  changed and given back (`Kept`).  `NoTrace` alone says nothing of the middle of
  `wait_debugger`, where the terminal is raw and only the saved copy knows better;
- `ThreadForms` reduces the thirteen actions of a thread to three: a fault, a step
  inside the crash handler (`CrashMove`) and one outside of it.  Under a single
  crash a step of the handler is the only one in it, so that its own `Kept` is the
  whole invariant; `main()` returns only when nobody is there (`ReturnsCleanly`);
- `FatalKept` proves the action property `FatalStays` from the same forms.

ChainArrayProofs has no theorems of its own, but the lemmas about the operators of
Inet, Chain and Host that the next four modules share:

- *addresses* of any width.  The provers know no law of powers, so
  `PowerAssumption` (in Inet) states the two that define `2 ^ n` up to the width of an
  address; `PowerSum` and `PowerSplit` follow.  Induction is by least counterexample
  (`LeastElement`), since the library's induction theorems cannot be instantiated.
  `ComparesFirst`: `membcmp`, byte by byte with a mask at the end, compares the first
  n bits (`First`).  `ChecksClear`: the route check, word by word, tells whether the bits
  behind the prefix are 0 (`Clear`), whatever the undefined shift yields.
  `CoversInterval`, `ShiftMoves`: what main()'s arithmetic makes of both;
- *lookup* in any chains.  `NitemIsTerminator`, `FindAmongFirst`, `FindWithinReach` say
  what `HostChain_find` returns; `ArrayFindsInChain`, `ArrayFindsInRoute` and
  `ArrayFindsTarget` what the loop over the array leaves in its variable: the host
  of a matching chain, of the only one, or the destination itself;
- *checksums* over any sums of words.  `FinishVerifies`: two folds are enough for 32
  bits, and a sum and its checksum verify; `UpdateVerifies`: so does the update of
  an echo's checksum, in which the carry goes round;
- *answers* to any packet.  `FakeHostReplies` and `FakeHost6Replies` say what each
  reply function makes of a packet, field by field (`Answers4`, `Answers6`), and
  `ChainsReply4`, `ChainsReply6` what the chain arrays do.

RouteProofs (for bytes and words of any width and any number of shifts): a route the
parser accepts has no bit behind its prefix (`Clear`), and a shift by blocks of a
prefix no longer than its own keeps that, also when it wraps past the last address.
Hence `RouteIsInterval` and `ShiftKeepsRoute`.  The assumptions are those of Inet: a
word is a whole number of bytes.

ResponderProofs (for any chains, packets and left-over bytes):

- assumptions: word sums of addresses lie in 16-bit words (`AddrAssumption`); chain
  arrays are what the options leave, in order and with hosts in their ranges
  (`ConfigsAssumption`); packets are those the kernel delivers: as long as their
  header says, and an echo request with a checksum that verifies
  (`PacketsAssumption`);
- `IInv` ties the turn together: at "reply" the buffer is the packet received, or,
  if that was short, that packet with something left over behind it (`Buffers`); at
  "write" it is the answer to such a buffer by the host that the lookup finds for the
  packet received (`TurnOf`).  None of the properties is inductive alone, since each
  relates the answer to a packet that the answer has overwritten;
- all seven invariants of the run Answers follow.  `ChecksumsVerify`, `PathFollowsRoute`
  and `TargetAnswers` come from `Answers4` and `Answers6` with the lookup's lemmas;
  `FamiliesAgree` is proved for every packet, host and distance, the invariant only
  says that the buffer holds one.

OptionsProofs (for any number of options, chains and duplicates, and memory that may
run out at any call):

- assumptions: the numbers given are integers (`NumbersAssumption`), the chains
  given are ones the parser lets pass (`SpecsAssumption`);
- `IInv` says that an array has at least one more slot than chains, that no two
  slots and no two arrays share a host buffer and the buffers on the heap are exactly
  those of the chains (`Owned`), and that every route is clear behind its prefix;
- `Grows` is the common shape of `-4`, `-6` and `-E`: an array is longer by some
  chains, with a new buffer each.  `Permuted` is that of the sort, which moves buffers
  between slots and loses none;
- `DuplicatesAreSpaced` is about the arguments of a `-E` as they were given.
  `ProductWraps`: the int that their product is cut to is the product itself, or differs
  from it by a multiple of 2^32.  `ShiftWraps`: such a difference moves an IPv4
  address nowhere, since a multiple of 2^32 blocks is one of all addresses.
  `MovedBehind` has that of a chain's route and hosts.  In IPv6 nothing of the kind
  holds, and the property asks for a product that fits (section 5 has what happens
  to the others).

TracerouteProofs (for any workers, queues, hops, chains and destinations):

- assumption: one chain of the array matches the destination, TTLs are 1 to 255
  (`TracerouteAssumption`);
- `IInv`: what waits in a queue is a probe of the trace; a buffer holds the probe it
  received until the answer is written over it; an answer in a buffer or on the wire
  is `Right` for some hop, that is, undamaged, for the client, about a probe of that
  hop, and from the router and of the kind that the path has there.  `ProbeAnswered`
  has that of every probe, from `ChainsReply4`;
- `WorkersRespondAlone` is the refinement of Responder by each worker.  The
  instance `W(k)` has the functions of `inet.c`, `chain.c` and `host.c` once more; the
  first lemmas (`SameReply` at their end) show that they are the same functions.  A
  step of another worker is a stutter, since nothing but the chains is shared: with
  one buffer for all workers (the run's mutant) it would not be;
- `ShowsNothingElse` is the refinement of `PathTrace!Safety`, the safety part of
  `ShowsPath`: an answer delivered is a `Reveal` of its hop, or a stutter if the hop
  was shown before.

What is only model-checked: liveness (`ShutdownStops`, `PacketsServed`, `CrashEnds`,
and that a trace is complete in the end, the rest of `ShowsPath`), which is beyond
this prover.

## 5. Findings

- **NestedRoutes**: of nested routes the most specific one does not decide.
  `HostChainArray_find` (chain.c:314) returns the first match only if the
  destination is a reachable host of that chain, otherwise goes on and overwrites
  host and index.  With the README's own example a `traceroute` to an address
  behind the nested /64 shows the hops of the wider chain.
- **RangeTtl**: a range may go beyond the current TTL (chain.c:260); its last hosts
  answer with a TTL that is 0 or has wrapped.
- **Interval**: rdnstun.c:152-153 gives the interval of `-E` as `<step>*2^<prefix>`; the code
  moves by `step * 2^(32 - prefix)` (inet.c:130), that is, by blocks of the prefix.
  `DuplicatesSpaced` states the interval of the code, the only one under which the
  route of a duplicate is a route (`prefix <= base->prefix`, rdnstun.c:250).
- **DebugShutdown**: `shutdown_rdnstun` logs, and only then sets the flag
  (rdnstun.c:32).  With `-d` the message is written, and formatting its time takes a
  lock of the C library: if the signal interrupted a thread that was formatting a
  time itself, the handler waits for its own thread, and the process hangs instead
  of stopping.  rdnstun.c:158 says of `-d` only that it enables messages.

Also met, without a run of their own:

- the bound of a range, `i + n_addr < MAXTTL` (chain.c:260), is computed in 32 bits: the
  sum wraps for a range of nearly all addresses behind another host, which is then
  accepted and not "too large" (chain.c:90), and a range of 2^32 addresses counts 0,
  is accepted and adds no host (chain.c:259).  `FitsBuffer` and `HostForEachName` are stated,
  and proved, for addresses that can be counted in a word (`Countable`), which is all
  of them but these;
- the product of `-E` is an int (rdnstun.c:256).  Its overflow, from 65539 duplicates at
  the largest step on, is undefined in C; modelled as a wrap, it moves IPv4 duplicates
  to where they belong and misplaces IPv6 ones, which `DuplicatesSpaced` exempts;
- rdnstun.c:144 says packets larger than the MTU are dropped; echo requests are cut to the
  MTU and answered, others answered at any length (host.c:99, 208).
  `AnswerFitsPacket` and `ChecksumsVerify` are about the answers so cut;
- a duplicate moved past the last address may have a host at the null address,
  which ends its chain (chain.c:77); `DuplicatesSpaced` is about where hosts are, not
  about how many of them a search still finds;
- an uncut reply to an echo request with a code has a checksum that is off by it
  (host.c:93-97); `ChecksumsVerify` says by exactly that;
- a SIGINT at the prompt of the crash handler kills the process with the terminal in
  non-canonical mode (log.c:104-111), and two threads that crash at once save each
  other's settings; `NoTrace` is stated for one crash and a process that ends by
  itself.

## 6. Not modelled

- Splitting the text of options and tokens, but for what text that is no number reads
  as.
- The failure of the realloc that shortens a parsed chain's buffer (chain.c:299), which
  the code does not check.
- The order of chains with the same route: `HostChain_compare` gives `memcmp` 8 or 32 bytes
  (chain.c:35), past the end of the network, so that it depends on what lies behind.
  The model leaves it open, as the help text does (rdnstun.c:146-147).
- Packets of another IP version than 4 and 6, which the kernel does not route to the
  device: the loop would treat them like those without chains.
- Packets shorter than their headers, with IP options or in fragments, whose ports
  and types the code takes from the wrong place.
- What the logger prints: messages, colours, the choice of stdout and stderr, error
  texts (`strerror_l`, `Struct_strerror`), `print_backtrace`.  The functions of `log.c` and
  `log.h` that rdnstun never calls (`Logger_set_stream`, parsing a level).
- In Lifecycle the SIGINT handler is one step: it is the process without `-d`, whose
  handler logs nothing.  Log is the one about `-d`.
- SIGSEGV outside of a turn's own code: the default action of a second fault in the
  handler ends the process at once.
- Thread names (`prctl` with a formatted text), the control-flow macros, which are
  expanded where the code uses them, the build files, and `BaseFakeHost_init`, which
  nothing calls.

## 7. Plan

Written in this order: the life cycle first, since its errors are the hardest to
see in a test, then the path of a packet, then the parser and the options that
prepare it, then the crash handler, and the workers together.  What the program
does is modelled with that, and the safety properties of every passing run are proved.  What
is left:

1. that the chains ChainInit accepts are those Options is given (a route without bits
   behind its prefix, hosts before the terminator), so that `SpecsAssumption` is a
   theorem of the parser;
2. that the arrays Options hands to the workers are in `ChainArrays`, so that
   `ConfigsAssumption` is a theorem of both: Options leaves out the TTLs and MTUs of
   hosts, which ChainInit bounds, so that the two have to be put together.

# A TLA+ verification project for TIL

The repository is a notebook ("today I learned"): mostly Markdown notes, with
small programs that were written to learn something. This directory holds TLA+
models of those programs that have behaviour worth checking, the TLC
configurations that check them on small instances, and machine-checked proofs
(TLAPS) that hold for every size. The definitions are translated from the
source; the comments name the lines.

## 1. The parts of the repository

The programs are independent of each other; each runs as its own process. What
interacts is inside a program: threads through shared memory, a server and its
clients through sockets, views and the database.

| component | state it keeps | operations | what is hard | what makes it correct |
|---|---|---|---|---|
| **mutex benchmark** `C/멀티쓰레드 동기화 벤치마크/bench.c:15-70,154-185` | ring `buf/head/tail/count`, `done`, one mutex, two condition variables; locals of the threads | `mutex_producer`, `mutex_consumer`, `run_mutex` | one signal per operation with many sleepers on both conditions, spurious wakeups, shutdown by `done` + broadcast | mutual exclusion, no lost wakeup, no early exit, FIFO, nothing lost, correct sum, termination |
| **lock-free benchmark** `bench.c:72-140,187-222` | `top`, `next`/`val` of the node pool, `pool_idx`, counters, `cas_done` | `cas_push`, `cas_pop`, `pool_alloc`, `cas_producer`, `cas_consumer`, `run_cas` | steps of the retry loops interleave; stale `old`/`next`; ABA; shutdown by a flag that is not read together with the stack | pointers are the stack, no ABA, LIFO, nothing lost or popped twice, counters agree, termination; *that everything is consumed does not hold* |
| **ABA demonstration** `C/cas/aba.c` | a stack of malloc'ed nodes | `push`, `pop`, `pop2`, two threads | the interleaving is steered with `usleep` only | which final stacks are reachable; nodes that get lost |
| **echo server and clients** `linux/socket/` | connection count `cnt`, a semaphore, sockets | accept loop of `main`, `get_message` per connection; `client.c`, `client.py` | `server.c` does not compile | - |
| **network load generator** `linux/nethogs/main.py` | `Stats`, `Throttle`, `stop` event, sockets | internet workers `download_worker`, `upload_worker`; LAN mode `run_duplex`, `server_main`, `client_worker`; `report` | workers race with `stop`; calls that fail in the middle of a request; the throttle averages since its start; a half-closed duplex connection; one acceptor asks one connection after the other | counters are exact, bytes per second bounded, requests are whole, everything stops |
| **Kafka consumer** `kafka/pyfka.py` | position and committed offsets of the group, the partitions given to each process | poll, error handling, commit, close | crash between poll and commit, an error path that raises, commits that arrive after the partition has moved | at-least-once; the committed offset never goes back; every message is polled |
| **log file monitor** `C/logfile_mon.c` | the inotify queue, the event buffer | non-blocking read loop, walk over variable-length events | events that arrive while the loop sleeps, queue overflow | each matching file is reported |
| **AVL tree** `자료구조 구현/트리/AVL/avltree.py` | keys, heights, children | `put`, `balance`, `left_turn`, `right_turn` | the four rotation cases, stored heights | search order, balance, stored heights are true |
| **binary heap** `자료구조 구현/heap.c` | array, count | `heappush`, `heappop`, `heappeak`, `heap_free` | equal children, last element, sentinel values | heap order, pops in ascending order |
| **linked queue** `자료구조 구현/queue/queue.c` | head, tail, count | `append`, `popleft` | uninitialised `next`, stale tail, -1 as data and as "empty" | FIFO |
| **article site** `2022/DB/1006/02_db_workshop_skeleton` | tables of users, articles, comments; sessions | the views of `articles` and `accounts` | a view is several database queries, and those of several requests interleave; rows are saved whole; ownership is checked in one view and not in another | an article's text is its owner's; errors have a cause; passwords, sessions and rows that are gone come back only by a late save |
| **other Django sites** `1006/03_db`, `1017`, `1018` | users; articles and comments; artists and music | login and signup; two REST interfaces with serializers | the same; a PUT saves a row that was read before | a row keeps its parent |
| **measurements** `C/simd`, `linux/rdtsc`, `linux/perf`, `linux/malloc`, `linux/libpq-fe` | - | brightness clamp; loops that are timed | saturation at 255 | scalar and vector version agree |
| **front-end exercises** `2022/javascript`, `vue-cli` | - | DOM handlers | - | - |
| **solutions, notes, data** `2022/*.md`, `algorithm`, json dumps | - | - | - | - |

`PROJECT.json` lists the same parts under `components` with their status, and
under `hazards` every place where the code can go wrong in a way a test would
hardly reach.

## 2. Plan

In this order; the most important behaviour first. "Proof" means a module
`<M>Proofs` with an inductive invariant.

| # | modules | abstract specification | runs | theorems | state |
|---|---|---|---|---|---|
| 1 | `MutexQueue` | `BoundedBuffer` (bounded FIFO) | safety, liveness + refinement | IInv, all safety properties, refinement | done |
| 2 | `CASStack` | `LifoStack` | safety + refinement, liveness, the lost items | IInv, all safety properties, refinement | done |
| 3 | `AvlNode`, `AvlTree` | `KeySet` | every sequence of puts, each call a step | IInv: search order, true heights, balance, one turn, refinement | done |
| 4 | `BinaryHeap` | `PriorityQueue` | every sequence of calls; a violation for equal children | IInv, heap order, pops, refinement | done |
| 5 | `Throttle`, `NetLoad` (LAN mode) | a rate since the start | discrete time; stop, exit and resets at any moment; a violation for the rate of a single second | IInv of both: mean rate, length of a sleep, no use of a closed socket, counters | done |
| 6 | `InternetLoad`, which composes the two internet workers with `report` and `Throttle` | `Throttle` | failures at every call, stop at any moment | the loop implements `Throttle`; uploads are whole; stop is prompt | done |
| 7 | `KafkaConsumer` | at-least-once | errors, crashes, lost and late commits, rebalances | IInv: nothing skipped, offsets grow | done |
| 8 | `DjangoSite`, `AccountViews`, `ArticleViews`, `TodoViews`, `ArticleApi`, `MusicApi`, composed in `Sites` | - | two browsers, interleaved at every query | IInv: what a request that is not late holds is what the tables hold | done |

What is left: the liveness properties are only model-checked.

## 3. The mutex benchmark: `MutexQueue`

State. `buf`, `head`, `tail`, `count`, `done` are the fields of `MutexQueue`
(bench.c:18-25). `lock` is the thread that holds `mq.lock`. `not_full` and
`not_empty` are the threads asleep on the two conditions. `pc`, `i`, `consumed`,
`joined`, `total` are the program counters and locals of the threads. `spurious`
counts spurious wakeups and bounds them.

Steps. Everything shared is touched between lock and unlock, so a critical section
is split only where the code releases the mutex or calls pthread:

| action | code |
|---|---|
| `Lock`, `Reacquire` | `pthread_mutex_lock` (40, 56, 172); the end of `pthread_cond_wait` (42, 58), back at the `while` |
| `SpuriousWakeup` | `pthread_cond_wait` returning without a signal, which the two `while` loops are there for |
| `ProducerWait`, `ProducerPut`, `ProducerUnlock` | 41-42; 43-46 with the signal; 47 and the loop of 38 |
| `ConsumerWait`, `ConsumerExit`, `ConsumerTake`, `ConsumerUnlock` | 57-58; 59-62; 63-65 with the signal; 66-67 |
| `MainJoinProducers` .. `MainReport` | 169-170; 173-174 with the broadcast; 175; 177-182; 184 |

A signal takes *some* sleeper off its condition; the woken thread still has to win
the mutex, and another thread may come first. Consumers do not read `buf`; the
code only moves `head`.

Properties (every one checked by TLC and, except termination, proved):

- `ItemsHaveAwakeConsumers`, `SlotsHaveAwakeProducers`: no lost wakeup. While a
  thread sleeps, there are at least as many awake threads of its kind as there
  are items (slots) to fetch. That is why `pthread_cond_signal` is enough, although
  a signal may wake a thread that finds nothing and a producer leaves for good
  after its last item.
- `ExitOnlyWhenDrained`: a consumer gives up only when nothing can come any more.
- `TotalIsComplete`: the sum that is printed (8000000 in strace_result.md:4) is
  always complete.
- `IInv`: the inductive invariant. Among its conjuncts are `LockHeldInside` (the
  mutex is held by exactly the thread that is inside) and `Conservation` (nothing
  is lost or taken twice).
- `ImplementsFifo`: the ring, read from `head`, is the bounded FIFO of
  `BoundedBuffer`.
- `Termination`: every run ends.

## 4. The lock-free benchmark: `CASStack`

State. `top`, `push_count`, `pop_count` are the fields of `CASStack`; `next` and
`val` the fields of the pool's nodes; `pool_idx` and `cas_done` the globals. `node`,
`old`, `nxt`, `out`, `consumed`, `i`, `joined`, `total` are locals of the threads.
`stack` is a history variable: the nodes that were pushed and not popped.

Steps. Every access to shared memory is a step of its own: `PoolAlloc` (93-96 and
100), `PushLoad` (103-104), `PushCas` (105), `PushCount` (106); `PopLoad` (112-113),
`PopNext` (114), `PopCas` (115), `PopCount` (116-118), `CheckDone` (135-137).
`CasFails` is a compare-exchange that fails because `top` has changed, or, since it
is the weak one, for no reason (`MaxSpurious` bounds that). All operations of
bench.c are `seq_cst`, so interleaving is the whole of the concurrency. A
producer's two writes to its own node (100 and 104) are part of the step before
them: `PrivateNodes` shows that nobody can see the node then.

Properties:

- `ChainIsStack`, a conjunct of `IInv`: `top` and the `next` fields lead through exactly the nodes that
  were pushed and not popped, in order, each once.
- `NoAba`: a consumer whose compare-exchange would succeed holds the true
  successor of the top node. The mutant that hands out popped nodes again, which
  is what malloc and free did before (mutex_cas_summary.md:67-93), violates it.
- `PrivateNodes`, another one: a node that is being filled is seen by its producer only.
- `ReportAddsUp`: the counters that are printed agree with each other and with the
  stack. `Conservation`, a conjunct of `IInv`, is what the two pops of one node of
  mutex_cas_summary.md:44-63 broke.
- `ImplementsLifo`: refinement of `LifoStack`; a successful compare-exchange is the
  whole push or pop.
- `Termination`.
- `EverythingConsumed` does **not** hold (run `cas_lost`). A consumer finds the
  stack empty; the last producer pushes and returns; main joins it and sets
  `cas_done`; the consumer loads `cas_done`, finds it set and leaves. The item stays
  on the stack, and the sum is smaller than `push`. The mutex half does not have
  this flaw, because there `count` and `done` are read in one critical section
  (`ExitOnlyWhenDrained`). `ReportAddsUp` says what is still true: the sum is what
  was popped, and the rest is on the stack.

## 5. The AVL tree: `AvlNode`, `AvlTree`

`AvlNode` holds the nodes, a function from the keys of those that exist to `height`,
`left` and `right`, and what is done to them: `height`, `different`, `left_turn`,
`right_turn`, `balance` (avltree.py:13-14 and 32-60). Each gives the nodes as they are
afterwards; `BalancedTop` is the node that `balance` returns. `AvlTree` adds `put` and
the calls of `put_item` (16-29), which are steps: `Descend` calls `put_item` for a
child, `NewNode` and `SameKey` end the last call, and `Return` hangs up what a call has
returned, measures the node and balances it. `path` is the stack of the calls that
wait. So the model shows the half-built trees that exist inside a put, where a node
still points to a child that has been turned away.

- `SearchOrder`, `HeightsTrue`, `Balanced`: what makes it an AVL tree, between two
  puts.
- `OneTurnPerPut`: `balance` is called on the whole way back, but turns at one node
  at most.
- `ImplementsSet`: the tree is a set of keys that only grows (`KeySet`); a put adds
  its key when it makes the node, and everything else in it is a stutter.

## 6. The binary heap: `BinaryHeap`

State. `arr` and `cnt` of `struct Heap`; `pc` and `at` are the loop that the caller
is in and its index; `res` is what `heappop` returns. There is one caller; every
turn of a loop is a step, so that nothing is recursive. A slot holds the data of
its node, `NULL`, or `Wild`: `heap_init` compares where it should assign (heap.c:25),
so that the slots start with what malloc returned. Following `Wild`, or `NULL`, ends
in `"crashed"`, or, where `heappeak` does it, in `"astray"`; what comes then is undefined
in C. `MAX` is a constant of the model, and of nothing else: heap.c uses it and defines
it nowhere.

`heappop` compares its children through `int` variables, although data are `long`,
with `__INT_MAX__` for a child that is not there or not smaller; `Candidate` and
`ToInt` translate that. `heappush` does not look whether a slot is left: that callers leave room is a guard,
and another one, with `EqualAllowed = FALSE`, that they push no value that is in the
heap. `heappeak` looks at nothing before it follows `arr[1]`; `IInv` says that this goes
astray only when `heapcnt` is 0.

- `IInv`: `HeapOrder` between calls, the order within the loops, around the
  node that moves, and that the slots after the data are clear.
- `CrashOnlyIfWild`: the code makes no bad pointer of its own, and `heappop` follows no
  `NULL`. (`heap_free` of a heap
  that is more than half full is another matter: it looks for children after the end
  of the array, and the model goes to `"overrun"`.)
- `CallsReturn`: every call that does not crash returns.
- `ImplementsPriorityQueue`: refinement of `PriorityQueue`, `heappeak` included.
- `PopsSmallest` does **not** hold when values may be equal (run `heap_equal`). If
  both children are smaller than the node on its way down and equal to each other,
  neither `left < right` nor `left > right` holds, and `heappop` leaves its loop. The
  larger node stays at the root and is returned before the smaller ones.

## 7. The load generator

`Throttle` is one worker and its throttle (main.py:45-59), with discrete time:
`SECOND` ticks are a second, a transfer takes as long as it likes, and `time.sleep`
may return late. `WaitUnlimited`, `WaitNot` and `WaitSleep` are the three ways through
`wait`; `CaughtUp` is the first tick that the sleep may end at. The floating point of
`total / bps` is exact here. A call may also raise when a part of its chunk has moved
(`Broken`); the worker then pauses for a second (`Retry`). `sent` counts what the calls
that returned have moved, `lost` what the others have.

- `MeanRateBounded`: since the start, the calls that returned have moved no more than
  `bps` bytes per second and one chunk, because the chunk is moved before `wait` is
  called. What a call moved that raised, `wait` is never told: it comes on top. But it is
  less than a chunk for every second that has begun, since a pause follows.
- `SleepBounded`: no sleep is longer than a chunk takes. A thread that sleeps does not
  look at `stop`.
- `SecondBounded` does **not** hold (run `throttle_second`): the class says that no
  more than `bps` bytes move in a second (main.py:46), but a worker that lost time in
  a slow transfer makes it up at full speed.

`NetLoad` is the LAN mode, a server process and a client process (main.py:107-175,
with `report` and `main` as far as they set `stop` and end the process). An *end* is a
pair of a side and a connection. `snd` and `rcv` are the threads `sock_sender` and
`sock_receiver` of an end, `acc` is the thread of `server_main`, `worker` the threads of
`client_worker`; `run_duplex` is what `Started` and `CloseDuplex` say. `sendall` hands
the payload to the kernel in `CHUNK` pieces; `wire` is what is on its way from an end.
`lead` stands for both `Stats`: their sums grow without bound, so only the difference
between what one process has sent and the other has received is kept, modulo
`Modulus`. `Throttle.wait` only delays a thread, and is no step here.

TCP is modelled by what the program relies on: an ordered stream with a limited
buffer; end of file after a close; a reset when data stand unread at the close or
come later, or when the listening socket is closed before `accept`; and a reset by the
network at any moment (`NetReset`, at most `MaxResets`). Peers run this program. A host
that loses its power, or a stranger that connects and says nothing, is not modelled:
`recv(1)` at main.py:161 has no timeout and would wait for either.

- `NoUseAfterClose`: no thread uses a socket that `run_duplex` has closed; the number
  might be another connection's by then.
- `CountersAgree`: what one process has counted as sent, the other has counted as
  received, or it is under way, as long as no connection breaks and both run.
- `HangsUp`: when one process has gone, the other closes all its ends.
- `ServedInTurn`: a worker that has named its direction is served, unless the server
  is stopped or the network resets a connection. A reset while the acceptor reads the
  mode ends the acceptor (`AcceptorDies`): the exception is not caught, and the process
  goes on without it.
- `SendersGetOn`: no sender waits for ever for a reader that is not there. Both ends
  taking the same direction would do that.

`InternetLoad` is a worker of the internet modes and the main thread (main.py:64-104
and 188-237). `stage` is where the worker is in its loop; `Read`, `Send` and `Wait` are
the steps of `Throttle`, which the module extends, everything else lies between two
chunks. Every call that reaches the network is a step: of a download the request with
its connection (`Request`), the head of the response (`Head`), `Read`; of an upload
`Announce`, `Send`, `Response` and `Reply`. It may take any time, return less than asked for
(`Read`), raise an `OSError` (`Fails`, with the pause of `stop.wait(1)`) or an
`HTTPException`, which is no `OSError` and ends the thread (`Dies`); before it raises, a
part of the chunk may have moved (`PartOf`). The main thread
sleeps, reports, sets `stop` after `duration` or on Ctrl+C, and its return ends the
worker, a daemon, wherever it is (`Exit`).

- `UploadsAreWhole`: an upload has at most the length it has announced, and waits for
  a response only when it has that length.
- `StopIsPrompt`: after `stop` at most two calls to the network end in a download, the
  request and its head, since nothing looks at `stop` between them; and three in an
  upload whose last piece is under way, the head of the response and the reply being the
  others, because `left == 0` and not `stop` decides about them.
- `ImplementsThrottle`: what the loop does to its throttle, over all its requests,
  failures and pauses, is what `Throttle` allows. `MeanRateBounded` and `SleepBounded` are checked
  here, on the whole worker.

## 8. The Kafka consumer: `KafkaConsumer`

Several processes run pyfka.py by hand with the same `group.id`. `pc` is the place in
`consume_messages`: `Subscribe` (29), `PollMessage` (33-38), `Commit` (45), `Close`
(49), and `PollError` (38-43): `cnt` is assigned in the function, so `cnt += 1` raises
and the first error ends the process. `next` and `stored` are what the client library
keeps: the offset that the next poll returns, and the one that `commit()` sends.
`commit()` is asynchronous: `flight` holds what is on its way, and `CommitArrives`
takes it to the broker, which takes it from a member of the present generation, or
loses it. `Rebalance` gives all partitions out anew once every member waits in poll.
A process may crash at any point, be interrupted, or be dropped by the broker when it
polls too late; `polled` is a history variable.

- `AtLeastOnce`: everything below the committed offset has been polled.
- `CommittedOnlyGrows`: a late commit never takes the offset back.
- `EveryMessagePolled`: liveness; an error may end one process and the others go on
  with its partitions, but when all have ended nobody polls.

## 9. The Django sites: `DjangoSite`, the views, `Sites`

`DjangoSite` is what the views run on. `rows` are the tables, a foreign key being the
`ref` of a row; `used` the ids handed out; `session` what a browser's session says;
`req` the request a browser has in progress, with what its view has read so far. The
settings leave out `ATOMIC_REQUESTS`, so every query of a view is a transaction and a
step, and the development server serves every request in a thread. A session is
written by nobody but its browser's request, so a write to it is a step only where the
tables have been written before: after the row of line 84 of accounts/views.py another
request may come before the session gets its hash in line 85 (`SaveSession`,
`ChangePassword`). `Insert`, `Save`
and `Delete` are Django's: `save()` updates all columns and inserts when the row is
gone; `Without` cascades. What the views load with one query they keep as it was: that
is where requests get into each other's way. `Commit` checks foreign keys and unique
names as SQLite does, and `Refused` is the `IntegrityError` when they would not hold.

`AccountViews` and `ArticleViews` are the views of the workshop site, `TodoViews` those
of the todo site, `ArticleApi` and `MusicApi` the REST interfaces. Their replies, with the
lists and counts of the serializers, change nothing and are not told apart. `Sites` composes them: a behaviour serves one of the four sites.
Texts are left out; of an article's row the model keeps its owner and who wrote it
last.

- `OwnersWroteTheirArticles`: `update` checks the owner of the row it has read, and
  that holds to the end. (`delete` and `comment_delete` ask only whether somebody is
  logged in. articles/detail.html:13-19 shows the DELETE form of an article to its owner
  only; that is what the page offers, and the view does not check it.)
- `ErrorsHaveACause`: the database refuses a view's statement only when another
  request wrote after this one began; a single user never sees it.
- `PasswordsMoveOn`: a password changes by `change_password` only, except that the
  account form, which saves the whole row, may bring back the one it had read.
- `StaysLoggedIn`: when `login`, `signup` and `change_password` redirect, the session names
  the user and the password that this request checked or stored. Unless another request
  wrote since, that is the row's password and the browser is logged in; a second change
  of password between the row and the session leaves it out.
- `IdsComeBackLate`: a deleted row comes back only by such a late save.
- `RowsKeepTheirParent`: no save, however late, moves an article to another user, or a
  comment or music to another parent. Ids that are used again would break it: the late
  save would find a row that has nothing to do with the one it read.

## 10. Runs and bounds

| run | instance | shows |
|---|---|---|
| `mutex` | 3 producers, 2 consumers, 2 items each, 2 slots, 1 spurious wakeup | the invariants, `IInv`, `Termination`, `ImplementsFifo` |
| `cas_safety` | 2 producers, 2 consumers, 2 items each, 5 nodes; consumers symmetric | `NoAba`, `ReportAddsUp`, `IInv`, `ImplementsLifo` |
| `cas_live` | 2 producers, 2 consumers, 1 item each, 1 spurious failure | `Termination` |
| `cas_lost` | 1 producer, 1 consumer, 1 item | violation: the item left behind |
| `avl` | the keys 1 .. 9, in every order | the invariants, `ImplementsSet` |
| `heap` | 7 slots, 7 different values, memory with any words | `IInv`, `CrashOnlyIfWild`, `CallsReturn`, `ImplementsPriorityQueue` |
| `heap_equal` | 4 slots, 3 values that may be equal | violation: a larger value first |
| `throttle_second` | no limit, 3 and 4 bytes per second, chunks of up to 3, half-second ticks | violation: too much in one second |
| `netload` | 2 connections `send`, or 1 connection `recv` or `both`, the last with a network reset; payloads of 2 pieces, buffers of 1 | `NoUseAfterClose`, `CountersAgree`, `HangsUp`, `ServedInTurn`, `SendersGetOn` |
| `internet` | download and upload; no limit, 3 and 4 bytes per second; chunks of up to 3, a body of 4, half-second ticks, 5 ticks, at most 4 bytes in a second; a program that ends after a second or by Ctrl+C | `MeanRateBounded`, `SleepBounded`, `UploadsAreWhole`, `StopIsPrompt`, `ImplementsThrottle` |
| `kafka` | 2 processes, 2 partitions with up to 2 and 1 messages, 1 commit of a process on its way, 1 failure | `AtLeastOnce`, `CommittedOnlyGrows`, `EveryMessagePolled` |
| `sites` | each of the sites; 2 browsers, symmetric; 2 user names, 1 article, 2 rows of the others, 3 password hashes | the six properties of section 9 |

Why that is enough. Three producers on two slots are the least with which one producer
sleeps while another has already left for good; six items in two slots wrap the
ring three times. On the stack two consumers and two items of each producer let a
consumer hold a stale `old` and `next` while `top` moves away and would come back if
nodes were reused; five nodes leave one that is never used. Nine keys reach AVL
trees of height four, where a turn happens two levels above the new key and moves
subtrees that are not empty. Seven nodes fill three levels of the heap. Chunks of
three at rates of three and four per second make sleeps of a whole and of a broken
number of ticks, and a body of four is a chunk and a shorter piece. Two connections
share the acceptor, one that goes both ways has four threads at its two ends, and a
payload of two pieces can be cut by a reset or read by two calls of `recv`. Two
processes are enough for a partition to change hands while a commit of its old owner
is on its way, and two messages for that commit to be older than the new owner's. Two
browsers are enough for one request to write between two queries of another; with
three password hashes two users sign up and one changes the password, or one changes
it twice.

Bounds of the models: `MaxSpurious` (spurious wakeups and failures), `MaxTime` (the
clock of `Throttle`), `LinkSpeed` (what the link moves in a second), `MaxResets`,
`Modulus`, `Capacity` (what the kernels hold of a connection), `MaxOffset`,
`MaxInFlight`, `MaxFailures`, `MaxRows`, `MaxHashes`, and the sizes. `MCNext` of
`MCNetLoad` leaves out combinations that only make the state space larger: a second
connection of a client that receives, and network resets for clients that go one way;
that of `MCKafkaConsumer` gives the second partition one message. The proofs need none
of these restrictions. Symmetry is used in `cas_safety` and `sites`, where no liveness
is checked, over the consumers and the browsers, which the models never compare or
order.

Deadlock is checked except where the system stops: the heap after `heap_free` or a crash, the
throttle at the end of its bounded clock, the internet worker after the program's end,
the Kafka group when nobody starts a process, and a site whose bounded ids and hashes
are used up. The benchmarks and the LAN mode stutter once the processes have ended.

Fairness. In the benchmarks, weak fairness of each thread as a whole, which is what
the scheduler gives a thread that stays runnable. No thread is promised the mutex
while others keep taking it, no compare-exchange is promised to succeed, and
spurious wakeups and failures need not happen. Both programs still end, because the
number of items is finite: a compare-exchange only fails when another one succeeded
or when it is one of the finitely many spurious failures. In the heap, a call that
has begun goes on. In the LAN mode, weak fairness of each thread, of `main` once
`stop` is set, and of a reset that answers stray data; nobody has to set `stop`, and
network resets need not happen. In the Kafka group, weak fairness of each process, of
its commits on their way and of the rebalance; nobody has to start a process or to
produce, and the failures are finitely many.

Each property has a mutant in `PROJECT.json`: a faulty variant of one definition (no
signal, one signal for the broadcast, leaving on `done` alone, a node that is
reused, a turn that loses a subtree, a time that is not counted, a socket that is
closed after the first of its threads, an offset that skips a message, ids that are
given twice, a cascade that leaves rows behind, ...) under which the run violates it.
The variants stand next to the definitions and are used by no specification.

## 11. Proofs

**Benchmarks.** `MutexQueueProofs` and `CASStackProofs` prove, for all values of the
constants that satisfy `QueueAssumption` and `StackAssumption` (at least one producer,
item and slot; finitely many consumers, at least one for the queue; a node of the
pool for every item; the threads are different), that

1. `IInv` is inductive: `InitIInv`, `StepIInv`, `Invariance`;
2. every safety invariant of the runs holds, and mutual exclusion, conservation and
   the types; `NoLostWakeup` and `NoLostSlot` are the two halves of "one signal for each
   operation is enough";
3. the queue implements the FIFO (`QueueIsFifo`) and the stack the LIFO
   (`StackIsLifo`).

The properties are not inductive as they stand. `IInv` adds, for the queue: sleepers
are inside `pthread_cond_wait`; a producer has left exactly when its items are put;
`done` is set exactly after the producers have returned; the ring's `tail` is
`count` slots after its `head`; `total` is what the joined consumers counted. For the
stack: `pool_idx` is the number of items begun, so the node it hands out is unused
(`PoolCount`); the locals of a thread inside `cas_push` or `cas_pop` still agree with
the node they came from (`LocalsCurrent`), because no step writes to a node that
another thread can see. `NoAba` follows from that and `ChainIsStack`.

Sums are cardinalities: `SumOf(f)` counts the pairs of an argument and a number below
its value, so "a value grows by one" is "the set gets one element more", and
neither recursion nor induction is needed. The groups of conjuncts of `IInv` are
proved one after the other, each by a step per action.

**AVL tree.** `AvlTreeProofs` proves all five properties of the run, for every set of
integers as keys and trees of any height. What `put_item` does to a whole tree would
need an induction over trees; with its calls as steps, the invariant takes the place
of it. `IInv` speaks of the tree that the put is building (`Whole`: while a put
returns, the result of the last call belongs under the last node of the path) and has
three parts. `Shape`: there are functions `sub` (the keys under a node) and `par` (its
parent) that agree with the pointers, and the keys are in order. `OnWay`: the path
leads from the root towards the key. `Heights`: every node is balanced and has its true
height, except the last of the path, which knows an older height `h` of its child
(`Pending`); the child may be higher by one, but then nothing has turned yet and one
side of it is higher, so that a turn brings back exactly `h` and nothing turns again.
That last clause is what makes the rest inductive: without it a node could differ by
two and have a child that leans to neither side, which no turn of the code gives the
height it had. A turn changes few nodes (`T` in `Rebuilt`), and the four cases of
`balance` come to one lemma (`Balance`). Between two puts the sets `Below` of the
properties follow from `sub`: the set of nodes whose keys are among those of `c` is
closed, and of the nodes with keys outside a closed set the lowest would have a lower
one under it (`NatMin`).

**Heap.** `BinaryHeapProofs` proves that `IInv` is inductive for every `MAX` and every
set of data, memory with any words included, under the assumption `Callers`: nobody
pushes a value twice, and the data are within the range of `int`. Both are needed:
`heap_equal` shows the first, and `ToInt` changes values outside that range. The
invariant says where the order may be broken while a node moves (`SiftOrder`), and
`HeapOrder` follows. That a pop returns the smallest node (`PopReturnsSmallest`) would
need an induction along the path from a slot to the root; instead the proof takes the
least slot with a node smaller than the root's (`NatMin`: the order of the naturals is
well-founded), whose parent would then be in disorder with it. `HeapIsPriorityQueue`
concludes that the array implements `PriorityQueue`, every turn of a sift loop being a
stutter. `CrashNeedsWild` needs no assumption about the callers: only words that malloc
left in the array can make `heappop` follow a pointer to nowhere.

**Throttle.** `InternetLoadProofs` begins with `Throttle` and proves `MeanRateBounded` and `SleepBounded` for every
rate, chunk, clock and link. `IInv` adds that a worker at a transfer is within its
rate, that `total` is what was moved, and that a sleep lasts until the rate has
caught up; the lemma `RoundUp` says that the rounded quotient is the first tick that
is enough.

**Internet workers.** The same module proves that the loop implements `Throttle`
(`WorkerThrottles`), step by step, so the theorems about the throttle hold of the worker
(`WorkerRate`); `LostSoFar` is what the pauses do to the bytes of the calls that raise.
`LoopInv` adds to `UploadsAreWhole` and `StopIsPrompt` that what is sent
and what is left make the whole at every stage of the loop (`WholeSoFar`), and at which
stages how many calls can have outlasted `stop` (`LateSoFar`).

**LAN mode.** `NetLoadProofs` proves `NoUseAfterClose` for any number of connections. It
is not inductive: that a socket is open when its threads start depends on what came
before, so `IInv` follows a connection from `connect` to the first byte (`NotStarted`)
and from the backlog to the acceptor (`AskedOnce`: a connection that is still to be
asked is open and stands in one place only).

`CountersMatch` proves `CountersAgree`, for any number of connections, payload, buffers
and modulus. The sum over the connections is the size of a set of pairs (`Total`), so
`TotalChange` can say without induction that a sum changes by as much as one of its
terms; `ModInside` and `ModShift` are the arithmetic under the modulus. With `Amounts`
(how much there may be in each place) the property is inductive: every step moves
pieces from one place of the account to another (`AgreeMoves`), changes nothing in it
(`AgreeSame`), or ends what the property promises, since a close with unread data
resets the connection (`CloseAllWire`).

**Kafka group.** `KafkaConsumerProofs` proves `AtLeastOnce` and `CommittedOnlyGrows` for
every number of processes, partitions, messages, failures and commits on their way.
The invariant says that everything that may become the committed offset (stored
offsets, requests on their way) has been polled up to it (`PolledBelow`), that in a
generation a partition has one process that polls from it or has commits for it on
their way (`OneOwner`), and that the offsets of the present generation ascend from the
committed one to the next to poll (`Ascending`).

**Sites.** `SitesProofs` proves all six properties of the run `sites`, for any number of
browsers, users, rows, passwords and steps. Its invariant says of every request that is
not `late` (no other request has written since it began) that what it holds is what the
tables hold (`Current`): the user it read, the row it will save, the name it found free,
the articles it will delete. Of a late request the ids it knows are certain (`Sound`), and
that the foreign key it holds is the row's, if the row is there: it changes with no save
(`KeysRight`), and two requests that hold the row of one id hold the same key
(`KeysAgree`), so that it does not matter which of them brings the row back. There are many views but three kinds of steps: those that
write nothing (`ReadStep`), those that put a row into a table (`WriteStep`) and those
that delete rows with a cascade (`DeleteStep`). For each kind it is proved once that the
tables stay legal, that the other requests are late or not concerned, and that the
action properties hold of the step (`Good`); a view's step is then brought to its kind.

Only model-checked: the liveness properties (`Termination`, `CallsReturn`, `HangsUp`,
`ServedInTurn`, `SendersGetOn`, `EveryMessagePolled`), for which the prover has no
rules; and the violations.

## 12. What is not modelled

- Of bench.c: the command line (224-245), the clock, the text of the reports, and
  failures of `pthread_create`, which the code ignores. Of main.py: the command line
  and the output. Of heap.c: `main`, which is
  empty. Of the sites: Django's admin pages, the templates, the texts of forms.
- The order of memory operations below `seq_cst`: bench.c uses none.
- The echo server: server.c does not compile (line 65 assigns the result of `find`,
  which is declared `void` and defined nowhere), so there is no behaviour to model. Its
  clients are straight lines of calls.
- The linked queue: it reads fields that were never set and memory that was freed
  (queue.c:44), so the code does not decide what it does. The ABA demonstration: it
  shows a known failure, whose course depends on the addresses malloc returns. The ring
  in shared memory: fragments in a note. The log file monitor: it keeps no state.
- Exercises, notes, JSON dumps and front-end pages (no state of their own, or state of
  a single handler); timing programs, the brightness filter among them (their result is
  a duration); the Django framework, Kafka, PostgreSQL and pthread themselves (modelled
  only by what the code relies on).

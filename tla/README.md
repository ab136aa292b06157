# RDMA-General: TLA+ models, checks and proofs

This directory models the RDMA benchmarks and services of the repository, the
library they share and the data path of the libmlx5 driver that ships with
them. It holds TLA+ modules, TLC configurations and TLAPS proofs.
`PROJECT.json` maps every definition to the lines it stands for.

## 1. The system

| Part | State | Operations | What is hard about it |
|---|---|---|---|
| Send loop (most benchmarks) | send queue, completion queue, `nb_tx`, postlist | fill in a WR, poll, post | the poll waits for a signal that must be posted already; the queue must never fill |
| MICA store (`mica/`) | index, circular log, counters | populate, batch of GETs and PUTs | a batch is looked up before its first operation runs; the log wraps |
| HERD (`herd/`) | request region, window pointers of both sides, RECV and send queues | client loop, worker pass, NIC | the window pointers are never exchanged; answers carry no acknowledgement |
| libhrd, libhrd_cpp | registry, QP states, SHM segments | create, publish, get, connect, ready, wait | every thread waits for others in its own order |
| Sequencers (`ss-`, `ws-`, `atomics-`) | shared counter, windows, RECV buffers | fetch-and-add, answer, decode | answers overtake each other around a carry |
| libmlx5 | SQ, RQ, SRQ, CQ rings, resource table, locks | post, poll, reset, destroy, resize | the NIC shares the rings, indices wrap, two threads and the NIC relink one list |

They stack: a benchmark sets itself up through libhrd, then runs its send loop
on verbs queues, which the driver implements. HERD's workers hand batches to
one MICA instance each.

## 2. Modules

| Module | Models | Role |
|---|---|---|
| `SendQueue` | a send queue with its completions | operators used by `SelectiveSignal` and `Herd` |
| `SelectiveSignal` | the send loops that signal selectively, in three variants | state machine |
| `SelectiveSignalProofs` | | theorems |
| `Mica` | `mica.c` | state machine |
| `LossyStore` | what a lossy cache promises | abstract specification |
| `MicaStore` | `Mica` with a history variable | refinement of `LossyStore` |
| `MicaProofs` | | theorems |
| `Herd` | `client.c`, `worker.c` of HERD | state machine |
| `WindowRpc` | a windowed, exactly-once RPC service | abstract specification of `Herd` |
| `Handshake` | the calls of libhrd as actions | state machine, parameterised by programs |
| `Benchmarks` | the set-up of every benchmark, as such programs | data for `Handshake` |
| `Discipline` | what a program's text must satisfy | hypothesis of the proofs, evaluated by TLC |
| `HandshakeProofs` | | theorems |
| `Verbs` | FIFO verbs queues | abstract specification of `Mlx5` |
| `Mlx5` | `cq.c`, `qp.c`, `srq.c` and parts of `verbs.c` | state machine |
| `SsSequencer` | client and server of `ss-sequencer` | state machine |
| `MC*` | | instances for TLC |

Correspondence with the code:

* **SelectiveSignal.** `FillWr` is one iteration of the loop over `w_i`, with
  its `hrd_poll_cq`; `PostList` is `ibv_post_send` and the step to the next
  queue pair; `NicExecute` is the NIC (external). The variants: poll just
  before the next signaled WR (`now`: rw-tput-sender), one WR earlier
  (`ahead`: ud-receiver, ss-echo, HERD), or for the last WR of the previous
  list (`last`: rw-postlist-latency). rw-allsig has none of them: it posts a
  window WR by WR, signals the last one and polls at once. `nb_tx` is kept modulo `UNSIG_BATCH`,
  which is all the code reads of it, with a flag for `nb_tx > 0`.
* **Mica.** `StartBatch` is the two lookup loops of `mica_batch_op`,
  `ExecuteOp` one iteration of the loop that follows. The log is measured in
  units; an entry has one unit for its key and the rest for its value, so a
  torn or overwritten entry can be told from a whole one. Unsigned
  differences are taken modulo `Word`.
* **Herd.** One action per step of the client loop (refill, collect, send),
  one per polled slot of a worker, one for the end of its pass. The NIC and
  the fabric deliver in order per queue pair and lose nothing; a datagram
  without RECV is dropped.
* **Handshake.** A thread is the sequence of its libhrd calls up to its first
  transfer. `dead` holds the threads in which an `assert` has failed;
  `abort()` stops every thread of their process (`Aborted`).
* **Mlx5.** Posts are one action (they hold the queue's lock throughout).
  Polls, cleans, destroys and resizes hold a CQ's lock over several actions,
  between which posts, other CQs and the NIC run: a clean is a scan for the
  producer index and a sweep, a resize is the command, after which the NIC
  writes to the new ring, and the copy of the old one. CQEs carry the owner bit of their lap; SRQ WQEs
  carry links. `sends`, `recvs` and the `id` of a CQE are history that the
  driver never reads. The NIC and kernel commands are external.
* **SsSequencer.** `Serve` is one pass of the server, `SendRequests` and
  `Count` the two halves of the client's loop. The carry out of the low 32
  bits happens at `Half`.

Definitions commented "Faulty" are not used by any specification. They are
plausible slips in the code next to them, and each makes the property listed
with it in `PROJECT.json` fail.

## 3. What TLC checks

| Run | Distinct states | Properties |
|---|---|---|
| `signal` | 14,598 | `PollFindsSignal`, `PostFits`, `UnackedBound`, `OneSignalOutstanding`, `SenderProgress` |
| `mica` | 189,779 | `TagIsFound`, `LiveEntriesIntact`, `AnswersValidUnlessLapped`, `ImplementsStore`, `LossesAccounted` |
| `herd_workers` | 9,641 | `SlotsNotOverwritten`, `WindowsAgree`, `ImplementsRpc`, `WindowReturns` |
| `herd_ports` | 182,480 | `RecvsSuffice`, `PortMatches`, `QueuesFit` |
| `handshake` | 17,237 | `SendersConnected`, `RequestsKept`, `HandshakeCompletes` |
| `mlx5` | 513,247 | `SendsIntact`, `SrqLinked`, `OwnershipExact`, `CompletionsCurrent`, `NoLockCycle`, `ImplementsVerbs` |

Every run but `herd_ports`, which shares its module with `herd_workers`, also
checks its module's `TypeOK`.

**Bounds.**

* `signal`: `UNSIG_BATCH = 4`, two queue pairs. `nb_tx` is cyclic, so runs of
  any length are covered. Lists of 1 to 4 WRs (1 to 3 when polling ahead)
  cross the cycle at every position.
* `mica`: a log of 8 units with entries of 3, two buckets of two slots, two
  keys with the same tag, batches of up to 3 out of 4 operations. The bucket
  overflows and the head wraps once. `VSpace = 16` ends the run before the
  second lap, where the code goes wrong (`mica_lap`).
* `herd_workers` and `herd_ports`: all counters are cyclic, so runs of any
  length are covered. One run has two workers to choose from, the other two
  ports and postlists of 2. Liveness is checked in the smaller one.
* `handshake`: two or three threads per role; programs are finite. HERD also
  runs with two workers in one process. A worker that maps the request region
  before the master has made it fails its assert; nothing in the code orders
  the two, only the pause in `run-servers.sh`. `HandshakeCompletes` therefore
  exempts that process, and says that it holds up no other.
* `mlx5`: rings of 2 or 4 entries, indices modulo 8 that start at 0 or two
  short of their wrap, ten scenarios. Each scenario fixes which CQs and
  which SRQ the QPs use and how many posts and control calls may happen.

**Fairness.** Weak fairness only, of each thread and of the NIC: a thread that
can take a step is scheduled, a posted WR is executed, a packet arrives. The
threads are busy loops pinned to cores, so this is what the programs rely on.
Fairness of arrival in HERD is its assumption of a lossless fabric.

**Deadlock** is checked except in `mica` (it stops at its bound) and
`handshake` (its programs end).

## 4. Where code and comments disagree

Each of these runs ends in a counterexample; `PROJECT.json` quotes the lines.

| Run | What happens |
|---|---|
| `signal_ahead_full` | ud-receiver and ss-echo admit a postlist of `UNSIG_BATCH` WRs, and then poll for a WR that is still in the unposted list |
| `mica_stale` | a PUT of the same batch overwrites the log entry that an earlier GET's `val_ptr` points at |
| `mica_lap` | the end-of-log test uses the virtual head, so it never holds again after the first lap |
| `handshake_allsig` | all server threads of rw-allsig ask for SHM key 24; the second ends the process |
| `mlx5_mixed` | a flush error of a QP with its own RQ is charged to the SRQ that the same poll saw before |
| `ss_sequencer` | the client reads a whole counter from the cacheline of its index in the poll, not from the one of the RECV. The run ends there; that an immediate is added to the high half of a later batch (`client.c:185`) is a second way to break the property, which it does not show |

`HandshakeAllsig.cfg` with `Programs <- XrcPrograms` or `AtomicsPrograms`
shows two more set-ups that fail an assert.

Two smaller observations without a run. The comment at `mica.c:99` says a tag
is found "because the used slots are at the beginning of the 8-slot array";
the scan has no `break`, so slots fill from the end and the *free* ones are at
the beginning. The conclusion holds all the same (`TagIsFound`, proved as
`ScanSound`). And `num_get_op`, "Number of GET requests executed"
(`mica.h:88`), counts successful GETs only.

## 5. What is proved

TLAPS proves the following for all values of the constants.

**SelectiveSignalProofs.** `TypeCorrect`, `PollSafe`, `PostSafe`, `Unacked`,
`OneSignal`. Assumption `Admitted`: queues of at least `2 * UNSIG_BATCH` and
lists of at most `UNSIG_BATCH` WRs, one fewer for loops that poll ahead. That
last margin is *not* what `main()` checks, and without it `PollSafe` is false
(`signal_ahead_full`). None of the properties is inductive: whether a poll
finds its signal depends on where in the queue the signal is. `IInv` gives
every queue pair a shape: at most one unpolled signaled WR, posted or not, at
a position that `nb_tx` determines, with nothing or the rest of one cycle in
front of it. The bounds follow by arithmetic.

**MicaProofs.** `MicaTypeCorrect`, `ScanSound`, `LossesCounted`. The scan of
`mica_insert_one` takes the last slot that has the tag *or is free*. It is
right because free slots lie in front of used ones (`FreeInFront`), which the
scan itself maintains; with `TagsDiffer` this is inductive (`IndexInv`).
`LossesCounted` says what an insertion may take away, on any lap of the log.
It needs `OffsetsBehind` as well: used slots point at entries behind the head.
An entry that the new head has not lapped is then apart from the new one in
the physical log (`EntriesApart`), so a key whose slot is spared keeps its
value, and a slot is taken only by its tag or from a full bucket, which is
counted.

**HandshakeProofs.** `HandshakeTypeCorrect`, `StartSafe`, `ClearSafe`, for
every set of programs that satisfy `Discipline`, whatever the number of
threads. TLC evaluates `Disciplined` on the programs of the `handshake` run,
as an `ASSUME`. The inductive invariant says what each executed call has left
behind (`EffectInv`) and that whatever is in the registry, read, ready or
written comes from an executed call (`SourceInv`).

**Only model-checked:** liveness and fairness; the three refinements; the
contents of MICA's log beyond what insertions leave alone; all of HERD and of the driver (`Mlx5` follows its
rings with recursive operators, which the prover does not take).

## 6. What is not modelled

* Lost packets: no program retries, and each assumes a lossless fabric.
* Registry entries and SHM segments of an earlier run: the run scripts clear
  both.
* MICA: key generation, hashing (any assignment of keys to buckets and tags
  is allowed) and the allocator in `mica/alloc`, which the store does not use.
* libhrd: destruction of control blocks and resolution of ports.
* Data paths of ws-sequencer, ws-echo, atomics-sequencer, rc-swarm and
  sender-scalability beyond their signaling; ww-echo, of which there is only
  a client.
* Driver: burst interface, compressed CQEs, DC, XRC and raw QPs, WQE formats,
  doorbell records, buffers, erasure coding, device set-up. CQ overrun is
  excluded: the application must size its CQs.
* `mlx5` leaves out the configuration of `mlx5_mixed`, a QP with and one
  without the SRQ on a CQ with failing requests.

The mapped lines are about a fifth of the implementation, most of whose bulk
is the driver.

## 7. Plan

1. `mica/alloc`: free lists, coalescing, and the last size class, whose first
   chunk alone is looked at (`alloc.c:164`).
2. ws-sequencer and ws-echo on `WindowRpc`; a passing run for `SsSequencer`:
   what its client may rely on while every poll returns a full postlist.
3. Driver objects: doorbell record pages, resource tables, `create_qp` and the
   statistics lock it keeps when it fails (`verbs.c:1668`); then the burst
   interface and compressed CQEs.
4. READ windows and shutdown of rc-swarm; destruction of control blocks.
5. Proofs: HERD's window agreement for any number of clients and workers, and
   `LiveEntriesIntact` for the first lap of MICA's log.

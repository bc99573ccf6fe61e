# TLA+ models of xen_shm

xen_shm lets two processes in two Xen domains share memory and signal each
other. A kernel module (`xen_shm.c`) offers a device with grant-mapped pages and
an event channel; a user-space library (`xen_shm_pipe.c`) builds a one-way pipe
on it, a circular buffer with flags in shared memory, and uses system calls only
to sleep and to wake the other end. There is no lock anywhere between the two
domains: correctness rests on the order of loads and stores, on one bit of
event channel and on a handful of flags. That is what these modules are about.

## Inventory

| part | state | operations | interacts through |
|---|---|---|---|
| event channel (`xen_shm.c` 224-344, 868-976, 1324-1385) | instance state, `initial_signal`, `user_signal`, `latent_user_signal`, wait queue; in the header page the state of both sides and `ec_mutex_count`; in Xen one pending bit per port | event handler, INIT_RECEIVER, SSIG, AWAIT / WAIT, release | the header page, the event channel |
| instance life cycle (667-862, 980-1176, 1324-1385) | `state`, pages, grants, port, delayed-free queue | open, INIT_OFFERER, INIT_RECEIVER, release, delayed free | Xen grant table |
| user mapping (355-406, 595-652, 1180-1318) | `user_mem`, map and unmap operations | mmap, MMU notifier callbacks | page tables |
| circular buffer (`xen_shm_pipe.c` 500-798) | `read`, `write`, the buffer; private positions and thresholds | read_avail, write_avail | the shared page |
| pipe protocol (`xen_shm_pipe.c` 218-498, 800-945) | `reader_flags`, `writer_flags`, `saw_epipe`, loop counters | connect, wait, read, write, flush, free | the shared page, the ioctls |
| UDP handshake (`server_lib.c`, `client_lib.c`) | the list of openings (`data->current`), the children, two pipes and a socket a client | `init_pipe`, `run_client`, `udp_readable_cb` on HELLO, GRANT and RESET, shutdown and joins | datagrams, threads |
| handlers (`handler_lib.c`, `read_all` and `write_all` of `xen_shm_pipe.c`) | two pipes, the call a loop is in | ping client and server, sender and receiver | pipes |
| statistics, module load, test programs, report | | | |

What is hard in it, and what would make each part correct:

* **Event channel.** The handler runs on any CPU between the test of a wait and
  its sleep; events merge into one bit; the first event is special; a wait may
  time out, be interrupted or meet a closing end; the mutex counter is shared by
  two kernels. Correct: no wakeup lost, no signal lost, at most one mutex waiter
  and an exact counter on every way out, closings free everybody.
* **Circular buffer.** Each side uses a stale copy of the other's position,
  thresholds move, positions stand one past the end before a rewind. Correct:
  the bytes come out in order, each once, and nothing is copied out of bounds.
* **Pipe protocol.** Each side decides to loop, to signal or to sleep on flags it
  loaded some steps before; it may be told to sleep when the other has just gone
  to sleep, closed or died. Correct: never both asleep, a flush is not lost, end
  of file only after the last byte, no hang after a crash.
* **Life cycle and mapping.** Grants end while other domains map them, calls to
  Xen fail half way, handles are forgotten by four different paths. Correct: no
  page is given back under a mapping, what is freed leaves nothing behind, what
  cannot be freed is found again.
* **Handshake.** Datagrams are lost, late or repeated and never sent again; an
  opening stays listed after its connection, and a freed one stays reachable.
  Correct: a child talks to the client that asked for it, over the two pipes that
  client has; no client gets two children; a client that waits hears of failures.
* **Handlers.** Two processes call read, write and flush over two pipes, each of
  which may put an end to sleep while there is work. Correct: no order of calls
  stops both, a transfer goes on, a handler returns when the other process dies,
  although nobody waits for the connection to be complete before using it.

## Modules

| module | models |
|---|---|
| `XenShmEvent` | two kernel instances, the event channel, threads in AWAIT |
| `XenShmEventHistory` | the same steps, with one ghost variable: the sides owed a wakeup for a signal |
| `XenShmRing` | the copy loops, one shared access or byte per step, parameterised by role |
| `XenShmPipe` | the wait protocol; composes `XenShmRing` and `XenShmEvent` by INSTANCE |
| `XenShmStream` | what a pipe promises from the connection on: bytes in transit, who sleeps, who has flushed, who had its initial signal; `XenShmPipe` implements it |
| `XenShmDevice` | instances, their grants, mappings and ports, the queue of deferred frees |
| `XenShmHandshake` | clients, the server's openings and children, the network |
| `XenShmHandlers` | the four handlers over two `XenShmStream` pipes |
| `XenShmEventProofs`, `XenShmEventHistoryProofs`, `XenShmRingProofs`, `XenShmPipeProofs`, `XenShmPipeSleepProofs`, `XenShmDeviceProofs`, `XenShmHandshakeProofs`, `XenShmHandlersProofs` | theorems |
| `MC...` | instances for TLC |

`PROJECT.json` maps every definition to its lines.

**XenShmEvent.** `state`, `meta`, the three signals and `ec_mutex_count` are the
fields of the same names (`meta` holds `offerer_state` and `receiver_state`).
`await[t]` is where thread `t` is in `__xen_shm_ioctl_await`, cut wherever
another actor may come between: entry, decrement, increment of a failed attempt,
evaluation of the condition, sleep, timeout or interruption, way out.
`release[s]` follows `xen_shm_release`: mark the header page, notify, free. The
end of INIT_RECEIVER is three steps (`opening`): the state (`xen_shm.c` 844), the
header page (845), the initial signal (848), between which another thread of the
receiver may signal.
`pending` and `bound` stand for Xen's port. `Init` is the state after
INIT_OFFERER. RECEIVER stands for RECEIVER_MAPPED too, since no signal code tells
them apart. The handler is one step: on a given port it does not run twice at
once, and nothing it writes is read elsewhere without being read again.

**XenShmRing.** `pos` is `read` and `write`; `own`, `lim`, `cur`, `usr`, `gran`,
`top`, `gchk` are `read_pos`/`write_pos`, the loaded limit, `current_buf`,
`usr_max_buf`, `gran_max_buf`, `min_max_buf` and `gran_check`, as offsets. The
reader and the writer run the same loop with different limits, so one set of
actions takes the role. The 64-bit copy is a run of byte copies that may stop up
to `Slack` bytes before a check, as the aligned copy does. The n-th byte of the
stream is the number n.

**XenShmPipe.** `pc` walks through the two wait loops (one shape for both roles;
where the code differs, the action tests the role), the copy loop and the calls.
`peer` is the local copy of the other's flags. Reads, writes, flushes and
closings are called at any time by anyone the constants allow. The error of
`wait_reader` that rewrites `writer_flags` is two steps, a load and a store. A
process may die anywhere; its descriptor is closed by the kernel later. `flushed`
is history: an end has flushed since it last moved its position, and the other had
had its initial signal by then (`Heard`).

**XenShmDevice.** Any number of instances in any number of domains. `state` and
`pages_count` are the fields; `file` is where the instance is between open and
kfree, and `call` marks the two calls that another actor can come into, between
mapping the header page and binding the port, and between mapping the data pages
and keeping them. `size` is the page count in the header page, `grants`, `maps`,
`ec` and `bound` are what Xen knows, `handles` the entries of `unmap_ops` that are
not -1. `orphans` are pages mapped without a handle, which nothing will unmap: Xen
refused to unmap one and the code warned, dropped the handle and went on, or
`gnttab_map_refs` failed as a whole after Xen had mapped it, before the handles
were copied (`MmapMapRefsFails`, 1261-1264). A page whose grant failed is simply not in `grants`; ending
such a reference may be refused or not. `__xen_shm_prepare_free` takes one step
per grant, since receivers can map meanwhile. The MMU notifier acts while the
user mapping exists, and the process that opened the device is the one that maps
it. A user makes one call at a time on an instance. Left out: page tables, the
addresses in map operations, ballooned pages, GET_DOMID, signals (which are
`XenShmEvent`).

**XenShmStream.** The abstract pipe. `count` is the bytes in transit, `asleep` an
end that sleeps with no wakeup on its way, `greeted` an end that had its initial
signal, `flushed` one that has flushed since it last moved a byte and found the
other greeted. An end may fall asleep on a stale view (the header says so), but not
while the other sleeps, and not while there is work for it once the other has
flushed. `XenShmPipe!StreamSpec` maps the positions, the flags and the event
channel to these four.

**XenShmHandshake.** A client is one call of `init_pipe` with its own socket and
what follows in `run_client`; `client[c]` is where it is. `net` is the set of
datagrams in flight: any of them may be lost, taken in any order, or be kept and
delivered again, `MaxDuplicates` times. `current`, `next`, `distant` (port and
address) and `receive_fd` are the fields of the server's list; `allocated` tells
chunks in use from freed ones, which keep their `next` and lose the first words,
which is where the port and the address are. A `calloc` may hand a chunk out
again. `Walk` is the list as the code follows it. A walk that never ends sets
`server` to `"hung"`; freeing something twice, and using a freed pipe, are
undefined and may set it to `"crashed"`. `pipe` and `offered` are the pipes the
server offers, `link` the one a client is connected to, `taken` says that the
server has bound the port of the client's own pipe, which Xen does once. `lost`
and `duplicated` are history: the properties that a bad network breaks say so.
`ignored` is history too, the clients whose CLIENT_HELLO came and was dropped
without an answer for want of memory (`server_lib.c` 148-151).
Left out: datagrams of a wrong length or version, which are ignored or refused,
and a socket error, which shuts the server down.

**XenShmHandlers.** A handler is the sequence of calls its loop makes; `line` is
the call it is in, `left` the bytes that call has still to move, `step` whether
it is before a turn of the wait loop, after one, or after a copy. `size` is the
packet: both pings use one size, a sender and a receiver choose theirs apart.
The model starts where `init_pipe` returns: "up" is connected, "down" offered,
CLIENT_GRANT sent, and no initial signal handled; nobody calls
`xen_shm_pipe_wait`. The client creates its thread, or fails to and frees the
pipes. The server connects "down" and runs its child (`ServerStart`), frees what
it has (`ServerRefuses`), or never gets the datagram. `link` says how far it got
with "down", and `Seen` what the client can know through that: nothing of a server
that went before it had connected, EPIPE of one whose mmap failed. `Greet` is an
end's first event, which may come at any time after the connection; until then a
signal to it wakes nobody, and a flush that meets it is `merged`. The model lets a
writer be greeted without looking for the signal that caused it, the
acknowledgement or the reader's first one. A process may be killed. An error that
comes after some bytes is a short count, which the handlers do not take for an
error (`StopShort`). A reader whose peer is gone gets what is left and then the
error or 0, or the error at once from a turn that began before. `stop` is never set here: only shutdown
sets it, and that is in `XenShmHandshake`.

Abstractions to know of: memory is sequentially consistent (the code relies on
x86 ordering and on `volatile`, which does not stop a store from passing a later
load); a read-modify-write of one's own flag word is one step, since the other
end does not write it except in the error path just named; time is
nondeterminism (a timed wait may time out whenever it sleeps); in `XenShmEvent` an
offerer that cannot end its grants stays `delayed`, and why it cannot is left to
`XenShmDevice`.

## Runs

Passing runs:

| run | question | bounds |
|---|---|---|
| `event` | no lost wakeup, exact mutex, sound initial signal, a signal sent after it is kept until a wait answers it; waiters get out after a close, the initial signal is acknowledged | one thread a side, three requests (a wait for LATENT_USER, a timed one for INIT, one for USER with the mutex), either interrupted; 164,508 states |
| `ring` | order, no overrun, bounds | buffer 4, 7 bytes, check interval 2, fast check interval 1, early stops of 1, calls of all sizes |
| `pipe_flush` | no mutual sleep; a flush reaches; the pipe implements `XenShmStream` | from the connection on, nobody waits for it, the writer flushes, waits interrupted; buffer 2, 2 bytes, 1 loop before the look for EPIPE; 1,986,624 states |
| `pipe_close` | EOF and success are what they say; the pipe implements the ring | from the connection on, either end closes, waits interrupted; buffer 2, 2 bytes; 1,042,043 states |
| `pipe_live` | writes return, flushed bytes are read, no call leaves WAITING set | buffer 2, 1 loop; 162,940 states |
| `pipe_crash` | no hang after a death | buffer 2, 1 loop, either may die; 435,860 states |
| `device` | no page given back under a mapping, exact handles, nothing left after a free, one receiver | one offerer, a receiver in a PV and one in an HVM domain, up to 2 data pages; 99,920 states |
| `handshake` | no child gets another client's pipe, one child a client, both ends agree on the pipe, a child's pipe is kept, a waiting client hears of failures | 2 clients, 2 chunks, 4 pipes, 2 repeated datagrams; 642,393 states |
| `handlers` | what can stop a ping, that nothing stops a transfer, that a death is noticed | from CLIENT_GRANT on; pipes of 3 bytes, packets of 1, 2 and 4; 172,938 states |

A buffer of 2 is the smallest with a byte in it; one byte fills it, so the writer
waits for room after one byte and the reader after one read, which is where the
protocol works. `MaxBytes` bounds the stream. Pipe runs end with a writer that
has written all its bytes and a reader that sleeps, or with both ends closed: they
do not check for deadlock. `NoMutualSleep` says what a deadlock would be. In the
device run two receivers compete for one port, and two data pages let a mapping
or an invalidation succeed in part; it ends when every instance is freed or put
aside. Two chunks are fewer than the openings two clients can cause, so that a
freed chunk is handed out again while the list still reaches it and `calloc`
fails; four pipes let both clients be offered two. In the handlers' run a packet
of 4 does not fit into a pipe of 3, so that reads and writes stop half way on both
sides, and packets of different sizes meet in a transfer. The servers, processes
and kernels of these runs may all stop; they do not check for deadlock either.

`SignalKept` is checked for waits on LATENT_USER without a timeout. With one it
does not hold: the way out of a timed wait clears the signal also when the wait
timed out (`xen_shm.c` 938). Likewise EDEADLK may be returned while nobody waits
with the mutex flag, since a failed attempt holds the counter for a moment
(906-909); the mutex properties hold all the same.

Runs that end in a violation record where the code departs from a comment or the
report: an instance that cannot be freed enters no queue
(`device_delayed_free`); an error in place of end of file when the look for EPIPE
meets a closing writer (`pipe_graceful_close`); a purged opening at the head of
the list is freed and stays listed (`server_purge`). `PROJECT.json` quotes the
lines.

Other departures the models have, and which limit what the properties can say:

* the first event an end gets is its initial signal, whatever was signalled: a
  flush that merges with it is lost. `FlushReaches` and `StreamSpec` promise
  something of a flush only when the other had its initial signal;
* once INIT_RECEIVER has set the state, another thread of the receiver may signal
  before `receiver_state` is set, so an offerer past its initial signal may still
  find NONE there: `InitMeansConnected` says that the next access sets it;
* pages that a failing `gnttab_map_refs` did map have no handle and stay mapped for
  good, as do those Xen refuses to unmap: `HandlesExact` and `FreedLeavesNothing`
  except them;
* a CLIENT_HELLO for which the server has no memory is dropped without an answer:
  `HelloAnswered` excepts its client, as it does one whose datagram was lost;
* a wait that ends with end of file or EPIPE leaves WAITING set, and an
  interrupted reader clears it in the writer's word in place of its own:
  `WaitingOnlyInside` is for pipes that nobody closes and readers that nobody
  interrupts. The two ends still never sleep together (see Proofs);
* a CLIENT_HELLO that comes twice lists two openings, of which the client
  connects to one and the server takes the other; a CLIENT_GRANT that comes twice
  fails to connect and frees the pipe of the child: `Paired` and `ChildKeepsPipe`
  speak of networks that repeat nothing;
* a chunk that is handed out again while the list reaches it can close the list
  into a ring, and `find_opening` then walks for ever: `HelloAnswered` is for a
  server that serves;
* at shutdown the pipes of all listed openings are freed, those of running
  children among them;
* a client is not told when its CLIENT_GRANT fails or is lost: it has left `recv`
  by then. A sender sees "up" closed; a ping client waits on "down", which nobody
  will connect: `HandlerNoticesDeath` leaves it out (`Unheard`);
* the ping client flushes the pipe it reads, after it has written to the other:
  both ends can fall asleep beside the request. And since the client does not wait
  for the connection of "down", the server's first answer and its flush can come
  before the client's initial signal, merge with it, and leave both asleep beside
  the answer. `StallOnlyUnflushed` shows that there is no third way to stall;
* a receiver at the end of file reads 0 for ever, since it tests for a negative
  count: `HandlerNoticesDeath` leaves it out.

**Fairness.** Weak fairness of the kernel's own steps (a pending event on a bound
port is handled, a release goes on, code inside AWAIT runs, a timer fires), of a
process inside a call, and, for the pipe, of the reader coming back to read. No
process is assumed to call write, flush or free. Weak fairness is what a
scheduler that runs every runnable task gives; no step needs strong fairness.
AWAIT's sleep itself is not forced to end. In the handshake the server's event loop
serves its socket and a client reads its own; nothing is assumed of the network,
of failures or of SIGINT. In the handlers each process runs its thread and each
kernel handles its initial event; falling asleep and dying are never forced, nor is
the arrival of CLIENT_GRANT: `TransferProgress` speaks of a server that has
started, `HandlerNoticesDeath` of a handler that runs.

Each property has a mutant of the code that breaks it, defined just before the
definition it replaces (`RefreshNoRewind`, `RecheckSkipped`, ...).

## Proofs

`XenShmEventProofs`, for any finite set of threads on either side and any
requests: type correctness and the range of the counter (`TypeCorrect`), no lost
wakeup (`WakeupsKept`), mutual exclusion (`MutexExcludes`) and balance
(`MutexReturned`) of the mutex counter, soundness of the initial signal
(`InitSignalSound`, for receivers whose threads signal in the middle of
INIT_RECEIVER too). The invariant `EventInv` adds to the properties how the stages of an instance's life
hang together (`LifeOK`: a thread inside AWAIT keeps its instance open, hence its
port bound, hence the event that must wake it can arrive) and
`ec_mutex_count = 1 - Cardinality(Holders)`, where the holders are the mutex
waiters and the threads between a failed decrement and its increment.

`XenShmEventHistoryProofs`, for the same threads and any requests whose waits for
user signals have no timeout (`SignalWaitsUntimed`): `SignalKept`. It is inductive
with three facts added (`HistoryInv`): a signal that is owed reached a bound port
past its initial signal (`OwedOK`), so it is pending or, once handled, latent; a
request stays what it was; only a timed wait times out, so the step that clears
the latent signal answers for it.

`XenShmRingProofs`, for every buffer size, interval, slack and stream length:
type correctness, `DeliveredInOrder`, `NeverOverrun`, `CopyInBounds`. Neither
order nor bounds is inductive alone. `RingInv` speaks of distances around the
buffer: from the published read position to the reader's own (`Unfreed`), on to
the published write position (`Readable`), on to the writer's own
(`Unpublished`); their sum leaves a slot (`Ordered`), the last two count the bytes
in flight (`Counted`), each slot between holds its byte (`Held`), and a limit
loaded earlier is never further than a fresh one (`LimitsOK`) because the other
side only moves away. A few lemmas on distances carry the modular arithmetic.

`XenShmPipeProofs`, for every buffer, every size of calls and every use of
flushes, closings, crashes and interrupts. Every step of `XenShmPipe` is a step of
`XenShmRing` or leaves it alone (`PipeImplementsRing`), and a step of the kernel
of `XenShmEvent` or leaves that alone (`NextUsesKernel`), so the invariants
`RingInv` and `EventInv` hold of the pipe: bytes come out in order (`PipeDelivers`)
and no wakeup is lost (`PipeWakeupsKept`). On them rests `PipeInv`, which is
inductive and says, for each end,

* where it is in the kernel while it is at a given place of its call (`CallOK`),
  and where in the copy loop (`PlaceOK`);
* that who sees CLOSED in the other's word, now or in an older copy, faces a
  process that copies nothing any more (`ClosedOK`);
* that a wait that ended well ended with bytes or room, that the copy loop is
  entered only then, and that each of its turns moves on (`MovesOK`);
* that a reader told the end of the file has every byte (`EofOK`).

Type correctness, `SuccessMovesBytes` and `EofOnlyWhenDrained` follow, without
hypotheses. The first two need that the other end never takes bytes or room away
again (`NeverBlockedByPeer`, from the distances of `RingInv`); the third, that a
ring both of whose loops are outside, and whose positions are equal, holds nothing
(`DrainedRing`). `WaitingOnlyInside` is proved for pipes that nobody closes or
kills and readers that no signal interrupts, since otherwise the code does leave
WAITING set.

`XenShmPipeSleepProofs`, for the same pipes: `NoMutualSleep`, without hypotheses.
Call an end committed when it has found nothing to do on its second look at the
positions and saw no flag of the other, looking when it has loaded the flags, saw
none and has not looked again. `SleepInv` says that a committed end has WAITING
set (`FlagOK`), that it has nothing to do while the other is looking, and that
never both are committed (`PairOK`). An end that starts to look sees the WAITING
of a committed one; one that looks a second time beside a committed one finds work,
because an empty ring has room and a full one bytes. The store with which an
interrupted reader clears the writer's WAITING (`xen_shm_pipe.c` 401) makes the
obvious invariant false: the flag can be taken from a writer that is waiting. The
reader counts as committed until that store, so a writer that loses its flag
either saw the reader's, or is about to find room, which is the second conjunct of
`FlagOK`.

The same module proves `FlushReaches`, from the connection on: a flush counts once
the other end had its initial signal, and one before that can be lost (see above).
`FlushOK` says that an end past its
second look, with work, and whose peer has flushed, has a signal pending, latent
or already answered (`Due`); the flush raises it (`FlushRaises`), only a return
from the wait takes it. With these two, every step of a pipe is a step of
`XenShmStream` or leaves it alone: `PipeImplementsStream`. `XenShmHandlers` is
built on that module, so what is proved of the handlers rests on a pipe that is
proved too, of any size and with closings, crashes and interrupts.

`XenShmDeviceProofs`, for any instances, domains and numbers of pages: type
correctness, `MappedIsAllocated`, `HandlesExact`, `FreedLeavesNothing` and
`OneReceiver`. `DeviceInv` adds what an instance in each stage of its life can
hold (`LifeOK`), that every foreign page mapped is one still granted
(`MapsGranted`), that the grants of an offerer lie below its `pages_count`, which
is why ending them from the last page down to zero ends them all (`GrantsOK`), and
that a port is bound exactly to the receiver connected through it (`BoundOK`).

`XenShmHandshakeProofs`, for any clients, chunks, pipes and repetitions: type
correctness, `NoCrossWire`, `OneChild`, `Paired`, `ChildKeepsPipe`. A lemma first
reduces each step of the server to what it does to the network, the pipes and the
children, which spares the rest of the proof the list. `HandshakeInv` then has
three parts: a chunk that names a client holds a pipe offered to that client, open
while the server serves and in no other such chunk (`Wires`), which a `free`
preserves because it takes the name out of the chunk; a datagram in flight and a
child tell how far their client is, a child's client has its port taken
(`Sessions`); and, while nothing was repeated, a client has one offer, and a
CLIENT_GRANT in flight means no child yet (`Once`). Nothing about the shape of the
list is needed.

`XenShmHandlersProofs`, for every capacity and all packet sizes: type correctness
and `StallOnlyUnflushed`. `HandlersInv` says who can sleep where (`SleepsInCall`),
that the server runs on a pipe it connected (`LinkOK`), that one end of a pipe sleeps at a time (`SleepsAlone`), that after a flush a
sleeper has nothing to do (`SleepsBlocked`), and how a ping goes round: `Phase`
has the seven positions the two loops can have to each other, with the bytes in
both pipes as a sum of what each call has left. Two sleepers on two pipes are then
a client that waits for an answer and a server that waits for a request; by the
sums the request is in the pipe whenever the answer is not, and a client that
sleeps beside an answer was not heard being flushed to, so the flush had merged.

Assumptions: `ThreadsAssumption` (finitely many threads, requests are requests),
`RingAssumption` (a buffer of at least 2, positive intervals), `PipeAssumption`
(the same, call sizes within the stream), `DeviceAssumption` (instances live in
domains, at least one page may be shared), `HandshakeAssumption` (finitely many
chunks, the three null values are none of the others), `HandlersAssumption`
(capacity and packets are positive).

Only model-checked: liveness, and everything that depends on `ENABLED`
(`CloseReleasesWaiters`, `HandshakeCompletes`, `WriteReturns`, `FlushDelivers`,
`NoHangAfterPeer`, `HelloAnswered`, `TransferProgress`, `HandlerNoticesDeath`),
which the prover does not reach. Every invariant of a passing run is also a theorem.

## Plan

Done: `XenShmEvent`, `XenShmEventHistory`, `XenShmRing`, `XenShmPipe`,
`XenShmStream`, `XenShmDevice`, `XenShmHandshake`, `XenShmHandlers`, their runs,
and the proofs above. Next, in this order:

1. `XenShmDevice` with several threads on one descriptor: the ioctls test the
   state and set it later, without a lock (`xen_shm.c` 677).
2. `XenShmCopy`: the aligned copy against the byte copy it stands for.

## Not modelled

Page tables, ballooned pages and the arguments of grant operations, which are the
kernel's and the hypervisor's; callbacks after the user mapping is gone and uses
of a freed kernel structure, which the models have no state for; module loading
and the probing of the domain id, a sequence of kernel calls; the statistics
behind `XSHMP_STATS`, which nothing reads back; the test programs, which drive the
parts above; weak memory.

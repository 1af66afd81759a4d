# NFlambda: models, checks and proofs

NFlambda runs *decomposed* network functions.  A function is cut into a
classifier, data actions and control actions; a Python director lays the actions
over the cores of a machine; a C runtime polls the NIC and passes each packet,
inside a message, from action to action.  When the next action lives on another
core the message crosses a ring.  There are no locks in the data plane: its
correctness rests on which core runs what, and on who owns which message.

The repository (`src/`) has neither tests nor a README.  Everything below is
translated from the code; the few sentences the code says about itself
(comments, names of constants) are quoted where a run contradicts them.

Contents: 1 inventory, 2 modules, 3 runs, 4 proofs, 5 findings, 6 what is left
out, 7 what could come next.

## 1. Inventory

### Worker loop - `runtime/worker.h`, `worker.c`  (modelled)

State: per core the `struct worker` (mailbox ring `recv_ring`, message buffer
`zbuffer`, transmit buffer, flags `first_action` and `last_action`, one stack
message `cm_local`); shared by all workers the action table (`function`,
`state`, `core_id` per action id), `dp_quit`, and the `static` variables of the
drain timer.
Operations: drain timer, dequeue a message, take a burst from the NIC,
`event_handler` (run the action here, or hand the message over, or free the
packet), return of the item, `transmit_packet`.
Interacts with: peers (rings), the command thread (action table, states), the
NIC driver, the signal handler.
Hard: workers interleave at every access to memory they share; a full ring makes
a worker spin without serving its own ring; an action may be migrated while it
runs; buffers run dry; the signal arrives anywhere.
Correct when: a message item has one owner, a packet is in one place, a state
has one worker inside it, no item is lost for good, rings cannot gridlock when
sized for the items, packets leave, transmit buffers drain, the signal stops
everybody.

### Generic decomposed network function - `runtime/nf/generic_decomposed.h`  (partly modelled)

State: `counter`, `n_message`, `control_frequency`, `simple_path`, a hash table
with `rand_range` keys.  Operations: classifier, control, data (and parallel
variants that nothing registers).
Interacts with: the worker that calls it; commands that write its state.
Hard: the command thread writes the frequency and resets the counter under a
running classifier; equality tests on a counter; positions returned by a full
hash table.
Correct when: the share of packets that take control is the one the frequency
names.

### Generic monolithic network function - `runtime/nf/generic_mono.c`  (partly modelled)

The same function in one loop, the baseline of the experiments.  Correct when it
takes the decisions the decomposed one takes.

### Command interface and configuration - `runtime/cli.c`, `Config.c`, `main.c`  (partly modelled)

State: the `Config` (workers, ports, actions, states, buckets, RSS table, the
registry of functions).  Operations: one handler per command: ports, queues,
workers, `action create | migrate`, `state create | control_frequency |
data_state`, paths, buckets, `worker run`, quit.
Interacts with: the connection server (which calls the handlers), the workers
(which read what it writes).
Hard: commands arrive in an order only the director guarantees, on a table whose
unused entries look like entry 0; `worker run` starts whatever is there.
Correct when: what runs is complete: a bucket has an instance, an instance its
successors, a state a range its functions can divide by.

### State table - `runtime/state/state.c`  (modelled)

`state_init` allocates a state, `state_update` fills its range, frequency and
counter; the paths and the key stay.

### Connection server - `runtime/conn.c`  (modelled)

A server for command clients, called from `main`'s loop.  State: the epoll set,
one input buffer `msg_in` for all clients.  Operations: accept, read, one byte
at a time into `msg_in`, answer at a newline, close after a hang-up.
Interacts with: clients, the command interface.
Hard: clients share `msg_in`; commands are cut at any byte; a write may fail or
raise SIGPIPE; an early return leaves `msg_in` as it is.
Correct when: a lone client's commands are handled whole, once, in order; what
several clients can spoil is bounded.

### Director client - `director/nflambda/*.py`, `director/agent`, `director/command`  (partly modelled)

Formats the commands of a deployment and sends them one by one; takes whatever
`recv` returns for the answer; on an exception it "reconnects" and resends.
Hard: an answer that belongs to something else; comments, lines of blanks and
some unknown words have no answer and `recv` no timeout.  Correct when: a command that was returned from was served.

### Director execution models - `director/em/*.py`  (partly modelled)

Scales the action graph, wires the copies, splits 512 buckets over the
instances.  Hard: numbers that do not divide (512 / n is a float; copies are
wired by remainders).  Correct when: all buckets but the remainder belong to an
instance, and its packets reach the classifier placed for it.

### Network function registry - `director/nf_registry`  (partly modelled)

Yaml descriptions of the graphs.  The number of an action and the position of an
edge must agree with `Config.c` and with the indices the C functions use.

### Load balancers - `runtime/nf/decomposed_lb.c`, `ss_lb.c`, `mono_lb.c`  (modelled)

State: per data core a flow table, a transmit buffer, counters, a request and an
answer ring shared with the control core.  `decomposed` and `ss` ask the control
core for the server of a new flow and wait; `mono` decides itself.
Hard: quit between request and answer; an answer that comes after its asker
gave up; a full table; keys made with ports nobody filled in; a NIC that takes
part of a flush; a round robin whose turning is undefined.
Correct when: an answer belongs to the packet that waits, a flow in the table
keeps its server, nobody waits for ever, the counters and what the NIC refused
account for every packet.

### C execution model, sets and graphs - `runtime/em.c`, `common/set.c`, `common/graph.c`  (modelled)

Splits a list of cores into control and data cores and the data cores among the
control cores.  Sets are arrays whose iterators end by reading the fields behind
the array.  Correct when: every data core hangs on one control core, evenly; the
set-up ends.

### Cache allocation - `runtime/cat.c`, `ddio.c`  (cat.c modelled, ddio.c not)

Parses `--l3ca`, checks it against the machine, takes classes of service, calls
the hardware library, reverts at exit and on signals.  Hard: a library call that
fails in the middle, a signal between any two steps, a second call.
Correct when: what was asked is granted, what others hold is kept, nothing is
left behind, nothing is freed twice.

### Port set-up - `runtime/port.c`  (partly modelled)

Its outcome only: started, failed, or refused because it was started before.

### Not modelled

Network monitor (`nf/nm.h`, `common/queue.h`), earlier functors (`mq.c`,
`fwd.c`, `dispatcher.c`, `coordinator.c`, `nfunctor.c`, `traffic_generator.c`),
vendored helpers (`hashmap.h`, `parser.c`), experiments and learning agent;
section 6 says why.

`PROJECT.json` lists, under `hazards`, each place where one of these can go
wrong in a way a test would hardly reach, with the properties that watch it or
the reason why none does.

## 2. Modules

| module | what it is |
|---|---|
| `GenericDecomposed` | the classifier's decision and the counter it leaves, as pure operators |
| `Worker` | the data plane: all workers, rings, buffers, NIC queues, action table, commands `migrate` and quit |
| `Pipeline` | the abstract specification: packets walk a graph of actions, one indivisible action at a time |
| `WorkerRefinement` | the refinement mapping from `Worker` to `Pipeline` |
| `WorkerMC` | instances for TLC |
| `WorkerProofs` | theorems about `Worker`: who owns an item and a state; where packets and items are, and the refinement |
| `GenericMono` | the monolithic function's decision loop |
| `Classifier` | one classifier under commands; follows `GenericMono` while its counter is within the period |
| `ClassifierProofs` | theorems about `Classifier` |
| `CommandLine` | the handlers of `cli.c` as functions of the configuration; `config_init`, `state_init`, `state_update` |
| `Director` | scaling, wiring, shares of buckets, path numbers, and the commands of a deployment in their order |
| `Deployment` | composes the two: the director's commands are served one by one, an operator types in between, then packets walk the tables |
| `DeploymentProofs` | theorems about `Deployment` and the handlers of `CommandLine` |
| `Enumeration` | the order in which a loop meets the members of an array of flags |
| `CacheAllocation`, `CacheAllocationProofs` | `cat.c`: argument, checks, choice of classes, library calls, ways out; theorems |
| `DeploymentMC` | instances of `Deployment` and `CacheAllocation` |
| `ConnServer`, `ConnServerProofs` | the command channel: `conn.c`, the director's client, an operator, the network; theorems |
| `CommandsMC` | an instance of `ConnServer` and `Classifier` |
| `CoreSets` | `set.c`: sets as memory holds them, the iterator, `set_split` |
| `ExecutionModel`, `ExecutionModelProofs` | `em.c` and `graph.c` on top of the sets; theorems |
| `LoadBalancers` | the three load balancers, data cores and control core |
| `LoadBalancersMC` | `ExecutionModel` followed by the load balancers on the cores it chose |
| `LoadBalancersProofs` | theorems about `LoadBalancers` |
| `CollectionLemmas` | lemmas the proofs share: least members, induction, enumerations, sequences put end to end, sums over finite sets |

### Worker and the code

One action is one access to memory another thread can see, in program order.

| action | code in `runtime/worker.h` |
|---|---|
| `LoopTest` | `while (!dp_quit)`, and the test of the drain timer |
| `FlushTxBuffer` | `send_the_unsent_packets`: flush, restart of the shared timer |
| `DequeueMailbox` | `rte_ring_dequeue` on the core's own mailbox |
| `RxBurst`, `NextPacket` | the NIC burst and the loop over it, with the message on the stack |
| `SelectAction` | `event_handler` finds `core_id` equal to this core and enters the function, which reads its state |
| `CopyToItem`, `FreePacket` | the action lives elsewhere: copy the stack message into an item of this core's buffer, or free the packet when none is left |
| `PassItem`, `Enqueue` | the message is an item already; the spin on the destination's ring |
| `Classify`, `RunControl`, `RunData` | the generic function's write of its state and choice of the next action |
| `Transmit` | `transmit_packet`; a buffer that fills up empties itself |
| `ReturnItem` | after a mailbox message: the item goes back if this core produced it |
| `Arrive`, `DrainTick` | the NIC steers a packet by its bucket; time passes |
| `Migrate`, `Quit` | the command `action migrate`, the signal handler |

`pc` is where a worker stands, `p_cm` the message it works on, `seen` the word of
a state it has read and not written back.  Because the read and the write of a
state are two steps, two workers in one state lose updates in the model as they
do on the machine.  `core_id` is read by `SelectAction` or by `CopyToItem` /
`PassItem` and the message sent on a later step, so a migration can make it stale.

What DPDK provides is modelled as it is used: a ring of `RingSize` holds one less;
a flush lets the NIC take any prefix of the transmit buffer and frees the rest;
a receive queue delivers in order.  Statistics and logging are left out.

`Init` stands after deployment: the tables are constants of the instance, and
`TableAssumption` says what the director's installation guarantees about them.
`core_id` is the exception, a variable, because `migrate` writes it.

`Pipeline` has no cores, rings or items.  `WorkerRefinement` maps each packet to
its place in it: the wire, the action its message names, a transmit buffer, sent
or freed.  The implementation means that each action of a packet's walk reads and
writes its state as one indivisible step, whatever the workers interleave; it
holds where states are exclusive, and only there.

### Classifier and the code

`Enter` is the function's read of `control_frequency` and `counter`, `Classify`
its write of the counter and the returned entry (`generic_decomposed.h`).
`SetFrequency` is `state control_frequency`, which leaves the counter alone
(`cli.c`); `UpdateState` is `state create` on a state that exists
(`state_update`), which resets it.  Either may be served between the two steps
of a packet; a packet in flight then writes the old counter over a reset.
`overtaken` remembers that, `base` is the counter from which the last command
took effect, `packets` and `control` count since then: these four are history
variables.  The counter is an `int` of `MaxInt`; its overflow is undefined in
C, and the model takes the outcome this build produces, which wraps.
`CommandsMC` puts `Classifier` beside `ConnServer` in one instance: the commands of
the one are sent over the other, but no property relates their states, and
`subject` says which a behaviour is about.

The share the properties promise is the one the director itself computes
(`freq_to_prob` in `director/helper/__init__.py`): 1/(f+1) for f > 0, all but
1/(1-f) for f < 0.  (For 0 that function says 1 while the classifier sends no
packet to control; nothing calls it, and the model follows the classifier.)

### Deployment and the code

`Deploy` takes the next command of `script` and serves it: `cli_process` of
`CommandLine` is the handler's whole effect on the configuration `c`.  The
script is `deployment` and `run` of `director/nflambda/platform.py`, with the
`configure_state` calls of the experiments in between.  `Type` serves a command
an operator sends to the same server.  `port init` may fail, and its result is
ignored; `config rss` ends the process when the driver refuses.

Once `worker run` was served, `Arrive` steers a packet by its bucket to a worker
that polls the queue, and one action per C function moves it: each reads its
state, advances the key, accesses the hash table, and names the next entry by
`simple_path`.  `Park` is `event_handler` handing the message to a core without
a worker.  A division by a range of 0 ends the process (`alive = "fpe"`); a
position written at a negative index is kept in `overrun`.  Two marks of a packet
are history: `early`, it came while the director was still sending, and `gap`, a
function took an entry of `simple_path` that is the number of no edge out of it
(`Numbered`).  Edges are numbered by position, and not in any order: the registry
reads them from a dictionary keyed by destination, so that the edges into one
action are neighbours (`Grouped`).  One packet is on its
way at a time: what several do to each other is `Worker`'s subject, where the
tables are given; here what the tables become is.

Two facts about memory are modelled because the code depends on them.  The
`Config` and the states come from `malloc` in blocks so large that they are
fresh pages: what nobody fills is 0, so that an entry nobody created has core 0
and a path nobody installed leads to entry 0.  And `starting_bucket` is a sum of
floats sent as text: `Starts` gives its floor or, where rounding may leave the
sum just short of an integer, one less.

### ConnServer and the code

| action | code |
|---|---|
| `conn_poll_for_conn`, `conn_poll_for_msg` | the functions of `conn.c` of these names: accept and greet; one epoll event, one read of what has arrived |
| `Newline`, `Store`, `TooLong`, `Prompt`, `control_event_handle` | `data_event_handle`, byte by byte, and the closing of a hung-up connection |
| `Construct`, `Hello`, `send_command`, `Receive`, `Retry` | the director's `NFlambda` object |
| `Reset`, `OperatorTypes`, `OperatorLeaves` | the network loses the director's connection; an operator connects, sends and leaves |

A byte carries its line's name, so that a handled line shows whose bytes it
holds.  `cli_process` says nothing to some lines (`Silent`): comments, lines of
blanks, `port` or `coordinator` with a word it does not know (`cli.c:48-58`,
`259-279`); then `conn.c:233` writes nothing.  `Hush` are the bytes that make any
line they begin such a line, `Blanks` those that part words.  Of a peer that is
gone, a write after RST reports it once and fails; after FIN writes pass until
the RST that answers them has come (`peer` "broken"); any write after either
raises SIGPIPE, which `main.c` does not handle: the data plane dies with the
command server (`Killed`).  The client's `except` branch calls `connect` on a socket
that has been connected; that fails every time, so a retry never reaches the
server and `send_command` raises after five tries.

The director sends `NCommands` commands of `Length(n)` bytes, none longer than
`msg_in` (1024 bytes, `main.c:30`); `OperatorText` is what the operator types,
bytes and newlines in any order.  `pieces`, a history variable, counts the reads
that took something of the operator's: it is what the bounds are stated in,
because each such read may leave `msg_in` with bytes that spoil the director's
next line.  One thing more leaves them there: after the director's connection was
reset a write of the answer fails, `data_event_handle` returns early, and the
line stays in `msg_in` in front of the next.

### Load balancers and the code

One data component per data core, each at one packet of its burst at a time:
`Loop` (test of `dp_quit`, drain timer, receive burst), `Pass` (not looked at),
`Hit`, `MonoMiss`, `Ask` and `TakeAnswer` (request, spin, answer),
`DecomposedLeave`, `SsGiveUp`, `LeaveLoop`.  The control core's `Poll` looks at
one ring; after `DecomposedControlLeave` the rings are reset, after
`SsControlLeave` not.
Details that matter: only TCP and UDP fill in the ports of the key, so that ICMP
is looked up with the ports of the packet before it; a full table forgets the new
key; `decomposed` flushes its buffer when it gives up, `ss` does not; both drop
the burst in hand; `mono` enters server 0 and sends the first packet unchanged;
`j = (j++) % 10` is undefined, and `NextServer` has both values it may leave.
At each flush the NIC takes any part, the drop callback frees the rest, and the
counter `txn` gets what was taken (`Sending`; `refused` is history): the timer's
flush and the one of a full buffer alike, but not the one at the end of
`decomposed`, which counts nothing.  `ResetRings` resets one core's pair of rings
a step, while data cores run on.

`CoreSets` keeps the array, the count and the capacity as neighbours in memory:
the iterator finds the end only because the next field is not 0, and on an empty
set it runs on (`Stray`).

### CacheAllocation and the code

The program counter of `cat_init` is `pc`; each call of the library is a step
that may fail, and `signal_handler` or `Exit` may come between any two.  An
argument is a sequence of tokens, and `parse_l3ca` says at which tokens the code
stops and what it takes from them; `request.asks` says independently which groups
the text names, and `Granted` compares the two.  `Understood` says that the
accepted arguments of an instance are read as what they name.  No file of the repository calls `cat_init`, and it
shares no state with deployment; `DeploymentMC` puts both in one instance, where
`subject` says which a behaviour is about.

## 3. Runs

| run | checks | what happens in it |
|---|---|---|
| `two` | `TypeOK`, `StateExclusive`, `NoItemLeaked`, `ImplementsPipeline` | 3 cores, 2 chains, 3 packets; one chain alternates between two cores at each action |
| `migrate` | `ItemOwnedOnce`, `PacketInOnePlace`, `SpinHasACause` | 2 cores, the data and the output action migrate at any moment, rings of one message |
| `burst` | `GridlockNeedsItems` | a burst of 4 into rings of one message: the two cores do gridlock |
| `live` | `PacketInOnePlace`, `PacketsLeave`, `QuitTerminates`, `BuffersDrain` | rings large enough for every item, and a packet more than items, so that one is freed; deadlock is checked too |
| `colocate` | `StateExclusive`, violated | finding 1 |
| `drain` | `BuffersDrain`, violated | finding 2 |
| `commands` | `TypeOK`, `AloneOnceInOrder`, `TornBounded`, `AheadOfServer`, `SendReturns`; `ClassifierTypeOK`, `ShareKept`, `StuckUntilOverflow`, `FollowsMono` | the director's commands, an operator's lines, pieces of any size, a lost connection; a classifier with a 3-bit-and-sign counter and commands at any moment |
| `deploy` | `DeploymentTypeOK`, `AstrayOnlyFromGaps`, `FaultNeedsRange`, `PacketLeaves`; `NothingLeftBehind`, `Granted`, `OthersKept`, `FreedOncePerInit` | three scaling plans deployed with an operator's command at any moment, edges in an order in which classifier and data find their ways; eleven arguments of `--l3ca` with failures and signals at every step |
| `early` | `EveryBucketServed`, `AstrayOnlyFromGaps` | the yaml's order of edges, in which the classifier finds the way to control; an operator starts port and workers at any moment of the script, so that packets walk tables that are being filled |
| `yaml` | `NoneAstray`, violated | finding 3 |
| `balance` | `TypeOK`, `OneOutstanding`, `MissesAccounted`, `PacketsAccounted`, `StaysOnServer`, `QuitStops`, `MissAnswered`; `SetupEndsWhenItCan`, `DataCoresShared` | the execution model over 325 lists of cores and, on two data cores, the three load balancers with the signal at any moment |
| `roundrobin` | `RoundRobin`, violated | finding 4 |

Bounds, and why they are enough to meet the interesting cases:

- Packets (2 to 4).  Each packet may be in a different stage, so two suffice for
  any race over one state or one item; three let one wait in a ring while two
  race; `burst` needs four to fill two rings of one and both hands.
- `PoolSize` 1 or 2: the buffer runs dry with the second (third) packet in flight,
  so both branches of `zbuffer_get` are taken.
- `RingSize` 2 (one message) meets a full ring at once, 3 (two messages) is the
  size that holds every item of the one producing core in `live`.
- `TxSize` 1 makes every packet a full buffer, 2 lets the timer flush a partial one.
- `control_frequency` 1 and -4: packets on both paths within the packets there are.
- Identical packets are symmetric in `burst`, which has no temporal property.
- `MaxInt` 6 (counter -7..6) and frequencies -3..3 in `commands`: the counter
  overflows and comes round within the 16 packets `MaxPackets` counts, which are
  four periods of the longest frequency.

- `deploy`: 6 buckets over 1, 2 and 4 instances: 4 does not divide 6, so two
  buckets belong to nobody and shares round; unequal numbers of control and data
  instances; `Ranges` 0, 2, 3 with 2 table entries, so that a range is never set,
  fits, or overfills the table, and the operator sets it to 0 or 1 while packets
  flow; 3 packets take both paths and fill it.  `early`: two commands of the
  operator, the two it takes to have packets before the tables are complete.  For the
  cache: 5 cores on 2 packages, one held by another program, 3 classes, so that
  classes run out, and 2 calls of `cat_init`.
- `commands`: two commands of 2 bytes with `MsgInLenMax` 3; the operator types a
  line of two blanks and the first byte of a comment, and may stop anywhere: a
  line of the director's is spoiled, overflows behind the blanks, or becomes a
  comment; every line is cut after every byte; 2 tries before raising.
- `balance`: a TCP flow and an ICMP flow on one queue and one table entry, so that
  either flow finds the table full, an ICMP key meets the ports left by the other
  flow, and a flow misses again; a UDP flow on the other core, for two askers at
  once; three packets there and one here in bursts of up to 2, so that a burst is cut
  short and a buffer fills and is refused in part.  With one TCP flow the table of
  `mono`, which looks up nothing else, is never full in the run: `MissesCorrect` and
  `FlowStays` cover that.

`migrate` and `burst` do not check deadlock: their rings are too small on
purpose, and the workers really can stop (that is what `GridlockNeedsItems` is
about).  The runs of `CommandsMC`, `DeploymentMC` and `LoadBalancersMC` do not
because their processes end: by the signal, by `rte_exit`, by SIGPIPE, or when the
director has sent its last command; and a classifier stops at the bound
`MaxPackets`.

Fairness (`FairSpec`): each running worker's `Step` is weakly fair, because each
polls on an lcore of its own with nothing scheduled beside it, and `DrainTick`
is weakly fair, because time passes.  A worker that finds a ring full has no
step: that is the spin, and fairness gives it no way out.  Nothing is assumed of
arrivals, migrations or the signal.

In `deploy` only `Forward` is fair: a worker's loop runs on, and nobody owes it
packets or commands.  In `commands` each of the server's functions is fair
because `main`'s loop calls them for ever; `conn_poll_for_msg` of one connection
is strongly fair, because it is disabled whenever another connection is served
and `epoll_wait` takes every ready connection in turn; the director's process is
weakly fair, the operator and the network owe nothing.  In `balance`
the control core is weakly fair, and each data component in what it does with the
packets in hand and in leaving its loop: each owns a core and polls.  Nobody owes
it packets.

`QuitTerminates` and `PacketsLeave` hold in `live` because no ring can be full
there: they say nothing of the spin that ignores the signal.  They are false in the instances of `migrate` and `burst`; what remains
true with small rings is `SpinHasACause`: who spins for ever waits for a worker
that has exited, or that spins itself.

`TypeOK` here is more than types: mailboxes hold items only, never a message on
another worker's stack.

For every property of a passing run `PROJECT.json` names a mutant of a
definition (a forgotten timer, an inverted test, a ring one slot short, an item
returned twice) for which TLC finds it violated.

## 4. Proofs

Checked by TLAPS for all values of the constants.  Every safety invariant and
action property that a passing run checks is proved, and so are the refinements.

| module | theorem | property | beyond the named assumptions |
|---|---|---|---|
| `WorkerProofs` | `TypeCorrect` | `TypeOK` | |
| | `ItemsOwnedOnce` | `ItemOwnedOnce` | |
| | `StatesExclusive` | `StateExclusive` | `Colocated` |
| | `PacketsConserved` | `PacketInOnePlace` | |
| | `GridlockBounded` | `GridlockNeedsItems` | |
| | `NoLeak` | `NoItemLeaked` | `Homing(R)` |
| | `WorkersImplementPipeline` | `ImplementsPipeline` | `Colocated` |
| `ClassifierProofs` | `SharesKept` | `ShareKept` | |
| | `StarvesUntilOverflow` | `StuckUntilOverflow` | |
| | `ClassifierTypeCorrect` | `ClassifierTypeOK` | |
| | `PacketsFollowMono` | `FollowsMono` | |
| | `DecomposedIsMono` | (`ImplementsMono`) | no commands |
| `ConnServerProofs` | `TypeCorrect` | `TypeOK` | |
| | `AloneCorrect` | `AloneOnceInOrder` | |
| | `TornCorrect` | `TornBounded` | |
| | `AheadCorrect` | `AheadOfServer` | |
| `LoadBalancersProofs` | `TypeCorrect` | `TypeOK` | |
| | `OneOutstandingHolds` | `OneOutstanding` | |
| | `PacketsAreAccounted` | `PacketsAccounted` | |
| | `FlowStays` | `StaysOnServer` | |
| | `MissesCorrect` | `MissesAccounted` | |
| `ExecutionModelProofs` | `SetupEnds` | `SetupEndsWhenItCan` | |
| | `DataCoresAreShared` | `DataCoresShared` | |
| `CacheAllocationProofs` | `GrantedCorrect` | `Granted` | `Understood` |
| | `NothingLeftCorrect` | `NothingLeftBehind` | |
| | `OthersCorrect` | `OthersKept` | |
| | `FreedCorrect` | `FreedOncePerInit` | |
| `DeploymentProofs` | `ShapeKept` | `DeploymentTypeOK` | `CommandsFit` |
| | `FaultsFromRanges` | `FaultNeedsRange` | `CommandsFit`, `RunsLast` |
| | `BucketsServed` | `EveryBucketServed` | `CommandsFit`, `OperatorAside`, `BucketsFit` |
| | `StrayFromGaps` | `AstrayOnlyFromGaps` | those three, `PathsFit` |
| | `ScriptsFit` | `CommandsFit` itself | `PlansFit` |
| | `ScriptsRunLast` | `RunsLast` itself | `PlansFit`, the operator starts no worker and creates no state |

The assumptions, each named in the module that declares the constant and
evaluated by TLC in the runs of that module:

- `Worker`: `CoresAssumption` (finitely many cores: `RTE_MAX_LCORE` entries),
  `TrafficAssumption`, `TableAssumption` (what the director's installation
  guarantees of the table), `SizeAssumption`, `NoMessageAssumption`;
  `WorkerRefinement`: `NamesAssumption`, an action is not named as one of the
  places outside the graph.
- `Classifier`: `WidthAssumption`, `FrequencyAssumption`, `BoundAssumption`.
- `ConnServer`: `ConnAssumption`, above all that no command of the director is
  longer than `msg_in`.
- `LoadBalancers`: `GroupAssumption`, `QueueAssumption`, `BurstAssumption`.
- `ExecutionModel`: `MaxSizeAssumption` and `ListsAssumption`: a list names a core
  once and the sets have a cell for each core (`common/set.h`, 100 cells).
- `CacheAllocation`: `CatAssumption`, what the machine is.
- `CommandLine`: `ConfigAssumption`, at most the 48 cores of the tables, entry 0
  and core 0 among what there is (what nobody fills is 0), and room for the three
  paths the functions take; `Director`: `BucketsAssumption` and `ListsAssumption`
  (the yaml's actions, states and edges are finite lists of names);
  `Deployment`: `EntriesAssumption`.

Some theorems have a hypothesis besides, each about the tables, arguments or
commands of an instance, and each true in a run that checks the property:

- `Colocated`: nobody migrates, actions with one state are on one core, output
  runs on the core whose buffer it fills.  The director computes such a
  placement; run `colocate` shows that `StatesExclusive` is false without it.
- `Homing(R)`: nobody migrates, and for each core `c` that takes packets there is
  a set `R[c]` of actions that holds the ones its buckets name, is closed under
  what the functions name next, and has its output actions on `c`.  An item comes
  home only when the core that owns it handles it last; in `two` the actions of
  chain 1 and of chain 2 are such sets.
- `Understood`: evaluated by TLC in `DeploymentMC` for the eleven arguments of
  `deploy`.
- `CommandsFit`: what the director sends under each plan and what an operator may
  type names entries, states of the plan, paths and cores that there are, and no
  range below 0.  `cli.c` checks none of it: a state, an entry, a path or a core
  beyond the tables is written where it says.  `RunsLast`: the director sends
  `worker run` as its last command, and the operator neither starts the workers
  nor creates a state.  TLC evaluates both in `DeploymentMC` for the scripts of
  all plans (`RunsLast` not in run `early`, which does without it), and `ScriptsFit` and `ScriptsRunLast` prove them from the sizes of
  a plan:
- `PlansFit`: every action has a state with as many instances as it, the tables
  have room for the states, the instances and the paths of the plan, each
  instance has a core, and an operator's commands name what there is.
- `OperatorAside`: the operator does not write what the director has placed, i.e.
  types none of the five commands in `Placing` (`rss_reta_config`,
  `worker first_action`, `action create`, `create_packet_out`,
  `install_simple_path`).  Whoever does can send any bucket anywhere.
- `BucketsFit`: behind `packet_in` the yaml has the classifier and nothing else,
  the plan gives it as many instances as `packet_in`, at least one, and each
  instance of `packet_in` is on a core with a worker.
- `PathsFit`: behind the classifier are the two other functions and `packet_out`,
  their edges in whatever order; no action has more instances than the one before
  it or the one whose state it shares, no edge leaves `packet_out` or `drop`, all
  instances are on cores with a worker, no two workers poll one queue, and data
  and control have the numbers of `Config.c`.  TLC evaluates both in
  `DeploymentMC`, `PathsFit` for both orders of edges; with the numbers of
  `generic_decomposed.yaml` (run `yaml`) it is false: that is part of finding 3.

### Worker

Type correctness and ownership cannot be proved one without the other: no lock
protects a message, so that a worker writes a message record (and not garbage
over somebody else's) already needs to know that it owns it.  The inductive
invariant is `TypeOK /\ ItemOwnedOnce /\ HandOK /\ QueueOK`.  `HandOK` ties each
program counter to the message in hand: filled in exactly the stages that work
on one, a stack message never on its way to a ring, `producer_id` equal to the
core the item belongs to.  `QueueOK` says the same of messages in rings: it is
what lets `ReturnItem` conclude from `producer_id` alone that the item is one of
its own buffer.  `StatesExclusive` adds `AtHome`: a worker that runs an action is
on the core the table names.

The second half of `WorkerProofs` builds on that invariant.  The loop has two modes that no
variable names, serving the mailbox and serving a burst; `BurstOK` reads the mode
off what the worker holds, and every other argument needs it.

- *Packets.*  `OnePlace`: of the wire, a queue, a burst, a message in a ring, a
  message in hand, a transmit buffer, the sent and the freed, a packet is in
  exactly one, at one position.  A message keeps its packet until the item is
  filled again: a place is therefore a message that is queued or in hand, and
  `ItemOwnedOnce` is what makes it one place.
- *Gridlock.*  `SpinnersFill`: the workers of a set that spin hold an item each, the
  rings they spin on are full of others, and by `ItemOwnedOnce` all of these are
  distinct, so that at least as many items are in flight; `FromTakers`: they come
  from cores that take packets.  Rings with room for all items of those cores
  never fill.
- *Leaks.*  `Chained`: a message in use names an action in `R` of the core it comes
  from; `Returns`: a worker that is about to return an item owns it; `AllOwned`:
  every item is in the buffer of its core or in use.  `Chained` needs `Steered`,
  that queues and bursts hold packets of the core's own buckets.
- *Refinement.*  Where the pipeline sees a packet is what the message that carries
  it says, so the argument is about messages: a filled message that is neither
  queued nor in hand carries a packet that has left (`CarrierOK`), the word of the
  state a worker read is still there when it writes (`SeenOK`, which is where
  `Colocated` enters), and a packet has one carrier.  Of the actions, `NextPacket`,
  `Classify`, `RunControl`, `RunData`, `Transmit`, `FreePacket`, `Arrive` and
  `FlushTxBuffer` are steps of the pipeline, the others stutter: an item that
  crosses a ring changes nothing the pipeline knows.

### Classifier

- `ClassifierInvariant` and `ClassifierTypeCorrect`: the counter stays an `int`.
- `SharesKept`: for every frequency and every sequence of commands the share of
  control packets is the promised one, shifted by at most the part of a period
  the counter had already covered, unless a command lands past the frequency.
- `StarvesUntilOverflow`: if it does, one path gets no packet for the rest of a
  round of the counter, 2^32 less the distance.
- `PacketsFollowMono`: whatever commands came before, a packet that meets the
  counter within its period, and that no command overtakes, is a `Packet` of
  `GenericMono`: `generic_mono.c` tests for less-than where `generic_decomposed.h`
  tests for equality, and within the period the two agree.  Outside of it they do
  not: the monolithic function comes back at once, the classifier runs on.
- `DecomposedIsMono`: without commands the counter stays within its period, so that
  `ClassifierSpec => ImplementsMono`: initial states to initial states, `Classify`
  to `Packet`, `Enter` to a stutter.

The inductive invariant states the exact value of the counter: for f > 0,
`packets + base = control * (f + 1) + counter` with `counter` in 0..f, and
symmetrically for f < 0; past the frequency, `counter` is `base + packets`
modulo the width.  The bounds `Periods` speak of follow from it by arithmetic.

### Connection server

The invariant is `TypeOK /\ Control /\ Account /\ Alone`.  `Control` relates where
the server and the director are to the connection between them.  `Account`
follows one sequence of bytes, `Stream`: `msg_in`, then what was read of the
director and not looked at, then what is on its way.  `Lines`: its lines are whole
commands, all but the first one at most.  `AheadBudget` and `TornBudget`: what was
spoiled so far, and the first line if it is spoiled (`Spoiled`) or may be answered
"Command too long" (`Overflows`), is paid for by `pieces` and by one reset.
`Alone` is the exact sequence as long as no other client was read.  A line that
`cli_process` is silent about is counted as handled and leaves the director
waiting, which the bounds allow; whether it ever comes back is left to TLC.  The attempt
corrected the model: the bound that leaves out the reset connection holds on small
instances and is false on larger ones.

### Load balancers

Only `PacketsAccounted` is inductive, and it is one part of `IInv` (`Counts`).  The
others say which of the two rings holds the item (`Rings`: idle, asked or
answered), that packets in a burst are of the component's queue (`Buffers`), that a
flow on a server is one the program looks up and, for `mono`, has in the table of
the core that serves it (`Pinned`), and that a flow with an entry of its own is on
the server the entry names (`Sticky`).  The last three need each other: only because
RSS sends a flow to one queue does the entry one core made decide the flow's next
packet.  Nothing is assumed of `NextServer` but that it names a server: `FlowStays`
holds whether the round robin turns or not, which is why it leaves out, for
`decomposed`, the flows without an entry.  For `ss` and `mono` every answer is
server 0 and there is no exception (`Values`).  `MissesCorrect` adds that a component that waits has not found its key
(`MissCount`), which is why the answer makes a new entry; the sums over the data
cores (`Invoked`) change by what one of them changes.

### Execution model

Both loops, the sizes `set_split` adds up and the lists `addEdge` grows, are
recursive functions in the model.  For each the proof gives a closed form, which
shows that a function with the recursive property exists, and shows by induction
that the chosen one has these values.  From there `SplitFacts` says that
`set_split` cuts any finite set into subsets of the sizes it computed, `WalkFacts`
that a control core's list is its whole subset, and the two theorems follow.

### Cache allocation

The invariant has nine parts (`CatTypeOK`, `Stages`, `FirstLife`, `Groups`,
`Clean`, `OthersKept`, `Untouched`, `Pending`, `Allotted`).  `Allotted`
carries `Granted`: there is a choice of one class for each group and package, the
same from `select` to the end, such that each mask and each core is as that choice
says or the call that makes it so is still to come, and no other call is.
`Pending` puts the masks before the cores, so that a call that fails among the
masks has moved no core.  `Untouched` carries `NothingLeftBehind`: without a `cut`
the cores are as they were found, but for those of a request that is being
configured, stands or is reverted.  `FirstLife` carries `FreedOncePerInit`,
`Clean` the reverts in `OthersKept`.

### Deployment

`Served` says what one command makes of any configuration of the right shape
(`ConfigRec`), and each handler of `cli.c` is proved to do so (`OtherHandlers`,
`StateHandlers`, `ActionCreate`, `CreatePacketOut`, `InstallPath`, `PortInit`).
`Complete` is what a type cannot say: an entry that runs a function has a state of
the plan; without it a packet's function could find no state.  `DeploymentInv` adds the
packet on its way and the script still to send.  `RangeInv` adds why a table's
range says something of what is in it: no table has a value before the workers
run, and no command of the director comes after, so that only an operator can
change a range under a filled table (`WithinRange`).  A full table with a new key
below the range then leaves more numbers below the range than the table has
entries (`TableAccess`).

`EveryBucketServed` and `AstrayOnlyFromGaps` relate what the director's loops send
to where a packet goes after `cli.c` has served all of it.  The proof goes in
four parts.

1. *What is sent.*  `ScriptBody` and `ScriptIs`: the script is a concatenation of
   loops over the lists of instances, and a command that places something is in it
   exactly when `IsSent` says so, with the instances and edges it is for.  From the
   same two follow `ScriptsFit` and `ScriptsRunLast`, command by command.
2. *What is written.*  `ServeWrites`: each command, served on any configuration,
   overwrites just what `Written` says of it; packets move none of it
   (`PacketsStill`).
3. *What lasts.*  A command is served once and others follow, so a placed bucket,
   entry or path survives only because no later command is for the same cell.
   For the buckets that is arithmetic: the shares of two instances are apart
   whatever the float sums round to (`StartFacts`, `Apart`).  For the entries it is
   that an index identifies an instance (`OneEntry`).  For the paths it is that the
   number of an edge belongs to it alone, in whatever order the edges stand: several
   actions share a state, but no two of them an edge (`OnePath`).  Of several
   successors of one instance the last one sent stays, so that `Holds` says of a path
   that its entry leads to some instance of the edge's action.  `PlacedInv` is the inductive invariant: each placing command is still to be sent or `Holds` in
   the tables.  When nothing is left to send all of it holds (`AllPlaced`), and
   whether workers ran in between does not matter, since packets write none of it;
   that is `EveryBucketServed`, with the buckets of no share counted by `LostCount`.
4. *Where packets are.*  `AstrayOnlyFromGaps` is not inductive: it says nothing of
   the packet on its way.  `Routed` does: a packet of a share that came after the
   script and met no gap is at the entry of an instance of the classifier, data,
   control or `packet_out` under the plan; `Late` says that the tables it meets are
   complete.  `RouteNext` takes it one path further: a function takes the number of
   an edge out of it, and that entry leads to an instance, or it takes another
   number, and the packet has met a gap.

### Model-checked only

- Liveness (`PacketsLeave`, `QuitTerminates`, `BuffersDrain`, `SpinHasACause`,
  `PacketLeaves`, `SendReturns`, `QuitStops`, `MissAnswered`): fairness and
  `ENABLED` are beyond the prover.
- That an instance's plans, yaml and placement satisfy `PlansFit`, `BucketsFit` and
  `PathsFit`: evaluated for those of the instance.
- That `parse_l3ca` reads every argument as what it names (`Understood`): a
  statement about each argument, evaluated for those of the instance.

## 5. Findings

1. *States are not kept exclusive by migration* (`colocate`).  `action migrate`
   moves a single entry of the action table while workers run.  A classifier and
   a data action share a state; moved apart, two workers are inside it at once.
   `director/em/em.py:146` asks that actions on the same state reside on the same
   core "except that the state is sharable", and nothing makes a state sharable.
2. *The drain timer is shared* (`drain`).  `prev_tsc` is a `static` of a function
   all workers call: a flush by one transmitting core restarts the interval of
   the others, and a packet can stay in the buffer of a core that always comes
   second, against `defined.h:77`, "TX drain every ~200us".

3. *The registry's yaml and the C sources number things differently* (`yaml`).
   `nf_registry/generic_decomposed.yaml:24` and `:31` register `gd_control` as 4
   and `gd_data` as 5; `Config.c:207-210` has them the other way round.  The
   edges (`:37-46`) are numbered by their position (`nf_registry.py:65-68`,
   `platform.py:223-227`), while the C functions take `simple_path[0]`, `[1]` and
   `[2]`.  Deployed as the file says, a packet goes to entry 0, to a mailbox
   nobody reads.  No order of these edges helps: those into `gd_data` are
   neighbours, so that of the numbers 0, 1 and 2 the functions take, one belongs to
   `gd_control`, and classifier and data action cannot both find their ways
   (`NoOrderSuits`, evaluated by TLC over all orders).  `deploy` and `early` take
   the numbers of `Config.c` and two orders, and `AstrayOnlyFromGaps` says which
   packets are lost then: those a function sent along a number of no edge out of
   it, and, but for early ones and buckets of no share, no others.
4. *The round robin need not turn* (`roundrobin`).  `decomposed_lb.c:256` is
   `j = (j++) % 10; // round robin`: `j` is stored to twice without a sequence
   point, and as gcc compiles it the old value stays, so that every new flow goes to
   server 0.  Were it to turn, a flow that finds the table full would get another
   server with each packet; `StaysOnServer` therefore promises a server only to
   flows the table holds.

Also visible in the runs, without a sentence in the repository to contradict:
the spin on a full ring ignores the signal (`SpinHasACause` allows an exited
owner; with rings too small, quit hangs `main`), and a frequency set below the
running counter starves a path until the counter overflows
(`StuckUntilOverflow`).  What 512 / n leaves over belongs to no instance
(`EveryBucketServed`), and a range of 0 divides by it (`FaultNeedsRange`).  The
director runs ahead of the server by one command for each piece another client
sent (`AheadOfServer`), a line made silent by another client's bytes leaves it
waiting for ever (`Hung` in `SendReturns`), what the NIC refuses is counted nowhere
(`PacketsAccounted`), and a
client that leaves while it is answered ends the process by SIGPIPE.  The error
path of `cat_init` does not revert what it associated, a second `cat_init` may free
the sockets twice or revert a core that is not its own, and a warning about one mask
lets a longer one behind it pass.  `NothingLeftBehind`, `FreedOncePerInit`,
`OthersKept` and `Granted` name these cases as their exceptions: they are what the
code does, and the properties do not watch them.

## 6. What the models leave out

- Packet contents, addresses, byte and latency statistics, hash values, logging,
  dumps, memory ordering weaker than program order (the rings are DPDK's and
  order what goes through them; `core_id` and `dp_quit` are single words).
- `action install` (`dlopen` of a test library at a fixed path), `conn_free`
  (nobody calls it while the server lives), the driver calls inside `port_init`.
- The three reads of `event_handler` apart from each other while `action create`
  writes an entry: run `early` has commands under traffic with `event_handler` as
  one step, `Worker` has `migrate` under traffic with the worker's steps apart.
- A ring being reset under an enqueue: `rte_ring_reset` writes its words one by one,
  and what a torn ring holds is not modelled; a pair of rings is reset in a step.
- Placement heuristics of the director: `Place` is a constant of the instance,
  and `TableAssumption` and `Colocated` say what the proofs need of it.  Chains
  of several network functions: one function is deployed at a time.
- The agent's client (`director/agent`): a second client of the same server.
- The parallel variants in `generic_decomposed.h` and `load_balancer.yaml`:
  registered by nothing in `Config.c`.
- The monolithic function's tables and transmit buffer: the command line cannot
  start it; `GenericMono` has its decisions, the baseline of the experiments.
- Network monitor: no registration, no thread and no queue between its halves,
  and its message events are commented out.  There is no behaviour to model.
- Earlier functors: nothing starts them any more; `worker.h` replaced them.
- `ddio.c` (one PCI register), `cat.py` (shell commands), vendored code,
  experiment scripts, the notebook.

## 7. What could come next

1. "A deployment satisfies `TableAssumption` and `Colocated`" as a theorem, which
   needs the director's placement as operators instead of a constant.
2. `action create` under traffic in `Worker`, with the two reads of
   `event_handler` apart.

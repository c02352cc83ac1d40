# Access server: a TLA+ verification project

The access server decides, on an embedded device, whether a user may perform an
action. Policies come from a Tangle Policy Store (TPS) over the network, are
kept on the file system, and are evaluated when a user's request arrives; the
decision is enforced by actuator plugins and fed by data-acquisition plugins.
This directory holds models of the parts that carry the server's own logic, the
TLC runs that check them and the theorems proved about them with TLAPS.

## 1. Inventory

| Component | State | Operations | Threads and neighbours |
|---|---|---|---|
| Supervisor `main.c` | configuration, running flag | init, start, stop of all actors | starts everything, stops in the reverse order; the loader is started before the PAP and the updater it uses are initialized |
| Access actor `access/` | none of its own | `access_init/term`, plugin registration | thin wrappers over the SDK (external) |
| Network actor `network/network.c` | socket context, `state`, request and reply buffers | `network_start/stop`, the serving loop, one command per request | its own thread; calls PAP, PEP, PIP through the SDK; shares jsonhelper's token table with the loader |
| Policy loader `policy_loader/` | FSM state, version, policy list, counters | poll, parse the list, fetch and add each policy, start, stop | its own thread; calls the updater and the PAP |
| Policy updater `policy_updater/` | address of the TPS | `get_policy_list`, `get_policy` over TCP | runs in the loader's thread |
| Policy store `plugins/pap/posix/` | one file per policy and an index file | put, get, has, del, get_all, get_len | written by the loader's thread, read by the network thread, no lock |
| Wallet `wallet/` | wallet context; one struct per monitoring service | address, balance, send, confirmation; start/stop/free of two services | one thread per service, calls back into its owner |
| Payments `plugins/pep/wallet`, `plugins/pip/wallet`, `portability/os/posix` | 64 service slots, the `bill` file | store a transaction, confirmation callback, recover | network thread and confirmation threads; two different mutexes |
| PEP plugins relay, print, can, canopen | an action set each, the last message sent | one action per name, a message to the Tangle | network thread, which sleeps in a pulse |
| Data dumper `data_dumper/` | list of fillers, JSON in progress, time of the last dump | add filler, dump if needed | called from every collector's thread |
| Collectors `plugins/pip/{can,canopen,gps,modbus,gpio}` | last values, flags, a thread each | start, callback per frame or message, filler, stop | write their values under no or one lock, read by the dumper |
| GPS sentences `plugins/pip/gps`, `minmea` | the sentence in progress | read, cut into lines, check, convert | the GPS thread; the receiver sends when it likes |
| Modbus `plugins/pip/modbus` | the variable read into | request, answer, CRC, one call per signal | the Modbus thread; a serial line that delivers in pieces |
| OBD-II `plugins/pip/obdii/ejv_obdii` | the daemon's list of sockets with reference counts, a socket to the daemon per process | open and close, private or shared; query; list of supported commands | a daemon and any number of processes; descriptors are passed over a local socket |
| Dataset `plugins/dataset/vehicle` | option flags | from JSON, to JSON | set by the network thread, read by collectors without a lock |
| Configuration `config_manager/` | the ini file and its tokens | get string, get int | every actor at start |
| Relay board `portability/boards/raspberrypi` | pin levels | on, off, pulse | PEP relay, can, canopen; the pins outlive the process |

Hard behaviours, and where they bite, are listed with their lines under
`hazards` in `PROJECT.json`: files written in several steps with no lock, a
process that may die between them; an answer of the network used without
looking whether there was one; a version that is taken over before the work it
stands for is done; status flags written by two threads; unsigned differences;
a token table that two threads share; an answer that comes after its query was
given up; reads that return a part of a message; a reference count kept on behalf
of processes that may die.

## 2. Modules

| Module | Models | Composes |
|---|---|---|
| `PolicyStore` | the PAP plugin for POSIX files | writer, reader and disk |
| `PolicyLoader` | loader state machine and updater | loader, TPS (external), PAP as a set, the network thread's use of the shared token table |
| `BalanceService` | `balance_service` of the wallet | service thread, its owner, the Tangle (external) |
| `AccessServer` | `main.c` and `network.c` | supervisor, network thread, loader as far as it delivers, clients (external) |
| `Payments` | wallet plugins of PEP and PIP, the bill file, `confirmation_service` | network thread and one thread per transaction |
| `Collectors` | CAN, CANopen, GPS and Modbus collectors with the data dumper | one thread per bus, the supervisor that stops them, a client that chooses signals |
| `PolicyDistribution` | what loader, updater and PAP promise together | implemented by `PolicyLoader` |
| `ObdiiCodec` | commands, recognition of answers, bytes the decoders read, list of supported commands | |
| `Obdii` | OBD-II sockets, queries and the daemon | `ObdiiCodec`, processes, daemon, the car (external) |
| `Actuators` | PEP plugins and relay board | |
| `Dataset` | selection of signals | the network thread and a collector that looks |
| `Nmea` | the loop of the GPS plugin over what `read` returns | |
| `Minmea` | checksum and number scanner of minmea | `Bits` |
| `Modbus`, `ModbusCrc` | register reads; the CRC, apart because it works on bits | `Bits` |
| `Bits` | bytes and words as sets of bits | |
| `Configuration` | tokenizer and look-up of the ini file | |
| `Devices` | one part of the device code per behaviour | `Actuators`, `Dataset`, `Nmea`, `Minmea`, `Modbus`, `ModbusCrc`, `Configuration` and the tables of `ObdiiCodec` |
| `PolicyStoreProofs`, `PolicyLoaderProofs`, `BalanceServiceProofs`, `AccessServerProofs`, `PaymentsProofs`, `CollectorsProofs`, `ObdiiProofs`, `DevicesProofs` | theorems about the module they extend, `DevicesProofs` about each of the parts and about `Devices` | |
| `MCPolicyStore`, `MCPolicyLoader`, `MCObdii`, `MCDevices` | values for TLC (symmetry, the lists the TPS publishes, commands, lines and characters) | |

**PolicyStore.** `file` is the content of each `stored_policies/<id>.txt`,
`index` the ids in `stored_policies.txt`. `posix_store_policy` and
`posix_flush_policy` are sequences of actions cut at every point where the disk
changes (`fopen` with truncation, `fclose`, append, remove), so that a reader, a
crash or a failing `fopen` can come in between; the reading calls `Has`, `Get`,
`GetAll` are single steps that give what the file holds at that moment. The
content of a policy is one value, or `Torn` while the file is truncated.
`committed`, `fileCut` and `listCut` are history: what the last operation that
returned TRUE left, and which ids an operation was cut on.

**PolicyLoader.** `fsm` is the state of the code's machine, with the places inside
`GET_PL_DONE` at which a global is used after something else may have changed it.
`reply`, `pending`, `version`, `tries` and `policy` are the globals of the same
role. The TPS publishes a new list at any time; every call may fail, and then
`policyupdater_get_policy` yields garbage or what an earlier answer left in the
buffer. The network thread parses up to `MaxRequests` access requests into the token
table the loader shares with it: a list counted after that is as long as whatever array
of the request stands at token 2 (`OtherSizes`), and the loop then asks for what it finds
in the list's text at the request's offsets (`FetchNonsense`). History, each set where the
thing happens: `goal` (ids under the version taken over), `failed` (the call for this
policy failed), `spoiled` (still to be asked for when a request was parsed). Base64, hexadecimal and JSON text are abstracted to what an answer is
found to hold. Under the mapping at the end of the module (`Dist`, which gives each
variable of the abstract specification its value) the loader implements
`PolicyDistribution`: only acceptable policies that were listed are stored, one at a
time, none is lost, and the version moves forward or is forgotten at a restart.

**BalanceService.** The service thread from its first query to its callback, with
balances of a small modulus so that the unsigned difference of
`balance_service` wraps as the code's does. `fell` is history: the ledger has gone down.

**AccessServer.** `main` is the next call of `main()`, `net` the place of the network
thread inside its serving loop; `recv` follows what becomes of the received message
(heap, freed, replaced by the send buffer) through each command. SIGINT comes at any
moment.

**Payments.** `slot` is the table of confirmation services, `bill` the file. The
update of the bill by a callback is cut into read, truncate and write, because the
network thread appends and reads meanwhile. Transactions differ only in their order of
arrival, so the next one is `Fresh`, in place of a symmetry set, which liveness
forbids. The two mutexes are only ever taken by
the network thread and are left out. Readers of the bill see its first record only,
because records are written with their NUL and searched with `strstr`.

**Collectors.** `node[s]` says where the JSON pointer of a signal points: nowhere,
into the tree, or into a freed tree. The dump is cut at the test of `json_started`,
the `trylock`, the free and the rebuild; the fillers are translated one by one, the
Modbus filler with its slip (an unwanted brake 2 resets brake 1). One signal stands
for the twelve of the CAN plugin and one for the nineteen of CANopen: each has its own
pointer, treated alike. A filler that runs after its plugin has freed the dataset
sees arbitrary flags. Dereferencing NULL kills the process, using freed memory may,
and both are recorded in `wild`; what a write into freed memory does to other data is
not followed further. `can_thread` ignores a failed `can_open`; the model keeps the
loop on the dead socket.

**Obdii.** A socket is an open file description: `bound` says for which ECU, `ecu` which
queries the car has yet to answer, `rx` which answers wait. `conn` is the daemon's list
with its reference counts, `inbox` the requests in front of it, `box` the datagrams in
front of each process; code and descriptor are two datagrams and two steps. Calls may be
interrupted in `recv`, processes may die with their requests under way, and the daemon
may be restarted, which leaves processes connected to the old one (`lost`). The car
answers in order, late or never; a query gives up after its second. `flock` is left out
because it is granted to the description, which all users of a shared socket have in
common. `result`, `given` and `sent` are history.

**ObdiiCodec.** The commands are the code's tables (79 of mode 1, trouble codes, three of
mode 9) with their expected lengths. Of an answer the two bytes it is recognised by and
its length are kept; `DecoderReads` says how far each decoder reads.

**Actuators.** `doing` is the step of the action that runs: drive the pin, sleep, drive it
back, print, tell the Tangle. GPIO calls fail and the process dies at any of them; `pin`
survives. `memcmp` compares over the length of the action's name, so a value that only
begins with a name finds that action.

**Dataset.** The names of an array are looked up one per step (`index` is the next), the
bytes of the selection are written one after the other, and a collector may look at all
of them in between. `options` and `fields` keep the difference of order between the
table of names and the structure; a name selects the first option it is a beginning of.

**Nmea.** The stream is a sequence of symbols, four to a sentence; `GpsRead` returns any
number of them, and a step of the loop takes one `strtok` token, so that the dumper may
run between two lines of one read. `processed` is history.

**Minmea.** Characters are the sets of their bits that are 1, `^` is the symmetric
difference. `minmea_check` works on strings of any characters, with the code's tests of
length, `$`, printable characters, digits and the end; `strict` is false, as the GPS plugin
passes it. `Unprotected` names the changes of one character that it does not notice: the
`*` turned into another printable character, an early end of the string, a digit in
another case. `minmea_scan_f` scans a field character by character with `MAXINT` in place of
INT_LEAST32_MAX; value and scale are kept as the code keeps them, and the state "overflow"
says that the scale did not fit.

**Modbus.** An answer has three pieces, and `read` returns any number of those on the line.
Besides its answer a device may send an exception, something damaged or nothing, which is
also what a failed `write` or a port that was never opened comes to; `read` may fail. In a
buffer that does not begin with an answer the number of bytes is anything (`BytesRead`),
and more than one word is stored behind the variable (`overrun`), where the model stops. An
exception passes the CRC: the sum over the frame and its own CRC is 0, and so are the
bytes behind it. The loop reports what its variable holds, whether the call succeeded or
not; `reported.ok` is the result the code ignores. `slips` counts what went wrong.
`calculate_crc` is the code's, bit by bit on words that are sets of bits.

**Configuration.** `Parse` is the loop over the characters of a file with the code's flags, a
recursive function; the look-up works on its tokens. `Lookup` is the reference, on lines.
`Letters` are the characters that mean nothing to the parser; `NamesOK` and `ValuesOK` say
what names and values may be (the names of the repository's `config.ini` are such).

**Devices.** The parts share nothing, so a behaviour exercises one of them: `part` is chosen
at the start. Functions without state are called once with any argument.

## 3. Runs

| Run | Instance | Distinct states | What it shows |
|---|---|---|---|
| `policy_store` | 2 policies, 2 contents, index of 3, 2 faults, symmetry | 272 k | `Durable`, `Listed`, `FlushFindsId`, `ReaderTold` |
| `policy_loader` | 3 policies (1 refused), 4 lists, 3 versions, 2 faults, 1 restart, 2 requests | 5.6 M | `CaughtUp`, `PendingInList`, and the refinement `Distributes` |
| `policy_loader_live` | the same, 1 fault, 1 request | 0.8 M | `VersionCatchesUp`, `StopReturns`, `EventuallyStored` |
| `policy_loader_ack` | 1 fault suffices | | **violation**: "ok" although a policy is missing |
| `balance_service` | balances mod 6, threshold 3, 1 failed query | 4.5 k | `GrowthNoticed`, `StopHonoured`, `PaymentNoticed` |
| `balance_service_fall` | the same | | **violation**: a falling balance is reported as a payment |
| `access_server` | 3 clients, all kinds of fault | 11.8 k | `NothingLost`, `ServedAlive`, `AllAnswered`, `Exits` |
| `access_server_reply` | 1 client | | **violation**: "access granted" for every decision but "grant" |
| `payments` | 3 transactions, 1 policy, 2 slots, 1 fault, time-out 1, interval 2 | 465 k | `ThreadsTracked`, `ClearedOnce`, `VerifiedHasCause`, `RecordsKept`, `StoreReturns`, `WaitEnds` |
| `collectors` | builds {can, canopen}, {canopen, gps}, {gps, modbus}; 2 seconds, period 1 | 299 k | `LockedWritesLive`, `OverwriteOnlyEarly`, `ReadersDataAlive`, `ReaderStops` |
| `obdii` | 2 processes, 2 ECUs, 2 sockets, 3 opens, 3 queries, 1 fault of any kind, symmetry | 2.38 M | `HeldIsListed`, `SocketAsAsked`, `AnswerAge`, `WaitsForAnswer` |
| `devices` | see below | 213 k | `RelaysSettle`, `SelectionIsLast`, `CutsDoNotMatter`, `RegisterIsOwn`, `ConfigMeans`, `InputsExact`, `TablesInBounds` |

`TypeOK` is checked in the runs of the store and the loader. In the other modules it is
the first conjunct of an inductive invariant and proved (section 4).

Why these bounds are enough to see the interesting cases:

- *Store*: two policies are needed for one operation to harm the policy of another;
  three index entries allow a policy stored twice beside another one; two faults
  allow a fault during the repair of a first one.
- *Loader*: the lists share policies, one is empty and one holds a policy the PAP
  refuses, so that a new list can arrive in the middle of an old one's loop with
  more or fewer entries; a request's array has no entries or two, fewer or more than the
  list at hand; two requests can overwrite two lists, or one list before and after its
  version is copied; `MAX_GET_TRY` is the code's.
- *Balance*: modulus 6 and threshold 3 give balances that reach the threshold
  exactly, exceed it, and wrap.
- *Server*: the third client finds whatever state the second one left after a first
  one had left its own.
- *Payments*: two slots and three transactions, so that the table is full, a slot is cleared
  and reused, and a callback searches while the other slot is being emptied. With one
  policy id the order of the records is not seen by TLC: that part of `RecordsKept` is
  shown by the proof. A time-out below the interval gives one poll before it, and the
  confirmation may come before or after.
- *Collectors*: with period 1 a dump in one second and the next in the following one
  suffice for a stale test, an early dump and the overwriting it leads to. A larger
  instance (period 2, three seconds, builds {can, canopen}, {canopen, gps} and
  {canopen, modbus}, two CAN signals, safety only, 4.9 M states) was checked by hand.
- *OBD-II*: two processes share a socket, or have one each for the same ECU or for
  different ones; three opens allow a close and a second open while the other process
  still holds the socket; three queries allow one that is given up, one that reads its
  answer and one after that; the two commands, engine RPM and vehicle speed, have answers
  of different length and PID.
- *Devices*: three actions and two faults, so that a pulse that was cut is followed by one
  on the same relay; arrays of up to two names; four sentences, read in every way of
  cutting 16 symbols; fields of up to five characters with a limit of 110, which is
  itself a number of the characters used while 111 no longer fits; four register reads with
  two slips of any kind; files of up to four lines of nine; messages of three characters or
  bytes, each changed into every sample, Nul, newlines, `*` and unprintable ones included;
  every command with every length of answer from 0 to 8.

Fairness. Weak fairness is assumed of the steps of each thread as a whole: threads
are scheduled, sleeps and queries end. Beyond that:

- `VersionCatchesUp` holds however calls fail (up to the bound), `EventuallyStored` only while
  none has failed and no request was parsed during a fetch loop: both are written into the
  property, not switched off in the run;
- the loader's TPS closes its connections; `get_tcp_response` has no time-out, so
  without this the loader may wait for ever (a hazard listed without a property);
- clients of the network thread answer or disconnect;
- in `Collectors` a thread that waits for `json_sync_lock` gets it in the end (strong
  fairness), `select` returns after its 30 ms, and nothing is assumed of the buses.
  The GPS and Modbus threads read with VMIN = 1 and may block for ever on a silent
  line; nothing is claimed of their stop.

`Obdii` and `Devices` state safety only and no fairness: the car need not answer.
No fairness is assumed of faults, of publications, of payments or of SIGINT.
`CHECK_DEADLOCK FALSE` is used where the program ends (exit of main, a thread that has
ended, the process killed) or where a bound stops the environment; in `devices` a function
is called once.

## 4. Proofs

TLAPS proves the following for every value of the constants that satisfies the named
assumption of the module.

**PolicyStoreProofs** (from `ContentsDistinct`: the markers `Absent` and `Torn` are not
contents, the bounds are naturals). The invariant `IndInv` is `TypeOK /\ Durable /\
Listed /\ InFlight`. `Durable` and `Listed` are not inductive: between `remove` and the
rewriting of the index nothing in them says that the snapshot written back is the index
that was read, nor that put has written the file it is about to list. `InFlight` says
that. From it: `StoreDurable`, `StoreListed`, `FlushFinds`, and the action property
`ReadersTold`. Lemmas describe what appending an id and removing its first occurrence do
to membership in the index.

**PolicyLoaderProofs** (from `LoaderAssumption`). `IndInv` adds to the three safety properties
`LoopComplete` (outside the fetch loop no policy is pending if the owner key is usable, and the
list at hand has a version of the TPS; without it a new list could be counted on top of an
unfinished one), `OnlyListed` (what is stored, asked for or in the list at hand has been
published, and a list is counted as a whole) and `SpoiledKnown` (while the loop runs on the
tokens of a request, what is left of the list is on record). Theorems `LoaderCaughtUp`: of the
version reported nothing is lost but by a failed call for the very policy or by a request
parsed while it was due; `LoaderPendingInList`; `LoaderVersionKnown`, which no run checks.
`LoaderDistributes` proves the refinement: the initial states map to initial states and every
step of the loader, the TPS and the network thread is a step of `PolicyDistribution` or leaves
its variables alone.

**BalanceServiceProofs** (for any modulus, threshold and number of failures). `IndInv`
adds `SeenGrows`: as long as the ledger has not gone down, first balance <= last
balance <= ledger, so that the modular difference is the real one. Theorem `ServiceGrowth`.

**AccessServerProofs** (from `ServerAssumption`: any number of clients, any of the faults).
`ServedAlive` looks at one moment of the network thread; what makes it true is the order of
the calls in `main` and what one step of a session leaves to the next. `InOrder` says the
first (the PAP is registered before the updater has an address, the PEP is up from
`access_init` to `access_term`, there is a thread only between `network_start` and its
join), `InTurn` the second. Theorems `ServerNothingLost` and `ServerServedAlive`, and
`ServerAccounts`, which no run checks: every connection is waiting, being served or
answered, and the messages leaked are no more than the connections taken.

**PaymentsProofs** (from `PaymentsAssumption`: any transactions, slots, time-out and
interval). Here `Progress` ties the network thread's place to the transaction and the slot it
works on, `Tracked` says that a service is in one slot at most and a thread keeps the slot
its callback has found, `Filled` that a done slot has a service and a slot with a service the
buffer of its policy id, `Caused` that a thread's result and the copy of the file it is
about to write claim a confirmation only if its own transaction has one, `Complete` that the
file and every copy to be written have all records. The copies matter: an update writes back
what it read before others wrote. Theorems
`PaymentsTracked`, `PaymentsClearedOnce`, `PaymentsCaused`, `PaymentsRecordsKept`.

**CollectorsProofs** (from `TimeAssumption` and `BuildAssumption`: any period and span of
time, any set of builds). `LockedWritesLive` needs that a thread is between its lock and its
unlock exactly when it holds the lock (`LockHeld`) and that pointers into a freed tree exist
only while somebody is between the free and the next tree (`FreedWhileFilling`).
`ReadersDataAlive` needs what the joins of the supervisor establish (`EndedWhenJoined`), the
action property `OverwriteOnlyEarly` that without an early dump all files are older than
the clock (`FilesDated`). Theorems `CollectorsLockedWrites`, `CollectorsDataAlive`,
`CollectorsOverwrite`.

**DevicesProofs** (any number of actions, faults, names, reads, slips and sentences; from the
assumptions of the parts and `DevicesAssumption`) proves the invariants of the parts with a
state from their own specifications and lifts them: `DevicesCompose` shows that `Devices`
implements `RelaySpec`, `DatasetSpec`, `GpsSpec` and `ModbusSpec`, `DevicesHold` follows.
`RelaysSettled` needs what a relay inside a pulse is
wanted to be (`Settled`) and that the message about to be sent is the true one (`Logged`).
`ModbusRegisters` needs that pieces on the line are no older than what went wrong allows
(`NotTooOld`) and that before that the line holds the present answer or nothing
(`WholeAnswers`).
`DatasetSelection` needs, name by name, which tokens are marked (`MarkedSoFar`). `GpsCuts`
needs what the buffer holds after every token (`GpsInd`): of the sentence that is being put
together all symbols that were handled, and nothing if its beginning was never seen.

The functions without state are proved about for arguments of every length:

- The loops are recursive functions. That such a function exists, and takes one step per
  element, is proved by induction over the length (`Climb`: the elements of a set that has
  0 and with every number the next; it rests on the least counterexample, since the
  induction theorems of the library take an operator). After that a loop is a sequence of
  states, and an invariant of it is proved as for a specification.
- Checksums (`CheckExact`, `CrcExact`): two runs over messages that differ in one place are
  equal up to it, differ after it, and never meet again, because a step with the same
  input is injective; for the CRC the shift of a bit and the polynomial's highest bit show
  which of two words came from which. `CheckExact` then goes through the places of a
  sentence: where the loop stops (`StopsAt`) decides what is compared (`CheckedWhole`) or
  only looked at for its end (`CheckedBare`).
- Numbers (`ScanExact`, for any `MAXINT` of at least 9): in the whole part (`WholeLoop`) the value
  is that of the digits read, in the fraction (`FractionLoop`) also the scale is that of their
  number, until the first digit that does not fit.
- Tables: `DecodersInBounds`, for answers of every length, and `SupportedListFits`, for every
  answer of a car about the commands it supports, by a bijection between the PIDs that are
  counted and the commands that are listed.
- Configuration (`LookupHolds`, for files of any length, from `ConfigurationAssumption`). In four
  stages: what the parser's state is after a comment, a group or an option that begins at
  any offset (`CommentLine`, `GroupLine`, `OptionLine`); by induction over the lines, which token
  is that of which line and what it says (`TokensSay`), where the size of a group's token
  is the number of tokens up to the next group or the end so far; that comparing a token's
  text over its own length finds the name it was made from and no other (`NamedIs`, where
  `NamesOK` is needed); that the first token found is the token of the first line of the
  reference (`SmallestToken`), and what is copied of it (`ValueFound`).

Hence `InputsAreExact`, `TablesStayInBounds` and `ConfigurationMeans`, invariants of `Devices`.

**ObdiiProofs** (from `ObdiiAssumption`: any finite set of processes, any parameters, commands
from the tables, any bounds). Its invariant has three parts.
`SocketInv`: which sockets a process can have, what the daemon's list says of them, and that a
private socket is nobody else's. `QueryInv`: answers and commands on a socket have ascending
numbers (`InOrder`), those not yet read on a private socket are above the number of
answers taken (`Unread`), which bounds the age of the next one (`AnswerAge`), and a private
socket that `select` reported still has its answer (`ReadReady`). `CallInv`: who waits for
the daemon has a request or a reply under way (`Replied`), and unless a call was interrupted
at most one request (`OneRequest`) or one answer that fits it (`OneAnswer`). The reference
count is not related to the holders alone: `Counted` also counts processes whose open was
granted but not read and whose close is not yet handled, dead ones included, as a finite set
of which one step adds or removes at most one. Theorems `ObdiiHeldListed`,
`ObdiiSocketAsAsked`, `ObdiiAnswerAge`, `ObdiiWaits`.

Each module also proves that the variables keep their types. All inductive invariants were
model-checked first, with the bounds of section 3; that of `Obdii` also with two faults and
two queries.

Only model-checked are the liveness properties (`VersionCatchesUp`, `StopReturns`,
`EventuallyStored`, `StopHonoured`, `PaymentNoticed`, `AllAnswered`, `Exits`, `StoreReturns`,
`WaitEnds`, `ReaderStops`): fairness is out of the prover's reach. Every invariant, every
action property and the refinement that a passing run checks is also a theorem.

## 5. Findings

Kept as violation runs, with the line they contradict, under `findings` in
`PROJECT.json`: the reply of `network.c:197` is the opposite of the decision; the loader
takes over a version before its policies; the unsigned difference of balances.

Seen while modelling, part of the models, not a run of their own:

- A policy stored twice is listed twice, and a flush removes one of the entries
  (`pap_plugin_posix.c:275`): it stays listed.
- Records of the bill are written with their NUL and searched with `strstr`
  (`posix.c:70`, `posix.c:160`): a policy stored second is "not stored".
- A `balance_service_stop` before the thread writes `status = 1` is lost
  (`wallet.c:231`); likewise a `canthread_stop` before `can_open` clears `end_loop`
  (`can_linux.c:72`), after which the supervisor joins for ever. `StopHonoured` and
  `ReaderStops` state what holds after that point.
- A first failing query ends the balance service without its callback.
- `main` prints "Aborting." when the wallet cannot be created and goes on; when
  `network_start` fails it has freed the context that `main` then stops.
- The loader asks for every policy of a new list; `docs/08-apu.md:11` speaks of those
  that differ.
- The Modbus thread writes without the lock, and the GPS thread without a look at its
  pointer: TLC reaches states in which they use NULL or freed objects, so
  `LockedWritesLive` is about the other two plugins.
- Two collectors that test `json_started` at the same time both dump; the second file
  is overwritten by the next dump.
- `dataset_init` cuts the string of options in place, and both CAN plugins pass the same
  one: the second one registered never gets its flags.
- The option table of the CAN dataset has its first two names in the other order than the
  structure (`Swapped`): a client that asks for the one door gets the other.
- `flock` in `OBDIIPerformQuery` excludes nobody on a shared socket: two processes may both
  pass `select` for one answer and the second one blocks. `WaitsForAnswer` claims this of
  private ones only.
- A query that times out leaves its answer for the next query of the same command, which
  is then one behind for good (`AnswerAge` gives the bound).
- A shared open interrupted between its two datagrams leaves the daemon's answer in the
  socket: the next call takes it for its own, and the reference count keeps the user that
  never was. `HeldIsListed` and `SocketAsAsked` state what holds before that.
- A process that waits for the daemon across its restart waits for ever.
- PID 3 of mode 9 is counted among the supported commands and has no entry: the last
  element of the list is what malloc returned (`TablesInBounds`).
- `config_manager_get_option_string` writes one byte past what it copied plus its 0: within
  the buffer only if the value is at least three shorter (`ConfigMeans`).
- minmea refuses a value that does not fit but multiplies its scale without a test
  (`minmea.c:162`): ten decimals of which the first are zeros, such as 0.0000000001,
  overflow it (`InputsExact` says exactly when).
- The Modbus loop ignores the result of a read and reports the variable in any case. A read
  that begins in the middle of an answer takes any byte for the length: up to 127 words are
  stored from a variable for one on, and the CRC runs past the buffer (`modbus.c:90-99`).
  An exception answer returns success, with its CRC bytes as the register, and with a code
  of 4 or more writes behind the variable.
- With `strict` false (`pip_plugin_gps.c:200`) a sentence whose `*` was changed, or that ends
  early, passes `minmea_check` without its checksum.
- A request parsed by the network thread while the loader fetches costs the policies that are
  left, and the version is kept (`CaughtUp`, `spoiled`).
- The count of VIN messages has no decoder (`OBDII.c:370`) and decoding it calls a null pointer
  (`OBDII.c:230`); `TablesInBounds` says nothing of that command.
- A relay whose pulse is cut by the death of the process stays on, also after a restart.
- `wallet_get_address` stores a count relative to its own start (`wallet.c:151`) as the next
  start and as the index it returns, which is the index of the address (`wallet.h:142`)
  only if the search began at 0.

## 6. Not modelled

- The values decoders compute from CAN frames, OBD-II answers and registers: formulas of one
  line each, without state.
- `plugins/pip/can/lib.c`, `plugins/pip/canopen/lib.c` (copies of can-utils), the message tables
  `can_msgs.h` and `can_msgs_alt.h`, jsmn, build files: third-party or generated.
- `canopen_sdo.c`, which packs and unpacks single frames; its caller is in `Collectors`.
- `plugins/pip/gpio`: one read of a pin per request, no state; how the attribute is passed on is
  decided by a structure of the SDK that is not in the repository.
- Functions without a caller in the server: `relayinterface_toggle`, `datadumper_get`,
  `datadumper_deinit`, `confirmation_service_stop`, `checked_count` of the dataset.
- minmea's sentences and field types the server does not use; a damaged Modbus answer whose CRC
  matches by chance; what the Modbus thread does after its stack was overwritten; setting up
  the terminal.
- Bounds of fixed buffers other than those a property is about: a GPS read of exactly 100
  bytes puts its 0 behind the array (`pip_plugin_gps.c:194`), and `nmea_sentence_buffer` is
  appended to without a bound (248, 251), the model's sentences being well framed; `data[2048]` and
  `tokens[1024]` of the configuration (`config_manager_implementation.h:25`); `tokens[256]` and
  `tokname[128]` of the dataset (`vehicle_dataset.c:155`, `vehicle_dataset.c:189`); the 4096 bytes cleared in a
  buffer of `recv_len` for an invalid command (`network.c:345`).
- In `AccessServer` an empty reply (ENABLE_POLICY) counts as an answer.
- Configuration files with empty lines, with a last line without newline or with an option before the first group, and names of
  which one is the beginning of another: the parser compares over the length of the file's
  name and would find the shorter one.
- The SDK behind PAP, PEP, PIP, PDP, the authentication library and the IOTA client: not in
  the repository, external in the models.

## 7. Plan

Done: `PolicyStore`, `PolicyLoader`, `BalanceService`, `AccessServer`, `Payments`, `Collectors`
with the data dumper, `Obdii` and all parts of `Devices`, each with its proofs; the abstract
specification `PolicyDistribution` and the proof that `PolicyLoader` implements it; the proof
that `Devices` implements its parts.

Left:

1. `PolicyLoader` composed with `PolicyStore` in place of the set `stored`, with what a cut
   put means for the version already taken over.
2. Action properties for the parts that have only invariants: what an update of the bill
   may change, what the daemon may do to a connection that has users.

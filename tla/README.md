# A TLA+ model of the Virtual Fabric Manager

The Virtual Fabric Manager (VFM) is the control plane of a software FCoE
gateway. It listens on a raw Ethernet socket for FIP frames that a BridgeX
tunnels to it, logs hosts in to a Fibre Channel fabric, keeps an inventory of
I/O modules, vadapters and vfabrics in SQLite, and offers a management API over
TCP. This directory holds TLA+ modules that model it, TLC configurations that
check small instances, and TLAPS proofs for the parts that can be proved for
every size. Paths below are relative to `src/src/vps/vfm/`; the build modelled
is that of the `Makefile` (`-DMELLANOX -DOPEN_FCOE`, no `VFM_EOIB`).

## 1. Inventory

| Component | Source | State | Operations | Module |
|---|---|---|---|---|
| Task queue | `vfm_queue.c` | linked list, tail, counter, mutex, condition variable | `add_task_to_queue`, `get_task_from_queue` | `TaskQueue`, `TaskFifo` |
| Frame parser, dispatcher and builder | `sniffer.c`, `vfm_fip.c`, `vfm_create_pk.c`, `sender.c` | none between frames | `process_packet`, `decide_packet`, `create_packet`, `send_packet`, `send_fc_packet` | `FipFrame` |
| Exchange table | `map_util.c` | `g_req_map`, `vfm_oxid_index`, mutex | `add_entry_to_map`, `get_entry_from_map`, `remove_entry_from_map` | `ReqMap`, `OxidMap` |
| FC login | `sniffer.c`, `vfm_create_pk.c`, `server.c` | `g_gw_src_id`, the exchange table | `create_vfm_flogi`, `create_packet_ex`, `process_fc_response`, `prepare_fdisc_res`, `create_reject_els`, `process_fc_els_res` | `FcLogin`, `LoginService` |
| Raw sockets | `sender.c`, `net_util.c` | `send_sd`, `g_socket_addr` | `send_buffer`, `open_socket`, `bind_socket` | `SendSocket` |
| Resource database and API handlers | `db/`, `vfm_iomodule.c`, `vfmapi_vadapter.c`, `vfmapi_vfabric.c`, `vfmapi_bridge_device.c` | the tables of I/O modules, vadapters, vfabrics and bridges | discovery of an I/O module, create, edit, online; the inventories | `ResourceDb`, `Inventory` |
| API transport | `vfmapi_server.c`, `vfmapi_impl.c`, `vfmapi_common.c`, `vfmimpl_*.c` | `c_sockfd`, `req_tid`, `client_no`, a thread per client | `cli_listener`, `process_client_request`, `unmarshall_request`, packing and unpacking | `ApiSession`, `ApiCall`, `Inventory` |
| API client library | `vfmapi/` | one `sockfd` a process | `create_connection`, `process_request`, `unmarshall_response`, the stubs | `ApiSession`, `ApiCall`, `Inventory` |
| Python binding | `vfmapi/pyapi/` | the pending exception | ten calls: create, edit, online, inventories | `PyApi` |
| Configuration, start-up, end | `config.c`, `server.c`, `common.c` | the globals of `common.c`, the log, the database handle, the action of SIGINT | `read_config`, `pre_initialization`, `initialization`, `main`, `vps_trace`, `termination_handler` | `Config`, `Lifecycle` |
| EoIB gateway | `vfm_ib.c`, `vfm_iboe.c` | `g_conx_qpn` and others | only with `VFM_EOIB` | not modelled |
| Command line | `../cli/` | the prompt of one user | command interpreter | not modelled |
| BridgeX simulation | `ext/` | | throwaway code (`README:59`) | not modelled |

**How they interact.** `main` starts one sniffer, two processors and the API
listener, logs the gateway in, waits two seconds and advertises the gateway.
The sniffer puts every frame in the task queue; a processor takes it, parses it
and either enters an I/O module in the database, answers a keep-alive, forwards
a login, or returns a response of the fabric to its host. All threads share the
exchange table, the gateway's FC id, the send socket and the database handle.
Each API client has a thread of its own that reads and writes the database and
may send advertisements. A Python program links the client library: its
dictionaries become attribute structures, and the rows the VFM packs become
dictionaries. SIGINT may interrupt any of these threads, and the handler closes
the log and the database that the others use.

**What is hard.** Two processors on one queue and one table, with a mutex that
covers a single table operation while the pointer it returns is used later. A
gateway id and a socket that several threads write with no lock. `max(id) + 1`
in one SQL statement and the insert in the next. A stream connection read with
single `recv` calls, a listener whose arrays are never reused, processes at
either end that stop in the middle of a call. Frames whose headers are found at
positions that depend on the headers before them, with lengths of one byte.
Blocks sized by one statement and filled by the next, on a connection that other threads
write to in between. A signal handler that traces and closes files, and so waits
for locks that the thread it interrupted may hold.
`PROJECT.json` lists these hazards with their lines and the properties that
would notice.

**What makes each part correct.**
- Queue: first in, first out; every frame to exactly one processor; no lost
  wakeup; every task freed once.
- Exchange table: an exchange id leads to the login it was given to, for as
  long as the exchange lasts; entries are freed once and not leaked.
- FC login: a host gets the answer to its own login, once, under its own id;
  the gateway's id is its own; nothing is used after it was freed.
- Frames: the right handler with the right values; no read behind a frame whose
  list is complete;
  FC frames leave with their length; a frame that is sent can be read back.
- Sockets: the race of the first senders ends with a usable socket and address.
- Database: ids dense and unique, creators told the truth, an online reported as
  it went.
- Inventories: what is shown is what the tables held at some moment of the
  query, and it fits the memory made for it.
- Python binding: NULL and an exception come together.
- Life of the process: it runs with what the file says, logs in only when that
  allows it, and ends on SIGINT.
- API: a thread serves its own client, a call returns its own answer or fails,
  an end of either process is noticed by the other.

## 2. Modules

Every module keeps the names of the source. Definitions whose name ends in a
suffix after an underscore (`AddBroadcast_Signal`) are seeded faults: variants
that a plausible slip would have produced, used to show that a property can
fail.

**TaskFifo, TaskQueue.** `TaskFifo` is what the queue promises: a sequence of
frames and what each processor has in hand. `TaskQueue` is `vfm_queue.c`.
Addresses come from a set of nodes and are reused as soon as they are freed,
with the old `next` field left in them, since `malloc` does not clear it. A
critical region is several steps (linking a task, counting it, the broadcast;
the test of the counter, falling asleep, taking the head, advancing): the mutex
keeps those of two threads apart, not the grain of the model. What has one step
of its own is several statements where it writes more than one field, as in
linking. `pthread_cond_wait` gives up the mutex and falls asleep in one step, as
POSIX has it, and may return for no reason (`SpuriousWake`). `TaskQueue`
implements `TaskFifo` under the mapping that reads the frames along the list.

**ReqMap, OxidMap.** `ReqMap` holds the table and its three operations, each one
step because each runs under `map_mutex`. `OxidMap` drives it alone, with logins
added and answered in any order; `FcLogin` drives it as the code does.

**FcLogin.** The main thread, two processors, the fabric, and the queue as the
sequence `TaskFifo` describes. `create_packet_ex` and `process_fc_response` are
split where another thread can come between: before and after each table
operation, between the lookup and each use of the pointer, before the removal.
Freed memory reads as any request, a null entry ends the process. The fabric
answers a login it has received once, with an accept, a reject or any other LS
code (`OtherCodes`): for the VFM's own login that is as good as an accept
(`VfmAcc`), for a host's the `switch` has no case, so that nothing is sent and
the entry is removed (`NoVerdict`). `LoginLost`, `AnswerAgain` and
`FabricEls` are the unreliable network and other ports. Of an answer two things
are assumed that the code does not check: it is long enough for its FC header,
and its OX_ID is a slot of the table. A login has S_ID 0
(`prepare_fc_hdr`), so a reject has D_ID 0.

**LoginService.** What `FcLogin` amounts to for a host: it asks, the fabric
decides once, the host is told once what was decided, under its own OX_ID and
with the MAC made from its FC id. `ImplementsLoginService` reads `asked` off the
FLOGIs sent, `decided` off the fabric's answers, and `sound` as `Clean`; once
that is lost the service promises nothing.

**FipFrame.** One frame at a time. A frame is a sequence of segments with
lengths in double words, the unit of all headers and descriptors; reading at a
position yields the segment that starts there, or `Junk`. `process_packet` is
five reading steps followed by the handler. Only what decides positions,
lengths, handlers and values is kept. What a handler does to shared state is
left to `ResourceDb` and `FcLogin`. Frames sent are built from the same
segments, so that a frame can be compared with what its headers announce. A frame has
all or only the first of the descriptors its handler expects, or none, and
announces as much (`Messages`): `process_packet` tests that the announced list
was received and nothing else, so that a short list is read behind its end. If the
frame an FC frame is copied into would exceed the buffer of `send_fc_packet`,
the outcome is `overrun` and nothing more is said about it. The length of an FC
frame includes its header; `Junk` is none of the MACs, names and numbers.

**SendSocket.** `send_sd` and `g_socket_addr`, with a step for each access:
`open_socket` clears the address, calls `socket()`, stores the result and fills
the address; several senders and the sniffer do this at once.

**ResourceDb.** A step is one SQL statement. The tables are sets of rows; a row
with an existing primary key is refused, foreign keys are not enforced (SQLite's
default, no pragma is issued). A client's request is create, edit or online for a
vadapter or a vfabric. An edit is one update of the columns in the bitmask; an
empty bitmask is refused for a vadapter and a success for a vfabric.
`__vadapter_online` is four selects, with the wrong count tested in the third: a
null result is followed, or an uninitialised element, or ids are written behind
the block, and the VFM may end of each (`crashed`);
`process_vfm_vfabric_online` does it for each vadapter of the vfabric and keeps
the error of the last one.

**Inventory.** The three inventories, one `sqlite3_step` a step. `serving[t]` is
what a thread of the VFM has on its stack: how much room was allocated, the
cursor, the entries written so far, the offset `vfm_rsc.count` of
`process_vfabric` (never initialised, so any member of `Offsets`). `Write` is a
statement of another thread. `span[t]` is history: the rows there at some moment
of the query (`ever`) and the rows there throughout (`kept`). The message is a
sequence of cells; `MarshallResponse` writes it with the lengths of the sender
and `UnmarshallResponse` walks it with those of the receiver, both as recursive
functions. A table is a finite set of rows of which no two have the same id
(`IsTable`, after `db/vfm_db_dummy.sql`); a select meets them in that order. A
column that no statement has set is `NULL`, which no value of a where clause
equals (`Equals`) and of which the callbacks make 0 (`Structure`).

**PyApi** extends `Inventory` with the calls of the Python module: the keys each
parser looks for, in its order; the first value of the wrong type ends the
parsing; attributes nobody set are any member of `Garbage`. An inventory is
served by `Inventory` step by step, the calls that write are one step here
because what they consist of is the subject of `ResourceDb`, and how a call
travels is the subject of `ApiSession`. `CallFails` is any failure of it.
A create leaves the vfabric of a vadapter and the gateways of a vfabric `NULL`.
When the arguments cannot be parsed `validate_dictionary` returns a null pointer;
the inventories test for it, the other calls follow it and the program ends
(`UnparsedCall`).

**Config, Lifecycle.** `Config` is `config.c` as operators on the pieces of
lines that `fgets` hands out; a file is the sequence of its pieces, each marked
with whether it continues the line before it. Beside them stands what a reader
would take the file to say (`AsFileSays`). `Lifecycle` is the process: `main`
from its first line to the last frame it sends, the four other threads as far as
they trace and query, and SIGINT on any of them. A thread has two contexts, its
body and its handler; while the handler runs the body stands still. `vps_trace`
is four steps, with the lock of `localtime`, which `init_log` takes too, as a
variable of its own. `heap` is the lock of `malloc` and `free`, which a body may
hold at any point (`Allocate`) and which `fclose` and `sqlite3_close` need in
the handler. A closed log or database that is used is recorded with the thread
that uses it and the one that closed it, and the process may die of it. Left
out: SQLite's own mutexes and the locks of stdio's streams, which the same
thread may take again; `pthread_create` failing (the result is traced only); and
several traces of `main` in a row, which are one. Numbers are those of a few
texts, and `2^16` stands for `2^32` in the conversion of a negative `fcoe_t11`.
A line too long for one of its buffers (`type[50]`, `value[50]`, `temp[30]`,
`g_if_name[10]`) kills the process, is taken, or is not taken.

**ApiSession.** Client processes, connections as two streams, the listener, one
thread a connection. Requests are whole; answers are sequences of pieces of
which one `recv` takes at most `BufLen`. A connection is *in step* (`sync`) as
long as every answer fitted one `recv` and every request got one. The other end
of a connection is open, closed (`fin`), reset (`rst`) or reset and reported
(`pipe`: the next send raises SIGPIPE). A client may exit at any point, the VFM
may be stopped and started again.

**ApiCall.** What `ApiSession` amounts to for the caller of a stub: the call
begins, the VFM executes it once and the stub returns what came of it; or the
VFM ends, before or after that, and the stub fails. `ImplementsApiCall` reads
the phase of a call off the client, the stream and the thread of its connection:
it has been executed when its answer is with the thread or in the stream, and is
cut off when the connection is closed and no answer is there. A handler that
fails without the answer saying so is a call outside `Reporting`, of which the
stub returns success. Nothing is promised of a client whose connection is out of
step, until its process is started again.

## 3. Runs

| Run | Instance | What it shows |
|---|---|---|
| `task_queue` | 1 sniffer, 2 processors, 3 addresses, 2 frames | as an ordinary queue, step by step; liveness |
| `oxid_map` | 3 usable slots, 4 requests | rotation, wrap-around, overflow, recovery |
| `fc_login` | 2 processors, VFM and 2 hosts on 2 usable slots, answers of three kinds, one doubled, one login lost | exchanges stay with their logins, the gateway's id and the exit of the VFM with its own login; step by step as the abstract login service |
| `fc_login_live` | 2 hosts, 3 usable slots, one foreign ELS frame, nothing lost | every answer arrives |
| `fc_login_abort` | 1 host | disagreement 1 |
| `fip_frame` | all kinds of frames, with all, some or none of their descriptors, tags in none, either or both headers, cut at every double word up to 60, FC lengths at the limits | parser and builder agree |
| `send_socket` | sniffer and 3 senders, 2 failures of `socket()` | the race ends well |
| `resource_db` | 2 clients with 2 requests each, 2 processors, 1 host, two initial databases | the tables stay consistent, clients are told what happened |
| `create_id` | 2 clients, 1 request each | disagreement 2 |
| `api_session` | 1 client, 3 connections, 3 calls, array of 2, two exits, one stop | answers go to their callers, calls return, threads end; step by step as the abstract call |
| `inventory` | 2 programs, 1 query served step by step, 2 writes, up to 3 rows a table | what is shown is what was there, and fits |
| `lifecycle` | 34 files, 5 threads, 2 SIGINTs, 1 trace, query or allocation by a thread | starts as configured, ends when told |

**Why these bounds are enough.** `task_queue`: three addresses give an empty
list, one task, two tasks, and a third being built while an earlier one is
processed, so every branch of both functions is taken and addresses are reused;
the proof covers all sizes. `oxid_map`: one request more than slots makes the
table overflow; also proved for all sizes. `fc_login`: three exchanges on two
slots overflow the table as well as not; one duplicate and one loss each meet
every state of the other exchanges; the foreign ELS frame, which touches neither
the table nor the heap, is in `fc_login_live`. There the heap returns the first
free of numbered addresses (`MCFirstFree`), for symmetry cannot be used with
liveness; that any free address may be returned is in `fc_login`. `send_socket`:
three senders make three concurrent openings beside the sniffer's.
`resource_db`: two clients suffice to interleave a read and an insert; a request
of each can be an edit between two selects of the other's online; the second
initial database has a vfabric with two vadapters of which only one has an I/O
module, so that an online can fail for one of two. `api_session`: three
connections overrun an array of two, `MaxLen = 2` against `BufLen = 1` is an
inventory longer than a `recv`; a client that exits is followed by another on a
new connection, so that two threads of the VFM are alive together. The four
calls of `MCCalls` represent the others: an edit (value returned, can fail), an
inventory (long), a destroy (never answered), an online (error in the opcode).
`inventory`: the initial database has a vadapter on the vfabric that is listed,
one that an edit moves there, a vfabric without a protocol, and bridges with
none, one and two modules; two writes come between any two statements of the
query. `lifecycle`: the files are none, the options of the shipped one, and
these followed by one or two more lines that override, are invalid, are comments
or are cut by `fgets`; the second SIGINT meets the first one's handler at every
step; one trace, query or allocation is under way beside `main`'s own, so that
each lock can be held when a SIGINT falls. `fip_frame`: 60 double words is
longer than any FIP frame, so every cut is tried; 245 and 246 are the last
length a tunnel header can announce and the first it cannot, 356 and 357 the
same for the send buffer.

**Type invariants.** `TableTypeOK` of `OxidMap` and the `TypeOK` of `TaskQueue`,
`SendSocket`, `ResourceDb`, `FcLogin`, `ApiSession` and `Lifecycle` are parts of
inductive invariants and proved, what is needed of `FipFrame`'s is in `Basic`,
and the `IInv` of `PyApi` begins with that of its state (`TablesOK`, `QueryOK`).
None is among the runs' properties. The inductive invariants were checked with
TLC on the instances of the runs before they were proved.

**Symmetry** is used for interchangeable threads, addresses and hosts in the
runs that check no liveness. **Deadlock** is checked in `task_queue`,
`send_socket` and `fip_frame`. It is off in `oxid_map` (Adds need a free address
and a request not open), the runs of `FcLogin`, `ResourceDb` and `ApiSession`,
and `inventory`: there the environment makes a bounded number of requests and
the system rightly rests when they are used up, and in `FcLogin` and `lifecycle`
the process may end. That nobody rests too early is what the liveness properties
say.

**Fairness.** Threads of the VFM run: weak fairness of each thread's steps.
`FcLogin` and `ApiSession` need no more, and nothing is assumed of the fabric,
the network, or of clients starting, ending or calling. In `TaskQueue` the
acquisition of the mutex, and the return from `pthread_cond_wait` which includes
it, has strong fairness: a thread that is given the chance again and again gets
the mutex in the end. POSIX does not promise this, but the critical regions are
short and the kernel's futexes do not starve a waiter for ever. `api_session`
also assumes that a stopped VFM is started again (the operator). In `Lifecycle`
weak fairness is given to `main`, to each call of `vps_trace` once it has begun,
to the end of a query and of an allocation and to the handler of each thread; no
SIGINT need come and no thread need trace or query. Weak fairness is enough for
the two locks, which are held by at most the few calls the instance makes.

### Disagreements with the documentation, shown by a run

1. `fc_login_abort`: `sniffer.c:241` says `--** VFM FLOGI(RJT).. Aborting!! **--`.
   A reject goes to S_ID 0 of the request, and `g_gw_src_id` is 0 before the
   login, so line 209 takes the reject for a request to the gateway. The VFM
   answers it with an ELS reject and runs on without an id. The same happens to
   a host's reject that overtakes the gateway's own login, hence the exception
   in `AnswerDelivered`.
2. `create_id`: `vfmapi_vfabric.c:71` says "This call will return the vfabric id
   of the newly created V_Fabric." When the insert is refused because another
   client took the id, the error is dropped and the other client's id returned.

### Disagreements seen while reading, without a run

The first five are in the model; the properties are stated up to where they happen.

- `map_util.c:23` says of the id that is returned "if 0 then no empty index". A
  full table is never reported: the entry in slot 1 is overwritten and its id
  given out again (`overflowed`, `wasFull`). `OverwritesOnlyWhenFull` of
  `OxidMap`, proved but left out of the runs because `OxidLeadsBack` fails with
  it, says that nothing less than a full table leads there.
- `sniffer.c:231` says "IMPORTANT: entry should NOT be NULL here". It is for an answer
  that arrives twice (and after an overflow), and is followed (`NullEntry`).
- `vfmapi_vadapter.c:517` says "No Vfabric associated with Vadapter", and an error is
  returned. The test above it reads the count of the previous query, so that the null
  result of the select is followed (`SelectVfabric`, `crashed`).
- `vfmapi_server.c:96` says "The server continues to listen for other Client requests."
  `client_no` is never reset, so the connection after the last element of the arrays is
  written past them (`overrun`), even when all the clients before have gone.
- `vfmapi/vfmapi_connect.c:51` says "create a socket and establish a connection with the
  server. If it is already created then return the socket fd." The socket of a failed
  `connect` is kept and returned as created (`CallRefused`).
- The `switch` of `sniffer.c:262` has no default: an answer to a host that is neither
  an accept nor a reject is dropped with its exchange; to the VFM's own login
  (`sniffer.c:235`) anything but a reject counts as an accept.
- `process_fc_response` ignores the error of `read_fc_hdr`, and `map_util.c` uses the
  exchange id of an answer as an index with no test of its bound.
- `process_packet` (`sniffer.c:813`) tests only that the announced list was received.
  A login's handler reads the FC frame and a MAC (`vfm_create_pk.c:490,505`), the
  descriptor parsers and the two footers (`sniffer.c:832-840`) what they expect,
  of a shorter list from behind the frame. `ReadsInside` is stated for lists that are
  `Complete`; the shorter ones are in the model.
- `sniffer.c:208` "IF fc request coming from FC plane reject it": one that the
  second processor classifies before the first has stored the gateway's id is
  passed to a host.
- `vfm_create_pk.c:732` tests `flags && SET_FP` (and the flags are never 0), so
  a host that asked for a server-provided MAC is granted a fabric-provided one.
- `vfmdb_iomodule.c:152` "IO Module already discovered": two processors that
  look the MAC up together both enter it; `MacRowsBounded` is what remains true.
- `vfmapi_vadapter.c:574`, `vfmapi_vfabric.c:180` and
  `vfmapi/vfmapi_vadapter.c:391` "Returns 0 on success, or an error code on
  failure": the result of `process_vfm_vadapter_online` is dropped at
  `vfmapi_impl.c:133`, and for a vfabric only the last vadapter's error counts.
  `ImplementsApiCall` has the stub return the handler's error for the calls that
  do report (`Reporting`), `OnlineReported` says what the answer for a vfabric
  still means.

- `vfmapi_vadapter.c:510` runs `process_vfabric`, written for the view with a
  vadapter count, on the table without one: the ids are written behind a block
  that has no room for them. One of the three ways out in `WritesInside`.
- `vfmdb_vfabric.c:31` adds `count`, which nothing sets, to the place of an id.
- `vfmdb_bridge_device.c` compares `vfm_guid` with parameter 2, whose value is
  bound as parameter 1 when the guid of the bridge is not asked for too; and
  `vfmdb_vfabric.c` tests the backup gateway whenever the primary one is asked
  for. The vfabric of a vadapter that was only created, and the gateways of a
  vfabric, are null in the tables (`vfmdb_vadapter.c:53,76`, `db_access.c:411,426`):
  they are shown as 0, but a query for 0 does not find them. `Unfindable` names these
  queries.
- The wrappers of `pyapi_*.c` "On failure, it will return NULL and throw the
  relevant Python exception": a dictionary with a value of the wrong type is
  parsed half way and the call goes on, with an exception pending for vfabrics
  and none for vadapters and bridges; an edit without `id` uses what is on the
  stack. `ExceptionExplained` is what holds. With no argument, or more than one,
  `validate_dictionary` returns a null pointer: the inventories test it
  (`pyapi_vadapter.c:452`, `pyapi_vfabric.c:460`, `pyapi_bridge.c:184`), the others look
  for their keys in it (`pyapi_vadapter.c:206,532,573`, `pyapi_vfabric.c:322,364,413`),
  and the program ends.
- The errors of the statements of an inventory reach no client
  (`StatementFails`): it gets what there is as an answer.
- `config.c:144` tests `g_vfm_local` for a negative `mgmt_mode_remote`, which is
  accepted; a `#` anywhere drops the line; a path shorter than an earlier one
  keeps that one's tail, as its terminator is not copied.
- `server.c:144` announces a shutdown that has an empty body.
- `server.c:192`: the handler calls functions that are not async-signal-safe. When
  it interrupts `localtime`, `malloc` or `free` that is a deadlock, the exception in
  `SigintEnds`.
- `sniffer.c:395` "send a response if required": a solicitation is not
  answered, the call is commented out.
- A tagged FCoE frame of a host is forwarded one double word too long: the
  length subtracts a header of four double words (`sniffer.c:554`). `ElsWhole`
  is stated for untagged frames, and up to 245 double words because the
  announced length is one byte.
- `create_tlv` writes types 5 and 7 shifted by two or three bytes with the
  length of the whole value, and `get_tlv_value` copies four bytes from a
  `uint16_t` for type 6. Below the double-word grain of `FipFrame`.
- The two footers are copied from the start of the descriptors; they are not used.

## 4. Proofs

Eight modules, one beside each component with theorems, are checked by TLAPS for
every value of the constants that satisfies the named assumptions of the modules.
They prove every safety and action property of the passing runs. The assumptions:

- sets of threads, clients and hosts are disjoint where they are different
  things, `NULL` (of a column: no number), `NoThread`, `NoFrame`, `NoRequest`
  and `NoId` are none of the values they stand apart from; bounds are natural
  numbers;
- `MapLenAssumption`: the exchange table has at least two slots (1024 in the code);
  `LoginAssumption`: its requests are the
  logins of the hosts and the VFM's own; `CodeAssumption`: the other LS codes are
  neither accept nor reject;
- `FilesAssumption`: `vfm.config` is any sequence of pieces, of any length;
- `CallsAssumption`, `LengthAssumption`, `ClientAssumption`: the calls are stubs of
  the library, buffers, answers and arrays are not empty;
- `ProcessorsAssumption` (finitely many), `ProtocolsAssumption`,
  `OldNamesAssumption` and the `InitialDbsAssumption` of `ResourceDb`: the database at
  the start is one an earlier run can have left (ids dense, a MAC at most once a
  processor);
- the `InitialDbsAssumption` of `Inventory`: its tables are finite, ids are primary
  keys, and `max(id) + 1` has begun with 1; `OffsetsAssumption`, `UnsetAssumption`: an
  uninitialised offset is some number, and memory nobody wrote to is told from an id;
- `FcLenAssumption`: the length of an FC frame includes its header, six double
  words; `T11Assumption`; `MulticastAssumption`: the multicast address is no
  host's; `JunkAssumption`: what lies beyond the frame is no MAC, name or number,
  so that a value read there is told from every right one.

How the argument goes, a module at a time. In each, `IInv` is the inductive
invariant, one lemma proves each action (or kind of thread), and one step of it
each conjunct the action can disturb.

- **`TaskQueue_proofs`** (`Invariance`, `QueueSafety`, `ListIntact`,
  `WakeupNotLost`). None of the properties of the queue is inductive alone.
  `ListIsFifo` needs `MutexHeld` (one thread in the region) and `OneOwner` (a
  new task is not in the list, so that writing its fields leaves the list
  alone). `NeverTakesNull` needs `CountMatchesList` and `PhaseOK`: a processor
  past the `while` has seen a count above zero under a mutex it still holds, and
  one about to sleep has seen zero, so that `NoLostWakeup` survives its falling
  asleep. `CountMatchesList` needs the exception for the step between linking
  and counting. `IInv` is their conjunction.
- **`TaskQueue_proofs!Refinement`** (`Spec => ImplementsFifo`). `AddLink` is
  `Put`, `GetAdvance` is `Take`, freeing is `Finish`, everything else stutters.
  `AddAlloc` writes the data of an address, which is invisible because by
  `OneOwner` that address is in nobody's hands.
- **`SendSocket_proofs`** (`AddrSettles`, `FailuresExplained`). `SettledAddr` is
  inductive given the types: only `ClearAddr` falsifies the address, and it puts
  the thread inside `open_socket`; the last thread to leave has filled it. That
  calls fail only meanwhile needs one fact more: as long as no `socket()` has
  failed, a descriptor that was stored is open.
- **`ResourceDb_proofs`** (`Invariance`, `IdsStayDense`, `MacRowsStayBounded`,
  `CreateReported`, `VfabricOnlineReported`). Rows are never
  removed, so an id computed from `max(id)` is at most the next one whenever it is
  used (`ChosenIds`): the insert takes exactly the next one or meets an existing
  row and is refused. `MacRowsPaidFor` counts the rows of a MAC and the processors
  about to enter it together; a processor adds itself only when it saw no row,
  and `Cardinality` lemmas carry the sum through the insert. `NamesFresh` says
  that a row's name is that of a request already sent, so a later create cannot
  be confused with it.
- **`FcLogin_proofs`** (`Invariance`, `TableStaysIntact`, `ExchangesTracked`,
  `EntriesAreOurs`, `RepliesAreRight`, `GatewayKeepsItsId`, `NothingLeaks`,
  `ServiceInvariance`, `LoginServiceImplemented`).
  `TableIntact` holds always, after an overflow and with doubled answers too.
  The others hold while `Clean` (no answer twice, no login on a full table) and
  rest on `CleanInv`, the statement that a login is in one place at a time:
  `OnePlace` (about to be sent, at the fabric, in the queue or in one processor's
  hands, and only once), `UnsentNowhere` and `FinishedGone` (before and after it
  is nowhere), `ResponsesOK` and `RepliesOK` (what an answer and a reply say). It
  is the uniqueness that makes a pointer used outside `map_mutex` safe: nobody
  else has the exchange whose removal would free it.
  The refinement of `LoginService` needs one invariant more, `AnsweredOnce`: a
  response in the queue or in a processor's hands is one the fabric gave, and an
  answered login is neither unsent, nor waiting to be forwarded, nor at the
  fabric. With it a fabric's answer is a `Decide` (the login was asked and is
  undecided), `SendResponse` is a `Tell` (the reply carries the verdict that was
  decided, and the login is not `Finished`), `HostFlogi` an `Ask`, and every other
  step leaves the service as it was.
- **`FcLogin_proofs`** also holds the theorems about `OxidMap`
  (`TableInvariance`, `ExchangeTableSafe`, `NoOverwrite`). The strengthening is
  `SlotsAreOpen`: slot 0 is empty and, before an overflow, an occupied slot
  belongs to an open login. Without it an added login might be given a slot
  whose owner still waits. The search loop is a `CHOOSE` of the least empty
  slot; `LeastExists` shows that it is well defined.
- **`ApiSession_proofs`** (`Invariance`, `ThreadsServeTheirOwn`,
  `AnswersAreOurs`, `ClientCannotKill`, `OutcomesReported`,
  `ApiCallImplemented`). `SocketsOK` and `ThreadOK` tie the arrays of the
  listener to connections and threads: a thread reads its socket from the
  element it was started with, which is written once. `Ordered` is the protocol
  of a connection in step: at most one of a request, a thread working on it, or
  an answer is under way, and it belongs to the call its client waits in. The
  refinement of `ApiCall` needs nothing beyond it: `Kept` is what a step must do
  to the session of one client, and one lemma shows it for each kind of step. A
  step of another client or of another connection's thread leaves the session as
  it was (`ViewFrame`); of its own, `unmarshall_request` is the `Execute`,
  `Recv` the `Return`, because the answer is whole and the one of this call
  (`ResultFacts` says what the stub makes of it), the end of the VFM a `Cut`
  unless the answer is in the stream already. `Send` and `SendAnswer` change
  where a request or an answer is, not what the caller is owed.
- **`Lifecycle_proofs`** (`Invariance`, `ConfigTakesEffect`, `OwnHandlesAreSafe`).
  `ReadingOK` relates the globals after each piece of the file to the last piece
  read for each option; lemma `LineSaid` is one piece, so the file may have any
  length and no induction over it is needed beyond the steps of `read_config`
  themselves. `PathOK` bounds a path by the paths the file gives, since
  a shorter one keeps the tail of a longer. `StagesOK` says what `main` has checked
  by each of its stages, and `ClosersOK` that who closed the log or the database is
  past the trace of its handler.
- **`FipFrame_proofs`** (`PositionStaysInside`, `SentFramesReadable`,
  `NothingReadBehind`, `HandledAsItsOpcodeSays`, `FcFramesLeaveWhole`). `Start`,
  the position of a segment, is a recursive function; that it satisfies its
  equation for every index is proved by building its finite approximations.
  `Basic` covers any frame at all: the position is inside, and what is sent is
  well-formed, whatever was taken for a header. For the other three, a frame
  that arrives has one of four shapes: `Fip`, `HostFc` and `FabricFc`, with the
  headers where the tags put them, or `Off`, of which none of the properties
  speaks. `Route` says that each of them is, after each step of
  `process_packet`, at the position that its shape gives, with the headers that
  are really there read; `DecodedIs` says what the descriptors of a list decode
  to. Lists have any number of the descriptors of their opcode, so
  `NothingReadBehind` has to say what `Complete` means: lemma `Full`, that such
  a list is the whole one, and `FipComplete` for a login's, which may still be
  cut short by what it announces. The properties follow from where `Route` ends.

- **`PyApi_proofs`** (`Invariance`, `QueriesWriteInside`, `ExactInventories`,
  `AttachedIds`, `ExplainedExceptions`, `RoundTrip`), about `Inventory` and
  `PyApi` together, for any number of programs, tables of any size and any
  arguments. `IInv` says of each thread what it has selected so far: every entry
  was found (`Found`, as the `Structure` of a row that the where clause finds),
  every row that stays in the table is entered or lies beyond the cursor
  (`Complete`), as many entries were written as there are rows up to the cursor
  (`Roomy`), the ids written for a vfabric are those of the vadapters passed by
  the inner select (`Listed`), and the length that was added up is that of the
  message (`Packed`). A step concerns one thread: its own part is proved step by
  step (`ProcessVadapterInventoryOK` to `StatementFailsOK`), the threads that
  only look on keep theirs in peace (`Quiet`) or while a program writes
  (`OthersWrite`, where `Undisturbed` becomes false and rows enter `ever` or
  leave `kept`). `RoundTrip` carries all this through the message: unpacking
  returns the entries that were packed, so that the dictionary shows them. It
  rests on `Layout`, which places each entry in the message, and on
  `RecursionExists`, which builds a function from its recursive definition;
  `BridgeDataSizeFacts` and `FlattenFacts` do the same for the size of a bridge
  inventory and for `FlattenSeq`. That a select in the order of the ids exists
  (`InOrderFacts`) is proved by induction over finite sets (`SetInduction`, from
  the well-foundedness of the naturals).

**Only model-checked.** All liveness (`EveryTaskProcessed`, `AnswerDelivered`,
`Settles`, `CallReturns`, `ThreadsEnd`, `SigintEnds`): the prover has no rule
for fairness or `ENABLED`. The library's induction theorems take an operator as
a parameter and cannot be used either; where a proof needs induction it takes
the set of counterexamples and its least member.

## 5. Not modelled

- SQLite errors other than a refused row in the calls that write; in the
  inventories any statement may fail. Queries whose results only fill structures.
- Memory exhaustion: no result of `malloc` is tested in the source.
- The EoIB gateway: built only with `VFM_EOIB`, against a library that is not in
  the repository but for the stand-in `ext/eoib-swgw/bx.c`. How that library
  calls back, and from which thread, cannot be read from the source.
- The command line: a sequential interpreter of what one user types. No state
  outlives a command but the prompt, and what it calls is the Python module.
- `add_bridge`, `add_gateway` and the reading of gateways through
  `vpsdb_get_resource`, which only tests call; handlers with an empty body
  (`process_vfm_vadapter_query_general_attrs`, `process_edit_protocol_attr`,
  `process_vfm_bd_query_general_attr`).
- Reference counts of Python objects, and the attributes (names, descriptions,
  modes) that are copied along with the ones that decide something.
- The `LOCAL_VFM` branch of `process_packet`: every task is `REMOTE_VFM`.
- Code without a caller: `fcoe_bridgeX_discovery`, `fcoe_bridge_adv_res`,
  `free_map`, `fcoe_vfm_vHBA_deregister`.
- The gateway stubs of `vfmapi/vfmapi_gateway.c`, which pass `offset` where
  `create_api_tlv` wants `&offset`; the stubs for bridge devices other than the
  inventory are like those of vadapters.
- Logging, formatting of the CLI's output, XML.

## 6. Plan

Done: queue, exchange table, login, sockets, database, inventories, API session,
frames, Python binding, configuration, start-up and end of the process; the safety
of all of them proved, the queue, the login and the API call as implementations of
what they promise. What is left, in this order:

1. what still holds of the logins after an overflow or a doubled answer, beyond
   `TableIntact`: whose answer a host can then get, and how many;
2. what the API promises a client that is out of step, or whose `connect` failed,
   beyond `ThreadsEnd`;
3. short lists of descriptors: which values each handler may take from behind the
   frame;
4. liveness has no proof and is out of the prover's reach.

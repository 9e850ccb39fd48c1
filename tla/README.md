# Virtual YubiHSM in TLA+

Models of the virtual YubiHSM 2 (`crates/virtual-yubihsm-core` and the programs
around it), checked with TLC and, in part, proved with TLAPS.

## The system

| Part | State | Operations | Talks to |
|---|---|---|---|
| Device (`device.rs`) | objects, per-id generations, options, audit log, session table, state epoch, `persistent_change` | one frame at a time: plain commands, two handshakes, encrypted session commands | called under a mutex by the runtime |
| Authorization (`authorization.rs`, `capability.rs`) | none; an immutable snapshot per session | visibility, use, create, delete, wrapped export and import | the device's handlers |
| Secure channel (`session.rs`) | session keys, counter, MAC chaining value | begin, authenticate, decrypt, encrypt | the session table |
| Session objects (`session_object.rs`) | at most 64 volatile values per session | derive, combine, read, verify, delete | the session entry |
| Object material and its formats (`object.rs`, `algorithm.rs`, codecs of `device.rs`) | material and reported length of each object, state file | parse, validate, store, load and migrate, wrap and unwrap | the object store, the runtime, other devices |
| Wire formats (`wire.rs`, `frame.rs`, `request.rs`) | none | parse, encode | everything above |
| Persistent runtime (`persistent_runtime.rs`) | lock on the state file, device behind a mutex, background writer (`software-key-core`, external) | open, execute, flush, shut down | frontends, disk |
| USB worker (`src/functionfs.rs`, `buttons.rs`, `worker_protocol.rs`) | generation, endpoint threads, stop flag, button level | configure, serve, quiesce, eject, reinsert | supervisor process, runtime |
| I2C target (`virtual-yubihsm-i2c`) | stop flag, the request being served | start, read, recover, execute, respond, stop | kernel target driver, runtime |
| Display (`src/display.rs`) | bus state as told, deadline and guard of an identification, the open panel | follow bus, eject and blink commands; time out; shut down | USB worker (channel), indicator thread (shared panel) |
| Qualification suite | – | tests | – |

What is hard about it: authorization is checked on snapshots taken at the
handshake, while keys are created, imported, changed and deleted under other
sessions; option changes, audit and full-log rules interlock; the log and the
generations use wrapping counters; sessions expire only when a frame arrives;
every durable change must be announced to a writer that runs concurrently, may
fail half-way, and must be outlived by the lock; a form of key material that one
path lets through can keep the device from being saved or started by another; two
threads draw on one panel; a controller gives up on a request whose response is
still on its way; and the process may die at any point.  `PROJECT.json` lists these hazards line by line.

## Modules

| Module | Models |
|---|---|
| `Authorization` | the predicates of `SessionAuthorization` as operators on records of capability and domain sets |
| `Protocol` | the command codes and the tables that classify them: required capability, meta, auditable, changes durable state |
| `DeviceOptions` | OFF / ON / FIX and when an option may be set |
| `ObjectStore` | `objects`, `sequence_history`, algorithm options; one operator per put, generate, import, change, delete and reset; what use and export demand |
| `AuditLog` | `AuditState`, force audit and command audit |
| `Device` | `handle_frame_with_hooks`: sessions, both handshakes, all commands, timeouts, transport resets; composes the four above |
| `DeviceProperties` | invariants and action properties of `Device` |
| `DeviceProofs` | TLAPS proofs: types, generations, authority, log, announcements, options and session deadlines |
| `PersistentRuntime` | processes, threads, mutex, writer, state file, crash and restart |
| `DurableStore` | abstract specification of what the runtime promises |
| `RuntimeProperties` | refinement mapping, invariants, action and liveness properties of the runtime |
| `RuntimeProofs` | TLAPS proofs of the runtime's safety and of its refinement of `DurableStore` |
| `SecureChannel` | `session.rs` and the session table it lives in: both ends' keys, counters and chaining values over a transport that loses, delays, reorders and repeats frames |
| `CommandOrder` | abstract specification of a session: commands execute at most once, in the order sent, and are acknowledged only then |
| `ChannelProofs` | TLAPS proofs that the ends stay in step and that the channel implements `CommandOrder` |
| `SessionObjects` | `session_object.rs` and its handlers: derive, combine, extract, read and delete volatile values |
| `SessionObjectsProofs` | TLAPS proofs of its invariants |
| `BitExtraction` | the bit extraction loop as an operator, with a reference definition |
| `UsbWorker` | threads of the USB worker: main loop, endpoint reader and writer, button, stop flag, quiescing |
| `UsbWorkerProofs` | TLAPS proofs about quiescing and the dialogue with the supervisor |
| `KeyLengths` | the length tables of `algorithm.rs`, `object.rs` and `device.rs` |
| `ObjectForms` | `ObjectRecord`: material forms and lengths through put, generate, change, wrap, unwrap, save, migrate and load |
| `ObjectFormsProofs` | TLAPS proofs about saving, loading, exporting and reported lengths |
| `I2cTarget` | the I2C frontend between the target driver and the controller |
| `I2cProofs` | TLAPS proofs about requests, responses and recoveries |
| `Display` | the display thread, the panel it shares with the indicator's thread, and what the worker sends it |
| `DisplayProofs` | TLAPS proof that the panel follows the bus |
| `MC*` | instances for TLC |

### Device

Variables carry the names of the fields of `Device`.  `objects` and `sessions`
are partial functions, as the maps in the code are.  An action is one frame:
it starts from `Live` (the table after `expire_inactive_sessions`) and does all
that the handler does, the trailing audit entry and the `persistent_change`
flag included.  Successful commands go through `Succeeds`, which is
`execute_inner_with_session`; `FailedCommand` is the same path with an error,
available to every command because any request may be malformed;
`RefusedCommand` is a missing session capability or a full forced log.

Data is abstracted to what authorization, options and the log look at.  Each
key family is represented by one algorithm (with one more where options or
handshakes tell algorithms apart); key material, labels and lengths are left
out.  A wrapped import may carry any well-formed object, since whoever knows
the wrapping key can build one, and any origin without the import mark.  The hash
chain is represented by how many entries it has absorbed.  `Protocol` keeps the
commands whose handlers write (`StoreWrites`, `Administration`) apart from the
list by which changes are announced (`ChangesPersistentState`), as the code does:
a writer missing from that list would be a command that changes durable state in
silence.  `SignSshCertificate` is a code the device knows and has no handler for:
it passes the capability check and then always fails, so it occurs only as a
`FailedCommand` or a `RefusedCommand`.

Log numbers go from `MaxNumber` (65535) to 1.  After such a wrap `set_log_index`
still keeps the entries whose number is greater than the index, so it reclaims by
number and no longer by place in the chain, and entries in the middle of the chain
may go before older ones.  This is what the code does, no document describes it,
and `LogIsChainTail` therefore asks for an unbroken tail only up to the wrap; that
every entry has a place of its own and the number of that place it asks for
always.  Time is a per-session idle count that saturates at
the timeout.

### Persistent runtime

The device is reduced to the set of durable transactions it has executed,
numbered globally, and its epoch.  `execute_observing` is cut where another
thread can come in between: the health check (`Begin`), the block under the
mutex (`Execute...`), its end (`Release`), and the wait with the answer
(`Answer`, `AnswerError`).  The writer is external: it takes a snapshot under
the mutex, replaces the file atomically, reports how far it got, and may fail
with the new file in place or not.  `Open` needs the lock, `Close` gives it
back after the writer is done, and `Crash` gives it back at any time.
`Shutdown` waits for the frontend's threads, as `run_worker` and the I2C `run`
do before they call it.

`DurableStore` says what this is for in immediate mode: transactions are
volatile, then durable in the order they executed, or lost together; and a
client is told of one only when it is durable.  The mapping takes `durable` from
the state file and `volatile` from the memory of the serving process.

### Secure channel

Cryptography is symbolic.  A key is the pair of the host that knows the secret
and the handshake it was made in, the MAC chaining value is the sequence of
requests it has absorbed, and the counter is kept because it is the IV of both
directions.  Requests and responses are sets that only grow: a frame in them
may be delivered never, late, twice or out of order.  A frame that names a live
session and does not verify removes that session, even when the session id has
been given to somebody else since.  Hosts are external.  `CommandOrder` is
implemented per handshake, so reuse of a session id is covered.

### Session objects

Every value ever made is numbered in `made` with where it came from: the values
and the persistent keys it was derived from, its flags, its session and its
length.  The code keeps no such ancestry; it is what lets a property speak of a
value several derivations away from its root.  Sessions are opened under
authorizations that differ in the capabilities of the derivations, and a session
id is reused after its session has ended.  `VerifyCmac` changes nothing and
is left out.

### USB worker

Main, reader, writer and button threads take their steps separately, at the
points where the code can be interrupted or woken: the stop flag, the channel
between the endpoint threads, the join, the flush, the record sent to the
supervisor.  The supervisor, the bus, signals and the persistence writer are
external.  Once the supervisor is gone every send to it fails: a worker that has
just started its endpoint threads then leaves without joining them, and they stay
parked until the process ends (`Stranded`).

### Object forms

A byte string is its length; a parsed key is its kind, the size of the encoding
it retains, and whether the RSA validation of imports accepts it (which includes
factors of half the modulus each).  Every handler that makes an object is an
operator with the length computation of its own, as in the code.  `Decodes`
re-encodes what it decoded and compares, so an encoding that is not canonical is
refused.  A reported length is a `u16`; a longer one is refused.  A process ends
with a file of this release or of one of the two older ones; what those recorded
as length is external and taken from the migration tests of `device.rs`.  For the
older releases the checks therefore show only that migration agrees with that
record, a consistency check; for files of this release both sides are the code's.  `Loads` is the whole of
`from_persistent_state` that depends on this state.

### I2C target

One thread: read, recover or execute, queue.  Driver and controller are external
and follow `docs/i2c.md`: the driver keeps the latest request, publishes a
response only when it answers the latest receive generation, and drops what is
staged when asked to recover; the controller recovers after every exchange whose
end it did not see, and does not repeat a command.  A write of the controller may
get lost, and it may give up at any point.

### Display

Receiving a command sets the flags and ends an identification; the calls to the
indicator and the panel that follow are steps of their own, since the
indicator's thread takes the same lock between them.  The indicator is external:
its `disable` is taken to return after its thread has stopped drawing, and every
call of it fails once that thread is gone.  The worker may end before it has
served at all, when the button cannot be opened (`functionfs.rs:79`).  A panel operation may fail at any
time, which is reported and closes the panel.

## Runs

| Run | Instance | Checks |
|---|---|---|
| `authority` | two ids, two sessions, four request headers: an administrator, a key that may only import, an operator confined to one domain, a wrap key in both | types; sequences identify writes; authority never grows; objects stay below the ceiling; generations advance; only live sessions change state |
| `audit` | log of two entries, numbers up to 3, force audit, command audit, algorithm toggles and FIPS mode switched and fixed at will, several in a request, around a key that is changed between algorithms of the symmetric and the asymmetric handshake, deleted and reset | the log is the tail of the chain and numbered by place; audited changes are logged; authentications are accounted for; durable changes are announced; fixed options stay |
| `commands` | all commands except `SetLogIndex`, eleven kinds of object under one id, algorithms switched off and FIPS mode on while the store is fresh | a disabled algorithm has no locally made key, however keys came to be |
| `opaque_read` | the same instance | **violated**: see below |
| `runtime` | immediate and batched, two processes, two threads each, two transactions, epoch limit 2, a file of an earlier life or none, with fairness | refinement of `DurableStore`; the file moves forward; epochs order images; a clean shutdown has saved what was reported; every request ends; what was reported becomes durable unless the process or its writer fails |
| `channel` | two session slots, three handshakes, two commands in each | host and device are in step; refinement of `CommandOrder` |
| `session_objects` | two sessions at a time, three handles, two values per session, three values in all, lengths 0, 16 and 33; bases of up to three 3-bit bytes | sealed values stay sealed through derivation; objects stay in their session and are whole; no session exceeds its limit; roots were authorized; and, as an assumption TLC evaluates, bit extraction takes consecutive bits of its base, cyclically |
| `usb_worker` | four events in all (button flips, activations, transfers), with fairness | a quiesced worker touches nothing; the supervisor sees records in an order it accepts; quiescing is answered; presence converges to the button |
| `disable` | two events | **violated**: see below |
| `object_forms` | every algorithm, byte strings of every length some key has and of the lengths at the limits, one object at a time, two serial numbers, state files of versions 1 to 3 | every object can be saved; a device's own file loads and gives back the same objects; exports import back; reported lengths are those of `docs/object-info-lengths.md` |
| `i2c` | five requests, frames of three lengths of which one is that of a control request, with fairness | every command gets its own response and runs once; responses fit; leaving saves; a stop ends the process; a recovery ends |
| `display` | durations of up to two seconds, five commands before the shutdown, with fairness | the panel shows the bus state; fast blinking has a deadline and ends; a worker that ends leaves the panel off and is not held up |

A type invariant is stated per module: `TypeOK` of the device is checked and
proved by itself, the others are the first conjunct of an invariant of their
module (`SessionsInStep`, `ObjectsAreWhole`, `QuiescedIsQuiet`,
`EpochsOrderImages`, `OwnFileLoads`, `ExecutedAsSent`, `DisplayFollowsBus`).

**Bounds.**  Two ids and two domains are what it takes for a key to replace
another and for a session to be confined to part of what there is; two sessions for one to outlive changes
made by the other.  The log holds two entries, fewer than the largest number, so
that it fills, is truncated and sees its numbers wrap within `MaxAppends`.  The
generation bound lies at or beyond the modulus where wrapping is the question,
and the idle limit of one tick is enough because only "reached" matters.  In
`commands` one id is enough, since an algorithm option asks whether there is
anything else at all, and logging is left to `audit` (`MaxAppends` is 0).
In `runtime` a file of an earlier life may already be at the epoch limit, so that
the epoch runs out, and two transactions are what one image may cover at once.  Two processes
are needed for a change of owner; a third would add only another turn.
Three handshakes over two slots make a slot be reused while frames of its first
user are still in flight, and two commands are the fewest that have an order.
Two sessions, the second of which may also take the first's id, are what it takes
for a value to be in the wrong one.  Three values of which two fit let the table
fill, be emptied and fill again;
a length of 33 is one more than a 32 byte source has.  Bytes of three bits cross
byte boundaries at every offset just as bytes of eight do.  Four events allow two
activations, the fewest for something to be left over from the first, or one
activation with three transfers, which make the response channel full while the
reader waits on it.  Two serial numbers are a device's own and a foreign one; objects
meet only in the file, which treats each by itself, so one is enough.
Five requests allow a command that is given up, the recovery that is itself
given up or superseded, the next recovery and the command after it.  Five
commands to the display cover insertion, binding, an identification, and two more
that cut it short; two seconds tell a replaced deadline from an added one.

**Fairness.**  Weak fairness for steps a running thread takes once it is not
blocked (release, answer, the end of a write, the end of a shutdown).  Strong
fairness for whoever waits for the device mutex, client or writer: the lock is
free again and again and the operating system starves no waiter for ever.
In the USB worker, weak fairness for the worker's own threads; an endpoint call
ends when there is data or when the function is disabled, never by fairness.
The supervisor, which is external, reads its records and answers them.
The I2C thread is scheduled, its poll ends after 250 ms, and the controller reads
what is staged for it.  The display thread is scheduled, time passes, and a
worker that has begun to end goes on; nothing is assumed of the indicator.
Nothing obliges a client to send, a process to start or stop, or a write to
succeed.

**Findings.**  `README.md` says that using an existing object needs the operation
capability on the object, with deletion as the only exception.  `GetOpaque`
asks for visibility only (`authorize_command_request`): a session with the
get-opaque capability reads a visible Opaque object that does not carry it.
Run `opaque_read` shows a trace.

`README.md` says that the worker "clears volatile sessions on bind, unbind and
disable events".  It clears the session table when it learns of the disable
(`functionfs.rs:313`), but the endpoint threads may still execute a request they
had already received, and a handshake among those leaves a session behind.  Run `disable` shows a trace.

## Proofs

Each theorem holds for all values of the constants that the named assumptions of
its module allow: any ids, requests, processes, threads, sessions and bounds.  A
theorem that names a property of a run states for every instance what the run
checks on a small one.  Every inductive invariant is of the form "types, and the
parts below"; a part is there because some step could not be proved without it.

**Device** (`DeviceProofs`).

1. `StoreSteps`: every step of `Device` either writes one object that is below
   the acting session's ceiling, or rewrites one in place with the same
   authority, deletes, resets, or leaves the store alone; and sessions that
   appear copy the authority of an existing key.  This is where the handlers
   are opened up; the proofs about the store use only this relation.
2. `TypeCorrect`: `TypeOK` is inductive, one lemma per part of the state.
3. `SequencesIdentify`: with `TypeOK` and the fact that every sequence is at
   most its id's generation, the invariant is inductive; a write takes a
   generation above all that the id has given out.
4. `GenerationsOnlyAdvance`, `AuthorityIsClosed`, `CeilingHolds`: action
   properties, from `StoreSteps` and types.
5. `FrameSteps` does for the log what `StoreSteps` does for the store: a step
   rests, shakes hands or serves one command of a live session.  From it follow
   `ChangesAnnounced`, `ChangesLogged`, `AuthenticationsCounted` and
   `LiveSessionsChange`.  `ChangesAnnounced` covers the full list of commands
   that write, which the runs do not.  `LogIsWhole` is inductive as
   `Whole(audit)`, the property with finiteness of the log; `NumberFacts` says
   what the next number is on every lap.
6. `FixedStay` and `NoDisabledKeys`: only `SetOption` and `ResetDevice` move an
   option, algorithm options only on a fresh store, and every other command
   writes an algorithm that is enabled or marks the object as wrapped.

**Persistent runtime** (`RuntimeProofs`).  `Inv` says that one process owns the
lock and only it writes; that transactions are numbered as they execute; that
epoch and tickets count the same thing (memory's epoch is the file's plus what is
recorded and not saved, as long as the writer has not failed); that file, image
under way and memory grow in this order, the image being a prefix; that a ticket
below the writer's mark stands for a transaction in the file; and that what the
writer does not owe, because the epoch ran out, nobody was promised.
`EpochsOrder` and `StopsSaved` follow from it, `DiskForward` from it and a step.
`RuntimeKeepsPromise` is the refinement: each step maps to executing, saving,
losing or telling in `DurableStore`, or to a stutter.

**Secure channel** (`ChannelProofs`).  A session absorbs 0 (a symmetric
handshake's cryptogram), 1, 2, ... in this order and its counter is always the
number it absorbs next, so keys and counter determine its chain.  `Inv` states
this for sessions, for every frame and answer ever sent, and for hosts, which are
at most one request ahead.  A frame that verifies is therefore the next command
of the host that holds the keys, however old the frame is.  `InStep` is part of
the invariant; `ChannelKeepsOrder` classifies the steps as submitting, executing,
answering or silent.

**Session objects** (`SessionObjectsProofs`).  All derivations are one step, the
insertion of a value sound in its session.  `Inv`: every value was whole and made
from values of its own session that permit derivation; a session holds only its
own values and only roots its capabilities permit; only readable values were
returned.

**USB worker** (`UsbWorkerProofs`).  A budget (each request of the worker and
each activation costs an event), the threads (who may run while the main thread
is where) and the dialogue (what may be on its way from the supervisor while the
main thread is where).  `WorkerQuiesces` needs the first two, `NoUnexpectedRecord`
the first and the last.  The attempt to prove `WorkerQuiesces` showed that the
model had no failing send; see `Stranded` above.

**I2C target** (`I2cProofs`).  Identifiers order everything: what was executed is
not later than what was read, that is before what is pending, and that not after
what was asked.  While the controller waits, the latest request is pending or
being served, and nothing is staged for it before it was executed.

**Object forms** (`ObjectFormsProofs`).  `Shaped` lists, per type, the materials an
object may have and the length that goes with each; `Sound` is a record of such a
material, and `Inv` says that every object is sound and that the file of a
stopped device is `PersistentState` of what it had, with no length above a `u16`.  Each handler is shown to
write a sound object (`BytePuts`, `KeyPuts`, `RsaWrappedPuts`, `Imports`), and
what saving, loading, exporting and the documentation ask is shown of the shapes
alone (`SavedLoads`, `ExportedShapes`, `DocumentedShapes`), through the one fact
that a shape is a byte string or a parsed private key (`TwoShapes`).  That RSA
keys are validated on every import is needed exactly where a save would fail.
The attempt found two `CASE` expressions of the model with overlapping guards,
where TLC takes the first and the logic leaves the choice open
(`VersionTwoObjectLength`, `DocumentedLength`); they are disjoint now.

**Display** (`DisplayProofs`).  `Follows` says that the queued commands, handled one
by one, would take the thread's flags to what the worker told last.  It names the
states in between, so that a command sent adds one at the end and a command
received takes one off the front, and no induction over the queue is needed.
`Underway` says of a handler half done which rest of its list is left, and how far
indicator and panel are from what the flags ask for; a closed panel is off or an
error was reported.  With nothing queued and nothing left to do this is
`DisplayFollowsBus`.

### Only model-checked

Liveness (`RequestsEnd`, `ReportedBecomesDurable`, `QuiesceIsAnswered`,
`PresenceConverges`, `StopEnds`, `RecoveryEnds`, `BlinkEnds`, `WorkerEnds`)
depends on fairness and `ENABLED`, which the prover does not treat.  What bit
extraction computes is an induction over data and stays with TLC.
The two violated statements have no theorem, of course.

## Not modelled

- Cryptography and the contents of key material: any request may fail instead.
- Byte-level framing and request parsing (`wire.rs`, `frame.rs`, `request.rs`):
  they keep no state, and what they decide is that a command may fail.
- `Device::provision_object`: trusted, only tests use it; it sets a generation
  from outside, so `GenerationsAdvance` is about protocol clients.
- Firmware feature masks: fixed at build time, taken as all-supported.
- The qualification suite, a client program.
- Labels, key-id columns of the log, systick, display cadences and images.
- In the I2C target: command line options, inheritance of descriptor 3 and the
  permissions of the state directory, each of which is a start that fails, and
  a second start of the process.
- In the display: a panel that failed is closed, and `turn_off` does nothing to
  a closed panel, so it may go on showing its last image until the next frame;
  the properties allow this only after the error was reported.  `Blink Device`
  with a duration of zero leaves a running identification alone.
- In the USB worker: which response belongs to which activation.  A response
  left in the channel by one activation may go out in the next, a stop
  signal that arrives just before the flag is cleared is forgotten, and a join may
  wait for an endpoint the bus never disables.  The code prevents none of these
  and no document excludes them (`functionfs.rs:121`, `151`, `586`).
- Limits that only a full store or a locked-out operator meets: the search for a
  random id never ends once all are taken (`device.rs:3393`), and a full forced
  log whose option keys are gone refuses even a reset (`device.rs:675`, intended).

## Plan

1. `UsbWorker`: identity of responses across activations.
2. Pure checks: secure response size, `GetStorageInfo` arithmetic, list filters.

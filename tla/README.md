# A TLA+ verification project for PostQuantumVPN

PostQuantumVPN is a point-to-site VPN in C++: clients and a server exchange a
Noise-IK handshake hybridised with ML-KEM, derive a pair of transport keys, and
carry IP packets between their TUN devices as ChaCha20-Poly1305 datagrams over
UDP. The modules in this directory model its protocol core, its two event loops
with the threads around them, the pollers under them, the key files, and the hash
function that binds the handshake together. TLC checks them on small instances.
TLAPS proves the safety properties of the handshake, the sessions, the running system,
the timers, the lifecycles, the key files, the pollers and the hash for every instance.

## 1. The system

### Components, their state and their operations

| Part | Source | State | Operations |
|---|---|---|---|
| Replay window | `core/session/replay_window.*` | `last_`, 2048-bit `bitmap_` | `Check`, `Accept` |
| Session | `core/session/session.*` | keys, `send_nonce`, `replay_window`, `created`, `last_sent_time`, `last_recv_time`, `receiver_index` | `Seal`, `Open`, `IsExpired`, `NeedsRekey`, `ShouldSendKeepalive` |
| Session table | `core/session/session_manager.*` | `sessions_` by local index | `ActivateSession`, `CreateSession`, `Lookup`, `SweepExpired`, `GetKeepaliveDue`, `CheckRekeys`, `TransitionSession` |
| Handshake | `core/handshake/handshake_processor.cpp`, `handshake_helpers.cpp`, `handshake_state.hpp`, `peer.hpp` | per `Peer`: chaining key, hash, ephemerals, indices, last timestamp, state | `CreateMessageInitiation`, `ConsumeMessageInitiation`, `CreateMessageResponse`, `ConsumeMessageResponse`, `DeriveSessionKeys` |
| Index table, keypair slots | `index_table.hpp`, `keypair.hpp` | index to peer/keypair; `current`, `previous`, `next` | `NewIndex`, `SwapHandshakeToKeypair`; `SetCurrent`, `SetNext`, `PromoteNext` |
| Timers | `handshake_timer.hpp` | `armed_`, `deadline_`, `stop_`, one thread per timer | `Arm`, `Disarm`, destructor, `Loop`; `HandshakeTimers` bundles three |
| Client | `client/client.*`, `client/main.cpp` | one `Peer`, index and session tables, `has_session_`, `active_session_index_`, `running_`, `stopped_` | `Init`, `Run`, `Stop`, `Shutdown`, one handler per event, `TimerTick` |
| Server | `server/server.*`, `server/main.cpp` | index and session tables, peers, `ip_to_session_`, flags, worker thread | the same, with `EventLoop` on its own thread |
| Event pollers | `core/network/event_poller.hpp`, `core/os/{linux,macos,windows}/event_poller.cpp` | an epoll or kqueue descriptor; `native_events_` on Windows | `Open`, `Close`, `Add`, `Modify`, `Remove`, `Poll` |
| Sockets, TUN | `core/os/**` | descriptors | open, close, read, write |
| Timestamps | `core/utils/tai64n.*` | the last stamp given | `Now`, `operator++`, comparison |
| Key files | `core/config/key_config.*` | a file with four values, and `server_pub.conf` with the public ones | `LoadOrGenerateKeys`, `LoadKeys`, `SaveKeys`, `SavePublicKeys` |
| BLAKE3 | `libs/blake3` | `blake3_hasher`: chunk state and `cv_stack`; `g_cpu_features` | `init`, `init_keyed`, `init_derive_key`, `update`, `finalize_seek`, `reset`; `blake3_hash_many` and `blake3_xof_many` in six implementations |
| Configuration, primitives, utilities | `client_config`, `server_config`, `core/cryptography`, the rest of `core/utils` | none | parsing, primitives |

### How the parts interact

An event loop polls its socket and its TUN device with a timeout and runs
`TimerTick` after every poll. A client sends an initiation when `Run` begins. The
server makes a new `Peer` for every initiation it receives, answers it and
activates the session at once. The client activates its end when the response
arrives. From then on packets read from a TUN device are sealed in the session
the client has active, or in the one the server's route for the destination
address names. The server learns routes from the source addresses of packets it
has opened. `TimerTick` sends keepalives and sweeps expired sessions; the client
starts a new handshake when the sweep takes its active session.

Both ends mix everything they exchange into one transcript with BLAKE3
(`MixHash`, `MixKey`). An ML-KEM key of 1184 bytes and a hash of 32 are more than
one chunk of 1024 bytes, so the handshake takes the path of BLAKE3 that splits its
input into a tree. Which code computes the tree depends on the processor, and two
peers on different processors have to come to the same hash.

### What is hard

* **The network** loses, repeats, reorders and damages datagrams, in the
  handshake and in the data plane, and keeps datagrams across restarts.
* **Restarts and index reuse.** Nothing is persistent except static keys; a
  restarted process draws indices again that old datagrams still carry.
* **Half-open sessions.** The server's end exists before the client's, and for
  good if the response is lost.
* **Time.** Expiry, keepalives, rekeying and retransmission.
* **Threads.** `DeadlineTimer` runs callbacks outside its lock; `Shutdown` of the
  client runs on the main thread while `Run` is polling on the other.
* **Counters.** The nonce limit near 2^64 and the window's unsigned arithmetic.
* **Partial failure.** Every stage of `Init` may fail with others already done; a
  process may die, or the disk be full, while a key file is written.
* **Platforms.** Three kernels with three interfaces under one `EventPoller`; six
  hand-written implementations under one hash function.
* **The clock** that stamps initiations may stand still or be set back.

`PROJECT.json` lists the hazards line by line, with the properties that watch
each of them.

### What makes each part correct

* Session: no nonce twice; the replay window refuses exactly what it must;
  what comes out was put in and comes out once.
* Handshake: both ends agree on keys, indices and identity; sessions are
  distinct; an initiation is consumed once; wrong static keys never connect.
* Timer: at most one callback for each `Arm`, in order, not before the deadline of
  that `Arm`, never lost, and none for one that `Disarm` found armed.
* Event loops: `has_session_` and routes never name a session that is gone;
  routes belong to their owner, and those that do not reach him end; ends match;
  handshakes complete; a session the other side has lost is replaced.
* Processes: `Init` is all or nothing; quitting ends, whatever the loop is doing;
  descriptors are closed in the end and open for every call until then; all processes
  that run have the same static keys, and a client that loaded the public ones trusts
  those of every later process.
* Pollers: each handle at most once in a result, with conditions that hold and were
  asked for; registration succeeds and fails when it should; nothing of a removed
  or closed handle is reported as a condition.
* BLAKE3: the hash is a function of the bytes, whatever the pieces they come in and
  the processor; the stack of chaining values never overflows.

## 2. Modules

| Module | Models | Notes |
|---|---|---|
| `ReplayWindow` | `replay_window.*` | operators; constants for window size, message limit and the modulus of the counter |
| `AtMostOnceChannel` | what a session promises | abstract specification |
| `Session` | `Seal` and `Open` of one direction of a session | implements `AtMostOnceChannel` |
| `SessionProofs` | theorems on `ReplayWindow` and `Session` | TLAPS |
| `DeadlineTimer` | `DeadlineTimer` | one action per critical section or unlocked step |
| `DeadlineTimerProofs` | theorems on `DeadlineTimer` | TLAPS |
| `NoiseTerms` | primitives and transcript helpers as symbolic terms | operators |
| `Tai64n` | `Tai64n::Now` and its stamps | operators |
| `KeyExchange` | what the handshake promises | abstract specification |
| `Handshake` | the five functions with index tables and keypair slots | implements `KeyExchange` |
| `HandshakeProofs` | theorems on `Tai64n` and `Handshake` | TLAPS |
| `Vpn` | both event loops, their tables and the network | one action per handler |
| `VpnProofs` | theorems on `Vpn` | TLAPS |
| `ClientLifecycle` | `Init`, `Run`, `Stop`, `Shutdown` of the client and its `main` | two threads |
| `ClientLifecycleProofs` | theorems on `ClientLifecycle` | TLAPS |
| `KeyFile` | `LoadOrGenerateKeys`, `SaveKeys`, `SavePublicKeys` and a client's load of the copy | actions that `ServerLifecycle` composes |
| `ServerLifecycle` | `Init`, `Run`, `Stop`, `Shutdown` of the server, its event loop thread and its `main` | extends `KeyFile`; two threads, several starts, several processes |
| `ServerLifecycleProofs` | theorems on `ServerLifecycle` and `KeyFile` | TLAPS |
| `EventSet` | what a poller promises | abstract specification |
| `EventPoller` | the pollers of the three platforms over their kernels | implements `EventSet` |
| `EventPollerProofs` | theorem on `EventPoller` | TLAPS |
| `Blake3Rounds` | the permutations of words in the portable, row and lane code | operators |
| `Blake3Counters` | the counters of the lanes, by comparison and by high bit | operators |
| `Blake3Lanes` | the dispatch, `hash_many` and `xof_many` | operators |
| `Blake3Calls` | the vector code called by itself | one action per function |
| `Blake3Hasher` | the incremental hasher and the tree | extends `Blake3Calls`; one action per call |
| `Blake3Proofs` | theorems on the five `Blake3` modules above | TLAPS |
| `MCSession`, `MCDeadlineTimer`, `MCHandshake`, `MCVpn`, `MCEventPoller`, `MCBlake3` | instances for TLC | symmetry sets, processors |

### ReplayWindow and Session

`Window` is the pair of `last_` and the set of positions set in `bitmap_`.
`WindowEnd` is the unsigned sum `counter + kWindowSize`. `Session` has a sender
(`send_nonce`), a receiver (`window`) and `wire`, the set of all packets ever
sent: a packet that is never opened is lost, one opened late is reordered, one
offered twice is repeated. `Seal` increments first and tests afterwards, as
`fetch_add` does, and the packet's header carries the re-read counter minus one,
as the callers write it. `OpenDamaged` is `Open` of a packet with an arbitrary
header counter and a tag that does not verify. The log of opened packets and
`verdict` are what the callers see.

### DeadlineTimer

Callers, the loop thread, the callback (which may `Arm` its own timer) and the
destructor. `Arm` is two steps, the critical section and the later `notify_all`;
the loop thread takes its copy of `deadline_` in one critical section and acts on
it in another. Waits may end spuriously. `due`, `expiring`, `disarmed`, `cancelled`
and `ran` are history: the deadline of each `Arm` call, which call an expiry serves,
which ones a `Disarm` found armed, which were cancelled before their callback
started, and whose callbacks were started. `NeverEarly` compares a callback with the
deadline of its own call. An `Arm` that comes between the unlock and the start of a
callback does not delay it: that callback serves the earlier call.

### NoiseTerms, Handshake, KeyExchange

Keys, Diffie-Hellman results, KEM ciphertexts, hashes and AEAD ciphertexts are
terms; a chaining key is the sequence of what was mixed into it. An AEAD
ciphertext opens only under the same key term and associated data.
Decapsulation with a wrong key yields another secret and no error, as ML-KEM
does. The model takes the handshake as its interface allows: an initiator has a
`Peer` for the responder, the responder one for each initiator, and the functions
are called in any order on any message the network ever carried. `OpenPeers` are
responder `Peer`s with an all-zero remote static key, which accept any identity;
this is how the server makes its own. An initiator may be configured with a wrong
X25519 key (`WrongX`) or a wrong ML-KEM key (`WrongK`) of the responder. The second
shares every Diffie-Hellman result with the responder; what keeps it out is that the
KEM secret and the responder's ML-KEM key go into the transcript before the first tag
of an initiation. A call that fails changes nothing and is
not a step. Each initiator has its own `Tai64n` generator, which reads an
arbitrary clock value at each initiation; `stamps` is what it remembers.
`recent` is the rate limit of `kHandshakeInitiationRate`.

### Vpn

Sessions are records with ages in ticks that stop just past their limits. The
handshake is taken at the level of `KeyExchange`: the initiation and the number
of the response name the keys, and a response opens exactly at the client whose
pending initiation it answers. `net` only loses a datagram by `Lose`; one that is
never handled is lost without it, one handled again is repeated. `ClientStart` is
the start of a client process and also its restart after a crash. `ServerCrash`
is a restart of the server. `TimerTick` is one action on the server and two on
the client (with and without the re-initiation at its end). Packets carry the
client's own address only. `established` and `written` are history: the keys
clients have activated, and the bag of packets written to TUN devices.

### ClientLifecycle and ServerLifecycle

Each access to a flag or descriptor shared by two threads is a step. `open` is
the set of open descriptors. `InitStages` lists what each stage of `Init` opens
and, on failure, closes.

The client's main thread calls `Shutdown` while the worker may be in a handler. So
each call of the worker on the socket or the TUN device is a step of its own, between
the return of `Poll` and the next: `events` are the handles `Poll` reported that `Run`
has not come to, a handler's test of `IsOpen` is one step and the call after it
another, and a call on a descriptor that is closed by then fails and the loop goes
on. `missed` is history: the devices that a call of the worker found closed.
`OpenWhileUsed` says that this begins with `Shutdown` only and is over, with
everything closed, when the process ends. The server joins its loop before it closes
anything, which is `LoopOwnsDescriptors`.

The server's `main` first runs `LoadOrGenerateKeys`, step by step: probing, loading,
generating, opening the file (which empties it), writing, closing. A probe that is
denied access counts as no file: keys are generated, and saving them fails on the same
file (see section 5). A file holds the keys of one generation or, after an interrupted
or failed write, none. `Restart` is the end of the process at any step, a crash
included, and the start of the next one, which finds the file as it was left. `used`
is history: the keys with which processes went on. The client loads its keys with the
same function. After its keys the server's `main` empties and writes
`server_pub.conf`; an administrator may copy that file to a client at any moment, and
`LoadServerPublicKeys` is the client reading the copy.

### EventSet and EventPoller

`EventSet` is what `event_poller.hpp` promises: a set of handles with interests, calls
that succeed or fail, and a `Poll` that fills a span with distinct handles, each with
conditions that hold. `EventPoller` runs one of three platforms, chosen in its initial
state, and maps `registry` to that set. For Linux the registry is that of epoll, for
macOS the filters of kqueue, which know a handle once for reading and once for
writing, and for Windows the array `native_events_` with its removal by moving the
last entry. What these kernels do is modelled from how the code relies on them: both
drop a handle that is closed, the array does not. Which conditions hold is chosen anew
at each `Poll`: a handle is readable, writable, both, or has hung up, or, on Linux and
Windows, has an error; `kevent` reports errors of changes only, and `Poll` makes none.
Errors and hangups are reported without being asked for. `last` is the last call with
its result. Every caller registers for reading, and some for writing too
(`client/client.cpp:112`, `:127`, `server/server.cpp:119`, `:139`); `PollerAssumption`
says so.

### Blake3Rounds, Blake3Counters, Blake3Lanes, Blake3Calls, Blake3Hasher

The input is a sequence of bytes that are their own positions, so that a byte that is
lost, repeated or moved shows. A compression is the record of its arguments.
`Blake3Hasher` has one action per call of the interface; `Update` splits its piece as
the code does: the chunk state first, then the largest whole subtrees, hashed in as
many lanes as the processor has, and chaining values merged by the bits of the chunk
count. `Blake3Lanes` has `get_cpu_features`, the choice of the implementation, and
each implementation's way to cut its inputs into passes of 16, 8, 4 or 1 lanes. What
is modelled is the C code. An amd64 build takes the assembly files in place of the
SSE2, SSE4.1, AVX2 and AVX-512 sources (`libs/blake3/CMakeLists.txt:60`, `:89`), so
those C files run in a 32-bit x86 build, the NEON file in an ARM build, and the
portable code, the dispatch and the hasher in every build. `Blake3Calls` calls these
functions by themselves, with counters that no input of a run is long enough to reach;
what `Blake3Hasher` does is a step of `Blake3Calls` too, `DirectCall` or `Forget`.
`Blake3Counters` has the two ways of finding the carry into the high word of the
counter. `Blake3Rounds` follows every word of state and message through the rows, the
shuffles and the transposes of each instruction set. The reference is the definition
of the tree: a left subtree is the largest power of two of chunks that leaves
something for the right one. Loops and recursive calls of the code are recursive
functions: over the lengths and places of subtrees in `blake3_compress_subtree_wide`,
over the number of turns in the loops. A bit of a number is the power of two that it
stands for.

## 3. What TLC checks

| Run | Instance | Shows |
|---|---|---|
| `session` | window of 3, limit 7, modulus 10, 10 calls of `Seal` | `TypeOK`, `NonceUnique`, `CheckIsExact`, `ImplementsChannel` |
| `deadline_timer` | two callers, three `Arm` calls, clock to 2 | `SingleShot`, `DisarmedNeverRuns`, `NeverEarly`, `ArmedFires`, `DestroyTerminates` |
| `deadline_timer_disarm` | one caller, one `Arm` | **violated**: `DisarmPreventsCallback` |
| `handshake` | four initiators (one unknown beforehand, one with a wrong X25519 key, one with a wrong ML-KEM key), two initiations and two responses | `ConsumedOnce`, `PendingStillFresh`, `IndicesRegistered`, `KeyAgreement`, `SessionsDistinct`, `MisconfiguredNeverConnects`, `ImplementsKeyExchange` |
| `vpn` | two clients, two indices, two deliveries of each initiation, one crash | `RouteToOwner`, `ServerSendsOnlyConfirmed`, `WrittenOnce`, `CompletedOnce` |
| `vpn_fair` | one client with two initiations, one server crash, one loss, fairness | `TypeOK`, `ActiveSessionLive`, `EndsMatch`, `RouteReachesClient`, `HandshakeCompletes`, `DeadSessionReplaced`, `StaleRouteEnds` |
| `vpn_loss` | one loss | **violated**: `HandshakeSurvivesLoss` |
| `vpn_duplicate` | two deliveries of one initiation | **violated**: `OneSessionPerInitiation` |
| `client_lifecycle` | both threads, every stage failing, handlers interrupted at every call | `InitAllOrNothing`, `OpenWhileUsed`, `QuitTerminates` |
| `server_lifecycle` | two starts in each of three processes, a client that loads the copied keys | `RestartClean`, `LoopOwnsDescriptors`, `KeysStable`, `TrustedKeysServe`, `QuitTerminates` |
| `event_poller` | three handles, two masks, spans of one and two, three platforms | `ImplementsEventSet` |
| `blake3` | up to 34 chunks in pieces of 1 to 128 bytes, nine processors, three modes | `HashIsTree`, `StackOrdered`, `CallsExact`, `RoundsAgree` |

### The disagreements

1. **Disarm.** `Loop` clears `armed_` and releases the lock before it calls
   `callback_()`. A `Disarm` that runs in between returns, and the callback starts
   afterwards, where the header and the test say it must not.
2. **Loss.** The client sends an initiation when it starts and when its active
   session expires. If that datagram or its response is lost, nothing sends it
   again; `HandshakeTimers`, made for this, has no user.
3. **Repeated initiations.** `HandleInitiation` checks the timestamp against a
   `Peer` made for this datagram, whose last timestamp is zero, so the check
   always passes and a repeated datagram makes another session. `ConsumedOnce`
   shows that the check works on a `Peer` that is kept. `CompletedOnce` and
   `RouteToOwner` show that the extra session stays unused.

Two more promises of headers are not kept in a corner that the programs do not meet,
and no run states them:

* `client/client.hpp:70` says that `Run` "polls until Stop() is called" and line 73
  that after `Stop` "a subsequent Run() call returns immediately". `Run` tests
  `stopped_` (`client/client.cpp:149`) and later stores true in `running_`
  (`client/client.cpp:154`). A `Stop` in between is overwritten, and `Run` goes on
  polling. The programs end nevertheless (`QuitTerminates`), because they stop with
  `Shutdown`, which closes the poller, and a closed poller ends the loop.
* `core/config/key_config.hpp:20` says that keys are generated "if the file does not
  exist" and that any error returns nothing. The code takes a file that it cannot open
  for reading as one that does not exist (`core/config/key_config.cpp:74`). If it can
  be opened for writing all the same, the keys in it are replaced. Section 5 says how
  the model restricts this.

Observations on which the repository promises nothing:

* `TimerTick` of the client never asks for a rekey: `CheckRekeys` has no caller,
  and a session is replaced only after it has expired.
* After an error of `Poll` the server's loop is over with `running_` still set.
* On macOS `kevent` stops at the first change that fails. For a handle registered
  for writing alone, `Modify` and `Remove` delete the missing read filter first, and
  the changes behind it are not applied (`os/macos/event_poller.cpp:123`, `:145`).
  `EventPoller` with `Masks = {{"Writable"}}`, which `PollerAssumption` excludes,
  violates `ImplementsEventSet`; the event loops register for reading.
* On Windows a handle that is closed stays in the array until it is removed, and
  `Poll` reports it with an empty mask. `EventSet` allows such an event.
* `SetNonBlocking(false)` on Linux combines the flags with `|~`
  (`os/linux/udp_socket.cpp:91`), and the port of the server's configuration is cast
  to 16 bits unchecked (`server/server_config.cpp:50`).

### Bounds

* `session`: the limit is more than twice the window, so that counters fall out of
  it and gaps wider than it occur; the calls of `Seal` go beyond the limit up to the
  modulus, and damaged packets carry every counter up to the modulus.
* `deadline_timer`: three `Arm` calls allow one that is served, one that re-arms
  during the wait and one from the callback, or one that is disarmed and two after it.
  The safety properties are also proved without these bounds.
* `handshake`: two initiations are what a stale response or an overtaken
  initiation takes, and two responses are what it takes to confuse two. With
  four initiators all pairs of a correct one, one that is unknown beforehand and the
  two with a wrong key occur. A second of two nanoseconds
  (`kNanos = 2`) and clock readings from 0 to 2 include a carry into the seconds, a
  clock that stands still and one that is set back. The safety properties and the
  refinement are also proved without these bounds.
* `vpn`: two indices make reuse after a crash certain. One message per direction
  and session (`kRejectAfterMessages = 1`) suffices to repeat it, to confirm the
  session and to teach a route; longer sequences are the subject of `Session`.
  `RejectAfterTime = 1` lets sessions be young, old and expired. The safety
  properties are also proved without these bounds.
* `server_lifecycle`: two starts are a failed or a successful one and one after it.
  Three processes are one that leaves the key file incomplete or complete, one that
  finds it so, and one after that.
* `event_poller`: three handles are more than either span holds, and enough for the
  removed entry of the array to be the first, the one in the middle or the last. The
  masks are reading, and reading with writing, as the interest of a connected socket
  changes. The refinement is also proved without these bounds.
* `blake3`: a chunk has two blocks of two bytes, which makes a first, a last and a
  full block of each kind; the code has sixteen of 64 bytes and treats those in the
  middle alike. 133 bytes are 34 chunks, more than two passes of the widest lanes
  with a remainder, and pieces of 128 bytes are subtrees of 32 chunks. Each of the
  nine processors takes another path through `get_cpu_features` and the dispatch, or
  lacks the operating system's support for the registers it has.
  The direct calls of `CallsExact` have up to 31 inputs, a pass of every width that the
  processor has. A word wraps at 32, above the 16 lanes, and their counters are next to
  the carry or at the top. `Blake3Proofs` covers all words, counters and numbers of
  inputs, all lengths of pieces, blocks and chunks, and inputs of any length. The
  rounds have no parameters; there the run and the proof cover the same.

Indices are drawn at random, and clients and handles are interchangeable, so the
safety runs use them as symmetry sets; `vpn_fair` uses none. Deadlock checking is off
where bounds on calls, or the end of the process, stop the model.

### Fairness

* `DeadlineTimer`: threads that can run are scheduled, notified waits end, the
  clock advances, callbacks return. Nobody has to call `Arm` or `Disarm`, and
  spurious wake-ups are not owed.
* `Vpn`: both loops run `TimerTick` after every poll, which has a timeout; time
  passes; a datagram that stays in `net` is handled. No fairness makes a process
  start or crash, a packet appear on a TUN device, or a datagram get lost.
* Lifecycles: both threads are scheduled, and `Poll` returns because it has a
  timeout. Nobody has to quit and no descriptor has to fail.

## 4. What is proved

Every theorem holds for all values of the constants that satisfy the module's
assumptions, which say what the constants of the code satisfy: a window that is not
empty and a limit that stays a window below the modulus (`WindowAssumption`), no more
than 2^64 calls of `Seal` on a session (`SealsAssumption`), a positive number of
nanoseconds in a second (`NanosAssumption`), names of initiators and of the responder
that differ (`HandshakeAssumption`), words of at least 32 values and even
modulus (`WordAssumption`), names of clients and server that differ, and bounds that
are natural numbers (`VpnAssumption`), finitely many handles and masks that ask for
reading (`PollerAssumption`), natural numbers of inputs and counters
(`CallAssumption`), a block that is not empty (`BlockAssumption`), chunks that are a
power of two long and hold whole blocks (`ChunkAssumption`), and pieces and ranges of
output that are natural numbers (`PieceAssumption`).

| Module | Theorem | Property |
|---|---|---|
| `SessionProofs` | `TypeCorrect`, `NoncesUnique`, `WindowExact`, `Refinement` | `TypeOK`, `NonceUnique`, `CheckIsExact`, `ImplementsChannel` |
| `HandshakeProofs` | `NowLater` | `Now` returns a well-formed, later stamp |
| | `Indices`, `CommitsOnce`, `PendingFresh`, `Agreement`, `DistinctSessions`, `Misconfiguration` | `IndicesRegistered`, `ConsumedOnce`, `PendingStillFresh`, `KeyAgreement`, `SessionsDistinct`, `MisconfiguredNeverConnects` |
| | `Refinement` | `ImplementsKeyExchange` |
| `VpnProofs` | `TypeCorrect`, `ActiveSession`, `RouteOwner`, `OnlyConfirmed`, `EndsAgree`, `RouteReaches`, `Completion`, `NoDuplicates` | `TypeOK`, `ActiveSessionLive`, `RouteToOwner`, `ServerSendsOnlyConfirmed`, `EndsMatch`, `RouteReachesClient`, `CompletedOnce`, `WrittenOnce` |
| `DeadlineTimerProofs` | `SingleShotAlways`, `NotEarly`, `DisarmFinal` | `SingleShot`, `NeverEarly`, `DisarmedNeverRuns` |
| `ServerLifecycleProofs` | `StableKeys`, `TrustedKeys`, `CleanRestart`, `LoopOwns` | `KeysStable`, `TrustedKeysServe`, `RestartClean`, `LoopOwnsDescriptors` |
| `ClientLifecycleProofs` | `AllOrNothing`, `OpenForUse` | `InitAllOrNothing`, `OpenWhileUsed` |
| `EventPollerProofs` | `Refinement` | `ImplementsEventSet` |
| `Blake3Proofs` | `CompareExact`, `HighBitExact` | both forms of `load_counters` give each lane both words of its counter |
| | `HashManyDispatched`, `XofManyDispatched` | `hash_many` and `xof_many` give each input and block its own counter |
| | `CallsRight`, `RoundsRight` | `CallsExact`, `RoundsAgree` |
| | `HashOfTree`, `StackInOrder` | `HashIsTree`, `StackOrdered` |

### The arguments

**Session.** `NonceUnique` is not inductive, because nothing in it says that the
next counter is unused. `NonceInv` adds that `send_nonce` is the number of calls
modulo the modulus, and that every packet on the wire has the number of its call
as counter, below that number. At the modulus itself `send_nonce` is zero again,
but all calls from the limit on have been refused and none is left.
`CheckIsExact` speaks of `Check` only; the strengthening is `Remembers(window,
Opened)`: position p of the bitmap is set exactly when `last - p` was opened, and
nothing beyond `last` was. The lemmas `CheckExact` and `AcceptRemembers`
carry the content: `Check` decides membership exactly (this is
where the unsigned sum must not wrap, `WindowEndExact`), and `Accept` adds one
counter and nothing else, across the shift. The refinement follows: a packet that
`Open` returns passed `Check`, so its counter was not among the opened ones.

**Handshake.** No property of the list is inductive, because what a function does with
a message depends on the calls that made it. `IInv` says which calls those were.
`InitiationsInv` and `ResponsesInv`: every message is one that `CreateMessageInitiation`
or `CreateMessageResponse` makes, an initiation is told apart by its fresh value, by its
index and by its stamp, a response by its fresh value and its index, and each response
answers one initiation. `InitiatorInv` and `ResponderInv`: a handshake in progress has
the chaining key of a message of the network. `KeypairsInv`: a keypair is one end of
the session of a response and its initiation, and a completed initiation is no longer
in progress. The step from messages to keys is `TransportKey`: `MixKey` keeps what was
mixed in before, so a transport key determines the fresh values of both messages, and
sessions on equal keys come from the same two messages (`SameSession`), which is
`KeyAgreement` and `SessionsDistinct`. The steps from keys back to messages are
`Received` and `Opened`: what a responder, or an initiator, can open was made for it,
from the chaining key it has. `CommitsInv` says that no committed initiation is later
than the last timestamp of its Peer; as stamps grow (`NowLater`) and equal stamps of a
sender are the same initiation, `ConsumedOnce` and `PendingStillFresh` follow. In the
refinement `CreateMessageInitiation` is an offer, `CreateMessageResponse` an answer and
the initiator's `DeriveSessionKeys` an agreement; `ConsumeMessageResponse` keeps the
first input of the chaining key, and so which initiation is pending.

**Vpn.** The eight properties are one induction. Its invariant `IInv` ties the three
places where a key pair is known: the datagrams, the tables and `established`.
`ResponseLinks` says that a response names the index of the server's session on its
keys and, while its initiation is the client's latest, the index of that handshake;
this gives `EndsMatch` when the client activates its end. `Made` says that the
initiation and the response of every key in use have been counted, so that the next
key of `HandleInitiation` is unknown everywhere; `Derived` says that no derived key
answers a pending initiation, so that the next key of `HandleResponse` is unknown to
the client. `TransportLinks` says that packets travel on derived keys and that those
to the server come from the client of the keys: a session that has heard something
is confirmed, and a route learned from its packet belongs to its peer. `Spent` says
that every session that could still open a packet that was written refuses it. A
packet of an earlier life finds no session on its keys, and one of this life finds a
window that has its counter, because what `Check` refuses it refuses after any
`Accept` (`AcceptRefuses`). Most handlers make no keys: one lemma, `Quiet`, shows
that such steps keep the core of the invariant, and the three that start, answer and
complete a handshake have a lemma each.

`RouteReachesClient` says first that a route names a session of the table, which
`RoutesLive` adds to the invariant: the sweep erases routes with their sessions. The
rest is about sessions of this life of the client, so the invariant says
which those are: `Before(c)` counts the initiations of earlier lives, which no step of a
life changes, because an initiation and its index are registered together
(`Registered`). `Counterparts` says of every live session of the server on keys that the
client derived in this life: the client has a session on them, no older than the
server's (and under the index that the server writes, by `EndsMatch`). The server's end
is made before the client's and both age with `Tick` alone, so a session the client's
sweep removes has expired at the server too; and no handshake overwrites one of the
client's sessions, because its index is taken from the index table when it starts and
has no session until it completes.

**DeadlineTimer.** `Ordered` adds to `SingleShot` that the `Arm` call served by an
expiry is later than all whose callback was started, and that a call armed now is
later still: `Loop` clears `armed_` in the critical section in which it takes the
expiry. For the other two properties the invariant follows a call of `Arm` from its
critical section to its callback. `Punctual` says that `deadline_` is that of the
latest call while `armed_` is set, and that the expiry the loop has taken is due: the
loop waits for a copy of `deadline_`, compares it with `deadline_` before it acts on
it, and time does not go back, so `NeverEarly` holds when the callback starts, however
late. `Final` says that a call a `Disarm` found armed is neither armed again, nor
taken, nor served.

**Lifecycles.** The server's `KeyInv` follows the files: whoever went on with keys
left a complete file, each file and each client with keys has the keys processes went
on with, and new keys come into being only where no file exists. `LifeInv` says,
for each place of the main thread, which descriptors may be open and where the worker
can be. The client's `LifeInv` says what the stages of `Init` so far have opened and
what `Shutdown` has closed, that the worker comes to a call on the TUN device only
after it found the device open, which it stays until `Shutdown`, and that the worker is
joined before the last `Shutdown` ends; no step of the worker opens or closes anything.

**EventPoller.** `IInv` says for each platform what its registry is: for epoll a
function on handles that are open; for kqueue pairs of an open handle and a filter, in
which a handle with any filter has the one for reading; for the array entries of which
no two name the same handle. The second is what the macOS code needs, because its
`Modify` and `Remove` start by deleting the filter for reading, and the third what the
Windows code needs, because its `Modify` and `Remove` touch the first entry they find.
`AddLeaves`, `ModifyLeaves` and `RemoveLeaves` say what each platform's call leaves in
the abstract registry. For `Poll`, `MeetsPoll` reduces the promise to four facts about
what is written to the span. On Linux they are those of `Filled`. On Windows the scan
from the front writes each due handle once until the span is full (`WrittenStep`). On
macOS the kernel fills a buffer of twice the span and the code merges what belongs
together: after each event the output has one entry for every handle seen, or is full
(`MergedStep`); as no handle has more than two events, a full buffer has as many handles
as the span has places, and nothing due is missing from an output with room left
(`MissingFits`). The two loops are recursive functions, whose properties are proved by
induction from the least element of a set of naturals (`Least`, `Induction`).

**BLAKE3.** A lane adds less than half a word to the low word. The sum
wraps exactly if it is below what was added, and exactly if the high bit of the low
word was set and that of the sum is not. `LaneExact` collects this for every lane of
every implementation. The loops of `hash_many` and `xof_many` take the widest pass
there is something left for; `LoopsYield` shows, by induction over what is left, that
any such loop puts its outputs in the order of the inputs, and the counter that a pass
starts from and the number of the lane add up to the number of the input.

The rounds are compared with `round_fn`, the data flow of the lane code. `MessageIs` and
`ScheduleStep` show that the rows of `MSG_SCHEDULE` are the powers of the permutation.
The row code never looks at the schedule: before round r its four message vectors are
`MessageVectors` of row r (`MessagesOfRounds`), which a round's shuffles and blends turn
into those of the next (`MessagesLater`, with `blend_epi16` of SSE2 as with the
instruction), and diagonalizing and back leaves the rows as they were (`RowsBack`).
`Interleaved` transposes groups of four words; the wider transposes put the groups into
place (`Transpose128`, `Transpose256`, `Transpose512`, `TransposeNeon`), after which
`LoadedRight` and `StoredRight` are about quotients and remainders of a word's number.

Neither `HashIsTree` nor `StackOrdered` is inductive: they speak of output and of the
stack, and not of the block and chaining value of the chunk that is being filled.
`HashInv` says what the hasher is after `given` bytes (`Given`). Its chunk state is the
one that the bytes of the chunk determine, however they came in (`Canon`): blocks are
compressed when a byte follows them, so that the last one is still in the buffer. The
values on the stack are those of complete subtrees, side by side from the first chunk
to the chunk count (`Layout`). Their sizes are powers of two, each no smaller
than all above it together; when update has pushed a pair, the two on top are equal
(`Twins`). A layout in which each is larger than all above it (`Strict`) is the bits of
the count (`StrictBits`, `StrictCount`), which is why `hasher_merge_cv_stack` can
compare the length of the stack with `popcnt`, and why its loop merges equal neighbours
only.

A step appends bytes, so every node has to stay what it was in the longer message:
`TreeComplete` says so of subtrees whose chunks are all full. A piece is cut into
subtrees that are aligned to their size (`Shrunk`). What
`blake3_compress_subtree_wide` returns of one is a layer of the tree over it, by
induction over its length with the degree of the processor as the case distinction,
and `ParentNodeIs` goes from that layer to the two children of the root. Both are
pushed and not merged, because the subtree may turn out to be the whole message;
merging waits until a byte follows. `UpdateBaseIs` puts this together for a call of
update. In `finalize_seek`, the output of the last chunk, or of the pair on top, is a
subtree that reaches to the end of the message; one more value of the stack to its
left makes the next such subtree, because the left one is the largest power of two
that leaves something (`RollUpIs`), up to the root. `RootBytesAre` reads the bytes of
the root's blocks from any position on, across the pieces before, between and behind
whole blocks.

### Not proved

Liveness under fairness is out of the prover's reach and model-checked only:
`ArmedFires` and `DestroyTerminates` of `DeadlineTimer`, `HandshakeCompletes`,
`DeadSessionReplaced` and `StaleRouteEnds` of `Vpn`, `QuitTerminates` of both
lifecycles. Every other property of the passing runs is a theorem.

## 5. What is not modelled

* Bytes: layout, sizes and endianness of messages; the syntax of the key files and
  of configuration files; logging and statistics.
* The arithmetic of the primitives, which are symbolic, and calls into OpenSSL
  that fail: they make a function return without effect. In BLAKE3 the additions,
  exclusive ors and rotations of words, which all its implementations write alike, and
  their number in a step; only which words meet is followed.
* BLAKE3's recursion on TBB threads, which is not built, and its assembly files, which
  are what an amd64 build hashes with; nothing here says that they agree with the C
  code they replace.
* A key file that can be written and not read: the code would replace its keys, and
  `KeysStable` with them. `KeyFile` takes a file that denies reading to deny writing.
* mac1, mac2 and cookies: the helpers exist, no code path verifies them.
* `HandshakeTimers`, and of `SessionManager` the functions that nothing calls:
  `TransitionSession`, `GenerateSenderIndex`, `CheckRekeys`.
* The growth of the index tables: no entry is ever deleted, and a table of 2^32
  entries would keep `NewIndex` from returning.
* A wall clock that is set back (`created` is a `system_clock` time): ages only grow.
* Packets whose inner source address is not the client's own.
* System calls of the pollers that fail for want of memory; `TunDevice` and
  `UDPSocket` beyond which of them is open.
* The configuration parsers, scripts and the TUN prototype.

## 6. Plan

Done: the data plane, the handshake, the event loops, the timers, the lifecycles with
the key files, the pollers and the hash. Their safety properties are proved, and the
refinements of `Session`, `Handshake` and `EventPoller`.

Left: `SessionTable` and `HandshakeTimers`, as soon as the event loops use them.

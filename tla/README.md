# Sanctum: a verification project

TLA+ models of Sanctum (`src/`, a Rust workspace for end-to-end encrypted group
chat over Tor), the TLC configurations that check them on small instances, and
proofs that TLAPS checks for every value of the constants. Paths in this file
are relative to `src/crates/` unless they start with `docs/`.

`PROJECT.json` lists the components, the runs, one deliberate fault per property
(a *mutant*: a definition replaced by a variant that a plausible bug would
produce), the source lines of every definition, the hazards of the code and the
theorems.

    tlc -workers 2 -config MCRoom.cfg MCRoom     # one run
    tlapm RoomProofs.tla                         # one module of proofs

## 1. Inventory

Sanctum has four library layers and a command line. A *host* runs a relay for
one room; *clients* connect to it through Tor, authenticate, and exchange
envelopes that the host forwards without being able to read them.

| Layer | Crate | Parts |
|---|---|---|
| entities | `sanctum-domain` | `Session` (anti-replay), `Room`, `Member`, `Invite`, `MessageEnvelope` |
| use cases | `sanctum-app` | `MessageService`, `HostService`, `RoomService`, `AuthService`, `ClientService`, `ChatSession` |
| crypto | `sanctum-crypto` | Double Ratchet, X3DH, Noise, KDF, AEAD, padding |
| infrastructure | `sanctum-infra` | `HostListener`, `ClientConnector`, storage (memory, SQLite), framing, Noise transport, Tor control, `E2eSession` |
| command line | `sanctum-cli` | `host`, `join`, chat loop, room commands |

How they interact: `host` clones the room of `RoomService` into a `HostService`
and gives that to a `HostListener`. The listener spawns one task per connection
(`handle_client`), and the tasks share the `HostService`, a map of outbound
channels and a map of aliases (a tokio mutex each) and one broadcast channel. A
task authenticates its client with `AuthService`, registers it, introduces it to
the others (PeerReady) and then loops over a `select!`: frames from the client
are routed into the channels of the other clients, frames of its own channel and
announcements of the broadcast channel are written to the client. At the other
end the chat loop drives an `E2eSession`, which holds the Double Ratchet.
`MessageService` numbers and filters envelopes; the storage adapters keep
messages for absent members.

**Anti-replay session** (`sanctum-domain/src/entities/session.rs`) and
**MessageService** (`sanctum-app/src/message_service.rs`). *State*: per
fingerprint a send counter, the highest number received, a bitmap of 64 numbers.
*Operations*: register, mark established, prepare an envelope, process one.
*Hard*: reordering and repetition around a window that moves; a shift by exactly 64;
sessions that come into being in two ways. *Correct when*: no number is accepted
twice, none is refused without cause, no number is given twice.

**Host relay** (`sanctum-infra/src/host_listener.rs`,
`sanctum-app/src/host_service.rs`). *State*: members, connected clients, ready
flags, outbound channels, aliases, the broadcast channel, three locks. *Hard*: joins
that overlap, a send into a full channel with two locks held, clients that stop
reading, recipients computed before they are used, cleanup by fingerprint, errors
that leave by `?`, shutdown in every phase. *Correct when*: messages arrive in
order, once, and never at their sender; everyone in the loop is served and
introduced; the registry names the task that serves a fingerprint; nothing but a
client that does not read, or a full channel, keeps a task from going on or from being
shut down.

**Room** and **RoomService** (`entities/room.rs`, `entities/member.rs`,
`room_service.rs`). *State*: a list of members that only grows. *Hard*: revoking
and adding again, as every look-up finds the first entry; stored copies.
*Correct when*: the limit holds, the owner stays, a revocation is final.

**AuthService** (`auth_service.rs`). *State*: used nonces and attempt counters,
shared by all connections. *Hard*: calls of several clients that mix, a clock
that is set back, the purge of nonces. *Correct when*: lockouts and replays are
explained by the calls before.

**Backlog storage** (`storage_memory.rs`, `storage_sqlite.rs`). *State*: a list
or a table of messages. *Hard*: a limit per room in a list shared by all rooms,
sequence numbers that count per sender but are compared across senders, two
adapters that should agree. *Correct when*: the limit holds, the newest stay,
and a catch-up misses nothing the adapter still has.

**Double Ratchet** (`sanctum-crypto/src/ratchet.rs`,
`sanctum-infra/src/e2e_session.rs`). *State*: key pairs, root, two chains,
counters, kept keys of skipped messages. *Hard*: messages that are lost, late,
repeated, damaged, or cross a turn of the ratchet; a state that moves before the
ciphertext is authenticated. *Correct when*: late messages open, nothing opens
twice, keys are unique and forgotten after use.

**Connection** (`codec.rs`, `tcp_transport.rs`, `noise_transport.rs`,
`sanctum-crypto/src/noise.rs`). *State*: a read buffer, what is being written, a
nonce per direction, the bytes in the sockets. *Hard*: reads that end anywhere in
a frame and are dropped by `select!`, frames that are not encrypted among others
that are, the exact length limit, tasks that do not read while they write.
*Correct when*: the other end's frames come out whole, in order and none left
out; no end refuses what the other has sent; every frame arrives.

**Chat loop** (`chat_loop.rs`) and **client connection**
(`client_connector.rs`, `join.rs`). *State*: at most one E2E session per client.
*Hard*: one session in a room of several, a responder that cannot seal before it
has received, clients that join again with new keys while the others keep their
sessions. *Correct when*: a text fails to open only for a reason the writer and
the reader share; no key is used twice in the room; once sealed, always sealed.

**Profile** (`sanctum-cli/src/commands/init.rs`, `identity.rs`,
`sanctum-infra/src/identity_pgp.rs`). *State*: the files under `~/.sanctum`.
*Hard*: `init` writes four files one after the other and may be interrupted
anywhere, then run again; other commands read them meanwhile. *Correct when*: the
files belong to one identity, and an identity that was named stays.

**Tor control** (`sanctum-infra/src/tor_control.rs`) and the **SOCKS proxy**
(`socks.rs`). *State*: one connection to Tor, its unread lines, a service; a stream
that carries the proxy's answers before it carries the tunnel. *Hard*: answers of
several lines, cookies tried one after the other, a Tor that stops in the middle
of an answer, answers of several lengths. *Correct when*: no reply is taken for
another's, no service is left behind, not a byte too many or too few is read.

**Hosting and invitations** (`commands/host.rs`, `commands/room.rs`,
`commands/join.rs`, `invite_codec.rs`, `examples/chat_demo.rs`, `main.rs`).
*State*: per process where it is, its relay, its token; shared: the port, the key
files in `/tmp`, Tor, the profile. *Hard*: two processes that want one port, a
failed bind that is only printed, a key file that the next run overwrites, a
blocking keyboard thread, answers that are awaited without a time limit, Ctrl-C and
kills at any time. *Correct when*: a guest gets into the room of its invitation, and
a run that is stopped ends. The code keeps neither as it stands: section 7 has the
first as a violated property, and the second holds but for the waits that watch no
token.

**Padding** (`sanctum-crypto/src/padding.rs`): a pure function. *Correct when*: a
padded message is a whole number of blocks and gives the message back.

**Client and chat services, memory transport, protobuf, terminal**: left out for
good, see section 6. What the models need of **KDF, AEAD and PGP** is stated where
it is assumed.

## 2. Plan

Order of work, most important behaviour first:

1. `Session`, `AntiReplay`, `MessageService` with proofs: done.
2. `HostRelay` and its properties, with proofs: done.
3. `Room`, `AuthService` and `RatchetState` with `Ratchet`, all with proofs;
   `Storage` and `Backlog` with proofs: done.
4. `Pipe` and `Wire`, the bytes and frames of a connection: done.
5. `Chat`, the clients of a room with their sessions, over `RatchetState`, with
   proofs: done.
6. `Profile`, `TorControl` and `Hosting`, which composes them with the processes
   of a host and with invitations; proofs of all three: done.
7. `Tunnel`, the SOCKS proxy in front of `Wire`; `Padding` with proofs: done.
8. Restarts of the host and of the senders in `Backlog`, the key files of the
   example in `Chat`: done.
9. Open: `Admission`, which would compose `Room` and `AuthService` as
   `authenticate_client` uses them; the peer count of the chat loop against the
   introductions of `HostRelay`; an abstract relay (a FIFO per pair of peers) that
   `HostRelay` implements when channels do not fill up and that `Chat` uses.

No theorem is open that the prover could reach: section 5 says which properties stay
with TLC and why.

## 3. The modules

| Module | Models | Actions |
|---|---|---|
| `Session` | operators on one session | |
| `AntiReplay` | abstract: accepted numbers only | `Accept`, `Refuse`, `Other` |
| `MessageService` | every participant's service and the network | `RegisterSession`, `MarkSessionEstablished`, `PrepareEnvelope`, `ReceiveDamaged`, `ProcessReceived` |
| `HostRelay` | all connection tasks of one host | see below |
| `HostRelayProps` | its properties | |
| `Room` | RoomService over a Room, and its stored copy | `CreateRoom`, `AddMember`, `RevokeMember`, `StoreRoom`, `LoadRoom` |
| `AuthService` | the shared service and its clock | `CreateChallenge`, `VerifyResponse`, `PurgeOldNonces`, `Clock` |
| `Storage` | operators of both adapters | |
| `Backlog` | both adapters fed alike, recipients that catch up | `StoreRoom`, `StoreMessage`, `StoreCopy`, `PurgeExpired`, `PurgeExcess`, `DeleteRoom`, `CatchUp`, `Reopen`, `SenderRestarts`, `Tick` |
| `RatchetState` | operators on one `RatchetState` | |
| `Ratchet` | two parties and a network | `Encrypt`, `Receive` |
| `Pipe` | abstract: frames in order | `PipeSend`, `PipeReceive` |
| `Wire` | both ends of one connection, its bytes | `Hello`, `Shake`, `SendFrame`, `RecvFrame`, `WriteSome`, `WriteFails`, `ReadSome`, `ReadFails`, `Return`, `Quit`, `Cut` |
| `Tunnel` | `Wire` opened directly or through the SOCKS proxy | `Greet`, `ReadMethod`, `ReadHead`, `Drain`, `TunnelFails`, `ProxyAnswers`, those of `Wire` |
| `Profile` | the files of `~/.sanctum` | `InitFresh`, `InitAgain`, `Open`, `Fill`, `Stop`, `Import`, `Show`, `Generate`, `LoadFromDisk`, `Delete` |
| `TorControl` | the control connections to one Tor | `TorConnect`, `ReadInfo`, `TryCookie`, `ReadAuth`, `TryEmpty`, `ReadEmpty`, `CreateService`, `ReadAdd`, `MockService`, `DestroyService`, `ReadDel`, `Answer`, `TorStops`, `TorDrop` |
| `Hosting` | the processes of a host, over `Profile` and `TorControl` | `Start`, `OpenKeyFile`, `FillKeyFile`, `KeyFileFails`, `Onion`, `OnionFails`, `Spawn`, `Dial`, `Connect`, `Refused`, `ConnectFails`, `Send`, `Sent`, `Leave`, `Destroy`, `Cancel`, `Await`, `LastKey`, `Bind`, `RelayStops`, `CtrlC`, `Killed`, `Invite`, `Expire`, `Join` |
| `Padding` | operators on messages and padded messages | |
| `Chat` | the clients of a room | `Connect`, `Serve`, `Enter`, `Leave`, `Dismiss`, `Route`, `Write`, `Read` |

`MC*` modules give the constants their values. `*Proofs` modules hold the proofs.
A definition whose comment says *variant of* is a mutant: nothing uses it but
the entry of `PROJECT.json` that swaps it in. A variable whose comment says
*history* is not in the code; it records what happened so that a property can
speak about it, and no guard of the code's own reads it.

### Session and MessageService

The u64 bitmap is the set of its bits (bit *a* stands for
`last_received - a`); `Width` is 64 in the code. `<<` is `ShiftLeft`, which masks
its count as release builds do, so that the guard `shift >= 64` before it
matters. The u64 counters are unbounded naturals. `prepare_envelope` needs the
sender's own fingerprint in its map, so the model does, too. A damaged envelope
is one `validate()` refuses, before the map is touched. The network is a set of
envelopes ever sent: any of them can be received at any time, any number of
times, or never.

### HostRelay

One action is what a task does between two points where it may wait. A lock that
is taken and released with no await in between is a guard (`hostLock = None`) of
one action; a lock that is held across an await is a variable that names its
holder. The two places where that happens are the greeting, which keeps the alias
map locked while it writes to the client (`GreetBegin`, `GreetOne`, `GreetEnd`),
and routing, which keeps the `HostService` and then the clients map locked while
it sends into a channel (`RouteLookup`, `RouteLockClients`, `RouteDeliver`). The
phases of `handle_client` in order:

    AddMember, Verify | Reject | HandshakeFails            authenticate_client
    Register, InsertAlias, CreateChannel, Subscribe        phases 1 and 2
    GreetBegin, GreetOne*, GreetEnd, Announce              phases 3 and 4
    loop: ReadRoomMessage, Snapshot, (RouteLookup, RouteLockClients,
          RouteDeliver)*, RouteEnd | ReadPing, Pong | ReadOther
          | DrainOut, WriteOut | TakeAnnouncement, WriteAnnouncement
          | Overrun | LeaveLoop
    CleanHost, CleanClients, CleanAlias                    after the loop

In the loop the choice of a branch and the awaited write in it are two steps: a
task that writes (`writing`, `telling`, `pong`) reads nothing, drains nothing and
does not watch the token until the write returns, and neither does one that greets.
`Connect`, `Disconnect`, `Stall`, `Resume` and `Shutdown` are the world. A write to a
client that has gone may fail or be taken by the socket; a write to a client
that does not read waits until it reads on, which it need not do. Both ends of a
broadcast channel are modelled: each task has a cursor, and one that falls more than
the capacity behind loses the oldest announcements (`Overrun`); `Err(Lagged)` does not
match the branch's pattern, so that the branch is off until that `select!` call ends
(`deaf`). `Overlap` are the peers that may connect again before the host has noticed
that their former connection is dead, and `doubled` remembers the connections that
were registered while another one of their peer was.

### Room, AuthService

A call that returns an error changes nothing and is a stutter. `Find` is the
first entry of a fingerprint, as `find_member` has it; the list keeps revoked
entries. `LoadRoom` puts back the copy that was stored. In `AuthService` the
counter's key is the truncated fingerprint (`Short`), the clock may be set to any
value, and whether a fingerprint is authorized is an argument, as in the code.

### Storage and Backlog

A message carries the arrival number `env` of its envelope at the host, which stands
for `stored_at` and the row order. Rows that rank alike may be dropped in any order
by `purge_excess`. What remains of a list (`Vec::retain`, `remove`) and the order of
a query are stated by rank (`Ordered`): the n-th entry is the one with n - 1 before
it, which the proofs can reason about. No code connects the adapters to the relay:
the callers are those of the tests and of the documented catch-up
(`docs/architecture.md` 4.6), and recipients ask one adapter, chosen at the start.
`Reopen` is a host that is started again: the list is empty, the table is what it
was. `SenderRestarts` is a sender that joins again: the counter of its chat loop is
a local variable that begins at 1 (`chat_loop.rs:51`), so that the properties that
compare numbers speak about one run of a sender (`OneRun`).

### RatchetState and Ratchet

Keys are the terms that derive them, so that different derivations give
different keys (what the KDF is trusted for) and equal ones the same key. X3DH is
the shared start: Alice begins with a sending chain, Bob with his signed pre-key.
The AEAD opens a whole message with its own key and nothing else. `Decrypt` has
the three ways through `decrypt`, and each keeps what the code keeps when it
fails: the kept key is gone, the DH step taken, the chain advanced. The header is not
authenticated (`decrypt` gives the AEAD no associated data), so a copy of a message
comes with a damaged ciphertext, with a damaged header, or both (`Copies`): its key is
that of another message or of nobody (`Stray`), or one of its two numbers is another
one. Such a header may turn the ratchet or skip keys on its own.

### Wire

A byte is a place in a frame, so that what the stream divides can be put together
wrongly; `LengthIn` is what four bytes say as a number when they are a prefix, and
nothing usable when they are not. An end is one task: while it writes (`rest` is
not empty) it does not read, as `send_frame` is awaited in a branch of the
`select!`, and a read that was dropped is a read that has not happened, as `read`
takes nothing from the socket before it returns. `ReadSome` and `WriteSome` move
any number of bytes up to what the buffer or the sockets hold. A handshake
message is one byte long and authentic; the cipher accepts a message under the
nonce it was sent with. After each frame the host's task may be `away`: in the phases
of `handle_client` where it waits for a lock or for room in another client's channel
and polls nothing of this connection. `Return` ends that, and nothing says that it ever
happens. `Quit` is the end of a chat loop or of `handle_client`,
`Cut` a network that fails, and both may lose what was under way.

### Tunnel

`connect_via_tor` reads exact numbers of bytes off the stream that Tor then joins to
the host's, before the first byte of the handshake. A byte of an answer is a place
in it, as the bytes of frames are, so that one left over is a byte the handshake
cannot take for its own. The proxy may be slow, refuse, be bound to an address of
any type, or vanish; the code has no time limit here, and fairness asks none of it.

### Profile

`std::fs::write` is `Open`, which empties the file, and `Fill`; `Stop` is a kill or an
error at any point between. `InitFresh` runs while `keys/identity.key` is missing,
whatever else is there, so the private key comes first and is what counts. The
commands that write run one at a time (two at once are not excluded by any code,
see section 6), the ones that read at any time.

### TorControl

One action reads one line. The answer to `PROTOCOLINFO` or `ADD_ONION` has several,
and a Tor that stops may cut the answer to any run anywhere. `read_line` at the end
of the stream gives an empty line and no error: `HasLine` is true there for ever.
Cookie paths are a list of what the files hold; a wrong cookie makes Tor close the
connection, so that the attempts after it are written to, and read from, a
connection that is gone.

### Hosting

A run is a process, its room and its Noise key at once, as all three are made new by
`run_create`; `way` is how it was called. `relay` is the spawned `HostListener`,
which binds the port after the address has been printed and, if the port is taken,
ends with a message while the run goes on. `keyFile` are the two files in `/tmp`
that carry the public Noise key from `host create` and from the example to `room
invite`. The owner's client is `Dial` and `Connect`, between which it waits for the
relay to serve it (`auth`); what it finds at the port may also be the relay of
another run (`Strange`), or nothing (`Refused`). A line of the chat is written in
`sending`, where the token is not watched. `keys` is the thread that reads the
keyboard (`spawn_blocking`), for which the runtime waits at the end. `room invite`
and `join` are one action each, as they share nothing with others but what they
read.

### Padding

A padded message is a record of what its header tells and of what follows it; random
bytes are any bytes. `Lengths` is 2^32 in the code, where the length is cast to a u32.

### Chat

A client's run of `join` is a *life*: it has its own keys and at most one session.
`Connect`, `Serve`, `Enter` and `Leave` are its connection, with the host's side
reduced to whether it serves the client; routing keeps the order of each sender and
nothing more, as `HostRelay` shows, and has one step per frame. No command of the
program starts a session; the initiator and the client it starts one with run
`sanctum-cli/examples/chat_demo.rs`, and the others run the chat loop. In the
example each side writes its public keys to a file before it connects, reads the
other's when it writes its first text, and removes the files when its loop ends; if
it is killed they stay (`files`). X3DH is `Secret`, a term of the keys either side
takes and of who starts: it is the same for both if they mean the same keys and
agree on who started, and another one for a third client that answers an
`InitialMessage` that was not for it (`respond` cannot tell). Texts are numbers; a
text is clear or has a header and a key. The counter of the loop, which nobody
reads, is left out.

## 4. The runs

| Run | Instance | States | Shows |
|---|---|---|---|
| `message_service` | 2 participants, both sending 4, window 2 | 0.12 M | `NeverTwice`, `RefusalJustified`, `NumbersNeverReused`, the inductive `WindowInv`, and that the service implements `AntiReplay` |
| `host_relay` | 2 connections that talk and ping, one of which may leave, of 2 peers or both of one; channels of 1, broadcast channel of 1 | 4.6 M | order and uniqueness, registry, introductions, what a lock holder waits for |
| `host_fanout` | 3 connections of 3 peers, one talks; channels of 1 | 4.1 M | complete fan-out while others join |
| `host_progress` | 2 connections, one talks, the other stalls, reads on and leaves; channels of 1, shutdown at any time | 0.4 M | routing completes and shutdown drains, unless a client that does not read, or a full channel, holds the task up |
| `host_reconnect` | 3 connections of 2 peers that may overlap | | *violated*: see section 7 |
| `room` | 3 people, two rooms in a row of 2, 3 or 4, 4 entries | 0.7 M | limit, owner, final revocation |
| `auth` | 3 clients, two alike once truncated; 2 challenges, 5 calls | 3.6 M | lockouts and replays explained |
| `backlog` | 2 rooms, 2 senders, 2 recipients, 3 envelopes, limit 2, one restart of a sender, any of the host | 2.4 M | limits, what stays, what a catch-up gives, agreement of the adapters |
| `ratchet` | 3 messages each way, skip limit 1, for each party one copy that is repeated or damaged in text or header | 1.1 M | late messages, uniqueness and forgetting of keys |
| `wire` | direct or through a proxy bound to any type of address; prefix 2, longest frame 3, tag 1, sockets of 5, reads of 4; 1 frame from the client, 2 from the host | 0.2 M | the transport implements `Pipe`, nothing is refused, frames arrive |
| `chat` | 3 clients, one starts a session, one connection may end and be made again; 2, 2 and 1 texts | 2.2 M | why a text fails to open, unique keys, sealed once heard |
| `hosting` | 2 runs that want one port, in two combinations; 2 key pairs, an `init` that may be interrupted; one invitation | 0.3 M | one identity in the profile, replies in step, no service left behind, a stopped run ends or waits where no token is watched |

Why the bounds are enough:

- *Window 2 of 4 numbers*: a number can be inside, on the edge of and behind the
  window, the window can jump by less than, exactly and more than its width with
  a second bit set. The theorems cover every width and count.
- *Two connections*: every pair of phases of two tasks meets, including two
  successive connections of one peer. *Three*: a join can be interleaved with two
  others. Channels of one fill up at once. The broadcast channel of one in `host_relay`
  is overrun by two announcements; in the other runs it holds all of them. In `host_progress` the client that stalls may do so in its greeting and in each
  branch of its loop, with its channel full or not, and its peer talks to it meanwhile.
- *Two rooms of 2 to 4 with 4 entries and three people*: a room fills up, people
  are revoked and added again, and a stored copy of the former room is loaded over
  the next one. The theorems cover every limit and number of entries.
- *Two attempts before a lockout and five calls*: a lockout, a reset by success,
  and a call after each, for two keys. A purge needs two successes before it.
- *Three envelopes with a copy for each recipient*: up to six messages, so that a
  room goes over its limit of two while the other one has messages, too.
- *Three messages each way*: two turns of the ratchet, with a message of the
  first chain that comes after the second turn. The skip limit of one is reached
  and exceeded. One repeated or damaged copy for each party is enough to turn or skip
  each out of step with the other; the numbers of a damaged header go up to the number
  of messages. The theorems cover any number of copies.

- *Prefix 2, frame 3, tag 1, Noise limit 2*: the relations of the code's 4, 65536,
  16 and 65535 are kept (the longest sealed payload and its type byte are exactly
  the longest frame). Payloads of 0, 1 and 2 are not encrypted, fit, and fit only
  without the tag. A read takes the rest of one frame and the whole of the next,
  and both frames of the host can follow its handshake message at once.
- *One connection that ends*: of any of the three clients, at any point, with the
  same client joining again: an initiator with a new session, a responder with
  none. Two texts of the pair turn the ratchet twice; one of the third client is
  enough to cross a session.

- *Two runs on one port*: over Tor with a chat beside the example; two local ones, of
  which one has a chat. Each can start, fail to
  bind, be stopped or be killed at any point of the other, and Tor can stop at any
  point of both. The cookie lists are one that ends in a wrong cookie and one that
  ends in the right one, each after one that is passed over. In this run the profile
  changes only before the first run starts (`Quiet`), and the runs have the profile
  of one `init` (`Fresh`): `Profile` itself is proved for any order.
- *One restart of a sender, one envelope with a copy* (`MaxRestarts`, `Copied`): two
  runs of one sender with numbers that meet, beside another sender; the host
  restarts any number of times.
- *Padding*: the run `message_service` also evaluates the theorems on padding for
  messages of up to four bytes, one more than its header can tell the length of.

Each module states its types (`TypeOK`, in `Chat` `ChatTypeOK`). The runs
`message_service` and `room` check theirs; all of them are proved (section 5), and
each can be checked by adding its name to the `INVARIANTS` of the `.cfg`.

Deadlock checking is off where the bounds end the behaviour (all numbers sent, all
connections used); in `host_progress` the liveness properties look for a system
that stops too early instead. The other runs check deadlock.

**Fairness.** Three runs assume any. `wire` has weak fairness of each end's own
steps (`TunnelStep(e)`): to read an answer of the proxy that has come, to write what
there is room for, to read what has come, to notice a lost connection. Nobody has to
send or to leave, no network has to fail, and the host's task, once it waits
elsewhere, has no fairness to come back (`Return`); `FramesArrive` excepts the case
that it never does. `hosting` has weak fairness of what a run does by itself
(`RunStep(r)`: the runtime polls the main task and the relay's task) and strong
fairness of leaving once the token is cancelled (`Told(r)`): a chat is at its
`select!` only between lines, and as `select!` takes a ready branch at random, it
cannot pass over the token for ever if it is back there again and again. What it
takes somebody else for has no fairness (`Served(r)`: Tor that answers a command, a
relay that serves its owner and reads what he writes), nor has a connection that
fails; `Waits` names the places where a run is then held for ever, and `StopEnds`
excepts them. Nobody has to press a key, to stop a run or to keep Tor alive.
`host_progress` has weak fairness of each task's own steps (`Task(c)`). The tokio
runtime keeps polling a task that has been woken, and its mutex hands the lock on in
the order of the waiters, which is more than weak fairness of the task as a whole
asks for. Clients get no fairness: nobody has to connect, send, read on, leave or
answer. The step from "challenge sent" depends on the client, so it is not among the
task's fair steps, and `ShutdownDrains` speaks about registered tasks only. A write
to a client that does not read is not enabled, and both properties end where
`HeldUp` says what holds the task up: its own write to such a client, the alias map that
a greeting to such a client keeps locked, or the two locks of a task that waits for room
in a channel which nobody drains, as the task at its other end writes to such a client,
or waits for one of these locks itself.

## 5. The proofs

`MessageProofs` has three parts: sessions, padding and the chat loop. Of sessions it
proves, for every set of participants, every window width and every number bound:
`WindowAlwaysExact`, `TypeCorrect`, `NoReplayAccepted`, `RefusalsJustified`,
`NumbersUnique` and `ServiceImplementsAntiReplay`. "No number is accepted twice" is
not inductive: a bitmap in disorder could accept anything. The invariant `WindowInv`
adds that every session mirrors the set of numbers its owner has accepted
(`Reflects`: the highest number is the greatest of them, and the bitmap is exactly
that set seen from the highest number and cut at the width), that an unknown
fingerprint has a new session, and that numbers sent are those up to the counter.
The argument goes through three lemmas on sessions: `ShiftLeftExact` (a shift below
the width moves every bit), `AcceptsExactly` (under `Reflects`, `check_replay`
accepts a number exactly when it is fresh in the sense of `AntiReplay`) and
`CheckReplayReflects` (afterwards the session reflects the set with the number
added); then there is one lemma per action. The refinement follows, as an accepted
call is `Accept`, a refused one `Refuse` and every other call `Other`.

`RoomProofs` proves for every set of fingerprints and every limit:
`RoomInvariant`, `RoomTypeCorrect`, `LimitHolds`, `OwnerAlwaysStays` and
`RevocationAlwaysFinal`. The invariant `RoomInv` says the same of the room and
of its stored copy (limit kept, first entry an active owner), which is needed
because loading brings the copy back. Its lemmas say what one more entry and one
changed status do to the set of active entries and to the first entry of a
fingerprint.

`AuthProofs` proves for any limit, tolerance and clock that lockouts and replays are
what the log of calls says (`LockoutExplained`, `ReplayExplained`), and its types
(`AuthTypeCorrect`). The properties
speak about past calls; `AuthInv` adds what the next call will find: the counter
of a key is the number of its refusals since its last success (`RefusalsOf`), and
`used_nonces` holds the challenges answered with success and not purged since
(`Spent`). `NewCall` says that these are what is behind a call that is appended,
`AfterCall` and `AfterPurge` what it changes in them, `EarlierKept` that the
explanations of earlier calls stay.

`HostRelayProofs` proves for any clients, keys and capacities of the channels:
`SenderOrderCorrect`, `HolderProceedsCorrect`, `RegistrationCorrect`,
`PeersIntroducedCorrect` and `NoneForgottenCorrect`, whoever connects how often at
once. The relay has some thirty actions and its invariants fourteen parts; so each
action is first put in a class by where its task goes (`ActionMoves`) and by what it
writes (`Writers`), and a part is then shown for a class at a time. `RelayInv` says
which steps hold which lock (`LocksHeld`), that channels keep within their capacity
(`OutCapped`), that a task's own entry leads to it (`EntryOwn`, `TargetOwn`), and in
`OrderInv` what order needs beyond the property: the messages of one sender in
everything a client has or will get have rising numbers, at most the number of the
latest message, and below it as long as that message is still on its way to the
client. `ServiceInv` adds that two registered tasks of one peer are both in
`doubled` (`Alone`), and for every phase of joining and leaving what the task has
already entered and not yet taken back (`ReadyToo`, `ChannelHeld`, `AliasHeld`);
`Introduced` and `Reached` say by which step of the two clients an introduction, or
a message under way, is yet to come. What is keyed by fingerprint (the registry, the
ready flags, the aliases) can only be claimed of connections that are not in
`doubled`: the run `host_reconnect` shows that the cleanup of one connection takes
them from the other. What is keyed by connection (the channels) holds for all.
`HolderProceeds` says without `ENABLED` what `HolderWaitsOnlyForRoom` says with it:
the holder of the host lock finds the other lock free, or holds both and waits for
room in one channel only.

`RatchetProofs` proves for any number of messages, skips and copies, whole or damaged in
their text or in one field of their header:
`NoKeyTwice`, `NothingOpensTwice` and `UsedKeysGone`. None of them is inductive, since
a message may come late, twice or damaged. The argument is about root keys: each DH
turn of a party makes the root one longer, and whose turn it was can be told from
the parity of its length (`Side`), so chains of the two parties never meet. `Parties`
says so of each state and, in `Shape`, what the chains of a state and its kept keys
have to do with its root; `Behind` that every key a party has encrypted with is behind
its sending chain (`SentBy`), `Spent` that every key it has opened with is behind its
receiving chain (`Passed`) and not kept. The lemmas on `RatchetState` say what skipping,
the DH step and a whole call of `decrypt` do to these, also when it fails half way.

`LateAlwaysOpens` is about completeness instead: while neither party has been handed
anything repeated or damaged, a message opens whenever it comes. Here the two
parties must be seen together. `InStep` says that one of them is exactly one turn of
the ratchet ahead, that its present key is the one its peer will turn to next, and
that the other's sending chain is the one it receives (`Linked`); that what each has
sent has numbers without gaps on its present chain and on the one before
(`Stamped`); and that a message the receiver's chain has passed and that was not
handed over has its key kept under its own mark (`Filed`). A message that comes is
then on the receiver's chain, or passed with its key kept, or on the next chain, and
each of the three ways through `decrypt` finds its key (`Comes`). If the skip limit
stops it, the numbers in between are all missing, and there are more of them than
`MaxSkip` (`Gap`). A refused message leaves the two in step all the same: so
`LateInv` is `InStep` for as long as nothing was repeated or damaged.

`HostingProofs` has three parts. For any number of key pairs the files of the
profile agree and a named identity lasts. Neither is inductive: `InitInStep` adds
that no file is written before the private key and that, from the second file on,
the `init` that runs has the identity whose key is there. Opening a file and filling
it are a lemma each. For any number of controllers, each with any list of cookie
paths, replies stay in step and no service is left behind. `TorInStep` adds what may
be unread at each step (`Unread`), that a service needs an open connection, and at
which steps there may be one. One lemma per group of commands, one for an answer and
one for the end of Tor, which cuts what each run has not read (`CutUnread`); the
steps of one run do not disturb the others (`OneRun`). Last, the whole implements
its parts: every step of `Hosting` is a step of `Profile` or leaves the profile
alone (`ProfileAlone`), and the same for `TorControl` (`TorAlone`). So what is
proved of the parts holds among any runs, ports and calls (`PartsKeepTheirWord`).

`BacklogProofs` proves for any rooms, senders and recipients, any limit and age and
any number of envelopes and restarts all five properties of the run `backlog`.
First what the operators of `Storage` do: a finite set under a strict total order has
one place for every member (`OrderedExact`: ranks are distinct and below the size of the
set, so by counting they are all of 1 to the size), so that retaining positions gives
exactly their messages in order (`RetainExact`), `MemoryStore` takes out nothing but
the oldest of the room (`MemoryStoreExact`), and both queries return what was asked
for in the order of the list or of `Listed`. `BacklogInv` adds to the properties that
copies of an envelope differ in their recipients only (`CopiesAlike`), that numbers rise
with arrival within a run (`Latest`, `Climbing`), that a message is forgotten together
with its copies (`Together`: without it a copy could be stored a second time after its
recipient had it) and that the last number known is that of a message returned. Steps
that only lose messages go through one lemma (`LosingInv`), both ways to store through
another (`PutInv`).

The second part of `MessageProofs` proves for every message and block size `RoundTrip`
and `WholeBlocks`, from what division with remainder gives (`FillFits`) and from what a
padded message consists of (`PaddedForm`).

The third part is about `Chat`, for any number of clients, whoever starts sessions
with whom: `ChatTypeCorrect`, `RoomKeysUnique`, `HeardThenSealed` and
`FailuresExplained`. A session may be one side of a pair, or of nothing: made from
stale keys, for somebody else, or turned by a third client's text. So `KeysUnique`
cannot rest on the two ends being in step, as in `RatchetProofs`. What does hold of
any session is `Rooted`: the first two elements of its root are the secret, which
names the keys of its maker and of the one it was made for, and from its parity
follows which of the two has added the last one; both the DH step and `Sealed` keep
that (`DecryptOn`, `SealedStep`). `ChatInv` says that every sealed text has a key
rooted in its own writer's run (`Written`), that what a run has sealed is behind its
session's sending chain (`LeftBehind`), and that a session that has opened a text
has a sending chain (`Heard`).

`FailuresExplained` (`FailsOnlyBecause`) then says when two runs do understand each
other, and needs two more invariants. `WayInv` is about the relay: what has been
written by a run and not been tried by a client is on its way to it in the order it
was written (`Lined`), from the moment the client can come to have a session with
that run (`Tuned`), and what is missing was lost at the end of the run, behind all
that is left (`Delivered`, `Known`). So the text a client tries is the first of
those it has not tried (`FirstOpens`). `Understood` is about two runs that deal with
each other alone (`Toward`, `Alone`): the texts of one that the other has not tried
are what the other expects (`Ready`: its present chain from `nrecv` on without gaps,
up to the length that a header of the next chain gives for it, then that chain from
0 on), and the session of the one seals what comes after them (`Sends`). The two
sessions are never level: one is a turn of the ratchet ahead (`Leads`), which
`Opens` keeps, as the DH step of the one behind puts it ahead. A client that has not
answered yet stands for the session it is going to have (`View`), so that the texts
an initiator seals before anybody has read its first frame are counted too. No text
is kept under a skipped key between such runs, hence `MaxSkip` does not matter.

`WireProofs` proves for all lengths and limits, any payloads and number of frames,
straight or through the proxy: `StreamInOrder`, `ConnectionIsPipe` and
`TypeCorrect`, and, where the longest message of the cipher is below the longest
frame (`CipherFits`: in the code 65535 and 65536), `NothingIsRefused`. The invariant
`WireInv` is about bytes: what is in the read buffer of one end, then in the
sockets, then in what the other end still writes, put together, are frames the other
end has sent, each whole and followed by the next (`Block`, `Rising`), from the one
that is due (`Starting`) on; it is cut off at the end at most, and that only by an
end that is gone. As the first byte is the first of a frame, the prefix the codec
reads is a prefix (`FirstFrame`), and what it takes off leaves such a stream again
(`FrameTaken`, `TakenOff`). Nonces agree because both ends count the frames with a
payload (`Nonces`). Before the tunnel is there, the answers of the proxy come first,
and what is still to be read of them is what the code will read. With that, every
step is one of `Pipe` or a stutter (`PipeStep`), and no end finds a prefix too long
or a nonce that is not its own (`NeverMalformed`, `NeverRefused`).

Assumptions: those named in the modules (`Width` positive, the clamping limits in
order, bounds natural numbers), `CipherFits` where it is stated, and the libraries'
facts on finite sets and sequences. `ChatNoneAssumption` and `NoneAssumption` are
about the value that stands for `Option::None`.

Only model-checked is what the prover cannot do: liveness under fairness
(`RoutingCompletes`, `ShutdownDrains`, `FramesArrive`, `StopEnds`), `ENABLED`
(`HolderWaitsOnlyForRoom`; `HolderProceeds` is the part of it that is proved), and what
recursive definitions, folds or a sort compute for every input.

## 6. What the models leave out

- 64-bit and 32-bit counters do not overflow in the models.
- The contents of messages, names, rooms; signatures, time formats. No client pads
  what it sends: nothing in the chat loop calls `pad`.
- One host, one room per host. The relay never revokes anybody, as no code does
  so while it runs; the room it has is a clone of the one in `RoomService`.
- In `HostRelay` an authenticated client is one whose response was accepted;
  how it is accepted is `AuthService`. The two are not composed yet.
- A client that never answers its challenge holds its task for ever, also through
  a shutdown: there is no timeout and no watch of the token in the code.
- In `HostRelay` a write is taken whole or not at all, and a client either reads or does
  not; how many bytes the sockets still take is in `Wire`.
- In `Chat` a frame is routed to all recipients in one step, and a client joins
  again only after the host has noticed that it had left; `HostRelay` has both in
  full. Peer count, aliases and time stamps are left out.
- In `Wire` the bytes of a frame cannot be changed on their way: TCP and the
  cipher are trusted, and only what the two ends do with them is modelled.
- In `Ratchet` one field of a header is damaged at a time, by the key of another
  message, by one that is nobody's, or by a number up to `MaxSend`. Two parties; whole
  rooms are in `Chat`, where nothing is damaged on its way.
- In `Hosting` a host makes one room with one invitation; the members, the messages
  and the owner's E2E session are those of the other modules. The wait of the example's
  guest for the files of its host is not modelled, nor that after the guest has left
  in the normal way all files are gone, so that it cannot come back until the host is
  started again. A read error on the control port (a reset) is the end of the stream.
- Two commands that write the profile at the same time: nothing in the code keeps
  two `init` from mixing their files.
- `ChatSession` and the input parser, which `sanctum chat` runs over in-memory ports
  without a network; `ClientService`, a connection state that its tests alone set;
  the memory transport (a mock), the protobuf codec (generated types that the
  program does not send), the terminal; `sanctum status` and the configuration, which
  are read and printed. `RoomService::generate_invite` and `validate_invite` keep no
  state, and `room invite` does not use them. The members, keys and metadata tables of
  the SQLite adapter are written and read by key, never together with messages.
- Resets that history variables make when a connection ends (`Drop`) forget what
  that connection's client was sent; properties about a client speak about one
  connection.

## 7. Where the code and its documentation differ

One difference is demonstrated by a run (entry "findings" of `PROJECT.json`):

- `host_reconnect`: `remove_client` removes by fingerprint, so the cleanup of a
  dead connection takes away the registration of the connection that replaced it
  (`sanctum-infra/src/host_listener.rs:241`). The same cleanup removes the alias
  (line 243), so that clients that join later are not told of that peer.

Others were met while modelling. The models behave as the code does, and the
properties are stated so that they hold for it. The first three are stated as
properties of their modules, too, which no run checks as they do not hold: each is violated
as an `INVARIANT` of the configuration named.

- `sanctum-domain/src/entities/session.rs:75`: `check_replay` accepts a late number down to
  63 below the highest one, while `docs/protocol.md:191` and `docs/architecture.md:367`
  reject it outside a "32-message reordering window" (`docs/protocol.md:192` and
  `README.md:130` have a bitmap of 64 bits). `RefusalJustified` and `ImplementsAntiReplay`
  are about the `Width` of the code, 64, and demand that the ages 32 to 63 are accepted;
  `ReorderingTolerance` of `MessageService` is the documented window
  (`MCMessageService.cfg`).
- `sanctum-cli/src/commands/room.rs:77`: `room invite` puts the key of whichever run last
  wrote the key file into the token, not that of the room it names; `join` does not compare
  the room it gets with the one in the token, and the relay does not look at
  invitations. So a guest may get into another room than the "Target room" of
  `sanctum-domain/src/entities/invite.rs:10` (`JoinedInTarget` of `Hosting`,
  `MCHosting.cfg`).
- `sanctum-cli/src/commands/identity.rs` imports to, and shows, `keys/signing.key`,
  while `host create`, `room invite` and `join` load `keys/identity.key`
  (`identity_pgp.rs:51`): the fingerprint that `identity import` and `identity show`
  name need not be the one that `join` presents, against the steps of
  `sanctum-cli/sanctum-cli-guide.md:607`. `ShownServes` of `Profile` states it; as an
  `INVARIANT` of `MCHosting.cfg` it is violated. `identity show` also panics on a file
  of fewer than 32 bytes, and an `init` that was interrupted in its first write leaves a
  file that `init` takes for a profile and cannot load, until it is deleted.

- `host_listener.rs:203`: a send waits for room in a channel with two locks held. Two
  clients that talk at once can fill each other's channel and wait for each other for
  ever; so can one that talks and one that leaves while its channel is full, as its task
  waits for the `HostService` to clean up (line 241) and has not dropped the channel.
  `HolderWaitsOnlyForRoom` says that this is the only thing a holder waits for, and
  `Jammed` names it in `RoutingCompletes` and `ShutdownDrains`: no client is served then.
- `host_listener.rs:169`, `210`, `223`, `231`: a write to a client, in the greeting
  or in a branch of the loop, has no time limit and does not watch the token; the
  one in the greeting keeps the alias map locked (`Blocked`, `AliasStuck`). A client
  that does not read holds its task, and in the greeting every join and leave, also
  through a shutdown.
- `docs/protocol.md:185` has both sides send a ping every 60 seconds and give a
  connection up after three without an answer; the host only answers pings
  (`host_listener.rs:208`) and no code sends one, so that a client that has gone
  silent is kept as long as TCP keeps it.
- `host.rs:142` and `chat_loop.rs:185`: connecting as the owner and writing a line are
  awaited without a time limit and without the token, as are the answers of Tor in
  `read_response` (`Waits` in `StopEnds`).
- `sanctum-infra/src/tor_control.rs:244`: a control connection that ends in the middle
  of an answer makes the loop turn for ever, where neither the end of the stream nor
  Ctrl-C is noticed (`Spinning` in `StopEnds`; the loop of `connect`, line 108, too).
- `chat_loop.rs:94`: after `/exit`, the end of the connection or Ctrl-C as a signal
  the keyboard thread is still in a blocking read, and the process waits for one more
  key, Escape or Ctrl-C, although the terminal is no longer in raw mode (`closing`).
- `host_listener.rs:71`: a port that is taken is reported and no more; the room has no
  relay then, and its owner's client connects to whoever has the port.
- `sanctum-crypto/src/padding.rs:23`: the length is cast to a u32, so that a message of
  4 GiB or more gives a shorter one back without an error (`RoundTrip` has the
  premise; the run evaluates the other case).

- `sanctum-domain/src/entities/room.rs:229` says "Is this fingerprint authorized
  (active, not revoked)?"; a member added again after a revocation is active and
  not authorized, as `is_authorized` looks at the first entry (line 231).
- `sanctum-crypto/src/ratchet.rs:213`: a second or a damaged copy of a message
  advances the receiving chain before it is authenticated, and so uses up the key of
  the next or the true one, while `docs/protocol.md:181` says of what is redelivered
  that "Idempotence is guaranteed". `LateMessagesOpen` is about networks that do
  neither. The header is not authenticated either (lines 194 and 220): a damaged one
  may take a DH step that the peer does not share, after which nothing it sends
  opens but what has a kept key.
- `chat_loop.rs:49`: there is one session for the whole room, while
  `sanctum-app/sanctum-app-guide.md:324` has X3DH with all peers. With a third
  client in the room texts of the other two may fail to open; `FailsOnlyBecause`
  says when (`Crossed`). A client with a session shows nothing that comes without
  a header, and one without a session shows a sealed text as it is (lines 290, 297).
- `chat_loop.rs:185`: two ends that write at once with full sockets wait for each
  other (`Wedged` in `FramesArrive`). The host's task does not read either while it
  waits for locks or for room in another client's channel (`away`).
- `room.rs:105` "no duplicate active fingerprints": `add_member` looks at the
  first entry only (line 205), so that a fingerprint once revoked can be added
  any number of times.
- `host_listener.rs:210`: a pong that cannot be written leaves the function by
  `?`, past the cleanup; the fingerprint stays registered
  (`RegistrationCoherent` allows for it).
- `host_listener.rs:146`: a client is marked ready before it has a channel (line
  156) or has seen its peers; `sanctum-app/sanctum-app-guide.md:324` has it after
  X3DH with all of them.
- `sanctum-app/src/auth_service.rs:113`: a lockout has no end, while
  `docs/protocol.md:203` says "Close + ban 5 min". The counter's key is the
  truncated fingerprint (line 110), so that fingerprints alike in four digits at
  each end share it.
- `storage_sqlite.rs:243` ("keep newest N") ranks by sequence numbers, which count
  per sender: of several senders it need not be the newest that stay.
  `TableKeepsNewest` is therefore about one sender.
- `storage_sqlite.rs:195` and `storage_memory.rs:97`: a catch-up compares one
  number with those of all senders and passes over messages of a sender whose
  numbers are lower (`docs/architecture.md:376`). `PassedOverByOthers` says that
  this is the only way to be passed over.
- The two adapters return messages of several senders in different orders
  (`storage_sqlite.rs:196`, against arrival order in the list); `AdaptersAgree`
  is about one sender.
- `storage_memory.rs:71`: with a limit of 0, which `RoomConfig::validate` allows,
  one message is kept. `ListWithinCap` says so; the run has a limit of two.
- `ratchet.rs:258`: the limit of 256 skipped messages is one per call, while
  `docs/architecture.md:379` says per chain; over the life of a session the number of
  kept keys has no limit.
- `host_listener.rs:160`: a client that joins while another announces itself may be
  told of it twice, and `chat_loop.rs:137` counts peers by notifications.
- The acknowledgement and deletion of a delivered backlog (`docs/protocol.md:176`)
  are not in the code, nor is anything that connects the storage to the relay.

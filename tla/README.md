# RekaSerdoba in TLA+

RekaSerdoba is a VPN: a Rust server (`rekaserdoba/`), a network helper that owns
the server's TUN interface, and a Windows client in Python (`windows-client/`).
An authenticated session runs over a carrier (WebSocket, HTTP/2 or HTTP/3
stream), can move to another carrier while it runs, and changes its keys every
ten minutes or after a given amount of traffic.

This directory holds TLA+ modules for the parts of it that decide something,
TLC configurations that check them on small instances, and TLAPS proofs of what
matters most for every value of the constants: the replay window, the token
bucket, the keys, nonces and transcripts of a session, its framing, admission,
the ownership of carriers and the recovery of the Windows network policy.
`PROJECT.json` maps every definition to the lines it models.

To check a module: `tlc -config MCKeyUpdate.cfg KeyUpdate`; to check the proofs:
`tlapm RecordLayer_proofs.tla`. Every module that is run has small constants
given by its `MC*.cfg` and no definition is replaced; `MCPacketPath` exists only
because its constants are records and two of its sets are symmetric.

## The system's parts

| Part | State | Operations | Meets |
|---|---|---|---|
| Gate (`main.rs`) | attempts per source, replay cache of tokens | rate check, token check | every carrier that asks to be a tunnel |
| Edge sessions (`main.rs`, `network.rs`) | permits, leases of tunnel addresses, migration registry, drain flag, the carriers of a session | admit, shake hands, lease, offer, validate, switch, drain, end | gate, key update, helper link |
| Record layer (`record.rs`) | next number, replay bitmap | seal, open | key update has four of them per epoch |
| Key update (`rekey.rs`, `main.rs`; `client_core.py`, `probe.py`) | epochs, pending and previous secrets, control transcript, deadlines | REQUEST, INIT, ACK, COMMIT, DONE, full rekey, timeouts | one session task and two client threads over a carrier |
| Packet path (`packet_batch.rs`, `fragment.rs`, `client_core.py`) | records in flight, partial packets | batch, fragment, reassemble, expire | session task, client threads |
| Session policy (`session.rs`) | tokens, debt, transferred bytes | reserve, expire | session task |
| Carrier back pressure (`main.rs`, `client_core.py`, `reka_service.py`) | bounded buffers, `state_lock` | blocking sends and receives | session task, client threads |
| Helper link (`network.rs`, `net_helper.rs`) | datagram queues, readiness, registration | register, acknowledge, forward, restart | edge and helper processes |
| Inner handshake (`main.rs`; `client_core.py`) | transcript, handshake keys, the ten seconds | CLIENT_HELLO, SERVER_HELLO, CLIENT_AUTH, SERVER_FINISH, CLIENT_CONFIRM | gate before it, key update after it |
| Carrier framing (`main.rs`, `h3_edge.rs`, `h3_bridge.rs`, `probe.py`) | read buffers, batch, BufWriter, byte streams | send, read a chunk, take a message, batch, flush, end | session task, batch task, bridge process, client |
| Windows network policy (`network_policy.py`, `reka_service.py`) | routes, DNS, firewall rules, state file | prepare, install, recover | the connection loop, kills of the service |
| Manifest state (`client_core.py`) | the accepted sequence number and its file | load, accept | start of the connection loop |
| Carrier scores, setup, H3 accept loop, tools, GUI, Wintun, DPAPI, deployment | | | see *Not modelled* |

Hard to test in this code, and what the properties are for:

- *circular bitmap and roundings*: a jump of the record number by exactly the
  window's width; a bucket that rounds twice per packet;
- *two ends of a protocol*: data, updates and timeouts of server and client in
  any order, a carrier that goes silent in the middle, counters that restart, a
  migration that leaves records on two carriers;
- *cancellation*: a read that is dropped halfway because another branch of
  `select!` wins, bytes that arrive together with the message before;
- *limits*: a reassembler at its last slot or byte, a rate table that is full,
  a token at the edge of its window, the budget of an old epoch;
- *ownership*: permits, leases and carriers that pass from one task to another
  while either may fail;
- *waiting*: threads and tasks that wait for each other over full buffers;
- *crashes*: edge and helper restart independently, the Windows service may be
  killed between any two commands that change the system's routes;
- *silence*: a command whose failure nobody sees, a connection nobody looks at.

## Modules

### Record layer: `AntiReplay`, `RecordLayer`, `RecordLayer_proofs`

`RecordLayer` is one direction of one epoch: `Seal` is `RecordSender::seal`
with its hard limit, `Open` and `Refuse` are the two ends of
`RecordReceiver::open` (plausible, decrypt, commit) and `Forge` is a record that
does not decrypt. Records are reordered and repeated without restriction. The
words of the bitmap are one set of positions; the AEAD is ideal. `opened` and
`verdict` are history. The client's `ReplayWindow` is the same algorithm, so one
module stands for both ends. `AntiReplay` is the promise without a bitmap: a genuine
record is accepted exactly when it is new and less than `Width` behind the
highest accepted one.

### A session: `Carrier`, `InnerHandshake`, `RekeyServer`, `RekeyClient`, `KeyUpdate`, `EpochLockstep`, `KeyUpdate_proofs`, `KeyTranscript_proofs`

`Carrier` has the carriers of one session, each two queues of records that may be
reset or silently stall, `RekeyServer` the session task (`run_established_session`,
`process_record`, `validate_migration_path`, `RekeySession`), `RekeyClient` the
client, `InnerHandshake` the five messages that come first at both ends, and
`KeyUpdate` composes them with a clock. Every event of the session task is one
action that ends with `request_update_if_due`, as the loop does. Both threads of
the client seal or open a record and hand on the result under `state_lock`, so
each is one action; that such an action may wait for a long time is the subject
of `Backpressure`. A secret is the transcript it was derived from and a tag the
value it covers, so that secrets agree exactly when what the code hashes agrees.

The handshake: an end that is not up and has no reason to be down is in its
handshake, and its transcript says how far. The client has a session once it has
sent CLIENT_CONFIRM, the server once it has received it; `ServerAbandons` is the
ten seconds of `serve_session`, which the client does not have.

The migration: `ClientDials` opens the second carrier and stops reading the
first, as the probe does with `--migrate-to-h2`; `ServerChallenges` takes the
candidate, `ServerValidates` or `ServerGivesUpPath` ends the wait of
`validate_migration_path`, during which the session task does nothing else, and
`ServerEndsDrain` drops the old carrier. Until then the server reads both.

`Initiates` selects the client: `{}` is the Windows client, which only answers,
`{"routine", "full", "ping", "migrate"}` the protocol probe. `EpochLockstep` is
the promise without messages: the client has epoch 0 first, later the server
switches first, the other follows to the same secret, and nobody gets two epochs
ahead.

### Framing: `CarrierFraming`, `MessageChannel`, `CarrierFraming_proofs`

The way of a message through length prefixes, chunks and buffers: on HTTP/2 the
server's queue and batch task, on HTTP/3 the edge's session and the bridge
process with its pipes. Each byte carries its message and its place, so that a
reader at the wrong place reads garbage and is refused. An action in which one
branch of `select!` completes also drops the reads of the others (`Cancelled`);
`ServerAdmits` is the gate token with whatever follows it in the same chunk.
Streams end in order, break with everything in flight, or go down with the
process. `MessageChannel` is the promise: whole messages, once, in order, and an
orderly end only when everything has been received.

### Admission: `GateAdmission`, `GateAdmission_proofs`

`OverRate`, `BadToken` and `GoodToken` are the outcomes of a request:
`check_admission_rate`, then `validate_gate_token`. Time is in fractions of a
second, because the token's window counts whole Unix seconds and the caches
compare `Instant`s. A token's HMAC is ideal. `Popped` is where the loop over the
front of the queue stops.

### Packets: `Reassembly`, `FragmentReassembler`, `PacketPath`, `MCPacketPath`

`Reassembly` is `push` as an operator, for the server's reassembler, which
refuses what exceeds a limit, and the client's, which evicts the oldest.
`FragmentReassembler` is one of them with its clock. `PacketPath` gives it one of
two peers: the edge, which sends every sequence of packet lengths through
`batch_packets` over an ordered carrier, or any peer, which sends all fragments
in any order, well-formed or not. `ClientLimits` are those of the client's
reassembler, which allows a packet no more than the assigned MTU (1280,
`main.rs:2015`, `client_core.py:353`); `PacketPathAssumption` has it below the
capacity of a record (4080), as in the code, so the client refuses every fragment
an edge makes. `ServerLimits` are those of `fragment.rs`, with which
`CutsAreWhole` puts the fragments together again.

### Session policy: `SessionPolicy`, `SessionPolicy_proofs`

`Pass`, `RefuseOverQuota` and `RefuseTooLate` are the outcomes of
`shape_traffic`. A packet that has to wait empties the bucket and moves
`updated_at` to the end of its wait, so that what the wait earns is spent in
advance; the session task sleeps until then. `Expire` is the deadline branch.
`lost` is history: what the bucket spilled and what roundings may cost (`Loss`).

### Waiting: `Backpressure`, `HelperLink`

`Backpressure` has only what waits: the session task, the client's two threads,
`state_lock` and two bounded buffers. Records are kinds. `HelperLink` has the
datagram sockets between the edge and the helper, the registration once a
second, the acknowledgement, and crashes of either process. `traffic` is chosen
at the start: packets up, down or both ways. With both ways `Stuck` can be
reached, where the edge's reader and the helper each wait for the other's queue.

### Ownership: `EdgeSessions`, `EdgeSessions_proofs`

One action for each point between which another task can run: `Admit`,
`TakePermit` (or `Overloaded`), `Begin`, `HandshakeFails` or `Establish`,
`Lease`, `Offer`, `Submit` or `SubmitFails`, `Validate`, `Switch` or
`ValidationFails`, `DrainEnds`, `Send` and `Sent`, `End`, `Unregister`, `Close`
and `Drain`. `Validate` takes the candidate out of its channel, whose one place
the next may take during the validation. Between `Send` and `Sent` the task waits
in `send_binary` or `send_pong`, for ever if the peer does not read. `Switch`,
`ValidationFails`, `DrainEnds`, `SubmitFails` and `Close` close a carrier as the
code does; `End` only drops what the session has, which closes a WebSocket or
HTTP/2 carrier but not an HTTP/3 one (`Dropped`), whose connection is also held by
the task of `h3_edge.rs:237` until the peer gives up (`RequestLoopEnds`).

### Windows: `NetworkPolicy`, `NetworkPolicy_proofs`

`prepare`, `install` and `recover` command by command, with the state file
written before the commands it announces, as the connection loop calls them;
`Crash` may come between any two. `RecoveryFails` is a PowerShell that cannot
run, which the code swallows. `UndoFails` is a single command of `recover` that
fails: each has `-ErrorAction SilentlyContinue` and the script ends with `exit 0`,
so that the others run and the file is removed all the same (`Forget`); `missed`
remembers such commands until they have been made up for. A start of the service begins with `LoadManifest`
and `AcceptManifest`, which stores the sequence number before the rest of the
manifest is looked at; `accepted` is history. `StopService` is `recover` from the
command line, while the service is down.

## Runs

| Run | Shows | Bounds, and why they are enough |
|---|---|---|
| `record_layer` | no number is opened twice, the bitmap is exact, the code implements `AntiReplay`: forged records move nothing | 8 numbers, width 3: jumps below, at and above the width, and wrap-around; the proofs do the rest |
| `key_update` | the Windows client from its handshake on: no nonce is used twice, secrets and transcripts agree, neither end refuses an update of the other, old-epoch data is taken only within both limits of its grace, `EpochLockstep` is implemented | two updates in a row (the second starts from what the first left behind), two data records of the client per epoch (one more than the grace allows), timers of one tick |
| `key_update_unasked` | a client that starts updates and migrates: an update is refused only because a record of the server crossed it, a migrated session has left nothing behind that the transcript counts on, every handshake and update ends, and a client the server has left behind catches up or gives up | one update of either mode and one migration in every order; two updates are in the run above |
| `carrier_framing` | each direction of a carrier implements `MessageChannel`, and a message arrives unless its reader is cut off | three messages, each longer than what may be left of a chunk; a chunk ends within a prefix, a message or the next one; batch and BufWriter overflow |
| `gate_admission` | a source's attempts of the last window are all remembered, no window holds more than its share, the table is bounded, and a token is accepted twice only if it was first seen at the start of its window and again in its last second | two sources for one place, two ticks to a second |
| `packet_path` | no record is too large, what `batch_packets` cuts is put together again whole by a reassembler that allows it, and the client hands on every packet once and in order until the first one too large for a record, which ends the session; whatever a peer sends, memory is counted exactly, a packet is covered by its own fragments, no complete assembly is kept and only the oldest gives way | lengths at and above the client's MTU, at, just below and just above a record's capacity, batches of up to three of four packets; three ids for two places, packets of three bytes, lengths 0 and above the limit, with symmetry of ids and payloads, which are only compared |
| `session_policy` | at most burst plus rate times time is passed, and no less is granted but for what a full bucket spills and the roundings | a rate that does not divide the clock's resolution; the proofs do the rest |
| `backpressure` | data in one direction: every send completes and the lifetime is enforced | three records per direction, see below |
| `backpressure_duplex` | data in both directions: the lifetime need not be enforced (a finding) | the same |
| `helper_link` | after crashes the edge becomes ready again, and it does not stay ready without a live helper that acknowledges; with packets both ways the only exception is that the two processes wait for each other for ever (`Stuck`) | two crashes in any order, queues of three datagrams, traffic up, down and both ways |
| `edge_sessions` | permits are conserved, a session keeps its lease, no carrier is left open behind a session that goes on, an offered carrier is settled if the session's task keeps coming back to `select!` | three carriers, two of them HTTP/3, two clients, two permits: a session can be refused, own three carriers of either kind, or meet another of its client |
| `network_policy` | kills and failing commands anywhere, also unnoticed ones: but for what a command of `recover` failed to undo, what the client made is removed by the next recovery and the tunnel's default routes never stand without the route around the tunnel; others' routes stay, and no manifest older than an accepted one is used | two addresses, two installs, routes of others present or not, two silent failures (a default route and the DNS servers, or both default routes), a recovery that cannot run, two manifests |

The first and the third property of `network_policy` are stated for histories
in which PowerShell itself ran; see *Observations*.

Counters that the code leaves unbounded are bounded by `ClientData`,
`ServerData`, `DataEpochs`, `QueueBound`, `MaxTime`, `MaxPackets`, `MaxMessages`,
`MaxCrashes`, `MaxUnread`, `MaxInstalls`, `MaxFailures`, `MaxMissed`
and `MaxSequence`; `MaxEpoch` stands for `u32::MAX` and the code's refusal there
is modelled. `CHECK_DEADLOCK FALSE` is set where a session ends, a bound is reached or, in
`helper_link`, the code itself can stop; `record_layer` and `network_policy` are
checked for deadlock.

### Fairness

- `KeyUpdate`: the session task and the client's threads go on, and time
  passes (weak fairness of `ServerTask`, `ClientThread` and `Tick`). Nobody has to
  send data, to dial or to stop, and nothing is assumed of the network. Sends are
  taken to complete; `Backpressure` is about that.
- `CarrierFraming`: every reader, the batch task and the bridge's loop go on and
  their timers fire (weak). No branch of `select!` is starved: each is
  chosen at random among the ready ones. Nobody has to send or to leave.
- `Backpressure`: a wait that can end ends (weak). `tokio::select!` chooses at
  random among ready branches, and a Python lock is not withheld from one thread
  for ever: strong fairness for the branches and for the lock. The update's
  timeout is not assumed, so what is shown does not rest on it.
- `HelperLink`: `select!` as above; systemd restarts the edge
  (`Restart=always`). The helper need not come back: the properties say so.
- `EdgeSessions`: `run_established_session` leases or ends at once (weak), and as
  often as its task comes back to `select!` no branch is passed over for ever:
  strong fairness of `Validate`; the senders waiting for the channel are served in
  turn: strong fairness of `Submit`. Nothing says that a send completes. The task
  can wait in `send_binary` for ever (`main.rs:1122`, `1433`, `1464`, `1517`), as
  `backpressure_duplex` shows and as it may on an old carrier the client has
  stopped reading, so `OffersAreSettled` is stated for sessions whose task keeps
  coming back. A session may run for ever.

## Proofs

All are for every value of the constants under the module's `ASSUME`.

`RecordLayer_proofs` assumes a positive width and limit, and that limit plus
width fits into a number (2^32 + 16384 and u64). The inductive invariant `IInv`
joins three facts to the types: `OpenedAtMostOnce`, `HighestIsOpened` (the
highest number is the largest one opened) and `BitsTellOpened` (inside the
window a bit is set exactly if its number was opened). The last is what makes it
inductive: a bit stands for whichever number of the window falls on its slot,
`SlotInjective` shows that there is only one, and `OpenPreserves` that an
advance clears exactly the slots of the numbers that enter. From `IInv` follow
`TypeCorrect`, `AtMostOnce`, `BitmapExact` and, since plausible then means
acceptable (`PlausibleIsAcceptable`), `Refinement`: each step of the bitmap is a
step of `AntiReplay`.

`SessionPolicy_proofs` assumes a positive rate, deadline and resolution only.
What matters is `Account`: the resolution times (bytes passed plus tokens left)
is at most the resolution times the burst plus the rate times the time the
bucket was last brought up to. `FilledBound` (replenishment rounds down),
`DelayBound` (the wait rounds up) and `TakeKeepsAccount` show that both
roundings go the safe way; without `BucketIsCurrent` (`updated_at` is never
ahead of a running task's clock) the account could be credited twice. `Shaped`
follows. `RateGranted` is the account from below: `FilledGrants` and `DelayGrants`
bound what each rounding and a full bucket cost, and `TakeGrants` that no reserve
costs more.

`KeyUpdate_proofs` assumes that timeouts, limits and bounds are naturals. The
claim is `NonceUnique`: each end numbers its records by counters that it resets
when it changes its key, so what has to be shown is that a key never comes back.
A secret is the transcript it was derived from, and transcripts only grow
(`ServerOk`, `ClientOk`: a secret, current or pending, is no longer than the
transcript, and a pending one is longer than the current). `ServerCovers` and
`ClientCovers` then say of every nonce used that its key is shorter than the
current one, or is the current one and its number below the counter; an epoch
switch makes the key longer, which keeps both. Three facts about records in
flight complete the invariant `NonceInv`. CLIENT_AUTH and SERVER_HELLO cover
transcripts of two and one records (`ShortAuths`, `ShortHellos`), so that
neither is accepted at the wrong place of the handshake, whose two nonces are
then used once. `AcksOnce`: the client answers an ACK without looking at how far
its update has come, so a second ACK for the same secret would make it seal its
commit again under number 0 of the next key; ACKs in flight differ, and none is
for a secret already confirmed. Every record type at either end has a lemma,
because each can interleave with all the others and with a migration; an event
of the server, which may seal a second record (`request_update_if_due`), goes
through `FinishStep`. `NonceSafety` puts them together; `NonceNeverReused` and
the action property `OldEpochBounded` follow, the latter because a record of an
earlier epoch opens under neither the current nor the pending key
(`OldRecordOpens`).

Its second part proves `EpochAgreement` and `ImplementsLockstep` for every client
(`Initiates`), every limit, colliding updates and migrations included. Nothing
in it depends on what the transcripts contain. `EpochAgreement` alone is
not inductive: whether the next switch leads both ends to one secret is decided
by records that are still in flight. `KeyInv` adds to `NonceInv` that the client
comes up first (`EpochsFit`); that from then on the server is in the client's
epoch with the client's secret, or one epoch ahead in the one the client has
confirmed; that the server prepares one secret at a time and remembers one
(`ServerKeys`); and that what the client has confirmed is what the server
prepares or has taken (`ClientKeys`). For the records: an ACK or a reply names
the secret the server prepares (`Names`), a commit the one the client has
confirmed, and none of them is of an epoch not yet reached. Each event of either
end has a lemma, and `KeySafety` puts them together. `SessionImplementsLockstep`
uses the same case split: a session begins, the server switches to what the
client confirmed, the client follows to what the server has, and every other
event leaves epochs and secrets alone.

`KeyTranscript_proofs` proves what the two ends hash. `TranscriptInv` says that
the session is at one of twelve stages (`Phase`): both transcripts are the same,
or one end is ahead by one or two records, which are then the only counted ones
in flight, and the other end has prepared what they will be compared with.
`Places` and `Lines` say on which carrier and in which order they lie; without
them a record could be read before the one it is to follow, during a migration
in particular, where the server reads two carriers. The stages are left only
where a request or a challenge of the server, which the client has not counted
in, crosses a record the client has started by itself: the transcripts then fork
at that place (`Forked`), and a fork stays because transcripts only grow. So for
every client `ForksOnlyAtRequests`, and `RefusalsNeedForks`: an update is refused
only after a fork. `SettledInv` is about both sides of a fork: the server moves
to the second carrier only on a response that proves a transcript the client has
had, which is why nothing counted can still lie on the first (`NothingStranded`).
A client that starts nothing by itself, the Windows client (`Initiates = {}`),
has nothing to cross with: `TranscriptsAgree` and `NoUpdateCollides`.

`EdgeSessions_proofs` assumes a finite set of carriers and that the permits are
a natural. `CarriersAreOwned` is not inductive: a migration hands a carrier from
`offered` to `candidate`, `migration`, `carrier` and `old`, and whether one that is
only dropped may stay open depends on whether the session it came for has ended.
`HoldsByStage` (what a task holds at each stage), `HeldCameForIt` (whatever a
session holds came for it) and `ComesAfterFirst` (nothing comes for a session
before its first carrier, and only that one before it is registered) close this;
with them `CarrierInv` is inductive (`CarrierSafety`). `LeasesKept` and
`PermitsConserved` follow from the types and one lemma on cardinalities for each
way a task moves.

`NetworkPolicy_proofs` assumes that the value for a missing state file is not
itself a state. `OriginalsKept` rests on `HarmlessInv`: what the file claims to
have created was not there before, and no command still to run removes an
original. The others are about `Made` and `DnsMade`, what the client has put into
the system and no command of `recover` has failed to undo. As long as no recovery
was given up (`Tidy`) it is claimed by the file (`Accounted`), the commands left of
`install` stay within the claim (`Installing`), the server's route comes before the
others (`Reaching`) and the commands left of `recover` still undo all of it, the
default routes before the server's route (`Undoing`). Only after `recover` has
failed to set the DNS servers back can `install` take the tunnel's for the
adapter's own, which is why `Accounted` speaks of `missed`.
A kill forgets the commands but not the file, which is why the claim has to be
written first. `NoRollback` needs that the stored sequence number is never below
an accepted one.

`GateAdmission_proofs` assumes that a tick, the token's window and the share of
a source are positive and that the replay cache lives at least as long as the
window is wide (180 and 2 x 90 seconds in the code); with a shorter cache a
token could be accepted again elsewhere in its window. `RateKept`: the table
holds a suffix of the history of each source, everything before it is older than
the cutoff, and attempts are in order of time, without which popping from the
front and judging a source by its latest attempt would not be sound.
`ReplayBounded`: an acceptance is remembered or longer ago than the cache's
lifetime (`CacheKnows`), so two of them are further apart than that
(`AcceptedApart`); with both inside the window (`AcceptedInWindow`) and times
rounded to whole seconds, what is left are the two ends of the window.

`CarrierFraming_proofs` proves `ImplementsChannels` (`CarriersAreChannels`). It
assumes that the prefix, the chunks, the messages and the capacity of the
BufWriter are not empty; how long they are does not matter. The buffers and
channels between a writer and its reader are put together to one pipe (`UpPipe`,
`DownPipe`), from the reader back to the writer or to the first channel that is
over; what lies behind that channel will not be read and is not part of the
pipe. Reading a chunk, forwarding, batching, writing through the BufWriter and
flushing move bytes within the pipe and leave it the same sequence, and a read
that is dropped leaves its buffer where it is. What remains is what the pipe
holds (`Flow`): every byte is one of a message that was sent, a message that has
begun goes on, after its end the next one begins, the pipe begins with the
message the reader has not yet received (or with the gate token), and it ends
with the last one sent unless something was cut off (`UpWhole`, `DownWhole`).
This says of any two positions how their bytes are related and needs no fold
over the messages, so that no induction over data is needed. It is what makes
the invariant `FramingInv` inductive: a prefix is read only where a message
begins, hence the length it tells is right (`FrameAtFront`), a frame is taken
out whole (`FlowTaken`), and a reader that finds the end of an HTTP/2 stream at
its place has received everything (`FlowEnds`), which is what `complete`
promises. A stream that breaks leaves a first part of the pipe (`FlowCut`).
Every action has a lemma that it keeps the invariant and is a step of both
abstract channels or leaves them alone.

Only model-checked:

- all liveness (`UpdateResolves`, `EpochsConverge`, `EverythingArrives`,
  `LifetimeEnforced`, `SendsComplete`, `BecomesReady`, `ReadyIsAcknowledged`,
  `OffersAreSettled`): out of the prover's reach;
- `MemoryIsExact`, `OutputIsWhole`, `RecordsFit`, `CutsAreWhole`,
  `DeliveredInOrder` and `NothingIsLost`: sums and folds over the fragments of a packet and the frames
  of a record, whose value for every input takes an induction over data;
- `EvictsTheOldest`: one step of one reassembler, which needs no induction but
  has not been proved.

## Finding

`backpressure_duplex`. The session task awaits `send_binary` inside a branch of
`select!` without a timeout (`main.rs:1122`), and then looks neither at its
carrier nor at its deadline; the client's sending thread holds `state_lock`
while its blocking socket is full (`client_core.py:450`), and the receiving
thread needs that lock before it can read on. With enough data in both
directions each waits for the other and the lifetime that
`docs/ARCHITECTURE.md:71` has enforced is not looked at. With
data in one direction both properties hold.

## Observations

Differences met while modelling that have no run of their own:

- The protocol document (`RekaSerdoba_protocol_ru.md:1301`) has the client send
  new-epoch data after COMMIT; `client_core.py` goes on with the old epoch until
  DONE and depends on the server's grace (`OldEpochIsBounded`).
- REQUEST and an unasked INIT may cross. The same document (`:1224`) excludes
  such a collision; the code does not, and ends the session, because the
  transcripts have forked. `RefusedOnlyWhenForked` says that nothing else is refused. The Windows
  client never starts an update and is not affected (`UpdatesNeverCollide`).
- A gate token that is seen at the very start of its window can be accepted once
  more in the window's last second: the window has one whole second more than
  the cache's lifetime (`main.rs:959`, `main.rs:986`).
  `ReplayOnlyAcrossTheWindow` says that nothing else is possible. The gate is not the
  authentication.
- With packets in both directions the reader task of the edge, about to send its
  registration, and the helper, about to send a packet, can wait for each other's
  full queue for ever (`network.rs:203`, `net_helper.rs:48`); no crash is needed,
  and TLC reaches `Stuck` after thirteen steps. The edge then becomes ready again
  only by a restart of either process, against `docs/PERFORMANCE.md:26` ("helper
  restart восстанавливается через periodic registration/ACK.") and `:8` (within
  five seconds "без restart edge"). `BecomesReady` and `ReadyIsAcknowledged` hold
  of every behaviour that does not stay in this state for ever.
- Every fragment an edge makes is refused by the Windows client, whose limit is the
  assigned MTU of 1280 bytes (`main.rs:2015`, `client_core.py:81`, `353`) while only
  packets above 4076 bytes are cut (`packet_batch.rs:28`). A TUN MTU of up to 9000
  is allowed (`network.rs:86`); a packet of more than 4076 bytes would end the
  session, and the other packets of its record are lost (`NothingIsLost`). With the
  TUN MTU of 1280 the deployment has, no packet is cut.
- A command of `recover` that fails does so silently, and the state file is removed
  (`network_policy.py:151` to `201`): the route, the rule or the DNS setting stays for
  good, a default route also without the route around the tunnel, and the next
  `install` takes what it finds for somebody else's. `docs/ARCHITECTURE.md:26` says
  "Recovery removes routes". `NothingIsLeftBehind` and `ServerStaysReachable` say
  that nothing else stays.
- When a session ends, its old carrier and a candidate in its channel are dropped,
  not closed. An HTTP/3 connection stays open then until the peer gives it up, with
  no session that reads it (`main.rs:1339`, `h3_edge.rs:237`).
- Carriers offered for migration take no permit (`main.rs:1332`), so more may be
  open than `docs/PERFORMANCE.md:12` allows.
- A recovery whose PowerShell does not run leaves its state file, and the next
  `prepare` writes over it (`network_policy.py:20`); what the file described may
  then stay. `OriginalsAreKept` holds in any case.
- A REQUEST that is under way on the old carrier when a client migrates is in the
  server's transcript but not in the client's, so that the path response does not
  verify, the candidate is closed and the client, which reads only the candidate,
  ends. The same holds for a challenge the client never sees. The session is not
  harmed otherwise: `NothingIsStranded`, `RefusedOnlyWhenForked`.
- The draining carrier is read with `?` (`main.rs:1388`): an error on it, as
  opposed to a close, ends a session that has already migrated.
- An HTTP/3 carrier has no end that proves completeness: `close` shuts the
  connection down with data under way, and the bridge's error return does not
  flush. `MessageChannel` calls such a direction cut; only HTTP/2 has an orderly end.
- The client's sockets have no timeout during the handshake (`probe.py:224`,
  `client_core.py:673`). On a silent network the connection loop waits until the
  service is stopped; only the server's side of `UpdateResolves` covers it.
- A manifest that is signed, valid and of no use (no active identity) still raises
  the sequence number below which manifests are refused (`client_core.py:312`).
- The service recovers the network policy only after it has loaded a manifest
  (`reka_service.py:168`). If what a killed service left behind keeps the manifest
  from being loaded, the rules stay until `recover` is called by hand.

## Assumptions

AEAD, HMAC, signatures and hashes are ideal; session ids and packet ids do not
repeat; a carrier delivers in order until it fails; a PowerShell started by the
service ends with it; the index of a network interface does not change during a
connection; keepalives are 15 s apart and registrations one second, so they alone
never fill a buffer.

## Not modelled

- `CarrierScores` and the backoff of the connection loop: arithmetic on times in
  one thread, whose properties would repeat its formulas.
- `setup.py`, `manifest.py`, `registry.py`, `identity.py`: sequential programs run
  by an operator, without a partner or a shared state.
- The accept loop of the HTTP/3 edge, decoy files, `h3_get`, TLS and QUIC: I/O around
  libraries; a session that reaches `handle_h3_session` is modelled from there on.
- The in-process TUN device and the checks of single packets
  (`validate_ipv4_packet`): parsing of bytes, covered by the fuzz targets.
- GUI, Wintun adapter, secret store, deployment, monitoring, benches: no decisions
  of the protocol.

## Plan

Every safety property is proved but those of the packet path. `EvictsTheOldest`
follows from `Push` alone. For the others the sums and folds of `Reassembly` and
`PacketPath` would have to be replaced by invariants about positions, the way
`Flow` does it for the framing.

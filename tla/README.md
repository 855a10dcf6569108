# Gateway engine: verification project

TLA+ models, TLC runs and TLAPS proofs for the EasySmart gateway engine
(`gateway_engine/`), the C module that connects an edge controller to
`iiot_core`. File names below are relative to `gateway_engine/src/` unless they
say otherwise.

## 1. Inventory

| Part | Code | State it keeps | Operations | Modelled in |
|---|---|---|---|---|
| Engine | `gw_engine.c` | `state`, `initialized`, `running`, `tx_seq`, and the three parts it owns | init, start, step, send, stop | `GwEngine`, abstractly `EnginePort` |
| Firmware update | `ota/gw_ota_stub.c` | `state`, `bytes_received` | init, begin, push_chunk, finish, pump (empty) | `GwOta` |
| Transports | `transport/*.c` | `is_open`; INTERNAL also the staging slot `rx_staging`, `rx_len`, `rx_pending` | open, close, tx, rx | `GwTransport`, abstractly `Mailbox` |
| Bus ports | `ports/*.c` | one static context per bus | open, close, tx, rx | UART: `UartLine`, `GwUartEngine`; both: `BusReads` in `GwTransport` |
| Cloud interface | `gw_cloud.h`, `cloud/gw_cloud_stub.c` | `initialized`, `connected` | init, connect, publish, pump, disconnect | `CloudPort` |
| Zephyr connector | `cloud/gw_cloud_zephyr.c` | the client, the static runtime block `g_rt`, the MQTT session | the same, plus MQTT and HTTP callbacks | `GwCloud`, `GwConnackWait`, `HttpAnswer` |
| Link codec, CRC-16 | `link/`, `gw_crc16.c` | none | encode, decode | `LinkCodec` |
| SHA-256, HMAC | `cloud/gw_sha256.c` | a streaming context on the stack | init, update, final, HMAC | `HmacSha256` |
| Hybrid lighting app | `apps/hybrid_lighting_esp32s3/src/main.c` | `lab_ctx_t`: edge, Wi-Fi flags, `engine_started`, LED | main loop, Wi-Fi event handler | `HybridLighting` |
| Profiles, build, scripts | `gw_profile.c`, Kconfig, ... | none | | no |

**How they interact.** One thread, the application's loop, calls the engine. A
step reads at most one frame from the transport, hands update commands to the
update bookkeeping and then pumps the cloud connector; a send encodes a frame
and passes it to the transport. The INTERNAL backend calls the edge back inside
the send and parks the answer in one slot until a step reads it. The Zephyr
connector blocks inside `gw_cloud_connect` through a bootstrap request, a secret
request, MQTT configuration, `mqtt_connect` and a wait for CONNACK; the MQTT
library calls its event handler from inside `mqtt_input`. A second thread exists
only in the application: the network management thread runs its Wi-Fi event
handler, which writes the two flags the loop polls.

**What is hard.** Failures in the middle of a start; flags of four parts that
must agree over any order of calls; a one-place buffer between an edge that
answers at once and a loop that reads later; a backend and a broker that move
while the connector is between two of its exchanges; a timeout racing a CONNACK;
credentials fetched piecewise; flags two threads write without a lock; things
nobody retries; a serial line whose frames are told apart by silence alone, read
by a loop that looks only now and then; lengths that meet at a boundary.
`PROJECT.json` lists each hazard at its line.

**What makes each part correct.**

- Engine: the transport is open and the cloud up only while the engine runs;
  `state` agrees with the flags; a fault is not hidden; it faults only for cause.
- Update: it only moves forward, and it ends.
- Transport: an answer is read at most once, in order, and not left to rot.
- UART line: an edge that keeps the gap is heard and does no harm; one that does
  not, or a bad line, never has a frame heard twice or out of order.
- Codec: what the encoder makes is taken, what the line damaged is not.
- HMAC: the blocks compressed are those SHA-256 defines, at every length.
- HTTP answers: a field is kept whole or not at all.
- Application: its flags follow the interface and the engine, no request's mark
  is left behind, what is lost is retried, and the LED tells the truth.
- Connector: `connected` means a session the broker accepted; nothing happens
  for a device that is not admitted; credentials are of one generation; no
  session leaks; connects return (they may not: finding 6); an admitted device
  gets online.

## 2. Modules

`GwOta`, `GwTransport` and `CloudPort` offer their operations as actions with
parameters (`ok` is "returned 0", `rc` the class of the result, `f` the frame
read). `GwEngine` EXTENDS all three, and each of its actions is one *whole* call
of the engine's API, including every call it makes below: `StartNoCloud` opens
the transport, fails to connect and closes the transport again in one step,
because no other code runs in between and nothing outside can see the middle.

- **GwOta**: `otaState` is `ctx->state`, `bytesReceived` the `uint32_t` counter,
  wrapping at `BytesMod`. VERIFYING is overwritten inside `gw_ota_finish` and
  visible to no one.
- **GwTransport**: a frame is its command and its length. `staged` stands for
  the three staging fields; on a bus it stays empty. `BusReads` says what the
  Zephyr drivers hand up: an SPI read is always `mtu` bytes and the decoder
  accepts exact lengths only; a UART read ends at a gap or at `mtu` bytes.
- **CloudPort**: what the engine may rely on from any connector.
- **GwEngine**: adds the life cycle and `txSeq`, and three history variables
  numbering the exchanges with an INTERNAL edge (`exchanges`, `stagedFor`,
  `handled`), which no action's guard reads except the bound `MaxExchanges`.
- **Mailbox**: the abstract specification of the one-place slot.
- **EnginePort**: the engine as the application sees it, five calls and four
  booleans. `GwEngine` implements it (`KeepsEnginePort`), so the application can
  be checked and proved against the small module.
- **HybridLighting**: EXTENDS `EnginePort`. The main loop is split at each access
  to `wifi_connected` or `wifi_connect_pending`, with `pc` where it stands; a
  call of the engine is one step. `HandleEvent` is the event handler. `link` and
  `events` are the interface and the events it has raised that are not handled
  yet, external to the code. `read` is the local a shared flag was read into.
- **MCGwEngine**, **MCGwUartEngine**: the frames an edge may send in the runs.
- **MCCodecs**: the inputs of `LinkCodec`, `HmacSha256` and `HttpAnswer`, which run
  side by side and share nothing.
- **UartLine**: `gw_port_uart_rx` taken apart into its polls (`PollByte`,
  `PollMiss`, `PollFails`), its look at the clock (`CheckGap`) and its sleep, with
  the driver's buffer, the edge and the clock around it. A byte is the frame it
  belongs to and its place; `Tick` is one millisecond. `heard` and `calm` are
  history variables. `calm` says that nothing has happened which the code cannot
  be blamed for: a frame begun before the line was clean, a byte lost or changed,
  a pause inside a frame, a driver error, an open or close, a reader that was not
  scheduled when it was ready, a loop that came round later than `LoopMs`.
- **GwUartEngine**: EXTENDS `GwEngine` and `UartLine`: the step of the engine with
  the read inside it split, so that the edge sends and time passes during a read.
  All other calls are those of `GwEngine`.
- **LinkCodec**: `gw_link_encode`, the line, `gw_link_decode`. Bytes and registers
  are sets of bits, so that the CRC is symmetric difference and shifting, and its
  loops are steps of one byte each. `Received` is what the line may make of a frame.
  `trail` is a history variable.
- **HmacSha256**: `gw_hmac_sha256` as its two or three hashes, each a stream of
  bytes cut into blocks. A byte is known by its origin; `absorbed` is what
  `gw_sha256_transform` was given.
- **HttpAnswer**: an HTTP body gathered in fragments, and the fields of a
  bootstrap or secret answer read out of it, by `gw_json_get_string`'s own search.
- **GwCloud**: `gw_cloud_connect` split at every point where it waits for a
  peer; `pc` says where it stands. Credentials are known by the generation the
  backend issued (0 is empty), so that mixtures can be told apart. `rt` holds
  the two flags of `g_rt` the control flow reads, `session` the MQTT session the
  library holds open with what has arrived and is unread. `config` is the
  configuration the client was initialised with, any of those `Configured` and
  `Named` allow: which credentials it gives, and whether an id besides the key.
- **GwConnackWait**: EXTENDS `GwCloud`: the wait for CONNACK with the loop inside it.
  `at` is where the loop stands: before its test of the clock (`GoesOn`, `Expires`),
  before it reads the clock again to compute a timeout (`ComputesTimeout`), or in
  `poll`. `left` is what the clock leaves of `limit`, the configured timeout; `Tick`
  is a millisecond and may come anywhere, so the thread may be held up anywhere.
  `Signed` is the cast to `int`. `heldUp` is a history variable. `Elsewhere` is any
  step of `GwCloud` that neither begins nor ends the wait.
- **GwEngineProofs**, **GwUartEngineProofs**, **GwCloudProofs**, **HybridLightingProofs**,
  **LinkCodecProofs**, **HmacSha256Proofs**, **HttpAnswerProofs**: the theorems. `Mailbox` holds its own.

Definitions named "Seeded fault" in the comments are plausible bugs. No
specification uses them; substituting one for the definition it follows makes the
property it is listed with fail, which shows that the property can.

### Assumptions of the models

- `gw_engine_init` is called on a stopped engine. (Its `memset` on a running one
  would forget an open transport; the API leaves that to the caller.)
- Calls with NULL or otherwise invalid arguments return without an effect and
  are not steps.
- An `exchange_cb` that fails has written nothing, as the repository's own does.
  No callback at all is `EdgeFrames = {}`.
- The Zephyr MQTT library closes its socket and raises DISCONNECT when an
  operation on a session fails, and delivers packets only inside `mqtt_input`.
- The broker accepts exactly the current secret; the backend's JSON strings are
  not empty.
- The Wi-Fi event handler runs on a cooperative thread, above the main thread, so
  the loop never runs in the middle of it. The event queue loses nothing (at most
  two of the application's events are ever in it, four if somebody else manages the
  interface too: `QueueShort`, `QueueNeverLong`). The SSID is configured and the LED
  strip present. A request is accepted only by an interface that is down.
- The edge on a UART sends a frame's bytes in order. The engine reads with a
  timeout of 0 (`gw_engine.c:108`), so a read that has found no byte yet returns.
  A sleep of one millisecond sees the clock advance once or twice.
- The line between two codecs flips bits in one byte of a frame or in two
  neighbouring ones, loses its end or runs the next one into it. (A CRC of 16 bits
  cannot refuse every damage; of these it refuses all but one.) `gw_link_encode` is
  called with flags 0, as the engine does.
- The strings of an HTTP answer hold no quote, and none is itself the name of a
  field that is looked for: `gw_json_find_key` would take it for one. In
  `poll_interval`, which nothing reads, a cut-off number is taken for a shorter one;
  it is left out.
- The length of a message stays below 2^61 bytes (`bit_len` does not wrap).
- A retained pointer into a returned stack frame may read as anything
  (`HostSeen`).
- Below the wait for CONNACK, every blocking call of a connect ends: name lookup and
  socket connect by limits of Zephyr's, the HTTP requests and the WebSocket upgrade by
  the configured timeouts, which are cast to `int32_t` there too and taken to fit.
- `poll` with a negative timeout waits without limit. The uptime is never more than
  2^31 ms (24 days) past a deadline, so that such a difference stays negative as an
  `int`: `left` stands still at -1.
- TLS with required peer verification yields no session under a wrong name.

## 3. Runs

| Run | Instance | Shows |
|---|---|---|
| `engine_internal` | INTERNAL, every kind of answer | session, update and slot, under every order of calls and every failure |
| `engine_uart` | UART line, gap of 2 ms, loop of 2 ms | frames heard in order; what pause an edge owes; such an edge is heard and harmless; the whole implements `GwEngine` |
| `engine_bus` | UART reads as one step, every kind of frame | transport and reported state agree with the flags, a bus that does not open included |
| `codecs` | frames, keys and messages at their real sizes | damaged frames refused, sound ones taken; padding of every hash; fields whole |
| `engine_spi_plain` | SPI, ACKs and telemetry only | **fails**: finding 1 |
| `engine_update_timeout` | INTERNAL | **fails**: finding 2 |
| `cloud_connect` | plain MQTT broker (the proofs take any), changing status, one rotation, timeouts within and beyond an `int` | connector safety and its contract with the engine; polls meet the deadline; a connect returns unless it is stranded in a poll without a timeout; an admitted device gets back online |
| `cloud_silent` | a timeout that fits | **fails**: finding 6 |
| `cloud_rotated` | plain broker, one rotation | **fails**: finding 3 |
| `cloud_handshake` | wss broker | **fails**: finding 4 |
| `lab_loop` | interface down at boot | the loop's flags, answers, retries and LED, against the event handler |
| `lab_boot` | interface connecting at boot | **fails**: finding 5 |

**Bounds.** Sizes are scaled so that each limit can be met from both sides:
framing costs 1, a payload is at most 2 (3 is sent too, and refused), the engine
reads 3 bytes, the slot holds 4 (so an answer can be too long to read), the MTU
is 2 or 3 (so a legal payload can be too long to send). `BytesMod` and `SeqMod`
of 3 wrap within two or three steps. `MaxExchanges` bounds only the history
counter: four exchanges allow an answer to be overwritten, read, followed by an
unreadable one and by another; the proofs have no such bound. In `GwCloud`,
`MaxIssued = 2` gives one rotation, enough to mix two generations; `Reported`
holds an admitted and a refused status and one the connector does not know.
`Configured` has no credential, some, all but the broker, and all. In `GwConnackWait`
an `int` has three bits (`IntMax = 3`): a timeout of 3 ms fits and takes two rounds
under a cap of 2, one of 5 ms is negative until two have passed.

In `HybridLighting`,
`RetryMs = 2` and a turn of 1 ms make the loop wait a turn between attempts, and
`TimeMod = 4` lets the uptime wrap every fourth turn, so that intervals across
the wrap are the normal case; the periods 4, 2 and 4 have turns with no frame,
one, and all three, and `TurnMod = 4` wraps the turn count. The queue of events
has no bound: that it stays short is a result.

In `engine_uart` the MTU is 2 and the edge's frames are 1, 2 and 3 bytes long: one
shorter than the MTU ends only at a gap, one as long ends at once, one longer is
split whatever the edge does. Two frames are enough for each to merge with,
overtake or follow another; the driver holds 3 bytes, so it overruns in the second.
`GapMs` is the program's 2 ms. The clock is kept as ages with a ceiling, above
which no comparison changes. `codecs` uses the program's own sizes: payloads of 0
to 2 bytes (the length arithmetic at 512 is proved, not run), one of five patterns
of flipped bits, or none, in either of every two neighbouring bytes, every
truncation; lengths on both sides of 56, 64
and 120 for key and message; bodies that overflow a buffer of 26 signs in either
order of the fields, cut and split into fragments at every place.

**Deadlock** is checked in every run: the loop never has to stop.

**Fairness.** `FairSpec` is weakly fair in `Step` alone: `docs/INTEGRATION.md`
asks for periodic calls and the lab calls it every turn. Nothing obliges
anyone to send, start or stop. `FairUartSpec` is weakly fair in the reader's steps,
in beginning a step while the engine runs, and in the clock; the edge owes nothing.

`FairWaitSpec` promises a connect no outcome at all: the exchanges before the wait
for CONNACK end somehow, the loop's thread gets its turn however late, `poll`
returns when its timeout is over or something can be read, and time goes on. That
the wait ends is *not* assumed, it is what `ReturnsOrStrands` is about, and the
broker may stay silent for ever. `RetryWaitSpec` adds an application that keeps
calling connect and strong fairness of the *successful* outcome of each exchange: a
network that is tried again and again sometimes works. Without that no connector
could promise anything; with it, what is left is what the code itself prevents. It
helps only connects that come back, or that have something to read, so it takes
nothing from `ReturnsOrStrands`. That the broker answers (`SF(BrokerAnswers)`) is a
hypothesis inside `BackOnline` and holds nowhere else. `cloud_connect` uses a plain
MQTT broker because under finding 4 no TLS handshake is certain ever to see the
right name. `RetrySpec` is the same for `GwCloud` without its clock, for
`cloud_rotated` alone: weakly fair in the steps of a connect (`Unaided`), but in the
end of a wait for CONNACK only once something has arrived.

`HybridLighting`'s `FairSpec` schedules
both threads and is strongly fair in an accepted request, a successful start and
a successful LED update, each retried by the loop; it owes nothing about the
interface, which may associate, fail, drop or hang. `EngineComesBack` and
`RedMeansNoWifi` speak of Wi-Fi that stays up from some point on.

## 4. Findings

1. **An SPI edge faults the engine** (`ports/gw_port_spi_zephyr.c:110`). A read
   reports `mtu` bytes whatever the edge sent; the decoder wants exactly one
   frame (`link/gw_link_proto.c:93-96`). An idle bus, and every frame shorter
   than the MTU, is a decode error: the step returns it, `state` is FAULT, the
   cloud is not pumped. `docs/TRANSPORT.md:5` makes SPI the standard transport.
2. **An update never times out** (`ota/gw_ota_stub.c:66`). `timeout_ms` is
   configured in `docs/INTEGRATION.md:51` and read nowhere; since BEGIN is
   refused outside IDLE, a silent edge blocks updates until the engine is
   initialised anew.
3. **A rotated secret is never fetched** (`cloud/gw_cloud_zephyr.c:1272`).
   `credentials_ready` is never cleared, so a connector the broker refuses
   presents the same secret forever. `docs/IIOT_CORE_CONTRACT.md:12` has the
   secret fetched "quando necessario".
4. **The broker's name is read from a dead stack frame**
   (`cloud/gw_cloud_zephyr.c:1103`): `broker_url` is local to
   `gw_cloud_mqtt_configure`, its `host` and `path` are used by `mqtt_connect`
   after that returned.

5. **The boot-time status overwrites a newer event**
   (`apps/hybrid_lighting_esp32s3/src/main.c:338`). The handler is registered
   before `lab_wifi_status_sync` asks for the status. If the interface is already
   connecting (`lab_wifi_init` expects that somebody else may have connected it:
   line 403) and comes up between request and assignment, the handler's `true` is
   overwritten by the older `false`, and nothing corrects it: the engine is never
   started and the LED stays red, which the app's README (line 17) has mean "sem
   Wi-Fi". From an interface that is down at boot this cannot happen
   (`FlagFollowsLink`).

6. **A connect may never return** (`cloud/gw_cloud_zephyr.c:1166`).
   `gw_cloud_wait_connack` tests the clock at line 1165 and reads it again at 1166,
   to compute the timeout of its `poll`. A thread held up in between until the
   deadline has passed computes a negative one, which means no timeout: with a silent
   broker the engine's loop hangs in `poll` although `gw_cloud.h:29` offers
   `mqtt_connect_timeout_ms` and line 1186 has `-ETIMEDOUT` ready. A
   `mqtt_connect_timeout_ms` above `INT32_MAX` does the same without any delay,
   because the cast comes before the cap (`LongWaitsUnlimited`). That nothing else
   keeps a connect from returning is `ReturnsOrStrands`.

Not a disagreement with any document, but shown by `NoReconnectWhileRunning`: a
session the broker closed stays closed while the engine runs, because `-ENOTCONN`
from the pump is not an error and no one else reconnects. Nor is this one, which
follows from `SlotIsMailbox` and the order of the loop: a turn that sends a
heartbeat also sends telemetry (5 divides 10), so the edge's answer to a
heartbeat is always overwritten before a step could read it.

Nor does a document promise what the CRC of the link cannot do, but a reader of
`gw_link_encode` may want to know it. The CRC is written low byte first
(`link/gw_link_proto.c`), not in the order the register would divide it. A burst of
noise over two neighbouring bytes is always detected but one: the last payload byte
and the CRC's first one, flipped by 0x89 and 0xA1, make a sound frame again
(`BlindSpot`), in every frame that has a payload. With the high byte first there
would be no exception.

## 5. Proofs

For every value of the constants the named assumptions admit:

- **GwEngineProofs.** The inductive invariant `IInv` is the type invariant, the
  three life-cycle invariants, and two facts about the slot: an answer is staged
  exactly when some exchange owns it, and that is the newest one
  (`SlotIsNewest`); a bus never stages (`BusHasNoSlot`). The life-cycle
  invariants are not inductive one by one: that a start re-opens a closed
  transport needs `StateAgrees`, and that a read hands out something `handled`
  may be set to needs the slot facts. From `IInv`: `TypeCorrect`,
  `TransportFollows`, `CloudFollows`, `StateFollows`, `FaultStays`, `UpdateMovesForward`,
  `PlainAnswersHarmless` (which assumes the INTERNAL backend: on a bus finding 1
  contradicts it) and `SlotRefinesMailbox`, the step
  by step refinement of `Mailbox`. `DownStaysDown` needs no invariant.
  `HandledInOrder` carries `TakenInOrder`, the mailbox's own theorem, over, and
  `ImplementsEnginePort` shows each call to be one of `EnginePort`'s. Three more carry
  findings to every run: `SpiReadsFault` (behind SPI, unless an edge frame fills the MTU
  exactly, every read that returns anything faults the engine), `NoUpdateOverSpi` (nor
  does an update even begin there) and `UpdateWaitsForEnd` (only an END frame that is
  read, or `gw_engine_init`, ends one that receives). `AnswersAccounted` is the safety
  half of `AnswerLeaves`: a staged answer leaves only by being read, by a stop or for a
  newer one, and a step takes it if and only if it fits the receive buffer.
- **GwUartEngineProofs.** `UartInv` adds to the engine's `IInv` that the bytes of
  read buffer and driver, in this order, are in the order the edge sent them, that
  no byte of a frame already heard is among them, and that a read stays inside a
  step of a running engine and inside the MTU. `UartHeardInOrder` is part of it.
  `UartIsEngine` needs the last clause: a decoded read is one `BusReads` allows.
  Through it every theorem about `GwEngine` holds over a real line; `UartLifecycle`
  and `UartPromises` draw the first ones. Gap, loop, driver and MTU are arbitrary.

  `CalmInv` follows the one frame a calm line carries, from the edge through driver
  and read buffer to `heard`, and with it the clock: how old the read is, how long
  ago the edge sent, how long the loop has been away. From it `PauseIsEnough`,
  `CalmEdgeHarmless`, and `CalmLosesNothing`, the safety half of `CalmFrameHeard`:
  bytes leave a calm line only as a frame that is heard. These assume `GapMs >= 2`:
  two bytes of one frame may be a tick of the clock apart and the poll between them
  another, so the program's 2 ms is the least that works. An earlier form of
  `PauseSuffices` failed to prove, for a reason: with a loop shorter than 2 ms the
  reader's own sleep is what a byte waits for, which `ReadDelay` now says.
- **LinkCodecProofs.** One bit-step of the CRC is linear (`ShiftBitLinear`) and loses
  nothing (`ShiftBitInjective`), so eight of them, with the next byte added in, tell
  registers and bytes apart. While decoder and encoder run over the same bytes their
  registers agree; behind a burst they differ to the end (`CheckInv`). A burst of two
  bytes is told apart because what a byte leaves in the upper half of the register
  always leaves something in the lower half too (`EightShifts`, `BurstSeparates`). At
  the seam of payload and CRC this argument does not reach, and `BlindBurst` finds the
  one burst that fits. `DamagedFramesRefused` says there is no other, `BlindSpotTaken`
  that this one is taken. A cut or lengthened frame fails the length test.
  `SoundFramesTaken` is the converse. Commands, numbers, payloads and damage are
  arbitrary.
- **HmacSha256Proofs.** An open hash has cut what it was fed into 64-byte blocks
  and a rest (`Cut`, `Taken`); `FinalStep` settles, from the rest alone, where
  marker, zeros and length fall. `BlocksAlwaysAsDefined` and `LengthAlwaysCounts`
  hold for keys and messages of any length.
- **HttpAnswerProofs.** While an answer comes in, the body is a prefix of it and
  what is still to come follows, until the buffer is full (`AnswerInv`). The search
  for a field in a prefix finds what it finds in the whole answer, or nothing
  (`StringsInPrefix`): a string is taken only with its closing quote. So
  `FieldsWhole` needs of an answer only that it is sound as a whole
  (`AnswerAssumption`).
- **GwCloudProofs.** `IInv` adds to the four safety invariants what a connect in
  progress looks like (`ConnectInProgress`): no session is up when it starts,
  `g_rt` is clean from configuration to CONNACK (so that an old CONNACK cannot
  be taken for a new one), and nothing passes the fetch without credentials.
  From it: `ConnectedIsReal`, `GateHolds`, `CredentialsCohere`, `NoOrphans`, and
  `ConnectorKeepsPort`: the connector implements `CloudPort`, the contract
  `GwEngine` is built on. `CloudTypes` is the type invariant. The proofs bound
  neither rotations nor retries, and hold for every configuration. Three more say
  what no retry can change. `ConnectAdvances` gives a connect a variant: it is over
  after five exchanges, if each ends.
  `UnusableStaysOffline` shows that the two configurations `BackOnline` leaves
  out deserve it: `gw_cloud_init` accepts them, and none ever gets connected.
  `RotatedOutForGood` is finding 3 for every run: from the moment a client with
  complete credentials is out of date and offline (`LockedOut`), only `gw_cloud_init`
  lets it back in. It rests on `NoneNewer`, that a client never holds a secret newer
  than the backend's.

  The module also holds the theorems about `GwConnackWait`, for every set of timeouts,
  cap and width of an `int`. `WaitInv` adds to types and property that between its two
  readings of the clock a thread that is in time has time left. From it:
  `PollsMeetDeadline`, `LongWaitsUnlimited`, and `StrandedForGood`, which is finding 6
  for every run: once in a poll without a timeout, no step of the program and no
  passing of time leads out. `WaitIsConnector` and `WaitKeepsSafety` carry the
  theorems about `GwCloud` over: a stranded connect does no other harm.

- **HybridLightingProofs.** Two invariants that do not need each other. The
  engine's half (`EngineIInv`): flag and engine agree, an answer waits only
  between the sends and the step of one turn and only while the engine runs, and
  what the LED code read of the session still holds when it acts on it. From it
  `FlagIsEngine`, `AnswersFresh`, `BlueEarned`. The Wi-Fi half (`WifiIInv`) says
  where a request can stand: not made, in flight (with the four combinations of
  interface and queue that can occur), or answered; and that nothing is under way
  while the loop makes one. From it `FlagFollowsLink` and `QueueShort`, which assume
  the interface is down at boot (finding 5 is why). `PendingAnswered` needs no such
  assumption. For any interface, `QueueInv` lists the queues that can occur, and
  those among them over which the loop may make a request: a second request is made
  only when at most two events are left of what came before, so `QueueNeverLong` has at most
  four. `MisledForGood` is finding 5 for every run, and shows its other side as well: a
  flag left false over an interface that is up stays so until the interface drops;
  one left true over an interface that is down stays so for good, and the loop never
  asks it to connect again. `LabTypeCorrect` is the type invariant with both wraps, and
  `RetryClockExact` shows the `uint32_t` differences of the retry clock to be exact
  across the wrap of the uptime, for every clock width.

Model-checked only: the liveness properties (`AnswerLeaves`, `ReturnsOrStrands`,
`BackOnline`, `CalmFrameHeard`, and `EngineFollowsWifi`, `WifiRetried`,
`EngineComesBack`, `RedMeansNoWifi` of `lab_loop`). They rest on fairness, whose
definition speaks of enabled actions, and the prover does not reason about those.
Every other property of a passing run is a theorem. That frames of an edge with
nothing wrong do not fault an INTERNAL engine, the counterpart of finding 1, is a
theorem only (`PlainAnswersHarmless`).

## 6. Not modelled, and what could follow

- **URLs, time stamps, the MQTT client's strings** (`gw_parse_url`,
  `gw_build_api_url`, `gw_make_rfc3339_now`, ...): each is part of a step of
  `GwCloud` that works or fails. They are pure functions on strings, without state
  and better tested with examples.
- **The SHA-256 compression function**: 64 rounds on 32-bit words; test vectors
  say more about it than a model of it would.
- **The SPI wire**: a read clocks out `mtu` bytes whatever the edge does, which
  `BusReads` says; finding 1 leaves little else to show.
- **Two clients in one program**: `g_rt`, `g_spi` and `g_uart` are single static
  blocks, so a second engine would wipe the first one's session. Nothing in the
  repository runs two.
- **The lab's simulated lamp** (it is only reported), and its empty-SSID
  configuration, in which the loop never starts the engine.
- **Empty strings in a secret answer**: assumed away above; they would latch
  `credentials_ready` over credentials that cannot work.
- **Profiles, Kconfig, overlays, scripts**: configuration, present as constants.

What could follow: an edge that sends a whole update and loses or repeats chunks; a
UART read with a timeout, should the engine ever use one.

# Grillbernetes: specification, model checking and proofs

This directory holds TLA+ modules of the Grillbernetes services, configurations
that check them with TLC on small instances, and theorems about them checked by
TLAPS. Paths such as `src/pismoker/main.go:207` are those of the repository.

1. [The system](#1-the-system)
2. [Modules and how they correspond to the code](#2-modules-and-how-they-correspond-to-the-code)
3. [Runs](#3-runs)
4. [Where code and documents disagree](#4-where-code-and-documents-disagree)
5. [Fairness](#5-fairness)
6. [Proofs](#6-proofs)
7. [What is left out](#7-what-is-left-out)
8. [Plan](#8-plan)

## 1. The system

A smoker (a Raspberry Pi with a thermocouple and a relay) is driven from the
cloud. `pismoker` polls its configuration from `control-hub`, switches the relay
and posts readings to `pub-hub`; `pub-hub` publishes them to NATS; `events` hands
them on to browsers and phones. `gateway` and `auth-service` deal with users.

```
 phone --BLE--> pismoker --POST--> pub-hub --JetStream--> events --SSE/ws--> clients
                  ^  |                 |
     GET config   |  relay          Redis (devices)
                  |                    |
              control-hub <----> Redis (configs) <---- gateway ----> auth-service --> Cognito
```

| component | state it keeps | operations | what is hard | what makes it correct |
|---|---|---|---|---|
| **events** (`src/events`) | the map topic -> `Subscriber`; per subscriber a client list, a bounded queue and a NATS subscription; per client a bounded queue | `Connect`, `GetSubscriber`, `DeleteSubscriber`, the loop of `Start`, the NATS callback, the SSE and websocket handlers | goroutines on unbuffered channels and one lock; start-up; a subscriber closing while requests arrive; slow readers; one-shot `CloseNotify` with two readers | one loop per topic; nobody waits for a dead loop; nothing leaks; a slow client holds up nobody; each delivery of JetStream reaches a client at most once, first ones in order |
| **pismoker: control loop** (`src/pismoker/main.go`) | the global `controlState`, `PidLoop`'s own, the PID controller's set point, five channels, the pin (which outlives the process) | `PollRunState`, `PidLoop`, `ReadLoop`, `Fanout`, `PublishEvents`, `ResetPin`, signals, exit | a global shared through a pointer without a lock; bounded channels in a chain; retries; crash and restart with a relay that stays on | heat only on demand; off stays off; the hub's word reaches the relay; a signal or a dead sensor stops it |
| **pismoker: provisioning** (`src/pismoker/gatt.go`, `main`) | two files on disk, the loop's buffer, the channels `dataStream`, `state`, `stop` | three characteristics, `startGatt`'s loop, `SetupConfig` | interrupted lines, several phones, a step that fails after others succeeded, crash between two files | who was told "configured" has a smoker with that owner and network |
| **pismoker: sensors** (`max31850`, `max31855`, `ReadLoop`) | last reading, last error, in package variables | `Init...`, a sampling goroutine per attempt, the getters | variables without a lock; goroutines left by retries; a reading before the first sample; sign and shifts | what is read comes from a sample; a dead sensor ends the process, however many goroutines still write |
| **control-hub** | documents in Redis | `SetConfig`, `GetConfig`, `GetDevices` | a missing key is a 200 with an empty body; `log.Fatal` in one handler ends the others | an accepted document is kept; a reader sees no older one after a newer one; it comes back after an outage |
| **pub-hub** | the device table in Redis | `PostData`, a ping every second | publishes, then records: two steps that fail separately; handlers whose device has gone run on | an accepted message is published once and its device listed; last contact does not go back |
| **auth-service** | the channel `userCache`; users are in Cognito | register, otp, username, login, signout | nobody takes from `userCache` | nobody waits for it |
| **gateway** | an operation under way | GraphQL fields one after the other, resolvers of one or two requests | check, then act; errors not looked at; panics | what it says was done was done; every operation is answered |
| **wasm-app** | `loggedIn`, `done`, local storage, the page shown | sign-up, login, expiry watchers, `OnNav` | one watcher per login on one channel, two clicks, a reload | who is logged in is watched, who is not leaves the front page |
| doorbell, flutter client, manifests, board | | | | not part of the running system |

The line of every hazard, and which property answers for it, is in
`PROJECT.json` under "hazards".

## 2. Modules and how they correspond to the code

```
 TopicFeed  <--implemented by--  EventsBroker  <--EXTENDS--  EventsBrokerProofs
      ^                                                ^--EXTENDS--  EventsFeedProofs
      ^--used by--  Hubs  <--EXTENDS--  HubsProofs
 RelayControl  <--implemented by--  Smoker  <--EXTENDS--  SmokerProofs
      ^--EXTENDS--  RelayControlProofs
 SensorFeed  <--used by--  Smoker
      ^--implemented by--  Sensor  <--EXTENDS--  SensorProofs
 Provision  <--EXTENDS--  ProvisionProofs
 AuthService, Gateway, LoginApp  <--composed by--  Accounts  <--EXTENDS--  AccountsProofs
 MC<module> EXTENDS <module>: the definitions its configurations give to constants
```

"map" in `PROJECT.json` gives the lines behind each definition. Common to all
modules: every case of a Go `select` is an action, every step of a goroutine
between two channel operations or shared variables is one action, and a section
under `conn.Lock()` that waits for nobody is one action. A definition named
`...Mutant of...` in its comment is not part of the model; it is the slip in the
code with which the checks were tried out (section 3).

**EventsBroker** (`src/events`). One subscriber object is a number; `loop[s]` is
where its goroutine is, `pc[c]` where request `c`'s handler is. A send on an
unbuffered channel (`newClients`, `closingClients`) is a joint step of both sides
(`LoopAdd`, `LoopRemove`). A NATS subscription is a handle `<<s, g>>`: `s` may
subscribe a second time, and then `subscriber.sub` is the second while the first
stays open. `Discard` is what closing a subscription does to queued messages: they
are gone, but a callback that has been entered goes on. `ReadyFirst` says that no
request arrives before `Connect` has let go of the map.

A message on its way is its place in the stream and the number of this delivery of
it (`Message`; `m.Metadata()` has both). `js.Subscribe` with `DeliverNew()` makes a
consumer that acknowledges a message when the callback has returned
(`src/events/main.go:307`): when the acknowledgement is lost, or late because the
callback waits for room in `messages`, JetStream delivers the message again
(`Redeliver`), behind what it has delivered since. The callback only logs the
numbers and passes everything on (`PassOn`). `deliveries[h][m]` is how often
message `m` has been delivered to handle `h`.

**TopicFeed** is what `events` promises a client: of JetStream's deliveries of its
topic some, each at most once, a first delivery after all older messages, and a
repeated one after the earlier deliveries of the same message (`Follows`). So a
client may get a message twice, or an older one after a newer one, but only
because JetStream has delivered it again. `EventsBroker` implements it under the
identity on `published` and `delivered` (`FeedSpec`) as long as no request comes before
`Connect` has let go of the map (`ReadyFirst`): a subscriber that has subscribed
twice is called back twice, and its clients get a message twice.

**RelayControl** (`src/pismoker/main.go`, the way from configuration to relay).
`controlState` is the global and `pidControl` `PidLoop`'s own variable of that
name. `json.Unmarshal` writes the global field by field (`DecodePwr`,
`DecodeTemp`, in any order, `DecodeFails` in between), and `PidLoop` reads it
field by field through the pointer it received (`PidPwr`, `PidTemp`, `PidSet`),
so that the data race shows as interleavings. A document says which fields it
gives and whether it decodes; with what status it came does not matter, as the
code does not look at it. `controlChan` is the number of pointers in it, as all
point to the one global. What `pid.Update` returns is a free choice between zero
and more. `Crash` loses the memory and leaves the pin.

**Smoker** puts the sensor and `ReadLoop` with its retries (as `SensorFeed` has
them), `Fanout` and `PublishEvents` around it: `Smoker`'s actions are
`RelayControl`'s or leave its variables alone, and `PidReading` needs a reading in
`PidLoop`'s channel.
`ReadLoop` is started last and sends all readings, so that the list of listeners
does not change while `Fanout` reads it.

**Provision** (`src/pismoker/gatt.go`, and `main` up to the configuration file).
`docs` are the documents in the configuration file, which `SetupConfig` appends
to; `wpa` is the content of `wpa_supplicant.conf`. A phone's line comes in two
chunks; `buffer` is what the loop has of it, and `Spoiled` when something else is
in front of it. `answer` is the result of `SetupConfig`, `state` and `stop` are the
channels, `notifier[p]` is a notification goroutine of connection `p`. `told`
remembers that a phone has read or been notified of a success.

**SensorFeed** is `ReadLoop` with the sensor reduced to "works" or "broken":
readings while it works, `MaxRetries` attempts more, then a signal to its own
process. `Smoker` runs it.

**Sensor** (`src/pismoker/max31855`, `max31850`, and `ReadLoop` again) implements
`SensorFeed`. `sampler[a]` is the goroutine that attempt `a` of `ReadLoop` has
started; none of them ever ends. Setting `sensorErr`, clearing it and storing
`currentReading` are steps of their own, and so are the check of `sensorErr` and
the locked read in each of the two getters, so that the missing lock shows as
interleavings. In the `max31855` a failing sample is followed by the next at
once, in the `max31850` by the next probe. The refinement maps a package to
"broken" when the hardware is dead, the error is noted and no goroutine is about
to clear it. `Therm`, `Internal` and `Int16` are the arithmetic on bytes, `Frame`
is what the datasheet says the chip sends. The two packages keep different
units: the `max31855` thousandths of a degree, the `max31850` the degrees that
`ds18b20.Temperature` returns, and both getters divide by 1000. So that all are
integers, `currentReading` counts quarters of the number kept, `C` 1/4000 and `F`
1/20000 of a degree; `HandedOn` is what becomes of a sample, with the `max31850` a
thousandth of it (section 4).

**Hubs** (`src/pub-hub`, `src/control-hub`). `post[d][k]` is where `PostData`'s
handler for the `k`-th post of device `d` is, `set[i]` the same for `SetConfig` and
the user's `i`-th document. A device posts one reading after the other
(`PublishEvents`); when its connection breaks (`lost`, `left`) the handler runs
on while the device goes on to the next post. Posts and documents are numbered,
so that order is comparison. `Outage` is Redis going away or coming back; a
command whose reply is lost is sent again by the client (`Update` and `Set` may
take effect and stay where they are). `PingFails` and `Fatal` are the two
programs' `log.Fatal`, with all handlers killed. `Deliver` is the abstract
`TopicFeed`, which `EventsBroker` implements: so `EndToEnd` is about the way from
the device to a client of `events`: a reading comes again, or after a later one
of the same device, only as a repeated delivery or because its post was given up.

**AuthService**, **Gateway**, **LoginApp**, and **Accounts**, which composes them
through the variable `request` (one exchange per caller: a path, a name, the code
of the answer). `AuthService` has a handler per route around one call to Cognito,
which is `pool` (names with who signed them up, confirmed or not) and `honoured`
(names with valid tokens); a handler may run although its caller has gone
(`orphans`). `Gateway` executes an operation field by field as the generated
code does (`Mutation_register`, ..., `Query_devices`), the resolver up to its
call and from its return; `Panic` is the field's `recover`, `Answer` the nulls
that spread to the whole answer. `LoginApp` is the page: goroutines with a
request, functions handed to the thread that draws (`dispatched`), and the
watchers. Its assumption on time is that dispatched functions are run before the
next click and within the five seconds of a watcher's ticker. A watcher that
finds the token expired sends to `done`, which has one place: another watcher
that waits gets it, or the sender itself; either way one of them ends, both say
the same, and so `Tick` is one step. `l.loginValidating`, set by some handlers, is
not a field of `login`, and the package does not compile at this commit; it is
modelled without it.

## 3. Runs

| run | configuration | what it shows |
|---|---|---|
| `events_safety` | 2 requests (1 SSE, 1 websocket), 1 topic, 2 subscribers, 2 messages, one of them delivered twice, queues of 1 | the inductive invariants (`IInv`, `InOrder`), one loop per topic, entries deleted by their own loop only, a registered handler's loop is alive, a loop that ends leaves no subscription, `TopicFeed` is implemented; clients that never read do not hold up the callback; a handler whose client has left gets away |
| `events_startup` | 3 requests for 2 topics, 3 subscribers, requests during `Connect` | even when loops are made to subscribe again: one loop per topic, own entries only |
| `events_register` (violation) | 2 requests, no messages | a request may wait for ever to be registered (section 4) |
| `relay_safety` | five documents (on, off, one without `pwr`, one that fails half-way, one that is empty), 2 set points, `controlChan` of 2, 2 failures of the pin, 1 crash and restart | `PidLoop` ends up on the global's contents, published readings tell its power, heat only on demand, off stays off |
| `relay_exit` (violation) | on and off, a pin that works | the process may exit with the relay on |
| `smoker_off` | on and off, every channel of 1, 1 crash and restart | a power-off that is kept at the hub reaches the relay through full channels |
| `smoker_sensor` | a document that sets nothing, 1 retry, a sensor that fails for a while or for good, signals | a signal and a dead sensor end the process |
| `sensor` | both packages, rates of 20, 100 and 1000 ms, 1 or 2 probes, 3 samples (-0.75, 100.25 and 100.5 degrees), 1 retry | readings come from samples, the zero of the start does not come back, a dead sensor ends the program, `SensorFeed` is implemented |
| `provision` | 2 owners, 2 connections, 3 lines, 2 failing steps, 1 crash and restart, `state` of 2 | a first attempt that was told to have succeeded holds; the network on disk has an owner; a success ends the provisioning |
| `provision_retry` (violation) | the same without a restart, `state` of 1 | a second attempt may be told to have succeeded and leave no owner |
| `hubs` | 1 device with 2 posts, the first delivered twice, 2 documents, 1 client of `events` that gets two deliveries; Redis outages and lost replies, NATS errors, broken connections | accepted posts are published once and listed, last contact and documents do not go back, readings reach the client in order but for repeated deliveries, both programs come back |
| `accounts` | 2 operations out of 5 (12 fields of all six kinds), 2 requests of the page, 1 known and 1 free name, `userCache` of 1, 1 orphaned handler, 2 watchers | the inductive invariant, the gateway's word is true, its operations are answered, the page is watched and left |

**Why the bounds are enough.** Capacities of 1 or 2 instead of 5 to 1000 make
channels fill after a step or two; nothing in the code depends on a capacity
otherwise, and each is a constant of the proofs. `MaxSubs` = 2 on one topic
lets a second subscriber replace a first one that is closing, 3 on two topics
lets that happen beside another topic. Two messages of which one is delivered
twice (`MaxDeliveries`, `MaxRepeated`) are a message that comes twice, before and
after the other one; `MaxDelivered` = 2 in `hubs` is enough for `EndToEnd`, which is
about two deliveries, as a client may miss any. Two failures of the pin let `p.Out` and
one of `ResetPin`'s two fail. One restart separates "before" from "after". Two
documents suffice for a torn read and a third for a field that is not given.
Three lines of two phones are an interrupted line, what it spoils, and a retry.
With one retry two sampling goroutines write the same variables; every further
one does what the second does. The three temperatures have a sign, a fraction, and
two neighbours; the arithmetic for all the others is proved. Two posts and two
documents are an earlier and a later one, in one handler each. Two operations
for one name race for it; two requests of the page are two logins, two sign-ups,
or one of each. `PageOperations` is empty: the operations run while no page is
open, as both meet only in Cognito's pool, where `Confirm` and the other
operation already bring in whatever a page could do to a name.

Deadlock is checked in `accounts` and elsewhere not (`CHECK_DEADLOCK FALSE`), because the bounded
environment really stops: requests, messages, lines and restarts are used up.
What must not get stuck is stated by the liveness properties instead.

**Mutants.** For every property of a passing run `PROJECT.json` names a mutant: a
definition of the model with a plausible slip in the code (a bound off by one, an
error that is not looked at, a subscriber not found because its list is empty,
`ResetPin` also with the power off, ...), with which TLC finds the property
violated under the same configuration.

## 4. Where code and documents disagree

Each of these is a counterexample of TLC, described under "findings".

* `events_register`: `GetSubscriber` (`src/events/main.go:195`) hands out a
  subscriber whose loop is about to return; the handler then blocks on
  `newClients` (`src/events/sse.go:27`) and its client gets no stream.
* `relay_exit`: the `break` of "shutdown relay for safety"
  (`src/pismoker/main.go:325`) leaves the `select`, not the loop. One more reading
  may turn the relay on before `main` exits.
* `provision_retry`: `SetupConfig` opens the configuration file with `O_APPEND`
  (`src/pismoker/gatt.go:266`). After an attempt that failed late a second one
  makes a file that does not parse, and `main` ignores that error
  (`src/pismoker/main.go:149`).

Seen while modelling and not stated as a property:

* The `max31850` package divides degrees by 1000: `ds18b20.Temperature` returns
  degrees (`src/pismoker/max31850/max31850.go:37`), `currentReading` keeps them
  (`:44`), and the getters divide as if they were thousandths (`:60`, `:69`). At
  100 degrees it reads 0.1, or 32.18 in Fahrenheit, so that the controller heats
  on, although `src/pismoker/README.md:3` says that "Any correctly wired DS18b20
  Sensor will work with this software." `Measured` says what becomes of a sample with
  each package.
* `events` passes on what JetStream delivers again, without looking at the numbers
  it logs (`src/events/main.go:307-320`): a client may get a message twice, or an
  older one after a newer one.
* A bus that reads all zeros (a `max31855` that is not there) passes the checks of
  the fault bits (`src/pismoker/max31855/max31855.go:63-77`) and is a reading of 0
  degrees without error. `HardwareDies` does not mean this case, and `GivesUp` does not
  hold of it.
* gin's `Context.Stream` receives from the same one-shot `CloseNotify` as the step
  (`src/events/sse.go:29`); when it is the first, the client's queue stays on the
  list, which `src/events/sse.go:32` says it is removed from. The same happens
  when the websocket upgrade fails (`src/events/wss.go:34`).
* `http.Post` (`src/pismoker/main.go:240`) has no timeout. One that hangs stops
  `PublishEvents`, then `Fanout`, then `PidLoop`'s readings, and a relay that is on
  stays on: without `WF_vars(PostEnds)` `PowerOffWorks` does not hold.
* When `p.Out(gpio.Low)` fails with the power on, `ResetPin` leaves the relay high
  after "Turning off relay" (`src/pismoker/main.go:303`); the next reading
  corrects it.
* Subscribers made while `Connect` reads the map subscribe twice, and the first
  subscription is left behind (`src/events/main.go:149`, which is why
  `FullCleanup` is stated for `ReadyFirst`).
* `ReadLoop` looks at the error of the Fahrenheit getter only
  (`src/pismoker/main.go:369`): a reading may carry 0 degrees Celsius and a
  Fahrenheit value that was measured. `PidLoop` uses the latter. The error is
  cleared before the new value is stored (`src/pismoker/max31855/max31855.go:78`),
  so that the reading after a failure may be the one before it.
* The key of a configuration is device and name without the group
  (`src/control-hub/main.go:77`): two groups share their devices' documents.
* A login that Cognito answers with a challenge has no tokens; the page is logged
  in for it until the next tick (`src/wasm-app/app/login.go:380`). Sign-up
  registers what is before the `@` while login sends the whole address.
  `OnValidateCode` is attached to nothing, so that nobody leaves the mode "otp".
* `ValidateAccessToken` rejects every token: it overwrites the one it has read with
  the header (`src/auth-service/main.go:482`), and asserts `exp` to be an `int64`,
  which JSON numbers never are. A request that is no POST gets a 400 and is handled
  all the same (`src/auth-service/main.go:118`).

## 5. Fairness

* A goroutine that can go on does go on: weak fairness of its steps (the Go
  scheduler). In `events` the writes to a client and the websocket upgrade are
  excepted: a slow client may block them for ever.
* A `select` with several ready cases chooses among them at random: strong
  fairness of each of `PidLoop`'s cases (`PidPwr`, `PidReading`, `PidSignal`) and
  of `TakeStop`. In `events` weak fairness of each case is enough for what is
  claimed.
* A GET of the configuration ends some time (weak fairness of `PollRunState`).
  The same for POSTs is assumed in `Smoker!FairSpec` (section 4 says what becomes of
  the relay without it).
* In `Sensor` tickers tick and transactions with the chip end. Nothing is assumed
  of which of the goroutines is the last to write.
* In `Hubs` Kubernetes starts what has ended (weak fairness of the two starts) and
  somebody asks for the configuration again and again. `Recovers` has the premise
  that Redis stays up from some time on.
* In `Accounts` the step an operation is at goes on, be it the gateway's or the
  handler's it waits for (`Progress`: requests have no timeout, but a connection
  that breaks is an answer); dispatched functions run and a token's time ends.
* Nothing is assumed of clients, phones, the hub's users, the sensor, signals,
  crashes or restarts. `PowerOffWorks` and `Stops` are about a process that runs.
* `SuccessEnds` has two premises: that somebody makes room in `state` again and
  again (otherwise the loop blocks on its answer, `src/pismoker/gatt.go:188`),
  and that no second line comes as far as the file (otherwise a second token for
  `stop` may be waited for by the only goroutine that could take the first).

## 6. Proofs

All theorems hold for every value of the constants under the assumptions stated
beside their declarations (capacities at least 1, bounds natural, `None` outside
the sets it is added to, documents well formed). TLC evaluates the assumptions in
every run.

**EventsBrokerProofs.** `TypeCorrect`, `Invariant`; `OneLoop`, `OwnEntry` (with requests
during start-up and a closing connection); `Served` and `Cleanup` (after
start-up, `ReadyFirst`). None of them is inductive. What carries them is
`RunningIsFound`: while the connection is open the map leads to every running
loop and its subscription is valid, and once it is closed no subscription is,
so that `GetSubscriber` finds the loop or may not make one. `Served` needs
`NeverReestablished` besides, as a loop gives up only when it is made to
subscribe again.

**EventsFeedProofs.** `InOrderHolds` and `ImplementsTopicFeed`, after start-up
(`ReadyFirst`). That `delivered` grows in order is far from inductive: a message
goes from the callback's queue to `messages`, to a client's queue, to the client.
`InOrder` says that in each of these every delivery follows those before it, in the
sense of `TopicFeed` (`SupplyOrder`, `ClientOrder`), also across the channels
(`FeedOrder`), and that a client is on no list but that of its own subscriber
(`Registered`). `Pushed` is why JetStream's next delivery follows all of them: what is
on its way has a place and a number that `published` and `deliveries` have
reached. `FirstHandles`, which rests on `NeverReestablished` of `IInv`, is why each
delivery comes once. What appending, taking
and throwing away do to the order of a channel are lemmas of their own. Each write
to a client is then a `Deliver` of `TopicFeed`, each message of NATS its
`Publish`, and everything else leaves its variables alone.

**RelayControlProofs.** `TypeCorrect`, `Invariant`, `Converges`, `Reports`,
`OnDemand`, `StaysOff`. The parts of `IInv`: `Drained` (with nothing under way
`PidLoop` has copied the global, or is at it: each pointer that is queued will be
followed by a copy, and only a document on its way may still change the
global), `Reported` (`powered` lags behind only during or after a decoding that
is not complete), `ResetPowered` (`ResetPin`, which ends high, runs only with the
power on), `Demanded` (wherever the power is on, the hub has asked for it).

**SmokerProofs.** `ImplementsRelayControl`, `UsesSensorFeed`: every step of the
whole pipeline is a step of `RelayControl` or leaves its variables alone, and the
same for `SensorFeed`. `KeepsRelay` draws the conclusion: what `RelayControlProofs`
proves (of the global's contents, the published power, heat on demand, off stays
off) holds with the pipeline around it. `TypeCorrect` bounds its channels.

**SensorProofs.** `ThermCorrect` and `InternalCorrect`: for every temperature and
whatever the reserved bits are, decoding undoes the chip's encoding; they rest on
`Int16Inverse` (a conversion to 16 bits and back) and the remainders of the two
bytes. `Invariant`, `TypeCorrect`, `MeasuredHolds`, `StaysMeasuredHolds`; the heart of `IInv` is
`CurrentTaken` (`currentReading`, and what `ReadLoop` has of a reading, come from samples or
the zero of the start) and `SampleStays` (once one has been read, `currentReading`
holds one, which needs that no attempt resets it). `ImplementsFeed`: the
refinement, step by step; of `IInv` it needs little more than the types, as
the state "broken" was chosen to last.

**HubsProofs.** `Invariant`, `AcceptedOnceHolds`, `LastContactHolds`,
`ConfigKeptHolds`, `EndToEndHolds`, `SeenForwardHolds`. `IInv` has `InTurn` and
`SetsInTurn` (of two handlers of one caller that run at once the earlier one is
given up), `StreamInv` (the stream is in the order of the posts but for those),
`DeliveredInv` (what `TopicFeed` promises; `EndToEnd` follows from it and the order of
the stream) and `ConfInv` (nobody has seen a document
later than the one kept, unless that was written by a handler given up).

**ProvisionProofs.** `TypeCorrect`, `Invariant`, `FirstTry`, `NetworkOwned`. The
heart of `IInv` is `Stored`: a success that has been told, is in `state`, or is
about to be answered has a document on disk, and if that is the only one, the
network is its; an answer taken by the wrong phone or lost on the way changes
nothing of that.

**AccountsProofs.** `Invariant`, `TypeCorrect`, `Told`, `WatchedHolds`. For `ToldIsDone`
`IInv` has `AsCalled` (an operation waits for the call of its current field, by that
field's name), `TrueAnswer` (a 200 that has not been looked at is still true: a name
that is taken keeps its owner, and who is confirmed stays so) and
`HonouredConfirmed` (Cognito gives tokens to nobody else), which the lemmas
`StepShapes` (what a resolver may do next, and when it may say yes) and `HandleKeeps`
(what each handler does to the users' pool) carry through the steps. For `Watched` it has
`LoginsWatched`: a login that is about to be shown has its watcher already.

**Only model-checked**: liveness (`NonBlocking`, `UnregisterCompletes`,
`PowerOffWorks`, `Stops`, `SuccessEnds`, `GivesUp`, `Recovers`, `OpsAnswered`,
`BackToLogin`), which needs fairness and ENABLED. Every safety property that a
passing run checks is a theorem.

## 7. What is left out

* Data: temperatures and what the PID controller makes of them, message bodies,
  JSON and TOML but for what of it decodes, names of topics. A `float64` is
  written in one step. `run_time` of a configuration is decoded and never used.
* Of JetStream: messages it pushed while the connection is away, and so the gaps of
  a reconnect. First deliveries are assumed to come in the order of the stream; whether
  an acknowledgement arrived is not remembered, so that any message may be delivered
  again, as often as `MaxDeliveries` says.
* A write to the configuration file that is cut in the middle; one that fails
  has written nothing.
* `reads` being closed (`src/pismoker/main.go:290`): nothing closes it.
* The crash that Go's runtime makes of a map read and written at once
  (`src/events/main.go:150`): `Connect`'s reading sees some map.
* The page, `HealthCheck` and `MockGen` of `events`, none of which changes state
  (`mockGen` is never set).
* In `Sensor` the other readings of the package (`GetInternalReading...`) have no
  caller. Sensor types other than the two leave `ReadLoop` without a package: it sends
  zeros, by `src/pismoker/main.go:349` and `:366`.
* In `Hubs` bodies that do not bind (400 before anything is done); two devices'
  posts do not meet but in Redis, and one instance has one.
* In `Accounts` methods other than POST, `ValidateAccessToken`, the validation of what
  is typed, introspection and the marshalling of scalars, which keep no state;
  `setAuthResultToRedis` and `validateCache`, which nobody starts.
* The components "not_modelled" or "partly" in `PROJECT.json`, each with its reason:
  introspection, screens, manifests, the board, a program that prints a line and a
  demonstration chart.

## 8. Plan

Done, in this order: `TopicFeed`, `EventsBroker` and its proofs; `RelayControl`,
`Smoker` and theirs; `Provision`; `SensorFeed` and `Sensor`; `Hubs`, with the way end
to end; `AuthService`, `Gateway`, `LoginApp` and `Accounts`.

What would come next:

1. `Hubs!SetConfig` and `GetConfig` as the source of `RelayControl!SetConfig`, so that
   the way of a document is one model from the user to the relay.
2. `ConfigConverges` once more with `Smoker`'s full channels as an action property: how
   old a document may be that still turns the relay on.

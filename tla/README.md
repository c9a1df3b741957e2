# CHERIoT demos: TLA+ models, model checking and proofs

This directory specifies the programs of this repository in TLA+, checks them with TLC on small
instances and proves with TLAPS the safety properties that TLC checks, for instances of any size: of the
configuration broker and the abstract store it implements, of its consumers, of the system configuration, of the
MQTT provider, of the way from a message to the board, of both lamps and of the sandbox. Paths are relative to the
root of the repository; `config_broker.cc:232` is a line of a file under `src/`.

| file | contents |
|---|---|
| `ConfigStore` | what the broker promises: numbered, whole values |
| `ConfigBroker` | the configuration broker compartment |
| `ConfigBrokerProofs` | theorems about `ConfigBroker`, and that it implements `ConfigStore` |
| `ConfigConsumer`, `ConfigConsumerProofs` | the consumer library and handlers, composed with the broker |
| `SystemConfig`, `SystemConfigProofs` | the thread that turns the switches of the Sonata board into configuration |
| `MqttProvider`, `MqttProviderProofs` | the thread that follows the system's id with its MQTT subscription |
| `ConfigParsers` | the parsers of the items, as operators, and what a document means |
| `ConfigMessages`, `ConfigMessagesProofs` | from a message to the board: registration, routing, signatures, parsers, rate limit, handlers, and the test providers |
| `HughNetwork` | Hugh the Lightbulb: the network thread that both versions run, and the MQTT service |
| `HughV1`, `HughV1Proofs`, `HughV2`, `HughProofs` | the rest of each version of the lamp, with its controller; `HughProofs` is about the second version, and about the first where `MCHugh` states a property for both |
| `JsSandbox`, `JsSandboxProofs` | the compartmentalisation demo: console, ticker and sandbox |
| `MCConfigBroker`, `MCConfigConsumer`, `MCConfigMessages`, `MCHugh`, `MCJsSandbox` | instances for TLC; the other modules are instantiated by their cfg alone |

## 1. Inventory

The repository holds three groups of demonstrations for the CHERIoT RTOS. The RTOS, its network
stack and the JavaScript interpreter are submodules and not part of the sources.

### Configuration broker (`configuration_broker/`)

Untrusted configuration arrives over MQTT, is parsed in a sandbox, and is given to consumers as a
read-only object on the heap. Compartments hold sealed capabilities that say which item they may
read, write or parse.

| part | state | operations | interacts by |
|---|---|---|---|
| broker, `common/config_broker` | list of items (name, version, data, size, interval, next update, lock, parser); lock of the list; heap objects | `set_config`, `get_config`, `set_parser` | calls from every other part; calls the parser; notifies the version as a futex |
| consumer library, `common/config_consumer` | per item: version and futex seen; events; timeouts | `run` | `get_config`, ephemeral heap claims, `multiwaiter_wait`, the handlers |
| consumers, `*/consumers` | kept values (the logger) | handlers | called by `run`, claim and free values |
| system config, `sonata/system_config` | static buffer, last id and switches | `system_config_run` | reads the switches, `set_config` |
| MQTT provider, `sonata/provider` | last version seen, claimed value, topics, `subscribed` | `provider_run`, `update_status`, `publishCallback` | `get_config`, the MQTT service, `updateConfig` |
| routing, `config.cc` and `provider.cc` of each provider | table of names and capabilities | `updateConfig` | `set_config` |
| signatures, `sonata/provider/signature.cc` | keys | `sign`, `verify_signature` | called by the provider |
| parsers, `config/` | none | one parser per item, helpers for numbers and enums | called by the broker in a compartment of their own |
| boot, `*/init` | none | `parser_init`, `network_init` | `set_parser`, then becomes a provider or the system config thread |
| test providers, `mqtt_stub.cc` of the simulator and of `sonata/provider_stub` | a script of messages with the code each should get | `provider_run` | `updateConfig` |

Hard behaviours: any number of threads are in the broker at once and are preempted anywhere; the
broker frees a value while consumers may be about to use it; parsers and handlers may fault, which
unwinds the call; a consumer must not sleep through an update; nothing orders the threads at boot;
connections, exchanges and allocations fail.

What makes the parts correct:

- broker: one item per name; at most two values of an item on its heap and none leaked; only complete
  values are published; a version identifies a value; rate limit; one item does not block another;
- consumers: no use of a freed value, no lost wakeup or update, claims do not pile up, every consumer
  ends up with the last version;
- system config: what it believes to have published is published, id and switches belong together and
  end up as the board's;
- provider: one subscription at most, for the current id; no stale status; both follow the id;
- routing and parsers: an item is only changed by a message that names it and has what signature the
  build asks for; a good message is taken; what is shown is what the message says; no message finds
  an item without its parser;
- test providers: every code is the one the script expects, however late its sleeps end, by less
  than an LED has to wait between two updates.

### Hugh the Lightbulb (`HughTheLightbulb/`, `HughTheLightbulbV2/`)

A device whose network thread keeps a subscription to a random topic and sets LEDs from its
messages, a display thread that shows the topic (and, in the second version, a QR code with the topic
and an encryption key) and injects faults in the network stack, and an Android controller that
publishes colours. Correct: the device comes back subscribed after any fault, its status LEDs tell
the truth, it only obeys messages for its topic (encrypted with its key), and the controller and the
device agree on both once the code has been scanned.

### Compartmentalisation (`compartmentalisation/`)

A console that accepts JavaScript bytecode (`run` in `js.cc`), a second thread, the ticker, that has it
executed every half a second (`run_tick`), a compartment that executes it (`js_sandbox.cc`: `tick`,
`kill`, `load_javascript` and an error handler, under one lock), the functions it offers to scripts
(`microvium-ffi.hh`) and a compartment that keeps a secret (`secret.cc`). State: the virtual machine
in a `unique_ptr`, the claim on the bytecode, the lock; the console's vector with the bytecode. Hard:
a script may fault, fail or never let go of the lock, in which case `kill` frees its memory under it;
the console destroys the bytecode that the sandbox still runs; the error handler may itself
fault. Correct: the lock is always given back, nothing that runs is freed but by a forced kill, the
sandbox stays available, and what is loaded gets to run.

### Left aside

Vendored libraries under `third_party/`, image data and keys, Android resources, CAD files, build
files and the empty submodule directories.

## 2. The modules and the code

### ConfigBroker

A thread that calls the broker executes an entry point one step at a time; `pc[t]` is its next step
and `frame[t]` its local variables. The steps are cut wherever another thread could tell the
difference: every access to shared state (the list, an item, the heap, a lock) is a step of its own,
so locks protect only what the code protects with them.

| code (`config_broker.cc`) | steps |
|---|---|
| unsealing the capability, 148-154 | `Enter` |
| `find_or_create_config`, 103-134 | `Find` (lock), `Search`, `Create`, `CreateFails` |
| `LockGuard g{c->lock}`, 165 and 285 | `Lock`; released with the return |
| `set_config`, 167-192 | `NoParser`, `Busy`, `Attempt`, `Malloc`, `MallocFails` |
| the parser and its result, 213-219 | `ParseOk`, `ParseFails`, `Discard` |
| publication, 228-247 | `Publish` (data), `Bump` (version), `Notify`, `FreeOld` |
| `get_config`, 293-308 | `ReadVersion`, `ReadData` |
| `set_parser`, 337-339, without a lock | `Store`, one per field, in any order |

Abstractions. An object is an index in the order of allocation, used once: the model can tell a
freed object from any later one, so use after free is visible where the real allocator might hide
it. A payload is a model value and `Parsed` says what its parser makes of it. `set_parser` always
stores what the token holds, so an item records which fields are stored; an item whose `size` is not
stored yet gives objects of size 0, in which no parser can complete (it writes through a capability
bounded to the object). A parser that faults is `ParseFails`: the call returns an error. Versions are
natural numbers: the 32-bit wrap is not modelled. Locks have no order of waiters and no priorities.

`ConfigStore` is the abstraction: registers replaced as a whole and numbered. The refinement mapping
(`Register` in `ConfigBroker`) reads a value as replaced when its version is bumped: between
`Publish` and `Bump` it still shows the old object.

### ConfigConsumer

`EXTENDS ConfigBroker`: the consumers' threads make their `get_config` calls through the broker's own
steps. `Start` to `WaitFails` follow `run` (`config_consumer.cc:26-148`); `EnterClaim`, `FullClaim`
and `Swap` are `logger_handler` of `consumer1.cc:39-68`, the one handler that keeps its value; `Use`
is any other handler. The handlers' output (LEDs, display, log) is left out. The two builds differ: the
simulator's has the handler that keeps its value, the Sonata one `Restart`, the loop that calls `run`
again after a fault; the model has both, and so the behaviours of each.

External behaviour, as the code relies on it:
- an object is usable while the broker or a claim owns it (`Alive`);
- an ephemeral claim ends at the thread's next call to another compartment (`Drop`), which includes
  the call of `heap_claim` itself; a claim fails only if the object is gone;
- `multiwaiter_wait` compares each futex with the value given before it sleeps (`Changed`), sets the
  values of the events to 1 or 0, and fails, with the events untouched, if a futex is null
  (`NoFutex`, `WaitFails`);
- a multiwaiter takes quota and is never deleted by `run`: a restarted `run` needs another one.

### SystemConfig

The loop of `system_config.cc:115-159`: one step per switch sampled by the loop and again by
`read_id`, one for the comparison with `set_config` (a single step here; its inside is
`ConfigBroker`), one for the sleep. `Move` is a person at the board. A number is the set of its bits.
The random name in front of the id never changes and is left out.

### MqttProvider

`provider_run` and `update_status` (`mqtt.cc:117-277`), `send_status` and `clear_status`
(`status.cc`), one step per exchange with the MQTT service, each of which may fail; a subscription
or a message that is not acknowledged may have taken effect or not. The service is external: it keeps the
retained status of every id and, depending on `cleanSession`, the session over a lost connection.
A value that is read may be gone when it is claimed if a newer one was published (`ClaimFails`).
`publishCallback`, and with it the cut of the name out of the topic, is in `ConfigMessages`. A fault inside
`mqtt_run` is `Lose`.

### ConfigParsers and ConfigMessages

`ConfigParsers` has one operator for each parser and helper. A JSON document is a function from paths to
texts (`coreJSON` is third-party and external), a number the sequence of its digits. `get_number` keeps the
width of its `int`: TLC's own integers have 32 bits with an error on overflow, so the accumulator is
kept in two halves of 16 bits. `Represents` and `WellFormed` say what a document means without
parsing it: they are the reference the parsers are checked and proved against. The loop over the digits is a
recursive function (`Number`), as are the decimal digits of the reference (`Digits`). Structures are copied as the logger and
system parsers do, up to the NUL and only with the characters they allow.

`ConfigMessages` composes the parts of the demo in all three builds (`build`): `Register` is a call of
`parser_init`; the providers start when all of them returned 0 (`Started`). `publishCallback` follows
`mqtt.cc:84-115` through the length test, the cut at the offset given by `config_topic`,
`verify_signature` (a message is its header and its body, whose signature is valid, forged or
absent) and `updateConfig`, which compares with `strncmp` over the length received, so that
prefixes match. `provider_run` is a step of a script of a test provider, message or sleep, with the
codes its Asserts expect. `SetConfig` is one step with the return code, the rate limit and the
parser; `ConfigBroker` has its inside. `wait[i]` counts down the interval of an item in tenths of a
second, as only the scripts' sleeps give time a scale. The handlers turn a value into what is
shown: the two RGB LEDs, the set of user LEDs that are on, the id and the bar of switches; in the
simulator what the logger's level lets through. How the display draws it is left out.

### HughNetwork, HughV1, HughV2

The two devices run the same loop (`run` in V2 `mqtt.cc:146-246`, `hugh` in V1 `mqtt.cc:86-191`), which
is `HughNetwork`: `net` is where it is, `leds` the status LEDs it has on. An LED is switched in the same
step as the call before it, so the steps show every combination the code holds for longer than that.
`connection` is what the network has done to it; the thread learns of it from the next call that
fails. The service only keeps a subscription for the life of a connection, because each has a new
random client id. It delivers in order, once or twice.

`HughV2` adds `publish_callback` and `decrypt` (`Receive`, `Decrypt`: another thread may run between
the check of the length and the use of the key), the display thread (`CopyTopic`, `CopyKey`, `Poll`),
and the lazy initialisation of topic and key, which is C++'s: `Initialise` is the guard that one
thread gets and the other waits for, `MakeTopic` and `MakeKey` the initialisers. A topic is its random
suffix, an encrypted colour a record with the key. The button that injects a fault is only polled while
the QR code is hidden. The controller is `MainActivity.java`: the scanner puts the activity in the
background, where the system may destroy it, and it is restored from what it saved before it is given
the result. Its connection to the service is not modelled: what it publishes arrives or does not.

`HughV1` adds the barrier at which the network thread waits for the topic that the display thread is
building (`Barrier` to `Notify`; `Partial` is a topic in the making), the switch that injects faults,
and the controller into which the topic is typed letter by letter.

Left out: the graphs of memory and processor use and everything else that is only drawn. `MCHugh` has both
versions side by side, each with variables of its own: the initial state chooses the one that runs.

### JsSandbox

Both threads call the compartment, so a thread is the list of the steps it has to make, `todo[t]`: a
call of `tick`, `kill` or `load_javascript` puts its steps there, `vm.reset` is the three steps that a
`unique_ptr` makes (load the old pointer, store the new one, delete), and a fault replaces what is
left of the call by the error handler (`Fault`). That way each order of the code is written once, as
in `load_javascript`, and the preemption points are between any two accesses of `vm`, the heap or
the lock. A step of the console between two of the ticker is only possible where the code lets it:
behind the lock, or after a forced kill.

A script is what tells the outcomes apart (`Ends`): whether it can be restored at all (`Restorable`: its
imports are known), has a function `run`, what it calls with how many arguments, and whether it runs
into the limit of instructions. A load or store through a register may fault or not. Freed memory
is not reused while something points to it (the revocation of the platform), so a dangling
pointer is a virtual machine without code and using it faults; `doubleFault` is a fault in the
error handler, which ends the call without the handler's last steps, here the release of the lock.

## 3. Runs

| run | instance | what it shows |
|---|---|---|
| `broker` | two scenarios: a writer (2 calls), a client that reads or writes (1 call) and the registration of their item in parallel; the client, while another thread registers and updates a second item, whose parser may hang. 3 objects, clock to 2, good and bad payloads | one item per name, only complete values published, at most two per item, no leak, freed answers are old, rate limit, implements `ConfigStore`, calls on the other item return |
| `consumer_boot` | 1 consumer of 2 items, 2 updates, registration in parallel with the boot, one handler fault | no use after free, no lost wakeup or update, bounded claims, delivery |
| `consumer_faults` | as before with failing item creation, expiring timeouts, no spare multiwaiter | memory safety survives |
| `consumer_starved` | item creation fails for the consumer | **violated**: delivery, see below |
| `system_switches` | 3 switches (2 for the id), 3 moves, 2 failed updates | the loop remembers what it published, switches settle, and the id does when nothing fails |
| `system_stale_id` | 1 failed update | **violated**: the id, see below |
| `provider_follows` | 2 ids, 2 settings, 3 versions, 2 lost connections, 2 failures, both kinds of service | one subscription, no stale status; subscription and status follow when nothing fails |
| `provider_no_retry` | 1 failure | **violated**: the subscription is retried, see below |
| `messages` | all three builds, with and without signatures, 2 ids, messages that each differ from a good one in one respect, both scripts with sleeps up to 0.3 s late, 1 failed registration | what is shown is what was accepted, only authorised changes, good messages taken, no item without its parser, every code of the scripts as expected |
| `parser_overflow` | as before, with a number of ten digits | **violated**: a number that does not fit is rejected, see below |
| `hugh` | both versions; 2 suffixes, another lamp that may have the same one, 2 colours, 2 messages; second version: 1 failure or loss, 1 press; first: 2 and 1 | no subscription to half a topic, the code agrees with the device, only colours of paired controllers, the last message is shown, truthful LEDs, no connection leaked, the controller's pairs match, the device comes back |
| `sandbox` | 3 virtual machines, 2 buffers, 4 scripts (store through a register, too few arguments, no function `run`, unknown import), 1 failed claim or restore or forced kill | the lock is given back, nothing is freed under a script, the sandbox stays available, what is loaded runs |

Why the bounds are enough. Broker: a writer and another caller are the most that can meet in one item, a
third thread changes the registration under them; two updates free a value, a third frees the value of
another; one tick of interval and a clock of two pass both sides of the limit. Consumer: two items are
needed for an event of one to hide another; a second update of the logger replaces a kept value.
System: one switch more than the id has, and three moves, change the id, move it back and change
another switch. Provider: three versions leave an id and come back to it. Messages: the messages of one
connection concern the same item or the same oddity, so that each pair that can meet in the broker does;
`Elapsed` and `Late` lie on both sides of the intervals; the ten digits of `parser_overflow` are the first
that come back to a valid number. Hugh: a failure and an injected fault may hit the same connection or
two in a row, in every step of the loop, and two messages are enough for a repetition and for one
that fails before or after one that does not; the two suffixes let a foreign message arrive at the right topic with the wrong
key. Sandbox: one virtual machine runs, one is being thrown away and one
restored; one buffer is claimed while the other is read. Two troubles would let a forced kill
meet a failed claim, which no property speaks of. What TLC shows for the safety of all
these, the proofs below show for any number of threads, names, calls, objects, switches, ids, messages, scripts, buffers
and failures.

Fairness. A thread that has called the broker keeps running (weak fairness of its steps): threads are
scheduled by priority, block only on locks, and holders of a lock run on. Calls are finite in number
(`Budgets`), so a lock is not taken from under a waiter for ever. A parser returns, unless its item is in
`Hangs`. The consumers' loop is fair without its timeout: delivery must not depend on it. The sampling
loop, the provider's loop and both threads of the lamps are fair; failures and losses are bounded,
so that what is claimed is what happens once they stop. In the sandbox both threads are scheduled, and a thread gets
the lock if it is free again and again (strong fairness of `Lock`): the console waits for the user
and the ticker sleeps between their calls. Nobody has to send a script or to move a switch.

Deadlock is checked in all runs but three. Where it is checked, `Finished` and `Done` are the only ends. The two runs of
`ConfigMessages` have `CHECK_DEADLOCK FALSE`: after a registration that failed, the boot of the code stops for good
(`Started`). So has `sandbox`: a fault in the error handler after a forced kill leaves the lock taken,
both threads wait, and the system has stopped, which `compartmentalisation/README.md:63` says is
possible; `LockReleased` shows that it takes a forced kill.

Every property has a mutant in PROJECT.json: a definition next to the one it replaces, with a mistake
that violates the property in the same run.

### Disagreements with the documentation

- `consumer_starved`. README.md:100 promises that "a consumer will receive any data that is already
  published, and any subsequent updates". If the first `get_config` of an item fails for want of
  memory, `run` goes on with a null futex (`config_consumer.cc:72-78`). Every `multiwaiter_wait` then
  fails without setting events; the item is never read again and updates of the others are
  missed too.
- `system_stale_id`. README.md:568 defines the id as the name with the value of the first two
  switches. A failed `set_config` leaves its id in the static buffer; when the switches of the id are
  moved back, `id == newId` suppresses the formatting (`system_config.cc:130`) and a change of another
  switch publishes the old failure's id.
- `provider_no_retry`. The comment at `mqtt.cc:272` says "disconnect and try again". The version is
  noted before anything that can fail (`mqtt.cc:136`): after the reconnection `update_status` sees
  nothing new and the subscription stays as it was. The run assumes a service that keeps sessions, so
  that the loss of the session is not to blame. `OneSubscription` excludes a related case for
  such a service: a first subscription that takes effect without an acknowledgement leaves
  `subscribed` false, and is not unsubscribed from when the id changes.
- `parser_overflow`. The comment at `parser_helper.h:42-45` says that a value that has overflowed "is not
  valid for the type". The digits are accumulated in an `int` that wraps (71) before the comparison (87), so
  4294967301 is accepted as the brightness 5. The overflow of a signed number is undefined in C++; it is
  taken to wrap, as the multiplication of the target does.

## 4. Proofs

| theorem | module | statement |
|---|---|---|
| `TypeCorrect` | ConfigBrokerProofs | `Spec => []TypeOK` |
| `NoDuplicateItems` | ConfigBrokerProofs | `Spec => []UniqueNames` |
| `MutualExclusion` | ConfigBrokerProofs | at most one thread in the critical section of an item |
| `OnlyParsedValues` | ConfigBrokerProofs | `Spec => []PublishedParsed` |
| `NoLeaks` | ConfigBrokerProofs | `Spec => []Accounted` |
| `TwiceTheSize` | ConfigBrokerProofs | `Spec => []HeapBound` |
| `UpdatesAreRateLimited` | ConfigBrokerProofs | `Spec => RateLimited` |
| `OneValuePerVersion` | ConfigBrokerProofs | `Spec => []SnapshotsAgree` |
| `FreedIsOld` | ConfigBrokerProofs | `Spec => []FreedImpliesNewer` |
| `Inductive` | ConfigBrokerProofs | `Spec => []IInv` |
| `Implements` | ConfigBrokerProofs | `Spec => ImplementsStore` |
| `ComposedInductive` | ConfigConsumerProofs | `BootSpec => [](BrokerOK /\ ConsumersOK)` |
| `ConsumerTypes` | ConfigConsumerProofs | `BootSpec => []ConsumerTypeOK` |
| `NeverUseAfterFree` | ConfigConsumerProofs | `BootSpec => []NoUseAfterFree` |
| `WakeupsAreKept` | ConfigConsumerProofs | `BootSpec => []NoLostWakeup` |
| `UpdatesAreKept` | ConfigConsumerProofs | `BootSpec => []NoLostUpdate` |
| `ClaimsAreBounded` | ConfigConsumerProofs | `BootSpec => []ClaimsBounded` |
| `ConsumersReadTheStore` | ConfigConsumerProofs | `BootSpec => ImplementsStore` |
| `TypeCorrect` | SystemConfigProofs | `Spec => []TypeOK` |
| `Remembers` | SystemConfigProofs | `Spec => []RemembersPublished` |
| `IdsMatch` | SystemConfigProofs | `Spec => []IdMatches` |
| `TypeCorrect` | MqttProviderProofs | `FairSpec => [](TypeOK /\ InHand)` |
| `OneSubscriptionOnly` | MqttProviderProofs | `FairSpec => []OneSubscription` |
| `StaleStatusesCounted` | MqttProviderProofs | `FairSpec => []NoStaleStatus` |
| `RoutingInductive` | ConfigMessagesProofs | `Spec => []IInv` |
| `ParsersComeFirst` | ConfigMessagesProofs | `Spec => []AlwaysRegistered` |
| `OnlyAuthorisedChanges` | ConfigMessagesProofs | `Spec => []Authorised` |
| `GoodMessagesAreTaken` | ConfigMessagesProofs | `Spec => []GoodMessagesTaken` |
| `ScriptsAreRight` | ConfigMessagesProofs | `Spec => []ScriptAsExpected` |
| `ShownIsSent` | ConfigMessagesProofs | `Spec => []Shown`, if no number that arrives has more than nine digits |
| `FirstLampInductive` | HughV1Proofs | the first lamp's inductive invariant |
| `TopicIsComplete` | HughV1Proofs | its network thread never uses a topic in the making |
| `FirstVersionOK` | HughProofs | `MCFairSpec => []FirstOK` |
| `LampInductive` | HughProofs | `FairSpec => []Inv` |
| `LampTypes` | HughProofs | `FairSpec => []TypeOK` |
| `StatusIsTrue` | HughProofs | `FairSpec => []LedsTruthful` |
| `OneConnectionAtATime` | HughProofs | `FairSpec => []OneConnection` |
| `CodeIsOfTheDevice` | HughProofs | `FairSpec => []CodeAgrees` |
| `OnlyWhatWasChosen` | HughProofs | `FairSpec => []OnlyChosen` |
| `LastMessageShows` | HughProofs | `FairSpec => []ShowsLast` |
| `PairsBelongTogether` | HughProofs | `FairSpec => []PairsMatch` |
| `Invariant` | JsSandboxProofs | the sandbox's inductive invariant |
| `TypeCorrect` | JsSandboxProofs | `FairSpec => []TypeOK` |
| `LockReleasedHolds` | JsSandboxProofs | `FairSpec => []LockReleased` |
| `MemoryKeptHolds` | JsSandboxProofs | `FairSpec => []MemoryKept` |
| `Exclusion` | JsSandboxProofs | without a forced kill, at most one thread is in the compartment |

They hold for every value of the constants that satisfies the named assumptions: `ConstantsAssumption` of
the broker (model values differ from each other, tables have the right domains), `ConsumersAssumption`
(consumers are threads that watch at least one item and make no other calls), `SwitchesAssumption` and
`UnsetAssumption` of the system configuration (the id's switches are switches; `Unset` is no value), and
`ProviderAssumption` of the provider (the bounds are natural numbers; `None` is no id or setting), and
`NetworkAssumption` and `LampAssumption` of the lamps (the same of theirs; two devices do not make the
same key). The first lamp adds `FirstAssumption` (a topic in the making is not a complete one) and the sandbox
`SandboxAssumption` (`None` is no interpreter, buffer or script). The messages add

- `BuildsAssumption`: the builds are the repository's three, and names and numbers of messages are texts;
- `SystemsAssumption`: ids are texts, all of the same length up to the NUL: a name that never changes, a dash and a digit;
- `RejectedAssumption` and `NoneAssumption`: the outcomes `Rejected` and `None` are no value, field or picture;
- `ScriptsAssumption`: a test provider's script is never late by the interval of the LEDs (1.8 s) or more, and
  nothing it sends is the document that cannot be parsed. Without a bound on the lateness, its last `Assert`
  would not hold: the last message is expected to come too early.

One theorem has a hypothesis of its own: `ShownIsSent` is about messages whose numbers have at most nine digits
(`ShortNumbers`). The instance of `messages` satisfies it; ten digits can overflow the accumulator of `get_number`,
which is what `parser_overflow` shows.

**Broker.** None of the properties is inductive alone. The argument builds the inductive invariant
`IInv` in layers, each of which uses those below:

1. types, and `FrameOK`: a call past the search works on an item that carries its name;
2. the list: `FindLocked`, `CreateOK` and `UniqueNames`. The thread that searches or creates holds
   `lockFindOrCreate`, so what it found missing is still missing when it appends;
3. `ItemLocked`: from the lock to the return the thread is the item's owner, hence mutual exclusion;
4. the objects: `NewOK`, `OldOK`, `PublishedParsed`, `Accounted`. The object a call allocated and
   the one it replaced are live, belong to its item and are not its data; by mutual exclusion no
   other call of the item holds one. `HeapBound` follows by counting: an owned object is the item's
   data or in the hands of the one thread inside;
5. the rate: `NextUpdateOK`, `nextUpdate` covers the interval since the last attempt. The history
   variable `lastAttempt` makes that expressible;
6. the answers: `ReadOK`, `AnswersOK`, `SnapshotsAgree`. Answers with the current version have the
   current value, which for the thread between `Publish` and `Bump` is the old one;
7. the refinement: `Mapped` is the invariant with `AnswersLive` (an answer is of a version that was
   published) and `BumpOK` (who is about to bump has published its own object over the one it holds). `View` says
   what the mapping's `CHOOSE`s pick. `Bump` is the store's `Replace`, `ReadData` its `Answer`, a return with
   an error its `Refuse`; every other step leaves the store alone, `Publish` too.

All of it is stated for any caller: a step of the broker is `BrokerNext`, and calls enter it with `Entered`, which
`Spec` instantiates with arbitrary calls and the composition below with those of the consumers.

**Consumers.** `ConsumersOK` is proved together with the broker's invariant, which it uses. A consumer is only in
the broker while it reads, so that what it gets back is an answer (`AnswersNamed`, `EverSet`). For each consumer
`ConsumerOK` says what `run` keeps in its local variables:

- claims: what is used was claimed, ephemerally or for good; a kept value is held by a claim of its own. Claims
  on one object add up, as an object is a value of one item only. A failed claim is harmless because of
  `FreedImpliesNewer`: what is gone is out of date;
- seen or due: for each item, the version seen has been handled, or the item has moved on, or the event is still to be looked at in
  this round. This gives `NoLostUpdate`;
- asleep: each event that has not fired is of a current version, or the thread that bumped it has yet to
  notify. `multiwaiter_wait` compares as it goes to sleep, and the version moves before the notification. This
  gives `NoLostWakeup`;
- counted: the claims are a finite set, each of them of a kept value, of the swap under way or of a fault that
  happened. Each step adds at most as many as it adds reasons. This gives `ClaimsBounded`.

**System configuration.** `RemembersPublished` is inductive with the types: the two values are set in the one
step that publishes, and what is published has the switches that were compared. `IdMatches` is not. It needs
`BufferFresh`: while nothing failed, the static buffer has the id that was remembered, so that a round which
leaves it alone publishes the right one. A failed `set_config` breaks exactly this.

**Provider.** `InHand` says that what is claimed is a value and no longer `None`. `OneSubscription` needs
`Unsubscribed`: before it subscribes the thread has unsubscribed, or never had a subscription, or lost it with
the session. `NoStaleStatus` counts: `Accounted` charges each status left behind to a failure. A status that
was not cleared was charged when clearing it failed; while the system is not subscribed the status of the
current topic counts too, since nothing is going to clear it.

**Messages.** The invariant `IInv` orders the boot: the parsers are registered one after the other (`Booting`),
`system` is only published afterwards and with an id that the generator made (`Published`), and the topic of the MQTT
client is made of such an id (`Subscribed`). So nothing that has a name arrives before the parsers, which gives
`AlwaysRegistered`; and since all ids have one length, the name is cut out of the topic at the right place, which
`Authorised` needs. The other properties rest on what the parsers compute:

- texts: `CopiedIsString`, a text that is copied character by character is the text up to its NUL;
- numbers: the recursive functions for digits and accumulators are first shown to exist, as a least number for which one
  did not would have a predecessor for which it did (`Everywhere`). Along the digits, a well-formed number is
  taken whatever zeros it begins with (`NumberTaken`), which gives `GoodMessagesTaken`; and of at most nine digits
  the accumulator's upper half never reaches the sign bit, so that what is accepted is what the text says
  (`NumberFound`);
- scripts: `Sending`, each message is parsed as its expected code says, and `Waits`, what is left of each item's
  interval at each position of the script is no longer than what the script still sleeps before that item's next
  message. Both together give `ScriptAsExpected`;
- what is shown: `Showing`, a value is what the parser made of the body accepted last, and whoever has no event pending
  for it shows it. `SentFaithful` compares what is drawn with the body, item by item. This gives `Shown`.

**First lamp.** `Position` and `Subscribed` are as below, simpler for the one thread. `Building` ties the topic and the
barrier to where the display thread is, and `Waits` keeps the network thread before the barrier while it is down: a topic
in the making is out of its reach. `PressesSeen` bounds the faults by the presses that the display still has to see.

**Second lamp.** `Position` ties the LEDs and the connection to where the thread is and `Subscribed` the service's
subscription to the topic; both together give `LedsTruthful`. `Lazy` (one initialiser per object, none once it is made)
makes topic and key final, so that the code can be built from them in two steps (`Code`). `Paired` says that a pair with a key is
either the foreign one or the complete code: with that, what is encrypted with the device's key was chosen in a
controller that has it, which `Mail` says of every message on its way, and `OnlyChosen` follows. `Mail` also keeps the last message at
the end of the queue: the step that empties it leaves what `ShowsLast` asks for. A topic or a key cannot change under a
message, since before they are made there can be no message for or with them.

**Sandbox.** A thread's state is the list of steps it still has to do, so the invariant first says what such lists look
like (`Plans`): one step follows another as in the code, a cleanup stands at the end, nothing is loaded twice. With it,
pointers are in hand only in the steps that need them (`InHand`), and whoever holds the lock, or another thread on its behalf,
still has the step that gives it back, unless a fault in the handler was the end of it (`Owed`): that gives `LockReleased`.
A script that is killed without the lock breaks all mutual exclusion; as long as that has not happened (`Peaceful`),
the threads exclude each other, what is pointed to exists and is pointed to once, and what could be claimed
stays claimed, which gives `MemoryKept`.

Only model-checked: the liveness properties `OthersServed`, `Delivered`, `SwitchesSettle`, `IdSettlesReliably`,
`FollowsReliably`, `ComesBack`, `StaysAvailable` and `LoadedRuns`, as fairness and `ENABLED` are out of the
prover's reach. Every invariant and every action property of a passing run is a theorem.

## 5. What is left, and what is not modelled

Worth adding next: the action properties that the liveness arguments rest on (which step a thread takes next, and
that it never goes back), as theorems; the two lamps as implementations of one abstract device.

Not modelled:

- `sign` and the packing of status messages, which change no state; the cryptography, JSON and QR-code libraries,
  which are third-party and appear as what the code relies on (a signature is valid or not, a document has a text at
  a path or not, an encrypted colour is a record with its key);
- `network_init`, which calls the network stack once and then the provider;
- the interpreter and what scripts compute: registers, the LEDs of the board, the check of the secret.
  Whether the secret can be reached is a question about the platform's capabilities, not about this code's states;
- the connection of the Android controller, whose retries are the library's: what it publishes arrives or does not;
- drawing: fonts, images, graphs, the layout of the display;
- the wrap of the broker's 32-bit version, which a consumer would have to sleep through exactly once; the
  rate limit keeps that out of the life of a device;
- priorities and the order of waiters at a lock: locks may be taken in any order.

--------------------------- MODULE ConfigMessages ---------------------------
(***************************************************************************)
(* From a message to the board: how the parts of the configuration demo    *)
(* work together.  parser_init registers the parsers; a provider, the MQTT *)
(* client of the Sonata build (mqtt.cc, signature.cc) or one of the test   *)
(* scripts (mqtt_stub.cc), routes messages by their name (config.cc,       *)
(* provider.cc) to set_config, which calls the parser; consumers show the  *)
(* value.  Each item has one writer, so set_config is one step here:       *)
(* ConfigBroker has the steps inside it.  A behaviour is one of a build.   *)
(* Time is counted in tenths of a second.                                  *)
(***************************************************************************)
EXTENDS ConfigParsers

CONSTANTS
  Builds,       \* of "sonata", "stub", "ibex"
  Received,     \* sets of messages that other clients of the MQTT service publish
  Systems,      \* ids and switches of the system, an id being an array of characters
  Elapsed,      \* how much time passes at once while no script runs
  Late,         \* how late a sleeping script may wake up
  MaxFailures,  \* bound: registrations that fail
  None

\* A text is a sequence of some characters.
IsText(text) == text \in Seq(ToSet(text))

\* The name is a text, and so are the numbers, if the body has any.
IsMessage(message) ==
  /\ IsText(message.name) /\ None \notin {message.name, message.body}
  /\ message.body # Garbage =>
       \A f \in RgbFields \cap DOMAIN message.body : message.body[f] \in Seq(0 .. 10)

\* The builds are those of the repository.
ASSUME BuildsAssumption ==
  /\ Builds \subseteq {"sonata", "stub", "ibex"}
  /\ \A messages \in Received : \A message \in messages : IsMessage(message)

VARIABLES
  build,        \* which build this is, never changes
  signed,       \* whether it was built with MQTT_Signed, never changes
  traffic,      \* the messages that may arrive, never changes
  boot,         \* how many parsers parser_init has registered or tried to
  failures,     \* how many of these calls failed
  registered,   \* items with a parser
  wait,         \* wait[i]: the time until item i may be updated again
  value,        \* value[i]: the value of item i
  pending,      \* pending[c]: items with a version consumer c has not seen
  level,        \* level[c]: the level of the logger configuration c has claimed
  shown,        \* shown[c][i]: what c last showed of item i
  config_topic, \* of the MQTT client
  script,       \* how many steps of its script the test provider has made
  accepted,     \* history: accepted[i], the body of the last message published
  outcome       \* history: the call of set_config in the last step, or None

broker == <<registered, wait, value, pending, accepted>>
fixed == <<build, signed, traffic>>
vars == <<fixed, boot, failures, broker, level, shown, config_topic, script, outcome>>

Items == {"logger", "rgb_led", "user_led", "system"}
Interval == [logger |-> 5, system |-> 5, rgb_led |-> 18, user_led |-> 18]

\* The parsers in the order of their registration.
SonataParsers == <<"user_led", "rgb_led", "system">>
IbexParsers == <<"rgb_led", "user_led", "logger">>
Parsers == IF build = "ibex" THEN IbexParsers ELSE SonataParsers

\* The consumers of each build, and the items they watch.
SonataItems == [consumers |-> {"system", "rgb_led", "user_led"}]
Consumer1Items == {"logger", "rgb_led"}
Consumer2Items == {"logger", "user_led"}
Watched ==
  IF build = "ibex" THEN [consumer1 |-> Consumer1Items, consumer2 |-> Consumer2Items] ELSE SonataItems
Consumers == DOMAIN Watched

-----------------------------------------------------------------------------
(* The broker *)

\* The rate limit.
TooSoon(item) == wait[item] > 0

\* What set_config returns.
Code(item, body) ==
  IF item \notin registered THEN "ENODEV"
  ELSE IF TooSoon(item) THEN "EBUSY"
  ELSE IF Parse(item, body) = Rejected THEN "EINVAL" ELSE "0"

SetConfig(item, body) ==
  /\ wait' = IF Code(item, body) \in {"0", "EINVAL"} THEN [wait EXCEPT ![item] = Interval[item]] ELSE wait
  /\ IF Code(item, body) = "0"
     THEN /\ value' = [value EXCEPT ![item] = Parse(item, body)]
          /\ accepted' = [accepted EXCEPT ![item] = body]
          /\ pending' = [c \in Consumers |-> pending[c] \cup (Watched[c] \cap {item})]
     ELSE UNCHANGED <<value, accepted, pending>>
  /\ UNCHANGED registered

\* Time passes.
Pass(d) == wait' = [i \in Items |-> IF wait[i] > d THEN wait[i] - d ELSE 0]

-----------------------------------------------------------------------------
(* parser_init *)

\* The next parser, whether or not one failed before.
Register ==
  /\ boot < Len(Parsers)
  /\ boot' = boot + 1
  /\ \/ registered' = registered \cup {Parsers[boot']} /\ UNCHANGED failures
     \/ failures < MaxFailures /\ failures' = failures + 1 /\ UNCHANGED registered
  /\ outcome' = None
  /\ UNCHANGED <<fixed, wait, value, pending, accepted, level, shown, config_topic, script>>

\* Mutant: the next step is taken although a parser is missing.
StartedAnyway == boot = Len(Parsers)

\* Only when all of them returned 0 does parser_init take the next step.
Started == boot = Len(Parsers) /\ failures = 0

-----------------------------------------------------------------------------
(* Routing: config.cc and provider.cc.  A name is cut short to the letters that *)
(* tell it from the others.                                                     *)

\* The table of names and capabilities.
Entry(name, item) == [name |-> name, item |-> item]
SonataMap == <<Entry(<<"r", "L">>, "rgb_led"), Entry(<<"u", "L">>, "user_led")>>
StubMap == <<Entry(<<"r", "l">>, "rgb_led"), Entry(<<"u", "l">>, "user_led"), Entry(<<"s", "y">>, "system")>>
IbexMap == <<Entry(<<"l", "o">>, "logger"), Entry(<<"r", "l">>, "rgb_led"), Entry(<<"u", "l">>, "user_led")>>
configItemMap == CASE build = "sonata" -> SonataMap [] build = "stub" -> StubMap [] build = "ibex" -> IbexMap

\* strncmp over the length of what was received: a prefix matches.
Matches(name) == {t \in DOMAIN configItemMap : IsPrefix(name, configItemMap[t].name)}
First(S) == CHOOSE t \in S : \A u \in S : t <= u

\* updateConfig, and what it returned.
updateConfig(name, body, call) ==
  IF Matches(name) = {}
  THEN UNCHANGED broker /\ outcome' = [call EXCEPT !.code = "unknown"]
  ELSE LET item == configItemMap[First(Matches(name))].item IN
       /\ SetConfig(item, body)
       /\ outcome' = [call EXCEPT !.item = item, !.code = Code(item, body)]

-----------------------------------------------------------------------------
(* The MQTT client *)

\* Up to the NUL, as strlen and draw_str take a string.
String(array) == LET nul == {i \in DOMAIN array : array[i] = "NUL"} IN
  IF nul = {} THEN array ELSE SubSeq(array, 1, First(nul) - 1)

\* All ids are of the same length: the same name and a digit (system_config.cc:132).
ASSUME SystemsAssumption ==
  /\ \A config \in Systems : IsText(config.id)
  /\ \A config, other \in Systems : Len(String(config.id)) = Len(String(other.id))

\* What all topics begin with is left out.
Topic(id, name) == id \o <<"/">> \o name

\* update_status, when it finds another id (MqttProvider has its steps).
generate_topics ==
  /\ build = "sonata" /\ value["system"] # None
  /\ config_topic # Topic(value["system"].id, <<"#">>)
  /\ config_topic' = Topic(value["system"].id, <<"#">>)
  /\ outcome' = None
  /\ UNCHANGED <<fixed, boot, failures, broker, level, shown, script>>

\* Mutants: the name starts one character too early; a topic that ends where the
\* name should start is not ignored.
NameEarly(topic) ==
  IF config_topic # <<>> /\ Len(config_topic) - 1 < Len(topic)
  THEN SubSeq(topic, Len(config_topic) - 1, Len(topic)) ELSE None
NameInclusive(topic) ==
  IF config_topic # <<>> /\ Len(config_topic) - 1 <= Len(topic)
  THEN SubSeq(topic, Len(config_topic), Len(topic)) ELSE None

\* The name at the end of a topic.  The offset wraps if there is no topic yet.
Name(topic) ==
  IF config_topic # <<>> /\ Len(config_topic) - 1 < Len(topic)
  THEN SubSeq(topic, Len(config_topic), Len(topic)) ELSE None

\* verify_signature.  A header that nobody looks at is no JSON.
verify_signature(message) ==
  IF signed THEN IF message.header = "valid" THEN message.body ELSE None
  ELSE IF message.header = "none" THEN message.body ELSE Garbage

\* A message arrives: for the current id, or a former one that the system is, or
\* in an earlier boot was, subscribed to.
publishCallback(id, message) ==
  /\ build = "sonata"
  /\ LET name == Name(Topic(id, message.name))
         body == verify_signature(message)
         call == [sent |-> message, ready |-> {i \in Items : ~TooSoon(i)},
                  item |-> None, code |-> "ignored", expected |-> None]
     IN  IF name # None /\ body # None
         THEN updateConfig(name, body, call)
         ELSE UNCHANGED broker /\ outcome' = call
  /\ UNCHANGED <<fixed, boot, failures, level, shown, config_topic, script>>

\* system_config_run publishes an id and the switches (SystemConfig has its steps).
system_config_run ==
  /\ build # "ibex" /\ Started
  /\ \E config \in Systems : SetConfig("system", config)
  /\ outcome' = None
  /\ UNCHANGED <<fixed, boot, failures, level, shown, config_topic, script>>

-----------------------------------------------------------------------------
(* The test providers *)

Rgb(r0, g0, b0, r1, g1, b1) ==
  [f \in RgbFields |->
     Digits[CASE f = "led0.red" -> r0 [] f = "led0.green" -> g0 [] f = "led0.blue" -> b0
              [] f = "led1.red" -> r1 [] f = "led1.green" -> g1 [] f = "led1.blue" -> b1]]
User(texts) == [f \in UserFields |-> texts[CHOOSE i \in 1 .. 8 : f = UserLeds[i]]]
Logger(address, port, l) == [address |-> address, port |-> port, level |-> l]

Send(name, body, expected) == [name |-> name, body |-> body, expected |-> expected, sleep |-> 0]
Sleeping(sends, sleep) == [i \in DOMAIN sends |-> [sends[i] EXCEPT !.sleep = sleep]]

Colours1 == Rgb(0, 86, 164, 255, 200, 200)
Colours2 == Rgb(255, 200, 200, 0, 86, 164)
TooLarge == Rgb(0, 286, 400, 255, 200, 200)
Lights1 == User(<<"on", "off", "ON", "OFF", "On", "Off", "on", "off">>)
Lights2 == User(<<"OFF", "ON", "off", "on", "Off", "On", "off", "on">>)
Host == <<"1", "0", "0", ".", "1", "0", "1", "NUL">>
BadHost == <<"i", "n", "v", "a", "l", "i", "d", "NUL">>

logger == <<"l", "o">>
rgbled == <<"r", "l">>
userled == <<"u", "l">>

IbexMessages ==
  << Send(rgbled, Colours1, "0"), Send(userled, Lights1, "0"), Send(rgbled, Garbage, "EINVAL"),
     Send(userled, Lights2, "0"), Send(rgbled, Colours2, "0"), Send(userled, Lights2, "0"),
     Send(rgbled, TooLarge, "EINVAL") >>

StubMessages ==
  << Send(rgbled, Colours1, "0"), Send(userled, Lights1, "0"), Send(rgbled, Colours2, "0"),
     Send(userled, Lights2, "0"), Send(rgbled, TooLarge, "EINVAL") >>

\* Two updates in quick succession, after all the others.
TooQuickly(send) == <<send, [send EXCEPT !.expected = "EBUSY"]>>

\* The last logger message says it is longer than it is: the parser, given too
\* few bytes, faults.
IbexScript ==
  Sleeping(<< Send(logger, Logger(Host, 666, 2), "0"), Send(logger, Logger(Host, 666, 0), "0"),
              Send(logger, Logger(BadHost, 0, 0), "EINVAL") >>, 5)
    \o <<Send(logger, Garbage, "EINVAL")>>
    \o Sleeping(IbexMessages, 10) \o TooQuickly(IbexMessages[2])

StubScript == Sleeping(StubMessages, 30) \o TooQuickly(StubMessages[2])

Script == CASE build = "ibex" -> IbexScript [] build = "stub" -> StubScript [] OTHER -> <<>>

\* A script is never kept from running for as long as the LEDs have to wait, or the
\* last of its Asserts could not hold; none of what it sends is taken for garbage.
ASSUME ScriptsAssumption ==
  /\ Late \subseteq 0 .. Interval["user_led"] - 1 /\ Elapsed \subseteq Nat
  /\ Garbage \notin {Colours1, Colours2, TooLarge, Lights1, Lights2}
  /\ Garbage \notin {Logger(Host, 666, l) : l \in {0, 2}} \cup {Logger(BadHost, 0, 0)}

\* A step of the script: a message, or the sleep that follows it, which is never
\* too short.  Nothing in the repository starts the script of the stub: it is taken
\* to start where the other one does.
provider_run ==
  /\ Started /\ script < 2 * Len(Script)
  /\ script' = script + 1
  /\ LET send == Script[script \div 2 + 1] IN
     IF script % 2 = 0
     THEN updateConfig(send.name, send.body,
            [sent |-> [name |-> send.name, header |-> "none", body |-> send.body],
             ready |-> {i \in Items : ~TooSoon(i)},
             item |-> None, code |-> "unknown", expected |-> send.expected])
     ELSE /\ \E late \in Late : Pass(send.sleep + late)
          /\ outcome' = None
          /\ UNCHANGED <<registered, value, pending, accepted>>
  /\ UNCHANGED <<fixed, boot, failures, level, shown, config_topic>>

\* Time passes; a script says itself how much.
Tick ==
  /\ Script = <<>> \/ script = 2 * Len(Script)
  /\ \E d \in Elapsed : Pass(d)
  /\ outcome' = None
  /\ UNCHANGED <<fixed, boot, failures, registered, value, pending, accepted>>
  /\ UNCHANGED <<level, shown, config_topic, script>>

-----------------------------------------------------------------------------
(* The consumers (ConfigConsumer has the steps of their loop) *)

Colour(red, green, blue) == [red |-> red, green |-> green, blue |-> blue]

rgb_led_handler(v) ==
  [Led0 |-> Colour(v["led0.red"], v["led0.green"], v["led0.blue"]),
   Led1 |-> Colour(v["led1.red"], v["led1.green"], v["led1.blue"])]

\* setLED turns the LED on or off.
setLED(id, state) == IF state = "On" THEN {id} ELSE {}

user_led_handler(v) == UNION {setLED(i, v[UserLeds[i + 1]]) : i \in 0 .. 7}

system_config_handler(v) == [id |-> String(v.id), red |-> v.switches]

\* In the simulator there is no board: a consumer logs what it gets, that of the
\* LEDs if the logger configuration it has claimed asks for that much.
Logs(c) == level[c] = 0
led_handler(c, v) == IF Logs(c) THEN rgb_led_handler(v) ELSE None
user_led_logger(c, v) == IF Logs(c) THEN user_led_handler(v) ELSE None

\* What the handler of c for the item shows.
Picture(c, item, v) ==
  CASE item = "logger" -> v
    [] item = "system" -> system_config_handler(v)
    [] item = "rgb_led" -> IF build = "ibex" THEN led_handler(c, v) ELSE rgb_led_handler(v)
    [] item = "user_led" -> IF build = "ibex" THEN user_led_logger(c, v) ELSE user_led_handler(v)

\* What is absent is no value or picture of an item.
ASSUME NoneAssumption ==
  /\ None \notin RgbValues \cup UserValues \cup LoggerValues
  /\ \A leds \in SUBSET (0 .. 7) : None # leds
  /\ LET Colours == [red : Nat, green : Nat, blue : Nat] IN None \notin [Led0 : Colours, Led1 : Colours]
  /\ \A config \in Systems :
       LET id == String(config.id) switches == config.switches IN
       None \notin {[id |-> id, switches |-> switches], [id |-> id, red |-> switches]}

Handle(c, item) ==
  /\ item \in pending[c]
  /\ pending' = [pending EXCEPT ![c] = @ \ {item}]
  /\ level' = IF item = "logger" THEN [level EXCEPT ![c] = value[item].level] ELSE level
  /\ shown' = [shown EXCEPT ![c][item] = Picture(c, item, value[item])]
  /\ outcome' = None
  /\ UNCHANGED <<fixed, boot, failures, registered, wait, value, accepted, config_topic, script>>

-----------------------------------------------------------------------------

Init ==
  /\ build \in Builds
  /\ signed \in IF build = "sonata" THEN BOOLEAN ELSE {FALSE}
  /\ traffic \in IF build = "sonata" THEN Received ELSE {{}}
  /\ boot = 0 /\ failures = 0 /\ registered = {}
  /\ wait = [i \in Items |-> 0] /\ value = [i \in Items |-> None]
  /\ pending = [c \in Consumers |-> {}] /\ level = [c \in Consumers |-> None]
  /\ shown = [c \in Consumers |-> [i \in Watched[c] |-> None]]
  /\ config_topic = <<>> /\ script = 0
  /\ accepted = [i \in Items |-> None] /\ outcome = None

Next ==
  \/ Register \/ system_config_run \/ generate_topics \/ provider_run \/ Tick
  \/ \E config \in Systems, message \in traffic : publishCallback(String(config.id), message)
  \/ \E c \in Consumers, item \in Items : Handle(c, item)

Spec == Init /\ [][Next]_vars

-----------------------------------------------------------------------------
(* Properties *)

\* Where a body has each colour of the RGB LEDs.
Paths ==
  [Led0 |-> [red |-> "led0.red", green |-> "led0.green", blue |-> "led0.blue"],
   Led1 |-> [red |-> "led1.red", green |-> "led1.green", blue |-> "led1.blue"]]

\* A picture is what the body means, field by field, however it was parsed.
Pictures(item, body, picture) ==
  CASE item = "rgb_led" ->
         \A led \in DOMAIN Paths : \A c \in DOMAIN Paths[led] :
           Represents(body[Paths[led][c]], picture[led][c])
    [] item = "user_led" ->
         \A i \in 0 .. 7 :
           body[UserLeds[i + 1]] \in Spellings[IF i \in picture THEN "On" ELSE "Off"]
    [] item = "system" -> picture = [id |-> String(body.id), red |-> body.switches]
    [] item = "logger" ->
         picture = [level |-> body.level, address |-> String(body.address), port |-> body.port]

\* Once a consumer has seen the last version of an item, what it shows is what
\* the last message accepted for it says: nothing is lost or mixed up between
\* the text of the message and the board (consumer.cc:50-184, parser_helper.h).
Shown ==
  \A c \in Consumers : \A item \in Watched[c] \ pending[c] :
    /\ shown[c][item] # None => Pictures(item, accepted[item], shown[c][item])
    /\ accepted[item] # None /\ (build = "ibex" => item = "logger") => shown[c][item] # None

\* A number that is accepted is the one that was sent: one that does not fit is
\* rejected (parser_helper.h:41-45).
NumbersFit ==
  accepted["rgb_led"] # None =>
    \A f \in RgbFields : Represents(accepted["rgb_led"][f], value["rgb_led"][f])

\* An item is only changed by a message for the system that names it, if only by
\* its first letters, and, where the build verifies signatures, that has one
\* (mqtt.cc:95-106, config.cc:82).
Authorised ==
  outcome # None /\ outcome.code = "0" =>
    /\ outcome.sent.name # <<>>
    /\ \E t \in DOMAIN configItemMap :
         configItemMap[t].item = outcome.item /\ IsPrefix(outcome.sent.name, configItemMap[t].name)
    /\ outcome.sent.header = (IF signed THEN "valid" ELSE "none")

\* Once the MQTT client has its topic, a message with the name of an item, a
\* well-formed body and, where it is needed, a signature is accepted unless the
\* item was updated too short a time ago: also if it was sent to a former id.
GoodMessagesTaken ==
  outcome # None /\ config_topic # <<>> =>
    \A t \in DOMAIN configItemMap :
      /\ configItemMap[t].name = outcome.sent.name /\ configItemMap[t].item \in outcome.ready
      /\ outcome.sent.header = (IF signed THEN "valid" ELSE "none")
      /\ WellFormed(configItemMap[t].item, outcome.sent.body)
      => outcome.code = "0"

\* No provider ever finds an item without a parser: the topic of the MQTT client
\* depends on what is only published once all parsers are registered, and so do
\* the scripts (parser_init.cc, mqtt.cc:95-97).
AlwaysRegistered == outcome # None => outcome.code # "ENODEV"

\* Every Assert of the test providers holds, however late their sleeps end, by less
\* than an LED has to wait.
ScriptAsExpected == outcome # None /\ outcome.expected # None => outcome.code = outcome.expected
=============================================================================

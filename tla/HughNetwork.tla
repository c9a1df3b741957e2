---------------------------- MODULE HughNetwork ----------------------------
(***************************************************************************)
(* What the two versions of Hugh the Lightbulb share: the thread that      *)
(* keeps the device subscribed to its topic, run() of the second version,  *)
(* line by line hugh() of the first from the first attempt to connect on,  *)
(* and the MQTT service it talks to.  The status LEDs 0 to 4 tell how far  *)
(* the thread is.  The modules HughV1 and HughV2 add the callback, the     *)
(* thread of the display and the controller.                               *)
(***************************************************************************)
EXTENDS Naturals, Sequences, FiniteSets

CONSTANTS
  Suffixes,      \* the random suffixes of topics
  Colours,       \* colours of the LED
  MaxFailures,   \* bound: times that NTP, connect or subscribe fails, or a connection is lost
  MaxPresses,    \* bound: presses of what injects a fault
  MaxMessages,   \* bound: messages that the service passes on
  None

ASSUME NetworkAssumption ==
  /\ {MaxFailures, MaxPresses, MaxMessages} \subseteq Nat
  /\ None \notin Suffixes \cup Colours

VARIABLES
  net,            \* where the thread is
  leds,           \* the status LEDs that are on
  rgb,            \* the colour of RGB LED 0, None when off
  topic,          \* the suffix of the topic of this device
  handles,        \* connections allocated with the MQTT quota and not freed
  connection,     \* "none", "open" or "lost", which the thread has yet to notice
  subscription,   \* MQTT service: the topic of the connection, or None
  inbox,          \* messages on their way to the device
  last,           \* the last of them since the connection was made, or None
  failures, messages

netVars ==
  <<net, leds, rgb, handles, connection, subscription, inbox, last, failures, messages>>

Goto(s) == net' = s
Fails == failures < MaxFailures /\ failures' = failures + 1
link == <<handles, connection, subscription, inbox, last>>

-----------------------------------------------------------------------------
(* The thread *)

StartNetwork ==
  /\ net = "start"
  /\ leds' = {0, 1}
  /\ Goto("ntp")
  /\ UNCHANGED <<rgb, link, failures, messages>>

\* No time yet: another attempt.
NtpFails ==
  /\ net = "ntp"
  /\ Fails
  /\ UNCHANGED <<net, leds, rgb, link, messages>>

NtpSucceeds(next) ==
  /\ net = "ntp"
  /\ leds' = leds \cup {2}
  /\ Goto(next)
  /\ UNCHANGED <<rgb, link, failures, messages>>

\* The head of the loop.
LedsOff ==
  /\ net = "off"
  /\ leds' = leds \ {3, 4}
  /\ Goto("connect")
  /\ UNCHANGED <<rgb, link, failures, messages>>

\* A new connection, with a new client id, so that the service knows of no session.
Connect ==
  /\ net = "connect"
  /\ handles' = handles + 1
  /\ connection' = "open" /\ subscription' = None /\ inbox' = <<>> /\ last' = None
  /\ leds' = leds \cup {3}
  /\ Goto("subscribe")
  /\ UNCHANGED <<rgb, failures, messages>>

\* LED 3 is switched on before the handle is looked at.
ConnectFails ==
  /\ net = "connect"
  /\ Fails
  /\ leds' = leds \cup {3}
  /\ Goto("off")
  /\ UNCHANGED <<rgb, link, messages>>

\* The message is sent; mqtt_run waits for the acknowledgement.  Nothing says
\* so when the connection is already lost.
Subscribe ==
  /\ net = "subscribe"
  /\ subscription' = IF connection = "open" THEN topic ELSE None
  /\ leds' = leds \cup {4}
  /\ Goto("run")
  /\ UNCHANGED <<rgb, handles, connection, inbox, last, failures, messages>>

\* Mutant: the connection is given up without freeing it.
SubscribeFailsLeaking ==
  /\ net = "subscribe"
  /\ Fails \/ (connection = "lost" /\ UNCHANGED failures)
  /\ Goto("off")
  /\ UNCHANGED <<leds, rgb, link, messages>>

SubscribeFails ==
  /\ net = "subscribe"
  /\ Fails \/ (connection = "lost" /\ UNCHANGED failures)
  /\ Goto("disconnect")
  /\ UNCHANGED <<leds, rgb, link, messages>>

\* Mutants: the LEDs stay on; the loop goes on with the lost connection.
RunFailsLit ==
  /\ net = "run" /\ connection = "lost"
  /\ Goto("disconnect")
  /\ UNCHANGED <<leds, rgb, link, failures, messages>>
RunFailsIgnored ==
  /\ net = "run" /\ connection = "lost"
  /\ UNCHANGED netVars

\* mqtt_run finds the connection lost, whatever is left in the inbox.
RunFails ==
  /\ net = "run" /\ connection = "lost"
  /\ leds' = leds \ {3, 4}
  /\ Goto("disconnect")
  /\ UNCHANGED <<rgb, link, failures, messages>>

Disconnect ==
  /\ net = "disconnect"
  /\ handles' = handles - 1
  /\ connection' = "none" /\ subscription' = None /\ inbox' = <<>> /\ last' = None
  /\ Goto("off")
  /\ UNCHANGED <<leds, rgb, failures, messages>>

\* The loop, without the callback that mqtt_run calls.
Loop ==
  \/ LedsOff \/ Connect \/ ConnectFails \/ Subscribe \/ SubscribeFails \/ RunFails \/ Disconnect

-----------------------------------------------------------------------------
(* The network and the service *)

\* The end of an open connection: nothing more is sent to the device.
Break ==
  /\ connection' = IF connection = "open" THEN "lost" ELSE connection
  /\ subscription' = None

\* The network or the service ends the connection.
Lose ==
  /\ connection = "open"
  /\ Fails
  /\ Break
  /\ UNCHANGED <<net, leds, rgb, handles, inbox, last, messages>>

\* The service passes a message on to the device, once or again if the sender
\* repeats it (QoS 1).  One that the device is not subscribed to is dropped and
\* changes nothing.
Publish(m) ==
  /\ m.topic = subscription
  /\ \E n \in {1, 2} :
       /\ messages + n <= MaxMessages
       /\ messages' = messages + n
       /\ inbox' = inbox \o [i \in 1 .. n |-> m]
  /\ last' = m
  /\ UNCHANGED <<net, leds, rgb, handles, connection, subscription, failures>>

NetInit ==
  /\ net = "start"
  /\ leds = {} /\ rgb = None
  /\ handles = 0 /\ connection = "none"
  /\ subscription = None /\ inbox = <<>> /\ last = None
  /\ failures = 0 /\ messages = 0

-----------------------------------------------------------------------------
(* Properties *)

NetTypeOK ==
  /\ leds \subseteq {0, 1, 2, 3, 4, 7}
  /\ rgb \in Colours \cup {None}
  /\ handles \in Nat /\ connection \in {"none", "open", "lost"}
  /\ Len(inbox) <= messages
  /\ failures \in 0 .. MaxFailures /\ messages \in 0 .. MaxMessages

\* The status LEDs tell the truth: LED 4 is on only while there is a connection,
\* which the service knows to be subscribed to the topic of the device until it
\* is lost, and then the LEDs below it are on as well (V2 mqtt.cc:229-240).
LedsTruthful ==
  4 \in leds =>
    /\ {0, 1, 2, 3} \subseteq leds
    /\ connection # "none"
    /\ connection = "open" => subscription = topic

\* On every path back to mqtt_connect the last connection has been freed, so a
\* device that keeps losing its connection does not run out of its quota
\* (V2 mqtt.cc:59, 205-243).
OneConnection == handles = IF connection = "none" THEN 0 ELSE 1

\* The device is connected and subscribed to its topic, with nothing left to receive.
Back ==
  /\ {3, 4} \subseteq leds
  /\ connection = "open" /\ subscription \in Suffixes /\ subscription = topic
  /\ inbox = <<>>
=============================================================================

------------------------------- MODULE HughV1 -------------------------------
(***************************************************************************)
(* Hugh the Lightbulb, first version: one compartment with a network       *)
(* thread and a thread of the display that makes the topic, which the      *)
(* first waits for at a barrier.  The topic is shown as text, typed into   *)
(* the controller and not a secret; colours are sent as they are.          *)
(***************************************************************************)
EXTENDS HughNetwork

CONSTANT Partial   \* a topic that is not complete: the prefix and part of the suffix

\* What has to hold of it.
PartialOK == Partial \notin Suffixes \cup {None}

VARIABLES
  barrier,           \* 1 once the topic is complete
  graphs,            \* where the display thread is
  lastSwitchValue, faults,
  switch, presses,   \* the user: the switch that injects a fault, how often it was turned on
  name               \* controller: MQTTName, a complete suffix or one being typed, or None

display == <<topic, barrier, graphs, lastSwitchValue, faults>>
user == <<switch, presses, name>>
vars == <<netVars, display, user>>

\* Messages: a colour, or None for what is shorter than one.
Messages == [topic : Suffixes, colour : Colours \cup {None}]

-----------------------------------------------------------------------------
(* The network thread *)

\* Mutant: the thread does not wait.
NoBarrier ==
  /\ net = "barrier"
  /\ Goto("off")
  /\ UNCHANGED <<leds, rgb, link, failures, messages, display, user>>

\* barrier.wait(0) compares and goes to sleep in one step.
Barrier ==
  /\ net = "barrier"
  /\ Goto(IF barrier = 0 THEN "asleep" ELSE "off")
  /\ UNCHANGED <<leds, rgb, link, failures, messages, display, user>>

Network ==
  /\ StartNetwork \/ NtpFails \/ NtpSucceeds("barrier") \/ Loop
  /\ UNCHANGED <<display, user>>

\* publishCallback: another topic and a message too short are ignored.
Receive ==
  /\ net = "run" /\ inbox # <<>>
  /\ inbox' = Tail(inbox)
  /\ rgb' = IF Head(inbox).topic = topic /\ Head(inbox).colour # None
            THEN Head(inbox).colour ELSE rgb
  /\ UNCHANGED <<net, leds, handles, connection, subscription, last, failures, messages>>
  /\ UNCHANGED <<display, user>>

NetStep == Barrier \/ Network \/ Receive

-----------------------------------------------------------------------------
(* The display thread *)

\* The topic is built in place: the prefix, then the letters of the suffix.
BuildPrefix ==
  /\ graphs = "start"
  /\ topic' = Partial
  /\ graphs' = "suffix"
  /\ UNCHANGED <<netVars, barrier, lastSwitchValue, faults, user>>

BuildSuffix ==
  /\ graphs = "suffix"
  /\ topic' \in Suffixes
  /\ graphs' = "store"
  /\ UNCHANGED <<netVars, barrier, lastSwitchValue, faults, user>>

Store ==
  /\ graphs = "store"
  /\ barrier' = 1
  /\ graphs' = "notify"
  /\ UNCHANGED <<netVars, topic, lastSwitchValue, faults, user>>

Notify ==
  /\ graphs = "notify"
  /\ net' = IF net = "asleep" THEN "barrier" ELSE net
  /\ graphs' = "loop"
  /\ UNCHANGED <<leds, rgb, link, failures, messages, topic, barrier, lastSwitchValue, faults, user>>

\* One turn of the loop: a switch that is seen to be turned on injects a fault.
Poll ==
  /\ graphs = "loop"
  /\ lastSwitchValue' = switch
  /\ IF switch /\ ~lastSwitchValue
     THEN faults' = faults + 1 /\ Break
     ELSE UNCHANGED <<faults, connection, subscription>>
  /\ UNCHANGED <<net, leds, rgb, handles, inbox, last, failures, messages, topic, barrier, graphs, user>>

DisplayStep == BuildPrefix \/ BuildSuffix \/ Store \/ Notify \/ Poll

-----------------------------------------------------------------------------
(* The user, the controller, other clients, and the network *)

Turn ==
  /\ \/ ~switch /\ presses < MaxPresses /\ switch' = TRUE /\ presses' = presses + 1
     \/ switch /\ switch' = FALSE /\ UNCHANGED presses
  /\ UNCHANGED <<netVars, display, name>>

\* afterTextChanged, after every letter.
Type ==
  /\ name' \in (Suffixes \cup {Partial}) \ {name}
  /\ UNCHANGED <<netVars, display, switch, presses>>

\* onColorSelected publishes to the topic named, whether or not it is complete;
\* without a name to that of the word "null".
Select(colour) ==
  /\ name # None
  /\ Publish([topic |-> name, colour |-> colour])
  /\ UNCHANGED <<display, user>>

\* Another client publishes what is no colour.
Noise ==
  /\ \E m \in Messages : m.colour = None /\ Publish(m)
  /\ UNCHANGED <<display, user>>

Loses == Lose /\ UNCHANGED <<display, user>>

-----------------------------------------------------------------------------

Init ==
  /\ NetInit
  /\ topic = None /\ barrier = 0 /\ graphs = "start"
  /\ lastSwitchValue = FALSE /\ faults = 0
  /\ switch = FALSE /\ presses = 0 /\ name = None

Next ==
  \/ NetStep \/ DisplayStep \/ Turn \/ Type \/ Noise \/ Loses
  \/ \E colour \in Colours : Select(colour)

\* Both threads are scheduled.
Fairness == WF_vars(NetStep) /\ WF_vars(DisplayStep)
FairSpec == Init /\ [][Next]_vars /\ Fairness

-----------------------------------------------------------------------------
(* Properties *)

\* Type invariant.
TypeOK ==
  /\ NetTypeOK
  /\ net \in {"start", "ntp", "barrier", "asleep", "off", "connect", "subscribe", "run", "disconnect"}
  /\ {topic, name} \subseteq Suffixes \cup {None, Partial}
  /\ barrier \in {0, 1} /\ graphs \in {"start", "suffix", "store", "notify", "loop"}
  /\ {lastSwitchValue, switch} \subseteq BOOLEAN
  /\ presses \in 0 .. MaxPresses
  /\ faults \in 0 .. presses   \* every fault is due to a press of its own
  /\ inbox \in Seq(Messages) /\ last \in Messages \cup {None}

\* The network thread never subscribes to a topic that the other thread is still
\* building, nor compares a message with one (mqtt.cc:117-120, 206-220).
TopicComplete ==
  /\ subscription \in Suffixes \cup {None}
  /\ net \in {"subscribe", "run"} => topic \in Suffixes
=============================================================================

---------------------------- MODULE HughV1Proofs ----------------------------
(***************************************************************************)
(* Proofs about the first version of Hugh the Lightbulb, for any topics,   *)
(* colours, messages, faults and failures of the network.  All that is     *)
(* assumed of a topic that is not complete is that it is not a complete    *)
(* one.                                                                    *)
(***************************************************************************)
EXTENDS HughV1, TLAPS

-----------------------------------------------------------------------------
(* The inductive invariant *)

\* The thread has a connection from mqtt_connect to mqtt_disconnect, and what
\* the LEDs say of it depends on how far it is.
Before == {"start", "ntp", "barrier", "asleep", "off", "connect"}
Position ==
  /\ net \in Before \cup {"subscribe", "run", "disconnect"}
  /\ net \in Before <=> connection = "none"
  /\ net = "start" => leds = {}
  /\ net # "start" => 0 \in leds /\ 1 \in leds
  /\ net \notin {"start", "ntp"} => 2 \in leds
  /\ net \in {"subscribe", "run"} => 3 \in leds
  /\ 4 \in leds => net = "run"

\* The service knows of no other topic than that of the device, and of that one
\* as long as the connection is open.
Subscribed ==
  /\ subscription \in {None, topic}
  /\ net = "run" /\ connection = "open" => subscription = topic
  /\ connection = "none" => subscription = None

\* The barrier is down until the topic is complete, and the thread does not get
\* past it before; the topic does not change any more then.
Building ==
  /\ graphs = "start" => topic = None
  /\ graphs = "suffix" => topic = Partial
  /\ graphs \in {"store", "notify", "loop"} => topic \in Suffixes
  /\ barrier = IF graphs \in {"notify", "loop"} THEN 1 ELSE 0
Waits == barrier = 0 => net \in {"start", "ntp", "barrier", "asleep"}

\* A press that the display has yet to see will be one fault.
PressesSeen == faults + (IF switch /\ ~lastSwitchValue THEN 1 ELSE 0) <= presses

\* The types of the thread and the service, and of the rest.
LinkTypes ==
  /\ NetTypeOK
  /\ inbox \in Seq(Messages) /\ last \in Messages \cup {None}
DisplayTypes == graphs \in {"start", "suffix", "store", "notify", "loop"}
UserTypes ==
  /\ name \in Suffixes \cup {None, Partial}
  /\ lastSwitchValue \in BOOLEAN /\ switch \in BOOLEAN
  /\ presses \in 0 .. MaxPresses /\ faults \in Nat

LinkOK == LinkTypes /\ OneConnection /\ Position /\ Subscribed
TopicOK == DisplayTypes /\ Building /\ Waits
UserOK == UserTypes /\ PressesSeen
Inv == LinkOK /\ TopicOK /\ UserOK

-----------------------------------------------------------------------------
(* The network thread *)

\* A step of the thread, without the barrier and the callback.
LEMMA NetworkInv ==
  ASSUME Inv, Network
  PROVE  Inv'
<1>1. LinkOK /\ TopicOK /\ UserOK /\ UNCHANGED <<display, user>>
  BY DEF Inv, Network
<1>2. TopicOK' /\ UserOK' /\ topic' = topic
  <2>1. Waits'
    BY <1>1
       DEF TopicOK, Waits, display, Network, StartNetwork, NtpFails, NtpSucceeds, Loop, LedsOff, Connect,
           ConnectFails, Subscribe, SubscribeFails, RunFails, Disconnect, Goto
  <2> QED
    BY <1>1, <2>1
       DEF TopicOK, DisplayTypes, Building, UserOK, UserTypes, PressesSeen, display, user
<1>3. LinkOK'
  <2> USE <1>1, <1>2, NetworkAssumption
      DEF LinkOK, LinkTypes, NetTypeOK, OneConnection, Position, Before, Subscribed, Goto, Fails, link
  <2>1. CASE StartNetwork
    <3>1. leds' = {0, 1}
      BY <2>1 DEF StartNetwork
    <3>2. 0 \in leds' /\ 1 \in leds' /\ 4 \notin leds' /\ leds' \subseteq {0, 1, 2, 3, 4, 7}
      BY <3>1
    <3> QED
      BY <2>1, <3>2 DEF StartNetwork
  <2>2. CASE NtpFails
    BY <2>2 DEF NtpFails
  <2>3. CASE NtpSucceeds("barrier")
    <3>1. /\ leds' = leds \cup {2} /\ net = "ntp" /\ net' = "barrier"
          /\ UNCHANGED <<rgb, link, failures, messages>>
      BY <2>3 DEF NtpSucceeds
    <3> QED
      BY <3>1
  <2>4. CASE LedsOff
    BY <2>4 DEF LedsOff
  <2>5. CASE Connect
    BY <2>5 DEF Connect
  <2>6. CASE ConnectFails
    BY <2>6 DEF ConnectFails
  <2>7. CASE Subscribe
    BY <2>7 DEF Subscribe
  <2>8. CASE SubscribeFails
    BY <2>8 DEF SubscribeFails
  <2>9. CASE RunFails
    BY <2>9 DEF RunFails
  <2>10. CASE Disconnect
    BY <2>10 DEF Disconnect
  <2> QED
    BY <2>1, <2>2, <2>3, <2>4, <2>5, <2>6, <2>7, <2>8, <2>9, <2>10 DEF Network, Loop
<1> QED
  BY <1>2, <1>3 DEF Inv

\* The barrier lets the thread pass once the topic is complete.
LEMMA BarrierInv ==
  ASSUME Inv, Barrier
  PROVE  Inv'
<1>1. LinkOK /\ TopicOK /\ UserOK /\ UNCHANGED <<display, user>>
  BY DEF Inv, Barrier
<1>2. TopicOK' /\ UserOK'
  BY <1>1 DEF TopicOK, DisplayTypes, Building, Waits, UserOK, UserTypes, PressesSeen, display, user, Barrier, Goto
<1>3. LinkOK'
  BY <1>1
     DEF LinkOK, LinkTypes, NetTypeOK, OneConnection, Position, Before, Subscribed, display, Barrier, Goto, link
<1> QED
  BY <1>2, <1>3 DEF Inv

\* The callback takes the first message.
LEMMA ReceiveInv ==
  ASSUME Inv, Receive
  PROVE  Inv'
<1>1. LinkOK /\ TopicOK /\ UserOK /\ UNCHANGED <<display, user>>
  BY DEF Inv, Receive
<1>2. TopicOK' /\ UserOK'
  BY <1>1 DEF TopicOK, DisplayTypes, Building, Waits, UserOK, UserTypes, PressesSeen, display, user, Receive
<1>3. inbox' \in Seq(Messages) /\ Len(inbox') <= messages'
  <2>1. inbox \in Seq(Messages) /\ inbox # <<>> /\ Len(inbox) <= messages /\ messages \in Nat
    BY <1>1, NetworkAssumption DEF LinkOK, LinkTypes, NetTypeOK, Receive
  <2>2. Tail(inbox) \in Seq(Messages) /\ Len(Tail(inbox)) = Len(inbox) - 1 /\ Len(inbox) \in Nat
    BY <2>1
  <2> QED
    BY <2>1, <2>2 DEF Receive
<1>4. rgb' \in Colours \cup {None}
  <2>1. Head(inbox) \in Messages
    BY <1>1 DEF LinkOK, LinkTypes, Receive
  <2> QED
    BY <1>1, <2>1 DEF LinkOK, LinkTypes, NetTypeOK, Receive, Messages
<1>5. LinkOK'
  BY <1>1, <1>3, <1>4
     DEF LinkOK, LinkTypes, NetTypeOK, OneConnection, Position, Before, Subscribed, display, Receive
<1> QED
  BY <1>2, <1>5 DEF Inv

-----------------------------------------------------------------------------
(* The display thread *)

\* The thread waits while the topic is built.
LEMMA BuildInv ==
  ASSUME Inv, BuildPrefix \/ BuildSuffix \/ Store
  PROVE  Inv'
<1>1. LinkOK /\ TopicOK /\ UserOK /\ UNCHANGED <<netVars, lastSwitchValue, faults, user>>
  BY DEF Inv, BuildPrefix, BuildSuffix, Store
<1>2. UserOK'
  BY <1>1 DEF UserOK, UserTypes, PressesSeen, user
<1>3. TopicOK'
  BY <1>1 DEF TopicOK, DisplayTypes, Building, Waits, netVars, BuildPrefix, BuildSuffix, Store
<1>4. connection = "none" /\ subscription = None
  BY <1>1
     DEF TopicOK, DisplayTypes, Building, Waits, LinkOK, Position, Before, Subscribed, BuildPrefix, BuildSuffix,
         Store
<1>5. LinkOK'
  BY <1>1, <1>4
     DEF LinkOK, LinkTypes, NetTypeOK, OneConnection, Position, Before, Subscribed, netVars
<1> QED
  BY <1>2, <1>3, <1>5 DEF Inv

\* Who sleeps at the barrier looks at it again.
LEMMA NotifyInv ==
  ASSUME Inv, Notify
  PROVE  Inv'
<1>1. /\ LinkOK /\ TopicOK /\ UserOK
      /\ UNCHANGED <<leds, rgb, link, failures, messages, topic, barrier, lastSwitchValue, faults, user>>
  BY DEF Inv, Notify
<1>2. TopicOK' /\ UserOK'
  BY <1>1 DEF TopicOK, DisplayTypes, Building, Waits, UserOK, UserTypes, PressesSeen, user, Notify
<1>3. LinkOK'
  BY <1>1 DEF LinkOK, LinkTypes, NetTypeOK, OneConnection, Position, Before, Subscribed, Notify, link
<1> QED
  BY <1>2, <1>3 DEF Inv

\* The end of a connection, injected or not, leaves what is on its way.
LEMMA BreakInv ==
  ASSUME LinkOK, Break, failures' \in 0 .. MaxFailures,
         UNCHANGED <<net, leds, rgb, topic, handles, inbox, last, messages>>
  PROVE  LinkOK'
BY DEF Break, LinkOK, LinkTypes, NetTypeOK, OneConnection, Position, Before, Subscribed

\* A press is seen once.
LEMMA PollInv ==
  ASSUME Inv, Poll
  PROVE  Inv'
<1>1. /\ LinkOK /\ TopicOK /\ UserOK
      /\ UNCHANGED <<net, leds, rgb, handles, inbox, last, failures, messages, topic, barrier, graphs, user>>
  BY DEF Inv, Poll
<1>2. TopicOK'
  BY <1>1 DEF TopicOK, DisplayTypes, Building, Waits
<1>3. UserOK'
  BY <1>1, NetworkAssumption DEF UserOK, UserTypes, PressesSeen, user, Poll
<1>4. LinkOK'
  <2>1. CASE UNCHANGED <<connection, subscription>>
    BY <1>1, <2>1 DEF LinkOK, LinkTypes, NetTypeOK, OneConnection, Position, Before, Subscribed
  <2>2. CASE Break
    BY <1>1, <2>2, BreakInv DEF LinkOK, LinkTypes, NetTypeOK
  <2> QED
    BY <2>1, <2>2 DEF Poll
<1> QED
  BY <1>2, <1>3, <1>4 DEF Inv

-----------------------------------------------------------------------------
(* The user, the controller and the network *)

\* What the user does reaches the device with the next turn of its loop.
LEMMA UserInv ==
  ASSUME Inv, Turn \/ Type
  PROVE  Inv'
<1>1. LinkOK /\ TopicOK /\ UserOK /\ UNCHANGED <<netVars, display>>
  BY DEF Inv, Turn, Type
<1>2. LinkOK' /\ TopicOK'
  BY <1>1
     DEF LinkOK, LinkTypes, NetTypeOK, OneConnection, Position, Before, Subscribed, TopicOK, DisplayTypes,
         Building, Waits, netVars, display
<1>3. UserOK'
  <2>1. CASE Turn
    <3>1. /\ presses \in Nat /\ presses \in 0 .. MaxPresses /\ faults \in Nat /\ MaxPresses \in Nat
          /\ UNCHANGED <<lastSwitchValue, faults, name>>
      BY <1>1, <2>1, NetworkAssumption DEF UserOK, UserTypes, display, Turn
    <3>2. CASE ~switch /\ presses < MaxPresses /\ switch' = TRUE /\ presses' = presses + 1
      <4>1. faults + 0 <= presses
        BY <1>1, <3>2 DEF UserOK, PressesSeen
      <4>2. presses' \in 0 .. MaxPresses /\ faults + 1 <= presses' /\ faults + 0 <= presses'
        BY <3>1, <3>2, <4>1
      <4> QED
        BY <1>1, <3>1, <3>2, <4>2 DEF UserOK, UserTypes, PressesSeen
    <3>3. CASE switch' = FALSE /\ UNCHANGED presses
      <4>1. faults + 0 <= presses
        BY <1>1, <3>1 DEF UserOK, PressesSeen
      <4> QED
        BY <1>1, <3>1, <3>3, <4>1 DEF UserOK, UserTypes, PressesSeen
    <3> QED
      BY <2>1, <3>2, <3>3 DEF Turn
  <2>2. CASE Type
    BY <1>1, <2>2 DEF UserOK, UserTypes, PressesSeen, display, Type
  <2> QED
    BY <2>1, <2>2
<1> QED
  BY <1>2, <1>3 DEF Inv

\* What the service passes on has the topic of the device.
LEMMA PublishInv ==
  ASSUME Inv, NEW m, m.topic \in Suffixes => m \in Messages, Publish(m), m.topic # None, PartialOK,
         UNCHANGED <<display, user>>
  PROVE  Inv'
<1>1. LinkOK /\ TopicOK /\ UserOK
  BY DEF Inv
<1>2. TopicOK' /\ UserOK'
  BY <1>1 DEF TopicOK, DisplayTypes, Building, Waits, UserOK, UserTypes, PressesSeen, display, user, Publish
<1>3. m \in Messages
  <2>1. m.topic = topic /\ connection # "none"
    BY <1>1 DEF LinkOK, Subscribed, Publish
  <2>2. topic \in Suffixes
    BY <1>1, <2>1 DEF LinkOK, Position, Before, TopicOK, DisplayTypes, Building, Waits
  <2> QED
    BY <2>1, <2>2
<1>4. PICK n \in {1, 2} : /\ messages + n <= MaxMessages /\ messages' = messages + n
                          /\ inbox' = inbox \o [i \in 1 .. n |-> m]
  BY DEF Publish
<1>5. inbox \in Seq(Messages) /\ Len(inbox) \in Nat /\ Len(inbox) <= messages /\ messages \in Nat
  BY <1>1, NetworkAssumption DEF LinkOK, LinkTypes, NetTypeOK
<1>6. inbox' \in Seq(Messages) /\ Len(inbox') = Len(inbox) + n
  <2> DEFINE r == [i \in 1 .. n |-> m]
  <2>1. r \in Seq(Messages) /\ Len(r) = n
    BY <1>3
  <2>2. inbox' = inbox \o r
    BY <1>4
  <2> HIDE DEF r
  <2> QED
    BY <1>5, <2>1, <2>2
<1>7. Len(inbox') <= messages' /\ messages' \in 0 .. MaxMessages
  BY <1>4, <1>5, <1>6, NetworkAssumption
<1>8. LinkOK'
  BY <1>1, <1>3, <1>6, <1>7
     DEF LinkOK, LinkTypes, NetTypeOK, OneConnection, Position, Before, Subscribed, display, Publish
<1> QED
  BY <1>2, <1>8 DEF Inv

LEMMA SelectInv ==
  ASSUME Inv, PartialOK, NEW colour \in Colours, Select(colour)
  PROVE  Inv'
<1> DEFINE m == [topic |-> name, colour |-> colour]
<1>1. /\ m.topic \in Suffixes => m \in Messages
      /\ m.topic # None
  BY DEF Messages, Select
<1>2. Publish(m) /\ UNCHANGED <<display, user>>
  BY DEF Select
<1> HIDE DEF m
<1> QED
  BY <1>1, <1>2, PublishInv

LEMMA NoiseInv ==
  ASSUME Inv, PartialOK, Noise
  PROVE  Inv'
<1>1. PICK m \in Messages : m.colour = None /\ Publish(m)
  BY DEF Noise
<1>2. m.topic # None
  BY NetworkAssumption DEF Messages
<1> QED
  BY <1>1, <1>2, PublishInv DEF Noise

LEMMA LosesInv ==
  ASSUME Inv, Loses
  PROVE  Inv'
<1>1. /\ LinkOK /\ TopicOK /\ UserOK
      /\ UNCHANGED <<net, leds, rgb, handles, inbox, last, messages, display, user>>
  BY DEF Inv, Loses, Lose
<1>2. TopicOK' /\ UserOK'
  BY <1>1 DEF TopicOK, DisplayTypes, Building, Waits, UserOK, UserTypes, PressesSeen, display, user
<1>3. Break /\ failures' \in 0 .. MaxFailures /\ topic' = topic
  BY <1>1, NetworkAssumption DEF Loses, Lose, Fails, LinkOK, LinkTypes, NetTypeOK, display
<1> QED
  BY <1>1, <1>2, <1>3, BreakInv DEF Inv

-----------------------------------------------------------------------------
(* The invariant is inductive *)

LEMMA InitInv ==
  ASSUME Init
  PROVE  Inv
<1> USE DEF Init, NetInit
<1>1. LinkOK
  BY NetworkAssumption DEF LinkOK, LinkTypes, NetTypeOK, OneConnection, Position, Before, Subscribed
<1>2. TopicOK
  BY DEF TopicOK, DisplayTypes, Building, Waits
<1>3. UserOK
  <2>1. 0 \in 0 .. MaxPresses /\ 0 + 0 <= 0
    BY NetworkAssumption
  <2>2. switch = FALSE /\ ~(switch /\ ~lastSwitchValue)
    OBVIOUS
  <2> QED
    BY <2>1, <2>2 DEF UserOK, UserTypes, PressesSeen
<1> QED
  BY <1>1, <1>2, <1>3 DEF Inv

LEMMA NextInv ==
  ASSUME PartialOK, Inv, [Next]_vars
  PROVE  Inv'
<1>1. CASE NetStep
  BY <1>1, NetworkInv, BarrierInv, ReceiveInv DEF NetStep
<1>2. CASE DisplayStep
  BY <1>2, BuildInv, NotifyInv, PollInv DEF DisplayStep
<1>3. CASE Turn \/ Type
  BY <1>3, UserInv
<1>4. CASE Noise
  BY <1>4, NoiseInv
<1>5. CASE Loses
  BY <1>5, LosesInv
<1>6. ASSUME NEW colour \in Colours, Select(colour) PROVE Inv'
  BY <1>6, SelectInv
<1>7. CASE UNCHANGED vars
  BY <1>7
     DEF vars, display, user, netVars, Inv, LinkOK, LinkTypes, NetTypeOK, OneConnection, Position, Before, Subscribed,
         TopicOK, DisplayTypes, Building, Waits, UserOK, UserTypes, PressesSeen
<1> QED
  BY <1>1, <1>2, <1>3, <1>4, <1>5, <1>6, <1>7 DEF Next

\* What the runs check of the first version follows.
LEMMA InvImplies ==
  ASSUME PartialOK, Inv
  PROVE  TypeOK /\ TopicComplete /\ LedsTruthful /\ OneConnection
<1>1. LinkOK /\ TopicOK /\ UserOK
  BY DEF Inv
<1>2. TypeOK
  <2>1. faults \in 0 .. presses
    BY <1>1, NetworkAssumption DEF UserOK, UserTypes, PressesSeen
  <2>2. topic \in Suffixes \cup {None, Partial} /\ barrier \in {0, 1}
    BY <1>1 DEF TopicOK, DisplayTypes, Building
  <2>3. {topic, name} \subseteq Suffixes \cup {None, Partial} /\ {lastSwitchValue, switch} \subseteq BOOLEAN
    BY <1>1, <2>2 DEF UserOK, UserTypes
  <2> QED
    BY <1>1, <2>1, <2>2, <2>3
       DEF TypeOK, LinkOK, LinkTypes, Position, Before, TopicOK, DisplayTypes, UserOK, UserTypes
<1>3. TopicComplete
  BY <1>1 DEF TopicComplete, TopicOK, DisplayTypes, Building, Waits, LinkOK, Position, Before, Subscribed
<1>4. LedsTruthful
  BY <1>1 DEF LedsTruthful, LinkOK, Position, Before, Subscribed
<1> QED
  BY <1>1, <1>2, <1>3, <1>4 DEF LinkOK

\* The invariant holds of any topics, colours, messages, faults and failures.
THEOREM FirstLampInductive ==
  ASSUME PartialOK
  PROVE  FairSpec => []Inv
<1>1. Init => Inv
  BY InitInv
<1>2. Inv /\ [Next]_vars => Inv'
  BY NextInv
<1> QED
  BY <1>1, <1>2, PTL DEF FairSpec

\* The network thread subscribes to, and compares messages with, a complete topic
\* only (mqtt.cc:117-120, 206-220).
THEOREM TopicIsComplete ==
  ASSUME PartialOK
  PROVE  FairSpec => []TopicComplete
<1>1. Inv => TopicComplete
  BY InvImplies
<1> QED
  BY <1>1, FirstLampInductive, PTL
=============================================================================

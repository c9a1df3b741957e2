----------------------------- MODULE HughProofs -----------------------------
(***************************************************************************)
(* Proofs about the second version of Hugh the Lightbulb, for any topics,  *)
(* keys, colours, messages, faults and failures of the network, and any    *)
(* sequence of scans, interruptions and restores of the controller.  At    *)
(* the end those of HughV1Proofs are put to use for whichever version      *)
(* MCHugh runs.                                                            *)
(***************************************************************************)
EXTENDS MCHugh, TLAPS

-----------------------------------------------------------------------------
(* The inductive invariant *)

\* The thread has a connection from mqtt_connect to mqtt_disconnect, and what
\* the LEDs say of it depends on how far it is.
Before == {"start", "ntp", "off", "connect"}
Receiving == {"run", "decrypt"}
Position ==
  /\ net \in Before \cup Receiving \cup {"subscribe", "disconnect"}
  /\ net \in Before <=> connection = "none"
  /\ net = "start" => leds = {}
  /\ net # "start" => 0 \in leds /\ 1 \in leds
  /\ net \notin {"start", "ntp"} => 2 \in leds
  /\ net = "subscribe" => 3 \in leds
  /\ net \in Receiving => 3 \in leds
  /\ 4 \in leds => net \in Receiving

\* The service knows of no other topic than that of the device, and of that one
\* as long as the connection is open.
Subscribed ==
  /\ subscription \in {None, topic}
  /\ net \in Receiving => topic # None /\ (connection = "open" => subscription = topic)
  /\ connection = "none" => subscription = None /\ inbox = <<>> /\ last = None

\* Initialisers only run while there is nothing yet, and one for each object.
Lazy ==
  /\ \A i \in initialising : ~Made(i[2])
  /\ \A i, j \in initialising : i[2] = j[2] => i = j

\* The code is complete when the display has got to its loop.
Code ==
  /\ CodeAgrees
  /\ display = "topic" => qr = Unpaired
  /\ display = "key" => topic # None /\ qr.suffix = topic /\ qr.key = None
  /\ display = "loop" => topic # None /\ key # None /\ qr.suffix = topic /\ qr.key = key

\* What the controller knows or has saved with a key is a whole code.
Whole(p) == p.key \in Keys \cup {OtherLamp.key} => p = OtherLamp \/ (p = qr /\ display = "loop")
Paired == Whole(pairing) /\ Whole(bundle)

\* A key of the device is only used once there is one, and then for what was
\* chosen in a controller that has it.
Genuine(m) == m.topic = topic /\ (m.key \in Keys => m.key = key /\ m.colour \in chosen)
Mail ==
  /\ \A i \in 1 .. Len(inbox) : Genuine(inbox[i])
  /\ last # None => Genuine(last)
  /\ inbox # <<>> => inbox[Len(inbox)] = last
  /\ net = "decrypt" => inbox # <<>>

\* A press that the display has yet to see will be one fault.
PressesSeen == faults + (IF button /\ ~lastButtonValue THEN 1 ELSE 0) <= presses

\* The types of the thread and the service, of the rest, and the parts.
LinkTypes ==
  /\ NetTypeOK
  /\ inbox \in Seq(Messages) /\ last \in Messages \cup {None}
OtherTypes ==
  /\ topic \in Suffixes \cup {None} /\ key \in Keys \cup {None}
  /\ initialising \subseteq {"net", "display"} \X {"topic", "key"}
  /\ display \in {"topic", "key", "loop"} /\ qr \in Pairings
  /\ showQRCode \in BOOLEAN /\ lastButtonValue \in BOOLEAN
  /\ switch \in BOOLEAN /\ button \in BOOLEAN /\ alive \in BOOLEAN
  /\ presses \in 0 .. MaxPresses /\ faults \in 0 .. presses
  /\ pairing \in Pairings /\ bundle \in Pairings
  /\ activity \in {"front", "away"} /\ chosen \subseteq Colours
LinkOK == LinkTypes /\ OneConnection /\ Position /\ Subscribed
MailOK == Mail /\ OnlyChosen /\ ShowsLast
Inv == LinkOK /\ OtherTypes /\ MailOK /\ Lazy /\ Code /\ Paired /\ PressesSeen

LEMMA InvTypes == Inv => TypeOK
BY DEF Inv, TypeOK, LinkOK, LinkTypes, OtherTypes, Position, Before, Receiving

LEMMA InvInit ==
  ASSUME Init
  PROVE  Inv
<1> USE DEF Init, NetInit, Unpaired
<1>1. LinkOK
  BY NetworkAssumption DEF LinkOK, LinkTypes, NetTypeOK, OneConnection, Position, Before, Receiving, Subscribed
<1>5. Unpaired \in Pairings
  BY DEF Pairings
<1>2. OtherTypes
  <2>1. 0 \in 0 .. MaxPresses /\ 0 \in 0 .. 0
    BY NetworkAssumption
  <2> HIDE DEF Unpaired
  <2> QED
    BY <1>5, <2>1 DEF OtherTypes
<1>3. MailOK /\ Lazy /\ Code /\ PressesSeen
  BY DEF MailOK, Mail, OnlyChosen, ShowsLast, Lazy, Code, CodeAgrees, PressesSeen
<1>4. Paired
  BY LampAssumption DEF Paired, Whole
<1> QED
  BY <1>1, <1>2, <1>3, <1>4 DEF Inv

-----------------------------------------------------------------------------
(* The network thread *)

\* Without the callback the thread keeps the messages or loses them all.
LEMMA NetworkLink ==
  ASSUME LinkOK, topic \in Suffixes \cup {None}, Network
  PROVE  /\ LinkOK'
         /\ (inbox' = inbox /\ last' = last) \/ (inbox' = <<>> /\ last' = None)
         /\ rgb' = rgb /\ net' # "decrypt"
         /\ last' # None => (7 \in leds' <=> 7 \in leds)
<1> USE NetworkAssumption
    DEF LinkOK, LinkTypes, NetTypeOK, OneConnection, Position, Before, Receiving, Subscribed,
        Goto, Fails, link, lazy
<1>1. CASE StartNetwork
  <2>1. leds' = {0, 1} /\ 4 \notin leds' /\ 7 \notin leds'
    BY <1>1 DEF StartNetwork
  <2>2. net = "start" /\ last = None /\ last' = None
    BY <1>1 DEF StartNetwork
  <2> QED
    BY <1>1, <2>1, <2>2 DEF StartNetwork, Network
<1>2. CASE NtpFails
  BY <1>2 DEF NtpFails, Network
<1>9. CASE NtpSucceeds("off")
  <2>1. leds' = leds \cup {2} /\ net = "ntp" /\ net' = "off" /\ UNCHANGED <<rgb, link, failures, messages>>
    BY <1>9 DEF NtpSucceeds
  <2>2. 0 \in leds /\ 1 \in leds
    BY <2>1
  <2> QED
    BY <2>1, <2>2, <1>9 DEF Network
<1>10. CASE LedsOff
  BY <1>10 DEF LedsOff, Network
<1>3. CASE Connect
  BY <1>3 DEF Connect, Network
<1>7. CASE ConnectFails
  BY <1>7 DEF ConnectFails, Network
<1>4. CASE Subscribe
  BY <1>4 DEF Subscribe, Network
<1>5. CASE SubscribeFails
  BY <1>5 DEF SubscribeFails, Network
<1>6. CASE RunFails
  BY <1>6 DEF RunFails, Network
<1>8. CASE Disconnect
  BY <1>8 DEF Disconnect, Network
<1> QED
  BY <1>1, <1>2, <1>3, <1>4, <1>5, <1>6, <1>7, <1>8, <1>9, <1>10 DEF Network, Loop

LEMMA NetworkInv ==
  ASSUME Inv, Network
  PROVE  Inv'
<1>1. LinkOK /\ OtherTypes /\ MailOK /\ Lazy /\ Code /\ Paired /\ PressesSeen
  BY DEF Inv
<1>2. UNCHANGED <<lazy, screen, user, controller>>
  BY DEF Network
<1>3. topic \in Suffixes \cup {None}
  BY <1>1 DEF OtherTypes
<1>4. OtherTypes' /\ Lazy' /\ Code' /\ Paired' /\ PressesSeen'
  BY <1>1, <1>2 DEF lazy, screen, user, controller, OtherTypes, Lazy, Made, Code, CodeAgrees, Paired,
                    Whole, PressesSeen
<1>5. LinkOK'
  BY <1>1, <1>3, NetworkLink
<1>6. MailOK'
  BY <1>1, <1>2, <1>3, NetworkLink
     DEF lazy, controller, MailOK, Mail, Genuine, OnlyChosen, ShowsLast
<1> QED
  BY <1>4, <1>5, <1>6 DEF Inv

-----------------------------------------------------------------------------
(* The callback *)

\* The first of a sequence of messages, and the others.
LEMMA FirstAndRest ==
  ASSUME NEW S, NEW s \in Seq(S), s # <<>>
  PROVE  /\ Head(s) = s[1] /\ Head(s) \in S /\ Len(s) \in Nat \ {0}
         /\ Tail(s) \in Seq(S) /\ Len(Tail(s)) = Len(s) - 1
         /\ \A i \in 1 .. Len(Tail(s)) : Tail(s)[i] = s[i + 1]
         /\ Tail(s) = <<>> => Len(s) = 1
         /\ Tail(s) # <<>> => Len(Tail(s)) # 0
<1>1. Len(s) \in Nat \ {0} /\ Head(s) = s[1]
  OBVIOUS
<1>2. Head(s) \in S
  BY <1>1
<1>3. Tail(s) \in Seq(S) /\ Len(Tail(s)) = Len(s) - 1
  BY <1>1
<1>4. \A i \in 1 .. Len(Tail(s)) : Tail(s)[i] = s[i + 1]
  BY <1>1, <1>3
<1>5. Tail(s) = <<>> => Len(s) = 1
  <2>1. Len(<<>>) = 0
    OBVIOUS
  <2>2. Tail(s) = <<>> => Len(Tail(s)) = 0
    BY <2>1
  <2> QED
    BY <1>1, <1>3, <2>2
<1>6. Tail(s) # <<>> => Len(Tail(s)) # 0
  BY <1>3
<1> QED
  BY <1>1, <1>2, <1>3, <1>4, <1>5, <1>6

\* A message is done with: the LEDs tell what became of it.
Done(m) ==
  /\ inbox' = Tail(inbox) /\ UNCHANGED <<lazy, screen, user, controller>>
  /\ UNCHANGED <<handles, connection, subscription, last, failures, messages>>
  /\ net \in Receiving /\ net' = "run"
  /\ \/ m.key # None /\ m.key = key /\ Shine(m.colour)
     \/ ~(m.key # None /\ m.key = key) /\ Fail

LEMMA DoneInv ==
  ASSUME Inv, inbox # <<>>, Done(Head(inbox))
  PROVE  Inv'
<1>1. LinkOK /\ OtherTypes /\ MailOK /\ Lazy /\ Code /\ Paired /\ PressesSeen
  BY DEF Inv
<1>2. OtherTypes' /\ Lazy' /\ Code' /\ Paired' /\ PressesSeen'
  BY <1>1 DEF Done, lazy, screen, user, controller, OtherTypes, Lazy, Made, Code, CodeAgrees, Paired,
              Whole, PressesSeen
<1>3. inbox \in Seq(Messages)
  BY <1>1 DEF LinkOK, LinkTypes
<1>4. /\ Head(inbox) = inbox[1] /\ Head(inbox) \in Messages /\ Len(inbox) \in Nat \ {0}
      /\ Tail(inbox) \in Seq(Messages) /\ Len(Tail(inbox)) = Len(inbox) - 1
      /\ \A i \in 1 .. Len(Tail(inbox)) : Tail(inbox)[i] = inbox[i + 1]
      /\ Tail(inbox) = <<>> => Len(inbox) = 1
      /\ Tail(inbox) # <<>> => Len(Tail(inbox)) # 0
  BY <1>3, FirstAndRest
<1>5. Genuine(Head(inbox))
  BY <1>1, <1>4 DEF MailOK, Mail
<1>6. CASE Head(inbox).key # None /\ Head(inbox).key = key /\ Shine(Head(inbox).colour)
  <2>1. Head(inbox).key \in Keys
    BY <1>1, <1>6 DEF OtherTypes
  <2>2. Head(inbox).colour \in chosen /\ Head(inbox).colour \in Colours
    BY <1>1, <1>5, <2>1 DEF Genuine, OtherTypes
  <2>3. LinkOK'
    BY <1>1, <1>4, <1>6, <2>2
       DEF Done, Shine, LinkOK, LinkTypes, NetTypeOK, OneConnection, Position, Before, Receiving, Subscribed,
           lazy
  <2>4. MailOK'
    <3>1. Mail'
      BY <1>1, <1>4, <1>6
         DEF Done, Shine, MailOK, Mail, Genuine, lazy, controller, LinkOK, LinkTypes, NetTypeOK
    <3>2. OnlyChosen'
      BY <1>6, <2>2 DEF Done, Shine, OnlyChosen, controller
    <3>3. ShowsLast'
      <4>1. CASE Tail(inbox) = <<>>
        BY <1>1, <1>4, <1>6, <4>1 DEF Done, Shine, ShowsLast, MailOK, Mail, lazy
      <4>2. CASE Tail(inbox) # <<>>
        BY <1>6, <4>2 DEF Shine, ShowsLast
      <4> QED
        BY <4>1, <4>2
    <3> QED
      BY <3>1, <3>2, <3>3 DEF MailOK
  <2> QED
    BY <1>2, <2>3, <2>4 DEF Inv
<1>7. CASE ~(Head(inbox).key # None /\ Head(inbox).key = key) /\ Fail
  <2>3. LinkOK'
    BY <1>1, <1>4, <1>7
       DEF Done, Fail, LinkOK, LinkTypes, NetTypeOK, OneConnection, Position, Before, Receiving, Subscribed,
           lazy
  <2>4. MailOK'
    <3>1. Mail'
      BY <1>1, <1>4, <1>7
         DEF Done, Fail, MailOK, Mail, Genuine, lazy, controller, LinkOK, LinkTypes, NetTypeOK
    <3>2. OnlyChosen'
      BY <1>1, <1>7 DEF Done, Fail, OnlyChosen, controller, MailOK
    <3>3. ShowsLast'
      <4>1. CASE Tail(inbox) = <<>>
        BY <1>1, <1>4, <1>7, <4>1 DEF Done, Fail, ShowsLast, MailOK, Mail, lazy
      <4>2. CASE Tail(inbox) # <<>>
        BY <1>7, <4>2 DEF Fail, ShowsLast
      <4> QED
        BY <4>1, <4>2
    <3> QED
      BY <3>1, <3>2, <3>3 DEF MailOK
  <2> QED
    BY <1>2, <2>3, <2>4 DEF Inv
<1> QED
  BY <1>6, <1>7 DEF Done

LEMMA ReceiveInv ==
  ASSUME Inv, Receive
  PROVE  Inv'
<1>1. LinkOK /\ OtherTypes /\ MailOK /\ Lazy /\ Code /\ Paired /\ PressesSeen
  BY DEF Inv
<1>2. Head(inbox) = inbox[1] /\ Len(inbox) \in Nat \ {0} /\ inbox # <<>>
  BY <1>1, FirstAndRest DEF Receive, LinkOK, LinkTypes
<1>3. Head(inbox).topic = topic
  BY <1>1, <1>2 DEF MailOK, Mail, Genuine
<1>4. CASE Head(inbox).key # None
  <2>1. /\ net = "run" /\ net' = "decrypt" /\ UNCHANGED <<leds, rgb, inbox, last, topic>>
        /\ UNCHANGED <<handles, connection, subscription, failures, messages>>
        /\ UNCHANGED <<lazy, screen, user, controller>>
    BY <1>3, <1>4 DEF Receive, Goto, lazy
  <2>2. LinkOK'
    BY <1>1, <2>1
       DEF LinkOK, LinkTypes, NetTypeOK, OneConnection, Position, Before, Receiving, Subscribed
  <2>3. MailOK'
    BY <1>1, <1>2, <2>1 DEF MailOK, Mail, Genuine, OnlyChosen, ShowsLast, lazy, controller
  <2>4. OtherTypes' /\ Lazy' /\ Code' /\ Paired' /\ PressesSeen'
    BY <1>1, <2>1 DEF lazy, screen, user, controller, OtherTypes, Lazy, Made, Code, CodeAgrees, Paired,
                      Whole, PressesSeen
  <2> QED
    BY <2>2, <2>3, <2>4 DEF Inv
<1>5. CASE Head(inbox).key = None
  <2>1. Done(Head(inbox))
    BY <1>3, <1>5 DEF Receive, Done, Receiving, Fail
  <2> QED
    BY <1>2, <2>1, DoneInv
<1> QED
  BY <1>4, <1>5

LEMMA DecryptInv ==
  ASSUME Inv, Decrypt
  PROVE  Inv'
<1>1. inbox # <<>>
  BY DEF Inv, MailOK, Mail, Decrypt
<1>2. Done(Head(inbox))
  <2>1. CASE Head(inbox).key = key
    BY <2>1 DEF Decrypt, Done, Shine, Goto, Receiving
  <2>2. CASE Head(inbox).key # key
    BY <2>2 DEF Decrypt, Done, Fail, Goto, Receiving
  <2> QED
    BY <2>1, <2>2
<1> QED
  BY <1>1, <1>2, DoneInv

-----------------------------------------------------------------------------
(* Topic and key *)

\* The invariant depends on the network thread, its service and its messages.
LEMMA NetSame ==
  ASSUME LinkOK, UNCHANGED <<netVars, topic>>
  PROVE  LinkOK'
BY DEF netVars, LinkOK, LinkTypes, NetTypeOK, OneConnection, Position, Before, Receiving, Subscribed

LEMMA MailSame ==
  ASSUME MailOK, UNCHANGED <<netVars, topic, key, chosen>>
  PROVE  MailOK'
BY DEF netVars, MailOK, Mail, Genuine, OnlyChosen, ShowsLast

LEMMA InitialiseInv ==
  ASSUME Inv, NEW thread \in {"net", "display"}, NEW object \in {"topic", "key"},
         Initialise(thread, object)
  PROVE  Inv'
<1>1. LinkOK /\ OtherTypes /\ MailOK /\ Lazy /\ Code /\ Paired /\ PressesSeen
  BY DEF Inv
<1>2. UNCHANGED <<netVars, topic, key, screen, user, controller>>
  BY DEF Initialise
<1>3. LinkOK' /\ MailOK'
  BY <1>1, <1>2, NetSame, MailSame DEF controller
<1>4. Lazy'
  BY <1>1 DEF Initialise, Lazy, Made
<1>5. OtherTypes' /\ Code' /\ Paired' /\ PressesSeen'
  BY <1>1, <1>2
     DEF Initialise, screen, user, controller, OtherTypes, Code, CodeAgrees, Paired, Whole, PressesSeen
<1> QED
  BY <1>3, <1>4, <1>5 DEF Inv

\* Before there is a topic nothing can have come for it.
LEMMA MakeTopicInv ==
  ASSUME Inv, NEW thread \in {"net", "display"}, MakeTopic(thread)
  PROVE  Inv'
<1>1. LinkOK /\ OtherTypes /\ MailOK /\ Lazy /\ Code /\ Paired /\ PressesSeen
  BY DEF Inv
<1>2. topic = None
  BY <1>1 DEF MakeTopic, Lazy, Made
<1>3. topic' \in Suffixes /\ topic' # None
  BY NetworkAssumption DEF MakeTopic
<1>4. UNCHANGED <<netVars, key, screen, user, controller>>
  BY DEF MakeTopic
<1>5. LinkOK'
  BY <1>1, <1>2, <1>3, <1>4
     DEF netVars, LinkOK, LinkTypes, NetTypeOK, OneConnection, Position, Before, Receiving, Subscribed
<1>6. \A m \in Messages : m.topic # None
  BY NetworkAssumption DEF Messages
<1>7. inbox = <<>> /\ last = None
  <2>1. last = None
    BY <1>1, <1>2, <1>6 DEF LinkOK, LinkTypes, MailOK, Mail, Genuine
  <2>2. inbox = <<>>
    BY <1>1, <1>2, <1>6, FirstAndRest DEF LinkOK, LinkTypes, MailOK, Mail, Genuine
  <2> QED
    BY <2>1, <2>2
<1>8. MailOK'
  BY <1>1, <1>4, <1>7, <1>5 DEF netVars, controller, MailOK, Mail, OnlyChosen, ShowsLast, LinkOK, Position
<1>9. Lazy'
  <2>1. /\ initialising' = initialising \ {<<thread, "topic">>}
        /\ <<thread, "topic">> \in initialising /\ <<thread, "topic">>[2] = "topic"
    BY DEF MakeTopic
  <2>2. \A i \in initialising' : i \in initialising /\ i[2] # "topic"
    BY <1>1, <2>1 DEF Lazy
  <2> QED
    BY <1>1, <1>4, <2>2 DEF Lazy, Made
<1>10. OtherTypes' /\ Code' /\ Paired' /\ PressesSeen'
  BY <1>1, <1>2, <1>3, <1>4
     DEF MakeTopic, screen, user, controller, OtherTypes, Code, CodeAgrees, Paired, Whole, PressesSeen, Unpaired
<1> QED
  BY <1>5, <1>8, <1>9, <1>10 DEF Inv

\* Before there is a key nobody can have used it.
LEMMA MakeKeyInv ==
  ASSUME Inv, NEW thread \in {"net", "display"}, MakeKey(thread)
  PROVE  Inv'
<1>1. LinkOK /\ OtherTypes /\ MailOK /\ Lazy /\ Code /\ Paired /\ PressesSeen
  BY DEF Inv
<1>2. key = None
  BY <1>1 DEF MakeKey, Lazy, Made
<1>3. key' \in Keys /\ key' # None /\ None \notin Keys
  BY LampAssumption DEF MakeKey
<1>4. UNCHANGED <<netVars, topic, screen, user, controller>>
  BY DEF MakeKey
<1>5. LinkOK'
  BY <1>1, <1>4, NetSame
<1>6. \A m : Genuine(m) => m.key \notin Keys
  BY <1>2, <1>3 DEF Genuine
<1>7. MailOK'
  <2>1. Mail'
    BY <1>1, <1>4, <1>6 DEF netVars, controller, MailOK, Mail, Genuine
  <2>2. ShowsLast'
    <3>1. last # None => last.key \notin Keys
      BY <1>1, <1>6 DEF MailOK, Mail
    <3> QED
      BY <1>1, <1>2, <1>3, <1>4, <3>1 DEF netVars, MailOK, ShowsLast
  <2> QED
    BY <1>1, <1>4, <2>1, <2>2 DEF netVars, controller, MailOK, OnlyChosen
<1>8. Lazy'
  <2>1. /\ initialising' = initialising \ {<<thread, "key">>}
        /\ <<thread, "key">> \in initialising /\ <<thread, "key">>[2] = "key"
    BY DEF MakeKey
  <2>2. \A i \in initialising' : i \in initialising /\ i[2] = "topic"
    BY <1>1, <2>1 DEF Lazy, OtherTypes
  <2> QED
    BY <1>1, <1>4, <2>2 DEF Lazy, Made
<1>9. OtherTypes' /\ Paired' /\ PressesSeen'
  BY <1>1, <1>3, <1>4 DEF MakeKey, screen, user, controller, OtherTypes, Paired, Whole, PressesSeen
<1>10. Code'
  BY <1>1, <1>2, <1>3, <1>4 DEF MakeKey, screen, Code, CodeAgrees, OtherTypes, Unpaired
<1> QED
  BY <1>5, <1>7, <1>8, <1>9, <1>10 DEF Inv

-----------------------------------------------------------------------------
(* The display thread and the user *)

\* What a number is within when it is at most another one.
LEMMA WithinBound ==
  ASSUME NEW a \in Nat, NEW b \in Nat, a + 1 <= b \/ a + 0 <= b
  PROVE  a \in 0 .. b
OBVIOUS

LEMMA CopyTopicInv ==
  ASSUME Inv, CopyTopic
  PROVE  Inv'
<1>1. LinkOK /\ OtherTypes /\ MailOK /\ Lazy /\ Code /\ Paired /\ PressesSeen
  BY DEF Inv
<1>2. UNCHANGED <<netVars, lazy, showQRCode, lastButtonValue, faults, user, controller>>
  BY DEF CopyTopic
<1>3. LinkOK' /\ MailOK'
  BY <1>1, <1>2, NetSame, MailSame DEF lazy, controller
<1>4. Lazy' /\ PressesSeen'
  BY <1>1, <1>2 DEF lazy, user, Lazy, Made, PressesSeen
<1>5. qr' = [suffix |-> topic, key |-> None] /\ display' = "key" /\ topic # None
  BY <1>1 DEF CopyTopic, Code, Unpaired
<1>6. OtherTypes' /\ Code'
  BY <1>1, <1>2, <1>5 DEF lazy, user, controller, OtherTypes, Code, CodeAgrees, Pairings
<1>7. Paired'
  BY <1>1, <1>2, <1>5 DEF CopyTopic, controller, Paired, Whole
<1> QED
  BY <1>3, <1>4, <1>6, <1>7 DEF Inv

LEMMA CopyKeyInv ==
  ASSUME Inv, CopyKey
  PROVE  Inv'
<1>1. LinkOK /\ OtherTypes /\ MailOK /\ Lazy /\ Code /\ Paired /\ PressesSeen
  BY DEF Inv
<1>2. UNCHANGED <<netVars, lazy, showQRCode, lastButtonValue, faults, user, controller>>
  BY DEF CopyKey
<1>3. LinkOK' /\ MailOK'
  BY <1>1, <1>2, NetSame, MailSame DEF lazy, controller
<1>4. Lazy' /\ PressesSeen'
  BY <1>1, <1>2 DEF lazy, user, Lazy, Made, PressesSeen
<1>5. qr' = [suffix |-> topic, key |-> key] /\ display' = "loop" /\ topic # None /\ key # None
  BY <1>1 DEF CopyKey, Code, OtherTypes, Pairings
<1>6. OtherTypes' /\ Code'
  BY <1>1, <1>2, <1>5 DEF lazy, user, controller, OtherTypes, Code, CodeAgrees, Pairings
<1>7. Paired'
  BY <1>1, <1>2, <1>5 DEF CopyKey, controller, Paired, Whole
<1> QED
  BY <1>3, <1>4, <1>6, <1>7 DEF Inv

\* A press or a failure ends a connection, and leaves what is on its way.
LEMMA BreakInv ==
  ASSUME LinkOK, topic \in Suffixes \cup {None}, Break, failures' \in 0 .. MaxFailures,
         UNCHANGED <<net, leds, rgb, topic, handles, inbox, last, messages>>
  PROVE  LinkOK'
BY DEF Break, LinkOK, LinkTypes, NetTypeOK, OneConnection, Position, Before, Receiving, Subscribed

LEMMA PollInv ==
  ASSUME Inv, Poll
  PROVE  Inv'
<1>1. LinkOK /\ OtherTypes /\ MailOK /\ Lazy /\ Code /\ Paired /\ PressesSeen
  BY DEF Inv
<1>2. /\ UNCHANGED <<lazy, display, qr, user, controller>>
      /\ UNCHANGED <<net, leds, rgb, topic, handles, inbox, last, failures, messages>>
  BY DEF Poll, netVars, lazy
<1>3. LinkOK'
  <2>1. CASE UNCHANGED <<connection, subscription>>
    BY <1>1, <1>2, <2>1, NetSame DEF netVars
  <2>2. CASE Break
    BY <1>1, <1>2, <2>2, BreakInv DEF OtherTypes, LinkOK, LinkTypes, NetTypeOK
  <2> QED
    BY <2>1, <2>2 DEF Poll, netVars
<1>4. MailOK'
  BY <1>1, <1>2 DEF lazy, controller, MailOK, Mail, Genuine, OnlyChosen, ShowsLast
<1>5. Lazy' /\ Code' /\ Paired'
  BY <1>1, <1>2 DEF lazy, controller, Lazy, Made, Code, CodeAgrees, Paired, Whole
<1>6. /\ showQRCode' \in BOOLEAN /\ lastButtonValue' \in BOOLEAN
      /\ faults' \in Nat /\ PressesSeen'
  <2>1. CASE switch
    BY <1>1, <1>2, <2>1 DEF Poll, OtherTypes, PressesSeen, user
  <2>2. CASE ~switch /\ button /\ ~lastButtonValue
    BY <1>1, <1>2, <2>2 DEF Poll, OtherTypes, PressesSeen, user
  <2>3. CASE ~switch /\ ~(button /\ ~lastButtonValue)
    BY <1>1, <1>2, <2>3 DEF Poll, OtherTypes, PressesSeen, user
  <2> QED
    BY <2>1, <2>2, <2>3
<1>7. faults' \in 0 .. presses'
  <2>1. presses' \in Nat /\ faults' \in Nat
    BY <1>1, <1>2, <1>6, NetworkAssumption DEF OtherTypes, user
  <2>2. faults' + 1 <= presses' \/ faults' + 0 <= presses'
    BY <1>6 DEF PressesSeen
  <2> QED
    BY <2>1, <2>2, WithinBound
<1>8. OtherTypes'
  BY <1>1, <1>2, <1>6, <1>7 DEF lazy, user, controller, OtherTypes
<1> QED
  BY <1>3, <1>4, <1>5, <1>6, <1>8 DEF Inv

LEMMA UserInv ==
  ASSUME Inv, User
  PROVE  Inv'
<1>1. LinkOK /\ OtherTypes /\ MailOK /\ Lazy /\ Code /\ Paired /\ PressesSeen
  BY DEF Inv
<1>2. UNCHANGED <<netVars, lazy, screen, controller>>
  BY DEF User
<1>3. LinkOK' /\ MailOK' /\ Lazy' /\ Code' /\ Paired'
  BY <1>1, <1>2, NetSame, MailSame
     DEF lazy, screen, controller, Lazy, Made, Code, CodeAgrees, Paired, Whole
<1>4. switch' \in BOOLEAN /\ button' \in BOOLEAN /\ presses' \in 0 .. MaxPresses /\ presses <= presses'
  <2>1. switch \in BOOLEAN /\ button \in BOOLEAN /\ presses \in 0 .. MaxPresses
    BY <1>1 DEF OtherTypes
  <2>2. CASE switch' = ~switch /\ UNCHANGED <<button, presses>>
    <3>1. switch' \in BOOLEAN
      BY <2>2
    <3> QED
      BY <2>1, <2>2, <3>1, NetworkAssumption
  <2>3. CASE presses < MaxPresses /\ button' = TRUE /\ presses' = presses + 1 /\ UNCHANGED switch
    BY <2>1, <2>3, NetworkAssumption
  <2>4. CASE button' = FALSE /\ UNCHANGED <<switch, presses>>
    <3>1. switch' \in BOOLEAN /\ button' \in BOOLEAN
      BY <2>1, <2>4
    <3>2. presses' = presses /\ presses \in Nat
      BY <2>1, <2>4, NetworkAssumption
    <3> QED
      BY <2>1, <3>1, <3>2
  <2> QED
    BY <2>2, <2>3, <2>4 DEF User
<1>5. PressesSeen'
  BY <1>1, <1>2, <1>4 DEF User, screen, OtherTypes, PressesSeen
<1>6. OtherTypes'
  BY <1>1, <1>2, <1>4 DEF lazy, screen, controller, OtherTypes
<1> QED
  BY <1>3, <1>5, <1>6 DEF Inv

-----------------------------------------------------------------------------
(* The controller *)

\* None of its methods but onColorSelected reaches the device.
LEMMA DeviceSame ==
  ASSUME Inv, UNCHANGED <<device, chosen>>
  PROVE  LinkOK' /\ MailOK' /\ Lazy' /\ Code' /\ PressesSeen'
BY NetSame, MailSame
   DEF Inv, device, lazy, screen, user, Lazy, Made, Code, CodeAgrees, PressesSeen

\* What a controller can have scanned, saved or forgotten.
LEMMA PairingInv ==
  ASSUME Inv, UNCHANGED <<device, chosen>>,
         activity' \in {"front", "away"}, alive' \in BOOLEAN,
         pairing' \in {pairing, bundle, Unpaired, [pairing EXCEPT !.key = ZeroKey]} \cup Codes,
         bundle' \in {pairing, bundle, Unpaired}
  PROVE  Inv'
<1>1. OtherTypes /\ Code /\ Paired
  BY DEF Inv
<1>2. Whole(Unpaired) /\ Whole([pairing EXCEPT !.key = ZeroKey])
  BY <1>1, LampAssumption DEF Whole, Unpaired, OtherTypes, Pairings
<1>3. \A p \in Codes : Whole(p)
  BY DEF Codes, Whole
<1>4. Codes \subseteq Pairings /\ Unpaired \in Pairings /\ [pairing EXCEPT !.key = ZeroKey] \in Pairings
  BY <1>1, LampAssumption DEF Codes, OtherTypes, Pairings, Unpaired
<1>5. pairing' \in Pairings /\ bundle' \in Pairings /\ Whole(pairing') /\ Whole(bundle')
  BY <1>1, <1>2, <1>3, <1>4 DEF Paired, OtherTypes
<1>6. UNCHANGED <<qr, display>>
  BY DEF device, screen
<1>7. Paired'
  BY <1>5, <1>6 DEF Paired, Whole
<1>8. OtherTypes'
  BY <1>1, <1>5 DEF device, lazy, screen, user, OtherTypes
<1> QED
  BY <1>7, <1>8, DeviceSame DEF Inv

LEMMA ActivityInv ==
  ASSUME Inv, Leave \/ Destroy \/ Restore \/ Return \/ Scanned \/ ScanCancelled \/ Forget
  PROVE  Inv'
<1>1. activity \in {"front", "away"} /\ alive \in BOOLEAN
  BY DEF Inv, OtherTypes
<1>2. CASE Leave \/ Destroy \/ Restore
  BY <1>1, <1>2, PairingInv DEF Leave, Destroy, Restore, Saved
<1>3. CASE Return \/ ScanCancelled \/ Forget
  BY <1>1, <1>3, PairingInv DEF Return, ScanCancelled, Forget
<1>4. CASE Scanned
  BY <1>1, <1>4, PairingInv DEF Scanned
<1> QED
  BY <1>2, <1>3, <1>4

-----------------------------------------------------------------------------
(* Messages *)

\* A message once or again at the end of what is on its way.
LEMMA Appended ==
  ASSUME NEW S, NEW s \in Seq(S), NEW r \in Seq(S), NEW m, Len(r) # 0, \A i \in 1 .. Len(r) : r[i] = m
  PROVE  /\ s \o r \in Seq(S) /\ Len(s \o r) = Len(s) + Len(r) /\ s \o r # <<>>
         /\ (s \o r)[Len(s \o r)] = m
         /\ \A i \in 1 .. Len(s \o r) : (s \o r)[i] = m \/ (i \in 1 .. Len(s) /\ (s \o r)[i] = s[i])
<1> DEFINE t == s \o r
<1>1. t \in Seq(S) /\ Len(t) = Len(s) + Len(r)
  OBVIOUS
<1>2. \A i \in 1 .. Len(t) : t[i] = m \/ (i \in 1 .. Len(s) /\ t[i] = s[i])
  OBVIOUS
<1>3. Len(s) \in Nat /\ Len(r) \in Nat
  OBVIOUS
<1> HIDE DEF t
<1>4. Len(t) \in 1 .. Len(t) /\ Len(t) \notin 1 .. Len(s)
  BY <1>1, <1>3
<1>5. t[Len(t)] = m
  BY <1>2, <1>4
<1>6. t # <<>>
  BY <1>4
<1> QED
  BY <1>1, <1>2, <1>5, <1>6 DEF t

\* What the service passes on, with the key of the device only if it is of a
\* colour that is recorded as chosen.
LEMMA PublishInv ==
  ASSUME Inv, NEW m \in Messages, Publish(m),
         UNCHANGED <<lazy, screen, user, pairing, bundle, activity, alive>>,
         chosen \subseteq chosen', chosen' \subseteq Colours,
         m.key \in Keys => m.key = key /\ m.colour \in chosen'
  PROVE  Inv'
<1>1. LinkOK /\ OtherTypes /\ MailOK /\ Lazy /\ Code /\ Paired /\ PressesSeen
  BY DEF Inv
<1>2. OtherTypes' /\ Lazy' /\ Code' /\ Paired' /\ PressesSeen'
  BY <1>1 DEF lazy, screen, user, OtherTypes, Lazy, Made, Code, CodeAgrees, Paired, Whole, PressesSeen
<1>3. PICK n \in {1, 2} : /\ messages + n <= MaxMessages /\ messages' = messages + n
                          /\ inbox' = inbox \o [i \in 1 .. n |-> m]
  BY DEF Publish
<1>4. /\ m.topic = subscription /\ last' = m
      /\ UNCHANGED <<net, leds, rgb, handles, connection, subscription, failures>>
  BY DEF Publish
<1>5. inbox \in Seq(Messages)
  BY <1>1 DEF LinkOK, LinkTypes
<1>6. /\ inbox' \in Seq(Messages) /\ Len(inbox') = Len(inbox) + n
      /\ inbox' # <<>> /\ inbox'[Len(inbox')] = m
      /\ \A i \in 1 .. Len(inbox') : inbox'[i] = m \/ (i \in 1 .. Len(inbox) /\ inbox'[i] = inbox[i])
  <2> DEFINE r == [i \in 1 .. n |-> m]
  <2>1. r \in Seq(Messages) /\ Len(r) = n /\ n # 0 /\ \A i \in 1 .. Len(r) : r[i] = m
    OBVIOUS
  <2>2. inbox' = inbox \o r
    BY <1>3
  <2> HIDE DEF r
  <2> QED
    BY <1>5, <2>1, <2>2, Appended
<1>7. m.topic = topic /\ m.topic # None
  <2>1. m.topic # None
    BY NetworkAssumption DEF Messages
  <2> QED
    BY <1>1, <1>4, <2>1 DEF LinkOK, Subscribed
<1>8. NetTypeOK'
  BY <1>1, <1>3, <1>4, <1>5, <1>6, NetworkAssumption DEF LinkOK, LinkTypes, NetTypeOK
<1>9. LinkOK'
  BY <1>1, <1>4, <1>6, <1>7, <1>8
     DEF lazy, LinkOK, LinkTypes, OneConnection, Position, Before, Receiving, Subscribed
<1>10. m.topic = topic' /\ (m.key \in Keys => m.key = key' /\ m.colour \in chosen')
  BY <1>7 DEF lazy
<1>11. Mail'
  <2>1. ASSUME NEW i \in 1 .. Len(inbox')
        PROVE  /\ inbox'[i].topic = topic'
               /\ inbox'[i].key \in Keys => inbox'[i].key = key' /\ inbox'[i].colour \in chosen'
    <3>1. CASE inbox'[i] = m
      BY <1>10, <3>1
    <3>2. CASE i \in 1 .. Len(inbox) /\ inbox'[i] = inbox[i]
      BY <1>1, <3>2 DEF lazy, MailOK, Mail, Genuine
    <3> QED
      BY <1>6, <3>1, <3>2
  <2>2. \A i \in 1 .. Len(inbox') : inbox'[i].topic = topic'
    BY <2>1
  <2>3. \A i \in 1 .. Len(inbox') :
          inbox'[i].key \in Keys => inbox'[i].key = key' /\ inbox'[i].colour \in chosen'
    BY <2>1
  <2> QED
    <3>1. (\A i \in 1 .. Len(inbox) : Genuine(inbox[i]))'
      BY <2>2, <2>3 DEF Genuine
    <3>2. last' = m /\ inbox'[Len(inbox')] = last' /\ inbox' # <<>>
      BY <1>4, <1>6
    <3>3. Genuine(last)'
      BY <1>10, <3>2 DEF Genuine
    <3> QED
      BY <3>1, <3>2, <3>3 DEF Mail
<1>12. OnlyChosen' /\ ShowsLast'
  BY <1>1, <1>4, <1>6 DEF MailOK, OnlyChosen, ShowsLast
<1> QED
  BY <1>2, <1>9, <1>11, <1>12 DEF Inv, MailOK

LEMMA SelectInv ==
  ASSUME Inv, NEW colour \in Colours, Select(colour)
  PROVE  Inv'
<1> DEFINE m == [topic |-> pairing.suffix, key |-> pairing.key, colour |-> colour]
<1>1. OtherTypes /\ Paired /\ Code
  BY DEF Inv
<1>2. pairing.suffix \in Suffixes /\ pairing.key \in Keys \cup {ZeroKey, OtherLamp.key}
  BY <1>1 DEF OtherTypes, Pairings, Select
<1>3. m \in Messages
  BY <1>2 DEF Messages
<1>4. Publish(m) /\ chosen' = IF pairing.key = key THEN chosen \cup {colour} ELSE chosen
  BY DEF Select
<1>5. pairing.key \in Keys => pairing.key = key
  BY <1>1, LampAssumption DEF Paired, Whole, Code
<1>6. chosen \subseteq chosen' /\ chosen' \subseteq Colours
  BY <1>1, <1>4 DEF OtherTypes
<1>7. m.key \in Keys => m.key = key /\ m.colour \in chosen'
  BY <1>4, <1>5
<1>8. UNCHANGED <<lazy, screen, user, pairing, bundle, activity, alive>>
  BY DEF Select
<1> HIDE DEF m
<1> QED
  BY <1>3, <1>4, <1>6, <1>7, <1>8, PublishInv

LEMMA NoiseInv ==
  ASSUME Inv, Noise
  PROVE  Inv'
<1>1. PICK m \in Messages : m.key = None /\ Publish(m)
  BY DEF Noise
<1>2. UNCHANGED <<lazy, screen, user, controller>> /\ chosen \subseteq Colours
  BY DEF Noise, Inv, OtherTypes
<1> QED
  BY <1>1, <1>2, PublishInv, LampAssumption DEF controller

LEMMA LosesInv ==
  ASSUME Inv, Loses
  PROVE  Inv'
<1>1. LinkOK /\ OtherTypes /\ MailOK /\ Lazy /\ Code /\ Paired /\ PressesSeen
  BY DEF Inv
<1>2. UNCHANGED <<net, leds, rgb, handles, inbox, last, messages, lazy, screen, user, controller>>
  BY DEF Loses, Lose
<1>3. failures' \in 0 .. MaxFailures
  BY <1>1, NetworkAssumption DEF Loses, Lose, Fails, LinkOK, LinkTypes, NetTypeOK
<1>4. LinkOK'
  BY <1>1, <1>2, <1>3, BreakInv DEF Loses, Lose, OtherTypes, lazy
<1>5. MailOK'
  BY <1>1, <1>2 DEF lazy, controller, MailOK, Mail, Genuine, OnlyChosen, ShowsLast
<1>6. OtherTypes' /\ Lazy' /\ Code' /\ Paired' /\ PressesSeen'
  BY <1>1, <1>2 DEF lazy, screen, user, controller, OtherTypes, Lazy, Made, Code, CodeAgrees, Paired,
                    Whole, PressesSeen
<1> QED
  BY <1>4, <1>5, <1>6 DEF Inv

LEMMA UnchangedInv ==
  ASSUME Inv, UNCHANGED vars
  PROVE  Inv'
<1>1. UNCHANGED <<netVars, lazy, screen, user, controller>>
  BY DEF vars
<1>2. UNCHANGED <<device, chosen>>
  BY <1>1 DEF device, controller
<1>3. OtherTypes' /\ Paired'
  BY <1>1 DEF Inv, lazy, screen, user, controller, OtherTypes, Paired, Whole
<1> QED
  BY <1>2, <1>3, DeviceSame DEF Inv

-----------------------------------------------------------------------------
(* The theorems *)

LEMMA LazyStepInv ==
  ASSUME Inv, NEW thread \in {"net", "display"}, LazyStep(thread)
  PROVE  Inv'
BY InitialiseInv, MakeTopicInv, MakeKeyInv DEF LazyStep

LEMMA StepInv ==
  ASSUME Inv, [Next]_vars
  PROVE  Inv'
<1>1. CASE NetStep
  BY <1>1, NetworkInv, ReceiveInv, DecryptInv, LazyStepInv DEF NetStep
<1>2. CASE DisplayStep
  BY <1>2, CopyTopicInv, CopyKeyInv, PollInv, LazyStepInv DEF DisplayStep
<1>3. CASE ControllerStep
  BY <1>3, ActivityInv, SelectInv DEF ControllerStep
<1>4. CASE User \/ Noise \/ Loses
  BY <1>4, UserInv, NoiseInv, LosesInv
<1>5. CASE UNCHANGED vars
  BY <1>5, UnchangedInv
<1> QED
  BY <1>1, <1>2, <1>3, <1>4, <1>5 DEF Next

\* The inductive invariant: whatever the threads, the network, the service, the
\* user and the controller do, in any order (V2 mqtt.cc, crypto.cc, display.cc,
\* MainActivity.java).
THEOREM LampInductive == FairSpec => []Inv
<1>1. Init => Inv
  BY InvInit
<1>2. Inv /\ [Next]_vars => Inv'
  BY StepInv
<1> QED
  BY <1>1, <1>2, PTL DEF FairSpec

\* Every variable has its type, and every fault is due to a press of its own
\* (display.cc:66-75).
THEOREM LampTypes == FairSpec => []TypeOK
BY LampInductive, InvTypes, PTL

\* LED 4 is on only while the lamp is connected and subscribed to its topic, or
\* has yet to notice that it no longer is, and then LEDs 0 to 3 are on as well
\* (V2 mqtt.cc:229-240).
THEOREM StatusIsTrue == FairSpec => []LedsTruthful
<1>1. Inv => LedsTruthful
  BY DEF Inv, LinkOK, Position, Before, Receiving, Subscribed, LedsTruthful
<1> QED
  BY <1>1, LampInductive, PTL

\* Every path back to mqtt_connect frees the connection there was (V2
\* mqtt.cc:205-243).
THEOREM OneConnectionAtATime == FairSpec => []OneConnection
<1>1. Inv => OneConnection
  BY DEF Inv, LinkOK
<1> QED
  BY <1>1, LampInductive, PTL

\* The QR code has the topic and the key that the device uses, whichever thread
\* makes them first (mqtt.cc:71, crypto.cc:35).
THEOREM CodeIsOfTheDevice == FairSpec => []CodeAgrees
<1>1. Inv => CodeAgrees
  BY DEF Inv, Code
<1> QED
  BY <1>1, LampInductive, PTL

\* The lamp shows only what was chosen in a controller that has its key, for any
\* messages of other controllers and clients (README.md:19, 30).
THEOREM OnlyWhatWasChosen == FairSpec => []OnlyChosen
<1>1. Inv => OnlyChosen
  BY DEF Inv, MailOK
<1> QED
  BY <1>1, LampInductive, PTL

\* With nothing on its way the lamp shows the last message, its colour or that it
\* could not be decrypted (mqtt.cc:128-143).
THEOREM LastMessageShows == FairSpec => []ShowsLast
<1>1. Inv => ShowsLast
  BY DEF Inv, MailOK
<1> QED
  BY <1>1, LampInductive, PTL

\* A controller never has the key of one lamp and the topic of another, after any
\* scans, interruptions and restores (MainActivity.java:78-92, 176-218).
THEOREM PairsBelongTogether == FairSpec => []PairsMatch
<1>1. Inv => PairsMatch
  BY DEF Inv, Paired, Whole, PairsMatch
<1> QED
  BY <1>1, LampInductive, PTL

-----------------------------------------------------------------------------
(* Whichever version runs *)

\* The first version, as in MCHugh, with what is proved of it.
First == INSTANCE HughV1Proofs WITH
        MaxFailures <- Failures, MaxPresses <- Presses, MaxMessages <- Deliveries,
        net <- net1, leds <- leds1, rgb <- rgb1, topic <- topic1, handles <- handles1,
        connection <- connection1, subscription <- subscription1, inbox <- inbox1,
        last <- last1, failures <- failures1, messages <- messages1,
        faults <- faults1, switch <- switch1, presses <- presses1

\* Next is made of the same steps in V1 and in the module of its proofs.
LEMMA SameSteps == V1!Next => First!Next
<1> USE DEF V1!netVars, First!netVars, V1!display, First!display, V1!user, First!user, V1!link, First!link,
            V1!Goto, First!Goto, V1!Fails, First!Fails, V1!Break, First!Break, V1!Publish, First!Publish,
            V1!Messages, First!Messages
<1>1. V1!Network => First!Network
  BY DEF V1!Network, First!Network, V1!StartNetwork, First!StartNetwork, V1!NtpFails, First!NtpFails,
         V1!NtpSucceeds, First!NtpSucceeds, V1!Loop, First!Loop, V1!LedsOff, First!LedsOff,
         V1!Connect, First!Connect, V1!ConnectFails, First!ConnectFails, V1!Subscribe, First!Subscribe,
         V1!SubscribeFails, First!SubscribeFails, V1!RunFails, First!RunFails,
         V1!Disconnect, First!Disconnect
<1>2. (V1!Barrier => First!Barrier) /\ (V1!Receive => First!Receive)
  BY DEF V1!Barrier, First!Barrier, V1!Receive, First!Receive
<1>3. V1!DisplayStep => First!DisplayStep
  BY DEF V1!DisplayStep, First!DisplayStep, V1!BuildPrefix, First!BuildPrefix, V1!BuildSuffix,
         First!BuildSuffix, V1!Store, First!Store, V1!Notify, First!Notify, V1!Poll, First!Poll
<1>4. (V1!Turn => First!Turn) /\ (V1!Type => First!Type)
  BY DEF V1!Turn, First!Turn, V1!Type, First!Type
<1>5. (V1!Noise => First!Noise) /\ (V1!Loses => First!Loses)
  BY DEF V1!Noise, First!Noise, V1!Loses, First!Loses, V1!Lose, First!Lose
<1>6. \A colour \in Colours : V1!Select(colour) => First!Select(colour)
  BY DEF V1!Select, First!Select
<1> QED
  BY <1>1, <1>2, <1>3, <1>4, <1>5, <1>6 DEF V1!Next, First!Next, V1!NetStep, First!NetStep

\* Its invariant holds at first.
LEMMA FirstStarts ==
  ASSUME V1!Init
  PROVE  First!Inv
<1>1. First!Init
  BY DEF V1!Init, First!Init, V1!NetInit, First!NetInit
<1>2. First!NetworkAssumption
  BY FirstAssumption, NetworkAssumption DEF First!NetworkAssumption
<1> QED
  BY <1>1, <1>2, First!InitInv

\* Of the first version: the topic the network thread uses is complete, the
\* status LEDs tell the truth and each connection is freed before the next, for
\* any topics, colours, messages, faults and failures (HughTheLightbulb
\* mqtt.cc:117-120, 206-220).
THEOREM FirstVersionOK == MCFairSpec => []FirstOK
<1>1. V1!PartialOK /\ First!PartialOK /\ First!NetworkAssumption
  BY FirstAssumption, NetworkAssumption DEF First!NetworkAssumption, V1!PartialOK, First!PartialOK
<1>2. MCInit => First!Inv
  BY FirstStarts DEF MCInit
<1>3. ASSUME First!Inv, [MCNext]_MCVars PROVE First!Inv'
  <2>1. [First!Next]_First!vars
    <3>1. CASE V1!Next
      BY <3>1, SameSteps
    <3>2. CASE UNCHANGED first
      BY <3>2 DEF first, First!vars, First!netVars, First!display, First!user
    <3> QED
      BY <1>3, <3>1, <3>2 DEF MCNext, MCVars, SecondRuns
  <2> QED
    BY <1>1, <1>3, <2>1, First!NextInv
<1>4. First!Inv => FirstOK
  <2>1. ASSUME First!Inv
        PROVE  First!TypeOK /\ First!TopicComplete /\ First!LedsTruthful /\ First!OneConnection
    BY <1>1, <2>1, First!InvImplies
  <2> QED
    BY <2>1
       DEF FirstOK, V1!TypeOK, First!TypeOK, V1!TopicComplete, First!TopicComplete, V1!LedsTruthful,
           First!LedsTruthful, V1!OneConnection, First!OneConnection, V1!NetTypeOK, First!NetTypeOK,
           V1!Messages, First!Messages
<1> QED
  BY <1>2, <1>3, <1>4, PTL DEF MCFairSpec
=============================================================================

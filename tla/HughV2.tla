------------------------------- MODULE HughV2 -------------------------------
(***************************************************************************)
(* Hugh the Lightbulb, second version.  The device: the network thread     *)
(* with its callback (mqtt.cc), the compartment that has the key           *)
(* (crypto.cc) and the thread of the display (display.cc), which makes the *)
(* QR code.  Topic and key are made by whichever thread asks first.  The   *)
(* controller: an Android activity that scans the code, encrypts colours   *)
(* with the key and publishes them to the topic, and that the system may   *)
(* stop, destroy and create anew.                                          *)
(***************************************************************************)
EXTENDS HughNetwork

CONSTANTS
  Keys,        \* keys this device may generate
  ZeroKey,     \* the key of a controller that was told to forget its key
  OtherLamp    \* suffix and key in the code of another device

ASSUME LampAssumption ==
  /\ None \notin Keys \cup {ZeroKey} /\ ZeroKey \notin Keys
  /\ OtherLamp \in [suffix : Suffixes, key : {OtherLamp.key}]
  /\ OtherLamp.key \notin Keys \cup {None, ZeroKey}   \* two devices do not make the same key

VARIABLES
  key,            \* the key of this device
  initialising,   \* <<thread, object>>: the initialisers of topic and key that run
  display,        \* where the display thread is
  qr,             \* the contents of the QR code
  showQRCode,     \* what the display shows
  lastButtonValue, faults,
  switch, button, presses,   \* the user: the switch, the button, how often it was pressed
  pairing,        \* controller: MQTTName and key
  bundle,         \* controller: the saved instance state, of use until it is in front again
  activity,       \* controller: "front", or "away", behind the scanner
  alive,          \* controller: the system has not destroyed the activity
  chosen          \* history: colours chosen in a controller that has the key

lazy == <<topic, key, initialising>>
screen == <<display, qr, showQRCode, lastButtonValue, faults>>
user == <<switch, button, presses>>
controller == <<pairing, bundle, activity, alive, chosen>>
vars == <<netVars, lazy, screen, user, controller>>

Pairings == [suffix : Suffixes \cup {None}, key : Keys \cup {None, ZeroKey, OtherLamp.key}]
Unpaired == [suffix |-> None, key |-> None]

\* Messages: an encrypted colour, or what has not the length of one.
Messages ==
  [topic : Suffixes, key : Keys \cup {ZeroKey, OtherLamp.key}, colour : Colours]
    \cup [topic : Suffixes, key : {None}, colour : {None}]

-----------------------------------------------------------------------------
(* Topic and key: static variables of functions, initialised on first use *)

\* What each thread needs next.
Wants(thread, object) ==
  \/ thread = "net" /\ <<net, object>> \in {<<"subscribe", "topic">>, <<"decrypt", "key">>}
  \/ thread = "display" /\ object = display

Made(object) == IF object = "topic" THEN topic # None ELSE key # None

\* Mutant: nothing keeps the second thread out.
InitialiseRacing(thread, object) ==
  /\ Wants(thread, object) /\ ~Made(object)
  /\ initialising' = initialising \cup {<<thread, object>>}
  /\ UNCHANGED <<netVars, topic, key, screen, user, controller>>

\* The first thread runs the initialiser, the second one waits.
Initialise(thread, object) ==
  /\ Wants(thread, object) /\ ~Made(object)
  /\ \A i \in initialising : i[2] # object
  /\ initialising' = initialising \cup {<<thread, object>>}
  /\ UNCHANGED <<netVars, topic, key, screen, user, controller>>

MakeTopic(thread) ==
  /\ <<thread, "topic">> \in initialising
  /\ topic' \in Suffixes
  /\ initialising' = initialising \ {<<thread, "topic">>}
  /\ UNCHANGED <<netVars, key, screen, user, controller>>

MakeKey(thread) ==
  /\ <<thread, "key">> \in initialising
  /\ key' \in Keys
  /\ initialising' = initialising \ {<<thread, "key">>}
  /\ UNCHANGED <<netVars, topic, screen, user, controller>>

LazyStep(thread) ==
  (\E object \in {"topic", "key"} : Initialise(thread, object)) \/ MakeTopic(thread) \/ MakeKey(thread)

-----------------------------------------------------------------------------
(* The network thread *)

Network ==
  /\ StartNetwork \/ NtpFails \/ NtpSucceeds("off") \/ Loop
  /\ net = "subscribe" => topic # None
  /\ UNCHANGED <<lazy, screen, user, controller>>

\* Mutant: LED 7 stays as it was.
FailSilently ==
  /\ inbox' = Tail(inbox)
  /\ UNCHANGED <<leds, rgb>>

\* The end of the callback: LED 7 says that the message could not be decrypted.
Fail ==
  /\ inbox' = Tail(inbox)
  /\ leds' = leds \cup {7}
  /\ UNCHANGED rgb

Shine(colour) ==
  /\ inbox' = Tail(inbox)
  /\ rgb' = colour
  /\ leds' = leds \ {7}

\* mqtt_run calls publish_callback with the next message: one of the wrong
\* length is rejected before the key is looked at.
Receive ==
  /\ net = "run" /\ inbox # <<>>
  /\ IF Head(inbox).topic = topic /\ Head(inbox).key # None
     THEN Goto("decrypt") /\ UNCHANGED <<leds, rgb, inbox>>
     ELSE /\ UNCHANGED net
          /\ IF Head(inbox).topic = topic
             THEN Fail
             ELSE inbox' = Tail(inbox) /\ UNCHANGED <<leds, rgb>>
  /\ UNCHANGED <<handles, connection, subscription, last, failures, messages>>
  /\ UNCHANGED <<lazy, screen, user, controller>>

\* Mutant: the result of decrypt is not looked at.
DecryptUnchecked ==
  /\ net = "decrypt" /\ key # None
  /\ Shine(Head(inbox).colour)
  /\ Goto("run")
  /\ UNCHANGED <<handles, connection, subscription, last, failures, messages>>
  /\ UNCHANGED <<lazy, screen, user, controller>>

Decrypt ==
  /\ net = "decrypt" /\ key # None
  /\ IF Head(inbox).key = key THEN Shine(Head(inbox).colour) ELSE Fail
  /\ Goto("run")
  /\ UNCHANGED <<handles, connection, subscription, last, failures, messages>>
  /\ UNCHANGED <<lazy, screen, user, controller>>

NetStep == Network \/ Receive \/ Decrypt \/ LazyStep("net")

-----------------------------------------------------------------------------
(* The display thread *)

\* The contents of the QR code: first the suffix of the topic, then the key.
CopyTopic ==
  /\ display = "topic" /\ topic # None
  /\ qr' = [qr EXCEPT !.suffix = topic]
  /\ display' = "key"
  /\ UNCHANGED <<netVars, lazy, showQRCode, lastButtonValue, faults, user, controller>>

CopyKey ==
  /\ display = "key" /\ key # None
  /\ qr' = [qr EXCEPT !.key = key]
  /\ display' = "loop"
  /\ UNCHANGED <<netVars, lazy, showQRCode, lastButtonValue, faults, user, controller>>

\* Mutant: the button injects a fault for as long as it is held.
PollHeld ==
  /\ display = "loop"
  /\ showQRCode' = switch
  /\ IF switch \/ ~button
     THEN UNCHANGED <<lastButtonValue, faults, netVars>>
     ELSE /\ faults < MaxPresses + 1 /\ faults' = faults + 1
          /\ lastButtonValue' = button
          /\ Break
          /\ UNCHANGED <<net, leds, rgb, handles, inbox, last, failures, messages>>
  /\ UNCHANGED <<lazy, display, qr, user, controller>>

\* One turn of the loop.  The button is only looked at while the QR code is not
\* shown; a press that is seen injects a fault, which ends every connection.
Poll ==
  /\ display = "loop"
  /\ showQRCode' = switch
  /\ IF switch
     THEN UNCHANGED <<lastButtonValue, faults, netVars>>
     ELSE /\ lastButtonValue' = button
          /\ IF button /\ ~lastButtonValue
             THEN faults' = faults + 1 /\ Break
             ELSE UNCHANGED <<faults, connection, subscription>>
          /\ UNCHANGED <<net, leds, rgb, handles, inbox, last, failures, messages>>
  /\ UNCHANGED <<lazy, display, qr, user, controller>>

DisplayStep == CopyTopic \/ CopyKey \/ Poll \/ LazyStep("display")

User ==
  /\ \/ switch' = ~switch /\ UNCHANGED <<button, presses>>
     \/ /\ ~button /\ presses < MaxPresses
        /\ button' = TRUE /\ presses' = presses + 1 /\ UNCHANGED switch
     \/ button /\ button' = FALSE /\ UNCHANGED <<switch, presses>>
  /\ UNCHANGED <<netVars, lazy, screen, controller>>

-----------------------------------------------------------------------------
(* The controller.  Its methods run one after the other, on the user interface thread. *)

device == <<netVars, lazy, screen, user>>

\* Mutant: the topic is not saved.
SavedKey == [pairing EXCEPT !.suffix = None]

\* onSaveInstanceState.
Saved == pairing

\* onClick opens the scanner; the activity saves its state.  Leaving it for
\* anything else is a scan with no result.
Leave ==
  /\ activity = "front"
  /\ activity' = "away"
  /\ bundle' = Saved
  /\ UNCHANGED <<device, pairing, alive, chosen>>

\* The system destroys an activity that is not in front.
Destroy ==
  /\ activity = "away" /\ alive
  /\ alive' = FALSE
  /\ pairing' = Unpaired
  /\ UNCHANGED <<device, bundle, activity, chosen>>

\* onCreate and onRestoreInstanceState, before the activity is in front again
\* or is given a result.
Restore ==
  /\ ~alive
  /\ alive' = TRUE
  /\ pairing' = bundle
  /\ UNCHANGED <<device, bundle, activity, chosen>>

\* Back from somewhere else, or from scanning something too short.
Return ==
  /\ activity = "away" /\ alive
  /\ activity' = "front" /\ bundle' = Unpaired
  /\ UNCHANGED <<device, pairing, alive, chosen>>

\* What the scanner may see: the code of this device, or of another one.
Codes == {OtherLamp} \cup (IF display = "loop" /\ showQRCode THEN {qr} ELSE {})

\* onActivityResult: the key and the topic of the code that was scanned.
Scanned ==
  /\ activity = "away" /\ alive
  /\ pairing' \in Codes
  /\ activity' = "front" /\ bundle' = Unpaired
  /\ UNCHANGED <<device, alive, chosen>>

\* The scan is cancelled: the contents are null, the exception ends the
\* application, and the next one starts from nothing.
ScanCancelled ==
  /\ activity = "away" /\ alive
  /\ pairing' = Unpaired
  /\ activity' = "front" /\ bundle' = Unpaired
  /\ UNCHANGED <<device, alive, chosen>>

\* The button that forgets the key leaves a key of zeros, and the topic.
Forget ==
  /\ activity = "front"
  /\ pairing' = [pairing EXCEPT !.key = ZeroKey]
  /\ UNCHANGED <<device, bundle, activity, alive, chosen>>

\* onColorSelected: nothing is encrypted without a key, nor published without a
\* topic.
Select(colour) ==
  /\ activity = "front"
  /\ pairing.key # None /\ pairing.suffix # None
  /\ Publish([topic |-> pairing.suffix, key |-> pairing.key, colour |-> colour])
  /\ chosen' = IF pairing.key = key THEN chosen \cup {colour} ELSE chosen
  /\ UNCHANGED <<lazy, screen, user, pairing, bundle, activity, alive>>

\* Another client of the service publishes what is no encrypted colour.
Noise ==
  /\ \E m \in Messages : m.key = None /\ Publish(m)
  /\ UNCHANGED <<lazy, screen, user, controller>>

ControllerStep ==
  \/ Leave \/ Destroy \/ Restore \/ Return \/ Scanned \/ ScanCancelled \/ Forget
  \/ \E colour \in Colours : Select(colour)

-----------------------------------------------------------------------------

Init ==
  /\ NetInit
  /\ topic = None /\ key = None /\ initialising = {}
  /\ display = "topic" /\ qr = Unpaired
  /\ showQRCode = FALSE /\ lastButtonValue = FALSE /\ faults = 0
  /\ switch = FALSE /\ button = FALSE /\ presses = 0
  /\ pairing = Unpaired /\ bundle = Unpaired /\ activity = "front" /\ alive = TRUE /\ chosen = {}

Loses == Lose /\ UNCHANGED <<lazy, screen, user, controller>>

Next == NetStep \/ DisplayStep \/ User \/ ControllerStep \/ Noise \/ Loses

\* The threads of the device are scheduled.
Fairness == WF_vars(NetStep) /\ WF_vars(DisplayStep)
FairSpec == Init /\ [][Next]_vars /\ Fairness

-----------------------------------------------------------------------------
(* Properties *)

\* Type invariant.
TypeOK ==
  /\ NetTypeOK
  /\ net \in {"start", "ntp", "off", "connect", "subscribe", "run", "decrypt", "disconnect"}
  /\ topic \in Suffixes \cup {None} /\ key \in Keys \cup {None}
  /\ initialising \subseteq {"net", "display"} \X {"topic", "key"}
  /\ display \in {"topic", "key", "loop"} /\ qr \in Pairings
  /\ {showQRCode, lastButtonValue, switch, button, alive} \subseteq BOOLEAN
  /\ presses \in 0 .. MaxPresses
  /\ faults \in 0 .. presses   \* every fault is due to a press of its own
  /\ {pairing, bundle} \subseteq Pairings
  /\ activity \in {"front", "away"} /\ chosen \subseteq Colours
  /\ inbox \in Seq(Messages) /\ last \in Messages \cup {None}

\* The QR code never disagrees with what the device subscribes to and decrypts
\* with, whichever thread makes topic and key first (mqtt.cc:71, crypto.cc:35).
CodeAgrees == qr.suffix \in {None, topic} /\ qr.key \in {None, key}

\* The lamp only ever shows a colour that was chosen in a controller with the
\* key of the device: not what came from another lamp's controller, one that
\* forgot the key, or any other client (README.md:19, 30).
OnlyChosen == rgb \in chosen \cup {None}

\* Once everything sent has arrived the lamp shows the last message: its colour,
\* or, with LED 7, that it could not be decrypted (mqtt.cc:128-143).
ShowsLast ==
  inbox = <<>> /\ last # None =>
    IF last.key # None /\ last.key = key THEN rgb = last.colour /\ 7 \notin leds ELSE 7 \in leds

\* What the controller encrypts with the key of a lamp it sends to the topic of
\* that lamp, after any sequence of scans, interruptions and restores
\* (MainActivity.java:78-92, 176-218).
PairsMatch ==
  pairing.key \in Keys \cup {OtherLamp.key} => pairing \in {OtherLamp, qr}
=============================================================================

------------------------------- MODULE MCHugh ------------------------------
(* A small instance of both versions of Hugh for TLC: a behaviour is one of *)
(* the version that its initial state chooses, and the other one does not   *)
(* start.  In the second one this device may come to have the same suffix   *)
(* as another lamp, never its key.                                          *)
EXTENDS HughV2

CONSTANTS suffix1, suffix2, key1, key2, Partial, red, blue,
  Failures, Presses, Deliveries   \* bounds of the first version

MCKeys == {key1}
MCOtherLamp == [suffix |-> suffix2, key |-> key2]

\* The version that runs, and the state of the first one.
VARIABLES
  version,
  net1, leds1, rgb1, topic1, handles1, connection1, subscription1, inbox1, last1,
  failures1, messages1,
  barrier, graphs, lastSwitchValue, faults1, switch1, presses1, name

first == <<net1, leds1, rgb1, topic1, handles1, connection1, subscription1, inbox1, last1,
           failures1, messages1, barrier, graphs, lastSwitchValue, faults1, switch1, presses1, name>>

V1 == INSTANCE HughV1 WITH
        MaxFailures <- Failures, MaxPresses <- Presses, MaxMessages <- Deliveries,
        net <- net1, leds <- leds1, rgb <- rgb1, topic <- topic1, handles <- handles1,
        connection <- connection1, subscription <- subscription1, inbox <- inbox1,
        last <- last1, failures <- failures1, messages <- messages1,
        faults <- faults1, switch <- switch1, presses <- presses1

ASSUME FirstAssumption == V1!PartialOK /\ {Failures, Presses, Deliveries} \subseteq Nat

MCInit == version \in {1, 2} /\ V1!Init /\ Init

FirstRuns == version = 1 /\ UNCHANGED <<version, vars>>
SecondRuns == version = 2 /\ UNCHANGED <<version, first>>

MCNext == (FirstRuns /\ V1!Next) \/ (SecondRuns /\ Next)
MCVars == <<version, first, vars>>

\* The two threads of the device are scheduled, whichever version it runs.
MCFairSpec ==
  /\ MCInit /\ [][MCNext]_MCVars
  /\ WF_MCVars((FirstRuns /\ V1!NetStep) \/ (SecondRuns /\ NetStep))
  /\ WF_MCVars((FirstRuns /\ V1!DisplayStep) \/ (SecondRuns /\ DisplayStep))

\* The invariants of the first version: the topic the network thread uses is
\* complete (HughTheLightbulb mqtt.cc:117-120), the status LEDs tell the truth and a
\* connection is freed before the next one is made, as in the second version.
FirstOK == V1!TypeOK /\ V1!TopicComplete /\ V1!LedsTruthful /\ V1!OneConnection

\* Whichever version it runs, after the last failure, loss and injected fault the
\* device ends up connected and subscribed to its topic, with nothing left to receive.
ComesBack == <>[](IF version = 1 THEN V1!Back ELSE Back)
=============================================================================

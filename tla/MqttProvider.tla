---------------------------- MODULE MqttProvider ----------------------------
(***************************************************************************)
(* The provider of the Sonata build: provider_run and update_status of     *)
(* mqtt.cc with the status messages of status.cc.  It follows the "system" *)
(* item of the broker: when the id of the system changes it moves its      *)
(* subscription to the topic of the new id, and it keeps the status of the *)
(* system as a retained message.  The connection may be lost, any exchange *)
(* with the MQTT service may fail, and the item may change at any time.    *)
(***************************************************************************)
EXTENDS Integers, FiniteSets

CONSTANTS
  Ids,           \* ids the system can have; each names a config and a status topic
  Settings,      \* what the switches can be set to
  MaxVersion,    \* bound: versions of the item
  MaxLosses,     \* bound: connections lost in mqtt_run
  MaxFailures,   \* bound: exchanges and claims that fail
  None

ASSUME ProviderAssumption ==
  /\ {MaxVersion, MaxLosses, MaxFailures} \subseteq Nat
  /\ None \notin Ids \cup Settings

VARIABLES
  item,            \* the "system" item: its version and value
  step,            \* where provider_run is
  read,            \* config, the last answer of get_config
  configVersion,   \* the static version last looked at
  sysConfig,       \* the static configuration it has claimed, or None
  subscribed,      \* the static flag
  topic,           \* the id config_topic and status_topic were generated for
  cleanSession,    \* MQTT service: whether it forgets a session that ends, never changes
  session,         \* MQTT service: ids whose config topic is subscribed to
  retained,        \* MQTT service: retained[i], the status of id i
  losses, failures

statics == <<configVersion, sysConfig, subscribed, topic>>
service == <<cleanSession, session, retained>>
bounds == <<losses, failures>>
vars == <<item, step, read, statics, service, bounds>>

Values == [id : Ids, switches : Settings]
Goto(s) == step' = s
Fails == failures < MaxFailures /\ failures' = failures + 1

\* system_config publishes a new value.
SetItem ==
  /\ item.version < MaxVersion
  /\ \E v \in Values :
       /\ v # item.value
       /\ item' = [version |-> item.version + 1, value |-> v]
  /\ UNCHANGED <<step, read, statics, service, bounds>>

\* A new connection.  The client id never changes, so a service that keeps
\* sessions resumes the old one.
Connect ==
  /\ step = "connect"
  /\ session' = IF cleanSession THEN {} ELSE session
  /\ Goto("update")
  /\ UNCHANGED <<item, read, statics, cleanSession, retained, bounds>>

\* update_status: nothing to do, or the version is noted, before the claim.
NoNews ==
  /\ step = "update" /\ item.version \in {0, configVersion}
  /\ Goto("run")
  /\ UNCHANGED <<item, read, statics, service, bounds>>

News ==
  /\ step = "update" /\ item.version \notin {0, configVersion}
  /\ read' = item
  /\ configVersion' = item.version
  /\ Goto("claim")
  /\ UNCHANGED <<item, sysConfig, subscribed, topic, service, bounds>>

\* Mutant: the topics stay as they were first generated.
IdIgnored == sysConfig # None

\* Whether the topics stay as they are.
IdUnchanged == sysConfig # None /\ read.value.id = sysConfig.id

\* Mutant: the old topic is not unsubscribed from.
AfterClaimOnlySubscribe == IF IdUnchanged THEN "send" ELSE "subscribe"

\* Which exchanges with the MQTT service the new value calls for.
AfterClaim == IF IdUnchanged THEN "send" ELSE IF subscribed THEN "clear" ELSE "subscribe"

\* The value read is claimed and replaces the old one.
Claim ==
  /\ step = "claim"
  /\ sysConfig' = read.value
  /\ Goto(AfterClaim)
  /\ UNCHANGED <<item, read, configVersion, subscribed, topic, service, bounds>>

\* The claim fails: the value is gone because there is a newer one, or the
\* quota is exhausted.
ClaimFails ==
  /\ step = "claim"
  /\ (item.version > read.version /\ UNCHANGED failures) \/ Fails
  /\ Goto("disconnect")
  /\ UNCHANGED <<item, read, statics, service, losses>>

\* Mutant: the status of the old id is left behind.
ClearNothing ==
  /\ step = "clear"
  /\ Goto("unsubscribe")
  /\ UNCHANGED <<item, read, statics, service, bounds>>

\* clear_status: an empty message removes the status of the old id.  An error
\* is logged and ignored.
Clear ==
  /\ step = "clear"
  /\ \/ retained' = [retained EXCEPT ![topic] = None] /\ UNCHANGED failures
     \/ Fails /\ retained' \in {retained, [retained EXCEPT ![topic] = None]}
  /\ Goto("unsubscribe")
  /\ UNCHANGED <<item, read, statics, cleanSession, session, losses>>

\* The old config topic is unsubscribed from.
Unsubscribe ==
  /\ step = "unsubscribe"
  /\ session' = session \ {topic}
  /\ Goto("subscribe")
  /\ UNCHANGED <<item, read, statics, cleanSession, retained, bounds>>

\* No acknowledgement: the service may have done it or not.
UnsubscribeFails ==
  /\ step = "unsubscribe"
  /\ Fails
  /\ session' \in {session, session \ {topic}}
  /\ Goto("disconnect")
  /\ UNCHANGED <<item, read, statics, cleanSession, retained, losses>>

\* generate_topics, then the subscription.
Subscribe ==
  /\ step = "subscribe"
  /\ topic' = sysConfig.id
  /\ session' = session \cup {sysConfig.id}
  /\ subscribed' = TRUE
  /\ Goto("send")
  /\ UNCHANGED <<item, read, configVersion, sysConfig, cleanSession, retained, bounds>>

SubscribeFails ==
  /\ step = "subscribe"
  /\ Fails
  /\ topic' = sysConfig.id
  /\ session' \in {session, session \cup {sysConfig.id}}
  /\ Goto("disconnect")
  /\ UNCHANGED <<item, read, configVersion, sysConfig, subscribed, cleanSession, retained, losses>>

\* send_status: an error is logged and ignored.
Send ==
  /\ step = "send"
  /\ \/ retained' = [retained EXCEPT ![topic] = sysConfig.switches] /\ UNCHANGED failures
     \/ Fails /\ retained' \in {retained, [retained EXCEPT ![topic] = sysConfig.switches]}
  /\ Goto("run")
  /\ UNCHANGED <<item, read, statics, cleanSession, session, losses>>

\* mqtt_run returns and the loop goes on, or it finds the connection lost.
Run ==
  /\ step = "run"
  /\ Goto("update")
  /\ UNCHANGED <<item, read, statics, service, bounds>>

Lose ==
  /\ step = "run" /\ losses < MaxLosses
  /\ losses' = losses + 1
  /\ Goto("disconnect")
  /\ UNCHANGED <<item, read, statics, service, failures>>

Disconnect ==
  /\ step = "disconnect"
  /\ Goto("connect")
  /\ UNCHANGED <<item, read, statics, service, bounds>>

Init ==
  /\ item = [version |-> 0, value |-> None]
  /\ step = "connect"
  /\ read = item
  /\ configVersion = 0 /\ sysConfig = None /\ subscribed = FALSE /\ topic = None
  /\ cleanSession \in BOOLEAN /\ session = {} /\ retained = [i \in Ids |-> None]
  /\ losses = 0 /\ failures = 0

ProviderStep ==
  \/ Connect \/ NoNews \/ News \/ Claim \/ ClaimFails \/ Clear \/ Unsubscribe
  \/ UnsubscribeFails \/ Subscribe \/ SubscribeFails \/ Send \/ Run \/ Lose \/ Disconnect

Next == SetItem \/ ProviderStep

\* The thread of the provider runs, and finds the MQTT service when it connects.
FairSpec == Init /\ [][Next]_vars /\ WF_vars(ProviderStep)

-----------------------------------------------------------------------------
(* Properties *)

\* Type invariant.
TypeOK ==
  /\ item.version \in 0 .. MaxVersion /\ item.value \in Values \cup {None}
  /\ step \in {"connect", "update", "claim", "clear", "unsubscribe", "subscribe", "send",
               "run", "disconnect"}
  /\ read.version \in 0 .. item.version /\ read.value \in Values \cup {None}
  /\ configVersion \in 0 .. item.version
  /\ sysConfig \in Values \cup {None}
  /\ subscribed \in BOOLEAN /\ topic \in Ids \cup {None}
  /\ cleanSession \in BOOLEAN /\ session \subseteq Ids /\ retained \in [Ids -> Settings \cup {None}]
  /\ losses \in 0 .. MaxLosses /\ failures \in 0 .. MaxFailures

\* The system listens to the configuration of one id at most, the one that the
\* callback takes messages to be for: no failure, loss or change of the id
\* leaves it subscribed to an id it had before (mqtt.cc:163-199).  A service
\* that keeps sessions may hold on to a subscription it did not acknowledge.
OneSubscription == cleanSession \/ failures = 0 => session \subseteq {topic}

\* Every status that stays behind for an id the system no longer has is due to
\* a message that failed (README.md:607).
NoStaleStatus == Cardinality({i \in Ids \ {topic} : retained[i] # None}) <= failures

\* Whatever connection is lost, the system ends up subscribed to the topic of its
\* id (README.md:577) where the service keeps the session: the comment at
\* mqtt.cc:272 says so.
Subscribed == <>[](item.version > 0 => item.value.id \in session)
Retried == ~cleanSession => Subscribed

\* The system reports its current switches under its current id (mqtt.cc:163-199).
Reported == <>[](item.version > 0 => retained[item.value.id] = item.value.switches)

\* If no exchange and no claim fails, both are so: whatever changes and whatever
\* connection is lost, the subscription and the status follow the last value.
FollowsReliably == [](failures = 0) => Retried /\ Reported
=============================================================================

------------------------- MODULE MqttProviderProofs -------------------------
(***************************************************************************)
(* Proofs about the MQTT provider: for any ids, settings and bounds, over  *)
(* any number of lost connections and failed exchanges.                    *)
(***************************************************************************)
EXTENDS MqttProvider, FiniteSetTheorems, TLAPS

\* A value is claimed before it is used, and only a value.
InHand ==
  /\ item.version > 0 => item.value \in Values
  /\ step = "claim" => read.value \in Values
  /\ step \in {"clear", "unsubscribe", "subscribe", "send"} => sysConfig \in Values

LEMMA ValueTypes == \A v \in Values : v.id \in Ids /\ v.switches \in Settings
BY DEF Values

LEMMA TypedInit == Init => TypeOK /\ InHand
<1> SUFFICES ASSUME Init
             PROVE  TypeOK /\ InHand
  OBVIOUS
<1>1. item.version = 0 /\ item.value = None /\ read.version = 0 /\ read.value = None
  BY DEF Init
<1>2. 0 \in 0 .. MaxVersion /\ 0 \in 0 .. MaxLosses /\ 0 \in 0 .. MaxFailures /\ 0 \in 0 .. 0
  BY ProviderAssumption
<1>3. retained \in [Ids -> Settings \cup {None}]
  BY DEF Init
<1>4. TypeOK
  BY <1>1, <1>2, <1>3 DEF Init, TypeOK
<1>5. InHand
  BY <1>1 DEF Init, InHand
<1> QED
  BY <1>4, <1>5

LEMMA TypedStep == TypeOK /\ InHand /\ [Next]_vars => TypeOK' /\ InHand'
<1> SUFFICES ASSUME TypeOK, InHand, [Next]_vars
             PROVE  TypeOK' /\ InHand'
  OBVIOUS
<1> USE DEF TypeOK, InHand, Goto, statics, service, bounds, Fails
<1>1. CASE SetItem
  <2>1. PICK v \in Values : item' = [version |-> item.version + 1, value |-> v]
    BY <1>1 DEF SetItem
  <2>2. item'.version = item.version + 1 /\ item'.value = v
    BY <2>1
  <2> QED
    BY <1>1, <2>2, ProviderAssumption DEF SetItem
<1>2. CASE Connect
  BY <1>2 DEF Connect
<1>3. CASE NoNews
  BY <1>3 DEF NoNews
<1>4. CASE News
  BY <1>4, ProviderAssumption DEF News
<1>5. CASE Claim
  <2>1. step' \in {"send", "clear", "subscribe"}
    BY <1>5 DEF Claim, AfterClaim
  <2> QED
    BY <1>5, <2>1 DEF Claim
<1>6. CASE ClaimFails
  BY <1>6, ProviderAssumption DEF ClaimFails
<1>7. CASE Clear
  <2>1. retained' \in [Ids -> Settings \cup {None}]
    BY <1>7 DEF Clear
  <2>2. failures' \in 0 .. MaxFailures
    BY <1>7, ProviderAssumption DEF Clear
  <2> QED
    BY <1>7, <2>1, <2>2 DEF Clear
<1>8. CASE Unsubscribe
  BY <1>8 DEF Unsubscribe
<1>9. CASE UnsubscribeFails
  BY <1>9, ProviderAssumption DEF UnsubscribeFails
<1>10. CASE Subscribe
  BY <1>10, ValueTypes DEF Subscribe
<1>11. CASE SubscribeFails
  BY <1>11, ValueTypes, ProviderAssumption DEF SubscribeFails
<1>12. CASE Send
  <2>1. retained' \in [Ids -> Settings \cup {None}]
    BY <1>12, ValueTypes DEF Send
  <2>2. failures' \in 0 .. MaxFailures
    BY <1>12, ProviderAssumption DEF Send
  <2> QED
    BY <1>12, <2>1, <2>2 DEF Send
<1>13. CASE Run
  BY <1>13 DEF Run
<1>14. CASE Lose
  BY <1>14, ProviderAssumption DEF Lose
<1>15. CASE Disconnect
  BY <1>15 DEF Disconnect
<1>16. CASE UNCHANGED vars
  BY <1>16 DEF vars
<1> QED
  BY <1>1, <1>2, <1>3, <1>4, <1>5, <1>6, <1>7, <1>8, <1>9, <1>10, <1>11, <1>12, <1>13, <1>14, <1>15, <1>16
     DEF Next, ProviderStep

\* The state is well typed and what is claimed is a value, for any ids and
\* settings (mqtt.cc:117-197).
THEOREM TypeCorrect == FairSpec => [](TypeOK /\ InHand)
BY TypedInit, TypedStep, PTL DEF FairSpec

-----------------------------------------------------------------------------
(* One subscription *)

\* Before the system subscribes, it has no subscription: it has unsubscribed, or
\* not subscribed since the connection was made, or ever.
Unsubscribed ==
  /\ cleanSession \/ failures = 0 =>
       /\ step = "subscribe" => session = {}
       /\ ~subscribed /\ step \notin {"disconnect", "connect"} => session = {}
  /\ failures = 0 /\ ~subscribed => session = {}

LEMMA SubscriptionStep ==
  TypeOK /\ OneSubscription /\ Unsubscribed /\ [Next]_vars => OneSubscription' /\ Unsubscribed'
<1> SUFFICES ASSUME TypeOK, OneSubscription, Unsubscribed, [Next]_vars
             PROVE  OneSubscription' /\ Unsubscribed'
  OBVIOUS
<1> USE DEF OneSubscription, Unsubscribed, Goto, statics, service, bounds
<1>0. failures \in Nat /\ (Fails => failures' # 0)
  BY ProviderAssumption DEF TypeOK, Fails
<1>1. CASE SetItem
  BY <1>1 DEF SetItem
<1>2. CASE Connect
  BY <1>2 DEF Connect
<1>3. CASE NoNews
  BY <1>3 DEF NoNews
<1>4. CASE News
  BY <1>4 DEF News
<1>5. CASE Claim
  <2>1. step' = "subscribe" => ~subscribed
    BY <1>5 DEF Claim, AfterClaim
  <2>2. step' \notin {"disconnect", "connect"}
    BY <1>5 DEF Claim, AfterClaim
  <2> QED
    BY <1>5, <2>1, <2>2 DEF Claim
<1>6. CASE ClaimFails
  BY <1>6, <1>0 DEF ClaimFails
<1>7. CASE Clear
  BY <1>7, <1>0 DEF Clear
<1>8. CASE Unsubscribe
  BY <1>8 DEF Unsubscribe
<1>9. CASE UnsubscribeFails
  BY <1>9, <1>0 DEF UnsubscribeFails
<1>10. CASE Subscribe
  BY <1>10 DEF Subscribe
<1>11. CASE SubscribeFails
  BY <1>11, <1>0 DEF SubscribeFails
<1>12. CASE Send
  BY <1>12, <1>0 DEF Send
<1>13. CASE Run
  BY <1>13 DEF Run
<1>14. CASE Lose
  BY <1>14 DEF Lose
<1>15. CASE Disconnect
  BY <1>15 DEF Disconnect
<1>16. CASE UNCHANGED vars
  BY <1>16 DEF vars
<1> QED
  BY <1>1, <1>2, <1>3, <1>4, <1>5, <1>6, <1>7, <1>8, <1>9, <1>10, <1>11, <1>12, <1>13, <1>14, <1>15, <1>16
     DEF Next, ProviderStep

\* No failure, loss or change of the id leaves the system subscribed to an id it
\* had before, unless the service keeps a session whose exchange failed
\* (mqtt.cc:163-199).
THEOREM OneSubscriptionOnly == FairSpec => []OneSubscription
<1>1. Init => OneSubscription /\ Unsubscribed
  BY DEF Init, OneSubscription, Unsubscribed
<1> QED
  BY <1>1, SubscriptionStep, TypeCorrect, PTL DEF FairSpec

-----------------------------------------------------------------------------
(* Status messages *)

LEMMA Fewer ==
  ASSUME NEW T, IsFiniteSet(T), NEW S \in SUBSET T, NEW n \in Nat, Cardinality(T) <= n
  PROVE  IsFiniteSet(S) /\ Cardinality(S) <= n
<1>1. IsFiniteSet(S) /\ Cardinality(S) <= Cardinality(T)
  BY FS_Subset
<1>2. Cardinality(S) \in Nat /\ Cardinality(T) \in Nat
  BY <1>1, FS_CardinalityType
<1> QED
  BY <1>1, <1>2

LEMMA OneMore ==
  ASSUME NEW T, IsFiniteSet(T), NEW x, NEW S \in SUBSET (T \cup {x}),
         NEW n \in Nat, Cardinality(T) <= n
  PROVE  IsFiniteSet(S) /\ Cardinality(S) <= n + 1
<1>1. IsFiniteSet(T \cup {x}) /\ Cardinality(T \cup {x}) <= n + 1
  <2>1. /\ IsFiniteSet(T \cup {x})
        /\ \/ Cardinality(T \cup {x}) = Cardinality(T)
           \/ Cardinality(T \cup {x}) = Cardinality(T) + 1
    BY FS_AddElement
  <2>2. Cardinality(T) \in Nat
    BY FS_CardinalityType
  <2> QED
    BY <2>1, <2>2
<1> QED
  BY <1>1, Fewer

\* The ids the service has a status of, and the topic if there is one.
Kept == {i \in Ids : retained[i] # None}
Current == {topic} \cap Ids

\* A status is left behind for every failure at most; as long as the system is not
\* subscribed, and between clearing its status and having a new topic, the current
\* one counts as well, since it is not going to be cleared.
Accounted ==
  /\ IsFiniteSet(Kept)
  /\ Cardinality(Kept \ {topic}) <= failures
  /\ step \in {"unsubscribe", "subscribe"} => Cardinality(Kept) <= failures
  /\ ~subscribed => Cardinality(Kept \cup Current) <= failures

LEMMA AccountedFinite ==
  ASSUME IsFiniteSet(Kept)
  PROVE  IsFiniteSet(Kept \ {topic}) /\ IsFiniteSet(Kept \cup Current)
<1>1. IsFiniteSet(Kept \ {topic})
  BY FS_Subset, Kept \ {topic} \subseteq Kept
<1>2. IsFiniteSet(Kept \cup {topic})
  BY FS_AddElement
<1>3. IsFiniteSet(Kept \cup Current)
  BY <1>2, FS_Subset, Kept \cup Current \subseteq Kept \cup {topic} DEF Current
<1> QED
  BY <1>1, <1>3

LEMMA AccountedStep == TypeOK /\ Accounted /\ [Next]_vars => Accounted'
<1> SUFFICES ASSUME TypeOK, Accounted, [Next]_vars
             PROVE  Accounted'
  OBVIOUS
<1> USE DEF Goto, statics, service, bounds
<1>1. failures \in Nat
  BY ProviderAssumption DEF TypeOK
<1>2. /\ IsFiniteSet(Kept) /\ IsFiniteSet(Kept \ {topic}) /\ IsFiniteSet(Kept \cup Current)
      /\ Cardinality(Kept \ {topic}) <= failures
  BY AccountedFinite DEF Accounted
<1>3. /\ Cardinality(Kept) \in Nat /\ Cardinality(Kept \ {topic}) \in Nat
      /\ Cardinality(Kept \cup Current) \in Nat
  BY <1>2, FS_CardinalityType
<1>4. ASSUME UNCHANGED <<topic, subscribed, retained>>, failures' \in {failures, failures + 1},
             step' \in {"unsubscribe", "subscribe"} =>
               step \in {"unsubscribe", "subscribe"} \/ ~subscribed
      PROVE  Accounted'
  <2>1. Kept' = Kept /\ Current' = Current
    BY <1>4 DEF Kept, Current
  <2>2. ~subscribed => Cardinality(Kept) <= failures
    BY <1>1, <1>2, Fewer, Kept \subseteq Kept \cup Current DEF Accounted
  <2> QED
    BY <1>1, <1>2, <1>3, <1>4, <2>1, <2>2 DEF Accounted
<1>5. CASE Clear
  <2>1. /\ topic' = topic /\ subscribed' = subscribed /\ step' = "unsubscribe"
        /\ Kept' \subseteq Kept
        /\ \/ Kept' = Kept \ {topic} /\ failures' = failures
           \/ failures' = failures + 1
    BY <1>5 DEF Clear, Kept, TypeOK, Fails
  <2>2. failures' \in Nat /\ failures <= failures'
    BY <1>1, <2>1
  <2>3. IsFiniteSet(Kept') /\ Cardinality(Kept') <= failures'
    <3>1. CASE Kept' = Kept \ {topic} /\ failures' = failures
      BY <3>1, <1>2
    <3>2. CASE failures' = failures + 1
      <4>1. Kept' \subseteq (Kept \ {topic}) \cup {topic}
        BY <2>1
      <4> QED
        BY <3>2, <4>1, <1>1, <1>2, OneMore
    <3> QED
      BY <2>1, <3>1, <3>2
  <2>4. Cardinality(Kept' \ {topic'}) <= failures'
    BY <2>2, <2>3, Fewer, Kept' \ {topic'} \subseteq Kept'
  <2>5. ~subscribed' => Cardinality(Kept' \cup Current') <= failures'
    <3>1. SUFFICES ASSUME ~subscribed'
                   PROVE  Cardinality(Kept' \cup Current') <= failures'
      OBVIOUS
    <3>2. Cardinality(Kept \cup Current) <= failures'
      BY <1>1, <1>3, <2>1, <2>2, <3>1 DEF Accounted
    <3>3. Kept' \cup Current' \subseteq Kept \cup Current
      BY <2>1 DEF Current
    <3> QED
      BY <1>2, <2>2, <3>2, <3>3, Fewer
  <2> QED
    BY <2>1, <2>3, <2>4, <2>5 DEF Accounted
<1>6. CASE Subscribe
  <2>1. Kept' = Kept /\ failures' = failures /\ subscribed' /\ Cardinality(Kept) <= failures
        /\ step' = "send"
    BY <1>6 DEF Subscribe, Kept, Accounted
  <2>2. Cardinality(Kept' \ {topic'}) <= failures'
    BY <1>1, <1>2, <2>1, Fewer, Kept \ {topic'} \subseteq Kept
  <2> QED
    BY <1>2, <2>1, <2>2 DEF Accounted
<1>7. CASE SubscribeFails
  <2>1. /\ Kept' = Kept /\ failures' = failures + 1 /\ Cardinality(Kept) <= failures
        /\ step' = "disconnect"
    BY <1>7 DEF SubscribeFails, Kept, Accounted, Fails
  <2>2. Kept \ {topic'} \subseteq Kept \cup {topic'} /\ Kept \cup Current' \subseteq Kept \cup {topic'}
    BY DEF Current
  <2>3. Cardinality(Kept \ {topic'}) <= failures + 1 /\ Cardinality(Kept \cup Current') <= failures + 1
    BY <1>1, <1>2, <2>1, <2>2, OneMore
  <2> QED
    BY <1>2, <2>1, <2>3 DEF Accounted
<1>8. CASE Send
  <2>1. /\ topic' = topic /\ subscribed' = subscribed /\ step' = "run"
        /\ Kept' \subseteq Kept \cup Current
        /\ failures' \in {failures, failures + 1}
    BY <1>8 DEF Send, Kept, Current, TypeOK, Fails
  <2>2. failures' \in Nat /\ failures <= failures'
    BY <1>1, <2>1
  <2>3. IsFiniteSet(Kept')
    BY <1>2, <2>1, FS_Subset
  <2>4. Cardinality(Kept' \ {topic'}) <= failures'
    <3>1. Kept' \ {topic'} \subseteq Kept \ {topic}
      BY <2>1 DEF Current
    <3>2. Cardinality(Kept \ {topic}) <= failures'
      BY <1>1, <1>2, <1>3, <2>2
    <3> QED
      BY <1>2, <2>2, <3>1, <3>2, Fewer
  <2>5. ~subscribed' => Cardinality(Kept' \cup Current') <= failures'
    <3>1. SUFFICES ASSUME ~subscribed'
                   PROVE  Cardinality(Kept' \cup Current') <= failures'
      OBVIOUS
    <3>2. Cardinality(Kept \cup Current) <= failures'
      BY <1>1, <1>3, <2>1, <2>2, <3>1 DEF Accounted
    <3>3. Kept' \cup Current' \subseteq Kept \cup Current
      BY <2>1 DEF Current
    <3> QED
      BY <1>2, <2>2, <3>2, <3>3, Fewer
  <2> QED
    BY <2>1, <2>3, <2>4, <2>5 DEF Accounted
<1>9. CASE Claim
  BY <1>4, <1>9 DEF Claim, AfterClaim
<1>10. CASE SetItem \/ Connect \/ NoNews \/ News \/ Run \/ Lose \/ Disconnect \/ Unsubscribe
  BY <1>4, <1>10 DEF SetItem, Connect, NoNews, News, Run, Lose, Disconnect, Unsubscribe
<1>11. CASE ClaimFails \/ UnsubscribeFails
  BY <1>4, <1>11 DEF ClaimFails, UnsubscribeFails, Fails
<1>12. CASE UNCHANGED vars
  BY <1>4, <1>12 DEF vars
<1> QED
  BY <1>5, <1>6, <1>7, <1>8, <1>9, <1>10, <1>11, <1>12 DEF Next, ProviderStep

\* Every status left behind for an id the system no longer has is due to a
\* failure of its own, however the failures fall (README.md:607).
THEOREM StaleStatusesCounted == FairSpec => []NoStaleStatus
<1>1. Init => Accounted
  <2> SUFFICES ASSUME Init
               PROVE  Accounted
    OBVIOUS
  <2>1. Kept = {} /\ Current = {} /\ failures = 0 /\ step = "connect"
    BY ProviderAssumption DEF Init, Kept, Current
  <2> QED
    BY <2>1, FS_EmptySet DEF Accounted
<1>2. Accounted => NoStaleStatus
  <2>1. Kept \ {topic} = {i \in Ids \ {topic} : retained[i] # None}
    BY DEF Kept
  <2> QED
    BY <2>1 DEF Accounted, NoStaleStatus
<1> QED
  BY <1>1, <1>2, AccountedStep, TypeCorrect, PTL DEF FairSpec
=============================================================================

------------------------ MODULE ConfigMessagesProofs ------------------------
(***************************************************************************)
(* Proofs about the way of a message through the configuration demo, for   *)
(* any messages, systems, delays and failures.                             *)
(***************************************************************************)
EXTENDS ConfigMessages, SequenceTheorems, WellFoundedInduction, TLAPS

-----------------------------------------------------------------------------
(* The inductive invariant *)

\* As long as no call failed, every parser called for is registered.
Booting ==
  /\ boot \in 0 .. Len(Parsers)
  /\ failures \in Nat
  /\ failures = 0 => \A i \in 1 .. boot : Parsers[i] \in registered

\* Only the Sonata build has other clients, or looks at signatures.
Kinds ==
  /\ build \in {"sonata", "stub", "ibex"}
  /\ signed \in BOOLEAN
  /\ build # "sonata" => ~signed
  /\ \A message \in traffic : IsMessage(message)
  /\ script \in Nat

\* The system item is one that system_config_run published, so it comes after
\* the parsers; the topic of the MQTT client is made of it.
Published ==
  /\ value = [i \in Items |-> value[i]]
  /\ value["system"] # None => Started
  /\ build = "sonata" /\ value["system"] # None =>
       \E config \in Systems : value["system"].id = String(config.id)
Subscribed ==
  config_topic # <<>> =>
    /\ build = "sonata"
    /\ Started
    /\ \E config \in Systems : config_topic = Topic(String(config.id), <<"#">>)

IInv == Kinds /\ Booting /\ Published /\ Subscribed

-----------------------------------------------------------------------------
(* Lemmas: the texts *)

\* A set of numbers has a first one, and First finds it.
LEMMA FirstIsLeast ==
  ASSUME NEW S \in SUBSET Nat, S # {}
  PROVE  First(S) \in S /\ \A m \in S : First(S) <= m
<1>1. IsWellFoundedOn(OpToRel(<, Nat), Nat)
  BY NatLessThanWellFounded, Zenon
<1>2. PICK n \in S : \A m \in S : ~(<<m, n>> \in OpToRel(<, Nat))
  BY <1>1, WFMin
<1>3. ASSUME NEW m \in S PROVE n <= m
  <2>1. ~(m < n)
    BY <1>2, <1>3 DEF OpToRel
  <2> QED
    BY <2>1
<1> QED
  BY <1>2, <1>3, Zenon DEF First

\* A text is a sequence of the elements of any set that has all its characters.
LEMMA TextType ==
  ASSUME NEW text, IsText(text), NEW S, ToSet(text) \subseteq S
  PROVE  text \in Seq(S)
BY LenProperties, ElementOfSeq DEF IsText

\* A text ends before the first NUL.
LEMMA StringType ==
  ASSUME NEW S, NEW array \in Seq(S)
  PROVE  String(array) \in Seq(S)
<1> DEFINE nul == {i \in DOMAIN array : array[i] = "NUL"}
<1>1. CASE nul = {}
  BY <1>1 DEF String
<1>2. CASE nul # {}
  <2>1. DOMAIN array = 1 .. Len(array) /\ Len(array) \in Nat
    BY LenProperties
  <2>2. nul \in SUBSET Nat
    BY <2>1
  <2>3. First(nul) \in 1 .. Len(array)
    BY <1>2, <2>1, <2>2, FirstIsLeast
  <2>4. \A i \in 1 .. First(nul) - 1 : array[i] \in S
    BY <2>1, <2>3, ElementOfSeq
  <2>5. SubSeq(array, 1, First(nul) - 1) \in Seq(S)
    BY <2>3, <2>4, SubSeqProperties
  <2> QED
    BY <1>2, <2>5 DEF String
<1> QED
  BY <1>1, <1>2

\* What a parser copies, if it does not reject it, is the text up to its NUL: a
\* NUL is none of the valid characters.
LEMMA CopiedIsString ==
  ASSUME NEW array, IsText(array), NEW valid, "NUL" \notin valid,
         Copied(array, valid) # Rejected
  PROVE  Copied(array, valid) = String(array)
<1> DEFINE stops == {i \in DOMAIN array : array[i] \notin valid}
           nul == {i \in DOMAIN array : array[i] = "NUL"}
<1>1. nul \subseteq stops
  OBVIOUS
<1>2. CASE stops = {}
  BY <1>1, <1>2 DEF Copied, String
<1>3. CASE stops # {}
  <2>1. stops \in SUBSET Nat /\ nul \in SUBSET Nat
    BY LenProperties DEF IsText
  <2>2. First(stops) \in stops /\ \A i \in stops : First(stops) <= i
    BY <1>3, <2>1, FirstIsLeast
  <2>3. Copied(array, valid) =
          IF array[First(stops)] = "NUL" THEN SubSeq(array, 1, First(stops) - 1) ELSE Rejected
    BY <1>3, Zenon DEF Copied, First
  <2>4. array[First(stops)] = "NUL"
    BY <2>3
  <2>5. First(stops) \in nul
    BY <2>2, <2>4
  <2>6. First(nul) \in nul /\ \A i \in nul : First(nul) <= i
    BY <2>1, <2>5, FirstIsLeast
  <2>7. First(nul) = First(stops)
    <3>1. First(nul) <= First(stops) /\ First(stops) <= First(nul)
      BY <1>1, <2>2, <2>5, <2>6
    <3> QED
      BY <2>1, <2>2, <2>6, <3>1
  <2> QED
    BY <2>3, <2>4, <2>5, <2>7 DEF String
<1> QED
  BY <1>2, <1>3

\* The id of the system item is the text that was published.
LEMMA SystemParsed ==
  ASSUME NEW config \in Systems, Parse("system", config) # Rejected
  PROVE  Parse("system", config).id = String(config.id)
<1> DEFINE v == [id |-> Copied(config.id, IdChars), switches |-> config.switches]
<1>1. Parse("system", config) = parse_system_config(config)
  BY DEF Parse
<1>2. config # Garbage
  BY <1>1 DEF parse_system_config
<1>3. Parse("system", config) = Whole(v)
  BY <1>1, <1>2 DEF parse_system_config
<1>4. Whole(v) = v /\ v.id # Rejected
  <2>1. "id" \in DOMAIN v
    OBVIOUS
  <2> HIDE DEF v
  <2>2. \A f \in DOMAIN v : v[f] # Rejected
    BY <1>3 DEF Whole
  <2> QED
    BY <2>1, <2>2 DEF Whole
<1>5. "NUL" \notin IdChars
  BY DEF IdChars
<1>6. Copied(config.id, IdChars) = String(config.id)
  BY <1>4, <1>5, SystemsAssumption, CopiedIsString
<1> QED
  BY <1>3, <1>4, <1>6

\* A message for an id as long as the one of the topic keeps its name, and one
\* without a name is ignored.
LEMMA NameOfTopic ==
  ASSUME NEW S, NEW p \in Seq(S), NEW id \in Seq(S), NEW n \in Seq(S), {"/", "#"} \subseteq S,
         Len(p) = Len(id), config_topic = Topic(p, <<"#">>)
  PROVE  Name(Topic(id, n)) = IF n = <<>> THEN None ELSE n
<1> DEFINE front == id \o <<"/">>
           topic == Topic(id, n)
<1>1. front \in Seq(S) /\ Len(front) = Len(id) + 1 /\ Len(id) \in Nat
  BY ConcatProperties, LenProperties
<1>2. Len(config_topic) = Len(id) + 2 /\ config_topic \in Seq(S)
  BY ConcatProperties, LenProperties DEF Topic
<1>3. topic = front \o n
  BY ConcatAssociative DEF Topic
<1> HIDE DEF front, topic
<1>4. /\ topic \in Seq(S)
      /\ Len(topic) = Len(front) + Len(n)
      /\ \A i \in 1 .. Len(front) + Len(n) :
           topic[i] = IF i <= Len(front) THEN front[i] ELSE n[i - Len(front)]
  <2>1. front \in Seq(S) /\ n \in Seq(S)
    BY <1>1
  <2>2. /\ front \o n \in Seq(S)
        /\ Len(front \o n) = Len(front) + Len(n)
        /\ \A i \in 1 .. Len(front) + Len(n) :
             (front \o n)[i] = IF i <= Len(front) THEN front[i] ELSE n[i - Len(front)]
    BY <2>1, ConcatProperties, Zenon
  <2> QED
    BY <1>3, <2>2, Zenon
<1>5. Len(n) \in Nat
  BY LenProperties
<1>6. config_topic # <<>>
  BY <1>1, <1>2, EmptySeq
<1>7. CASE n = <<>>
  <2>1. Len(n) = 0
    BY <1>7, EmptySeq
  <2>2. ~(Len(config_topic) - 1 < Len(topic))
    BY <1>1, <1>2, <1>4, <2>1
  <2>3. Name(topic) = None
    BY <2>2 DEF Name
  <2> QED
    BY <1>7, <2>3 DEF topic
<1>8. CASE n # <<>>
  <2> DEFINE m == Len(front) + 1
             last == Len(topic)
  <2>1. Len(n) > 0
    BY <1>5, <1>8, EmptySeq
  <2>2. /\ m = Len(config_topic) /\ m \in Nat /\ last \in Nat /\ m <= last /\ last - m + 1 = Len(n)
        /\ Len(config_topic) - 1 < last
    BY <1>1, <1>2, <1>4, <1>5, <2>1
  <2>3. Name(topic) = SubSeq(topic, m, last)
    BY <1>6, <2>2 DEF Name
  <2>4. \A i \in m .. last : topic[i] \in S
    <3>1. \A i \in 1 .. Len(topic) : topic[i] \in S
      BY <1>4, ElementOfSeq
    <3> QED
      BY <1>1, <2>2, <3>1
  <2>5. /\ SubSeq(topic, m, last) \in Seq(S)
        /\ Len(SubSeq(topic, m, last)) = Len(n)
        /\ \A i \in 1 .. Len(n) : SubSeq(topic, m, last)[i] = topic[m + i - 1]
    <3> HIDE DEF m, last
    <3> QED
      BY <2>2, <2>4, SubSeqProperties
  <2>6. ASSUME NEW i \in 1 .. Len(n) PROVE topic[m + i - 1] = n[i]
    <3> DEFINE j == m + i - 1
    <3>1. j \in 1 .. Len(front) + Len(n) /\ ~(j <= Len(front)) /\ j - Len(front) = i
      BY <1>1, <1>5, <2>6
    <3> HIDE DEF j
    <3>2. topic[j] = n[i]
      BY <1>4, <3>1
    <3> QED
      BY <3>2 DEF j
  <2>7. SubSeq(topic, m, last) = n
    BY <2>5, <2>6, SeqEqual
  <2> QED
    BY <1>8, <2>3, <2>7 DEF topic
<1> QED
  BY <1>7, <1>8

-----------------------------------------------------------------------------
(* Lemmas: numbers and their digits *)

\* An induction over the natural numbers: what fails somewhere fails first
\* somewhere.
LEMMA Everywhere ==
  ASSUME NEW Good, \A n \in Nat : (\A m \in Nat : m < n => m \in Good) => n \in Good
  PROVE  Nat \subseteq Good
<1> SUFFICES ASSUME Nat \ Good # {} PROVE FALSE
  OBVIOUS
<1> DEFINE bad == Nat \ Good
<1>1. First(bad) \in bad /\ \A m \in bad : First(bad) <= m
  BY FirstIsLeast
<1> DEFINE n == First(bad)
<1> HIDE DEF n
<1>2. n \in Nat /\ n \notin Good /\ \A m \in Nat \ Good : n <= m
  BY <1>1 DEF n
<1>3. \A m \in Nat : m < n => m \in Good
  BY <1>2
<1> QED
  BY <1>2, <1>3

\* The accumulators exist, digit by digit.
Accumulates(acc, text, n) ==
  acc = [i \in 0 .. n |-> IF i = 0 THEN [high |-> 0, low |-> 0] ELSE AddDigit(acc[i - 1], text[i])]

LEMMA AccumulatorExists ==
  ASSUME NEW text, NEW n \in Nat
  PROVE  \E acc : Accumulates(acc, text, n)
<1> DEFINE zero == [high |-> 0, low |-> 0]
           Good == {m \in Nat : \E acc : Accumulates(acc, text, m)}
<1>1. ASSUME NEW m \in Nat, \A k \in Nat : k < m => k \in Good
      PROVE  m \in Good
  <2>1. CASE m = 0
    <3> DEFINE acc == [i \in 0 .. 0 |-> zero]
    <3>1. Accumulates(acc, text, 0)
      BY DEF Accumulates
    <3> QED
      BY <2>1, <3>1
  <2>2. CASE m # 0
    <3>1. PICK before : Accumulates(before, text, m - 1)
      BY <1>1, <2>2
    <3> DEFINE acc == [i \in 0 .. m |-> IF i < m THEN before[i] ELSE AddDigit(before[m - 1], text[m])]
               step == [i \in 0 .. m |-> IF i = 0 THEN zero ELSE AddDigit(acc[i - 1], text[i])]
    <3> HIDE DEF zero
    <3>2. \A i \in 0 .. m - 1 :
            before[i] = IF i = 0 THEN zero ELSE AddDigit(before[i - 1], text[i])
      BY <3>1 DEF Accumulates, zero
    <3>3. ASSUME NEW i \in 0 .. m
          PROVE  acc[i] = step[i]
      <4>1. CASE i = 0
        BY <2>2, <3>2, <4>1
      <4>2. CASE i # 0 /\ i < m
        <5>1. i \in 0 .. m - 1 /\ i - 1 \in 0 .. m /\ i - 1 < m
          BY <4>2
        <5>2. acc[i] = before[i] /\ acc[i - 1] = before[i - 1]
          BY <4>2, <5>1
        <5> QED
          BY <3>2, <4>2, <5>1, <5>2
      <4>3. CASE i = m
        <5>1. m - 1 \in 0 .. m /\ m - 1 < m
          BY <2>2
        <5>2. acc[m - 1] = before[m - 1]
          BY <5>1
        <5> QED
          BY <2>2, <4>3, <5>2
      <4> QED
        BY <4>1, <4>2, <4>3
    <3>4. acc = step
      BY <3>3
    <3>5. Accumulates(acc, text, m)
      BY <3>4 DEF Accumulates, zero
    <3> QED
      BY <3>5
  <2> QED
    BY <2>1, <2>2
<1>2. Nat \subseteq Good
  <2> HIDE DEF Good
  <2> QED
    BY <1>1, Everywhere
<1> QED
  BY <1>2

\* The loop of get_number, one digit after the other.
LEMMA NumberSteps ==
  ASSUME NEW text, Len(text) \in Nat
  PROVE  \E acc : /\ acc[0] = [high |-> 0, low |-> 0]
                  /\ \A i \in 1 .. Len(text) : acc[i] = AddDigit(acc[i - 1], text[i])
                  /\ Number(text) = acc[Len(text)]
<1> DEFINE acc == CHOOSE f : f = [i \in 0 .. Len(text) |->
                     IF i = 0 THEN [high |-> 0, low |-> 0] ELSE AddDigit(f[i - 1], text[i])]
<1>1. Number(text) = acc[Len(text)]
  BY Zenon DEF Number
<1>2. Accumulates(acc, text, Len(text))
  BY AccumulatorExists, Zenon DEF Accumulates
<1> HIDE DEF acc
<1>3. acc[0] = [high |-> 0, low |-> 0]
  BY <1>2 DEF Accumulates
<1>4. ASSUME NEW i \in 1 .. Len(text) PROVE acc[i] = AddDigit(acc[i - 1], text[i])
  BY <1>2 DEF Accumulates
<1> QED
  BY <1>1, <1>3, <1>4

\* The digits of the numbers up to a bound exist, whatever the bound.
Writes(digits, bound) ==
  digits = [n \in 0 .. bound |-> IF n < 10 THEN <<n>> ELSE Append(digits[n \div 10], n % 10)]

LEMMA Tenth ==
  ASSUME NEW n \in Nat
  PROVE  /\ n \div 10 \in Nat /\ n % 10 \in 0 .. 9
         /\ n = 10 * (n \div 10) + (n % 10)
         /\ n >= 10 => n \div 10 < n
OBVIOUS

LEMMA WritingExists ==
  ASSUME NEW bound \in Nat
  PROVE  \E digits : Writes(digits, bound)
<1> DEFINE Good == {m \in Nat : \E digits : Writes(digits, m)}
<1>1. ASSUME NEW m \in Nat, \A k \in Nat : k < m => k \in Good
      PROVE  m \in Good
  <2>1. CASE m = 0
    <3> DEFINE digits == [n \in 0 .. 0 |-> <<n>>]
    <3>1. Writes(digits, 0)
      BY DEF Writes
    <3> QED
      BY <2>1, <3>1
  <2>2. CASE m # 0
    <3>1. PICK before : Writes(before, m - 1)
      BY <1>1, <2>2
    <3> DEFINE last == IF m < 10 THEN <<m>> ELSE Append(before[m \div 10], m % 10)
               digits == [n \in 0 .. m |-> IF n < m THEN before[n] ELSE last]
               step == [n \in 0 .. m |-> IF n < 10 THEN <<n>> ELSE Append(digits[n \div 10], n % 10)]
    <3>2. \A n \in 0 .. m - 1 :
            before[n] = IF n < 10 THEN <<n>> ELSE Append(before[n \div 10], n % 10)
      BY <3>1 DEF Writes
    <3>3. ASSUME NEW n \in 0 .. m
          PROVE  digits[n] = step[n]
      <4>1. n \in Nat /\ n \div 10 \in Nat /\ (n >= 10 => n \div 10 < n)
        BY Tenth
      <4>2. CASE n < 10
        <5>1. CASE n < m
          <6>1. n \in 0 .. m - 1
            BY <5>1
          <6>2. step[n] = <<n>> /\ digits[n] = before[n]
            BY <4>2, <5>1
          <6> HIDE DEF step, digits
          <6> QED
            BY <3>2, <4>2, <6>1, <6>2
        <5>2. CASE n = m
          BY <4>2, <5>2
        <5> QED
          BY <5>1, <5>2
      <4>3. CASE ~(n < 10)
        <5> DEFINE tenth == n \div 10
        <5>1. tenth \in 0 .. m /\ tenth < m
          BY <4>1, <4>3
        <5> HIDE DEF tenth
        <5>2. digits[tenth] = before[tenth]
          BY <5>1
        <5>3. step[n] = Append(before[n \div 10], n % 10)
          BY <4>3, <5>2 DEF tenth
        <5> HIDE DEF step
        <5>4. CASE n < m
          <6>1. n \in 0 .. m - 1
            BY <5>4
          <6> QED
            BY <3>2, <4>3, <5>3, <5>4, <6>1
        <5>5. CASE n = m
          BY <4>3, <5>3, <5>5
        <5> QED
          BY <5>4, <5>5
      <4> QED
        BY <4>2, <4>3
    <3>4. digits = step
      BY <3>3
    <3>5. Writes(digits, m)
      BY <3>4 DEF Writes
    <3> QED
      BY <3>5
  <2> QED
    BY <2>1, <2>2
<1>2. Nat \subseteq Good
  <2> HIDE DEF Good
  <2> QED
    BY <1>1, Everywhere
<1> QED
  BY <1>2

LEMMA WritingAt ==
  ASSUME NEW digits, NEW bound \in Nat, Writes(digits, bound), NEW n \in 0 .. bound
  PROVE  digits[n] = IF n < 10 THEN <<n>> ELSE Append(digits[n \div 10], n % 10)
<1>1. digits[n] = [m \in 0 .. bound |-> IF m < 10 THEN <<m>> ELSE Append(digits[m \div 10], m % 10)][n]
  BY Zenon DEF Writes
<1> QED
  BY <1>1

\* Two of them agree as far as both go.
LEMMA WritingsAgree ==
  ASSUME NEW d, NEW e, NEW b \in Nat, NEW c \in Nat, Writes(d, b), Writes(e, c)
  PROVE  \A n \in Nat : n <= b /\ n <= c => d[n] = e[n]
<1> DEFINE Good == {n \in Nat : n <= b /\ n <= c => d[n] = e[n]}
<1>1. ASSUME NEW n \in Nat, \A k \in Nat : k < n => k \in Good
      PROVE  n \in Good
  <2> SUFFICES ASSUME n <= b, n <= c PROVE d[n] = e[n]
    OBVIOUS
  <2>4. n \in 0 .. b /\ n \in 0 .. c
    OBVIOUS
  <2>1. /\ d[n] = IF n < 10 THEN <<n>> ELSE Append(d[n \div 10], n % 10)
        /\ e[n] = IF n < 10 THEN <<n>> ELSE Append(e[n \div 10], n % 10)
    BY <2>4, WritingAt
  <2>2. CASE n < 10
    BY <2>1, <2>2
  <2>3. CASE ~(n < 10)
    <3> DEFINE tenth == n \div 10
    <3>1. tenth \in Nat /\ tenth < n
      BY <2>3, Tenth
    <3> HIDE DEF tenth
    <3>2. d[tenth] = e[tenth]
      BY <1>1, <3>1
    <3> QED
      BY <2>1, <2>3, <3>2 DEF tenth
  <2> QED
    BY <2>2, <2>3
<1>2. Nat \subseteq Good
  <2> HIDE DEF Good
  <2> QED
    BY <1>1, Everywhere
<1> QED
  BY <1>2

\* So the digits of all numbers are what their definition says.
LEMMA DigitsAre ==
  ASSUME NEW n \in Nat
  PROVE  Digits[n] = IF n < 10 THEN <<n>> ELSE Append(Digits[n \div 10], n % 10)
<1> DEFINE upto(m) == CHOOSE d : Writes(d, m)
           all == [m \in Nat |-> upto(m)[m]]
           step == [m \in Nat |-> IF m < 10 THEN <<m>> ELSE Append(all[m \div 10], m % 10)]
<1>1. ASSUME NEW m \in Nat PROVE Writes(upto(m), m)
  BY WritingExists, Zenon
<1> HIDE DEF upto
<1>2. ASSUME NEW m \in Nat PROVE all[m] = step[m]
  <2>1. upto(m)[m] = IF m < 10 THEN <<m>> ELSE Append(upto(m)[m \div 10], m % 10)
    BY <1>1, WritingAt
  <2>2. CASE m < 10
    BY <2>1, <2>2
  <2>3. CASE ~(m < 10)
    <3> DEFINE tenth == m \div 10
    <3>1. tenth \in Nat /\ tenth <= m
      BY <2>3, Tenth
    <3> HIDE DEF tenth
    <3>2. upto(m)[tenth] = upto(tenth)[tenth]
      BY <1>1, <3>1, WritingsAgree
    <3> QED
      BY <2>1, <2>3, <3>1, <3>2 DEF tenth
  <2> QED
    BY <2>2, <2>3
<1>3. all = step
  BY <1>2
<1> HIDE DEF all
<1>4. all = [m \in Nat |-> IF m < 10 THEN <<m>> ELSE Append(all[m \div 10], m % 10)]
  BY <1>3
<1>5. Digits = CHOOSE f : f = [m \in Nat |-> IF m < 10 THEN <<m>> ELSE Append(f[m \div 10], m % 10)]
  BY Zenon DEF Digits
<1>6. Digits = [m \in Nat |-> IF m < 10 THEN <<m>> ELSE Append(Digits[m \div 10], m % 10)]
  BY <1>4, <1>5, Zenon
<1> QED
  BY <1>6

\* A number has digits.
Written(n) == Digits[n] \in Seq(0 .. 9) /\ Digits[n] # <<>>

LEMMA WrittenNext ==
  ASSUME NEW m \in Nat, \A k \in Nat : k < m => Written(k)
  PROVE  Written(m)
<1>1. CASE m < 10
  <2>1. m \in 0 .. 9
    BY <1>1
  <2>2. Digits[m] = <<m>>
    BY <1>1, DigitsAre
  <2>3. <<m>> \in Seq(0 .. 9) /\ <<m>> # <<>>
    BY <2>1
  <2> QED
    BY <2>2, <2>3 DEF Written
<1>2. CASE ~(m < 10)
  <2> DEFINE q == m \div 10
             r == m % 10
             d == Digits[q]
  <2>1. q \in Nat /\ q < m /\ r \in 0 .. 9
    BY <1>2, Tenth
  <2>2. Digits[m] = Append(d, r)
    BY <1>2, DigitsAre
  <2> HIDE DEF q, r
  <2>3. d \in Seq(0 .. 9)
    BY <2>1 DEF Written
  <2> HIDE DEF d
  <2>4. Append(d, r) \in Seq(0 .. 9) /\ Append(d, r) # <<>>
    BY <2>1, <2>3, AppendProperties
  <2> QED
    BY <2>2, <2>4 DEF Written
<1> QED
  BY <1>1, <1>2

LEMMA DigitsType ==
  ASSUME NEW n \in Nat
  PROVE  Digits[n] \in Seq(0 .. 9) /\ Digits[n] # <<>>
<1> DEFINE Good == {m \in Nat : Written(m)}
<1>1. \A m \in Nat : (\A k \in Nat : k < m => k \in Good) => m \in Good
  BY WrittenNext
<1>2. Nat \subseteq Good
  <2> HIDE DEF Good
  <2> QED
    BY <1>1, Everywhere
<1> QED
  BY <1>2 DEF Written

\* One more digit, as long as the number fits in the lower half.
Fits(n) == n < Bytes(2)

LEMMA SmallerFits == ASSUME NEW n \in Nat, NEW m \in Nat, m < n, Fits(n) PROVE Fits(m)
BY DEF Fits, Bytes

LEMMA OneMoreDigit ==
  ASSUME NEW m \in Nat, NEW d \in 0 .. 9, NEW n \in Nat, n = 10 * m + d, Fits(n)
  PROVE  AddDigit([high |-> 0, low |-> m], d) = [high |-> 0, low |-> n]
<1>1. AddDigit([high |-> 0, low |-> m], d) =
        [high |-> (0 * 10 + (m * 10 + d) \div 65536) % 65536, low |-> (m * 10 + d) % 65536]
  BY DEF AddDigit, Bytes
<1>2. m * 10 + d = n /\ n < 65536
  BY DEF Fits, Bytes
<1>3. n \div 65536 = 0 /\ n % 65536 = n
  BY <1>2
<1>4. (0 * 10 + 0) % 65536 = 0
  OBVIOUS
<1> QED
  BY <1>1, <1>2, <1>3, <1>4

\* The loop over the digits of a number ends with the number.
LoopsOver(acc, z, text) == \A j \in 1 .. Len(text) : acc[z + j] = AddDigit(acc[z + j - 1], text[j])
EndsWith(acc, i, n) == acc[i] = [high |-> 0, low |-> n]
LoopWorks(acc, z, n) ==
  Fits(n) /\ LoopsOver(acc, z, Digits[n]) => EndsWith(acc, z + Len(Digits[n]), n)

LEMMA LoopNext ==
  ASSUME NEW acc, NEW z \in Nat, EndsWith(acc, z, 0),
         NEW m \in Nat, \A k \in Nat : k < m => LoopWorks(acc, z, k)
  PROVE  LoopWorks(acc, z, m)
<1> SUFFICES ASSUME Fits(m), LoopsOver(acc, z, Digits[m])
             PROVE  EndsWith(acc, z + Len(Digits[m]), m)
  BY DEF LoopWorks
<1>1. CASE m < 10
  <2>1. Digits[m] = <<m>>
    BY <1>1, DigitsAre
  <2>2. acc[z + 1] = AddDigit(acc[z + 1 - 1], m)
    BY <2>1 DEF LoopsOver
  <2>3. z + 1 - 1 = z /\ m \in 0 .. 9 /\ m = 10 * 0 + m
    BY <1>1
  <2>4. AddDigit([high |-> 0, low |-> 0], m) = [high |-> 0, low |-> m]
    BY <2>3, OneMoreDigit
  <2>5. EndsWith(acc, z + 1, m)
    BY <2>2, <2>3, <2>4 DEF EndsWith
  <2>6. Len(<<m>>) = 1
    OBVIOUS
  <2> QED
    BY <2>1, <2>5, <2>6
<1>2. CASE ~(m < 10)
  <2> DEFINE q == m \div 10
             r == m % 10
             d == Digits[q]
  <2>1. q \in Nat /\ q < m /\ r \in 0 .. 9 /\ 10 * q + r = m
    BY <1>2, Tenth
  <2>2. Digits[m] = Append(d, r)
    BY <1>2, DigitsAre
  <2> HIDE DEF q, r
  <2>3. LoopWorks(acc, z, q) /\ Fits(q) /\ d \in Seq(0 .. 9)
    BY <2>1, DigitsType, SmallerFits
  <2>4. LoopsOver(acc, z, d) => EndsWith(acc, z + Len(d), q)
    BY <2>1, <2>3 DEF LoopWorks
  <2> HIDE DEF d
  <2>5. /\ Len(d) \in Nat /\ Len(Append(d, r)) = Len(d) + 1
        /\ Append(d, r)[Len(d) + 1] = r
        /\ \A j \in 1 .. Len(d) : Append(d, r)[j] = d[j]
    BY <2>1, <2>3, AppendProperties, LenProperties
  <2> DEFINE l == Len(d)
             longer == Append(d, r)
  <2> HIDE DEF l, longer
  <2>6. /\ l \in Nat /\ Len(longer) = l + 1 /\ longer[l + 1] = r
        /\ \A j \in 1 .. l : longer[j] = d[j]
    BY <2>5 DEF l, longer
  <2>7. \A j \in 1 .. l + 1 : acc[z + j] = AddDigit(acc[z + j - 1], longer[j])
    BY <2>2, <2>6, Zenon DEF LoopsOver, longer
  <2>8. \A j \in 1 .. l : acc[z + j] = AddDigit(acc[z + j - 1], d[j])
    BY <2>6, <2>7
  <2>9. EndsWith(acc, z + l, q)
    BY <2>4, <2>8, Zenon DEF LoopsOver, l
  <2>10. acc[z + (l + 1)] = AddDigit(acc[z + (l + 1) - 1], r)
    BY <2>6, <2>7
  <2>11. z + (l + 1) - 1 = z + l
    BY <2>6
  <2>12. AddDigit([high |-> 0, low |-> q], r) = [high |-> 0, low |-> m]
    BY <2>1, OneMoreDigit
  <2>13. EndsWith(acc, z + (l + 1), m)
    BY <2>1, <2>9, <2>10, <2>11, <2>12 DEF EndsWith
  <2> QED
    BY <2>2, <2>6, <2>13, Zenon DEF longer
<1> QED
  BY <1>1, <1>2

LEMMA LoopOverDigits ==
  ASSUME NEW acc, NEW z \in Nat, EndsWith(acc, z, 0), NEW n \in Nat
  PROVE  LoopWorks(acc, z, n)
<1> DEFINE Good == {m \in Nat : LoopWorks(acc, z, m)}
<1>1. \A m \in Nat : (\A k \in Nat : k < m => k \in Good) => m \in Good
  BY LoopNext
<1>2. Nat \subseteq Good
  <2> HIDE DEF Good
  <2> QED
    BY <1>1, Everywhere
<1> QED
  BY <1>2

\* The loop over a text that is a number in decimal, with zeros in front or not.
LEMMA NumberOfText ==
  ASSUME NEW text \in Seq(0 .. 10), NEW n \in Nat, Fits(n), Represents(text, n)
  PROVE  Number(text) = [high |-> 0, low |-> n] /\ 10 \notin ToSet(text)
<1>1. Len(text) \in Nat /\ DOMAIN text = 1 .. Len(text)
  BY LenProperties
<1>2. PICK z \in 0 .. Len(text) :
        /\ \A i \in 1 .. z : text[i] = 0
        /\ SubSeq(text, z + 1, Len(text)) = IF n = 0 THEN <<>> ELSE Digits[n]
  BY DEF Represents
<1>3. PICK acc : /\ acc[0] = [high |-> 0, low |-> 0]
                 /\ \A i \in 1 .. Len(text) : acc[i] = AddDigit(acc[i - 1], text[i])
                 /\ Number(text) = acc[Len(text)]
  BY <1>1, NumberSteps
<1> DEFINE l == Len(text)
           rest == SubSeq(text, z + 1, l)
<1>4. z \in Nat /\ l \in Nat /\ z <= l /\ l - z \in Nat /\ DOMAIN text = 1 .. l
  BY <1>1
<1>11. \A i \in 1 .. l : text[i] \in 0 .. 10
  BY ElementOfSeq
<1> HIDE DEF l
<1>5. Len(rest) = l - z /\ \A j \in 1 .. l - z : rest[j] = text[z + j]
  <2> DEFINE m == z + 1
  <2>1. m \in Int /\ l \in Int /\ \A i \in m .. l : text[i] \in 0 .. 10
    BY <1>4, <1>11
  <2>2. /\ Len(SubSeq(text, m, l)) = IF m <= l THEN l - m + 1 ELSE 0
        /\ \A i \in 1 .. l - m + 1 : SubSeq(text, m, l)[i] = text[m + i - 1]
    <3> HIDE DEF m
    <3> QED
      BY <2>1, SubSeqProperties
  <2>3. l - m + 1 = l - z /\ (m <= l => Len(rest) = l - z) /\ (~(m <= l) => l - z = 0)
    BY <1>4, <2>2
  <2>4. Len(rest) = l - z
    BY <2>2, <2>3
  <2>5. ASSUME NEW j \in 1 .. l - z PROVE rest[j] = text[z + j]
    <3>1. j \in 1 .. l - m + 1 /\ m + j - 1 = z + j
      BY <1>4, <2>3, <2>5
    <3> QED
      BY <2>2, <3>1
  <2> QED
    BY <2>4, <2>5
<1> HIDE DEF rest
<1>6. rest = IF n = 0 THEN <<>> ELSE Digits[n]
  BY <1>2 DEF rest, l
<1>7. EndsWith(acc, z, 0)
  <2> DEFINE Good == {i \in Nat : i <= z => EndsWith(acc, i, 0)}
  <2>1. ASSUME NEW i \in Nat, \A k \in Nat : k < i => k \in Good
        PROVE  i \in Good
    <3>1. CASE i = 0
      BY <1>3, <3>1 DEF EndsWith
    <3>2. CASE i # 0 /\ i <= z
      <4>1. i - 1 \in Good /\ i - 1 <= z /\ i \in 1 .. l /\ text[i] = 0
        BY <1>2, <1>4, <2>1, <3>2
      <4>2. acc[i - 1] = [high |-> 0, low |-> 0] /\ acc[i] = AddDigit(acc[i - 1], 0)
        BY <1>3, <4>1 DEF EndsWith, l
      <4>3. AddDigit([high |-> 0, low |-> 0], 0) = [high |-> 0, low |-> 0]
        <5>1. Fits(0) /\ 0 = 10 * 0 + 0 /\ 0 \in 0 .. 9
          BY DEF Fits, Bytes
        <5> QED
          BY <5>1, OneMoreDigit
      <4> QED
        BY <4>2, <4>3 DEF EndsWith
    <3> QED
      BY <3>1, <3>2
  <2>2. Nat \subseteq Good
    <3> HIDE DEF Good
    <3> QED
      BY <2>1, Everywhere
  <2> QED
    BY <1>4, <2>2
<1>8. EndsWith(acc, l, n)
  <2>1. CASE n = 0
    <3>1. l = z
      BY <1>4, <1>5, <1>6, <2>1, EmptySeq
    <3> QED
      BY <1>7, <2>1, <3>1
  <2>2. CASE n # 0
    <3>1. rest = Digits[n] /\ Len(Digits[n]) = l - z
      BY <1>5, <1>6, <2>2
    <3>2. ASSUME NEW j \in 1 .. l - z
          PROVE  acc[z + j] = AddDigit(acc[z + j - 1], Digits[n][j])
      <4>1. z + j \in 1 .. l /\ Digits[n][j] = text[z + j]
        BY <1>4, <1>5, <3>1
      <4> QED
        BY <1>3, <4>1 DEF l
    <3>3. LoopsOver(acc, z, Digits[n])
      BY <3>1, <3>2 DEF LoopsOver
    <3>4. EndsWith(acc, z + Len(Digits[n]), n)
      BY <1>4, <1>7, <3>3, LoopOverDigits DEF LoopWorks
    <3>5. z + (l - z) = l
      BY <1>4
    <3> QED
      BY <3>1, <3>4, <3>5
  <2> QED
    BY <2>1, <2>2
<1>9. 10 \notin ToSet(text)
  <2> SUFFICES ASSUME NEW i \in 1 .. l, text[i] = 10 PROVE FALSE
    BY <1>1 DEF ToSet, l
  <2>1. i > z
    BY <1>2, <1>4
  <2>2. i - z \in 1 .. l - z /\ z + (i - z) = i
    BY <1>4, <2>1
  <2>3. rest[i - z] = 10 /\ l - z # 0
    BY <1>4, <1>5, <2>2
  <2>4. n # 0
    BY <1>4, <1>5, <1>6, <2>3, EmptySeq
  <2> DEFINE d == Digits[n]
             k == i - z
  <2>5. d \in Seq(0 .. 9) /\ k \in 1 .. Len(d) /\ d[k] = 10
    BY <1>5, <1>6, <2>2, <2>3, <2>4, DigitsType
  <2> HIDE DEF d, k
  <2>6. d[k] \in 0 .. 9
    BY <2>5, ElementOfSeq
  <2> QED
    BY <2>5, <2>6
<1> QED
  BY <1>3, <1>8, <1>9 DEF EndsWith, l

\* So get_number returns the number that it finds, if the field can hold it.
LEMMA NumberTaken ==
  ASSUME NEW json, NEW key \in DOMAIN json, json[key] \in Seq(0 .. 10), NEW n \in 0 .. 255,
         Represents(json[key], n)
  PROVE  get_number(json, key, 1) = n
<1>1. Fits(n) /\ n < Bytes(1)
  BY DEF Fits, Bytes
<1>2. Number(json[key]) = [high |-> 0, low |-> n] /\ 10 \notin ToSet(json[key])
  BY <1>1, NumberOfText
<1> QED
  BY <1>1, <1>2 DEF get_number, Missing

\* A value whose fields are all there is taken as it is.
LEMMA WholeValue ==
  ASSUME NEW v, \A f \in DOMAIN v : v[f] # Rejected
  PROVE  Whole(v) = v
BY DEF Whole

\* Every well-formed document is accepted.
LEMMA WellFormedTaken ==
  ASSUME NEW item \in {"rgb_led", "user_led"}, NEW body, WellFormed(item, body),
         \A f \in RgbFields \cap DOMAIN body : body[f] \in Seq(0 .. 10)
  PROVE  Parse(item, body) # Rejected
<1>1. CASE item = "rgb_led"
  <2>1. /\ body # Garbage /\ RgbFields \subseteq DOMAIN body
        /\ \A f \in RgbFields : \E n \in 0 .. 255 : Represents(body[f], n)
    BY <1>1 DEF WellFormed
  <2>2. ASSUME NEW f \in RgbFields PROVE get_number(body, f, 1) \in Nat
    <3>1. PICK n \in 0 .. 255 : Represents(body[f], n)
      BY <2>1
    <3>2. get_number(body, f, 1) = n
      BY <2>1, <3>1, NumberTaken
    <3> QED
      BY <3>2
  <2> DEFINE v == [f \in RgbFields |-> get_number(body, f, 1)]
  <2>3. v \in [RgbFields -> Nat]
    BY <2>2
  <2>4. Parse(item, body) = Whole(v)
    BY <1>1, <2>1 DEF Parse, parse_RGB_LED_config
  <2> HIDE DEF v
  <2>5. Whole(v) = v
    BY <2>3, RejectedAssumption, WholeValue DEF RgbValues, UserValues
  <2> QED
    BY <2>3, <2>4, <2>5, RejectedAssumption DEF RgbValues, UserValues
<1>2. CASE item = "user_led"
  <2>1. /\ body # Garbage /\ UserFields \subseteq DOMAIN body
        /\ \A f \in UserFields : body[f] \in UNION {Spellings[s] : s \in DOMAIN Spellings}
    BY <1>2 DEF WellFormed
  <2>2. ASSUME NEW f \in UserFields PROVE get_enum(body, f) \in {"On", "Off"}
    <3>1. DOMAIN Spellings = {"On", "Off"}
      BY DEF Spellings
    <3>2. \E s \in DOMAIN Spellings : body[f] \in Spellings[s]
      BY <2>1
    <3>3. get_enum(body, f) = CHOOSE s \in DOMAIN Spellings : body[f] \in Spellings[s]
      BY <2>1, <3>2 DEF get_enum, Missing
    <3> HIDE DEF Spellings
    <3> QED
      BY <3>1, <3>2, <3>3
  <2> DEFINE v == [f \in UserFields |-> get_enum(body, f)]
  <2>3. v \in [UserFields -> {"On", "Off"}]
    BY <2>2
  <2>4. Parse(item, body) = Whole(v)
    BY <1>2, <2>1 DEF Parse, parse_User_LED_config
  <2> HIDE DEF v
  <2>5. Whole(v) = v
    BY <2>3, RejectedAssumption, WholeValue DEF RgbValues, UserValues
  <2> QED
    BY <2>3, <2>4, <2>5, RejectedAssumption DEF RgbValues, UserValues
<1> QED
  BY <1>1, <1>2

-----------------------------------------------------------------------------
(* Lemmas: the scripts and the table of names *)

\* What a script may send.
Bodies ==
  {Colours1, Colours2, TooLarge, Lights1, Lights2, Garbage,
   Logger(Host, 666, 2), Logger(Host, 666, 0), Logger(BadHost, 0, 0)}
Sends ==
  [name : {logger, rgbled, userled}, body : Bodies, expected : {"0", "EINVAL", "EBUSY"}, sleep : Nat]

LEMMA SendType ==
  ASSUME NEW name \in {logger, rgbled, userled}, NEW body \in Bodies,
         NEW expected \in {"0", "EINVAL", "EBUSY"}
  PROVE  Send(name, body, expected) \in Sends
BY DEF Send, Sends

LEMMA SleepingType ==
  ASSUME NEW sends \in Seq(Sends), NEW sleep \in Nat
  PROVE  Sleeping(sends, sleep) \in Seq(Sends)
<1>1. /\ Len(sends) \in Nat /\ DOMAIN sends = 1 .. Len(sends)
      /\ \A i \in 1 .. Len(sends) : sends[i] \in Sends
  BY LenProperties, ElementOfSeq
<1>2. ASSUME NEW send \in Sends PROVE [send EXCEPT !.sleep = sleep] \in Sends
  BY DEF Sends
<1>3. \A i \in 1 .. Len(sends) : [sends[i] EXCEPT !.sleep = sleep] \in Sends
  BY <1>1, <1>2
<1> HIDE DEF Sends
<1> QED
  BY <1>1, <1>3, IsASeq DEF Sleeping

\* A script is made of such messages.
LEMMA ScriptType == Script \in Seq(Sends)
<1>1. /\ Colours1 \in Bodies /\ Colours2 \in Bodies /\ TooLarge \in Bodies /\ Garbage \in Bodies
      /\ Lights1 \in Bodies /\ Lights2 \in Bodies /\ Logger(Host, 666, 2) \in Bodies
      /\ Logger(Host, 666, 0) \in Bodies /\ Logger(BadHost, 0, 0) \in Bodies
  BY DEF Bodies
<1> DEFINE s1 == Send(rgbled, Colours1, "0")
           s2 == Send(userled, Lights1, "0")
           s3 == Send(rgbled, Garbage, "EINVAL")
           s4 == Send(userled, Lights2, "0")
           s5 == Send(rgbled, Colours2, "0")
           s6 == Send(rgbled, TooLarge, "EINVAL")
           l1 == Send(logger, Logger(Host, 666, 2), "0")
           l2 == Send(logger, Logger(Host, 666, 0), "0")
           l3 == Send(logger, Logger(BadHost, 0, 0), "EINVAL")
           l4 == Send(logger, Garbage, "EINVAL")
<1>2. /\ s1 \in Sends /\ s2 \in Sends /\ s3 \in Sends /\ s4 \in Sends /\ s5 \in Sends /\ s6 \in Sends
      /\ l1 \in Sends /\ l2 \in Sends /\ l3 \in Sends /\ l4 \in Sends
  BY <1>1, SendType
<1>3. ASSUME NEW send \in Sends PROVE TooQuickly(send) \in Seq(Sends)
  <2>1. [send EXCEPT !.expected = "EBUSY"] \in Sends
    BY DEF Sends
  <2> HIDE DEF Sends
  <2> QED
    BY <2>1 DEF TooQuickly
<1>4. /\ IbexMessages = <<s1, s2, s3, s4, s5, s4, s6>>
      /\ StubMessages = <<s1, s2, s5, s4, s6>>
      /\ IbexScript = Sleeping(<<l1, l2, l3>>, 5) \o <<l4>> \o Sleeping(IbexMessages, 10)
                        \o TooQuickly(IbexMessages[2])
      /\ StubScript = Sleeping(StubMessages, 30) \o TooQuickly(StubMessages[2])
  BY Zenon DEF IbexMessages, StubMessages, IbexScript, StubScript
<1> HIDE DEF s1, s2, s3, s4, s5, s6, l1, l2, l3, l4
<1>5. /\ IbexMessages \in Seq(Sends) /\ IbexMessages[2] \in Sends
      /\ StubMessages \in Seq(Sends) /\ StubMessages[2] \in Sends
      /\ <<l1, l2, l3>> \in Seq(Sends) /\ <<l4>> \in Seq(Sends)
  BY <1>2, <1>4
<1>6. /\ Sleeping(<<l1, l2, l3>>, 5) \in Seq(Sends) /\ Sleeping(IbexMessages, 10) \in Seq(Sends)
      /\ Sleeping(StubMessages, 30) \in Seq(Sends)
      /\ TooQuickly(IbexMessages[2]) \in Seq(Sends) /\ TooQuickly(StubMessages[2]) \in Seq(Sends)
  BY <1>3, <1>5, SleepingType
<1>7. IbexScript \in Seq(Sends) /\ StubScript \in Seq(Sends) /\ <<>> \in Seq(Sends)
  BY <1>4, <1>5, <1>6, ConcatProperties, EmptySeq
<1>8. Script = IbexScript \/ Script = StubScript \/ Script = <<>>
  <2>1. CASE build = "ibex"
    BY <2>1 DEF Script
  <2>2. CASE build = "stub"
    BY <2>2 DEF Script
  <2>3. CASE build # "ibex" /\ build # "stub"
    BY <2>3 DEF Script
  <2> QED
    BY <2>1, <2>2, <2>3
<1> QED
  BY <1>7, <1>8

\* Half of the steps of a script are messages.
LEMMA Halved ==
  ASSUME NEW n \in Nat, NEW length \in Nat, n < 2 * length
  PROVE  n \div 2 + 1 \in 1 .. length
OBVIOUS

\* The next message of a script has a name.
LEMMA NamedSend ==
  ASSUME script \in Nat, script < 2 * Len(Script)
  PROVE  Script[script \div 2 + 1].name # <<>>
<1>1. Len(Script) \in Nat
  BY ScriptType, LenProperties
<1>2. script \div 2 + 1 \in 1 .. Len(Script)
  BY <1>1, Halved
<1>3. Script[script \div 2 + 1] \in Sends
  BY <1>2, ScriptType, ElementOfSeq
<1>4. Script[script \div 2 + 1].name \in {logger, rgbled, userled}
  BY <1>3, Zenon DEF Sends
<1>5. logger # <<>> /\ rgbled # <<>> /\ userled # <<>>
  BY DEF logger, rgbled, userled
<1> QED
  BY <1>4, <1>5

\* The item a name is routed to, and what it is to the build.
LEMMA MapType ==
  ASSUME Kinds
  PROVE  /\ DOMAIN configItemMap \subseteq Nat
         /\ \A t \in DOMAIN configItemMap :
              /\ configItemMap[t].item \in Items
              /\ build = "sonata" => configItemMap[t].item \in {"rgb_led", "user_led"}
              /\ \E i \in 1 .. Len(Parsers) : Parsers[i] = configItemMap[t].item
<1>1. CASE build = "sonata"
  <2>1. configItemMap = SonataMap /\ Parsers = SonataParsers
    BY <1>1 DEF configItemMap, Parsers
  <2> QED
    BY <1>1, <2>1 DEF SonataMap, SonataParsers, Entry, Items
<1>2. CASE build = "stub"
  <2>1. configItemMap = StubMap /\ Parsers = SonataParsers
    BY <1>2 DEF configItemMap, Parsers
  <2> QED
    BY <1>2, <2>1 DEF StubMap, SonataParsers, Entry, Items
<1>3. CASE build = "ibex"
  <2>1. configItemMap = IbexMap /\ Parsers = IbexParsers
    BY <1>3 DEF configItemMap, Parsers
  <2> QED
    BY <1>3, <2>1 DEF IbexMap, IbexParsers, Entry, Items
<1> QED
  BY <1>1, <1>2, <1>3 DEF Kinds

\* After parser_init, every item that a provider can name has a parser.
LEMMA AllRegistered ==
  ASSUME Kinds, Booting, Started
  PROVE  \A t \in DOMAIN configItemMap : configItemMap[t].item \in registered
<1>1. \A i \in 1 .. Len(Parsers) : Parsers[i] \in registered
  BY DEF Booting, Started
<1> QED
  BY <1>1, MapType

-----------------------------------------------------------------------------
(* Lemmas: set_config and updateConfig *)

\* set_config keeps a value for each item, and changes that of its item only, to
\* what the parser made of the body.
LEMMA SetConfigValues ==
  ASSUME NEW item \in Items, NEW body, Published, SetConfig(item, body)
  PROVE  /\ value' = [i \in Items |-> value'[i]]
         /\ \A i \in Items \ {item} : value'[i] = value[i]
         /\ \/ value'[item] = value[item]
            \/ value'[item] = Parse(item, body) /\ Parse(item, body) # Rejected
<1>1. CASE Code(item, body) = "0"
  <2>1. Parse(item, body) # Rejected
    BY <1>1 DEF Code
  <2>2. value' = [value EXCEPT ![item] = Parse(item, body)]
    BY <1>1 DEF SetConfig
  <2> QED
    BY <2>1, <2>2 DEF Published
<1>2. CASE Code(item, body) # "0"
  <2>1. value' = value
    BY <1>2 DEF SetConfig
  <2> QED
    BY <2>1 DEF Published
<1> QED
  BY <1>1, <1>2

\* Only the parsers reject a call of updateConfig once they are all registered,
\* and what it was taken for is an item that the name stands for.
LEMMA Routed ==
  ASSUME NEW name, NEW body, NEW sent, NEW ready, NEW code \in {"ignored", "unknown"}, NEW expected,
         Kinds, Booting, Started,
         updateConfig(name, body, [sent |-> sent, ready |-> ready, item |-> None,
                                   code |-> code, expected |-> expected])
  PROVE  /\ outcome'.sent = sent
         /\ outcome'.code # "ENODEV"
         /\ outcome'.code = "0" =>
              /\ body # Garbage
              /\ \E t \in DOMAIN configItemMap :
                   configItemMap[t].item = outcome'.item /\ IsPrefix(name, configItemMap[t].name)
<1> DEFINE call == [sent |-> sent, ready |-> ready, item |-> None,
                    code |-> code, expected |-> expected]
<1>1. CASE Matches(name) = {}
  <2>1. outcome' = [call EXCEPT !.code = "unknown"]
    BY <1>1 DEF updateConfig
  <2> QED
    BY <2>1
<1>2. CASE Matches(name) # {}
  <2> DEFINE t == First(Matches(name))
             item == configItemMap[t].item
  <2>1. t \in DOMAIN configItemMap /\ IsPrefix(name, configItemMap[t].name)
    <3>1. Matches(name) \in SUBSET Nat
      BY MapType DEF Matches
    <3>2. t \in Matches(name)
      BY <1>2, <3>1, FirstIsLeast
    <3> QED
      BY <3>2 DEF Matches
  <2>2. item \in registered /\ item \in Items
    BY <2>1, MapType, AllRegistered
  <2>3. outcome' = [call EXCEPT !.item = item, !.code = Code(item, body)]
    BY <1>2, Zenon DEF updateConfig
  <2> HIDE DEF item, t
  <2>4. outcome'.sent = sent /\ outcome'.item = item /\ outcome'.code = Code(item, body)
    BY <2>3
  <2>5. Code(item, body) # "ENODEV"
    BY <2>2 DEF Code
  <2>6. ASSUME Code(item, body) = "0" PROVE body # Garbage
    <3>1. Parse(item, body) # Rejected
      BY <2>6 DEF Code
    <3>2. Parse(item, Garbage) = Rejected
      BY <2>2 DEF Items, Parse, parse_RGB_LED_config, parse_User_LED_config, parse_logger_config,
                  parse_system_config
    <3> QED
      BY <3>1, <3>2
  <2> QED
    BY <2>1, <2>4, <2>5, <2>6 DEF item
<1> QED
  BY <1>1, <1>2

\* What updateConfig leaves of the values is what Published needs.
LEMMA RoutedValues ==
  ASSUME NEW name, NEW body, NEW call, Kinds, Published, updateConfig(name, body, call)
  PROVE  /\ value' = [i \in Items |-> value'[i]]
         /\ build = "sonata" => value'["system"] = value["system"]
<1>1. CASE Matches(name) = {}
  BY <1>1 DEF updateConfig, broker, Published
<1>2. CASE Matches(name) # {}
  <2> DEFINE t == First(Matches(name))
             item == configItemMap[t].item
  <2>1. t \in DOMAIN configItemMap
    <3>1. Matches(name) \in SUBSET Nat
      BY MapType DEF Matches
    <3>2. t \in Matches(name)
      BY <1>2, <3>1, FirstIsLeast
    <3> QED
      BY <3>2 DEF Matches
  <2>2. item \in Items /\ (build = "sonata" => item \in {"rgb_led", "user_led"})
    BY <2>1, MapType
  <2>3. SetConfig(item, body)
    BY <1>2, Zenon DEF updateConfig
  <2> HIDE DEF item, t
  <2>4. /\ value' = [i \in Items |-> value'[i]]
        /\ \A i \in Items \ {item} : value'[i] = value[i]
    BY <2>2, <2>3, SetConfigValues
  <2>5. "system" \in Items
    BY DEF Items
  <2> QED
    BY <2>2, <2>4, <2>5
<1> QED
  BY <1>1, <1>2

-----------------------------------------------------------------------------
(* The invariant is inductive *)

LEMMA IInvInit == Init => IInv
<1> SUFFICES ASSUME Init PROVE IInv
  OBVIOUS
<1>1. Kinds
  <2>1. build \in {"sonata", "stub", "ibex"} /\ script \in Nat
    BY BuildsAssumption DEF Init
  <2>2. signed \in BOOLEAN /\ (build # "sonata" => ~signed)
    BY DEF Init
  <2>3. \A message \in traffic : IsMessage(message)
    BY BuildsAssumption DEF Init
  <2> QED
    BY <2>1, <2>2, <2>3 DEF Kinds
<1>2. Booting
  <2>1. Len(Parsers) = 3
    BY DEF Parsers, SonataParsers, IbexParsers
  <2> QED
    BY <2>1 DEF Init, Booting
<1>3. Published
  BY DEF Init, Published, Items
<1>4. Subscribed
  BY DEF Init, Subscribed
<1> QED
  BY <1>1, <1>2, <1>3, <1>4 DEF IInv

\* What holds of a step that leaves the parsers and the topic alone.
LEMMA Rest ==
  ASSUME IInv, UNCHANGED <<fixed, boot, failures, registered, config_topic>>, script' \in Nat
  PROVE  Kinds' /\ Booting' /\ Subscribed' /\ (Started => Started')
<1>1. Parsers' = Parsers
  BY DEF fixed, Parsers
<1>2. Kinds'
  BY DEF IInv, Kinds, fixed
<1>3. Booting'
  BY <1>1 DEF IInv, Booting
<1>4. Started' <=> Started
  BY <1>1 DEF Started
<1>5. Subscribed'
  BY <1>4 DEF IInv, Subscribed, fixed, Topic
<1> QED
  BY <1>2, <1>3, <1>4, <1>5

LEMMA RegisterKeeps ==
  ASSUME IInv, Register
  PROVE  IInv'
<1>1. Parsers' = Parsers /\ ~Started /\ build' = build
  BY DEF Register, fixed, Parsers, Started
<1>2. Kinds'
  BY DEF IInv, Kinds, fixed, Register
<1>3. Booting'
  <2>1. Len(Parsers) \in Nat
    BY DEF Parsers, SonataParsers, IbexParsers
  <2>2. boot' = boot + 1 /\ boot \in 0 .. Len(Parsers) /\ boot < Len(Parsers) /\ failures \in Nat
    BY DEF IInv, Booting, Register
  <2>3. CASE registered' = registered \cup {Parsers[boot']} /\ failures' = failures
    <3>1. ASSUME failures = 0, NEW i \in 1 .. boot' PROVE Parsers[i] \in registered'
      <4>1. i \in 1 .. boot \/ i = boot'
        BY <2>1, <2>2, <3>1
      <4> QED
        BY <2>3, <3>1, <4>1 DEF IInv, Booting
    <3> QED
      BY <1>1, <2>1, <2>2, <2>3, <3>1 DEF Booting
  <2>4. CASE failures' = failures + 1
    BY <1>1, <2>1, <2>2, <2>4 DEF Booting
  <2> QED
    BY <2>3, <2>4 DEF Register
<1>4. Published' /\ Subscribed'
  BY <1>1 DEF IInv, Published, Subscribed, Register
<1> QED
  BY <1>2, <1>3, <1>4 DEF IInv

LEMMA SystemConfigKeeps ==
  ASSUME IInv, system_config_run
  PROVE  IInv'
<1>1. UNCHANGED <<fixed, boot, failures, registered, config_topic, script>> /\ Started
  BY DEF system_config_run, SetConfig
<1>2. Kinds' /\ Booting' /\ Subscribed' /\ Started'
  BY <1>1, Rest DEF IInv, Kinds
<1>3. PICK config \in Systems : SetConfig("system", config)
  BY DEF system_config_run
<1>4. "system" \in Items
  BY DEF Items
<1>5. /\ value' = [i \in Items |-> value'[i]]
      /\ \/ value'["system"] = value["system"]
         \/ value'["system"] = Parse("system", config) /\ Parse("system", config) # Rejected
  BY <1>3, <1>4, SetConfigValues DEF IInv
<1>6. ASSUME build' = "sonata", value'["system"] # None
      PROVE  \E other \in Systems : value'["system"].id = String(other.id)
  <2>1. CASE value'["system"] = value["system"]
    BY <1>1, <1>6, <2>1 DEF IInv, Published, fixed
  <2>2. CASE value'["system"] = Parse("system", config) /\ Parse("system", config) # Rejected
    BY <2>2, SystemParsed
  <2> QED
    BY <1>5, <2>1, <2>2
<1>7. Published'
  BY <1>2, <1>5, <1>6 DEF Published, String
<1> QED
  BY <1>2, <1>7 DEF IInv

LEMMA TopicsKeep ==
  ASSUME IInv, generate_topics
  PROVE  IInv'
<1>1. /\ UNCHANGED <<fixed, boot, failures, registered, script, value>>
      /\ build = "sonata" /\ value["system"] # None
      /\ config_topic' = Topic(value["system"].id, <<"#">>)
  BY DEF generate_topics, broker
<1>2. Parsers' = Parsers
  BY <1>1 DEF fixed, Parsers
<1>3. Kinds'
  BY <1>1 DEF IInv, Kinds, fixed
<1>4. Booting' /\ Started' = Started
  BY <1>1, <1>2 DEF IInv, Booting, Started
<1>5. Started
  BY <1>1 DEF IInv, Published
<1>6. Published'
  BY <1>1, <1>4, <1>5 DEF IInv, Published, fixed, String
<1>7. Subscribed'
  BY <1>1, <1>4, <1>5 DEF IInv, Published, Subscribed, fixed, String, Topic
<1> QED
  BY <1>3, <1>4, <1>6, <1>7 DEF IInv

\* A call of updateConfig once the parsers are registered.
LEMMA UpdateKeeps ==
  ASSUME IInv, Started, NEW name, NEW body, NEW call, updateConfig(name, body, call),
         UNCHANGED <<fixed, boot, failures, config_topic>>, script' \in Nat
  PROVE  IInv'
<1>1. registered' = registered
  BY DEF updateConfig, SetConfig, broker
<1>2. Kinds' /\ Booting' /\ Subscribed' /\ Started'
  BY <1>1, Rest
<1>3. /\ value' = [i \in Items |-> value'[i]]
      /\ build = "sonata" => value'["system"] = value["system"]
  BY RoutedValues DEF IInv
<1>4. Published'
  BY <1>2, <1>3 DEF IInv, Published, fixed, String
<1> QED
  BY <1>2, <1>4 DEF IInv

\* A message with a name comes only once the client has its topic.
LEMMA NamedStarted ==
  ASSUME IInv, NEW topic, Name(topic) # None
  PROVE  config_topic # <<>> /\ Started
BY DEF IInv, Subscribed, Name

LEMMA CallbackKeeps ==
  ASSUME IInv, NEW id, NEW message, publishCallback(id, message)
  PROVE  IInv'
<1> DEFINE name == Name(Topic(id, message.name))
           body == verify_signature(message)
           call == [sent |-> message, ready |-> {i \in Items : ~TooSoon(i)},
                    item |-> None, code |-> "ignored", expected |-> None]
<1>1. UNCHANGED <<fixed, boot, failures, config_topic>> /\ script' \in Nat
  BY DEF publishCallback, IInv, Kinds
<1>2. CASE name # None /\ body # None
  <2>1. updateConfig(name, body, call) /\ Started
    BY <1>2, NamedStarted, Zenon DEF publishCallback
  <2> QED
    BY <1>1, <2>1, UpdateKeeps
<1>3. CASE ~(name # None /\ body # None)
  <2>1. UNCHANGED broker
    BY <1>3, Zenon DEF publishCallback
  <2>2. Kinds' /\ Booting' /\ Subscribed' /\ (Started => Started')
    BY <1>1, <2>1, Rest DEF broker
  <2>3. Published'
    BY <1>1, <2>1, <2>2 DEF IInv, Published, broker, fixed, String
  <2> QED
    BY <2>2, <2>3 DEF IInv
<1> QED
  BY <1>2, <1>3

LEMMA ProviderKeeps ==
  ASSUME IInv, provider_run
  PROVE  IInv'
<1>1. UNCHANGED <<fixed, boot, failures, config_topic>> /\ script' \in Nat /\ Started
  BY DEF provider_run, IInv, Kinds
<1>2. CASE script % 2 = 0
  <2>1. PICK name, body, call : updateConfig(name, body, call)
    BY <1>2, Zenon DEF provider_run
  <2> QED
    BY <1>1, <2>1, UpdateKeeps
<1>3. CASE script % 2 # 0
  <2>1. UNCHANGED <<registered, value>>
    BY <1>3, Zenon DEF provider_run
  <2>2. Kinds' /\ Booting' /\ Subscribed' /\ Started'
    BY <1>1, <2>1, Rest
  <2>3. Published'
    BY <1>1, <2>1, <2>2 DEF IInv, Published, fixed, String
  <2> QED
    BY <2>2, <2>3 DEF IInv
<1> QED
  BY <1>2, <1>3

\* A step that is about none of what the invariant is about.
LEMMA OthersKeep ==
  ASSUME IInv, UNCHANGED <<fixed, boot, failures, registered, config_topic, script, value>>
  PROVE  IInv'
<1>1. Kinds' /\ Booting' /\ Subscribed' /\ (Started => Started')
  BY Rest DEF IInv, Kinds
<1>2. Published'
  BY <1>1 DEF IInv, Published, fixed, String
<1> QED
  BY <1>1, <1>2 DEF IInv

LEMMA IInvNext ==
  ASSUME IInv, [Next]_vars
  PROVE  IInv'
<1>1. CASE Register
  BY <1>1, RegisterKeeps
<1>2. CASE system_config_run
  BY <1>2, SystemConfigKeeps
<1>3. CASE generate_topics
  BY <1>3, TopicsKeep
<1>4. CASE provider_run
  BY <1>4, ProviderKeeps
<1>5. CASE Tick
  BY <1>5, OthersKeep DEF Tick
<1>6. CASE \E config \in Systems, message \in traffic : publishCallback(String(config.id), message)
  BY <1>6, CallbackKeeps
<1>7. CASE \E c \in Consumers, item \in Items : Handle(c, item)
  BY <1>7, OthersKeep DEF Handle
<1>8. CASE UNCHANGED vars
  BY <1>8, OthersKeep DEF vars, broker
<1> QED
  BY <1>1, <1>2, <1>3, <1>4, <1>5, <1>6, <1>7, <1>8 DEF Next

\* The inductive invariant of the demo.
THEOREM RoutingInductive == Spec => []IInv
<1>1. IInv /\ [Next]_vars => IInv'
  BY IInvNext
<1> QED
  BY IInvInit, <1>1, PTL DEF Spec

-----------------------------------------------------------------------------
(* What the last call of set_config says *)

\* The two properties at once, for a step that leaves the table of names alone.
LEMMA CallbackAnswers ==
  ASSUME IInv, NEW config \in Systems, NEW message \in traffic,
         publishCallback(String(config.id), message)
  PROVE  AlwaysRegistered' /\ Authorised'
<1> DEFINE id == String(config.id)
           name == Name(Topic(id, message.name))
           body == verify_signature(message)
           call == [sent |-> message, ready |-> {i \in Items : ~TooSoon(i)},
                    item |-> None, code |-> "ignored", expected |-> None]
<1>1. configItemMap' = configItemMap /\ signed' = signed
  BY DEF publishCallback, fixed, configItemMap
<1>2. CASE name # None /\ body # None
  <2>1. updateConfig(name, body, call) /\ Started /\ config_topic # <<>>
    BY <1>2, NamedStarted, Zenon DEF publishCallback
  <2>2. /\ outcome'.sent = message
        /\ outcome'.code # "ENODEV"
        /\ outcome'.code = "0" =>
             /\ body # Garbage
             /\ \E t \in DOMAIN configItemMap :
                  configItemMap[t].item = outcome'.item /\ IsPrefix(name, configItemMap[t].name)
    BY <2>1, Routed DEF IInv
  <2>3. PICK other \in Systems : config_topic = Topic(String(other.id), <<"#">>)
    BY <2>1 DEF IInv, Subscribed
  <2>4. IsText(config.id) /\ IsText(other.id) /\ IsText(message.name)
    BY SystemsAssumption DEF IInv, Kinds, IsMessage
  <2> DEFINE S == ToSet(config.id) \cup ToSet(other.id) \cup ToSet(message.name) \cup {"/", "#"}
  <2>5. config.id \in Seq(S) /\ other.id \in Seq(S) /\ message.name \in Seq(S)
    BY <2>4, TextType
  <2>6. {"/", "#"} \subseteq S
    OBVIOUS
  <2> HIDE DEF S
  <2>7. id \in Seq(S) /\ String(other.id) \in Seq(S) /\ Len(String(other.id)) = Len(id)
    BY <2>5, SystemsAssumption, StringType
  <2>8. name = message.name /\ message.name # <<>>
    BY <1>2, <2>3, <2>5, <2>6, <2>7, NameOfTopic
  <2>9. body # Garbage => message.header = (IF signed THEN "valid" ELSE "none")
    BY <1>2 DEF verify_signature
  <2>10. AlwaysRegistered'
    BY <2>2 DEF AlwaysRegistered
  <2>11. ASSUME outcome'.code = "0"
         PROVE  /\ outcome'.sent.name # <<>>
                /\ \E t \in DOMAIN configItemMap :
                     /\ configItemMap[t].item = outcome'.item
                     /\ IsPrefix(outcome'.sent.name, configItemMap[t].name)
                /\ outcome'.sent.header = (IF signed THEN "valid" ELSE "none")
    BY <2>2, <2>8, <2>9, <2>11
  <2>12. Authorised'
    BY <1>1, <2>11 DEF Authorised
  <2> QED
    BY <2>10, <2>12
<1>3. CASE ~(name # None /\ body # None)
  <2>1. outcome' = call
    BY <1>3, Zenon DEF publishCallback
  <2>2. outcome'.code = "ignored"
    BY <2>1
  <2> QED
    BY <2>2 DEF AlwaysRegistered, Authorised
<1> QED
  BY <1>2, <1>3

LEMMA ProviderAnswers ==
  ASSUME IInv, provider_run
  PROVE  AlwaysRegistered' /\ Authorised'
<1> DEFINE send == Script[script \div 2 + 1]
           sent == [name |-> send.name, header |-> "none", body |-> send.body]
           call == [sent |-> sent, ready |-> {i \in Items : ~TooSoon(i)},
                    item |-> None, code |-> "unknown", expected |-> send.expected]
<1>1. configItemMap' = configItemMap /\ signed' = signed
  BY DEF provider_run, fixed, configItemMap
<1>2. Started /\ script \in Nat /\ script < 2 * Len(Script)
  BY DEF provider_run, IInv, Kinds
<1>3. CASE script % 2 = 0
  <2>1. updateConfig(send.name, send.body, call)
    BY <1>3, Zenon DEF provider_run
  <2>2. send.name # <<>>
    BY <1>2, NamedSend
  <2>3. ~signed
    <3>1. ASSUME build = "sonata" PROVE FALSE
      <4>1. Script = <<>>
        BY <3>1 DEF Script
      <4> QED
        BY <1>2, <4>1
    <3> QED
      BY <3>1 DEF IInv, Kinds
  <2> HIDE DEF send
  <2>4. /\ outcome'.sent = sent
        /\ outcome'.code # "ENODEV"
        /\ outcome'.code = "0" =>
             \E t \in DOMAIN configItemMap :
               configItemMap[t].item = outcome'.item /\ IsPrefix(send.name, configItemMap[t].name)
    BY <1>2, <2>1, Routed DEF IInv
  <2>5. AlwaysRegistered'
    BY <2>4 DEF AlwaysRegistered
  <2>6. outcome'.sent.name = send.name /\ outcome'.sent.header = "none"
    BY <2>4
  <2>7. Authorised'
    BY <1>1, <2>2, <2>3, <2>4, <2>6 DEF Authorised
  <2> QED
    BY <2>5, <2>7
<1>4. CASE script % 2 # 0
  <2>1. outcome' = None
    BY <1>4, Zenon DEF provider_run
  <2> QED
    BY <2>1 DEF AlwaysRegistered, Authorised
<1> QED
  BY <1>3, <1>4

LEMMA Answers ==
  ASSUME IInv, [Next]_vars, AlwaysRegistered, Authorised
  PROVE  AlwaysRegistered' /\ Authorised'
<1>1. CASE outcome' = None
  BY <1>1 DEF AlwaysRegistered, Authorised
<1>2. CASE \E config \in Systems, message \in traffic : publishCallback(String(config.id), message)
  BY <1>2, CallbackAnswers
<1>3. CASE provider_run
  BY <1>3, ProviderAnswers
<1>4. CASE UNCHANGED vars
  <2>1. outcome' = outcome /\ configItemMap' = configItemMap /\ signed' = signed
    BY <1>4 DEF vars, fixed, configItemMap
  <2> QED
    BY <2>1 DEF AlwaysRegistered, Authorised
<1>5. Register \/ system_config_run \/ generate_topics \/ Tick => outcome' = None
  BY DEF Register, system_config_run, generate_topics, Tick
<1>6. (\E c \in Consumers, item \in Items : Handle(c, item)) => outcome' = None
  BY DEF Handle
<1> QED
  BY <1>1, <1>2, <1>3, <1>4, <1>5, <1>6 DEF Next

\* A name of the table is its own first match.
LEMMA MatchesItself ==
  ASSUME build = "sonata", NEW t \in DOMAIN configItemMap
  PROVE  Matches(configItemMap[t].name) # {} /\ First(Matches(configItemMap[t].name)) = t
<1> DEFINE r == <<"r", "L">>
           u == <<"u", "L">>
<1>1. /\ DOMAIN configItemMap = {1, 2}
      /\ configItemMap[1].name = r /\ configItemMap[2].name = u
  BY DEF configItemMap, SonataMap, Entry
<1>2. IsPrefix(r, r) /\ IsPrefix(u, u)
  BY DEF IsPrefix
<1>3. ~IsPrefix(r, u) /\ ~IsPrefix(u, r)
  <2>1. /\ SubSeq(r, 1, Len(r))[1] = "r" /\ SubSeq(r, 1, Len(u))[1] = "r"
        /\ SubSeq(u, 1, Len(u))[1] = "u" /\ SubSeq(u, 1, Len(r))[1] = "u"
    OBVIOUS
  <2> QED
    BY <2>1 DEF IsPrefix
<1> HIDE DEF r, u
<1>4. CASE t = 1
  <2>1. Matches(r) = {1}
    BY <1>1, <1>2, <1>3 DEF Matches
  <2> QED
    BY <1>1, <1>4, <2>1, FirstIsLeast
<1>5. CASE t = 2
  <2>1. Matches(u) = {2}
    BY <1>1, <1>2, <1>3 DEF Matches
  <2> QED
    BY <1>1, <1>5, <2>1, FirstIsLeast
<1> QED
  BY <1>1, <1>4, <1>5

LEMMA CallbackTakes ==
  ASSUME IInv, NEW config \in Systems, NEW message \in traffic,
         publishCallback(String(config.id), message), config_topic # <<>>,
         NEW t \in DOMAIN configItemMap,
         configItemMap[t].name = message.name, ~TooSoon(configItemMap[t].item),
         message.header = (IF signed THEN "valid" ELSE "none"),
         WellFormed(configItemMap[t].item, message.body)
  PROVE  outcome'.code = "0"
<1> DEFINE id == String(config.id)
           name == Name(Topic(id, message.name))
           body == verify_signature(message)
           item == configItemMap[t].item
           call == [sent |-> message, ready |-> {i \in Items : ~TooSoon(i)},
                    item |-> None, code |-> "ignored", expected |-> None]
<1>1. IsMessage(message) /\ Started /\ build = "sonata"
  BY DEF IInv, Kinds, Subscribed
<1>2. PICK other \in Systems : config_topic = Topic(String(other.id), <<"#">>)
  BY DEF IInv, Subscribed
<1>3. name = IF message.name = <<>> THEN None ELSE message.name
  <2>1. IsText(config.id) /\ IsText(other.id) /\ IsText(message.name)
    BY <1>1, SystemsAssumption DEF IsMessage
  <2> DEFINE S == ToSet(config.id) \cup ToSet(other.id) \cup ToSet(message.name) \cup {"/", "#"}
  <2>2. config.id \in Seq(S) /\ other.id \in Seq(S) /\ message.name \in Seq(S)
    BY <2>1, TextType
  <2>3. {"/", "#"} \subseteq S
    OBVIOUS
  <2> HIDE DEF S
  <2>4. id \in Seq(S) /\ String(other.id) \in Seq(S) /\ Len(String(other.id)) = Len(id)
    BY <2>2, SystemsAssumption, StringType
  <2> QED
    BY <1>2, <2>2, <2>3, <2>4, NameOfTopic
<1>4. message.name # <<>>
  BY <1>1 DEF configItemMap, SonataMap, Entry
<1>5. name = message.name /\ name # None
  BY <1>1, <1>3, <1>4 DEF IsMessage
<1>6. body = message.body /\ body # None
  BY <1>1 DEF verify_signature, IsMessage
<1>7. updateConfig(message.name, message.body, call)
  BY <1>5, <1>6, Zenon DEF publishCallback
<1>8. Matches(message.name) # {} /\ First(Matches(message.name)) = t
  BY <1>1, MatchesItself
<1>9. outcome' = [call EXCEPT !.item = item, !.code = Code(item, message.body)]
  BY <1>7, <1>8, Zenon DEF updateConfig
<1>10. item \in registered /\ item \in {"rgb_led", "user_led"}
  BY <1>1, AllRegistered, MapType DEF IInv
<1>11. Parse(item, message.body) # Rejected
  <2>1. message.body # Garbage
    BY DEF WellFormed
  <2>2. \A f \in RgbFields \cap DOMAIN message.body : message.body[f] \in Seq(0 .. 10)
    BY <1>1, <2>1 DEF IsMessage
  <2> HIDE DEF item
  <2> QED
    BY <1>10, <2>2, WellFormedTaken DEF item
<1>12. Code(item, message.body) = "0"
  BY <1>10, <1>11 DEF Code
<1> HIDE DEF item
<1> QED
  BY <1>9, <1>12

LEMMA GoodAnswers ==
  ASSUME IInv, [Next]_vars, GoodMessagesTaken
  PROVE  GoodMessagesTaken'
<1>1. CASE outcome' = None
  BY <1>1 DEF GoodMessagesTaken
<1>2. ASSUME NEW config \in Systems, NEW message \in traffic, publishCallback(String(config.id), message)
      PROVE  GoodMessagesTaken'
  <2>1. configItemMap' = configItemMap /\ signed' = signed /\ config_topic' = config_topic
    BY <1>2 DEF publishCallback, fixed, configItemMap
  <2>2. outcome'.sent = message /\ outcome'.ready = {i \in Items : ~TooSoon(i)}
    <3> DEFINE ready == {i \in Items : ~TooSoon(i)}
               call == [sent |-> message, ready |-> ready,
                        item |-> None, code |-> "ignored", expected |-> None]
    <3>1. \/ outcome' = call
          \/ \E name, body : updateConfig(name, body, call)
      BY <1>2, Zenon DEF publishCallback
    <3>2. \/ outcome' = call
          \/ \E i, c : outcome' = [call EXCEPT !.item = i, !.code = c]
          \/ \E c : outcome' = [call EXCEPT !.code = c]
      BY <3>1, Zenon DEF updateConfig
    <3> HIDE DEF ready
    <3>3. outcome'.sent = message /\ outcome'.ready = ready
      <4>1. CASE outcome' = call
        BY <4>1
      <4>2. ASSUME NEW i, NEW c, outcome' = [call EXCEPT !.item = i, !.code = c]
            PROVE  outcome'.sent = message /\ outcome'.ready = ready
        BY <4>2
      <4>3. ASSUME NEW c, outcome' = [call EXCEPT !.code = c]
            PROVE  outcome'.sent = message /\ outcome'.ready = ready
        BY <4>3
      <4> HIDE DEF call
      <4> QED
        BY <3>2, <4>1, <4>2, <4>3, Zenon
    <3> QED
      BY <3>3, Zenon DEF ready
  <2>3. ASSUME config_topic # <<>>, NEW t \in DOMAIN configItemMap,
               configItemMap[t].name = outcome'.sent.name, configItemMap[t].item \in outcome'.ready,
               outcome'.sent.header = (IF signed THEN "valid" ELSE "none"),
               WellFormed(configItemMap[t].item, outcome'.sent.body)
        PROVE  outcome'.code = "0"
    <3>1. ~TooSoon(configItemMap[t].item)
      BY <2>2, <2>3
    <3> QED
      BY <1>2, <2>2, <2>3, <3>1, CallbackTakes
  <2> QED
    BY <2>1, <2>3 DEF GoodMessagesTaken, WellFormed
<1>3. CASE provider_run
  <2>1. config_topic' = <<>>
    <3>1. ASSUME config_topic # <<>> PROVE FALSE
      <4>1. build = "sonata"
        BY <3>1 DEF IInv, Subscribed
      <4>2. Script = <<>>
        BY <4>1 DEF Script
      <4> QED
        BY <1>3, <4>2 DEF provider_run, IInv, Kinds
    <3> QED
      BY <1>3, <3>1 DEF provider_run
  <2> QED
    BY <2>1 DEF GoodMessagesTaken
<1>4. CASE UNCHANGED vars
  <2>1. /\ outcome' = outcome /\ configItemMap' = configItemMap /\ signed' = signed
        /\ config_topic' = config_topic
    BY <1>4 DEF vars, fixed, configItemMap
  <2> QED
    BY <2>1 DEF GoodMessagesTaken, WellFormed
<1>5. Register \/ system_config_run \/ generate_topics \/ Tick => outcome' = None
  BY DEF Register, system_config_run, generate_topics, Tick
<1>6. (\E c \in Consumers, item \in Items : Handle(c, item)) => outcome' = None
  BY DEF Handle
<1> QED
  BY <1>1, <1>2, <1>3, <1>4, <1>5, <1>6 DEF Next

LEMMA AnswersHold == Spec => [](IInv /\ AlwaysRegistered /\ Authorised)
<1>1. Init => IInv /\ AlwaysRegistered /\ Authorised
  BY IInvInit DEF Init, AlwaysRegistered, Authorised
<1>2. IInv /\ AlwaysRegistered /\ Authorised /\ [Next]_vars => (IInv /\ AlwaysRegistered /\ Authorised)'
  BY IInvNext, Answers
<1> QED
  BY <1>1, <1>2, PTL DEF Spec

\* No provider asks for an item before all parsers are registered, whatever the
\* order in which messages, ids and failures of parser_init come.
THEOREM ParsersComeFirst == Spec => []AlwaysRegistered
BY AnswersHold, PTL

\* Only a message that names the item, and is signed where that is asked for,
\* changes it, whatever is published and for whichever id.
THEOREM OnlyAuthorisedChanges == Spec => []Authorised
BY AnswersHold, PTL

\* A message that is right in every respect is never turned away, whatever zeros
\* its numbers begin with: the parsers take every document that they should
\* (parser_helper.h:47-94).
THEOREM GoodMessagesAreTaken == Spec => []GoodMessagesTaken
<1>1. Init => GoodMessagesTaken
  BY DEF Init, GoodMessagesTaken
<1>2. IInv /\ GoodMessagesTaken /\ [Next]_vars => GoodMessagesTaken'
  BY GoodAnswers
<1> QED
  BY <1>1, <1>2, RoutingInductive, PTL DEF Spec

-----------------------------------------------------------------------------
(* Lemmas: what the scripts send, and when *)

\* A concatenation is known by its elements.
LEMMA Joined ==
  ASSUME NEW S, NEW s \in Seq(S), NEW t \in Seq(S), NEW u \in Seq(S), Len(u) = Len(s) + Len(t),
         \A i \in 1 .. Len(u) : u[i] = IF i <= Len(s) THEN s[i] ELSE t[i - Len(s)]
  PROVE  s \o t = u
<1>1. s \o t \in Seq(S) /\ Len(s \o t) = Len(u) /\ \A i \in 1 .. Len(u) : (s \o t)[i] = u[i]
  BY ConcatProperties
<1> QED
  BY <1>1, SeqEqual, Zenon

\* The parts that the scripts are made of.
LEMMA ThreeAndOne ==
  ASSUME NEW a, NEW b, NEW c, NEW d
  PROVE  <<a, b, c>> \o <<d>> = <<a, b, c, d>>
<1> DEFINE S == {a, b, c, d}
           s == <<a, b, c>>
           t == <<d>>
           u == <<a, b, c, d>>
<1>1. s \in Seq(S) /\ t \in Seq(S) /\ u \in Seq(S)
  OBVIOUS
<1>2. Len(s) = 3 /\ Len(t) = 1 /\ Len(u) = 4
  OBVIOUS
<1>3. \A x \in 1 .. 4 : u[x] = IF x <= 3 THEN s[x] ELSE t[x - 3]
  OBVIOUS
<1> HIDE DEF S, s, t, u
<1>4. Len(u) = Len(s) + Len(t) /\ \A x \in 1 .. Len(u) : u[x] = IF x <= Len(s) THEN s[x] ELSE t[x - Len(s)]
  BY <1>2, <1>3
<1>5. s \o t = u
  BY <1>1, <1>4, Joined
<1> QED
  BY <1>5 DEF s, t, u

LEMMA FourAndSeven ==
  ASSUME NEW a, NEW b, NEW c, NEW d, NEW e, NEW f, NEW g, NEW h, NEW i, NEW j, NEW k
  PROVE  <<a, b, c, d>> \o <<e, f, g, h, i, j, k>> = <<a, b, c, d, e, f, g, h, i, j, k>>
<1> DEFINE S == {a, b, c, d, e, f, g, h, i, j, k}
           s == <<a, b, c, d>>
           t == <<e, f, g, h, i, j, k>>
           u == <<a, b, c, d, e, f, g, h, i, j, k>>
<1>1. s \in Seq(S) /\ t \in Seq(S) /\ u \in Seq(S)
  OBVIOUS
<1>2. Len(s) = 4 /\ Len(t) = 7 /\ Len(u) = 11
  OBVIOUS
<1>3. \A x \in 1 .. 11 : u[x] = IF x <= 4 THEN s[x] ELSE t[x - 4]
  OBVIOUS
<1> HIDE DEF S, s, t, u
<1>4. Len(u) = Len(s) + Len(t) /\ \A x \in 1 .. Len(u) : u[x] = IF x <= Len(s) THEN s[x] ELSE t[x - Len(s)]
  BY <1>2, <1>3
<1>5. s \o t = u
  BY <1>1, <1>4, Joined
<1> QED
  BY <1>5 DEF s, t, u

LEMMA ElevenAndTwo ==
  ASSUME NEW a, NEW b, NEW c, NEW d, NEW e, NEW f, NEW g, NEW h, NEW i, NEW j, NEW k, NEW l, NEW m
  PROVE  <<a, b, c, d, e, f, g, h, i, j, k>> \o <<l, m>> = <<a, b, c, d, e, f, g, h, i, j, k, l, m>>
<1> DEFINE S == {a, b, c, d, e, f, g, h, i, j, k, l, m}
           s == <<a, b, c, d, e, f, g, h, i, j, k>>
           t == <<l, m>>
           u == <<a, b, c, d, e, f, g, h, i, j, k, l, m>>
<1>1. s \in Seq(S) /\ t \in Seq(S) /\ u \in Seq(S)
  OBVIOUS
<1>2. Len(s) = 11 /\ Len(t) = 2 /\ Len(u) = 13
  OBVIOUS
<1>3. \A x \in 1 .. 13 : u[x] = IF x <= 11 THEN s[x] ELSE t[x - 11]
  OBVIOUS
<1> HIDE DEF S, s, t, u
<1>4. Len(u) = Len(s) + Len(t) /\ \A x \in 1 .. Len(u) : u[x] = IF x <= Len(s) THEN s[x] ELSE t[x - Len(s)]
  BY <1>2, <1>3
<1>5. s \o t = u
  BY <1>1, <1>4, Joined
<1> QED
  BY <1>5 DEF s, t, u

LEMMA FiveAndTwo ==
  ASSUME NEW a, NEW b, NEW c, NEW d, NEW e, NEW f, NEW g
  PROVE  <<a, b, c, d, e>> \o <<f, g>> = <<a, b, c, d, e, f, g>>
<1> DEFINE S == {a, b, c, d, e, f, g}
           s == <<a, b, c, d, e>>
           t == <<f, g>>
           u == <<a, b, c, d, e, f, g>>
<1>1. s \in Seq(S) /\ t \in Seq(S) /\ u \in Seq(S)
  OBVIOUS
<1>2. Len(s) = 5 /\ Len(t) = 2 /\ Len(u) = 7
  OBVIOUS
<1>3. \A x \in 1 .. 7 : u[x] = IF x <= 5 THEN s[x] ELSE t[x - 5]
  OBVIOUS
<1> HIDE DEF S, s, t, u
<1>4. Len(u) = Len(s) + Len(t) /\ \A x \in 1 .. Len(u) : u[x] = IF x <= Len(s) THEN s[x] ELSE t[x - Len(s)]
  BY <1>2, <1>3
<1>5. s \o t = u
  BY <1>1, <1>4, Joined
<1> QED
  BY <1>5 DEF s, t, u

Slept(send, sleep) == [send EXCEPT !.sleep = sleep]

\* The script of the simulator, step by step.
LEMMA IbexSends ==
  ASSUME build = "ibex"
  PROVE  Script =
           << Slept(Send(logger, Logger(Host, 666, 2), "0"), 5), Slept(Send(logger, Logger(Host, 666, 0), "0"), 5),
              Slept(Send(logger, Logger(BadHost, 0, 0), "EINVAL"), 5), Send(logger, Garbage, "EINVAL"),
              Slept(Send(rgbled, Colours1, "0"), 10), Slept(Send(userled, Lights1, "0"), 10),
              Slept(Send(rgbled, Garbage, "EINVAL"), 10), Slept(Send(userled, Lights2, "0"), 10),
              Slept(Send(rgbled, Colours2, "0"), 10), Slept(Send(userled, Lights2, "0"), 10),
              Slept(Send(rgbled, TooLarge, "EINVAL"), 10),
              Send(userled, Lights1, "0"), [Send(userled, Lights1, "0") EXCEPT !.expected = "EBUSY"] >>
<1> DEFINE s1 == Send(rgbled, Colours1, "0")
           s2 == Send(userled, Lights1, "0")
           s3 == Send(rgbled, Garbage, "EINVAL")
           s4 == Send(userled, Lights2, "0")
           s5 == Send(rgbled, Colours2, "0")
           s6 == Send(rgbled, TooLarge, "EINVAL")
           l1 == Send(logger, Logger(Host, 666, 2), "0")
           l2 == Send(logger, Logger(Host, 666, 0), "0")
           l3 == Send(logger, Logger(BadHost, 0, 0), "EINVAL")
           l4 == Send(logger, Garbage, "EINVAL")
           b2 == [s2 EXCEPT !.expected = "EBUSY"]
<1>1. Script = IbexScript
  BY DEF Script
<1>2. /\ IbexMessages = <<s1, s2, s3, s4, s5, s4, s6>>
      /\ IbexScript = Sleeping(<<l1, l2, l3>>, 5) \o <<l4>> \o Sleeping(IbexMessages, 10)
                        \o TooQuickly(IbexMessages[2])
  BY Zenon DEF IbexMessages, IbexScript
<1>3. TooQuickly(s2) = <<s2, b2>>
  BY DEF TooQuickly
<1> HIDE DEF s1, s2, s3, s4, s5, s6, l1, l2, l3, l4, b2
<1>4. Sleeping(<<l1, l2, l3>>, 5) = <<Slept(l1, 5), Slept(l2, 5), Slept(l3, 5)>>
  BY DEF Sleeping, Slept
<1>5. Sleeping(<<s1, s2, s3, s4, s5, s4, s6>>, 10) =
        <<Slept(s1, 10), Slept(s2, 10), Slept(s3, 10), Slept(s4, 10), Slept(s5, 10), Slept(s4, 10), Slept(s6, 10)>>
  BY DEF Sleeping, Slept
<1>6. IbexMessages[2] = s2
  BY <1>2
<1> HIDE DEF Slept
<1>7. Script = <<Slept(l1, 5), Slept(l2, 5), Slept(l3, 5)>> \o <<l4>>
               \o <<Slept(s1, 10), Slept(s2, 10), Slept(s3, 10), Slept(s4, 10), Slept(s5, 10), Slept(s4, 10), Slept(s6, 10)>>
               \o <<s2, b2>>
  BY <1>1, <1>2, <1>3, <1>4, <1>5, <1>6
<1>8. Script = <<Slept(l1, 5), Slept(l2, 5), Slept(l3, 5), l4, Slept(s1, 10), Slept(s2, 10), Slept(s3, 10),
                 Slept(s4, 10), Slept(s5, 10), Slept(s4, 10), Slept(s6, 10), s2, b2>>
  <2>1. <<Slept(l1, 5), Slept(l2, 5), Slept(l3, 5)>> \o <<l4>> = <<Slept(l1, 5), Slept(l2, 5), Slept(l3, 5), l4>>
    BY ThreeAndOne, Zenon
  <2>2. <<Slept(l1, 5), Slept(l2, 5), Slept(l3, 5), l4>>
          \o <<Slept(s1, 10), Slept(s2, 10), Slept(s3, 10), Slept(s4, 10), Slept(s5, 10), Slept(s4, 10), Slept(s6, 10)>>
        = <<Slept(l1, 5), Slept(l2, 5), Slept(l3, 5), l4, Slept(s1, 10), Slept(s2, 10), Slept(s3, 10),
            Slept(s4, 10), Slept(s5, 10), Slept(s4, 10), Slept(s6, 10)>>
    BY FourAndSeven
  <2>3. <<Slept(l1, 5), Slept(l2, 5), Slept(l3, 5), l4, Slept(s1, 10), Slept(s2, 10), Slept(s3, 10),
          Slept(s4, 10), Slept(s5, 10), Slept(s4, 10), Slept(s6, 10)>> \o <<s2, b2>>
        = <<Slept(l1, 5), Slept(l2, 5), Slept(l3, 5), l4, Slept(s1, 10), Slept(s2, 10), Slept(s3, 10),
            Slept(s4, 10), Slept(s5, 10), Slept(s4, 10), Slept(s6, 10), s2, b2>>
    BY ElevenAndTwo
  <2> QED
    BY <1>7, <2>1, <2>2, <2>3, Zenon
<1> QED
  BY <1>8, Zenon DEF s1, s2, s3, s4, s5, s6, l1, l2, l3, l4, b2

\* The script of the stub.
LEMMA StubSends ==
  ASSUME build = "stub"
  PROVE  Script =
           << Slept(Send(rgbled, Colours1, "0"), 30), Slept(Send(userled, Lights1, "0"), 30),
              Slept(Send(rgbled, Colours2, "0"), 30), Slept(Send(userled, Lights2, "0"), 30),
              Slept(Send(rgbled, TooLarge, "EINVAL"), 30),
              Send(userled, Lights1, "0"), [Send(userled, Lights1, "0") EXCEPT !.expected = "EBUSY"] >>
<1> DEFINE s1 == Send(rgbled, Colours1, "0")
           s2 == Send(userled, Lights1, "0")
           s4 == Send(userled, Lights2, "0")
           s5 == Send(rgbled, Colours2, "0")
           s6 == Send(rgbled, TooLarge, "EINVAL")
           b2 == [s2 EXCEPT !.expected = "EBUSY"]
<1>1. Script = StubScript
  BY DEF Script
<1>2. /\ StubMessages = <<s1, s2, s5, s4, s6>>
      /\ StubScript = Sleeping(StubMessages, 30) \o TooQuickly(StubMessages[2])
  BY Zenon DEF StubMessages, StubScript
<1>3. TooQuickly(s2) = <<s2, b2>>
  BY DEF TooQuickly
<1> HIDE DEF s1, s2, s4, s5, s6, b2
<1>4. Sleeping(<<s1, s2, s5, s4, s6>>, 30) =
        <<Slept(s1, 30), Slept(s2, 30), Slept(s5, 30), Slept(s4, 30), Slept(s6, 30)>>
  BY DEF Sleeping, Slept
<1>5. StubMessages[2] = s2
  BY <1>2
<1> HIDE DEF Slept
<1>6. Script = <<Slept(s1, 30), Slept(s2, 30), Slept(s5, 30), Slept(s4, 30), Slept(s6, 30)>> \o <<s2, b2>>
  BY <1>1, <1>2, <1>3, <1>4, <1>5
<1>7. <<Slept(s1, 30), Slept(s2, 30), Slept(s5, 30), Slept(s4, 30), Slept(s6, 30)>> \o <<s2, b2>> =
        <<Slept(s1, 30), Slept(s2, 30), Slept(s5, 30), Slept(s4, 30), Slept(s6, 30), s2, b2>>
  BY FiveAndTwo
<1> QED
  BY <1>6, <1>7, Zenon DEF s1, s2, s4, s5, s6, b2

-----------------------------------------------------------------------------
(* Lemmas: what the parsers make of the scripts *)

\* The numbers of a body are texts of at most nine characters.
Numbers(body) == \A f \in RgbFields \cap DOMAIN body : body[f] \in Seq(0 .. 10) /\ Len(body[f]) <= 9

Loggers == {Logger(Host, 666, 2), Logger(Host, 666, 0), Logger(BadHost, 0, 0)}

\* A number has as many digits as it is divided by ten.
Short(n, m) == Len(Digits[n]) \in Nat /\ Len(Digits[n]) <= m

LEMMA OneDigit ==
  ASSUME NEW n \in Nat, n < 10
  PROVE  Short(n, 1)
<1>1. Digits[n] = <<n>>
  BY DigitsAre
<1>2. Len(<<n>>) = 1
  OBVIOUS
<1> QED
  BY <1>1, <1>2 DEF Short

\* A digit less for a tenth of it.
LEMMA MoreDigits ==
  ASSUME NEW n \in Nat, ~(n < 10), NEW m \in Nat, Short(n \div 10, m)
  PROVE  Short(n, m + 1)
<1> DEFINE q == n \div 10
           r == n % 10
           d == Digits[q]
<1>1. q \in Nat /\ r \in 0 .. 9
  BY Tenth
<1>2. Digits[n] = Append(d, r)
  BY DigitsAre
<1>3. Len(d) <= m
  BY DEF Short
<1> HIDE DEF q, r
<1>4. d \in Seq(0 .. 9)
  BY <1>1, DigitsType
<1> HIDE DEF d
<1>5. Len(Append(d, r)) = Len(d) + 1 /\ Len(d) \in Nat
  BY <1>1, <1>4, AppendProperties, LenProperties
<1> QED
  BY <1>2, <1>3, <1>5 DEF Short

LEMMA ThreeDigits ==
  ASSUME NEW n \in Nat, n < 1000
  PROVE  Len(Digits[n]) \in Nat /\ Len(Digits[n]) <= 3
<1> DEFINE q == n \div 10
           p == q \div 10
<1>1. q \in Nat /\ p \in Nat /\ p < 10
  <2>1. q \in Nat /\ q < 100
    BY Tenth
  <2> HIDE DEF q
  <2> QED
    BY <2>1, Tenth
<1>2. Short(q, 2)
  <2>1. CASE q < 10
    BY <1>1, <2>1, OneDigit DEF Short
  <2>2. CASE ~(q < 10)
    <3>1. Short(q, 1 + 1)
      BY <1>1, <2>2, OneDigit, MoreDigits
    <3> QED
      BY <3>1
  <2> QED
    BY <2>1, <2>2
<1>3. Short(n, 3)
  <2>1. CASE n < 10
    BY <2>1, OneDigit DEF Short
  <2>2. CASE ~(n < 10)
    <3>1. Short(n, 2 + 1)
      BY <1>2, <2>2, MoreDigits
    <3> QED
      BY <3>1
  <2> QED
    BY <2>1, <2>2
<1> QED
  BY <1>3 DEF Short

\* The digits of a number represent it.
LEMMA DigitsRepresent ==
  ASSUME NEW n \in Nat
  PROVE  Represents(Digits[n], n)
<1> DEFINE d == Digits[n]
<1>1. d \in Seq(0 .. 9) /\ d # <<>>
  BY DigitsType
<1> HIDE DEF d
<1>3. CASE n = 0
  <2>0. d = <<0>>
    <3>1. n < 10
      BY <1>3
    <3>2. Digits[n] = <<n>>
      BY <3>1, DigitsAre
    <3> QED
      BY <1>3, <3>2 DEF d
  <2>1. Len(d) = 1 /\ d[1] = 0 /\ SubSeq(d, 1 + 1, 1) = <<>>
    BY <2>0
  <2>2. \E z \in 0 .. Len(d) : (\A i \in 1 .. z : d[i] = 0) /\ SubSeq(d, z + 1, Len(d)) = <<>>
    <3>1. 1 \in 0 .. Len(d) /\ \A i \in 1 .. 1 : d[i] = 0
      BY <2>1
    <3> QED
      BY <2>1, <3>1
  <2> QED
    BY <1>3, <2>2 DEF Represents, d
<1>4. CASE n # 0
  <2>1. SubSeq(d, 1, Len(d)) = d
    BY <1>1, LenProperties, SubSeqProperties
  <2>2. 0 \in 0 .. Len(d) /\ (\A i \in 1 .. 0 : d[i] = 0) /\ SubSeq(d, 0 + 1, Len(d)) = d
    BY <1>1, <2>1, LenProperties
  <2>3. \E z \in 0 .. Len(d) : (\A i \in 1 .. z : d[i] = 0) /\ SubSeq(d, z + 1, Len(d)) = d
    BY <2>2, Zenon
  <2> QED
    BY <1>4, <2>3 DEF Represents, d
<1> QED
  BY <1>3, <1>4

\* The colours of the scripts, two of which are well-formed.
Figures == 0 .. 999
ColoursOf(body, green, numbers) ==
  /\ DOMAIN body = RgbFields /\ Numbers(body)
  /\ body["led0.green"] = Digits[green]
  /\ numbers \subseteq 0 .. 255 => \A f \in RgbFields : \E n \in 0 .. 255 : Represents(body[f], n)

LEMMA ColoursAre ==
  ASSUME NEW r0 \in Figures, NEW g0 \in Figures, NEW b0 \in Figures,
         NEW r1 \in Figures, NEW g1 \in Figures, NEW b1 \in Figures
  PROVE  ColoursOf(Rgb(r0, g0, b0, r1, g1, b1), g0, {r0, g0, b0, r1, g1, b1})
<1> DEFINE body == Rgb(r0, g0, b0, r1, g1, b1)
<1>1. DOMAIN body = RgbFields /\ body["led0.green"] = Digits[g0]
  BY DEF Rgb, RgbFields
<1>2. ASSUME NEW f \in RgbFields PROVE \E m \in {r0, g0, b0, r1, g1, b1} : body[f] = Digits[m]
  BY DEF Rgb, RgbFields
<1> HIDE DEF body
<1>3. ASSUME NEW f \in RgbFields PROVE body[f] \in Seq(0 .. 10) /\ Len(body[f]) <= 9
  <2>1. PICK m \in {r0, g0, b0, r1, g1, b1} : body[f] = Digits[m]
    BY <1>2, <1>3
  <2>2. m \in Nat /\ m < 1000
    BY DEF Figures
  <2> DEFINE d == Digits[m]
  <2>3. d \in Seq(0 .. 9) /\ Len(d) \in Nat /\ Len(d) <= 3
    BY <2>2, DigitsType, ThreeDigits
  <2> HIDE DEF d
  <2>4. d \in Seq(0 .. 10) /\ Len(d) <= 9
    BY <2>3
  <2> QED
    BY <2>1, <2>4 DEF d
<1>4. ASSUME {r0, g0, b0, r1, g1, b1} \subseteq 0 .. 255, NEW f \in RgbFields
      PROVE  \E n \in 0 .. 255 : Represents(body[f], n)
  <2>1. PICK m \in {r0, g0, b0, r1, g1, b1} : body[f] = Digits[m]
    BY <1>2, <1>4
  <2>2. m \in 0 .. 255 /\ m \in Nat
    BY <1>4
  <2>3. Represents(body[f], m)
    BY <2>1, <2>2, DigitsRepresent
  <2> QED
    BY <2>2, <2>3
<1> QED
  BY <1>1, <1>3, <1>4 DEF Numbers, ColoursOf, body

\* Two of the messages for the colours are taken, and the third has a colour that is
\* too large.
LEMMA ColoursParsed ==
  /\ Parse("rgb_led", Colours1) # Rejected /\ Parse("rgb_led", Colours2) # Rejected
  /\ Parse("rgb_led", TooLarge) = Rejected
  /\ Numbers(Colours1) /\ Numbers(Colours2) /\ Numbers(TooLarge)
<1>1. /\ DOMAIN Colours1 = RgbFields /\ Numbers(Colours1)
      /\ \A f \in RgbFields : \E n \in 0 .. 255 : Represents(Colours1[f], n)
  <2>1. ColoursOf(Rgb(0, 86, 164, 255, 200, 200), 86, {0, 86, 164, 255, 200, 200})
    <3> DEFINE r0 == 0
               g0 == 86
               b0 == 164
               r1 == 255
               g1 == 200
               b1 == 200
    <3>1. /\ r0 \in Figures /\ g0 \in Figures /\ b0 \in Figures
          /\ r1 \in Figures /\ g1 \in Figures /\ b1 \in Figures
      BY DEF Figures
    <3> HIDE DEF r0, g0, b0, r1, g1, b1
    <3>2. ColoursOf(Rgb(r0, g0, b0, r1, g1, b1), g0, {r0, g0, b0, r1, g1, b1})
      BY <3>1, ColoursAre, Zenon
    <3> QED
      BY <3>2 DEF r0, g0, b0, r1, g1, b1
  <2>2. {0, 86, 164, 255, 200, 200} \subseteq 0 .. 255
    OBVIOUS
  <2> QED
    BY <2>1, <2>2, Zenon DEF ColoursOf, Colours1
<1>2. /\ DOMAIN Colours2 = RgbFields /\ Numbers(Colours2)
      /\ \A f \in RgbFields : \E n \in 0 .. 255 : Represents(Colours2[f], n)
  <2>1. ColoursOf(Rgb(255, 200, 200, 0, 86, 164), 200, {255, 200, 200, 0, 86, 164})
    <3> DEFINE r0 == 255
               g0 == 200
               b0 == 200
               r1 == 0
               g1 == 86
               b1 == 164
    <3>1. /\ r0 \in Figures /\ g0 \in Figures /\ b0 \in Figures
          /\ r1 \in Figures /\ g1 \in Figures /\ b1 \in Figures
      BY DEF Figures
    <3> HIDE DEF r0, g0, b0, r1, g1, b1
    <3>2. ColoursOf(Rgb(r0, g0, b0, r1, g1, b1), g0, {r0, g0, b0, r1, g1, b1})
      BY <3>1, ColoursAre, Zenon
    <3> QED
      BY <3>2 DEF r0, g0, b0, r1, g1, b1
  <2>2. {255, 200, 200, 0, 86, 164} \subseteq 0 .. 255
    OBVIOUS
  <2> QED
    BY <2>1, <2>2, Zenon DEF ColoursOf, Colours2
<1>3. DOMAIN TooLarge = RgbFields /\ Numbers(TooLarge) /\ TooLarge["led0.green"] = Digits[286]
  <2>1. ColoursOf(Rgb(0, 286, 400, 255, 200, 200), 286, {0, 286, 400, 255, 200, 200})
    <3> DEFINE r0 == 0
               g0 == 286
               b0 == 400
               r1 == 255
               g1 == 200
               b1 == 200
    <3>1. /\ r0 \in Figures /\ g0 \in Figures /\ b0 \in Figures
          /\ r1 \in Figures /\ g1 \in Figures /\ b1 \in Figures
      BY DEF Figures
    <3> HIDE DEF r0, g0, b0, r1, g1, b1
    <3>2. ColoursOf(Rgb(r0, g0, b0, r1, g1, b1), g0, {r0, g0, b0, r1, g1, b1})
      BY <3>1, ColoursAre, Zenon
    <3> QED
      BY <3>2 DEF r0, g0, b0, r1, g1, b1
  <2> QED
    BY <2>1, Zenon DEF ColoursOf, TooLarge
<1>4. WellFormed("rgb_led", Colours1) /\ WellFormed("rgb_led", Colours2)
  BY <1>1, <1>2, ScriptsAssumption DEF WellFormed
<1>5. Parse("rgb_led", Colours1) # Rejected /\ Parse("rgb_led", Colours2) # Rejected
  BY <1>1, <1>2, <1>4, WellFormedTaken DEF Numbers
<1>6. Parse("rgb_led", TooLarge) = Rejected
  <2>1. Represents(Digits[286], 286) /\ Digits[286] \in Seq(0 .. 10) /\ Fits(286)
    <3>1. Represents(Digits[286], 286) /\ Digits[286] \in Seq(0 .. 9)
      BY DigitsRepresent, DigitsType
    <3>2. Fits(286)
      BY DEF Fits, Bytes
    <3> DEFINE d == Digits[286]
    <3> HIDE DEF d
    <3>3. d \in Seq(0 .. 9) => d \in Seq(0 .. 10)
      OBVIOUS
    <3> QED
      BY <3>1, <3>2, <3>3 DEF d
  <2>2. Number(Digits[286]) = [high |-> 0, low |-> 286]
    BY <2>1, NumberOfText
  <2>3. ~(286 < Bytes(1))
    BY DEF Bytes
  <2>4. "led0.green" \in RgbFields
    BY DEF RgbFields
  <2>5. get_number(TooLarge, "led0.green", 1) = Rejected
    BY <1>3, <2>2, <2>3 DEF get_number
  <2> DEFINE v == [f \in RgbFields |-> get_number(TooLarge, f, 1)]
  <2>6. v["led0.green"] = Rejected /\ "led0.green" \in DOMAIN v
    BY <2>4, <2>5
  <2>7. Parse("rgb_led", TooLarge) = Rejected \/ Parse("rgb_led", TooLarge) = Whole(v)
    BY DEF Parse, parse_RGB_LED_config
  <2> HIDE DEF v
  <2>8. Whole(v) = Rejected
    BY <2>6 DEF Whole
  <2> QED
    BY <2>7, <2>8
<1> QED
  BY <1>1, <1>2, <1>3, <1>5, <1>6

\* So are the lights.
LEMMA LightsAre ==
  ASSUME NEW texts, \A i \in 1 .. 8 : texts[i] \in UNION {Spellings[s] : s \in DOMAIN Spellings},
         User(texts) # Garbage
  PROVE  Parse("user_led", User(texts)) # Rejected
<1>1. ASSUME NEW f \in UserFields
      PROVE  User(texts)[f] \in UNION {Spellings[s] : s \in DOMAIN Spellings}
  <2>1. \E i \in 1 .. 8 : f = UserLeds[i]
    BY DEF UserFields, UserLeds
  <2>2. (CHOOSE i \in 1 .. 8 : f = UserLeds[i]) \in 1 .. 8
    BY <2>1
  <2>3. User(texts)[f] = texts[CHOOSE i \in 1 .. 8 : f = UserLeds[i]]
    BY DEF User
  <2> QED
    BY <2>2, <2>3
<1>2. DOMAIN User(texts) = UserFields
  BY DEF User
<1>3. WellFormed("user_led", User(texts))
  BY <1>1, <1>2 DEF WellFormed
<1>4. RgbFields \cap UserFields = {}
  BY DEF RgbFields, UserFields
<1> QED
  BY <1>2, <1>3, <1>4, WellFormedTaken

\* The messages for the user LEDs are taken.
LEMMA LightsParsed ==
  Parse("user_led", Lights1) # Rejected /\ Parse("user_led", Lights2) # Rejected
<1> DEFINE all == UNION {Spellings[s] : s \in DOMAIN Spellings}
           texts1 == <<"on", "off", "ON", "OFF", "On", "Off", "on", "off">>
           texts2 == <<"OFF", "ON", "off", "on", "Off", "On", "off", "on">>
<1>1. {"on", "off", "ON", "OFF", "On", "Off"} \subseteq all
  BY DEF Spellings
<1> HIDE DEF all
<1>2. (\A i \in 1 .. 8 : texts1[i] \in all) /\ (\A i \in 1 .. 8 : texts2[i] \in all)
  BY <1>1
<1> HIDE DEF texts1, texts2
<1>3. Lights1 = User(texts1) /\ Lights2 = User(texts2)
  BY DEF Lights1, Lights2, texts1, texts2
<1>4. Lights1 # Garbage /\ Lights2 # Garbage
  BY ScriptsAssumption
<1> QED
  BY <1>2, <1>3, <1>4, LightsAre DEF all

\* The configurations of the logger: one is rejected for its port, if not for its address.
LEMMA LoggerParsed ==
  /\ Parse("logger", Logger(Host, 666, 2)) # Rejected /\ Parse("logger", Logger(Host, 666, 0)) # Rejected
  /\ Parse("logger", Logger(BadHost, 0, 0)) = Rejected
<1>1. Copied(Host, AddressChars) \in Seq(AddressChars)
  <2> DEFINE stops == {i \in DOMAIN Host : Host[i] \notin AddressChars}
             host == SubSeq(Host, 1, 7)
  <2>1. stops = {8} /\ Host[8] = "NUL"
    BY DEF Host, AddressChars
  <2>2. Copied(Host, AddressChars) = SubSeq(Host, 1, 8 - 1)
    BY <2>1 DEF Copied
  <2>3. \A i \in 1 .. 7 : Host[i] \in AddressChars
    BY DEF Host, AddressChars
  <2>4. SubSeq(Host, 1, 7) \in Seq(AddressChars)
    BY <2>3, SubSeqProperties
  <2> QED
    BY <2>2, <2>4
<1>2. ASSUME NEW l \in {0, 2} PROVE Parse("logger", Logger(Host, 666, l)) # Rejected
  <2> DEFINE v == [level |-> l, address |-> Copied(Host, AddressChars), port |-> 666]
  <2>1. Logger(Host, 666, l) # Garbage
    BY ScriptsAssumption
  <2>2. Parse("logger", Logger(Host, 666, l)) = Whole(v)
    <3> DEFINE body == Logger(Host, 666, l)
               level_ == IF body.level \in 0 .. 3 THEN body.level ELSE Rejected
               port_ == IF body.port > 0 THEN body.port ELSE Rejected
    <3>1. Parse("logger", body) = parse_logger_config(body)
      BY DEF Parse
    <3>2. body.level = l /\ body.address = Host /\ body.port = 666
      BY DEF Logger
    <3>3. level_ = l /\ port_ = 666
      <4> HIDE DEF body
      <4> QED
        BY <3>2
    <3>4. parse_logger_config(body) =
            Whole([level |-> level_, address |-> Copied(body.address, AddressChars), port |-> port_])
      BY <2>1, Zenon DEF parse_logger_config
    <3> HIDE DEF body, level_, port_
    <3>5. parse_logger_config(body) = Whole(v)
      BY <3>2, <3>3, <3>4
    <3> QED
      BY <3>1, <3>5, Zenon DEF body
  <2>3. v \in LoggerValues
    BY <1>1 DEF LoggerValues
  <2>4. \A f \in DOMAIN v : v[f] # Rejected
    BY <1>1, RejectedAssumption
  <2> HIDE DEF v
  <2>5. Whole(v) = v
    BY <2>4, WholeValue
  <2> QED
    BY <2>2, <2>3, <2>5, RejectedAssumption
<1>3. Parse("logger", Logger(BadHost, 0, 0)) = Rejected
  <2> DEFINE body == Logger(BadHost, 0, 0)
             v == [level |-> IF body.level \in 0 .. 3 THEN body.level ELSE Rejected,
                   address |-> Copied(body.address, AddressChars),
                   port |-> IF body.port > 0 THEN body.port ELSE Rejected]
  <2>1. Parse("logger", body) = Rejected \/ Parse("logger", body) = Whole(v)
    BY Zenon DEF Parse, parse_logger_config
  <2>2. "port" \in DOMAIN v /\ v["port"] = Rejected
    BY DEF Logger
  <2> HIDE DEF v
  <2>3. Whole(v) = Rejected
    BY <2>2 DEF Whole
  <2> QED
    BY <2>1, <2>3
<1> QED
  BY <1>2, <1>3

\* No parser takes garbage.
LEMMA GarbageRejected ==
  ASSUME NEW item \in Items
  PROVE  Parse(item, Garbage) = Rejected
BY DEF Items, Parse, parse_RGB_LED_config, parse_User_LED_config, parse_logger_config, parse_system_config

-----------------------------------------------------------------------------
(* Lemmas: the messages of the scripts *)

\* The item that a test provider means by a name.
ItemOf(name) == IF name = logger THEN "logger" ELSE IF name = rgbled THEN "rgb_led" ELSE "user_led"

\* The test providers' names, which are whole, lead to what they stand for.
LEMMA Routes ==
  ASSUME build \in {"ibex", "stub"}, NEW name \in {logger, rgbled, userled}, build = "stub" => name # logger
  PROVE  /\ Matches(name) # {} /\ configItemMap[First(Matches(name))].item = ItemOf(name)
         /\ ItemOf(name) \in Items \ {"system"}
<1> DEFINE l == <<"l", "o">>
           r == <<"r", "l">>
           u == <<"u", "l">>
           s == <<"s", "y">>
<1>1. logger = l /\ rgbled = r /\ userled = u
  BY DEF logger, rgbled, userled
<1>2. IsPrefix(l, l) /\ IsPrefix(r, r) /\ IsPrefix(u, u)
  BY DEF IsPrefix
<1>3. /\ ~IsPrefix(l, r) /\ ~IsPrefix(l, u) /\ ~IsPrefix(r, l) /\ ~IsPrefix(r, u) /\ ~IsPrefix(u, l)
      /\ ~IsPrefix(u, r) /\ ~IsPrefix(r, s) /\ ~IsPrefix(u, s)
  <2>1. /\ SubSeq(l, 1, 2)[1] = "l" /\ SubSeq(r, 1, 2)[1] = "r" /\ SubSeq(u, 1, 2)[1] = "u" /\ SubSeq(s, 1, 2)[1] = "s"
        /\ Len(l) = 2 /\ Len(r) = 2 /\ Len(u) = 2 /\ Len(s) = 2
        /\ l[1] = "l" /\ r[1] = "r" /\ u[1] = "u" /\ s[1] = "s"
    OBVIOUS
  <2> HIDE DEF l, r, u, s
  <2> QED
    BY <2>1 DEF IsPrefix
<1>4. /\ l # r /\ l # u /\ r # u
  OBVIOUS
<1>5. ItemOf(name) \in Items \ {"system"}
  BY DEF ItemOf, Items
<1>6. CASE build = "ibex"
  <2>1. /\ DOMAIN configItemMap = {1, 2, 3}
        /\ configItemMap[1].name = l /\ configItemMap[1].item = "logger"
        /\ configItemMap[2].name = r /\ configItemMap[2].item = "rgb_led"
        /\ configItemMap[3].name = u /\ configItemMap[3].item = "user_led"
    BY <1>6 DEF configItemMap, IbexMap, Entry
  <2> HIDE DEF l, r, u, s
  <2>2. Matches(l) = {1} /\ Matches(r) = {2} /\ Matches(u) = {3}
    BY <1>2, <1>3, <2>1 DEF Matches
  <2>3. First({1}) = 1 /\ First({2}) = 2 /\ First({3}) = 3
    BY FirstIsLeast
  <2> QED
    BY <1>1, <1>4, <1>5, <2>1, <2>2, <2>3 DEF ItemOf
<1>7. CASE build = "stub"
  <2>1. /\ DOMAIN configItemMap = {1, 2, 3}
        /\ configItemMap[1].name = r /\ configItemMap[1].item = "rgb_led"
        /\ configItemMap[2].name = u /\ configItemMap[2].item = "user_led"
        /\ configItemMap[3].name = s /\ configItemMap[3].item = "system"
    BY <1>7 DEF configItemMap, StubMap, Entry
  <2> HIDE DEF l, r, u, s
  <2>2. Matches(r) = {1} /\ Matches(u) = {2}
    BY <1>2, <1>3, <2>1 DEF Matches
  <2>3. First({1}) = 1 /\ First({2}) = 2
    BY FirstIsLeast
  <2> QED
    BY <1>1, <1>4, <1>5, <1>7, <2>1, <2>2, <2>3 DEF ItemOf
<1> QED
  BY <1>6, <1>7

\* What is known of a message of a script: its item, its sleep, and that the code
\* it expects is that of the parser, but for the last one.
Sending(send, name, sleep, last) ==
  /\ send.name = name /\ send.sleep = sleep
  /\ send.expected = IF last THEN "EBUSY" ELSE IF Parse(ItemOf(name), send.body) = Rejected THEN "EINVAL" ELSE "0"
  /\ name = logger => send.body \in Loggers \cup {Garbage}
  /\ name = rgbled => send.body = Garbage \/ Numbers(send.body)

IbexName(k) == IF k <= 4 THEN logger ELSE IF k <= 11 /\ k % 2 = 1 THEN rgbled ELSE userled
IbexSleep(k) == IF k <= 3 THEN 5 ELSE IF k \in 5 .. 11 THEN 10 ELSE 0
StubName(k) == IF k <= 5 /\ k % 2 = 1 THEN rgbled ELSE userled
StubSleep(k) == IF k <= 5 THEN 30 ELSE 0

\* A message that expects what its parser says is as it should be.
LEMMA SendingIt ==
  ASSUME NEW name \in {logger, rgbled, userled}, NEW body, NEW expected,
         expected = IF Parse(ItemOf(name), body) = Rejected THEN "EINVAL" ELSE "0",
         name = logger => body \in Loggers \cup {Garbage},
         name = rgbled => body = Garbage \/ Numbers(body)
  PROVE  /\ \A sleep \in Nat : Sending(Slept(Send(name, body, expected), sleep), name, sleep, FALSE)
         /\ Sending(Send(name, body, expected), name, 0, FALSE)
         /\ Sending([Send(name, body, expected) EXCEPT !.expected = "EBUSY"], name, 0, TRUE)
BY DEF Sending, Send, Slept

\* The names differ.
LEMMA Names ==
  /\ ItemOf(logger) = "logger" /\ ItemOf(rgbled) = "rgb_led" /\ ItemOf(userled) = "user_led"
  /\ logger # rgbled /\ logger # userled /\ rgbled # userled
BY DEF ItemOf, logger, rgbled, userled

LEMMA LastLights ==
  /\ Sending(Send(userled, Lights1, "0"), userled, 0, FALSE)
  /\ Sending([Send(userled, Lights1, "0") EXCEPT !.expected = "EBUSY"], userled, 0, TRUE)
  /\ \A sleep \in Nat : Sending(Slept(Send(userled, Lights1, "0"), sleep), userled, sleep, FALSE)
  /\ \A sleep \in Nat : Sending(Slept(Send(userled, Lights2, "0"), sleep), userled, sleep, FALSE)
BY LightsParsed, SendingIt, Names

LEMMA ColoursSent ==
  /\ \A sleep \in Nat : Sending(Slept(Send(rgbled, Colours1, "0"), sleep), rgbled, sleep, FALSE)
  /\ \A sleep \in Nat : Sending(Slept(Send(rgbled, Colours2, "0"), sleep), rgbled, sleep, FALSE)
  /\ \A sleep \in Nat : Sending(Slept(Send(rgbled, TooLarge, "EINVAL"), sleep), rgbled, sleep, FALSE)
  /\ \A sleep \in Nat : Sending(Slept(Send(rgbled, Garbage, "EINVAL"), sleep), rgbled, sleep, FALSE)
<1>1. Parse("rgb_led", Garbage) = Rejected
  BY GarbageRejected DEF Items
<1> QED
  BY <1>1, ColoursParsed, SendingIt, Names

LEMMA LoggersSent ==
  /\ Sending(Slept(Send(logger, Logger(Host, 666, 2), "0"), 5), logger, 5, FALSE)
  /\ Sending(Slept(Send(logger, Logger(Host, 666, 0), "0"), 5), logger, 5, FALSE)
  /\ Sending(Slept(Send(logger, Logger(BadHost, 0, 0), "EINVAL"), 5), logger, 5, FALSE)
  /\ Sending(Send(logger, Garbage, "EINVAL"), logger, 0, FALSE)
<1>1. Parse("logger", Garbage) = Rejected
  BY GarbageRejected DEF Items
<1>2. /\ Logger(Host, 666, 2) \in Loggers /\ Logger(Host, 666, 0) \in Loggers
      /\ Logger(BadHost, 0, 0) \in Loggers
  BY DEF Loggers
<1>3. \A body \in Loggers \cup {Garbage} : \A expected :
        expected = (IF Parse("logger", body) = Rejected THEN "EINVAL" ELSE "0") =>
          /\ \A sleep \in Nat : Sending(Slept(Send(logger, body, expected), sleep), logger, sleep, FALSE)
          /\ Sending(Send(logger, body, expected), logger, 0, FALSE)
  BY SendingIt, Names
<1>4. Sending(Send(logger, Garbage, "EINVAL"), logger, 0, FALSE)
  BY <1>1, <1>3
<1>5. Sending(Slept(Send(logger, Logger(Host, 666, 2), "0"), 5), logger, 5, FALSE)
  <2> DEFINE body == Logger(Host, 666, 2)
  <2>1. body \in Loggers /\ Parse("logger", body) # Rejected
    BY <1>2, LoggerParsed
  <2> HIDE DEF body
  <2>2. "0" = IF Parse("logger", body) = Rejected THEN "EINVAL" ELSE "0"
    BY <2>1
  <2>3. Sending(Slept(Send(logger, body, "0"), 5), logger, 5, FALSE)
    BY <1>3, <2>1, <2>2
  <2> QED
    BY <2>3 DEF body
<1>6. Sending(Slept(Send(logger, Logger(Host, 666, 0), "0"), 5), logger, 5, FALSE)
  <2> DEFINE body == Logger(Host, 666, 0)
  <2>1. body \in Loggers /\ Parse("logger", body) # Rejected
    BY <1>2, LoggerParsed
  <2> HIDE DEF body
  <2>2. "0" = IF Parse("logger", body) = Rejected THEN "EINVAL" ELSE "0"
    BY <2>1
  <2>3. Sending(Slept(Send(logger, body, "0"), 5), logger, 5, FALSE)
    BY <1>3, <2>1, <2>2
  <2> QED
    BY <2>3 DEF body
<1>7. Sending(Slept(Send(logger, Logger(BadHost, 0, 0), "EINVAL"), 5), logger, 5, FALSE)
  BY <1>2, <1>3, LoggerParsed
<1> QED
  BY <1>4, <1>5, <1>6, <1>7

\* So is each message of the simulator's script.
LEMMA IbexAt ==
  ASSUME build = "ibex"
  PROVE  Len(Script) = 13 /\ \A k \in 1 .. 13 : Sending(Script[k], IbexName(k), IbexSleep(k), k = 13)
<1>1. Len(Script) = 13
  BY IbexSends
<1>2. /\ Script[1] = Slept(Send(logger, Logger(Host, 666, 2), "0"), 5)
      /\ Script[2] = Slept(Send(logger, Logger(Host, 666, 0), "0"), 5)
      /\ Script[3] = Slept(Send(logger, Logger(BadHost, 0, 0), "EINVAL"), 5)
      /\ Script[4] = Send(logger, Garbage, "EINVAL")
      /\ Script[5] = Slept(Send(rgbled, Colours1, "0"), 10)
      /\ Script[6] = Slept(Send(userled, Lights1, "0"), 10)
      /\ Script[7] = Slept(Send(rgbled, Garbage, "EINVAL"), 10)
      /\ Script[8] = Slept(Send(userled, Lights2, "0"), 10)
      /\ Script[9] = Slept(Send(rgbled, Colours2, "0"), 10)
      /\ Script[10] = Slept(Send(userled, Lights2, "0"), 10)
      /\ Script[11] = Slept(Send(rgbled, TooLarge, "EINVAL"), 10)
      /\ Script[12] = Send(userled, Lights1, "0")
      /\ Script[13] = [Send(userled, Lights1, "0") EXCEPT !.expected = "EBUSY"]
  BY IbexSends
<1>3. /\ \A k \in 1 .. 4 : IbexName(k) = logger
      /\ \A k \in {5, 7, 9, 11} : IbexName(k) = rgbled
      /\ \A k \in {6, 8, 10, 12, 13} : IbexName(k) = userled
      /\ \A k \in 1 .. 3 : IbexSleep(k) = 5
      /\ \A k \in 5 .. 11 : IbexSleep(k) = 10
      /\ \A k \in {4, 12, 13} : IbexSleep(k) = 0
  BY DEF IbexName, IbexSleep
<1>6. 10 \in Nat /\ 30 \in Nat
  OBVIOUS
<1>4. /\ Sending(Script[13], userled, 0, TRUE)
      /\ Sending(Script[1], logger, 5, FALSE)
      /\ Sending(Script[2], logger, 5, FALSE)
      /\ Sending(Script[3], logger, 5, FALSE)
      /\ Sending(Script[4], logger, 0, FALSE)
      /\ Sending(Script[5], rgbled, 10, FALSE)
      /\ Sending(Script[6], userled, 10, FALSE)
      /\ Sending(Script[7], rgbled, 10, FALSE)
      /\ Sending(Script[8], userled, 10, FALSE)
      /\ Sending(Script[9], rgbled, 10, FALSE)
      /\ Sending(Script[10], userled, 10, FALSE)
      /\ Sending(Script[11], rgbled, 10, FALSE)
      /\ Sending(Script[12], userled, 0, FALSE)
  <2>1. Sending(Script[1], logger, 5, FALSE)
    BY <1>2, LoggersSent
  <2>2. Sending(Script[2], logger, 5, FALSE)
    BY <1>2, LoggersSent
  <2>3. Sending(Script[3], logger, 5, FALSE)
    BY <1>2, LoggersSent
  <2>4. Sending(Script[4], logger, 0, FALSE)
    BY <1>2, LoggersSent
  <2>5. Sending(Script[5], rgbled, 10, FALSE)
    <3>1. Sending(Slept(Send(rgbled, Colours1, "0"), 10), rgbled, 10, FALSE)
      BY <1>6, ColoursSent, Zenon
    <3> QED
      BY <1>2, <3>1
  <2>6. Sending(Script[6], userled, 10, FALSE)
    <3>1. Sending(Slept(Send(userled, Lights1, "0"), 10), userled, 10, FALSE)
      BY <1>6, LastLights, Zenon
    <3> QED
      BY <1>2, <3>1
  <2>7. Sending(Script[7], rgbled, 10, FALSE)
    <3>1. Sending(Slept(Send(rgbled, Garbage, "EINVAL"), 10), rgbled, 10, FALSE)
      BY <1>6, ColoursSent, Zenon
    <3> QED
      BY <1>2, <3>1
  <2>8. Sending(Script[8], userled, 10, FALSE)
    <3>1. Sending(Slept(Send(userled, Lights2, "0"), 10), userled, 10, FALSE)
      BY <1>6, LastLights, Zenon
    <3> QED
      BY <1>2, <3>1
  <2>9. Sending(Script[9], rgbled, 10, FALSE)
    <3>1. Sending(Slept(Send(rgbled, Colours2, "0"), 10), rgbled, 10, FALSE)
      BY <1>6, ColoursSent, Zenon
    <3> QED
      BY <1>2, <3>1
  <2>10. Sending(Script[10], userled, 10, FALSE)
    <3>1. Sending(Slept(Send(userled, Lights2, "0"), 10), userled, 10, FALSE)
      BY <1>6, LastLights, Zenon
    <3> QED
      BY <1>2, <3>1
  <2>11. Sending(Script[11], rgbled, 10, FALSE)
    <3>1. Sending(Slept(Send(rgbled, TooLarge, "EINVAL"), 10), rgbled, 10, FALSE)
      BY <1>6, ColoursSent, Zenon
    <3> QED
      BY <1>2, <3>1
  <2>12. Sending(Script[12], userled, 0, FALSE)
    BY <1>2, <1>6, LastLights, Zenon
  <2>13. Sending(Script[13], userled, 0, TRUE)
    BY <1>2, <1>6, LastLights, Zenon
  <2> QED
    BY <2>1, <2>2, <2>3, <2>4, <2>5, <2>6, <2>7, <2>8, <2>9, <2>10, <2>11, <2>12, <2>13
<1>5. ASSUME NEW k \in 1 .. 13 PROVE Sending(Script[k], IbexName(k), IbexSleep(k), k = 13)
  <2>1. CASE k = 1
    <3>1. IbexName(k) = logger /\ IbexSleep(k) = 5 /\ (k = 13) = FALSE
      BY <1>3, <2>1
    <3> QED
      BY <1>4, <2>1, <3>1
  <2>2. CASE k = 2
    <3>1. IbexName(k) = logger /\ IbexSleep(k) = 5 /\ (k = 13) = FALSE
      BY <1>3, <2>2
    <3> QED
      BY <1>4, <2>2, <3>1
  <2>3. CASE k = 3
    <3>1. IbexName(k) = logger /\ IbexSleep(k) = 5 /\ (k = 13) = FALSE
      BY <1>3, <2>3
    <3> QED
      BY <1>4, <2>3, <3>1
  <2>4. CASE k = 4
    <3>1. IbexName(k) = logger /\ IbexSleep(k) = 0 /\ (k = 13) = FALSE
      BY <1>3, <2>4
    <3> QED
      BY <1>4, <2>4, <3>1
  <2>5. CASE k = 5
    <3>1. IbexName(k) = rgbled /\ IbexSleep(k) = 10 /\ (k = 13) = FALSE
      BY <1>3, <2>5
    <3> QED
      BY <1>4, <2>5, <3>1
  <2>6. CASE k = 6
    <3>1. IbexName(k) = userled /\ IbexSleep(k) = 10 /\ (k = 13) = FALSE
      BY <1>3, <2>6
    <3> QED
      BY <1>4, <2>6, <3>1
  <2>7. CASE k = 7
    <3>1. IbexName(k) = rgbled /\ IbexSleep(k) = 10 /\ (k = 13) = FALSE
      BY <1>3, <2>7
    <3> QED
      BY <1>4, <2>7, <3>1
  <2>8. CASE k = 8
    <3>1. IbexName(k) = userled /\ IbexSleep(k) = 10 /\ (k = 13) = FALSE
      BY <1>3, <2>8
    <3> QED
      BY <1>4, <2>8, <3>1
  <2>9. CASE k = 9
    <3>1. IbexName(k) = rgbled /\ IbexSleep(k) = 10 /\ (k = 13) = FALSE
      BY <1>3, <2>9
    <3> QED
      BY <1>4, <2>9, <3>1
  <2>10. CASE k = 10
    <3>1. IbexName(k) = userled /\ IbexSleep(k) = 10 /\ (k = 13) = FALSE
      BY <1>3, <2>10
    <3> QED
      BY <1>4, <2>10, <3>1
  <2>11. CASE k = 11
    <3>1. IbexName(k) = rgbled /\ IbexSleep(k) = 10 /\ (k = 13) = FALSE
      BY <1>3, <2>11
    <3> QED
      BY <1>4, <2>11, <3>1
  <2>12. CASE k = 12
    <3>1. IbexName(k) = userled /\ IbexSleep(k) = 0 /\ (k = 13) = FALSE
      BY <1>3, <2>12
    <3> QED
      BY <1>4, <2>12, <3>1
  <2>13. CASE k = 13
    <3>1. IbexName(k) = userled /\ IbexSleep(k) = 0 /\ (k = 13) = TRUE
      BY <1>3, <2>13
    <3> QED
      BY <1>4, <2>13, <3>1
  <2> QED
    BY <2>1, <2>2, <2>3, <2>4, <2>5, <2>6, <2>7, <2>8, <2>9, <2>10, <2>11, <2>12, <2>13
<1> QED
  BY <1>1, <1>5

\* And of the stub's.
LEMMA StubAt ==
  ASSUME build = "stub"
  PROVE  Len(Script) = 7 /\ \A k \in 1 .. 7 : Sending(Script[k], StubName(k), StubSleep(k), k = 7)
<1>1. Len(Script) = 7
  BY StubSends
<1>2. /\ Script[1] = Slept(Send(rgbled, Colours1, "0"), 30)
      /\ Script[2] = Slept(Send(userled, Lights1, "0"), 30)
      /\ Script[3] = Slept(Send(rgbled, Colours2, "0"), 30)
      /\ Script[4] = Slept(Send(userled, Lights2, "0"), 30)
      /\ Script[5] = Slept(Send(rgbled, TooLarge, "EINVAL"), 30)
      /\ Script[6] = Send(userled, Lights1, "0")
      /\ Script[7] = [Send(userled, Lights1, "0") EXCEPT !.expected = "EBUSY"]
  BY StubSends
<1>3. /\ \A k \in {1, 3, 5} : StubName(k) = rgbled
      /\ \A k \in {2, 4, 6, 7} : StubName(k) = userled
      /\ \A k \in 1 .. 5 : StubSleep(k) = 30
      /\ \A k \in {6, 7} : StubSleep(k) = 0
  BY DEF StubName, StubSleep
<1>6. 10 \in Nat /\ 30 \in Nat
  OBVIOUS
<1>4. /\ Sending(Script[7], userled, 0, TRUE)
      /\ Sending(Script[1], rgbled, 30, FALSE)
      /\ Sending(Script[2], userled, 30, FALSE)
      /\ Sending(Script[3], rgbled, 30, FALSE)
      /\ Sending(Script[4], userled, 30, FALSE)
      /\ Sending(Script[5], rgbled, 30, FALSE)
      /\ Sending(Script[6], userled, 0, FALSE)
  <2>1. Sending(Script[1], rgbled, 30, FALSE)
    BY <1>2, <1>6, ColoursSent, Zenon
  <2>2. Sending(Script[2], userled, 30, FALSE)
    BY <1>2, <1>6, LastLights, Zenon
  <2>3. Sending(Script[3], rgbled, 30, FALSE)
    BY <1>2, <1>6, ColoursSent, Zenon
  <2>4. Sending(Script[4], userled, 30, FALSE)
    BY <1>2, <1>6, LastLights, Zenon
  <2>5. Sending(Script[5], rgbled, 30, FALSE)
    BY <1>2, <1>6, ColoursSent, Zenon
  <2>6. Sending(Script[6], userled, 0, FALSE)
    BY <1>2, <1>6, LastLights, Zenon
  <2>7. Sending(Script[7], userled, 0, TRUE)
    BY <1>2, <1>6, LastLights, Zenon
  <2> QED
    BY <2>1, <2>2, <2>3, <2>4, <2>5, <2>6, <2>7
<1>5. ASSUME NEW k \in 1 .. 7 PROVE Sending(Script[k], StubName(k), StubSleep(k), k = 7)
  <2>1. CASE k = 1
    <3>1. StubName(k) = rgbled /\ StubSleep(k) = 30 /\ (k = 7) = FALSE
      BY <1>3, <2>1
    <3> QED
      BY <1>4, <2>1, <3>1
  <2>2. CASE k = 2
    <3>1. StubName(k) = userled /\ StubSleep(k) = 30 /\ (k = 7) = FALSE
      BY <1>3, <2>2
    <3> QED
      BY <1>4, <2>2, <3>1
  <2>3. CASE k = 3
    <3>1. StubName(k) = rgbled /\ StubSleep(k) = 30 /\ (k = 7) = FALSE
      BY <1>3, <2>3
    <3> QED
      BY <1>4, <2>3, <3>1
  <2>4. CASE k = 4
    <3>1. StubName(k) = userled /\ StubSleep(k) = 30 /\ (k = 7) = FALSE
      BY <1>3, <2>4
    <3> QED
      BY <1>4, <2>4, <3>1
  <2>5. CASE k = 5
    <3>1. StubName(k) = rgbled /\ StubSleep(k) = 30 /\ (k = 7) = FALSE
      BY <1>3, <2>5
    <3> QED
      BY <1>4, <2>5, <3>1
  <2>6. CASE k = 6
    <3>1. StubName(k) = userled /\ StubSleep(k) = 0 /\ (k = 7) = FALSE
      BY <1>3, <2>6
    <3> QED
      BY <1>4, <2>6, <3>1
  <2>7. CASE k = 7
    <3>1. StubName(k) = userled /\ StubSleep(k) = 0 /\ (k = 7) = TRUE
      BY <1>3, <2>7
    <3> QED
      BY <1>4, <2>7, <3>1
  <2> QED
    BY <2>1, <2>2, <2>3, <2>4, <2>5, <2>6, <2>7
<1> QED
  BY <1>1, <1>5

-----------------------------------------------------------------------------
(* Lemmas: the scripts and the rate limit *)

\* The time until an item may be updated again, as the script of each build needs
\* it: no more than what the script still sleeps before its next message.
IbexWaits ==
  /\ script <= 6 => wait["logger"] <= IF script % 2 = 0 THEN 0 ELSE 5
  /\ script <= 20 =>
       wait["rgb_led"] <= IF script <= 8 \/ script % 4 = 0 THEN 0 ELSE IF script % 4 = 1 THEN 20 ELSE 10
  /\ script <= 22 =>
       wait["user_led"] <= IF script <= 10 \/ script % 4 = 2 THEN 0 ELSE IF script % 4 = 3 THEN 20 ELSE 10
  /\ script \in {23, 24} => wait["user_led"] > IF script = 23 THEN 17 ELSE 0

StubWaits ==
  /\ script <= 10 =>
       /\ wait["rgb_led"] <= IF script % 2 = 0 THEN 0 ELSE 30
       /\ wait["user_led"] <= IF script % 2 = 0 THEN 0 ELSE 30
  /\ script \in {11, 12} => wait["user_led"] > IF script = 11 THEN 17 ELSE 0

Waits ==
  /\ wait \in [Items -> Nat]
  /\ build = "ibex" => IbexWaits
  /\ build = "stub" => StubWaits

\* The scripts name each of the items when its turn comes.
Named(k) == IF build = "ibex" THEN IbexName(k) ELSE StubName(k)
Slumber(k) == IF build = "ibex" THEN IbexSleep(k) ELSE StubSleep(k)

\* Both at once.
LEMMA ScriptAt ==
  ASSUME IInv, Script # <<>>
  PROVE  /\ build \in {"ibex", "stub"}
         /\ Len(Script) = IF build = "ibex" THEN 13 ELSE 7
         /\ \A k \in 1 .. Len(Script) : Sending(Script[k], Named(k), Slumber(k), k = Len(Script))
<1>1. build \in {"ibex", "stub"}
  BY DEF IInv, Kinds, Script
<1> QED
  BY <1>1, IbexAt, StubAt DEF Named, Slumber

\* An item may be updated when its turn comes, but for the last message.
LEMMA InTime ==
  ASSUME IInv, Waits, Script # <<>>, script < 2 * Len(Script), script % 2 = 0
  PROVE  LET k == script \div 2 + 1
             item == ItemOf(Named(k)) IN
         /\ k \in 1 .. Len(Script)
         /\ Named(k) \in {logger, rgbled, userled} /\ (build = "stub" => Named(k) # logger)
         /\ IF k = Len(Script) THEN wait[item] > 0 ELSE wait[item] = 0
<1> DEFINE k == script \div 2 + 1
<1>1. script \in Nat /\ (script < 26 => 2 * (k - 1) = script) /\ (script < 14 => 2 * (k - 1) = script)
  BY DEF IInv, Kinds
<1>2. wait["logger"] \in Nat /\ wait["rgb_led"] \in Nat /\ wait["user_led"] \in Nat
  BY DEF Waits, Items
<1>3. CASE build = "ibex"
  <2>1. Len(Script) = 13 /\ k \in 1 .. 13
    <3>1. Len(Script) = 13
      BY <1>3, ScriptAt
    <3>2. script < 26
      BY <3>1
    <3>3. k \in 1 .. 13
      BY <1>1, <3>2
    <3> QED
      BY <3>1, <3>3
  <2>2. IbexWaits /\ Named(k) = IbexName(k)
    BY <1>3 DEF Waits, Named
  <2>3. k <= 4 => Named(k) = logger /\ wait["logger"] = 0
    BY <1>1, <1>2, <2>1, <2>2 DEF IbexWaits, IbexName
  <2>4. k \in {5, 7, 9, 11} => Named(k) = rgbled /\ wait["rgb_led"] = 0
    BY <1>1, <1>2, <2>1, <2>2 DEF IbexWaits, IbexName
  <2>5. k \in {6, 8, 10, 12} => Named(k) = userled /\ wait["user_led"] = 0
    BY <1>1, <1>2, <2>1, <2>2 DEF IbexWaits, IbexName
  <2>6. k = 13 => Named(k) = userled /\ wait["user_led"] > 0
    BY <1>1, <1>2, <2>1, <2>2 DEF IbexWaits, IbexName
  <2>7. k <= 4 \/ k \in {5, 7, 9, 11} \/ k \in {6, 8, 10, 12} \/ k = 13
    BY <2>1
  <2>8. k # 13 => Named(k) \in {logger, rgbled, userled} /\ wait[ItemOf(Named(k))] = 0
    BY <2>3, <2>4, <2>5, <2>7, Names
  <2>9. k = 13 => Named(k) \in {logger, rgbled, userled} /\ wait[ItemOf(Named(k))] > 0
    BY <2>6, Names
  <2> QED
    BY <1>3, <2>1, <2>8, <2>9
<1>4. CASE build = "stub"
  <2>1. Len(Script) = 7 /\ k \in 1 .. 7
    <3>1. Len(Script) = 7
      BY <1>4, ScriptAt
    <3>2. script < 14
      BY <3>1
    <3>3. k \in 1 .. 7
      BY <1>1, <3>2
    <3> QED
      BY <3>1, <3>3
  <2>2. StubWaits /\ Named(k) = StubName(k)
    BY <1>4 DEF Waits, Named
  <2>3. k \in {1, 3, 5} => Named(k) = rgbled /\ wait["rgb_led"] = 0
    BY <1>1, <1>2, <2>1, <2>2 DEF StubWaits, StubName
  <2>4. k \in {2, 4, 6} => Named(k) = userled /\ wait["user_led"] = 0
    BY <1>1, <1>2, <2>1, <2>2 DEF StubWaits, StubName
  <2>5. k = 7 => Named(k) = userled /\ wait["user_led"] > 0
    BY <1>1, <1>2, <2>1, <2>2 DEF StubWaits, StubName
  <2>6. k \in {1, 3, 5} \/ k \in {2, 4, 6} \/ k = 7
    BY <2>1
  <2>7. k # 7 => Named(k) \in {rgbled, userled} /\ wait[ItemOf(Named(k))] = 0
    BY <2>3, <2>4, <2>6, Names
  <2>8. k = 7 => Named(k) \in {rgbled, userled} /\ wait[ItemOf(Named(k))] > 0
    BY <2>5, Names
  <2> QED
    BY <1>4, <2>1, <2>7, <2>8, Names
<1> QED
  BY <1>3, <1>4, ScriptAt

\* Publishing or rejecting starts the interval of the item, and only of that.
LEMMA SetConfigWaits ==
  ASSUME Waits, NEW item \in Items, NEW body, SetConfig(item, body), item \in registered
  PROVE  /\ wait' = IF wait[item] = 0 THEN [wait EXCEPT ![item] = Interval[item]] ELSE wait
         /\ wait' \in [Items -> Nat]
         /\ Code(item, body) = IF wait[item] > 0 THEN "EBUSY"
                               ELSE IF Parse(item, body) = Rejected THEN "EINVAL" ELSE "0"
<1>1. wait[item] \in Nat /\ Interval[item] \in Nat
  BY DEF Waits, Items, Interval
<1>2. Code(item, body) = IF wait[item] > 0 THEN "EBUSY"
                         ELSE IF Parse(item, body) = Rejected THEN "EINVAL" ELSE "0"
  BY DEF Code, TooSoon
<1>3. wait' = IF wait[item] = 0 THEN [wait EXCEPT ![item] = Interval[item]] ELSE wait
  BY <1>1, <1>2 DEF SetConfig
<1> QED
  BY <1>1, <1>2, <1>3 DEF Waits

\* What a message of a script does, and that it is answered as the script expects.
LEMMA Answered ==
  ASSUME IInv, Waits, provider_run, script % 2 = 0
  PROVE  LET k == script \div 2 + 1
             item == ItemOf(Named(k)) IN
         /\ outcome'.code = outcome'.expected
         /\ wait' = IF k = Len(Script) THEN wait ELSE [wait EXCEPT ![item] = Interval[item]]
         /\ wait' \in [Items -> Nat]
         /\ item \in Items
<1> DEFINE k == script \div 2 + 1
           name == Named(k)
           item == ItemOf(name)
           send == Script[k]
           call == [sent |-> [name |-> send.name, header |-> "none", body |-> send.body],
                    ready |-> {i \in Items : ~TooSoon(i)},
                    item |-> None, code |-> "unknown", expected |-> send.expected]
<1>1. /\ Started /\ script < 2 * Len(Script) /\ script \in Nat /\ Script # <<>>
  BY DEF provider_run, IInv, Kinds
<1>2. updateConfig(send.name, send.body, call)
  BY Zenon DEF provider_run
<1>3. /\ build \in {"ibex", "stub"}
      /\ k \in 1 .. Len(Script) => Sending(send, name, Slumber(k), k = Len(Script))
  BY <1>1, ScriptAt
<1>4. /\ k \in 1 .. Len(Script)
      /\ name \in {logger, rgbled, userled} /\ (build = "stub" => name # logger)
      /\ IF k = Len(Script) THEN wait[item] > 0 ELSE wait[item] = 0
  BY <1>1, InTime
<1> HIDE DEF k, name, send
<1>5. /\ send.name = name
      /\ send.expected = IF k = Len(Script) THEN "EBUSY"
                         ELSE IF Parse(item, send.body) = Rejected THEN "EINVAL" ELSE "0"
  BY <1>3, <1>4 DEF Sending
<1>6. /\ Matches(name) # {} /\ configItemMap[First(Matches(name))].item = item
      /\ item \in Items \ {"system"}
  BY <1>3, <1>4, Routes
<1>7. item \in registered
  <2>1. Matches(name) \in SUBSET Nat
    BY MapType DEF Matches, IInv
  <2>2. First(Matches(name)) \in Matches(name)
    BY <1>6, <2>1, FirstIsLeast
  <2>3. First(Matches(name)) \in DOMAIN configItemMap
    BY <2>2 DEF Matches
  <2> QED
    BY <1>1, <1>6, <2>3, AllRegistered DEF IInv
<1> HIDE DEF item
<1>8. /\ SetConfig(item, send.body)
      /\ outcome' = [call EXCEPT !.item = item, !.code = Code(item, send.body)]
  BY <1>2, <1>5, <1>6, Zenon DEF updateConfig
<1>9. /\ wait' = IF wait[item] = 0 THEN [wait EXCEPT ![item] = Interval[item]] ELSE wait
      /\ wait' \in [Items -> Nat]
      /\ Code(item, send.body) = IF wait[item] > 0 THEN "EBUSY"
                                 ELSE IF Parse(item, send.body) = Rejected THEN "EINVAL" ELSE "0"
  BY <1>6, <1>7, <1>8, SetConfigWaits
<1>10. outcome'.code = Code(item, send.body) /\ outcome'.expected = send.expected
  BY <1>8
<1>11. outcome'.code = outcome'.expected
  BY <1>4, <1>5, <1>9, <1>10
<1>12. wait' = IF k = Len(Script) THEN wait ELSE [wait EXCEPT ![item] = Interval[item]]
  BY <1>4, <1>9
<1> QED
  BY <1>6, <1>9, <1>11, <1>12 DEF item, name, k

\* Only the LEDs' and the logger's waits matter, and only when the script moves.
LEMMA WaitsStay ==
  ASSUME Waits, build' = build, script' = script, wait' \in [Items -> Nat],
         \A i \in Items \ {"system"} : wait'[i] = wait[i]
  PROVE  Waits'
<1>1. wait'["logger"] = wait["logger"] /\ wait'["rgb_led"] = wait["rgb_led"] /\ wait'["user_led"] = wait["user_led"]
  BY DEF Items
<1> QED
  BY <1>1 DEF Waits, IbexWaits, StubWaits

\* A message starts the interval of its item.
LEMMA SentWaits ==
  ASSUME IInv, Waits, provider_run, script % 2 = 0
  PROVE  Waits'
<1> DEFINE k == script \div 2 + 1
           item == ItemOf(Named(k))
<1>1. /\ script \in Nat /\ script < 2 * Len(Script) /\ Script # <<>> /\ script' = script + 1 /\ build' = build
  BY DEF provider_run, IInv, Kinds, fixed
<1>2. /\ wait' = IF k = Len(Script) THEN wait ELSE [wait EXCEPT ![item] = Interval[item]]
      /\ wait' \in [Items -> Nat]
      /\ item \in Items
  BY Answered
<1>3. k \in 1 .. Len(Script) /\ 2 * k - 2 = script
  BY <1>1, InTime
<1>4. build \in {"ibex", "stub"} /\ Len(Script) = IF build = "ibex" THEN 13 ELSE 7
  BY <1>1, ScriptAt
<1>5. /\ wait["logger"] \in Nat /\ wait["rgb_led"] \in Nat /\ wait["user_led"] \in Nat
      /\ Interval["logger"] = 5 /\ Interval["rgb_led"] = 18 /\ Interval["user_led"] = 18
  BY DEF Waits, Items, Interval
<1>6. CASE k = Len(Script)
  <2>1. wait' = wait
    BY <1>2, <1>6
  <2>2. CASE build = "ibex"
    <3>1. script = 24
      BY <1>3, <1>4, <1>6, <2>2
    <3>2. IbexWaits'
      BY <1>1, <2>1, <3>1 DEF IbexWaits
    <3> QED
      BY <1>1, <1>2, <2>2, <3>2 DEF Waits
  <2>3. CASE build = "stub"
    <3>1. script = 12
      BY <1>3, <1>4, <1>6, <2>3
    <3>2. StubWaits'
      BY <1>1, <2>1, <3>1 DEF StubWaits
    <3> QED
      BY <1>1, <1>2, <2>3, <3>2 DEF Waits
  <2> QED
    BY <1>4, <2>2, <2>3
<1>7. CASE k # Len(Script)
  <2> HIDE DEF k
  <2>1. wait' = [wait EXCEPT ![item] = Interval[item]] /\ wait \in [Items -> Nat]
    BY <1>2, <1>7 DEF Waits
  <2>2. /\ item = "logger" => wait'["logger"] = 5 /\ wait'["rgb_led"] = wait["rgb_led"] /\ wait'["user_led"] = wait["user_led"]
        /\ item = "rgb_led" => wait'["rgb_led"] = 18 /\ wait'["logger"] = wait["logger"] /\ wait'["user_led"] = wait["user_led"]
        /\ item = "user_led" => wait'["user_led"] = 18 /\ wait'["logger"] = wait["logger"] /\ wait'["rgb_led"] = wait["rgb_led"]
    <3>1. "logger" \in Items /\ "rgb_led" \in Items /\ "user_led" \in Items
      BY DEF Items
    <3> HIDE DEF item
    <3> QED
      BY <1>5, <2>1, <3>1
  <2>3. CASE build = "ibex"
    <3>1. k \in 1 .. 12 /\ Named(k) = IbexName(k)
      BY <1>3, <1>4, <1>7, <2>3 DEF Named
    <3>2. IbexWaits
      BY <2>3 DEF Waits
    <3>3. CASE k <= 4
      <4>1. item = "logger"
        BY <3>1, <3>3, Names DEF IbexName
      <4> QED
        BY <1>1, <1>2, <1>3, <1>5, <2>2, <2>3, <3>1, <3>2, <3>3, <4>1 DEF Waits, IbexWaits
    <3>4. CASE k \in {5, 7, 9, 11}
      <4>1. item = "rgb_led"
        BY <3>1, <3>4, Names DEF IbexName
      <4>2. k = 5 \/ k = 7 \/ k = 9 \/ k = 11
        BY <3>4
      <4>3. CASE k = 5
        <5>1. script = 8 /\ script' = 9
          BY <1>1, <1>3, <4>3
        <5>2. IbexWaits'
          BY <1>5, <2>2, <3>2, <4>1, <5>1 DEF IbexWaits
        <5> QED
          BY <1>1, <1>2, <2>3, <5>2 DEF Waits
      <4>4. CASE k = 7
        <5>1. script = 12 /\ script' = 13
          BY <1>1, <1>3, <4>4
        <5>2. IbexWaits'
          BY <1>5, <2>2, <3>2, <4>1, <5>1 DEF IbexWaits
        <5> QED
          BY <1>1, <1>2, <2>3, <5>2 DEF Waits
      <4>5. CASE k = 9
        <5>1. script = 16 /\ script' = 17
          BY <1>1, <1>3, <4>5
        <5>2. IbexWaits'
          BY <1>5, <2>2, <3>2, <4>1, <5>1 DEF IbexWaits
        <5> QED
          BY <1>1, <1>2, <2>3, <5>2 DEF Waits
      <4>6. CASE k = 11
        <5>1. script = 20 /\ script' = 21
          BY <1>1, <1>3, <4>6
        <5>2. IbexWaits'
          BY <1>5, <2>2, <3>2, <4>1, <5>1 DEF IbexWaits
        <5> QED
          BY <1>1, <1>2, <2>3, <5>2 DEF Waits
      <4> QED
        BY <4>2, <4>3, <4>4, <4>5, <4>6
    <3>5. CASE k \in {6, 8, 10, 12}
      <4>1. item = "user_led"
        BY <3>1, <3>5, Names DEF IbexName
      <4>2. k = 6 \/ k = 8 \/ k = 10 \/ k = 12
        BY <3>5
      <4>3. CASE k = 6
        <5>1. script = 10 /\ script' = 11
          BY <1>1, <1>3, <4>3
        <5>2. IbexWaits'
          BY <1>5, <2>2, <3>2, <4>1, <5>1 DEF IbexWaits
        <5> QED
          BY <1>1, <1>2, <2>3, <5>2 DEF Waits
      <4>4. CASE k = 8
        <5>1. script = 14 /\ script' = 15
          BY <1>1, <1>3, <4>4
        <5>2. IbexWaits'
          BY <1>5, <2>2, <3>2, <4>1, <5>1 DEF IbexWaits
        <5> QED
          BY <1>1, <1>2, <2>3, <5>2 DEF Waits
      <4>5. CASE k = 10
        <5>1. script = 18 /\ script' = 19
          BY <1>1, <1>3, <4>5
        <5>2. IbexWaits'
          BY <1>5, <2>2, <3>2, <4>1, <5>1 DEF IbexWaits
        <5> QED
          BY <1>1, <1>2, <2>3, <5>2 DEF Waits
      <4>6. CASE k = 12
        <5>1. script = 22 /\ script' = 23
          BY <1>1, <1>3, <4>6
        <5>2. IbexWaits'
          BY <1>5, <2>2, <3>2, <4>1, <5>1 DEF IbexWaits
        <5> QED
          BY <1>1, <1>2, <2>3, <5>2 DEF Waits
      <4> QED
        BY <4>2, <4>3, <4>4, <4>5, <4>6
    <3> QED
      BY <3>1, <3>3, <3>4, <3>5
  <2>4. CASE build = "stub"
    <3>1. k \in 1 .. 6 /\ Named(k) = StubName(k)
      BY <1>3, <1>4, <1>7, <2>4 DEF Named
    <3>2. StubWaits
      BY <2>4 DEF Waits
    <3>3. CASE k \in {1, 3, 5}
      <4>1. item = "rgb_led"
        BY <3>1, <3>3, Names DEF StubName
      <4> QED
        BY <1>1, <1>2, <1>3, <1>5, <2>2, <2>4, <3>1, <3>2, <3>3, <4>1 DEF Waits, StubWaits
    <3>4. CASE k \in {2, 4, 6}
      <4>1. item = "user_led"
        BY <3>1, <3>4, Names DEF StubName
      <4> QED
        BY <1>1, <1>2, <1>3, <1>5, <2>2, <2>4, <3>1, <3>2, <3>4, <4>1 DEF Waits, StubWaits
    <3> QED
      BY <3>1, <3>3, <3>4
  <2> QED
    BY <1>4, <2>3, <2>4
<1> QED
  BY <1>6, <1>7

\* The sleeps between the messages are long enough, and the last not too long.
LEMMA SleptWaits ==
  ASSUME IInv, Waits, provider_run, script % 2 # 0
  PROVE  Waits'
<1> DEFINE k == script \div 2 + 1
           nap == Script[k].sleep
<1>1. /\ script \in Nat /\ script < 2 * Len(Script) /\ Script # <<>> /\ script' = script + 1 /\ build' = build
  BY DEF provider_run, IInv, Kinds, fixed
<1>2. build \in {"ibex", "stub"} /\ Len(Script) = IF build = "ibex" THEN 13 ELSE 7
  BY <1>1, ScriptAt
<1>3. k \in 1 .. Len(Script) /\ 2 * k - 1 = script
  <2>1. script % 2 = 1 /\ script = 2 * (script \div 2) + 1
    BY <1>1
  <2> QED
    BY <1>1, <1>2, <2>1
<1>4. nap = Slumber(k)
  BY <1>1, <1>3, ScriptAt DEF Sending
<1>5. PICK late \in Late : Pass(nap + late)
  BY Zenon DEF provider_run
<1>6. late \in 0 .. 17
  BY ScriptsAssumption DEF Interval
<1> DEFINE d == nap + late
<1>7. d \in Nat /\ d >= nap /\ d <= nap + 17 /\ nap \in Nat
  BY <1>4, <1>6 DEF Slumber, IbexSleep, StubSleep
<1> HIDE DEF k, nap
<1>8. /\ wait["logger"] \in Nat /\ wait["rgb_led"] \in Nat /\ wait["user_led"] \in Nat
      /\ \A i \in Items : wait[i] \in Nat
  BY DEF Waits, Items
<1>9. wait' = [i \in Items |-> IF wait[i] > d THEN wait[i] - d ELSE 0]
  BY <1>5 DEF Pass
<1>10. wait' \in [Items -> Nat]
  BY <1>7, <1>8, <1>9
<1>11. \A i \in {"logger", "rgb_led", "user_led"} : wait'[i] = IF wait[i] > d THEN wait[i] - d ELSE 0
  BY <1>9 DEF Items
<1> HIDE DEF d
<1>12. CASE build = "ibex"
  <2>1. IbexWaits /\ k \in 1 .. 13 /\ nap = IbexSleep(k)
    BY <1>2, <1>3, <1>4, <1>12 DEF Waits, Slumber
  <2>2. IbexWaits'
    <3>1. CASE k = 1
      <4>1. script = 1 /\ script' = 2 /\ d >= 5 /\ d <= 22
        BY <1>1, <1>3, <1>7, <2>1, <3>1 DEF IbexSleep
      <4> QED
        BY <1>7, <1>8, <1>11, <2>1, <4>1 DEF IbexWaits
    <3>2. CASE k = 2
      <4>1. script = 3 /\ script' = 4 /\ d >= 5 /\ d <= 22
        BY <1>1, <1>3, <1>7, <2>1, <3>2 DEF IbexSleep
      <4> QED
        BY <1>7, <1>8, <1>11, <2>1, <4>1 DEF IbexWaits
    <3>3. CASE k = 3
      <4>1. script = 5 /\ script' = 6 /\ d >= 5 /\ d <= 22
        BY <1>1, <1>3, <1>7, <2>1, <3>3 DEF IbexSleep
      <4> QED
        BY <1>7, <1>8, <1>11, <2>1, <4>1 DEF IbexWaits
    <3>4. CASE k = 4
      <4>1. script = 7 /\ script' = 8 /\ d >= 0 /\ d <= 17
        BY <1>1, <1>3, <1>7, <2>1, <3>4 DEF IbexSleep
      <4> QED
        BY <1>7, <1>8, <1>11, <2>1, <4>1 DEF IbexWaits
    <3>5. CASE k = 5
      <4>1. script = 9 /\ script' = 10 /\ d >= 10 /\ d <= 27
        BY <1>1, <1>3, <1>7, <2>1, <3>5 DEF IbexSleep
      <4> QED
        BY <1>7, <1>8, <1>11, <2>1, <4>1 DEF IbexWaits
    <3>6. CASE k = 6
      <4>1. script = 11 /\ script' = 12 /\ d >= 10 /\ d <= 27
        BY <1>1, <1>3, <1>7, <2>1, <3>6 DEF IbexSleep
      <4> QED
        BY <1>7, <1>8, <1>11, <2>1, <4>1 DEF IbexWaits
    <3>7. CASE k = 7
      <4>1. script = 13 /\ script' = 14 /\ d >= 10 /\ d <= 27
        BY <1>1, <1>3, <1>7, <2>1, <3>7 DEF IbexSleep
      <4> QED
        BY <1>7, <1>8, <1>11, <2>1, <4>1 DEF IbexWaits
    <3>8. CASE k = 8
      <4>1. script = 15 /\ script' = 16 /\ d >= 10 /\ d <= 27
        BY <1>1, <1>3, <1>7, <2>1, <3>8 DEF IbexSleep
      <4> QED
        BY <1>7, <1>8, <1>11, <2>1, <4>1 DEF IbexWaits
    <3>9. CASE k = 9
      <4>1. script = 17 /\ script' = 18 /\ d >= 10 /\ d <= 27
        BY <1>1, <1>3, <1>7, <2>1, <3>9 DEF IbexSleep
      <4> QED
        BY <1>7, <1>8, <1>11, <2>1, <4>1 DEF IbexWaits
    <3>10. CASE k = 10
      <4>1. script = 19 /\ script' = 20 /\ d >= 10 /\ d <= 27
        BY <1>1, <1>3, <1>7, <2>1, <3>10 DEF IbexSleep
      <4> QED
        BY <1>7, <1>8, <1>11, <2>1, <4>1 DEF IbexWaits
    <3>11. CASE k = 11
      <4>1. script = 21 /\ script' = 22 /\ d >= 10 /\ d <= 27
        BY <1>1, <1>3, <1>7, <2>1, <3>11 DEF IbexSleep
      <4> QED
        BY <1>7, <1>8, <1>11, <2>1, <4>1 DEF IbexWaits
    <3>12. CASE k = 12
      <4>1. script = 23 /\ script' = 24 /\ d >= 0 /\ d <= 17
        BY <1>1, <1>3, <1>7, <2>1, <3>12 DEF IbexSleep
      <4> QED
        BY <1>7, <1>8, <1>11, <2>1, <4>1 DEF IbexWaits
    <3>13. CASE k = 13
      <4>1. script = 25 /\ script' = 26 /\ d >= 0 /\ d <= 17
        BY <1>1, <1>3, <1>7, <2>1, <3>13 DEF IbexSleep
      <4> QED
        BY <1>7, <1>8, <1>11, <2>1, <4>1 DEF IbexWaits
    <3> QED
      BY <2>1, <3>1, <3>2, <3>3, <3>4, <3>5, <3>6, <3>7, <3>8, <3>9, <3>10, <3>11, <3>12, <3>13
  <2> QED
    BY <1>1, <1>10, <1>12, <2>2 DEF Waits
<1>13. CASE build = "stub"
  <2>1. StubWaits /\ k \in 1 .. 7 /\ nap = StubSleep(k)
    BY <1>2, <1>3, <1>4, <1>13 DEF Waits, Slumber
  <2>2. StubWaits'
    BY <1>1, <1>3, <1>7, <1>8, <1>11, <2>1 DEF StubWaits, StubSleep
  <2> QED
    BY <1>1, <1>10, <1>13, <2>2 DEF Waits
<1> QED
  BY <1>2, <1>12, <1>13

\* In the Sonata build there is no script, and no limit on the waits.
LEMMA RoutedWaits ==
  ASSUME Waits, Kinds, NEW name, NEW body, NEW call, updateConfig(name, body, call)
  PROVE  wait' \in [Items -> Nat] /\ outcome'.expected = call.expected
<1>1. CASE Matches(name) = {}
  <2>1. wait' = wait
    BY <1>1 DEF updateConfig, broker
  <2>2. outcome' = [call EXCEPT !.code = "unknown"]
    BY <1>1, Zenon DEF updateConfig
  <2> QED
    BY <2>1, <2>2 DEF Waits
<1>2. CASE Matches(name) # {}
  <2> DEFINE item == configItemMap[First(Matches(name))].item
  <2>1. Matches(name) \in SUBSET Nat
    BY MapType DEF Matches
  <2>2. First(Matches(name)) \in Matches(name)
    BY <1>2, <2>1, FirstIsLeast
  <2>3. item \in Items
    BY <2>2, MapType DEF Matches
  <2>4. SetConfig(item, body) /\ outcome' = [call EXCEPT !.item = item, !.code = Code(item, body)]
    BY <1>2, Zenon DEF updateConfig
  <2> HIDE DEF item
  <2>5. outcome'.expected = call.expected
    BY <2>4
  <2>6. Interval[item] \in Nat
    BY <2>3 DEF Items, Interval
  <2>7. wait' \in [Items -> Nat]
    BY <2>3, <2>4, <2>6 DEF SetConfig, Waits
  <2> QED
    BY <2>5, <2>7
<1> QED
  BY <1>1, <1>2

\* No step breaks the waits, nor an Assert.
LEMMA WaitsNext ==
  ASSUME IInv, Waits, ScriptAsExpected, [Next]_vars
  PROVE  Waits' /\ ScriptAsExpected'
<1>1. CASE provider_run
  <2>1. CASE script % 2 = 0
    BY <1>1, <2>1, SentWaits, Answered DEF ScriptAsExpected
  <2>2. CASE script % 2 # 0
    <3>1. outcome' = None
      BY <1>1, <2>2, Zenon DEF provider_run
    <3> QED
      BY <1>1, <2>2, <3>1, SleptWaits DEF ScriptAsExpected
  <2> QED
    BY <2>1, <2>2
<1>2. CASE \E config \in Systems, message \in traffic : publishCallback(String(config.id), message)
  <2>1. PICK config \in Systems, message \in traffic : publishCallback(String(config.id), message)
    BY <1>2
  <2> DEFINE id == String(config.id)
             name == Name(Topic(id, message.name))
             body == verify_signature(message)
             call == [sent |-> message, ready |-> {i \in Items : ~TooSoon(i)},
                      item |-> None, code |-> "ignored", expected |-> None]
  <2>2. build = "sonata" /\ build' = build /\ call.expected = None
    BY <2>1 DEF publishCallback, fixed
  <2>3. wait' \in [Items -> Nat] /\ outcome'.expected = None
    <3>1. CASE name # None /\ body # None
      <4>1. updateConfig(name, body, call)
        BY <2>1, <3>1, Zenon DEF publishCallback
      <4> HIDE DEF call, name, body
      <4> QED
        BY <2>2, <4>1, RoutedWaits DEF IInv
    <3>2. CASE ~(name # None /\ body # None)
      <4>1. UNCHANGED broker /\ outcome' = call
        BY <2>1, <3>2, Zenon DEF publishCallback
      <4> QED
        BY <4>1 DEF broker, Waits
    <3> QED
      BY <3>1, <3>2
  <2> QED
    BY <2>2, <2>3 DEF Waits, ScriptAsExpected
<1>3. CASE system_config_run
  <2>1. build' = build /\ script' = script /\ outcome' = None
    BY <1>3 DEF system_config_run, fixed
  <2>2. PICK config : SetConfig("system", config)
    BY <1>3 DEF system_config_run
  <2>3. wait' = [wait EXCEPT !["system"] = 5] \/ wait' = wait
    BY <2>2 DEF SetConfig, Interval
  <2>4. wait' \in [Items -> Nat] /\ \A i \in Items \ {"system"} : wait'[i] = wait[i]
    BY <2>3 DEF Waits
  <2> QED
    BY <2>1, <2>4, WaitsStay DEF ScriptAsExpected
<1>4. CASE Tick
  <2>1. build' = build /\ script' = script /\ outcome' = None
    BY <1>4 DEF Tick, fixed
  <2>2. PICK d \in Elapsed : Pass(d)
    BY <1>4 DEF Tick
  <2>3. wait' = [i \in Items |-> IF wait[i] > d THEN wait[i] - d ELSE 0] /\ d \in Nat
    BY <2>2, ScriptsAssumption DEF Pass
  <2>4. wait' \in [Items -> Nat]
    BY <2>3 DEF Waits
  <2>5. CASE Script = <<>>
    <3>1. build \notin {"ibex", "stub"}
      BY <2>5, IbexAt, StubAt
    <3> QED
      BY <2>1, <2>4, <3>1 DEF Waits, ScriptAsExpected
  <2>6. CASE Script # <<>> /\ script = 2 * Len(Script)
    <3>1. (build = "ibex" => Len(Script) = 13) /\ (build = "stub" => Len(Script) = 7)
      BY IbexAt, StubAt
    <3>2. ASSUME build = "ibex" PROVE script = 26
      <4>1. script = 2 * 13
        BY <2>6, <3>1, <3>2, Zenon
      <4> QED
        BY <4>1
    <3>3. ASSUME build = "stub" PROVE script = 14
      <4>1. script = 2 * 7
        BY <2>6, <3>1, <3>3, Zenon
      <4> QED
        BY <4>1
    <3> QED
      BY <2>1, <2>4, <3>2, <3>3 DEF Waits, IbexWaits, StubWaits, ScriptAsExpected
  <2> QED
    BY <1>4, <2>5, <2>6 DEF Tick
<1>5. CASE Register \/ generate_topics \/ UNCHANGED vars \/ \E c \in Consumers, item \in Items : Handle(c, item)
  <2>1. build' = build /\ script' = script /\ wait' = wait /\ (outcome' = None \/ outcome' = outcome)
    BY <1>5 DEF Register, generate_topics, Handle, vars, broker, fixed
  <2> QED
    BY <2>1, WaitsStay DEF ScriptAsExpected, Waits
<1> QED
  BY <1>1, <1>2, <1>3, <1>4, <1>5 DEF Next

\* The script, if there is one, always finds the waits as it needs them.
LEMMA ScriptsInTime == Spec => [](Waits /\ ScriptAsExpected)
<1>1. Init => Waits /\ ScriptAsExpected
  <2> SUFFICES ASSUME Init PROVE Waits /\ ScriptAsExpected
    OBVIOUS
  <2>1. wait \in [Items -> Nat] /\ wait["logger"] = 0 /\ wait["rgb_led"] = 0 /\ wait["user_led"] = 0
    BY DEF Init, Items
  <2> QED
    BY <2>1 DEF Init, Waits, IbexWaits, StubWaits, ScriptAsExpected
<1>2. IInv /\ Waits /\ ScriptAsExpected /\ [Next]_vars => (Waits /\ ScriptAsExpected)'
  BY WaitsNext
<1> QED
  BY <1>1, <1>2, RoutingInductive, PTL DEF Spec

\* No Assert of a test provider ever fails: what it sends is parsed as it expects,
\* its sleeps are longer than the intervals of the broker, and the last message
\* comes too early for any lateness below such an interval (mqtt_stub.cc of the
\* simulator and of provider_stub).
THEOREM ScriptsAreRight == Spec => []ScriptAsExpected
BY ScriptsInTime, PTL

-----------------------------------------------------------------------------
(* Lemmas: a number that is accepted is the one that was sent *)

\* How large a number of so many digits may be.
Tops == <<1, 10, 100, 1000, 10000, 100000, 1000000, 10000000, 100000000, 1000000000>>
Below(m, i) == m < Tops[i + 1]
Small(m) == m < 100000000

\* The first i digits of the text are the number m, zeros in front of it aside.
Spelt(text, i, m) ==
  \E z \in 0 .. i :
    /\ \A j \in 1 .. z : text[j] = 0
    /\ m = 0 => z = i
    /\ m # 0 => Len(Digits[m]) = i - z /\ \A j \in 1 .. i - z : Digits[m][j] = text[z + j]

\* The accumulator holds the number in its two halves.
Holds(a, m) == a = [high |-> m \div Bytes(2), low |-> m % Bytes(2)]

\* The two halves of a number.
LEMMA Divided ==
  ASSUME NEW m \in Nat
  PROVE  /\ m \div Bytes(2) \in Nat /\ m % Bytes(2) \in Nat /\ m % Bytes(2) < Bytes(2)
         /\ m = Bytes(2) * (m \div Bytes(2)) + (m % Bytes(2))
BY SMT DEF Bytes

\* The upper half is below the sign bit.
LEMMA Carried ==
  ASSUME NEW h \in Nat, NEW t \in Nat, NEW u \in Nat, u < Bytes(2), NEW s \in Nat, NEW n \in Nat,
         n = Bytes(2) * (10 * h) + s, s = Bytes(2) * t + u, n < 1000000000
  PROVE  /\ n \div Bytes(2) = h * 10 + t /\ n % Bytes(2) = u
         /\ (h * 10 + t) % Bytes(2) = h * 10 + t
<1> DEFINE top == h * 10 + t
<1>1. n = 65536 * top + u
  BY SMT DEF Bytes
<1>2. top \in Nat
  BY SMT
<1>3. u \in Nat /\ u < 65536
  BY SMT DEF Bytes
<1> HIDE DEF top
<1>4. n \div 65536 = top /\ n % 65536 = u
  BY <1>1, <1>2, <1>3, SMT
<1>5. top < 65536
  BY <1>1, <1>2, <1>3, SMT
<1>6. top % 65536 = top
  BY <1>2, <1>5, SMT
<1> QED
  BY <1>4, <1>6, SMT DEF Bytes, top

\* A digit more, below the numbers that need the sign bit.
LEMMA AnotherDigit ==
  ASSUME NEW m \in Nat, Small(m), NEW d \in 0 .. 9, NEW a, Holds(a, m)
  PROVE  Holds(AddDigit(a, d), 10 * m + d)
<1> DEFINE h == m \div Bytes(2)
           l == m % Bytes(2)
           s == l * 10 + d
           t == s \div Bytes(2)
           u == s % Bytes(2)
           n == 10 * m + d
<1>1. h \in Nat /\ l \in Nat /\ m = Bytes(2) * h + l
  BY Divided
<1>2. AddDigit(a, d) = [high |-> (h * 10 + t) % Bytes(2), low |-> u]
  <2>1. a.high = h /\ a.low = l
    BY SMT DEF Holds
  <2> HIDE DEF h, l
  <2> QED
    BY <2>1, SMT DEF AddDigit
<1> HIDE DEF h, l
<1>3. s \in Nat /\ n \in Nat
  BY <1>1
<1>4. n = Bytes(2) * (10 * h) + s
  BY <1>1, SMT DEF Bytes
<1>5. n < 1000000000
  BY SMT DEF Small
<1> HIDE DEF s, n
<1>6. t \in Nat /\ u \in Nat /\ u < Bytes(2) /\ s = Bytes(2) * t + u
  BY <1>3, Divided
<1> HIDE DEF t, u
<1>7. /\ n \div Bytes(2) = h * 10 + t /\ n % Bytes(2) = u
      /\ (h * 10 + t) % Bytes(2) = h * 10 + t
  BY <1>1, <1>3, <1>4, <1>5, <1>6, Carried, SMT
<1>8. Holds(AddDigit(a, d), n)
  BY <1>2, <1>7, SMT DEF Holds
<1> QED
  BY <1>8 DEF n

\* A digit more is ten times as large.
LEMMA BelowNext ==
  ASSUME NEW i \in 0 .. 8, NEW m \in Nat, Below(m, i), NEW d \in 0 .. 9
  PROVE  Small(m) /\ Below(10 * m + d, i + 1)
<1>1. Tops[i + 2] = 10 * Tops[i + 1] /\ Tops[i + 1] \in Nat /\ Tops[i + 1] <= 100000000
  <2>1. i = 0 \/ i = 1 \/ i = 2 \/ i = 3 \/ i = 4 \/ i = 5 \/ i = 6 \/ i = 7 \/ i = 8
    BY SMT
  <2> QED
    BY <2>1, SMT DEF Tops
<1>2. i + 1 + 1 = i + 2
  BY SMT
<1> QED
  BY <1>1, <1>2, SMT DEF Below, Small

\* And the text so far spells it.
LEMMA SpeltNext ==
  ASSUME NEW text, NEW i \in Nat, NEW m \in Nat, Spelt(text, i, m), text[i + 1] \in 0 .. 9
  PROVE  Spelt(text, i + 1, 10 * m + text[i + 1])
<1> DEFINE d == text[i + 1]
           n == 10 * m + d
<1>1. PICK z \in 0 .. i :
        /\ \A j \in 1 .. z : text[j] = 0
        /\ m = 0 => z = i
        /\ m # 0 => Len(Digits[m]) = i - z /\ \A j \in 1 .. i - z : Digits[m][j] = text[z + j]
  BY DEF Spelt
<1>2. CASE m = 0 /\ d = 0
  <2>1. \A j \in 1 .. i + 1 : text[j] = 0
    BY <1>1, <1>2
  <2>2. n = 0 /\ i + 1 \in 0 .. i + 1
    BY <1>2
  <2> HIDE DEF n
  <2>3. Spelt(text, i + 1, n)
    BY <2>1, <2>2 DEF Spelt
  <2> QED
    BY <2>3 DEF n
<1>3. CASE m = 0 /\ d # 0
  <2>1. n = d /\ n \in Nat /\ n < 10 /\ n # 0
    BY <1>3
  <2>2. Digits[n] = <<n>>
    BY <2>1, DigitsAre
  <2>3. Len(<<n>>) = 1 /\ <<n>>[1] = n
    OBVIOUS
  <2>4. i + 1 - i = 1 /\ \A j \in 1 .. i + 1 - i : Digits[n][j] = text[i + j]
    <3>1. \A j \in 1 .. 1 : j = 1
      OBVIOUS
    <3> QED
      BY <2>1, <2>2, <2>3, <3>1
  <2> HIDE DEF n
  <2>5. Len(Digits[n]) = i + 1 - i
    BY <2>2, <2>3, <2>4
  <2>6. i \in 0 .. i + 1 /\ \A j \in 1 .. i : text[j] = 0
    BY <1>1, <1>3
  <2>7. Spelt(text, i + 1, n)
    BY <2>1, <2>4, <2>5, <2>6 DEF Spelt
  <2> QED
    BY <2>7 DEF n
<1>4. CASE m # 0
  <2>1. n \in Nat /\ ~(n < 10) /\ n \div 10 = m /\ n % 10 = d /\ n # 0
    <3> HIDE DEF d
    <3>1. d \in 0 .. 9
      BY DEF d
    <3> QED
      BY <1>4, <3>1
  <2>2. Digits[n] = Append(Digits[m], d)
    BY <2>1, DigitsAre
  <2> DEFINE ds == Digits[m]
             l == i - z
  <2>3. ds \in Seq(0 .. 9) /\ Len(ds) = l /\ l \in Nat /\ \A j \in 1 .. l : ds[j] = text[z + j]
    BY <1>1, <1>4, DigitsType
  <2> HIDE DEF ds, n, d
  <2>4. Digits[n] = Append(ds, d) /\ d \in 0 .. 9
    BY <2>2 DEF ds, d
  <2>5. /\ Len(Append(ds, d)) = l + 1 /\ Append(ds, d)[l + 1] = d
        /\ \A j \in 1 .. l : Append(ds, d)[j] = ds[j]
    <3> HIDE DEF l
    <3> QED
      BY <2>3, <2>4, AppendProperties
  <2>6. i + 1 - z = l + 1 /\ z + (l + 1) = i + 1
    OBVIOUS
  <2>7. ASSUME NEW j \in 1 .. l + 1 PROVE Digits[n][j] = text[z + j]
    <3>1. CASE j = l + 1
      BY <2>4, <2>5, <2>6, <3>1 DEF d
    <3>2. CASE j # l + 1
      <4>1. j \in 1 .. l
        BY <2>3, <3>2
      <4> HIDE DEF l
      <4> QED
        BY <2>3, <2>4, <2>5, <4>1
    <3> QED
      BY <3>1, <3>2
  <2>8. Len(Digits[n]) = i + 1 - z /\ \A j \in 1 .. i + 1 - z : Digits[n][j] = text[z + j]
    BY <2>4, <2>5, <2>6, <2>7
  <2>9. z \in 0 .. i + 1
    OBVIOUS
  <2>10. Spelt(text, i + 1, n)
    BY <1>1, <2>1, <2>8, <2>9 DEF Spelt
  <2> QED
    BY <2>10 DEF n, d
<1> QED
  BY <1>2, <1>3, <1>4

\* What the whole text spells it represents.
LEMMA SpeltRepresents ==
  ASSUME NEW text \in Seq(0 .. 10), NEW m \in Nat, Spelt(text, Len(text), m)
  PROVE  Represents(text, m)
<1> DEFINE l == Len(text)
<1>1. l \in Nat /\ \A i \in 1 .. l : text[i] \in 0 .. 10
  BY LenProperties, ElementOfSeq
<1>2. PICK z \in 0 .. l :
        /\ \A j \in 1 .. z : text[j] = 0
        /\ m = 0 => z = l
        /\ m # 0 => Len(Digits[m]) = l - z /\ \A j \in 1 .. l - z : Digits[m][j] = text[z + j]
  BY DEF Spelt
<1> HIDE DEF l
<1> DEFINE k == z + 1
           rest == SubSeq(text, k, l)
<1>3. k \in Int /\ l \in Int /\ \A i \in k .. l : text[i] \in 0 .. 10
  BY <1>1
<1>4. l - k + 1 = l - z /\ (k <= l => l - z > 0) /\ (~(k <= l) => l - z = 0)
  BY <1>1
<1>5. /\ rest \in Seq(0 .. 10) /\ Len(rest) = IF k <= l THEN l - k + 1 ELSE 0
      /\ \A i \in 1 .. l - k + 1 : rest[i] = text[k + i - 1]
  <2> HIDE DEF k
  <2> QED
    BY <1>3, SubSeqProperties
<1>6. Len(rest) = l - z
  BY <1>4, <1>5
<1>7. ASSUME NEW i \in 1 .. l - z PROVE rest[i] = text[z + i]
  <2>1. i \in 1 .. l - k + 1 /\ k + i - 1 = z + i
    BY <1>1, <1>4
  <2> QED
    BY <1>5, <2>1
<1> HIDE DEF rest
<1>8. rest = IF m = 0 THEN <<>> ELSE Digits[m]
  <2>1. CASE m = 0
    BY <1>1, <1>2, <1>5, <1>6, <2>1, EmptySeq
  <2>2. CASE m # 0
    <3> DEFINE d == Digits[m]
    <3>1. d \in Seq(0 .. 9) /\ Len(d) = l - z /\ \A j \in 1 .. l - z : d[j] = text[z + j]
      BY <1>2, <2>2, DigitsType
    <3> HIDE DEF d
    <3>2. d \in Seq(0 .. 10)
      <4>1. \A j \in 1 .. Len(d) : d[j] \in 0 .. 9
        BY <3>1, ElementOfSeq
      <4> QED
        BY <3>1
    <3>3. rest = d
      BY <1>5, <1>6, <1>7, <3>1, <3>2, SeqEqual
    <3> QED
      BY <2>2, <3>3 DEF d
  <2> QED
    BY <2>1, <2>2
<1> QED
  BY <1>2, <1>8 DEF Represents, rest, l

\* A number of at most nine digits does not reach the sign bit, so what is accepted
\* is the number that the text represents.
LEMMA NumberFound ==
  ASSUME NEW json, NEW key \in DOMAIN json, json[key] \in Seq(0 .. 10), Len(json[key]) <= 9,
         get_number(json, key, 1) # Rejected
  PROVE  get_number(json, key, 1) \in Nat /\ Represents(json[key], get_number(json, key, 1))
<1> DEFINE text == json[key]
           l == Len(text)
<1>1. l \in Nat /\ l <= 9 /\ DOMAIN text = 1 .. l /\ \A i \in 1 .. l : text[i] \in 0 .. 10
  BY LenProperties, ElementOfSeq
<1>2. /\ 10 \notin ToSet(text)
      /\ LET a == Number(text) IN a.high = 0 /\ a.low < Bytes(1) /\ get_number(json, key, 1) = a.low
  BY DEF get_number
<1> HIDE DEF text
<1>3. \A i \in 1 .. l : text[i] \in 0 .. 9
  <2>1. \A i \in 1 .. l : text[i] # 10
    BY <1>1, <1>2 DEF ToSet
  <2> QED
    BY <1>1, <2>1
<1>4. PICK acc : /\ acc[0] = [high |-> 0, low |-> 0]
                 /\ \A i \in 1 .. l : acc[i] = AddDigit(acc[i - 1], text[i])
                 /\ Number(text) = acc[l]
  BY <1>1, NumberSteps
<1> DEFINE Found(i, m) == Below(m, i) /\ Spelt(text, i, m) /\ Holds(acc[i], m)
           Good == {i \in Nat : i <= l => \E m \in Nat : Found(i, m)}
<1> HIDE DEF l
<1>5. ASSUME NEW i \in Nat, \A k \in Nat : k < i => k \in Good
      PROVE  i \in Good
  <2>1. CASE i = 0
    <3>1. Below(0, 0)
      BY SMT DEF Below, Tops
    <3>2. Spelt(text, 0, 0)
      BY DEF Spelt
    <3>3. Holds(acc[0], 0)
      <4>1. 0 \div Bytes(2) = 0 /\ 0 % Bytes(2) = 0
        BY SMT DEF Bytes
      <4> QED
        BY <1>4, <4>1, SMT DEF Holds
    <3> QED
      BY <2>1, <3>1, <3>2, <3>3
  <2>2. CASE i # 0 /\ i <= l
    <3> DEFINE k == i - 1
    <3>1. k \in Nat /\ k < i /\ k <= l /\ k \in 0 .. 8 /\ k + 1 = i /\ i \in 1 .. l
      BY <1>1, <2>2
    <3> HIDE DEF k
    <3>2. PICK m \in Nat : Found(k, m)
      BY <1>5, <3>1
    <3>3. text[k + 1] \in 0 .. 9 /\ acc[k + 1] = AddDigit(acc[k], text[k + 1])
      BY <1>3, <1>4, <3>1 DEF k
    <3>4. Small(m) /\ Below(10 * m + text[k + 1], k + 1)
      <4>1. Below(m, k)
        BY <3>2
      <4> QED
        BY <3>1, <3>3, <4>1, BelowNext
    <3>5. Spelt(text, k + 1, 10 * m + text[k + 1])
      BY <3>1, <3>2, <3>3, SpeltNext
    <3>6. Holds(acc[k + 1], 10 * m + text[k + 1])
      BY <3>2, <3>3, <3>4, AnotherDigit, SMT
    <3>7. 10 * m + text[k + 1] \in Nat
      BY <3>3
    <3>8. Found(k + 1, 10 * m + text[k + 1])
      BY <3>4, <3>5, <3>6
    <3> HIDE DEF Found
    <3>9. \E n \in Nat : Found(i, n)
      BY <3>1, <3>7, <3>8
    <3> QED
      BY <3>9
  <2> QED
    BY <2>1, <2>2
<1>6. Nat \subseteq Good
  <2> HIDE DEF Good
  <2> QED
    BY <1>5, Everywhere
<1>7. PICK m \in Nat : Found(l, m)
  BY <1>1, <1>6
<1>8. get_number(json, key, 1) = m
  <2>1. Number(text).high = m \div Bytes(2) /\ Number(text).low = m % Bytes(2)
    BY <1>4, <1>7, SMT DEF Holds
  <2>2. m \div Bytes(2) = 0
    BY <1>2, <2>1
  <2>3. m % Bytes(2) = m
    BY <2>2, SMT DEF Bytes
  <2> QED
    BY <1>2, <2>1, <2>3, SMT
<1>9. Represents(text, m)
  BY <1>7, SpeltRepresents DEF l, text
<1> QED
  BY <1>8, <1>9 DEF text

-----------------------------------------------------------------------------
(* Lemmas: what is drawn of a value is what its body says *)

\* What may be published of an item.
Sent(item, body) ==
  CASE item = "rgb_led" -> Numbers(body)
    [] item = "user_led" -> TRUE
    [] item = "logger" -> body \in Loggers
    [] item = "system" -> body \in Systems

\* What a handler makes of a value that it shows.
Drawn(item, v) ==
  CASE item = "rgb_led" -> rgb_led_handler(v)
    [] item = "user_led" -> user_led_handler(v)
    [] item = "logger" -> v
    [] item = "system" -> system_config_handler(v)

\* A value of the parsers has a picture, and the picture is right.
Faithful(item, body) ==
  LET v == Parse(item, body) IN
  /\ v # None
  /\ Drawn(item, v) # None
  /\ Pictures(item, body, Drawn(item, v))

\* Each field of what a parser takes was found.
LEMMA WholeFields ==
  ASSUME NEW v, Whole(v) # Rejected
  PROVE  Whole(v) = v /\ \A f \in DOMAIN v : v[f] # Rejected
BY DEF Whole

\* The colours of the RGB LEDs: each field from its own path.
LEMMA ColoursFaithful ==
  ASSUME NEW body, Numbers(body), Parse("rgb_led", body) # Rejected
  PROVE  Faithful("rgb_led", body)
<1> DEFINE v == [f \in RgbFields |-> get_number(body, f, 1)]
<1>1. Parse("rgb_led", body) = Whole(v)
  BY DEF Parse, parse_RGB_LED_config
<1>2. DOMAIN v = RgbFields /\ v = [f \in RgbFields |-> v[f]] /\ \A f \in RgbFields : v[f] = get_number(body, f, 1)
  OBVIOUS
<1> HIDE DEF v
<1>3. Whole(v) = v /\ \A f \in RgbFields : v[f] # Rejected
  BY <1>1, <1>2, WholeFields
<1>4. ASSUME NEW f \in RgbFields
      PROVE  v[f] \in Nat /\ Represents(body[f], v[f])
  <2>1. get_number(body, f, 1) # Rejected
    BY <1>2, <1>3
  <2>2. f \in DOMAIN body
    BY <2>1 DEF get_number, Missing
  <2>3. body[f] \in Seq(0 .. 10) /\ Len(body[f]) <= 9
    BY <2>2 DEF Numbers
  <2> QED
    BY <1>2, <2>1, <2>2, <2>3, NumberFound
<1>5. v \in RgbValues
  BY <1>2, <1>4 DEF RgbValues
<1>6. {"led0.red", "led0.green", "led0.blue", "led1.red", "led1.green", "led1.blue"} = RgbFields
  BY DEF RgbFields
<1> DEFINE p == rgb_led_handler(v)
<1>7. /\ p = [Led0 |-> Colour(v["led0.red"], v["led0.green"], v["led0.blue"]),
              Led1 |-> Colour(v["led1.red"], v["led1.green"], v["led1.blue"])]
      /\ Drawn("rgb_led", v) = p
  BY DEF rgb_led_handler, Drawn
<1> HIDE DEF p
<1>8. p # None
  <2> DEFINE Colours == [red : Nat, green : Nat, blue : Nat]
  <2>1. /\ Colour(v["led0.red"], v["led0.green"], v["led0.blue"]) \in Colours
        /\ Colour(v["led1.red"], v["led1.green"], v["led1.blue"]) \in Colours
    BY <1>4, <1>6 DEF Colour
  <2> HIDE DEF Colours
  <2>2. p \in [Led0 : Colours, Led1 : Colours]
    BY <1>7, <2>1
  <2> QED
    BY <2>2, NoneAssumption DEF Colours
<1>9. /\ DOMAIN Paths = {"Led0", "Led1"}
      /\ DOMAIN Paths["Led0"] = {"red", "green", "blue"} /\ DOMAIN Paths["Led1"] = {"red", "green", "blue"}
      /\ Paths["Led0"]["red"] = "led0.red" /\ Paths["Led0"]["green"] = "led0.green"
      /\ Paths["Led0"]["blue"] = "led0.blue" /\ Paths["Led1"]["red"] = "led1.red"
      /\ Paths["Led1"]["green"] = "led1.green" /\ Paths["Led1"]["blue"] = "led1.blue"
  BY DEF Paths
<1>10. /\ p["Led0"]["red"] = v["led0.red"] /\ p["Led0"]["green"] = v["led0.green"]
       /\ p["Led0"]["blue"] = v["led0.blue"] /\ p["Led1"]["red"] = v["led1.red"]
       /\ p["Led1"]["green"] = v["led1.green"] /\ p["Led1"]["blue"] = v["led1.blue"]
  BY <1>7 DEF Colour
<1>11. /\ \A c \in {"red", "green", "blue"} : Represents(body[Paths["Led0"][c]], p["Led0"][c])
       /\ \A c \in {"red", "green", "blue"} : Represents(body[Paths["Led1"][c]], p["Led1"][c])
  BY <1>4, <1>6, <1>9, <1>10
<1>12. Pictures("rgb_led", body, p)
  BY <1>9, <1>11 DEF Pictures
<1> QED
  BY <1>1, <1>3, <1>5, <1>7, <1>8, <1>12, NoneAssumption DEF Faithful

\* The user LEDs that are on are those whose texts say so.
LEMMA LightsFaithful ==
  ASSUME NEW body, Parse("user_led", body) # Rejected
  PROVE  Faithful("user_led", body)
<1> DEFINE v == [f \in UserFields |-> get_enum(body, f)]
<1>1. Parse("user_led", body) = Whole(v)
  BY DEF Parse, parse_User_LED_config
<1>2. DOMAIN v = UserFields /\ v = [f \in UserFields |-> v[f]] /\ \A f \in UserFields : v[f] = get_enum(body, f)
  OBVIOUS
<1> HIDE DEF v
<1>3. Whole(v) = v /\ \A f \in UserFields : v[f] # Rejected
  BY <1>1, <1>2, WholeFields
<1>4. DOMAIN Spellings = {"On", "Off"} /\ "On" # "Off"
  BY DEF Spellings
<1>5. ASSUME NEW f \in UserFields
      PROVE  v[f] \in {"On", "Off"} /\ body[f] \in Spellings[v[f]]
  <2>1. get_enum(body, f) # Rejected /\ v[f] = get_enum(body, f)
    BY <1>2, <1>3
  <2>2. ~(\A s \in DOMAIN Spellings : body[f] \notin Spellings[s])
    BY <2>1 DEF get_enum
  <2>3. get_enum(body, f) = CHOOSE s \in DOMAIN Spellings : body[f] \in Spellings[s]
    BY <2>1, <2>2 DEF get_enum
  <2> HIDE DEF Spellings
  <2> QED
    BY <1>4, <2>1, <2>2, <2>3
<1>6. v \in UserValues
  BY <1>2, <1>5 DEF UserValues
<1> DEFINE p == user_led_handler(v)
<1>7. ASSUME NEW i \in 0 .. 7 PROVE UserLeds[i + 1] \in UserFields
  BY DEF UserLeds, UserFields
<1>8. p = {i \in 0 .. 7 : v[UserLeds[i + 1]] = "On"} /\ Drawn("user_led", v) = p
  BY DEF user_led_handler, setLED, Drawn
<1> HIDE DEF p
<1>9. p # None
  BY <1>8, NoneAssumption
<1>10. ASSUME NEW i \in 0 .. 7
       PROVE  body[UserLeds[i + 1]] \in Spellings[IF i \in p THEN "On" ELSE "Off"]
  <2> DEFINE f == UserLeds[i + 1]
  <2>1. v[f] \in {"On", "Off"} /\ body[f] \in Spellings[v[f]]
    BY <1>5, <1>7
  <2>2. i \in p <=> v[f] = "On"
    BY <1>8
  <2> HIDE DEF f
  <2>3. v[f] = IF i \in p THEN "On" ELSE "Off"
    BY <2>1, <2>2
  <2> QED
    BY <2>1, <2>3 DEF f
<1>11. Pictures("user_led", body, p)
  BY <1>10 DEF Pictures
<1> QED
  BY <1>1, <1>3, <1>6, <1>8, <1>9, <1>11, NoneAssumption DEF Faithful

\* What ends at its first NUL has none left.
LEMMA StringTwice ==
  ASSUME NEW array, IsText(array)
  PROVE  String(String(array)) = String(array)
<1> DEFINE nul == {i \in DOMAIN array : array[i] = "NUL"}
           s == String(array)
           l == Len(array)
<1>1. l \in Nat /\ DOMAIN array = 1 .. l /\ array \in Seq(ToSet(array)) /\ \A i \in 1 .. l : array[i] \in ToSet(array)
  BY LenProperties, ElementOfSeq DEF IsText
<1>2. CASE nul = {}
  BY <1>2 DEF String
<1>3. CASE nul # {}
  <2> DEFINE m == First(nul)
  <2>0. nul \in SUBSET Nat
    BY <1>1
  <2>1. m \in nul /\ \A i \in nul : m <= i
    BY <1>3, <2>0, FirstIsLeast
  <2>2. s = SubSeq(array, 1, m - 1)
    BY <1>3 DEF String
  <2> HIDE DEF s, m, l
  <2>3. m \in 1 .. l /\ \A i \in 1 .. m - 1 : array[i] # "NUL"
    <3>1. m \in 1 .. l
      BY <1>1, <2>1
    <3>2. ASSUME NEW i \in 1 .. m - 1 PROVE array[i] # "NUL"
      <4>1. i \in 1 .. l /\ ~(m <= i)
        BY <1>1, <3>1
      <4> QED
        BY <1>1, <2>1, <4>1
    <3> QED
      BY <3>1, <3>2
  <2>4. /\ s \in Seq(ToSet(array)) /\ Len(s) = m - 1 /\ \A i \in 1 .. m - 1 : s[i] = array[i]
    BY <1>1, <2>2, <2>3, SubSeqProperties
  <2>5. DOMAIN s = 1 .. m - 1
    BY <2>4, LenProperties
  <2>6. {i \in DOMAIN s : s[i] = "NUL"} = {}
    BY <2>3, <2>4, <2>5
  <2>7. String(s) = s
    BY <2>6 DEF String
  <2> QED
    BY <2>7 DEF s
<1> QED
  BY <1>2, <1>3

\* The id is drawn up to its NUL, whether it was copied before or not.
LEMMA SystemFaithful ==
  ASSUME NEW config \in Systems, Parse("system", config) # Rejected
  PROVE  Faithful("system", config)
<1> DEFINE v == [id |-> Copied(config.id, IdChars), switches |-> config.switches]
<1>1. Parse("system", config) = Whole(v)
  BY DEF Parse, parse_system_config
<1>2. Whole(v) = v
  BY <1>1, WholeFields
<1>3. v.id = String(config.id)
  BY <1>1, <1>2, SystemParsed
<1>4. v = [id |-> String(config.id), switches |-> config.switches]
  BY <1>3
<1> HIDE DEF v
<1>5. Drawn("system", v) = [id |-> String(config.id), red |-> config.switches]
  BY <1>4, SystemsAssumption, StringTwice DEF Drawn, system_config_handler
<1> QED
  BY <1>1, <1>2, <1>4, <1>5, NoneAssumption DEF Faithful, Pictures

\* What a parser copies has valid characters only.
LEMMA CopiedType ==
  ASSUME NEW array, IsText(array), NEW valid, Copied(array, valid) # Rejected
  PROVE  Copied(array, valid) \in Seq(valid)
<1> DEFINE stops == {i \in DOMAIN array : array[i] \notin valid}
           l == Len(array)
<1>1. l \in Nat /\ DOMAIN array = 1 .. l /\ array \in Seq(ToSet(array))
  BY LenProperties DEF IsText
<1>2. CASE stops = {}
  <2>1. \A i \in 1 .. l : array[i] \in valid
    BY <1>1, <1>2
  <2>2. array \in Seq(valid)
    BY <1>1, <2>1
  <2> QED
    BY <1>2, <2>2 DEF Copied
<1>3. CASE stops # {}
  <2> DEFINE m == First(stops)
  <2>1. stops \in SUBSET Nat
    BY <1>1
  <2>2. m \in stops /\ \A i \in stops : m <= i
    BY <1>3, <2>1, FirstIsLeast
  <2>3. Copied(array, valid) = IF array[m] = "NUL" THEN SubSeq(array, 1, m - 1) ELSE Rejected
    BY <1>3, Zenon DEF Copied, First
  <2> HIDE DEF m, l
  <2>4. m \in 1 .. l
    BY <1>1, <2>2
  <2>5. ASSUME NEW i \in 1 .. m - 1 PROVE array[i] \in valid
    <3>1. i \in 1 .. l /\ ~(m <= i)
      BY <1>1, <2>4
    <3> QED
      BY <1>1, <2>2, <3>1
  <2>6. SubSeq(array, 1, m - 1) \in Seq(valid)
    BY <2>4, <2>5, SubSeqProperties
  <2> QED
    BY <2>3, <2>6
<1> QED
  BY <1>2, <1>3

\* The configuration of the logger is shown as it was sent.
LEMMA LoggerFaithful ==
  ASSUME NEW body \in Loggers, Parse("logger", body) # Rejected
  PROVE  Faithful("logger", body)
<1> DEFINE level_ == IF body.level \in 0 .. 3 THEN body.level ELSE Rejected
           address_ == Copied(body.address, AddressChars)
           port_ == IF body.port > 0 THEN body.port ELSE Rejected
           v == [level |-> level_, address |-> address_, port |-> port_]
<1>1. Parse("logger", body) = Whole(v)
  BY DEF Parse, parse_logger_config
<1>2. body.level \in Nat /\ body.port \in Nat /\ body.address \in {Host, BadHost}
  BY DEF Loggers, Logger
<1>3. level_ # Rejected /\ address_ # Rejected /\ port_ # Rejected /\ Whole(v) = v
  <2> HIDE DEF level_, address_, port_
  <2>1. Whole(v) = v /\ \A f \in DOMAIN v : v[f] # Rejected
    BY <1>1, WholeFields
  <2> QED
    BY <2>1
<1>4. level_ = body.level /\ port_ = body.port
  BY <1>3
<1>5. IsText(body.address) /\ "NUL" \notin AddressChars
  <2>1. ASSUME NEW text \in {Host, BadHost} PROVE IsText(text)
    <3>1. /\ Len(text) = 8 /\ DOMAIN text = 1 .. 8
          /\ text \in {<<"1", "0", "0", ".", "1", "0", "1", "NUL">>, <<"i", "n", "v", "a", "l", "i", "d", "NUL">>}
      BY DEF Host, BadHost
    <3> DEFINE S == ToSet(text)
    <3>2. \A i \in 1 .. 8 : text[i] \in S
      BY <3>1 DEF ToSet
    <3> HIDE DEF S
    <3>3. text \in Seq(S)
      <4>1. text = [i \in 1 .. 8 |-> text[i]]
        BY <3>1
      <4>2. text \in [1 .. 8 -> S]
        BY <3>2, <4>1
      <4>3. Seq(S) = UNION {[1 .. n -> S] : n \in Nat} /\ 8 \in Nat
        BY SeqDef
      <4> QED
        BY <4>2, <4>3, Zenon
    <3> QED
      BY <3>3 DEF S, IsText
  <2> QED
    BY <1>2, <2>1 DEF AddressChars
<1>6. address_ = String(body.address)
  BY <1>3, <1>5, CopiedIsString
<1> HIDE DEF level_, port_, address_
<1>7. v = [level |-> body.level, address |-> String(body.address), port |-> body.port]
  BY <1>4, <1>6
<1>8. v \in LoggerValues
  <2>1. String(body.address) \in Seq(AddressChars)
    BY <1>3, <1>5, <1>6, CopiedType DEF address_
  <2> QED
    BY <1>2, <1>7, <2>1 DEF LoggerValues
<1> HIDE DEF v
<1> QED
  BY <1>1, <1>3, <1>7, <1>8, NoneAssumption DEF Faithful, Pictures, Drawn

LEMMA SentFaithful ==
  ASSUME NEW item \in Items, NEW body, Sent(item, body), Parse(item, body) # Rejected
  PROVE  Faithful(item, body)
BY ColoursFaithful, LightsFaithful, SystemFaithful, LoggerFaithful DEF Items, Sent

-----------------------------------------------------------------------------
(* What is shown is what was sent *)

Complete ==
  /\ accepted = [i \in Items |-> accepted[i]]
  /\ pending = [c \in Consumers |-> pending[c]]
  /\ \A c \in Consumers : pending[c] \subseteq Watched[c]
  /\ shown = [c \in Consumers |-> [i \in Watched[c] |-> shown[c][i]]]

\* A value is what the parser made of the body that was accepted, and until there
\* is one there is nothing to see.
Conveyed ==
  \A i \in Items :
    IF value[i] = None
    THEN accepted[i] = None /\ \A c \in Consumers : i \notin pending[c] /\ (i \in Watched[c] => shown[c][i] = None)
    ELSE Sent(i, accepted[i]) /\ value[i] = Parse(i, accepted[i]) /\ value[i] # Rejected

\* Whoever has seen the value shows it, but for the LEDs that the simulator lacks.
Seen ==
  \A c \in Consumers : \A i \in Watched[c] \ pending[c] :
    value[i] # None =>
      \/ shown[c][i] = Drawn(i, value[i])
      \/ build = "ibex" /\ i # "logger" /\ shown[c][i] = None

ShownInv == Complete /\ Conveyed /\ Seen

\* No number that arrives has more digits than fit in an int whatever they are.
ShortNumbers ==
  \A messages \in Received : \A message \in messages : message.body # Garbage => Numbers(message.body)

Brief == \A message \in traffic : message.body # Garbage => Numbers(message.body)

\* What the values, the consumers and the messages need of each other.
Showing == ShownInv /\ Brief

\* Its parts depend on the build, but for the primes.
LEMMA SameBuild ==
  ASSUME UNCHANGED fixed
  PROVE  Consumers' = Consumers /\ Watched' = Watched /\ build' = build /\ (Brief => Brief')
BY DEF fixed, Consumers, Watched, SonataItems, Consumer1Items, Consumer2Items, Brief

LEMMA WatchedItems ==
  ASSUME NEW c \in Consumers
  PROVE  Watched[c] \subseteq Items
BY DEF Consumers, Watched, SonataItems, Consumer1Items, Consumer2Items, Items

\* A step that leaves the values and the consumers alone.
LEMMA ShownStays ==
  ASSUME Showing, UNCHANGED <<fixed, value, accepted, pending, shown>>
  PROVE  Showing'
<1>1. Consumers' = Consumers /\ Watched' = Watched /\ build' = build /\ Brief'
  BY SameBuild DEF Showing
<1> QED
  BY <1>1 DEF Showing, ShownInv, Complete, Conveyed, Seen

\* A value that is published is faithful, and pending wherever the item is watched.
LEMMA ShownSet ==
  ASSUME Showing, Published, NEW item \in Items, NEW body, SetConfig(item, body),
         Parse(item, body) # Rejected => Sent(item, body), UNCHANGED <<fixed, shown>>
  PROVE  Showing'
<1>1. CASE Code(item, body) # "0"
  <2>1. UNCHANGED <<value, accepted, pending>>
    BY <1>1, Zenon DEF SetConfig
  <2> QED
    BY <2>1, ShownStays
<1>2. CASE Code(item, body) = "0"
  <2> DEFINE v == Parse(item, body)
  <2>1. /\ value' = [value EXCEPT ![item] = v]
        /\ accepted' = [accepted EXCEPT ![item] = body]
        /\ pending' = [c \in Consumers |-> pending[c] \cup (Watched[c] \cap {item})]
    BY <1>2, Zenon DEF SetConfig
  <2>2. v # Rejected
    BY <1>2 DEF Code
  <2>3. Sent(item, body) /\ v # None
    BY <2>2, SentFaithful DEF Faithful
  <2>4. Consumers' = Consumers /\ Watched' = Watched /\ build' = build /\ Brief'
    BY SameBuild DEF Showing
  <2>5. Complete /\ Conveyed /\ Seen
    BY DEF Showing, ShownInv
  <2>6. /\ value'[item] = v /\ accepted'[item] = body
        /\ \A i \in Items \ {item} : value'[i] = value[i] /\ accepted'[i] = accepted[i]
    BY <2>1, <2>5 DEF Complete, Published
  <2>7. \A c \in Consumers : pending'[c] = pending[c] \cup (Watched[c] \cap {item})
    BY <2>1
  <2>8. Complete'
    <3>1. accepted' = [i \in Items |-> accepted'[i]]
      BY <2>1, <2>5 DEF Complete
    <3>2. pending' = [c \in Consumers |-> pending'[c]]
      BY <2>1
    <3>3. \A c \in Consumers : pending'[c] \subseteq Watched[c]
      BY <2>5, <2>7 DEF Complete
    <3> QED
      BY <2>4, <2>5, <3>1, <3>2, <3>3 DEF Complete
  <2> HIDE DEF v
  <2>9. Conveyed'
    <3>1. ASSUME NEW i \in Items, value'[i] = None
          PROVE  accepted'[i] = None /\ \A c \in Consumers : i \notin pending'[c] /\ (i \in Watched[c] => shown[c][i] = None)
      <4>1. i # item /\ value[i] = None
        BY <2>3, <2>6, <3>1
      <4> QED
        BY <2>5, <2>6, <2>7, <4>1 DEF Conveyed
    <3>2. ASSUME NEW i \in Items, value'[i] # None
          PROVE  Sent(i, accepted'[i]) /\ value'[i] = Parse(i, accepted'[i]) /\ value'[i] # Rejected
      <4>1. CASE i = item
        BY <2>2, <2>3, <2>6, <4>1 DEF v
      <4>2. CASE i # item
        BY <2>5, <2>6, <3>2, <4>2 DEF Conveyed
      <4> QED
        BY <4>1, <4>2
    <3> QED
      BY <2>4, <3>1, <3>2 DEF Conveyed
  <2>10. Seen'
    <3>1. ASSUME NEW c \in Consumers, NEW i \in Watched[c] \ pending'[c], value'[i] # None
          PROVE  \/ shown[c][i] = Drawn(i, value'[i])
                 \/ build = "ibex" /\ i # "logger" /\ shown[c][i] = None
      <4>1. i \in Items /\ i # item /\ i \in Watched[c] \ pending[c]
        BY <2>7, WatchedItems
      <4> QED
        BY <2>5, <2>6, <3>1, <4>1 DEF Seen
    <3> QED
      BY <2>4, <3>1 DEF Seen
  <2> QED
    BY <2>4, <2>8, <2>9, <2>10 DEF Showing, ShownInv
<1> QED
  BY <1>1, <1>2

\* A handler shows the value it is given.
LEMMA ShownHandled ==
  ASSUME Showing, NEW c \in Consumers, NEW item \in Items, Handle(c, item)
  PROVE  Showing'
<1> DEFINE p == Picture(c, item, value[item])
<1>1. /\ item \in pending[c] /\ UNCHANGED <<fixed, value, accepted>>
      /\ pending' = [pending EXCEPT ![c] = @ \ {item}]
      /\ shown' = [shown EXCEPT ![c][item] = p]
  BY Zenon DEF Handle
<1>2. Consumers' = Consumers /\ Watched' = Watched /\ build' = build /\ Brief'
  BY <1>1, SameBuild DEF Showing
<1>3. Complete /\ Conveyed /\ Seen
  BY DEF Showing, ShownInv
<1>4. item \in Watched[c] /\ value[item] # None
  BY <1>1, <1>3 DEF Complete, Conveyed
<1>5. p = Drawn(item, value[item]) \/ (build = "ibex" /\ item # "logger" /\ p = None)
  <2>1. build = "ibex" => item # "system"
    BY <1>4 DEF Watched, Consumers, Consumer1Items, Consumer2Items
  <2> QED
    BY <2>1 DEF Items, Picture, Drawn, led_handler, user_led_logger
<1> HIDE DEF p
<1>6. /\ \A d \in Consumers : d # c => pending'[d] = pending[d] /\ shown'[d] = shown[d]
      /\ pending'[c] = pending[c] \ {item}
      /\ shown'[c] = [shown[c] EXCEPT ![item] = p]
  BY <1>1, <1>3 DEF Complete
<1>7. shown[c] = [i \in Watched[c] |-> shown[c][i]]
  BY <1>3, Zenon DEF Complete
<1>8. shown'[c][item] = p /\ \A i \in Watched[c] : i # item => shown'[c][i] = shown[c][i]
  BY <1>4, <1>6, <1>7
<1>9. Complete'
  <2>1. pending' = [d \in Consumers |-> pending'[d]] /\ \A d \in Consumers : pending'[d] \subseteq Watched[d]
    <3>1. pending' = [d \in Consumers |-> pending'[d]]
      BY <1>1, <1>3 DEF Complete
    <3>2. \A d \in Consumers : pending'[d] \subseteq pending[d]
      BY <1>6
    <3> QED
      BY <1>3, <3>1, <3>2 DEF Complete
  <2>2. shown' = [d \in Consumers |-> shown'[d]]
    BY <1>1, <1>3 DEF Complete
  <2>3. ASSUME NEW d \in Consumers PROVE shown'[d] = [i \in Watched[d] |-> shown'[d][i]]
    <3>1. CASE d = c
      BY <1>6, <1>7, <3>1
    <3>2. CASE d # c
      <4>1. shown[d] = [i \in Watched[d] |-> shown[d][i]]
        BY <1>3, Zenon DEF Complete
      <4> QED
        BY <1>6, <3>2, <4>1
    <3> QED
      BY <3>1, <3>2
  <2>4. shown' = [d \in Consumers |-> [i \in Watched[d] |-> shown'[d][i]]]
    BY <2>2, <2>3
  <2> QED
    BY <1>1, <1>2, <1>3, <2>1, <2>4 DEF Complete
<1>10. Conveyed'
  <2>1. ASSUME NEW i \in Items, value[i] = None, NEW d \in Consumers
        PROVE  i \notin pending'[d] /\ (i \in Watched[d] => shown'[d][i] = None)
    <3>1. i # item /\ i \notin pending[d] /\ (i \in Watched[d] => shown[d][i] = None)
      BY <1>3, <1>4, <2>1 DEF Conveyed
    <3> QED
      BY <1>6, <1>8, <3>1
  <2> QED
    BY <1>1, <1>2, <1>3, <2>1 DEF Conveyed
<1>11. Seen'
  <2>1. ASSUME NEW d \in Consumers, NEW i \in Watched[d] \ pending'[d], value[i] # None
        PROVE  \/ shown'[d][i] = Drawn(i, value[i])
               \/ build = "ibex" /\ i # "logger" /\ shown'[d][i] = None
    <3>1. CASE d = c /\ i = item
      BY <1>5, <1>8, <3>1
    <3>2. CASE ~(d = c /\ i = item)
      <4>1. shown'[d][i] = shown[d][i] /\ i \in Watched[d] \ pending[d]
        BY <1>6, <1>8, <2>1, <3>2
      <4> QED
        BY <1>3, <2>1, <4>1 DEF Seen
    <3> QED
      BY <3>1, <3>2
  <2> QED
    BY <1>1, <1>2, <2>1 DEF Seen
<1> QED
  BY <1>2, <1>9, <1>10, <1>11 DEF Showing, ShownInv

\* Whatever is routed to an item is what may be sent to it.
LEMMA ShownRouted ==
  ASSUME Showing, IInv, NEW name, NEW body, NEW call, updateConfig(name, body, call), UNCHANGED <<fixed, shown>>,
         LET item == configItemMap[First(Matches(name))].item IN
         Matches(name) # {} /\ Parse(item, body) # Rejected => Sent(item, body)
  PROVE  Showing'
<1>1. CASE Matches(name) = {}
  <2>1. UNCHANGED broker
    BY <1>1 DEF updateConfig
  <2> QED
    BY <2>1, ShownStays DEF broker
<1>2. CASE Matches(name) # {}
  <2> DEFINE item == configItemMap[First(Matches(name))].item
  <2>1. Matches(name) \in SUBSET Nat
    BY MapType DEF Matches, IInv
  <2>2. First(Matches(name)) \in Matches(name)
    BY <1>2, <2>1, FirstIsLeast
  <2>3. item \in Items
    BY <2>2, MapType DEF Matches, IInv
  <2>4. SetConfig(item, body) /\ (Parse(item, body) # Rejected => Sent(item, body))
    BY <1>2, Zenon DEF updateConfig
  <2> HIDE DEF item
  <2> QED
    BY <2>3, <2>4, ShownSet DEF IInv
<1> QED
  BY <1>1, <1>2

\* A message that arrives, for whichever id and whatever its name.
LEMMA ShownCallback ==
  ASSUME Showing, IInv, NEW id, NEW message \in traffic, publishCallback(id, message)
  PROVE  Showing'
<1> DEFINE name == Name(Topic(id, message.name))
           body == verify_signature(message)
           call == [sent |-> message, ready |-> {i \in Items : ~TooSoon(i)},
                    item |-> None, code |-> "ignored", expected |-> None]
           item == configItemMap[First(Matches(name))].item
<1>1. UNCHANGED <<fixed, shown>> /\ build = "sonata"
  BY DEF publishCallback
<1>2. CASE name # None /\ body # None
  <2>1. updateConfig(name, body, call)
    BY <1>2, Zenon DEF publishCallback
  <2>2. body = message.body \/ body = Garbage
    BY <1>2 DEF verify_signature
  <2>3. body # Garbage => Numbers(body)
    BY <2>2 DEF Showing, Brief
  <2> HIDE DEF name, body, call
  <2>4. ASSUME Matches(name) # {}, Parse(item, body) # Rejected PROVE Sent(item, body)
    <3>1. Matches(name) \in SUBSET Nat
      BY MapType DEF Matches, IInv
    <3>2. First(Matches(name)) \in Matches(name)
      BY <2>4, <3>1, FirstIsLeast
    <3>3. item \in {"rgb_led", "user_led"}
      BY <1>1, <3>2, MapType DEF Matches, IInv
    <3> HIDE DEF item
    <3>4. body # Garbage
      BY <2>4, <3>3, GarbageRejected DEF Items
    <3> QED
      BY <2>3, <3>3, <3>4 DEF Sent
  <2> QED
    BY <1>1, <2>1, <2>4, ShownRouted
<1>3. CASE ~(name # None /\ body # None)
  <2>1. UNCHANGED broker
    BY <1>3, Zenon DEF publishCallback
  <2> QED
    BY <1>1, <2>1, ShownStays DEF broker
<1> QED
  BY <1>2, <1>3

\* A step of a script.
LEMMA ShownProvider ==
  ASSUME Showing, IInv, Waits, provider_run
  PROVE  Showing'
<1> DEFINE k == script \div 2 + 1
           name == Named(k)
           send == Script[k]
           call == [sent |-> [name |-> send.name, header |-> "none", body |-> send.body],
                    ready |-> {i \in Items : ~TooSoon(i)},
                    item |-> None, code |-> "unknown", expected |-> send.expected]
<1>1. UNCHANGED <<fixed, shown>> /\ script < 2 * Len(Script) /\ script \in Nat /\ Script # <<>>
  BY DEF provider_run, IInv, Kinds
<1>2. CASE script % 2 = 0
  <2>1. updateConfig(send.name, send.body, call)
    BY <1>2, Zenon DEF provider_run
  <2>2. /\ k \in 1 .. Len(Script)
        /\ name \in {logger, rgbled, userled} /\ (build = "stub" => name # logger)
    BY <1>1, <1>2, InTime
  <2>3. build \in {"ibex", "stub"} /\ Sending(send, name, Slumber(k), k = Len(Script))
    BY <1>1, <2>2, ScriptAt
  <2> HIDE DEF k, name, send
  <2>4. /\ send.name = name
        /\ name = logger => send.body \in Loggers \cup {Garbage}
        /\ name = rgbled => send.body = Garbage \/ Numbers(send.body)
    BY <2>3 DEF Sending
  <2>5. configItemMap[First(Matches(name))].item = ItemOf(name)
    BY <2>2, <2>3, Routes
  <2>6. ASSUME Parse(ItemOf(name), send.body) # Rejected PROVE Sent(ItemOf(name), send.body)
    <3>1. ItemOf(name) \in Items /\ send.body # Garbage
      <4>1. ItemOf(name) \in Items
        BY <2>2, Names DEF Items
      <4> QED
        BY <2>6, <4>1, GarbageRejected
    <3> QED
      BY <2>2, <2>4, <3>1, Names DEF Sent
  <2> QED
    BY <1>1, <2>1, <2>4, <2>5, <2>6, ShownRouted
<1>3. CASE script % 2 # 0
  <2>1. UNCHANGED <<value, pending, accepted>>
    BY <1>3, Zenon DEF provider_run
  <2> QED
    BY <1>1, <2>1, ShownStays
<1> QED
  BY <1>2, <1>3

LEMMA ShownNext ==
  ASSUME Showing, IInv, Waits, [Next]_vars
  PROVE  Showing'
<1>1. CASE system_config_run
  <2>1. PICK config \in Systems : SetConfig("system", config)
    BY <1>1 DEF system_config_run
  <2>2. UNCHANGED <<fixed, shown>> /\ "system" \in Items /\ Sent("system", config)
    BY <1>1 DEF system_config_run, Items, Sent
  <2> QED
    BY <2>1, <2>2, ShownSet DEF IInv
<1>2. CASE Register \/ generate_topics \/ Tick \/ UNCHANGED vars
  <2>1. UNCHANGED <<fixed, value, accepted, pending, shown>>
    BY <1>2 DEF Register, generate_topics, Tick, vars, broker
  <2> QED
    BY <2>1, ShownStays
<1>3. CASE \E config \in Systems, message \in traffic : publishCallback(String(config.id), message)
  BY <1>3, ShownCallback
<1>4. CASE \E c \in Consumers, item \in Items : Handle(c, item)
  BY <1>4, ShownHandled
<1>5. CASE provider_run
  BY <1>5, ShownProvider
<1> QED
  BY <1>1, <1>2, <1>3, <1>4, <1>5 DEF Next

LEMMA ShowingInit ==
  ASSUME ShortNumbers, Init
  PROVE  Showing
<1>1. Brief
  BY DEF Init, ShortNumbers, Brief
<1>2. Complete
  BY DEF Init, Complete
<1>3. Conveyed
  BY DEF Init, Conveyed
<1>4. Seen
  <2>1. \A c \in Consumers : \A i \in Watched[c] : value[i] = None
    BY WatchedItems DEF Init
  <2> QED
    BY <2>1 DEF Seen
<1> QED
  BY <1>1, <1>2, <1>3, <1>4 DEF Showing, ShownInv

LEMMA ShowingShown ==
  ASSUME Showing
  PROVE  Shown
<1>1. Conveyed /\ Seen
  BY DEF Showing, ShownInv
<1>2. ASSUME NEW c \in Consumers, NEW item \in Watched[c] \ pending[c], value[item] = None
      PROVE  shown[c][item] = None /\ accepted[item] = None
  BY <1>1, <1>2, WatchedItems DEF Conveyed
<1>3. ASSUME NEW c \in Consumers, NEW item \in Watched[c] \ pending[c], value[item] # None
      PROVE  /\ shown[c][item] # None => Pictures(item, accepted[item], shown[c][item])
             /\ (build = "ibex" => item = "logger") => shown[c][item] # None
  <2> DEFINE body == accepted[item]
  <2>1. item \in Items
    BY WatchedItems
  <2>2. Sent(item, body) /\ value[item] = Parse(item, body) /\ Parse(item, body) # Rejected
    BY <1>1, <1>3, <2>1 DEF Conveyed
  <2>3. Faithful(item, body)
    BY <2>1, <2>2, SentFaithful
  <2>4. Drawn(item, value[item]) # None /\ Pictures(item, body, Drawn(item, value[item]))
    BY <2>2, <2>3 DEF Faithful
  <2>5. \/ shown[c][item] = Drawn(item, value[item])
        \/ build = "ibex" /\ item # "logger" /\ shown[c][item] = None
    BY <1>1, <1>3 DEF Seen
  <2> QED
    BY <2>4, <2>5
<1> QED
  BY <1>2, <1>3 DEF Shown

\* If no number has more than nine digits, whoever has seen an item shows exactly
\* what the last message accepted for it says, through routing, parsers, broker
\* and handlers.  With ten digits it is not so, as the run parser_overflow shows.
THEOREM ShownIsSent ==
  ASSUME ShortNumbers
  PROVE  Spec => []Shown
<1>1. Init => Showing
  BY ShowingInit
<1>2. Showing /\ IInv /\ Waits /\ [Next]_vars => Showing'
  BY ShownNext
<1>3. Showing => Shown
  BY ShowingShown
<1> QED
  BY <1>1, <1>2, <1>3, RoutingInductive, ScriptsInTime, PTL DEF Spec

=============================================================================

------------------------ MODULE ConfigConsumerProofs ------------------------
(***************************************************************************)
(* Proofs about the consumers composed with the broker, for any number of  *)
(* consumers, writers, items, updates, faults of handlers and timeouts.    *)
(* What is proved of the broker holds whoever calls it; here it is shown   *)
(* that a consumer is such a caller, and what the loop of the library      *)
(* makes of the broker's answers.                                          *)
(***************************************************************************)
EXTENDS ConfigConsumer, ConfigBrokerProofs

-----------------------------------------------------------------------------
(* A step of consumer c by itself leaves the others alone *)

\* Every variable of the consumers is a function of the consumer.
Shape ==
  /\ at = [c \in Consumers |-> at[c]]
  /\ events = [c \in Consumers |-> events[c]]
  /\ known = [c \in Consumers |-> known[c]]
  /\ fired = [c \in Consumers |-> fired[c]]
  /\ handled = [c \in Consumers |-> handled[c]]

Own(c) == RunStep(c) \/ TimeOut(c) \/ Crash(c)

\* Nothing of consumer d changes.
Same(d) ==
  /\ step'[d] = step[d] /\ at'[d] = at[d] /\ events'[d] = events[d]
  /\ known'[d] = known[d] /\ fired'[d] = fired[d] /\ timeouts'[d] = timeouts[d]
  /\ mwLeft'[d] = mwLeft[d] /\ crashed'[d] = crashed[d]
  /\ hazard'[d] = hazard[d] /\ claims'[d] = claims[d] /\ kept'[d] = kept[d]
  /\ handled'[d] = handled[d]

LEMMA WatchesType ==
  \A c \in Consumers : /\ c \in Threads /\ Watches[c] \in Seq(Names) /\ 1 \in Slots(c)
                       /\ Slots(c) \subseteq Nat
                       /\ \A i \in Slots(c) : i >= 1 /\ Watches[c][i] \in Names
<1> SUFFICES ASSUME NEW c \in Consumers
             PROVE  /\ c \in Threads /\ Watches[c] \in Seq(Names) /\ 1 \in Slots(c)
                    /\ Slots(c) \subseteq Nat
                    /\ \A i \in Slots(c) : i >= 1 /\ Watches[c][i] \in Names
  OBVIOUS
<1>1. c \in Threads /\ Watches[c] \in Seq(Names) /\ Watches[c] # <<>>
  BY ConsumersAssumption
<1>2. Slots(c) = 1 .. Len(Watches[c]) /\ Len(Watches[c]) \in Nat /\ Len(Watches[c]) # 0
  BY <1>1 DEF Slots
<1> QED
  BY <1>1, <1>2

\* Where the loop goes after index i: to the first item of an event, or to wait.
LEMMA AdvanceSteps ==
  ASSUME step \in [Consumers -> RunSteps], Shape, NEW c \in Consumers, NEW i, NEW evs,
         Advance(c, i, evs)
  PROVE  /\ step' = [step EXCEPT ![c] = step'[c]]
         /\ at' = [at EXCEPT ![c] = at'[c]]
         /\ \/ /\ step'[c] = "wait" /\ at' = at
               /\ \A j \in Slots(c) : j > i => evs[j].value # 1
            \/ /\ step'[c] = "read" /\ at'[c] \in Slots(c) /\ at'[c] > i
               /\ \A j \in Slots(c) : j > i /\ j < at'[c] => evs[j].value # 1
<1>1. CASE Pending(c, i, evs) = {}
  BY <1>1 DEF Advance, Step, Pending, Shape
<1>2. CASE Pending(c, i, evs) # {}
  <2>1. PICK j \in Pending(c, i, evs) :
          (\A k \in Pending(c, i, evs) : j <= k) /\ at' = [at EXCEPT ![c] = j]
    BY <1>2 DEF Advance
  <2>2. step' = [step EXCEPT ![c] = "read"]
    BY <1>2 DEF Advance, Step
  <2>3. j \in Slots(c) /\ j > i /\ j \in Nat
    BY WatchesType DEF Pending
  <2>4. \A k \in Slots(c) : k > i /\ k < j => evs[k].value # 1
    BY <2>1, <2>3, WatchesType DEF Pending
  <2>5. at'[c] = j
    BY <2>1 DEF Shape
  <2> QED
    BY <2>1, <2>2, <2>3, <2>4, <2>5
<1> QED
  BY <1>1, <1>2

\* Only its own entries change.
OnlyIts(c) ==
  /\ step' = [step EXCEPT ![c] = step'[c]] /\ at' = [at EXCEPT ![c] = at'[c]]
  /\ events' = [events EXCEPT ![c] = events'[c]] /\ known' = [known EXCEPT ![c] = known'[c]]
  /\ fired' = [fired EXCEPT ![c] = fired'[c]] /\ timeouts' = [timeouts EXCEPT ![c] = timeouts'[c]]
  /\ mwLeft' = [mwLeft EXCEPT ![c] = mwLeft'[c]] /\ crashed' = [crashed EXCEPT ![c] = crashed'[c]]
  /\ hazard' = [hazard EXCEPT ![c] = hazard'[c]] /\ claims' = [claims EXCEPT ![c] = claims'[c]]
  /\ kept' = [kept EXCEPT ![c] = kept'[c]] /\ handled' = [handled EXCEPT ![c] = handled'[c]]

LEMMA OwnSteps ==
  ASSUME ConsumerTypeOK, Shape, NEW c \in Consumers, Own(c)
  PROVE  OnlyIts(c) /\ (Read(c) \/ UNCHANGED vars)
<1> USE DEF ConsumerTypeOK, Shape
<1>1. CASE Start(c)
  BY <1>1, AdvanceSteps DEF Start, OnlyIts, Drop, vars, lists
<1>2. CASE Read(c)
  BY <1>2 DEF Read, OnlyIts, Step, Drop, runVars
<1>3. CASE Note(c)
  <2>1. known' = [known EXCEPT ![c] = known'[c]]
    BY <1>3 DEF Note
  <2>2. step' = [step EXCEPT ![c] = step'[c]] /\ at' = [at EXCEPT ![c] = at'[c]]
    BY <1>3, AdvanceSteps DEF Note, Following, Step
  <2> QED
    BY <1>3, <2>1, <2>2 DEF Note, OnlyIts, heapVars
<1>4. CASE Protect(c)
  BY <1>4 DEF Protect, OnlyIts, Step, runVars
<1>5. CASE Skip(c)
  BY <1>5, AdvanceSteps DEF Skip, OnlyIts, Drop, Following
<1>6. CASE Use(c)
  BY <1>6, AdvanceSteps DEF Use, OnlyIts, Handled, Following, heapVars
<1>7. CASE EnterClaim(c)
  BY <1>7 DEF EnterClaim, OnlyIts, Drop, runVars
<1>8. CASE FullClaim(c)
  BY <1>8 DEF FullClaim, OnlyIts, Step, runVars
<1>9. CASE Swap(c)
  <2>1. step' = [step EXCEPT ![c] = step'[c]] /\ at' = [at EXCEPT ![c] = at'[c]]
    BY <1>9, AdvanceSteps DEF Swap, Following
  <2>2. claims' = [claims EXCEPT ![c] = claims'[c]]
    BY <1>9 DEF Swap
  <2>3. kept' = [kept EXCEPT ![c] = kept'[c]] /\ handled' = [handled EXCEPT ![c] = handled'[c]]
    BY <1>9 DEF Swap, Handled
  <2> QED
    BY <1>9, <2>1, <2>2, <2>3 DEF Swap, OnlyIts
<1>10. CASE Wait(c)
  <2>1. /\ step' = [step EXCEPT ![c] = step'[c]] /\ at' = [at EXCEPT ![c] = at'[c]]
        /\ events' = [events EXCEPT ![c] = events'[c]]
        /\ timeouts' = [timeouts EXCEPT ![c] = timeouts'[c]]
    BY <1>10, AdvanceSteps DEF Wait, Woken, Step
  <2> QED
    BY <1>10, <2>1 DEF Wait, OnlyIts, Drop
<1>11. CASE Awake(c)
  BY <1>11, AdvanceSteps DEF Awake, OnlyIts, Woken, heapVars
<1>12. ASSUME NEW evs, NoEvent(c, evs)
       PROVE  /\ step' = [step EXCEPT ![c] = step'[c]] /\ at' = [at EXCEPT ![c] = at'[c]]
              /\ events' = [events EXCEPT ![c] = events'[c]]
              /\ timeouts' = [timeouts EXCEPT ![c] = timeouts'[c]]
  BY <1>12, AdvanceSteps DEF NoEvent, Step
<1>13. CASE WaitFails(c)
  BY <1>12, <1>13 DEF WaitFails, OnlyIts, Drop
<1>14. CASE TimeOut(c)
  BY <1>12, <1>14 DEF TimeOut, OnlyIts, heapVars
<1>15. CASE Crash(c)
  BY <1>15 DEF Crash, OnlyIts, Step, Drop, runVars
<1>16. UNCHANGED vars \/ Read(c)
  BY DEF Own, RunStep, Start, Note, Protect, Skip, Use, EnterClaim, FullClaim, Swap, Wait, Awake,
         WaitFails, TimeOut, Crash
<1> QED
  BY <1>1, <1>2, <1>3, <1>4, <1>5, <1>6, <1>7, <1>8, <1>9, <1>10, <1>11, <1>13, <1>14, <1>15, <1>16
     DEF Own, RunStep

LEMMA OthersSame ==
  ASSUME ConsumerTypeOK, Shape, NEW c \in Consumers, Own(c), NEW d \in Consumers, d # c
  PROVE  Same(d)
BY OwnSteps DEF OnlyIts, Same, ConsumerTypeOK, Shape

-----------------------------------------------------------------------------
(* The inductive invariant *)

\* The steps at which a consumer handles the item at index at[c], and those at
\* which it has a value of it.
Valued == {"claim", "use", "keep", "swap"}
Handling == Valued \cup {"read", "reading"}

\* A consumer is in the broker only to read the item it handles.
GetSteps == {"find", "search", "create", "lock", "version", "data"}
InBrokerToRead(c) ==
  /\ step[c] # "reading" => At(c, "idle")
  /\ step[c] = "reading" /\ ~At(c, "idle") =>
       pc[c] \in GetSteps /\ frame[c].op = "get" /\ frame[c].name = Watched(c)

\* What it was answered is about that item; it finds no value only in an item
\* that never had one.
Answered(c) ==
  /\ step[c] = "reading" /\ At(c, "idle") =>
       /\ ret[c].item = Null => known[c][at[c]].futex = Null
       /\ ret[c].item # Null => items[ret[c].item].name = Watched(c)
       /\ ret[c].item # Null /\ ret[c].data = Null => ret[c].version = 0 /\ handled[c][at[c]] = 0
  /\ step[c] \in Valued =>
       /\ ret[c].item # Null /\ ret[c].data # Null
       /\ items[ret[c].item].name = Watched(c)
       /\ known[c][at[c]].version = ret[c].version /\ known[c][at[c]].futex = ret[c].item

\* A handler has protected or claimed what it uses.  The claims of what is kept
\* add up because an object is only ever a value of one item.
Claimed(c) ==
  /\ step[c] = "use" => hazard[c] = Value(c)
  /\ step[c] = "swap" => claims[c][Value(c)] >= IF kept[c][Watched(c)] = Value(c) THEN 2 ELSE 1
  /\ \A n \in Names : kept[c][n] # Null =>
       /\ heap[kept[c][n]].state # "unused" /\ heap[kept[c][n]].name = n
       /\ claims[c][kept[c][n]] >= 1

\* What it knows of an item is about that item and not from its future.
KnownOK(c) ==
  \A i \in Slots(c) :
    /\ known[c][i].futex = Null => known[c][i].version = 0 /\ handled[c][i] = 0
    /\ known[c][i].futex # Null =>
         /\ items[known[c][i].futex].name = Watches[c][i]
         /\ handled[c][i] <= Current(known[c][i].futex)

\* Whatever it knows of it has handled, or there is a newer version, or it is
\* still to be read in this round.
Seen(c, i) ==
  \/ handled[c][i] = known[c][i].version
  \/ known[c][i].futex # Null /\ Current(known[c][i].futex) > known[c][i].version
Due(c, i) ==
  \/ step[c] = "start"
  \/ step[c] \in Handling /\ (i = at[c] \/ (i > at[c] /\ events[c][i].value = 1))
SeenOrDue(c) == \A i \in Slots(c) : Seen(c, i) \/ Due(c, i)

\* It only sleeps on futexes, and is told of every version it has not seen.
SleepOK(c) ==
  step[c] = "asleep" => \A i \in Slots(c) :
    /\ known[c][i].futex # Null
    /\ \/ i \in fired[c] \/ Current(known[c][i].futex) = known[c][i].version
       \/ \E t \in Threads : At(t, "notify") /\ frame[t].item = known[c][i].futex

ConsumerOK(c) ==
  InBrokerToRead(c) /\ Answered(c) /\ Claimed(c) /\ KnownOK(c) /\ SeenOrDue(c) /\ SleepOK(c)

\* An answer has a value of its item, and an item with no value has no version.
AnswersNamed ==
  \A t \in Threads : ret[t].data # Null => heap[ret[t].data].name = items[ret[t].item].name
EverSet == \A i \in Indices : items[i].data = Null => items[i].version = 0

\* What the consumers rely on of the broker, and all of it.
BrokerOK == Mapped /\ AnswersNamed /\ EverSet
ConsumersOK == ConsumerTypeOK /\ Shape /\ \A c \in Consumers : ConsumerOK(c)

-----------------------------------------------------------------------------
(* Types *)

\* The types of the variables of one consumer.
ItsTypes(c) ==
  /\ step[c] \in RunSteps /\ at[c] \in Slots(c)
  /\ events[c] \in [Slots(c) -> [futex : Nat, value : Nat]]
  /\ known[c] \in [Slots(c) -> [version : Nat, futex : Indices \cup {Null}]]
  /\ fired[c] \subseteq Slots(c) /\ handled[c] \in [Slots(c) -> Nat]
  /\ timeouts[c] \in Nat /\ mwLeft[c] \in Nat /\ crashed[c] \in Nat
  /\ hazard[c] \in Objects \cup {Null}
  /\ claims[c] \in [Objects -> Nat] /\ kept[c] \in [Names -> Objects \cup {Null}]

LEMMA TypesOfAll == ConsumerTypeOK => \A c \in Consumers : ItsTypes(c)
BY DEF ConsumerTypeOK, ItsTypes

LEMMA AnswerTypes ==
  ASSUME BrokerOK, NEW t \in Threads
  PROVE  /\ ret[t].version \in Nat /\ ret[t].item \in Indices \cup {Null}
         /\ ret[t].data \in Objects \cup {Null}
         /\ ret[t].data # Null => ret[t].item # Null /\ ret[t].data \in Objects
         /\ Indices \subseteq Nat /\ \A i \in Indices : items[i].version \in Nat
<1>1. TypeOK /\ AnswersOK
  BY DEF BrokerOK, Mapped, IInv
<1> QED
  BY <1>1, IndexType DEF TypeOK, Result, Pointers, AnswersOK, ItemRecord

LEMMA OwnTypes ==
  ASSUME BrokerOK, ConsumersOK, NEW c \in Consumers, Own(c)
  PROVE  ItsTypes(c)'
<1>1. ItsTypes(c) /\ ConsumerTypeOK /\ Shape /\ ConsumerOK(c) /\ c \in Threads
  BY TypesOfAll, WatchesType DEF ConsumersOK
<1>2. step \in [Consumers -> RunSteps]
  BY <1>1 DEF ConsumerTypeOK
<1>3. Indices' = Indices
  BY <1>1, OwnSteps DEF vars, Read, Enter, lists, Indices
<1> USE DEF ItsTypes
<1>4. ASSUME NEW i, NEW evs, Advance(c, i, evs)
      PROVE  step'[c] \in RunSteps /\ at'[c] \in Slots(c)
  BY <1>1, <1>2, <1>4, AdvanceSteps DEF RunSteps
<1>5. /\ ret[c].version \in Nat /\ ret[c].item \in Indices \cup {Null}
      /\ Value(c) \in Objects \cup {Null}
      /\ step[c] \in Valued => Value(c) \in Objects
      /\ step[c] \in Handling => Watched(c) \in Names
      /\ \A i \in Indices : i \in Nat
  BY <1>1, AnswerTypes, WatchesType DEF Value, ConsumerOK, Answered, Watched, Valued, Handling
<1>6. /\ at' = [at EXCEPT ![c] = at'[c]] /\ hazard' = [hazard EXCEPT ![c] = hazard'[c]]
  BY <1>1, OwnSteps DEF OnlyIts
<1>7. CASE Start(c)
  <2>1. /\ mwLeft'[c] = mwLeft[c] - 1 /\ mwLeft[c] > 0 /\ timeouts'[c] = 0 /\ hazard'[c] = Null
        /\ events'[c] = [i \in Slots(c) |-> [futex |-> Null, value |-> 1]]
    BY <1>1, <1>7 DEF Start, Drop, ConsumerTypeOK, Shape
  <2>2. step'[c] \in RunSteps /\ at'[c] \in Slots(c)
    BY <1>4, <1>7 DEF Start
  <2> QED
    BY <1>1, <1>3, <1>7, <2>1, <2>2 DEF Start, Null
<1>8. CASE Read(c)
  BY <1>1, <1>2, <1>3, <1>8 DEF Read, Step, Drop, runVars, RunSteps, ConsumerTypeOK, Null
<1>9. CASE Note(c)
  <2>1. step'[c] \in RunSteps /\ at'[c] \in Slots(c)
    BY <1>1, <1>2, <1>4, <1>9 DEF Note, Following, Step, RunSteps
  <2>2. known'[c] \in [Slots(c) -> [version : Nat, futex : Indices \cup {Null}]]
    BY <1>1, <1>5, <1>9 DEF Note, Shape
  <2> QED
    BY <1>1, <1>3, <1>9, <2>1, <2>2 DEF Note, heapVars
<1>10. CASE Protect(c)
  BY <1>1, <1>2, <1>3, <1>5, <1>10 DEF Protect, Step, runVars, RunSteps, ConsumerTypeOK, Valued
<1>11. CASE Skip(c)
  <2>1. step'[c] \in RunSteps /\ at'[c] \in Slots(c) /\ hazard'[c] = Null
    BY <1>1, <1>4, <1>11 DEF Skip, Following, Drop, ConsumerTypeOK
  <2> QED
    BY <1>1, <1>3, <1>11, <2>1 DEF Skip
<1>12. ASSUME Handled(c)
       PROVE  handled'[c] \in [Slots(c) -> Nat]
  BY <1>1, <1>5, <1>12 DEF Handled, Shape
<1>13. CASE Use(c)
  <2>1. step'[c] \in RunSteps /\ at'[c] \in Slots(c)
    BY <1>4, <1>13 DEF Use, Following
  <2> QED
    BY <1>1, <1>3, <1>12, <1>13, <2>1 DEF Use, heapVars
<1>14. CASE EnterClaim(c)
  BY <1>1, <1>3, <1>14 DEF EnterClaim, Drop, runVars, ConsumerTypeOK
<1>15. CASE FullClaim(c)
  <2>1. claims'[c] \in [Objects -> Nat]
    BY <1>1, <1>5, <1>15 DEF FullClaim, ConsumerTypeOK, Valued
  <2> QED
    BY <1>1, <1>2, <1>3, <1>15, <2>1 DEF FullClaim, Step, runVars, RunSteps
<1>16. CASE Swap(c)
  <2>1. step'[c] \in RunSteps /\ at'[c] \in Slots(c)
    BY <1>4, <1>16 DEF Swap, Following
  <2>2. Watched(c) \in Names /\ Value(c) \in Objects
    BY <1>5, <1>16 DEF Swap, Handling, Valued
  <2>3. kept'[c] \in [Names -> Objects \cup {Null}]
    BY <1>1, <1>16, <2>2 DEF Swap, ConsumerTypeOK
  <2>4. claims'[c] \in [Objects -> Nat]
    <3> DEFINE old == kept[c][Watched(c)]
    <3>1. old \in Objects \cup {Null} /\ (old # Null => claims[c][old] >= 1)
      BY <1>1, <2>2 DEF ConsumerOK, Claimed
    <3>2. claims'[c] = IF old = Null THEN claims[c] ELSE [claims[c] EXCEPT ![old] = @ - 1]
      BY <1>1, <1>16 DEF Swap, ConsumerTypeOK
    <3> QED
      BY <1>1, <3>1, <3>2
  <2> QED
    BY <1>1, <1>3, <1>12, <1>16, <2>1, <2>3, <2>4 DEF Swap
<1>18. ASSUME NEW set, Woken(c, set)
       PROVE  /\ step'[c] \in RunSteps /\ at'[c] \in Slots(c) /\ timeouts'[c] = 0
              /\ events'[c] \in [Slots(c) -> [futex : Nat, value : Nat]]
  <2>1. events'[c] = [i \in Slots(c) |-> [futex |-> known[c][i].futex,
                                         value |-> IF i \in set THEN 1 ELSE 0]]
    BY <1>1, <1>18 DEF Woken, Shape
  <2>2. events'[c] \in [Slots(c) -> [futex : Nat, value : Nat]]
    BY <1>1, <1>5, <2>1 DEF Null
  <2> QED
    BY <1>1, <1>4, <1>18, <2>2 DEF Woken, ConsumerTypeOK
<1>19. Sources(c) \in [Slots(c) -> [futex : Nat, value : Nat]]
  BY <1>1, <1>5 DEF Sources, Null
<1>20. CASE Wait(c)
  <2>1. fired'[c] = {} /\ hazard'[c] = Null
    BY <1>1, <1>20 DEF Wait, Drop, ConsumerTypeOK, Shape
  <2>2. CASE Changed(c) # {}
    BY <1>1, <1>3, <1>18, <1>20, <2>1, <2>2 DEF Wait
  <2>3. CASE Changed(c) = {}
    BY <1>1, <1>2, <1>3, <1>19, <1>20, <2>1, <2>3 DEF Wait, Step, RunSteps, Shape
  <2> QED
    BY <2>2, <2>3
<1>21. CASE Awake(c)
  BY <1>1, <1>3, <1>18, <1>21 DEF Awake, heapVars
<1>22. ASSUME NEW evs \in [Slots(c) -> [futex : Nat, value : Nat]], NoEvent(c, evs)
       PROVE  /\ step'[c] \in RunSteps /\ at'[c] \in Slots(c) /\ timeouts'[c] \in Nat
              /\ events'[c] \in [Slots(c) -> [futex : Nat, value : Nat]]
  BY <1>1, <1>2, <1>4, <1>22 DEF NoEvent, Step, RunSteps, ConsumerTypeOK, Shape
<1>23. CASE WaitFails(c)
  BY <1>1, <1>3, <1>19, <1>22, <1>23 DEF WaitFails, Drop, ConsumerTypeOK
<1>24. CASE TimeOut(c)
  <2>1. [i \in Slots(c) |-> [futex |-> known[c][i].futex, value |-> 0]]
          \in [Slots(c) -> [futex : Nat, value : Nat]]
    BY <1>1, <1>5 DEF Null
  <2> QED
    BY <1>1, <1>3, <1>22, <1>24, <2>1 DEF TimeOut, heapVars
<1>25. CASE Crash(c)
  BY <1>1, <1>2, <1>3, <1>25 DEF Crash, Step, Drop, runVars, RunSteps, ConsumerTypeOK
<1> QED
  BY <1>7, <1>8, <1>9, <1>10, <1>11, <1>13, <1>14, <1>15, <1>16, <1>20, <1>21, <1>23, <1>24, <1>25
     DEF Own, RunStep

-----------------------------------------------------------------------------
(* The broker *)

\* An object in use keeps the name it was allocated for.
LEMMA NameKept ==
  ASSUME IInv, NEW t \in Threads, ThreadStep(t), NEW o \in Objects, heap[o].state # "unused"
  PROVE  heap'[o].name = heap[o].name /\ heap'[o].state # "unused"
<1>1. Typed /\ HeapOK /\ heap \in [Objects -> ObjectRecord]
  BY IInvLayers DEF Typed, TypeOK
<1>2. CASE Plain(t)
  BY <1>1, <1>2, PlainSteps
<1>3. CASE Create(t) \/ Publish(t) \/ Bump(t) \/ Notify(t) \/ ParseFails(t)
  BY <1>3 DEF Create, Publish, Bump, Notify, ParseFails
<1>4. CASE Malloc(t)
  <2>1. PICK p \in Objects : heap[p].state = "unused" /\
               heap' = [heap EXCEPT ![p] = [state |-> "owned", name |-> Item(t).name,
                                       sized |-> "size" \in Item(t).stored, value |-> Blank]]
    BY <1>4 DEF Malloc
  <2> QED
    BY <1>1, <2>1
<1>5. CASE ParseOk(t)
  <2>1. frame[t].new \in Objects
    BY <1>5 DEF IInv, NewOK, InHand, ParseOk, At, HasNew
  <2> QED
    BY <1>1, <1>5, <2>1 DEF ParseOk, ObjectRecord
<1>6. ASSUME NEW p, heap' = Free(p)
      PROVE  heap'[o].name = heap[o].name /\ heap'[o].state # "unused"
  BY <1>1, <1>6 DEF Free, ObjectRecord
<1>7. CASE Discard(t) \/ FreeOld(t)
  BY <1>1, <1>6, <1>7, FreeSteps
<1> QED
  BY <1>2, <1>3, <1>4, <1>5, <1>7
     DEF ThreadStep, BrokerStep, FindStep, SetStep, OtherStep, Parse, Plain

LEMMA NamedNext ==
  ASSUME BrokerOK, NEW t \in Threads, ThreadStep(t)
  PROVE  AnswersNamed'
<1> USE IInvLayers DEF BrokerOK, Mapped
<1>1. OthersKept(t)
  BY OthersUntouched DEF IInv
<1>2. ASSUME NEW u \in Threads, ret[u].data # Null
      PROVE  heap'[ret[u].data].name = items'[ret[u].item].name
  <2>1. ret[u].item \in Indices /\ ret[u].data \in Objects
    BY <1>2, AnswerTypes
  <2>2. heap[ret[u].data].state # "unused" /\ heap[ret[u].data].name = items[ret[u].item].name
    BY <1>2 DEF AnswersLive, AnswersNamed
  <2> QED
    BY <2>1, <2>2, NameKept, DataSteps
<1>3. CASE ReadData(t)
  <2> DEFINE i == frame[t].item
  <2>1. /\ i \in Indices /\ ret'[t].data = items[i].data /\ ret'[t].item = i /\ heap' = heap
    BY <1>3 DEF ReadData, Return, IInv, TypeOK, FrameOK, At, HasItem, Item
  <2>2. items'[i].name = items[i].name
    BY <2>1, DataSteps
  <2>3. items[i].data # Null => heap[items[i].data].name = items[i].name
    BY <2>1 DEF IInv, PublishedParsed
  <2> QED
    BY <1>1, <1>2, <2>1, <2>2, <2>3 DEF AnswersNamed, OthersKept
<1>4. CASE ~ReadData(t)
  <2>1. ret'[t] = ret[t] \/ ret'[t].data = Null
    BY <1>4, RetSteps
  <2> QED
    BY <1>1, <1>2, <2>1 DEF AnswersNamed, OthersKept
<1> QED
  BY <1>3, <1>4

LEMMA EverSetNext ==
  ASSUME BrokerOK, NEW t \in Threads, ThreadStep(t)
  PROVE  EverSet'
<1> USE IInvLayers DEF BrokerOK, Mapped
<1> SUFFICES ASSUME NEW i \in Indices', items'[i].data = Null
             PROVE  items'[i].version = 0
  BY DEF EverSet
<1>1. CASE i \in Indices
  <2>1. ~(Publish(t) /\ i = frame[t].item)
    <3> SUFFICES ASSUME Publish(t), i = frame[t].item
                 PROVE  FALSE
      OBVIOUS
    <3>1. frame[t].new \in Objects /\ Item(t) \in ItemRecord
      BY HasItemType DEF Publish, At, IInv, NewOK, HasNew, InHand, HasItem, SetSteps
    <3>2. items'[i] = [Item(t) EXCEPT !.data = frame[t].new]
      BY PublishUpdates DEF IInv, Updated
    <3> QED
      BY <3>1, <3>2, ConstantsAssumption DEF ItemRecord, Objects, Null
  <2>2. items[i].data = Null /\ items[i].version = 0
    BY <1>1, <2>1, DataSteps DEF EverSet
  <2>3. ~(Bump(t) /\ i = frame[t].item)
    BY <2>2 DEF Bump, BumpOK, Item
  <2> QED
    BY <1>1, <2>2, <2>3, FieldSteps
<1>2. CASE i \notin Indices
  <2>1. Create(t)
    BY <1>2, SameList
  <2>2. items'[i] = Created(t)
    BY <1>2, <2>1, CreateEffect, AppendType DEF IInv
  <2> QED
    BY <2>2 DEF Created
<1> QED
  BY <1>1, <1>2

\* All of it holds whoever calls the broker.
LEMMA BrokerOKNext == BrokerOK /\ BrokerNext => BrokerOK'
<1> SUFFICES ASSUME BrokerOK, BrokerNext
             PROVE  BrokerOK'
  OBVIOUS
<1>1. Mapped'
  BY MappedNext DEF BrokerOK
<1>2. CASE \E t \in Threads : ThreadStep(t)
  BY <1>1, <1>2, NamedNext, EverSetNext DEF BrokerOK
<1>3. CASE Tick \/ UNCHANGED vars
  BY <1>1, <1>3 DEF Tick, vars, lists, BrokerOK, AnswersNamed, EverSet, Indices
<1> QED
  BY <1>2, <1>3 DEF BrokerNext

LEMMA BrokerOKInit == Init => BrokerOK
BY MappedInit DEF BrokerOK, AnswersNamed, EverSet, Init, Quiet, Failure, Indices, Null

\* Every step of the composed system is one of the broker and its callers: a
\* consumer calls get_config with the read capability of an item it watches.
LEMMA ReadEnters ==
  ASSUME TypeOK, ConsumersOK, NEW c \in Consumers, Read(c)
  PROVE  Entered(c)
<1> DEFINE cap == [kind |-> "read", name |-> Watched(c)]
<1>1. Watched(c) \in Names
  BY WatchesType DEF Watched, ConsumersOK, ConsumerTypeOK
<1>2. cap \in Caps /\ "get" \in Ops
  BY <1>1 DEF Caps, Kinds, Ops
<1>3. Enter(c, "get", cap, None) /\ left' = left
  BY DEF Read
<1>4. left' \in [Threads -> Nat]
  BY <1>3 DEF TypeOK
<1> QED
  BY <1>2, <1>3, <1>4 DEF Entered

LEMMA ConsumerNextIsBrokerNext ==
  ASSUME BrokerOK, ConsumersOK, [ConsumerNext]_allVars
  PROVE  BrokerNext
<1>1. TypeOK
  BY DEF BrokerOK, Mapped, IInv
<1>2. CASE Tick \/ UNCHANGED allVars \/ Done
  BY <1>2 DEF BrokerNext, Done, allVars
<1>3. ASSUME NEW t \in Threads, Write(t) \/ InBroker(t)
      PROVE  ThreadStep(t)
  BY <1>1, <1>3, CallEnters DEF Write, InBroker, ThreadStep
<1>4. ASSUME NEW c \in Consumers, Own(c) \/ Spin(c)
      PROVE  BrokerNext
  <2>1. CASE Own(c)
    BY <1>1, <2>1, OwnSteps, ReadEnters, WatchesType DEF BrokerNext, ThreadStep, ConsumersOK
  <2>2. CASE Spin(c)
    BY <2>2 DEF Spin, allVars, BrokerNext
  <2> QED
    BY <1>4, <2>1, <2>2
<1> QED
  BY <1>2, <1>3, <1>4 DEF ConsumerNext, BrokerNext, Own

-----------------------------------------------------------------------------
(* The steps of a consumer *)

\* They leave the broker as it is, except that Read calls it.
LEMMA OwnKeeps ==
  ASSUME BrokerOK, ConsumersOK, NEW c \in Consumers, Own(c)
  PROVE  /\ items' = items /\ heap' = heap /\ ret' = ret
         /\ \A u \in Threads : u # c => pc'[u] = pc[u] /\ frame'[u] = frame[u]
         /\ \A u \in Threads : At(u, "notify") => At(u, "notify")' /\ frame'[u] = frame[u]
         /\ ~Read(c) => pc' = pc /\ frame' = frame
<1>1. TypeOK /\ ConsumerTypeOK /\ Shape /\ c \in Threads /\ InBrokerToRead(c)
  BY WatchesType DEF BrokerOK, Mapped, IInv, ConsumersOK, ConsumerOK
<1>2. CASE Read(c)
  <2>1. pc[c] = "idle" /\ items' = items /\ heap' = heap /\ ret' = ret
    BY <1>2 DEF Read, Enter, KeyOf, lists, At
  <2>2. /\ pc' = [pc EXCEPT ![c] = "find"]
        /\ frame' = [frame EXCEPT ![c] = NewFrame("get", Watched(c), None)]
    BY <1>2 DEF Read, Enter, KeyOf, Goto
  <2> QED
    BY <1>1, <1>2, <2>1, <2>2 DEF TypeOK, At
<1>3. CASE UNCHANGED vars
  BY <1>3 DEF vars, At
<1> QED
  BY <1>1, <1>2, <1>3, OwnSteps

LEMMA OthersOK ==
  ASSUME BrokerOK, ConsumersOK, NEW c \in Consumers, Own(c), NEW d \in Consumers, d # c
  PROVE  ConsumerOK(d)'
<1>1. Same(d) /\ ConsumerOK(d) /\ d \in Threads
  BY OthersSame, WatchesType DEF ConsumersOK
<1>2. /\ items' = items /\ heap' = heap /\ ret' = ret /\ pc'[d] = pc[d] /\ frame'[d] = frame[d]
      /\ \A u \in Threads : At(u, "notify") => At(u, "notify")' /\ frame'[u] = frame[u]
  BY <1>1, OwnKeeps
<1>3. InBrokerToRead(d)' /\ Answered(d)'
  BY <1>1, <1>2 DEF ConsumerOK, InBrokerToRead, Answered, Same, At, Watched
<1>4. Claimed(d)'
  BY <1>1, <1>2 DEF ConsumerOK, Claimed, Same, Value, Watched
<1>5. KnownOK(d)' /\ SeenOrDue(d)'
  BY <1>1, <1>2 DEF ConsumerOK, KnownOK, SeenOrDue, Seen, Due, Same, Current
<1>6. SleepOK(d)'
  BY <1>1, <1>2 DEF ConsumerOK, SleepOK, Same, Current
<1> QED
  BY <1>3, <1>4, <1>5, <1>6 DEF ConsumerOK

\* The loop goes on to the next event with everything before it seen.
LEMMA AdvanceOK ==
  ASSUME ConsumersOK, NEW c \in Consumers, NEW i, i \in Nat, NEW evs, Advance(c, i, evs),
         At(c, "idle")', events'[c] = evs,
         \A j \in Slots(c) : j <= i \/ evs[j].value # 1 => Seen(c, j)'
  PROVE  /\ step'[c] \in {"wait", "read"}
         /\ InBrokerToRead(c)' /\ Answered(c)' /\ SeenOrDue(c)' /\ SleepOK(c)'
<1>1. \/ step'[c] = "wait" /\ \A j \in Slots(c) : j > i => evs[j].value # 1
      \/ /\ step'[c] = "read" /\ at'[c] \in Slots(c) /\ at'[c] > i
         /\ \A j \in Slots(c) : j > i /\ j < at'[c] => evs[j].value # 1
  BY AdvanceSteps DEF ConsumersOK, ConsumerTypeOK
<1>2. \A j \in Slots(c) : j \in Nat
  BY WatchesType
<1>3. SeenOrDue(c)'
  <2>1. CASE step'[c] = "wait"
    BY <1>1, <1>2, <2>1 DEF SeenOrDue
  <2>2. CASE step'[c] = "read"
    <3> SUFFICES ASSUME NEW j \in Slots(c)
                 PROVE  Seen(c, j)' \/ Due(c, j)'
      BY DEF SeenOrDue
    <3>1. j <= i \/ (j > i /\ j < at'[c]) \/ j = at'[c] \/ j > at'[c]
      BY <1>1, <1>2, <2>2
    <3> QED
      BY <1>1, <1>2, <2>2, <3>1 DEF Due, Handling
  <2> QED
    BY <1>1, <2>1, <2>2
<1>4. step'[c] \in {"wait", "read"}
  BY <1>1
<1> QED
  BY <1>3, <1>4 DEF InBrokerToRead, Answered, SleepOK, Valued, At

LEMMA OwnOK ==
  ASSUME BrokerOK, ConsumersOK, NEW c \in Consumers, Own(c)
  PROVE  ConsumerOK(c)'
<1>1. ItsTypes(c) /\ ConsumerTypeOK /\ Shape /\ ConsumerOK(c) /\ c \in Threads
  BY TypesOfAll, WatchesType DEF ConsumersOK
<1>2. /\ items' = items /\ heap' = heap /\ ret' = ret
      /\ ~Read(c) => pc' = pc /\ frame' = frame
  BY OwnKeeps
<1>3. /\ ret[c].version \in Nat /\ ret[c].item \in Indices \cup {Null}
      /\ ret[c].data \in Objects \cup {Null} /\ (ret[c].data # Null => ret[c].item # Null)
      /\ \A i \in Indices : i \in Nat /\ items[i].version \in Nat
  BY <1>1, AnswerTypes
<1>4. \A i \in Slots(c) : i \in Nat /\ i >= 1
  BY WatchesType
<1>5. step[c] \in Handling =>
        \A j \in Slots(c) : j # at[c] /\ (j <= at[c] \/ events[c][j].value # 1) => Seen(c, j)
  BY <1>1, <1>4 DEF ConsumerOK, SeenOrDue, Due, ItsTypes, Handling, Valued
<1>6. step[c] \in {"wait", "asleep"} => \A j \in Slots(c) : Seen(c, j)
  BY <1>1 DEF ConsumerOK, SeenOrDue, Due, Handling, Valued
<1>7. step[c] # "reading" => At(c, "idle")
  BY <1>1 DEF ConsumerOK, InBrokerToRead
<1>8. step[c] \in Handling => at[c] \in Slots(c) /\ Watched(c) \in Names
  BY <1>1, WatchesType DEF ItsTypes, Watched
<1>9. ASSUME kept'[c] = kept[c], claims'[c] = claims[c], step'[c] \notin {"use", "swap"}
      PROVE  Claimed(c)'
  BY <1>1, <1>2, <1>9 DEF ConsumerOK, Claimed
<1>10. ASSUME known'[c] = known[c], handled'[c] = handled[c]
       PROVE  KnownOK(c)' /\ \A j \in Slots(c) : Seen(c, j) => Seen(c, j)'
  BY <1>1, <1>2, <1>10 DEF ConsumerOK, KnownOK, Seen, Current
<1>24. ASSUME Handled(c), step[c] \in Valued, known'[c] = known[c], events'[c] = events[c]
       PROVE  /\ KnownOK(c)'
              /\ \A j \in Slots(c) : j <= at[c] \/ events[c][j].value # 1 => Seen(c, j)'
  <2>1. /\ at[c] \in Slots(c) /\ ret[c].item # Null /\ ret[c].item \in Indices
        /\ known[c][at[c]].version = ret[c].version /\ known[c][at[c]].futex = ret[c].item
        /\ ret[c].version <= items[ret[c].item].version
    BY <1>1, <1>3, <1>24
       DEF ConsumerOK, Answered, ItsTypes, BrokerOK, Mapped, IInv, AnswersOK
  <2>2. handled'[c] = [handled[c] EXCEPT ![at[c]] = ret[c].version]
    BY <1>1, <1>24 DEF Handled, Shape
  <2>3. \A j \in Slots(c) : handled'[c][j] = IF j = at[c] THEN ret[c].version ELSE handled[c][j]
    BY <1>1, <2>1, <2>2 DEF ItsTypes
  <2>4. KnownOK(c)'
    BY <1>1, <1>2, <1>24, <2>1, <2>3 DEF ConsumerOK, KnownOK, Current
  <2>5. \A j \in Slots(c) : j = at[c] \/ Seen(c, j) => Seen(c, j)'
    BY <1>2, <1>24, <2>1, <2>3 DEF Seen, Current
  <2> QED
    BY <1>5, <1>24, <2>4, <2>5 DEF Handling
<1>25. ASSUME NEW set, Woken(c, set), step[c] \in {"wait", "asleep"}, At(c, "idle")',
              known'[c] = known[c], handled'[c] = handled[c]
       PROVE  /\ step'[c] \notin {"use", "swap"}
              /\ InBrokerToRead(c)' /\ Answered(c)' /\ SeenOrDue(c)' /\ SleepOK(c)'
  <2>1. Advance(c, 0, events'[c]) /\ \A j \in Slots(c) : Seen(c, j)'
    BY <1>6, <1>10, <1>25 DEF Woken
  <2> QED
    BY <1>25, <2>1, AdvanceOK
<1>11. CASE Start(c)
  <2>1. /\ Advance(c, 0, events'[c]) /\ At(c, "idle")'
        /\ events'[c] = [i \in Slots(c) |-> [futex |-> Null, value |-> 1]]
    BY <1>1, <1>2, <1>7, <1>11 DEF Start, Shape, Read, At
  <2>2. \A j \in Slots(c) : ~(j <= 0) /\ events'[c][j].value = 1
    BY <1>4, <2>1
  <2> QED
    BY <1>9, <1>10, <1>11, <2>1, <2>2, AdvanceOK DEF Start, ConsumerOK
<1>12. CASE Read(c)
  <2>1. /\ pc' = [pc EXCEPT ![c] = "find"]
        /\ frame' = [frame EXCEPT ![c] = NewFrame("get", Watched(c), None)]
        /\ step'[c] = "reading" /\ at' = at /\ step[c] = "read"
    BY <1>1, <1>12 DEF Read, Enter, KeyOf, Goto, Step, runVars, ConsumerTypeOK
  <2>2. pc'[c] = "find" /\ frame'[c].op = "get" /\ frame'[c].name = Watched(c) /\ Watched(c)' = Watched(c)
    BY <1>1, <2>1 DEF NewFrame, BrokerOK, Mapped, IInv, TypeOK, Watched
  <2>3. InBrokerToRead(c)' /\ Answered(c)'
    BY <2>1, <2>2 DEF InBrokerToRead, Answered, At, Valued, GetSteps
  <2>4. SeenOrDue(c)' /\ SleepOK(c)'
    BY <1>5, <1>10, <1>12, <2>1, <1>4, <1>8 DEF Read, runVars, SeenOrDue, Due, SleepOK, Handling
  <2> QED
    BY <1>9, <1>10, <1>12, <2>1, <2>3, <2>4 DEF Read, runVars, ConsumerOK
<1>13. CASE Note(c)
  <2>1. /\ step[c] = "reading" /\ At(c, "idle") /\ At(c, "idle")' /\ at[c] \in Slots(c)
        /\ events'[c] = events[c] /\ handled'[c] = handled[c]
        /\ kept'[c] = kept[c] /\ claims'[c] = claims[c] /\ hazard'[c] = hazard[c]
    BY <1>1, <1>2, <1>8, <1>13 DEF Note, Read, At, heapVars, Handling
  <2>2. known'[c] = IF ret[c].item = Null THEN known[c]
                    ELSE [known[c] EXCEPT ![at[c]] = [version |-> ret[c].version, futex |-> ret[c].item]]
    BY <1>1, <1>13 DEF Note, Shape
  <2>3. \A j \in Slots(c) : j # at[c] => known'[c][j] = known[c][j]
    BY <1>1, <2>2 DEF ItsTypes
  <2>4. ret[c].item # Null => known'[c][at[c]] = [version |-> ret[c].version, futex |-> ret[c].item]
    BY <1>1, <2>1, <2>2 DEF ItsTypes
  <2>5. /\ ret[c].item = Null => known[c][at[c]].futex = Null
        /\ ret[c].item # Null => items[ret[c].item].name = Watched(c)
        /\ ret[c].item # Null /\ ret[c].data = Null => ret[c].version = 0 /\ handled[c][at[c]] = 0
    BY <1>1, <2>1 DEF ConsumerOK, Answered
  <2>6. ret[c].item # Null => handled[c][at[c]] <= Current(ret[c].item)
    <3> SUFFICES ASSUME ret[c].item # Null
                 PROVE  handled[c][at[c]] <= Current(ret[c].item)
      OBVIOUS
    <3> DEFINE f == known[c][at[c]].futex
    <3>1. CASE f = Null
      BY <1>1, <1>3, <2>1, <3>1 DEF ConsumerOK, KnownOK, Current
    <3>2. CASE f # Null
      <4>1. f \in Indices /\ items[f].name = Watched(c) /\ handled[c][at[c]] <= Current(f)
        BY <1>1, <2>1, <3>2 DEF ConsumerOK, KnownOK, ItsTypes, Watched
      <4> QED
        BY <1>3, <2>5, <4>1 DEF BrokerOK, Mapped, IInv, UniqueNames
    <3> QED
      BY <3>1, <3>2
  <2>7. KnownOK(c)'
    <3> SUFFICES ASSUME NEW j \in Slots(c)
                 PROVE  /\ known'[c][j].futex = Null => known'[c][j].version = 0 /\ handled'[c][j] = 0
                        /\ known'[c][j].futex # Null =>
                             /\ items'[known'[c][j].futex].name = Watches[c][j]
                             /\ handled'[c][j] <= items'[known'[c][j].futex].version
      BY DEF KnownOK, Current
    <3>1. CASE j # at[c] \/ ret[c].item = Null
      BY <1>1, <1>2, <2>1, <2>2, <2>3, <3>1 DEF ConsumerOK, KnownOK, Current
    <3>2. CASE j = at[c] /\ ret[c].item # Null
      BY <1>2, <2>1, <2>4, <2>5, <2>6, <3>2 DEF Current, Watched
    <3> QED
      BY <3>1, <3>2
  <2>8. \A j \in Slots(c) : j # at[c] /\ Seen(c, j) => Seen(c, j)'
    BY <1>2, <2>1, <2>3 DEF Seen, Current
  <2>9. CASE Value(c) = Null
    <3>1. \A j \in Slots(c) : j = at[c] => Seen(c, j)'
      BY <1>1, <2>1, <2>2, <2>4, <2>5, <2>9 DEF Seen, Value, ConsumerOK, KnownOK
    <3>2. Advance(c, at[c], events[c])
      BY <1>13, <2>9 DEF Note, Following
    <3>3. \A j \in Slots(c) : j <= at[c] \/ events[c][j].value # 1 => Seen(c, j)'
      BY <1>5, <2>1, <2>8, <3>1 DEF Handling
    <3> QED
      BY <1>4, <1>9, <2>1, <2>7, <3>2, <3>3, AdvanceOK DEF ConsumerOK
  <2>10. CASE Value(c) # Null
    <3>1. step'[c] = "claim" /\ at' = at
      BY <1>1, <1>13, <2>10 DEF Note, Step, ConsumerTypeOK
    <3>2. Answered(c)' /\ InBrokerToRead(c)'
      BY <1>2, <1>3, <2>1, <2>4, <2>5, <2>10, <3>1 DEF Answered, InBrokerToRead, Value, Watched, Valued
    <3>3. SeenOrDue(c)' /\ SleepOK(c)'
      BY <1>4, <1>5, <2>1, <2>8, <3>1 DEF SeenOrDue, Due, SleepOK, Handling, Valued
    <3> QED
      BY <1>9, <2>1, <2>7, <3>1, <3>2, <3>3 DEF ConsumerOK
  <2> QED
    BY <2>9, <2>10
<1>14. CASE Protect(c)
  <2>1. /\ step'[c] \in {"keep", "use"} /\ step[c] = "claim" /\ hazard'[c] = Value(c)
        /\ at' = at /\ events' = events /\ At(c, "idle")'
    BY <1>1, <1>2, <1>7, <1>14 DEF Protect, Step, ConsumerTypeOK, Read, At, runVars
  <2>2. Claimed(c)'
    BY <1>1, <1>2, <1>14, <2>1 DEF Protect, ConsumerOK, Claimed, Value
  <2>3. Answered(c)' /\ InBrokerToRead(c)'
    BY <1>1, <1>2, <1>14, <2>1
       DEF Protect, runVars, ConsumerOK, Answered, InBrokerToRead, Watched, Valued
  <2>4. SeenOrDue(c)' /\ SleepOK(c)'
    BY <1>4, <1>5, <1>8, <1>10, <1>14, <2>1
       DEF Protect, runVars, SeenOrDue, Due, SleepOK, Handling, Valued
  <2> QED
    BY <1>10, <1>14, <2>2, <2>3, <2>4 DEF Protect, runVars, ConsumerOK
<1>15. CASE Skip(c)
  <2>1. /\ step[c] \in Valued /\ At(c, "idle")' /\ at[c] \in Slots(c) /\ events'[c] = events[c]
        /\ known'[c] = known[c] /\ handled'[c] = handled[c] /\ kept'[c] = kept[c] /\ claims'[c] = claims[c]
        /\ Advance(c, at[c], events[c]) /\ ~Alive(Value(c))
    BY <1>1, <1>2, <1>7, <1>8, <1>15 DEF Skip, Following, Read, At, Valued, Handling
  <2>2. /\ ret[c].item # Null /\ Value(c) # Null
        /\ known[c][at[c]].version = ret[c].version /\ known[c][at[c]].futex = ret[c].item
    BY <1>1, <2>1 DEF ConsumerOK, Answered, Value
  <2>3. heap[Value(c)].state = "freed"
    <3>1. heap[Value(c)].state # "unused" /\ heap[Value(c)].state # "owned" /\ Value(c) \in Objects
      BY <1>1, <1>3, <2>1, <2>2 DEF Alive, BrokerOK, Mapped, AnswersLive, Value
    <3> QED
      BY <3>1 DEF BrokerOK, Mapped, IInv, TypeOK, ObjectRecord
  <2>4. Seen(c, at[c])
    BY <1>1, <2>2, <2>3, FreedNewer DEF BrokerOK, Mapped, FreedImpliesNewer, Seen, Current, Value
  <2>5. \A j \in Slots(c) : j <= at[c] \/ events[c][j].value # 1 => Seen(c, j)'
    BY <1>5, <1>10, <2>1, <2>4 DEF Handling
  <2> QED
    BY <1>4, <1>9, <1>10, <2>1, <2>5, AdvanceOK DEF ConsumerOK
<1>16. CASE Use(c)
  <2>1. /\ step[c] \in Valued /\ At(c, "idle")' /\ at[c] \in Slots(c) /\ events'[c] = events[c]
        /\ known'[c] = known[c] /\ kept'[c] = kept[c] /\ claims'[c] = claims[c]
        /\ Advance(c, at[c], events[c]) /\ Handled(c)
    BY <1>1, <1>2, <1>7, <1>8, <1>16 DEF Use, Following, Read, At, Valued, Handling, heapVars
  <2> QED
    BY <1>4, <1>9, <1>24, <2>1, AdvanceOK DEF ConsumerOK
<1>17. CASE EnterClaim(c)
  <2>1. step'[c] = step[c] /\ step[c] = "keep" /\ at' = at /\ events' = events /\ At(c, "idle")'
    BY <1>2, <1>7, <1>17 DEF EnterClaim, Read, At, runVars
  <2>2. Answered(c)' /\ InBrokerToRead(c)'
    BY <1>1, <1>2, <1>17, <2>1
       DEF EnterClaim, runVars, ConsumerOK, Answered, InBrokerToRead, Watched, Valued
  <2>3. SeenOrDue(c)' /\ SleepOK(c)'
    BY <1>4, <1>5, <1>8, <1>10, <1>17, <2>1
       DEF EnterClaim, runVars, SeenOrDue, Due, SleepOK, Handling, Valued
  <2> QED
    BY <1>9, <1>10, <1>17, <2>1, <2>2, <2>3 DEF EnterClaim, runVars, ConsumerOK
<1>18. CASE FullClaim(c)
  <2>1. /\ step'[c] = "swap" /\ step[c] = "keep" /\ at' = at /\ events' = events /\ At(c, "idle")'
        /\ kept' = kept
    BY <1>1, <1>2, <1>7, <1>18 DEF FullClaim, Step, ConsumerTypeOK, Read, At, runVars
  <2>2. Answered(c)' /\ InBrokerToRead(c)'
    BY <1>1, <1>2, <1>18, <2>1
       DEF FullClaim, runVars, ConsumerOK, Answered, InBrokerToRead, Watched, Valued
  <2>3. SeenOrDue(c)' /\ SleepOK(c)'
    BY <1>4, <1>5, <1>8, <1>10, <1>18, <2>1
       DEF FullClaim, runVars, SeenOrDue, Due, SleepOK, Handling, Valued
  <2>4. Value(c) \in Objects /\ claims'[c] = [claims[c] EXCEPT ![Value(c)] = @ + 1]
    BY <1>1, <1>3, <1>18, <2>1 DEF FullClaim, ConsumerTypeOK, ConsumerOK, Answered, Valued, Value
  <2>5. \A o \in Objects : /\ claims[c][o] \in Nat
                           /\ claims'[c][o] = IF o = Value(c) THEN claims[c][o] + 1 ELSE claims[c][o]
    BY <1>1, <2>4 DEF ItsTypes
  <2>6. \A n \in Names : kept[c][n] \in Objects \cup {Null} /\ (kept[c][n] # Null => claims[c][kept[c][n]] >= 1)
    BY <1>1 DEF ItsTypes, ConsumerOK, Claimed
  <2>7. Value(c)' = Value(c) /\ Watched(c)' = Watched(c) /\ Watched(c) \in Names
    BY <1>2, <1>8, <1>18, <2>1 DEF Value, Watched, Handling, Valued
  <2>8. claims'[c][Value(c)] >= IF kept[c][Watched(c)] = Value(c) THEN 2 ELSE 1
    BY <2>4, <2>5, <2>6, <2>7 DEF Objects, Null
  <2>9. \A n \in Names : kept[c][n] # Null => claims'[c][kept[c][n]] >= 1
    BY <2>5, <2>6
  <2>10. Claimed(c)'
    BY <1>1, <1>2, <2>1, <2>7, <2>8, <2>9 DEF ConsumerOK, Claimed
  <2> QED
    BY <1>10, <1>18, <2>2, <2>3, <2>10 DEF FullClaim, runVars, ConsumerOK
<1>19. CASE Swap(c)
  <2> DEFINE n == Watched(c)
             old == kept[c][n]
  <2>1. /\ step[c] = "swap" /\ At(c, "idle")' /\ at[c] \in Slots(c) /\ events'[c] = events[c]
        /\ known'[c] = known[c] /\ Advance(c, at[c], events[c]) /\ Handled(c) /\ n \in Names
    BY <1>2, <1>7, <1>8, <1>19 DEF Swap, Following, Read, At, Valued, Handling
  <2>2. /\ kept'[c] = [kept[c] EXCEPT ![n] = Value(c)]
        /\ claims'[c] = IF old = Null THEN claims[c] ELSE [claims[c] EXCEPT ![old] = @ - 1]
    BY <1>1, <1>19 DEF Swap, ConsumerTypeOK
  <2>3. /\ Value(c) \in Objects /\ heap[Value(c)].state # "unused" /\ heap[Value(c)].name = n
        /\ Value(c) # Null
    BY <1>1, <1>3, <2>1 DEF ConsumerOK, Answered, Valued, Value, BrokerOK, Mapped, AnswersLive, AnswersNamed
  <2>4. /\ claims[c][Value(c)] >= IF old = Value(c) THEN 2 ELSE 1
        /\ \A m \in Names : kept[c][m] # Null =>
             /\ kept[c][m] \in Objects
             /\ heap[kept[c][m]].state # "unused" /\ heap[kept[c][m]].name = m
             /\ claims[c][kept[c][m]] >= 1
    BY <1>1, <2>1 DEF ConsumerOK, Claimed, ItsTypes
  <2>5. \A o \in Objects : claims[c][o] \in Nat /\ (o # old => claims'[c][o] = claims[c][o])
    BY <1>1, <2>2 DEF ItsTypes
  <2>6. old # Null => claims'[c][old] = claims[c][old] - 1
    BY <1>1, <2>1, <2>2, <2>4 DEF ItsTypes
  <2>7. claims'[c][Value(c)] >= 1
    BY <2>3, <2>4, <2>5, <2>6
  <2>8. \A m \in Names : kept'[c][m] = IF m = n THEN Value(c) ELSE kept[c][m]
    BY <1>1, <2>1, <2>2 DEF ItsTypes
  <2>9. \A m \in Names : m # n /\ kept[c][m] # Null => kept[c][m] # old
    BY <2>1, <2>4
  <2>10. ASSUME step'[c] \in {"wait", "read"}
         PROVE  Claimed(c)'
    <3> SUFFICES ASSUME NEW m \in Names, kept'[c][m] # Null
                 PROVE  /\ heap[kept'[c][m]].state # "unused" /\ heap[kept'[c][m]].name = m
                        /\ claims'[c][kept'[c][m]] >= 1
      BY <1>2, <2>10 DEF Claimed
    <3>1. CASE m = n
      BY <2>3, <2>7, <2>8, <3>1
    <3>2. CASE m # n
      BY <2>4, <2>5, <2>8, <2>9, <3>2
    <3> QED
      BY <3>1, <3>2
  <2> QED
    BY <1>4, <1>24, <2>1, <2>10, AdvanceOK DEF ConsumerOK, Valued
<1>20. CASE Wait(c)
  <2>1. /\ step[c] = "wait" /\ At(c, "idle")' /\ ~NoFutex(c)
        /\ known'[c] = known[c] /\ handled'[c] = handled[c] /\ kept'[c] = kept[c] /\ claims'[c] = claims[c]
    BY <1>2, <1>7, <1>20 DEF Wait, Read, At
  <2>2. CASE Changed(c) # {}
    BY <1>9, <1>10, <1>20, <1>25, <2>1, <2>2 DEF Wait, ConsumerOK
  <2>3. CASE Changed(c) = {}
    <3>1. step'[c] = "asleep"
      BY <1>1, <1>20, <2>3 DEF Wait, Step, ConsumerTypeOK
    <3>2. \A i \in Slots(c) : known[c][i].futex # Null /\ Current(known[c][i].futex) = known[c][i].version
      BY <2>1, <2>3 DEF NoFutex, Changed
    <3>3. SleepOK(c)'
      BY <1>2, <2>1, <3>2 DEF SleepOK, Current
    <3>4. SeenOrDue(c)'
      BY <1>6, <1>10, <2>1 DEF SeenOrDue
    <3>5. InBrokerToRead(c)' /\ Answered(c)'
      BY <2>1, <3>1 DEF InBrokerToRead, Answered, Valued, At
    <3> QED
      BY <1>9, <1>10, <2>1, <3>1, <3>3, <3>4, <3>5 DEF ConsumerOK
  <2> QED
    BY <2>2, <2>3
<1>21. CASE Awake(c)
  <2>1. /\ step[c] = "asleep" /\ At(c, "idle")'
        /\ known'[c] = known[c] /\ handled'[c] = handled[c] /\ kept'[c] = kept[c] /\ claims'[c] = claims[c]
    BY <1>2, <1>7, <1>21 DEF Awake, Read, At, heapVars
  <2> QED
    BY <1>9, <1>10, <1>21, <1>25, <2>1 DEF Awake, ConsumerOK
<1>22. CASE WaitFails(c) \/ TimeOut(c)
  <2>1. /\ step[c] \in {"wait", "asleep"} /\ At(c, "idle")'
        /\ known'[c] = known[c] /\ handled'[c] = handled[c] /\ kept'[c] = kept[c] /\ claims'[c] = claims[c]
    BY <1>2, <1>7, <1>22 DEF WaitFails, TimeOut, Read, At, heapVars
  <2>2. \A j \in Slots(c) : Seen(c, j)'
    BY <1>6, <1>10, <2>1
  <2>3. PICK evs : NoEvent(c, evs)
    BY <1>22 DEF WaitFails, TimeOut
  <2>4. events'[c] = evs
    BY <1>1, <2>3 DEF NoEvent, Shape
  <2>5. CASE Advance(c, 0, evs)
    BY <1>9, <1>10, <2>1, <2>2, <2>4, <2>5, AdvanceOK DEF ConsumerOK
  <2>6. CASE step'[c] = "exited"
    BY <1>9, <1>10, <2>1, <2>2, <2>6
       DEF ConsumerOK, InBrokerToRead, Answered, SeenOrDue, SleepOK, Valued, At
  <2> QED
    BY <1>1, <2>3, <2>5, <2>6 DEF NoEvent, Step, ConsumerTypeOK
<1>23. CASE Crash(c)
  <2>1. step'[c] = "start" /\ At(c, "idle")'
    BY <1>1, <1>2, <1>7, <1>23 DEF Crash, Step, ConsumerTypeOK, Read, At
  <2> QED
    BY <1>9, <1>10, <1>23, <2>1
       DEF Crash, runVars, ConsumerOK, InBrokerToRead, Answered, SeenOrDue, Due, SleepOK, Valued
<1> QED
  BY <1>11, <1>12, <1>13, <1>14, <1>15, <1>16, <1>17, <1>18, <1>19, <1>20, <1>21, <1>22, <1>23
     DEF Own, RunStep

-----------------------------------------------------------------------------
(* The steps of the broker *)

\* A step of the broker for thread t, or a writer's call: the consumers only
\* learn of it if it wakes them.
Served(t) ==
  /\ ThreadStep(t)
  /\ t \in Consumers => BrokerStep(t) \/ Parse(t)
  /\ fired' = IF At(t, "notify") THEN WokenBy(t) ELSE fired
  /\ UNCHANGED <<step, runVars, mwLeft, heapVars, crashed, handled>>

LEMMA ServedSteps ==
  ASSUME TypeOK, NEW t \in Threads, Write(t) \/ InBroker(t)
  PROVE  Served(t)
<1>1. CASE Write(t)
  <2>1. ThreadStep(t) /\ At(t, "idle")
    BY <1>1, CallEnters DEF Write, ThreadStep, Call, Enter
  <2> QED
    BY <1>1, <2>1 DEF Write, Served, At, consumerVars
<1>2. CASE InBroker(t)
  BY <1>2 DEF InBroker, Served, ThreadStep
<1> QED
  BY <1>1, <1>2

\* An item keeps its name, and its version only grows, by Bump.
LEMMA ItemSteps ==
  ASSUME IInv, NEW t \in Threads, ThreadStep(t), NEW i \in Indices
  PROVE  /\ i \in Indices' /\ items'[i].name = items[i].name
         /\ items[i].version \in Nat
         /\ \/ items'[i].version = items[i].version
            \/ /\ items'[i].version = items[i].version + 1
               /\ pc'[t] = "notify" /\ frame'[t] = frame[t] /\ i = frame[t].item
<1> USE IInvLayers
<1>1. i \in Indices' /\ items'[i].name = items[i].name /\ items[i].version \in Nat
  BY DataSteps, IndexType DEF IInv, ItemRecord
<1>2. CASE Bump(t) /\ i = frame[t].item
  <2>1. Item(t) \in ItemRecord
    BY <1>2, HasItemType DEF Bump, At, HasItem, SetSteps, IInv
  <2>2. items'[i].version = items[i].version + 1
    BY <1>2, <2>1, BumpUpdates DEF Updated, Item, ItemRecord, IInv
  <2> QED
    BY <1>1, <1>2, <2>2 DEF Bump, Goto, IInv, TypeOK
<1> QED
  BY <1>1, <1>2, FieldSteps

\* In get_config the thread keeps to its item and leaves with an answer, or
\* because the item is not there and cannot be created.
LEMMA GetServed ==
  ASSUME TypeOK, FrameOK, NEW t \in Threads, BrokerStep(t) \/ Parse(t)
  PROVE  /\ ~At(t, "idle")
         /\ frame[t].op = "get" /\ pc[t] \in GetSteps =>
              \/ pc'[t] \in GetSteps /\ frame'[t].op = "get" /\ frame'[t].name = frame[t].name
              \/ ReadData(t) /\ pc'[t] = "idle"
              \/ CreateFails(t) /\ pc'[t] = "idle"
<1> USE DEF TypeOK, Goto, Return, At, GetSteps
<1>1. CASE Find(t) \/ Lock(t)
  BY <1>1 DEF Find, Lock
<1>2. CASE Search(t)
  BY <1>2 DEF Search, AfterFind, Frame
<1>3. CASE Create(t)
  BY <1>3 DEF Create, AfterFind, Frame
<1>4. CASE CreateFails(t) \/ ReadData(t)
  BY <1>4 DEF CreateFails, ReadData
<1>5. CASE ReadVersion(t)
  BY <1>5 DEF ReadVersion, Frame
<1>6. CASE SetStep(t) \/ Parse(t) \/ \E f \in Fields : Store(t, f)
  BY <1>6 DEF SetStep, NoParser, Busy, Attempt, Malloc, MallocFails, Discard, Publish, Bump, Notify,
              FreeOld, Parse, ParseOk, ParseFails, Store
<1> QED
  BY <1>1, <1>2, <1>3, <1>4, <1>5, <1>6 DEF BrokerStep, FindStep, OtherStep

LEMMA ServedTypes ==
  ASSUME BrokerOK, ConsumersOK, NEW t \in Threads, Served(t)
  PROVE  ConsumerTypeOK' /\ Shape'
<1>1. Indices \subseteq Indices'
  BY ItemSteps DEF Served, BrokerOK, Mapped
<1>2. fired' = [c \in Consumers |-> fired'[c]] /\ \A c \in Consumers : fired'[c] \subseteq Slots(c)
  BY DEF Served, WokenBy, ConsumersOK, ConsumerTypeOK, Shape
<1> QED
  BY <1>1, <1>2 DEF Served, runVars, heapVars, ConsumersOK, ConsumerTypeOK, Shape

\* What a consumer in get_config is answered.
LEMMA ReadingServed ==
  ASSUME BrokerOK, ConsumersOK, NEW c \in Consumers, Served(c)
  PROVE  InBrokerToRead(c)' /\ Answered(c)' /\ step[c] = "reading"
<1>1. /\ c \in Threads /\ ConsumerOK(c) /\ ItsTypes(c)
      /\ step' = step /\ at' = at /\ known' = known /\ handled' = handled
  BY WatchesType, TypesOfAll DEF ConsumersOK, Served, runVars
<1>2. IInv /\ (BrokerStep(c) \/ Parse(c))
  BY DEF Served, BrokerOK, Mapped
<1>3. ~At(c, "idle")
  BY <1>1, <1>2, GetServed DEF IInv
<1>4. /\ step[c] = "reading" /\ pc[c] \in GetSteps /\ frame[c].op = "get"
      /\ frame[c].name = Watched(c) /\ Watched(c)' = Watched(c)
  BY <1>1, <1>3 DEF ConsumerOK, InBrokerToRead, Watched
<1> DEFINE i == at[c]
           f == known[c][i].futex
<1>5. /\ i \in Slots(c) /\ f \in Indices \cup {Null} /\ handled[c][i] \in Nat
      /\ f = Null => handled[c][i] = 0
      /\ f # Null => items[f].name = Watched(c) /\ handled[c][i] <= Current(f)
  BY <1>1 DEF ItsTypes, ConsumerOK, KnownOK, Watched
<1>6. CASE pc'[c] \in GetSteps /\ frame'[c].op = "get" /\ frame'[c].name = frame[c].name
  BY <1>1, <1>4, <1>6 DEF InBrokerToRead, Answered, At, GetSteps, Valued
<1>7. CASE ReadData(c) /\ pc'[c] = "idle"
  <2> DEFINE j == frame[c].item
  <2>1. /\ ret'[c].item = j /\ ret'[c].version = frame[c].version /\ ret'[c].data = items[j].data
        /\ pc[c] = "data"
    <3>1. DOMAIN ret = Threads
      BY <1>2 DEF IInv, TypeOK
    <3> QED
      BY <1>1, <1>7, <3>1 DEF ReadData, Return, Item, At
  <2>2. j \in Indices /\ items[j].name = Watched(c) /\ frame[c].version = items[j].version
    BY <1>1, <1>2, <1>4, <2>1 DEF IInv, FrameOK, HasItem, ReadOK, At
  <2>3. j # Null /\ items[j].version \in Nat /\ items'[j].name = items[j].name
    BY <1>1, <1>2, <2>2, IndexType, ItemSteps DEF Served, Null, IInv, ItemRecord
  <2>4. items[j].data = Null => items[j].version = 0
    BY <2>2 DEF BrokerOK, EverSet
  <2>5. f # Null => f = j
    BY <1>2, <1>5, <2>2 DEF IInv, UniqueNames
  <2>6. items[j].data = Null => handled[c][i] = 0
    BY <1>5, <2>3, <2>4, <2>5 DEF Current
  <2> QED
    BY <1>1, <1>4, <1>7, <2>1, <2>2, <2>3, <2>4, <2>6 DEF InBrokerToRead, Answered, At, Valued
<1>8. CASE CreateFails(c) /\ pc'[c] = "idle"
  <2>1. Matches(Watched(c)) = {} /\ ret'[c].item = Null
    BY <1>1, <1>2, <1>4, <1>8 DEF CreateFails, Return, Failure, IInv, TypeOK, CreateOK, At
  <2>2. f = Null
    BY <1>5, <2>1 DEF Matches
  <2> QED
    BY <1>1, <1>4, <1>8, <2>1, <2>2 DEF InBrokerToRead, Answered, At, Valued
<1> QED
  BY <1>1, <1>2, <1>4, <1>6, <1>7, <1>8, GetServed DEF IInv

LEMMA ServedOK ==
  ASSUME BrokerOK, ConsumersOK, NEW t \in Threads, Served(t), NEW c \in Consumers
  PROVE  ConsumerOK(c)'
<1> USE DEF BrokerOK, Mapped
<1>1. /\ c \in Threads /\ ConsumerOK(c) /\ ItsTypes(c) /\ ThreadStep(t)
      /\ step' = step /\ at' = at /\ events' = events /\ known' = known /\ handled' = handled
      /\ hazard' = hazard /\ claims' = claims /\ kept' = kept
  BY WatchesType, TypesOfAll DEF ConsumersOK, Served, runVars, heapVars
<1>2. OthersKept(t)
  BY <1>1, OthersUntouched DEF IInv
<1>3. \A i \in Indices :
        /\ i \in Indices' /\ items'[i].name = items[i].name /\ items[i].version \in Nat
        /\ \/ items'[i].version = items[i].version
           \/ /\ items'[i].version = items[i].version + 1
              /\ pc'[t] = "notify" /\ frame'[t] = frame[t] /\ i = frame[t].item
  BY <1>1, ItemSteps
<1>4. \A i \in Slots(c) : /\ known[c][i].futex \in Indices \cup {Null}
                          /\ known[c][i].version \in Nat /\ handled[c][i] \in Nat
  BY <1>1 DEF ItsTypes
<1>5. step[c] # "reading" => c # t
  BY ReadingServed
<1>6. c # t => pc'[c] = pc[c] /\ frame'[c] = frame[c] /\ ret'[c] = ret[c]
  BY <1>1, <1>2 DEF OthersKept
<1>7. InBrokerToRead(c)' /\ Answered(c)'
  <2>1. CASE c = t
    BY <2>1, ReadingServed
  <2>2. CASE c # t
    <3>1. ret[c].item # Null => ret[c].item \in Indices
      BY <1>1, AnswerTypes
    <3> QED
      BY <1>1, <1>3, <1>6, <2>2, <3>1
         DEF ConsumerOK, InBrokerToRead, Answered, At, Watched, Valued
  <2> QED
    BY <2>1, <2>2
<1>8. Claimed(c)'
  <2>1. \A n \in Names : kept[c][n] # Null => kept[c][n] \in Objects
    BY <1>1 DEF ItsTypes
  <2>2. \A o \in Objects : heap[o].state # "unused" =>
          heap'[o].state # "unused" /\ heap'[o].name = heap[o].name
    BY <1>1, NameKept
  <2> QED
    BY <1>1, <1>5, <1>6, <2>1, <2>2 DEF ConsumerOK, Claimed, Value, Watched
<1>9. KnownOK(c)'
  BY <1>1, <1>3, <1>4 DEF ConsumerOK, KnownOK, Current
<1>10. SeenOrDue(c)'
  BY <1>1, <1>3, <1>4 DEF ConsumerOK, SeenOrDue, Seen, Due, Current
<1>11. SleepOK(c)'
  <2> SUFFICES ASSUME step[c] = "asleep", NEW i \in Slots(c)
               PROVE  /\ known[c][i].futex # Null
                      /\ \/ i \in fired'[c]
                         \/ items'[known[c][i].futex].version = known[c][i].version
                         \/ \E u \in Threads : pc'[u] = "notify" /\ frame'[u].item = known[c][i].futex
    BY <1>1 DEF SleepOK, Current, At
  <2> DEFINE f == known[c][i].futex
  <2>1. f # Null /\ f \in Indices
    BY <1>1, <1>4 DEF ConsumerOK, SleepOK
  <2>2. i \in fired[c] \/ (At(t, "notify") /\ f = frame[t].item) => i \in fired'[c]
    BY <1>1 DEF Served, WokenBy, At
  <2>3. CASE items[f].version = known[c][i].version
    BY <1>3, <2>1, <2>3
  <2>4. CASE \E u \in Threads : At(u, "notify") /\ frame[u].item = f
    BY <1>2, <2>1, <2>2, <2>4 DEF OthersKept, At
  <2> QED
    BY <1>1, <2>1, <2>2, <2>3, <2>4 DEF ConsumerOK, SleepOK, Current
<1> QED
  BY <1>7, <1>8, <1>9, <1>10, <1>11 DEF ConsumerOK

-----------------------------------------------------------------------------
(* The inductive invariant of the composed system *)

LEMMA OwnNext ==
  ASSUME BrokerOK, ConsumersOK, NEW c \in Consumers, Own(c)
  PROVE  ConsumersOK'
<1>1. OnlyIts(c) /\ ConsumerTypeOK /\ Shape /\ items' = items
  BY OwnSteps, OwnKeeps DEF ConsumersOK
<1>2. \A d \in Consumers : ConsumerOK(d)'
  BY OwnOK, OthersOK
<1>3. \A d \in Consumers : ItsTypes(d)'
  <2> SUFFICES ASSUME NEW d \in Consumers, d # c
               PROVE  ItsTypes(d)'
    BY OwnTypes
  <2> QED
    BY <1>1, OthersSame, TypesOfAll DEF Same, ItsTypes, Indices
<1>4. Shape'
  BY <1>1 DEF OnlyIts, Shape
<1>5. /\ step' = [d \in Consumers |-> step'[d]] /\ timeouts' = [d \in Consumers |-> timeouts'[d]]
      /\ mwLeft' = [d \in Consumers |-> mwLeft'[d]] /\ crashed' = [d \in Consumers |-> crashed'[d]]
      /\ hazard' = [d \in Consumers |-> hazard'[d]] /\ claims' = [d \in Consumers |-> claims'[d]]
      /\ kept' = [d \in Consumers |-> kept'[d]]
  BY <1>1 DEF OnlyIts, ConsumerTypeOK
<1>6. ConsumerTypeOK'
  <2>1. /\ step' \in [Consumers -> RunSteps] /\ timeouts' \in [Consumers -> Nat]
        /\ mwLeft' \in [Consumers -> Nat] /\ crashed' \in [Consumers -> Nat]
        /\ hazard' \in [Consumers -> Objects \cup {Null}]
    BY <1>3, <1>5 DEF ItsTypes
  <2>2. claims' \in [Consumers -> [Objects -> Nat]] /\ kept' \in [Consumers -> [Names -> Objects \cup {Null}]]
    BY <1>3, <1>5 DEF ItsTypes
  <2> QED
    BY <1>3, <2>1, <2>2 DEF ItsTypes, ConsumerTypeOK
<1> QED
  BY <1>2, <1>4, <1>6 DEF ConsumersOK

LEMMA ConsumersNext == BrokerOK /\ ConsumersOK /\ [ConsumerNext]_allVars => ConsumersOK'
<1> SUFFICES ASSUME BrokerOK, ConsumersOK, [ConsumerNext]_allVars
             PROVE  ConsumersOK'
  OBVIOUS
<1>1. CASE UNCHANGED <<items, heap, pc, frame, ret, consumerVars>>
  <2>1. ConsumerTypeOK' /\ Shape'
    BY <1>1 DEF consumerVars, runVars, heapVars, ConsumersOK, ConsumerTypeOK, Shape, Indices
  <2>2. ASSUME NEW c \in Consumers
        PROVE  ConsumerOK(c)'
    <3>1. ConsumerOK(c)
      BY DEF ConsumersOK
    <3>2. InBrokerToRead(c)' /\ Answered(c)' /\ Claimed(c)'
      BY <1>1, <3>1 DEF consumerVars, runVars, heapVars, ConsumerOK, InBrokerToRead, Answered,
                        Claimed, At, Value, Watched
    <3>3. KnownOK(c)' /\ SeenOrDue(c)' /\ SleepOK(c)'
      BY <1>1, <3>1 DEF consumerVars, runVars, ConsumerOK, KnownOK, SeenOrDue, Seen, Due, SleepOK,
                        At, Current
    <3> QED
      BY <3>2, <3>3 DEF ConsumerOK
  <2> QED
    BY <2>1, <2>2 DEF ConsumersOK
<1>2. ASSUME NEW t \in Threads, Write(t) \/ InBroker(t)
      PROVE  ConsumersOK'
  <2>1. Served(t)
    BY <1>2, ServedSteps DEF BrokerOK, Mapped, IInv
  <2> QED
    BY <2>1, ServedTypes, ServedOK DEF ConsumersOK
<1>3. ASSUME NEW c \in Consumers, Own(c)
      PROVE  ConsumersOK'
  BY <1>3, OwnNext
<1>4. CASE Done \/ UNCHANGED allVars \/ (Tick /\ UNCHANGED consumerVars) \/ \E c \in Consumers : Spin(c)
  BY <1>1, <1>4 DEF Done, Spin, Tick, allVars, vars, lists
<1> QED
  BY <1>2, <1>3, <1>4 DEF ConsumerNext, Own

LEMMA ConsumersOKInit == Init /\ ConsumerInit => ConsumersOK
<1> SUFFICES ASSUME Init, ConsumerInit
             PROVE  ConsumersOK
  OBVIOUS
<1>1. pc = [t \in Threads |-> "idle"]
  BY DEF Init, Quiet
<1>2. Multiwaiters \in Nat
  BY ConsumersAssumption
<1>3. ConsumerTypeOK /\ Shape
  BY <1>2, WatchesType DEF ConsumerInit, ConsumerTypeOK, Shape, RunSteps, Null
<1>4. ASSUME NEW c \in Consumers
      PROVE  ConsumerOK(c)
  <2>1. step[c] = "start" /\ At(c, "idle")
    BY <1>1, WatchesType DEF ConsumerInit, At
  <2>2. InBrokerToRead(c) /\ Answered(c) /\ SeenOrDue(c) /\ SleepOK(c)
    BY <2>1 DEF InBrokerToRead, Answered, SeenOrDue, Due, SleepOK, Valued
  <2>3. Claimed(c) /\ KnownOK(c)
    BY <2>1 DEF ConsumerInit, Claimed, KnownOK
  <2> QED
    BY <2>2, <2>3 DEF ConsumerOK
<1> QED
  BY <1>3, <1>4 DEF ConsumersOK

\* What the broker guarantees and what the loop of the library maintains hold
\* together: neither alone is inductive, for the loop relies on the answers and
\* only a consumer that reads is ever in the broker.
THEOREM ComposedInductive == BootSpec => [](BrokerOK /\ ConsumersOK)
<1>1. Init /\ ConsumerInit => BrokerOK /\ ConsumersOK
  BY BrokerOKInit, ConsumersOKInit
<1>2. BrokerOK /\ ConsumersOK /\ [ConsumerNext]_allVars => (BrokerOK /\ ConsumersOK)'
  BY ConsumersNext, ConsumerNextIsBrokerNext, BrokerOKNext
<1> QED
  BY <1>1, <1>2, PTL DEF BootSpec

-----------------------------------------------------------------------------
(* What follows from it *)

\* Every variable of the consumers has its type in every reachable state.
THEOREM ConsumerTypes == BootSpec => []ConsumerTypeOK
<1>1. ConsumersOK => ConsumerTypeOK
  BY DEF ConsumersOK
<1> QED
  BY <1>1, ComposedInductive, PTL

\* No handler looks at a value that has been freed, although the broker frees the
\* old value of an item without asking (config_broker.cc:241-249): what a handler
\* uses it has claimed first, and what it keeps it has claimed for good
\* (config_consumer.cc:94-107, consumer1.cc:39-68).
THEOREM NeverUseAfterFree == BootSpec => []NoUseAfterFree
<1>1. BrokerOK /\ ConsumersOK => NoUseAfterFree
  <2> SUFFICES ASSUME BrokerOK, ConsumersOK, NEW c \in Consumers
               PROVE  /\ step[c] \in {"use", "swap"} => Alive(Value(c))
                      /\ \A n \in Names : kept[c][n] # Null => Alive(kept[c][n])
    BY DEF NoUseAfterFree
  <2>1. Claimed(c) /\ ItsTypes(c) /\ Answered(c)
    BY TypesOfAll DEF ConsumersOK, ConsumerOK
  <2>2. step[c] = "use" => Alive(Value(c))
    BY <2>1 DEF Claimed, Alive
  <2>3. ASSUME NEW o \in Objects, claims[c][o] >= 1
        PROVE  Alive(o)
    <3>1. claims[c][o] > 0
      BY <2>1, <2>3 DEF ItsTypes
    <3> QED
      BY <3>1 DEF Alive
  <2>4. ASSUME step[c] = "swap"
        PROVE  Alive(Value(c))
    <3>1. Value(c) \in Objects
      BY <2>1, <2>4, AnswerTypes, WatchesType DEF Answered, Valued, Value
    <3>2. claims[c][Value(c)] \in Nat /\ claims[c][Value(c)] >= IF kept[c][Watched(c)] = Value(c) THEN 2 ELSE 1
      BY <2>1, <2>4, <3>1 DEF Claimed, ItsTypes
    <3> QED
      BY <2>3, <3>1, <3>2
  <2>5. \A n \in Names : kept[c][n] # Null => Alive(kept[c][n])
    BY <2>1, <2>3 DEF Claimed, ItsTypes
  <2> QED
    BY <2>2, <2>4, <2>5
<1> QED
  BY <1>1, ComposedInductive, PTL

\* An update that comes while a consumer is on its way to sleep is never missed:
\* the versions it has seen are compared with the futexes when it goes to sleep
\* (config_consumer.cc:122-146), and the version moves before the notification
\* (config_broker.cc:233-239).
THEOREM WakeupsAreKept == BootSpec => []NoLostWakeup
<1>1. ConsumersOK => NoLostWakeup
  BY DEF ConsumersOK, ConsumerOK, SleepOK, NoLostWakeup
<1> QED
  BY <1>1, ComposedInductive, PTL

\* A consumer that sleeps has handled all it has seen, or what it skipped is
\* out of date: a value whose claim failed is never the last one.
THEOREM UpdatesAreKept == BootSpec => []NoLostUpdate
<1>1. ConsumersOK => NoLostUpdate
  BY DEF ConsumersOK, ConsumerOK, SeenOrDue, Seen, Due, Handling, Valued, NoLostUpdate
<1> QED
  BY <1>1, ComposedInductive, PTL

\* With the consumers as its callers the broker still implements the store.
THEOREM ConsumersReadTheStore == BootSpec => ImplementsStore
<1>1. BrokerOK => Mapped /\ View
  BY ViewOK DEF BrokerOK, Mapped
<1>2. BrokerOK /\ ConsumersOK /\ [ConsumerNext]_allVars => BrokerNext
  BY ConsumerNextIsBrokerNext
<1> QED
  BY <1>1, <1>2, ComposedInductive, InitImplements, NextImplements, PTL
     DEF BootSpec, ImplementsStore, Register!StoreSpec

-----------------------------------------------------------------------------
(* The claims of a consumer are bounded *)

InSwap(c) == IF step[c] = "swap" THEN 1 ELSE 0
BoundedFor(c) ==
  /\ IsFiniteSet(ClaimsOf(c)) /\ IsFiniteSet(KeptBy(c))
  /\ Cardinality(ClaimsOf(c)) <= Cardinality(KeptBy(c)) + crashed[c] + InSwap(c)

\* The sizes are numbers, which is all that the sums need.
LEMMA Sizes ==
  ASSUME NEW c \in Consumers, BoundedFor(c)
  PROVE  Cardinality(ClaimsOf(c)) \in Nat /\ Cardinality(KeptBy(c)) \in Nat
BY FS_CardinalityType DEF BoundedFor

\* One more claim on o is one more in the set of claims.
LEMMA OneMore ==
  ASSUME NEW c \in Consumers, NEW o \in Objects, claims[c] \in [Objects -> Nat],
         claims'[c] = [claims[c] EXCEPT ![o] = @ + 1], IsFiniteSet(ClaimsOf(c))
  PROVE  IsFiniteSet(ClaimsOf(c)') /\ Cardinality(ClaimsOf(c)') = Cardinality(ClaimsOf(c)) + 1
<1> DEFINE n == claims[c][o]
<1>1. n \in Nat
  OBVIOUS
<1>2. ASSUME NEW p \in Objects, NEW k
      PROVE  k \in 1 .. claims'[c][p] <=> k \in 1 .. claims[c][p] \/ (p = o /\ k = n + 1)
  <2>1. CASE p = o
    <3>1. claims'[c][p] = n + 1 /\ claims[c][p] = n
      BY <2>1
    <3>2. k \in 1 .. n + 1 <=> k \in 1 .. n \/ k = n + 1
      BY <1>1
    <3> QED
      BY <2>1, <3>1, <3>2, Zenon
  <2>2. CASE p # o
    BY <2>2
  <2> QED
    BY <2>1, <2>2
<1>3. ClaimsOf(c)' = ClaimsOf(c) \cup {<<o, n + 1>>}
  <2>1. ASSUME NEW x \in ClaimsOf(c)'
        PROVE  x \in ClaimsOf(c) \cup {<<o, n + 1>>}
    <3>1. PICK p \in Objects : \E k \in 1 .. claims'[c][p] : x = <<p, k>>
      BY <2>1 DEF ClaimsOf
    <3>2. PICK k \in 1 .. claims'[c][p] : x = <<p, k>>
      BY <3>1
    <3> HIDE DEF n
    <3>3. k \in 1 .. claims[c][p] \/ (p = o /\ k = n + 1)
      BY <1>2, <3>2 DEF n
    <3> QED
      BY <3>2, <3>3 DEF ClaimsOf
  <2>2. ASSUME NEW x \in ClaimsOf(c)
        PROVE  x \in ClaimsOf(c)'
    <3>1. PICK p \in Objects : \E k \in 1 .. claims[c][p] : x = <<p, k>>
      BY <2>2 DEF ClaimsOf
    <3>2. PICK k \in 1 .. claims[c][p] : x = <<p, k>>
      BY <3>1
    <3>3. k \in 1 .. claims'[c][p]
      BY <1>2, <3>2
    <3> QED
      BY <3>2, <3>3 DEF ClaimsOf
  <2>3. <<o, n + 1>> \in ClaimsOf(c)'
    <3>1. n + 1 \in 1 .. claims'[c][o]
      BY <1>1, <1>2
    <3> QED
      BY <3>1 DEF ClaimsOf
  <2> QED
    BY <2>1, <2>2, <2>3
<1>4. <<o, n + 1>> \notin ClaimsOf(c)
  <2> SUFFICES ASSUME NEW p \in Objects, NEW k \in 1 .. claims[c][p], <<o, n + 1>> = <<p, k>>
               PROVE  FALSE
    BY DEF ClaimsOf
  <2> QED
    BY <1>1
<1> DEFINE old == ClaimsOf(c)
           unit == <<o, n + 1>>
<1>5. IsFiniteSet(old) /\ unit \notin old /\ ClaimsOf(c)' = old \cup {unit}
  BY <1>3, <1>4
<1> HIDE DEF old, unit
<1>6. IsFiniteSet(old \cup {unit}) /\ Cardinality(old \cup {unit}) = Cardinality(old) + 1
  BY <1>5, FS_AddElement
<1> QED
  BY <1>5, <1>6, Zenon DEF old

\* One claim less on o is one less in the set of claims, if there was one.
LEMMA OneLess ==
  ASSUME NEW c \in Consumers, NEW o \in Objects, claims[c] \in [Objects -> Nat], claims[c][o] >= 1,
         claims'[c] = [claims[c] EXCEPT ![o] = @ - 1], IsFiniteSet(ClaimsOf(c))
  PROVE  IsFiniteSet(ClaimsOf(c)') /\ Cardinality(ClaimsOf(c)') = Cardinality(ClaimsOf(c)) - 1
<1> DEFINE n == claims[c][o]
<1>1. n \in Nat /\ n >= 1
  OBVIOUS
<1>2. ASSUME NEW p \in Objects, NEW k
      PROVE  k \in 1 .. claims'[c][p] <=> k \in 1 .. claims[c][p] /\ ~(p = o /\ k = n)
  <2>1. CASE p = o
    <3>1. claims'[c][p] = n - 1 /\ claims[c][p] = n
      BY <2>1
    <3>2. k \in 1 .. n - 1 <=> k \in 1 .. n /\ ~(k = n)
      BY <1>1
    <3> QED
      BY <2>1, <3>1, <3>2, Zenon
  <2>2. CASE p # o
    BY <2>2
  <2> QED
    BY <2>1, <2>2
<1>3. ClaimsOf(c)' = ClaimsOf(c) \ {<<o, n>>}
  <2>1. ASSUME NEW x \in ClaimsOf(c)'
        PROVE  x \in ClaimsOf(c) \ {<<o, n>>}
    <3>1. PICK p \in Objects : \E k \in 1 .. claims'[c][p] : x = <<p, k>>
      BY <2>1 DEF ClaimsOf
    <3>2. PICK k \in 1 .. claims'[c][p] : x = <<p, k>>
      BY <3>1
    <3> HIDE DEF n
    <3>3. k \in 1 .. claims[c][p] /\ ~(p = o /\ k = n)
      BY <1>2, <3>2 DEF n
    <3> QED
      BY <3>2, <3>3 DEF ClaimsOf
  <2>2. ASSUME NEW x \in ClaimsOf(c), x # <<o, n>>
        PROVE  x \in ClaimsOf(c)'
    <3>1. PICK p \in Objects : \E k \in 1 .. claims[c][p] : x = <<p, k>>
      BY <2>2 DEF ClaimsOf
    <3>2. PICK k \in 1 .. claims[c][p] : x = <<p, k>>
      BY <3>1
    <3> HIDE DEF n
    <3>3. k \in 1 .. claims'[c][p]
      BY <1>2, <2>2, <3>2 DEF n
    <3> QED
      BY <3>2, <3>3 DEF ClaimsOf
  <2> QED
    BY <2>1, <2>2
<1>4. <<o, n>> \in ClaimsOf(c)
  <2>1. n \in 1 .. claims[c][o]
    BY <1>1
  <2> QED
    BY <2>1 DEF ClaimsOf
<1> DEFINE old == ClaimsOf(c)
           unit == <<o, n>>
<1>5. IsFiniteSet(old) /\ unit \in old /\ ClaimsOf(c)' = old \ {unit}
  BY <1>3, <1>4
<1> HIDE DEF old, unit
<1>6. IsFiniteSet(old \ {unit}) /\ Cardinality(old \ {unit}) = Cardinality(old) - 1
  BY <1>5, FS_RemoveElement
<1> QED
  BY <1>5, <1>6, Zenon DEF old

\* What does not touch the claims leaves the bound as it is.
LEMMA BoundKept ==
  ASSUME NEW c \in Consumers, BoundedFor(c), claims'[c] = claims[c], kept'[c] = kept[c],
         crashed'[c] = crashed[c], InSwap(c)' = InSwap(c)
  PROVE  BoundedFor(c)'
<1>1. ClaimsOf(c)' = ClaimsOf(c) /\ KeptBy(c)' = KeptBy(c)
  BY DEF ClaimsOf, KeptBy
<1> QED
  BY <1>1 DEF BoundedFor

\* The claim is paid for by the step it leads to.
LEMMA FullClaimBounded ==
  ASSUME ConsumersOK, BrokerOK, NEW c \in Consumers, BoundedFor(c), FullClaim(c)
  PROVE  BoundedFor(c)'
<1>1. ItsTypes(c) /\ ConsumerTypeOK /\ ConsumerOK(c) /\ c \in Threads
  BY TypesOfAll, WatchesType DEF ConsumersOK
<1>2. Value(c) \in Objects
  BY <1>1, AnswerTypes DEF FullClaim, ConsumerOK, Answered, Valued, Value
<1>3. /\ claims'[c] = [claims[c] EXCEPT ![Value(c)] = @ + 1] /\ claims[c] \in [Objects -> Nat]
      /\ kept' = kept /\ crashed' = crashed /\ step[c] = "keep" /\ step'[c] = "swap"
  BY <1>1 DEF FullClaim, ConsumerTypeOK, ItsTypes, Step
<1>4. IsFiniteSet(ClaimsOf(c)') /\ Cardinality(ClaimsOf(c)') = Cardinality(ClaimsOf(c)) + 1
  BY <1>2, <1>3, OneMore DEF BoundedFor
<1>5. KeptBy(c)' = KeptBy(c) /\ InSwap(c) = 0 /\ InSwap(c)' = 1 /\ crashed[c] \in Nat
  BY <1>1, <1>3 DEF KeptBy, InSwap, ItsTypes
<1>6. Cardinality(ClaimsOf(c)) <= Cardinality(KeptBy(c)) + crashed[c] + 0
  BY <1>5 DEF BoundedFor
<1>7. Cardinality(ClaimsOf(c)) + 1 <= Cardinality(KeptBy(c)) + crashed[c] + 1
  BY <1>5, <1>6, Sizes
<1> QED
  BY <1>3, <1>4, <1>5, <1>7 DEF BoundedFor

\* A value that is swapped in is kept, or takes the place of the one it frees.
LEMMA SwapBounded ==
  ASSUME ConsumersOK, BrokerOK, NEW c \in Consumers, BoundedFor(c), Swap(c)
  PROVE  BoundedFor(c)'
<1>1. ItsTypes(c) /\ ConsumerTypeOK /\ ConsumerOK(c) /\ c \in Threads
  BY TypesOfAll, WatchesType DEF ConsumersOK
<1>2. Watched(c) \in Names /\ Value(c) # Null
  BY <1>1, WatchesType DEF ItsTypes, Watched, Swap, ConsumerOK, Answered, Valued, Value
<1> DEFINE name == Watched(c)
           old == kept[c][name]
<1>3. /\ kept'[c] = [kept[c] EXCEPT ![name] = Value(c)] /\ kept[c] \in [Names -> Objects \cup {Null}]
      /\ claims[c] \in [Objects -> Nat] /\ crashed' = crashed /\ crashed[c] \in Nat
      /\ step[c] = "swap"
  BY <1>1 DEF Swap, ConsumerTypeOK, ItsTypes
<1>4. claims'[c] = IF old = Null THEN claims[c] ELSE [claims[c] EXCEPT ![old] = @ - 1]
  BY <1>1 DEF Swap, ConsumerTypeOK
<1>5. step'[c] \in {"wait", "read"}
  BY <1>1, AdvanceSteps DEF Swap, Following, ConsumersOK, ConsumerTypeOK
<1>6. InSwap(c) = 1 /\ InSwap(c)' = 0
  BY <1>3, <1>5 DEF InSwap
<1>7. KeptBy(c)' = KeptBy(c) \cup {name}
  BY <1>2, <1>3 DEF KeptBy
<1>8. Cardinality(ClaimsOf(c)) <= Cardinality(KeptBy(c)) + crashed[c] + 1
  BY <1>6 DEF BoundedFor
<1>9. IsFiniteSet(KeptBy(c)) /\ IsFiniteSet(ClaimsOf(c))
  BY DEF BoundedFor
<1> HIDE DEF name
<1>10. CASE old = Null
  <2>1. name \notin KeptBy(c)
    BY <1>10 DEF KeptBy
  <2>2. IsFiniteSet(KeptBy(c)') /\ Cardinality(KeptBy(c)') = Cardinality(KeptBy(c)) + 1
    BY <1>7, <1>9, <2>1, FS_AddElement
  <2>3. ClaimsOf(c)' = ClaimsOf(c)
    BY <1>4, <1>10 DEF ClaimsOf
  <2>4. Cardinality(ClaimsOf(c)) <= Cardinality(KeptBy(c)) + 1 + crashed[c] + 0
    BY <1>3, <1>8, Sizes
  <2> QED
    BY <1>3, <1>6, <1>9, <2>2, <2>3, <2>4 DEF BoundedFor
<1>11. CASE old # Null
  <2>1. old \in Objects /\ claims[c][old] >= 1 /\ name \in KeptBy(c)
    BY <1>1, <1>2, <1>3, <1>11 DEF name, ConsumerOK, Claimed, KeptBy
  <2>2. IsFiniteSet(ClaimsOf(c)') /\ Cardinality(ClaimsOf(c)') = Cardinality(ClaimsOf(c)) - 1
    BY <1>3, <1>4, <1>9, <1>11, <2>1, OneLess
  <2>3. KeptBy(c)' = KeptBy(c)
    BY <1>7, <2>1
  <2>4. Cardinality(ClaimsOf(c)) - 1 <= Cardinality(KeptBy(c)) + crashed[c] + 0
    BY <1>3, <1>8, Sizes
  <2> QED
    BY <1>3, <1>6, <1>9, <2>2, <2>3, <2>4 DEF BoundedFor
<1> QED
  BY <1>10, <1>11

\* A fault may leave one claim behind that nothing accounts for.
LEMMA CrashBounded ==
  ASSUME ConsumersOK, NEW c \in Consumers, BoundedFor(c), Crash(c)
  PROVE  BoundedFor(c)'
<1>1. ItsTypes(c) /\ ConsumerTypeOK
  BY TypesOfAll DEF ConsumersOK
<1>2. /\ claims' = claims /\ kept' = kept /\ crashed'[c] = crashed[c] + 1 /\ crashed[c] \in Nat
      /\ step'[c] = "start"
  BY <1>1 DEF Crash, ConsumerTypeOK, ItsTypes, Step
<1>3. ClaimsOf(c)' = ClaimsOf(c) /\ KeptBy(c)' = KeptBy(c) /\ InSwap(c)' = 0
  BY <1>2 DEF ClaimsOf, KeptBy, InSwap
<1>4. InSwap(c) \in {0, 1}
  BY DEF InSwap
<1>5. Cardinality(ClaimsOf(c)) <= Cardinality(KeptBy(c)) + (crashed[c] + 1) + 0
  <2>1. Cardinality(ClaimsOf(c)) <= Cardinality(KeptBy(c)) + crashed[c] + InSwap(c)
    BY DEF BoundedFor
  <2> HIDE DEF BoundedFor
  <2> QED
    BY <1>2, <1>4, <2>1, Sizes
<1> QED
  BY <1>2, <1>3, <1>5 DEF BoundedFor

\* No other step of a consumer makes or gives up a claim, or is part of a swap.
LEMMA OwnBounded ==
  ASSUME ConsumersOK, BrokerOK, NEW c \in Consumers, BoundedFor(c), Own(c)
  PROVE  BoundedFor(c)'
<1>1. ItsTypes(c) /\ ConsumerTypeOK /\ Shape
  BY TypesOfAll DEF ConsumersOK
<1>2. CASE FullClaim(c)
  BY <1>2, FullClaimBounded
<1>3. CASE Swap(c)
  BY <1>3, SwapBounded
<1>4. CASE Crash(c)
  BY <1>4, CrashBounded
<1>5. CASE Start(c) \/ Read(c) \/ Note(c) \/ Protect(c) \/ Skip(c) \/ Use(c) \/ EnterClaim(c)
           \/ Wait(c) \/ Awake(c) \/ WaitFails(c) \/ TimeOut(c)
  <2>1. claims' = claims /\ kept' = kept /\ crashed' = crashed
    BY <1>5 DEF Start, Read, Note, Protect, Skip, Use, EnterClaim, Wait, Awake, WaitFails, TimeOut, heapVars
  <2>2. step[c] # "swap"
    BY <1>5 DEF Start, Read, Note, Protect, Skip, Use, EnterClaim, Wait, Awake, WaitFails, TimeOut
  <2>3. ASSUME NEW i, NEW evs, Advance(c, i, evs)
        PROVE  step'[c] # "swap"
    BY <1>1, <2>3, AdvanceSteps DEF ConsumerTypeOK
  <2>4. step'[c] # "swap"
    <3>1. CASE Start(c) \/ Skip(c) \/ Use(c) \/ Awake(c)
      BY <2>3, <3>1 DEF Start, Skip, Use, Awake, Woken, Following
    <3>2. CASE Read(c) \/ Protect(c) \/ EnterClaim(c)
      BY <1>1, <3>2 DEF Read, Protect, EnterClaim, Step, ConsumerTypeOK
    <3>3. CASE Note(c)
      BY <1>1, <2>3, <3>3 DEF Note, Following, Step, ConsumerTypeOK
    <3>4. CASE Wait(c)
      BY <1>1, <2>3, <3>4 DEF Wait, Woken, Step, ConsumerTypeOK
    <3>5. CASE WaitFails(c) \/ TimeOut(c)
      BY <1>1, <2>3, <3>5 DEF WaitFails, TimeOut, NoEvent, Step, ConsumerTypeOK
    <3> QED
      BY <1>5, <3>1, <3>2, <3>3, <3>4, <3>5
  <2>5. InSwap(c)' = InSwap(c)
    BY <2>2, <2>4 DEF InSwap
  <2> QED
    BY <2>1, <2>5, BoundKept
<1> QED
  BY <1>2, <1>3, <1>4, <1>5 DEF Own, RunStep

Bounded == \A c \in Consumers : BoundedFor(c)

LEMMA BoundedNext ==
  ASSUME BrokerOK, ConsumersOK, Bounded, [ConsumerNext]_allVars
  PROVE  Bounded'
<1>1. CASE UNCHANGED <<step, heapVars, crashed>>
  BY <1>1, BoundKept DEF Bounded, heapVars, InSwap
<1>2. ASSUME NEW c \in Consumers, Own(c)
      PROVE  Bounded'
  <2>1. ASSUME NEW d \in Consumers PROVE BoundedFor(d)'
    <3>1. CASE d = c
      BY <1>2, <3>1, OwnBounded DEF Bounded
    <3>2. CASE d # c
      <4>1. Same(d)
        BY <1>2, <3>2, OthersSame DEF ConsumersOK
      <4> QED
        BY <4>1, BoundKept DEF Same, Bounded, InSwap
    <3> QED
      BY <3>1, <3>2
  <2> QED
    BY <2>1 DEF Bounded
<1>3. ASSUME NEW t \in Threads, Write(t) \/ InBroker(t)
      PROVE  UNCHANGED <<step, heapVars, crashed>>
  BY <1>3 DEF Write, InBroker, consumerVars
<1>4. CASE Done \/ UNCHANGED allVars \/ (Tick /\ UNCHANGED consumerVars) \/ \E c \in Consumers : Spin(c)
  BY <1>1, <1>4 DEF Done, Spin, allVars, consumerVars
<1> QED
  BY <1>1, <1>2, <1>3, <1>4 DEF ConsumerNext, Own

\* However often handlers fault, the quota of a consumer is only charged for what
\* it keeps, for the value it is swapping in, and for one claim for each fault
\* (consumer1.cc:39-68).
THEOREM ClaimsAreBounded == BootSpec => []ClaimsBounded
<1>1. Init /\ ConsumerInit => Bounded
  <2> SUFFICES ASSUME ConsumerInit, NEW c \in Consumers PROVE BoundedFor(c)
    BY DEF Bounded
  <2>1. ClaimsOf(c) = {}
    BY DEF ClaimsOf, ConsumerInit
  <2>2. KeptBy(c) = {} /\ InSwap(c) = 0 /\ crashed[c] = 0
    BY DEF KeptBy, InSwap, ConsumerInit
  <2> QED
    BY <2>1, <2>2, FS_EmptySet DEF BoundedFor
<1>2. BrokerOK /\ ConsumersOK /\ Bounded /\ [ConsumerNext]_allVars => Bounded'
  BY BoundedNext
<1>3. Bounded => ClaimsBounded
  BY DEF Bounded, BoundedFor, ClaimsBounded, InSwap
<1> QED
  BY <1>1, <1>2, <1>3, ComposedInductive, PTL DEF BootSpec
=============================================================================

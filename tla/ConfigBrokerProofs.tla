------------------------- MODULE ConfigBrokerProofs -------------------------
(***************************************************************************)
(* Proofs about the configuration broker, for every value of the constants *)
(* that ConstantsAssumption allows.  The inductive invariant IInv is       *)
(* established in layers, each from the ones before it: types and frames,  *)
(* the list, the locks of the items; the objects; the rate limit and the   *)
(* answers.  The last part shows that the broker implements ConfigStore.   *)
(***************************************************************************)
EXTENDS ConfigBroker, SequenceTheorems, FiniteSetTheorems, TLAPS

-----------------------------------------------------------------------------
(* The list, the frames and the answers as data *)

LEMMA FrameTypes ==
  /\ IdleFrame \in Frame
  /\ \A op \in Ops, n \in Names, src \in Payloads \cup {None} : NewFrame(op, n, src) \in Frame
BY DEF IdleFrame, NewFrame, Frame, Ops, Pointers, Null

LEMMA FailureTypes == \A code \in Codes : Failure(code) \in Result
BY DEF Failure, Result, Pointers, Null

LEMMA ErrnoTypes == \A op \in Ops : Denied[op] \in Codes /\ NoItem[op] \in Codes
BY DEF Denied, NoItem, Ops, Codes

\* Updating one item leaves the others, and the shape of the list, alone.
LEMMA SetItemType ==
  ASSUME TypeOK, NEW t \in Threads, frame[t].item \in Indices,
         NEW r \in ItemRecord, SetItem(t, r)
  PROVE  /\ items' \in Seq(ItemRecord)
         /\ Indices' = Indices
         /\ items'[frame[t].item] = r
         /\ \A j \in Indices : j # frame[t].item => items'[j] = items[j]
<1>1. Indices = 1 .. Len(items) /\ items \in Seq(ItemRecord)
  BY DEF TypeOK, Indices
<1>2. items' = [items EXCEPT ![frame[t].item] = r]
  BY DEF SetItem
<1> QED
  BY <1>1, <1>2, ExceptSeq DEF Indices

\* Creating an item adds one index, which is not a null pointer.
LEMMA AppendType ==
  ASSUME TypeOK, NEW r \in ItemRecord, items' = Append(items, r)
  PROVE  /\ items' \in Seq(ItemRecord)
         /\ Indices' = Indices \cup {Len(items) + 1}
         /\ Len(items) + 1 \notin Indices
         /\ Len(items) + 1 \in Nat \ {0}
         /\ items'[Len(items) + 1] = r
         /\ \A j \in Indices : items'[j] = items[j]
<1>1. Indices = 1 .. Len(items) /\ items \in Seq(ItemRecord)
  BY DEF TypeOK, Indices
<1> QED
  BY <1>1, AppendProperties DEF Indices

\* An index is a positive number and the item there is a record.
LEMMA IndexType ==
  ASSUME TypeOK
  PROVE  \A i \in Indices : i \in Nat \ {0} /\ items[i] \in ItemRecord
BY DEF TypeOK, Indices

-----------------------------------------------------------------------------
(* What the steps of a call do, one field at a time *)

\* No item is renamed or removed.
NamesKept == \A j \in Indices : j \in Indices' /\ items'[j].name = items[j].name

\* The item of the call becomes r and the rest of the list stays as it is.
Updated(t, r) ==
  /\ items' \in Seq(ItemRecord) /\ Indices' = Indices /\ NamesKept
  /\ frame[t].item \in Indices /\ items'[frame[t].item] = r
  /\ \A j \in Indices : j # frame[t].item => items'[j] = items[j]

LEMMA HasItemType ==
  ASSUME TypeOK, FrameOK, NEW t \in Threads, pc[t] \in HasItem
  PROVE  frame[t].item \in Indices /\ Item(t) \in ItemRecord
BY IndexType DEF FrameOK, Item

LEMMA SetItemUpdates ==
  ASSUME TypeOK, FrameOK, NEW t \in Threads, pc[t] \in HasItem,
         NEW r \in ItemRecord, r.name = Item(t).name, SetItem(t, r)
  PROVE  Updated(t, r)
BY HasItemType, SetItemType DEF Updated, NamesKept, Item

LEMMA LockUpdates ==
  ASSUME TypeOK, FrameOK, NEW t \in Threads, Lock(t)
  PROVE  Updated(t, [Item(t) EXCEPT !.lock = t])
<1>1. pc[t] \in HasItem
  BY DEF Lock, At, HasItem
<1>2. Item(t) \in ItemRecord
  BY <1>1, HasItemType
<1>3. /\ [Item(t) EXCEPT !.lock = t] \in ItemRecord
      /\ [Item(t) EXCEPT !.lock = t].name = Item(t).name
  BY <1>2 DEF ItemRecord
<1> QED
  BY <1>1, <1>3, SetItemUpdates DEF Lock

LEMMA UnlockUpdates ==
  ASSUME TypeOK, FrameOK, NEW t \in Threads, pc[t] \in HasItem, Unlock(t)
  PROVE  Updated(t, [Item(t) EXCEPT !.lock = None])
<1>1. Item(t) \in ItemRecord
  BY HasItemType
<1>2. /\ [Item(t) EXCEPT !.lock = None] \in ItemRecord
      /\ [Item(t) EXCEPT !.lock = None].name = Item(t).name
  BY <1>1 DEF ItemRecord
<1> QED
  BY <1>2, SetItemUpdates DEF Unlock

LEMMA AttemptUpdates ==
  ASSUME TypeOK, FrameOK, NEW t \in Threads, Attempt(t)
  PROVE  /\ Updated(t, [Item(t) EXCEPT !.nextUpdate = clock + MinTicks(t)])
         /\ MinTicks(t) \in Nat
<1>1. pc[t] \in HasItem
  BY DEF Attempt, At, HasItem, SetSteps
<1>2. Item(t) \in ItemRecord
  BY <1>1, HasItemType
<1>3. MinTicks(t) \in Nat
  BY <1>2, ConstantsAssumption DEF MinTicks, ItemRecord
<1>4. clock + MinTicks(t) \in Nat
  BY <1>3 DEF TypeOK
<1>5. /\ [Item(t) EXCEPT !.nextUpdate = clock + MinTicks(t)] \in ItemRecord
      /\ [Item(t) EXCEPT !.nextUpdate = clock + MinTicks(t)].name = Item(t).name
  BY <1>2, <1>4 DEF ItemRecord
<1> QED
  BY <1>1, <1>3, <1>5, SetItemUpdates DEF Attempt

LEMMA PublishUpdates ==
  ASSUME TypeOK, FrameOK, NEW t \in Threads, Publish(t)
  PROVE  /\ Updated(t, [Item(t) EXCEPT !.data = frame[t].new])
         /\ Item(t).data \in Pointers
<1>1. pc[t] \in HasItem
  BY DEF Publish, At, HasItem, SetSteps
<1>2. Item(t) \in ItemRecord /\ frame[t].new \in Pointers
  BY <1>1, HasItemType DEF TypeOK, Frame
<1>3. /\ [Item(t) EXCEPT !.data = frame[t].new] \in ItemRecord
      /\ [Item(t) EXCEPT !.data = frame[t].new].name = Item(t).name
      /\ Item(t).data \in Pointers
  BY <1>2 DEF ItemRecord
<1> QED
  BY <1>1, <1>3, SetItemUpdates DEF Publish

LEMMA BumpUpdates ==
  ASSUME TypeOK, FrameOK, NEW t \in Threads, Bump(t)
  PROVE  Updated(t, [Item(t) EXCEPT !.version = Item(t).version + 1])
<1>1. pc[t] \in HasItem
  BY DEF Bump, At, HasItem, SetSteps
<1>2. Item(t) \in ItemRecord
  BY <1>1, HasItemType
<1>3. Item(t).version + 1 \in Nat
  BY <1>2 DEF ItemRecord
<1>4. /\ [Item(t) EXCEPT !.version = Item(t).version + 1] \in ItemRecord
      /\ [Item(t) EXCEPT !.version = Item(t).version + 1].name = Item(t).name
  BY <1>2, <1>3 DEF ItemRecord
<1> QED
  BY <1>1, <1>4, SetItemUpdates DEF Bump

LEMMA StoreUpdates ==
  ASSUME TypeOK, FrameOK, NEW t \in Threads, NEW f \in Fields, Store(t, f)
  PROVE  Updated(t, [Item(t) EXCEPT !.stored = Item(t).stored \cup {f}])
<1>1. pc[t] \in HasItem
  BY DEF Store, At, HasItem
<1>2. Item(t) \in ItemRecord
  BY <1>1, HasItemType
<1>3. Item(t).stored \cup {f} \in SUBSET Fields
  BY <1>2 DEF ItemRecord
<1>4. /\ [Item(t) EXCEPT !.stored = Item(t).stored \cup {f}] \in ItemRecord
      /\ [Item(t) EXCEPT !.stored = Item(t).stored \cup {f}].name = Item(t).name
  BY <1>2, <1>3 DEF ItemRecord
<1> QED
  BY <1>1, <1>4, SetItemUpdates DEF Store

\* The item a call creates.
Created(t) == [name |-> frame[t].name, version |-> 0, data |-> Null,
               stored |-> {}, nextUpdate |-> 0, lock |-> None]

LEMMA CreateEffect ==
  ASSUME TypeOK, FrameOK, NEW t \in Threads, Create(t)
  PROVE  items' = Append(items, Created(t)) /\ Created(t) \in ItemRecord
BY DEF Create, Created, FrameOK, At, ItemRecord, Pointers

-----------------------------------------------------------------------------
(* Types and frames *)

\* A call that returns: the thread is idle again.
LEMMA ReturnType ==
  ASSUME TypeOK, FrameOK, NEW t \in Threads, NEW r \in Result, Return(t, r), NamesKept
  PROVE  /\ pc' \in [Threads -> Steps] /\ frame' \in [Threads -> Frame]
         /\ ret' \in [Threads -> Result] /\ FrameOK'
<1>1. /\ pc' = [pc EXCEPT ![t] = "idle"]
      /\ frame' = [frame EXCEPT ![t] = IdleFrame]
      /\ ret' = [ret EXCEPT ![t] = r]
  BY DEF Return, Goto
<1>2. FrameOK'
  BY <1>1 DEF FrameOK, TypeOK, NamesKept, At, SetSteps, HasItem
<1> QED
  BY <1>1, <1>2, FrameTypes DEF TypeOK, Steps

\* A call that goes on from one step past the search to another.
LEMMA GotoType ==
  ASSUME TypeOK, FrameOK, NEW t \in Threads, NEW s \in HasItem, pc[t] \in HasItem,
         Goto(t, s), s \in SetSteps => frame[t].op = "set", NamesKept,
         frame' \in [Threads -> Frame],
         \A u \in Threads : u # t => frame'[u] = frame[u],
         /\ frame'[t].op = frame[t].op /\ frame'[t].name = frame[t].name
         /\ frame'[t].src = frame[t].src /\ frame'[t].item = frame[t].item
  PROVE  pc' \in [Threads -> Steps] /\ FrameOK'
<1>1. pc' = [pc EXCEPT ![t] = s]
  BY DEF Goto
<1>2. s \in Steps /\ s # "idle" /\ pc[t] # "idle"
  BY DEF HasItem, SetSteps, Steps
<1>3. pc' \in [Threads -> Steps]
  BY <1>1, <1>2 DEF TypeOK
<1>4. ASSUME NEW u \in Threads
      PROVE  /\ pc'[u] # "idle" => frame'[u].name \in Names
             /\ pc'[u] # "idle" /\ frame'[u].op = "set" => frame'[u].src \in Payloads
             /\ pc'[u] \in SetSteps => frame'[u].op = "set"
             /\ pc'[u] \in HasItem =>
                  frame'[u].item \in Indices' /\ items'[frame'[u].item].name = frame'[u].name
  <2>1. CASE u = t
    BY <1>1, <1>2, <2>1 DEF FrameOK, TypeOK, NamesKept, At
  <2>2. CASE u # t
    <3>1. pc'[u] = pc[u] /\ frame'[u] = frame[u]
      BY <1>1, <2>2 DEF TypeOK
    <3> QED BY <3>1 DEF FrameOK, NamesKept, At
  <2> QED BY <2>1, <2>2
<1> QED
  BY <1>3, <1>4 DEF FrameOK, At

\* A call of an entry point with any capability.  What bounds the number of
\* calls, and which capabilities a thread holds, is of no concern to the proofs.
Entered(t) ==
  /\ left' \in [Threads -> Nat]
  /\ \E op \in Ops, cap \in Caps :
       \E src \in IF op = "set" THEN Payloads ELSE {None} : Enter(t, op, cap, src)

LEMMA CallEnters ==
  ASSUME TypeOK, NEW t \in Threads, Call(t)
  PROVE  Entered(t)
<1>1. PICK op \in Ops, cap \in Held[t] :
        \E src \in IF op = "set" THEN Payloads ELSE {None} : Enter(t, op, cap, src)
  BY DEF Call
<1>2. cap \in Caps
  BY ConstantsAssumption
<1>3. left' \in [Threads -> Nat]
  BY DEF Call, TypeOK
<1> QED BY <1>1, <1>2, <1>3 DEF Entered

LEMMA EnteredType ==
  ASSUME TypeOK, FrameOK, NEW t \in Threads, Entered(t)
  PROVE TypeOK' /\ FrameOK'
<1>1. PICK op \in Ops, cap \in Caps :
        \E src \in IF op = "set" THEN Payloads ELSE {None} : Enter(t, op, cap, src)
  BY DEF Entered
<1>2. PICK src \in IF op = "set" THEN Payloads ELSE {None} : Enter(t, op, cap, src)
  BY <1>1
<1>3. cap.kind \in Kinds /\ cap.name \in Names
  BY DEF Caps, Kinds
<1>4. /\ IdleFrame \in Frame 
      /\ NewFrame(op, cap.name, src) \in Frame
      /\ Failure(Denied[op]) \in Result
  BY <1>3, FrameTypes, FailureTypes, ErrnoTypes
<1>6. left' \in [Threads -> Nat]
  BY DEF Entered
<1>7. CASE cap.kind = KeyOf[op]
  <2>1. pc' = [pc EXCEPT ![t] = "find"] /\ frame' = [frame EXCEPT ![t] = NewFrame(op, cap.name, src)] /\ UNCHANGED <<items, findLock, heap, clock, ret, lastAttempt>>
    BY <1>2, <1>7 DEF Enter, Goto, lists
  <2>2. TypeOK'
    BY <2>1, <1>4, <1>6 DEF TypeOK, Steps
  <2>3. FrameOK'
    BY <2>1, <1>3 DEF FrameOK, TypeOK, NewFrame, At, SetSteps, HasItem, Indices
  <2> QED BY <2>2, <2>3
<1>8. CASE cap.kind # KeyOf[op]
  <2>1. pc' = [pc EXCEPT ![t] = "idle"] /\ frame' = [frame EXCEPT ![t] = IdleFrame]
        /\ ret' = [ret EXCEPT ![t] = Failure(Denied[op])] /\ UNCHANGED <<items, findLock, heap, clock,  lastAttempt>>
    BY <1>2, <1>8 DEF Enter, Goto, Return, lists
  <2>2. TypeOK'
    BY <2>1, <1>4, <1>6 DEF TypeOK, Steps
  <2>3. FrameOK'
    BY <2>1 DEF FrameOK, TypeOK,  At, SetSteps, HasItem, Indices
  <2> QED BY <2>2, <2>3
<1> QED BY <1>7, <1>8

LEMMA FindType ==
  ASSUME TypeOK, FrameOK, NEW t \in Threads, Find(t)
  PROVE  TypeOK' /\ FrameOK'
<1>1. pc' = [pc EXCEPT ![t] = "search"]
  BY DEF Find, Goto
<1>2. TypeOK'
  BY <1>1 DEF Find, TypeOK, Steps
<1>3. FrameOK'
  BY <1>1 DEF Find, FrameOK, TypeOK, At, SetSteps, HasItem, Indices
<1> QED BY <1>2, <1>3

LEMMA SearchType ==
  ASSUME TypeOK, FrameOK, NEW t \in Threads, Search(t)
  PROVE  TypeOK' /\ FrameOK'
<1>1. CASE Matches(frame[t].name) # {}
  <2>1. PICK i \in Matches(frame[t].name) : frame' = [frame EXCEPT ![t].item = i]
    BY <1>1 DEF Search
  <2>2. pc' = [pc EXCEPT ![t] = AfterFind(t)] /\ findLock' = None
        /\ UNCHANGED <<items, heap, clock, ret, left, lastAttempt>>
    BY <1>1 DEF Search, Goto
  <2>3. i \in Indices /\ i \in Nat /\ items[i].name = frame[t].name
    BY IndexType DEF Matches
  <2>4. frame' \in [Threads -> Frame]
    BY <2>1, <2>3 DEF TypeOK, Frame
  <2>5. AfterFind(t) \in {"store", "lock"}
    BY DEF AfterFind
  <2>6. TypeOK'
    BY <2>2, <2>4, <2>5 DEF TypeOK, Steps
  <2>7. FrameOK'
    BY <2>1, <2>2, <2>3, <2>5 DEF Search, FrameOK, TypeOK, Frame, At, SetSteps, HasItem, Indices
  <2> QED BY <2>6, <2>7
<1>2. CASE Matches(frame[t].name) = {}
  <2>1. pc' = [pc EXCEPT ![t] = "create"]
        /\ UNCHANGED <<items, findLock, heap, clock, frame, ret, left, lastAttempt>>
    BY <1>2 DEF Search, Goto
  <2>2. TypeOK'
    BY <2>1 DEF TypeOK, Steps
  <2>3. FrameOK'
    BY <2>1 DEF Search, FrameOK, TypeOK, At, SetSteps, HasItem, Indices
  <2> QED BY <2>2, <2>3
<1> QED BY <1>1, <1>2

LEMMA CreateType ==
  ASSUME TypeOK, FrameOK, NEW t \in Threads, Create(t)
  PROVE  TypeOK' /\ FrameOK'
<1>1. /\ items' \in Seq(ItemRecord)
      /\ Indices' = Indices \cup {Len(items) + 1}
      /\ Len(items) + 1 \in Nat
      /\ items'[Len(items) + 1] = Created(t)
      /\ \A j \in Indices : items'[j] = items[j]
  BY CreateEffect, AppendType
<1>2. pc' = [pc EXCEPT ![t] = AfterFind(t)] /\ findLock' = None
      /\ frame' = [frame EXCEPT ![t].item = Len(items) + 1]
      /\ UNCHANGED <<heap, clock, ret, left, lastAttempt>>
  BY DEF Create, Goto
<1>3. frame' \in [Threads -> Frame]
  BY <1>1, <1>2 DEF TypeOK, Frame
<1>4. AfterFind(t) \in {"store", "lock"}
  BY DEF AfterFind
<1>5. TypeOK'
  BY <1>1, <1>2, <1>3, <1>4 DEF TypeOK, Steps
<1>6. NamesKept
  BY <1>1 DEF NamesKept
<1>7. frame' = [frame EXCEPT ![t] = [frame[t] EXCEPT !.item = Len(items) + 1]]
  BY <1>2
<1>8. ASSUME NEW u \in Threads
      PROVE  /\ pc'[u] # "idle" => frame'[u].name \in Names
             /\ pc'[u] # "idle" /\ frame'[u].op = "set" => frame'[u].src \in Payloads
             /\ pc'[u] \in SetSteps => frame'[u].op = "set"
             /\ pc'[u] \in HasItem =>
                  frame'[u].item \in Indices' /\ items'[frame'[u].item].name = frame'[u].name
  <2>1. CASE u = t
    <3>1. /\ pc'[u] = AfterFind(t) /\ pc[u] = "create"
          /\ frame'[u] = [frame[t] EXCEPT !.item = Len(items) + 1]
      BY <1>2, <1>7, <2>1 DEF Create, At, TypeOK
    <3>2. /\ frame'[u].op = frame[u].op /\ frame'[u].name = frame[u].name
          /\ frame'[u].src = frame[u].src /\ frame'[u].item = Len(items) + 1
      BY <2>1, <3>1 DEF TypeOK, Frame
    <3>3. pc'[u] \notin SetSteps
      BY <1>4, <3>1 DEF SetSteps
    <3> QED BY <1>1, <2>1, <3>1, <3>2, <3>3 DEF FrameOK, Created, At
  <2>2. CASE u # t
    <3>1. pc'[u] = pc[u] /\ frame'[u] = frame[u]
      BY <1>2, <1>7, <2>2 DEF TypeOK
    <3> QED BY <1>6, <3>1 DEF FrameOK, NamesKept, At
  <2> QED BY <2>1, <2>2
<1>9. FrameOK'
  BY <1>8 DEF FrameOK, At
<1> QED BY <1>5, <1>9

LEMMA CreateFailsType ==
  ASSUME TypeOK, FrameOK, NEW t \in Threads, CreateFails(t)
  PROVE  TypeOK' /\ FrameOK'
<1>1. Failure(NoItem[frame[t].op]) \in Result
  BY FailureTypes, ErrnoTypes DEF TypeOK, Frame
<1>2. NamesKept
  BY DEF CreateFails, NamesKept, Indices
<1> QED
  BY <1>1, <1>2, ReturnType DEF CreateFails, TypeOK

LEMMA LockType ==
  ASSUME TypeOK, FrameOK, NEW t \in Threads, Lock(t)
  PROVE  TypeOK' /\ FrameOK'
<1>1. pc[t] \in HasItem /\ frame[t].item \in Indices
  BY DEF Lock, FrameOK, At, HasItem
<1>2. NamesKept /\ items' \in Seq(ItemRecord)
  BY LockUpdates DEF Updated
<1>3. (IF frame[t].op = "set" THEN "check" ELSE "version") \in HasItem
  BY DEF HasItem, SetSteps
<1>4. pc' \in [Threads -> Steps] /\ FrameOK'
  BY <1>1, <1>2, <1>3, GotoType DEF Lock, TypeOK, SetSteps
<1> QED
  BY <1>2, <1>4 DEF Lock, TypeOK

\* The steps that leave set_config with an error, or with 0 at its end.
LEMMA RefusedType ==
  ASSUME TypeOK, FrameOK, NEW t \in Threads, pc[t] \in HasItem,
         NEW code \in Codes, Refused(t, code)
  PROVE  /\ items' \in Seq(ItemRecord) /\ NamesKept
         /\ pc' \in [Threads -> Steps] /\ frame' \in [Threads -> Frame]
         /\ ret' \in [Threads -> Result] /\ FrameOK'
<1>3. items' \in Seq(ItemRecord) /\ NamesKept
  BY UnlockUpdates DEF Refused, Updated
<1> QED
  BY <1>3, FailureTypes, ReturnType DEF Refused

LEMMA FreeType ==
  ASSUME TypeOK, NEW o, heap' = Free(o)
  PROVE  heap' \in [Objects -> ObjectRecord]
BY DEF TypeOK, Free, ObjectRecord

LEMMA SetReturnsType ==
  ASSUME TypeOK, FrameOK, NEW t \in Threads,
         NoParser(t) \/ Busy(t) \/ MallocFails(t) \/ Discard(t) \/ FreeOld(t)
  PROVE  TypeOK' /\ FrameOK'
<1>1. pc[t] \in HasItem
  BY DEF NoParser, Busy, MallocFails, Discard, FreeOld, At, HasItem, SetSteps
<1>2. \E code \in Codes : Refused(t, code)
  BY DEF NoParser, Busy, MallocFails, Discard, FreeOld, Codes
<1>3. /\ items' \in Seq(ItemRecord) /\ pc' \in [Threads -> Steps]
      /\ frame' \in [Threads -> Frame] /\ ret' \in [Threads -> Result] /\ FrameOK'
  BY <1>1, <1>2, RefusedType
<1>4. heap' \in [Objects -> ObjectRecord]
  BY FreeType DEF NoParser, Busy, MallocFails, Discard, FreeOld, TypeOK
<1>5. UNCHANGED <<findLock, clock, left, lastAttempt>>
  BY DEF NoParser, Busy, MallocFails, Discard, FreeOld
<1> QED
  BY <1>3, <1>4, <1>5 DEF TypeOK

\* The steps that change the item, and go on to the next step with its lock held.
LEMMA SetItemStepsType ==
  ASSUME TypeOK, FrameOK, NEW t \in Threads, Attempt(t) \/ Publish(t) \/ Bump(t)
  PROVE  TypeOK' /\ FrameOK'
<1>1. pc[t] \in HasItem /\ frame[t].item \in Indices /\ frame[t].op = "set"
  BY DEF Attempt, Publish, Bump, FrameOK, At, HasItem, SetSteps
<1>2. CASE Attempt(t)
  <2>1. NamesKept /\ items' \in Seq(ItemRecord)
    BY <1>2, AttemptUpdates DEF Updated
  <2>2. pc' \in [Threads -> Steps] /\ FrameOK'
    BY <1>1, <1>2, <2>1, GotoType DEF Attempt, TypeOK, HasItem, SetSteps
  <2>3. lastAttempt' \in [Names -> Int]
    <3>1. clock \in Int /\ lastAttempt \in [Names -> Int]
      BY DEF TypeOK
    <3>2. \/ lastAttempt' = lastAttempt
          \/ lastAttempt' = [lastAttempt EXCEPT ![Item(t).name] = clock]
      BY <1>2 DEF Attempt
    <3> QED BY <3>1, <3>2
  <2> QED BY <1>2, <2>1, <2>2, <2>3 DEF Attempt, TypeOK
<1>3. CASE Publish(t)
  <2>1. NamesKept /\ items' \in Seq(ItemRecord)
    BY <1>3, PublishUpdates DEF Updated
  <2>2. /\ frame' = [frame EXCEPT ![t].old = Item(t).data]
        /\ frame' \in [Threads -> Frame]
    BY <1>3, PublishUpdates DEF Publish, TypeOK, Frame
  <2>3. /\ \A u \in Threads : u # t => frame'[u] = frame[u]
        /\ frame'[t].op = frame[t].op /\ frame'[t].name = frame[t].name
        /\ frame'[t].src = frame[t].src /\ frame'[t].item = frame[t].item
    BY <2>2 DEF TypeOK, Frame
  <2>4. Goto(t, "bump") /\ "bump" \in HasItem
    BY <1>3 DEF Publish, HasItem, SetSteps
  <2>5. pc' \in [Threads -> Steps] /\ FrameOK'
    BY <1>1, <2>1, <2>2, <2>3, <2>4, GotoType
  <2> QED BY <1>3, <2>1, <2>2, <2>5 DEF Publish, TypeOK
<1>4. CASE Bump(t)
  <2>1. NamesKept /\ items' \in Seq(ItemRecord)
    BY <1>4, BumpUpdates DEF Updated
  <2>2. pc' \in [Threads -> Steps] /\ FrameOK'
    BY <1>1, <1>4, <2>1, GotoType DEF Bump, TypeOK, HasItem, SetSteps
  <2> QED BY <1>4, <2>1, <2>2 DEF Bump, TypeOK
<1> QED BY <1>2, <1>3, <1>4

\* The steps that allocate the object and have it parsed.
LEMMA ObjectStepsType ==
  ASSUME TypeOK, FrameOK, NEW t \in Threads,
         Malloc(t) \/ ParseOk(t) \/ ParseFails(t) \/ Notify(t)
  PROVE  TypeOK' /\ FrameOK'
<1>1. pc[t] \in HasItem /\ frame[t].op = "set" /\ frame[t].item \in Indices
  BY DEF Malloc, ParseOk, ParseFails, Notify, FrameOK, At, HasItem, SetSteps
<1>2. NamesKept
  BY DEF Malloc, ParseOk, ParseFails, Notify, lists, NamesKept, Indices
<1>3. CASE Malloc(t)
  <2>1. PICK o \in Objects :
          /\ heap' = [heap EXCEPT ![o] = [state |-> "owned", name |-> Item(t).name,
                                          sized |-> "size" \in Item(t).stored, value |-> Blank]]
          /\ frame' = [frame EXCEPT ![t].new = o]
    BY <1>3 DEF Malloc
  <2>2. Item(t).name \in Names
    BY <1>1, IndexType DEF Item, ItemRecord
  <2>3. heap' \in [Objects -> ObjectRecord]
    BY <2>1, <2>2 DEF TypeOK, ObjectRecord
  <2>4. frame' \in [Threads -> Frame]
    BY <2>1 DEF TypeOK, Frame, Pointers
  <2>5. pc' \in [Threads -> Steps] /\ FrameOK'
    BY <1>1, <1>2, <1>3, <2>1, <2>4, GotoType DEF Malloc, TypeOK, Frame, HasItem, SetSteps
  <2> QED BY <1>3, <2>3, <2>4, <2>5 DEF Malloc, TypeOK, lists
<1>4. CASE ParseOk(t)
  <2>1. Parsed[frame[t].src] \in Values
    BY <1>4, <1>1, ConstantsAssumption DEF ParseOk, FrameOK, At
  <2>2. heap' = [heap EXCEPT ![frame[t].new].value = Parsed[frame[t].src]]
    BY <1>4 DEF ParseOk
  <2>3. heap' \in [Objects -> ObjectRecord]
    BY <2>1, <2>2 DEF TypeOK, ObjectRecord
  <2>4. pc' \in [Threads -> Steps] /\ FrameOK'
    BY <1>1, <1>2, <1>4, GotoType DEF ParseOk, TypeOK, HasItem, SetSteps
  <2> QED BY <1>4, <2>3, <2>4 DEF ParseOk, TypeOK, lists
<1>5. CASE ParseFails(t)
  <2>1. pc' \in [Threads -> Steps] /\ FrameOK'
    BY <1>1, <1>2, <1>5, GotoType DEF ParseFails, TypeOK, HasItem, SetSteps
  <2> QED BY <1>5, <2>1 DEF ParseFails, TypeOK, lists
<1>6. CASE Notify(t)
  <2>1. pc' \in [Threads -> Steps] /\ FrameOK'
    BY <1>1, <1>2, <1>6, GotoType DEF Notify, TypeOK, HasItem, SetSteps
  <2> QED BY <1>6, <2>1 DEF Notify, TypeOK, lists
<1> QED BY <1>3, <1>4, <1>5, <1>6

LEMMA ReadType ==
  ASSUME TypeOK, FrameOK, NEW t \in Threads, ReadVersion(t) \/ ReadData(t)
  PROVE  TypeOK' /\ FrameOK'
<1>1. pc[t] \in HasItem /\ frame[t].item \in Indices /\ Item(t) \in ItemRecord
  BY IndexType DEF ReadVersion, ReadData, FrameOK, At, HasItem, Item
<1>2. CASE ReadVersion(t)
  <2>1. frame' = [frame EXCEPT ![t].version = Item(t).version] /\ frame' \in [Threads -> Frame]
    BY <1>1, <1>2 DEF ReadVersion, TypeOK, Frame, ItemRecord
  <2>2. NamesKept
    BY <1>2 DEF ReadVersion, lists, NamesKept, Indices
  <2>3. pc' \in [Threads -> Steps] /\ FrameOK'
    BY <1>1, <1>2, <2>1, <2>2, GotoType DEF ReadVersion, TypeOK, Frame, HasItem, SetSteps
  <2> QED BY <1>2, <2>1, <2>3 DEF ReadVersion, TypeOK, lists
<1>3. CASE ReadData(t)
  <2>1. items' \in Seq(ItemRecord) /\ NamesKept
    BY <1>1, <1>3, UnlockUpdates DEF ReadData, Updated
  <2>2. [code |-> "OK", item |-> frame[t].item, version |-> frame[t].version,
         data |-> Item(t).data] \in Result
    BY <1>1 DEF TypeOK, Frame, ItemRecord, Result, Codes
  <2> QED BY <1>3, <2>1, <2>2, ReturnType DEF ReadData, TypeOK
<1> QED BY <1>2, <1>3

LEMMA StoreType ==
  ASSUME TypeOK, FrameOK, NEW t \in Threads, NEW f \in Fields, Store(t, f)
  PROVE  TypeOK' /\ FrameOK'
<1>1. pc[t] \in HasItem /\ frame[t].item \in Indices
  BY DEF Store, FrameOK, At, HasItem
<1>2. items' \in Seq(ItemRecord) /\ NamesKept
  BY StoreUpdates DEF Updated
<1>3. CASE frame[t].todo = {f}
  <2>1. Failure("OK") \in Result
    BY FailureTypes DEF Codes
  <2> QED BY <1>2, <1>3, <2>1, ReturnType DEF Store, TypeOK
<1>4. CASE frame[t].todo # {f}
  <2>1. frame' = [frame EXCEPT ![t].todo = @ \ {f}] /\ UNCHANGED <<pc, ret>>
    BY <1>4 DEF Store
  <2>2. frame' \in [Threads -> Frame]
    BY <2>1 DEF TypeOK, Frame
  <2>3. FrameOK'
    BY <1>2, <2>1, <2>2 DEF FrameOK, NamesKept, TypeOK, Frame, At
  <2> QED BY <1>2, <2>1, <2>2, <2>3 DEF Store, TypeOK
<1> QED BY <1>3, <1>4

\* A step of one thread, and of the broker with anything that calls it.
ThreadStep(t) == Entered(t) \/ BrokerStep(t) \/ Parse(t)
BrokerNext == UNCHANGED vars \/ Tick \/ \E t \in Threads : ThreadStep(t)

LEMMA NextEnters == TypeOK /\ [Next]_vars => BrokerNext
BY CallEnters DEF Next, Finished, BrokerNext, ThreadStep

\* Types and frames are preserved by every step.
LEMMA TypeNext ==
  ASSUME TypeOK, FrameOK, BrokerNext
  PROVE  TypeOK' /\ FrameOK'
<1>1. CASE UNCHANGED vars
  BY <1>1 DEF vars, TypeOK, FrameOK, At, Indices
<1>2. CASE Tick
  BY <1>2 DEF Tick, TypeOK, FrameOK, At, Indices, lists
<1>3. ASSUME NEW t \in Threads, ThreadStep(t)
      PROVE  TypeOK' /\ FrameOK'
  BY <1>3, EnteredType, FindType, SearchType, CreateType, CreateFailsType, LockType,
     SetReturnsType, SetItemStepsType, ObjectStepsType, ReadType, StoreType
     DEF ThreadStep, BrokerStep, Parse, FindStep, SetStep, OtherStep
<1> QED BY <1>1, <1>2, <1>3 DEF BrokerNext

LEMMA TypeInit ==
  ASSUME Init
  PROVE  TypeOK /\ FrameOK
<1>1. Indices = {} /\ items \in Seq(ItemRecord)
  BY DEF Init, Quiet, Indices
<1>2. UnusedObject \in ObjectRecord
  BY DEF UnusedObject, ObjectRecord
<1>3. Failure("FAIL") \in Result
  BY FailureTypes DEF Codes
<1>4. \A n \in Names : 0 - Interval[n] \in Int
  BY ConstantsAssumption
<1>5. TypeOK
  BY <1>1, <1>2, <1>3, <1>4, FrameTypes, ConstantsAssumption DEF Init, Quiet, TypeOK, Steps
<1>6. FrameOK
  BY DEF Init, Quiet, FrameOK, At, HasItem, SetSteps
<1> QED BY <1>5, <1>6

\* Every variable has its type in every reachable state.
THEOREM TypeCorrect == Spec => []TypeOK
<1>1. Init => TypeOK /\ FrameOK
  BY TypeInit
<1>2. TypeOK /\ FrameOK /\ [Next]_vars => (TypeOK /\ FrameOK)'
  BY TypeNext, NextEnters
<1> QED BY <1>1, <1>2, PTL DEF Spec

-----------------------------------------------------------------------------
(* What a step of one thread leaves alone *)

Typed == TypeOK /\ FrameOK

\* The locals, the step and the answer of every other thread.
OthersKept(t) ==
  \A u \in Threads : u # t => pc'[u] = pc[u] /\ frame'[u] = frame[u] /\ ret'[u] = ret[u]

LEMMA OthersUntouched ==
  ASSUME TypeOK, NEW t \in Threads, ThreadStep(t)
  PROVE  OthersKept(t)
<1> USE DEF TypeOK, OthersKept, Goto, Return
<1>1. CASE Entered(t)
  BY <1>1 DEF Entered, Enter
<1>2. CASE Find(t) \/ Create(t) \/ CreateFails(t) \/ Lock(t)
  BY <1>2 DEF Find, Create, CreateFails, Lock
<1>3. CASE Search(t)
  BY <1>3 DEF Search
<1>4. CASE NoParser(t) \/ Busy(t) \/ MallocFails(t) \/ Discard(t) \/ FreeOld(t)
  BY <1>4 DEF NoParser, Busy, MallocFails, Discard, FreeOld, Refused
<1>5. CASE Attempt(t) \/ Malloc(t) \/ Publish(t) \/ Bump(t) \/ Notify(t) \/ Parse(t)
  BY <1>5 DEF Attempt, Malloc, Publish, Bump, Notify, Parse, ParseOk, ParseFails
<1>6. CASE ReadVersion(t) \/ ReadData(t)
  BY <1>6 DEF ReadVersion, ReadData
<1>7. CASE \E f \in Fields : Store(t, f)
  BY <1>7 DEF Store
<1> QED
  BY <1>1, <1>2, <1>3, <1>4, <1>5, <1>6, <1>7
     DEF ThreadStep, BrokerStep, FindStep, SetStep, OtherStep

\* Only Create changes which items there are.
LEMMA SameList ==
  ASSUME Typed, NEW t \in Threads, ThreadStep(t), ~Create(t)
  PROVE  Indices' = Indices /\ NamesKept
<1> USE DEF Typed
<1>1. CASE UNCHANGED items
  BY <1>1 DEF NamesKept, Indices
<1>2. CASE Lock(t)
  BY <1>2, LockUpdates DEF Updated
<1>3. CASE pc[t] \in HasItem /\ Unlock(t)
  BY <1>3, UnlockUpdates DEF Updated
<1>4. CASE Attempt(t) \/ Publish(t) \/ Bump(t)
  BY <1>4, AttemptUpdates, PublishUpdates, BumpUpdates DEF Updated
<1>5. CASE \E f \in Fields : Store(t, f)
  BY <1>5, StoreUpdates DEF Updated
<1>6. ASSUME NoParser(t) \/ Busy(t) \/ MallocFails(t) \/ Discard(t) \/ FreeOld(t) \/ ReadData(t)
      PROVE  pc[t] \in HasItem /\ Unlock(t)
  BY <1>6 DEF NoParser, Busy, MallocFails, Discard, FreeOld, ReadData, Refused, At, HasItem, SetSteps
<1>7. ASSUME Entered(t) \/ Find(t) \/ Search(t) \/ CreateFails(t) \/ Malloc(t) \/ Notify(t)
             \/ Parse(t) \/ ReadVersion(t)
      PROVE  UNCHANGED items
  BY <1>7 DEF Entered, Enter, Find, Search, CreateFails, Malloc, Notify, Parse, ParseOk, ParseFails,
              ReadVersion, lists
<1> QED
  BY <1>1, <1>2, <1>3, <1>4, <1>5, <1>6, <1>7
     DEF ThreadStep, BrokerStep, FindStep, SetStep, OtherStep

\* The same names match, whatever happens to their items.
LEMMA SameMatches ==
  ASSUME Indices' = Indices, NamesKept
  PROVE  \A n : Matches(n)' = Matches(n)
BY DEF Matches, NamesKept

-----------------------------------------------------------------------------
(* The list: its lock, and one item for each name *)

ListOK == FindLocked /\ CreateOK /\ UniqueNames

\* Steps outside find_or_create_config leave its lock alone and do not enter it.
LEMMA OutsideFind ==
  ASSUME TypeOK, NEW t \in Threads,
         Entered(t) \/ Lock(t) \/ SetStep(t) \/ OtherStep(t) \/ Parse(t)
  PROVE  /\ findLock' = findLock
         /\ pc'[t] \notin {"search", "create"}
         /\ ~Create(t)
<1> USE DEF TypeOK, Goto, Return, At, lists
<1>1. CASE Entered(t)
  BY <1>1 DEF Entered, Enter, Create
<1>2. CASE Lock(t)
  BY <1>2 DEF Lock, Create
<1>3. CASE NoParser(t) \/ Busy(t) \/ MallocFails(t) \/ Discard(t) \/ FreeOld(t)
  BY <1>3 DEF NoParser, Busy, MallocFails, Discard, FreeOld, Refused, Create
<1>4. CASE Attempt(t) \/ Malloc(t) \/ Publish(t) \/ Bump(t) \/ Notify(t) \/ Parse(t)
  BY <1>4 DEF Attempt, Malloc, Publish, Bump, Notify, Parse, ParseOk, ParseFails, Create
<1>5. CASE ReadVersion(t) \/ ReadData(t)
  BY <1>5 DEF ReadVersion, ReadData, Create
<1>6. CASE \E f \in Fields : Store(t, f)
  BY <1>6 DEF Store, Create
<1> QED
  BY <1>1, <1>2, <1>3, <1>4, <1>5, <1>6 DEF SetStep, OtherStep

LEMMA ListNext ==
  ASSUME Typed, ListOK, BrokerNext
  PROVE  ListOK'
<1> USE DEF ListOK, FindLocked, CreateOK, UniqueNames
<1>1. CASE UNCHANGED vars \/ Tick
  BY <1>1 DEF vars, Tick, lists, At, Matches, Indices
<1>2. ASSUME NEW t \in Threads, ThreadStep(t)
      PROVE  ListOK'
  <2>1. OthersKept(t)
    BY <1>2, OthersUntouched DEF Typed
  <2>2. ASSUME ~Create(t)
        PROVE  Indices' = Indices /\ NamesKept /\ \A n : Matches(n)' = Matches(n)
    BY <1>2, <2>2, SameList, SameMatches
  <2>3. t # None /\ pc \in [Threads -> Steps]
    BY ConstantsAssumption DEF Typed, TypeOK
  <2>4. CASE Entered(t) \/ Lock(t) \/ SetStep(t) \/ OtherStep(t) \/ Parse(t)
    <3>1. findLock' = findLock /\ pc'[t] \notin {"search", "create"} /\ ~Create(t)
      BY <2>4, OutsideFind DEF Typed
    <3> QED
      BY <2>1, <2>2, <3>1 DEF OthersKept, At, NamesKept
  <2>5. CASE Find(t)
    <3>1. findLock = None /\ findLock' = t /\ pc'[t] = "search" /\ ~Create(t)
      BY <2>3, <2>5 DEF Find, Goto, Create, At
    <3>2. \A u \in Threads : pc[u] \notin {"search", "create"}
      BY <3>1, ConstantsAssumption
    <3> QED
      BY <2>1, <2>2, <3>1, <3>2 DEF OthersKept, At, NamesKept
  <2>6. CASE Search(t)
    <3>1. findLock = t /\ ~Create(t)
      BY <2>6 DEF Search, Create, At
    <3>2. \A u \in Threads : u # t => pc[u] \notin {"search", "create"}
      BY <3>1
    <3>3. CASE Matches(frame[t].name) # {}
      <4>1. pc'[t] \notin {"search", "create"}
        BY <2>3, <2>6, <3>3 DEF Search, Goto, AfterFind
      <4> QED
        BY <2>1, <2>2, <3>1, <3>2, <4>1 DEF OthersKept, At, NamesKept
    <3>4. CASE Matches(frame[t].name) = {}
      <4>1. pc'[t] = "create" /\ findLock' = findLock /\ frame' = frame
        BY <2>3, <2>6, <3>4 DEF Search, Goto
      <4> QED
        BY <2>1, <2>2, <3>1, <3>2, <3>4, <4>1 DEF OthersKept, At, NamesKept
    <3> QED BY <3>3, <3>4
  <2>7. CASE Create(t)
    <3>1. findLock = t /\ Matches(frame[t].name) = {}
      BY <2>7 DEF Create, At
    <3>2. \A u \in Threads : u # t => pc[u] \notin {"search", "create"}
      BY <3>1
    <3>3. pc'[t] \notin {"search", "create"}
      BY <2>3, <2>7 DEF Create, Goto, AfterFind
    <3>4. /\ Indices' = Indices \cup {Len(items) + 1}
          /\ items'[Len(items) + 1] = Created(t)
          /\ \A j \in Indices : items'[j] = items[j]
      BY <2>7, CreateEffect, AppendType DEF Typed
    <3>5. \A j \in Indices : items[j].name # Created(t).name
      BY <3>1 DEF Matches, Created
    <3>6. UniqueNames'
      BY <3>4, <3>5
    <3> QED
      BY <2>1, <3>2, <3>3, <3>6 DEF OthersKept, At
  <2>8. CASE CreateFails(t)
    <3>1. findLock = t /\ ~Create(t) /\ pc'[t] = "idle"
      BY <2>3, <2>8 DEF CreateFails, Create, At, Return, Goto
    <3>2. \A u \in Threads : u # t => pc[u] \notin {"search", "create"}
      BY <3>1
    <3> QED
      BY <2>1, <2>2, <2>8, <3>1, <3>2 DEF OthersKept, At, NamesKept
  <2> QED
    BY <1>2, <2>4, <2>5, <2>6, <2>7, <2>8 DEF ThreadStep, BrokerStep, FindStep
<1> QED BY <1>1, <1>2 DEF BrokerNext

LEMMA ListInit ==
  ASSUME Init
  PROVE  ListOK
BY DEF Init, Quiet, ListOK, FindLocked, CreateOK, UniqueNames, Indices, At

\* Two calls that need the same missing item never both create it.
THEOREM NoDuplicateItems == Spec => []UniqueNames
<1>1. Init => Typed /\ ListOK
  BY TypeInit, ListInit DEF Typed
<1>2. Typed /\ ListOK /\ [Next]_vars => (Typed /\ ListOK)'
  BY TypeNext, ListNext, NextEnters DEF Typed
<1>3. Typed /\ ListOK => UniqueNames
  BY DEF ListOK
<1> QED BY <1>1, <1>2, <1>3, PTL DEF Spec

-----------------------------------------------------------------------------
(* The locks of the items *)

\* In a critical section of an item the thread holds its lock, so no other
\* thread is in one.
LEMMA Exclusive ==
  ASSUME Typed, ListOK, ItemLocked, NEW t \in Threads, NEW u \in Threads,
         pc[t] \in Critical, pc[u] \in Critical, t # u
  PROVE  frame[t].item # frame[u].item /\ frame[t].name # frame[u].name
<1>1. frame[t].item # frame[u].item
  BY DEF ItemLocked
<1>2. pc[t] \in HasItem /\ pc[u] \in HasItem
  BY DEF Critical
<1> QED
  BY <1>1, <1>2 DEF Typed, FrameOK, ListOK, UniqueNames

\* What a step of t may do to the locks: take a free one, release its own.
LEMMA LockSteps ==
  ASSUME Typed, ItemLocked, NEW t \in Threads, ThreadStep(t), NEW j \in Indices
  PROVE  /\ j \in Indices'
         /\ \/ items'[j].lock = items[j].lock
            \/ j = frame[t].item /\ items[j].lock \in {None, t}
<1> USE DEF Typed
<1>1. CASE UNCHANGED items
  BY <1>1 DEF Indices
<1>2. CASE Lock(t)
  BY <1>2, LockUpdates DEF Lock, Updated, Item
<1>3. CASE pc[t] \in Critical /\ Unlock(t)
  BY <1>3, UnlockUpdates DEF Critical, ItemLocked, Updated
<1>4. ASSUME NEW r, Updated(t, r), r.lock = Item(t).lock
      PROVE  j \in Indices' /\ items'[j].lock = items[j].lock
  BY <1>4 DEF Updated, Item
<1>5. CASE Attempt(t) \/ Publish(t) \/ Bump(t)
  <2>1. Item(t) \in ItemRecord
    BY <1>5, HasItemType DEF Attempt, Publish, Bump, At, HasItem, SetSteps
  <2> QED
    BY <1>4, <1>5, <2>1, AttemptUpdates, PublishUpdates, BumpUpdates DEF ItemRecord
<1>6. CASE \E f \in Fields : Store(t, f)
  <2>1. Item(t) \in ItemRecord
    BY <1>6, HasItemType DEF Store, At, HasItem
  <2> QED
    BY <1>4, <1>6, <2>1, StoreUpdates DEF ItemRecord
<1>7. CASE Create(t)
  BY <1>7, CreateEffect, AppendType
<1>8. ASSUME NoParser(t) \/ Busy(t) \/ MallocFails(t) \/ Discard(t) \/ FreeOld(t) \/ ReadData(t)
      PROVE  pc[t] \in Critical /\ Unlock(t)
  BY <1>8 DEF NoParser, Busy, MallocFails, Discard, FreeOld, ReadData, Refused, At, Critical,
              HasItem, SetSteps
<1>9. ASSUME Entered(t) \/ Find(t) \/ Search(t) \/ CreateFails(t) \/ Malloc(t) \/ Notify(t)
             \/ Parse(t) \/ ReadVersion(t)
      PROVE  UNCHANGED items
  BY <1>9 DEF Entered, Enter, Find, Search, CreateFails, Malloc, Notify, Parse, ParseOk, ParseFails,
              ReadVersion, lists
<1> QED
  BY <1>1, <1>2, <1>3, <1>5, <1>6, <1>7, <1>8, <1>9
     DEF ThreadStep, BrokerStep, FindStep, SetStep, OtherStep

\* A step into a critical section takes the lock or already has it.
LEMMA CriticalSteps ==
  ASSUME Typed, ItemLocked, NEW t \in Threads, ThreadStep(t), pc'[t] \in Critical
  PROVE  items'[frame'[t].item].lock = t
<1> USE DEF Typed
<1>1. Entered(t) => pc'[t] \notin Critical
  BY DEF Entered, Enter, Goto, Return, TypeOK, Critical, HasItem, SetSteps
<1>2. Find(t) \/ Search(t) \/ Create(t) \/ CreateFails(t) => pc'[t] \notin Critical
  BY DEF Find, Search, Create, CreateFails, AfterFind, Goto, Return, TypeOK, Critical, HasItem, SetSteps
<1>3. NoParser(t) \/ Busy(t) \/ MallocFails(t) \/ Discard(t) \/ FreeOld(t) \/ ReadData(t)
        => pc'[t] \notin Critical
  BY DEF NoParser, Busy, MallocFails, Discard, FreeOld, ReadData, Refused, Goto, Return, TypeOK,
         Critical, HasItem, SetSteps
<1>4. (\E f \in Fields : Store(t, f)) => pc'[t] \notin Critical
  BY DEF Store, Goto, Return, At, TypeOK, Critical, HasItem, SetSteps
<1>5. CASE Lock(t)
  <2>1. Item(t) \in ItemRecord /\ frame' = frame
    BY <1>5, HasItemType DEF Lock, At, HasItem
  <2> QED
    BY <1>5, <2>1, LockUpdates DEF Updated, ItemRecord
<1>6. CASE Attempt(t) \/ Publish(t) \/ Bump(t)
  <2>1. pc[t] \in Critical /\ pc[t] \in HasItem /\ frame'[t].item = frame[t].item
    BY <1>6 DEF Attempt, Publish, Bump, At, Critical, HasItem, SetSteps, TypeOK, Frame
  <2>2. Item(t) \in ItemRecord /\ Item(t).lock = t
    BY <2>1, HasItemType DEF ItemLocked, Item
  <2>3. CASE Attempt(t)
    BY <2>1, <2>2, <2>3, AttemptUpdates DEF Updated, ItemRecord
  <2>4. CASE Publish(t)
    BY <2>1, <2>2, <2>4, PublishUpdates DEF Updated, ItemRecord
  <2>5. CASE Bump(t)
    BY <2>1, <2>2, <2>5, BumpUpdates DEF Updated, ItemRecord
  <2> QED BY <1>6, <2>3, <2>4, <2>5
<1>7. CASE Malloc(t) \/ Notify(t) \/ Parse(t) \/ ReadVersion(t)
  <2>1. pc[t] \in Critical /\ frame'[t].item = frame[t].item /\ items' = items
    BY <1>7 DEF Malloc, Notify, Parse, ParseOk, ParseFails, ReadVersion, At, Critical, HasItem,
                SetSteps, TypeOK, Frame, lists
  <2> QED
    BY <2>1 DEF ItemLocked
<1> QED
  BY <1>1, <1>2, <1>3, <1>4, <1>5, <1>6, <1>7
     DEF ThreadStep, BrokerStep, FindStep, SetStep, OtherStep

LEMMA LocksNext ==
  ASSUME Typed, ItemLocked, BrokerNext
  PROVE  ItemLocked'
<1>1. CASE UNCHANGED vars \/ Tick
  BY <1>1 DEF vars, Tick, lists, ItemLocked
<1>2. ASSUME NEW t \in Threads, ThreadStep(t)
      PROVE  ItemLocked'
  <2> SUFFICES ASSUME NEW u \in Threads, pc'[u] \in Critical
               PROVE  items'[frame'[u].item].lock = u
    BY DEF ItemLocked
  <2>1. CASE u = t
    BY <1>2, <2>1, CriticalSteps
  <2>2. CASE u # t
    <3>1. pc'[u] = pc[u] /\ frame'[u] = frame[u]
      BY <1>2, <2>2, OthersUntouched DEF OthersKept, Typed
    <3>2. frame[u].item \in Indices /\ items[frame[u].item].lock = u
      BY <3>1 DEF ItemLocked, Typed, FrameOK, Critical
    <3>3. u # None
      BY ConstantsAssumption
    <3> QED
      BY <1>2, <2>2, <3>1, <3>2, <3>3, LockSteps
  <2> QED BY <2>1, <2>2
<1> QED BY <1>1, <1>2 DEF BrokerNext

LEMMA LocksInit ==
  ASSUME Init
  PROVE  ItemLocked
BY DEF Init, Quiet, ItemLocked, Critical, HasItem, SetSteps

\* From the lock of an item to the return, no other thread is in set_config or
\* get_config of that item.
THEOREM MutualExclusion ==
  Spec => [](\A t, u \in Threads :
               t # u /\ pc[t] \in Critical /\ pc[u] \in Critical
                 => frame[t].item # frame[u].item)
<1> DEFINE Safe == \A t, u \in Threads :
                     t # u /\ pc[t] \in Critical /\ pc[u] \in Critical
                       => frame[t].item # frame[u].item
<1>1. Init => Typed /\ ListOK /\ ItemLocked
  BY TypeInit, ListInit, LocksInit DEF Typed
<1>2. Typed /\ ListOK /\ ItemLocked /\ [Next]_vars => (Typed /\ ListOK /\ ItemLocked)'
  BY TypeNext, ListNext, LocksNext, NextEnters DEF Typed
<1>3. Typed /\ ListOK /\ ItemLocked => Safe
  BY Exclusive
<1> QED BY <1>1, <1>2, <1>3, PTL DEF Spec

-----------------------------------------------------------------------------
(* PART 2: what an item points to, what a call has in hand, how many objects there are *)

-----------------------------------------------------------------------------
(* The objects *)

HeapOK == NewOK /\ OldOK /\ PublishedParsed /\ Accounted

\* The steps that neither have an object in hand afterwards nor touch the heap
\* or the data of an item.
Plain(t) ==
  \/ Entered(t) \/ Find(t) \/ Search(t) \/ CreateFails(t) \/ Lock(t)
  \/ NoParser(t) \/ Busy(t) \/ Attempt(t) \/ MallocFails(t)
  \/ ReadVersion(t) \/ ReadData(t) \/ \E f \in Fields : Store(t, f)

LEMMA PlainSteps ==
  ASSUME Typed, NEW t \in Threads, Plain(t)
  PROVE  /\ heap' = heap
         /\ pc'[t] \notin HasNew \cup HasOld /\ pc[t] \notin HasNew \cup HasOld
         /\ \A j \in Indices : items'[j].data = items[j].data
<1> USE DEF Typed
<1>1. heap' = heap
  BY DEF Plain, Entered, Enter, Find, Search, CreateFails, Lock, NoParser, Busy, Attempt, MallocFails,
         ReadVersion, ReadData, Store
<1>2. pc[t] \notin HasNew \cup HasOld
  BY DEF Plain, Entered, Enter, Find, Search, CreateFails, Lock, NoParser, Busy, Attempt, MallocFails,
         ReadVersion, ReadData, Store, At, HasNew, HasOld
<1>3. pc'[t] \notin HasNew \cup HasOld
  <2> USE DEF Goto, Return, HasNew, HasOld, TypeOK
  <2>1. CASE Entered(t) \/ Find(t) \/ Search(t) \/ CreateFails(t) \/ Lock(t)
    BY <2>1 DEF Entered, Enter, Find, Search, AfterFind, CreateFails, Lock
  <2>2. CASE NoParser(t) \/ Busy(t) \/ Attempt(t) \/ MallocFails(t)
    BY <2>2 DEF NoParser, Busy, Attempt, MallocFails, Refused
  <2>3. CASE ReadVersion(t) \/ ReadData(t) \/ \E f \in Fields : Store(t, f)
    BY <2>3 DEF ReadVersion, ReadData, Store, At
  <2> QED BY <2>1, <2>2, <2>3 DEF Plain
<1>4. ASSUME NEW r, Updated(t, r), r.data = Item(t).data
      PROVE  \A j \in Indices : items'[j].data = items[j].data
  BY <1>4 DEF Updated, Item
<1>5. CASE Entered(t) \/ Find(t) \/ Search(t) \/ CreateFails(t) \/ ReadVersion(t)
  <2>1. items' = items
    BY <1>5 DEF Entered, Enter, Find, Search, CreateFails, ReadVersion, lists
  <2> QED BY <1>1, <1>2, <1>3, <2>1
<1>6. CASE Lock(t)
  <2>1. Item(t) \in ItemRecord
    BY <1>6, HasItemType DEF Lock, At, HasItem
  <2>2. [Item(t) EXCEPT !.lock = t].data = Item(t).data
    BY <2>1 DEF ItemRecord
  <2> QED BY <1>1, <1>2, <1>3, <1>4, <1>6, <2>2, LockUpdates
<1>7. CASE NoParser(t) \/ Busy(t) \/ MallocFails(t) \/ ReadData(t)
  <2>1. pc[t] \in HasItem /\ Unlock(t)
    BY <1>7 DEF NoParser, Busy, MallocFails, ReadData, Refused, At, HasItem, SetSteps
  <2>2. Item(t) \in ItemRecord
    BY <2>1, HasItemType
  <2>3. [Item(t) EXCEPT !.lock = None].data = Item(t).data
    BY <2>2 DEF ItemRecord
  <2> QED BY <1>1, <1>2, <1>3, <1>4, <2>1, <2>3, UnlockUpdates
<1>8. CASE Attempt(t)
  <2>1. Item(t) \in ItemRecord
    BY <1>8, HasItemType DEF Attempt, At, HasItem, SetSteps
  <2>2. [Item(t) EXCEPT !.nextUpdate = clock + MinTicks(t)].data = Item(t).data
    BY <2>1 DEF ItemRecord
  <2> QED BY <1>1, <1>2, <1>3, <1>4, <1>8, <2>2, AttemptUpdates
<1>9. ASSUME NEW f \in Fields, Store(t, f)
      PROVE  \A j \in Indices : items'[j].data = items[j].data
  <2>1. Item(t) \in ItemRecord
    BY <1>9, HasItemType DEF Store, At, HasItem
  <2>2. [Item(t) EXCEPT !.stored = Item(t).stored \cup {f}].data = Item(t).data
    BY <2>1 DEF ItemRecord
  <2> QED BY <1>4, <1>9, <2>2, StoreUpdates
<1> QED
  BY <1>1, <1>2, <1>3, <1>5, <1>6, <1>7, <1>8, <1>9 DEF Plain

\* The steps that return an object to the allocator.
LEMMA FreeSteps ==
  ASSUME Typed, HeapOK, NEW t \in Threads, Discard(t) \/ FreeOld(t)
  PROVE  /\ pc'[t] = "idle" /\ Updated(t, [Item(t) EXCEPT !.lock = None])
         /\ Item(t) \in ItemRecord
         /\ Discard(t) => heap' = Free(frame[t].new) /\ InHand(t, frame[t].new)
         /\ FreeOld(t) => \/ frame[t].old = Null /\ heap' = heap
                          \/ heap' = Free(frame[t].old) /\ InHand(t, frame[t].old)
<1> USE DEF Typed
<1>1. pc[t] \in HasItem /\ Unlock(t) /\ pc'[t] = "idle"
  BY DEF Discard, FreeOld, Refused, Return, Goto, At, HasItem, SetSteps, TypeOK
<1>2. Updated(t, [Item(t) EXCEPT !.lock = None]) /\ Item(t) \in ItemRecord
  BY <1>1, UnlockUpdates, HasItemType
<1> QED
  BY <1>1, <1>2 DEF Discard, FreeOld, HeapOK, NewOK, OldOK, HasNew, HasOld, At

\* A step of t changes objects that were unused, or that t has in hand.
LEMMA HeapSteps ==
  ASSUME Typed, HeapOK, NEW t \in Threads, ThreadStep(t), NEW o \in Objects
  PROVE  \/ heap'[o] = heap[o]
         \/ heap[o].state = "unused" /\ Malloc(t)
         \/ pc[t] \in Critical /\ InHand(t, o)
<1> USE DEF Typed, TypeOK
<1>1. CASE Plain(t)
  BY <1>1, PlainSteps
<1>2. CASE Create(t) \/ ParseFails(t) \/ Publish(t) \/ Bump(t) \/ Notify(t)
  BY <1>2 DEF Create, ParseFails, Publish, Bump, Notify
<1>3. CASE Malloc(t)
  BY <1>3 DEF Malloc
<1>4. CASE ParseOk(t)
  BY <1>4 DEF ParseOk, HeapOK, NewOK, At, HasNew, Critical, HasItem, SetSteps
<1>5. CASE Discard(t) \/ FreeOld(t)
  <2>1. pc[t] \in Critical
    BY <1>5 DEF Discard, FreeOld, At, Critical, HasItem, SetSteps
  <2> QED BY <1>5, <2>1, FreeSteps DEF Free
<1> QED
  BY <1>1, <1>2, <1>3, <1>4, <1>5
     DEF ThreadStep, BrokerStep, FindStep, SetStep, OtherStep, Parse, Plain

\* A step of t changes the data of an item only by publishing to it.
LEMMA DataSteps ==
  ASSUME Typed, HeapOK, NEW t \in Threads, ThreadStep(t), NEW j \in Indices
  PROVE  /\ j \in Indices' /\ items'[j].name = items[j].name
         /\ items'[j].data = items[j].data \/ (Publish(t) /\ j = frame[t].item)
<1> USE DEF Typed
<1>1. j \in Indices' /\ items'[j].name = items[j].name
  <2>1. CASE Create(t)
    BY <2>1, CreateEffect, AppendType
  <2>2. CASE ~Create(t)
    BY <2>2, SameList DEF NamesKept
  <2> QED BY <2>1, <2>2
<1>2. CASE Plain(t)
  BY <1>1, <1>2, PlainSteps
<1>3. CASE Create(t)
  BY <1>1, <1>3, CreateEffect, AppendType
<1>4. CASE Malloc(t) \/ Parse(t) \/ Notify(t)
  BY <1>1, <1>4 DEF Malloc, Parse, ParseOk, ParseFails, Notify, lists
<1>5. CASE Publish(t)
  BY <1>1, <1>5, PublishUpdates DEF Updated
<1>6. CASE Bump(t)
  <2>1. Item(t) \in ItemRecord
    BY <1>6, HasItemType DEF Bump, At, HasItem, SetSteps
  <2> QED BY <1>1, <1>6, <2>1, BumpUpdates DEF Updated, Item, ItemRecord
<1>7. CASE Discard(t) \/ FreeOld(t)
  <2>1. Updated(t, [Item(t) EXCEPT !.lock = None]) /\ Item(t) \in ItemRecord
    BY <1>7, FreeSteps
  <2>2. [Item(t) EXCEPT !.lock = None].data = Item(t).data
    BY <2>1 DEF ItemRecord
  <2> QED BY <1>1, <2>1, <2>2 DEF Updated, Item
<1> QED
  BY <1>2, <1>3, <1>4, <1>5, <1>6, <1>7
     DEF ThreadStep, BrokerStep, FindStep, SetStep, OtherStep, Plain

\* What another thread has in hand is out of reach of t.
LEMMA InHandKept ==
  ASSUME Typed, ListOK, ItemLocked, HeapOK, NEW t \in Threads, ThreadStep(t),
         NEW u \in Threads, u # t, pc[u] \in Critical, NEW o, InHand(u, o)
  PROVE  InHand(u, o)' /\ heap'[o] = heap[o]
<1>1. frame'[u] = frame[u]
  BY OthersUntouched DEF OthersKept, Typed
<1>2. pc[t] \in Critical => frame[t].item # frame[u].item /\ frame[t].name # frame[u].name
  BY Exclusive
<1>3. heap'[o] = heap[o]
  BY <1>2, HeapSteps DEF InHand
<1>4. frame[u].item \in Indices
  BY DEF Typed, FrameOK, Critical
<1>5. Publish(t) => pc[t] \in Critical
  BY DEF Publish, At, Critical, HasItem, SetSteps
<1>6. items'[frame[u].item].data = items[frame[u].item].data
  BY <1>2, <1>4, <1>5, DataSteps
<1> QED
  BY <1>1, <1>3, <1>6 DEF InHand

\* What t has in hand after its own step.
OwnHand(t) ==
  /\ pc[t] \in HasNew => InHand(t, frame[t].new)
  /\ At(t, "publish") => heap[frame[t].new].sized /\ heap[frame[t].new].value # Blank
  /\ pc[t] \in HasOld /\ frame[t].old # Null => InHand(t, frame[t].old)

LEMMA OwnHandNext ==
  ASSUME Typed, HeapOK, NEW t \in Threads, ThreadStep(t)
  PROVE  OwnHand(t)'
<1> USE DEF Typed
<1>1. CASE Plain(t)
  BY <1>1, PlainSteps DEF OwnHand, At, HasNew, HasOld
<1>2. CASE Create(t)
  <2>1. pc'[t] \notin HasNew \cup HasOld
    BY <1>2 DEF Create, Goto, AfterFind, TypeOK, HasNew, HasOld
  <2> QED BY <2>1 DEF OwnHand, At, HasNew, HasOld
<1>3. CASE Malloc(t)
  <2>1. frame[t].item \in Indices /\ items[frame[t].item].name = frame[t].name
    BY <1>3 DEF Malloc, At, FrameOK, HasItem, SetSteps
  <2>2. PICK o \in Objects :
          /\ heap[o].state = "unused"
          /\ heap' = [heap EXCEPT ![o] = [state |-> "owned", name |-> Item(t).name,
                                          sized |-> "size" \in Item(t).stored, value |-> Blank]]
          /\ frame' = [frame EXCEPT ![t].new = o]
    BY <1>3 DEF Malloc
  <2>3. items[frame[t].item].data # o
    BY <2>1, <2>2 DEF HeapOK, PublishedParsed, Objects, Null
  <2>4. heap'[o].state = "owned" /\ heap'[o].name = frame[t].name
    BY <2>1, <2>2 DEF TypeOK, Item
  <2>5. /\ frame'[t].new = o /\ frame'[t].name = frame[t].name
        /\ frame'[t].item = frame[t].item
    BY <2>2 DEF TypeOK, Frame
  <2>6. pc'[t] = "parse" /\ items' = items
    BY <1>3 DEF Malloc, Goto, TypeOK, lists
  <2> QED
    BY <2>2, <2>3, <2>4, <2>5, <2>6 DEF OwnHand, InHand, At, HasNew, HasOld
<1>4. CASE ParseOk(t)
  <2>1. InHand(t, frame[t].new)
    BY <1>4 DEF ParseOk, At, HeapOK, NewOK, HasNew
  <2>2. /\ heap' = [heap EXCEPT ![frame[t].new].value = Parsed[frame[t].src]]
        /\ heap[frame[t].new].sized /\ items' = items /\ frame' = frame /\ pc'[t] = "publish"
    BY <1>4 DEF ParseOk, Goto, TypeOK, lists
  <2>3. Parsed[frame[t].src] # Blank
    BY <1>4, ConstantsAssumption DEF ParseOk, FrameOK, At, SetSteps
  <2>4. /\ heap'[frame[t].new].state = "owned" /\ heap'[frame[t].new].name = frame[t].name
        /\ heap'[frame[t].new].sized /\ heap'[frame[t].new].value # Blank
    BY <2>1, <2>2, <2>3 DEF InHand, TypeOK, ObjectRecord
  <2> QED
    BY <2>1, <2>2, <2>4 DEF OwnHand, InHand, At, HasNew, HasOld
<1>5. CASE ParseFails(t)
  <2>1. InHand(t, frame[t].new)
    BY <1>5 DEF ParseFails, At, HeapOK, NewOK, HasNew
  <2>2. heap' = heap /\ items' = items /\ frame' = frame /\ pc'[t] = "discard"
    BY <1>5 DEF ParseFails, Goto, TypeOK, lists
  <2> QED
    BY <2>1, <2>2 DEF OwnHand, InHand, At, HasNew, HasOld
<1>6. CASE Publish(t)
  <2>1. InHand(t, frame[t].new)
    BY <1>6 DEF Publish, At, HeapOK, NewOK, HasNew
  <2>2. frame[t].item \in Indices /\ items[frame[t].item].name = frame[t].name
    BY <1>6 DEF Publish, At, FrameOK, HasItem, SetSteps
  <2>3. /\ frame' = [frame EXCEPT ![t].old = Item(t).data] /\ heap' = heap /\ pc'[t] = "bump"
    BY <1>6 DEF Publish, Goto, TypeOK
  <2>4. /\ frame'[t].old = Item(t).data /\ frame'[t].name = frame[t].name
        /\ frame'[t].item = frame[t].item
    BY <2>3 DEF TypeOK, Frame
  <2>5. items'[frame[t].item].data = frame[t].new
    BY <1>6, <2>2, PublishUpdates, IndexType DEF Updated, Item, ItemRecord
  <2>6. Item(t).data # Null =>
          /\ Item(t).data \in Objects
          /\ heap[Item(t).data].state = "owned" /\ heap[Item(t).data].name = frame[t].name
          /\ Item(t).data # frame[t].new
    BY <2>1, <2>2, IndexType DEF HeapOK, PublishedParsed, Item, ItemRecord, Pointers, InHand
  <2> QED
    BY <2>3, <2>4, <2>5, <2>6 DEF OwnHand, InHand, At, HasNew, HasOld
<1>7. CASE Bump(t) \/ Notify(t)
  <2>1. frame[t].old # Null => InHand(t, frame[t].old)
    BY <1>7 DEF Bump, Notify, At, HeapOK, OldOK, HasOld
  <2>2. heap' = heap /\ frame' = frame /\ pc'[t] \in {"notify", "free"} /\ ~Publish(t)
    BY <1>7 DEF Bump, Notify, Publish, At, Goto, TypeOK
  <2>3. frame[t].item \in Indices
    BY <1>7 DEF Bump, Notify, At, FrameOK, HasItem, SetSteps
  <2>4. items'[frame[t].item].data = items[frame[t].item].data
    BY <2>2, <2>3, DataSteps
  <2> QED
    BY <2>1, <2>2, <2>4 DEF OwnHand, InHand, At, HasNew, HasOld
<1>8. CASE Discard(t) \/ FreeOld(t)
  BY <1>8, FreeSteps DEF OwnHand, At, HasNew, HasOld
<1> QED
  BY <1>1, <1>2, <1>3, <1>4, <1>5, <1>6, <1>7, <1>8
     DEF ThreadStep, BrokerStep, FindStep, SetStep, OtherStep, Parse, Plain

\* Every object an item points to is still complete after a step of t.
LEMMA PublishedNext ==
  ASSUME Typed, ListOK, ItemLocked, HeapOK, NEW t \in Threads, ThreadStep(t)
  PROVE  PublishedParsed'
<1> SUFFICES ASSUME NEW i \in Indices', items'[i].data # Null
             PROVE  /\ heap'[items'[i].data].state = "owned"
                    /\ heap'[items'[i].data].name = items'[i].name
                    /\ heap'[items'[i].data].sized /\ heap'[items'[i].data].value # Blank
  BY DEF PublishedParsed
<1>1. i \in Indices
  <2>1. CASE Create(t)
    <3>1. /\ Indices' = Indices \cup {Len(items) + 1}
          /\ items'[Len(items) + 1] = Created(t)
      BY <2>1, CreateEffect, AppendType DEF Typed
    <3> QED BY <3>1 DEF Created
  <2>2. CASE ~Create(t)
    BY <2>2, SameList
  <2> QED BY <2>1, <2>2
<1>2. items'[i].name = items[i].name
  BY <1>1, DataSteps
<1>3. CASE items'[i].data = items[i].data
  <2> DEFINE o == items[i].data
  <2>1. o \in Objects
    BY <1>1, <1>3, IndexType DEF Typed, ItemRecord, Pointers
  <2>2. /\ heap[o].state = "owned" /\ heap[o].name = items[i].name
        /\ heap[o].sized /\ heap[o].value # Blank
    BY <1>1, <1>3 DEF HeapOK, PublishedParsed
  <2>3. ~(pc[t] \in Critical /\ InHand(t, o))
    <3> SUFFICES ASSUME pc[t] \in Critical, InHand(t, o)
                 PROVE  FALSE
      OBVIOUS
    <3>1. /\ frame[t].item \in Indices
          /\ items[frame[t].item].name = frame[t].name
      BY DEF Typed, FrameOK, Critical
    <3>2. frame[t].name = items[i].name
      BY <2>2 DEF InHand
    <3>3. frame[t].item = i
      BY <1>1, <3>1, <3>2 DEF ListOK, UniqueNames
    <3> QED BY <3>3 DEF InHand
  <2>4. heap'[o] = heap[o]
    BY <2>1, <2>2, <2>3, HeapSteps
  <2> QED BY <1>2, <1>3, <2>2, <2>4
<1>4. CASE Publish(t) /\ i = frame[t].item
  <2>1. pc[t] = "publish" /\ heap' = heap
    BY <1>4 DEF Publish, At
  <2>2. /\ InHand(t, frame[t].new)
        /\ heap[frame[t].new].sized /\ heap[frame[t].new].value # Blank
    BY <2>1 DEF HeapOK, NewOK, HasNew, At
  <2>3. items[i].name = frame[t].name
    BY <1>4, <2>1 DEF Typed, FrameOK, HasItem, SetSteps
  <2>4. Item(t) \in ItemRecord
    BY <2>1, HasItemType DEF Typed, HasItem, SetSteps
  <2>5. items'[i].data = frame[t].new
    BY <1>4, <2>4, PublishUpdates DEF Typed, Updated, ItemRecord
  <2> QED BY <1>2, <2>1, <2>2, <2>3, <2>5 DEF InHand
<1> QED
  BY <1>1, <1>3, <1>4, DataSteps

\* Who accounts for object o.
Holds(t, o) ==
  \/ frame[t].new = o /\ pc[t] \in HasNew
  \/ frame[t].old = o /\ pc[t] \in HasOld
AccountedFor(o) ==
  (\E i \in Indices : items[i].data = o) \/ (\E t \in Threads : Holds(t, o))

\* What t holds before its own step it still holds, has published or has freed.
LEMMA HoldsNext ==
  ASSUME Typed, HeapOK, NEW t \in Threads, ThreadStep(t), NEW o \in Objects,
         Holds(t, o), heap'[o].state = "owned"
  PROVE  AccountedFor(o)'
<1> USE DEF Typed
<1>1. ~Plain(t) /\ ~Create(t) /\ ~Malloc(t)
  BY PlainSteps DEF Holds, Create, Malloc, At, HasNew, HasOld
<1>2. CASE ParseOk(t) \/ ParseFails(t) \/ Bump(t) \/ Notify(t)
  <2>1. frame' = frame /\ (pc[t] \in HasNew => pc'[t] \in HasNew)
                      /\ (pc[t] \in HasOld => pc'[t] \in HasOld)
    BY <1>2 DEF ParseOk, ParseFails, Bump, Notify, Goto, At, TypeOK, HasNew, HasOld
  <2> QED BY <2>1 DEF Holds, AccountedFor
<1>3. CASE Publish(t)
  <2>1. pc[t] = "publish" /\ o = frame[t].new
    BY <1>3 DEF Publish, At, Holds, HasNew, HasOld
  <2>2. frame[t].item \in Indices' /\ Item(t) \in ItemRecord
    BY <1>3, <2>1, PublishUpdates, HasItemType DEF Updated, HasItem, SetSteps
  <2>3. items'[frame[t].item].data = o
    BY <1>3, <2>1, <2>2, PublishUpdates DEF Updated, ItemRecord
  <2> QED BY <2>2, <2>3 DEF AccountedFor
<1>4. CASE Discard(t)
  <2>1. o = frame[t].new /\ heap' = Free(frame[t].new)
    BY <1>4 DEF Discard, At, Holds, HasNew, HasOld
  <2>2. heap'[o].state = "freed"
    BY <2>1 DEF Free, TypeOK, ObjectRecord
  <2> QED BY <2>2
<1>5. CASE FreeOld(t)
  <2>1. o = frame[t].old /\ o # Null
    BY <1>5 DEF FreeOld, At, Holds, HasNew, HasOld, Objects, Null
  <2>2. heap' = Free(o)
    BY <1>5, <2>1 DEF FreeOld
  <2>3. heap'[o].state = "freed"
    BY <2>2 DEF Free, TypeOK, ObjectRecord
  <2> QED BY <2>3
<1> QED
  BY <1>1, <1>2, <1>3, <1>4, <1>5
     DEF ThreadStep, BrokerStep, FindStep, SetStep, OtherStep, Parse, Plain

\* No step leaks an object.
LEMMA AccountedNext ==
  ASSUME Typed, ListOK, ItemLocked, HeapOK, NEW t \in Threads, ThreadStep(t)
  PROVE  Accounted'
<1> SUFFICES ASSUME NEW o \in Objects, heap'[o].state = "owned"
             PROVE  AccountedFor(o)'
  BY DEF Accounted, AccountedFor, Holds
<1>1. CASE heap[o].state # "owned"
  <2>1. Malloc(t) /\ heap'[o] # heap[o]
    BY <1>1, HeapSteps DEF InHand
  <2>2. frame'[t].new = o /\ pc'[t] = "parse"
    BY <2>1 DEF Malloc, Goto, Typed, TypeOK, Frame
  <2> QED BY <2>2 DEF AccountedFor, Holds, HasNew
<1>2. CASE heap[o].state = "owned"
  <2>1. AccountedFor(o)
    BY <1>2 DEF HeapOK, Accounted, AccountedFor, Holds
  <2>2. CASE \E i \in Indices : items[i].data = o
    <3>1. PICK i \in Indices : items[i].data = o
      BY <2>2
    <3>2. CASE items'[i].data = o
      BY <3>1, <3>2, DataSteps DEF AccountedFor
    <3>3. CASE Publish(t) /\ i = frame[t].item
      <4>1. frame'[t].old = o /\ pc'[t] = "bump"
        BY <3>1, <3>3 DEF Publish, Item, Goto, Typed, TypeOK, Frame
      <4> QED BY <4>1 DEF AccountedFor, Holds, HasOld
    <3> QED BY <3>1, <3>2, <3>3, DataSteps
  <2>3. ASSUME NEW u \in Threads, Holds(u, o)
        PROVE  AccountedFor(o)'
    <3>1. CASE u = t
      BY <2>3, <3>1, HoldsNext
    <3>2. CASE u # t
      BY <2>3, <3>2, OthersUntouched DEF Typed, OthersKept, AccountedFor, Holds
    <3> QED BY <3>1, <3>2
  <2> QED BY <2>1, <2>2, <2>3 DEF AccountedFor
<1> QED BY <1>1, <1>2

LEMMA HeapNext ==
  ASSUME Typed, ListOK, ItemLocked, HeapOK, BrokerNext
  PROVE  HeapOK'
<1>1. CASE UNCHANGED vars \/ Tick
  BY <1>1 DEF vars, Tick, lists, HeapOK, NewOK, OldOK, PublishedParsed, Accounted, InHand, At,
              Indices
<1>2. ASSUME NEW t \in Threads, ThreadStep(t)
      PROVE  HeapOK'
  <2>1. ASSUME NEW u \in Threads
        PROVE  OwnHand(u)'
    <3>1. CASE u = t
      BY <1>2, <3>1, OwnHandNext
    <3>2. CASE u # t
      <4>1. pc'[u] = pc[u] /\ frame'[u] = frame[u]
        BY <1>2, <3>2, OthersUntouched DEF OthersKept, Typed
      <4>2. pc[u] \in HasNew \cup HasOld => pc[u] \in Critical
        BY DEF HasNew, HasOld, Critical, HasItem, SetSteps
      <4>3. \A o : pc[u] \in Critical /\ InHand(u, o) => InHand(u, o)' /\ heap'[o] = heap[o]
        BY <1>2, <3>2, InHandKept
      <4>4. OwnHand(u)
        BY DEF OwnHand, HeapOK, NewOK, OldOK
      <4>5. pc[u] \in HasNew => InHand(u, frame[u].new)'
        BY <4>1, <4>2, <4>3, <4>4 DEF OwnHand, InHand
      <4>6. pc[u] \in HasOld /\ frame[u].old # Null => InHand(u, frame[u].old)'
        BY <4>1, <4>2, <4>3, <4>4 DEF OwnHand, InHand
      <4>7. pc[u] = "publish" =>
              heap'[frame[u].new].sized /\ heap'[frame[u].new].value # Blank
        BY <4>2, <4>3, <4>4 DEF OwnHand, At, HasNew
      <4> QED
        BY <4>1, <4>5, <4>6, <4>7 DEF OwnHand, At
    <3> QED BY <3>1, <3>2
  <2>2. NewOK' /\ OldOK'
    BY <2>1 DEF OwnHand, NewOK, OldOK
  <2> QED
    BY <1>2, <2>2, PublishedNext, AccountedNext DEF HeapOK
<1> QED BY <1>1, <1>2 DEF BrokerNext

LEMMA HeapInit ==
  ASSUME Init
  PROVE  HeapOK
BY DEF Init, Quiet, UnusedObject, HeapOK, NewOK, OldOK, PublishedParsed, Accounted, Indices, At,
       HasNew, HasOld

-----------------------------------------------------------------------------
(* What the layers so far establish *)

HeapInv == Typed /\ ListOK /\ ItemLocked /\ HeapOK

LEMMA HeapInvariant == Spec => []HeapInv
<1>1. Init => HeapInv
  BY TypeInit, ListInit, LocksInit, HeapInit DEF HeapInv, Typed
<1>2. HeapInv /\ [Next]_vars => HeapInv'
  BY TypeNext, ListNext, LocksNext, HeapNext, NextEnters DEF HeapInv, Typed
<1> QED BY <1>1, <1>2, PTL DEF Spec

\* A set with two candidates has at most two members.
LEMMA AtMostTwo ==
  ASSUME NEW S, NEW a, NEW b, S \subseteq {a, b}
  PROVE  Cardinality(S) <= 2
<1>1. IsFiniteSet({a}) /\ Cardinality({a}) = 1
  BY FS_Singleton
<1>2. IsFiniteSet({a} \cup {b}) /\ Cardinality({a} \cup {b}) <= 2
  BY <1>1, FS_AddElement
<1>3. S \in SUBSET ({a} \cup {b})
  OBVIOUS
<1>4. Cardinality(S) <= Cardinality({a} \cup {b}) /\ IsFiniteSet(S)
  BY <1>2, <1>3, FS_Subset
<1>5. Cardinality(S) \in Nat /\ Cardinality({a} \cup {b}) \in Nat
  BY <1>2, <1>4, FS_CardinalityType
<1> QED BY <1>2, <1>4, <1>5

\* The objects of one name are the value of its one item, and the one that the
\* one call in its critical section has in hand.
LEMMA TwoObjects ==
  ASSUME HeapInv
  PROVE  HeapBound
<1> USE DEF HeapInv
<1> SUFFICES ASSUME NEW n \in Names
             PROVE  Cardinality({o \in Objects : heap[o].state = "owned" /\ heap[o].name = n}) <= 2
  BY DEF HeapBound
<1> DEFINE S == {o \in Objects : heap[o].state = "owned" /\ heap[o].name = n}
<1>1. PICK a : \A i \in Indices : items[i].name = n => items[i].data = a
  <2>1. CASE \E i \in Indices : items[i].name = n
    <3>1. PICK i \in Indices : items[i].name = n
      BY <2>1
    <3>2. \A j \in Indices : items[j].name = n => items[j].data = items[i].data
      BY <3>1 DEF ListOK, UniqueNames
    <3> QED BY <3>2
  <2>2. CASE ~ \E i \in Indices : items[i].name = n
    BY <2>2
  <2> QED BY <2>1, <2>2
<1>2. \A t \in Threads : pc[t] \in HasNew \cup HasOld => pc[t] \in Critical
  BY DEF HasNew, HasOld, Critical, HasItem, SetSteps
<1>3. PICK b : \A t \in Threads : \A o : Holds(t, o) /\ frame[t].name = n => o = b
  <2>1. CASE \E t \in Threads : pc[t] \in HasNew \cup HasOld /\ frame[t].name = n
    <3>1. PICK t \in Threads : pc[t] \in HasNew \cup HasOld /\ frame[t].name = n
      BY <2>1
    <3> DEFINE c == IF pc[t] \in HasNew THEN frame[t].new ELSE frame[t].old
    <3>2. ASSUME NEW u \in Threads, NEW o, Holds(u, o), frame[u].name = n
          PROVE  o = c
      <4>1. pc[u] \in HasNew \cup HasOld
        BY <3>2 DEF Holds
      <4>2. u = t
        BY <1>2, <3>1, <3>2, <4>1, Exclusive
      <4> QED BY <3>2, <4>2 DEF Holds, HasNew, HasOld
    <3> QED BY <3>2
  <2>2. CASE ~ \E t \in Threads : pc[t] \in HasNew \cup HasOld /\ frame[t].name = n
    BY <2>2 DEF Holds
  <2> QED BY <2>1, <2>2
<1>4. ASSUME NEW o \in S
      PROVE  o = a \/ o = b
  <2>1. AccountedFor(o)
    BY DEF HeapOK, Accounted, AccountedFor, Holds
  <2>2. ASSUME NEW i \in Indices, items[i].data = o
        PROVE  o = a
    <3>1. items[i].name = n
      BY <2>2 DEF HeapOK, PublishedParsed, Objects, Null
    <3> QED BY <1>1, <2>2, <3>1
  <2>3. ASSUME NEW t \in Threads, Holds(t, o)
        PROVE  o = b
    <3>1. InHand(t, o)
      BY <2>3 DEF Holds, HeapOK, NewOK, OldOK, Objects, Null
    <3> QED BY <1>3, <2>3, <3>1 DEF InHand
  <2> QED BY <2>1, <2>2, <2>3 DEF AccountedFor
<1>5. S \subseteq {a, b}
  BY <1>4
<1> QED BY <1>5, AtMostTwo

\* Whatever an item points to was completed by a parser in an object of the
\* full size that the broker has not freed (config_broker.cc:198-249).
THEOREM OnlyParsedValues == Spec => []PublishedParsed
<1>1. HeapInv => PublishedParsed
  BY DEF HeapInv, HeapOK
<1> QED BY <1>1, HeapInvariant, PTL

\* Every path out of set_config publishes or frees what it allocated.
THEOREM NoLeaks == Spec => []Accounted
<1>1. HeapInv => Accounted
  BY DEF HeapInv, HeapOK
<1> QED BY <1>1, HeapInvariant, PTL

\* An item never uses more than twice its size of the heap, whatever the
\* number of threads that update it.
THEOREM TwiceTheSize == Spec => []HeapBound
BY TwoObjects, HeapInvariant, PTL

-----------------------------------------------------------------------------
(* PART 3: the rate limit, and what is answered *)

-----------------------------------------------------------------------------
(* Which steps change the time of the next update and the version *)

LEMMA FieldSteps ==
  ASSUME Typed, NEW t \in Threads, ThreadStep(t), NEW j \in Indices
  PROVE  /\ \/ items'[j].nextUpdate = items[j].nextUpdate
            \/ Attempt(t) /\ j = frame[t].item
         /\ \/ items'[j].version = items[j].version
            \/ Bump(t) /\ j = frame[t].item
<1> USE DEF Typed
<1> DEFINE Kept == /\ items'[j].nextUpdate = items[j].nextUpdate
                   /\ items'[j].version = items[j].version
<1>1. CASE UNCHANGED items
  BY <1>1
<1>2. ASSUME NEW r, Updated(t, r), r.nextUpdate = Item(t).nextUpdate, r.version = Item(t).version
      PROVE  Kept
  BY <1>2 DEF Updated, Item
<1>3. ASSUME pc[t] \in HasItem
      PROVE  Item(t) \in ItemRecord
  BY <1>3, HasItemType
<1>4. CASE Lock(t)
  <2> DEFINE r == [Item(t) EXCEPT !.lock = t]
  <2>1. r.nextUpdate = Item(t).nextUpdate /\ r.version = Item(t).version
    BY <1>3, <1>4 DEF Lock, At, HasItem, ItemRecord
  <2>2. Updated(t, r)
    BY <1>4, LockUpdates
  <2> HIDE DEF r
  <2>3. Kept
    BY <1>2, <2>1, <2>2
  <2> QED BY <2>3
<1>5. CASE pc[t] \in HasItem /\ Unlock(t)
  <2> DEFINE r == [Item(t) EXCEPT !.lock = None]
  <2>1. r.nextUpdate = Item(t).nextUpdate /\ r.version = Item(t).version
    BY <1>3, <1>5 DEF ItemRecord
  <2>2. Updated(t, r)
    BY <1>5, UnlockUpdates
  <2> HIDE DEF r
  <2>3. Kept
    BY <1>2, <2>1, <2>2
  <2> QED BY <2>3
<1>6. CASE Publish(t)
  <2> DEFINE r == [Item(t) EXCEPT !.data = frame[t].new]
  <2>1. r.nextUpdate = Item(t).nextUpdate /\ r.version = Item(t).version
    BY <1>3, <1>6 DEF Publish, At, HasItem, SetSteps, ItemRecord
  <2>2. Updated(t, r)
    BY <1>6, PublishUpdates
  <2> HIDE DEF r
  <2>3. Kept
    BY <1>2, <2>1, <2>2
  <2> QED BY <2>3
<1>7. ASSUME NEW f \in Fields, Store(t, f)
      PROVE  Kept
  <2> DEFINE r == [Item(t) EXCEPT !.stored = Item(t).stored \cup {f}]
  <2>1. r.nextUpdate = Item(t).nextUpdate /\ r.version = Item(t).version
    BY <1>3, <1>7 DEF Store, At, HasItem, ItemRecord
  <2>2. Updated(t, r)
    BY <1>7, StoreUpdates
  <2> HIDE DEF r
  <2> QED BY <1>2, <2>1, <2>2
<1>8. CASE Attempt(t)
  <2> DEFINE r == [Item(t) EXCEPT !.nextUpdate = clock + MinTicks(t)]
  <2>1. r.version = Item(t).version
    BY <1>3, <1>8 DEF Attempt, At, HasItem, SetSteps, ItemRecord
  <2>2. Updated(t, r)
    BY <1>8, AttemptUpdates
  <2> HIDE DEF r
  <2> QED BY <1>8, <2>1, <2>2 DEF Updated, Item
<1>9. CASE Bump(t)
  <2> DEFINE r == [Item(t) EXCEPT !.version = Item(t).version + 1]
  <2>1. r.nextUpdate = Item(t).nextUpdate
    BY <1>3, <1>9 DEF Bump, At, HasItem, SetSteps, ItemRecord
  <2>2. Updated(t, r)
    BY <1>9, BumpUpdates
  <2> HIDE DEF r
  <2> QED BY <1>9, <2>1, <2>2 DEF Updated, Item
<1>10. CASE Create(t)
  BY <1>10, CreateEffect, AppendType
<1>11. ASSUME NoParser(t) \/ Busy(t) \/ MallocFails(t) \/ Discard(t) \/ FreeOld(t) \/ ReadData(t)
       PROVE  pc[t] \in HasItem /\ Unlock(t)
  BY <1>11 DEF NoParser, Busy, MallocFails, Discard, FreeOld, ReadData, Refused, At, HasItem, SetSteps
<1>12. ASSUME Entered(t) \/ Find(t) \/ Search(t) \/ CreateFails(t) \/ Malloc(t) \/ Notify(t)
              \/ Parse(t) \/ ReadVersion(t)
       PROVE  UNCHANGED items
  BY <1>12 DEF Entered, Enter, Find, Search, CreateFails, Malloc, Notify, Parse, ParseOk, ParseFails,
               ReadVersion, lists
<1> QED
  BY <1>1, <1>4, <1>5, <1>6, <1>7, <1>8, <1>9, <1>10, <1>11, <1>12
     DEF ThreadStep, BrokerStep, FindStep, SetStep, OtherStep

-----------------------------------------------------------------------------
(* The rate limit *)

LEMMA AttemptRate ==
  ASSUME Typed, ListOK, NextUpdateOK, NEW t \in Threads, Attempt(t)
  PROVE  NextUpdateOK'
<1> USE DEF Typed
<1> DEFINE i == frame[t].item
           n == Item(t).name
           r == [Item(t) EXCEPT !.nextUpdate = clock + MinTicks(t)]
<1>1. i \in Indices /\ Item(t) \in ItemRecord /\ n \in Names
  BY HasItemType DEF Attempt, At, HasItem, SetSteps, ItemRecord
<1>2. Updated(t, r) /\ MinTicks(t) \in Nat
  BY AttemptUpdates
<1>3. r.nextUpdate = clock + MinTicks(t) /\ r.name = n
  BY <1>1 DEF ItemRecord
<1>4. /\ clock \in Nat /\ lastAttempt \in [Names -> Int] /\ Interval[n] \in Nat
      /\ Item(t).nextUpdate \in Nat
  BY <1>1, ConstantsAssumption DEF TypeOK, ItemRecord
<1>5. lastAttempt[n] + Interval[n] <= clock
  <2>1. lastAttempt[n] + Interval[n] <= Item(t).nextUpdate
    BY <1>1 DEF NextUpdateOK, Item
  <2>2. Item(t).nextUpdate = 0 \/ clock >= Item(t).nextUpdate
    BY <1>4 DEF Attempt, TooSoon
  <2>3. lastAttempt[n] \in Int
    BY <1>1, <1>4
  <2> QED BY <1>4, <2>1, <2>2, <2>3
<1>6. /\ lastAttempt'[n] + Interval[n] <= clock + MinTicks(t)
      /\ \A m \in Names : m # n => lastAttempt'[m] = lastAttempt[m]
  <2>1. CASE "minTicks" \in Item(t).stored
    <3>1. lastAttempt' = [lastAttempt EXCEPT ![n] = clock] /\ MinTicks(t) = Interval[n]
      BY <2>1 DEF Attempt, MinTicks
    <3> QED BY <1>1, <1>4, <3>1
  <2>2. CASE "minTicks" \notin Item(t).stored
    <3>1. lastAttempt' = lastAttempt /\ MinTicks(t) = 0
      BY <2>2 DEF Attempt, MinTicks
    <3> QED BY <1>1, <1>4, <1>5, <3>1
  <2> QED BY <2>1, <2>2
<1> HIDE DEF r
<1>7. Indices' = Indices /\ NamesKept /\ \A m : Matches(m)' = Matches(m)
  BY <1>2, SameMatches DEF Updated
<1>8. ASSUME NEW j \in Indices'
      PROVE  lastAttempt'[items'[j].name] + Interval[items'[j].name] <= items'[j].nextUpdate
  <2>1. CASE j = i
    <3>1. items'[j] = r
      BY <1>2, <2>1 DEF Updated
    <3> QED BY <1>3, <1>6, <3>1
  <2>2. CASE j # i
    <3>1. items'[j] = items[j]
      BY <1>2, <1>7, <2>2 DEF Updated
    <3>2. items[j].name # n /\ items[j].name \in Names
      BY <1>1, <1>7, <2>2, IndexType DEF ListOK, UniqueNames, Item, ItemRecord
    <3> QED BY <1>6, <1>7, <3>1, <3>2 DEF NextUpdateOK
  <2> QED BY <2>1, <2>2
<1>9. ASSUME NEW m \in Names, Matches(m)' = {}
      PROVE  lastAttempt'[m] + Interval[m] <= 0
  <2>1. Matches(m) = {} /\ m # n
    BY <1>1, <1>7, <1>9 DEF Matches, Item
  <2> QED BY <1>6, <2>1 DEF NextUpdateOK
<1> QED BY <1>8, <1>9 DEF NextUpdateOK

LEMMA RateNext ==
  ASSUME Typed, ListOK, NextUpdateOK, BrokerNext
  PROVE  NextUpdateOK'
<1>1. CASE UNCHANGED vars \/ Tick
  BY <1>1 DEF vars, Tick, lists, NextUpdateOK, Matches, Indices
<1>2. ASSUME NEW t \in Threads, ThreadStep(t)
      PROVE  NextUpdateOK'
  <2>1. CASE Attempt(t)
    BY <2>1, AttemptRate
  <2>2. ASSUME ~Attempt(t)
        PROVE  lastAttempt' = lastAttempt
    BY <1>2, <2>2 DEF ThreadStep, BrokerStep, FindStep, SetStep, OtherStep, Parse, Entered, Enter, Find,
       Search, Create, CreateFails, Lock, NoParser, Busy, Malloc, MallocFails, ParseOk,
       ParseFails, Discard, Publish, Bump, Notify, FreeOld, ReadVersion, ReadData, Store
  <2>3. CASE Create(t)
    <3>1. lastAttempt' = lastAttempt
      BY <2>3 DEF Create
    <3>2. /\ Indices' = Indices \cup {Len(items) + 1}
          /\ Len(items) + 1 \notin Indices
          /\ items'[Len(items) + 1] = Created(t)
          /\ \A j \in Indices : items'[j] = items[j]
      BY <2>3, CreateEffect, AppendType DEF Typed
    <3>3. Matches(frame[t].name) = {} /\ frame[t].name \in Names
      BY <2>3 DEF Create, At, ListOK, CreateOK, Typed, FrameOK
    <3>4. \A m : Matches(m)' = {} => Matches(m) = {}
      BY <3>2 DEF Matches
    <3>5. lastAttempt[frame[t].name] + Interval[frame[t].name] <= 0
      BY <3>3 DEF NextUpdateOK
    <3> QED
      BY <3>1, <3>2, <3>4, <3>5 DEF NextUpdateOK, Created
  <2>4. CASE ~Attempt(t) /\ ~Create(t)
    <3>1. Indices' = Indices /\ NamesKept /\ \A m : Matches(m)' = Matches(m)
      BY <1>2, <2>4, SameList, SameMatches
    <3>2. \A j \in Indices : items'[j].nextUpdate = items[j].nextUpdate
      BY <1>2, <2>4, FieldSteps
    <3> QED
      BY <2>2, <2>4, <3>1, <3>2 DEF NextUpdateOK, NamesKept
  <2> QED BY <2>1, <2>3, <2>4
<1> QED BY <1>1, <1>2 DEF BrokerNext

LEMMA RateInit ==
  ASSUME Init
  PROVE  NextUpdateOK
<1>1. Indices = {}
  BY DEF Init, Indices
<1>2. \A n \in Names : Interval[n] \in Nat
  BY ConstantsAssumption
<1> QED BY <1>1, <1>2 DEF Init, Quiet, NextUpdateOK

\* A step from "check" to "malloc" is an attempt the rate limit let through.
LEMMA AttemptOnly ==
  ASSUME Typed, BrokerNext, NEW t \in Threads, At(t, "check"), pc'[t] = "malloc"
  PROVE  Attempt(t)
<1> USE DEF Typed, TypeOK, At, Goto, Return
<1>1. ~UNCHANGED vars /\ ~Tick
  BY DEF vars, Tick
<1>2. PICK u \in Threads : ThreadStep(u)
  BY <1>1 DEF BrokerNext
<1>3. u = t
  BY <1>2, OthersUntouched DEF OthersKept
<1>4. ~Entered(t) /\ ~FindStep(t) /\ ~OtherStep(t) /\ ~Parse(t)
  BY DEF Entered, Enter, FindStep, Find, Search, Create, CreateFails, Lock, OtherStep, ReadVersion,
         ReadData, Store, Parse, ParseOk, ParseFails
<1>5. ~NoParser(t) /\ ~Busy(t)
  BY DEF NoParser, Busy, Refused
<1> QED
  BY <1>2, <1>3, <1>4, <1>5
     DEF ThreadStep, BrokerStep, SetStep, Malloc, MallocFails, Discard, Publish, Bump, Notify, FreeOld

\* Two attempts to update an item are at least its interval apart, whichever
\* threads make them and whatever becomes of the first (config_broker.cc:175-184).
THEOREM UpdatesAreRateLimited == Spec => RateLimited
<1> DEFINE Inv == Typed /\ ListOK /\ NextUpdateOK
           Apart == \A t \in Threads :
                      At(t, "check") /\ At(t, "malloc")' /\ "minTicks" \in Item(t).stored
                        => clock >= lastAttempt[Item(t).name] + Interval[Item(t).name]
<1>1. Init => Inv
  BY TypeInit, ListInit, RateInit DEF Typed
<1>2. Inv /\ [Next]_vars => Inv'
  BY TypeNext, ListNext, RateNext, NextEnters DEF Typed
<1>3. ASSUME Inv, [Next]_vars
      PROVE  Apart
  <2> SUFFICES ASSUME NEW t \in Threads, At(t, "check"), pc'[t] = "malloc"
               PROVE  clock >= lastAttempt[Item(t).name] + Interval[Item(t).name]
    BY DEF At
  <2> USE <1>3
  <2>1. Attempt(t)
    BY AttemptOnly, NextEnters DEF Typed
  <2>2. Item(t) \in ItemRecord /\ frame[t].item \in Indices
    BY HasItemType DEF Typed, At, HasItem, SetSteps
  <2>3. /\ clock \in Nat /\ Item(t).nextUpdate \in Nat
        /\ lastAttempt[Item(t).name] \in Int /\ Interval[Item(t).name] \in Nat
    BY <2>2, ConstantsAssumption DEF Typed, TypeOK, ItemRecord
  <2>4. lastAttempt[Item(t).name] + Interval[Item(t).name] <= Item(t).nextUpdate
    BY <2>2 DEF NextUpdateOK, Item
  <2>5. Item(t).nextUpdate = 0 \/ clock >= Item(t).nextUpdate
    BY <2>1, <2>3 DEF Attempt, TooSoon
  <2> QED BY <2>3, <2>4, <2>5
<1>4. Inv /\ [Next]_vars => [Apart]_vars
  BY <1>3
<1> QED
  BY <1>1, <1>2, <1>4, PTL DEF Spec, RateLimited

-----------------------------------------------------------------------------
(* The answers of get_config *)

Answers == ReadOK /\ AnswersOK /\ SnapshotsAgree

\* A thread is given an answer by ReadData only; any other return has no item.
LEMMA RetSteps ==
  ASSUME Typed, NEW t \in Threads, ThreadStep(t)
  PROVE  \/ ret'[t] = ret[t]
         \/ ret'[t].item = Null /\ ret'[t].data = Null
         \/ ReadData(t)
<1> USE DEF Typed, TypeOK, Return, Failure
<1>1. CASE Entered(t)
  BY <1>1 DEF Entered, Enter
<1>2. CASE FindStep(t)
  BY <1>2 DEF FindStep, Find, Search, Create, CreateFails, Lock
<1>3. CASE NoParser(t) \/ Busy(t) \/ MallocFails(t) \/ Discard(t) \/ FreeOld(t)
  BY <1>3 DEF NoParser, Busy, MallocFails, Discard, FreeOld, Refused
<1>4. CASE Attempt(t) \/ Malloc(t) \/ Publish(t) \/ Bump(t) \/ Notify(t) \/ Parse(t)
  BY <1>4 DEF Attempt, Malloc, Publish, Bump, Notify, Parse, ParseOk, ParseFails
<1>5. CASE ReadVersion(t)
  BY <1>5 DEF ReadVersion
<1>6. ASSUME NEW f \in Fields, Store(t, f)
      PROVE  ret'[t] = ret[t] \/ (ret'[t].item = Null /\ ret'[t].data = Null)
  BY <1>6 DEF Store
<1> QED
  BY <1>1, <1>2, <1>3, <1>4, <1>5, <1>6 DEF ThreadStep, BrokerStep, SetStep, OtherStep

\* Only Publish and Bump enter and leave the window between the swap of the
\* data and the new version, and only ReadVersion gets to the read of the data.
LEMMA WindowSteps ==
  ASSUME Typed, NEW t \in Threads, ThreadStep(t)
  PROVE  /\ pc'[t] = "bump" <=> Publish(t)
         /\ pc[t] = "bump" => Bump(t)
         /\ pc'[t] = "data" <=> ReadVersion(t)
<1> USE DEF Typed, TypeOK, Goto, Return, At
<1>1. CASE Entered(t)
  BY <1>1 DEF Entered, Enter, Publish, ReadVersion
<1>2. CASE FindStep(t)
  BY <1>2 DEF FindStep, Find, Search, AfterFind, Create, CreateFails, Lock, Publish, ReadVersion
<1>3. CASE NoParser(t) \/ Busy(t) \/ MallocFails(t) \/ Discard(t) \/ FreeOld(t)
  BY <1>3 DEF NoParser, Busy, MallocFails, Discard, FreeOld, Refused, Publish, ReadVersion
<1>4. CASE Attempt(t) \/ Malloc(t) \/ Publish(t) \/ Bump(t) \/ Notify(t) \/ Parse(t)
  BY <1>4 DEF Attempt, Malloc, Publish, Bump, Notify, Parse, ParseOk, ParseFails, ReadVersion
<1>5. CASE OtherStep(t)
  BY <1>5 DEF OtherStep, ReadVersion, ReadData, Store, Publish
<1> QED
  BY <1>1, <1>2, <1>3, <1>4, <1>5 DEF ThreadStep, BrokerStep, SetStep

\* A step of t outside the window leaves it, and what was swapped, alone.
LEMMA SameWindow ==
  ASSUME Typed, NEW t \in Threads, ThreadStep(t), ~Publish(t), ~Bump(t), NEW i
  PROVE  /\ Swapping(i)' = Swapping(i)
         /\ \A u \in Swapping(i) : frame'[u] = frame[u]
<1>1. OthersKept(t)
  BY OthersUntouched DEF Typed
<1>2. pc'[t] # "bump" /\ pc[t] # "bump"
  BY WindowSteps
<1> QED
  BY <1>1, <1>2 DEF OthersKept, Swapping, At

\* The version a get has read is current until it returns.
LEMMA ReadNext ==
  ASSUME Typed, ListOK, ItemLocked, ReadOK, NEW t \in Threads, ThreadStep(t)
  PROVE  ReadOK'
<1> SUFFICES ASSUME NEW u \in Threads, pc'[u] = "data"
             PROVE  frame'[u].version = items'[frame'[u].item].version
  BY DEF ReadOK, At
<1>1. CASE u = t
  <2>1. ReadVersion(t)
    BY <1>1, WindowSteps
  <2>2. frame' = [frame EXCEPT ![t].version = Item(t).version] /\ items' = items
    BY <2>1 DEF ReadVersion, lists
  <2>3. frame'[t].version = Item(t).version /\ frame'[t].item = frame[t].item
    BY <2>2 DEF Typed, TypeOK, Frame
  <2> QED BY <1>1, <2>2, <2>3 DEF Item
<1>2. CASE u # t
  <2>1. pc[u] = "data" /\ frame'[u] = frame[u]
    BY <1>2, OthersUntouched DEF OthersKept, Typed
  <2>2. pc[u] \in Critical /\ frame[u].item \in Indices
    BY <2>1 DEF Critical, HasItem, Typed, FrameOK
  <2>3. ~(Bump(t) /\ frame[u].item = frame[t].item)
    <3>1. Bump(t) => pc[t] \in Critical
      BY DEF Bump, At, Critical, HasItem, SetSteps
    <3> QED BY <1>2, <2>2, <3>1, Exclusive
  <2>4. items'[frame[u].item].version = items[frame[u].item].version
    BY <2>2, <2>3, FieldSteps
  <2> QED BY <2>1, <2>4 DEF ReadOK, At
<1> QED BY <1>1, <1>2

\* Nobody swaps the data of an item while t is in its critical section.
LEMMA NotSwapping ==
  ASSUME Typed, ListOK, ItemLocked, NEW t \in Threads, pc[t] \in Critical,
         NEW u \in Swapping(frame[t].item)
  PROVE  u = t
<1>1. u \in Threads /\ pc[u] \in Critical /\ frame[u].item = frame[t].item
  BY DEF Swapping, At, Critical, HasItem, SetSteps
<1> QED BY <1>1, Exclusive

\* What AnswersOK says of one answer.
AnswerOK(r) ==
  /\ r.item = Null => r.data = Null
  /\ r.item # Null =>
       /\ r.item \in Indices
       /\ r.version <= items[r.item].version
       /\ r.version = items[r.item].version =>
            IF Swapping(r.item) = {} THEN r.data = items[r.item].data
            ELSE \A u \in Swapping(r.item) : r.data = frame[u].old

\* An answer given earlier stays right.
LEMMA OldAnswers ==
  ASSUME Typed, ListOK, ItemLocked, HeapOK, NEW t \in Threads, ThreadStep(t),
         NEW r \in Result, AnswerOK(r)
  PROVE  AnswerOK(r)'
<1> SUFFICES ASSUME r.item # Null
             PROVE  /\ r.item \in Indices'
                    /\ r.version <= items'[r.item].version
                    /\ r.version = items'[r.item].version =>
                         IF Swapping(r.item)' = {} THEN r.data = items'[r.item].data
                         ELSE \A u \in Swapping(r.item)' : r.data = frame'[u].old
  BY DEF AnswerOK
<1> DEFINE i == r.item
<1>1. i \in Indices /\ i \in Indices' /\ r.version \in Nat /\ items[i].version \in Nat
  BY DataSteps, IndexType DEF AnswerOK, Result, Typed, ItemRecord
<1>2. /\ items'[i].version = items[i].version \/ (Bump(t) /\ i = frame[t].item)
      /\ items'[i].data = items[i].data \/ (Publish(t) /\ i = frame[t].item)
  BY <1>1, FieldSteps, DataSteps
<1>3. CASE Publish(t) /\ i = frame[t].item
  <2>1. pc[t] \in Critical /\ pc[t] # "bump" /\ pc'[t] = "bump" /\ ~Bump(t)
    BY <1>3, WindowSteps DEF Publish, Bump, At, Critical, HasItem, SetSteps
  <2>2. Swapping(i) = {}
    BY <1>3, <2>1, NotSwapping DEF Swapping, At
  <2>3. frame'[t].old = items[i].data
    BY <1>3 DEF Publish, Item, Typed, TypeOK, Frame
  <2>4. \A u \in Swapping(i)' : u = t
    BY <2>2, OthersUntouched DEF Swapping, At, OthersKept, Typed
  <2>5. t \in Swapping(i)'
    <3>1. frame'[t].item = frame[t].item
      BY <1>3 DEF Publish, Typed, TypeOK, Frame
    <3> QED BY <1>3, <2>1, <3>1 DEF Swapping, At
  <2> QED BY <1>1, <1>2, <2>1, <2>2, <2>3, <2>4, <2>5 DEF AnswerOK
<1>4. CASE Bump(t) /\ i = frame[t].item
  <2>1. Item(t) \in ItemRecord
    BY <1>4, HasItemType DEF Bump, At, HasItem, SetSteps, Typed
  <2>2. items'[i].version = items[i].version + 1
    BY <1>4, <2>1, BumpUpdates DEF Updated, Item, ItemRecord, Typed
  <2> QED BY <1>1, <2>2 DEF AnswerOK
<1>5. CASE ~((Publish(t) \/ Bump(t)) /\ i = frame[t].item)
  <2>1. items'[i].version = items[i].version /\ items'[i].data = items[i].data
    BY <1>2, <1>5
  <2>2. /\ Swapping(i)' = Swapping(i)
        /\ \A u \in Swapping(i) : frame'[u] = frame[u]
    <3>1. CASE ~Publish(t) /\ ~Bump(t)
      BY <3>1, SameWindow
    <3>2. CASE (Publish(t) \/ Bump(t)) /\ i # frame[t].item
      <4>1. frame'[t].item = frame[t].item
        BY <3>2 DEF Publish, Bump, Typed, TypeOK, Frame
      <4>2. t \notin Swapping(i) /\ t \notin Swapping(i)'
        BY <3>2, <4>1 DEF Swapping
      <4> QED BY <4>2, OthersUntouched DEF OthersKept, Swapping, At, Typed
    <3> QED BY <1>5, <3>1, <3>2
  <2> QED BY <1>1, <2>1, <2>2 DEF AnswerOK
<1> QED BY <1>3, <1>4, <1>5

\* The answer ReadData gives is right, and any answer with the same version has
\* the same data.
LEMMA NewAnswer ==
  ASSUME Typed, ListOK, ItemLocked, HeapOK, Answers, NEW t \in Threads, ReadData(t)
  PROVE  /\ AnswerOK(ret[t])'
         /\ ret'[t].item \in Indices
         /\ \A u \in Threads : u # t /\ ret[u].item = ret'[t].item /\ ret[u].version = ret'[t].version
                              => ret[u].data = ret'[t].data
<1> DEFINE i == frame[t].item
<1>1. /\ pc[t] = "data" /\ pc[t] \in Critical /\ i \in Indices /\ i # Null
      /\ ThreadStep(t) /\ ~Publish(t) /\ ~Bump(t)
  <2>1. pc[t] = "data"
    BY DEF ReadData, At
  <2>2. i \in Indices /\ i # Null
    BY <2>1, IndexType DEF Typed, FrameOK, HasItem, Null
  <2> QED BY <2>1, <2>2 DEF Critical, HasItem, ThreadStep, BrokerStep, OtherStep, Publish, Bump, At
<1>2. /\ ret'[t].item = i /\ ret'[t].version = frame[t].version
      /\ ret'[t].data = items[i].data
  BY DEF ReadData, Return, Item, Typed, TypeOK
<1>3. frame[t].version = items[i].version
  BY <1>1 DEF Answers, ReadOK, At
<1>4. Swapping(i) = {}
  BY <1>1, NotSwapping DEF Swapping, At
<1>5. \A j : j = i => Swapping(j)' = {}
  BY <1>1, <1>4, SameWindow
<1>6. /\ items'[i].version = items[i].version /\ items'[i].data = items[i].data
      /\ i \in Indices' /\ items[i].version \in Nat
  BY <1>1, FieldSteps, DataSteps, IndexType DEF Typed, ItemRecord
<1>7. AnswerOK(ret[t])'
  BY <1>1, <1>2, <1>3, <1>5, <1>6 DEF AnswerOK
<1>8. ASSUME NEW u \in Threads, u # t, ret[u].item = ret'[t].item, ret[u].version = ret'[t].version
      PROVE  ret[u].data = ret'[t].data
  BY <1>1, <1>2, <1>3, <1>4, <1>8 DEF Answers, AnswersOK
<1> QED BY <1>1, <1>2, <1>7, <1>8

LEMMA AnswersNext ==
  ASSUME Typed, ListOK, ItemLocked, HeapOK, Answers, BrokerNext
  PROVE  Answers'
<1>1. CASE UNCHANGED vars \/ Tick
  BY <1>1 DEF vars, Tick, lists, Answers, ReadOK, AnswersOK, SnapshotsAgree, Swapping, At, Indices
<1>2. ASSUME NEW t \in Threads, ThreadStep(t)
      PROVE  Answers'
  <2>1. ReadOK'
    BY <1>2, ReadNext DEF Answers
  <2> DEFINE Swappers(i) == {u \in Threads : pc'[u] = "bump" /\ frame'[u].item = i}
             Right(r) ==
               /\ r.item = Null => r.data = Null
               /\ r.item # Null =>
                    /\ r.item \in Indices'
                    /\ r.version <= items'[r.item].version
                    /\ r.version = items'[r.item].version =>
                         IF Swappers(r.item) = {} THEN r.data = items'[r.item].data
                         ELSE \A u \in Swappers(r.item) : r.data = frame'[u].old
  <2>2. \A r \in Result : AnswerOK(r) => Right(r)
    <3> SUFFICES ASSUME NEW r \in Result, AnswerOK(r)
                 PROVE  Right(r)
      OBVIOUS
    <3>1. AnswerOK(r)'
      BY <1>2, OldAnswers
    <3> QED BY <3>1 DEF AnswerOK, Swapping, At
  <2>7. (\A u \in Threads : Right(ret'[u])) => AnswersOK'
    BY DEF AnswersOK, Swapping, At
  <2>3. \A u \in Threads : ret[u] \in Result /\ AnswerOK(ret[u])
    BY DEF Typed, TypeOK, Answers, AnswersOK, AnswerOK
  <2>4. \A u \in Threads : u # t => ret'[u] = ret[u]
    BY <1>2, OthersUntouched DEF OthersKept, Typed
  <2>5. CASE ReadData(t)
    <3>3. AnswerOK(ret[t])'
      BY <2>5, NewAnswer
    <3>4. Right(ret'[t])
      BY <3>3 DEF AnswerOK, Swapping, At
    <3> HIDE DEF Right
    <3>1. AnswersOK'
      BY <2>2, <2>3, <2>4, <2>7, <3>4
    <3>2. SnapshotsAgree'
      BY <2>4, <2>5, NewAnswer DEF Answers, SnapshotsAgree
    <3> QED BY <2>1, <3>1, <3>2 DEF Answers
  <2>6. CASE ~ReadData(t)
    <3>1. ret'[t] = ret[t] \/ (ret'[t].item = Null /\ ret'[t].data = Null)
      BY <1>2, <2>6, RetSteps
    <3>4. Right(ret'[t])
      <4>1. CASE ret'[t] = ret[t]
        <5> HIDE DEF Right
        <5> QED BY <2>2, <2>3, <4>1
      <4>2. CASE ret'[t].item = Null /\ ret'[t].data = Null
        BY <4>2
      <4> QED BY <3>1, <4>1, <4>2
    <3> HIDE DEF Right
    <3>2. AnswersOK'
      BY <2>2, <2>3, <2>4, <2>7, <3>4
    <3>3. SnapshotsAgree'
      BY <2>4, <3>1 DEF Answers, SnapshotsAgree
    <3> QED BY <2>1, <3>2, <3>3 DEF Answers
  <2> QED BY <2>5, <2>6
<1> QED BY <1>1, <1>2 DEF BrokerNext

LEMMA AnswersInit ==
  ASSUME Init
  PROVE  Answers
BY DEF Init, Quiet, Failure, Answers, ReadOK, AnswersOK, SnapshotsAgree, At, Null

-----------------------------------------------------------------------------
(* The inductive invariant, and what follows from it *)

LEMMA IInvLayers ==
  IInv <=> Typed /\ ListOK /\ ItemLocked /\ HeapOK /\ NextUpdateOK /\ Answers
BY DEF IInv, Typed, ListOK, HeapOK, Answers

LEMMA IInvNext ==
  ASSUME IInv, BrokerNext
  PROVE  IInv'
<1>1. Typed /\ ListOK /\ ItemLocked /\ HeapOK /\ NextUpdateOK /\ Answers
  BY IInvLayers
<1>2. Typed' /\ ListOK' /\ ItemLocked' /\ HeapOK' /\ NextUpdateOK' /\ Answers'
  BY <1>1, TypeNext, ListNext, LocksNext, HeapNext, RateNext, AnswersNext DEF Typed
<1> QED
  BY <1>2 DEF IInv, Typed, ListOK, HeapOK, Answers

LEMMA IInvInit == Init => IInv
BY TypeInit, ListInit, LocksInit, HeapInit, RateInit, AnswersInit, IInvLayers DEF Typed

\* IInv holds initially and is preserved by every step.
THEOREM Inductive == Spec => []IInv
<1>1. IInv /\ [Next]_vars => IInv'
  BY IInvNext, NextEnters DEF IInv
<1> QED BY IInvInit, <1>1, PTL DEF Spec

\* Two clients that were told the same version of an item were told the same
\* value, whatever happened in between (config_broker.cc:285-308).
THEOREM OneValuePerVersion == Spec => []SnapshotsAgree
<1>1. IInv => SnapshotsAgree
  BY DEF IInv
<1> QED BY <1>1, Inductive, PTL

LEMMA FreedNewer ==
  ASSUME IInv
  PROVE  FreedImpliesNewer
<1> SUFFICES ASSUME NEW t \in Threads, ret[t].data # Null, heap[ret[t].data].state = "freed"
             PROVE  items[ret[t].item].version > ret[t].version
  BY DEF FreedImpliesNewer
<1> DEFINE r == ret[t]
<1>1. /\ r.item # Null /\ r.item \in Indices
      /\ r.version <= items[r.item].version
      /\ r.version = items[r.item].version =>
           IF Swapping(r.item) = {} THEN r.data = items[r.item].data
           ELSE \A u \in Swapping(r.item) : r.data = frame[u].old
  BY DEF IInv, AnswersOK
<1>2. r.version \in Nat /\ items[r.item].version \in Nat
  BY <1>1, IndexType DEF IInv, TypeOK, Result, ItemRecord
<1>3. ASSUME r.version = items[r.item].version
      PROVE  FALSE
  <2>1. CASE Swapping(r.item) = {}
    BY <1>1, <1>3, <2>1 DEF IInv, PublishedParsed
  <2>2. CASE Swapping(r.item) # {}
    <3>1. PICK u \in Swapping(r.item) : TRUE
      BY <2>2
    <3>2. /\ u \in Threads /\ pc[u] \in HasOld /\ frame[u].old # Null
          /\ frame[u].old = r.data
      BY <1>1, <1>3, <3>1 DEF Swapping, At, HasOld
    <3>3. InHand(u, r.data)
      BY <3>2 DEF IInv, OldOK
    <3> QED BY <3>3 DEF InHand
  <2> QED BY <2>1, <2>2
<1> QED BY <1>1, <1>2, <1>3

\* A client whose value has been freed can tell that there is a newer one: by
\* the time old_data is freed the version has moved on (config_broker.cc:223-249).
THEOREM FreedIsOld == Spec => []FreedImpliesNewer
<1>1. IInv => FreedImpliesNewer
  BY FreedNewer
<1> QED BY <1>1, Inductive, PTL

-----------------------------------------------------------------------------
(* PART 4: each step is a step of ConfigStore, or none *)

-----------------------------------------------------------------------------
(* What the store sees *)

ItemOf(n) == CHOOSE i \in Indices : Newest(n, i)
ValueAt(n) == IF Matches(n) = {} THEN Blank ELSE ValueOf(EffectiveData(ItemOf(n)))
VersionAt(n) == IF Matches(n) = {} THEN 0 ELSE items[ItemOf(n)].version
Got(t) ==
  IF ret[t].item = Null THEN [name |-> Blank, version |-> 0, value |-> Blank]
  ELSE [name |-> items[ret[t].item].name, version |-> ret[t].version, value |-> ValueOf(ret[t].data)]

\* Its value and version are those of the only item of the name; between Publish
\* and Bump the value is still the old one.
View ==
  /\ \A n \in Names : Matches(n) = {} => ValueAt(n) = Blank /\ VersionAt(n) = 0
  /\ \A i \in Indices :
       /\ ValueAt(items[i].name) = ValueOf(EffectiveData(i))
       /\ VersionAt(items[i].name) = items[i].version
       /\ Swapping(i) = {} => EffectiveData(i) = items[i].data
       /\ \A t \in Swapping(i) : EffectiveData(i) = frame[t].old

LEMMA ViewOfItem ==
  IInv => \A i \in Indices : Matches(items[i].name) = {i} /\ ItemOf(items[i].name) = i
<1> SUFFICES ASSUME IInv, NEW i \in Indices
             PROVE  Matches(items[i].name) = {i} /\ ItemOf(items[i].name) = i
  OBVIOUS
<1>1. Matches(items[i].name) = {i}
  BY DEF IInv, UniqueNames, Matches
<1>2. i \in Int
  BY IndexType DEF IInv
<1>3. \A k : Newest(items[i].name, k) <=> k = i
  BY <1>1, <1>2 DEF Newest
<1> QED
  BY <1>1, <1>3 DEF ItemOf

LEMMA ViewOK == IInv => View
<1> SUFFICES ASSUME IInv
             PROVE  View
  OBVIOUS
<1>1. ASSUME NEW i \in Indices, NEW t \in Swapping(i)
      PROVE  EffectiveData(i) = frame[t].old
  <2>1. t \in Threads /\ frame[t].item = i /\ pc[t] \in Critical
    BY <1>1 DEF Swapping, At, Critical, HasItem, SetSteps
  <2>2. Swapping(i) = {t}
    BY <1>1, <2>1, NotSwapping, IInvLayers
  <2> QED
    BY <2>2 DEF EffectiveData
<1>2. \A i \in Indices : Swapping(i) = {} => EffectiveData(i) = items[i].data
  BY DEF EffectiveData
<1>3. \A i \in Indices : /\ ValueAt(items[i].name) = ValueOf(EffectiveData(i))
                         /\ VersionAt(items[i].name) = items[i].version
  BY ViewOfItem DEF ValueAt, VersionAt
<1>4. \A n \in Names : Matches(n) = {} => ValueAt(n) = Blank /\ VersionAt(n) = 0
  BY DEF ValueAt, VersionAt
<1> QED
  BY <1>1, <1>2, <1>3, <1>4 DEF View

LEMMA ViewNext == (IInv => View)'
BY ViewOK, PTL

-----------------------------------------------------------------------------
(* A value stays what it was when it was published *)

\* An answered object is in use, and no call is about to fill or discard it; an item
\* whose version is about to be bumped has a value.
AnswersLive ==
  \A u \in Threads : ret[u].data # Null =>
    /\ heap[ret[u].data].state # "unused"
    /\ \A t \in Threads : pc[t] \in HasNew => frame[t].new # ret[u].data
BumpOK == \A t \in Threads : At(t, "bump") => Item(t).data # Null

\* Only the parser writes to an object in use, and only to one that is new.
LEMMA ObjectKept ==
  ASSUME IInv, NEW t \in Threads, ThreadStep(t), NEW o \in Objects, heap[o].state # "unused",
         ~(pc[t] \in HasNew /\ frame[t].new = o)
  PROVE  heap'[o].value = heap[o].value /\ heap'[o].state # "unused"
<1>1. Typed /\ HeapOK /\ heap \in [Objects -> ObjectRecord]
  BY IInvLayers DEF Typed, TypeOK
<1>2. CASE Plain(t)
  BY <1>1, <1>2, PlainSteps
<1>3. CASE Create(t) \/ Publish(t) \/ Bump(t) \/ Notify(t) \/ ParseFails(t)
  BY <1>3 DEF Create, Publish, Bump, Notify, ParseFails
<1>4. CASE Malloc(t)
  <2>1. PICK p \in Objects : heap[p].state = "unused" /\
               heap' = [heap EXCEPT ![p] = [state |-> "owned", name |-> Item(t).name,
                                       sized |-> "size" \in Item(t).stored, value |-> Blank]]
    BY <1>4 DEF Malloc
  <2> QED
    BY <1>1, <2>1
<1>5. CASE ParseOk(t)
  BY <1>1, <1>5 DEF ParseOk, At, HasNew
<1>6. ASSUME NEW p, heap' = Free(p)
      PROVE  heap'[o].value = heap[o].value /\ heap'[o].state # "unused"
  BY <1>1, <1>6 DEF Free, ObjectRecord
<1>7. CASE Discard(t) \/ FreeOld(t)
  BY <1>1, <1>6, <1>7, FreeSteps
<1> QED
  BY <1>2, <1>3, <1>4, <1>5, <1>7
     DEF ThreadStep, BrokerStep, FindStep, SetStep, OtherStep, Parse, Plain

\* Two items never share an object.
LEMMA DataApart ==
  ASSUME IInv, NEW i \in Indices, items[i].data # Null,
         NEW t \in Threads, NEW o, pc[t] \in HasItem, InHand(t, o)
  PROVE  items[i].data # o
<1>1. UniqueNames /\ PublishedParsed /\ frame[t].item \in Indices
      /\ items[frame[t].item].name = frame[t].name
  BY DEF IInv, FrameOK
<1> QED
  BY <1>1 DEF InHand, PublishedParsed, UniqueNames

LEMMA AnswersLiveNext ==
  ASSUME IInv, AnswersLive, NEW t \in Threads, ThreadStep(t)
  PROVE  AnswersLive'
<1> USE IInvLayers
<1>1. OthersKept(t)
  BY OthersUntouched DEF IInv
<1>2. \A u \in Threads : ret[u].data \in Pointers
  BY DEF IInv, TypeOK, Result
<1>3. ASSUME NEW u \in Threads, ret[u].data # Null
      PROVE  /\ heap'[ret[u].data].state # "unused"
             /\ \A w \in Threads : pc'[w] \in HasNew => frame'[w].new # ret[u].data
  <2> DEFINE o == ret[u].data
  <2>1. o \in Objects /\ heap[o].state # "unused"
        /\ \A w \in Threads : pc[w] \in HasNew => frame[w].new # o
    BY <1>2, <1>3 DEF AnswersLive, Pointers
  <2>2. heap'[o].state # "unused"
    BY <2>1, ObjectKept
  <2>3. pc'[t] \in HasNew => frame'[t].new # o
    <3>1. CASE Malloc(t)
      BY <2>1, <3>1 DEF Malloc, IInv, TypeOK, Frame
    <3>2. CASE ParseOk(t) \/ ParseFails(t)
      BY <2>1, <3>2 DEF ParseOk, ParseFails, At, HasNew
    <3>3. CASE ~Malloc(t) /\ ~ParseOk(t) /\ ~ParseFails(t)
      <4>1. pc'[t] \notin HasNew
        <5>1. CASE Plain(t)
          BY <5>1, PlainSteps
        <5>2. CASE Discard(t) \/ FreeOld(t)
          BY <5>2, FreeSteps DEF HasNew
        <5>3. CASE Create(t) \/ Publish(t) \/ Bump(t) \/ Notify(t)
          BY <5>3 DEF Create, Publish, Bump, Notify, Goto, AfterFind, HasNew, IInv, TypeOK
        <5> QED
          BY <3>3, <5>1, <5>2, <5>3
             DEF ThreadStep, BrokerStep, FindStep, SetStep, OtherStep, Parse, Plain
      <4> QED
        BY <4>1
    <3> QED
      BY <3>1, <3>2, <3>3
  <2> QED
    BY <1>1, <2>1, <2>2, <2>3 DEF OthersKept
<1>4. CASE ReadData(t)
  <2> DEFINE i == frame[t].item
  <2>1. /\ i \in Indices /\ ret'[t].data = items[i].data /\ heap' = heap /\ pc'[t] = "idle"
    BY <1>4 DEF ReadData, Return, Goto, IInv, TypeOK, FrameOK, At, HasItem, Item
  <2>2. ASSUME items[i].data # Null
        PROVE  /\ heap'[items[i].data].state # "unused"
               /\ \A w \in Threads : pc'[w] \in HasNew => frame'[w].new # items[i].data
    <3>1. heap[items[i].data].state = "owned"
      BY <2>1, <2>2 DEF IInv, PublishedParsed
    <3>2. \A w \in Threads : pc[w] \in HasNew => frame[w].new # items[i].data
      BY <2>1, <2>2, DataApart DEF IInv, NewOK, HasNew, HasItem, SetSteps
    <3> QED
      BY <1>1, <2>1, <3>1, <3>2 DEF OthersKept, HasNew
  <2> QED
    BY <1>1, <1>3, <2>1, <2>2 DEF AnswersLive, OthersKept
<1>5. CASE ~ReadData(t)
  <2>1. ret'[t] = ret[t] \/ ret'[t].data = Null
    BY <1>5, RetSteps
  <2> QED
    BY <1>1, <1>3, <2>1 DEF AnswersLive, OthersKept
<1> QED
  BY <1>4, <1>5

LEMMA BumpOKNext ==
  ASSUME IInv, BumpOK, NEW t \in Threads, ThreadStep(t)
  PROVE  BumpOK'
<1> USE IInvLayers
<1>1. OthersKept(t)
  BY OthersUntouched DEF IInv
<1>2. ASSUME NEW u \in Threads, pc'[u] = "bump"
      PROVE  items'[frame'[u].item].data # Null
  <2>1. CASE u = t
    <3>1. Publish(t) /\ pc[t] \in HasItem
      BY <1>2, <2>1, WindowSteps DEF Publish, At, HasItem, SetSteps
    <3>2. Updated(t, [Item(t) EXCEPT !.data = frame[t].new]) /\ Item(t) \in ItemRecord
      BY <3>1, PublishUpdates, HasItemType DEF Typed
    <3>3. frame[t].new \in Objects /\ frame'[t].item = frame[t].item
      BY <3>1 DEF Publish, At, IInv, NewOK, HasNew, InHand, TypeOK, Frame
    <3>4. [Item(t) EXCEPT !.data = frame[t].new].data = frame[t].new
      BY <3>2 DEF ItemRecord
    <3>5. items'[frame[t].item].data = frame[t].new
      BY <3>2, <3>4 DEF Updated
    <3>6. frame[t].new # Null
      BY <3>3, ConstantsAssumption DEF Objects, Null
    <3> QED
      BY <2>1, <3>3, <3>5, <3>6
  <2>2. CASE u # t
    <3>1. /\ pc[u] = "bump" /\ frame'[u] = frame[u] /\ items[frame[u].item].data # Null
          /\ frame[u].item \in Indices /\ pc[u] \in Critical
      BY <1>1, <1>2, <2>2 DEF OthersKept, BumpOK, At, Item, IInv, FrameOK, Critical, HasItem, SetSteps
    <3>2. ~(Publish(t) /\ frame[u].item = frame[t].item)
      BY <2>2, <3>1, Exclusive DEF Publish, At, Critical, HasItem, SetSteps
    <3> QED
      BY <3>1, <3>2, DataSteps
  <2> QED
    BY <2>1, <2>2
<1> QED
  BY <1>2 DEF BumpOK, At, Item

\* What the broker is to ConfigStore: the inductive invariant and the above.
Mapped == IInv /\ AnswersLive /\ BumpOK

LEMMA MappedNext == Mapped /\ BrokerNext => Mapped'
<1> SUFFICES ASSUME Mapped, BrokerNext
             PROVE  Mapped'
  OBVIOUS
<1>1. IInv'
  BY IInvNext DEF Mapped
<1>2. CASE \E t \in Threads : ThreadStep(t)
  BY <1>1, <1>2, AnswersLiveNext, BumpOKNext DEF Mapped
<1>3. CASE Tick \/ UNCHANGED vars
  BY <1>1, <1>3 DEF Tick, vars, lists, Mapped, AnswersLive, BumpOK, At, Item
<1> QED
  BY <1>2, <1>3 DEF BrokerNext

LEMMA MappedInit == Init => Mapped
<1> SUFFICES ASSUME Init
             PROVE  Mapped
  OBVIOUS
<1> QED
  BY IInvInit DEF Mapped, AnswersLive, BumpOK, Init, Quiet, Failure, At, Null

-----------------------------------------------------------------------------
(* The steps *)

\* The effective value of an item changes when its version is bumped, and only then.
LEMMA EffectiveKept ==
  ASSUME Mapped, View, View', NEW t \in Threads, ThreadStep(t), NEW i \in Indices,
         ~(Bump(t) /\ i = frame[t].item)
  PROVE  EffectiveData(i)' = EffectiveData(i)
<1> USE IInvLayers DEF Mapped
<1>1. i \in Indices' /\ OthersKept(t)
  BY DataSteps, OthersUntouched DEF IInv
<1>2. CASE Publish(t) /\ i = frame[t].item
  <2>1. pc[t] = "publish" /\ pc[t] \in Critical
    BY <1>2 DEF Publish, At, Critical, HasItem, SetSteps
  <2>2. Swapping(i) = {}
    BY <1>2, <2>1, NotSwapping DEF Swapping, At
  <2>3. /\ pc'[t] = "bump" /\ frame'[t].old = items[i].data /\ frame'[t].item = i
    BY <1>2 DEF Publish, Goto, Item, IInv, TypeOK, Frame
  <2>4. t \in Swapping(i)'
    BY <2>3 DEF Swapping, At
  <2> QED
    BY <1>1, <2>2, <2>3, <2>4 DEF View
<1>3. CASE ~(Publish(t) /\ i = frame[t].item)
  <2>1. items'[i].data = items[i].data
    BY <1>3, DataSteps
  <2>2. Swapping(i)' = Swapping(i) /\ \A u \in Swapping(i) : frame'[u] = frame[u]
    <3>1. CASE Publish(t) \/ Bump(t)
      <4>1. i # frame[t].item /\ frame'[t].item = frame[t].item
        BY <1>3, <3>1 DEF Publish, Bump, IInv, TypeOK, Frame
      <4> QED
        BY <1>1, <4>1 DEF OthersKept, Swapping, At
    <3>2. CASE ~Publish(t) /\ ~Bump(t)
      BY <3>2, SameWindow
    <3> QED
      BY <3>1, <3>2
  <2>3. CASE Swapping(i) = {}
    BY <1>1, <2>1, <2>2, <2>3 DEF View
  <2>4. ASSUME NEW u \in Swapping(i)
        PROVE  EffectiveData(i)' = EffectiveData(i)
    BY <1>1, <2>2, <2>4 DEF View
  <2> QED
    BY <2>3, <2>4
<1> QED
  BY <1>2, <1>3
\* So is what it points to.
LEMMA ShownKept ==
  ASSUME Mapped, View, View', NEW t \in Threads, ThreadStep(t), NEW i \in Indices,
         ~(Bump(t) /\ i = frame[t].item)
  PROVE  ValueOf(EffectiveData(i))' = ValueOf(EffectiveData(i))
<1> USE IInvLayers DEF Mapped
<1> DEFINE o == EffectiveData(i)
<1>1. EffectiveData(i)' = o
  BY EffectiveKept
<1>2. CASE o = Null
  BY <1>1, <1>2 DEF ValueOf
<1>3. CASE o # Null
  <2>1. o \in Objects /\ heap[o].state = "owned" /\ ~(pc[t] \in HasNew /\ frame[t].new = o)
    <3>1. CASE Swapping(i) = {}
      <4>1. o = items[i].data /\ o \in Objects
        BY <1>3, <3>1, IndexType DEF View, IInv, TypeOK, ItemRecord, Pointers
      <4> QED
        BY <1>3, <4>1, DataApart DEF IInv, PublishedParsed, NewOK, HasNew, HasItem, SetSteps
    <3>2. ASSUME NEW u \in Swapping(i)
          PROVE  o \in Objects /\ heap[o].state = "owned" /\ ~(pc[t] \in HasNew /\ frame[t].new = o)
      <4>1. u \in Threads /\ pc[u] = "bump" /\ o = frame[u].old
        BY <3>2 DEF View, Swapping, At
      <4>2. InHand(u, o)
        BY <1>3, <4>1 DEF IInv, OldOK, HasOld
      <4>3. ASSUME pc[t] \in HasNew, frame[t].new = o
            PROVE  FALSE
        <5>1. InHand(t, o)
          BY <4>3 DEF IInv, NewOK
        <5>2. pc[t] \in Critical /\ pc[u] \in Critical /\ t # u
          BY <4>1, <4>3 DEF Critical, HasItem, SetSteps, HasNew
        <5>3. frame[t].name # frame[u].name
          BY <4>1, <5>2, Exclusive
        <5> QED
          BY <4>2, <5>1, <5>3 DEF InHand
      <4> QED
        BY <4>2, <4>3 DEF InHand
    <3> QED
      BY <3>1, <3>2
  <2>2. heap'[o].value = heap[o].value
    BY <2>1, ObjectKept
  <2> QED
    BY <1>1, <1>3, <2>2 DEF ValueOf
<1> QED
  BY <1>2, <1>3
\* A new item shows what a missing one does.
LEMMA CreatedView ==
  ASSUME Mapped, View', NEW t \in Threads, Create(t), NEW i \in Indices', i \notin Indices
  PROVE  ValueOf(EffectiveData(i))' = Blank /\ items'[i].version = 0
<1> USE DEF Mapped
<1>1. items' = Append(items, Created(t)) /\ Created(t) \in ItemRecord
  BY CreateEffect DEF IInv
<1>2. i = Len(items) + 1 /\ items'[i] = Created(t)
  BY <1>1, AppendType DEF IInv
<1>3. items'[i].data = Null /\ items'[i].version = 0
  BY <1>2 DEF Created
<1>4. ASSUME NEW u \in Swapping(i)'
      PROVE  FALSE
  <2>1. u \in Threads /\ pc'[u] = "bump" /\ frame'[u].item = i
    BY <1>4 DEF Swapping, At
  <2>2. u # t
    BY <2>1 DEF Create, Goto, AfterFind, IInv, TypeOK
  <2>3. pc[u] = "bump" /\ frame[u].item = i
    BY <2>1, <2>2, OthersUntouched DEF IInv, OthersKept, ThreadStep, BrokerStep, FindStep
  <2> QED
    BY <2>1, <2>3 DEF IInv, FrameOK, HasItem, SetSteps
<1>5. EffectiveData(i)' = Null
  BY <1>3, <1>4 DEF View
<1> QED
  BY <1>3, <1>5 DEF ValueOf

LEMMA RegistersKept ==
  ASSUME Mapped, View, View', NEW t \in Threads, ThreadStep(t), NEW n \in Names,
         ~(Bump(t) /\ n = frame[t].name)
  PROVE  ValueAt(n)' = ValueAt(n) /\ VersionAt(n)' = VersionAt(n)
<1> USE IInvLayers DEF Mapped
<1>1. CASE Matches(n) # {}
  <2>1. PICK i \in Indices : items[i].name = n
    BY <1>1 DEF Matches
  <2>2. i \in Indices' /\ items'[i].name = n
    BY <2>1, DataSteps
  <2>3. ~(Bump(t) /\ i = frame[t].item)
    BY <2>1 DEF Bump, At, IInv, FrameOK, HasItem, SetSteps
  <2>4. items'[i].version = items[i].version
    BY <2>3, FieldSteps
  <2>5. ValueAt(n) = ValueOf(EffectiveData(i)) /\ VersionAt(n) = items[i].version
    BY <2>1 DEF View
  <2>6. ValueAt(n)' = ValueOf(EffectiveData(i))' /\ VersionAt(n)' = items'[i].version
    BY <2>2 DEF View
  <2> QED
    BY <2>3, <2>4, <2>5, <2>6, ShownKept
<1>2. CASE Matches(n) = {}
  <2>1. ValueAt(n) = Blank /\ VersionAt(n) = 0
    BY <1>2 DEF View
  <2>2. CASE Matches(n)' = {}
    BY <2>1, <2>2 DEF View
  <2>3. CASE Matches(n)' # {}
    <3>1. PICK i \in Indices' : items'[i].name = n
      BY <2>3 DEF Matches
    <3>2. i \notin Indices
      BY <1>2, <3>1, DataSteps DEF Matches
    <3>3. Create(t)
      BY <3>1, <3>2, SameList
    <3>4. ValueAt(n)' = ValueOf(EffectiveData(i))' /\ VersionAt(n)' = items'[i].version
      BY <3>1 DEF View
    <3> QED
      BY <2>1, <3>1, <3>2, <3>3, <3>4, CreatedView
  <2> QED
    BY <2>2, <2>3
<1> QED
  BY <1>1, <1>2

\* An answer keeps its meaning.
LEMMA GotKept ==
  ASSUME Mapped, NEW t \in Threads, ThreadStep(t), NEW u \in Threads, ret'[u] = ret[u]
  PROVE  Got(u)' = Got(u)
<1> USE IInvLayers DEF Mapped
<1>1. CASE ret[u].item = Null
  BY <1>1 DEF Got
<1>2. CASE ret[u].item # Null
  <2>1. ret[u].item \in Indices
    BY <1>2 DEF IInv, AnswersOK
  <2>2. items'[ret[u].item].name = items[ret[u].item].name
    BY <2>1, DataSteps
  <2>3. ret[u].data \in Pointers
    BY DEF IInv, TypeOK, Result
  <2>4. ValueOf(ret[u].data)' = ValueOf(ret[u].data)
    <3>1. CASE ret[u].data = Null
      BY <3>1 DEF ValueOf
    <3>2. CASE ret[u].data # Null
      <4>1. heap'[ret[u].data].value = heap[ret[u].data].value
        BY <2>3, <3>2, ObjectKept DEF AnswersLive, Pointers
      <4> QED
        BY <3>2, <4>1 DEF ValueOf
    <3> QED
      BY <3>1, <3>2
  <2> QED
    BY <1>2, <2>2, <2>4 DEF Got
<1> QED
  BY <1>1, <1>2
\* Bump replaces the value.
LEMMA BumpReplaces ==
  ASSUME Mapped, View, View', NEW t \in Threads, Bump(t), NEW n, n = frame[t].name
  PROVE  /\ n \in Names
         /\ ValueAt(n)' \in Values
         /\ VersionAt(n)' = VersionAt(n) + 1
<1> USE IInvLayers DEF Mapped
<1>1. ThreadStep(t) /\ pc[t] = "bump" /\ pc[t] \in HasItem /\ pc[t] \in Critical
  BY DEF ThreadStep, BrokerStep, SetStep, Bump, At, Critical, HasItem, SetSteps
<1>2. PICK i \in Indices : i = frame[t].item /\ items[i].name = n /\ n \in Names
  BY <1>1 DEF IInv, FrameOK, At
<1>3. i \in Indices' /\ items'[i].name = n /\ items'[i].data = items[i].data
  BY <1>1, <1>2, DataSteps DEF Publish, At
<1>4. items'[i].version = items[i].version + 1
  <2>1. Updated(t, [Item(t) EXCEPT !.version = Item(t).version + 1]) /\ Item(t) \in ItemRecord
    BY <1>1, BumpUpdates, HasItemType DEF Typed
  <2> QED
    BY <1>2, <2>1 DEF Updated, ItemRecord, Item
<1>5. ASSUME NEW u \in Swapping(i)'
      PROVE  FALSE
  <2>1. u \in Threads /\ pc'[u] = "bump" /\ frame'[u].item = i
    BY <1>5 DEF Swapping, At
  <2>2. u # t
    BY <2>1 DEF Bump, Goto, IInv, TypeOK
  <2>3. pc[u] = "bump" /\ frame[u].item = i
    BY <1>1, <2>1, <2>2, OthersUntouched DEF IInv, OthersKept
  <2> QED
    BY <1>1, <1>2, <2>1, <2>2, <2>3, Exclusive
<1>6. EffectiveData(i)' = items[i].data
  BY <1>3, <1>5 DEF View
<1>7. items[i].data # Null /\ heap' = heap
  BY <1>2 DEF Bump, BumpOK, Item
<1>8. heap[items[i].data].value \in Values
  <2>1. items[i].data \in Objects
    BY <1>2, <1>7, IndexType DEF IInv, TypeOK, ItemRecord, Pointers
  <2>2. heap[items[i].data].value # Blank
    BY <1>2, <1>7 DEF IInv, PublishedParsed
  <2> QED
    BY <2>1, <2>2 DEF IInv, TypeOK, ObjectRecord
<1>9. ValueAt(n)' = ValueOf(EffectiveData(i))' /\ VersionAt(n)' = items'[i].version
  BY <1>2, <1>3 DEF View
<1>10. VersionAt(n) = items[i].version
  BY <1>2 DEF View
<1>11. ValueOf(EffectiveData(i))' \in Values
  BY <1>6, <1>7, <1>8 DEF ValueOf
<1> QED
  BY <1>2, <1>4, <1>9, <1>10, <1>11

\* ReadData answers with the value and the version that the store has.
LEMMA ReadAnswers ==
  ASSUME Mapped, View, NEW t \in Threads, ReadData(t)
  PROVE  /\ frame[t].name \in Names
         /\ Got(t)' = [name |-> frame[t].name, version |-> VersionAt(frame[t].name),
                       value |-> ValueAt(frame[t].name)]
<1> USE IInvLayers DEF Mapped
<1> DEFINE i == frame[t].item
           n == frame[t].name
<1>1. ThreadStep(t) /\ pc[t] = "data" /\ pc[t] \in HasItem /\ pc[t] \in Critical
  BY DEF ThreadStep, BrokerStep, OtherStep, ReadData, At, Critical, HasItem, SetSteps
<1>2. i \in Indices /\ items[i].name = n /\ n \in Names /\ i # Null
  BY <1>1, IndexType DEF IInv, FrameOK, At, Null
<1>3. Swapping(i) = {}
  BY <1>1, NotSwapping DEF Swapping, At
<1>4. ValueAt(n) = ValueOf(items[i].data) /\ VersionAt(n) = items[i].version
  BY <1>2, <1>3 DEF View
<1>5. ret'[t] = [code |-> "OK", item |-> i, version |-> items[i].version, data |-> items[i].data]
  BY <1>1 DEF ReadData, Return, Item, IInv, TypeOK, ReadOK, At
<1>6. items'[i].name = n /\ heap' = heap
  BY <1>1, <1>2, DataSteps DEF ReadData
<1>7. ValueOf(items[i].data) = IF items[i].data = Null THEN Blank ELSE heap'[items[i].data].value
  BY <1>6 DEF ValueOf
<1>8. Got(t)' = [name |-> n, version |-> items[i].version, value |-> ValueOf(items[i].data)]
  BY <1>2, <1>5, <1>6, <1>7 DEF Got, ValueOf
<1> QED
  BY <1>2, <1>4, <1>8

-----------------------------------------------------------------------------
(* The refinement *)

\* The actions of the store, in terms of what it sees.
LEMMA StoreActions ==
  /\ \A n \in Names : \A v :
       Register!Replace(n, v) <=>
         /\ [m \in Names |-> ValueAt(m)]' = [[m \in Names |-> ValueAt(m)] EXCEPT ![n] = v]
         /\ [m \in Names |-> VersionAt(m)]'
              = [[m \in Names |-> VersionAt(m)] EXCEPT ![n] = [m \in Names |-> VersionAt(m)][n] + 1]
         /\ [u \in Threads |-> Got(u)]' = [u \in Threads |-> Got(u)]
  /\ \A t \in Threads, n \in Names :
       Register!Answer(t, n) <=>
         /\ [u \in Threads |-> Got(u)]'
              = [[u \in Threads |-> Got(u)] EXCEPT
                   ![t] = [name |-> n, version |-> [m \in Names |-> VersionAt(m)][n],
                           value |-> [m \in Names |-> ValueAt(m)][n]]]
         /\ [m \in Names |-> ValueAt(m)]' = [m \in Names |-> ValueAt(m)]
         /\ [m \in Names |-> VersionAt(m)]' = [m \in Names |-> VersionAt(m)]
  /\ \A t \in Threads :
       Register!Refuse(t) <=>
         /\ [u \in Threads |-> Got(u)]'
              = [[u \in Threads |-> Got(u)] EXCEPT
                   ![t] = [name |-> Blank, version |-> 0, value |-> Blank]]
         /\ [m \in Names |-> ValueAt(m)]' = [m \in Names |-> ValueAt(m)]
         /\ [m \in Names |-> VersionAt(m)]' = [m \in Names |-> VersionAt(m)]
  /\ UNCHANGED Register!storeVars <=>
       /\ [m \in Names |-> ValueAt(m)]' = [m \in Names |-> ValueAt(m)]
       /\ [m \in Names |-> VersionAt(m)]' = [m \in Names |-> VersionAt(m)]
       /\ [u \in Threads |-> Got(u)]' = [u \in Threads |-> Got(u)]
BY DEF Register!Replace, Register!Answer, Register!Refuse, Register!Nothing, Register!storeVars,
       ValueAt, VersionAt, Got, ItemOf

\* Every step of a thread is one of the store, or none.
LEMMA StepImplements ==
  ASSUME Mapped, View, View', NEW t \in Threads, ThreadStep(t)
  PROVE  Register!StoreNext \/ UNCHANGED Register!storeVars
<1> DEFINE value == [n \in Names |-> ValueAt(n)]
           version == [n \in Names |-> VersionAt(n)]
           got == [u \in Threads |-> Got(u)]
<1>1. OthersKept(t) /\ pc[t] \in Steps
  BY OthersUntouched DEF Mapped, IInv, TypeOK
<1>2. \A u \in Threads : ret'[u] = ret[u] => Got(u)' = Got(u)
  BY GotKept
<1>3. \A u \in Threads : u # t => Got(u)' = Got(u)
  BY <1>1, <1>2 DEF OthersKept
<1>4. CASE Bump(t)
  <2>1. PICK n : n = frame[t].name
    OBVIOUS
  <2>2. n \in Names /\ ValueAt(n)' \in Values /\ VersionAt(n)' = VersionAt(n) + 1
    BY <1>4, <2>1, BumpReplaces
  <2>3. \A m \in Names : m # n => ValueAt(m)' = ValueAt(m) /\ VersionAt(m)' = VersionAt(m)
    BY <2>1, RegistersKept
  <2>4. \A u \in Threads : Got(u)' = Got(u)
    BY <1>2, <1>3, <1>4 DEF Bump
  <2>5. value' = [value EXCEPT ![n] = ValueAt(n)']
    BY <2>2, <2>3
  <2>6. version' = [version EXCEPT ![n] = version[n] + 1]
    BY <2>2, <2>3
  <2>7. got' = got
    BY <2>4
  <2> HIDE DEF value, version, got
  <2>8. \E v \in Values : value' = [value EXCEPT ![n] = v]
    BY <2>2, <2>5
  <2>9. \E v \in Values : Register!Replace(n, v)
    BY <2>2, <2>6, <2>7, <2>8, StoreActions DEF value, version, got
  <2> QED
    BY <2>2, <2>9 DEF Register!StoreNext
<1>5. CASE ~Bump(t)
  <2>1. value' = value /\ version' = version
    BY <1>5, RegistersKept
  <2>2. CASE ReadData(t)
    <3>1. PICK n : n = frame[t].name
      OBVIOUS
    <3>2. /\ n \in Names
          /\ Got(t)' = [name |-> n, version |-> VersionAt(n), value |-> ValueAt(n)]
      BY <2>2, <3>1, ReadAnswers
    <3>3. got' = [got EXCEPT ![t] = [name |-> n, version |-> version[n], value |-> value[n]]]
      BY <1>3, <3>2
    <3>4. Register!Answer(t, n)
      BY <2>1, <3>2, <3>3, StoreActions
    <3> QED
      BY <3>2, <3>4 DEF Register!StoreNext
  <2>3. CASE ret'[t] = ret[t]
    <3>1. got' = got
      BY <1>2, <1>3, <2>3
    <3> QED
      BY <2>1, <3>1, StoreActions
  <2>4. CASE ret'[t].item = Null
    <3>1. Got(t)' = [name |-> Blank, version |-> 0, value |-> Blank]
      BY <2>4 DEF Got
    <3>2. got' = [got EXCEPT ![t] = [name |-> Blank, version |-> 0, value |-> Blank]]
      BY <1>3, <3>1
    <3>3. Register!Refuse(t)
      BY <2>1, <3>2, StoreActions
    <3> QED
      BY <3>3 DEF Register!StoreNext
  <2> QED
    BY <2>2, <2>3, <2>4, RetSteps, IInvLayers DEF Mapped
<1> QED
  BY <1>4, <1>5

LEMMA NextImplements ==
  Mapped /\ View /\ View' /\ BrokerNext => Register!StoreNext \/ UNCHANGED Register!storeVars
<1> SUFFICES ASSUME Mapped, View, View', BrokerNext
             PROVE  Register!StoreNext \/ UNCHANGED Register!storeVars
  OBVIOUS
<1>1. CASE Tick \/ UNCHANGED vars
  <2>1. UNCHANGED <<items, heap, pc, frame, ret>>
    BY <1>1 DEF Tick, vars, lists
  <2> QED
    BY <2>1 DEF Register!storeVars, Matches, Newest, Indices, EffectiveData, Swapping, At, ValueOf
<1>2. CASE \E t \in Threads : ThreadStep(t)
  BY <1>2, StepImplements
<1> QED
  BY <1>1, <1>2 DEF BrokerNext

LEMMA InitImplements == Init => Register!StoreInit
BY DEF Init, Quiet, Failure, Register!StoreInit, Register!Nothing, Matches, Indices

\* The broker implements the store: consumers see whole values, each under a number
\* of its own, and a get is one snapshot of both (config_broker.cc:228-308).
THEOREM Implements == Spec => ImplementsStore
<1>1. Mapped => View
  BY ViewOK DEF Mapped
<1>2. Mapped /\ [Next]_vars => BrokerNext
  BY NextEnters DEF Mapped, IInv
<1> QED
  BY <1>1, <1>2, MappedInit, MappedNext, InitImplements, NextImplements, PTL
     DEF Spec, ImplementsStore, Register!StoreSpec
=============================================================================

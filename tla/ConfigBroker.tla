---------------------------- MODULE ConfigBroker ----------------------------
(***************************************************************************)
(* The configuration broker compartment, config_broker.cc: the list of     *)
(* configuration items, the three entry points set_config, get_config and  *)
(* set_parser, the lock around the list, the lock of each item and the     *)
(* heap objects that hold the published values.                            *)
(*                                                                         *)
(* A thread that calls the broker advances through the entry point one     *)
(* step at a time; pc[t] names the step it takes next, and every point at  *)
(* which another thread can be scheduled and tell the difference lies      *)
(* between two steps.                                                      *)
(***************************************************************************)
EXTENDS Integers, FiniteSets, Sequences

CONSTANTS
  Threads,    \* threads that call into the compartment
  Names,      \* names carried by the sealed tokens
  Payloads,   \* contents of the buffers handed to set_config
  Values,     \* contents of a parsed object
  Parsed,     \* Parsed[p]: what the parser stores for payload p, or Rejected
  Rejected,   \* the answer of a parser that refuses a payload
  Blank,      \* contents of an object no parser has completed
  Interval,   \* Interval[n]: minimum ticks between updates, from n's parser token
  Held,       \* Held[t]: the sealed capabilities thread t has been given
  Budgets,    \* bound: calls each thread makes, one of several choices
  MaxObjects, \* bound: objects the broker allocates in a behaviour
  MaxTick,    \* bound: value at which the system tick stops
  Hangs,      \* names whose parser may never return
  None        \* no thread, no name, no payload

Kinds == {"write", "read", "parser"}
Caps == [kind : Kinds, name : Names]

ASSUME ConstantsAssumption ==
  /\ None \notin Threads \cup Names \cup Payloads
  /\ Rejected \notin Values
  /\ Blank \notin Values
  /\ Parsed \in [Payloads -> Values \cup {Rejected}]
  /\ Interval \in [Names -> Nat]
  /\ Held \in [Threads -> SUBSET Caps]
  /\ Budgets \subseteq [Threads -> Nat]
  /\ MaxObjects \in Nat
  /\ MaxTick \in Nat
  /\ Hangs \subseteq Names

VARIABLES
  items,        \* the list configData, oldest item first (the head is the last)
  findLock,     \* owner of lockFindOrCreate
  heap,         \* heap[o]: the o-th object allocated for a value
  clock,        \* the system tick
  pc,           \* pc[t]: the next step of thread t
  frame,        \* frame[t]: the local variables of its call
  ret,          \* ret[t]: what its last call returned
  left,         \* left[t]: calls thread t may still make
  lastAttempt   \* history: tick of the last rate-limited attempt on each name

lists == <<items, findLock>>
vars == <<items, findLock, heap, clock, pc, frame, ret, left, lastAttempt>>

-----------------------------------------------------------------------------
(* Data *)

Objects == 1 .. MaxObjects
Null == 0                       \* nullptr, as an object or an item
Pointers == Objects \cup {Null}
Fields == {"size", "minTicks", "parser"}   \* what set_parser stores in an item

\* An InternalConfigitem.  The three fields set_parser stores always take the
\* value the token holds, so the item records which have been stored.
ItemRecord == [name : Names, version : Nat, data : Pointers, stored : SUBSET Fields,
               nextUpdate : Nat, lock : Threads \cup {None}]

\* Find the length of the list, and the items a search by name would match.
Indices == DOMAIN items
Matches(n) == {i \in Indices : items[i].name = n}

\* The search runs from the head, so it returns the newest match.
Newest(n, i) == i \in Matches(n) /\ \A j \in Matches(n) : j <= i

\* A heap object: the item it was allocated for, whether c->size was known when
\* it was allocated, its contents, and whether the broker still owns it.
ObjectRecord == [state : {"unused", "owned", "freed"}, name : Names \cup {None},
                 sized : BOOLEAN, value : Values \cup {Blank}]
UnusedObject == [state |-> "unused", name |-> None, sized |-> FALSE, value |-> Blank]

\* Key an entry point unseals its capability with.
KeyOf == [set |-> "write", get |-> "read", set_parser |-> "parser"]
Ops == {"set", "get", "set_parser"}

Frame == [op : Ops, name : Names \cup {None}, src : Payloads \cup {None}, item : Nat, new : Pointers,
          old : Pointers, version : Nat, todo : SUBSET Fields]
NewFrame(op, name, src) ==
  [op |-> op, name |-> name, src |-> src, item |-> Null, new |-> Null, old |-> Null,
   version |-> 0, todo |-> Fields]
IdleFrame == NewFrame("get", None, None)

\* What a call returns.  Only a get that succeeds has an item.
Codes == {"OK", "EPERM", "ENOMEM", "ENODEV", "EBUSY", "EINVAL", "ZERO", "FAIL"}
Result == [code : Codes, item : Nat, version : Nat, data : Pointers]
Failure(code) == [code |-> code, item |-> Null, version |-> 0, data |-> Null]

\* How each entry point reports a bad capability and a list that cannot grow.
Denied == [set |-> "EPERM", get |-> "ZERO", set_parser |-> "FAIL"]
NoItem == [set |-> "ENOMEM", get |-> "ZERO", set_parser |-> "FAIL"]

-----------------------------------------------------------------------------
(* Steps of a thread *)

At(t, step) == pc[t] = step
Goto(t, step) == pc' = [pc EXCEPT ![t] = step]
Return(t, result) ==
  /\ Goto(t, "idle")
  /\ ret' = [ret EXCEPT ![t] = result]
  /\ frame' = [frame EXCEPT ![t] = IdleFrame]

\* Mutant: the object stays with the broker.
FreeNothing(o) == heap

\* The item the call works on, updates of it, and the end of an object.
Item(t) == items[frame[t].item]
SetItem(t, item) == items' = [items EXCEPT ![frame[t].item] = item]
Unlock(t) == SetItem(t, [Item(t) EXCEPT !.lock = None])
Free(o) == [heap EXCEPT ![o].state = "freed"]

\* An entry point is called and unseals the capability it was passed.
Enter(t, op, cap, src) ==
  /\ At(t, "idle")
  /\ IF cap.kind = KeyOf[op]
       THEN /\ frame' = [frame EXCEPT ![t] = NewFrame(op, cap.name, src)]
            /\ Goto(t, "find")
            /\ UNCHANGED ret
       ELSE Return(t, Failure(Denied[op]))
  /\ UNCHANGED <<lists, heap, clock, lastAttempt>>

\* Mutant: the list is searched without its lock.
FindUnguarded(t) ==
  /\ At(t, "find")
  /\ findLock' = t
  /\ Goto(t, "search")
  /\ UNCHANGED <<items, heap, clock, frame, ret, left, lastAttempt>>

\* find_or_create_config: take the lock of the list.
Find(t) ==
  /\ At(t, "find") /\ findLock = None
  /\ findLock' = t
  /\ Goto(t, "search")
  /\ UNCHANGED <<items, heap, clock, frame, ret, left, lastAttempt>>

\* Where an entry point continues once it has its item: set_parser takes no lock.
AfterFind(t) == IF frame[t].op = "set_parser" THEN "store" ELSE "lock"

\* Search the list by name and release its lock if the item is there.
Search(t) ==
  /\ At(t, "search")
  /\ IF Matches(frame[t].name) # {}
       THEN /\ \E i \in Matches(frame[t].name) :
                 Newest(frame[t].name, i) /\ frame' = [frame EXCEPT ![t].item = i]
            /\ findLock' = None
            /\ Goto(t, AfterFind(t))
       ELSE Goto(t, "create") /\ UNCHANGED <<findLock, frame>>
  /\ UNCHANGED <<items, heap, clock, ret, left, lastAttempt>>

\* Insert a zeroed item at the head of the list.
Create(t) ==
  /\ At(t, "create")
  /\ items' = Append(items, [name |-> frame[t].name, version |-> 0, data |-> Null,
                             stored |-> {}, nextUpdate |-> 0, lock |-> None])
  /\ frame' = [frame EXCEPT ![t].item = Len(items) + 1]
  /\ findLock' = None
  /\ Goto(t, AfterFind(t))
  /\ UNCHANGED <<heap, clock, ret, left, lastAttempt>>

\* The allocation of the item fails.
CreateFails(t) ==
  /\ At(t, "create")
  /\ findLock' = None
  /\ Return(t, Failure(NoItem[frame[t].op]))
  /\ UNCHANGED <<items, heap, clock, left, lastAttempt>>

\* Mutant: get_config takes no notice of the lock.
LockShared(t) ==
  /\ At(t, "lock") /\ (Item(t).lock = None \/ frame[t].op = "get")
  /\ SetItem(t, [Item(t) EXCEPT !.lock = t])
  /\ Goto(t, IF frame[t].op = "set" THEN "check" ELSE "version")
  /\ UNCHANGED <<findLock, heap, clock, frame, ret, left, lastAttempt>>

\* Mutant: one lock for all items.
LockGlobal(t) ==
  /\ At(t, "lock") /\ \A i \in Indices : items[i].lock = None
  /\ SetItem(t, [Item(t) EXCEPT !.lock = t])
  /\ Goto(t, IF frame[t].op = "set" THEN "check" ELSE "version")
  /\ UNCHANGED <<findLock, heap, clock, frame, ret, left, lastAttempt>>

\* Take the lock of the item, for set_config and get_config.
Lock(t) ==
  /\ At(t, "lock") /\ Item(t).lock = None
  /\ SetItem(t, [Item(t) EXCEPT !.lock = t])
  /\ Goto(t, IF frame[t].op = "set" THEN "check" ELSE "version")
  /\ UNCHANGED <<findLock, heap, clock, frame, ret, left, lastAttempt>>

-----------------------------------------------------------------------------
(* set_config, with the lock of the item held *)

\* Leave with an error, releasing the lock.
Refused(t, code) ==
  /\ Unlock(t)
  /\ Return(t, Failure(code))

NoParser(t) ==
  /\ At(t, "check") /\ "parser" \notin Item(t).stored
  /\ Refused(t, "ENODEV")
  /\ UNCHANGED <<findLock, heap, clock, left, lastAttempt>>

\* Mutant: the last tick of the interval is let through.
TooSoonOffByOne(t) == Item(t).nextUpdate > 0 /\ clock + 1 < Item(t).nextUpdate

\* The rate limit: an attempt moves the time of the next one, whatever becomes of it.
TooSoon(t) == Item(t).nextUpdate > 0 /\ clock < Item(t).nextUpdate
MinTicks(t) == IF "minTicks" \in Item(t).stored THEN Interval[Item(t).name] ELSE 0

Busy(t) ==
  /\ At(t, "check") /\ "parser" \in Item(t).stored /\ TooSoon(t)
  /\ Refused(t, "EBUSY")
  /\ UNCHANGED <<findLock, heap, clock, left, lastAttempt>>

Attempt(t) ==
  /\ At(t, "check") /\ "parser" \in Item(t).stored /\ ~TooSoon(t)
  /\ SetItem(t, [Item(t) EXCEPT !.nextUpdate = clock + MinTicks(t)])
  /\ lastAttempt' = IF "minTicks" \in Item(t).stored
                      THEN [lastAttempt EXCEPT ![Item(t).name] = clock] ELSE lastAttempt
  /\ Goto(t, "malloc")
  /\ UNCHANGED <<findLock, heap, clock, frame, ret, left>>

\* Allocate c->size bytes for the new value.
Malloc(t) ==
  /\ At(t, "malloc")
  /\ \E o \in Objects :
       /\ heap[o].state = "unused" /\ \A p \in 1 .. o - 1 : heap[p].state # "unused"
       /\ heap' = [heap EXCEPT ![o] = [state |-> "owned", name |-> Item(t).name,
                                       sized |-> "size" \in Item(t).stored, value |-> Blank]]
       /\ frame' = [frame EXCEPT ![t].new = o]
  /\ Goto(t, "parse")
  /\ UNCHANGED <<lists, clock, ret, left, lastAttempt>>

MallocFails(t) ==
  /\ At(t, "malloc")
  /\ Refused(t, "ENOMEM")
  /\ UNCHANGED <<findLock, heap, clock, left, lastAttempt>>

\* The parser returns 0.  It writes through a capability bounded to the object,
\* so it cannot complete in one that was allocated without the item's size.
ParseOk(t) ==
  /\ At(t, "parse")
  /\ heap[frame[t].new].sized /\ Parsed[frame[t].src] # Rejected
  /\ heap' = [heap EXCEPT ![frame[t].new].value = Parsed[frame[t].src]]
  /\ Goto(t, "publish")
  /\ UNCHANGED <<lists, clock, frame, ret, left, lastAttempt>>

\* Mutant: the result of the parser is ignored.
ParseUnchecked(t) ==
  /\ At(t, "parse")
  /\ Goto(t, "publish")
  /\ UNCHANGED <<lists, heap, clock, frame, ret, left, lastAttempt>>

\* The parser rejects the payload, or its compartment faults and the call is
\* unwound with an error.
ParseFails(t) ==
  /\ At(t, "parse")
  /\ Goto(t, "discard")
  /\ UNCHANGED <<lists, heap, clock, frame, ret, left, lastAttempt>>

\* Mutant: a rejected object is not freed.
DiscardLeaks(t) ==
  /\ At(t, "discard")
  /\ Refused(t, "EINVAL")
  /\ UNCHANGED <<findLock, heap, clock, left, lastAttempt>>

Discard(t) ==
  /\ At(t, "discard")
  /\ heap' = Free(frame[t].new)
  /\ Refused(t, "EINVAL")
  /\ UNCHANGED <<findLock, clock, left, lastAttempt>>

\* Mutant: the old value is freed when it is replaced, before the version moves.
PublishFrees(t) ==
  /\ At(t, "publish")
  /\ heap' = IF Item(t).data = Null THEN heap ELSE Free(Item(t).data)
  /\ SetItem(t, [Item(t) EXCEPT !.data = frame[t].new])
  /\ Goto(t, "bump")
  /\ UNCHANGED <<findLock, clock, frame, ret, left, lastAttempt>>

\* c->data takes the new object and the old one is remembered.
Publish(t) ==
  /\ At(t, "publish")
  /\ frame' = [frame EXCEPT ![t].old = Item(t).data]
  /\ SetItem(t, [Item(t) EXCEPT !.data = frame[t].new])
  /\ Goto(t, "bump")
  /\ UNCHANGED <<findLock, heap, clock, ret, left, lastAttempt>>

Bump(t) ==
  /\ At(t, "bump")
  /\ SetItem(t, [Item(t) EXCEPT !.version = @ + 1])
  /\ Goto(t, "notify")
  /\ UNCHANGED <<findLock, heap, clock, frame, ret, left, lastAttempt>>

\* Wake the threads that wait on the version.
Notify(t) ==
  /\ At(t, "notify")
  /\ Goto(t, "free")
  /\ UNCHANGED <<lists, heap, clock, frame, ret, left, lastAttempt>>

\* Free the old value, if there was one, and return 0.
FreeOld(t) ==
  /\ At(t, "free")
  /\ heap' = IF frame[t].old = Null THEN heap ELSE Free(frame[t].old)
  /\ Refused(t, "OK")
  /\ UNCHANGED <<findLock, clock, left, lastAttempt>>

-----------------------------------------------------------------------------
(* get_config, with the lock of the item held, and set_parser, with no lock *)

ReadVersion(t) ==
  /\ At(t, "version")
  /\ frame' = [frame EXCEPT ![t].version = Item(t).version]
  /\ Goto(t, "data")
  /\ UNCHANGED <<lists, heap, clock, ret, left, lastAttempt>>

ReadData(t) ==
  /\ At(t, "data")
  /\ Unlock(t)
  /\ Return(t, [code |-> "OK", item |-> frame[t].item,
                version |-> frame[t].version, data |-> Item(t).data])
  /\ UNCHANGED <<findLock, heap, clock, left, lastAttempt>>

\* Store one field of the token.  The stores are plain and unordered, and
\* set_config may run between them.
Store(t, f) ==
  /\ At(t, "store") /\ f \in frame[t].todo
  /\ SetItem(t, [Item(t) EXCEPT !.stored = @ \cup {f}])
  /\ IF frame[t].todo = {f}
       THEN Return(t, Failure("OK"))
       ELSE /\ frame' = [frame EXCEPT ![t].todo = @ \ {f}]
            /\ UNCHANGED <<pc, ret>>
  /\ UNCHANGED <<findLock, heap, clock, left, lastAttempt>>

-----------------------------------------------------------------------------
(* The environment and the specification *)

Tick ==
  /\ clock < MaxTick
  /\ clock' = clock + 1
  /\ UNCHANGED <<lists, heap, pc, frame, ret, left, lastAttempt>>

\* A thread calls an entry point with a capability it holds.
Call(t) ==
  /\ left[t] > 0
  /\ left' = [left EXCEPT ![t] = @ - 1]
  /\ \E op \in Ops, cap \in Held[t] :
       \E src \in IF op = "set" THEN Payloads ELSE {None} : Enter(t, op, cap, src)

\* Every thread has made its last call.
Finished ==
  /\ \A t \in Threads : At(t, "idle") /\ left[t] = 0
  /\ UNCHANGED vars

\* The steps a thread takes by itself once it has called.
Parse(t) == ParseOk(t) \/ ParseFails(t)
SetStep(t) ==
  \/ NoParser(t) \/ Busy(t) \/ Attempt(t) \/ Malloc(t) \/ MallocFails(t)
  \/ Discard(t) \/ Publish(t) \/ Bump(t) \/ Notify(t) \/ FreeOld(t)
FindStep(t) == Find(t) \/ Search(t) \/ Create(t) \/ CreateFails(t) \/ Lock(t)
OtherStep(t) == ReadVersion(t) \/ ReadData(t) \/ \E f \in Fields : Store(t, f)
BrokerStep(t) == FindStep(t) \/ SetStep(t) \/ OtherStep(t)

\* No call is in progress, nothing was ever published.
Quiet ==
  /\ findLock = None
  /\ heap = [o \in Objects |-> UnusedObject]
  /\ clock = 0
  /\ pc = [t \in Threads |-> "idle"]
  /\ frame = [t \in Threads |-> IdleFrame]
  /\ ret = [t \in Threads |-> Failure("FAIL")]
  /\ left \in Budgets
  /\ lastAttempt = [n \in Names |-> 0 - Interval[n]]

Init == items = <<>> /\ Quiet

Next ==
  \/ Tick
  \/ Finished
  \/ \E t \in Threads : Call(t) \/ BrokerStep(t) \/ Parse(t)

Spec == Init /\ [][Next]_vars

\* Threads run until their call returns; a parser returns unless it may hang.
Fairness ==
  \A t \in Threads : /\ WF_vars(BrokerStep(t))
                     /\ WF_vars(Parse(t) /\ frame[t].name \notin Hangs)

FairSpec == Spec /\ Fairness

-----------------------------------------------------------------------------
(* Properties *)

Steps == {"idle", "find", "search", "create", "lock", "check", "malloc", "parse", "publish",
          "bump", "notify", "free", "discard", "version", "data", "store"}

\* Type invariant.
TypeOK ==
  /\ items \in Seq(ItemRecord)
  /\ findLock \in Threads \cup {None}
  /\ heap \in [Objects -> ObjectRecord]
  /\ clock \in Nat
  /\ pc \in [Threads -> Steps]
  /\ frame \in [Threads -> Frame]
  /\ ret \in [Threads -> Result]
  /\ left \in [Threads -> Nat]
  /\ lastAttempt \in [Names -> Int]

\* A call has a name, and a payload if it is set_config; past the search it
\* works on an item of the list that carries that name.
SetSteps == {"check", "malloc", "parse", "discard", "publish", "bump", "notify", "free"}
HasItem == SetSteps \cup {"lock", "version", "data", "store"}
FrameOK ==
  \A t \in Threads :
    /\ ~At(t, "idle") => frame[t].name \in Names
    /\ ~At(t, "idle") /\ frame[t].op = "set" => frame[t].src \in Payloads
    /\ pc[t] \in SetSteps => frame[t].op = "set"
    /\ pc[t] \in HasItem =>
         frame[t].item \in Indices /\ items[frame[t].item].name = frame[t].name

\* The thread that looks for an item, and creates it, holds lockFindOrCreate.
FindLocked == \A t \in Threads : pc[t] \in {"search", "create"} => findLock = t

\* Two threads that look for the same missing name never create it twice
\* (find_or_create_config): a second item would hide the first, with its
\* parser, its value and its waiters.
UniqueNames == \A i, j \in Indices : items[i].name = items[j].name => i = j

\* A thread only decides to create an item whose name is still not in the list.
CreateOK == \A t \in Threads : At(t, "create") => Matches(frame[t].name) = {}

\* Between taking the lock of an item and the return, the thread holds it: no
\* two threads are in set_config or get_config of one item at once.
Critical == HasItem \ {"lock", "store"}
ItemLocked == \A t \in Threads : pc[t] \in Critical => items[frame[t].item].lock = t

\* The object a call allocated, before it is published, and the object it
\* replaced, before it is freed, are live objects of its item that c->data does
\* not point to; what is about to be published is complete.
HasNew == {"parse", "publish", "discard"}
HasOld == {"bump", "notify", "free"}
InHand(t, o) ==
  /\ o \in Objects
  /\ heap[o].state = "owned" /\ heap[o].name = frame[t].name
  /\ items[frame[t].item].data # o
NewOK ==
  \A t \in Threads :
    /\ pc[t] \in HasNew => InHand(t, frame[t].new)
    /\ At(t, "publish") => heap[frame[t].new].sized /\ heap[frame[t].new].value # Blank
OldOK ==
  \A t \in Threads : pc[t] \in HasOld /\ frame[t].old # Null => InHand(t, frame[t].old)

\* Whatever c->data points to, at any instant, is an object the broker has not
\* freed, allocated at full size for this item, that a parser completed.
PublishedParsed ==
  \A i \in Indices : items[i].data # Null =>
    LET obj == heap[items[i].data]
    IN obj.state = "owned" /\ obj.name = items[i].name /\ obj.sized /\ obj.value # Blank

\* The broker never owns more than the current and the next value of an item.
HeapBound ==
  \A n \in Names :
    Cardinality({o \in Objects : heap[o].state = "owned" /\ heap[o].name = n}) <= 2

\* No object leaks: what the broker owns is an item's value, or is in the hands
\* of the call that will publish or free it.
Accounted ==
  \A o \in Objects : heap[o].state = "owned" =>
    \/ \E i \in Indices : items[i].data = o
    \/ \E t \in Threads :
         \/ frame[t].new = o /\ pc[t] \in HasNew
         \/ frame[t].old = o /\ pc[t] \in HasOld

\* If a value handed out by get_config has been freed since, the version moved
\* on before: a reader that fails to claim the value will be told of a newer one.
FreedImpliesNewer ==
  \A t \in Threads :
    ret[t].data # Null /\ heap[ret[t].data].state = "freed"
      => items[ret[t].item].version > ret[t].version

\* Any two answers with the same version of an item carry the same value.
SnapshotsAgree ==
  \A t, u \in Threads :
    ret[t].item # Null /\ ret[t].item = ret[u].item /\ ret[t].version = ret[u].version
      => ret[t].data = ret[u].data

\* Updates of an item whose registration is complete are only attempted an
\* interval or more after the last attempt, successful or not.
RateLimited ==
  [][\A t \in Threads :
       At(t, "check") /\ At(t, "malloc")' /\ "minTicks" \in Item(t).stored
         => clock >= lastAttempt[Item(t).name] + Interval[Item(t).name]]_vars

\* The time of the next update covers the interval since the last attempt; a
\* name that is not in the list was never updated.
NextUpdateOK ==
  /\ \A i \in Indices :
       lastAttempt[items[i].name] + Interval[items[i].name] <= items[i].nextUpdate
  /\ \A n \in Names : Matches(n) = {} => lastAttempt[n] + Interval[n] <= 0

\* An answer is about an item of the list and not from its future, and one that
\* has the current version has the current value.
Swapping(i) == {t \in Threads : At(t, "bump") /\ frame[t].item = i}
AnswersOK ==
  \A t \in Threads :
    LET r == ret[t]
    IN /\ r.item = Null => r.data = Null
       /\ r.item # Null =>
            /\ r.item \in Indices
            /\ r.version <= items[r.item].version
            /\ r.version = items[r.item].version =>
                 IF Swapping(r.item) = {} THEN r.data = items[r.item].data
                 ELSE \A u \in Swapping(r.item) : r.data = frame[u].old
ReadOK ==
  \A t \in Threads : At(t, "data") => frame[t].version = items[frame[t].item].version

\* The inductive invariant: all the safety properties rest on it.
IInv ==
  /\ TypeOK /\ FrameOK /\ FindLocked /\ UniqueNames /\ CreateOK /\ ItemLocked
  /\ NewOK /\ OldOK /\ PublishedParsed /\ Accounted
  /\ NextUpdateOK /\ ReadOK /\ AnswersOK /\ SnapshotsAgree

\* The broker is a store of whole, numbered values.
EffectiveData(i) ==
  IF Swapping(i) # {} THEN frame[CHOOSE t \in Swapping(i) : TRUE].old
    ELSE items[i].data
ValueOf(o) == IF o = Null THEN Blank ELSE heap[o].value

Register == INSTANCE ConfigStore WITH
  Clients <- Threads,
  Unset <- Blank,
  value <- [n \in Names |->
              IF Matches(n) = {} THEN Blank
              ELSE ValueOf(EffectiveData(CHOOSE i \in Indices : Newest(n, i)))],
  version <- [n \in Names |->
                IF Matches(n) = {} THEN 0
                ELSE items[CHOOSE i \in Indices : Newest(n, i)].version],
  got <- [t \in Threads |->
            IF ret[t].item = Null THEN [name |-> Blank, version |-> 0, value |-> Blank]
            ELSE [name |-> items[ret[t].item].name, version |-> ret[t].version,
                  value |-> ValueOf(ret[t].data)]]

\* Every behaviour of the broker is one of ConfigStore: a value and its version
\* change together when the version is bumped, and a get is one snapshot.
ImplementsStore == Register!StoreSpec

\* A call on one item returns even while the parser of another item hangs in
\* the middle of an update.
OthersServed ==
  \A t \in Threads : (~At(t, "idle") /\ frame[t].name \notin Hangs) ~> At(t, "idle")
=============================================================================

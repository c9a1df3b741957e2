--------------------------- MODULE ConfigConsumer ---------------------------
(***************************************************************************)
(* The consumers of the configuration broker: the run loop of the library  *)
(* config_consumer.cc, the handlers it calls and the heap claims they      *)
(* make, composed with the broker.  The rest of the threads are writers.   *)
(*                                                                         *)
(* A value lives in the broker's heap.  It stays usable while the broker   *)
(* owns it, while a consumer has claimed it against its own quota, or      *)
(* while a thread protects it with an ephemeral claim.                     *)
(***************************************************************************)
EXTENDS ConfigBroker

CONSTANTS
  Consumers,     \* the threads that execute run
  Watches,       \* Watches[c]: the names in configItems of c, in order
  Keeps,         \* names whose handler keeps the value (logger_handler)
  MaxTimeouts,   \* maxTimeouts, 0 for a loop that never exits
  Multiwaiters,  \* multiwaiters the quota of a consumer compartment has room for
  Crashes,       \* bound: faults of the handlers of each consumer
  ConsumerFails  \* whether the broker may fail to allocate an item for a consumer

ASSUME ConsumersAssumption ==
  /\ Consumers \subseteq Threads
  /\ Watches \in [Consumers -> Seq(Names) \ {<<>>}]
  /\ Keeps \subseteq Names
  /\ {MaxTimeouts, Multiwaiters, Crashes} \subseteq Nat
  /\ \A c \in Consumers, b \in Budgets : b[c] = 0
  /\ ConsumerFails \in BOOLEAN

VARIABLES
  step,       \* step[c]: where consumer c is in run, or in the handler it called
  at,         \* at[c]: the index i of the item it handles
  events,     \* events[c][i]: the wait source and its value
  known,      \* known[c][i]: version and versionFutex of configItems[i]
  fired,      \* fired[c]: the events that woke c from multiwaiter_wait
  timeouts,   \* timeouts[c]: num_timeouts
  mwLeft,     \* mwLeft[c]: multiwaiters that can still be allocated
  hazard,     \* hazard[c]: the object c has an ephemeral claim on
  claims,     \* claims[c][o]: how often c has claimed o against its quota
  kept,       \* kept[c][n]: the value the handler of n keeps (logger)
  crashed,    \* crashed[c]: faults so far
  handled     \* history: handled[c][i], the last version handled

runVars == <<at, events, known, timeouts>>
heapVars == <<hazard, claims, kept>>
consumerVars == <<step, runVars, fired, mwLeft, heapVars, crashed, handled>>
allVars == <<vars, consumerVars>>

-----------------------------------------------------------------------------

Slots(c) == DOMAIN Watches[c]
Watched(c) == Watches[c][at[c]]
Value(c) == ret[c].data      \* item.data of the last get_config

\* The allocator: an object is usable until its last owner is gone.
Alive(o) ==
  \/ heap[o].state = "owned"
  \/ \E c \in Consumers : claims[c][o] > 0 \/ hazard[c] = o

\* A call to another compartment ends the ephemeral claims of the thread.
Drop(c) == hazard' = [hazard EXCEPT ![c] = Null]

Step(c, s) == step' = [step EXCEPT ![c] = s]

\* The next item to handle after index i, if any event from there on is set.
Pending(c, i, evs) == {j \in Slots(c) : j > i /\ evs[j].value = 1}
Advance(c, i, evs) ==
  IF Pending(c, i, evs) = {}
    THEN Step(c, "wait") /\ UNCHANGED at
    ELSE /\ Step(c, "read")
         /\ \E j \in Pending(c, i, evs) :
              (\A k \in Pending(c, i, evs) : j <= k) /\ at' = [at EXCEPT ![c] = j]
Following(c) == Advance(c, at[c], events[c])

\* run is entered: create a multiwaiter, mark every item as updated.  Nothing
\* ever deletes the multiwaiter, so each call of run uses up quota.
Start(c) ==
  /\ step[c] = "start" /\ mwLeft[c] > 0
  /\ mwLeft' = [mwLeft EXCEPT ![c] = @ - 1]
  /\ events' = [events EXCEPT ![c] = [i \in Slots(c) |-> [futex |-> Null, value |-> 1]]]
  /\ timeouts' = [timeouts EXCEPT ![c] = 0]
  /\ Advance(c, 0, events'[c])
  /\ Drop(c)
  /\ UNCHANGED <<vars, known, fired, claims, kept, crashed, handled>>

\* Read the item that changed.
Read(c) ==
  /\ step[c] = "read"
  /\ Enter(c, "get", [kind |-> "read", name |-> Watched(c)], None)
  /\ Step(c, "reading")
  /\ Drop(c)
  /\ UNCHANGED <<left, runVars, fired, mwLeft, claims, kept, crashed, handled>>

\* get_config has returned: note the version and its futex, unless it failed.
Note(c) ==
  /\ step[c] = "reading" /\ At(c, "idle")
  /\ known' = IF ret[c].item = Null THEN known
              ELSE [known EXCEPT ![c][at[c]] = [version |-> ret[c].version, futex |-> ret[c].item]]
  /\ IF Value(c) = Null THEN Following(c) ELSE Step(c, "claim") /\ UNCHANGED at
  /\ UNCHANGED <<vars, events, timeouts, fired, mwLeft, heapVars, crashed, handled>>

\* Mutant: the result of the ephemeral claim is ignored.
ProtectUnchecked(c) ==
  /\ step[c] = "claim"
  /\ hazard' = [hazard EXCEPT ![c] = IF Alive(Value(c)) THEN Value(c) ELSE Null]
  /\ Step(c, IF Watched(c) \in Keeps THEN "keep" ELSE "use")
  /\ UNCHANGED <<vars, runVars, fired, mwLeft, claims, kept, crashed, handled>>

\* The ephemeral claim: it fails if the value has gone since it was read.
Protect(c) ==
  /\ step[c] = "claim" /\ Alive(Value(c))
  /\ hazard' = [hazard EXCEPT ![c] = Value(c)]
  /\ Step(c, IF Watched(c) \in Keeps THEN "keep" ELSE "use")
  /\ UNCHANGED <<vars, runVars, fired, mwLeft, claims, kept, crashed, handled>>

Skip(c) ==
  /\ step[c] \in {"claim", "keep"} /\ ~Alive(Value(c))
  /\ Drop(c)
  /\ Following(c)
  /\ UNCHANGED <<vars, events, known, timeouts, fired, mwLeft, claims, kept, crashed, handled>>

\* A handler that needs the value only during the call has used it.
Handled(c) == handled' = [handled EXCEPT ![c][at[c]] = ret[c].version]

Use(c) ==
  /\ step[c] = "use"
  /\ Handled(c)
  /\ Following(c)
  /\ UNCHANGED <<vars, events, known, timeouts, fired, mwLeft, heapVars, crashed>>

\* logger_handler: the call that claims the value against the quota first ends
\* the ephemeral claim, and then finds the value usable or not.
EnterClaim(c) ==
  /\ step[c] = "keep" /\ hazard[c] # Null
  /\ Drop(c)
  /\ UNCHANGED <<vars, step, runVars, fired, mwLeft, claims, kept, crashed, handled>>

FullClaim(c) ==
  /\ step[c] = "keep" /\ hazard[c] = Null /\ Alive(Value(c))
  /\ claims' = [claims EXCEPT ![c][Value(c)] = @ + 1]
  /\ Step(c, "swap")
  /\ UNCHANGED <<vars, runVars, fired, mwLeft, hazard, kept, crashed, handled>>

\* Mutant: the old value is not freed.
SwapKeeps(c) ==
  /\ step[c] = "swap"
  /\ kept' = [kept EXCEPT ![c][Watched(c)] = Value(c)]
  /\ Handled(c)
  /\ Following(c)
  /\ UNCHANGED <<vars, events, known, timeouts, fired, mwLeft, hazard, claims, crashed>>

\* Point logger at the new value, process it, and free the old one.
Swap(c) ==
  /\ step[c] = "swap"
  /\ kept' = [kept EXCEPT ![c][Watched(c)] = Value(c)]
  /\ LET old == kept[c][Watched(c)]
     IN claims' = IF old = Null THEN claims ELSE [claims EXCEPT ![c][old] = @ - 1]
  /\ Handled(c)
  /\ Following(c)
  /\ UNCHANGED <<vars, events, known, timeouts, fired, mwLeft, hazard, crashed>>

\* A handler faults: run is unwound and called again by the loop around it.
Crash(c) ==
  /\ step[c] \in {"use", "keep", "swap"} /\ crashed[c] < Crashes
  /\ crashed' = [crashed EXCEPT ![c] = @ + 1]
  /\ Step(c, "start")
  /\ Drop(c)
  /\ UNCHANGED <<vars, runVars, fired, mwLeft, claims, kept, handled>>

-----------------------------------------------------------------------------
(* Waiting *)

Current(i) == items[i].version
\* Mutant: waits for the version before the one it has seen.
SourcesOffByOne(c) ==
  [i \in Slots(c) |-> [futex |-> known[c][i].futex, value |-> known[c][i].version - 1]]

\* The wait sources the loop prepares: each futex with the version seen.
Sources(c) == [i \in Slots(c) |-> [futex |-> known[c][i].futex, value |-> known[c][i].version]]

\* multiwaiter_wait returned: which events are set decides what is read next.
Woken(c, set) ==
  /\ events' = [events EXCEPT ![c] =
                  [i \in Slots(c) |-> [futex |-> known[c][i].futex, value |-> IF i \in set THEN 1 ELSE 0]]]
  /\ timeouts' = [timeouts EXCEPT ![c] = 0]
  /\ Advance(c, 0, events'[c])

\* Mutant: waits on what the futex holds, not on what was seen.
ChangedNever(c) == {}

\* The events are set to the versions seen; the scheduler compares each with
\* its futex and sleeps only if all agree.
Changed(c) == {i \in Slots(c) : Current(known[c][i].futex) # known[c][i].version}
NoFutex(c) == \E i \in Slots(c) : known[c][i].futex = Null

Wait(c) ==
  /\ step[c] = "wait" /\ ~NoFutex(c)
  /\ IF Changed(c) # {}
       THEN Woken(c, Changed(c))
       ELSE /\ events' = [events EXCEPT ![c] = Sources(c)]
            /\ Step(c, "asleep")
            /\ UNCHANGED <<at, timeouts>>
  /\ fired' = [fired EXCEPT ![c] = {}]
  /\ Drop(c)
  /\ UNCHANGED <<vars, known, mwLeft, claims, kept, crashed, handled>>

\* A notify set some events: the thread runs again.
Awake(c) ==
  /\ step[c] = "asleep" /\ fired[c] # {}
  /\ Woken(c, fired[c])
  /\ UNCHANGED <<vars, known, fired, mwLeft, heapVars, crashed, handled>>

\* Count a return without events and leave when there were maxTimeouts in a row.
NoEvent(c, evs) ==
  /\ events' = [events EXCEPT ![c] = evs]
  /\ timeouts' = [timeouts EXCEPT ![c] = IF MaxTimeouts = 0 THEN 0 ELSE @ + 1]
  /\ IF MaxTimeouts > 0 /\ timeouts'[c] >= MaxTimeouts
       THEN Step(c, "exited") /\ UNCHANGED at
       ELSE Advance(c, 0, evs)

TimeOut(c) ==
  /\ step[c] = "asleep" /\ fired[c] = {}
  /\ NoEvent(c, [i \in Slots(c) |-> [futex |-> known[c][i].futex, value |-> 0]])
  /\ UNCHANGED <<vars, known, fired, mwLeft, heapVars, crashed, handled>>

\* A source with no futex makes the wait fail at once, with the events as the
\* loop left them: an event whose value, a version, is 1 then reads as set.
WaitFails(c) ==
  /\ step[c] = "wait" /\ NoFutex(c)
  /\ NoEvent(c, Sources(c))
  /\ Drop(c)
  /\ UNCHANGED <<vars, known, fired, mwLeft, claims, kept, crashed, handled>>

-----------------------------------------------------------------------------

\* Mutant: the notification is left out.
WokenByNothing(t) == fired

\* notify_all wakes the consumers asleep on the version of the item.
WokenBy(t) ==
  [c \in Consumers |->
     IF step[c] = "asleep"
       THEN fired[c] \cup {i \in Slots(c) : known[c][i].futex = frame[t].item}
       ELSE fired[c]]

\* A step of the broker on behalf of thread t.
InBroker(t) ==
  /\ BrokerStep(t) \/ Parse(t)
  /\ fired' = IF At(t, "notify") THEN WokenBy(t) ELSE fired
  /\ t \in Consumers /\ ~ConsumerFails => ~CreateFails(t)
  /\ UNCHANGED <<step, runVars, mwLeft, heapVars, crashed, handled>>

Write(t) == t \notin Consumers /\ Call(t) /\ UNCHANGED consumerVars

RunStep(c) ==
  \/ Start(c) \/ Read(c) \/ Note(c) \/ Protect(c) \/ Skip(c) \/ Use(c)
  \/ EnterClaim(c) \/ FullClaim(c) \/ Swap(c) \/ Wait(c) \/ Awake(c) \/ WaitFails(c)

ConsumerInit ==
  /\ step = [c \in Consumers |-> "start"]
  /\ at = [c \in Consumers |-> 1]
  /\ events = [c \in Consumers |-> [i \in Slots(c) |-> [futex |-> Null, value |-> 1]]]
  /\ known = [c \in Consumers |-> [i \in Slots(c) |-> [version |-> 0, futex |-> Null]]]
  /\ fired = [c \in Consumers |-> {}]
  /\ timeouts = [c \in Consumers |-> 0]
  /\ mwLeft = [c \in Consumers |-> Multiwaiters]
  /\ hazard = [c \in Consumers |-> Null]
  /\ claims = [c \in Consumers |-> [o \in Objects |-> 0]]
  /\ kept = [c \in Consumers |-> [n \in Names |-> Null]]
  /\ crashed = [c \in Consumers |-> 0]
  /\ handled = [c \in Consumers |-> [i \in Slots(c) |-> 0]]

\* run returns when it gets no multiwaiter, and the loop around it calls it
\* again; a consumer that left, and writers with no calls left, do nothing.
Spin(c) == step[c] = "start" /\ mwLeft[c] = 0 /\ UNCHANGED allVars
Done ==
  /\ \A t \in Threads : At(t, "idle") /\ left[t] = 0
  /\ \A c \in Consumers : step[c] = "exited"
  /\ UNCHANGED allVars

ConsumerNext ==
  \/ Tick /\ UNCHANGED consumerVars
  \/ Done
  \/ \E t \in Threads : Write(t) \/ InBroker(t)
  \/ \E c \in Consumers : RunStep(c) \/ TimeOut(c) \/ Crash(c) \/ Spin(c)

\* Threads run until they block.  No timeout is ever relied on.
ConsumerFairness ==
  /\ \A t \in Threads : WF_allVars(InBroker(t))
  /\ \A c \in Consumers : WF_allVars(RunStep(c))

\* The system boots: no item exists, and nothing orders the threads.
BootSpec == Init /\ ConsumerInit /\ [][ConsumerNext]_allVars
FairBootSpec == BootSpec /\ ConsumerFairness

-----------------------------------------------------------------------------
(* Properties *)

RunSteps == {"start", "read", "reading", "claim", "use", "keep", "swap", "wait", "asleep", "exited"}

\* Type invariant of the consumers' state.
ConsumerTypeOK ==
  /\ step \in [Consumers -> RunSteps]
  /\ \A c \in Consumers :
       /\ at[c] \in Slots(c)
       /\ events[c] \in [Slots(c) -> [futex : Nat, value : Nat]]
       /\ known[c] \in [Slots(c) -> [version : Nat, futex : Indices \cup {Null}]]
       /\ fired[c] \subseteq Slots(c)
       /\ handled[c] \in [Slots(c) -> Nat]
  /\ timeouts \in [Consumers -> Nat] /\ mwLeft \in [Consumers -> Nat]
  /\ crashed \in [Consumers -> Nat]
  /\ hazard \in [Consumers -> Objects \cup {Null}]
  /\ claims \in [Consumers -> [Objects -> Nat]]
  /\ kept \in [Consumers -> [Names -> Objects \cup {Null}]]

\* A handler never looks at a value that the broker's next update has freed
\* under it, and a kept value (logger) stays usable until it is replaced.
NoUseAfterFree ==
  \A c \in Consumers :
    /\ step[c] \in {"use", "swap"} => Alive(Value(c))
    /\ \A n \in Names : kept[c][n] # Null => Alive(kept[c][n])

\* A consumer that sleeps has seen the current version of all its items, or
\* has been woken, or will be by an update that has not reached notify_all.
NoLostWakeup ==
  \A c \in Consumers : step[c] = "asleep" =>
    \A i \in Slots(c) \ fired[c] :
      \/ Current(known[c][i].futex) = known[c][i].version
      \/ \E t \in Threads : At(t, "notify") /\ frame[t].item = known[c][i].futex

\* When it goes to sleep having seen a version, it has handled that version or
\* the item has moved on: a value whose claim failed is never the last one.
NoLostUpdate ==
  \A c \in Consumers : step[c] = "asleep" =>
    \A i \in Slots(c) :
      handled[c][i] = known[c][i].version \/ Current(known[c][i].futex) > known[c][i].version

\* The claims that are charged to c, one by one, and the names it keeps a value of.
ClaimsOf(c) == UNION {{<<o, k>> : k \in 1 .. claims[c][o]} : o \in Objects}
KeptBy(c) == {n \in Names : kept[c][n] # Null}

\* The quota of a consumer is charged for the value it keeps and, while it
\* swaps, the new one; each fault of a handler leaks at most one more claim.
ClaimsBounded ==
  \A c \in Consumers :
    Cardinality(ClaimsOf(c))
      <= Cardinality(KeptBy(c)) + crashed[c] + (IF step[c] = "swap" THEN 1 ELSE 0)

\* Every consumer ends up having handled the version its items ended up with,
\* whatever was published before it started.
VersionOf(n) ==
  IF Matches(n) = {} THEN 0 ELSE items[CHOOSE i \in Indices : Newest(n, i)].version
UpToDate(c) == \A i \in Slots(c) : handled[c][i] = VersionOf(Watches[c][i])
Delivered == \A c \in Consumers : <>[]UpToDate(c)
=============================================================================

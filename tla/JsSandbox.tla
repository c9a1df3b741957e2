------------------------------ MODULE JsSandbox ------------------------------
(***************************************************************************)
(* The compartmentalisation demo in its sandboxed build.  Two threads call *)
(* the compartment of the interpreter (js_sandbox.cc): the ticker (run_tick*)
(* of js.cc) has it run a script every half a second, the console (run)    *)
(* reads scripts from the UART, stops the old one and loads the new one.   *)
(* A script may end with an error, or fault, which the error handler of    *)
(* the compartment cleans up after; one that does not let go of the lock   *)
(* in time is killed without it, its memory freed under it.  Freed memory  *)
(* is not reused while something points to it: that is what the revoker of *)
(* the platform is for.                                                    *)
(***************************************************************************)
EXTENDS Integers, Sequences, TLC

CONSTANTS
  Vms,           \* virtual machines, as mvm_restore allocates them
  Buffers,       \* buffers of bytecode, as the console allocates them
  Scripts,       \* what may be sent to the console
  MaxTroubles,   \* bound: calls of heap_claim and mvm_restore that fail for want of
                 \* memory, and scripts that are killed without the lock
  None

VARIABLES
  todo,          \* todo[t]: the steps thread t is going to make, those of its caller last
  old, new,      \* old[t], new[t]: pointers that vm.reset has in hand
  lock,
  vm,            \* the unique pointer
  running,       \* the virtual machine that tick has called
  claimed_bytecode,
  code,          \* code[v]: the script of virtual machine v and its buffer, None if v is free
  claims,        \* buffers claimed with the quota of the sandbox
  bytecode,      \* the vector of the console: a script and its buffer, or None
  failures,
  forced,        \* history: how many scripts were killed without the lock
  doubleFault    \* history: the error handler has faulted

locals == <<todo, old, new, running>>
memory == <<code, claims>>
bounds == <<failures, forced, doubleFault>>
vars == <<locals, lock, vm, claimed_bytecode, memory, bytecode, bounds>>

Threads == {"ticker", "console"}

-----------------------------------------------------------------------------
(* Scripts, and what they can call (microvium-ffi.hh) *)

\* The functions exported to scripts, with the number of their arguments.
Exports ==
  ("Print" :> 0) @@
  [Move |-> 2, LoadCapability |-> 3, LoadInt |-> 2, Store |-> 3, GetAddress |-> 1, SetAddress |-> 2,
   GetBase |-> 1, GetLength |-> 1, GetPermissions |-> 1, CheckSecret |-> 1,
   LEDOn |-> 1, LEDOff |-> 1, ReadButton |-> 1, ReadSwitch |-> 1, ReadButtons |-> 0,
   ReadSwitches |-> 0, LEDSet |-> 2]

\* Those that load or store through a register of the script, which may hold anything.
Dereferences == {"LoadCapability", "LoadInt", "Store"}

\* A script: whether it is valid bytecode and has a function run, what that calls,
\* with how many arguments, and whether it runs for too long.
Hello == [valid |-> TRUE, run |-> TRUE, calls |-> "Print", args |-> 1, endless |-> FALSE]
Built == [script |-> Hello, buffer |-> None]   \* the one in the compartment's own memory
Sources == [script : Scripts \cup {Hello}, buffer : Buffers \cup {None}]
ASSUME SandboxAssumption == None \notin Vms \cup Buffers /\ None \notin Sources

\* resolve_import, called by mvm_restore, knows no other functions.
Restorable(script) == script.valid /\ script.calls \in DOMAIN Exports

\* call_export rejects too few arguments; the interpreter stops after 20000
\* instructions.
Ends(script) ==
  IF script.endless \/ script.args < Exports[script.calls] THEN {"error"}
  ELSE IF script.calls \in Dereferences THEN {"ok", "fault"} ELSE {"ok"}

-----------------------------------------------------------------------------
(* Calls of the compartment, as the steps they consist of *)

reset == <<"load_old", "store_new", "delete">>   \* vm.reset
cleanupDangling == <<"free_all">>   \* mutant: vm still points to what was freed
cleanup == reset \o <<"free_all">>
handlerKeepsLock == <<"load_old", "store_new", "delete_in_handler">>   \* mutant
handler == <<"load_old", "store_new", "delete_in_handler", "unlock">>

tick == <<"lock", "check", "resolve", "call", "unlock", "return">>
kill == <<"try_lock", "return">>
load_keeps_lock == <<"lock", "free_old", "claim", "restore", "return">>   \* mutant
load_javascript == <<"lock", "free_old", "claim", "restore", "unlock", "return">>

At(t, step) == todo[t] # <<>> /\ Head(todo[t]) = step
Rest(t) == Tail(todo[t])
Continue(t, steps) == todo' = [todo EXCEPT ![t] = steps]

\* What is left to do when the call of the compartment ends.
Returned(t) ==
  LET returns == {i \in DOMAIN todo[t] : todo[t][i] = "return"}
      first == CHOOSE i \in returns : \A j \in returns : i <= j
  IN  SubSeq(todo[t], first, Len(todo[t]))

\* A fault: the error handler runs, then the call ends.
Fault(t) == Continue(t, handler \o Returned(t))

Return(t) ==
  /\ At(t, "return")
  /\ Continue(t, Rest(t))
  /\ UNCHANGED <<old, new, running, lock, vm, claimed_bytecode, memory, bytecode, bounds>>

Lock(t) ==
  /\ At(t, "lock") /\ ~lock
  /\ lock' = TRUE
  /\ Continue(t, Rest(t))
  /\ UNCHANGED <<old, new, running, vm, claimed_bytecode, memory, bytecode, bounds>>

Unlock(t) ==
  /\ At(t, "unlock")
  /\ lock' = FALSE
  /\ Continue(t, Rest(t))
  /\ UNCHANGED <<old, new, running, vm, claimed_bytecode, memory, bytecode, bounds>>

-----------------------------------------------------------------------------
(* vm.reset, and cleanup: the old pointer is loaded, the new one stored, and   *)
(* what the old one points to freed.                                           *)

LoadOld(t) ==
  /\ At(t, "load_old")
  /\ old' = [old EXCEPT ![t] = vm]
  /\ Continue(t, Rest(t))
  /\ UNCHANGED <<new, running, lock, vm, claimed_bytecode, memory, bytecode, bounds>>

StoreNew(t) ==
  /\ At(t, "store_new")
  /\ vm' = new[t]
  /\ new' = [new EXCEPT ![t] = None]
  /\ Continue(t, Rest(t))
  /\ UNCHANGED <<old, running, lock, claimed_bytecode, memory, bytecode, bounds>>

\* MVMDeleter.  What is no longer there cannot be freed, and a fault in the error
\* handler ends the call at once.
Delete(t) ==
  /\ At(t, "delete") \/ At(t, "delete_in_handler")
  /\ IF old[t] = None \/ code[old[t]] # None
     THEN /\ Continue(t, Rest(t))
          /\ code' = [v \in Vms |-> IF v = old[t] THEN None ELSE code[v]]
          /\ UNCHANGED doubleFault
     ELSE /\ IF At(t, "delete") THEN Fault(t) ELSE Continue(t, Returned(t))
          /\ doubleFault' = (doubleFault \/ At(t, "delete_in_handler"))
          /\ UNCHANGED code
  /\ old' = [old EXCEPT ![t] = None]
  /\ UNCHANGED <<new, running, lock, vm, claimed_bytecode, claims, bytecode, failures, forced>>

\* heap_free_all, which drops claims too.
FreeAll(t) ==
  /\ At(t, "free_all")
  /\ claimed_bytecode' = None
  /\ code' = [v \in Vms |-> None] /\ claims' = {}
  /\ Continue(t, Rest(t))
  /\ UNCHANGED <<old, new, running, lock, vm, bytecode, bounds>>

-----------------------------------------------------------------------------
(* mvm_restore, for tick and for load_javascript *)

\* Memory that nothing points to, and so may be allocated; which of it does not
\* matter.
FreeVms == {v \in Vms : code[v] = None} \ ({vm, running} \cup {p[t] : p \in {old, new}, t \in Threads})

\* If it fails, the Assert that follows does.
Restore(t) ==
  /\ At(t, "restore")
  /\ LET source == IF t = "ticker" THEN Built ELSE bytecode IN
     \/ /\ Restorable(source.script) /\ FreeVms # {}
        /\ new' = [new EXCEPT ![t] = CHOOSE v \in FreeVms : TRUE]
        /\ code' = [code EXCEPT ![new'[t]] = source]
        /\ Continue(t, <<"restored">> \o reset \o Rest(t))
        /\ UNCHANGED failures
     \/ /\ IF Restorable(source.script) /\ FreeVms # {}
           THEN failures + forced < MaxTroubles /\ failures' = failures + 1
           ELSE UNCHANGED failures
        /\ Fault(t)
        /\ UNCHANGED <<code, new>>
  /\ UNCHANGED <<old, running, lock, vm, claimed_bytecode, claims, bytecode, forced, doubleFault>>

\* Its memory may be freed before it has finished, or just after.
Restored(t) ==
  /\ At(t, "restored")
  /\ \/ Continue(t, Rest(t)) /\ UNCHANGED new
     \/ code[new[t]] = None /\ Fault(t) /\ new' = [new EXCEPT ![t] = None]
  /\ UNCHANGED <<old, running, lock, vm, claimed_bytecode, memory, bytecode, bounds>>

-----------------------------------------------------------------------------
(* The ticker: run_tick and tick *)

RunTick ==
  /\ todo["ticker"] = <<>>
  /\ Continue("ticker", tick)
  /\ UNCHANGED <<old, new, running, lock, vm, claimed_bytecode, memory, bytecode, bounds>>

Check ==
  /\ At("ticker", "check")
  /\ Continue("ticker", IF vm = None THEN <<"restore">> \o Rest("ticker") ELSE Rest("ticker"))
  /\ UNCHANGED <<old, new, running, lock, vm, claimed_bytecode, memory, bytecode, bounds>>

\* Whether the virtual machine and its bytecode are still there.
Intact(v) ==
  /\ v # None /\ code[v] # None
  /\ code[v].buffer \in claims \cup {None} \/ bytecode = code[v]

\* mvm_resolveExports: what is gone faults; without a function run there is no call.
Resolve ==
  /\ At("ticker", "resolve")
  /\ IF ~Intact(vm) THEN Fault("ticker") /\ UNCHANGED running
     ELSE IF code[vm].script.run THEN Continue("ticker", Rest("ticker")) /\ running' = vm
     ELSE Continue("ticker", Tail(Rest("ticker"))) /\ UNCHANGED running
  /\ UNCHANGED <<old, new, lock, vm, claimed_bytecode, memory, bytecode, bounds>>

\* mvm_call.  A script whose memory goes meanwhile may just have finished.
Call ==
  /\ At("ticker", "call")
  /\ \E end \in IF Intact(running) THEN Ends(code[running].script) ELSE {"ok", "error", "fault"} :
       \/ end = "ok" /\ Continue("ticker", Rest("ticker"))
       \/ end = "error" /\ Continue("ticker", cleanup \o Rest("ticker"))
       \/ end = "fault" /\ Fault("ticker")
  /\ running' = None
  /\ UNCHANGED <<old, new, lock, vm, claimed_bytecode, memory, bytecode, bounds>>

Ticker == RunTick \/ Check \/ Resolve \/ Call

-----------------------------------------------------------------------------
(* The console: run, kill and load_javascript *)

\* A buffer that nothing points to.
FreeBuffers ==
  Buffers \ (claims \cup {claimed_bytecode} \cup {code[v].buffer : v \in {u \in Vms : code[u] # None}})

\* A script is read with interrupts disabled.  One that is not complete only stops
\* what runs; that this kill runs with them disabled too is left out.
ReadScript ==
  /\ todo["console"] = <<>>
  /\ \/ /\ \E b \in FreeBuffers, s \in Scripts : bytecode' = [script |-> s, buffer |-> b]
        /\ Continue("console", kill \o load_javascript \o <<"drop">>)
     \/ /\ Continue("console", kill)
        /\ UNCHANGED bytecode
  /\ UNCHANGED <<old, new, running, lock, vm, claimed_bytecode, memory, bounds>>

\* try_lock takes the lock, or gives up after five ticks.
TryLock ==
  /\ At("console", "try_lock")
  /\ \/ /\ ~lock /\ lock' = TRUE
        /\ Continue("console", cleanup \o <<"unlock">> \o Rest("console"))
        /\ UNCHANGED forced
     \/ /\ lock /\ failures + forced < MaxTroubles /\ forced' = forced + 1
        /\ Continue("console", cleanup \o Rest("console"))
        /\ UNCHANGED lock
  /\ UNCHANGED <<old, new, running, vm, claimed_bytecode, memory, bytecode, failures, doubleFault>>

FreeOld ==
  /\ At("console", "free_old")
  /\ claims' = claims \ {claimed_bytecode}
  /\ Continue("console", Rest("console"))
  /\ UNCHANGED <<old, new, running, lock, vm, claimed_bytecode, code, bytecode, bounds>>

\* Mutant: the bytecode is not claimed.
ClaimNothing ==
  /\ At("console", "claim")
  /\ claimed_bytecode' = bytecode.buffer
  /\ Continue("console", Rest("console"))
  /\ UNCHANGED <<old, new, running, lock, vm, code, claims, bytecode, failures, forced, doubleFault>>

\* The result of heap_claim is not looked at.
Claim ==
  /\ At("console", "claim")
  /\ \/ claims' = claims \cup {bytecode.buffer} /\ UNCHANGED failures
     \/ failures + forced < MaxTroubles /\ failures' = failures + 1 /\ UNCHANGED claims
  /\ claimed_bytecode' = bytecode.buffer
  /\ Continue("console", Rest("console"))
  /\ UNCHANGED <<old, new, running, lock, vm, code, bytecode, forced, doubleFault>>

\* The end of the loop, where the vector is destroyed.
Drop ==
  /\ At("console", "drop")
  /\ bytecode' = None
  /\ Continue("console", Rest("console"))
  /\ UNCHANGED <<old, new, running, lock, vm, claimed_bytecode, memory, bounds>>

Console == ReadScript \/ TryLock \/ FreeOld \/ Claim \/ Drop

-----------------------------------------------------------------------------

\* In either thread.
Shared(t) ==
  \/ Return(t) \/ Lock(t) \/ Unlock(t) \/ LoadOld(t) \/ StoreNew(t) \/ Delete(t) \/ FreeAll(t)
  \/ Restore(t) \/ Restored(t)

Init ==
  /\ todo = [t \in Threads |-> <<>>]
  /\ old = [t \in Threads |-> None] /\ new = old
  /\ lock = FALSE /\ vm = None /\ running = None /\ claimed_bytecode = None
  /\ code = [v \in Vms |-> None] /\ claims = {} /\ bytecode = None
  /\ failures = 0 /\ forced = 0 /\ doubleFault = FALSE

Next == Ticker \/ Console \/ \E t \in Threads : Shared(t)

\* Both threads are scheduled; nobody has to send a script.  The ticker gets the
\* lock if it is free again and again, as the console waits for the user between
\* its calls.
Fairness ==
  /\ WF_vars(Ticker \/ Shared("ticker")) /\ SF_vars(Lock("ticker"))
  /\ WF_vars(TryLock \/ FreeOld \/ Claim \/ Drop \/ Shared("console")) /\ SF_vars(Lock("console"))

FairSpec == Init /\ [][Next]_vars /\ Fairness

-----------------------------------------------------------------------------
(* Properties *)

\* The steps between taking the lock and giving it back.
Inside(t) == todo[t] # <<>> /\ Head(todo[t]) \notin {"lock", "try_lock", "return", "drop"}

\* Nobody leaves the compartment with the lock taken, whatever a script does, where
\* it faults or how it is killed, unless the error handler itself faults; which
\* takes a script that was killed without the lock (js_sandbox.cc:21-50).
LockReleased ==
  /\ lock => doubleFault \/ \E t \in Threads : Inside(t)
  /\ doubleFault => forced > 0

\* Unless it is killed without the lock, nothing is freed under a script that runs:
\* neither its virtual machine nor, if it could be claimed, the bytecode, which the
\* console destroys as soon as it is loaded (js_sandbox.cc:108-110, js.cc:116).
MemoryKept ==
  forced = 0 /\ running # None =>
    /\ code[running] # None
    /\ failures = 0 => Intact(running)

\* Calls of tick return for ever, unless the error handler faults: no script, good
\* or bad, keeps the next one from running (README.md:4).
StaysAvailable == []~doubleFault => []<>(todo["ticker"] = <<>>)

\* What was loaded runs, or is replaced, or faults and is thrown away.
LoadedRuns ==
  \A v \in Vms :
    [](forced = 0) => ((vm = v /\ code[v] # None) ~> (running = v \/ vm # v \/ ~code[v].script.run))
=============================================================================

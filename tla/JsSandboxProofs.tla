--------------------------- MODULE JsSandboxProofs ---------------------------
(***************************************************************************)
(* Proofs about the sandbox of the compartmentalisation demo, for any      *)
(* scripts, virtual machines, buffers and number of troubles.              *)
(***************************************************************************)
EXTENDS JsSandbox, SequenceTheorems, WellFoundedInduction, TLAPS

-----------------------------------------------------------------------------
(* What a thread may have left to do *)

Outside == {"lock", "try_lock", "return", "drop"}
Steps ==
  Outside \cup
  {"check", "resolve", "call", "unlock", "free_old", "claim", "restore", "restored", "load_old",
   "store_new", "delete", "delete_in_handler", "free_all"}

\* The step that may come after a, in the code of either thread.
Follows(a, b) ==
  /\ a = "lock" => b \in {"check", "free_old"}
  /\ a = "check" => b = "resolve"
  /\ a = "resolve" => b = "call"
  /\ a = "call" => b = "unlock"
  /\ a = "unlock" => b = "return"
  /\ a = "return" => b \in {"lock", "drop"}
  /\ a = "try_lock" => b = "return"
  /\ a = "free_old" => b = "claim"
  /\ a = "claim" => b = "restore"
  /\ a = "restore" => b \in {"resolve", "unlock"}
  /\ a = "restored" => b = "load_old"
  /\ a = "load_old" => b = "store_new"
  /\ a = "store_new" => b \in {"delete", "delete_in_handler"}
  /\ a = "delete" => b \in {"resolve", "unlock", "free_all"}
  /\ a = "delete_in_handler" => b = "unlock"
  /\ a = "free_all" => b \in {"unlock", "return"}
  /\ a # "drop"

Path(s) == \A i \in 1 .. Len(s) - 1 : Follows(s[i], s[i + 1])
Ended(s) == s # <<>> => s[Len(s)] \in {"return", "drop"}

\* heap_free_all only runs at the end of a cleanup.
CleansUp(s) ==
  \A i \in 1 .. Len(s) : s[i] = "free_all" => i <= 4 /\ \A j \in 1 .. i : s[j] = cleanup[4 - i + j]

\* Nothing is loaded again once the bytecode is claimed.
LoadsOnce(s) ==
  \A i \in 1 .. Len(s) :
    /\ s[i] \in {"check", "claim", "restore"} => Len(s) <= i + 4
    /\ s[i] = "free_old" => Len(s) > i + 4

Plan(s) == s \in Seq(Steps) /\ Path(s) /\ Ended(s) /\ CleansUp(s) /\ LoadsOnce(s)

Has(s, step) == \E i \in 1 .. Len(s) : s[i] = step

\* The lock is given back before the call of the compartment ends.
Unlocks(s) == \E i \in 1 .. Len(s) : s[i] = "unlock" /\ \A j \in 1 .. i : s[j] \notin Outside

\* No cleanup is one of a script that is killed without the lock.
CleansWithLock(s) == \A i \in 1 .. Len(s) - 1 : s[i] = "free_all" => s[i + 1] = "unlock"

-----------------------------------------------------------------------------
(* The inductive invariant *)

Pointers == Vms \cup {None}
TypeOK ==
  /\ todo \in [Threads -> Seq(Steps)]
  /\ old \in [Threads -> Pointers] /\ new \in [Threads -> Pointers]
  /\ lock \in BOOLEAN
  /\ vm \in Pointers /\ running \in Pointers
  /\ code \in [Vms -> Sources \cup {None}]
  /\ bytecode \in Sources \cup {None}
  /\ failures \in Nat /\ forced \in Nat
  /\ doubleFault \in BOOLEAN

Plans == \A t \in Threads : Plan(todo[t])

\* A pointer is only in hand in the steps that need it.
InHandOf(t) ==
  /\ old[t] # None => At(t, "store_new") \/ At(t, "delete") \/ At(t, "delete_in_handler")
  /\ new[t] # None => At(t, "restored") \/ At(t, "load_old") \/ At(t, "store_new")
  /\ Has(todo[t], "free_all") => new[t] = None
  /\ At(t, "restored") => new[t] # None
InHand == (running # None => At("ticker", "call")) /\ \A t \in Threads : InHandOf(t)

\* The console has a script until it has loaded it.
Loading ==
  \A step \in {"lock", "free_old", "claim", "restore"} : Has(todo["console"], step) => bytecode # None

\* Some thread will give the lock back before it leaves the compartment.
Owed == lock => doubleFault \/ \E t \in Threads : Unlocks(todo[t])

\* Unless a script is killed without the lock: the threads exclude each other,
Exclusive ==
  /\ \A t \in Threads : Inside(t) => lock
  /\ ~(Inside("ticker") /\ Inside("console"))
  /\ \A t \in Threads : CleansWithLock(todo[t])

\* what is pointed to is there, and pointed to once,
There(v) == v # None => code[v] # None
SoundOf(t) ==
  /\ There(old[t]) /\ There(new[t])
  /\ new[t] # None => new[t] # vm /\ new[t] # old[t]
  /\ (At(t, "delete") \/ At(t, "delete_in_handler")) /\ old[t] # None => old[t] # vm
  /\ Has(todo[t], "free_all") /\ (At(t, "delete") \/ At(t, "free_all")) => vm = None
Sound == There(vm) /\ There(running) /\ \A t \in Threads : SoundOf(t)

\* and what could be claimed stays claimed.
Claimed ==
  failures = 0 =>
    /\ \A v \in Vms : code[v] # None => code[v].buffer \in claims \cup {None}
    /\ At("console", "restore") => bytecode.buffer \in claims
Forgotten ==
  Has(todo["console"], "free_old") /\ ~At("console", "try_lock") /\ ~Has(todo["console"], "free_all") =>
    claimed_bytecode = None

Unforced == doubleFault => forced > 0
Peaceful == forced = 0 => Exclusive /\ Sound /\ Claimed /\ Forgotten

IInv == TypeOK /\ Plans /\ InHand /\ Loading /\ Owed /\ Unforced /\ Peaceful

-----------------------------------------------------------------------------
(* Lemmas: sequences of steps *)

\* The smallest element of a set of numbers.
LEMMA Smallest ==
  ASSUME NEW S \in SUBSET Nat, S # {}
  PROVE  \E n \in S : \A m \in S : n <= m
<1>1. IsWellFoundedOn(OpToRel(<, Nat), Nat)
  BY NatLessThanWellFounded, Zenon
<1>2. PICK n \in S : \A m \in S : ~(<<m, n>> \in OpToRel(<, Nat))
  BY <1>1, WFMin
<1>3. ASSUME NEW m \in S PROVE n <= m
  <2>1. ~(m < n)
    BY <1>2, <1>3 DEF OpToRel
  <2> QED
    BY <2>1
<1> QED
  BY <1>3

\* The parts of a sequence that is not empty.
LEMMA FirstAndRest ==
  ASSUME NEW S, NEW s \in Seq(S), s # <<>>
  PROVE  /\ Head(s) = s[1] /\ Head(s) \in S /\ Len(s) \in Nat \ {0}
         /\ Tail(s) \in Seq(S) /\ Len(Tail(s)) = Len(s) - 1
         /\ \A i \in 1 .. Len(Tail(s)) : Tail(s)[i] = s[i + 1]
         /\ Tail(s) = <<>> => Len(s) = 1
         /\ Tail(s) # <<>> => Len(Tail(s)) # 0
<1>1. Len(s) \in Nat \ {0} /\ Head(s) = s[1]
  OBVIOUS
<1>2. Head(s) \in S
  BY <1>1
<1>3. Tail(s) \in Seq(S) /\ Len(Tail(s)) = Len(s) - 1
  BY <1>1
<1>4. \A i \in 1 .. Len(Tail(s)) : Tail(s)[i] = s[i + 1]
  BY <1>1, <1>3
<1>5. Tail(s) = <<>> => Len(s) = 1
  <2>1. Len(<<>>) = 0
    OBVIOUS
  <2>2. Tail(s) = <<>> => Len(Tail(s)) = 0
    BY <2>1
  <2> QED
    BY <1>1, <1>3, <2>2
<1>6. Tail(s) # <<>> => Len(Tail(s)) # 0
  BY <1>3
<1> QED
  BY <1>1, <1>2, <1>3, <1>4, <1>5, <1>6

\* What comes after the first step.
LEMMA PlanTail ==
  ASSUME NEW s, Plan(s), s # <<>>
  PROVE  /\ Plan(Tail(s)) /\ Len(s) \in Nat \ {0} /\ Head(s) = s[1] /\ Head(s) \in Steps
         /\ Len(Tail(s)) = Len(s) - 1
         /\ \A i \in 1 .. Len(s) - 1 : Tail(s)[i] = s[i + 1]
         /\ Tail(s) = <<>> => Head(s) \in {"return", "drop"}
         /\ Tail(s) # <<>> => Follows(Head(s), Head(Tail(s))) /\ Head(Tail(s)) = s[2]
<1> DEFINE r == Tail(s)
<1>1. s \in Seq(Steps) /\ Path(s) /\ Ended(s) /\ CleansUp(s) /\ LoadsOnce(s)
  BY DEF Plan
<1>2. /\ Len(s) \in Nat \ {0} /\ Head(s) = s[1] /\ Head(s) \in Steps
      /\ r \in Seq(Steps) /\ Len(r) = Len(s) - 1
      /\ \A i \in 1 .. Len(r) : r[i] = s[i + 1]
      /\ r = <<>> => Len(s) = 1
      /\ r # <<>> => Len(r) # 0
  BY <1>1, FirstAndRest
<1>a. Len(r) \in Nat /\ (r # <<>> => Head(r) = r[1])
  BY <1>2, FirstAndRest
<1> HIDE DEF r
<1>3. Path(r)
  BY <1>1, <1>2, <1>a DEF Path
<1>4. Ended(r)
  BY <1>1, <1>2, <1>a DEF Ended
<1>5. CleansUp(r)
  <2> SUFFICES ASSUME NEW i \in 1 .. Len(r), r[i] = "free_all"
               PROVE  i <= 4 /\ \A j \in 1 .. i : r[j] = cleanup[4 - i + j]
    BY DEF CleansUp
  <2>1. s[i + 1] = "free_all" /\ i + 1 \in 1 .. Len(s) /\ i \in Nat
    BY <1>2, <1>a
  <2>2. i + 1 <= 4 /\ \A j \in 1 .. (i + 1) : s[j] = cleanup[4 - (i + 1) + j]
    BY <1>1, <2>1 DEF CleansUp
  <2>3. ASSUME NEW j \in 1 .. i PROVE r[j] = cleanup[4 - i + j]
    <3>1. r[j] = s[j + 1] /\ j + 1 \in 1 .. (i + 1)
      BY <1>2, <1>a, <2>1
    <3>2. s[j + 1] = cleanup[4 - (i + 1) + (j + 1)]
      BY <3>1, <2>2
    <3>3. 4 - (i + 1) + (j + 1) = 4 - i + j
      BY <2>1
    <3> QED
      BY <3>1, <3>2, <3>3
  <2> QED
    BY <2>1, <2>2, <2>3
<1>6. LoadsOnce(r)
  BY <1>1, <1>2, <1>a DEF LoadsOnce
<1>7. r = <<>> => Head(s) \in {"return", "drop"}
  BY <1>1, <1>2, <1>a DEF Ended
<1>8. r # <<>> => Follows(Head(s), Head(r)) /\ Head(r) = s[2]
  BY <1>1, <1>2, <1>a DEF Path
<1> QED
  BY <1>1, <1>2, <1>3, <1>4, <1>5, <1>6, <1>7, <1>8 DEF Plan, r

\* Any end of a plan is a plan.
LEMMA PlanEnd ==
  ASSUME NEW s, Plan(s), NEW k \in 1 .. Len(s)
  PROVE  LET r == SubSeq(s, k, Len(s)) IN
         /\ Plan(r) /\ r # <<>> /\ Head(r) = s[k]
         /\ Len(r) = Len(s) - k + 1 /\ \A i \in 1 .. Len(r) : r[i] = s[k + i - 1]
<1> DEFINE r == SubSeq(s, k, Len(s))
<1>1. s \in Seq(Steps) /\ Path(s) /\ Ended(s) /\ CleansUp(s) /\ LoadsOnce(s) /\ Len(s) \in Nat /\ s # <<>>
  BY DEF Plan
<1>2. \A i \in k .. Len(s) : s[i] \in Steps
  BY <1>1
<1>3. /\ r \in Seq(Steps) /\ Len(r) = Len(s) - k + 1
      /\ \A i \in 1 .. Len(s) - k + 1 : r[i] = s[k + i - 1]
  BY <1>1, <1>2, SubSeqProperties
<1> HIDE DEF r
<1>4. r # <<>> /\ Head(r) = s[k]
  BY <1>1, <1>3
<1>5. Path(r) /\ Ended(r) /\ LoadsOnce(r)
  <2>1. ASSUME NEW i \in 1 .. Len(r) - 1 PROVE Follows(r[i], r[i + 1])
    <3>1. k + i - 1 \in 1 .. Len(s) - 1 /\ k + (i + 1) - 1 = (k + i - 1) + 1
      BY <1>1, <1>3
    <3>2. r[i] = s[k + i - 1] /\ r[i + 1] = s[(k + i - 1) + 1]
      BY <1>1, <1>3, <3>1
    <3> QED
      BY <1>1, <3>1, <3>2 DEF Path
  <2>2. Ended(r)
    BY <1>1, <1>3 DEF Ended
  <2>3. LoadsOnce(r)
    <3> SUFFICES ASSUME NEW i \in 1 .. Len(r)
                 PROVE  /\ r[i] \in {"check", "claim", "restore"} => Len(r) <= i + 4
                        /\ r[i] = "free_old" => Len(r) > i + 4
      BY DEF LoadsOnce
    <3>1. k + i - 1 \in 1 .. Len(s) /\ r[i] = s[k + i - 1]
      BY <1>1, <1>3
    <3>2. /\ s[k + i - 1] \in {"check", "claim", "restore"} => Len(s) <= (k + i - 1) + 4
          /\ s[k + i - 1] = "free_old" => Len(s) > (k + i - 1) + 4
      BY <1>1, <3>1 DEF LoadsOnce
    <3> QED
      BY <1>1, <1>3, <3>1, <3>2
  <2> QED
    BY <2>1, <2>2, <2>3 DEF Path
<1>6. CleansUp(r)
  <2> SUFFICES ASSUME NEW i \in 1 .. Len(r), r[i] = "free_all"
               PROVE  i <= 4 /\ \A j \in 1 .. i : r[j] = cleanup[4 - i + j]
    BY DEF CleansUp
  <2> DEFINE m == k + i - 1
  <2>1. s[m] = "free_all" /\ m \in 1 .. Len(s)
    BY <1>1, <1>3
  <2>2. m <= 4 /\ \A j \in 1 .. m : s[j] = cleanup[4 - m + j]
    BY <1>1, <2>1 DEF CleansUp
  <2>3. ASSUME NEW j \in 1 .. i PROVE r[j] = cleanup[4 - i + j]
    <3>1. r[j] = s[k + j - 1] /\ k + j - 1 \in 1 .. m
      BY <1>1, <1>3
    <3>2. s[k + j - 1] = cleanup[4 - m + (k + j - 1)]
      BY <3>1, <2>2
    <3>3. 4 - m + (k + j - 1) = 4 - i + j
      BY <1>1
    <3> QED
      BY <3>1, <3>2, <3>3
  <2>4. i <= 4
    BY <2>2, <1>1
  <2> QED
    BY <2>3, <2>4
<1> QED
  BY <1>1, <1>3, <1>4, <1>5, <1>6 DEF Plan, r

\* Steps that may be put in front of a plan which does not clean up.
Prefix(p) ==
  /\ p \in Seq(Steps) /\ p # <<>> /\ Path(p) /\ CleansUp(p)
  /\ \A i \in 1 .. Len(p) : p[i] \notin {"check", "claim", "free_old"}

\* Such steps and what comes after them are a plan.
LEMMA Prepended ==
  ASSUME NEW p, NEW r, Prefix(p), Plan(r), r # <<>>,
         Follows(p[Len(p)], Head(r)), ~Has(r, "free_all"),
         Has(p, "restore") => Len(p) = 1 /\ Len(r) <= 4
  PROVE  /\ Plan(p \o r) /\ p \o r # <<>> /\ Head(p \o r) = p[1]
         /\ Len(p) \in Nat /\ Len(r) \in Nat /\ Len(p \o r) = Len(p) + Len(r)
         /\ \A i \in 1 .. Len(p) : (p \o r)[i] = p[i]
         /\ \A i \in Len(p) + 1 .. Len(p) + Len(r) : (p \o r)[i] = r[i - Len(p)]
<1> DEFINE s == p \o r
<1>1. p \in Seq(Steps) /\ p # <<>> /\ Path(p) /\ CleansUp(p) /\ Len(p) \in Nat \ {0}
  BY DEF Prefix
<1>2. r \in Seq(Steps) /\ Path(r) /\ Ended(r) /\ LoadsOnce(r) /\ Len(r) \in Nat \ {0} /\ Head(r) = r[1]
  BY DEF Plan
<1>3. /\ s \in Seq(Steps) /\ Len(s) = Len(p) + Len(r)
      /\ \A i \in 1 .. Len(p) + Len(r) : s[i] = IF i <= Len(p) THEN p[i] ELSE r[i - Len(p)]
  BY <1>1, <1>2, ConcatProperties
<1> HIDE DEF s
<1>4. /\ \A i \in 1 .. Len(p) : s[i] = p[i]
      /\ \A i \in Len(p) + 1 .. Len(p) + Len(r) : s[i] = r[i - Len(p)]
  BY <1>1, <1>2, <1>3
<1>5. Path(s)
  <2> SUFFICES ASSUME NEW i \in 1 .. Len(s) - 1 PROVE Follows(s[i], s[i + 1])
    BY DEF Path
  <2>1. CASE i < Len(p)
    BY <1>1, <1>2, <1>3, <1>4, <2>1 DEF Path
  <2>2. CASE i = Len(p)
    BY <1>1, <1>2, <1>3, <1>4, <2>2
  <2>3. CASE i > Len(p)
    <3>1. s[i] = r[i - Len(p)] /\ s[i + 1] = r[i + 1 - Len(p)]
      BY <1>1, <1>2, <1>3, <1>4, <2>3
    <3>2. i - Len(p) \in 1 .. Len(r) - 1 /\ i + 1 - Len(p) = i - Len(p) + 1
      BY <1>1, <1>2, <1>3, <2>3
    <3> QED
      BY <3>1, <3>2, <1>2 DEF Path
  <2> QED
    BY <2>1, <2>2, <2>3, <1>1, <1>3
<1>6. Ended(s)
  <2>1. s[Len(s)] = r[Len(r)]
    BY <1>1, <1>2, <1>3, <1>4
  <2> QED
    BY <1>2, <2>1 DEF Ended
<1>7. CleansUp(s)
  <2> SUFFICES ASSUME NEW i \in 1 .. Len(s), s[i] = "free_all"
               PROVE  i <= 4 /\ \A j \in 1 .. i : s[j] = cleanup[4 - i + j]
    BY DEF CleansUp
  <2>1. i \in 1 .. Len(p) /\ p[i] = "free_all"
    BY <1>1, <1>2, <1>3, <1>4 DEF Has
  <2>2. i <= 4 /\ \A j \in 1 .. i : p[j] = cleanup[4 - i + j]
    BY <1>1, <2>1 DEF CleansUp
  <2>3. \A j \in 1 .. i : s[j] = p[j]
    BY <1>1, <1>4, <2>1
  <2> QED
    BY <2>2, <2>3
<1>8. LoadsOnce(s)
  <2> SUFFICES ASSUME NEW i \in 1 .. Len(s)
               PROVE  /\ s[i] \in {"check", "claim", "restore"} => Len(s) <= i + 4
                      /\ s[i] = "free_old" => Len(s) > i + 4
    BY DEF LoadsOnce
  <2>1. CASE i <= Len(p)
    <3>1. s[i] = p[i] /\ p[i] \notin {"check", "claim", "free_old"}
      BY <1>1, <1>3, <1>4, <2>1 DEF Prefix
    <3>2. CASE p[i] = "restore"
      BY <1>1, <1>2, <1>3, <2>1, <3>1, <3>2 DEF Has
    <3> QED
      BY <3>1, <3>2
  <2>2. CASE i > Len(p)
    <3>1. i - Len(p) \in 1 .. Len(r) /\ s[i] = r[i - Len(p)]
      BY <1>1, <1>2, <1>3, <1>4, <2>2
    <3>2. /\ r[i - Len(p)] \in {"check", "claim", "restore"} => Len(r) <= i - Len(p) + 4
          /\ r[i - Len(p)] = "free_old" => Len(r) > i - Len(p) + 4
      BY <3>1, <1>2 DEF LoadsOnce
    <3> QED
      BY <3>1, <3>2, <1>1, <1>2, <1>3
  <2> QED
    BY <2>1, <2>2, <1>1, <1>3
<1>9. s # <<>> /\ Head(s) = p[1]
  BY <1>1, <1>2, <1>3, <1>4
<1> QED
  BY <1>1, <1>2, <1>3, <1>4, <1>5, <1>6, <1>7, <1>8, <1>9 DEF Plan, s

\* The programs that a step may put in front of what is left to do.
LEMMA ProgramSteps ==
  /\ reset \in Seq(Steps) /\ Len(reset) = 3
  /\ reset[1] = "load_old" /\ reset[2] = "store_new" /\ reset[3] = "delete"
  /\ handler \in Seq(Steps) /\ Len(handler) = 4
  /\ handler[1] = "load_old" /\ handler[2] = "store_new" /\ handler[3] = "delete_in_handler"
  /\ handler[4] = "unlock"
  /\ <<"restored">> \in Seq(Steps) /\ <<"unlock">> \in Seq(Steps) /\ <<"free_all">> \in Seq(Steps)
  /\ Len(<<"restored">>) = 1 /\ Len(<<"unlock">>) = 1 /\ Len(<<"free_all">>) = 1
<1>1. /\ reset \in Seq(Steps) /\ Len(reset) = 3
      /\ reset[1] = "load_old" /\ reset[2] = "store_new" /\ reset[3] = "delete"
  BY DEF reset, Steps, Outside
<1>2. /\ handler \in Seq(Steps) /\ Len(handler) = 4
      /\ handler[1] = "load_old" /\ handler[2] = "store_new" /\ handler[3] = "delete_in_handler"
      /\ handler[4] = "unlock"
  BY DEF handler, Steps, Outside
<1>3. <<"restored">> \in Seq(Steps) /\ <<"unlock">> \in Seq(Steps) /\ <<"free_all">> \in Seq(Steps)
  BY DEF Steps, Outside
<1>4. Len(<<"restored">>) = 1 /\ Len(<<"unlock">>) = 1 /\ Len(<<"free_all">>) = 1
  OBVIOUS
<1> QED
  BY <1>1, <1>2, <1>3, <1>4

\* The steps of cleanup,
LEMMA CleanupSteps ==
  /\ cleanup \in Seq(Steps) /\ Len(cleanup) = 4
  /\ cleanup[1] = "load_old" /\ cleanup[2] = "store_new" /\ cleanup[3] = "delete"
  /\ cleanup[4] = "free_all"
<1> DEFINE p == reset
           r == <<"free_all">>
<1>1. p \in Seq(Steps) /\ r \in Seq(Steps) /\ Len(p) = 3 /\ Len(r) = 1
  BY ProgramSteps
<1>2. /\ p \o r \in Seq(Steps) /\ Len(p \o r) = Len(p) + Len(r)
      /\ \A i \in 1 .. Len(p) + Len(r) : (p \o r)[i] = IF i <= Len(p) THEN p[i] ELSE r[i - Len(p)]
  BY <1>1, ConcatProperties
<1>3. p[1] = "load_old" /\ p[2] = "store_new" /\ p[3] = "delete" /\ r[1] = "free_all"
  BY ProgramSteps
<1>4. cleanup = p \o r
  BY DEF cleanup
<1> HIDE DEF p, r
<1> QED
  BY <1>1, <1>2, <1>3, <1>4

\* of cleanup with the lock in hand,
LEMMA CleanupUnlockSteps ==
  /\ cleanup \o <<"unlock">> \in Seq(Steps) /\ Len(cleanup \o <<"unlock">>) = 5
  /\ \A i \in 1 .. 4 : (cleanup \o <<"unlock">>)[i] = cleanup[i]
  /\ (cleanup \o <<"unlock">>)[5] = "unlock"
<1> DEFINE r == <<"unlock">>
<1>1. cleanup \in Seq(Steps) /\ r \in Seq(Steps) /\ Len(cleanup) = 4 /\ Len(r) = 1
  BY ProgramSteps, CleanupSteps
<1>2. /\ cleanup \o r \in Seq(Steps) /\ Len(cleanup \o r) = Len(cleanup) + Len(r)
      /\ \A i \in 1 .. Len(cleanup) + Len(r) :
           (cleanup \o r)[i] = IF i <= Len(cleanup) THEN cleanup[i] ELSE r[i - Len(cleanup)]
  BY <1>1, ConcatProperties
<1>3. r[1] = "unlock"
  OBVIOUS
<1> HIDE DEF r
<1>4. /\ cleanup \o r \in Seq(Steps) /\ Len(cleanup \o r) = 5
      /\ \A i \in 1 .. 4 : (cleanup \o r)[i] = cleanup[i]
      /\ (cleanup \o r)[5] = "unlock"
  BY <1>1, <1>2, <1>3
<1> QED
  BY <1>4 DEF r

\* and of storing a new virtual machine.
LEMMA RestoredSteps ==
  /\ <<"restored">> \o reset \in Seq(Steps) /\ Len(<<"restored">> \o reset) = 4
  /\ (<<"restored">> \o reset)[1] = "restored" /\ (<<"restored">> \o reset)[2] = "load_old"
  /\ (<<"restored">> \o reset)[3] = "store_new" /\ (<<"restored">> \o reset)[4] = "delete"
<1> DEFINE p == <<"restored">>
<1>1. p \in Seq(Steps) /\ reset \in Seq(Steps) /\ Len(p) = 1 /\ Len(reset) = 3
  BY ProgramSteps
<1>2. /\ p \o reset \in Seq(Steps) /\ Len(p \o reset) = Len(p) + Len(reset)
      /\ \A i \in 1 .. Len(p) + Len(reset) :
           (p \o reset)[i] = IF i <= Len(p) THEN p[i] ELSE reset[i - Len(p)]
  BY <1>1, ConcatProperties
<1>3. p[1] = "restored"
  OBVIOUS
<1> HIDE DEF p
<1>4. /\ p \o reset \in Seq(Steps) /\ Len(p \o reset) = 4
      /\ (p \o reset)[1] = "restored" /\ (p \o reset)[2] = "load_old"
      /\ (p \o reset)[3] = "store_new" /\ (p \o reset)[4] = "delete"
  BY <1>1, <1>2, <1>3, ProgramSteps
<1> QED
  BY <1>4 DEF p

\* The programs can be put in front of a plan.
LEMMA Prefixes ==
  /\ Prefix(handler) /\ Prefix(cleanup)
  /\ Prefix(cleanup \o <<"unlock">>) /\ Prefix(<<"restored">> \o reset)
<1>1. Prefix(handler)
  BY ProgramSteps DEF Prefix, Path, Follows, CleansUp
<1>2. Prefix(cleanup)
  <2>1. CleansUp(cleanup)
    BY CleanupSteps DEF CleansUp
  <2>2. \A i \in 1 .. 3 : i = 1 \/ i = 2 \/ i = 3
    OBVIOUS
  <2>3. Path(cleanup)
    BY <2>2, CleanupSteps DEF Path, Follows
  <2>4. \A i \in 1 .. 4 : cleanup[i] \notin {"check", "claim", "free_old"}
    BY CleanupSteps
  <2> QED
    BY <2>1, <2>3, <2>4, CleanupSteps DEF Prefix
<1>3. Prefix(cleanup \o <<"unlock">>)
  <2>1. CleansUp(cleanup \o <<"unlock">>)
    BY CleanupSteps, CleanupUnlockSteps DEF CleansUp
  <2> QED
    BY <2>1, CleanupUnlockSteps, CleanupSteps DEF Prefix, Path, Follows
<1>4. Prefix(<<"restored">> \o reset)
  BY RestoredSteps DEF Prefix, Path, Follows, CleansUp
<1> QED
  BY <1>1, <1>2, <1>3, <1>4

-----------------------------------------------------------------------------
(* Lemmas: what is left to do after a step *)

\* After the first step.
LEMMA TailLeft ==
  ASSUME NEW s, Plan(s), s # <<>>
  PROVE  /\ \A step : Has(Tail(s), step) => Has(s, step)
         /\ \A step : Has(s, step) /\ Head(s) # step => Has(Tail(s), step)
         /\ Unlocks(s) /\ Head(s) # "unlock" => Unlocks(Tail(s))
         /\ CleansWithLock(s) => CleansWithLock(Tail(s))
         /\ CleansWithLock(s) /\ Head(s) = "free_all" => Tail(s) # <<>> /\ Head(Tail(s)) = "unlock"
<1> DEFINE r == Tail(s)
<1>1. /\ Len(s) \in Nat \ {0} /\ Head(s) = s[1] /\ Len(r) = Len(s) - 1
      /\ \A i \in 1 .. Len(s) - 1 : r[i] = s[i + 1]
      /\ r = <<>> => Head(s) \in {"return", "drop"}
      /\ r # <<>> => Head(r) = s[2]
      /\ r \in Seq(Steps)
  BY PlanTail DEF Plan
<1> HIDE DEF r
<1>2. ASSUME NEW step, Has(r, step) PROVE Has(s, step)
  <2>1. PICK i \in 1 .. Len(r) : r[i] = step
    BY <1>2 DEF Has
  <2>2. i + 1 \in 1 .. Len(s) /\ s[i + 1] = step
    BY <1>1, <2>1
  <2> QED
    BY <2>2 DEF Has
<1>3. ASSUME Unlocks(s), Head(s) # "unlock" PROVE Unlocks(r)
  <2>1. PICK i \in 1 .. Len(s) : s[i] = "unlock" /\ \A j \in 1 .. i : s[j] \notin Outside
    BY <1>3 DEF Unlocks
  <2>2. i - 1 \in 1 .. Len(r) /\ r[i - 1] = "unlock"
    BY <1>1, <1>3, <2>1
  <2>3. \A j \in 1 .. i - 1 : r[j] \notin Outside
    BY <1>1, <2>1
  <2> QED
    BY <2>2, <2>3 DEF Unlocks
<1>4. ASSUME CleansWithLock(s) PROVE CleansWithLock(r)
  BY <1>1, <1>4 DEF CleansWithLock
<1>5. ASSUME CleansWithLock(s), Head(s) = "free_all" PROVE r # <<>> /\ Head(r) = "unlock"
  <2>1. r # <<>>
    BY <1>1, <1>5
  <2>2. Len(r) # 0
    BY <2>1, <1>1
  <2> QED
    BY <1>1, <1>5, <2>1, <2>2 DEF CleansWithLock
<1>6. ASSUME NEW step, Has(s, step), Head(s) # step PROVE Has(r, step)
  <2>1. PICK i \in 1 .. Len(s) : s[i] = step
    BY <1>6 DEF Has
  <2>2. i - 1 \in 1 .. Len(r) /\ r[i - 1] = step
    BY <1>1, <1>6, <2>1
  <2> QED
    BY <2>2 DEF Has
<1> QED
  BY <1>2, <1>3, <1>4, <1>5, <1>6 DEF r

\* A plan that starts with another step than those of cleanup does not clean up.
LEMMA NoCleanup ==
  ASSUME NEW s, Plan(s), s # <<>>, Head(s) \notin {"load_old", "store_new", "delete", "free_all"}
  PROVE  ~Has(s, "free_all")
<1>1. Len(s) \in Nat \ {0} /\ Head(s) = s[1]
  BY PlanTail
<1> SUFFICES ASSUME NEW i \in 1 .. Len(s), s[i] = "free_all" PROVE FALSE
  BY DEF Has
<1>2. i <= 4 /\ \A j \in 1 .. i : s[j] = cleanup[4 - i + j]
  BY DEF Plan, CleansUp
<1>3. s[1] = cleanup[4 - i + 1] /\ 4 - i + 1 \in 1 .. 4
  BY <1>1, <1>2
<1> QED
  BY <1>1, <1>3, CleanupSteps

\* The call of the compartment that a thread is in ends with a return.
LEMMA ReturnedEnd ==
  ASSUME NEW t, Plan(todo[t]), Inside(t)
  PROVE  \E k \in 1 .. Len(todo[t]) :
           Returned(t) = SubSeq(todo[t], k, Len(todo[t])) /\ todo[t][k] = "return"
<1> DEFINE s == todo[t]
           returns == {i \in DOMAIN s : s[i] = "return"}
           first == CHOOSE i \in returns : \A j \in returns : i <= j
<1>1. s \in Seq(Steps) /\ Path(s) /\ Ended(s) /\ s # <<>> /\ s[1] \notin Outside
  BY FirstAndRest DEF Plan, Inside, Outside
<1>2. Len(s) \in Nat \ {0} /\ DOMAIN s = 1 .. Len(s) /\ \A i \in 1 .. Len(s) : s[i] \in Steps
  BY <1>1, FirstAndRest
<1>3. s[Len(s)] \in {"return", "drop"}
  BY <1>1 DEF Ended
<1>4. returns # {}
  <2>1. CASE s[Len(s)] = "return"
    BY <1>2, <2>1
  <2>2. CASE s[Len(s)] = "drop"
    <3>1. Len(s) - 1 \in 1 .. Len(s) - 1 /\ Len(s) - 1 \in 1 .. Len(s)
      BY <1>1, <1>2, <2>2 DEF Outside
    <3>2. Follows(s[Len(s) - 1], "drop") /\ s[Len(s) - 1] \in Steps
      BY <1>1, <1>2, <2>2, <3>1 DEF Path
    <3>3. s[Len(s) - 1] = "return"
      BY <3>2 DEF Follows, Steps, Outside
    <3> QED
      BY <1>2, <3>1, <3>3
  <2> QED
    BY <1>3, <2>1, <2>2
<1>5. \E i \in returns : \A j \in returns : i <= j
  <2>1. returns \in SUBSET Nat
    BY <1>2
  <2> QED
    BY <1>4, <2>1, Smallest
<1>6. first \in returns
  BY <1>5
<1>7. Returned(t) = SubSeq(s, first, Len(s))
  BY DEF Returned
<1> QED
  BY <1>2, <1>6, <1>7

\* When the call has ended, and when the error handler is to run first.
LEMMA FaultLeft ==
  ASSUME NEW t, Plan(todo[t]), Inside(t)
  PROVE  LET r == Returned(t) IN
         /\ Plan(r) /\ r # <<>> /\ Head(r) = "return" /\ ~Has(r, "free_all")
         /\ \A step : Has(r, step) => Has(todo[t], step)
         /\ Plan(handler \o r) /\ handler \o r # <<>> /\ Head(handler \o r) = "load_old"
         /\ ~Has(handler \o r, "free_all") /\ Unlocks(handler \o r)
         /\ \A step \in {"lock", "free_old", "claim", "restore"} :
              Has(handler \o r, step) => Has(todo[t], step)
<1> DEFINE s == todo[t]
           r == Returned(t)
           h == handler \o r
<1>1. PICK k \in 1 .. Len(s) : r = SubSeq(s, k, Len(s)) /\ s[k] = "return"
  BY ReturnedEnd
<1>2. /\ Plan(r) /\ r # <<>> /\ Head(r) = "return"
      /\ Len(r) = Len(s) - k + 1 /\ \A i \in 1 .. Len(r) : r[i] = s[k + i - 1]
  BY <1>1, PlanEnd
<1>3. Len(s) \in Nat /\ Len(r) \in Nat
  BY <1>2 DEF Plan
<1>4. ~Has(r, "free_all")
  BY <1>2, NoCleanup
<1>5. ASSUME NEW step, Has(r, step) PROVE Has(s, step)
  <2>1. PICK i \in 1 .. Len(r) : r[i] = step
    BY <1>5 DEF Has
  <2>2. k + i - 1 \in 1 .. Len(s) /\ s[k + i - 1] = step
    BY <1>2, <1>3, <2>1
  <2> QED
    BY <2>2 DEF Has
<1> HIDE DEF r
<1>6. (Has(handler, "restore") => Len(handler) = 1 /\ Len(r) <= 4) /\ Follows(handler[Len(handler)], Head(r))
  BY <1>2, ProgramSteps DEF Has, Follows
<1>7. /\ Plan(h) /\ h # <<>> /\ Head(h) = handler[1] /\ Len(h) = Len(handler) + Len(r)
      /\ \A i \in 1 .. Len(handler) : h[i] = handler[i]
      /\ \A i \in Len(handler) + 1 .. Len(handler) + Len(r) : h[i] = r[i - Len(handler)]
  BY <1>2, <1>4, <1>6, Prefixes, Prepended
<1> HIDE DEF h
<1>8. \A i \in 1 .. Len(h) :
        IF i <= 4 THEN h[i] = handler[i] ELSE i - 4 \in 1 .. Len(r) /\ h[i] = r[i - 4]
  BY <1>3, <1>7, ProgramSteps
<1>9. ASSUME NEW step \in {"lock", "free_old", "claim", "restore", "free_all"}, Has(h, step)
      PROVE Has(r, step)
  <2>1. PICK i \in 1 .. Len(h) : h[i] = step
    BY <1>9 DEF Has
  <2>2. i - 4 \in 1 .. Len(r) /\ h[i] = r[i - 4]
    BY <1>8, <2>1, ProgramSteps, <1>3, <1>7
  <2> QED
    BY <2>1, <2>2 DEF Has
<1>10. Unlocks(h)
  <2>1. 4 \in 1 .. Len(h) /\ h[4] = "unlock" /\ \A j \in 1 .. 4 : h[j] \notin Outside
    BY <1>3, <1>7, ProgramSteps DEF Outside
  <2> QED
    BY <2>1 DEF Unlocks
<1> QED
  BY <1>2, <1>4, <1>5, <1>7, <1>9, <1>10, ProgramSteps DEF r, h

\* A cleanup in front of what a thread has left to do.
LEMMA CleanupLeft ==
  ASSUME NEW r, Plan(r), r # <<>>, ~Has(r, "free_all"), Head(r) \in {"unlock", "return"}
  PROVE  /\ Plan(cleanup \o r) /\ cleanup \o r # <<>> /\ Head(cleanup \o r) = "load_old"
         /\ \A step \in {"lock", "free_old", "claim", "restore"} : Has(cleanup \o r, step) => Has(r, step)
         /\ Head(r) = "unlock" => Unlocks(cleanup \o r) /\ CleansWithLock(cleanup \o r)
<1> DEFINE s == cleanup \o r
<1>1. /\ Has(cleanup, "restore") => Len(cleanup) = 1 /\ Len(r) <= 4
      /\ Follows(cleanup[Len(cleanup)], Head(r))
  BY CleanupSteps DEF Has, Follows
<1>2. /\ Plan(s) /\ s # <<>> /\ Head(s) = cleanup[1] /\ Len(s) = Len(cleanup) + Len(r) /\ Len(r) \in Nat
      /\ \A i \in 1 .. Len(cleanup) : s[i] = cleanup[i]
      /\ \A i \in Len(cleanup) + 1 .. Len(cleanup) + Len(r) : s[i] = r[i - Len(cleanup)]
  BY <1>1, Prefixes, Prepended
<1> HIDE DEF s
<1>3. \A i \in 1 .. Len(s) : IF i <= 4 THEN s[i] = cleanup[i] ELSE i - 4 \in 1 .. Len(r) /\ s[i] = r[i - 4]
  BY <1>2, CleanupSteps
<1>4. ASSUME NEW step \in {"lock", "free_old", "claim", "restore"}, Has(s, step)
      PROVE Has(r, step)
  <2>1. PICK i \in 1 .. Len(s) : s[i] = step
    BY <1>4 DEF Has
  <2>2. i - 4 \in 1 .. Len(r) /\ r[i - 4] = step
    BY <1>3, <2>1, CleanupSteps, <1>2
  <2> QED
    BY <2>2 DEF Has
<1>5. ASSUME Head(r) = "unlock" PROVE Unlocks(s) /\ CleansWithLock(s)
  <2>1. r[1] = "unlock" /\ Len(r) # 0
    BY <1>5, PlanTail
  <2>2. 5 \in 1 .. Len(s) /\ s[5] = "unlock"
    BY <1>2, <1>3, <2>1, CleanupSteps
  <2>3. \A j \in 1 .. 5 : s[j] \notin Outside
    BY <1>2, <1>3, <2>1, <2>2, CleanupSteps DEF Outside
  <2>4. ASSUME NEW i \in 1 .. Len(s) - 1, s[i] = "free_all" PROVE s[i + 1] = "unlock"
    <3>1. i = 4
      <4>1. CASE i > 4
        BY <1>2, <1>3, <2>4, <4>1, CleanupSteps DEF Has
      <4>2. CASE i <= 4
        BY <1>2, <1>3, <2>4, <4>2, CleanupSteps
      <4> QED
        BY <4>1, <4>2, <1>2, CleanupSteps
    <3> QED
      BY <3>1, <2>2
  <2> QED
    BY <2>2, <2>3, <2>4 DEF Unlocks, CleansWithLock
<1> QED
  BY <1>2, <1>4, <1>5, CleanupSteps DEF s

\* The same of a cleanup that has taken the lock.
LEMMA LockedCleanupLeft ==
  ASSUME NEW r, Plan(r), r # <<>>, ~Has(r, "free_all"), Head(r) = "return"
  PROVE  LET s == cleanup \o <<"unlock">> \o r IN
         /\ Plan(s) /\ s # <<>> /\ Head(s) = "load_old" /\ Unlocks(s) /\ CleansWithLock(s)
         /\ Has(s, "free_all")
         /\ \A step \in {"lock", "free_old", "claim", "restore"} : Has(s, step) => Has(r, step)
<1> DEFINE p == cleanup \o <<"unlock">>
           s == p \o r
<1>1. /\ Len(p) = 5 /\ p[5] = "unlock" /\ \A i \in 1 .. 4 : p[i] = cleanup[i]
      /\ Prefix(p)
  BY CleanupUnlockSteps, Prefixes
<1> HIDE DEF p
<1>2. /\ Has(p, "restore") => Len(p) = 1 /\ Len(r) <= 4
      /\ Follows(p[Len(p)], Head(r))
  BY <1>1, CleanupSteps DEF Has, Follows
<1>3. /\ Plan(s) /\ s # <<>> /\ Head(s) = p[1] /\ Len(s) = Len(p) + Len(r) /\ Len(r) \in Nat
      /\ \A i \in 1 .. Len(p) : s[i] = p[i]
      /\ \A i \in Len(p) + 1 .. Len(p) + Len(r) : s[i] = r[i - Len(p)]
  <2>1. Prefix(p) /\ Plan(r) /\ r # <<>> /\ ~Has(r, "free_all")
    BY <1>1
  <2>2. Follows(p[Len(p)], Head(r)) /\ (Has(p, "restore") => Len(p) = 1 /\ Len(r) <= 4)
    BY <1>2
  <2> QED
    BY <2>1, <2>2, Prepended
<1> HIDE DEF s
<1>4. \A i \in 1 .. Len(s) : IF i <= 5 THEN s[i] = p[i] ELSE i - 5 \in 1 .. Len(r) /\ s[i] = r[i - 5]
  BY <1>1, <1>3
<1>5. ASSUME NEW step \in {"lock", "free_old", "claim", "restore"}, Has(s, step)
      PROVE Has(r, step)
  <2>1. PICK i \in 1 .. Len(s) : s[i] = step
    BY <1>5 DEF Has
  <2>2. i - 5 \in 1 .. Len(r) /\ r[i - 5] = step
    BY <1>1, <1>4, <2>1, CleanupSteps, <1>3
  <2> QED
    BY <2>2 DEF Has
<1>6. 5 \in 1 .. Len(s) /\ s[5] = "unlock" /\ \A j \in 1 .. 5 : s[j] \notin Outside
  BY <1>1, <1>3, <1>4, CleanupSteps DEF Outside
<1>7. ASSUME NEW i \in 1 .. Len(s) - 1, s[i] = "free_all" PROVE s[i + 1] = "unlock"
  <2>1. i = 4
    <3>1. CASE i > 5
      <4>1. i - 5 \in 1 .. Len(r) /\ r[i - 5] = "free_all"
        BY <1>1, <1>3, <1>4, <1>7, <3>1
      <4> QED
        BY <4>1 DEF Has
    <3>2. CASE i <= 5
      BY <1>1, <1>3, <1>4, <1>7, <3>2, CleanupSteps
    <3> QED
      BY <3>1, <3>2, <1>3
  <2> QED
    BY <2>1, <1>6
<1>8. Unlocks(s) /\ CleansWithLock(s) /\ Head(s) = "load_old"
  BY <1>1, <1>3, <1>6, <1>7, CleanupSteps DEF Unlocks, CleansWithLock
<1>9. Has(s, "free_all")
  <2>1. 4 \in 1 .. Len(s) /\ s[4] = "free_all"
    BY <1>1, <1>3, <1>4, CleanupSteps
  <2> QED
    BY <2>1 DEF Has
<1> QED
  BY <1>3, <1>5, <1>8, <1>9 DEF s, p

\* A new virtual machine is stored after mvm_restore.
LEMMA RestoredLeft ==
  ASSUME NEW r, Plan(r), r # <<>>, ~Has(r, "free_all"), Head(r) \in {"resolve", "unlock"}
  PROVE  LET s == <<"restored">> \o reset \o r IN
         /\ Plan(s) /\ s # <<>> /\ Head(s) = "restored" /\ ~Has(s, "free_all")
         /\ Unlocks(r) => Unlocks(s)
         /\ \A step \in {"lock", "free_old", "claim", "restore"} : Has(s, step) => Has(r, step)
<1> DEFINE p == <<"restored">> \o reset
           s == p \o r
<1>1. /\ Len(p) = 4 /\ p[1] = "restored" /\ p[2] = "load_old" /\ p[3] = "store_new" /\ p[4] = "delete"
      /\ Prefix(p)
  BY RestoredSteps, Prefixes
<1> HIDE DEF p
<1>2. /\ Has(p, "restore") => Len(p) = 1 /\ Len(r) <= 4
      /\ Follows(p[Len(p)], Head(r))
  BY <1>1 DEF Has, Follows
<1>3. /\ Plan(s) /\ s # <<>> /\ Head(s) = p[1] /\ Len(s) = Len(p) + Len(r) /\ Len(r) \in Nat
      /\ \A i \in 1 .. Len(p) : s[i] = p[i]
      /\ \A i \in Len(p) + 1 .. Len(p) + Len(r) : s[i] = r[i - Len(p)]
  BY <1>1, <1>2, Prepended
<1> HIDE DEF s
<1>4. \A i \in 1 .. Len(s) : IF i <= 4 THEN s[i] = p[i] ELSE i - 4 \in 1 .. Len(r) /\ s[i] = r[i - 4]
  BY <1>1, <1>3
<1>5. ASSUME NEW step \in {"lock", "free_old", "claim", "restore", "free_all"}, Has(s, step)
      PROVE Has(r, step)
  <2>1. PICK i \in 1 .. Len(s) : s[i] = step
    BY <1>5 DEF Has
  <2>2. i - 4 \in 1 .. Len(r) /\ r[i - 4] = step
    BY <1>1, <1>4, <2>1, <1>3
  <2> QED
    BY <2>2 DEF Has
<1>6. ASSUME Unlocks(r) PROVE Unlocks(s)
  <2>1. PICK i \in 1 .. Len(r) : r[i] = "unlock" /\ \A j \in 1 .. i : r[j] \notin Outside
    BY <1>6 DEF Unlocks
  <2>2. i + 4 \in 1 .. Len(s) /\ s[i + 4] = "unlock"
    BY <1>1, <1>3, <2>1
  <2>3. ASSUME NEW j \in 1 .. i + 4 PROVE s[j] \notin Outside
    <3>1. CASE j <= 4
      BY <1>1, <1>3, <3>1 DEF Outside
    <3>2. CASE j > 4
      <4>1. j - 4 \in 1 .. i /\ s[j] = r[j - 4]
        BY <1>1, <1>3, <2>1, <3>2
      <4> QED
        BY <4>1, <2>1
    <3> QED
      BY <3>1, <3>2, <2>1
  <2> QED
    BY <2>2, <2>3 DEF Unlocks
<1> QED
  BY <1>1, <1>3, <1>5, <1>6 DEF s, p

\* A virtual machine is to be restored first.
LEMMA CheckLeft ==
  ASSUME NEW s, Plan(s), s # <<>>, Head(s) = "check"
  PROVE  LET q == <<"restore">> \o Tail(s) IN
         /\ Plan(q) /\ q # <<>> /\ Head(q) = "restore" /\ ~Has(q, "free_all")
         /\ Unlocks(s) => Unlocks(q)
<1> DEFINE p == <<"restore">>
           r == Tail(s)
           q == p \o r
<1>1. /\ Plan(r) /\ r # <<>> /\ Head(r) = "resolve" /\ Len(s) \in Nat \ {0} /\ Len(r) = Len(s) - 1
      /\ \A i \in 1 .. Len(s) - 1 : r[i] = s[i + 1]
      /\ Head(s) = s[1]
  BY PlanTail DEF Follows
<1>2. ~Has(r, "free_all")
  BY <1>1, NoCleanup
<1>3. Len(r) <= 4
  BY <1>1 DEF Plan, LoadsOnce
<1>4. p \in Seq(Steps) /\ Len(p) = 1 /\ p[1] = "restore" /\ p # <<>>
  BY DEF Steps, Outside
<1> HIDE DEF p, r
<1>5. Prefix(p)
  BY <1>4 DEF Prefix, Path, CleansUp
<1>6. Follows(p[Len(p)], Head(r)) /\ (Has(p, "restore") => Len(p) = 1 /\ Len(r) <= 4)
  BY <1>1, <1>3, <1>4 DEF Follows
<1>7. /\ Plan(q) /\ q # <<>> /\ Head(q) = p[1] /\ Len(q) = Len(p) + Len(r) /\ Len(r) \in Nat
      /\ \A i \in 1 .. Len(p) : q[i] = p[i]
      /\ \A i \in Len(p) + 1 .. Len(p) + Len(r) : q[i] = r[i - Len(p)]
  BY <1>1, <1>2, <1>5, <1>6, Prepended
<1> HIDE DEF q
<1>8. ~Has(q, "free_all")
  BY <1>4, <1>7, NoCleanup
<1>9. ASSUME Unlocks(s) PROVE Unlocks(q)
  <2>1. PICK i \in 1 .. Len(s) : s[i] = "unlock" /\ \A j \in 1 .. i : s[j] \notin Outside
    BY <1>9 DEF Unlocks
  <2>2. ASSUME NEW j \in 2 .. Len(s) PROVE q[j] = s[j]
    <3>1. q[j] = r[j - 1] /\ j - 1 \in 1 .. Len(s) - 1
      BY <1>1, <1>4, <1>7, <2>2
    <3>2. r[j - 1] = s[j - 1 + 1] /\ j - 1 + 1 = j
      BY <1>1, <3>1
    <3> QED
      BY <3>1, <3>2
  <2>3. i # 1
    BY <1>1, <2>1
  <2>4. i \in 1 .. Len(q) /\ q[i] = "unlock"
    BY <1>1, <1>4, <1>7, <2>1, <2>2, <2>3
  <2>5. \A j \in 1 .. i : q[j] \notin Outside
    BY <1>1, <1>4, <1>7, <2>1, <2>2 DEF Outside
  <2> QED
    BY <2>4, <2>5 DEF Unlocks
<1> QED
  BY <1>4, <1>7, <1>8, <1>9 DEF p, q, r

\* What is done with the lock in hand ends with giving it back.
LEMMA LockLeft ==
  ASSUME NEW s, Plan(s), s # <<>>, Head(s) = "lock"
  PROVE  Tail(s) # <<>> /\ Head(Tail(s)) \in {"check", "free_old"} /\ Unlocks(Tail(s))
<1> DEFINE r == Tail(s)
<1>1. Plan(r) /\ r # <<>> /\ Head(r) \in {"check", "free_old"}
  BY PlanTail DEF Follows
<1> HIDE DEF r
<1>2. /\ Path(r) /\ Len(r) \in Nat \ {0} /\ r[Len(r)] \in {"return", "drop"} /\ Head(r) = r[1]
  BY <1>1, PlanTail DEF Plan, Ended
<1>3. 1 \in 1 .. Len(r) - 1 /\ r[2] \in {"resolve", "claim"}
  BY <1>1, <1>2 DEF Path, Follows
<1>4. 2 \in 1 .. Len(r) - 1 /\ r[3] \in {"call", "restore"}
  BY <1>2, <1>3 DEF Path, Follows
<1>5. 3 \in 1 .. Len(r) - 1 /\ r[4] \in {"unlock", "resolve"}
  BY <1>2, <1>4 DEF Path, Follows
<1>6. CASE r[4] = "unlock"
  <2>1. 4 \in 1 .. Len(r) /\ \A j \in 1 .. 4 : r[j] \notin Outside
    BY <1>1, <1>2, <1>3, <1>4, <1>5 DEF Outside
  <2> QED
    BY <1>1, <1>6, <2>1 DEF Unlocks, r
<1>7. CASE r[4] = "resolve"
  <2>1. 4 \in 1 .. Len(r) - 1 /\ r[5] = "call"
    BY <1>2, <1>5, <1>7 DEF Path, Follows
  <2>2. 5 \in 1 .. Len(r) - 1 /\ r[6] = "unlock"
    BY <1>2, <2>1 DEF Path, Follows
  <2>3. 6 \in 1 .. Len(r) /\ \A j \in 1 .. 6 : r[j] \notin Outside
    BY <1>1, <1>2, <1>3, <1>4, <1>5, <1>7, <2>1, <2>2 DEF Outside
  <2> QED
    BY <1>1, <2>2, <2>3 DEF Unlocks, r
<1> QED
  BY <1>5, <1>6, <1>7

\* The programs of the callers.
LEMMA TickLeft ==
  Plan(tick) /\ tick # <<>> /\ Head(tick) = "lock" /\ ~Has(tick, "free_all")
<1>1. /\ tick \in Seq(Steps) /\ Len(tick) = 6 /\ tick[1] = "lock" /\ tick[2] = "check" /\ tick[3] = "resolve"
      /\ tick[4] = "call" /\ tick[5] = "unlock" /\ tick[6] = "return"
  BY DEF tick, Steps, Outside
<1>2. \A i \in 1 .. 6 : i = 1 \/ i = 2 \/ i = 3 \/ i = 4 \/ i = 5 \/ i = 6
  OBVIOUS
<1>3. Path(tick)
  BY <1>1, <1>2 DEF Path, Follows
<1>4. Ended(tick) /\ CleansUp(tick) /\ ~Has(tick, "free_all")
  BY <1>1, <1>2 DEF Ended, CleansUp, Has
<1>5. LoadsOnce(tick)
  BY <1>1, <1>2 DEF LoadsOnce
<1> QED
  BY <1>1, <1>3, <1>4, <1>5 DEF Plan

\* Nothing is loaded by kill.
LEMMA KillLeft ==
  /\ Plan(kill) /\ kill # <<>> /\ Head(kill) = "try_lock"
  /\ \A step \in {"free_all", "lock", "free_old", "claim", "restore"} : ~Has(kill, step)
<1>1. kill \in Seq(Steps) /\ Len(kill) = 2 /\ kill[1] = "try_lock" /\ kill[2] = "return"
  BY DEF kill, Steps, Outside
<1>2. \A i \in 1 .. 2 : i = 1 \/ i = 2
  OBVIOUS
<1>3. Path(kill)
  BY <1>1, <1>2 DEF Path, Follows
<1>4. \A step \in {"free_all", "lock", "free_old", "claim", "restore"} : ~Has(kill, step)
  BY <1>1, <1>2 DEF Has
<1>5. Ended(kill) /\ CleansUp(kill) /\ LoadsOnce(kill)
  BY <1>1, <1>2 DEF Ended, CleansUp, LoadsOnce
<1> QED
  BY <1>1, <1>3, <1>4, <1>5 DEF Plan

\* What the console does with a script.
LEMMA LoadLeft ==
  LET s == kill \o load_javascript \o <<"drop">> IN
  Plan(s) /\ s # <<>> /\ Head(s) = "try_lock" /\ ~Has(s, "free_all")
<1> DEFINE p == kill \o load_javascript
           r == <<"drop">>
           s == p \o r
<1>1. kill \in Seq(Steps) /\ Len(kill) = 2 /\ kill[1] = "try_lock" /\ kill[2] = "return"
  BY DEF kill, Steps, Outside
<1>2. /\ load_javascript \in Seq(Steps) /\ Len(load_javascript) = 6
      /\ load_javascript[1] = "lock" /\ load_javascript[2] = "free_old" /\ load_javascript[3] = "claim"
      /\ load_javascript[4] = "restore" /\ load_javascript[5] = "unlock" /\ load_javascript[6] = "return"
  BY DEF load_javascript, Steps, Outside
<1>3. r \in Seq(Steps) /\ Len(r) = 1 /\ r[1] = "drop"
  BY DEF Steps, Outside
<1>4. /\ p \in Seq(Steps) /\ Len(p) = Len(kill) + Len(load_javascript)
      /\ \A i \in 1 .. Len(kill) + Len(load_javascript) :
           p[i] = IF i <= Len(kill) THEN kill[i] ELSE load_javascript[i - Len(kill)]
  BY <1>1, <1>2, ConcatProperties
<1> HIDE DEF p, r
<1>5. /\ p[1] = "try_lock" /\ p[2] = "return" /\ p[3] = "lock" /\ p[4] = "free_old"
      /\ p[5] = "claim" /\ p[6] = "restore" /\ p[7] = "unlock" /\ p[8] = "return" /\ Len(p) = 8
  BY <1>1, <1>2, <1>4
<1>6. /\ s \in Seq(Steps) /\ Len(s) = Len(p) + Len(r)
      /\ \A i \in 1 .. Len(p) + Len(r) : s[i] = IF i <= Len(p) THEN p[i] ELSE r[i - Len(p)]
  <2>1. p \in Seq(Steps) /\ r \in Seq(Steps)
    BY <1>3, <1>4
  <2> QED
    BY <2>1, ConcatProperties
<1> HIDE DEF s
<1>7. /\ s[1] = "try_lock" /\ s[2] = "return" /\ s[3] = "lock" /\ s[4] = "free_old" /\ s[5] = "claim"
      /\ s[6] = "restore" /\ s[7] = "unlock" /\ s[8] = "return" /\ s[9] = "drop" /\ Len(s) = 9
  BY <1>3, <1>5, <1>6
<1>8. \A i \in 1 .. 9 : i = 1 \/ i = 2 \/ i = 3 \/ i = 4 \/ i = 5 \/ i = 6 \/ i = 7 \/ i = 8 \/ i = 9
  OBVIOUS
<1>9. Path(s)
  BY <1>7, <1>8 DEF Path, Follows
<1>10. Ended(s) /\ CleansUp(s) /\ ~Has(s, "free_all")
  BY <1>7, <1>8 DEF Ended, CleansUp, Has
<1>11. LoadsOnce(s)
  BY <1>7, <1>8 DEF LoadsOnce
<1>12. s # <<>> /\ Head(s) = "try_lock"
  BY <1>6, <1>7
<1>13. Plan(s)
  BY <1>6, <1>9, <1>10, <1>11 DEF Plan
<1> QED
  BY <1>10, <1>12, <1>13 DEF s, p, r

-----------------------------------------------------------------------------
(* Lemmas: a step of a thread *)

\* There are two threads.
LEMMA TwoThreads ==
  /\ "ticker" \in Threads /\ "console" \in Threads /\ "ticker" # "console"
  /\ \A t \in Threads : t = "ticker" \/ t = "console"
BY DEF Threads

\* Only what this thread has left to do changes.
LEMMA Continued ==
  ASSUME IInv, NEW t \in Threads, NEW x, Plan(x), Continue(t, x)
  PROVE  /\ todo' \in [Threads -> Seq(Steps)] /\ Plans'
         /\ todo'[t] = x /\ \A u \in Threads \ {t} : todo'[u] = todo[u]
<1>1. /\ todo' \in [Threads -> Seq(Steps)]
      /\ todo'[t] = x /\ \A u \in Threads \ {t} : todo'[u] = todo[u]
  BY DEF IInv, TypeOK, Continue, Plan
<1>2. \A u \in Threads : Plan(todo'[u])
  BY <1>1 DEF IInv, Plans
<1> QED
  BY <1>1, <1>2 DEF Plans

\* The next step of a thread is done.
LEMMA Advanced ==
  ASSUME IInv, NEW t \in Threads, todo[t] # <<>>, Continue(t, Rest(t))
  PROVE  /\ todo' \in [Threads -> Seq(Steps)] /\ Plans'
         /\ \A u \in Threads \ {t} : todo'[u] = todo[u]
         /\ todo'[t] # <<>> => Follows(Head(todo[t]), Head(todo'[t]))
         /\ todo'[t] = <<>> => Head(todo[t]) \in {"return", "drop"}
         /\ \A u \in Threads : \A step :
              /\ Has(todo'[u], step) => Has(todo[u], step)
              /\ Has(todo[u], step) /\ (u = t => Head(todo[t]) # step) => Has(todo'[u], step)
         /\ \A u \in Threads : (u = t => Head(todo[t]) # "unlock") /\ Unlocks(todo[u]) => Unlocks(todo'[u])
         /\ \A u \in Threads : CleansWithLock(todo[u]) => CleansWithLock(todo'[u])
<1>1. Plan(todo[t])
  BY DEF IInv, Plans
<1>2. /\ Plan(Tail(todo[t]))
      /\ Tail(todo[t]) = <<>> => Head(todo[t]) \in {"return", "drop"}
      /\ Tail(todo[t]) # <<>> => Follows(Head(todo[t]), Head(Tail(todo[t])))
  BY <1>1, PlanTail
<1>3. /\ todo' \in [Threads -> Seq(Steps)] /\ Plans'
      /\ todo'[t] = Tail(todo[t]) /\ \A u \in Threads \ {t} : todo'[u] = todo[u]
  BY <1>2, Continued DEF Rest
<1>4. /\ \A step : Has(Tail(todo[t]), step) => Has(todo[t], step)
      /\ Unlocks(todo[t]) /\ Head(todo[t]) # "unlock" => Unlocks(Tail(todo[t]))
      /\ CleansWithLock(todo[t]) => CleansWithLock(Tail(todo[t]))
      /\ \A step : Has(todo[t], step) /\ Head(todo[t]) # step => Has(Tail(todo[t]), step)
  BY <1>1, TailLeft
<1>5. \A u \in Threads : u = t \/ u \in Threads \ {t}
  OBVIOUS
<1>6. \A u \in Threads : \A step :
        /\ Has(todo'[u], step) => Has(todo[u], step)
        /\ Has(todo[u], step) /\ (u = t => Head(todo[t]) # step) => Has(todo'[u], step)
  BY <1>3, <1>4, <1>5
<1>7. \A u \in Threads : (u = t => Head(todo[t]) # "unlock") /\ Unlocks(todo[u]) => Unlocks(todo'[u])
  BY <1>3, <1>4, <1>5
<1>8. \A u \in Threads : CleansWithLock(todo[u]) => CleansWithLock(todo'[u])
  BY <1>3, <1>4, <1>5
<1> QED
  BY <1>2, <1>3, <1>6, <1>7, <1>8

\* Unless a script was killed without the lock, only the thread that is inside the
\* compartment has pointers in hand.
LEMMA Alone ==
  ASSUME IInv, forced = 0, NEW t \in Threads, Inside(t)
  PROVE  /\ \A u \in Threads \ {t} : ~Inside(u) /\ old[u] = None /\ new[u] = None
         /\ Head(todo[t]) # "call" => running = None
<1>1. \A u \in Threads \ {t} : ~Inside(u)
  BY TwoThreads DEF IInv, Peaceful, Exclusive
<1>2. ASSUME NEW u \in Threads \ {t} PROVE old[u] = None /\ new[u] = None
  BY <1>1, <1>2 DEF IInv, InHand, InHandOf, At, Inside
<1>3. ASSUME Head(todo[t]) # "call" PROVE running = None
  BY <1>1, <1>3, TwoThreads DEF IInv, InHand, At, Inside
<1> QED
  BY <1>1, <1>2, <1>3

\* A thread returns to its caller.
LEMMA ReturnStep ==
  ASSUME IInv, NEW t \in Threads, Return(t)
  PROVE  IInv'
<1> USE DEF At
<1>1. /\ todo[t] # <<>> /\ Head(todo[t]) = "return" /\ Continue(t, Rest(t))
      /\ UNCHANGED <<old, new, running, lock, vm, claimed_bytecode, code, claims, bytecode, failures,
           forced, doubleFault>>
  BY DEF Return, memory, bounds
<1>2. /\ todo' \in [Threads -> Seq(Steps)] /\ Plans'
      /\ \A u \in Threads \ {t} : todo'[u] = todo[u]
      /\ todo'[t] # <<>> => Head(todo'[t]) \in {"lock", "drop"}
      /\ \A u \in Threads : \A step :
           /\ Has(todo'[u], step) => Has(todo[u], step)
           /\ Has(todo[u], step) /\ (u = t => step # "return") => Has(todo'[u], step)
      /\ \A u \in Threads : Unlocks(todo[u]) => Unlocks(todo'[u])
      /\ \A u \in Threads : CleansWithLock(todo[u]) => CleansWithLock(todo'[u])
  BY <1>1, Advanced DEF Follows
<1>3. TypeOK'
  BY <1>1, <1>2 DEF IInv, TypeOK
<1>4. InHand'
  <2>1. ASSUME NEW u \in Threads PROVE InHandOf(u)'
    BY <1>1, <1>2 DEF IInv, TypeOK, InHand, InHandOf
  <2> QED
    BY <1>1, <1>2, <2>1, TwoThreads DEF IInv, InHand
<1>5. Loading'
  BY <1>1, <1>2, TwoThreads DEF IInv, Loading
<1>6. Owed' /\ Unforced'
  BY <1>1, <1>2, TwoThreads DEF IInv, Owed, Unforced
<1>7. ASSUME forced' = 0 PROVE Exclusive'
  BY <1>1, <1>2, <1>7, TwoThreads DEF IInv, Peaceful, Exclusive, Inside
<1>8. ASSUME forced' = 0 PROVE Sound'
  <2>1. ASSUME NEW u \in Threads PROVE SoundOf(u)'
    BY <1>1, <1>2, <1>8 DEF IInv, TypeOK, Peaceful, Sound, SoundOf, There
  <2> QED
    BY <1>1, <1>2, <1>8, <2>1 DEF IInv, Peaceful, Sound, There
<1>9. ASSUME forced' = 0 PROVE Claimed' /\ Forgotten'
  <2>1. Claimed'
    BY <1>1, <1>2, <1>9, TwoThreads DEF IInv, Peaceful, Claimed
  <2>2. Forgotten'
    BY <1>1, <1>2, <1>9, TwoThreads DEF IInv, Peaceful, Forgotten
  <2> QED
    BY <2>1, <2>2
<1> QED
  BY <1>2, <1>3, <1>4, <1>5, <1>6, <1>7, <1>8, <1>9 DEF IInv, Peaceful

\* The lock is taken.
LEMMA LockStep ==
  ASSUME IInv, NEW t \in Threads, Lock(t)
  PROVE  IInv'
<1> USE DEF At
<1>1. /\ todo[t] # <<>> /\ Head(todo[t]) = "lock" /\ Continue(t, Rest(t))
      /\ ~lock /\ lock' = TRUE
      /\ UNCHANGED <<old, new, running, vm, claimed_bytecode, code, claims, bytecode, failures,
           forced, doubleFault>>
  BY DEF Lock, memory, bounds
<1>2. /\ todo' \in [Threads -> Seq(Steps)] /\ Plans'
      /\ \A u \in Threads \ {t} : todo'[u] = todo[u]
      /\ todo'[t] # <<>> /\ Head(todo'[t]) \in {"check", "free_old"}
      /\ \A u \in Threads : \A step :
           /\ Has(todo'[u], step) => Has(todo[u], step)
           /\ Has(todo[u], step) /\ (u = t => step # "lock") => Has(todo'[u], step)
      /\ \A u \in Threads : Unlocks(todo[u]) => Unlocks(todo'[u])
      /\ \A u \in Threads : CleansWithLock(todo[u]) => CleansWithLock(todo'[u])
  BY <1>1, Advanced DEF Follows
<1>a. Unlocks(todo'[t])
  BY <1>1, LockLeft DEF IInv, TypeOK, Plans, Continue, Rest
<1>3. TypeOK'
  BY <1>1, <1>2 DEF IInv, TypeOK
<1>4. InHand'
  <2>1. ASSUME NEW u \in Threads PROVE InHandOf(u)'
    BY <1>1, <1>2 DEF IInv, TypeOK, InHand, InHandOf
  <2> QED
    BY <1>1, <1>2, <2>1, TwoThreads DEF IInv, InHand
<1>5. Loading'
  BY <1>1, <1>2, TwoThreads DEF IInv, Loading
<1>6. Owed' /\ Unforced'
  BY <1>1, <1>2, <1>a, TwoThreads DEF IInv, Owed, Unforced
<1>7. ASSUME forced' = 0 PROVE Exclusive'
  BY <1>1, <1>2, <1>7, TwoThreads DEF IInv, Peaceful, Exclusive, Inside
<1>8. ASSUME forced' = 0 PROVE Sound'
  <2>1. ASSUME NEW u \in Threads PROVE SoundOf(u)'
    BY <1>1, <1>2, <1>8 DEF IInv, TypeOK, Peaceful, Sound, SoundOf, There
  <2> QED
    BY <1>1, <1>2, <1>8, <2>1 DEF IInv, Peaceful, Sound, There
<1>9. ASSUME forced' = 0 PROVE Claimed' /\ Forgotten'
  <2>1. Claimed'
    BY <1>1, <1>2, <1>9, TwoThreads DEF IInv, Peaceful, Claimed
  <2>2. Forgotten'
    BY <1>1, <1>2, <1>9, TwoThreads DEF IInv, Peaceful, Forgotten
  <2> QED
    BY <2>1, <2>2
<1> QED
  BY <1>2, <1>3, <1>4, <1>5, <1>6, <1>7, <1>8, <1>9 DEF IInv, Peaceful

\* The lock is given back.
LEMMA UnlockStep ==
  ASSUME IInv, NEW t \in Threads, Unlock(t)
  PROVE  IInv'
<1> USE DEF At
<1>1. /\ todo[t] # <<>> /\ Head(todo[t]) = "unlock" /\ Continue(t, Rest(t))
      /\ lock' = FALSE
      /\ UNCHANGED <<old, new, running, vm, claimed_bytecode, code, claims, bytecode, failures,
           forced, doubleFault>>
  BY DEF Unlock, memory, bounds
<1>2. /\ todo' \in [Threads -> Seq(Steps)] /\ Plans'
      /\ \A u \in Threads \ {t} : todo'[u] = todo[u]
      /\ todo'[t] # <<>> /\ Head(todo'[t]) = "return"
      /\ \A u \in Threads : \A step :
           /\ Has(todo'[u], step) => Has(todo[u], step)
           /\ Has(todo[u], step) /\ (u = t => step # "unlock") => Has(todo'[u], step)
      /\ \A u \in Threads : CleansWithLock(todo[u]) => CleansWithLock(todo'[u])
  BY <1>1, Advanced DEF Follows
<1>3. TypeOK'
  BY <1>1, <1>2 DEF IInv, TypeOK
<1>4. InHand'
  <2>1. ASSUME NEW u \in Threads PROVE InHandOf(u)'
    BY <1>1, <1>2 DEF IInv, TypeOK, InHand, InHandOf
  <2> QED
    BY <1>1, <1>2, <2>1, TwoThreads DEF IInv, InHand
<1>5. Loading'
  BY <1>1, <1>2, TwoThreads DEF IInv, Loading
<1>6. Owed' /\ Unforced'
  BY <1>1, <1>2, TwoThreads DEF IInv, Owed, Unforced
<1>7. ASSUME forced' = 0 PROVE Exclusive'
  BY <1>1, <1>2, <1>7, TwoThreads DEF IInv, Peaceful, Exclusive, Inside
<1>8. ASSUME forced' = 0 PROVE Sound'
  <2>1. ASSUME NEW u \in Threads PROVE SoundOf(u)'
    BY <1>1, <1>2, <1>8 DEF IInv, TypeOK, Peaceful, Sound, SoundOf, There
  <2> QED
    BY <1>1, <1>2, <1>8, <2>1 DEF IInv, Peaceful, Sound, There
<1>9. ASSUME forced' = 0 PROVE Claimed' /\ Forgotten'
  <2>1. Claimed'
    BY <1>1, <1>2, <1>9, TwoThreads DEF IInv, Peaceful, Claimed
  <2>2. Forgotten'
    BY <1>1, <1>2, <1>9, TwoThreads DEF IInv, Peaceful, Forgotten
  <2> QED
    BY <2>1, <2>2
<1> QED
  BY <1>2, <1>3, <1>4, <1>5, <1>6, <1>7, <1>8, <1>9 DEF IInv, Peaceful

\* vm.reset loads the old pointer.
LEMMA LoadOldStep ==
  ASSUME IInv, NEW t \in Threads, LoadOld(t)
  PROVE  IInv'
<1> USE DEF At
<1>1. /\ todo[t] # <<>> /\ Head(todo[t]) = "load_old" /\ Continue(t, Rest(t))
      /\ old' = [old EXCEPT ![t] = vm]
      /\ UNCHANGED <<new, running, lock, vm, claimed_bytecode, code, claims, bytecode, failures,
           forced, doubleFault>>
  BY DEF LoadOld, memory, bounds
<1>2. /\ todo' \in [Threads -> Seq(Steps)] /\ Plans'
      /\ \A u \in Threads \ {t} : todo'[u] = todo[u]
      /\ todo'[t] # <<>> /\ Head(todo'[t]) = "store_new"
      /\ \A u \in Threads : \A step :
           /\ Has(todo'[u], step) => Has(todo[u], step)
           /\ Has(todo[u], step) /\ (u = t => step # "load_old") => Has(todo'[u], step)
      /\ \A u \in Threads : Unlocks(todo[u]) => Unlocks(todo'[u])
      /\ \A u \in Threads : CleansWithLock(todo[u]) => CleansWithLock(todo'[u])
  BY <1>1, Advanced DEF Follows
<1>3. TypeOK'
  BY <1>1, <1>2 DEF IInv, TypeOK
<1>4. InHand'
  <2>1. ASSUME NEW u \in Threads PROVE InHandOf(u)'
    BY <1>1, <1>2 DEF IInv, TypeOK, InHand, InHandOf
  <2> QED
    BY <1>1, <1>2, <2>1, TwoThreads DEF IInv, InHand
<1>5. Loading'
  BY <1>1, <1>2, TwoThreads DEF IInv, Loading
<1>6. Owed' /\ Unforced'
  BY <1>1, <1>2, TwoThreads DEF IInv, Owed, Unforced
<1>7. ASSUME forced' = 0 PROVE Exclusive'
  BY <1>1, <1>2, <1>7, TwoThreads DEF IInv, Peaceful, Exclusive, Inside
<1>8. ASSUME forced' = 0 PROVE Sound'
  <2>1. ASSUME NEW u \in Threads PROVE SoundOf(u)'
    BY <1>1, <1>2, <1>8 DEF IInv, TypeOK, Peaceful, Sound, SoundOf, There
  <2> QED
    BY <1>1, <1>2, <1>8, <2>1 DEF IInv, Peaceful, Sound, There
<1>9. ASSUME forced' = 0 PROVE Claimed' /\ Forgotten'
  <2>1. Claimed'
    BY <1>1, <1>2, <1>9, TwoThreads DEF IInv, Peaceful, Claimed
  <2>2. Forgotten'
    BY <1>1, <1>2, <1>9, TwoThreads DEF IInv, Peaceful, Forgotten
  <2> QED
    BY <2>1, <2>2
<1> QED
  BY <1>2, <1>3, <1>4, <1>5, <1>6, <1>7, <1>8, <1>9 DEF IInv, Peaceful

\* vm.reset stores the new one.
LEMMA StoreNewStep ==
  ASSUME IInv, NEW t \in Threads, StoreNew(t)
  PROVE  IInv'
<1> USE DEF At
<1>1. /\ todo[t] # <<>> /\ Head(todo[t]) = "store_new" /\ Continue(t, Rest(t))
      /\ vm' = new[t] /\ new' = [new EXCEPT ![t] = None]
      /\ UNCHANGED <<old, running, lock, claimed_bytecode, code, claims, bytecode, failures, forced,
           doubleFault>>
  BY DEF StoreNew, memory, bounds
<1>2. /\ todo' \in [Threads -> Seq(Steps)] /\ Plans'
      /\ \A u \in Threads \ {t} : todo'[u] = todo[u]
      /\ todo'[t] # <<>> /\ Head(todo'[t]) \in {"delete", "delete_in_handler"}
      /\ \A u \in Threads : \A step :
           /\ Has(todo'[u], step) => Has(todo[u], step)
           /\ Has(todo[u], step) /\ (u = t => step # "store_new") => Has(todo'[u], step)
      /\ \A u \in Threads : Unlocks(todo[u]) => Unlocks(todo'[u])
      /\ \A u \in Threads : CleansWithLock(todo[u]) => CleansWithLock(todo'[u])
  BY <1>1, Advanced DEF Follows
<1>a. ASSUME forced' = 0
      PROVE  running = None /\ \A u \in Threads \ {t} : ~Inside(u) /\ old[u] = None /\ new[u] = None
  BY <1>1, <1>a, Alone DEF Inside
<1>3. TypeOK'
  BY <1>1, <1>2 DEF IInv, TypeOK, Pointers
<1>4. InHand'
  <2>1. ASSUME NEW u \in Threads PROVE InHandOf(u)'
    BY <1>1, <1>2 DEF IInv, TypeOK, InHand, InHandOf
  <2> QED
    BY <1>1, <1>2, <2>1, TwoThreads DEF IInv, InHand
<1>5. Loading'
  BY <1>1, <1>2, TwoThreads DEF IInv, Loading
<1>6. Owed' /\ Unforced'
  BY <1>1, <1>2, TwoThreads DEF IInv, Owed, Unforced
<1>7. ASSUME forced' = 0 PROVE Exclusive'
  BY <1>1, <1>2, <1>7, TwoThreads DEF IInv, Peaceful, Exclusive, Inside
<1>8. ASSUME forced' = 0 PROVE Sound'
  <2>1. ASSUME NEW u \in Threads PROVE SoundOf(u)'
    <3>1. CASE u = t
      BY <1>1, <1>2, <1>8, <3>1 DEF IInv, TypeOK, Peaceful, Sound, SoundOf, There, InHand, InHandOf
    <3>2. CASE u # t
      BY <1>1, <1>2, <1>8, <1>a, <3>2 DEF IInv, TypeOK, SoundOf, There, Inside
    <3> QED
      BY <3>1, <3>2
  <2> QED
    BY <1>1, <1>2, <1>8, <2>1 DEF IInv, TypeOK, Peaceful, Sound, SoundOf, There
<1>9. ASSUME forced' = 0 PROVE Claimed' /\ Forgotten'
  <2>1. Claimed'
    BY <1>1, <1>2, <1>9, TwoThreads DEF IInv, Peaceful, Claimed
  <2>2. Forgotten'
    BY <1>1, <1>2, <1>9, TwoThreads DEF IInv, Peaceful, Forgotten
  <2> QED
    BY <2>1, <2>2
<1> QED
  BY <1>2, <1>3, <1>4, <1>5, <1>6, <1>7, <1>8, <1>9 DEF IInv, Peaceful

\* heap_free_all.
LEMMA FreeAllStep ==
  ASSUME IInv, NEW t \in Threads, FreeAll(t)
  PROVE  IInv'
<1> USE DEF At
<1>1. /\ todo[t] # <<>> /\ Head(todo[t]) = "free_all" /\ Continue(t, Rest(t))
      /\ claimed_bytecode' = None /\ code' = [v \in Vms |-> None] /\ claims' = {}
      /\ UNCHANGED <<old, new, running, lock, vm, bytecode, failures, forced, doubleFault>>
  BY DEF FreeAll, memory, bounds
<1>2. /\ todo' \in [Threads -> Seq(Steps)] /\ Plans'
      /\ \A u \in Threads \ {t} : todo'[u] = todo[u]
      /\ todo'[t] # <<>> /\ Head(todo'[t]) \in {"unlock", "return"}
      /\ \A u \in Threads : \A step :
           /\ Has(todo'[u], step) => Has(todo[u], step)
           /\ Has(todo[u], step) /\ (u = t => step # "free_all") => Has(todo'[u], step)
      /\ \A u \in Threads : Unlocks(todo[u]) => Unlocks(todo'[u])
      /\ \A u \in Threads : CleansWithLock(todo[u]) => CleansWithLock(todo'[u])
  BY <1>1, Advanced DEF Follows
<1>a. ASSUME forced' = 0
      PROVE  running = None /\ \A u \in Threads \ {t} : ~Inside(u) /\ old[u] = None /\ new[u] = None
  BY <1>1, <1>a, Alone DEF Inside
<1>b. ASSUME forced' = 0 PROVE vm = None
  <2>1. Has(todo[t], "free_all")
    BY <1>1, PlanTail DEF IInv, Plans, Has
  <2> QED
    BY <1>1, <1>b, <2>1 DEF IInv, Peaceful, Sound, SoundOf
<1>3. TypeOK'
  BY <1>1, <1>2 DEF IInv, TypeOK
<1>4. InHand'
  <2>1. ASSUME NEW u \in Threads PROVE InHandOf(u)'
    BY <1>1, <1>2 DEF IInv, TypeOK, InHand, InHandOf
  <2> QED
    BY <1>1, <1>2, <2>1, TwoThreads DEF IInv, InHand
<1>5. Loading'
  BY <1>1, <1>2, TwoThreads DEF IInv, Loading
<1>6. Owed' /\ Unforced'
  BY <1>1, <1>2, TwoThreads DEF IInv, Owed, Unforced
<1>7. ASSUME forced' = 0 PROVE Exclusive'
  BY <1>1, <1>2, <1>7, TwoThreads DEF IInv, Peaceful, Exclusive, Inside
<1>8. ASSUME forced' = 0 PROVE Sound'
  <2>1. ASSUME NEW u \in Threads PROVE SoundOf(u)'
    BY <1>1, <1>2, <1>8, <1>a, <1>b DEF IInv, TypeOK, InHand, InHandOf, SoundOf, There
  <2> QED
    BY <1>1, <1>2, <1>8, <1>a, <1>b, <2>1 DEF Sound, There
<1>9. ASSUME forced' = 0 PROVE Claimed' /\ Forgotten'
  <2>1. Claimed'
    BY <1>1, <1>2, <1>9, <1>a, TwoThreads DEF Claimed, Inside
  <2>2. Forgotten'
    BY <1>1, <1>2, <1>9, TwoThreads DEF IInv, Peaceful, Forgotten
  <2> QED
    BY <2>1, <2>2
<1> QED
  BY <1>2, <1>3, <1>4, <1>5, <1>6, <1>7, <1>8, <1>9 DEF IInv, Peaceful

\* The claim of the old bytecode is dropped.
LEMMA FreeOldStep ==
  ASSUME IInv, FreeOld
  PROVE  IInv'
<1> USE DEF At
<1>1. /\ todo["console"] # <<>> /\ Head(todo["console"]) = "free_old" /\ Continue("console", Rest("console"))
      /\ claims' = claims \ {claimed_bytecode}
      /\ UNCHANGED <<old, new, running, lock, vm, claimed_bytecode, code, bytecode, failures, forced,
           doubleFault>>
  BY DEF FreeOld, memory, bounds
<1>2. /\ todo' \in [Threads -> Seq(Steps)] /\ Plans'
      /\ \A u \in Threads \ {"console"} : todo'[u] = todo[u]
      /\ todo'["console"] # <<>> /\ Head(todo'["console"]) = "claim"
      /\ \A u \in Threads : \A step :
           /\ Has(todo'[u], step) => Has(todo[u], step)
           /\ Has(todo[u], step) /\ (u = "console" => step # "free_old") => Has(todo'[u], step)
      /\ \A u \in Threads : Unlocks(todo[u]) => Unlocks(todo'[u])
      /\ \A u \in Threads : CleansWithLock(todo[u]) => CleansWithLock(todo'[u])
  BY <1>1, Advanced, TwoThreads DEF Follows
<1>a. ASSUME forced' = 0 PROVE claimed_bytecode = None
  <2>1. Plan(todo["console"])
    BY TwoThreads DEF IInv, Plans
  <2>2. Has(todo["console"], "free_old") /\ ~Has(todo["console"], "free_all")
    BY <1>1, <2>1, PlanTail, NoCleanup DEF Has
  <2> QED
    BY <1>1, <1>a, <2>2 DEF IInv, Peaceful, Forgotten
<1>3. TypeOK'
  BY <1>1, <1>2 DEF IInv, TypeOK
<1>4. InHand'
  <2>1. ASSUME NEW u \in Threads PROVE InHandOf(u)'
    BY <1>1, <1>2 DEF IInv, TypeOK, InHand, InHandOf
  <2> QED
    BY <1>1, <1>2, <2>1, TwoThreads DEF IInv, InHand
<1>5. Loading'
  BY <1>1, <1>2, TwoThreads DEF IInv, Loading
<1>6. Owed' /\ Unforced'
  BY <1>1, <1>2, TwoThreads DEF IInv, Owed, Unforced
<1>7. ASSUME forced' = 0 PROVE Exclusive'
  BY <1>1, <1>2, <1>7, TwoThreads DEF IInv, Peaceful, Exclusive, Inside
<1>8. ASSUME forced' = 0 PROVE Sound'
  <2>1. ASSUME NEW u \in Threads PROVE SoundOf(u)'
    BY <1>1, <1>2, <1>8 DEF IInv, TypeOK, Peaceful, Sound, SoundOf, There
  <2> QED
    BY <1>1, <1>2, <1>8, <2>1 DEF IInv, Peaceful, Sound, There
<1>9. ASSUME forced' = 0 PROVE Claimed' /\ Forgotten'
  <2>1. Claimed'
    BY <1>1, <1>2, <1>9, <1>a, TwoThreads DEF IInv, Peaceful, Claimed
  <2>2. Forgotten'
    BY <1>1, <1>2, <1>9, TwoThreads DEF IInv, Peaceful, Forgotten
  <2> QED
    BY <2>1, <2>2
<1> QED
  BY <1>2, <1>3, <1>4, <1>5, <1>6, <1>7, <1>8, <1>9 DEF IInv, Peaceful

\* The console destroys its vector.
LEMMA DropStep ==
  ASSUME IInv, Drop
  PROVE  IInv'
<1> USE DEF At
<1>1. /\ todo["console"] # <<>> /\ Head(todo["console"]) = "drop" /\ Continue("console", Rest("console"))
      /\ bytecode' = None
      /\ UNCHANGED <<old, new, running, lock, vm, claimed_bytecode, code, claims, failures, forced,
           doubleFault>>
  BY DEF Drop, memory, bounds
<1>2. /\ todo' \in [Threads -> Seq(Steps)] /\ Plans'
      /\ \A u \in Threads \ {"console"} : todo'[u] = todo[u]
      /\ todo'["console"] = <<>>
      /\ \A u \in Threads : \A step :
           /\ Has(todo'[u], step) => Has(todo[u], step)
           /\ Has(todo[u], step) /\ (u = "console" => step # "drop") => Has(todo'[u], step)
      /\ \A u \in Threads : Unlocks(todo[u]) => Unlocks(todo'[u])
      /\ \A u \in Threads : CleansWithLock(todo[u]) => CleansWithLock(todo'[u])
  BY <1>1, Advanced, TwoThreads DEF Follows
<1>a. \A step : ~Has(todo'["console"], step)
  BY <1>2 DEF Has
<1>3. TypeOK'
  BY <1>1, <1>2 DEF IInv, TypeOK
<1>4. InHand'
  <2>1. ASSUME NEW u \in Threads PROVE InHandOf(u)'
    BY <1>1, <1>2 DEF IInv, TypeOK, InHand, InHandOf
  <2> QED
    BY <1>1, <1>2, <2>1, TwoThreads DEF IInv, InHand
<1>5. Loading'
  BY <1>a DEF Loading
<1>6. Owed' /\ Unforced'
  BY <1>1, <1>2, TwoThreads DEF IInv, Owed, Unforced
<1>7. ASSUME forced' = 0 PROVE Exclusive'
  BY <1>1, <1>2, <1>7, TwoThreads DEF IInv, Peaceful, Exclusive, Inside
<1>8. ASSUME forced' = 0 PROVE Sound'
  <2>1. ASSUME NEW u \in Threads PROVE SoundOf(u)'
    BY <1>1, <1>2, <1>8 DEF IInv, TypeOK, Peaceful, Sound, SoundOf, There
  <2> QED
    BY <1>1, <1>2, <1>8, <2>1 DEF IInv, Peaceful, Sound, There
<1>9. ASSUME forced' = 0 PROVE Claimed' /\ Forgotten'
  <2>1. Claimed'
    BY <1>1, <1>2, <1>9, TwoThreads DEF IInv, Peaceful, Claimed
  <2>2. Forgotten'
    BY <1>1, <1>2, <1>9, TwoThreads DEF IInv, Peaceful, Forgotten
  <2> QED
    BY <2>1, <2>2
<1> QED
  BY <1>2, <1>3, <1>4, <1>5, <1>6, <1>7, <1>8, <1>9 DEF IInv, Peaceful

\* The error handler is to run, then the call of the compartment ends.
LEMMA Faulted ==
  ASSUME IInv, NEW t \in Threads, Inside(t), Fault(t)
  PROVE  /\ todo' \in [Threads -> Seq(Steps)] /\ Plans'
         /\ \A u \in Threads \ {t} : todo'[u] = todo[u]
         /\ todo'[t] # <<>> /\ Head(todo'[t]) = "load_old"
         /\ ~Has(todo'[t], "free_all") /\ Unlocks(todo'[t]) /\ CleansWithLock(todo'[t])
         /\ \A step \in {"lock", "free_old", "claim", "restore"} : Has(todo'[t], step) => Has(todo[t], step)
<1> DEFINE r == Returned(t)
<1>1. Plan(todo[t])
  BY DEF IInv, Plans
<1>2. /\ Plan(handler \o r) /\ handler \o r # <<>> /\ Head(handler \o r) = "load_old"
      /\ ~Has(handler \o r, "free_all") /\ Unlocks(handler \o r)
      /\ \A step \in {"lock", "free_old", "claim", "restore"} :
           Has(handler \o r, step) => Has(todo[t], step)
  BY <1>1, FaultLeft
<1>3. Continue(t, handler \o r)
  BY DEF Fault
<1>4. /\ todo' \in [Threads -> Seq(Steps)] /\ Plans'
      /\ todo'[t] = handler \o r /\ \A u \in Threads \ {t} : todo'[u] = todo[u]
  BY <1>2, <1>3, Continued
<1>5. CleansWithLock(todo'[t])
  <2>1. Len(todo'[t]) \in Nat
    BY <1>4
  <2> QED
    BY <1>2, <1>4, <2>1 DEF CleansWithLock, Has
<1> QED
  BY <1>2, <1>4, <1>5

\* A fault, wherever it occurs.
LEMMA FaultStep ==
  ASSUME IInv, NEW t \in Threads, Inside(t), Fault(t),
         Has(todo[t], "free_all") => forced > 0,
         old' = [old EXCEPT ![t] = None], new' = [new EXCEPT ![t] = None],
         running' = IF t = "ticker" THEN None ELSE running,
         failures' \in Nat, failures' >= failures,
         doubleFault' = doubleFault,
         UNCHANGED <<lock, vm, claimed_bytecode, code, claims, bytecode, forced>>
  PROVE  IInv'
<1> USE DEF At
<1>2. /\ todo' \in [Threads -> Seq(Steps)] /\ Plans'
      /\ \A u \in Threads \ {t} : todo'[u] = todo[u]
      /\ todo'[t] # <<>> /\ Head(todo'[t]) = "load_old"
      /\ ~Has(todo'[t], "free_all") /\ Unlocks(todo'[t]) /\ CleansWithLock(todo'[t])
      /\ \A step \in {"lock", "free_old", "claim", "restore"} : Has(todo'[t], step) => Has(todo[t], step)
  BY Faulted
<1>3. TypeOK'
  BY <1>2 DEF IInv, TypeOK, Pointers
<1>4. InHand'
  <2>1. ASSUME NEW u \in Threads PROVE InHandOf(u)'
    BY <1>2 DEF IInv, TypeOK, InHand, InHandOf
  <2> QED
    BY <1>2, <2>1, TwoThreads DEF IInv, InHand
<1>5. Loading'
  BY <1>2, TwoThreads DEF IInv, Loading
<1>6. Owed' /\ Unforced'
  BY <1>2, TwoThreads DEF IInv, Owed, Unforced
<1>7. ASSUME forced' = 0 PROVE Exclusive'
  BY <1>2, <1>7, TwoThreads DEF IInv, Peaceful, Exclusive, Inside
<1>8. ASSUME forced' = 0 PROVE Sound'
  <2>1. ASSUME NEW u \in Threads PROVE SoundOf(u)'
    BY <1>2, <1>8 DEF IInv, TypeOK, Peaceful, Sound, SoundOf, There
  <2> QED
    BY <1>2, <1>8, <2>1 DEF IInv, Peaceful, Sound, There
<1>9. ASSUME forced' = 0 PROVE Claimed' /\ Forgotten'
  <2>1. Claimed'
    <3>1. failures' = 0 => failures = 0
      BY DEF IInv, TypeOK
    <3>2. At("console", "restore")' => At("console", "restore")
      BY <1>2, TwoThreads
    <3> QED
      BY <3>1, <3>2, <1>9 DEF IInv, Peaceful, Claimed
  <2>2. Forgotten'
    BY <1>2, <1>9, TwoThreads DEF IInv, Peaceful, Forgotten, Inside
  <2> QED
    BY <2>1, <2>2
<1> QED
  BY <1>2, <1>3, <1>4, <1>5, <1>6, <1>7, <1>8, <1>9 DEF IInv, Peaceful

\* MVMDeleter, when there is nothing to free or it is still there.
LEMMA DeleteStep ==
  ASSUME IInv, NEW t \in Threads, At(t, "delete") \/ At(t, "delete_in_handler"),
         old[t] = None \/ code[old[t]] # None, Delete(t)
  PROVE  IInv'
<1> USE DEF At
<1>1. /\ todo[t] # <<>> /\ Head(todo[t]) \in {"delete", "delete_in_handler"} /\ Continue(t, Rest(t))
      /\ code' = [v \in Vms |-> IF v = old[t] THEN None ELSE code[v]]
      /\ old' = [old EXCEPT ![t] = None]
      /\ UNCHANGED <<new, running, lock, vm, claimed_bytecode, claims, bytecode, failures, forced,
           doubleFault>>
  BY DEF Delete
<1>2. /\ todo' \in [Threads -> Seq(Steps)] /\ Plans'
      /\ \A u \in Threads \ {t} : todo'[u] = todo[u]
      /\ todo'[t] # <<>> /\ Head(todo'[t]) \in {"resolve", "unlock", "free_all"}
      /\ Head(todo[t]) = "delete_in_handler" => Head(todo'[t]) = "unlock"
      /\ \A u \in Threads : \A step :
           /\ Has(todo'[u], step) => Has(todo[u], step)
           /\ Has(todo[u], step) /\ (u = t => step # Head(todo[t])) => Has(todo'[u], step)
      /\ \A u \in Threads : Unlocks(todo[u]) => Unlocks(todo'[u])
      /\ \A u \in Threads : CleansWithLock(todo[u]) => CleansWithLock(todo'[u])
  BY <1>1, Advanced DEF Follows
<1>a. ASSUME forced' = 0
      PROVE  running = None /\ \A u \in Threads \ {t} : ~Inside(u) /\ old[u] = None /\ new[u] = None
  BY <1>1, <1>a, Alone DEF Inside
<1>3. TypeOK'
  BY <1>1, <1>2 DEF IInv, TypeOK, Pointers
<1>4. InHand'
  <2>1. ASSUME NEW u \in Threads PROVE InHandOf(u)'
    BY <1>1, <1>2 DEF IInv, TypeOK, InHand, InHandOf
  <2> QED
    BY <1>1, <1>2, <2>1, TwoThreads DEF IInv, InHand
<1>5. Loading'
  BY <1>1, <1>2, TwoThreads DEF IInv, Loading
<1>6. Owed' /\ Unforced'
  BY <1>1, <1>2, TwoThreads DEF IInv, Owed, Unforced
<1>7. ASSUME forced' = 0 PROVE Exclusive'
  BY <1>1, <1>2, <1>7, TwoThreads DEF IInv, Peaceful, Exclusive, Inside
<1>8. ASSUME forced' = 0 PROVE Sound'
  <2>1. ASSUME NEW u \in Threads PROVE SoundOf(u)'
    <3>1. CASE u = t
      <4>1. old'[t] = None /\ new'[t] = None
        BY <1>1 DEF IInv, TypeOK, InHand, InHandOf
      <4>2. Has(todo'[t], "free_all") /\ Head(todo'[t]) = "free_all" => vm' = None
        BY <1>1, <1>2, <1>8 DEF IInv, Peaceful, Sound, SoundOf
      <4> QED
        BY <1>2, <3>1, <4>1, <4>2 DEF SoundOf, There
    <3>2. CASE u # t
      BY <1>1, <1>2, <1>8, <1>a, <3>2 DEF IInv, TypeOK, SoundOf, There, Inside
    <3> QED
      BY <3>1, <3>2
  <2> QED
    BY <1>1, <1>2, <1>8, <1>a, <2>1 DEF IInv, TypeOK, Pointers, Peaceful, Sound, SoundOf, There
<1>9. ASSUME forced' = 0 PROVE Claimed' /\ Forgotten'
  <2>1. Claimed'
    BY <1>1, <1>2, <1>9, TwoThreads DEF IInv, TypeOK, Peaceful, Claimed
  <2>2. Forgotten'
    BY <1>1, <1>2, <1>9, TwoThreads DEF IInv, Peaceful, Forgotten
  <2> QED
    BY <2>1, <2>2
<1> QED
  BY <1>2, <1>3, <1>4, <1>5, <1>6, <1>7, <1>8, <1>9 DEF IInv, Peaceful

\* MVMDeleter faults in vm.reset.
LEMMA DeleteFaultStep ==
  ASSUME IInv, NEW t \in Threads, At(t, "delete"), old[t] # None, code[old[t]] = None, Delete(t)
  PROVE  IInv'
<1> USE DEF At
<1>1. /\ todo[t] # <<>> /\ Head(todo[t]) = "delete" /\ Fault(t)
      /\ doubleFault' = (doubleFault \/ FALSE) /\ old' = [old EXCEPT ![t] = None]
      /\ UNCHANGED <<new, running, lock, vm, claimed_bytecode, code, claims, bytecode, failures, forced>>
  BY DEF Delete
<1>2. doubleFault' = doubleFault
  BY <1>1 DEF IInv, TypeOK
<1>3. new' = [new EXCEPT ![t] = None]
  BY <1>1 DEF IInv, TypeOK, InHand, InHandOf
<1>4. running' = IF t = "ticker" THEN None ELSE running
  BY <1>1 DEF IInv, InHand
<1>5. forced > 0
  <2>1. forced # 0
    BY DEF IInv, Peaceful, Sound, SoundOf, There
  <2> QED
    BY <2>1 DEF IInv, TypeOK
<1>6. failures' \in Nat /\ failures' >= failures
  BY <1>1 DEF IInv, TypeOK
<1>7. Inside(t)
  BY <1>1 DEF Inside
<1> QED
  BY <1>1, <1>2, <1>3, <1>4, <1>5, <1>6, <1>7, FaultStep

\* The error handler faults.
LEMMA DoubleFaultStep ==
  ASSUME IInv, NEW t \in Threads, At(t, "delete_in_handler"), old[t] # None, code[old[t]] = None, Delete(t)
  PROVE  IInv'
<1> USE DEF At
<1>1. /\ todo[t] # <<>> /\ Head(todo[t]) = "delete_in_handler" /\ Continue(t, Returned(t))
      /\ doubleFault' = (doubleFault \/ TRUE) /\ old' = [old EXCEPT ![t] = None]
      /\ UNCHANGED <<new, running, lock, vm, claimed_bytecode, code, claims, bytecode, failures, forced>>
  BY DEF Delete
<1>2. Inside(t) /\ Plan(todo[t])
  BY <1>1 DEF Inside, IInv, Plans
<1>3. /\ Plan(Returned(t)) /\ Returned(t) # <<>> /\ Head(Returned(t)) = "return" /\ ~Has(Returned(t), "free_all")
      /\ \A step : Has(Returned(t), step) => Has(todo[t], step)
  BY <1>2, FaultLeft
<1>4. /\ todo' \in [Threads -> Seq(Steps)] /\ Plans'
      /\ todo'[t] = Returned(t) /\ \A u \in Threads \ {t} : todo'[u] = todo[u]
  BY <1>1, <1>3, Continued
<1>5. forced' > 0
  <2>1. forced # 0
    BY DEF IInv, Peaceful, Sound, SoundOf, There
  <2> QED
    BY <1>1, <2>1 DEF IInv, TypeOK
<1>6. TypeOK'
  BY <1>1, <1>4 DEF IInv, TypeOK, Pointers
<1>7. InHand'
  <2>1. ASSUME NEW u \in Threads PROVE InHandOf(u)'
    BY <1>1, <1>3, <1>4 DEF IInv, TypeOK, InHand, InHandOf
  <2> QED
    BY <1>1, <1>3, <1>4, <2>1, TwoThreads DEF IInv, InHand
<1>8. Loading'
  BY <1>1, <1>3, <1>4, TwoThreads DEF IInv, Loading
<1>9. Owed' /\ Unforced'
  BY <1>1, <1>5 DEF Owed, Unforced
<1>10. Peaceful'
  BY <1>5, <1>6 DEF Peaceful, TypeOK
<1> QED
  BY <1>4, <1>6, <1>7, <1>8, <1>9, <1>10 DEF IInv

\* What mvm_restore reads.
Source(t) == IF t = "ticker" THEN Built ELSE bytecode

\* It is a script.
LEMMA SourceType ==
  ASSUME IInv, NEW t \in Threads, At(t, "restore")
  PROVE  Source(t) \in Sources /\ Source(t) # None
<1>1. Built \in Sources
  BY DEF Built, Sources
<1>2. CASE t = "console"
  <2>1. Plan(todo[t])
    BY DEF IInv, Plans
  <2>2. Has(todo["console"], "restore")
    BY <1>2, <2>1, PlanTail DEF At, Has
  <2> QED
    BY <1>2, <2>2 DEF IInv, TypeOK, Loading, Source
<1> QED
  BY <1>1, <1>2, TwoThreads, SandboxAssumption DEF Source

\* mvm_restore allocates a virtual machine that nothing points to.
LEMMA RestoreStep ==
  ASSUME IInv, NEW t \in Threads, At(t, "restore"), FreeVms # {},
         new' = [new EXCEPT ![t] = CHOOSE v \in FreeVms : TRUE],
         code' = [code EXCEPT ![new'[t]] = Source(t)],
         Continue(t, <<"restored">> \o reset \o Rest(t)),
         UNCHANGED <<old, running, lock, vm, claimed_bytecode, claims, bytecode, failures, forced, doubleFault>>
  PROVE  IInv'
<1> USE DEF At
<1> DEFINE v == new'[t]
<1>1. /\ v \in Vms /\ v # None /\ code[v] = None /\ v # vm /\ v # running
      /\ new' = [new EXCEPT ![t] = v]
      /\ \A u \in Threads : v # old[u] /\ v # new[u]
  <2>1. v \in FreeVms /\ new' = [new EXCEPT ![t] = v]
    BY DEF IInv, TypeOK
  <2> QED
    BY <2>1, SandboxAssumption DEF FreeVms
<1>a. /\ code' = [code EXCEPT ![v] = Source(t)] /\ Source(t) \in Sources /\ Source(t) # None
  BY SourceType
<1>b. /\ todo[t] # <<>> /\ Head(todo[t]) = "restore" /\ Plan(todo[t]) /\ new[t] = None /\ old[t] = None
  BY DEF IInv, Plans, InHand, InHandOf
<1> HIDE DEF v
<1>2. /\ todo' \in [Threads -> Seq(Steps)] /\ Plans'
      /\ \A u \in Threads \ {t} : todo'[u] = todo[u]
      /\ todo'[t] # <<>> /\ Head(todo'[t]) = "restored"
      /\ ~Has(todo'[t], "free_all") /\ CleansWithLock(todo'[t])
      /\ Unlocks(todo[t]) => Unlocks(todo'[t])
      /\ \A step \in {"lock", "free_old", "claim", "restore"} : Has(todo'[t], step) => Has(todo[t], step)
  <2> DEFINE r == Rest(t)
             s == <<"restored">> \o reset \o r
  <2>1. Plan(r) /\ r # <<>> /\ Head(r) \in {"resolve", "unlock"}
    BY <1>b, PlanTail DEF Rest, Follows
  <2>2. /\ ~Has(r, "free_all") /\ (Unlocks(todo[t]) => Unlocks(r))
        /\ \A step : Has(r, step) => Has(todo[t], step)
    BY <1>b, <2>1, TailLeft, NoCleanup DEF Rest
  <2> HIDE DEF r
  <2>3. /\ Plan(s) /\ s # <<>> /\ Head(s) = "restored" /\ ~Has(s, "free_all")
        /\ Unlocks(r) => Unlocks(s)
        /\ \A step \in {"lock", "free_old", "claim", "restore"} : Has(s, step) => Has(r, step)
    BY <2>1, <2>2, RestoredLeft
  <2>4. Continue(t, s)
    BY DEF r
  <2> HIDE DEF s
  <2>5. /\ todo' \in [Threads -> Seq(Steps)] /\ Plans'
        /\ todo'[t] = s /\ \A u \in Threads \ {t} : todo'[u] = todo[u]
    BY <2>3, <2>4, Continued
  <2>6. CleansWithLock(todo'[t])
    <3>1. Len(todo'[t]) \in Nat
      BY <2>5
    <3> QED
      BY <2>3, <2>5, <3>1 DEF CleansWithLock, Has
  <2> QED
    BY <2>2, <2>3, <2>5, <2>6
<1>3. TypeOK'
  <2>1. code' \in [Vms -> Sources \cup {None}]
    BY <1>1, <1>a DEF IInv, TypeOK
  <2>2. new' \in [Threads -> Pointers]
    BY <1>1 DEF IInv, TypeOK, Pointers
  <2> QED
    BY <1>2, <2>1, <2>2 DEF IInv, TypeOK
<1>4. InHand'
  <2>1. ASSUME NEW u \in Threads PROVE InHandOf(u)'
    BY <1>1, <1>2, <1>b DEF IInv, TypeOK, InHand, InHandOf
  <2> QED
    BY <1>2, <1>b, <2>1, TwoThreads DEF IInv, InHand
<1>5. Loading'
  BY <1>2, TwoThreads DEF IInv, Loading
<1>6. Owed' /\ Unforced'
  BY <1>2, TwoThreads DEF IInv, Owed, Unforced
<1>7. ASSUME forced' = 0 PROVE Exclusive'
  BY <1>2, <1>7, <1>b, TwoThreads DEF IInv, Peaceful, Exclusive, Inside
<1>8. ASSUME forced' = 0 PROVE Sound'
  <2>1. ASSUME NEW u \in Threads PROVE SoundOf(u)'
    <3>1. CASE u = t
      BY <1>1, <1>2, <1>8, <1>a, <1>b, <3>1 DEF IInv, TypeOK, SoundOf, There
    <3>2. CASE u # t
      BY <1>1, <1>2, <1>8, <1>a, <3>2 DEF IInv, TypeOK, Pointers, Peaceful, Sound, SoundOf, There
    <3> QED
      BY <3>1, <3>2
  <2> QED
    BY <1>1, <1>2, <1>8, <1>a, <2>1 DEF IInv, TypeOK, Peaceful, Sound, There
<1>9. ASSUME forced' = 0 PROVE Claimed' /\ Forgotten'
  <2>1. Claimed'
    <3>1. failures = 0 => Source(t).buffer \in claims \cup {None}
      BY <1>9, <1>b, TwoThreads DEF IInv, Peaceful, Claimed, Source, Built
    <3>2. At("console", "restore")' => At("console", "restore")
      BY <1>2, TwoThreads
    <3>3. failures = 0 => \A w \in Vms : code'[w] # None => code'[w].buffer \in claims \cup {None}
      BY <1>1, <1>9, <1>a, <3>1 DEF IInv, TypeOK, Peaceful, Claimed
    <3> QED
      BY <3>2, <3>3, <1>9 DEF IInv, Peaceful, Claimed
  <2>2. Forgotten'
    <3>1. ~Has(todo[t], "free_all")
      BY <1>b, NoCleanup
    <3> QED
      BY <1>2, <1>9, <1>b, <3>1, TwoThreads DEF IInv, Peaceful, Forgotten
  <2> QED
    BY <2>1, <2>2
<1> QED
  BY <1>2, <1>3, <1>4, <1>5, <1>6, <1>7, <1>8, <1>9 DEF IInv, Peaceful

\* mvm_restore fails, and so does the Assert that follows.
LEMMA RestoreFailsStep ==
  ASSUME IInv, NEW t \in Threads, At(t, "restore"), Fault(t), failures' \in Nat, failures' >= failures,
         UNCHANGED <<old, new, running, lock, vm, claimed_bytecode, code, claims, bytecode, forced, doubleFault>>
  PROVE  IInv'
<1> USE DEF At
<1>1. todo[t] # <<>> /\ Head(todo[t]) = "restore" /\ Plan(todo[t]) /\ Inside(t)
  BY DEF IInv, Plans, Inside
<1>2. ~Has(todo[t], "free_all")
  BY <1>1, NoCleanup
<1>3. old' = [old EXCEPT ![t] = None] /\ new' = [new EXCEPT ![t] = None]
  BY <1>1 DEF IInv, TypeOK, InHand, InHandOf
<1>4. running' = IF t = "ticker" THEN None ELSE running
  BY <1>1 DEF IInv, InHand
<1> QED
  BY <1>1, <1>2, <1>3, <1>4, FaultStep

\* The new virtual machine is still there.
LEMMA RestoredKeptStep ==
  ASSUME IInv, NEW t \in Threads, At(t, "restored"), Continue(t, Rest(t)),
         UNCHANGED <<old, new, running, lock, vm, claimed_bytecode, code, claims, bytecode, failures, forced,
           doubleFault>>
  PROVE  IInv'
<1> USE DEF At
<1>1. /\ todo[t] # <<>> /\ Head(todo[t]) = "restored" /\ Continue(t, Rest(t))
      /\ UNCHANGED <<old, new, running, lock, vm, claimed_bytecode, code, claims, bytecode, failures,
           forced, doubleFault>>
  OBVIOUS
<1>2. /\ todo' \in [Threads -> Seq(Steps)] /\ Plans'
      /\ \A u \in Threads \ {t} : todo'[u] = todo[u]
      /\ todo'[t] # <<>> /\ Head(todo'[t]) = "load_old"
      /\ \A u \in Threads : \A step :
           /\ Has(todo'[u], step) => Has(todo[u], step)
           /\ Has(todo[u], step) /\ (u = t => step # "restored") => Has(todo'[u], step)
      /\ \A u \in Threads : Unlocks(todo[u]) => Unlocks(todo'[u])
      /\ \A u \in Threads : CleansWithLock(todo[u]) => CleansWithLock(todo'[u])
  BY <1>1, Advanced DEF Follows
<1>3. TypeOK'
  BY <1>1, <1>2 DEF IInv, TypeOK
<1>4. InHand'
  <2>1. ASSUME NEW u \in Threads PROVE InHandOf(u)'
    BY <1>1, <1>2 DEF IInv, TypeOK, InHand, InHandOf
  <2> QED
    BY <1>1, <1>2, <2>1, TwoThreads DEF IInv, InHand
<1>5. Loading'
  BY <1>1, <1>2, TwoThreads DEF IInv, Loading
<1>6. Owed' /\ Unforced'
  BY <1>1, <1>2, TwoThreads DEF IInv, Owed, Unforced
<1>7. ASSUME forced' = 0 PROVE Exclusive'
  BY <1>1, <1>2, <1>7, TwoThreads DEF IInv, Peaceful, Exclusive, Inside
<1>8. ASSUME forced' = 0 PROVE Sound'
  <2>1. ASSUME NEW u \in Threads PROVE SoundOf(u)'
    BY <1>1, <1>2, <1>8 DEF IInv, TypeOK, Peaceful, Sound, SoundOf, There
  <2> QED
    BY <1>1, <1>2, <1>8, <2>1 DEF IInv, Peaceful, Sound, There
<1>9. ASSUME forced' = 0 PROVE Claimed' /\ Forgotten'
  <2>1. Claimed'
    BY <1>1, <1>2, <1>9, TwoThreads DEF IInv, Peaceful, Claimed
  <2>2. Forgotten'
    BY <1>1, <1>2, <1>9, TwoThreads DEF IInv, Peaceful, Forgotten
  <2> QED
    BY <2>1, <2>2
<1> QED
  BY <1>2, <1>3, <1>4, <1>5, <1>6, <1>7, <1>8, <1>9 DEF IInv, Peaceful

\* It was freed meanwhile.
LEMMA RestoredLostStep ==
  ASSUME IInv, NEW t \in Threads, At(t, "restored"), code[new[t]] = None, Fault(t), new' = [new EXCEPT ![t] = None],
         UNCHANGED <<old, running, lock, vm, claimed_bytecode, code, claims, bytecode, failures, forced, doubleFault>>
  PROVE  IInv'
<1> USE DEF At
<1>1. todo[t] # <<>> /\ Head(todo[t]) = "restored" /\ Inside(t)
  BY DEF Inside
<1>2. forced > 0
  <2>1. new[t] # None
    BY <1>1 DEF IInv, InHand, InHandOf
  <2>2. forced # 0
    BY <2>1 DEF IInv, Peaceful, Sound, SoundOf, There
  <2> QED
    BY <2>2 DEF IInv, TypeOK
<1>3. old' = [old EXCEPT ![t] = None]
  BY <1>1 DEF IInv, TypeOK, InHand, InHandOf
<1>4. running' = IF t = "ticker" THEN None ELSE running
  BY <1>1 DEF IInv, InHand
<1>5. failures' \in Nat /\ failures' >= failures
  BY DEF IInv, TypeOK
<1> QED
  BY <1>1, <1>2, <1>3, <1>4, <1>5, FaultStep

\* The ticker calls tick.
LEMMA RunTickStep ==
  ASSUME IInv, RunTick
  PROVE  IInv'
<1> USE DEF At
<1>1. /\ todo["ticker"] = <<>> /\ Continue("ticker", tick)
      /\ UNCHANGED <<old, new, running, lock, vm, claimed_bytecode, code, claims, bytecode, failures,
           forced, doubleFault>>
  BY DEF RunTick, memory, bounds
<1>2. /\ todo' \in [Threads -> Seq(Steps)] /\ Plans'
      /\ \A u \in Threads \ {"ticker"} : todo'[u] = todo[u]
      /\ todo'["ticker"] # <<>> /\ Head(todo'["ticker"]) = "lock" /\ ~Has(todo'["ticker"], "free_all")
      /\ ~Unlocks(todo["ticker"]) /\ CleansWithLock(todo'["ticker"])

  <2>1. /\ todo' \in [Threads -> Seq(Steps)] /\ Plans'
        /\ todo'["ticker"] = tick /\ \A u \in Threads \ {"ticker"} : todo'[u] = todo[u]
    BY <1>1, TickLeft, Continued, TwoThreads
  <2>2. ~Unlocks(todo["ticker"])
    BY <1>1 DEF Unlocks
  <2>3. CleansWithLock(tick)
    <3>1. Len(tick) \in Nat
      BY TickLeft DEF Plan
    <3> QED
      BY <3>1, TickLeft DEF CleansWithLock, Has
  <2> QED
    BY <2>1, <2>2, <2>3, TickLeft
<1>3. TypeOK'
  BY <1>1, <1>2 DEF IInv, TypeOK
<1>4. InHand'
  <2>1. ASSUME NEW u \in Threads PROVE InHandOf(u)'
    BY <1>1, <1>2 DEF IInv, TypeOK, InHand, InHandOf
  <2> QED
    BY <1>1, <1>2, <2>1, TwoThreads DEF IInv, InHand
<1>5. Loading'
  BY <1>1, <1>2, TwoThreads DEF IInv, Loading
<1>6. Owed' /\ Unforced'
  BY <1>1, <1>2, TwoThreads DEF IInv, Owed, Unforced
<1>7. ASSUME forced' = 0 PROVE Exclusive'
  BY <1>1, <1>2, <1>7, TwoThreads DEF IInv, Peaceful, Exclusive, Inside
<1>8. ASSUME forced' = 0 PROVE Sound'
  <2>1. ASSUME NEW u \in Threads PROVE SoundOf(u)'
    BY <1>1, <1>2, <1>8 DEF IInv, TypeOK, Peaceful, Sound, SoundOf, There
  <2> QED
    BY <1>1, <1>2, <1>8, <2>1 DEF IInv, Peaceful, Sound, There
<1>9. ASSUME forced' = 0 PROVE Claimed' /\ Forgotten'
  <2>1. Claimed'
    BY <1>1, <1>2, <1>9, TwoThreads DEF IInv, Peaceful, Claimed
  <2>2. Forgotten'
    BY <1>1, <1>2, <1>9, TwoThreads DEF IInv, Peaceful, Forgotten
  <2> QED
    BY <2>1, <2>2
<1> QED
  BY <1>2, <1>3, <1>4, <1>5, <1>6, <1>7, <1>8, <1>9 DEF IInv, Peaceful

\* There is a virtual machine.
LEMMA CheckStep ==
  ASSUME IInv, Check, vm # None
  PROVE  IInv'
<1> USE DEF At
<1>1. /\ todo["ticker"] # <<>> /\ Head(todo["ticker"]) = "check" /\ Continue("ticker", Rest("ticker"))
      /\ UNCHANGED <<old, new, running, lock, vm, claimed_bytecode, code, claims, bytecode, failures,
           forced, doubleFault>>
  BY DEF Check, memory, bounds
<1>2. /\ todo' \in [Threads -> Seq(Steps)] /\ Plans'
      /\ \A u \in Threads \ {"ticker"} : todo'[u] = todo[u]
      /\ todo'["ticker"] # <<>> /\ Head(todo'["ticker"]) = "resolve"
      /\ \A u \in Threads : \A step :
           /\ Has(todo'[u], step) => Has(todo[u], step)
           /\ Has(todo[u], step) /\ (u = "ticker" => step # "check") => Has(todo'[u], step)
      /\ \A u \in Threads : Unlocks(todo[u]) => Unlocks(todo'[u])
      /\ \A u \in Threads : CleansWithLock(todo[u]) => CleansWithLock(todo'[u])
  BY <1>1, Advanced, TwoThreads DEF Follows
<1>3. TypeOK'
  BY <1>1, <1>2 DEF IInv, TypeOK
<1>4. InHand'
  <2>1. ASSUME NEW u \in Threads PROVE InHandOf(u)'
    BY <1>1, <1>2 DEF IInv, TypeOK, InHand, InHandOf
  <2> QED
    BY <1>1, <1>2, <2>1, TwoThreads DEF IInv, InHand
<1>5. Loading'
  BY <1>1, <1>2, TwoThreads DEF IInv, Loading
<1>6. Owed' /\ Unforced'
  BY <1>1, <1>2, TwoThreads DEF IInv, Owed, Unforced
<1>7. ASSUME forced' = 0 PROVE Exclusive'
  BY <1>1, <1>2, <1>7, TwoThreads DEF IInv, Peaceful, Exclusive, Inside
<1>8. ASSUME forced' = 0 PROVE Sound'
  <2>1. ASSUME NEW u \in Threads PROVE SoundOf(u)'
    BY <1>1, <1>2, <1>8 DEF IInv, TypeOK, Peaceful, Sound, SoundOf, There
  <2> QED
    BY <1>1, <1>2, <1>8, <2>1 DEF IInv, Peaceful, Sound, There
<1>9. ASSUME forced' = 0 PROVE Claimed' /\ Forgotten'
  <2>1. Claimed'
    BY <1>1, <1>2, <1>9, TwoThreads DEF IInv, Peaceful, Claimed
  <2>2. Forgotten'
    BY <1>1, <1>2, <1>9, TwoThreads DEF IInv, Peaceful, Forgotten
  <2> QED
    BY <2>1, <2>2
<1> QED
  BY <1>2, <1>3, <1>4, <1>5, <1>6, <1>7, <1>8, <1>9 DEF IInv, Peaceful

\* There is none: the script in the memory of the compartment is to be loaded.
LEMMA CheckEmptyStep ==
  ASSUME IInv, Check, vm = None
  PROVE  IInv'
<1> USE DEF At
<1>1. /\ todo["ticker"] # <<>> /\ Head(todo["ticker"]) = "check"
      /\ Continue("ticker", <<"restore">> \o Rest("ticker"))
      /\ UNCHANGED <<old, new, running, lock, vm, claimed_bytecode, code, claims, bytecode, failures,
           forced, doubleFault>>
  BY DEF Check, memory, bounds
<1>2. /\ todo' \in [Threads -> Seq(Steps)] /\ Plans'
      /\ \A u \in Threads \ {"ticker"} : todo'[u] = todo[u]
      /\ todo'["ticker"] # <<>> /\ Head(todo'["ticker"]) = "restore" /\ ~Has(todo'["ticker"], "free_all")
      /\ Unlocks(todo["ticker"]) => Unlocks(todo'["ticker"])
      /\ CleansWithLock(todo'["ticker"])

  <2> DEFINE s == <<"restore">> \o Rest("ticker")
  <2>1. Plan(todo["ticker"])
    BY TwoThreads DEF IInv, Plans
  <2>2. /\ Plan(s) /\ s # <<>> /\ Head(s) = "restore" /\ ~Has(s, "free_all")
        /\ Unlocks(todo["ticker"]) => Unlocks(s)
    BY <1>1, <2>1, CheckLeft DEF Rest
  <2>3. Continue("ticker", s)
    BY <1>1
  <2> HIDE DEF s
  <2>4. /\ todo' \in [Threads -> Seq(Steps)] /\ Plans'
        /\ todo'["ticker"] = s /\ \A u \in Threads \ {"ticker"} : todo'[u] = todo[u]
    BY <2>2, <2>3, Continued, TwoThreads
  <2>5. CleansWithLock(s)
    <3>1. Len(s) \in Nat
      BY <2>2 DEF Plan
    <3> QED
      BY <2>2, <3>1 DEF CleansWithLock, Has
  <2> QED
    BY <2>2, <2>4, <2>5
<1>3. TypeOK'
  BY <1>1, <1>2 DEF IInv, TypeOK
<1>4. InHand'
  <2>1. ASSUME NEW u \in Threads PROVE InHandOf(u)'
    BY <1>1, <1>2 DEF IInv, TypeOK, InHand, InHandOf
  <2> QED
    BY <1>1, <1>2, <2>1, TwoThreads DEF IInv, InHand
<1>5. Loading'
  BY <1>1, <1>2, TwoThreads DEF IInv, Loading
<1>6. Owed' /\ Unforced'
  BY <1>1, <1>2, TwoThreads DEF IInv, Owed, Unforced
<1>7. ASSUME forced' = 0 PROVE Exclusive'
  BY <1>1, <1>2, <1>7, TwoThreads DEF IInv, Peaceful, Exclusive, Inside
<1>8. ASSUME forced' = 0 PROVE Sound'
  <2>1. ASSUME NEW u \in Threads PROVE SoundOf(u)'
    BY <1>1, <1>2, <1>8 DEF IInv, TypeOK, Peaceful, Sound, SoundOf, There
  <2> QED
    BY <1>1, <1>2, <1>8, <2>1 DEF IInv, Peaceful, Sound, There
<1>9. ASSUME forced' = 0 PROVE Claimed' /\ Forgotten'
  <2>1. Claimed'
    BY <1>1, <1>2, <1>9, TwoThreads DEF IInv, Peaceful, Claimed
  <2>2. Forgotten'
    BY <1>1, <1>2, <1>9, TwoThreads DEF IInv, Peaceful, Forgotten
  <2> QED
    BY <2>1, <2>2
<1> QED
  BY <1>2, <1>3, <1>4, <1>5, <1>6, <1>7, <1>8, <1>9 DEF IInv, Peaceful

\* What is gone faults.
LEMMA ResolveFaultStep ==
  ASSUME IInv, At("ticker", "resolve"), Fault("ticker"),
         UNCHANGED <<old, new, running, lock, vm, claimed_bytecode, code, claims, bytecode, failures, forced,
           doubleFault>>
  PROVE  IInv'
<1> USE DEF At
<1>1. /\ todo["ticker"] # <<>> /\ Head(todo["ticker"]) = "resolve" /\ Plan(todo["ticker"]) /\ Inside("ticker")
  BY TwoThreads DEF IInv, Plans, Inside
<1>2. ~Has(todo["ticker"], "free_all")
  BY <1>1, NoCleanup
<1>3. old' = [old EXCEPT !["ticker"] = None] /\ new' = [new EXCEPT !["ticker"] = None]
  BY <1>1, TwoThreads DEF IInv, TypeOK, InHand, InHandOf
<1>4. running' = None
  BY <1>1 DEF IInv, InHand
<1>5. failures' \in Nat /\ failures' >= failures
  BY DEF IInv, TypeOK
<1> QED
  BY <1>1, <1>2, <1>3, <1>4, <1>5, FaultStep, TwoThreads

\* The function run is called.
LEMMA ResolveRunStep ==
  ASSUME IInv, At("ticker", "resolve"), Continue("ticker", Rest("ticker")), running' = vm,
         UNCHANGED <<old, new, lock, vm, claimed_bytecode, code, claims, bytecode, failures, forced, doubleFault>>
  PROVE  IInv'
<1> USE DEF At
<1>1. /\ todo["ticker"] # <<>> /\ Head(todo["ticker"]) = "resolve" /\ Continue("ticker", Rest("ticker"))
      /\ running' = vm
      /\ UNCHANGED <<old, new, lock, vm, claimed_bytecode, code, claims, bytecode, failures, forced,
           doubleFault>>
  OBVIOUS
<1>2. /\ todo' \in [Threads -> Seq(Steps)] /\ Plans'
      /\ \A u \in Threads \ {"ticker"} : todo'[u] = todo[u]
      /\ todo'["ticker"] # <<>> /\ Head(todo'["ticker"]) = "call"
      /\ \A u \in Threads : \A step :
           /\ Has(todo'[u], step) => Has(todo[u], step)
           /\ Has(todo[u], step) /\ (u = "ticker" => step # "resolve") => Has(todo'[u], step)
      /\ \A u \in Threads : Unlocks(todo[u]) => Unlocks(todo'[u])
      /\ \A u \in Threads : CleansWithLock(todo[u]) => CleansWithLock(todo'[u])
  BY <1>1, Advanced, TwoThreads DEF Follows
<1>3. TypeOK'
  BY <1>1, <1>2 DEF IInv, TypeOK
<1>4. InHand'
  <2>1. ASSUME NEW u \in Threads PROVE InHandOf(u)'
    BY <1>1, <1>2 DEF IInv, TypeOK, InHand, InHandOf
  <2> QED
    BY <1>1, <1>2, <2>1, TwoThreads DEF IInv, InHand
<1>5. Loading'
  BY <1>1, <1>2, TwoThreads DEF IInv, Loading
<1>6. Owed' /\ Unforced'
  BY <1>1, <1>2, TwoThreads DEF IInv, Owed, Unforced
<1>7. ASSUME forced' = 0 PROVE Exclusive'
  BY <1>1, <1>2, <1>7, TwoThreads DEF IInv, Peaceful, Exclusive, Inside
<1>8. ASSUME forced' = 0 PROVE Sound'
  <2>1. ASSUME NEW u \in Threads PROVE SoundOf(u)'
    BY <1>1, <1>2, <1>8 DEF IInv, TypeOK, Peaceful, Sound, SoundOf, There
  <2> QED
    BY <1>1, <1>2, <1>8, <2>1 DEF IInv, Peaceful, Sound, There
<1>9. ASSUME forced' = 0 PROVE Claimed' /\ Forgotten'
  <2>1. Claimed'
    BY <1>1, <1>2, <1>9, TwoThreads DEF IInv, Peaceful, Claimed
  <2>2. Forgotten'
    BY <1>1, <1>2, <1>9, TwoThreads DEF IInv, Peaceful, Forgotten
  <2> QED
    BY <2>1, <2>2
<1> QED
  BY <1>2, <1>3, <1>4, <1>5, <1>6, <1>7, <1>8, <1>9 DEF IInv, Peaceful

\* There is no function run.
LEMMA ResolveNothingStep ==
  ASSUME IInv, At("ticker", "resolve"), Continue("ticker", Tail(Rest("ticker"))),
         UNCHANGED <<old, new, running, lock, vm, claimed_bytecode, code, claims, bytecode, failures, forced,
           doubleFault>>
  PROVE  IInv'
<1> USE DEF At
<1>1. /\ todo["ticker"] # <<>> /\ Head(todo["ticker"]) = "resolve" /\ Continue("ticker", Tail(Rest("ticker")))
      /\ UNCHANGED <<old, new, running, lock, vm, claimed_bytecode, code, claims, bytecode, failures,
           forced, doubleFault>>
  OBVIOUS
<1>2. /\ todo' \in [Threads -> Seq(Steps)] /\ Plans'
      /\ \A u \in Threads \ {"ticker"} : todo'[u] = todo[u]
      /\ todo'["ticker"] # <<>> /\ Head(todo'["ticker"]) = "unlock" /\ ~Has(todo'["ticker"], "free_all")
      /\ Unlocks(todo["ticker"]) => Unlocks(todo'["ticker"])
      /\ CleansWithLock(todo["ticker"]) => CleansWithLock(todo'["ticker"])

  <2> DEFINE s == todo["ticker"]
             r == Tail(s)
             q == Tail(r)
  <2>1. Plan(s) /\ s # <<>> /\ Head(s) = "resolve"
    BY <1>1, TwoThreads DEF IInv, Plans
  <2> HIDE DEF s
  <2>2. Plan(r) /\ r # <<>> /\ Head(r) = "call"
    BY <2>1, PlanTail DEF Follows
  <2>3. (Unlocks(s) => Unlocks(r)) /\ (CleansWithLock(s) => CleansWithLock(r))
    BY <2>1, TailLeft
  <2> HIDE DEF r
  <2>4. Plan(q) /\ q # <<>> /\ Head(q) = "unlock"
    BY <2>2, PlanTail DEF Follows
  <2>5. (Unlocks(r) => Unlocks(q)) /\ (CleansWithLock(r) => CleansWithLock(q))
    BY <2>2, TailLeft
  <2>6. Continue("ticker", q)
    BY <1>1 DEF Rest, r, s
  <2> HIDE DEF q
  <2>7. ~Has(q, "free_all")
    BY <2>4, NoCleanup
  <2>8. /\ todo' \in [Threads -> Seq(Steps)] /\ Plans'
        /\ todo'["ticker"] = q /\ \A u \in Threads \ {"ticker"} : todo'[u] = todo[u]
    BY <2>4, <2>6, Continued, TwoThreads
  <2> QED
    BY <2>3, <2>4, <2>5, <2>7, <2>8 DEF s
<1>3. TypeOK'
  BY <1>1, <1>2 DEF IInv, TypeOK
<1>4. InHand'
  <2>1. ASSUME NEW u \in Threads PROVE InHandOf(u)'
    BY <1>1, <1>2 DEF IInv, TypeOK, InHand, InHandOf
  <2> QED
    BY <1>1, <1>2, <2>1, TwoThreads DEF IInv, InHand
<1>5. Loading'
  BY <1>1, <1>2, TwoThreads DEF IInv, Loading
<1>6. Owed' /\ Unforced'
  BY <1>1, <1>2, TwoThreads DEF IInv, Owed, Unforced
<1>7. ASSUME forced' = 0 PROVE Exclusive'
  BY <1>1, <1>2, <1>7, TwoThreads DEF IInv, Peaceful, Exclusive, Inside
<1>8. ASSUME forced' = 0 PROVE Sound'
  <2>1. ASSUME NEW u \in Threads PROVE SoundOf(u)'
    BY <1>1, <1>2, <1>8 DEF IInv, TypeOK, Peaceful, Sound, SoundOf, There
  <2> QED
    BY <1>1, <1>2, <1>8, <2>1 DEF IInv, Peaceful, Sound, There
<1>9. ASSUME forced' = 0 PROVE Claimed' /\ Forgotten'
  <2>1. Claimed'
    BY <1>1, <1>2, <1>9, TwoThreads DEF IInv, Peaceful, Claimed
  <2>2. Forgotten'
    BY <1>1, <1>2, <1>9, TwoThreads DEF IInv, Peaceful, Forgotten
  <2> QED
    BY <2>1, <2>2
<1> QED
  BY <1>2, <1>3, <1>4, <1>5, <1>6, <1>7, <1>8, <1>9 DEF IInv, Peaceful

\* The script has ended.
LEMMA CallOkStep ==
  ASSUME IInv, At("ticker", "call"), Continue("ticker", Rest("ticker")), running' = None,
         UNCHANGED <<old, new, lock, vm, claimed_bytecode, code, claims, bytecode, failures, forced, doubleFault>>
  PROVE  IInv'
<1> USE DEF At
<1>1. /\ todo["ticker"] # <<>> /\ Head(todo["ticker"]) = "call" /\ Continue("ticker", Rest("ticker"))
      /\ running' = None
      /\ UNCHANGED <<old, new, lock, vm, claimed_bytecode, code, claims, bytecode, failures, forced,
           doubleFault>>
  OBVIOUS
<1>2. /\ todo' \in [Threads -> Seq(Steps)] /\ Plans'
      /\ \A u \in Threads \ {"ticker"} : todo'[u] = todo[u]
      /\ todo'["ticker"] # <<>> /\ Head(todo'["ticker"]) = "unlock"
      /\ \A u \in Threads : \A step :
           /\ Has(todo'[u], step) => Has(todo[u], step)
           /\ Has(todo[u], step) /\ (u = "ticker" => step # "call") => Has(todo'[u], step)
      /\ \A u \in Threads : Unlocks(todo[u]) => Unlocks(todo'[u])
      /\ \A u \in Threads : CleansWithLock(todo[u]) => CleansWithLock(todo'[u])
  BY <1>1, Advanced, TwoThreads DEF Follows
<1>3. TypeOK'
  BY <1>1, <1>2 DEF IInv, TypeOK, Pointers
<1>4. InHand'
  <2>1. ASSUME NEW u \in Threads PROVE InHandOf(u)'
    BY <1>1, <1>2 DEF IInv, TypeOK, InHand, InHandOf
  <2> QED
    BY <1>1, <1>2, <2>1, TwoThreads DEF IInv, InHand
<1>5. Loading'
  BY <1>1, <1>2, TwoThreads DEF IInv, Loading
<1>6. Owed' /\ Unforced'
  BY <1>1, <1>2, TwoThreads DEF IInv, Owed, Unforced
<1>7. ASSUME forced' = 0 PROVE Exclusive'
  BY <1>1, <1>2, <1>7, TwoThreads DEF IInv, Peaceful, Exclusive, Inside
<1>8. ASSUME forced' = 0 PROVE Sound'
  <2>1. ASSUME NEW u \in Threads PROVE SoundOf(u)'
    BY <1>1, <1>2, <1>8 DEF IInv, TypeOK, Peaceful, Sound, SoundOf, There
  <2> QED
    BY <1>1, <1>2, <1>8, <2>1 DEF IInv, Peaceful, Sound, There
<1>9. ASSUME forced' = 0 PROVE Claimed' /\ Forgotten'
  <2>1. Claimed'
    BY <1>1, <1>2, <1>9, TwoThreads DEF IInv, Peaceful, Claimed
  <2>2. Forgotten'
    BY <1>1, <1>2, <1>9, TwoThreads DEF IInv, Peaceful, Forgotten
  <2> QED
    BY <2>1, <2>2
<1> QED
  BY <1>2, <1>3, <1>4, <1>5, <1>6, <1>7, <1>8, <1>9 DEF IInv, Peaceful

\* It has ended with an error, and is to be cleaned up after.
LEMMA CallErrorStep ==
  ASSUME IInv, At("ticker", "call"), Continue("ticker", cleanup \o Rest("ticker")), running' = None,
         UNCHANGED <<old, new, lock, vm, claimed_bytecode, code, claims, bytecode, failures, forced, doubleFault>>
  PROVE  IInv'
<1> USE DEF At
<1>1. /\ todo["ticker"] # <<>> /\ Head(todo["ticker"]) = "call" /\ Continue("ticker", cleanup \o Rest("ticker"))
      /\ running' = None
      /\ UNCHANGED <<old, new, lock, vm, claimed_bytecode, code, claims, bytecode, failures, forced,
           doubleFault>>
  OBVIOUS
<1>2. /\ todo' \in [Threads -> Seq(Steps)] /\ Plans'
      /\ \A u \in Threads \ {"ticker"} : todo'[u] = todo[u]
      /\ todo'["ticker"] # <<>> /\ Head(todo'["ticker"]) = "load_old"
      /\ Unlocks(todo'["ticker"]) /\ CleansWithLock(todo'["ticker"])

  <2> DEFINE r == Rest("ticker")
             s == cleanup \o r
  <2>1. Plan(todo["ticker"])
    BY TwoThreads DEF IInv, Plans
  <2>2. Plan(r) /\ r # <<>> /\ Head(r) = "unlock"
    BY <1>1, <2>1, PlanTail DEF Rest, Follows
  <2>3. Continue("ticker", s)
    BY <1>1
  <2> HIDE DEF r
  <2>4. ~Has(r, "free_all")
    BY <2>2, NoCleanup
  <2>5. Plan(s) /\ s # <<>> /\ Head(s) = "load_old" /\ Unlocks(s) /\ CleansWithLock(s)
    BY <2>2, <2>4, CleanupLeft
  <2> HIDE DEF s
  <2>6. /\ todo' \in [Threads -> Seq(Steps)] /\ Plans'
        /\ todo'["ticker"] = s /\ \A u \in Threads \ {"ticker"} : todo'[u] = todo[u]
    BY <2>3, <2>5, Continued, TwoThreads
  <2> QED
    BY <2>5, <2>6
<1>3. TypeOK'
  BY <1>1, <1>2 DEF IInv, TypeOK, Pointers
<1>4. InHand'
  <2>1. ASSUME NEW u \in Threads PROVE InHandOf(u)'
    BY <1>1, <1>2 DEF IInv, TypeOK, InHand, InHandOf
  <2> QED
    BY <1>1, <1>2, <2>1, TwoThreads DEF IInv, InHand
<1>5. Loading'
  BY <1>1, <1>2, TwoThreads DEF IInv, Loading
<1>6. Owed' /\ Unforced'
  BY <1>1, <1>2, TwoThreads DEF IInv, Owed, Unforced
<1>7. ASSUME forced' = 0 PROVE Exclusive'
  BY <1>1, <1>2, <1>7, TwoThreads DEF IInv, Peaceful, Exclusive, Inside
<1>8. ASSUME forced' = 0 PROVE Sound'
  <2>1. ASSUME NEW u \in Threads PROVE SoundOf(u)'
    BY <1>1, <1>2, <1>8 DEF IInv, TypeOK, Peaceful, Sound, SoundOf, There
  <2> QED
    BY <1>1, <1>2, <1>8, <2>1 DEF IInv, Peaceful, Sound, There
<1>9. ASSUME forced' = 0 PROVE Claimed' /\ Forgotten'
  <2>1. Claimed'
    BY <1>1, <1>2, <1>9, TwoThreads DEF IInv, Peaceful, Claimed
  <2>2. Forgotten'
    BY <1>1, <1>2, <1>9, TwoThreads DEF IInv, Peaceful, Forgotten
  <2> QED
    BY <2>1, <2>2
<1> QED
  BY <1>2, <1>3, <1>4, <1>5, <1>6, <1>7, <1>8, <1>9 DEF IInv, Peaceful

\* The script faults.
LEMMA CallFaultStep ==
  ASSUME IInv, At("ticker", "call"), Fault("ticker"), running' = None,
         UNCHANGED <<old, new, lock, vm, claimed_bytecode, code, claims, bytecode, failures, forced, doubleFault>>
  PROVE  IInv'
<1> USE DEF At
<1>1. /\ todo["ticker"] # <<>> /\ Head(todo["ticker"]) = "call" /\ Plan(todo["ticker"]) /\ Inside("ticker")
  BY TwoThreads DEF IInv, Plans, Inside
<1>2. ~Has(todo["ticker"], "free_all")
  BY <1>1, NoCleanup
<1>3. old' = [old EXCEPT !["ticker"] = None] /\ new' = [new EXCEPT !["ticker"] = None]
  BY <1>1, TwoThreads DEF IInv, TypeOK, InHand, InHandOf
<1>4. failures' \in Nat /\ failures' >= failures
  BY DEF IInv, TypeOK
<1> QED
  BY <1>1, <1>2, <1>3, <1>4, FaultStep, TwoThreads

\* The console has read a script.
LEMMA ReadWholeScript ==
  ASSUME IInv, todo["console"] = <<>>, NEW b \in Buffers, NEW s \in Scripts, bytecode' = [script |-> s, buffer |-> b],
         Continue("console", kill \o load_javascript \o <<"drop">>),
         UNCHANGED <<old, new, running, lock, vm, claimed_bytecode, code, claims, failures, forced, doubleFault>>
  PROVE  IInv'
<1> USE DEF At
<1>1. /\ todo["console"] = <<>> /\ Continue("console", kill \o load_javascript \o <<"drop">>)
      /\ bytecode' \in Sources /\ bytecode' # None
      /\ UNCHANGED <<old, new, running, lock, vm, claimed_bytecode, code, claims, failures, forced,
           doubleFault>>
  BY SandboxAssumption DEF Sources
<1>2. /\ todo' \in [Threads -> Seq(Steps)] /\ Plans'
      /\ \A u \in Threads \ {"console"} : todo'[u] = todo[u]
      /\ todo'["console"] # <<>> /\ Head(todo'["console"]) = "try_lock" /\ ~Has(todo'["console"], "free_all")
      /\ ~Unlocks(todo["console"]) /\ CleansWithLock(todo'["console"])

  <2> DEFINE p == kill \o load_javascript \o <<"drop">>
  <2>1. Plan(p) /\ p # <<>> /\ Head(p) = "try_lock" /\ ~Has(p, "free_all") /\ Continue("console", p)
    BY <1>1, LoadLeft
  <2> HIDE DEF p
  <2>2. /\ todo' \in [Threads -> Seq(Steps)] /\ Plans'
        /\ todo'["console"] = p /\ \A u \in Threads \ {"console"} : todo'[u] = todo[u]
    BY <2>1, Continued, TwoThreads
  <2>3. ~Unlocks(todo["console"])
    BY <1>1 DEF Unlocks
  <2>4. CleansWithLock(p)
    <3>1. Len(p) \in Nat
      BY <2>1 DEF Plan
    <3> QED
      BY <2>1, <3>1 DEF CleansWithLock, Has
  <2> QED
    BY <2>1, <2>2, <2>3, <2>4
<1>3. TypeOK'
  BY <1>1, <1>2 DEF IInv, TypeOK
<1>4. InHand'
  <2>1. ASSUME NEW u \in Threads PROVE InHandOf(u)'
    BY <1>1, <1>2 DEF IInv, TypeOK, InHand, InHandOf
  <2> QED
    BY <1>1, <1>2, <2>1, TwoThreads DEF IInv, InHand
<1>5. Loading'
  BY <1>1 DEF Loading
<1>6. Owed' /\ Unforced'
  BY <1>1, <1>2, TwoThreads DEF IInv, Owed, Unforced
<1>7. ASSUME forced' = 0 PROVE Exclusive'
  <2>1. \A u \in Threads : Inside(u)' => u = "ticker" /\ Inside(u)
    BY <1>2, TwoThreads DEF Inside
  <2>2. \A u \in Threads : CleansWithLock(todo'[u])
    BY <1>1, <1>2, <1>7, TwoThreads DEF IInv, Peaceful, Exclusive
  <2> QED
    BY <1>1, <1>7, <2>1, <2>2, TwoThreads DEF IInv, Peaceful, Exclusive
<1>8. ASSUME forced' = 0 PROVE Sound'
  <2>1. ASSUME NEW u \in Threads PROVE SoundOf(u)'
    BY <1>1, <1>2, <1>8 DEF IInv, TypeOK, Peaceful, Sound, SoundOf, There
  <2> QED
    BY <1>1, <1>2, <1>8, <2>1 DEF IInv, Peaceful, Sound, There
<1>9. ASSUME forced' = 0 PROVE Claimed' /\ Forgotten'
  <2>1. Claimed'
    BY <1>1, <1>2, <1>9, TwoThreads DEF IInv, Peaceful, Claimed
  <2>2. Forgotten'
    BY <1>1, <1>2, <1>9, TwoThreads DEF IInv, Peaceful, Forgotten
  <2> QED
    BY <2>1, <2>2
<1> QED
  BY <1>2, <1>3, <1>4, <1>5, <1>6, <1>7, <1>8, <1>9 DEF IInv, Peaceful

\* It has read one that is not complete.
LEMMA ReadPartOfScript ==
  ASSUME IInv, todo["console"] = <<>>, Continue("console", kill),
         UNCHANGED <<old, new, running, lock, vm, claimed_bytecode, code, claims, bytecode, failures, forced,
           doubleFault>>
  PROVE  IInv'
<1> USE DEF At
<1>1. /\ todo["console"] = <<>> /\ Continue("console", kill)
      /\ UNCHANGED <<old, new, running, lock, vm, claimed_bytecode, code, claims, bytecode, failures,
           forced, doubleFault>>
  OBVIOUS
<1>2. /\ todo' \in [Threads -> Seq(Steps)] /\ Plans'
      /\ \A u \in Threads \ {"console"} : todo'[u] = todo[u]
      /\ todo'["console"] # <<>> /\ Head(todo'["console"]) = "try_lock" /\ ~Has(todo'["console"], "free_all")
      /\ ~Unlocks(todo["console"]) /\ CleansWithLock(todo'["console"])
      /\ \A step \in {"lock", "free_old", "claim", "restore"} : ~Has(todo'["console"], step)

  <2>1. Plan(kill) /\ kill # <<>> /\ Head(kill) = "try_lock" /\ Continue("console", kill)
    BY <1>1, KillLeft
  <2>2. \A step \in {"free_all", "lock", "free_old", "claim", "restore"} : ~Has(kill, step)
    BY KillLeft
  <2>3. /\ todo' \in [Threads -> Seq(Steps)] /\ Plans'
        /\ todo'["console"] = kill /\ \A u \in Threads \ {"console"} : todo'[u] = todo[u]
    BY <2>1, Continued, TwoThreads
  <2>4. ~Unlocks(todo["console"])
    BY <1>1 DEF Unlocks
  <2>5. CleansWithLock(kill)
    <3>1. Len(kill) \in Nat
      BY <2>1 DEF Plan
    <3> QED
      BY <2>2, <3>1 DEF CleansWithLock, Has
  <2> QED
    BY <2>1, <2>2, <2>3, <2>4, <2>5
<1>3. TypeOK'
  BY <1>1, <1>2 DEF IInv, TypeOK
<1>4. InHand'
  <2>1. ASSUME NEW u \in Threads PROVE InHandOf(u)'
    BY <1>1, <1>2 DEF IInv, TypeOK, InHand, InHandOf
  <2> QED
    BY <1>1, <1>2, <2>1, TwoThreads DEF IInv, InHand
<1>5. Loading'
  BY <1>2 DEF Loading
<1>6. Owed' /\ Unforced'
  BY <1>1, <1>2, TwoThreads DEF IInv, Owed, Unforced
<1>7. ASSUME forced' = 0 PROVE Exclusive'
  <2>1. \A u \in Threads : Inside(u)' => u = "ticker" /\ Inside(u)
    BY <1>2, TwoThreads DEF Inside
  <2>2. \A u \in Threads : CleansWithLock(todo'[u])
    BY <1>1, <1>2, <1>7, TwoThreads DEF IInv, Peaceful, Exclusive
  <2> QED
    BY <1>1, <1>7, <2>1, <2>2, TwoThreads DEF IInv, Peaceful, Exclusive
<1>8. ASSUME forced' = 0 PROVE Sound'
  <2>1. ASSUME NEW u \in Threads PROVE SoundOf(u)'
    BY <1>1, <1>2, <1>8 DEF IInv, TypeOK, Peaceful, Sound, SoundOf, There
  <2> QED
    BY <1>1, <1>2, <1>8, <2>1 DEF IInv, Peaceful, Sound, There
<1>9. ASSUME forced' = 0 PROVE Claimed' /\ Forgotten'
  <2>1. Claimed'
    BY <1>1, <1>2, <1>9, TwoThreads DEF IInv, Peaceful, Claimed
  <2>2. Forgotten'
    BY <1>1, <1>2, <1>9, TwoThreads DEF IInv, Peaceful, Forgotten
  <2> QED
    BY <2>1, <2>2
<1> QED
  BY <1>2, <1>3, <1>4, <1>5, <1>6, <1>7, <1>8, <1>9 DEF IInv, Peaceful

\* kill gets the lock.
LEMMA TryLockStep ==
  ASSUME IInv, At("console", "try_lock"), ~lock, lock' = TRUE,
         Continue("console", cleanup \o <<"unlock">> \o Rest("console")),
         UNCHANGED <<old, new, running, vm, claimed_bytecode, code, claims, bytecode, failures, forced, doubleFault>>
  PROVE  IInv'
<1> USE DEF At
<1>1. /\ todo["console"] # <<>> /\ Head(todo["console"]) = "try_lock" /\ ~lock /\ lock' = TRUE
      /\ Continue("console", cleanup \o <<"unlock">> \o Rest("console"))
      /\ UNCHANGED <<old, new, running, vm, claimed_bytecode, code, claims, bytecode, failures,
           forced, doubleFault>>
  OBVIOUS
<1>2. /\ todo' \in [Threads -> Seq(Steps)] /\ Plans'
      /\ \A u \in Threads \ {"console"} : todo'[u] = todo[u]
      /\ todo'["console"] # <<>> /\ Head(todo'["console"]) = "load_old" /\ Has(todo'["console"], "free_all")
      /\ Unlocks(todo'["console"]) /\ CleansWithLock(todo'["console"])
      /\ \A step \in {"lock", "free_old", "claim", "restore"} :
           Has(todo'["console"], step) => Has(todo["console"], step)

  <2> DEFINE r == Rest("console")
             s == cleanup \o <<"unlock">> \o r
  <2>1. Plan(todo["console"])
    BY TwoThreads DEF IInv, Plans
  <2>2. /\ Plan(r) /\ r # <<>> /\ Head(r) = "return"
        /\ \A step : Has(r, step) => Has(todo["console"], step)
    BY <1>1, <2>1, PlanTail, TailLeft DEF Rest, Follows
  <2>3. Continue("console", s)
    BY <1>1
  <2> HIDE DEF r
  <2>4. ~Has(r, "free_all")
    BY <2>2, NoCleanup
  <2>5. /\ Plan(s) /\ s # <<>> /\ Head(s) = "load_old" /\ Unlocks(s) /\ CleansWithLock(s) /\ Has(s, "free_all")
        /\ \A step \in {"lock", "free_old", "claim", "restore"} : Has(s, step) => Has(r, step)
    BY <2>2, <2>4, LockedCleanupLeft
  <2> HIDE DEF s
  <2>6. /\ todo' \in [Threads -> Seq(Steps)] /\ Plans'
        /\ todo'["console"] = s /\ \A u \in Threads \ {"console"} : todo'[u] = todo[u]
    BY <2>3, <2>5, Continued, TwoThreads
  <2> QED
    BY <2>2, <2>5, <2>6
<1>3. TypeOK'
  BY <1>1, <1>2 DEF IInv, TypeOK
<1>4. InHand'
  <2>1. ASSUME NEW u \in Threads PROVE InHandOf(u)'
    BY <1>1, <1>2 DEF IInv, TypeOK, InHand, InHandOf
  <2> QED
    BY <1>1, <1>2, <2>1, TwoThreads DEF IInv, InHand
<1>5. Loading'
  BY <1>1, <1>2, TwoThreads DEF IInv, Loading
<1>6. Owed' /\ Unforced'
  BY <1>1, <1>2, TwoThreads DEF IInv, Owed, Unforced
<1>7. ASSUME forced' = 0 PROVE Exclusive'
  BY <1>1, <1>2, <1>7, TwoThreads DEF IInv, Peaceful, Exclusive, Inside
<1>8. ASSUME forced' = 0 PROVE Sound'
  <2>1. ASSUME NEW u \in Threads PROVE SoundOf(u)'
    BY <1>1, <1>2, <1>8 DEF IInv, TypeOK, Peaceful, Sound, SoundOf, There
  <2> QED
    BY <1>1, <1>2, <1>8, <2>1 DEF IInv, Peaceful, Sound, There
<1>9. ASSUME forced' = 0 PROVE Claimed' /\ Forgotten'
  <2>1. Claimed'
    BY <1>1, <1>2, <1>9, TwoThreads DEF IInv, Peaceful, Claimed
  <2>2. Forgotten'
    BY <1>1, <1>2, <1>9, TwoThreads DEF IInv, Peaceful, Forgotten
  <2> QED
    BY <2>1, <2>2
<1> QED
  BY <1>2, <1>3, <1>4, <1>5, <1>6, <1>7, <1>8, <1>9 DEF IInv, Peaceful

\* The script is killed without the lock.
LEMMA KillStep ==
  ASSUME IInv, At("console", "try_lock"), forced' = forced + 1, Continue("console", cleanup \o Rest("console")),
         UNCHANGED <<old, new, running, lock, vm, claimed_bytecode, code, claims, bytecode, failures, doubleFault>>
  PROVE  IInv'
<1> USE DEF At
<1>1. todo["console"] # <<>> /\ Head(todo["console"]) = "try_lock" /\ Continue("console", cleanup \o Rest("console"))
  OBVIOUS
<1>2. /\ todo' \in [Threads -> Seq(Steps)] /\ Plans'
      /\ \A u \in Threads \ {"console"} : todo'[u] = todo[u]
      /\ todo'["console"] # <<>> /\ Head(todo'["console"]) = "load_old" /\ ~Unlocks(todo["console"])
      /\ \A step \in {"lock", "free_old", "claim", "restore"} :
           Has(todo'["console"], step) => Has(todo["console"], step)

  <2> DEFINE r == Rest("console")
             s == cleanup \o r
  <2>1. Plan(todo["console"])
    BY TwoThreads DEF IInv, Plans
  <2>2. /\ Plan(r) /\ r # <<>> /\ Head(r) = "return"
        /\ \A step : Has(r, step) => Has(todo["console"], step)
    BY <1>1, <2>1, PlanTail, TailLeft DEF Rest, Follows
  <2>3. Continue("console", s)
    BY <1>1
  <2> HIDE DEF r
  <2>4. ~Has(r, "free_all")
    BY <2>2, NoCleanup
  <2>5. /\ Plan(s) /\ s # <<>> /\ Head(s) = "load_old"
        /\ \A step \in {"lock", "free_old", "claim", "restore"} : Has(s, step) => Has(r, step)
    BY <2>2, <2>4, CleanupLeft
  <2> HIDE DEF s
  <2>6. /\ todo' \in [Threads -> Seq(Steps)] /\ Plans'
        /\ todo'["console"] = s /\ \A u \in Threads \ {"console"} : todo'[u] = todo[u]
    BY <2>3, <2>5, Continued, TwoThreads
  <2>7. ~Unlocks(todo["console"])
    <3>1. Len(todo["console"]) \in Nat /\ todo["console"][1] = "try_lock"
      BY <1>1, <2>1, PlanTail
    <3> QED
      BY <3>1 DEF Unlocks, Outside
  <2> QED
    BY <2>2, <2>5, <2>6, <2>7
<1>3. TypeOK'
  BY <1>2 DEF IInv, TypeOK
<1>4. InHand'
  <2>1. ASSUME NEW u \in Threads PROVE InHandOf(u)'
    BY <1>1, <1>2 DEF IInv, TypeOK, InHand, InHandOf
  <2> QED
    BY <1>1, <1>2, <2>1, TwoThreads DEF IInv, InHand
<1>5. Loading'
  BY <1>2 DEF IInv, Loading
<1>6. forced' > 0
  BY DEF IInv, TypeOK
<1>7. Owed' /\ Unforced'
  BY <1>2, <1>6, TwoThreads DEF IInv, Owed, Unforced
<1>8. Peaceful'
  BY <1>3, <1>6 DEF Peaceful, TypeOK
<1> QED
  BY <1>2, <1>3, <1>4, <1>5, <1>7, <1>8 DEF IInv

\* The bytecode is claimed, or cannot be.
LEMMA ClaimStep ==
  ASSUME IInv, Claim
  PROVE  IInv'
<1> USE DEF At
<1>1. /\ todo["console"] # <<>> /\ Head(todo["console"]) = "claim" /\ Continue("console", Rest("console"))
      /\ claimed_bytecode' = bytecode.buffer
      /\ failures' \in Nat /\ (failures' = 0 => failures = 0 /\ claims' = claims \cup {bytecode.buffer})
      /\ UNCHANGED <<old, new, running, lock, vm, code, bytecode, forced, doubleFault>>
  BY DEF Claim, IInv, TypeOK
<1>2. /\ todo' \in [Threads -> Seq(Steps)] /\ Plans'
      /\ \A u \in Threads \ {"console"} : todo'[u] = todo[u]
      /\ todo'["console"] # <<>> /\ Head(todo'["console"]) = "restore"
      /\ \A u \in Threads : \A step :
           /\ Has(todo'[u], step) => Has(todo[u], step)
           /\ Has(todo[u], step) /\ (u = "console" => step # "claim") => Has(todo'[u], step)
      /\ \A u \in Threads : Unlocks(todo[u]) => Unlocks(todo'[u])
      /\ \A u \in Threads : CleansWithLock(todo[u]) => CleansWithLock(todo'[u])
  BY <1>1, Advanced, TwoThreads DEF Follows
<1>a. ~Has(todo["console"], "free_old")
  <2>1. Plan(todo["console"]) /\ Len(todo["console"]) \in Nat /\ todo["console"][1] = "claim"
    BY <1>1, TwoThreads, PlanTail DEF IInv, Plans
  <2>2. todo["console"] # <<>> /\ Len(todo["console"]) # 0
    BY <1>1, <2>1, PlanTail
  <2>3. Len(todo["console"]) <= 5
    BY <2>1, <2>2 DEF Plan, LoadsOnce
  <2> QED
    BY <2>1, <2>3 DEF Plan, LoadsOnce, Has
<1>3. TypeOK'
  BY <1>1, <1>2 DEF IInv, TypeOK
<1>4. InHand'
  <2>1. ASSUME NEW u \in Threads PROVE InHandOf(u)'
    BY <1>1, <1>2 DEF IInv, TypeOK, InHand, InHandOf
  <2> QED
    BY <1>1, <1>2, <2>1, TwoThreads DEF IInv, InHand
<1>5. Loading'
  BY <1>1, <1>2, TwoThreads DEF IInv, Loading
<1>6. Owed' /\ Unforced'
  BY <1>1, <1>2, TwoThreads DEF IInv, Owed, Unforced
<1>7. ASSUME forced' = 0 PROVE Exclusive'
  BY <1>1, <1>2, <1>7, TwoThreads DEF IInv, Peaceful, Exclusive, Inside
<1>8. ASSUME forced' = 0 PROVE Sound'
  <2>1. ASSUME NEW u \in Threads PROVE SoundOf(u)'
    BY <1>1, <1>2, <1>8 DEF IInv, TypeOK, Peaceful, Sound, SoundOf, There
  <2> QED
    BY <1>1, <1>2, <1>8, <2>1 DEF IInv, Peaceful, Sound, There
<1>9. ASSUME forced' = 0 PROVE Claimed' /\ Forgotten'
  <2>1. Claimed'
    BY <1>1, <1>2, <1>9, TwoThreads DEF IInv, Peaceful, Claimed
  <2>2. Forgotten'
    BY <1>2, <1>a, TwoThreads DEF Forgotten
  <2> QED
    BY <2>1, <2>2
<1> QED
  BY <1>2, <1>3, <1>4, <1>5, <1>6, <1>7, <1>8, <1>9 DEF IInv, Peaceful

\* Nothing happens.
LEMMA StutterStep ==
  ASSUME IInv, UNCHANGED vars
  PROVE  IInv'
<1> USE DEF vars, locals, memory, bounds, At
<1>1. TypeOK' /\ Plans'
  BY DEF IInv, TypeOK, Plans
<1>2. InHand' /\ Loading'
  BY DEF IInv, InHand, InHandOf, Loading
<1>3. Owed' /\ Unforced'
  BY DEF IInv, Owed, Unforced
<1>4. ASSUME forced' = 0 PROVE Exclusive' /\ Claimed' /\ Forgotten'
  BY <1>4 DEF IInv, Peaceful, Exclusive, Inside, Claimed, Forgotten
<1>5. ASSUME forced' = 0 PROVE Sound'
  BY <1>5 DEF IInv, Peaceful, Sound, SoundOf, There
<1> QED
  BY <1>1, <1>2, <1>3, <1>4, <1>5 DEF IInv, Peaceful

-----------------------------------------------------------------------------
(* The invariant is inductive *)

\* It holds before anything has run.
LEMMA InitIInv ==
  ASSUME Init
  PROVE  IInv
<1>1. todo = [t \in Threads |-> <<>>] /\ <<>> \in Seq(Steps) /\ \A step : ~Has(<<>>, step)
  BY DEF Init, Has
<1>2. Plan(<<>>) /\ CleansWithLock(<<>>)
  BY DEF Plan, Path, Ended, CleansUp, LoadsOnce, CleansWithLock
<1>3. \A t \in Threads : todo[t] = <<>> /\ old[t] = None /\ new[t] = None /\ ~Inside(t)
  BY <1>1 DEF Init, Inside
<1>4. TypeOK
  BY <1>1 DEF Init, TypeOK, Pointers
<1>5. Plans
  BY <1>2, <1>3 DEF Plans
<1>6. InHand /\ Loading
  BY <1>1, <1>3, TwoThreads DEF Init, InHand, InHandOf, Loading, At
<1>7. Owed /\ Unforced
  BY DEF Init, Owed, Unforced
<1>8. Exclusive
  BY <1>2, <1>3, TwoThreads DEF Exclusive
<1>9. Sound
  BY <1>1, <1>3 DEF Init, Sound, SoundOf, There, At
<1>10. Claimed /\ Forgotten
  BY <1>1, <1>3, TwoThreads DEF Init, Claimed, Forgotten, At
<1> QED
  BY <1>4, <1>5, <1>6, <1>7, <1>8, <1>9, <1>10 DEF IInv, Peaceful

\* A step of either thread preserves it.
LEMMA SharedStep ==
  ASSUME IInv, NEW t \in Threads, Shared(t)
  PROVE  IInv'
<1>1. CASE Return(t)
  BY <1>1, ReturnStep
<1>2. CASE Lock(t)
  BY <1>2, LockStep
<1>3. CASE Unlock(t)
  BY <1>3, UnlockStep
<1>4. CASE LoadOld(t)
  BY <1>4, LoadOldStep
<1>5. CASE StoreNew(t)
  BY <1>5, StoreNewStep
<1>6. CASE Delete(t)
  <2>1. At(t, "delete") \/ At(t, "delete_in_handler")
    BY <1>6 DEF Delete
  <2>2. CASE old[t] = None \/ code[old[t]] # None
    BY <1>6, <2>1, <2>2, DeleteStep
  <2>3. CASE old[t] # None /\ code[old[t]] = None
    BY <1>6, <2>1, <2>3, DeleteFaultStep, DoubleFaultStep
  <2> QED
    BY <2>2, <2>3
<1>7. CASE FreeAll(t)
  BY <1>7, FreeAllStep
<1>8. CASE Restore(t)
  <2>1. /\ At(t, "restore")
        /\ UNCHANGED <<old, running, lock, vm, claimed_bytecode, claims, bytecode, forced, doubleFault>>
    BY <1>8 DEF Restore
  <2>2. CASE /\ FreeVms # {}
             /\ new' = [new EXCEPT ![t] = CHOOSE v \in FreeVms : TRUE]
             /\ code' = [code EXCEPT ![new'[t]] = Source(t)]
             /\ Continue(t, <<"restored">> \o reset \o Rest(t))
             /\ UNCHANGED failures
    BY <2>1, <2>2, RestoreStep
  <2>3. CASE /\ failures' \in {failures, failures + 1}
             /\ Fault(t)
             /\ UNCHANGED <<code, new>>
    <3>1. failures' \in Nat /\ failures' >= failures
      BY <2>3 DEF IInv, TypeOK
    <3> QED
      BY <2>1, <2>3, <3>1, RestoreFailsStep
  <2> QED
    BY <1>8, <2>2, <2>3 DEF Restore, Source
<1>9. CASE Restored(t)
  BY <1>9, RestoredKeptStep, RestoredLostStep DEF Restored, memory, bounds
<1> QED
  BY <1>1, <1>2, <1>3, <1>4, <1>5, <1>6, <1>7, <1>8, <1>9 DEF Shared

\* A step of the ticker alone preserves it.
LEMMA TickerStep ==
  ASSUME IInv, Ticker
  PROVE  IInv'
<1>1. CASE RunTick
  BY <1>1, RunTickStep
<1>2. CASE Check
  BY <1>2, CheckStep, CheckEmptyStep
<1>3. CASE Resolve
  <2>1. At("ticker", "resolve") /\ UNCHANGED <<old, new, lock, vm, claimed_bytecode, memory, bytecode, bounds>>
    BY <1>3 DEF Resolve
  <2>2. CASE Fault("ticker") /\ UNCHANGED running
    BY <2>1, <2>2, ResolveFaultStep DEF memory, bounds
  <2>3. CASE Continue("ticker", Rest("ticker")) /\ running' = vm
    BY <2>1, <2>3, ResolveRunStep DEF memory, bounds
  <2>4. CASE Continue("ticker", Tail(Rest("ticker"))) /\ UNCHANGED running
    BY <2>1, <2>4, ResolveNothingStep DEF memory, bounds
  <2> QED
    BY <1>3, <2>2, <2>3, <2>4 DEF Resolve
<1>4. CASE Call
  <2>1. /\ At("ticker", "call") /\ running' = None
        /\ UNCHANGED <<old, new, lock, vm, claimed_bytecode, memory, bytecode, bounds>>
        /\ \/ Continue("ticker", Rest("ticker"))
           \/ Continue("ticker", cleanup \o Rest("ticker"))
           \/ Fault("ticker")
    BY <1>4 DEF Call
  <2> QED
    BY <2>1, CallOkStep, CallErrorStep, CallFaultStep DEF memory, bounds
<1> QED
  BY <1>1, <1>2, <1>3, <1>4 DEF Ticker

\* A step of the console alone preserves it.
LEMMA ConsoleStep ==
  ASSUME IInv, Console
  PROVE  IInv'
<1>1. CASE ReadScript
  <2>1. /\ todo["console"] = <<>>
        /\ UNCHANGED <<old, new, running, lock, vm, claimed_bytecode, code, claims, failures, forced, doubleFault>>
    BY <1>1 DEF ReadScript, memory, bounds
  <2>2. ASSUME NEW b \in FreeBuffers, NEW s \in Scripts, bytecode' = [script |-> s, buffer |-> b],
               Continue("console", kill \o load_javascript \o <<"drop">>)
        PROVE  IInv'
    <3>1. b \in Buffers
      BY DEF FreeBuffers
    <3> QED
      BY <2>1, <2>2, <3>1, ReadWholeScript
  <2>3. CASE Continue("console", kill) /\ UNCHANGED bytecode
    BY <2>1, <2>3, ReadPartOfScript
  <2> QED
    BY <1>1, <2>2, <2>3 DEF ReadScript
<1>2. CASE TryLock
  <2>1. /\ At("console", "try_lock")
        /\ UNCHANGED <<old, new, running, vm, claimed_bytecode, code, claims, bytecode, failures, doubleFault>>
    BY <1>2 DEF TryLock, memory
  <2>2. CASE /\ ~lock /\ lock' = TRUE
             /\ Continue("console", cleanup \o <<"unlock">> \o Rest("console"))
             /\ UNCHANGED forced
    BY <2>1, <2>2, TryLockStep
  <2>3. CASE forced' = forced + 1 /\ Continue("console", cleanup \o Rest("console")) /\ UNCHANGED lock
    BY <2>1, <2>3, KillStep
  <2> QED
    BY <1>2, <2>2, <2>3 DEF TryLock
<1>3. CASE FreeOld
  BY <1>3, FreeOldStep
<1>4. CASE Claim
  BY <1>4, ClaimStep
<1>5. CASE Drop
  BY <1>5, DropStep
<1> QED
  BY <1>1, <1>2, <1>3, <1>4, <1>5 DEF Console

\* The invariant holds of any scripts, any number of virtual machines and buffers,
\* and any number of troubles.
THEOREM Invariant == FairSpec => []IInv
<1>1. IInv /\ [Next]_vars => IInv'
  BY SharedStep, TickerStep, ConsoleStep, StutterStep DEF Next
<1> QED
  BY InitIInv, <1>1, PTL DEF FairSpec

-----------------------------------------------------------------------------
(* What follows from it *)

\* Each variable has its type; what a thread has left to do is a sequence of steps.
THEOREM TypeCorrect == FairSpec => []TypeOK
<1>1. IInv => TypeOK
  BY DEF IInv
<1> QED
  BY <1>1, Invariant, PTL

\* Nobody leaves the compartment with the lock taken, whatever a script does, where
\* it faults or how it is killed, unless the error handler itself faults; which
\* takes a script that was killed without the lock (js_sandbox.cc:21-50).
THEOREM LockReleasedHolds == FairSpec => []LockReleased
<1>1. ASSUME IInv PROVE LockReleased
  <2>1. ASSUME NEW t \in Threads, Unlocks(todo[t]) PROVE Inside(t)
    <3>1. PICK i \in 1 .. Len(todo[t]) : todo[t][i] = "unlock" /\ \A j \in 1 .. i : todo[t][j] \notin Outside
      BY <2>1 DEF Unlocks
    <3>2. todo[t] \in Seq(Steps) /\ todo[t] # <<>>
      BY <1>1, <3>1 DEF IInv, TypeOK
    <3>3. Head(todo[t]) = todo[t][1] /\ 1 \in 1 .. i
      BY <3>1, <3>2, FirstAndRest
    <3> QED
      BY <3>1, <3>2, <3>3 DEF Inside, Outside
  <2>2. lock => doubleFault \/ \E t \in Threads : Inside(t)
    BY <1>1, <2>1 DEF IInv, Owed
  <2>3. doubleFault => forced > 0
    BY <1>1 DEF IInv, Unforced
  <2> QED
    BY <2>2, <2>3 DEF LockReleased
<1> QED
  BY <1>1, Invariant, PTL

\* Unless it is killed without the lock, nothing is freed under a script that runs:
\* neither its virtual machine nor, if it could be claimed, the bytecode, which the
\* console destroys as soon as it is loaded (js_sandbox.cc:108-110, js.cc:116).
THEOREM MemoryKeptHolds == FairSpec => []MemoryKept
<1>1. ASSUME IInv, forced = 0, running # None
      PROVE  code[running] # None /\ (failures = 0 => Intact(running))
  <2>1. running \in Vms /\ code[running] # None
    BY <1>1 DEF IInv, TypeOK, Pointers, Peaceful, Sound, There
  <2>2. failures = 0 => code[running].buffer \in claims \cup {None}
    BY <1>1, <2>1 DEF IInv, Peaceful, Claimed
  <2> QED
    BY <1>1, <2>1, <2>2 DEF Intact
<1>2. IInv => MemoryKept
  BY <1>1 DEF MemoryKept
<1> QED
  BY <1>2, Invariant, PTL

\* Unless a script is killed without the lock, the ticker and the console are never
\* in the compartment of the interpreter at the same time (js_sandbox.cc:54, 100).
THEOREM Exclusion ==
  FairSpec => [](forced = 0 => ~(Inside("ticker") /\ Inside("console")))
<1>1. IInv => (forced = 0 => ~(Inside("ticker") /\ Inside("console")))
  BY DEF IInv, Peaceful, Exclusive
<1> QED
  BY <1>1, Invariant, PTL
=============================================================================

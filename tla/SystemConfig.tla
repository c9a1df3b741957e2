---------------------------- MODULE SystemConfig ----------------------------
(***************************************************************************)
(* The System Config compartment of the Sonata build, system_config.cc: a  *)
(* thread that samples the switches of the board, one at a time, derives   *)
(* the id of the system from the first of them, and publishes both as the  *)
(* "system" item of the broker whenever they changed.  People move the     *)
(* switches meanwhile.  set_config is one step here: ConfigBroker has the  *)
(* steps inside it, and what it publishes is a whole value.                *)
(***************************************************************************)
EXTENDS Integers

CONSTANTS
  NumSwitches,  \* switches on the board
  IdSwitches,   \* the first of them, which make up the id
  MaxMoves,     \* bound: how often a switch is moved
  MaxFailures,  \* bound: calls of set_config that fail
  Unset         \* not computed, or not published, yet

ASSUME SwitchesAssumption ==
  /\ {NumSwitches, IdSwitches, MaxMoves, MaxFailures} \subseteq Nat
  /\ IdSwitches <= NumSwitches

Switches == 0 .. NumSwitches - 1
IdBits == 0 .. IdSwitches - 1

\* What the item can hold; a number is represented by the set of its bits.
Values == [id : {Unset} \cup SUBSET IdBits, switches : [Switches -> BOOLEAN]]

ASSUME UnsetAssumption == Unset \notin Values

VARIABLES
  board,        \* board[s]: the position of switch s
  step,         \* where the loop is
  next,         \* the switch it samples next
  config,       \* the static buffer it hands to set_config
  newId,        \* the switches that read_id has found set
  id,           \* the id last published, or Unset
  switchValue,  \* the switches last published, or Unset
  published,    \* the value of the "system" item, or Unset
  moves, failures

vars == <<board, step, next, config, newId, id, switchValue, published, moves, failures>>

\* The number that settings are.
On(settings) == {s \in Switches : settings[s]}

\* Sample one switch into config.switches.
ReadSwitch ==
  /\ step = "switches" /\ next \in Switches
  /\ config' = [config EXCEPT !.switches[next] = board[next]]
  /\ next' = next + 1
  /\ UNCHANGED <<board, step, newId, id, switchValue, published, moves, failures>>

\* Go on to read_id, which reads its switches again.
StartId ==
  /\ step = "switches" /\ next = NumSwitches
  /\ step' = "id" /\ next' = 0 /\ newId' = {}
  /\ UNCHANGED <<board, config, id, switchValue, published, moves, failures>>

ReadId ==
  /\ step = "id" /\ next \in IdBits
  /\ newId' = IF board[next] THEN newId \cup {next} ELSE newId
  /\ next' = next + 1
  /\ UNCHANGED <<board, step, config, id, switchValue, published, moves, failures>>

\* Mutant: the id is not formatted before the buffer is published.
NewConfigUnformatted == config

\* config.id is formatted again only if the id differs from the published one.
NewConfig == IF id # newId THEN [config EXCEPT !.id = newId] ELSE config

\* Mutants: one of the two values is not compared.
ChangedSwitches == switchValue # On(config.switches)
ChangedId == id # newId

\* The values differ from the ones last published.
Changed == switchValue # On(config.switches) \/ id # newId

Sleep == step' = "sleep" /\ next' = 0

\* set_config returns 0 and the values are remembered.
Publish ==
  /\ step = "id" /\ next = IdSwitches /\ Changed
  /\ config' = NewConfig
  /\ published' = NewConfig
  /\ id' = newId
  /\ switchValue' = On(config.switches)
  /\ Sleep
  /\ UNCHANGED <<board, newId, moves, failures>>

\* Mutant: the values count as published although set_config failed.
PublishFailsSilently ==
  /\ step = "id" /\ next = IdSwitches /\ Changed
  /\ failures < MaxFailures
  /\ failures' = failures + 1
  /\ config' = NewConfig
  /\ id' = newId
  /\ switchValue' = On(config.switches)
  /\ Sleep
  /\ UNCHANGED <<board, newId, published, moves>>

\* set_config returns an error: the buffer has changed, the item has not.
PublishFails ==
  /\ step = "id" /\ next = IdSwitches /\ Changed
  /\ failures < MaxFailures
  /\ failures' = failures + 1
  /\ config' = NewConfig
  /\ Sleep
  /\ UNCHANGED <<board, newId, id, switchValue, published, moves>>

Skip ==
  /\ step = "id" /\ next = IdSwitches /\ ~Changed
  /\ Sleep
  /\ UNCHANGED <<board, config, newId, id, switchValue, published, moves, failures>>

\* The sleep ends and the next round starts.
Wake ==
  /\ step = "sleep"
  /\ step' = "switches"
  /\ UNCHANGED <<board, next, config, newId, id, switchValue, published, moves, failures>>

\* Somebody moves a switch.
Move(s) ==
  /\ moves < MaxMoves
  /\ moves' = moves + 1
  /\ board' = [board EXCEPT ![s] = ~@]
  /\ UNCHANGED <<step, next, config, newId, id, switchValue, published, failures>>

Init ==
  /\ board \in [Switches -> BOOLEAN]
  /\ step = "switches" /\ next = 0
  /\ config = [id |-> Unset, switches |-> [s \in Switches |-> FALSE]]
  /\ newId = {}
  /\ id = Unset /\ switchValue = Unset /\ published = Unset
  /\ moves = 0 /\ failures = 0

Loop == ReadSwitch \/ StartId \/ ReadId \/ Publish \/ PublishFails \/ Skip \/ Wake

Next == Loop \/ \E s \in Switches : Move(s)

\* The thread is the only one of its compartment and is never blocked for long.
Fairness == WF_vars(Loop)

Spec == Init /\ [][Next]_vars
FairSpec == Spec /\ Fairness

-----------------------------------------------------------------------------
(* Properties *)

\* Type invariant.
TypeOK ==
  /\ board \in [Switches -> BOOLEAN]
  /\ step \in {"switches", "id", "sleep"}
  /\ next \in 0 .. NumSwitches
  /\ config \in Values /\ published \in Values \cup {Unset}
  /\ newId \subseteq IdBits
  /\ id \in {Unset} \cup SUBSET IdBits
  /\ switchValue \in {Unset} \cup SUBSET Switches
  /\ moves \in 0 .. MaxMoves /\ failures \in 0 .. MaxFailures

\* What the loop remembers to have published is what consumers can read: it
\* never skips an update because of one that failed (system_config.cc:134-150).
RemembersPublished ==
  IF published = Unset THEN switchValue = Unset /\ id = Unset
  ELSE switchValue = On(published.switches)

\* While no update fails, the published id is the one computed for the published
\* value (README.md:568, 606): config.id, a buffer that outlives a round, is
\* never out of date.
IdMatches == published # Unset /\ failures = 0 => published.id = id

\* Once nobody moves the switches any more, the item shows their positions,
\* even if some updates failed.
SwitchesSettle == <>[](published # Unset /\ published.switches = board)

\* ... and its id is the one that the switches stand for: README.md:568 says so
\* of every system, the code keeps it where no update fails.
IdSettles == <>[](published # Unset /\ published.id = On(board) \cap IdBits)
IdSettlesReliably == [](failures = 0) => IdSettles
=============================================================================

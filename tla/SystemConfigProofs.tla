------------------------- MODULE SystemConfigProofs -------------------------
(***************************************************************************)
(* Proofs about the generator of the system configuration: for any number  *)
(* of switches, moves and failed updates, what the loop remembers is what  *)
(* consumers can read.                                                     *)
(***************************************************************************)
EXTENDS SystemConfig, TLAPS

\* What is published once is a value, never Unset.
LEMMA NewConfigType ==
  ASSUME TypeOK
  PROVE  NewConfig \in Values /\ NewConfig # Unset /\ NewConfig.switches = config.switches
<1>1. config \in Values /\ newId \in SUBSET IdBits
  BY DEF TypeOK
<1>2. [config EXCEPT !.id = newId] \in Values
  BY <1>1 DEF Values
<1>3. [config EXCEPT !.id = newId].switches = config.switches
  BY <1>1 DEF Values
<1> QED
  BY <1>1, <1>2, <1>3, UnsetAssumption DEF NewConfig

LEMMA OnType == \A settings \in [Switches -> BOOLEAN] : On(settings) \in SUBSET Switches
BY DEF On

\* The state is well typed, for any number of switches (system_config.cc:84-156).
THEOREM TypeCorrect == Spec => []TypeOK
<1>1. Init => TypeOK
  BY SwitchesAssumption DEF Init, TypeOK, Values
<1>2. TypeOK /\ [Next]_vars => TypeOK'
  <2> SUFFICES ASSUME TypeOK, [Next]_vars
               PROVE  TypeOK'
    OBVIOUS
  <2> USE DEF TypeOK
  <2>1. CASE ReadSwitch
    <3>1. config' \in Values
      BY <2>1 DEF ReadSwitch, Values
    <3>2. next' \in 0 .. NumSwitches
      BY <2>1, SwitchesAssumption DEF ReadSwitch, Switches
    <3> QED
      BY <2>1, <3>1, <3>2 DEF ReadSwitch
  <2>2. CASE StartId
    BY <2>2, SwitchesAssumption DEF StartId
  <2>3. CASE ReadId
    <3>1. next' \in 0 .. NumSwitches
      BY <2>3, SwitchesAssumption DEF ReadId, IdBits
    <3>2. newId' \subseteq IdBits
      BY <2>3 DEF ReadId
    <3> QED
      BY <2>3, <3>1, <3>2 DEF ReadId
  <2>4. CASE Publish
    <3>1. On(config.switches) \in SUBSET Switches
      BY OnType DEF Values
    <3> QED
      BY <2>4, <3>1, NewConfigType, SwitchesAssumption DEF Publish, Sleep
  <2>5. CASE PublishFails
    BY <2>5, NewConfigType, SwitchesAssumption DEF PublishFails, Sleep
  <2>6. CASE Skip
    BY <2>6, SwitchesAssumption DEF Skip, Sleep
  <2>7. CASE Wake
    BY <2>7 DEF Wake
  <2>8. CASE \E s \in Switches : Move(s)
    BY <2>8, SwitchesAssumption DEF Move
  <2>9. CASE UNCHANGED vars
    BY <2>9 DEF vars
  <2> QED
    BY <2>1, <2>2, <2>3, <2>4, <2>5, <2>6, <2>7, <2>8, <2>9 DEF Next, Loop
<1> QED
  BY <1>1, <1>2, PTL DEF Spec

\* What the loop remembers to have published is what consumers can read, however
\* many updates fail (system_config.cc:134-150).
THEOREM Remembers == Spec => []RemembersPublished
<1>1. Init => RemembersPublished
  BY DEF Init, RemembersPublished
<1>2. TypeOK /\ RemembersPublished /\ [Next]_vars => RemembersPublished'
  <2> SUFFICES ASSUME TypeOK, RemembersPublished, [Next]_vars
               PROVE  RemembersPublished'
    OBVIOUS
  <2>1. CASE Publish
    <3>1. published' = NewConfig /\ switchValue' = On(config.switches)
      BY <2>1 DEF Publish
    <3>2. published' # Unset /\ published'.switches = config.switches
      BY <3>1, NewConfigType
    <3> QED
      BY <3>1, <3>2 DEF RemembersPublished, On
  <2>2. CASE UNCHANGED <<published, switchValue, id>>
    BY <2>2 DEF RemembersPublished, On
  <2> QED
    BY <2>1, <2>2 DEF Next, Loop, ReadSwitch, StartId, ReadId, PublishFails, Skip, Wake, Move, vars
<1> QED
  BY <1>1, <1>2, TypeCorrect, PTL DEF Spec

\* Until an update fails, the buffer that outlives a round has the id that was
\* published last.
BufferFresh == failures = 0 => config.id = id

\* While no update fails, the published id is the one computed for the published
\* value (README.md:568, 606).
THEOREM IdsMatch == Spec => []IdMatches
<1> DEFINE Fresh == IdMatches /\ BufferFresh
<1>1. Init => Fresh
  BY DEF Init, IdMatches, BufferFresh
<1>2. TypeOK /\ Fresh /\ [Next]_vars => Fresh'
  <2> SUFFICES ASSUME TypeOK, Fresh, [Next]_vars
               PROVE  Fresh'
    OBVIOUS
  <2>1. CASE ReadSwitch
    <3>1. config' = [config EXCEPT !.switches[next] = board[next]] /\ config \in Values
      BY <2>1 DEF ReadSwitch, TypeOK
    <3>2. config'.id = config.id
      BY <3>1 DEF Values
    <3> QED
      BY <2>1, <3>2 DEF ReadSwitch, IdMatches, BufferFresh
  <2>2. CASE Publish
    <3>1. config' = NewConfig /\ published' = NewConfig /\ id' = newId /\ failures' = failures
      BY <2>2 DEF Publish
    <3>2. [config EXCEPT !.id = newId].id = newId
      BY DEF TypeOK, Values
    <3>3. failures = 0 => NewConfig.id = newId
      BY <3>2 DEF NewConfig, BufferFresh
    <3> QED
      BY <3>1, <3>3 DEF IdMatches, BufferFresh
  <2>3. CASE PublishFails
    <3>1. failures' # 0
      BY <2>3 DEF PublishFails, TypeOK
    <3> QED
      BY <3>1 DEF IdMatches, BufferFresh
  <2>4. CASE UNCHANGED <<config, published, id, failures>>
    BY <2>4 DEF IdMatches, BufferFresh
  <2> QED
    BY <2>1, <2>2, <2>3, <2>4 DEF Next, Loop, StartId, ReadId, Skip, Wake, Move, vars
<1> QED
  BY <1>1, <1>2, TypeCorrect, PTL DEF Spec
=============================================================================

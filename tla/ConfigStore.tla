---------------------------- MODULE ConfigStore ----------------------------
(***************************************************************************)
(* What the configuration broker promises its clients, with no threads,    *)
(* locks or heap: every item is a register that is replaced as a whole,    *)
(* each replacement advances its version by one, and a reader is given a   *)
(* version together with the value that was published as that version.     *)
(* ConfigBroker implements this specification.                             *)
(***************************************************************************)
EXTENDS Naturals

CONSTANTS Clients,    \* threads that call the broker
          Names,      \* names of configuration items
          Values,     \* parsed values an item can hold
          Unset       \* an item that was never set

VARIABLES value,      \* value[n]: the current value of item n
          version,    \* version[n]: how often n was published
          got         \* got[c]: the last answer given to client c

storeVars == <<value, version, got>>

\* The answer to a client that has read nothing, or whose read was refused.
Nothing == [name |-> Unset, version |-> 0, value |-> Unset]

StoreInit ==
  /\ value = [n \in Names |-> Unset]
  /\ version = [n \in Names |-> 0]
  /\ got = [c \in Clients |-> Nothing]

\* Replace the value of n and number the replacement, in one step.
Replace(n, v) ==
  /\ value' = [value EXCEPT ![n] = v]
  /\ version' = [version EXCEPT ![n] = @ + 1]
  /\ UNCHANGED got

\* Give client c the current version and value of n, as one snapshot.
Answer(c, n) ==
  /\ got' = [got EXCEPT ![c] = [name |-> n, version |-> version[n], value |-> value[n]]]
  /\ UNCHANGED <<value, version>>

\* Client c makes a call that is refused, or that reads nothing.
Refuse(c) ==
  /\ got' = [got EXCEPT ![c] = Nothing]
  /\ UNCHANGED <<value, version>>

StoreNext ==
  \/ \E n \in Names, v \in Values : Replace(n, v)
  \/ \E c \in Clients, n \in Names : Answer(c, n)
  \/ \E c \in Clients : Refuse(c)

StoreSpec == StoreInit /\ [][StoreNext]_storeVars
=============================================================================

-------------------------- MODULE MCConfigConsumer --------------------------
(* Small instances of ConfigConsumer for TLC: writers, and consumers that   *)
(* watch the logger, whose handler keeps the value, and a LED, whose        *)
(* handler does not.                                                        *)
EXTENDS ConfigConsumer, TLC

CONSTANTS writer1, consumer1, setup,   \* threads
          logger, led,                          \* names
          good, on                              \* payload and its value

MCPayloads == {good}
MCValues == {on}
MCParsed == good :> on
MCConsumers == {consumer1}
Cap(k, n) == [kind |-> k, name |-> n]

TwoNames == {logger, led}
TwoInterval == (logger :> 0) @@ (led :> 0)
TwoWatches == consumer1 :> <<logger, led>>

(* A consumer that boots together with the thread that registers its items  *)
(* and the one that updates them, twice in all.                             *)
BootThreads == {writer1, consumer1, setup}
BootHeld == (writer1 :> {Cap("write", logger), Cap("write", led)})
         @@ (setup :> {Cap("parser", logger), Cap("parser", led)})
         @@ (consumer1 :> {Cap("read", logger), Cap("read", led)})
BootBudgets == {(writer1 :> 2) @@ (setup :> 2) @@ (consumer1 :> 0)}

(* The same with one registration, for runs with faults. *)
FaultsBudgets == {(writer1 :> 2) @@ (setup :> 1) @@ (consumer1 :> 0)}
=============================================================================

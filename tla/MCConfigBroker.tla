--------------------------- MODULE MCConfigBroker ---------------------------
(* A small instance of ConfigBroker for TLC.  Each budget is a scenario: a  *)
(* thread with no calls takes no step.                                      *)
EXTENDS ConfigBroker, TLC

CONSTANTS writer, client, setup, other,  \* threads
          rgb, user,               \* names
          good, bad,               \* payloads
          on                       \* value

MCThreads == {writer, client, setup, other}
MCNames == {rgb, user}
MCPayloads == {good, bad}
MCValues == {on}
MCParsed == (good :> on) @@ (bad :> Rejected)
MCInterval == (rgb :> 1) @@ (user :> 1)
Cap(k, n) == [kind |-> k, name |-> n]

MCHeld == (writer :> {Cap("write", rgb)})
       @@ (client :> {Cap("write", rgb), Cap("read", rgb)})
       @@ (setup :> {Cap("parser", rgb)})
       @@ (other :> {Cap("parser", user), Cap("write", user)})

Calls(w, c, s, o) == (writer :> w) @@ (client :> c) @@ (setup :> s) @@ (other :> o)

(* Three updates of one item, or two and a reader of it, racing with its     *)
(* registration.                                                             *)
UpdatesBudget == Calls(2, 1, 1, 0)

(* Two items, of which the parser of user may never return: other registers  *)
(* and updates it while client uses rgb.                                     *)
ServesBudget == Calls(0, 1, 0, 2)

MCBudgets == {UpdatesBudget, ServesBudget}
=============================================================================

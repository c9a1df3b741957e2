----------------------------- MODULE MCJsSandbox -----------------------------
(* A small instance of JsSandbox for TLC: a script that may have the wrong *)
(* pointer, and other ways to fail: too few arguments, no function run, an *)
(* unknown import.                                                         *)
EXTENDS JsSandbox

MCScripts ==
  {[Hello EXCEPT !.calls = "Store", !.args = 3], [Hello EXCEPT !.calls = "LEDSet"],
   [Hello EXCEPT !.run = FALSE], [Hello EXCEPT !.calls = "Unknown"]}
=============================================================================

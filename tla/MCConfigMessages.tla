-------------------------- MODULE MCConfigMessages --------------------------
(* A small instance of ConfigMessages for TLC: the ids differ in the number *)
(* that the switches make, the messages each differ from a good one in one  *)
(* respect.                                                                 *)
EXTENDS ConfigMessages

CONSTANT LongNumbers   \* whether there are numbers of more than nine digits

MCSystems ==
  {[id |-> <<"a", "-", "0", "NUL">>, switches |-> {}],
   [id |-> <<"a", "-", "1", "NUL">>, switches |-> {0, 7}]}

rgb == <<"r", "L">>
user == <<"u", "L">>

Message(name, header, body) == [name |-> name, header |-> header, body |-> body]
Red(text) == [Colours1 EXCEPT !["led0.red"] = text]

\* Leading zeros, the largest and the first too large, no number, no such path.
RgbBodies ==
  {Colours1, Red(<<0, 0, 2, 5, 5>>), Red(<<2, 5, 6>>), Red(<<1, 10>>),
   [f \in RgbFields \ {"led1.blue"} |-> Digits[1]], Garbage}
  \cup IF LongNumbers THEN {Red(<<4, 2, 9, 4, 9, 6, 7, 3, 0, 1>>)} ELSE {Red(<<9, 9, 9, 9, 9, 9, 9, 9, 9>>)}

UserBodies == {Lights1, [Lights2 EXCEPT !["led7"] = "dim"]}

Names == {<<>>, <<"r">>, <<"u">>, <<"x", "L">>, rgb \o <<"/">>, user \o <<"x">>}

RgbMessages == {Message(rgb, h, b) : h \in {"none", "valid"}, b \in RgbBodies}
  \cup {Message(<<>>, h, Colours1) : h \in {"none", "valid"}}
UserMessages == {Message(user, h, b) : h \in {"none", "valid"}, b \in UserBodies}
OddNames == {Message(n, h, Lights1) : n \in Names, h \in {"none", "valid"}}
Forged == {Message(n, "forged", Lights1) : n \in {user, <<"u">>}}

MCReceived == {RgbMessages, UserMessages \cup OddNames \cup Forged}
=============================================================================

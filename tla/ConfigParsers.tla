---------------------------- MODULE ConfigParsers ----------------------------
(***************************************************************************)
(* The parsers of the configuration items, which turn what a provider was  *)
(* sent into the value that the broker publishes, or reject it.  The       *)
(* parsers of the LEDs read JSON: a document is a function from the paths  *)
(* it has to the texts found there, a number is the sequence of its        *)
(* digits, 10 standing for a character that is none.  The parsers of the   *)
(* logger and of the system copy a structure: characters are strings of    *)
(* length one, an array of them is a sequence.                             *)
(***************************************************************************)
EXTENDS Integers, Sequences, SequencesExt

CONSTANTS
  Garbage,   \* what is neither valid JSON nor as long as the structure
  Rejected   \* the answer of a parser that does not return 0

Bytes(n) == <<256, 65536>>[n]   \* how many values one byte has, or two

-----------------------------------------------------------------------------
(* parser_helper.h *)

\* The path is not found.
Missing(json, key) == key \notin DOMAIN json

\* acc *= 10 and acc += digit, on the two halves of an int of 32 bits, whose sign
\* bit is the first one of the upper half.
AddDigit(acc, digit) ==
  LET low == acc.low * 10 + digit
  IN  [high |-> (acc.high * 10 + low \div Bytes(2)) % Bytes(2), low |-> low % Bytes(2)]

\* The accumulator after all digits of a text.
Number(text) ==
  LET acc[i \in 0 .. Len(text)] ==
        IF i = 0 THEN [high |-> 0, low |-> 0] ELSE AddDigit(acc[i - 1], text[i])
  IN  acc[Len(text)]

\* Mutant: the value is not compared with what was stored of it.
get_number_truncated(json, key, size) ==
  IF Missing(json, key) \/ 10 \in ToSet(json[key]) THEN Rejected
  ELSE Number(json[key]).low % Bytes(size)

\* A number for a field of so many bytes, one or two.
get_number(json, key, size) ==
  IF Missing(json, key) \/ 10 \in ToSet(json[key]) THEN Rejected
  ELSE LET acc == Number(json[key]) IN
       IF acc.high = 0 /\ acc.low < Bytes(size) THEN acc.low ELSE Rejected

\* One of the names of an enumeration, in upper or lower case.
Spellings == [Off |-> {"off", "Off", "OFF", "oFF"}, On |-> {"on", "On", "ON", "oN"}]

\* Mutant: upper case is not understood.
get_enum_lower(json, key) ==
  IF Missing(json, key) \/ json[key] \notin {"off", "on"} THEN Rejected
  ELSE IF json[key] = "on" THEN "On" ELSE "Off"

get_enum(json, key) ==
  IF Missing(json, key) \/ \A s \in DOMAIN Spellings : json[key] \notin Spellings[s] THEN Rejected
  ELSE CHOOSE s \in DOMAIN Spellings : json[key] \in Spellings[s]

-----------------------------------------------------------------------------
(* The parsers *)

\* The fields of the LEDs, and the paths they are read from.
RgbFields == {"led0.red", "led0.green", "led0.blue", "led1.red", "led1.green", "led1.blue"}
UserFields == {"led0", "led1", "led2", "led3", "led4", "led5", "led6", "led7"}
UserLeds == <<"led0", "led1", "led2", "led3", "led4", "led5", "led6", "led7">>

\* A value, unless one of its fields was rejected.
Whole(value) == IF \E f \in DOMAIN value : value[f] = Rejected THEN Rejected ELSE value

parse_RGB_LED_config(json) ==
  IF json = Garbage THEN Rejected
  ELSE Whole([f \in RgbFields |-> get_number(json, f, 1)])

parse_User_LED_config(json) ==
  IF json = Garbage THEN Rejected
  ELSE Whole([f \in UserFields |-> get_enum(json, f)])

\* Copying an array of characters up to the NUL that ends it, or to its end.
Copied(array, valid) ==
  LET stops == {i \in DOMAIN array : array[i] \notin valid}
      stop == CHOOSE i \in stops : \A j \in stops : i <= j
  IN  IF stops = {} THEN array
      ELSE IF array[stop] = "NUL" THEN SubSeq(array, 1, stop - 1) ELSE Rejected

AddressChars == {".", "0", "1", "2", "3", "4", "5", "6", "7", "8", "9"}

\* The shapes of the values that are published, whatever the widths of their fields.
RgbValues == [RgbFields -> Nat]
UserValues == [UserFields -> {"On", "Off"}]
LoggerValues == [level : Nat, address : Seq(AddressChars), port : Nat]

\* That of a parser which does not return 0 is no value of a field or an item.
ASSUME RejectedAssumption ==
  /\ Rejected \notin Nat \cup {"On", "Off"} \cup Seq(AddressChars)
  /\ Rejected \notin RgbValues \cup UserValues \cup LoggerValues

parse_logger_config(src) ==
  IF src = Garbage THEN Rejected
  ELSE Whole([level |-> IF src.level \in 0 .. 3 THEN src.level ELSE Rejected,
              address |-> Copied(src.address, AddressChars),
              port |-> IF src.port > 0 THEN src.port ELSE Rejected])

\* The characters of an id, of which two letters, a digit and the punctuation
\* stand for all.
IdChars == {"a", "Z", "0", "1", "-", "_"}

parse_system_config(src) ==
  IF src = Garbage THEN Rejected
  ELSE Whole([id |-> Copied(src.id, IdChars), switches |-> src.switches])

Parse(item, body) ==
  CASE item = "rgb_led" -> parse_RGB_LED_config(body)
    [] item = "user_led" -> parse_User_LED_config(body)
    [] item = "logger" -> parse_logger_config(body)
    [] item = "system" -> parse_system_config(body)

-----------------------------------------------------------------------------
(* What a document means, whoever parses it *)

\* The decimal digits of a number.
Digits[n \in Nat] == IF n < 10 THEN <<n>> ELSE Append(Digits[n \div 10], n % 10)

\* The text, zeros in front of it aside, is the number written in decimal.
Represents(text, n) ==
  \E zeros \in 0 .. Len(text) :
    /\ \A i \in 1 .. zeros : text[i] = 0
    /\ SubSeq(text, zeros + 1, Len(text)) = IF n = 0 THEN <<>> ELSE Digits[n]

\* Documents that give a value to every field of the item, and nothing else.
WellFormed(item, body) ==
  /\ body # Garbage
  /\ CASE item = "rgb_led" ->
            /\ RgbFields \subseteq DOMAIN body
            /\ \A f \in RgbFields : \E n \in 0 .. 255 : Represents(body[f], n)
       [] item = "user_led" ->
            /\ UserFields \subseteq DOMAIN body
            /\ \A f \in UserFields : body[f] \in UNION {Spellings[s] : s \in DOMAIN Spellings}
=============================================================================

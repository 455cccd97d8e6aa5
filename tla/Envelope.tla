------------------------------ MODULE Envelope ------------------------------
(***************************************************************************)
(* The wire framing of the channel client in src/script.js.               *)
(*                                                                         *)
(* Channel._send JSON-encodes the five-element array                       *)
(*   [joinRef.toString(), messageRef.toString(), topic, event, payload]    *)
(* and Channel._parseMessage destructures a decoded array back into the   *)
(* record {joinRef, ref, topic, event, payload}.  A JSON array is a TLA+   *)
(* tuple here; the JSON text itself (quoting, commas) is layout and is     *)
(* left out.  What is kept is what the conversions do to the data: the     *)
(* integer references become decimal digit strings, and destructuring a   *)
(* shorter array yields undefined for the missing positions.               *)
(***************************************************************************)
EXTENDS Naturals, Sequences

CONSTANTS
    Null,       \* JSON null, as the server writes it for "no reference"
    Undefined   \* the JS value of a missing array position

\* A JS string of decimal digits is a sequence over 0..9.
Digit == 0..9

\* Number.prototype.toString() on a non-negative integer: its decimal digits,
\* most significant first, without leading zeros.
RECURSIVE ToDecimal(_)
ToDecimal(n) ==
    IF n < 10 THEN <<n>> ELSE ToDecimal(n \div 10) \o <<n % 10>>

\* The frame Channel._send writes, as the array handed to JSON.stringify.
Encode(joinRef, messageRef, topic, event, payload) ==
    <<ToDecimal(joinRef), ToDecimal(messageRef), topic, event, payload>>

\* Mutant: destructuring with event and payload in swapped positions.
ParseMessageSwapped(frame) ==
    LET At(i) == IF i <= Len(frame) THEN frame[i] ELSE Undefined
    IN  [joinRef |-> At(1), ref |-> At(2), topic |-> At(3),
         event |-> At(5), payload |-> At(4)]

\* Channel._parseMessage: array destructuring of the decoded frame.
ParseMessage(frame) ==
    LET At(i) == IF i <= Len(frame) THEN frame[i] ELSE Undefined
    IN  [joinRef |-> At(1), ref |-> At(2), topic |-> At(3),
         event |-> At(4), payload |-> At(5)]

\* The loose comparison `message.ref != null`: false for null and undefined.
IsNullish(v) == v \in {Null, Undefined}

\* `message.ref.toString()` on the string the server echoed: the key itself.
RefKey(ref) == ref

=============================================================================

------------------------------- MODULE JsonDecode -------------------------------
(***************************************************************************)
(* serializer::decode: Hoehrmann's automaton for UTF-8, through which      *)
(* json::dump sends the bytes of every string.                             *)
(***************************************************************************)
EXTENDS Integers, Sequences

Accept == 0
Reject == 1

ByteClass(b) ==
    CASE b < 128                       -> 0
      [] b \in 128 .. 143              -> 1
      [] b \in 144 .. 159              -> 9
      [] b \in 160 .. 191              -> 7
      [] b \in {192, 193} \cup 245 .. 255 -> 8
      [] b \in 194 .. 223              -> 2
      [] b = 224                       -> 10
      [] b = 237                       -> 4
      [] b \in (225 .. 239) \ {237}    -> 3
      [] b = 240                       -> 11
      [] b \in 241 .. 243              -> 6
      [] b = 244                       -> 5

(* The entries of the table that do not reject: state, class, next state.  *)
DecodeMoves == {
    <<0, 0, 0>>, <<0, 2, 2>>, <<0, 3, 3>>, <<0, 4, 5>>, <<0, 5, 8>>, <<0, 6, 7>>,
    <<0, 10, 4>>, <<0, 11, 6>>,
    <<2, 1, 0>>, <<2, 7, 0>>, <<2, 9, 0>>,
    <<3, 1, 2>>, <<3, 7, 2>>, <<3, 9, 2>>,
    <<4, 7, 2>>,
    <<5, 1, 2>>, <<5, 9, 2>>,
    <<6, 7, 3>>, <<6, 9, 3>>,
    <<7, 1, 3>>, <<7, 7, 3>>, <<7, 9, 3>>,
    <<8, 1, 3>>}

Decode(state, b) ==
    LET moves == {move \in DecodeMoves : move[1] = state /\ move[2] = ByteClass(b)}
    IN  IF moves = {} THEN Reject ELSE (CHOOSE move \in moves : TRUE)[3]

DecodeCodepoint(state, codepoint, b) ==
    IF state = Accept THEN b % (2 ^ (IF ByteClass(b) > 8 THEN 0 ELSE 8 - ByteClass(b)))
    ELSE codepoint * 64 + (b % 64)

-----------------------------------------------------------------------------
(* Where the automaton is after a text, and is that the end of a character *)
(* that can be written?                                                    *)
Decoded(s) ==
    LET state[n \in 0 .. Len(s)] == IF n = 0 THEN Accept ELSE Decode(state[n - 1], s[n])
    IN  state[Len(s)]

Decodes(s) == Decoded(s) = Accept
=============================================================================

-------------------------------- MODULE MCJson --------------------------------
(* Texts to parse: each scenario reaches another part of the library.      *)
EXTENDS Json

Bytes(set) == {<<c>> : c \in set}
As(n) == [i \in 1 .. n |-> 97]
Name(s) == <<Quote>> \o s \o <<Quote, Colon>>
Numeral(s) == [i \in DOMAIN s |-> 48 + s[i]]
Repeat(n, s) == FlattenSeq([i \in 1 .. n |-> s])

(* 2^63, 2^64 - 1, and 2 * 10^19, which needs 65 bits.                     *)
MinInt64 == Numeral(<<9, 2, 2, 3, 3, 7, 2, 0, 3, 6, 8, 5, 4, 7, 7, 5, 8, 0, 8>>)
MaxUint64 == Numeral(<<1, 8, 4, 4, 6, 7, 4, 4, 0, 7, 3, 7, 0, 9, 5, 5, 1, 6, 1, 5>>)
TwoE19 == Numeral(<<2>> \o Zeros(19))

Brackets == Bytes({LeftBracket, RightBracket, LeftBrace, RightBrace, Comma})
Numbers == {Append(n, Blank) : n \in {Numeral(<<2, 0, 0>>), <<Hyphen>> \o Numeral(<<2, 0, 0>>),
                                      Numeral(<<7, 0, 0, 0, 0>>), <<49, Dot, 53>>, MaxUint64}}

(* Around the sizes at which a binary format changes its prefix.           *)
Strings ==
    {<<LeftBrace>> \o Name(<<97>>) \o <<Quote>> \o As(n) \o <<Quote, RightBrace>> :
        n \in {23, 24, 31, 32, 127, 128, 255, 256}}
Arrays == {<<LeftBracket>> \o Repeat(n, <<49, Comma>>) \o <<49, RightBracket>> : n \in {14, 15, 22, 23}}
Objects ==
    {<<LeftBrace>> \o FlattenSeq([i \in 1 .. n |-> Name(<<96 + i>>) \o <<49, Comma>>]) \o
        Name(As(2)) \o <<49, RightBrace>> : n \in {14, 15, 22, 23}}

MCScenarios == [
    structure |-> [most |-> 7, pieces |->
        Brackets \cup Bytes({Colon, 49, Blank, NUL}) \cup {<<Quote, 97, Quote>>}],
    numbers   |-> [most |-> 6, pieces |-> Bytes({Hyphen, Zero, 49, Dot, LowerE, Plus, Comma})],
    limits    |-> [most |-> 3, pieces |->
        Bytes({Hyphen, LowerE, Dot}) \cup {MinInt64, MaxUint64, TwoE19, Numeral(<<4, 0, 0>>),
        <<LowerE, Hyphen>>, Numeral(<<3, 0, 8>>)}],
    literals  |-> [most |-> 5, pieces |-> Bytes(Range(TrueText \o FalseText \o NullText))],
    mark      |-> [most |-> 5, pieces |-> Bytes({239, 187, 191, 49, Blank})],
    utf8      |-> [most |-> 6, pieces |-> Bytes(
        {Quote, 97, 127, 128, 144, 160, 191, 193, 194, 224, 225, 237, 240, 241, 244, 245})],
    escapes   |-> [most |-> 6, pieces |-> Bytes({Quote, Backslash, 10, 110}) \cup
        {<<Backslash, LowerU>>, <<48, 48>>, <<52, 49>>, <<68, 56, 48, 48>>, <<100, 99, 48, 48>>}],
    values    |-> [most |-> 5, pieces |->
        Brackets \cup Numbers \cup {TrueText, NullText, Name(<<97>>), Name(<<126, 49, 47>>), <<Quote, 98, Quote>>,
        Name(<<Backslash, LowerU>> \o Numeral(<<0, 0, 0, 0>>))}],
    sizes     |-> [most |-> 1, pieces |-> Strings \cup Arrays \cup Objects]
]

MCEndings == {<<>>, <<49>>, <<RightBracket>>, <<RightBrace>>, <<Quote>>, <<49, RightBracket>>,
              <<Quote, RightBracket>>, <<Colon, 49, RightBrace>>, <<RightBrace, RightBracket>>,
              <<101>>, <<108, 108>>}

A == <<97>>
List(texts) == <<LeftBracket>> \o FlattenSeq([i \in DOMAIN texts |->
    IF i = 1 THEN texts[i] ELSE <<Comma>> \o texts[i]]) \o <<RightBracket>>
Single(name, value) == <<LeftBrace>> \o Name(name) \o value \o <<RightBrace>>

MCOthers == {Parse(t).dom.root : t \in {
    TrueText, List(<<>>), <<LeftBrace, RightBrace>>,
    List(<<NullText, TrueText, Numeral(<<2, 0, 0>>)>>),
    List(<<TrueText, List(<<NullText, NullText>>), Single(A, TrueText)>>),
    Single(A, Single(A, List(<<NullText>>))),
    Single(<<126, 49, 47>>, List(<<TrueText, NullText, NullText>>))}}
=============================================================================

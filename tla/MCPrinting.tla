----------------------------- MODULE MCPrinting -----------------------------
(* What the kernel prints, with shorter words: the formats of kmain(),     *)
(* startup(), status() and panic(), and one of each remaining sequence.    *)
EXTENDS Printing

Plain == [conv |-> "literal", text |-> <<>>, value |-> 0,
          long |-> FALSE, unsigned |-> FALSE, limit |-> <<>>]
Literal(chars) == [k \in DOMAIN chars |-> [Plain EXCEPT !.text = <<chars[k]>>]]
Sequence(chars) == Literal(<<ESC, "[">> \o chars)
Directive(conv, value) == <<[Plain EXCEPT !.conv = conv, !.value = value]>>
Long(conv, value) == <<[Plain EXCEPT !.conv = conv, !.value = value, !.long = TRUE]>>
UnsignedLong(value) == <<[Plain EXCEPT !.conv = "d", !.value = value,
                                       !.long = TRUE, !.unsigned = TRUE]>>
String(text) == <<[Plain EXCEPT !.conv = "s", !.text = text]>>
Limited(text, limit) == <<[Plain EXCEPT !.conv = "s", !.text = text, !.limit = <<limit>>]>>
Char(c) == <<[Plain EXCEPT !.conv = "c", !.text = <<c>>]>>

Boot == Sequence(<<"3", "7", ";", "4", "0", "m">>) \o Sequence(<<"2", "J">>)
          \o Sequence(<<"H">>) \o Literal(<<"\n">>)
Welcome == Literal(<<ESC, "[">>) \o UnsignedLong(13) \o Literal(<<";">>)
             \o UnsignedLong(1) \o Literal(<<"H", "W">>)
Status == Sequence(<<"s">>) \o Sequence(<<"H">>) \o Sequence(<<"3", "0", ";", "4", "7", "m">>)
            \o Sequence(<<"2", "K">>) \o Literal(<<"O">>)
            \o Sequence(<<"4", "0", ";", "0", "H">>) \o UnsignedLong(12)
StatusEnd == Sequence(<<"1", "0", "0", "0", "0", "C">>) \o Char("|")
               \o Sequence(<<"u">>) \o Sequence(<<"0", "m">>)
PanicTitle == Sequence(<<"4", "8", ";", "5", ";", "1", "5", "m">>)
                \o Sequence(<<"3", "1", "m">>) \o Literal(<<"K", "\n">>)
PanicCause == String(<<"f", "a", "u", "l", "t">>) \o Directive("x", 10)
                \o Literal(<<"\n">>) \o Directive("p", 255)
PanicFlags == Literal(<<"0", "b">>) \o Directive("b", 5) \o Long("b", 130)
Cut == String([k \in 1..27 |-> "x"]) \o Long("d", -128) \o Literal(<<"y">>)
CutNumber == Literal(<<"y">>) \o Limited([k \in 1..9 |-> "x"], 4) \o String([k \in 1..24 |-> "x"]) \o Directive("p", 1)
Moves == Sequence(<<"1", "A">>) \o Sequence(<<"2", "B">>) \o Sequence(<<"1", "D">>)
           \o Sequence(<<"1", "E">>) \o Sequence(<<"5", "G">>) \o Literal(<<"\r">>)
Others == Sequence(<<"1", "F">>) \o Sequence(<<"1", "S">>) \o Sequence(<<"0", "J">>)
            \o Sequence(<<"1", "K">>) \o Sequence(<<"4", "9", ";", "3", "9", "m">>)
            \o Literal(<<ESC, "c">>)
Rgbs == Sequence(<<"3", "8", ";", "2", ";", "9", ";", "9", ";", "9", "m">>)
          \o Long("d", -3) \o Long("x", 107)

KernelCalls == <<Boot, Welcome, Status, StatusEnd, PanicTitle, PanicCause, PanicFlags,
                 Cut, CutNumber, Moves, Others, Rgbs>>

=============================================================================

------------------------------ MODULE Printing ------------------------------
(***************************************************************************)
(* printf() of src/printing.cpp: vsnprintf() writes the text into a buffer *)
(* of the stack, kprint() and parse_ansi() show it and obey its escape     *)
(* sequences.  One character, or one sequence, is a step.                  *)
(*                                                                         *)
(* One process prints at a time: boot, the panic screen (both with the     *)
(* interrupts disabled), startup().  Of the screen the model has what the  *)
(* code reads again: the cursor, the saved cursor and the colors.  A text  *)
(* is a sequence of characters; a format, of literal characters and        *)
(* directives that carry their argument.                                   *)
(***************************************************************************)
EXTENDS Integers, SequencesExt

CONSTANTS
    text_width, text_height,
    BYTE,                   \* 2^8, the range of the cursor's coordinates
    INT_BITS, LONG_BITS,
    size,                   \* of printf()'s buffer
    DEC_BUFSIZE,            \* of the buffer for a number
    Calls                   \* the formats printed, with their arguments

ASSUME PrintingAssumption ==
    /\ text_width \in Nat \ {0} /\ text_height \in Nat \ {0}
    /\ size \in Nat /\ size > LONG_BITS \div 4 /\ DEC_BUFSIZE \in Nat

VARIABLES
    pc,             \* "caller", "vsnprintf", "kprint", or "undefined": past the
                    \* end of a buffer
    call,           \* history: which of Calls is printed
    fmt,            \* what vsnprintf() has not converted yet
    str, string,    \* the buffer, and kprint()'s position in it
    curx, cury, saved_curx, saved_cury, default_color

cursorVars == <<curx, cury, saved_curx, saved_cury>>
vars == <<pc, call, fmt, str, string, cursorVars, default_color>>

NUL == "NUL"
ESC == "ESC"
Decimal == <<"0", "1", "2", "3", "4", "5", "6", "7", "8", "9">>
Digits == Decimal \o <<"a", "b", "c", "d", "e", "f">>

Least(a, b) == IF a < b THEN a ELSE b
Greatest(a, b) == IF a > b THEN a ELSE b

Init ==
    /\ pc = "caller" /\ call = 1 /\ fmt = <<>> /\ str = <<>> /\ string = 1
    /\ curx = 0 /\ cury = 0 /\ saved_curx = 0 /\ saved_cury = 0
    /\ default_color = [fg |-> 0, bg |-> 7]   \* until the first \e[0m

-----------------------------------------------------------------------------
(* vsnprintf().                                                            *)

\* Digits from the last to the first, at least min_len, then turned around.
utoa(value, base, min_len) ==
    LET Written[v \in Nat, n \in Nat] ==
          IF v \div base # 0 \/ n + 1 < min_len
          THEN Append(Written[v \div base, n + 1], Digits[(v % base) + 1])
          ELSE <<Digits[(v % base) + 1]>>
    IN  Written[value, 0]

itoa(value, base) ==
    IF value < 0 THEN <<"-">> \o utoa(-value, base, 0) ELSE utoa(value, base, 0)

\* The argument in tmp: the type of the ternary that reads it is unsigned, so
\* that an int gets no sign on its way to itoa(long).
Tmp(d) == d.value % 2^(IF d.long THEN LONG_BITS ELSE INT_BITS)
Signed(tmp) == IF 2 * tmp >= 2^LONG_BITS THEN tmp - 2^LONG_BITS ELSE tmp

\* The digits of a number's directive.
Numeral(d) ==
    CASE d.conv = "p" -> utoa(d.value, 16, LONG_BITS \div 4)
      [] d.conv = "b" -> utoa(Tmp(d), 2, IF d.long THEN LONG_BITS ELSE INT_BITS)
      [] OTHER -> LET base == IF d.conv = "x" THEN 16 ELSE 10
                  IN  IF d.unsigned THEN utoa(Tmp(d), base, 0)
                                    ELSE itoa(Signed(Tmp(d)), base)

\* Mutant: the terminator's place is forgotten.
Refused_NoTerminator(d, out) ==
    IF d.conv = "p"
    THEN d.long \/ out > size - (LONG_BITS \div 4)
    ELSE Len(Numeral(d)) > size - out

\* A number that does not fit ends the text, and so does a 'l' out of place.
Refused(d, out) ==
    IF d.conv = "p"
    THEN d.long \/ out > size - (LONG_BITS \div 4 + 1)
    ELSE Len(Numeral(d)) > size - out - 1

\* Mutant: the limit of a string counts from the beginning of the text.
CurSize_Absolute(d, out) == IF d.limit = <<>> THEN size - 1 ELSE Least(d.limit[1], size - 1)

\* Where a string must end: at the end of the buffer or at its %.* limit.
CurSize(d, out) == IF d.limit = <<>> THEN size - 1 ELSE Least(out + d.limit[1], size - 1)

Numbers == {"p", "d", "x", "b"}

Convert(d) ==
    LET out == Len(str)
    IN  CASE d.conv \in Numbers ->
               /\ pc' = IF d.conv # "p" /\ Len(Numeral(d)) + 1 > DEC_BUFSIZE
                        THEN "undefined" ELSE pc
               /\ IF Refused(d, out) THEN fmt' = <<>> /\ str' = str
                  ELSE fmt' = Tail(fmt) /\ str' = str \o Numeral(d)
          [] d.conv = "s" ->
               /\ IF d.long THEN fmt' = <<>> /\ str' = str
                  ELSE /\ fmt' = Tail(fmt)
                       /\ str' = str \o SubSeq(d.text, 1, Least(Len(d.text), CurSize(d, out) - out))
               /\ pc' = pc
          [] d.conv \in {"c", "literal"} ->
               /\ IF d.long THEN fmt' = <<>> /\ str' = str
                  ELSE fmt' = Tail(fmt) /\ str' = str \o d.text
               /\ pc' = pc
          [] OTHER -> fmt' = Tail(fmt) /\ str' = str /\ pc' = pc

Printf(i) ==
    /\ pc = "caller"
    /\ pc' = "vsnprintf" /\ call' = i /\ fmt' = Calls[i] /\ str' = <<>> /\ string' = 1
    /\ UNCHANGED <<cursorVars, default_color>>

\* One round of the loop of vsnprintf(), and its end.
Vsnprintf ==
    /\ pc = "vsnprintf"
    /\ IF Len(str) < size - 1 /\ fmt # <<>>
       THEN Convert(Head(fmt))
       ELSE pc' = "kprint" /\ fmt' = <<>> /\ str' = Append(str, NUL)
    /\ UNCHANGED <<call, string, cursorVars, default_color>>

-----------------------------------------------------------------------------
(* The numbers and colors of an escape sequence.  A position past the      *)
(* terminator reads whatever the stack holds: At gives no character there. *)

At(i) == IF i \in DOMAIN str THEN str[i] ELSE "garbage"
DigitValue == [c \in Range(Decimal) |-> (CHOOSE k \in 0..9 : Decimal[k + 1] = c)]
IsDigit(c) == c \in DOMAIN DigitValue

\* get_number(): the position after the digits at i, and their value.
AfterNumber(i) == CHOOSE j \in i..(Len(str) + 1) :
                    /\ \A k \in i..(j - 1) : IsDigit(At(k))
                    /\ ~IsDigit(At(j))
get_number(i) ==
    LET Value[j \in (i - 1)..Len(str)] ==
          IF j < i THEN 0 ELSE 10 * Value[j - 1] + DigitValue[str[j]]
    IN  Value[AfterNumber(i) - 1]

Rgb == 16   \* any color that is not in the palette
Palette(n) == LET Swapped == <<0, 4, 2, 6, 1, 5, 3, 7>>
              IN  IF n < 8 THEN Swapped[n + 1] ELSE Swapped[n - 7] + 8

Failed(i, color) == [ok |-> FALSE, pos |-> i, color |-> color]

\* 38 and 48: a color of the palette (5;n), or by its components (2;r;g;b).
ExtendedColor(ground, i, color) ==
    LET j == AfterNumber(i + 1)
        r == AfterNumber(j + 1)
        g == AfterNumber(r + 1)
    IN  CASE At(i) # ";" -> Failed(i, color)
          [] At(i) = ";" /\ At(j) # ";" -> Failed(j, color)
          [] At(i) = ";" /\ At(j) = ";" /\ get_number(i + 1) = 5 ->
               IF get_number(j + 1) > 15 THEN Failed(r, color)
               ELSE [ok |-> TRUE, pos |-> r,
                     color |-> [color EXCEPT ![ground] = Palette(get_number(j + 1))]]
          [] At(i) = ";" /\ At(j) = ";" /\ get_number(i + 1) = 2 ->
               IF At(r) # ";" THEN Failed(r, color)
               ELSE IF At(g) # ";" THEN Failed(g, color)
               ELSE [ok |-> TRUE, pos |-> AfterNumber(g + 1),
                     color |-> [color EXCEPT ![ground] = Rgb]]
          [] OTHER -> [ok |-> TRUE, pos |-> j, color |-> color]

\* What one number does to the colors; i is the position after it.
OneColor(num, i, color) ==
    LET ground == IF num < 40 THEN "fg" ELSE "bg"
        default == IF num < 40 THEN 7 ELSE 0
        Set(n) == [ok |-> TRUE, pos |-> i, color |-> [color EXCEPT ![ground] = n]]
    IN  CASE num \in 30..49 /\ num % 10 < 8 -> Set(Palette(num % 10))
          [] num \in {38, 48} -> ExtendedColor(ground, i, color)
          [] num \in {39, 49} -> Set(default)
          [] num = 0 /\ At(i) = "m" -> [ok |-> TRUE, pos |-> i, color |-> [fg |-> 7, bg |-> 0]]
          [] OTHER -> Failed(i, color)

RECURSIVE set_color(_, _, _)
set_color(num, i, color) ==
    LET set == OneColor(num, i, color)
    IN  IF ~set.ok THEN set
        ELSE IF At(set.pos) = ";"
        THEN set_color(get_number(set.pos + 1), AfterNumber(set.pos + 1), set.color)
        ELSE [set EXCEPT !.ok = At(set.pos) = "m"]

-----------------------------------------------------------------------------
(* kprint() and parse_ansi().                                              *)

\* Mutant: the erasure of a line goes one column further.
ByteLoopEnds_Inclusive(bound) == bound + 1 < BYTE

\* for (uint8_t i = ..; i < bound; i++) ends.
ByteLoopEnds(bound) == bound < BYTE

\* The end of a round of kprint(): the row past the last one scrolls up.
Shown(i, x, y) ==
    /\ curx' = x
    /\ cury' = IF y = text_height THEN y - 1 ELSE y
    /\ string' = i
    /\ pc' = IF i \in DOMAIN str THEN pc ELSE "undefined"

\* The default case of kprint().
PutChar ==
    LET x == (curx + 1) % BYTE
    IN  /\ Shown(string + 1, x % text_width, (cury + x \div text_width) % BYTE)
        /\ UNCHANGED <<saved_curx, saved_cury, default_color>>

\* '\n' clears the rest of the row with a loop on the 8-bit column; a loop
\* that does not end is a round that changes nothing.
NewLine ==
    /\ IF ByteLoopEnds(text_width)
       THEN Shown(string + 1, 0, (cury + 1) % BYTE)
       ELSE UNCHANGED <<pc, string, curx, cury>>
    /\ UNCHANGED <<saved_curx, saved_cury, default_color>>

CarriageReturn ==
    /\ Shown(string + 1, 0, cury)
    /\ UNCHANGED <<saved_curx, saved_cury, default_color>>

\* What a sequence that ends at position i does, unless it says otherwise.
Still(i) == [pos |-> i, x |-> curx, y |-> cury, saved |-> <<saved_curx, saved_cury>>,
             color |-> default_color, ends |-> TRUE]

\* Forward by num at most, up to the last column or row; the room is unsigned.
Forward(at, num, bound) ==
    (at + IF at < bound THEN Least(num, bound - at - 1) ELSE num) % BYTE

\* Mutant: the colors set before the sequence fails stay.
ColorOrPosition_KeepsColor(num, j) ==
    LET set == set_color(num, j, default_color)
        k == AfterNumber(j + 1)
    IN  IF set.ok THEN [Still(set.pos) EXCEPT !.color = set.color]
        ELSE IF At(k) = "H"
        THEN [Still(k) EXCEPT !.x = num % text_width, !.color = set.color,
                              !.y = get_number(j + 1) % text_height]
        ELSE [Still(k) EXCEPT !.color = set.color]

\* Two or more numbers are colors when all of them are, else a position.
ColorOrPosition(num, j) ==
    LET set == set_color(num, j, default_color)
        k == AfterNumber(j + 1)
    IN  IF set.ok THEN [Still(set.pos) EXCEPT !.color = set.color]
        ELSE IF At(k) = "H"
        THEN [Still(k) EXCEPT !.x = num % text_width,
                              !.y = get_number(j + 1) % text_height]
        ELSE Still(k)

\* K and J erase with loops on 8-bit counters; the condition of 1J compares
\* x < y with the row, and ends with the cursor at home alone.
Erases(final, num) ==
    CASE final = "K" /\ num \in {0, 2} -> ByteLoopEnds(text_width)
      [] final = "K" /\ num = 1 -> ByteLoopEnds(curx + 1)
      [] final = "S" -> ByteLoopEnds(num)
      [] final = "J" /\ num = 0 -> ByteLoopEnds(text_width) /\ ByteLoopEnds(text_height)
      [] final = "J" /\ num = 1 -> curx = 0 /\ cury = 0
      [] OTHER -> TRUE

\* A sequence with a number, which ends at j.
Numbered(num, j) ==
    LET final == At(j)
    IN  CASE final \in {"m", ";"} -> ColorOrPosition(num, j)
          [] final = "J" /\ num = 2 -> [Still(j) EXCEPT !.x = 0, !.y = 0]
          [] final \in {"K", "S", "J"} /\ ~(final = "J" /\ num = 2) ->
               [Still(j) EXCEPT !.ends = Erases(final, num)]
          [] final = "A" -> [Still(j) EXCEPT !.y = cury - Least(num, cury)]
          [] final = "B" -> [Still(j) EXCEPT !.y = Forward(cury, num, text_height)]
          [] final = "C" -> [Still(j) EXCEPT !.x = Forward(curx, num, text_width)]
          [] final = "D" -> [Still(j) EXCEPT !.x = curx - Least(num, curx)]
          [] final = "E" -> [Still(j) EXCEPT !.x = 0,
                               !.y = IF cury > text_height THEN text_height
                                     ELSE (cury + Greatest(num, text_height - cury)) % BYTE]
          [] final = "F" -> [Still(j) EXCEPT !.x = 0, !.y = cury - Least(num, cury)]
          [] final = "G" -> [Still(j) EXCEPT !.x = num % text_width]
          [] OTHER -> Still(j)

Unnumbered(i) ==
    CASE At(i) = "s" -> [Still(i) EXCEPT !.saved = <<curx, cury>>]
      [] At(i) = "u" -> [Still(i) EXCEPT !.x = saved_curx, !.y = saved_cury]
      [] At(i) = "H" -> [Still(i) EXCEPT !.x = 0, !.y = 0]
      [] OTHER -> Still(i)

parse_ansi(i) ==
    IF IsDigit(At(i)) THEN Numbered(get_number(i), AfterNumber(i)) ELSE Unnumbered(i)

\* kprint() skips the character where the sequence ended, whichever it is.
Escape ==
    LET result == IF At(string + 1) = "[" THEN parse_ansi(string + 2) ELSE Still(string + 1)
    IN  /\ IF result.ends THEN Shown(result.pos + 1, result.x, result.y)
           ELSE UNCHANGED <<pc, string, curx, cury>>
        /\ saved_curx' = result.saved[1] /\ saved_cury' = result.saved[2]
        /\ default_color' = result.color

Kprint ==
    /\ pc = "kprint"
    /\ CASE str[string] = NUL ->
              pc' = "caller" /\ UNCHANGED <<string, cursorVars, default_color>>
         [] str[string] = "\n" -> NewLine
         [] str[string] = "\r" -> CarriageReturn
         [] str[string] = ESC -> Escape
         [] OTHER -> PutChar
    /\ UNCHANGED <<call, fmt, str>>

Next ==
    \/ \E i \in DOMAIN Calls : Printf(i)
    \/ Vsnprintf
    \/ Kprint

\* The process that prints goes on; whether it prints again is its own choice.
Spec == Init /\ [][Next]_vars /\ WF_vars(Vsnprintf) /\ WF_vars(Kprint)

-----------------------------------------------------------------------------
(* Properties.                                                             *)

\* The buffer never holds more than its size, whatever is converted into its
\* last characters, and the other variables have the source's types.
TypeOK ==
    /\ pc \in {"caller", "vsnprintf", "kprint", "undefined"}
    /\ call \in DOMAIN Calls
    /\ Len(str) <= size
    /\ {curx, cury, saved_curx, saved_cury} \subseteq 0..(BYTE - 1)
    /\ default_color \in [fg : 0..Rgb, bg : 0..Rgb]

\* What a directive stands for: the numeral of its argument, digit by digit.
PositionalNumeral(value, base, least) ==
    LET n == CHOOSE n \in 1..(LONG_BITS + 1) :
               /\ n >= least /\ value < base^n
               /\ \A m \in 1..(n - 1) : m < least \/ value >= base^m
    IN  [k \in 1..n |-> Digits[((value \div base^(n - k)) % base) + 1]]

Meant(d) ==
    CASE d.conv = "d" /\ ~d.unsigned /\ d.value < 0 -> <<"-">> \o PositionalNumeral(-d.value, 10, 1)
      [] d.conv = "d" /\ d.value >= 0 -> PositionalNumeral(d.value, 10, 1)
      [] d.conv = "x" -> PositionalNumeral(d.value, 16, 1)
      [] d.conv = "p" -> PositionalNumeral(d.value, 16, LONG_BITS \div 4)
      [] d.conv = "b" -> PositionalNumeral(d.value, 2, IF d.long THEN LONG_BITS ELSE INT_BITS)
      [] d.conv = "s" -> IF d.limit = <<>> THEN d.text
                         ELSE SubSeq(d.text, 1, Least(Len(d.text), d.limit[1]))
      [] OTHER -> d.text

\* vsnprintf() writes what the format and its arguments mean, terminated: all
\* of it when it fits, else a beginning of it.
MeaningKept ==
    pc = "kprint" /\ string = 1 =>
        LET meaning == FlattenSeq([k \in DOMAIN Calls[call] |-> Meant(Calls[call][k])])
        IN  /\ Last(str) = NUL
            /\ IsPrefix(Front(str), meaning)
            /\ Len(meaning) < size => Front(str) = meaning

\* Between two characters the cursor is on the screen: kprint() sees the row
\* past the last one in the round that enters it, and only then.
InScreen == curx < text_width /\ cury < text_height

\* No number overflows its buffer and no sequence makes kprint() read past the
\* terminator.
Defined == pc # "undefined"

\* Nothing leaves its bounds: texts their buffers, kprint() its text, the cursor
\* the screen.
InBounds == TypeOK /\ InScreen /\ Defined

\* A sequence that is no color leaves the colors alone, also when its first
\* number is one, as in the "40;0H" of the status line.
ColorsKept ==
    [][default_color' # default_color => str[string' - 1] = "m"]_vars

\* printf() returns: no loop on an 8-bit counter is endless, up to the widest
\* screen such a counter can walk.
PrintfReturns == pc = "vsnprintf" ~> pc = "caller"

=============================================================================

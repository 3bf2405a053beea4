------------------------------- MODULE Markup -------------------------------
(***************************************************************************)
(* utils/chat.go: Para2Json, which cuts a text with §-codes into parts     *)
(* with a style each.  A URL is one symbol of the text; how the parts are  *)
(* written as JSON is left out.                                            *)
(***************************************************************************)
EXTENDS Integers, SequencesExt, FiniteSetsExt

CONSTANTS
    Plain,      \* symbols that mean nothing after the sign
    Styles,     \* l, m, n, o: bold, strikethrough, underline, italic
    Colors,     \* 0 .. 9, a .. f
    MaxInput    \* bound: symbols of a text

Para == "para"      \* the sign
Reset == "r"
Brace == "{"        \* meant for click events: changes nothing
Url == "url"
White == "white"
NoColor == ""

Symbols == Plain \cup Styles \cup Colors \cup {Para, Reset, Brace, Url}

MarkupAssumption ==
    /\ Styles \cap Colors = {} /\ {Reset, Brace, NoColor} \cap (Styles \cup Colors) = {}
    /\ MaxInput \in Nat

VARIABLES
    input,      \* the text read so far
    at,         \* "text", "mode" (after the sign) or "done"
    buf, style, color,
    parts

vars == <<input, at, buf, style, color, parts>>

Init ==
    /\ input = <<>> /\ at = "text" /\ buf = <<>>
    /\ style = {} /\ color = NoColor /\ parts = <<>>

Part(text, click) ==
    IF text = <<>> THEN <<>>
    ELSE <<[text |-> text, style |-> style, color |-> color, click |-> click]>>

\* The parts made of what has been buffered: the first URL is a part of its own.
Flushed ==
    LET urls == {i \in DOMAIN buf : buf[i] = Url}
        a == Min(urls)
    IN  IF urls = {} THEN Part(buf, FALSE)
        ELSE Part(SubSeq(buf, 1, a - 1), FALSE) \o Part(<<Url>>, TRUE)
                \o Part(SubSeq(buf, a + 1, Len(buf)), FALSE)

\* Mutant of SetMode: a colour leaves the styles as they are.
SetModeKeep(c) ==
    /\ style' = IF c \in Styles THEN style \cup {c} ELSE IF c = Reset THEN {} ELSE style
    /\ color' = IF c \in Colors THEN c
                ELSE IF c = Reset /\ color # NoColor THEN White ELSE color

SetMode(c) ==
    /\ style' = IF c \in Styles THEN style \cup {c} ELSE IF c = Brace THEN style ELSE {}
    /\ color' = IF c \in Colors THEN c
                ELSE IF c = Reset /\ color # NoColor THEN White ELSE color

ReadRune(c) ==
    /\ at # "done" /\ Len(input) < MaxInput
    /\ input' = Append(input, c)
    /\ \/ /\ at = "text" /\ c # Para
          /\ buf' = Append(buf, c)
          /\ UNCHANGED <<at, style, color, parts>>
       \/ /\ at = "text" /\ c = Para
          /\ parts' = parts \o Flushed
          /\ buf' = <<>> /\ at' = "mode"
          /\ UNCHANGED <<style, color>>
       \/ /\ at = "mode"
          /\ SetMode(c)
          /\ at' = "text"
          /\ UNCHANGED <<buf, parts>>

\* The code that is appended to the text flushes the buffer.  After a sign that ends the
\* text, the appended sign is its mode and the r stays in the buffer, which is dropped.
End ==
    /\ at # "done"
    /\ at' = "done"
    /\ IF at = "text" THEN parts' = parts \o Flushed /\ buf' = <<>> /\ SetMode(Reset)
       ELSE SetMode(Para) /\ buf' = <<Reset>> /\ UNCHANGED parts
    /\ UNCHANGED input

Again ==
    /\ at = "done"
    /\ input' = <<>> /\ at' = "text" /\ buf' = <<>>
    /\ style' = {} /\ color' = NoColor /\ parts' = <<>>

Next == (\E c \in Symbols : ReadRune(c)) \/ End \/ Again

Spec == Init /\ [][Next]_vars

-----------------------------------------------------------------------------
\* Whether the i-th symbol of a text is a mode: an odd number of signs stands before it,
\* since every second sign in a row is the mode of the one before.
IsMode(s, i) ==
    \E k \in 1 .. i - 1 :
        /\ (i - k) % 2 = 1
        /\ \A j \in k .. i - 1 : s[j] = Para
        /\ k > 1 => s[k - 1] # Para

\* The style and the colour that the codes before position i give to what follows.
StyleAt(s, i) ==
    LET modes == {j \in 1 .. i - 1 : IsMode(s, j)}
        last == Max({0} \cup {j \in modes : s[j] \notin Styles \cup {Brace}})
    IN  {s[j] : j \in {k \in modes : k > last}} \ {Brace}
ColorAt(s, i) ==
    LET sets == {j \in 1 .. i - 1 : IsMode(s, j) /\ s[j] \in Colors \cup {Reset}}
    IN  IF \A j \in sets : s[j] = Reset THEN NoColor
        ELSE IF s[Max(sets)] = Reset THEN White ELSE s[Max(sets)]

\* What is to be seen of the i-th symbol, and what is seen of a part.
Wanted(s, i) ==
    IF IsMode(s, i) \/ s[i] = Para THEN <<>> ELSE <<<<s[i], StyleAt(s, i), ColorAt(s, i)>>>>
Seen(p) == [k \in DOMAIN p.text |-> <<p.text[k], p.style, p.color>>]

\* The parts show all of the text and nothing else, in order, and every symbol in the style
\* of the codes since the last one that is no style, in the last colour.
Faithful ==
    at = "done" =>
        FlattenSeq([i \in DOMAIN parts |-> Seen(parts[i])]) =
            FlattenSeq([i \in DOMAIN input |-> Wanted(input, i)])
=============================================================================

-------------------------------- MODULE Texts --------------------------------
(***************************************************************************)
(* The texts that filters send: the strings of plugin messages (Java) and  *)
(* the markup of chat (Text), side by side.  Neither reads what the other  *)
(* writes.                                                                 *)
(***************************************************************************)
EXTENDS Integers

CONSTANTS Chars, MaxText, MaxSize, Plain, Styles, Colors, MaxInput

VARIABLES text, at, wire,
          input, place, buf, style, color, parts

javaVars == <<text, at, wire>>
markupVars == <<input, place, buf, style, color, parts>>

Java == INSTANCE JavaUTF
Text == INSTANCE Markup WITH at <- place

ASSUME TextsAssumption == Java!JavaUTFAssumption /\ Text!MarkupAssumption

TextsInit == Java!Init /\ Text!Init

JavaStep == Java!Next /\ UNCHANGED markupVars
MarkupStep == Text!Next /\ UNCHANGED javaVars

TextsSpec == TextsInit /\ [][JavaStep \/ MarkupStep]_<<javaVars, markupVars>>

-----------------------------------------------------------------------------
\* A string that a server wrote in Java's encoding is read as the same text, and what the
\* proxy writes is what Java would write, whatever the sizes of the characters.
AgreesWithJava == Java!AgreesWithJava

\* The parts that Para2Json makes show all of the text and nothing else, in order, every
\* symbol in the style and the colour that the codes before it ask for.
Faithful == Text!Faithful
=============================================================================

---------------------------- MODULE MCStringScan ----------------------------
(* Files of a few characters of code, strings and comments, and files of one
   backtick string with expressions, of one or of three backticks.          *)
EXTENDS StringScan

CONSTANTS MaxFile,          \* characters in a file
          MaxString,        \* in a string of one backtick
          MaxTriple         \* in a string of three backticks

InFile == {"a", "quote", "tick", "slash", "back", "nl"}
InTick == {"a", "quote", "lbrace", "rbrace", "back"}
InTriple == {"a", "lbrace", "rbrace", "back", "nl"}

Upto(s, max, chars) == IF Len(s) < max THEN chars ELSE {}

MCKeys(s) ==
    CASE Ahead(s, 1, 3, "tick") ->
            IF Len(s) > 3 /\ Last(s) = "tick"
            THEN IF Len(s) > 5 /\ Ahead(s, Len(s) - 2, 3, "tick") THEN {} ELSE {"tick"}
            ELSE Upto(s, MaxTriple + 3, InTriple) \cup {"tick"}
      [] ~Ahead(s, 1, 2, "tick") /\ Ahead(s, 1, 1, "tick") ->
            IF Len(s) > 1 /\ Last(s) = "tick" THEN {} ELSE Upto(s, MaxString + 1, InTick) \cup {"tick"}
      [] OTHER -> Upto(s, MaxFile, InFile)
=============================================================================

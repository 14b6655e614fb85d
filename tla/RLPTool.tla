------------------------------ MODULE RLPTool -------------------------------
(***************************************************************************)
(* The rlp tool (rlp/main.cpp): it renders RLP as JSON, creates RLP from   *)
(* JSON, and takes apart archives.  A JSON value is [str |-> text],        *)
(* [int |-> bytes of the number], [arr |-> values] or [null |-> TRUE]; how *)
(* values are set out on lines is left out, and so are integers written in *)
(* hexadecimal, which JSON does not have.                                  *)
(***************************************************************************)
EXTENDS RLP

CONSTANTS CommandLines, \* options that the tool is started with: sequences
          MaxRendered   \* bound: the length of RLP that is rendered

Exit == <<-1>> \* in the place of bytes: the tool has ended with an error

Configuration ==
    [mode |-> "Render", encoding |-> "Auto", lenience |-> FALSE, stringInts |-> TRUE,
     forceString |-> FALSE, forceHex |-> TRUE, escapeAll |-> FALSE]

\* One option of main.
Configured(c, arg) ==
    CASE arg = "--render" -> [c EXCEPT !.mode = "Render"]
      [] arg = "--create" -> [c EXCEPT !.mode = "Create"]
      [] arg = "--string-ints" -> [c EXCEPT !.stringInts = TRUE]
      [] arg = "--ascii-strings" -> [c EXCEPT !.forceString = FALSE, !.forceHex = FALSE]
      [] arg = "--force-string" -> [c EXCEPT !.forceString = TRUE]
      [] arg = "--force-hex" -> [c EXCEPT !.forceHex = TRUE, !.forceString = FALSE]
      [] arg = "--force-escape" -> [c EXCEPT !.escapeAll = TRUE]
      [] arg = "--nice" -> [c EXCEPT !.forceString = TRUE, !.stringInts = FALSE, !.forceHex = FALSE]
      [] arg = "--lenience" -> [c EXCEPT !.lenience = TRUE]
      [] arg = "--list-archive" -> [c EXCEPT !.mode = "ListArchive"]
      [] arg = "--extract-archive" -> [c EXCEPT !.mode = "ExtractArchive"]
      [] arg = "--hex" -> [c EXCEPT !.encoding = "Hex"]
      [] arg = "--keccak" -> [c EXCEPT !.encoding = "Keccak"]
      [] arg = "--64" -> [c EXCEPT !.encoding = "Base64"]
      [] arg = "--bin" -> [c EXCEPT !.encoding = "Binary"]

Options(line) == FoldLeft(Configured, Configuration, line)

-----------------------------------------------------------------------------
(* Input and output *)

White == {9, 10, 32}
HexLetter == CD!Digit \cup 97 .. 102 \cup 65 .. 70
Base64Letter == CD!Digit \cup CD!Lower \cup CD!Upper \cup {43, 47}

\* What the input looks like; the '=' at the end of base 64 is not part of it.
Detected(text) ==
    LET letters == ToSet(text) \ White
    IN  CASE letters \subseteq HexLetter -> "Hex"
          [] letters \subseteq Base64Letter -> "Base64"
          [] OTHER -> "Binary"

Unspaced(text) == SelectSeq(text, LAMBDA c : c \notin White)

\* The bytes of the input, in all modes but Create.
Input(text, encoding) ==
    LET e == IF encoding = "Auto" THEN Detected(text) ELSE encoding
    IN  CASE e = "Hex" -> CD!FromHex(Unspaced(text))
          [] e = "Base64" -> CD!FromBase64(Unspaced(text))
          [] OTHER -> text

\* How Create writes what it has made; of the hash nothing is made again.
Output(bytes, encoding) ==
    CASE encoding \in {"Hex", "Auto"} -> Append(CD!ToHex(bytes), 10)
      [] encoding = "Base64" -> Append(CD!ToBase64(bytes), 10)
      [] encoding = "Binary" -> bytes

-----------------------------------------------------------------------------
(* Render *)

\* Mutant: what begins with 0x is taken for text.
IsAsciiPrefixed(s) == \A i \in DOMAIN s : s[i] \in 32 .. 127

\* isAscii, of signed chars
IsAscii(s) == ~CD!Prefixed(s) /\ \A i \in DOMAIN s : s[i] \in 32 .. 127

\* The reader of JSON strings: the escapes that escaped makes are undone.
RECURSIVE Read(_)
Read(s) ==
    IF s = <<>> THEN <<>>
    ELSE IF s[1] # CD!Backslash THEN <<s[1]>> \o Read(Tail(s))
    ELSE IF s[2] = CD!X
      THEN CD!FromHex(SubSeq(s, 3, 4)) \o Read(SubSeq(s, 5, Len(s)))
    ELSE LET c == CASE s[2] = 114 -> 13 [] s[2] = 110 -> 10 [] s[2] = 116 -> 9 [] OTHER -> s[2]
         IN  <<c>> \o Read(SubSeq(s, 3, Len(s)))

\* The text between the quotes that escaped puts around it.
JsonString(quoted) == Read(SubSeq(quoted, 2, Len(quoted) - 1))

\* RLPStreamer::output, as the value that a JSON reader makes of it.
RECURSIVE Rendered(_, _)
Rendered(d, c) ==
    IF d = <<>> THEN [null |-> TRUE]
    ELSE IF IsInt(d) /\ ~c.stringInts THEN [int |-> ToInt(d, Len(d), LaissezFaire).value]
    ELSE IF IsData(d)
      THEN LET s == Payload(d)
           IN  IF c.forceString \/ (~c.forceHex /\ IsAscii(s))
                 THEN [str |-> JsonString(CD!Escaped(s, c.escapeAll))]
                 ELSE [str |-> CD!Prefix \o CD!ToHex(s)]
    ELSE [arr |-> [i \in DOMAIN Items(Payload(d)) |-> Rendered(Items(Payload(d))[i], c)]]

-----------------------------------------------------------------------------
(* Create *)

\* What is made of a string that does not begin with 0x: a backslash takes the
\* character after it away.  After the x of an escape the digits are looked for
\* one character too early, and the first byte of none is read; JSON strings with
\* such text in them are left out.
RECURSIVE Unescaped(_)
Unescaped(s) ==
    IF s = <<>> THEN <<>>
    ELSE IF s[1] # CD!Backslash THEN <<s[1]>> \o Unescaped(Tail(s))
    ELSE IF Len(s) > 1 THEN Unescaped(SubSeq(s, 3, Len(s))) ELSE <<>>

FromJsonString(s) == IF CD!Prefixed(s) THEN CD!FromHex(s) ELSE Unescaped(s)

\* The loop over the stack of values, from the last one on: an array has its
\* values pushed in reverse.  Numbers are ints of four bytes; null is not supported.
RECURSIVE Created(_, _)
Created(values, lenience) ==
    IF values = <<>> THEN <<>>
    ELSE LET v == Head(values)
             rest == Created(Tail(values), lenience)
             Then(bytes) == IF rest = Exit THEN Exit ELSE bytes \o rest
         IN  CASE "str" \in DOMAIN v -> Then(EncodedData(FromJsonString(v.str)))
               [] "int" \in DOMAIN v -> Then(EncodedData(CD!UnpadLeft(LastOf(v.int, 4))))
               [] "null" \in DOMAIN v -> IF lenience THEN rest ELSE Exit
               [] OTHER -> LET items == Created(v.arr, lenience)
                           IN  IF items = Exit THEN Exit ELSE Then(ListHeader(Len(items)) \o items)

-----------------------------------------------------------------------------
(* Archives *)

\* ExtractArchive: the files, named by the hash of what is in them, that are
\* written before the tool exits; ListArchive prints their sizes and names.
Extracted(d, lenience) ==
    LET items == Items(Payload(d))
        others == {i \in DOMAIN items : ~IsData(items[i])}
    IN  IF ~IsList(d) THEN {}
        ELSE IF others = {} \/ lenience THEN ToSet(items)
        ELSE ToSet(SubSeq(items, 1, Min(others) - 1))

-----------------------------------------------------------------------------
\* Strings that the way back takes something off: with --force-string, those that
\* begin with 0x, which Create reads as digits, and those with a backslash, which
\* it takes away with what follows; and numbers of more than 31 bits.
RECURSIVE Survives(_, _)
Survives(item, c) ==
    IF "list" \in DOMAIN item THEN \A i \in DOMAIN item.list : Survives(item.list[i], c)
    ELSE LET s == item.data
         IN  CASE ~c.stringInts /\ IsInt(EncodedData(s)) -> Len(s) < 4
               [] c.forceString -> ~CD!Prefixed(s) /\ CD!Backslash \notin ToSet(s)
               [] ~c.forceHex -> IsAscii(s) => CD!Backslash \notin ToSet(s)
               [] OTHER -> TRUE

\* What the tool renders is created again, byte for byte, for all options on how
\* to write strings and numbers; and what it writes in an encoding it reads in
\* that encoding, and digits without being told; an archive's files are its items.
RenderedIsCreated ==
    origin = "written" /\ listStack = <<>> /\ Len(top) = 1 /\ Len(out) <= MaxRendered =>
        \A line \in CommandLines :
            LET c == Options(line)
            IN  /\ Survives(top[1], c) => Created(<<Rendered(out, c)>>, FALSE) = out
                /\ Input(Output(out, c.encoding), c.encoding) = out
                /\ IsList(out) /\ (c.lenience \/ \A i \in DOMAIN top[1].list : "data" \in DOMAIN top[1].list[i]) =>
                       {Decoded(f) : f \in Extracted(out, c.lenience)} = ToSet(top[1].list)
=============================================================================

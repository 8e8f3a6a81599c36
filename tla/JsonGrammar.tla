---------------------------- MODULE JsonGrammar ----------------------------
(***************************************************************************)
(* What JsonParser is held against: the values a text means, defined by    *)
(* how a text is made up and not by how it is read. The grammar is the one *)
(* of JSON, with the liberties the parser takes: a number is any run of    *)
(* number symbols, and a string may hold control characters.               *)
(***************************************************************************)
EXTENDS JsonParser

CONSTANT Objects        \* lists of fields that a JsonObject is built from

IsWhite(t) == \A i \in DOMAIN t : t[i] \in White

\* UTF-8 of a code point: six bits a byte, below a mark that tells how many.
Utf8(cp) ==
  LET n == CASE cp <= 127 -> 1 [] cp <= 2047 -> 2 [] cp <= 65535 -> 3 [] OTHER -> 4
      digit(i) == (cp \div 64 ^ (n - i)) % 64
  IN IF n = 1 THEN <<cp>>
     ELSE [i \in 1 .. n |-> IF i = 1 THEN <<0, 192, 224, 240>>[n] + digit(1)
                            ELSE 128 + digit(i)]

-----------------------------------------------------------------------------
\* The characters of what stands between quotes: a symbol, or a backslash and
\* the symbol after it. The empty set if that is no string.
RECURSIVE Characters(_)
Characters(t) ==
  IF t = <<>> THEN {<<>>}
  ELSE LET n == IF t[1] = "\\" THEN 2 ELSE 1
       IN IF \/ t[1] = "\""
             \/ n > Len(t)
             \/ n = 2 /\ t[2] \notin DOMAIN Escapes \cup DOMAIN Unit
          THEN {}
          ELSE {<<SubSeq(t, 1, n)>> \o rest : rest \in Characters(SubSeq(t, n + 1, Len(t)))}

IsUnit(c, units) == Len(c) = 2 /\ c[2] \in DOMAIN Unit /\ Unit[c[2]] \div 1024 = units
IsHigh(c) == IsUnit(c, 54)
IsLow(c) == IsUnit(c, 55)

RECURSIVE Decoded(_)
Decoded(cs) ==
  IF cs = <<>> THEN <<>>
  ELSE IF Len(cs) > 1 /\ IsHigh(cs[1]) /\ IsLow(cs[2])
  THEN Utf8(65536 + 1024 * (Unit[cs[1][2]] % 1024) + (Unit[cs[2][2]] % 1024))
         \o Decoded(SubSeq(cs, 3, Len(cs)))
  ELSE LET c == cs[1]
       IN (CASE Len(c) = 1 -> Bytes[c[1]]
             [] Len(c) = 2 /\ c[2] \in DOMAIN Unit -> Utf8(Unit[c[2]])
             [] OTHER -> <<Escapes[c[2]]>>)
            \o Decoded(Tail(cs))

Strings(t) ==
  IF Len(t) >= 2 /\ t[1] = "\"" /\ t[Len(t)] = "\""
  THEN {Decoded(cs) : cs \in Characters(SubSeq(t, 2, Len(t) - 1))}
  ELSE {}

Trimmed(t) ==
  LET dark == {i \in DOMAIN t : t[i] \notin White}
  IN IF dark = {} THEN <<>> ELSE SubSeq(t, Min(dark), Max(dark))

-----------------------------------------------------------------------------
\* The pairs of a part before and a part after one of the symbols c of t.
Splits(t, c) == {<<SubSeq(t, 1, i - 1), SubSeq(t, i + 1, Len(t))>> :
                   i \in {j \in DOMAIN t : t[j] = c}}

RECURSIVE Meanings(_, _), Lists(_, _), Members(_, _)

\* The values that t means inside `depth` containers, white space around it.
Meanings(t, depth) ==
  LET c == Trimmed(t)
      inner == SubSeq(c, 2, Len(c) - 1)
      Between(a, b) == Len(c) >= 2 /\ c[1] = a /\ c[Len(c)] = b
  IN IF depth > MaxDepth \/ c = <<>> THEN {}
     ELSE {Value("string", b) : b \in Strings(c)}
       \cup (IF Len(c) = 1 /\ c[1] \in DOMAIN Literals THEN {Literals[c[1]]} ELSE {})
       \cup (IF /\ \A i \in DOMAIN c : c[i] \in NumberSymbols
                /\ ~(Len(c) = 1 /\ c[1] \in Signs)
             THEN {Value("number", TextBytes(c))} ELSE {})
       \cup (IF Between("[", "]")
             THEN {[Value("array", <<>>) EXCEPT !.elems = l] :
                     l \in IF IsWhite(inner) THEN {<<>>} ELSE Lists(inner, depth + 1)}
             ELSE {})
       \cup (IF Between("{", "}")
             THEN {[Value("object", <<>>) EXCEPT !.members = l] :
                     l \in IF IsWhite(inner) THEN {<<>>} ELSE Members(inner, depth + 1)}
             ELSE {})

\* Values, or keys and values, with commas between them.
Lists(t, depth) ==
  {<<v>> : v \in Meanings(t, depth)}
  \cup UNION {{<<v>> \o l : v \in Meanings(s[1], depth), l \in Lists(s[2], depth)} :
                s \in Splits(t, ",")}

Members(t, depth) ==
  LET One(u) == UNION {{<<<<k, v>>>> : k \in Strings(Trimmed(s[1])),
                                       v \in Meanings(s[2], depth)} : s \in Splits(u, ":")}
  IN One(t) \cup UNION {{m \o l : m \in One(s[1]), l \in Members(s[2], depth)} :
                          s \in Splits(t, ",")}

-----------------------------------------------------------------------------
\* Parse accepts the texts that mean something, and gives what they mean. An
\* answer that was cut short means nothing: it is not taken for a shorter one.
ParsesTheGrammar ==
  /\ (verdict = "parsed" => Meanings(text, 0) = {out})
  /\ (verdict = "failed" => Meanings(text, 0) = {})

BuiltText == [fields \in Objects |-> Build(fields)]

\* Whatever strings a script gives, the object that is built of them reads back
\* with the same fields: nothing in a string can end it or add a field.
BuiltObjectsReadBack ==
  verdict # "parsing" =>
    \A fields \in Objects :
      text = BuiltText[fields] =>
        /\ verdict = "parsed"
        /\ Len(out.members) = Len(fields)
        /\ \A f \in Range(fields) :
             LET v == Get(out, TextBytes(f.key))
             IN /\ v.type = f.type
                /\ IF f.type = "string" THEN v.str = f.val ELSE AsInt(v) = f.num
=============================================================================

----------------------------- MODULE JsonParser -----------------------------
(***************************************************************************)
(* JsonParser of src/json.cpp, which reads every answer and every event of *)
(* the audio server, and the JsonObject builder that writes every request. *)
(*                                                                         *)
(* A text is a sequence of symbols. A symbol is a character, or stands for *)
(* the characters the parser takes as one: a literal, or the u and four    *)
(* hex digits of an escape. Decoded strings are sequences of bytes.        *)
(*                                                                         *)
(* The recursion of ParseValue is the stack `open` of the containers that  *)
(* are being read; a step is one turn of one of the parser's loops.        *)
(***************************************************************************)
EXTENDS Integers, SequencesExt

CONSTANTS
  Texts,        \* the texts given to Parse
  Bytes,        \* the bytes of each symbol
  Unit,         \* the value of each symbol that is a u and four hex digits
  MaxDepth      \* kMaxDepth

ASSUME ParserAssumption ==
  /\ Texts \subseteq Seq(DOMAIN Bytes) /\ MaxDepth \in Nat
  /\ "end of text" \notin DOMAIN Unit

VARIABLES
  text,         \* s_
  pos,          \* pos_, the index of the symbol to read next
  at,           \* what the parser reads at pos
  open,         \* the objects and arrays that are open, innermost last
  str,          \* the string that is being read
  out,          \* the document
  verdict

jsonVars == <<text, pos, at, open, str, out, verdict>>

-----------------------------------------------------------------------------
\* JsonValue
Value(type, bytes) ==
  [type |-> type, str |-> bytes, members |-> <<>>, elems |-> <<>>]
Null == Value("null", <<>>)

Literals == [true |-> Value("bool", <<1>>), false |-> Value("bool", <<0>>),
             null |-> Null]
White == {" ", "tab"}
Digits == {"0", "1", "2"}      \* for the ten of them
Signs == {"+", "-"}
NumberSymbols == Digits \cup Signs \cup {".", "e"}
Closer == [object |-> "}", array |-> "]"]

\* The byte that a character stands for after a backslash.
Escapes ==
  [s \in {"\"", "\\", "/", "b", "f", "n", "r", "t"} |->
     CASE s = "\"" -> 34 [] s = "\\" -> 92 [] s = "/" -> 47 [] s = "b" -> 8
       [] s = "f" -> 12 [] s = "n" -> 10 [] s = "r" -> 13 [] s = "t" -> 9]

TextBytes(t) == FlattenSeq([i \in DOMAIN t |-> Bytes[t[i]]])

AppendUtf8(cp) ==
  CASE cp < 128   -> <<cp>>
    [] cp < 2048  -> <<192 + (cp \div 64), 128 + (cp % 64)>>
    [] cp < 65536 -> <<224 + (cp \div 4096), 128 + ((cp \div 64) % 64), 128 + (cp % 64)>>
    [] OTHER      -> <<240 + (cp \div 262144), 128 + ((cp \div 4096) % 64),
                       128 + ((cp \div 64) % 64), 128 + (cp % 64)>>

-----------------------------------------------------------------------------
Symbol(p) == IF p <= Len(text) THEN text[p] ELSE "end of text"

\* SkipWhitespace
Skip(p) ==
  CHOOSE q \in p .. Len(text) + 1 :
    /\ Symbol(q) \notin White
    /\ \A r \in p .. q - 1 : text[r] \in White

\* ParseNumber takes a sign and then whatever looks like part of a number.
NumberEnd ==
  CHOOSE q \in pos .. Len(text) + 1 :
    /\ Symbol(q) \notin NumberSymbols
    /\ \A r \in pos .. q - 1 : text[r] \in NumberSymbols
IsNumber == NumberEnd > pos + (IF Symbol(pos) \in Signs THEN 1 ELSE 0)

Top == open[Len(open)].value
AtEmpty == at = "first" /\ Symbol(pos) = Closer[Top.type]
AtKey == at = "key" \/ (at = "first" /\ Top.type = "object" /\ ~AtEmpty)
AtValue == at = "value" \/ (at = "first" /\ Top.type = "array" /\ ~AtEmpty)
InString == at \in {"string", "key string"}

\* Mutant: no limit.
ValueFollowsAtAnyDepth ==
  Symbol(pos) \in DOMAIN Literals \cup {"{", "[", "\""} \/ IsNumber

\* What each function of the parser insists on before it goes on.
ValueFollows ==
  /\ Len(open) <= MaxDepth
  /\ Symbol(pos) \in DOMAIN Literals \cup {"{", "[", "\""} \/ IsNumber
StringFollows ==
  /\ pos <= Len(text)
  /\ (Symbol(pos) = "\\" => Symbol(pos + 1) \in DOMAIN Escapes \cup DOMAIN Unit)
  /\ (Symbol(pos) = "\"" /\ at = "key string" => Symbol(Skip(pos + 1)) = ":")
Expected ==
  /\ AtValue => ValueFollows
  /\ AtKey => Symbol(pos) = "\""
  /\ InString => StringFollows
  /\ at = "next" => Symbol(pos) \in {",", Closer[Top.type]}
  /\ at = "end" => pos > Len(text)

-----------------------------------------------------------------------------
InitParse ==
  /\ text \in Texts
  /\ pos = Skip(1)
  /\ at = "value"
  /\ open = <<>>
  /\ str = <<>>
  /\ out = Null
  /\ verdict = "parsing"

\* The value v ends before p, inside the containers `around`.
Ends(v, p, around) ==
  /\ pos' = Skip(p)
  /\ IF around = <<>>
     THEN /\ out' = v
          /\ at' = "end"
          /\ open' = <<>>
     ELSE LET top == around[Len(around)]
              held == IF top.value.type = "object"
                      THEN [top.value EXCEPT !.members = Append(@, <<top.key, v>>)]
                      ELSE [top.value EXCEPT !.elems = Append(@, v)]
          IN /\ open' = [around EXCEPT ![Len(around)].value = held]
             /\ at' = "next"
             /\ UNCHANGED out
  /\ UNCHANGED <<text, verdict>>

ReadsLiteral ==
  /\ AtValue
  /\ Symbol(pos) \in DOMAIN Literals
  /\ Ends(Literals[Symbol(pos)], pos + 1, open)
  /\ UNCHANGED str

ReadsNumber ==
  /\ AtValue
  /\ Symbol(pos) \notin DOMAIN Literals \cup {"{", "[", "\""}
  /\ Ends(Value("number", TextBytes(SubSeq(text, pos, NumberEnd - 1))), NumberEnd, open)
  /\ UNCHANGED str

Opens(symbol, type) ==
  /\ AtValue
  /\ Symbol(pos) = symbol
  /\ open' = Append(open, [value |-> Value(type, <<>>), key |-> <<>>])
  /\ pos' = Skip(pos + 1)
  /\ at' = "first"
  /\ UNCHANGED <<text, str, out, verdict>>

\* After a value: another member or element, or the end of the container.
Continues ==
  /\ at = "next"
  /\ Symbol(pos) = ","
  /\ pos' = Skip(pos + 1)
  /\ at' = IF Top.type = "object" THEN "key" ELSE "value"
  /\ UNCHANGED <<text, open, str, out, verdict>>

Closes ==
  /\ at = "next" \/ AtEmpty
  /\ Symbol(pos) = Closer[Top.type]
  /\ Ends(Top, pos + 1, Front(open))
  /\ UNCHANGED str

-----------------------------------------------------------------------------
\* ParseString
BeginsString ==
  /\ AtValue \/ AtKey
  /\ Symbol(pos) = "\""
  /\ at' = IF AtKey THEN "key string" ELSE "string"
  /\ str' = <<>>
  /\ pos' = pos + 1
  /\ UNCHANGED <<text, open, out, verdict>>

Takes(bytes, p) ==
  /\ InString
  /\ str' = str \o bytes
  /\ pos' = p
  /\ UNCHANGED <<text, at, open, out, verdict>>

ReadsCharacter ==
  /\ Symbol(pos) \notin {"\"", "\\"}
  /\ Takes(Bytes[Symbol(pos)], pos + 1)

ReadsEscape ==
  /\ Symbol(pos) = "\\"
  /\ Symbol(pos + 1) \in DOMAIN Escapes
  /\ Takes(<<Escapes[Symbol(pos + 1)]>>, pos + 2)

\* Mutant: the second escape is not looked at.
IsPairOfAnything ==
  /\ Unit[Symbol(pos + 1)] \in 55296 .. 56319
  /\ Symbol(pos + 2) = "\\"
  /\ Symbol(pos + 3) \in DOMAIN Unit

\* A high surrogate takes the low one after it, if there is one.
IsPair ==
  /\ Unit[Symbol(pos + 1)] \in 55296 .. 56319
  /\ Symbol(pos + 2) = "\\"
  /\ Symbol(pos + 3) \in DOMAIN Unit
  /\ Unit[Symbol(pos + 3)] \in 56320 .. 57343

ReadsCodePoint ==
  /\ Symbol(pos) = "\\"
  /\ Symbol(pos + 1) \in DOMAIN Unit
  /\ LET high == Unit[Symbol(pos + 1)]
         low == Unit[Symbol(pos + 3)]
     IN IF IsPair
        THEN Takes(AppendUtf8(65536 + (high - 55296) * 1024 + (low - 56320)), pos + 4)
        ELSE Takes(AppendUtf8(high), pos + 2)

EndsString ==
  /\ at = "string"
  /\ Symbol(pos) = "\""
  /\ Ends(Value("string", str), pos + 1, open)
  /\ str' = <<>>

EndsKey ==
  /\ at = "key string"
  /\ Symbol(pos) = "\""
  /\ open' = [open EXCEPT ![Len(open)].key = str]
  /\ pos' = Skip(Skip(pos + 1) + 1)
  /\ at' = "value"
  /\ str' = <<>>
  /\ UNCHANGED <<text, out, verdict>>

-----------------------------------------------------------------------------
EndsDocument ==
  /\ at = "end"
  /\ verdict' = "parsed"
  /\ UNCHANGED <<text, pos, at, open, str, out>>

\* Parse gives back a null value when it fails.
Fails ==
  /\ ~Expected
  /\ verdict' = "failed"
  /\ out' = Null
  /\ UNCHANGED <<text, pos, at, open, str>>

GoesOn ==
  \/ ReadsLiteral
  \/ ReadsNumber
  \/ Opens("{", "object")
  \/ Opens("[", "array")
  \/ Continues
  \/ Closes
  \/ BeginsString
  \/ ReadsCharacter
  \/ ReadsEscape
  \/ ReadsCodePoint
  \/ EndsString
  \/ EndsKey
  \/ EndsDocument

NextParse == verdict = "parsing" /\ (Fails \/ (Expected /\ GoesOn))

-----------------------------------------------------------------------------
\* Get finds the first member of the name.
Get(v, key) ==
  LET named == SelectSeq(v.members, LAMBDA m : m[1] = key)
  IN IF named = <<>> THEN Null ELSE named[1][2]

\* strtoll: a sign, then digits up to the first byte that is none.
AsInt(v) ==
  LET negative == v.str # <<>> /\ v.str[1] = 45
      from == IF v.str # <<>> /\ v.str[1] \in {43, 45} THEN 2 ELSE 1
      to == CHOOSE q \in from - 1 .. Len(v.str) :
              /\ \A r \in from .. q : v.str[r] \in 48 .. 57
              /\ q = Len(v.str) \/ v.str[q + 1] \notin 48 .. 57
      size == FoldLeft(LAMBDA n, b : 10 * n + b - 48, 0, SubSeq(v.str, from, to))
  IN CASE v.type \in {"string", "number"} -> IF negative THEN 0 - size ELSE size
       [] v.type = "bool" -> v.str[1]
       [] OTHER -> 0

\* JsonEscape of a string of bytes.
SymbolOf(byte) == CHOOSE s \in DOMAIN Bytes : Bytes[s] = <<byte>>
\* Mutant: a backslash is left as it is.
EscapeByteButBackslash(byte) ==
  IF byte # 92 /\ byte \in {Escapes[e] : e \in DOMAIN Escapes \ {"/"}}
  THEN <<"\\", CHOOSE e \in DOMAIN Escapes : Escapes[e] = byte>>
  ELSE IF byte < 32 THEN <<"\\", CHOOSE u \in DOMAIN Unit : Unit[u] = byte>>
  ELSE <<SymbolOf(byte)>>
EscapeByte(byte) ==
  CASE byte \in {Escapes[e] : e \in DOMAIN Escapes \ {"/"}} ->
         <<"\\", CHOOSE e \in DOMAIN Escapes : Escapes[e] = byte>>
    [] byte < 32 -> <<"\\", CHOOSE u \in DOMAIN Unit : Unit[u] = byte>>
    [] OTHER -> <<SymbolOf(byte)>>
JsonEscape(bytes) == FlattenSeq([i \in DOMAIN bytes |-> EscapeByte(bytes[i])])

\* printf's %lld.
Decimal(n) ==
  LET size == IF n < 0 THEN 0 - n ELSE n
      k == CHOOSE d \in 1 .. 10 : size < 10 ^ d /\ (d = 1 \/ size >= 10 ^ (d - 1))
  IN (IF n < 0 THEN <<"-">> ELSE <<>>)
       \o [i \in 1 .. k |-> SymbolOf(48 + ((size \div 10 ^ (k - i)) % 10))]

\* JsonObject: Str, Int and Bool append a field, Build adds the braces.
FieldText(field) ==
  LET val == CASE field.type = "string" -> <<"\"">> \o JsonEscape(field.val) \o <<"\"">>
               [] field.type = "number" -> Decimal(field.num)
               [] field.type = "bool" -> <<IF field.num = 1 THEN "true" ELSE "false">>
  IN <<"\"">> \o field.key \o <<"\"", ":">> \o val
Build(fields) ==
  <<"{">>
    \o FlattenSeq([i \in DOMAIN fields |->
                     (IF i = 1 THEN <<>> ELSE <<",">>) \o FieldText(fields[i])])
    \o <<"}">>

-----------------------------------------------------------------------------
Modes == {"value", "first", "key", "key string", "string", "next", "end"}

\* In particular the parser never recurses deeper than kMaxDepth containers and
\* the one inside, whatever an answer holds.
JsonTypeOK ==
  /\ text \in Seq(DOMAIN Bytes)
  /\ pos \in 1 .. Len(text) + 1
  /\ at \in Modes
  /\ Len(open) <= MaxDepth + 1
  /\ \A i \in DOMAIN open :
       /\ DOMAIN open[i] = {"value", "key"}
       /\ open[i].value.type \in DOMAIN Closer
  /\ (at \in {"first", "key", "key string", "next"} => open # <<>>)
  /\ verdict \in {"parsing", "parsed", "failed"}
=============================================================================

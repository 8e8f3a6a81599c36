--------------------------- MODULE TextReadersProofs ---------------------------
(***************************************************************************)
(* Machine-checked proofs about the two components that read text, for any *)
(* files and any texts: that ReadServerCfg finds what a file means, that a *)
(* reload does what it reports and the workers' settings are always the    *)
(* configured ones (Configuration), and that the parser neither reads      *)
(* beyond a text nor recurses too deeply (JsonParser).                     *)
(***************************************************************************)
EXTENDS TextReaders, SequenceTheorems, WellFoundedInduction, TLAPS

-----------------------------------------------------------------------------
(* Configuration                                                             *)

LEMMA ConfiguredStep == PoolIsAsConfigured /\ [Next]_vars => PoolIsAsConfigured'
<1> SUFFICES ASSUME PoolIsAsConfigured, [Next]_vars PROVE PoolIsAsConfigured'
  OBVIOUS
<1>1. ASSUME NEW c, Configure(c) PROVE PoolIsAsConfigured'
  BY <1>1 DEF Configure, Refuses, PoolIsAsConfigured
<1>2. ASSUME UNCHANGED <<config, url, running, pool>> PROVE PoolIsAsConfigured'
  BY <1>2 DEF PoolIsAsConfigured, Connection
<1>3. ASSUME NEW c, AppliesPoll(c) PROVE PoolIsAsConfigured'
  BY <1>3 DEF PoolIsAsConfigured, AppliesPoll, Connection
<1>4. ASSUME NEW c, Reload(c) PROVE PoolIsAsConfigured'
  BY <1>1, <1>2, <1>3, <1>4
     DEF Reload, FirstConfigure, KeepsConnection, SkipsConnection, Repoints
<1>5. CASE Load
  BY <1>1, <1>2, <1>5 DEF Load
<1>6. CASE ReloadConfig
  BY <1>2, <1>4, <1>6 DEF ReloadConfig
<1>7. ASSUME NEW u \in Urls, NEW t \in Tokens, SetServer(u, t)
      PROVE  PoolIsAsConfigured'
  BY <1>1, <1>2, <1>7 DEF SetServer
<1>8. CASE Edits \/ CreateStation \/ DestroyStation \/ UNCHANGED vars
  BY <1>2, <1>8 DEF Edits, CreateStation, DestroyStation, vars
<1>. QED
  BY <1>5, <1>6, <1>7, <1>8 DEF Next

\* Whatever Load, SetServer and ReloadConfig refuse or apply in part, and
\* whenever server.cfg is edited, the workers hold the connection settings of
\* config_, which Reload compares the file with.
THEOREM PoolStaysAsConfigured == Spec => []PoolIsAsConfigured
<1>1. Init => PoolIsAsConfigured
  BY DEF Init, PoolIsAsConfigured
<1>. QED
  BY <1>1, ConfiguredStep, PTL DEF Spec

-----------------------------------------------------------------------------
(* What SkipWhitespace and ParseNumber find                                  *)

LEMMA LeastNatural ==
  ASSUME NEW T \in SUBSET Nat, T # {}
  PROVE  \E x \in T : \A y \in T : x <= y
<1> DEFINE R == {ss \in Nat \X Nat : ss[1] < ss[2]}
<1>1. \A x, y \in Nat : y < x => <<y, x>> \in R
  OBVIOUS
<1>2. IsWellFoundedOn(R, Nat)
  BY NatLessThanWellFounded DEF OpToRel
<1>. HIDE DEF R
<1>3. PICK x \in T : \A y \in T : ~(<<y, x>> \in R)
  BY <1>2, WFMin
<1>4. \A y \in T : x <= y
  <2> TAKE y \in T
  <2>1. ~(y < x)
    BY <1>1, <1>3
  <2>. QED
    BY <2>1
<1>. QED
  BY <1>4

LEMMA PlacesOfAText ==
  ASSUME NEW L \in Nat, NEW p \in 1 .. L + 1
  PROVE  /\ p \in Nat /\ L + 1 \in p .. L + 1 /\ ~(L + 1 <= L)
         /\ \A q \in p .. L + 1 :
              /\ q \in Nat
              /\ \A r \in p .. q - 1 : r \in p .. L + 1 /\ r <= L /\ ~(q <= r)
OBVIOUS

\* The first place from p on that holds none of a set of symbols; there is one
\* at the end of the text at the latest.
LEMMA RunsEnd ==
  ASSUME NEW L \in Nat, Len(text) = L, NEW p \in 1 .. L + 1,
         NEW K, "end of text" \notin K
  PROVE  \E q \in p .. L + 1 :
           Symbol(q) \notin K /\ \A r \in p .. q - 1 : text[r] \in K
<1> DEFINE T == {q \in p .. L + 1 : Symbol(q) \notin K}
<1>1. Symbol(L + 1) \notin K
  BY PlacesOfAText DEF Symbol
<1>2. L + 1 \in T /\ T \in SUBSET Nat
  BY <1>1, PlacesOfAText
<1>3. PICK q \in T : \A y \in T : q <= y
  BY <1>2, LeastNatural
<1>4. q \in p .. L + 1 /\ Symbol(q) \notin K
  OBVIOUS
<1>5. ASSUME NEW r \in p .. q - 1 PROVE text[r] \in K
  <2>1. r \in p .. L + 1 /\ r <= L /\ ~(q <= r)
    BY <1>4, PlacesOfAText
  <2>2. Symbol(r) \in K
    BY <1>3, <2>1
  <2>. QED
    BY <2>1, <2>2 DEF Symbol
<1>. QED
  BY <1>4, <1>5

LEMMA SkipStaysInText ==
  ASSUME NEW L \in Nat, Len(text) = L, NEW p \in 1 .. L + 1
  PROVE  Skip(p) \in 1 .. L + 1 /\ Skip(p) >= p
<1>1. "end of text" \notin White
  BY DEF White
<1>2. \E q \in p .. L + 1 :
        Symbol(q) \notin White /\ \A r \in p .. q - 1 : text[r] \in White
  BY <1>1, RunsEnd
<1>3. Skip(p) \in p .. L + 1
  BY <1>2 DEF Skip
<1>. QED
  BY <1>3

LEMMA NumbersStayInText ==
  ASSUME NEW L \in Nat, Len(text) = L, pos \in 1 .. L + 1
  PROVE  NumberEnd \in pos .. L + 1
<1>1. "end of text" \notin NumberSymbols
  BY DEF NumberSymbols, Digits, Signs
<1>2. \E q \in pos .. L + 1 :
        /\ Symbol(q) \notin NumberSymbols
        /\ \A r \in pos .. q - 1 : text[r] \in NumberSymbols
  BY <1>1, RunsEnd
<1>. QED
  BY <1>2 DEF NumberEnd

\* A symbol that is not the end of the text is in the text.
LEMMA SymbolsAreInText ==
  ASSUME NEW L \in Nat, Len(text) = L, NEW p, Symbol(p) # "end of text"
  PROVE  p <= L
  BY DEF Symbol

-----------------------------------------------------------------------------
(* The stack of open containers                                              *)

IsContainer(e) ==
  /\ DOMAIN e = {"value", "key"}
  /\ "type" \in DOMAIN e.value
  /\ e.value.type \in DOMAIN Closer

IsStack(s) == \E S : s \in Seq(S) /\ \A e \in S : IsContainer(e)

\* The inductive invariant. That the parser's place is in the text rests on
\* what it has seen there: no symbol it steps over is the end of the text.
InvText == text \in Seq(DOMAIN Bytes) /\ pos \in 1 .. Len(text) + 1
InvStack == IsStack(open) /\ Len(open) <= MaxDepth + 1
InvAt == at \in Modes /\ (at \in {"first", "key", "key string", "next"} => open # <<>>)
InvVerdict == verdict \in {"parsing", "parsed", "failed"}
ParserInv == InvText /\ InvStack /\ InvAt /\ InvVerdict

LEMMA StackIsTyped ==
  ASSUME NEW s, IsStack(s)
  PROVE  Len(s) \in Nat /\ \A i \in DOMAIN s : IsContainer(s[i])
<1>1. PICK S : s \in Seq(S) /\ \A e \in S : IsContainer(e)
  BY DEF IsStack
<1>2. DOMAIN s = 1 .. Len(s) /\ Len(s) \in Nat
  BY <1>1, LenProperties
<1>3. \A i \in 1 .. Len(s) : s[i] \in S
  BY <1>1, ElementOfSeq
<1>. QED
  BY <1>1, <1>2, <1>3

LEMMA LastIsContainer ==
  ASSUME NEW s, IsStack(s), s # <<>>
  PROVE  Len(s) \in Nat \ {0} /\ Len(s) \in DOMAIN s /\ IsContainer(s[Len(s)])
<1>1. PICK S : s \in Seq(S) /\ \A e \in S : IsContainer(e)
  BY DEF IsStack
<1>2. DOMAIN s = 1 .. Len(s) /\ Len(s) \in Nat
  BY <1>1, LenProperties
<1>3. Len(s) # 0
  BY <1>1, EmptySeq
<1>4. Len(s) \in 1 .. Len(s)
  BY <1>2, <1>3
<1>. QED
  BY <1>2, <1>3, <1>4, StackIsTyped

LEMMA PushesContainer ==
  ASSUME NEW s, IsStack(s), NEW e, IsContainer(e)
  PROVE  /\ IsStack(Append(s, e)) /\ Append(s, e) # <<>>
         /\ Len(s) <= MaxDepth => Len(Append(s, e)) <= MaxDepth + 1
<1>1. PICK S : s \in Seq(S) /\ \A x \in S : IsContainer(x)
  BY DEF IsStack
<1> DEFINE T == S \cup {e}
<1>2. \A x \in T : IsContainer(x)
  BY <1>1
<1>3. s \in Seq(T)
  <2>1. DOMAIN s = 1 .. Len(s) /\ Len(s) \in Nat /\ s \in [1 .. Len(s) -> S]
    BY <1>1, LenProperties
  <2>2. s \in [1 .. Len(s) -> T]
    BY <2>1
  <2>. QED
    BY <2>1, <2>2
<1>4. e \in T
  OBVIOUS
<1>. HIDE DEF T
<1>5. Append(s, e) \in Seq(T) /\ Append(s, e) # <<>> /\ Len(Append(s, e)) = Len(s) + 1
  BY <1>3, <1>4, AppendProperties
<1>6. Len(s) \in Nat /\ MaxDepth \in Nat
  BY StackIsTyped, ParserAssumption
<1>7. Len(s) <= MaxDepth => Len(Append(s, e)) <= MaxDepth + 1
  BY <1>5, <1>6
<1>. QED
  BY <1>2, <1>5, <1>7 DEF IsStack

LEMMA PopsContainer ==
  ASSUME NEW s, IsStack(s), s # <<>>
  PROVE  IsStack(Front(s)) /\ Len(Front(s)) <= Len(s)
<1>1. PICK S : s \in Seq(S) /\ \A x \in S : IsContainer(x)
  BY DEF IsStack
<1>2. Len(s) \in Nat \ {0}
  BY LastIsContainer
<1>3. Front(s) = SubSeq(s, 1, Len(s) - 1)
  BY DEF Front
<1> DEFINE n == Len(s) - 1
<1>4. 1 \in Int /\ n \in Nat /\ n < Len(s) /\ \A i \in 1 .. n : i \in 1 .. Len(s)
  BY <1>2
<1>. HIDE DEF n
<1>5. \A i \in 1 .. n : s[i] \in S
  BY <1>1, <1>4, ElementOfSeq
<1>6. /\ SubSeq(s, 1, n) \in Seq(S)
      /\ Len(SubSeq(s, 1, n)) = IF 1 <= n THEN n - 1 + 1 ELSE 0
  BY <1>4, <1>5, SubSeqProperties
<1>7. Len(SubSeq(s, 1, n)) <= Len(s)
  BY <1>2, <1>4, <1>6
<1>. QED
  BY <1>1, <1>3, <1>6, <1>7 DEF IsStack, n

LEMMA ChangesTop ==
  ASSUME NEW s, IsStack(s), s # <<>>, NEW e, IsContainer(e)
  PROVE  /\ IsStack([s EXCEPT ![Len(s)] = e])
         /\ Len([s EXCEPT ![Len(s)] = e]) = Len(s)
         /\ [s EXCEPT ![Len(s)] = e] # <<>>
<1>1. PICK S : s \in Seq(S) /\ \A x \in S : IsContainer(x)
  BY DEF IsStack
<1> DEFINE T == S \cup {e}
           u == [s EXCEPT ![Len(s)] = e]
<1>2. \A x \in T : IsContainer(x)
  BY <1>1
<1>3. Len(s) \in Nat \ {0}
  BY LastIsContainer
<1>4. u \in Seq(T) /\ Len(u) = Len(s)
  <2>1. s \in [1 .. Len(s) -> S]
    BY <1>1, LenProperties
  <2>2. u \in [1 .. Len(s) -> T]
    BY <2>1
  <2>. HIDE DEF u, T
  <2>3. u \in Seq(T)
    BY <1>3, <2>2
  <2>4. DOMAIN u = 1 .. Len(u) /\ Len(u) \in Nat /\ DOMAIN u = 1 .. Len(s)
    BY <2>2, <2>3, LenProperties
  <2>. QED
    BY <1>3, <2>3, <2>4
<1>. HIDE DEF u, T
<1>5. u # <<>>
  BY <1>3, <1>4, EmptySeq
<1>. QED
  BY <1>2, <1>4, <1>5 DEF IsStack, u

-----------------------------------------------------------------------------
(* The steps of the parser                                                   *)

LEMMA NoEndsInEscapes == "end of text" \notin DOMAIN Escapes
  BY DEF Escapes

LEMMA EndsKeepsTheInvariant ==
  ASSUME ParserInv, NEW v, NEW p \in 1 .. Len(text) + 1, NEW around,
         IsStack(around), Len(around) <= MaxDepth + 1, Ends(v, p, around)
  PROVE  ParserInv'
<1>1. text' = text /\ verdict' = verdict /\ pos' = Skip(p)
  BY DEF Ends
<1>2. InvText' /\ InvVerdict'
  <2>1. Len(text) \in Nat
    BY LenProperties DEF ParserInv, InvText
  <2>2. Skip(p) \in 1 .. Len(text) + 1
    BY <2>1, SkipStaysInText
  <2>. QED
    BY <1>1, <2>2 DEF ParserInv, InvText, InvVerdict
<1>3. CASE around = <<>>
  <2>1. at' = "end" /\ open' = <<>>
    BY <1>3 DEF Ends
  <2>2. Len(open') <= MaxDepth + 1 /\ IsStack(open')
    BY <1>3, <2>1
  <2>. QED
    BY <1>2, <2>1, <2>2 DEF ParserInv, InvStack, InvAt, Modes
<1>4. CASE around # <<>>
  <2> DEFINE top == around[Len(around)]
             held == IF top.value.type = "object"
                     THEN [top.value EXCEPT !.members = Append(@, <<top.key, v>>)]
                     ELSE [top.value EXCEPT !.elems = Append(@, v)]
             filled == [top EXCEPT !.value = held]
  <2>1. open' = [around EXCEPT ![Len(around)] = filled] /\ at' = "next"
    BY <1>4 DEF Ends
  <2>2. IsContainer(top)
    BY <1>4, LastIsContainer
  <2>3. IsContainer(filled)
    <3>. HIDE DEF top
    <3>1. "type" \in DOMAIN held /\ held.type = top.value.type
      BY <2>2 DEF IsContainer
    <3>. HIDE DEF held
    <3>. QED
      BY <2>2, <3>1 DEF IsContainer
  <2>. HIDE DEF filled
  <2>4. IsStack(open') /\ Len(open') = Len(around) /\ open' # <<>>
    BY <1>4, <2>1, <2>3, ChangesTop
  <2>5. Len(open') <= MaxDepth + 1
    BY <2>4
  <2>. QED
    BY <1>2, <2>1, <2>4, <2>5 DEF ParserInv, InvStack, InvAt, Modes
<1>. QED
  BY <1>3, <1>4

HasSymbol(p) == Symbol(p) # "end of text"

LEMMA PlaceAfterASymbol ==
  ASSUME ParserInv, NEW p \in Nat \ {0}, HasSymbol(p)
  PROVE  /\ p \in 1 .. Len(text) /\ p + 1 \in 1 .. Len(text) + 1
         /\ Skip(p + 1) \in 1 .. Len(text) + 1 /\ Skip(p + 1) \in Nat \ {0}
<1>1. Len(text) \in Nat
  BY LenProperties DEF ParserInv, InvText
<1>2. p <= Len(text)
  BY DEF HasSymbol, Symbol
<1>3. p + 1 \in 1 .. Len(text) + 1 /\ p \in 1 .. Len(text)
  BY <1>1, <1>2
<1>4. Skip(p + 1) \in 1 .. Len(text) + 1
  BY <1>1, <1>3, SkipStaysInText
<1>. QED
  BY <1>3, <1>4

LEMMA ParserPlaces ==
  ASSUME ParserInv
  PROVE  /\ Len(text) \in Nat /\ pos \in Nat \ {0} /\ pos + 1 \in Nat \ {0}
         /\ pos + 3 \in Nat \ {0} /\ Len(open) \in Nat /\ MaxDepth \in Nat
<1>1. Len(text) \in Nat /\ pos \in 1 .. Len(text) + 1
  BY LenProperties DEF ParserInv, InvText
<1>2. pos \in Nat \ {0} /\ pos + 1 \in Nat \ {0} /\ pos + 3 \in Nat \ {0}
  BY <1>1
<1>. QED
  BY <1>1, <1>2, StackIsTyped, ParserAssumption DEF ParserInv, InvStack

\* The mark that closes the innermost container.
LEMMA TopCloses ==
  ASSUME ParserInv, open # <<>>
  PROVE  Closer[Top.type] \in {"}", "]"}
<1>1. IsContainer(open[Len(open)])
  BY LastIsContainer DEF ParserInv, InvStack
<1>2. Top.type \in {"object", "array"}
  BY <1>1 DEF IsContainer, Top, Closer
<1>3. Closer["object"] = "}" /\ Closer["array"] = "]"
  BY DEF Closer
<1>. QED
  BY <1>2, <1>3

LEMMA ValuesKeepTheInvariant ==
  ASSUME ParserInv, Expected, ReadsLiteral \/ ReadsNumber \/ Closes \/ EndsString
  PROVE  ParserInv'
<1>1. IsStack(open) /\ Len(open) <= MaxDepth + 1
  BY DEF ParserInv, InvStack
<1>2. CASE ReadsLiteral
  <2>1. HasSymbol(pos)
    BY <1>2 DEF HasSymbol, ReadsLiteral, Literals
  <2>2. pos + 1 \in 1 .. Len(text) + 1
    BY <2>1, PlaceAfterASymbol, ParserPlaces
  <2>. QED
    BY <1>1, <1>2, <2>2, EndsKeepsTheInvariant DEF ReadsLiteral
<1>3. CASE ReadsNumber
  <2>1. Len(text) \in Nat /\ pos \in 1 .. Len(text) + 1
    BY ParserPlaces DEF ParserInv, InvText
  <2>2. NumberEnd \in pos .. Len(text) + 1
    BY <2>1, NumbersStayInText
  <2>3. NumberEnd \in 1 .. Len(text) + 1
    BY <2>1, <2>2
  <2>. QED
    BY <1>1, <1>3, <2>3, EndsKeepsTheInvariant DEF ReadsNumber
<1>4. CASE Closes
  <2>1. open # <<>>
    BY <1>4 DEF Closes, AtEmpty, ParserInv, InvAt
  <2>2. Closer[Top.type] \in {"}", "]"}
    BY <2>1, TopCloses
  <2>3. HasSymbol(pos)
    BY <1>4, <2>2 DEF HasSymbol, Closes
  <2>4. pos + 1 \in 1 .. Len(text) + 1
    BY <2>3, PlaceAfterASymbol, ParserPlaces
  <2>5. IsStack(Front(open)) /\ Len(Front(open)) <= Len(open)
    BY <1>1, <2>1, PopsContainer
  <2>6. Len(Front(open)) \in Nat
    BY <2>5, StackIsTyped
  <2>7. Len(Front(open)) <= MaxDepth + 1
    BY <1>1, <2>5, <2>6, ParserPlaces
  <2>. QED
    BY <1>4, <2>4, <2>5, <2>7, EndsKeepsTheInvariant DEF Closes
<1>5. CASE EndsString
  <2>1. HasSymbol(pos)
    BY <1>5 DEF HasSymbol, EndsString
  <2>2. pos + 1 \in 1 .. Len(text) + 1
    BY <2>1, PlaceAfterASymbol, ParserPlaces
  <2>. QED
    BY <1>1, <1>5, <2>2, EndsKeepsTheInvariant DEF EndsString
<1>. QED
  BY <1>2, <1>3, <1>4, <1>5

LEMMA ContainersKeepTheInvariant ==
  ASSUME ParserInv, Expected, NEW symbol \in {"{", "["}, NEW type \in {"object", "array"},
         Opens(symbol, type) \/ Continues \/ BeginsString \/ EndsKey
  PROVE  ParserInv'
<1>1. IsStack(open) /\ Len(open) <= MaxDepth + 1 /\ Len(open) \in Nat /\ MaxDepth \in Nat
  BY ParserPlaces DEF ParserInv, InvStack
<1>2. CASE Opens(symbol, type)
  <2> DEFINE e == [value |-> Value(type, <<>>), key |-> <<>>]
  <2>1. IsContainer(e)
    BY DEF IsContainer, Value, Closer
  <2>2. open' = Append(open, e) /\ pos' = Skip(pos + 1) /\ at' = "first"
        /\ text' = text /\ verdict' = verdict
    BY <1>2 DEF Opens
  <2>. HIDE DEF e
  <2>3. Len(open) <= MaxDepth
    BY <1>2 DEF Opens, Expected, ValueFollows
  <2>4. IsStack(open') /\ open' # <<>> /\ Len(open') <= MaxDepth + 1
    BY <1>1, <2>1, <2>2, <2>3, PushesContainer
  <2>6. HasSymbol(pos)
    BY <1>2 DEF HasSymbol, Opens
  <2>7. pos' \in 1 .. Len(text) + 1
    BY <2>2, <2>6, PlaceAfterASymbol, ParserPlaces
  <2>. QED
    BY <2>2, <2>4, <2>7 DEF ParserInv, InvText, InvStack, InvAt, InvVerdict, Modes
<1>3. CASE Continues
  <2>1. HasSymbol(pos)
    BY <1>3 DEF HasSymbol, Continues
  <2>2. Skip(pos + 1) \in 1 .. Len(text) + 1
    BY <2>1, PlaceAfterASymbol, ParserPlaces
  <2>. QED
    BY <1>3, <2>2
       DEF Continues, ParserInv, InvText, InvStack, InvAt, InvVerdict, Modes
<1>4. CASE BeginsString
  <2>1. HasSymbol(pos)
    BY <1>4 DEF HasSymbol, BeginsString
  <2>2. pos + 1 \in 1 .. Len(text) + 1
    BY <2>1, PlaceAfterASymbol, ParserPlaces
  <2>3. AtKey => open # <<>>
    BY DEF AtKey, ParserInv, InvAt
  <2>4. pos' = pos + 1 /\ at' = (IF AtKey THEN "key string" ELSE "string")
        /\ text' = text /\ open' = open /\ verdict' = verdict
    BY <1>4 DEF BeginsString
  <2>. QED
    BY <2>2, <2>3, <2>4 DEF ParserInv, InvText, InvStack, InvAt, InvVerdict, Modes
<1>5. CASE EndsKey
  <2>1. HasSymbol(pos) /\ HasSymbol(Skip(pos + 1))
    BY <1>5 DEF HasSymbol, EndsKey, Expected, InString, StringFollows
  <2>3. Skip(pos + 1) \in Nat \ {0}
    BY <2>1, PlaceAfterASymbol, ParserPlaces
  <2>4. Skip(Skip(pos + 1) + 1) \in 1 .. Len(text) + 1
    BY <2>1, <2>3, PlaceAfterASymbol
  <2>5. open # <<>>
    BY <1>5 DEF EndsKey, ParserInv, InvAt
  <2> DEFINE e == [open[Len(open)] EXCEPT !.key = str]
  <2>6. IsContainer(open[Len(open)])
    BY <1>1, <2>5, LastIsContainer
  <2>7. IsContainer(e)
    BY <2>6 DEF IsContainer
  <2>8. open' = [open EXCEPT ![Len(open)] = e]
    BY <1>5 DEF EndsKey
  <2>9. pos' = Skip(Skip(pos + 1) + 1) /\ at' = "value" /\ text' = text /\ verdict' = verdict
    BY <1>5 DEF EndsKey
  <2>. HIDE DEF e
  <2>10. IsStack(open') /\ Len(open') = Len(open)
    BY <1>1, <2>5, <2>7, <2>8, ChangesTop
  <2>. QED
    BY <1>1, <2>4, <2>9, <2>10 DEF ParserInv, InvText, InvStack, InvAt, InvVerdict, Modes
<1>. QED
  BY <1>2, <1>3, <1>4, <1>5

LEMMA StringsKeepTheInvariant ==
  ASSUME ParserInv, Expected, ReadsCharacter \/ ReadsEscape \/ ReadsCodePoint
  PROVE  ParserInv'
<1>1. ASSUME NEW bytes, NEW p \in 1 .. Len(text) + 1, Takes(bytes, p)
      PROVE  ParserInv'
  BY <1>1 DEF Takes, ParserInv, InvText, InvStack, InvAt, InvVerdict
<1>2. Len(text) \in Nat /\ pos \in Nat \ {0} /\ pos + 1 \in Nat \ {0} /\ pos + 3 \in Nat \ {0}
  BY ParserPlaces
<1>3. CASE ReadsCharacter
  <2>1. pos <= Len(text)
    BY <1>3 DEF ReadsCharacter, Takes, Expected, StringFollows
  <2>2. pos + 1 \in 1 .. Len(text) + 1
    BY <1>2, <2>1
  <2>. QED
    BY <1>1, <1>3, <2>2 DEF ReadsCharacter
<1>4. ASSUME HasSymbol(pos + 1) PROVE pos + 2 \in 1 .. Len(text) + 1
  <2>1. pos + 1 \in 1 .. Len(text)
    BY <1>2, <1>4, PlaceAfterASymbol
  <2>. QED
    BY <1>2, <2>1
<1>5. ASSUME HasSymbol(pos + 3) PROVE pos + 4 \in 1 .. Len(text) + 1
  <2>1. pos + 3 \in 1 .. Len(text)
    BY <1>2, <1>5, PlaceAfterASymbol
  <2>. QED
    BY <1>2, <2>1
<1>6. CASE ReadsEscape
  <2>1. HasSymbol(pos + 1)
    BY <1>6, NoEndsInEscapes DEF ReadsEscape, HasSymbol
  <2>2. pos + 2 \in 1 .. Len(text) + 1
    BY <1>4, <2>1
  <2>. QED
    BY <1>1, <1>6, <2>2 DEF ReadsEscape
<1>7. CASE ReadsCodePoint
  <2>1. ASSUME NEW p, Symbol(p) \in DOMAIN Unit PROVE HasSymbol(p)
    BY <2>1, ParserAssumption DEF HasSymbol
  <2>2. Symbol(pos + 1) \in DOMAIN Unit
    BY <1>7 DEF ReadsCodePoint
  <2>3. IsPair => Symbol(pos + 3) \in DOMAIN Unit
    BY DEF IsPair
  <2>4. HasSymbol(pos + 1) /\ (IsPair => HasSymbol(pos + 3))
    BY <2>1, <2>2, <2>3
  <2>5. pos + 2 \in 1 .. Len(text) + 1 /\ (IsPair => pos + 4 \in 1 .. Len(text) + 1)
    BY <1>4, <1>5, <2>4
  <2>. QED
    BY <1>1, <1>7, <2>5 DEF ReadsCodePoint
<1>. QED
  BY <1>3, <1>6, <1>7

LEMMA ParserStep == ParserInv /\ [NextParse]_jsonVars => ParserInv'
<1> SUFFICES ASSUME ParserInv, [NextParse]_jsonVars PROVE ParserInv'
  OBVIOUS
<1>1. CASE UNCHANGED jsonVars
  BY <1>1 DEF jsonVars, ParserInv, InvText, InvStack, InvAt, InvVerdict
<1>2. CASE Fails \/ EndsDocument
  BY <1>2 DEF Fails, EndsDocument, ParserInv, InvText, InvStack, InvAt, InvVerdict
<1>3. CASE Expected /\ GoesOn
  BY <1>2, <1>3, ValuesKeepTheInvariant, ContainersKeepTheInvariant,
     StringsKeepTheInvariant DEF GoesOn
<1>. QED
  BY <1>1, <1>2, <1>3 DEF NextParse

LEMMA ParserStarts == InitParse => ParserInv
<1> SUFFICES ASSUME InitParse PROVE ParserInv
  OBVIOUS
<1>1. text \in Seq(DOMAIN Bytes)
  BY ParserAssumption DEF InitParse
<1>2. Len(text) \in Nat /\ 1 \in 1 .. Len(text) + 1
  BY <1>1, LenProperties
<1>3. pos \in 1 .. Len(text) + 1
  BY <1>2, SkipStaysInText DEF InitParse
<1>4. IsStack(<<>>) /\ Len(<<>>) = 0
  <2>1. <<>> \in Seq({}) /\ Len(<<>>) = 0
    OBVIOUS
  <2>2. \A e \in {} : IsContainer(e)
    OBVIOUS
  <2>3. \A S : <<>> \in Seq(S) /\ (\A e \in S : IsContainer(e)) => IsStack(<<>>)
    BY DEF IsStack
  <2>. QED
    BY <2>1, <2>2, <2>3
<1>5. 0 <= MaxDepth + 1
  <2>1. MaxDepth \in Nat
    BY ParserAssumption
  <2>. QED
    BY <2>1
<1>6. IsStack(open) /\ Len(open) <= MaxDepth + 1
  BY <1>4, <1>5 DEF InitParse
<1>. QED
  BY <1>1, <1>3, <1>6 DEF InitParse, ParserInv, InvText, InvStack, InvAt, InvVerdict, Modes

LEMMA ParserTypes == ParserInv => JsonTypeOK
  BY StackIsTyped
     DEF ParserInv, InvText, InvStack, InvAt, InvVerdict, JsonTypeOK, IsContainer

\* Whatever the text, malformed or cut off anywhere, the parser's place never
\* passes its end, it never continues or closes a container that is not open,
\* and it never recurses deeper than kMaxDepth and the one call that fails.
THEOREM ParserStaysInBounds == InitParse /\ [][NextParse]_jsonVars => []JsonTypeOK
  BY ParserStarts, ParserTypes, ParserStep, PTL

-----------------------------------------------------------------------------
(* Least and greatest elements                                               *)

LEMMA NaturalInduction ==
  ASSUME NEW T \in SUBSET Nat, 0 \in T, \A n \in T : n + 1 \in T
  PROVE  T = Nat
<1>1. ASSUME NEW x \in Nat \ T PROVE FALSE
  <2>1. PICK y \in Nat \ T : \A z \in Nat \ T : y <= z
    BY <1>1, LeastNatural
  <2>2. y - 1 \in Nat /\ ~(y <= y - 1) /\ y - 1 + 1 = y
    BY <2>1
  <2>3. y - 1 \in T
    BY <2>1, <2>2
  <2>. QED
    BY <2>1, <2>2, <2>3
<1>. QED
  BY <1>1

LEMMA MinIsLeast ==
  ASSUME NEW T \in SUBSET Nat, T # {}
  PROVE  Min(T) \in T /\ \A y \in T : Min(T) <= y
  BY LeastNatural DEF Min

LEMMA MaxIsGreatest ==
  ASSUME NEW L \in Nat, NEW T \in SUBSET (1 .. L), T # {}
  PROVE  Max(T) \in T /\ \A y \in T : Max(T) >= y
<1> DEFINE D == {n \in Nat : \E y \in T : n = L - y}
<1>1. D # {} /\ D \in SUBSET Nat
  <2>1. PICK y \in T : TRUE
    OBVIOUS
  <2>2. L - y \in Nat
    OBVIOUS
  <2>. QED
    BY <2>1, <2>2
<1>2. PICK d \in D : \A e \in D : d <= e
  BY <1>1, LeastNatural
<1>3. PICK x \in T : d = L - x
  OBVIOUS
<1>4. ASSUME NEW y \in T PROVE x >= y
  <2>1. L - y \in D
    OBVIOUS
  <2>2. L - x <= L - y
    BY <1>2, <1>3, <2>1
  <2>. QED
    BY <2>2
<1>. QED
  BY <1>4 DEF Max

-----------------------------------------------------------------------------
(* What one line of server.cfg is read as                                    *)

Text == Seq(STRING)

LEMMA PartOfAText ==
  ASSUME NEW t \in Text, NEW i \in Nat \ {0}, NEW j \in Nat, j <= Len(t)
  PROVE  /\ SubSeq(t, i, j) \in Text
         /\ Len(SubSeq(t, i, j)) = IF i <= j THEN j - i + 1 ELSE 0
         /\ \A k \in 1 .. j - i + 1 : SubSeq(t, i, j)[k] = t[i + k - 1]
<1>1. t \in Seq(STRING) /\ Len(t) \in Nat
  BY LenProperties DEF Text
<1>2. \A k \in i .. j : k \in 1 .. Len(t)
  BY <1>1
<1>3. \A k \in i .. j : t[k] \in STRING
  BY <1>1, <1>2, ElementOfSeq
<1>. QED
  BY <1>1, <1>3, SubSeqProperties DEF Text

\* What is left of a text without the blanks around it ends with a symbol that
\* is not a blank.
LEMMA Trimmed ==
  ASSUME NEW t \in Text
  PROVE  /\ Trim(t) \in Text
         /\ Trim(t) # <<>> => Trim(t)[Len(Trim(t))] \notin Blank
         /\ (\E i \in 1 .. Len(t) : t[i] \notin Blank) => Trim(t) # <<>>
<1> DEFINE dark == {i \in DOMAIN t : t[i] \notin Blank}
<1>1. t \in Seq(STRING) /\ Len(t) \in Nat /\ DOMAIN t = 1 .. Len(t)
  BY LenProperties DEF Text
<1>2. CASE dark = {}
  <2>1. Trim(t) = <<>>
    BY <1>2 DEF Trim
  <2>2. <<>> \in Text
    BY DEF Text
  <2>. QED
    BY <1>1, <1>2, <2>1, <2>2
<1>3. CASE dark # {}
  <2>1. dark \in SUBSET (1 .. Len(t)) /\ dark \in SUBSET Nat
    BY <1>1
  <2> DEFINE a == Min(dark)
             b == Max(dark)
  <2>2. Trim(t) = SubSeq(t, a, b)
    BY <1>3 DEF Trim
  <2>3. a \in dark /\ b \in dark /\ \A y \in dark : a <= y
    BY <1>1, <1>3, <2>1, MinIsLeast, MaxIsGreatest
  <2>4. a \in Nat \ {0} /\ b \in Nat /\ a <= b /\ b <= Len(t) /\ t[b] \notin Blank
    BY <1>1, <2>1, <2>3
  <2>. HIDE DEF a, b, dark
  <2> DEFINE u == SubSeq(t, a, b)
             n == b - a + 1
  <2>5. u \in Text /\ Len(u) = n /\ n \in 1 .. n /\ u[n] = t[a + n - 1] /\ a + n - 1 = b
    BY <2>4, PartOfAText
  <2>6. u # <<>>
    BY <2>4, <2>5
  <2>. QED
    BY <2>2, <2>4, <2>5, <2>6
<1>. QED
  BY <1>2, <1>3

\* The parts ReadLine finds in a line.
BlankIn(line) == Min({i \in DOMAIN line : line[i] \in Blank})
KeyIn(line) == SubSeq(line, 1, BlankIn(line) - 1)
ValueIn(line) == Trim(SubSeq(line, BlankIn(line) + 1, Len(line)))

LEMMA ReadLineParts ==
  ASSUME NEW f, NEW raw
  PROVE  ReadLine(f, raw) =
           IF ~IsSetting(Trim(raw)) THEN f
           ELSE [any |-> TRUE,
                 config |-> Assign(f.config, KeyIn(Trim(raw)), ValueIn(Trim(raw))),
                 debug |-> IF KeyIn(Trim(raw)) = <<"goradio_debug">>
                           THEN Atoi(ValueIn(Trim(raw))) # 0 ELSE f.debug]
  BY DEF ReadLine, KeyIn, ValueIn, BlankIn

LEMMA FirstBlank ==
  ASSUME NEW line \in Text, IsSetting(line)
  PROVE  /\ Len(line) \in Nat \ {0} /\ line[1] \in Prefixed
         /\ BlankIn(line) \in 1 .. Len(line) /\ line[BlankIn(line)] \in Blank
         /\ \A i \in 1 .. Len(line) : line[i] \in Blank => BlankIn(line) <= i
<1> DEFINE blanks == {i \in DOMAIN line : line[i] \in Blank}
<1>1. line \in Seq(STRING) /\ Len(line) \in Nat /\ DOMAIN line = 1 .. Len(line)
  BY LenProperties DEF Text
<1>2. line # <<>> /\ Head(line) \in Prefixed /\ blanks # {}
  BY DEF IsSetting
<1>3. Len(line) # 0 /\ Head(line) = line[1]
  BY <1>1, <1>2, EmptySeq, HeadTailProperties
<1>4. blanks \in SUBSET Nat
  BY <1>1
<1>5. BlankIn(line) \in blanks /\ \A i \in blanks : BlankIn(line) <= i
  BY <1>2, <1>4, MinIsLeast DEF BlankIn
<1>. QED
  BY <1>1, <1>2, <1>3, <1>5

\* A line gives a setting exactly if ReadLine finds its key, and then it finds
\* the value that it gives.
LEMMA LineGives ==
  ASSUME NEW raw \in Text, NEW key \in Prefixed
  PROVE  /\ Gives(raw, key) <=> IsSetting(Trim(raw)) /\ KeyIn(Trim(raw)) = <<key>>
         /\ Gives(raw, key) => /\ ValueIn(Trim(raw)) = Given(raw)
                               /\ Given(raw) # <<>>
<1> DEFINE line == Trim(raw)
           n == Len(line)
           b == BlankIn(line)
<1>1. line \in Text /\ (line # <<>> => line[n] \notin Blank)
  BY Trimmed
<1>2. Gives(raw, key) <=> n > 1 /\ line[1] = key /\ line[2] \in Blank
  BY DEF Gives
<1>3. key \notin Blank
  BY DEF Prefixed, Blank
<1>4. Given(raw) = Trim(SubSeq(line, 3, n))
  BY DEF Given
<1>5. line \in Seq(STRING) /\ n \in Nat /\ DOMAIN line = 1 .. n
  BY <1>1, LenProperties DEF Text
<1>. HIDE DEF line, n
<1>6. ASSUME Gives(raw, key)
      PROVE  IsSetting(line) /\ KeyIn(line) = <<key>> /\ ValueIn(line) = Given(raw)
             /\ Given(raw) # <<>>
  <2>1. n \in Nat /\ n > 1 /\ line[1] = key /\ line[2] \in Blank /\ 2 \in DOMAIN line
    BY <1>2, <1>5, <1>6
  <2>2. line # <<>> /\ Head(line) = line[1]
    BY <1>5, <2>1, EmptySeq, HeadTailProperties DEF n
  <2>3. IsSetting(line)
    BY <2>1, <2>2 DEF IsSetting
  <2>4. b \in 1 .. n /\ line[b] \in Blank /\ b <= 2
    BY <1>1, <1>5, <2>1, <2>3, FirstBlank DEF n
  <2>5. b = 2
    <3>1. b # 1
      BY <1>3, <2>1, <2>4
    <3>. QED
      BY <2>4, <3>1
  <2>6. KeyIn(line) = <<key>>
    <3> DEFINE u == SubSeq(line, 1, 1)
    <3>1. u \in Text /\ Len(u) = 1 /\ u[1] = line[1]
      <4>1. 1 \in Nat \ {0} /\ 1 \in Nat /\ 1 <= Len(line)
            /\ 1 \in 1 .. 1 - 1 + 1 /\ 1 + 1 - 1 = 1
        BY <2>1 DEF n
      <4>. QED
        BY <1>1, <4>1, PartOfAText
    <3>2. KeyIn(line) = u
      BY <2>5 DEF KeyIn
    <3>. HIDE DEF u
    <3>3. u = <<key>>
      BY <2>1, <3>1 DEF Text
    <3>. QED
      BY <3>2, <3>3
  <2>7. ValueIn(line) = Given(raw)
    BY <1>4, <2>5 DEF ValueIn, n
  <2>8. n >= 3 /\ line[n] \notin Blank
    BY <1>1, <2>1, <2>2
  <2>9. Given(raw) # <<>>
    <3> DEFINE u == SubSeq(line, 3, n)
               k == n - 2
    <3>1. k \in Nat /\ k \in 1 .. k /\ 3 + k - 1 = n /\ n - 3 + 1 = k /\ 3 <= n
          /\ 3 \in Nat \ {0} /\ n <= Len(line)
      BY <1>5, <2>8 DEF n
    <3>. HIDE DEF k
    <3>2. u \in Text /\ Len(u) = k /\ u[k] = line[n]
      BY <1>1, <1>5, <3>1, PartOfAText
    <3>. HIDE DEF u
    <3>3. \E i \in 1 .. Len(u) : u[i] \notin Blank
      BY <2>8, <3>1, <3>2
    <3>4. Trim(u) # <<>>
      BY <3>2, <3>3, Trimmed
    <3>. QED
      BY <1>4, <3>4 DEF u
  <2>. QED
    BY <2>3, <2>6, <2>7, <2>9
<1>7. ASSUME IsSetting(line), KeyIn(line) = <<key>> PROVE Gives(raw, key)
  <2>1. n \in Nat \ {0} /\ b \in 1 .. n /\ line[b] \in Blank
    BY <1>1, <1>7, FirstBlank DEF n
  <2> DEFINE c == b - 1
  <2>2. c \in Nat /\ c <= Len(line) /\ c + 1 = b /\ 1 \in Nat \ {0} /\ c - 1 + 1 = c
    BY <2>1 DEF n
  <2>. HIDE DEF b
  <2> DEFINE u == SubSeq(line, 1, c)
  <2>3. KeyIn(line) = u
    BY DEF KeyIn, c, b
  <2>. HIDE DEF c
  <2>4. /\ Len(u) = IF 1 <= c THEN c - 1 + 1 ELSE 0
        /\ \A k \in 1 .. c - 1 + 1 : u[k] = line[1 + k - 1]
    BY <1>1, <2>2, PartOfAText
  <2>. HIDE DEF u
  <2>5. Len(<<key>>) = 1 /\ <<key>>[1] = key
    OBVIOUS
  <2>6. c = 1
    BY <1>7, <2>2, <2>3, <2>4, <2>5
  <2>7. line[1] = key
    <3>1. 1 \in 1 .. c - 1 + 1 /\ 1 + 1 - 1 = 1
      BY <2>6
    <3>2. u[1] = line[1]
      BY <2>4, <3>1
    <3>. QED
      BY <1>7, <2>3, <2>5, <3>2
  <2>8. b = 2 /\ n > 1
    BY <2>1, <2>2, <2>6
  <2>. QED
    BY <1>2, <2>1, <2>7, <2>8
<1>. QED
  BY <1>6, <1>7 DEF line

-----------------------------------------------------------------------------
(* What a file is read as                                                    *)

Settings == [url : Text, token : Text, poll : Int, timeout : Int, workers : Int]
Found == [any : BOOLEAN, debug : BOOLEAN, config : Settings]

LEMMA AtoiIsInt == \A t : Atoi(t) \in Int
<1>1. \A n \in DOMAIN Number : Number[n] \in Int
  BY ConfigurationAssumption
<1>. QED
  BY <1>1 DEF Atoi

LEMMA Assigns ==
  ASSUME NEW c \in Settings, NEW key, NEW value \in Text
  PROVE  LET d == Assign(c, key, value)
         IN /\ d \in Settings
            /\ d.url = IF key = <<"goradio_url">> THEN value ELSE c.url
            /\ d.token = IF key = <<"goradio_token">> THEN value ELSE c.token
            /\ d.poll = IF key = <<"goradio_poll_interval">> THEN Atoi(value) * 1000
                        ELSE c.poll
            /\ d.workers = IF key = <<"goradio_workers">> THEN Atoi(value) ELSE c.workers
            /\ d.timeout = IF key = <<"goradio_timeout">> THEN Atoi(value) ELSE c.timeout
<1>1. Atoi(value) \in Int /\ Atoi(value) * 1000 \in Int
  BY AtoiIsInt
<1>. HIDE DEF Text
<1>. QED
  BY <1>1 DEF Assign, Settings

IsOn(f) == f.debug = TRUE

\* What reading one more line makes of f.
ReadsAs(f, raw, g) ==
  /\ g.config.url = IF Gives(raw, "goradio_url") THEN Given(raw) ELSE f.config.url
  /\ g.config.token = IF Gives(raw, "goradio_token") THEN Given(raw) ELSE f.config.token
  /\ g.config.poll = IF Gives(raw, "goradio_poll_interval") THEN Atoi(Given(raw)) * 1000
                     ELSE f.config.poll
  /\ g.config.workers = IF Gives(raw, "goradio_workers") THEN Atoi(Given(raw))
                        ELSE f.config.workers
  /\ g.config.timeout = IF Gives(raw, "goradio_timeout") THEN Atoi(Given(raw))
                        ELSE f.config.timeout
  /\ IsOn(g) <=> IF Gives(raw, "goradio_debug") THEN Atoi(Given(raw)) # 0 ELSE IsOn(f)

LEMMA OneLine ==
  ASSUME NEW f \in Found, NEW raw \in Text
  PROVE  ReadLine(f, raw) \in Found /\ ReadsAs(f, raw, ReadLine(f, raw))
<1> DEFINE line == Trim(raw)
           key == KeyIn(line)
           value == ValueIn(line)
           g == ReadLine(f, raw)
<1>1. /\ {"goradio_url", "goradio_token", "goradio_poll_interval", "goradio_workers",
          "goradio_timeout", "goradio_debug"} \subseteq Prefixed
  BY DEF Prefixed
<1>2. \A k \in Prefixed :
        /\ Gives(raw, k) <=> IsSetting(line) /\ key = <<k>>
        /\ Gives(raw, k) => value = Given(raw)
  BY LineGives
<1>3. line \in Text
  BY Trimmed
<1>4. g = IF ~IsSetting(line) THEN f
          ELSE [any |-> TRUE, config |-> Assign(f.config, key, value),
                debug |-> IF key = <<"goradio_debug">> THEN Atoi(value) # 0 ELSE f.debug]
  BY ReadLineParts
<1>5. f.config \in Settings /\ f.debug \in BOOLEAN
  BY DEF Found
<1>6. CASE ~IsSetting(line)
  <2>1. g = f
    BY <1>4, <1>6
  <2>. HIDE DEF g, key, value, line
  <2>2. \A k \in Prefixed : ~Gives(raw, k)
    BY <1>2, <1>6
  <2>. QED
    BY <1>1, <2>1, <2>2 DEF ReadsAs, g
<1>7. CASE IsSetting(line)
  <2>1. value \in Text
    <3> DEFINE b == BlankIn(line) + 1
    <3>1. Len(line) \in Nat /\ BlankIn(line) \in 1 .. Len(line)
      BY <1>3, <1>7, FirstBlank
    <3>. HIDE DEF line
    <3>2. b \in Nat \ {0} /\ Len(line) \in Nat /\ Len(line) <= Len(line)
      BY <3>1
    <3>. HIDE DEF b
    <3>3. SubSeq(line, b, Len(line)) \in Text
      BY <1>3, <3>2, PartOfAText
    <3>. QED
      BY <3>3, Trimmed DEF ValueIn, b
  <2> DEFINE c == Assign(f.config, key, value)
  <2>2. g = [any |-> TRUE, config |-> c,
             debug |-> IF key = <<"goradio_debug">> THEN Atoi(value) # 0 ELSE f.debug]
    BY <1>4, <1>7
  <2>. HIDE DEF g, key, value, line
  <2>3. /\ c \in Settings
        /\ c.url = IF key = <<"goradio_url">> THEN value ELSE f.config.url
        /\ c.token = IF key = <<"goradio_token">> THEN value ELSE f.config.token
        /\ c.poll = IF key = <<"goradio_poll_interval">> THEN Atoi(value) * 1000
                    ELSE f.config.poll
        /\ c.workers = IF key = <<"goradio_workers">> THEN Atoi(value) ELSE f.config.workers
        /\ c.timeout = IF key = <<"goradio_timeout">> THEN Atoi(value) ELSE f.config.timeout
    BY <1>5, <2>1, Assigns
  <2>. HIDE DEF c
  <2>4. /\ g.any \in BOOLEAN /\ g.config = c
        /\ g.debug = IF key = <<"goradio_debug">> THEN Atoi(value) # 0 ELSE f.debug
    BY <2>2
  <2>5. g \in Found
    BY <1>5, <2>2, <2>3 DEF Found
  <2>6. ReadsAs(f, raw, g)
    <3>1. \A k \in Prefixed : (Gives(raw, k) <=> key = <<k>>)
                              /\ (key = <<k>> => value = Given(raw))
      BY <1>2, <1>7
    <3>2. IsOn(g) <=> IF key = <<"goradio_debug">> THEN Atoi(value) # 0 ELSE IsOn(f)
      <4>1. CASE key = <<"goradio_debug">>
        <5>1. g.debug = (Atoi(value) # 0)
          BY <2>4, <4>1
        <5>. QED
          BY <4>1, <5>1 DEF IsOn
      <4>2. CASE key # <<"goradio_debug">>
        <5>1. g.debug = f.debug
          BY <2>4, <4>2
        <5>. QED
          BY <4>2, <5>1 DEF IsOn
      <4>. QED
        BY <4>1, <4>2
    <3>. QED
      BY <1>1, <2>3, <2>4, <3>1, <3>2 DEF ReadsAs
  <2>. QED
    BY <2>5, <2>6 DEF g
<1>. QED
  BY <1>6, <1>7

\* r holds what has been found after each of the first m lines.
Reads(r, lines, m) ==
  r = [n \in 0 .. m |-> IF n = 0 THEN NothingFound ELSE ReadLine(r[n - 1], lines[n])]

LEMMA ReadsExists ==
  ASSUME NEW lines, NEW L \in Nat
  PROVE  \E r : Reads(r, lines, L)
<1> DEFINE T == {m \in Nat : \E r : Reads(r, lines, m)}
<1>1. T \in SUBSET Nat
  OBVIOUS
<1>2. 0 \in T
  <2> DEFINE r == [n \in 0 .. 0 |-> NothingFound]
  <2>1. \A n \in 0 .. 0 : n = 0
    OBVIOUS
  <2>2. Reads(r, lines, 0)
    BY <2>1, Zenon DEF Reads
  <2>. QED
    BY <2>2
<1>3. ASSUME NEW m \in T PROVE m + 1 \in T
  <2>1. m \in Nat
    OBVIOUS
  <2>2. PICK r : Reads(r, lines, m)
    OBVIOUS
  <2>3. r = [n \in 0 .. m |-> IF n = 0 THEN NothingFound ELSE ReadLine(r[n - 1], lines[n])]
    BY <2>2 DEF Reads
  <2> DEFINE h == [n \in 0 .. m + 1 |-> IF n = m + 1 THEN ReadLine(r[m], lines[m + 1])
                                        ELSE r[n]]
  <2>4. ASSUME NEW n \in 0 .. m + 1
        PROVE  h[n] = IF n = 0 THEN NothingFound ELSE ReadLine(h[n - 1], lines[n])
    <3>1. CASE n = 0
      <4>1. 0 \in 0 .. m /\ 0 # m + 1 /\ 0 \in 0 .. m + 1
        BY <2>1
      <4>2. r[0] = NothingFound /\ h[0] = r[0]
        BY <2>3, <4>1
      <4>. QED
        BY <3>1, <4>2
    <3>2. CASE n = m + 1
      <4>1. n # 0 /\ n - 1 = m /\ m # m + 1 /\ m \in 0 .. m + 1
            /\ m + 1 \in 0 .. m + 1
        BY <2>1, <3>2
      <4>2. h[m] = r[m] /\ h[m + 1] = ReadLine(r[m], lines[m + 1])
        BY <4>1
      <4>. QED
        BY <3>2, <4>1, <4>2
    <3>3. CASE n # 0 /\ n # m + 1
      <4>1. n \in 0 .. m /\ n - 1 \in 0 .. m + 1 /\ n - 1 # m + 1
        BY <2>1, <3>3
      <4>2. r[n] = ReadLine(r[n - 1], lines[n])
        BY <2>3, <3>3, <4>1
      <4>3. h[n] = r[n] /\ h[n - 1] = r[n - 1]
        BY <3>3, <4>1
      <4>. QED
        BY <3>3, <4>2, <4>3
    <3>. QED
      BY <3>1, <3>2, <3>3
  <2>5. h = [n \in 0 .. m + 1 |-> h[n]]
    OBVIOUS
  <2>. HIDE DEF h
  <2>6. Reads(h, lines, m + 1)
    BY <2>4, <2>5, Zenon DEF Reads
  <2>7. m + 1 \in Nat
    BY <2>1
  <2>. QED
    BY <2>6, <2>7
<1>. HIDE DEF T
<1>4. T = Nat
  BY <1>1, <1>2, <1>3, NaturalInduction
<1>. QED
  BY <1>4 DEF T

LEMMA FileIsRead ==
  ASSUME NEW lines, Len(lines) \in Nat
  PROVE  \E r : Reads(r, lines, Len(lines)) /\ ReadServerCfg(lines) = r[Len(lines)]
<1> DEFINE found == CHOOSE r : r = [n \in 0 .. Len(lines) |->
                      IF n = 0 THEN NothingFound ELSE ReadLine(r[n - 1], lines[n])]
<1>1. \E r : r = [n \in 0 .. Len(lines) |->
                  IF n = 0 THEN NothingFound ELSE ReadLine(r[n - 1], lines[n])]
  BY ReadsExists DEF Reads
<1>2. found = [n \in 0 .. Len(lines) |->
                 IF n = 0 THEN NothingFound ELSE ReadLine(found[n - 1], lines[n])]
  BY <1>1, Zenon
<1>3. ReadServerCfg(lines) = found[Len(lines)]
  BY Zenon DEF ReadServerCfg
<1>. HIDE DEF found
<1>. QED
  BY <1>2, <1>3 DEF Reads

\* i is the last of the first n lines to give a setting, or 0 if none does.
LastGiving(lines, n, key, i) ==
  /\ i \in 0 .. n
  /\ (i # 0 => Gives(lines[i], key))
  /\ \A j \in i + 1 .. n : ~Gives(lines[j], key)

LEMMA LastGivingStep ==
  ASSUME NEW lines, NEW n \in Nat, NEW key, NEW i, LastGiving(lines, n + 1, key, i)
  PROVE  \/ i = n + 1 /\ i # 0 /\ Gives(lines[n + 1], key)
         \/ i # n + 1 /\ LastGiving(lines, n, key, i) /\ ~Gives(lines[n + 1], key)
<1>1. /\ i \in 0 .. n + 1 /\ (i # 0 => Gives(lines[i], key))
      /\ \A j \in i + 1 .. n + 1 : ~Gives(lines[j], key)
  BY DEF LastGiving
<1>2. CASE i = n + 1
  BY <1>1, <1>2
<1>3. CASE i # n + 1
  <2>1. i \in 0 .. n /\ n + 1 \in i + 1 .. n + 1
        /\ \A j \in i + 1 .. n : j \in i + 1 .. n + 1
    BY <1>1, <1>3
  <2>. QED
    BY <1>1, <1>3, <2>1 DEF LastGiving
<1>. QED
  BY <1>2, <1>3

\* The invariant of ReadServerCfg's loop: what has been found is what the last
\* line that gives each setting gives.
FoundAfter(lines, n, f) ==
  /\ f \in Found
  /\ \A i : LastGiving(lines, n, "goradio_url", i) =>
       f.config.url = IF i = 0 THEN DefaultUrl ELSE Given(lines[i])
  /\ \A i : LastGiving(lines, n, "goradio_token", i) =>
       f.config.token = IF i = 0 THEN <<>> ELSE Given(lines[i])
  /\ \A i : LastGiving(lines, n, "goradio_poll_interval", i) =>
       f.config.poll = IF i = 0 THEN 5000 ELSE Atoi(Given(lines[i])) * 1000
  /\ \A i : LastGiving(lines, n, "goradio_workers", i) =>
       f.config.workers = IF i = 0 THEN 2 ELSE Atoi(Given(lines[i]))
  /\ \A i : LastGiving(lines, n, "goradio_timeout", i) =>
       f.config.timeout = IF i = 0 THEN 10000 ELSE Atoi(Given(lines[i]))
  /\ \A i : LastGiving(lines, n, "goradio_debug", i) =>
       (IsOn(f) <=> i # 0 /\ Atoi(Given(lines[i])) # 0)

LEMMA NothingIsFound ==
  ASSUME NEW lines
  PROVE  FoundAfter(lines, 0, NothingFound)
<1>1. DefaultUrl \in Text /\ <<>> \in Text
  BY SymbolsAreStrings DEF Text
<1>. HIDE DEF Text, DefaultUrl
<1>2. NothingFound \in Found
  BY <1>1 DEF NothingFound, Found, Settings, Default
<1>3. \A key, i : LastGiving(lines, 0, key, i) => i = 0
  BY DEF LastGiving
<1>4. /\ NothingFound.config.url = DefaultUrl /\ NothingFound.config.token = <<>>
      /\ NothingFound.config.poll = 5000 /\ NothingFound.config.workers = 2
      /\ NothingFound.config.timeout = 10000
  BY DEF NothingFound, Default
<1>5. ~IsOn(NothingFound)
  BY DEF NothingFound, IsOn
<1>6. \A i : LastGiving(lines, 0, "goradio_debug", i) =>
        (IsOn(NothingFound) <=> i # 0 /\ Atoi(Given(lines[i])) # 0)
  BY <1>3, <1>5
<1>7. \A i : LastGiving(lines, 0, "goradio_url", i) =>
        NothingFound.config.url = IF i = 0 THEN DefaultUrl ELSE Given(lines[i])
  BY <1>3, <1>4
<1>8. \A i : LastGiving(lines, 0, "goradio_token", i) =>
        NothingFound.config.token = IF i = 0 THEN <<>> ELSE Given(lines[i])
  BY <1>3, <1>4
<1>9. \A i : LastGiving(lines, 0, "goradio_poll_interval", i) =>
        NothingFound.config.poll = IF i = 0 THEN 5000 ELSE Atoi(Given(lines[i])) * 1000
  BY <1>3, <1>4
<1>10. \A i : LastGiving(lines, 0, "goradio_workers", i) =>
         NothingFound.config.workers = IF i = 0 THEN 2 ELSE Atoi(Given(lines[i]))
  BY <1>3, <1>4
<1>11. \A i : LastGiving(lines, 0, "goradio_timeout", i) =>
         NothingFound.config.timeout = IF i = 0 THEN 10000 ELSE Atoi(Given(lines[i]))
  BY <1>3, <1>4
<1>. QED
  BY <1>2, <1>6, <1>7, <1>8, <1>9, <1>10, <1>11 DEF FoundAfter

LEMMA OneMoreLine ==
  ASSUME NEW lines, NEW n \in Nat, lines[n + 1] \in Text,
         NEW f, FoundAfter(lines, n, f)
  PROVE  FoundAfter(lines, n + 1, ReadLine(f, lines[n + 1]))
<1> DEFINE raw == lines[n + 1]
           g == ReadLine(f, raw)
<1>1. f \in Found
  BY DEF FoundAfter
<1>2. g \in Found /\ ReadsAs(f, raw, g)
  BY <1>1, OneLine
<1>3. \A key, i : LastGiving(lines, n + 1, key, i) =>
        \/ i = n + 1 /\ i # 0 /\ Gives(raw, key)
        \/ i # n + 1 /\ LastGiving(lines, n, key, i) /\ ~Gives(raw, key)
  BY LastGivingStep
<1>. HIDE DEF g
<1>4. ASSUME NEW i, LastGiving(lines, n + 1, "goradio_url", i)
      PROVE  g.config.url = IF i = 0 THEN DefaultUrl ELSE Given(lines[i])
  BY <1>2, <1>3, <1>4 DEF ReadsAs, FoundAfter
<1>5. ASSUME NEW i, LastGiving(lines, n + 1, "goradio_token", i)
      PROVE  g.config.token = IF i = 0 THEN <<>> ELSE Given(lines[i])
  BY <1>2, <1>3, <1>5 DEF ReadsAs, FoundAfter
<1>6. ASSUME NEW i, LastGiving(lines, n + 1, "goradio_poll_interval", i)
      PROVE  g.config.poll = IF i = 0 THEN 5000 ELSE Atoi(Given(lines[i])) * 1000
  BY <1>2, <1>3, <1>6 DEF ReadsAs, FoundAfter
<1>7. ASSUME NEW i, LastGiving(lines, n + 1, "goradio_workers", i)
      PROVE  g.config.workers = IF i = 0 THEN 2 ELSE Atoi(Given(lines[i]))
  BY <1>2, <1>3, <1>7 DEF ReadsAs, FoundAfter
<1>8. ASSUME NEW i, LastGiving(lines, n + 1, "goradio_timeout", i)
      PROVE  g.config.timeout = IF i = 0 THEN 10000 ELSE Atoi(Given(lines[i]))
  BY <1>2, <1>3, <1>8 DEF ReadsAs, FoundAfter
<1>9. ASSUME NEW i, LastGiving(lines, n + 1, "goradio_debug", i)
      PROVE  IsOn(g) <=> i # 0 /\ Atoi(Given(lines[i])) # 0
  BY <1>2, <1>3, <1>9 DEF ReadsAs, FoundAfter
<1>. QED
  BY <1>2, <1>4, <1>5, <1>6, <1>7, <1>8, <1>9 DEF FoundAfter, g

LEMMA FoundInAFile ==
  ASSUME NEW lines \in Seq(Text)
  PROVE  FoundAfter(lines, Len(lines), ReadServerCfg(lines))
<1>1. Len(lines) \in Nat /\ \A n \in 1 .. Len(lines) : lines[n] \in Text
  BY LenProperties, ElementOfSeq
<1>2. PICK r : Reads(r, lines, Len(lines)) /\ ReadServerCfg(lines) = r[Len(lines)]
  BY <1>1, FileIsRead
<1>3. r = [n \in 0 .. Len(lines) |->
            IF n = 0 THEN NothingFound ELSE ReadLine(r[n - 1], lines[n])]
  BY <1>2 DEF Reads
<1> DEFINE T == {n \in Nat : n <= Len(lines) => FoundAfter(lines, n, r[n])}
<1>4. 0 \in T
  <2>1. r[0] = NothingFound
    BY <1>1, <1>3
  <2>. QED
    BY <2>1, NothingIsFound
<1>5. ASSUME NEW n \in T PROVE n + 1 \in T
  <2>1. n \in Nat /\ n + 1 \in Nat /\ (n <= Len(lines) => FoundAfter(lines, n, r[n]))
    OBVIOUS
  <2>2. ASSUME n + 1 <= Len(lines) PROVE FoundAfter(lines, n + 1, r[n + 1])
    <3> DEFINE k == n + 1
    <3>1. k \in 0 .. Len(lines) /\ k # 0 /\ k - 1 = n /\ k \in 1 .. Len(lines)
          /\ n <= Len(lines)
      BY <1>1, <2>1, <2>2
    <3>. HIDE DEF k
    <3>2. r[k] = ReadLine(r[n], lines[k]) /\ lines[k] \in Text
      BY <1>1, <1>3, <3>1
    <3>3. FoundAfter(lines, n, r[n])
      BY <2>1, <3>1
    <3>. QED
      BY <2>1, <3>2, <3>3, OneMoreLine DEF k
  <2>. QED
    BY <2>1, <2>2
<1>. HIDE DEF T
<1>6. T = Nat
  <2>1. T \in SUBSET Nat
    BY DEF T
  <2>. QED
    BY <1>4, <1>5, <2>1, NaturalInduction
<1>7. Len(lines) \in T /\ Len(lines) <= Len(lines)
  BY <1>1, <1>6
<1>. QED
  BY <1>2, <1>7 DEF T

-----------------------------------------------------------------------------
(* What a file means                                                         *)

LEMMA FilesAreText == \A f \in Files : f \in Seq(Text)
  BY ConfigurationAssumption DEF Text

LEMMA MeantIsLast ==
  ASSUME NEW key, file \in Files
  PROVE  \E i : /\ LastGiving(file, Len(file), key, i)
               /\ \A d : Meant(key, d) = IF i = 0 THEN d ELSE Given(file[i])
<1> DEFINE giving == {j \in DOMAIN file : Gives(file[j], key)}
<1>1. Len(file) \in Nat /\ DOMAIN file = 1 .. Len(file)
  BY FilesAreText, LenProperties
<1>2. \A d : Meant(key, d) = IF giving = {} THEN d ELSE Given(file[Max(giving)])
  BY DEF Meant
<1>3. CASE giving = {}
  <2>1. LastGiving(file, Len(file), key, 0)
    BY <1>1, <1>3 DEF LastGiving
  <2>. QED
    BY <1>2, <1>3, <2>1
<1>4. CASE giving # {}
  <2> DEFINE i == Max(giving)
  <2>1. giving \in SUBSET (1 .. Len(file))
    BY <1>1
  <2>2. i \in giving /\ \A j \in giving : i >= j
    BY <1>1, <1>4, <2>1, MaxIsGreatest
  <2>. HIDE DEF i
  <2>3. i \in 1 .. Len(file) /\ Gives(file[i], key)
    BY <1>1, <2>2
  <2>4. ASSUME NEW j \in i + 1 .. Len(file), Gives(file[j], key) PROVE FALSE
    <3>1. j \in 1 .. Len(file) /\ ~(i >= j)
      BY <1>1, <2>3
    <3>. QED
      BY <1>1, <2>2, <2>4, <3>1
  <2>5. LastGiving(file, Len(file), key, i) /\ i # 0
    BY <1>1, <2>3, <2>4 DEF LastGiving
  <2>. QED
    BY <1>2, <1>4, <2>5 DEF i
<1>. QED
  BY <1>3, <1>4

LEMMA MeantNumberIsLast ==
  ASSUME NEW key \in Prefixed, file \in Files
  PROVE  \E i : /\ LastGiving(file, Len(file), key, i)
               /\ \A d : MeantNumber(key, d) = IF i = 0 THEN d ELSE Atoi(Given(file[i]))
<1>1. PICK i : /\ LastGiving(file, Len(file), key, i)
               /\ \A d : Meant(key, d) = IF i = 0 THEN d ELSE Given(file[i])
  BY MeantIsLast
<1>2. Meant(key, <<>>) = IF i = 0 THEN <<>> ELSE Given(file[i])
  BY <1>1
<1>3. i # 0 => Given(file[i]) # <<>>
  <2>1. SUFFICES ASSUME i # 0 PROVE Given(file[i]) # <<>>
    OBVIOUS
  <2>2. Len(file) \in Nat /\ \A j \in 1 .. Len(file) : file[j] \in Text
    BY FilesAreText, LenProperties, ElementOfSeq
  <2>3. i \in 0 .. Len(file) /\ Gives(file[i], key)
    BY <1>1, <2>1 DEF LastGiving
  <2>4. file[i] \in Text
    BY <2>1, <2>2, <2>3
  <2>. QED
    BY <2>3, <2>4, LineGives
<1>4. \A d : MeantNumber(key, d) = IF Meant(key, <<>>) = <<>> THEN d ELSE Atoi(Meant(key, <<>>))
  BY DEF MeantNumber
<1>. QED
  BY <1>1, <1>2, <1>3, <1>4

\* ReadServerCfg finds what the file means.
LEMMA FileMeans ==
  ASSUME file \in Files
  PROVE  LET found == ReadServerCfg(file)
         IN /\ found \in Found
            /\ found.config.url = Meant("goradio_url", DefaultUrl)
            /\ found.config.token = Meant("goradio_token", <<>>)
            /\ found.config.poll = 1000 * MeantNumber("goradio_poll_interval", 5)
            /\ found.config.workers = MeantNumber("goradio_workers", 2)
            /\ found.config.timeout = MeantNumber("goradio_timeout", 10000)
            /\ found.debug = (MeantNumber("goradio_debug", 0) # 0)
<1> DEFINE found == ReadServerCfg(file)
<1>1. FoundAfter(file, Len(file), found)
  BY FilesAreText, FoundInAFile
<1>. HIDE DEF found
<1>2. found \in Found
  BY <1>1 DEF FoundAfter
<1>3. /\ {"goradio_url", "goradio_token", "goradio_poll_interval", "goradio_workers",
          "goradio_timeout", "goradio_debug"} \subseteq Prefixed
  BY DEF Prefixed
<1>4. found.config.url = Meant("goradio_url", DefaultUrl)
  <2>1. PICK i : /\ LastGiving(file, Len(file), "goradio_url", i)
                 /\ \A d : Meant("goradio_url", d) = IF i = 0 THEN d ELSE Given(file[i])
    BY MeantIsLast
  <2>. QED
    BY <1>1, <2>1 DEF FoundAfter
<1>5. found.config.token = Meant("goradio_token", <<>>)
  <2>1. PICK i : /\ LastGiving(file, Len(file), "goradio_token", i)
                 /\ \A d : Meant("goradio_token", d) = IF i = 0 THEN d ELSE Given(file[i])
    BY MeantIsLast
  <2>. QED
    BY <1>1, <2>1 DEF FoundAfter
<1>6. found.config.poll = 1000 * MeantNumber("goradio_poll_interval", 5)
  <2> DEFINE m == MeantNumber("goradio_poll_interval", 5)
  <2>1. PICK i : /\ LastGiving(file, Len(file), "goradio_poll_interval", i)
                 /\ \A d : MeantNumber("goradio_poll_interval", d) =
                            IF i = 0 THEN d ELSE Atoi(Given(file[i]))
    BY <1>3, MeantNumberIsLast
  <2>2. m = IF i = 0 THEN 5 ELSE Atoi(Given(file[i]))
    BY <2>1
  <2>3. found.config.poll = IF i = 0 THEN 5000 ELSE Atoi(Given(file[i])) * 1000
    BY <1>1, <2>1 DEF FoundAfter
  <2>4. Atoi(Given(file[i])) \in Int
    BY AtoiIsInt
  <2>. HIDE DEF m
  <2>5. found.config.poll = 1000 * m
    BY <2>2, <2>3, <2>4
  <2>. QED
    BY <2>5 DEF m
<1>7. found.config.workers = MeantNumber("goradio_workers", 2)
  <2>1. PICK i : /\ LastGiving(file, Len(file), "goradio_workers", i)
                 /\ \A d : MeantNumber("goradio_workers", d) =
                            IF i = 0 THEN d ELSE Atoi(Given(file[i]))
    BY <1>3, MeantNumberIsLast
  <2>. QED
    BY <1>1, <2>1 DEF FoundAfter
<1>8. found.config.timeout = MeantNumber("goradio_timeout", 10000)
  <2>1. PICK i : /\ LastGiving(file, Len(file), "goradio_timeout", i)
                 /\ \A d : MeantNumber("goradio_timeout", d) =
                            IF i = 0 THEN d ELSE Atoi(Given(file[i]))
    BY <1>3, MeantNumberIsLast
  <2>. QED
    BY <1>1, <2>1 DEF FoundAfter
<1>9. found.debug = (MeantNumber("goradio_debug", 0) # 0)
  <2>1. PICK i : /\ LastGiving(file, Len(file), "goradio_debug", i)
                 /\ \A d : MeantNumber("goradio_debug", d) =
                            IF i = 0 THEN d ELSE Atoi(Given(file[i]))
    BY <1>3, MeantNumberIsLast
  <2>2. MeantNumber("goradio_debug", 0) = IF i = 0 THEN 0 ELSE Atoi(Given(file[i]))
    BY <2>1
  <2>3. IsOn(found) <=> i # 0 /\ Atoi(Given(file[i])) # 0
    BY <1>1, <2>1 DEF FoundAfter
  <2>4. IsOn(found) <=> MeantNumber("goradio_debug", 0) # 0
    BY <2>2, <2>3
  <2>5. found.debug \in BOOLEAN
    BY <1>2 DEF Found
  <2>. QED
    BY <2>4, <2>5 DEF IsOn
<1>. QED
  BY <1>2, <1>4, <1>5, <1>6, <1>7, <1>8, <1>9 DEF found

-----------------------------------------------------------------------------
(* The configuration keeps its types, and a reload its word                  *)

\* A url to connect to, or none.
Usable(u) == u = NoUrl \/ u.port \in 1 .. MaxPort

\* The inductive invariant: the settings in effect are typed as a whole.
InEffect ==
  /\ config \in Settings
  /\ Usable(url)
  /\ running \in BOOLEAN

ConfigurationInv == TypeOK /\ InEffect

LEMMA PortInRange == ASSUME NEW t PROVE Usable(ParseUrl(t))
<1> DEFINE s == SplitScheme(WithoutTail(t))
           p == SplitPath(s.rest)
           h == SplitPort(p.hostport, IF s.scheme = <<"https">> THEN 443 ELSE 80)
           accepted == [scheme |-> s.scheme, host |-> WithoutBrackets(h.host),
                        port |-> h.port, path |-> p.path]
<1>1. \/ ParseUrl(t) = NoUrl
      \/ h.port \in 1 .. MaxPort /\ ParseUrl(t) = accepted
  BY DEF ParseUrl
<1>2. accepted.port = h.port
  OBVIOUS
<1>. HIDE DEF accepted, h
<1>. QED
  BY <1>1, <1>2 DEF Usable

LEMMA DefaultIsTyped == Default \in Settings
<1>1. DefaultUrl \in Text /\ <<>> \in Text
  BY SymbolsAreStrings DEF Text
<1>. HIDE DEF Text, DefaultUrl
<1>. QED
  BY <1>1 DEF Default, Settings

LEMMA SettingsStayTyped ==
  ASSUME InEffect, NEW c \in Settings
  PROVE  /\ Configure(c) => InEffect'
         /\ AppliesPoll(c) => InEffect'
         /\ UNCHANGED <<config, url, running, pool>> => InEffect'
         /\ Reload(c) => InEffect'
<1>1. ASSUME Configure(c) PROVE InEffect'
  <2>1. config' = c /\ url' = ParseUrl(c.url) /\ running' = TRUE
    BY <1>1 DEF Configure
  <2>2. Usable(url')
    BY <2>1, PortInRange
  <2>. QED
    BY <2>1, <2>2 DEF InEffect
<1>2. ASSUME AppliesPoll(c) PROVE InEffect'
  <2>1. config' \in Settings
    <3>1. config \in Settings
      BY DEF InEffect
    <3>2. c.poll \in Int
      BY DEF Settings
    <3>3. config' = [url |-> config.url, token |-> config.token, poll |-> c.poll,
                     timeout |-> config.timeout, workers |-> config.workers]
      BY <1>2 DEF AppliesPoll
    <3>. QED
      BY <3>1, <3>2, <3>3 DEF Settings
  <2>2. url' = url /\ running' = running
    BY <1>2 DEF AppliesPoll
  <2>. QED
    BY <2>1, <2>2 DEF InEffect
<1>3. ASSUME UNCHANGED <<config, url, running, pool>> PROVE InEffect'
  BY <1>3 DEF InEffect
<1>4. ASSUME Reload(c) PROVE InEffect'
  BY <1>1, <1>2, <1>3, <1>4
     DEF Reload, FirstConfigure, KeepsConnection, SkipsConnection, Repoints
<1>. QED
  BY <1>1, <1>2, <1>3, <1>4

\* What TypeOK says of the rest.
Around ==
  /\ file \in Files
  /\ stations \in 0 .. MaxStations
  /\ debug \in BOOLEAN
  /\ result \in {"not loaded", "loaded", "accepted", "refused", "applied", "partial",
                 "failed", "created", "destroyed"}

LEMMA TypeParts == ConfigurationInv <=> InEffect /\ Around
<1>1. config \in Settings => /\ config.url \in Seq(STRING) /\ config.token \in Seq(STRING)
                            /\ {config.poll, config.timeout, config.workers} \subseteq Int
  BY DEF Settings, Text
<1>2. Usable(url) <=> (url = NoUrl \/ url.port \in 1 .. MaxPort)
  BY DEF Usable
<1>. QED
  BY <1>1, <1>2, Zenon DEF ConfigurationInv, TypeOK, InEffect, Around

LEMMA ConfigurationStep == InEffect /\ Around /\ [Next]_vars => InEffect' /\ Around'
<1> SUFFICES ASSUME InEffect, Around, [Next]_vars PROVE InEffect' /\ Around'
  OBVIOUS
<1> DEFINE found == ReadServerCfg(file)
<1>1. /\ found \in Found /\ found.config \in Settings /\ found.any \in BOOLEAN
      /\ found.debug \in BOOLEAN
  <2>1. file \in Files
    BY DEF Around
  <2>2. found \in Found
    BY <2>1, FileMeans
  <2>. HIDE DEF found
  <2>. QED
    BY <2>2 DEF Found
<1>. HIDE DEF found
<1>2. MaxStations \in Nat
  BY ConfigurationAssumption
<1>3. CASE Load
  <2>1. /\ result' = "loaded" /\ UNCHANGED <<file, stations>>
        /\ \/ found.any /\ Configure(found.config)
           \/ UNCHANGED <<config, url, running, pool>>
    BY <1>3 DEF Load, found
  <2>2. debug' = (found.any /\ found.debug)
    BY <1>3 DEF Load, found
  <2>3. debug' \in BOOLEAN
    BY <1>1, <2>2
  <2>4. InEffect'
    BY <1>1, <2>1, SettingsStayTyped
  <2>. QED
    BY <2>1, <2>3, <2>4 DEF Around
<1>4. CASE Edits
  <2>1. InEffect'
    BY <1>4 DEF Edits, InEffect
  <2>. QED
    BY <1>4, <2>1 DEF Edits, Around
<1>5. ASSUME NEW u \in Urls, NEW t \in Tokens, SetServer(u, t)
      PROVE  InEffect' /\ Around'
  <2> DEFINE c == [Default EXCEPT !.url = u, !.token = t]
  <2>1. u \in Text /\ t \in Text
    BY ConfigurationAssumption DEF Text
  <2>2. c \in Settings
    <3>. HIDE DEF Text
    <3>. QED
      BY <2>1, DefaultIsTyped DEF Settings
  <2>3. /\ result' \in {"accepted", "refused"} /\ UNCHANGED <<file, stations, debug>>
        /\ (Configure(c) \/ UNCHANGED <<config, url, running, pool>>)
    BY <1>5 DEF SetServer
  <2>. HIDE DEF c
  <2>4. InEffect'
    BY <2>2, <2>3, SettingsStayTyped
  <2>. QED
    BY <2>3, <2>4 DEF Around
<1>6. CASE ReloadConfig
  <2>1. UNCHANGED <<file, stations>>
    BY <1>6 DEF ReloadConfig
  <2>2. CASE result' = "failed" /\ UNCHANGED <<config, url, running, pool, debug>>
    <3>1. InEffect'
      BY <2>2 DEF InEffect
    <3>. QED
      BY <2>1, <2>2, <3>1 DEF Around
  <2>3. CASE debug' = found.debug /\ Reload(found.config)
    <3>1. result' \in {"applied", "partial", "failed"}
      BY <2>3 DEF Reload, FirstConfigure, KeepsConnection, SkipsConnection, Repoints
    <3>2. InEffect'
      BY <1>1, <2>3, SettingsStayTyped
    <3>3. debug' \in BOOLEAN
      BY <1>1, <2>3
    <3>. QED
      BY <2>1, <3>1, <3>2, <3>3 DEF Around
  <2>. QED
    BY <1>6, <2>2, <2>3 DEF ReloadConfig, found
<1>7. CASE CreateStation \/ DestroyStation
  <2>1. InEffect'
    BY <1>7 DEF CreateStation, DestroyStation, InEffect
  <2>2. stations' \in 0 .. MaxStations
    <3>1. stations \in 0 .. MaxStations
      BY DEF Around
    <3>2. \/ stations < MaxStations /\ stations' = stations + 1
          \/ stations > 0 /\ stations' = stations - 1
      BY <1>7 DEF CreateStation, DestroyStation
    <3>. QED
      BY <1>2, <3>1, <3>2
  <2>. QED
    BY <1>7, <2>1, <2>2 DEF CreateStation, DestroyStation, Around
<1>8. CASE UNCHANGED vars
  BY <1>8 DEF vars, InEffect, Around
<1>. QED
  BY <1>3, <1>4, <1>5, <1>6, <1>7, <1>8 DEF Next

LEMMA ConfigurationStarts == Init => InEffect /\ Around
<1> SUFFICES ASSUME Init PROVE InEffect /\ Around
  OBVIOUS
<1>1. InEffect
  <2>1. config = Default /\ url = NoUrl /\ running = FALSE
    BY DEF Init
  <2>2. Usable(url)
    BY <2>1 DEF Usable
  <2>. QED
    BY <2>1, <2>2, DefaultIsTyped DEF InEffect
<1>2. stations \in 0 .. MaxStations
  <2>1. MaxStations \in Nat /\ stations = 0
    BY ConfigurationAssumption DEF Init
  <2>. QED
    BY <2>1
<1>. QED
  BY <1>1, <1>2 DEF Init, Around

\* Whatever is in server.cfg and whatever a script asks for, the settings in
\* effect have their types and the port of the url in use is one.
THEOREM ConfigurationIsTyped == Spec => []TypeOK
<1>1. InEffect /\ Around => TypeOK
  BY TypeParts DEF ConfigurationInv
<1>. QED
  BY <1>1, ConfigurationStarts, ConfigurationStep, PTL DEF Spec

LEMMA ReloadReports ==
  ASSUME InEffect, Around, PoolIsAsConfigured, ReloadConfig
  PROVE  AsReported
<1> DEFINE found == ReadServerCfg(file)
           meant == [url |-> Meant("goradio_url", DefaultUrl),
                     token |-> Meant("goradio_token", <<>>),
                     timeout |-> MeantNumber("goradio_timeout", 10000),
                     workers |-> MeantNumber("goradio_workers", 2)]
           number == 1000 * MeantNumber("goradio_poll_interval", 5)
           on == MeantNumber("goradio_debug", 0) # 0
<1>1. /\ Connection(found.config) = meant
      /\ found.config.poll = number
      /\ found.debug = on
  <2>1. file \in Files
    BY DEF Around
  <2>2. /\ found.config.url = Meant("goradio_url", DefaultUrl)
        /\ found.config.token = Meant("goradio_token", <<>>)
        /\ found.config.poll = number
        /\ found.config.workers = MeantNumber("goradio_workers", 2)
        /\ found.config.timeout = MeantNumber("goradio_timeout", 10000)
        /\ found.debug = on
    BY <2>1, FileMeans
  <2>. HIDE DEF found
  <2>. QED
    BY <2>2 DEF Connection
<1>2. \/ result' = "failed" /\ UNCHANGED <<url, running, pool>>
      \/ debug' = found.debug /\ Reload(found.config)
  BY DEF ReloadConfig
<1>. HIDE DEF found, meant, number, on
<1>3. CASE result' = "failed" /\ UNCHANGED <<url, running, pool>>
  BY <1>3 DEF AsReported
<1>4. CASE debug' = found.debug /\ Reload(found.config)
  <2> DEFINE c == found.config
  <2>1. \A k : Configure(k) => pool' = Connection(k) /\ config'.poll = k.poll
    BY DEF Configure
  <2>2. \A k : AppliesPoll(k) => UNCHANGED <<url, running, pool>> /\ config'.poll = k.poll
    BY DEF AppliesPoll
  <2>3. result' = "applied" => pool' = meant /\ config'.poll = number
    <3>1. CASE Configure(c)
      BY <1>1, <2>1, <3>1
    <3>2. CASE KeepsConnection(c)
      <4>1. pool' = pool /\ pool = Connection(config) /\ Connection(config) = Connection(c)
        BY <2>2, <3>2 DEF KeepsConnection, PoolIsAsConfigured, ConnectionDiffers
      <4>2. config'.poll = c.poll
        BY <2>2, <3>2 DEF KeepsConnection
      <4>. QED
        BY <1>1, <4>1, <4>2
    <3>3. result' = "applied" => Configure(c) \/ KeepsConnection(c)
      BY <1>4 DEF Reload, FirstConfigure, SkipsConnection, Repoints
    <3>. QED
      BY <3>1, <3>2, <3>3
  <2>4. result' = "partial" => config'.poll = number /\ stations > 0
    <3>1. result' = "partial" => SkipsConnection(c)
      BY <1>4 DEF Reload, FirstConfigure, KeepsConnection, Repoints
    <3>. QED
      BY <1>1, <2>2, <3>1 DEF SkipsConnection
  <2>5. result' # "applied" => UNCHANGED <<url, pool, running>>
    BY <1>4, <2>2 DEF Reload, FirstConfigure, KeepsConnection, SkipsConnection, Repoints
  <2>6. debug' = on
    BY <1>1, <1>4
  <2>. QED
    BY <2>3, <2>4, <2>5, <2>6 DEF AsReported, meant, number, on
<1>. QED
  BY <1>2, <1>3, <1>4

\* GoRadio_ReloadConfig reports what it did, whatever the file holds: "applied"
\* means that the workers have the settings that the last lines of the file
\* give and the defaults of the others, "partial" that there are stations and
\* the poll interval and the log level are those of the file, and without
\* "applied" the connection is left alone.
THEOREM ReloadsAsReported == Spec => ReloadKeepsItsWord
<1>1. InEffect /\ Around /\ PoolIsAsConfigured /\ [Next]_vars => [ReloadConfig => AsReported]_vars
  BY ReloadReports
<1>. QED
  BY <1>1, ConfigurationStarts, ConfigurationStep, PoolStaysAsConfigured, PTL
     DEF Spec, ReloadKeepsItsWord

-----------------------------------------------------------------------------
(* Both readers                                                              *)

\* Beside each other, whichever is at work, both readers keep their types: no
\* port out of range, no place beyond a text, no stack beyond kMaxDepth.
THEOREM ReadersKeepTheirTypes == ReadersSpec => []TypesOK
<1>1. ReadersInit => InEffect /\ Around /\ ParserInv
  BY ConfigurationStarts, ParserStarts DEF ReadersInit
<1>2. InEffect /\ Around /\ ParserInv /\ [ReadersNext]_<<vars, jsonVars, reader>>
        => (InEffect /\ Around /\ ParserInv)'
  <2>1. [ReadersNext]_<<vars, jsonVars, reader>> => [Next]_vars /\ [NextParse]_jsonVars
    BY DEF ReadersNext
  <2>. QED
    BY <2>1, ConfigurationStep, ParserStep
<1>3. InEffect /\ Around /\ ParserInv => TypesOK
  BY TypeParts, ParserTypes DEF ConfigurationInv, TypesOK
<1>. QED
  BY <1>1, <1>2, <1>3, PTL DEF ReadersSpec
=============================================================================

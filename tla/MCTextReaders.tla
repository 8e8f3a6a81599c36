--------------------------- MODULE MCTextReaders ---------------------------
(***************************************************************************)
(* Small files, URLs and texts for TextReaders.                            *)
(***************************************************************************)
EXTENDS TextReaders, JsonGrammar

MCTokens == {<<>>, <<"eyJ">>}
MCNumber == [n \in {"0", "1", "9090", "70000"} |->
               CASE n = "0" -> 0 [] n = "1" -> 1 [] n = "9090" -> 9090 [] OTHER -> 70000]

\* URLs from their parts.
Forms(schemes, hosts, ports, paths, tails) ==
  {[text |-> (IF s = <<>> THEN <<>> ELSE s \o <<":", "/", "/">>) \o h.text
               \o (IF n = <<>> THEN <<>> ELSE <<":">> \o n) \o p \o t,
    means |-> [scheme |-> IF s = <<>> THEN <<"http">> ELSE s, host |-> h.means, path |-> p,
               port |-> IF n = <<>> THEN (IF s = <<"https">> THEN 443 ELSE 80)
                        ELSE MCNumber[n[1]]]] :
     s \in schemes, h \in hosts, n \in ports, p \in paths, t \in tails}

Name == [text |-> <<"radio">>, means |-> <<"radio">>]
Literal == [text |-> <<"[", ":", ":", "1", "]">>, means |-> <<":", ":", "1">>]

MCUrlForms ==
  Forms({<<>>, <<"http">>, <<"https">>}, {Name}, {<<>>, <<"9090">>},
        {<<>>, <<"/", "base", "/", "path">>}, {<<>>, <<"/", " ">>})
  \cup Forms({<<"http">>}, {Literal}, {<<>>}, {<<>>, <<"/", "base">>}, {<<>>})

BadUrls == {<<>>, <<"ftp", ":", "/", "/", "radio">>, <<"radio", ":", "70000">>,
            <<"radio", ":", "0">>, <<"http", ":", "/", "/", ":", "9090">>}
MCUrls == {f.text : f \in MCUrlForms} \cup BadUrls

\* ParseUrl reads every form that configuration.md lists, an IPv6 literal in
\* brackets and a tail of slashes and blanks as what was written.
ASSUME UrlFormsAssumption == \A f \in MCUrlForms : ParseUrl(f.text) = f.means

Lines == [token |-> <<"goradio_token", " ", "eyJ">>,
          none |-> <<"goradio_token", " ">>,
          url |-> <<" ", "goradio_url", "tab", " ", "https", ":", "/", "/", "radio", " ">>,
          bad |-> <<"goradio_url", " ", "ftp", ":", "/", "/", "radio">>,
          comment |-> <<"#", " ", "goradio_workers", " ", "0">>,
          workers |-> <<"goradio_workers", " ", "1">>,
          poll |-> <<"goradio_poll_interval", " ", "0">>,
          quick |-> <<"goradio_poll_interval", " ", "1">>,
          debug |-> <<"goradio_debug", " ", "1">>,
          timeout |-> <<"goradio_timeout", "tab", "1">>,
          typo |-> <<"goradio_typo", " ", "1">>,
          other |-> <<"hostname", " ", "goradio_url", " ", "radio">>]
File(names) == [i \in DOMAIN names |-> Lines[names[i]]]
MCFiles == {File(n) : n \in
  {<<>>, <<"other">>, <<"typo">>, <<"comment", "token">>, <<"token", "timeout">>,
   <<"token", "url", "poll">>, <<"token", "poll", "debug", "quick">>,
   <<"workers", "token", "timeout", "other", "none">>,
   <<"bad", "token", "debug">>, <<"bad", "none", "token", "url", "comment">>}}

-----------------------------------------------------------------------------
\* The symbols of the texts, with their bytes. u00G9 is no hex number.
Ascii == [b |-> 98, f |-> 102, n |-> 110, r |-> 114, t |-> 116, e |-> 101]
         @@ ("{" :> 123) @@ ("}" :> 125) @@ ("[" :> 91) @@ ("]" :> 93) @@ (":" :> 58)
         @@ ("," :> 44) @@ ("\"" :> 34) @@ ("\\" :> 92) @@ ("/" :> 47) @@ (" " :> 32)
         @@ ("tab" :> 9) @@ ("0" :> 48) @@ ("1" :> 49) @@ ("2" :> 50) @@ ("-" :> 45)
         @@ ("+" :> 43) @@ ("." :> 46) @@ ("newline" :> 10) @@ ("control" :> 1)
         @@ ("byte" :> 233)
MCUnit == [u0001 |-> 1, u007F |-> 127, u0080 |-> 128, u07FF |-> 2047, u0800 |-> 2048,
           uFFFF |-> 65535, uD7FF |-> 55295, uD800 |-> 55296, uDBFF |-> 56319,
           uDC00 |-> 56320, uDFFF |-> 57343, uE000 |-> 57344]
\* No text tells the bytes of a symbol of several characters apart: a few stand
\* for them.
MCBytes == [s \in DOMAIN Ascii |-> <<Ascii[s]>>]
           @@ [true |-> <<116, 114>>, nul |-> <<110, 117>>, u00G9 |-> <<117, 71>>,
               false |-> <<102, 97>>, null |-> <<110, 117, 108>>]
           @@ [u \in DOMAIN MCUnit |-> <<117, MCUnit[u]>>]

Upto(n, symbols) == BoundedSeq(symbols, n)
Quoted(ts) == {<<"\"">> \o t \o <<"\"">> : t \in ts}

Field(key, type, val, num) == [key |-> <<key>>, type |-> type, val |-> val, num |-> num]
Values == {Field("n", "string", v, 0) : v \in {<<>>, <<34>>, <<92>>, <<92, 34>>, <<10, 9>>,
                                               <<1, 233>>, <<125, 44, 34>>, <<47>>}}
Numbers == {Field("r", "number", <<>>, n) : n \in {-12, 0, 20}}
           \cup {Field("r", "bool", <<>>, b) : b \in {0, 1}}
MCObjects == {<<>>} \cup {<<f>> : f \in Values \cup Numbers}
             \cup {<<f, g>> : f \in Values, g \in Numbers}

Nested(n) == [i \in 1 .. n |-> "["] \o <<"1">> \o [i \in 1 .. n |-> "]"]
Spaced(t) == {SubSeq(t, 1, i) \o <<"tab">> \o SubSeq(t, i + 1, Len(t)) : i \in 0 .. Len(t)}
MCTexts ==
  Upto(5, {"[", "]", "{", "}", ",", "1", "true", " "})
    \cup {<<"{">> \o t : t \in Upto(5, {"\"", ":", ",", "1", "}", "tab"})}
    \cup Upto(4, {"+", "-", ".", "e", "1", "nul", "null", "false", " "})
    \cup {<<"\"">> \o t : t \in Upto(4, {"\"", "\\", "/", "n", "u00G9", "uD800", "uDC00", "{"})}
    \cup Quoted({<<"\\", u, "\\", v>> : u \in DOMAIN MCUnit, v \in DOMAIN MCUnit})
    \cup {Nested(n) : n \in 1 .. 5}
    \cup UNION {Prefixes(Build(fields)) \cup Spaced(Build(fields)) : fields \in MCObjects}

=============================================================================

--------------------------- MODULE Configuration ---------------------------
(***************************************************************************)
(* Where the plugin's settings come from: server.cfg, which somebody edits *)
(* while the server runs and ReadServerCfg (src/serverconfig.cpp) reads at *)
(* load and on GoRadio_ReloadConfig, and GoRadio_SetServer. Which settings *)
(* are in effect is decided by Configure and Reload (src/manager.cpp), and *)
(* depends on the stations there are and on ParseUrl (src/http.cpp).       *)
(*                                                                         *)
(* Text is a sequence of symbols: a blank, a punctuation mark, a word or a *)
(* number. A missing server.cfg is an empty one: both have no setting.     *)
(***************************************************************************)
EXTENDS Integers, SequencesExt

CONSTANTS
  Files,        \* the contents server.cfg may have, sequences of lines
  Urls, Tokens, \* the arguments of GoRadio_SetServer
  Number,       \* the value of each symbol that is a number
  Tls,          \* GORADIO_TLS
  MaxStations

ASSUME ConfigurationAssumption ==
  /\ Files \subseteq Seq(Seq(STRING))
  /\ Urls \subseteq Seq(STRING) /\ Tokens \subseteq Seq(STRING)
  /\ \A n \in DOMAIN Number : Number[n] \in Int
  /\ Tls \in BOOLEAN
  /\ MaxStations \in Nat

VARIABLES
  file,         \* server.cfg
  config,       \* config_
  url,          \* url_
  running,      \* running_ and configured_, which change together
  pool,         \* the settings the workers' clients were built with
  stations,     \* how many stations there are
  debug,        \* LogSetDebug
  result        \* what the last call of a native returned

vars == <<file, config, url, running, pool, stations, debug, result>>

-----------------------------------------------------------------------------
Blank == {" ", "tab"}
DefaultUrl == <<"http", ":", "/", "/", "localhost", ":", "9090">>
\* A symbol is a string: the type of a setting rests on it.
ASSUME SymbolsAreStrings == DefaultUrl \in Seq(STRING)
Default == [url |-> DefaultUrl, token |-> <<>>, poll |-> 5000,
            timeout |-> 10000, workers |-> 2]

Trim(t) ==
  LET dark == {i \in DOMAIN t : t[i] \notin Blank}
  IN IF dark = {} THEN <<>> ELSE SubSeq(t, Min(dark), Max(dark))

\* atoi: 0 for what does not begin with a number.
Atoi(t) == IF t # <<>> /\ t[1] \in DOMAIN Number THEN Number[t[1]] ELSE 0

\* The words that begin with goradio_.
Prefixed == {"goradio_url", "goradio_token", "goradio_poll_interval",
             "goradio_workers", "goradio_timeout", "goradio_debug", "goradio_typo"}

Assign(c, key, value) ==
  CASE key = <<"goradio_url">> -> [c EXCEPT !.url = value]
    [] key = <<"goradio_token">> -> [c EXCEPT !.token = value]
    [] key = <<"goradio_poll_interval">> -> [c EXCEPT !.poll = Atoi(value) * 1000]
    [] key = <<"goradio_workers">> -> [c EXCEPT !.workers = Atoi(value)]
    [] key = <<"goradio_timeout">> -> [c EXCEPT !.timeout = Atoi(value)]
    [] OTHER -> c

\* A line that counts: a key of this plugin, a blank, a value.
IsSetting(line) ==
  /\ line # <<>>
  /\ Head(line) \in Prefixed
  /\ \E i \in DOMAIN line : line[i] \in Blank

\* What ReadServerCfg has found after one more line.
ReadLine(found, raw) ==
  LET line == Trim(raw)
      blank == Min({i \in DOMAIN line : line[i] \in Blank})
      key == SubSeq(line, 1, blank - 1)
      value == Trim(SubSeq(line, blank + 1, Len(line)))
  IN IF ~IsSetting(line) THEN found
     ELSE [any |-> TRUE,
           config |-> Assign(found.config, key, value),
           debug |-> IF key = <<"goradio_debug">> THEN Atoi(value) # 0 ELSE found.debug]

NothingFound == [any |-> FALSE, debug |-> FALSE, config |-> Default]

ReadServerCfg(lines) ==
  LET found[n \in 0 .. Len(lines)] ==
        IF n = 0 THEN NothingFound ELSE ReadLine(found[n - 1], lines[n])
  IN found[Len(lines)]

-----------------------------------------------------------------------------
\* ParseUrl, step by step over what is left of the input.
Positions(t, symbol) == {i \in DOMAIN t : t[i] = symbol}

WithoutTail(t) ==
  LET kept == {i \in DOMAIN t : t[i] \notin {" ", "/"}}
  IN IF kept = {} THEN <<>> ELSE SubSeq(t, 1, Max(kept))

SplitScheme(t) ==
  LET marks == {i \in 1 .. Len(t) - 2 : SubSeq(t, i, i + 2) = <<":", "/", "/">>}
  IN IF marks = {} THEN [scheme |-> <<"http">>, rest |-> t]
     ELSE [scheme |-> SubSeq(t, 1, Min(marks) - 1),
           rest |-> SubSeq(t, Min(marks) + 3, Len(t))]

SplitPath(t) ==
  LET slashes == Positions(t, "/")
  IN IF slashes = {} THEN [hostport |-> t, path |-> <<>>]
     ELSE [hostport |-> SubSeq(t, 1, Min(slashes) - 1),
           path |-> SubSeq(t, Min(slashes), Len(t))]

SplitPort(t, default) ==
  LET colons == Positions(t, ":")
      last == SubSeq(t, Max(colons) + 1, Len(t))
  IN IF \/ colons = {}
        \/ Positions(t, "]") # {}
        \/ last = <<>>
        \/ ~(Range(last) \subseteq DOMAIN Number)
     THEN [host |-> t, port |-> default]
     ELSE [host |-> SubSeq(t, 1, Max(colons) - 1), port |-> Atoi(last)]

WithoutBrackets(t) ==
  IF Len(t) >= 2 /\ Head(t) = "[" /\ Last(t) = "]" THEN SubSeq(t, 2, Len(t) - 1) ELSE t

MaxPort == 65535
NoUrl == [scheme |-> <<>>, host |-> <<>>, port |-> 0, path |-> <<>>]

\* The URL t stands for, or NoUrl if it is refused.
ParseUrl(t) ==
  LET s == SplitScheme(WithoutTail(t))
      p == SplitPath(s.rest)
      h == SplitPort(p.hostport, IF s.scheme = <<"https">> THEN 443 ELSE 80)
      host == WithoutBrackets(h.host)
  IN IF \/ WithoutTail(t) = <<>>
        \/ s.scheme \notin {<<"http">>, <<"https">>}
        \/ host = <<>>
        \/ h.port \notin 1 .. MaxPort
     THEN NoUrl
     ELSE [scheme |-> s.scheme, host |-> host, port |-> h.port, path |-> p.path]

-----------------------------------------------------------------------------
Connection(c) == [url |-> c.url, token |-> c.token, timeout |-> c.timeout,
                  workers |-> c.workers]
\* Mutant: the timeout was forgotten.
ConnectionDiffersButTimeout(c, d) ==
  <<c.url, c.token, c.workers>> # <<d.url, d.token, d.workers>>
ConnectionDiffers(c, d) == Connection(c) # Connection(d)

\* Configure refuses a configuration or takes it over and rebuilds the pool.
Refuses(c) ==
  \/ stations > 0
  \/ c.token = <<>>
  \/ ParseUrl(c.url) = NoUrl
  \/ ParseUrl(c.url).scheme = <<"https">> /\ ~Tls

Configure(c) ==
  /\ ~Refuses(c)
  /\ config' = c
  /\ url' = ParseUrl(c.url)
  /\ pool' = Connection(c)
  /\ running' = TRUE

Init ==
  /\ file \in Files
  /\ config = Default
  /\ url = NoUrl
  /\ running = FALSE
  /\ pool = Connection(Default)
  /\ stations = 0
  /\ debug = FALSE
  /\ result = "not loaded"

-----------------------------------------------------------------------------
\* Load of src/plugin.cpp: without a token the plugin waits for SetServer.
Load ==
  LET found == ReadServerCfg(file)
  IN /\ result = "not loaded"
     /\ result' = "loaded"
     /\ debug' = (found.any /\ found.debug)
     /\ \/ found.any /\ Configure(found.config)
        \/ (~found.any \/ Refuses(found.config)) /\ UNCHANGED <<config, url, running, pool>>
     /\ UNCHANGED <<file, stations>>

Loaded == result # "not loaded"

Edits ==
  /\ Loaded
  /\ file' \in Files \ {file}
  /\ UNCHANGED <<config, url, running, pool, stations, debug, result>>

\* GoRadio_SetServer: every other setting gets its default.
SetServer(u, t) ==
  LET c == [Default EXCEPT !.url = u, !.token = t]
  IN /\ Loaded
     /\ \/ Configure(c) /\ result' = "accepted"
        \/ /\ Refuses(c)
           /\ result' = "refused"
           /\ UNCHANGED <<config, url, running, pool>>
     /\ UNCHANGED <<file, stations, debug>>

\* Mutant: Reload takes the whole configuration over before it looks at the rest.
AppliesAll(c) ==
  /\ config' = c
  /\ UNCHANGED <<url, running, pool>>

\* Reload writes the poll interval before it looks at the rest.
AppliesPoll(c) ==
  /\ config' = [url |-> config.url, token |-> config.token, poll |-> c.poll,
                timeout |-> config.timeout, workers |-> config.workers]
  /\ UNCHANGED <<url, running, pool>>

FirstConfigure(c) ==
  /\ ~running
  /\ \/ Configure(c) /\ result' = "applied"
     \/ Refuses(c) /\ result' = "failed" /\ UNCHANGED <<config, url, running, pool>>

KeepsConnection(c) ==
  /\ running
  /\ ~ConnectionDiffers(config, c)
  /\ AppliesPoll(c)
  /\ result' = "applied"

SkipsConnection(c) ==
  /\ running
  /\ ConnectionDiffers(config, c)
  /\ stations > 0
  /\ AppliesPoll(c)
  /\ result' = "partial"

Repoints(c) ==
  /\ running
  /\ ConnectionDiffers(config, c)
  /\ stations = 0
  /\ \/ Configure(c) /\ result' = "applied"
     \/ Refuses(c) /\ AppliesPoll(c) /\ result' = "failed"

Reload(c) == FirstConfigure(c) \/ KeepsConnection(c) \/ SkipsConnection(c) \/ Repoints(c)

ReloadConfig ==
  LET found == ReadServerCfg(file)
  IN /\ Loaded
     /\ \/ /\ ~found.any
           /\ result' = "failed"
           /\ UNCHANGED <<config, url, running, pool, debug>>
        \/ /\ found.any
           /\ debug' = found.debug
           /\ Reload(found.config)
     /\ UNCHANGED <<file, stations>>

\* The stations, as far as Configure and Reload look at them.
CreateStation ==
  /\ Loaded
  /\ running
  /\ stations < MaxStations
  /\ stations' = stations + 1
  /\ result' = "created"
  /\ UNCHANGED <<file, config, url, running, pool, debug>>

DestroyStation ==
  /\ stations > 0
  /\ stations' = stations - 1
  /\ result' = "destroyed"
  /\ UNCHANGED <<file, config, url, running, pool, debug>>

Next ==
  \/ Load
  \/ Edits
  \/ \E u \in Urls, t \in Tokens : SetServer(u, t)
  \/ ReloadConfig
  \/ CreateStation
  \/ DestroyStation

Spec == Init /\ [][Next]_vars

-----------------------------------------------------------------------------
TypeOK ==
  /\ file \in Files
  /\ config.url \in Seq(STRING) /\ config.token \in Seq(STRING)
  /\ {config.poll, config.timeout, config.workers} \subseteq Int
  /\ url = NoUrl \/ url.port \in 1 .. MaxPort
  /\ running \in BOOLEAN
  /\ stations \in 0 .. MaxStations
  /\ debug \in BOOLEAN
  /\ result \in {"not loaded", "loaded", "accepted", "refused", "applied", "partial",
                 "failed", "created", "destroyed"}

\* The workers always hold the connection settings that config_ names and that
\* Reload compares with, whatever was refused or applied in part meanwhile:
\* otherwise a reload would not notice that the file differs from the pool.
PoolIsAsConfigured ==
  running => /\ pool = Connection(config)
             /\ url = ParseUrl(config.url)
             /\ config.token # <<>>

\* What a file means by a setting, whatever else it holds: the value in the
\* last line that has one, or the default.
Gives(line, key) ==
  LET t == Trim(line)
  IN Len(t) > 1 /\ t[1] = key /\ t[2] \in Blank
Given(line) == Trim(SubSeq(Trim(line), 3, Len(Trim(line))))
Meant(key, default) ==
  LET giving == {i \in DOMAIN file : Gives(file[i], key)}
  IN IF giving = {} THEN default ELSE Given(file[Max(giving)])
MeantNumber(key, default) ==
  LET value == Meant(key, <<>>) IN IF value = <<>> THEN default ELSE Atoi(value)

\* What a reload did, against what it reports.
AsReported ==
  /\ (result' = "applied" =>
        pool' = [url |-> Meant("goradio_url", DefaultUrl),
                 token |-> Meant("goradio_token", <<>>),
                 timeout |-> MeantNumber("goradio_timeout", 10000),
                 workers |-> MeantNumber("goradio_workers", 2)])
  /\ (result' \in {"applied", "partial"} =>
        /\ config'.poll = 1000 * MeantNumber("goradio_poll_interval", 5)
        /\ debug' = (MeantNumber("goradio_debug", 0) # 0))
  /\ (result' = "partial" => stations > 0)
  /\ (result' # "applied" => UNCHANGED <<url, pool, running>>)

\* goradio.inc of GoRadio_ReloadConfig: applied means that everything in the
\* file is in effect, partial that the poll interval and the log level are and
\* the rest was left alone because of stations, failed that nothing about the
\* connection changed.
ReloadKeepsItsWord == [][ReloadConfig => AsReported]_vars
=============================================================================

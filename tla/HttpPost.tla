------------------------------- MODULE HttpPost -------------------------------
(***************************************************************************)
(* HttpConnection::Post in src/src/http.cpp: one keep-alive connection, a  *)
(* second attempt when it had gone stale, the framings of a response body, *)
(* the read timeout, and Interrupt from another thread; together with an   *)
(* HTTP server that answers late, closes when it likes, keeps working on   *)
(* requests whose client is gone, and may hold the client: take nothing of *)
(* what it sends, or trickle bytes that end no line and no body, so that   *)
(* neither a send nor a read comes to an end or times out.                 *)
(*                                                                         *)
(* A response is a sequence of parts.  What is in buf_ and what is still   *)
(* in the socket are one stream here: Close throws both away.              *)
(***************************************************************************)
EXTENDS Integers, Sequences, FiniteSets

CONSTANTS
  Framings,   \* how the server may frame a response body
  MaxPosts    \* bound: calls of Post

ASSUME PostAssumption ==
  /\ Framings \subseteq {"none", "length", "chunked", "untilClose"}
  /\ MaxPosts \in Nat \ {0}

Posts == 1 .. MaxPosts

\* Room for two connections per call; Post opens one at most.
Connections == 1 .. 2 * MaxPosts

NoSocket == 0

\* The parts of a response: the status line and headers, body bytes, the
\* line of the chunk of size 0, and the blank line after it.
Part == [post : Posts, kind : {"head", "data", "zero", "blank"},
         framing : Framings, close : BOOLEAN]

VARIABLES
  at,          \* where Post is; "idle" outside of it
  post,        \* number of the call of Post, the last one when idle
  attempt,     \* attempt
  wasStale,    \* was_connected
  fd,          \* fd_, the connection in use
  opened,      \* connections opened so far
  mode,        \* body_mode_
  closes,      \* the response has "Connection: close"
  owners,      \* the calls whose response parts *resp was filled from
  toServer,    \* requests written to each connection, not yet read
  toClient,    \* response parts of each connection, not yet read
  answering,   \* response parts the server has still to write
  serverOpen,  \* connections the server has not closed
  shut,        \* connections Interrupt shut down
  held,        \* connections whose server holds the client
  applied,     \* history: how often each call was carried out
  kept,        \* history: calls whose first attempt kept a connection
  outcome,     \* history: what each call returned
  trouble      \* history: some read timed out, or a socket was closed

callVars   == <<at, post, attempt, wasStale>>
respVars   == <<mode, closes, owners>>
socketVars == <<fd, opened, kept>>
wireVars   == <<toServer, toClient>>
serverVars == <<answering, applied>>
stateVars  == <<serverOpen, shut, held, trouble>>
vars == <<callVars, respVars, socketVars, wireVars, serverVars, stateVars,
          outcome>>

Init ==
  /\ at = "idle" /\ post = 0 /\ attempt = 0 /\ wasStale = FALSE
  /\ fd = NoSocket /\ opened = 0
  /\ mode = "none" /\ closes = FALSE /\ owners = {}
  /\ toServer = [c \in Connections |-> <<>>]
  /\ toClient = [c \in Connections |-> <<>>]
  /\ answering = [c \in Connections |-> <<>>]
  /\ serverOpen = Connections /\ shut = {} /\ held = {}
  /\ applied = [p \in Posts |-> 0]
  /\ kept = {} /\ outcome = [p \in Posts |-> "none"]
  /\ trouble = FALSE

-----------------------------------------------------------------------------
(* Post                                                                      *)

\* ConnectClient::Call makes the next call.
PostCalled ==
  /\ at = "idle" /\ post < MaxPosts
  /\ at' = "start" /\ post' = post + 1
  /\ attempt' = 0
  /\ owners' = {}
  /\ UNCHANGED <<wasStale, mode, closes, socketVars, wireVars, serverVars,
                 stateVars, outcome>>

PostReturns(result) ==
  /\ at' = "idle"
  /\ outcome' = [outcome EXCEPT ![post] = result]

\* EnsureConnected keeps the socket it has.
KeepsConnection ==
  /\ at = "start" /\ fd # NoSocket
  /\ wasStale' = TRUE
  /\ kept' = kept \cup {post}
  /\ owners' = {}
  /\ at' = "send"
  /\ UNCHANGED <<post, attempt, mode, closes, fd, opened, wireVars,
                 serverVars, stateVars, outcome>>

Connects ==
  /\ at = "start" /\ fd = NoSocket
  /\ wasStale' = FALSE
  /\ opened' = opened + 1 /\ fd' = opened + 1
  /\ owners' = {}
  /\ at' = "send"
  /\ UNCHANGED <<post, attempt, mode, closes, kept, wireVars, serverVars,
                 stateVars, outcome>>

ConnectFails ==
  /\ at = "start" /\ fd = NoSocket
  /\ wasStale' = FALSE
  /\ PostReturns("failed")
  /\ UNCHANGED <<post, attempt, respVars, socketVars, wireVars, serverVars,
                 stateVars>>

\* Mutant: the connection is kept after a failure.
CloseNever == UNCHANGED fd

Close == fd' = NoSocket

\* Mutant: a failed attempt is repeated until the third.
RetriesTwice == attempt <= 1

\* Mutant: a fresh connection gets a second attempt as well.
RetriesAnyConnection == attempt = 0

\* Post's `was_connected && attempt == 0`.
Retries == wasStale /\ attempt = 0

\* SendRequest or ReadStatusAndHeaders failed.
AttemptFails ==
  /\ Close
  /\ IF Retries
     THEN /\ at' = "start" /\ attempt' = attempt + 1
          /\ UNCHANGED outcome
     ELSE PostReturns("failed") /\ UNCHANGED attempt
  /\ UNCHANGED <<post, wasStale, respVars, opened, kept, wireVars,
                 serverVars>>

\* The server holds the client: Interrupt ends that, waiting does not.
Held == fd \in held \cap serverOpen

\* SendAll is done; while the server takes nothing it tries again for ever.  A
\* write goes through although the server may have closed its end.
SendSucceeds ==
  /\ at = "send" /\ fd \notin shut /\ ~Held
  /\ toServer' = IF fd \in serverOpen
                 THEN [toServer EXCEPT ![fd] = Append(@, post)] ELSE toServer
  /\ at' = "status"
  /\ UNCHANGED <<post, attempt, wasStale, respVars, socketVars, toClient,
                 serverVars, stateVars, outcome>>

SendFails ==
  /\ at = "send" /\ (fd \in shut \/ fd \notin serverOpen)
  /\ AttemptFails
  /\ UNCHANGED stateVars

\* The next part of the response, from buf_ or from the socket.
Incoming == IF fd = NoSocket THEN <<>> ELSE toClient[fd]

\* Mutant: reads have no timeout.
TimesOutNever == FALSE

\* Recv returned 0: nothing came for timeout_ms.
TimesOut == fd # NoSocket /\ Incoming = <<>> /\ ~Held

\* Mutant: Interrupt does not wake a thread that sends or receives.
BrokenByServer == Incoming = <<>> /\ fd \notin serverOpen

\* Recv returned -1.
Broken == Incoming = <<>> /\ (fd \in shut \/ fd \notin serverOpen)

\* ReadStatusAndHeaders.
ReadsHead ==
  /\ at = "status" /\ Incoming # <<>>
  /\ Head(Incoming).kind = "head"
  /\ toClient' = [toClient EXCEPT ![fd] = Tail(@)]
  /\ mode' = Head(Incoming).framing
  /\ closes' = Head(Incoming).close
  /\ owners' = owners \cup {Head(Incoming).post}
  /\ at' = "body"
  /\ UNCHANGED <<post, attempt, wasStale, socketVars, toServer, serverVars,
                 stateVars, outcome>>

\* A line that is no status line, a timeout, a closed socket.
ReadHeadFails ==
  /\ at = "status"
  /\ \/ Incoming # <<>> /\ Head(Incoming).kind # "head" /\ UNCHANGED trouble
     \/ (TimesOut \/ Broken) /\ trouble' = TRUE
  /\ AttemptFails
  /\ UNCHANGED <<serverOpen, shut, held>>

\* ReadBody appends body bytes; a blank line before a chunk size is skipped.
ReadsData ==
  /\ at = "body" /\ Incoming # <<>>
  /\ mode # "none"
  /\ \/ Head(Incoming).kind = "data"
     \/ mode = "chunked" /\ Head(Incoming).kind = "blank"
  /\ toClient' = [toClient EXCEPT ![fd] = Tail(@)]
  /\ owners' = owners \cup {Head(Incoming).post}
  /\ mode' = IF mode = "length" THEN "none" ELSE mode
  /\ UNCHANGED <<callVars, closes, socketVars, toServer, serverVars,
                 stateVars, outcome>>

\* The chunk of size 0 ends the body; the blank line after it is not read.
ReadsLastChunk ==
  /\ at = "body" /\ mode = "chunked" /\ Incoming # <<>>
  /\ Head(Incoming).kind \in {"zero", "head"}
  /\ toClient' = [toClient EXCEPT ![fd] = Tail(@)]
  /\ mode' = "none"
  /\ UNCHANGED <<callVars, closes, owners, socketVars, toServer, serverVars,
                 stateVars, outcome>>

\* Without a length or chunks the end of the connection ends the body.
BodyEndsByClose ==
  /\ at = "body" /\ mode = "untilClose" /\ Broken
  /\ mode' = "none"
  /\ UNCHANGED <<callVars, closes, owners, socketVars, wireVars, serverVars,
                 stateVars, outcome>>

BodyDone ==
  /\ at = "body" /\ mode = "none"
  /\ PostReturns("ok")
  /\ IF closes THEN Close ELSE UNCHANGED fd
  /\ UNCHANGED <<post, attempt, wasStale, respVars, opened, kept, wireVars,
                 serverVars, stateVars>>

\* ReadFullBody failed: the connection is dropped and nothing is retried.
ReadBodyFails ==
  /\ at = "body" /\ mode # "none"
  /\ TimesOut \/ (Broken /\ mode # "untilClose")
  /\ trouble' = TRUE
  /\ Close
  /\ PostReturns("failed")
  /\ UNCHANGED <<post, attempt, wasStale, respVars, opened, kept, wireVars,
                 serverVars, serverOpen, shut, held>>

-----------------------------------------------------------------------------
(* The server and the thread that interrupts                                 *)

\* What is written to answer call p.  An answer without an end is a server that
\* holds its client before the last of these parts.
Response(p, framing, close) ==
  LET part(kind) == [post |-> p, kind |-> kind, framing |-> framing,
                     close |-> close]
  IN CASE framing = "none"    -> <<part("head")>>
       [] framing = "chunked" -> <<part("head"), part("data"), part("zero"),
                                   part("blank")>>
       [] OTHER               -> <<part("head"), part("data")>>

\* The server reads a request and carries it out, connected or not.
ServerApplies(c) ==
  /\ c \in serverOpen /\ answering[c] = <<>> /\ toServer[c] # <<>>
  /\ \E framing \in Framings, close \in BOOLEAN :
       answering' = [answering EXCEPT
                       ![c] = Response(Head(toServer[c]), framing, close)]
  /\ applied' = [applied EXCEPT ![Head(toServer[c])] = @ + 1]
  /\ toServer' = [toServer EXCEPT ![c] = Tail(@)]
  /\ UNCHANGED <<callVars, respVars, socketVars, toClient, stateVars,
                 outcome>>

\* The next part of the response arrives.
ServerResponds(c) ==
  /\ c \in serverOpen \ shut /\ answering[c] # <<>>
  /\ toClient' = [toClient EXCEPT ![c] = Append(@, Head(answering[c]))]
  /\ answering' = [answering EXCEPT ![c] = Tail(@)]
  /\ UNCHANGED <<callVars, respVars, socketVars, toServer, applied,
                 stateVars, outcome>>

\* An idle timeout, a restart, or the end of an unframed body.
ServerCloses(c) ==
  /\ c \in serverOpen /\ c <= opened
  /\ serverOpen' = serverOpen \ {c}
  /\ toServer' = [toServer EXCEPT ![c] = <<>>]
  /\ trouble' = TRUE
  /\ UNCHANGED <<callVars, respVars, socketVars, toClient, serverVars, shut,
                 held, outcome>>

\* The server stops taking or ending anything on a connection, ...
ServerHolds(c) ==
  /\ c \in serverOpen \ held /\ c <= opened
  /\ held' = held \cup {c}
  /\ trouble' = TRUE
  /\ UNCHANGED <<callVars, respVars, socketVars, wireVars, serverVars,
                 serverOpen, shut, outcome>>

\* ... until it goes on, if it ever does.
ServerLetsGo(c) ==
  /\ c \in held
  /\ held' = held \ {c}
  /\ UNCHANGED <<callVars, respVars, socketVars, wireVars, serverVars,
                 serverOpen, shut, trouble, outcome>>

\* StopWorkers or DestroyStation interrupts the call, once.
Interrupt ==
  /\ shut = {} /\ fd # NoSocket
  /\ shut' = {fd}
  /\ trouble' = TRUE
  /\ UNCHANGED <<callVars, respVars, socketVars, wireVars, serverVars,
                 serverOpen, held, outcome>>

-----------------------------------------------------------------------------
Client ==
  \/ KeepsConnection \/ Connects \/ ConnectFails
  \/ SendSucceeds \/ SendFails
  \/ ReadsHead \/ ReadHeadFails
  \/ ReadsData \/ ReadsLastChunk \/ BodyEndsByClose \/ BodyDone
  \/ ReadBodyFails

Next ==
  \/ PostCalled \/ Client
  \/ \E c \in Connections :
       \/ ServerApplies(c) \/ ServerResponds(c) \/ ServerCloses(c)
       \/ ServerHolds(c) \/ ServerLetsGo(c)
  \/ Interrupt

Spec == Init /\ [][Next]_vars

\* The thread inside Post runs.  The server owes nothing.
FairSpec == Spec /\ WF_vars(Client)

-----------------------------------------------------------------------------
(* Properties                                                                *)

\* Type correctness.
TypeOK ==
  /\ at \in {"idle", "start", "send", "status", "body"}
  /\ post \in 0 .. MaxPosts /\ attempt \in {0, 1} /\ wasStale \in BOOLEAN
  /\ opened \in 0 .. 2 * MaxPosts /\ fd \in 0 .. opened
  /\ mode \in {"none", "length", "chunked", "untilClose"}
  /\ closes \in BOOLEAN /\ owners \subseteq Posts
  /\ toServer \in [Connections -> Seq(Posts)]
  /\ toClient \in [Connections -> Seq(Part)]
  /\ answering \in [Connections -> Seq(Part)]
  /\ kept \subseteq Posts
  /\ serverOpen \subseteq Connections /\ shut \subseteq Connections
  /\ held \subseteq Connections
  /\ applied \in [Posts -> 0 .. 2]
  /\ outcome \in [Posts -> {"none", "ok", "failed"}]
  /\ trouble \in BOOLEAN

\* A response is handed to the call it answers, never the late or unread
\* answer of an earlier call on the same connection, and a call that
\* succeeded was carried out.
ResponseIsItsOwn ==
  /\ owners \subseteq {post}
  /\ \A p \in Posts : outcome[p] = "ok" => applied[p] > 0

\* Only a call that began on a kept connection can be carried out twice, and
\* no call a third time, however late the server is.
FreshConnectionAppliesOnce ==
  \A p \in Posts : applied[p] <= IF p \in kept THEN 2 ELSE 1

\* The server does not hold its client for ever.
ServerGoesOn == <>[](fd \notin held)

\* A call of Post returns whatever the server answers, closes or leaves
\* unanswered, as long as it does not hold the client for ever: SendAll and
\* the reads of a header or a body have no limit as a whole.
PostEnds == ServerGoesOn => ((at # "idle") ~> (at = "idle"))

\* A call on a connection that Interrupt shut down comes off it, even one the
\* server holds: it returns, or goes on with a new connection.
InterruptEndsTheWait ==
  (at # "idle" /\ fd \in shut) ~> (at = "idle" \/ fd \notin shut)

\* "A failure after the request went out is never retried here": while the
\* server answers in time and nobody closes a socket, no call is carried out
\* twice.
HealthyServerAppliesOnce ==
  ~trouble => \A p \in Posts : applied[p] <= 1

=============================================================================

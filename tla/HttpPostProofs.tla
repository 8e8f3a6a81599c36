---------------------------- MODULE HttpPostProofs ----------------------------
(***************************************************************************)
(* Machine-checked proofs about HttpPost, for any number of calls and any  *)
(* framings.                                                               *)
(***************************************************************************)
EXTENDS HttpPost, FiniteSetTheorems, SequenceTheorems, TLAPS

-----------------------------------------------------------------------------
(* The inductive invariant                                                   *)

CallTypes ==
  /\ at \in {"idle", "start", "send", "status", "body"}
  /\ post \in 0 .. MaxPosts /\ attempt \in {0, 1} /\ wasStale \in BOOLEAN
  /\ opened \in 0 .. MaxPosts /\ fd \in 0 .. opened
  /\ mode \in {"none", "length", "chunked", "untilClose"}
  /\ closes \in BOOLEAN /\ owners \subseteq Posts /\ kept \subseteq Posts
  /\ shut \subseteq Connections /\ held \subseteq Connections
  /\ outcome \in [Posts -> {"none", "ok", "failed"}]
  /\ trouble \in BOOLEAN

WireTypes ==
  /\ toServer \in [Connections -> Seq(Posts)]
  /\ toClient \in [Connections -> Seq(Part)]
  /\ answering \in [Connections -> Seq(Part)]
  /\ serverOpen \subseteq Connections
  /\ applied \in [Posts -> Nat]

Types == CallTypes /\ WireTypes

\* Post connects once at most, and the second attempt is always on a connection
\* opened for it.
InvAttempts ==
  /\ at # "idle" => post \in Posts
  /\ \A p \in kept : p <= post
  /\ at = "start" => opened < post
  /\ at # "start" => opened <= post
  /\ attempt = 1 => post \in kept
  /\ at = "start" /\ attempt = 1 => fd = NoSocket
  /\ at \in {"send", "status", "body"} =>
       /\ wasStale => attempt = 0 /\ post \in kept /\ opened < post
       /\ ~wasStale /\ attempt = 0 => post \notin kept
  /\ at = "start" /\ attempt = 0 => post \notin kept
  /\ at = "send" => fd # NoSocket

\* Nothing was written to a connection that is not open yet, nor to one just
\* opened.
InvFresh ==
  /\ \A c \in Connections : c > opened => toServer[c] = <<>>
  /\ at = "send" /\ ~wasStale => toServer[fd] = <<>>

Holds(q, p) == \E i \in 1 .. Len(q) : q[i] = p

\* The connections that hold a request of call p which was not read yet.
Waiting(p) == {c \in Connections : Holds(toServer[c], p)}

\* How often a call may have been written to a connection so far.
Budget(p) ==
  IF p > post THEN 0
  ELSE IF p = post /\ at \in {"start", "send"} THEN attempt
  ELSE IF p = post /\ at \in {"status", "body"} THEN attempt + 1
  ELSE IF p \in kept THEN 2 ELSE 1

\* A request is carried out, or waits, at most as often as it was written.
InvBudget ==
  /\ \A c \in Connections : \A i, j \in 1 .. Len(toServer[c]) :
       toServer[c][i] = toServer[c][j] => i = j
  /\ \A p \in Posts : applied[p] + Cardinality(Waiting(p)) <= Budget(p)

PostInv == Types /\ InvAttempts /\ InvFresh /\ InvBudget

-----------------------------------------------------------------------------
LEMMA Numbers ==
  /\ MaxPosts \in Nat
  /\ \A n : n \in Posts <=> n \in Int /\ 1 <= n /\ n <= MaxPosts
  /\ \A c \in Connections : c \in Int /\ 1 <= c
  /\ Posts \subseteq Connections /\ NoSocket = 0
BY PostAssumption DEF PostAssumption, Posts, Connections, NoSocket

LEMMA Parts ==
  \A x \in Part : /\ x.post \in Posts /\ x.close \in BOOLEAN
                  /\ x.framing \in {"none", "length", "chunked", "untilClose"}
BY PostAssumption DEF PostAssumption, Part

LEMMA Reading ==
  ASSUME Types, Incoming # <<>>
  PROVE  /\ fd \in Connections /\ Incoming = toClient[fd]
         /\ Head(Incoming) \in Part /\ Tail(toClient[fd]) \in Seq(Part)
<1>1. fd \in Connections /\ Incoming = toClient[fd]
  BY Numbers DEF Types, CallTypes, Incoming
<1>2. toClient[fd] \in Seq(Part)
  BY <1>1 DEF Types, WireTypes
<1>. QED
  BY <1>1, <1>2

LEMMA Responding ==
  ASSUME NEW p \in Posts, NEW framing \in Framings, NEW close \in BOOLEAN
  PROVE  Response(p, framing, close) \in Seq(Part)
<1>. DEFINE part(kind) == [post |-> p, kind |-> kind, framing |-> framing, close |-> close]
<1>1. \A kind \in {"head", "data", "zero", "blank"} : part(kind) \in Part
  BY DEF Part
<1>2. \/ Response(p, framing, close) = <<part("head")>>
      \/ Response(p, framing, close) = <<part("head"), part("data")>>
      \/ Response(p, framing, close)
           = <<part("head"), part("data"), part("zero"), part("blank")>>
  BY DEF Response
<1>. HIDE DEF part
<1>3. /\ <<part("head")>> \in Seq(Part)
      /\ <<part("head"), part("data")>> \in Seq(Part)
      /\ <<part("head"), part("data"), part("zero"), part("blank")>> \in Seq(Part)
  BY <1>1
<1>. QED
  BY <1>2, <1>3

LEMMA InitInv == Init => PostInv
<1> SUFFICES ASSUME Init PROVE PostInv
  OBVIOUS
<1>1. CallTypes
  <2>1. 0 \in 0 .. MaxPosts /\ 0 \in 0 .. 0 /\ NoSocket = 0
    BY Numbers
  <2>2. post \in 0 .. MaxPosts /\ opened \in 0 .. MaxPosts /\ fd \in 0 .. opened
    BY <2>1 DEF Init
  <2>. QED
    BY <2>2 DEF Init, CallTypes
<1>2. WireTypes
  BY DEF Init, WireTypes
<1>3. InvAttempts /\ InvFresh
  BY DEF Init, InvAttempts, InvFresh
<1>4. \A p \in Posts : Waiting(p) = {} /\ applied[p] = 0 /\ Budget(p) = 0
  <2> SUFFICES ASSUME NEW p \in Posts
               PROVE  Waiting(p) = {} /\ applied[p] = 0 /\ Budget(p) = 0
    OBVIOUS
  <2>1. \A c \in Connections : toServer[c] = <<>>
    BY DEF Init
  <2>2. \A c \in Connections : ~Holds(toServer[c], p)
    BY <2>1 DEF Holds
  <2>3. post = 0 /\ applied[p] = 0
    BY DEF Init
  <2>4. p > post
    BY <2>3, Numbers
  <2>. QED
    BY <2>2, <2>3, <2>4 DEF Waiting, Budget
<1>5. InvBudget
  <2>1. \A c \in Connections : Len(toServer[c]) = 0
    BY DEF Init
  <2>2. Cardinality({}) = 0
    BY FS_EmptySet
  <2>3. \A p \in Posts : applied[p] + Cardinality(Waiting(p)) <= Budget(p)
    BY <1>4, <2>2
  <2>4. \A c \in Connections : 1 .. Len(toServer[c]) = {}
    BY <2>1
  <2>. QED
    BY <2>3, <2>4 DEF InvBudget
<1>. QED
  BY <1>1, <1>2, <1>3, <1>5 DEF PostInv, Types

LEMMA CallTypesNext ==
  ASSUME Types, InvAttempts, Next
  PROVE  CallTypes'
<1>. USE DEF callVars, respVars, socketVars, wireVars, serverVars,
             stateVars, CallTypes
<1>1. CASE PostCalled
  BY <1>1, Numbers DEF PostCalled, InvAttempts, Types
<1>2. CASE KeepsConnection
  BY <1>2, Numbers DEF KeepsConnection, InvAttempts, Types
<1>3. CASE Connects
  <2>1. opened + 1 \in 0 .. MaxPosts /\ opened + 1 \in 0 .. opened + 1
    BY <1>3, Numbers DEF Connects, InvAttempts, Types
  <2>. QED
    BY <1>3, <2>1 DEF Connects, Types
<1>4. CASE ConnectFails
  BY <1>4, Numbers DEF ConnectFails, PostReturns, InvAttempts, Types
<1>5. CASE SendSucceeds
  BY <1>5, Numbers DEF SendSucceeds, InvAttempts, Types
<1>6. CASE SendFails
  BY <1>6, Numbers
     DEF SendFails, AttemptFails, Close, Retries, PostReturns, InvAttempts,
         Types
<1>7. CASE ReadsHead
  BY <1>7, Numbers, Reading, Parts DEF ReadsHead, InvAttempts, Types
<1>8. CASE ReadHeadFails
  <2>1. post \in Posts /\ NoSocket \in 0 .. opened
    BY <1>8, Numbers DEF ReadHeadFails, InvAttempts, Types
  <2>2. CASE Retries
    <3>1. attempt' = 1 /\ fd' = NoSocket /\ at' = "start" /\ outcome' = outcome
      BY <1>8, <2>2 DEF ReadHeadFails, AttemptFails, Close, Retries
    <3>. QED
      BY <1>8, <2>1, <3>1 DEF ReadHeadFails, AttemptFails, Types
  <2>3. CASE ~Retries
    BY <1>8, <2>1, <2>3
       DEF ReadHeadFails, AttemptFails, Close, PostReturns, Types
  <2>. QED
    BY <2>2, <2>3
<1>9. CASE ReadsData
  BY <1>9, Numbers, Reading, Parts DEF ReadsData, InvAttempts, Types
<1>10. CASE ReadsLastChunk
  BY <1>10, Numbers, Reading, Parts DEF ReadsLastChunk, InvAttempts, Types
<1>11. CASE BodyEndsByClose
  BY <1>11, Numbers DEF BodyEndsByClose, InvAttempts, Types
<1>12. CASE BodyDone
  BY <1>12, Numbers DEF BodyDone, PostReturns, Close, InvAttempts, Types
<1>13. CASE ReadBodyFails
  BY <1>13, Numbers DEF ReadBodyFails, PostReturns, Close, InvAttempts, Types
<1>14. CASE Interrupt
  BY <1>14, Numbers DEF Interrupt, InvAttempts, Types
<1>15. ASSUME NEW c \in Connections, ServerApplies(c) PROVE CallTypes'
  BY <1>15, Numbers DEF ServerApplies, InvAttempts, Types
<1>16. ASSUME NEW c \in Connections, ServerResponds(c) PROVE CallTypes'
  BY <1>16, Numbers DEF ServerResponds, InvAttempts, Types
<1>17. ASSUME NEW c \in Connections, ServerCloses(c) PROVE CallTypes'
  BY <1>17, Numbers DEF ServerCloses, InvAttempts, Types
<1>18. ASSUME NEW c \in Connections, ServerHolds(c) \/ ServerLetsGo(c)
       PROVE  CallTypes'
  BY <1>18, Numbers
     DEF ServerHolds, ServerLetsGo, InvAttempts, Types
<1>. QED
  BY <1>1, <1>2, <1>3, <1>4, <1>5, <1>6, <1>7, <1>8, <1>9, <1>10, <1>11,
     <1>12, <1>13, <1>14, <1>15, <1>16, <1>17,
     <1>18
     DEF Next, Client

LEMMA WireTypesNext ==
  ASSUME Types, InvAttempts, Next
  PROVE  WireTypes'
<1>. USE DEF callVars, respVars, socketVars, wireVars, serverVars,
             stateVars, WireTypes
<1>1. CASE PostCalled
  BY <1>1, Numbers DEF PostCalled, InvAttempts, CallTypes, Types
<1>2. CASE KeepsConnection
  BY <1>2, Numbers DEF KeepsConnection, InvAttempts, CallTypes, Types
<1>3. CASE Connects
  BY <1>3, Numbers DEF Connects, InvAttempts, CallTypes, Types
<1>4. CASE ConnectFails
  BY <1>4, Numbers
     DEF ConnectFails, PostReturns, InvAttempts, CallTypes, Types
<1>5. CASE SendSucceeds
  BY <1>5, Numbers DEF SendSucceeds, InvAttempts, CallTypes, Types
<1>6. CASE SendFails
  BY <1>6, Numbers
     DEF SendFails, AttemptFails, Close, Retries, PostReturns, InvAttempts,
         CallTypes, Types
<1>7. CASE ReadsHead
  BY <1>7, Numbers, Reading, Parts
     DEF ReadsHead, InvAttempts, CallTypes, Types
<1>8. CASE ReadHeadFails
  BY <1>8, Numbers
     DEF ReadHeadFails, AttemptFails, Close, Retries, PostReturns,
         InvAttempts, CallTypes, Types
<1>9. CASE ReadsData
  BY <1>9, Numbers, Reading, Parts
     DEF ReadsData, InvAttempts, CallTypes, Types
<1>10. CASE ReadsLastChunk
  BY <1>10, Numbers, Reading, Parts
     DEF ReadsLastChunk, InvAttempts, CallTypes, Types
<1>11. CASE BodyEndsByClose
  BY <1>11, Numbers DEF BodyEndsByClose, InvAttempts, CallTypes, Types
<1>12. CASE BodyDone
  BY <1>12, Numbers
     DEF BodyDone, PostReturns, Close, InvAttempts, CallTypes, Types
<1>13. CASE ReadBodyFails
  BY <1>13, Numbers
     DEF ReadBodyFails, PostReturns, Close, InvAttempts, CallTypes, Types
<1>14. CASE Interrupt
  BY <1>14, Numbers DEF Interrupt, InvAttempts, CallTypes, Types
<1>15. ASSUME NEW c \in Connections, ServerApplies(c) PROVE WireTypes'
  <2>1. toServer[c] \in Seq(Posts)
    BY DEF WireTypes, Types
  <2>2. Head(toServer[c]) \in Posts /\ Tail(toServer[c]) \in Seq(Posts)
    BY <1>15, <2>1 DEF ServerApplies
  <2>3. answering' \in [Connections -> Seq(Part)]
    BY <1>15, <2>2, Responding DEF ServerApplies, WireTypes, Types
  <2>. QED
    BY <1>15, <2>2, <2>3 DEF ServerApplies, WireTypes, Types
<1>16. ASSUME NEW c \in Connections, ServerResponds(c) PROVE WireTypes'
  <2>1. answering[c] \in Seq(Part) /\ toClient[c] \in Seq(Part)
    BY DEF WireTypes, Types
  <2>2. Head(answering[c]) \in Part /\ Tail(answering[c]) \in Seq(Part)
    BY <1>16, <2>1 DEF ServerResponds
  <2>3. Append(toClient[c], Head(answering[c])) \in Seq(Part)
    BY <2>1, <2>2
  <2>. QED
    BY <1>16, <2>2, <2>3 DEF ServerResponds, WireTypes, Types
<1>17. ASSUME NEW c \in Connections, ServerCloses(c) PROVE WireTypes'
  BY <1>17, Numbers DEF ServerCloses, InvAttempts, CallTypes, Types
<1>18. ASSUME NEW c \in Connections, ServerHolds(c) \/ ServerLetsGo(c)
       PROVE  WireTypes'
  BY <1>18, Numbers
     DEF ServerHolds, ServerLetsGo, InvAttempts, CallTypes, Types
<1>. QED
  BY <1>1, <1>2, <1>3, <1>4, <1>5, <1>6, <1>7, <1>8, <1>9, <1>10, <1>11,
     <1>12, <1>13, <1>14, <1>15, <1>16, <1>17,
     <1>18
     DEF Next, Client

LEMMA AttemptsNext ==
  ASSUME Types, InvAttempts, Next
  PROVE  InvAttempts'
<1>. USE DEF callVars, respVars, socketVars, wireVars, serverVars,
             stateVars, InvAttempts
<1>1. CASE PostCalled
  BY <1>1, Numbers DEF PostCalled, CallTypes, Types
<1>2. CASE KeepsConnection
  BY <1>2, Numbers DEF KeepsConnection, CallTypes, Types
<1>3. CASE Connects
  BY <1>3, Numbers DEF Connects, CallTypes, Types
<1>4. CASE ConnectFails
  BY <1>4, Numbers DEF ConnectFails, PostReturns, CallTypes, Types
<1>5. CASE SendSucceeds
  BY <1>5, Numbers DEF SendSucceeds, CallTypes, Types
<1>6. CASE SendFails
  BY <1>6, Numbers
     DEF SendFails, AttemptFails, Close, Retries, PostReturns, CallTypes,
         Types
<1>7. CASE ReadsHead
  BY <1>7, Numbers, Reading, Parts DEF ReadsHead, CallTypes, Types
<1>8. CASE ReadHeadFails
  BY <1>8, Numbers
     DEF ReadHeadFails, AttemptFails, Close, Retries, PostReturns,
         CallTypes, Types
<1>9. CASE ReadsData
  BY <1>9, Numbers, Reading, Parts DEF ReadsData, CallTypes, Types
<1>10. CASE ReadsLastChunk
  BY <1>10, Numbers, Reading, Parts DEF ReadsLastChunk, CallTypes, Types
<1>11. CASE BodyEndsByClose
  BY <1>11, Numbers DEF BodyEndsByClose, CallTypes, Types
<1>12. CASE BodyDone
  BY <1>12, Numbers DEF BodyDone, PostReturns, Close, CallTypes, Types
<1>13. CASE ReadBodyFails
  BY <1>13, Numbers DEF ReadBodyFails, PostReturns, Close, CallTypes, Types
<1>14. CASE Interrupt
  BY <1>14, Numbers DEF Interrupt, CallTypes, Types
<1>15. ASSUME NEW c \in Connections, ServerApplies(c) PROVE InvAttempts'
  BY <1>15, Numbers DEF ServerApplies, CallTypes, Types
<1>16. ASSUME NEW c \in Connections, ServerResponds(c) PROVE InvAttempts'
  BY <1>16, Numbers DEF ServerResponds, CallTypes, Types
<1>17. ASSUME NEW c \in Connections, ServerCloses(c) PROVE InvAttempts'
  BY <1>17, Numbers DEF ServerCloses, CallTypes, Types
<1>18. ASSUME NEW c \in Connections, ServerHolds(c) \/ ServerLetsGo(c)
       PROVE  InvAttempts'
  BY <1>18, Numbers
     DEF ServerHolds, ServerLetsGo, CallTypes, Types
<1>. QED
  BY <1>1, <1>2, <1>3, <1>4, <1>5, <1>6, <1>7, <1>8, <1>9, <1>10, <1>11,
     <1>12, <1>13, <1>14, <1>15, <1>16, <1>17,
     <1>18
     DEF Next, Client

LEMMA FreshNext ==
  ASSUME Types, InvAttempts, InvFresh, Next
  PROVE  InvFresh'
<1>. USE DEF callVars, respVars, socketVars, wireVars, serverVars,
             stateVars, InvFresh
<1>1. CASE PostCalled
  BY <1>1, Numbers DEF PostCalled, CallTypes, WireTypes, Types, InvAttempts
<1>2. CASE KeepsConnection
  BY <1>2, Numbers
     DEF KeepsConnection, CallTypes, WireTypes, Types, InvAttempts
<1>3. CASE Connects
  <2>1. opened + 1 \in Connections /\ opened \in Int
    BY <1>3, Numbers DEF Connects, InvAttempts, Types, CallTypes
  <2>. QED
    BY <1>3, <2>1, Numbers DEF Connects
<1>4. CASE ConnectFails
  BY <1>4, Numbers
     DEF ConnectFails, PostReturns, CallTypes, WireTypes, Types, InvAttempts
<1>5. CASE SendSucceeds
  BY <1>5, Numbers DEF SendSucceeds, CallTypes, WireTypes, Types, InvAttempts
<1>6. CASE SendFails
  BY <1>6, Numbers
     DEF SendFails, AttemptFails, Close, Retries, PostReturns, CallTypes,
         WireTypes, Types, InvAttempts
<1>7. CASE ReadsHead
  BY <1>7, Numbers, Reading, Parts
     DEF ReadsHead, CallTypes, WireTypes, Types, InvAttempts
<1>8. CASE ReadHeadFails
  BY <1>8, Numbers
     DEF ReadHeadFails, AttemptFails, Close, Retries, PostReturns,
         CallTypes, WireTypes, Types, InvAttempts
<1>9. CASE ReadsData
  BY <1>9, Numbers, Reading, Parts
     DEF ReadsData, CallTypes, WireTypes, Types, InvAttempts
<1>10. CASE ReadsLastChunk
  BY <1>10, Numbers, Reading, Parts
     DEF ReadsLastChunk, CallTypes, WireTypes, Types, InvAttempts
<1>11. CASE BodyEndsByClose
  BY <1>11, Numbers
     DEF BodyEndsByClose, CallTypes, WireTypes, Types, InvAttempts
<1>12. CASE BodyDone
  BY <1>12, Numbers
     DEF BodyDone, PostReturns, Close, CallTypes, WireTypes, Types,
         InvAttempts
<1>13. CASE ReadBodyFails
  BY <1>13, Numbers
     DEF ReadBodyFails, PostReturns, Close, CallTypes, WireTypes, Types,
         InvAttempts
<1>14. CASE Interrupt
  BY <1>14, Numbers DEF Interrupt, CallTypes, WireTypes, Types, InvAttempts
<1>15. ASSUME NEW c \in Connections, ServerApplies(c) PROVE InvFresh'
  <2>1. /\ toServer[c] # <<>> /\ at' = at /\ wasStale' = wasStale
        /\ fd' = fd /\ opened' = opened
    BY <1>15 DEF ServerApplies
  <2>2. \A d \in Connections : d # c => toServer'[d] = toServer[d]
    BY <1>15 DEF ServerApplies, Types, WireTypes
  <2>3. at = "send" => fd \in Connections
    BY Numbers DEF InvAttempts, Types, CallTypes
  <2>. QED
    BY <2>1, <2>2, <2>3
<1>16. ASSUME NEW c \in Connections, ServerResponds(c) PROVE InvFresh'
  BY <1>16, Numbers
     DEF ServerResponds, CallTypes, WireTypes, Types, InvAttempts
<1>17. ASSUME NEW c \in Connections, ServerCloses(c) PROVE InvFresh'
  BY <1>17, Numbers DEF ServerCloses, CallTypes, WireTypes, Types, InvAttempts
<1>18. ASSUME NEW c \in Connections, ServerHolds(c) \/ ServerLetsGo(c)
       PROVE  InvFresh'
  BY <1>18, Numbers
     DEF ServerHolds, ServerLetsGo, CallTypes, WireTypes, Types,
         InvAttempts
<1>. QED
  BY <1>1, <1>2, <1>3, <1>4, <1>5, <1>6, <1>7, <1>8, <1>9, <1>10, <1>11,
     <1>12, <1>13, <1>14, <1>15, <1>16, <1>17,
     <1>18
     DEF Next, Client

-----------------------------------------------------------------------------
(* Requests and their budgets                                                *)

LEMMA FiniteWaiting ==
  \A S \in SUBSET Connections : IsFiniteSet(S) /\ Cardinality(S) \in Nat
<1>1. 1 \in Int /\ 2 * MaxPosts \in Int
  BY Numbers
<1>2. IsFiniteSet(Connections)
  BY <1>1, FS_Interval DEF Connections
<1>. QED
  BY <1>2, FS_Subset, FS_CardinalityType

\* A budget is never taken back, and writing the request raises it by one.
LEMMA BudgetsGrow ==
  ASSUME Types, InvAttempts, Next, NEW p \in Posts
  PROVE  /\ Budget(p) \in Nat /\ Budget(p)' \in Nat /\ Budget(p) <= Budget(p)'
         /\ SendSucceeds /\ p = post => Budget(p) + 1 <= Budget(p)'
<1>. USE DEF Budget, InvAttempts, Types, CallTypes, callVars, respVars, socketVars
<1>0. p \in Int /\ post \in Int /\ 1 <= p
  BY Numbers
<1>1. CASE PostCalled
  BY <1>0, <1>1 DEF PostCalled, SendSucceeds
<1>2. CASE KeepsConnection \/ Connects
  BY <1>0, <1>2 DEF KeepsConnection, Connects, SendSucceeds
<1>3. CASE ConnectFails
  BY <1>0, <1>3 DEF ConnectFails, PostReturns, SendSucceeds
<1>4. CASE SendSucceeds
  BY <1>0, <1>4 DEF SendSucceeds
<1>5. CASE SendFails
  BY <1>0, <1>5 DEF SendFails, AttemptFails, Retries, PostReturns, SendSucceeds
<1>6. CASE ReadHeadFails
  BY <1>0, <1>6
     DEF ReadHeadFails, AttemptFails, Retries, PostReturns, SendSucceeds
<1>7. CASE ReadsHead \/ ReadsData \/ ReadsLastChunk \/ BodyEndsByClose
  BY <1>0, <1>7
     DEF ReadsHead, ReadsData, ReadsLastChunk, BodyEndsByClose, SendSucceeds
<1>8. CASE BodyDone \/ ReadBodyFails
  BY <1>0, <1>8 DEF BodyDone, ReadBodyFails, PostReturns, SendSucceeds
<1>9. CASE \/ Interrupt
           \/ \E c \in Connections :
                \/ ServerApplies(c) \/ ServerResponds(c) \/ ServerCloses(c)
                \/ ServerHolds(c) \/ ServerLetsGo(c)
  <2>1. UNCHANGED <<at, post, attempt, kept>>
    BY <1>9
       DEF Interrupt, ServerApplies, ServerResponds, ServerCloses,
           ServerHolds, ServerLetsGo
  <2>2. ~SendSucceeds
    BY <2>1 DEF SendSucceeds
  <2>. QED
    BY <1>0, <2>1, <2>2
<1>. QED
  BY <1>1, <1>2, <1>3, <1>4, <1>5, <1>6, <1>7, <1>8, <1>9 DEF Next, Client

\* Every other step keeps the requests and how often they were carried out.
LEMMA BudgetQuiet ==
  ASSUME Types, InvAttempts, InvBudget, Next, UNCHANGED <<toServer, applied>>
  PROVE  InvBudget'
<1>1. \A p \in Posts : Waiting(p)' = Waiting(p) /\ Cardinality(Waiting(p)) \in Nat
  BY FiniteWaiting DEF Waiting, Holds
<1>2. \A p \in Posts : applied[p] \in Nat
  BY DEF Types, WireTypes
<1>3. \A p \in Posts : applied'[p] + Cardinality(Waiting(p)') <= Budget(p)'
  BY <1>1, <1>2, BudgetsGrow DEF InvBudget
<1>. QED
  BY <1>3 DEF InvBudget

LEMMA SendBudget ==
  ASSUME Types, InvAttempts, InvFresh, InvBudget, Next, SendSucceeds, fd \in serverOpen
  PROVE  InvBudget'
<1>0. /\ post \in Posts /\ fd \in Connections /\ toServer[fd] \in Seq(Posts)
      /\ applied' = applied /\ at = "send"
      /\ toServer' = [toServer EXCEPT ![fd] = Append(@, post)]
  BY DEF SendSucceeds, InvAttempts, Types, CallTypes, WireTypes, serverVars
<1>1. ~Holds(toServer[fd], post)
  <2>1. CASE attempt = 1
    BY <1>0, <2>1 DEF InvAttempts, InvFresh, Holds, Types, CallTypes
  <2>2. CASE attempt = 0
    <3>1. Budget(post) = 0
      BY <1>0, <2>2, Numbers DEF Budget, Types, CallTypes
    <3>2. Cardinality(Waiting(post)) \in Nat /\ IsFiniteSet(Waiting(post))
      BY FiniteWaiting DEF Waiting
    <3>3. Cardinality(Waiting(post)) = 0
      BY <1>0, <3>1, <3>2 DEF InvBudget, Types, WireTypes
    <3>4. Waiting(post) = {}
      BY <3>2, <3>3, FS_EmptySet
    <3>. QED
      BY <1>0, <3>4 DEF Waiting
  <2>. QED
    BY <2>1, <2>2 DEF Types, CallTypes
<1>2. \A c \in Connections : \A i, j \in 1 .. Len(toServer'[c]) :
        toServer'[c][i] = toServer'[c][j] => i = j
  <2>1. ASSUME NEW i \in 1 .. Len(toServer'[fd]), NEW j \in 1 .. Len(toServer'[fd]),
               toServer'[fd][i] = toServer'[fd][j]
        PROVE  i = j
    <3>1. /\ Len(toServer'[fd]) = Len(toServer[fd]) + 1
          /\ \A k \in 1 .. Len(toServer[fd]) : toServer'[fd][k] = toServer[fd][k]
          /\ toServer'[fd][Len(toServer[fd]) + 1] = post
      BY <1>0 DEF Types, WireTypes
    <3>2. \A k \in 1 .. Len(toServer[fd]) : toServer[fd][k] # post
      BY <1>1 DEF Holds
    <3>3. Len(toServer[fd]) \in Nat
      BY <1>0
    <3>. QED
      BY <1>0, <2>1, <3>1, <3>2, <3>3 DEF InvBudget
  <2>. QED
    BY <1>0, <2>1 DEF InvBudget, Types, WireTypes
<1>3. \A p \in Posts : p # post => Waiting(p)' = Waiting(p)
  <2>1. ASSUME NEW p \in Posts, p # post
        PROVE  Holds(toServer'[fd], p) <=> Holds(toServer[fd], p)
    <3>1. /\ Len(toServer'[fd]) = Len(toServer[fd]) + 1 /\ Len(toServer[fd]) \in Nat
          /\ \A k \in 1 .. Len(toServer[fd]) : toServer'[fd][k] = toServer[fd][k]
          /\ toServer'[fd][Len(toServer[fd]) + 1] = post
      BY <1>0 DEF Types, WireTypes
    <3>. QED
      BY <2>1, <3>1 DEF Holds
  <2>. QED
    BY <1>0, <2>1 DEF Waiting, Types, WireTypes
<1>4. \A p \in Posts : Waiting(p)' \subseteq Waiting(p) \cup {fd}
  BY <1>0 DEF Waiting, Types, WireTypes
<1>5. ASSUME NEW p \in Posts
      PROVE  applied'[p] + Cardinality(Waiting(p)') <= Budget(p)'
  <2>0. /\ Cardinality(Waiting(p)) \in Nat /\ Cardinality(Waiting(p)') \in Nat
        /\ IsFiniteSet(Waiting(p)) /\ applied[p] \in Nat
    BY FiniteWaiting DEF Waiting, Types, WireTypes
  <2>1. CASE p # post
    BY <1>0, <1>3, <2>0, <2>1, BudgetsGrow DEF InvBudget
  <2>2. CASE p = post
    <3>1. /\ IsFiniteSet(Waiting(p) \cup {fd})
          /\ Cardinality(Waiting(p) \cup {fd})
               \in {Cardinality(Waiting(p)), Cardinality(Waiting(p)) + 1}
      BY <2>0, FS_AddElement
    <3>2. Cardinality(Waiting(p)') <= Cardinality(Waiting(p) \cup {fd})
      BY <1>4, <3>1, FS_Subset
    <3>. QED
      BY <1>0, <2>0, <2>2, <3>1, <3>2, BudgetsGrow DEF InvBudget
  <2>. QED
    BY <2>1, <2>2
<1>. QED
  BY <1>2, <1>5 DEF InvBudget

LEMMA ApplyBudget ==
  ASSUME Types, InvAttempts, InvBudget, Next, NEW c \in Connections, ServerApplies(c)
  PROVE  InvBudget'
<1>. DEFINE h == Head(toServer[c])
<1>0. /\ toServer[c] \in Seq(Posts) /\ toServer[c] # <<>> /\ h \in Posts
      /\ toServer' = [toServer EXCEPT ![c] = Tail(@)]
      /\ applied' = [applied EXCEPT ![h] = @ + 1]
  BY DEF ServerApplies, Types, WireTypes
<1>1. /\ Len(toServer'[c]) = Len(toServer[c]) - 1 /\ Len(toServer[c]) \in Nat \ {0}
      /\ \A i \in 1 .. Len(toServer'[c]) : toServer'[c][i] = toServer[c][i + 1]
      /\ toServer[c][1] = h
  BY <1>0 DEF Types, WireTypes
<1>. HIDE DEF h
<1>2. \A d \in Connections : d # c => toServer'[d] = toServer[d]
  BY <1>0 DEF Types, WireTypes
<1>3. \A d \in Connections : \A i, j \in 1 .. Len(toServer'[d]) :
        toServer'[d][i] = toServer'[d][j] => i = j
  <2>1. ASSUME NEW i \in 1 .. Len(toServer'[c]), NEW j \in 1 .. Len(toServer'[c]),
               toServer'[c][i] = toServer'[c][j]
        PROVE  i = j
    <3>1. /\ i + 1 \in 1 .. Len(toServer[c]) /\ j + 1 \in 1 .. Len(toServer[c])
          /\ toServer[c][i + 1] = toServer[c][j + 1]
      BY <1>1, <2>1
    <3>2. i + 1 = j + 1
      BY <3>1 DEF InvBudget
    <3>. QED
      BY <3>2
  <2>. QED
    BY <1>2, <2>1 DEF InvBudget
<1>4. Holds(toServer[c], h) /\ ~Holds(toServer'[c], h)
  <2>1. ASSUME NEW i \in 1 .. Len(toServer'[c]), toServer'[c][i] = h PROVE FALSE
    <3>1. /\ i + 1 \in 1 .. Len(toServer[c]) /\ 1 \in 1 .. Len(toServer[c])
          /\ toServer[c][i + 1] = toServer[c][1]
      BY <1>1, <2>1
    <3>2. i + 1 = 1
      BY <3>1 DEF InvBudget
    <3>. QED
      BY <3>2
  <2>. QED
    BY <1>1, <2>1 DEF Holds
<1>5. \A p : Holds(toServer'[c], p) => Holds(toServer[c], p)
  BY <1>1 DEF Holds
<1>6. \A p \in Posts : Waiting(p)' \subseteq Waiting(p)
  BY <1>2, <1>5 DEF Waiting
<1>7. c \in Waiting(h) /\ \A p \in Posts : p = h => Waiting(p)' \subseteq Waiting(p) \ {c}
  BY <1>0, <1>4, <1>6 DEF Waiting
<1>8. ASSUME NEW p \in Posts
      PROVE  applied'[p] + Cardinality(Waiting(p)') <= Budget(p)'
  <2>0. /\ Cardinality(Waiting(p)) \in Nat /\ Cardinality(Waiting(p)') \in Nat
        /\ IsFiniteSet(Waiting(p)) /\ applied[p] \in Nat
    BY FiniteWaiting DEF Waiting, Types, WireTypes
  <2>1. CASE p # h
    <3>1. Cardinality(Waiting(p)') <= Cardinality(Waiting(p)) /\ applied'[p] = applied[p]
      BY <1>0, <1>6, <2>0, <2>1, FS_Subset DEF Types, WireTypes
    <3>. QED
      BY <2>0, <3>1, BudgetsGrow DEF InvBudget
  <2>2. CASE p = h
    <3>1. IsFiniteSet(Waiting(p) \ {c}) /\ Cardinality(Waiting(p) \ {c}) = Cardinality(Waiting(p)) - 1
      BY <1>7, <2>0, <2>2, FS_RemoveElement
    <3>2. Cardinality(Waiting(p)') <= Cardinality(Waiting(p) \ {c})
      BY <1>7, <2>2, <3>1, FS_Subset
    <3>3. applied'[p] = applied[p] + 1
      BY <1>0, <2>2 DEF Types, WireTypes
    <3>. QED
      BY <2>0, <3>1, <3>2, <3>3, BudgetsGrow DEF InvBudget
  <2>. QED
    BY <2>1, <2>2
<1>. QED
  BY <1>3, <1>8 DEF InvBudget

LEMMA CloseBudget ==
  ASSUME Types, InvAttempts, InvBudget, Next, NEW c \in Connections, ServerCloses(c)
  PROVE  InvBudget'
<1>0. toServer' = [toServer EXCEPT ![c] = <<>>] /\ applied' = applied
  BY DEF ServerCloses, serverVars
<1>1. \A p \in Posts : Waiting(p)' \subseteq Waiting(p)
  BY <1>0 DEF Waiting, Holds, Types, WireTypes
<1>2. ASSUME NEW p \in Posts
      PROVE  applied'[p] + Cardinality(Waiting(p)') <= Budget(p)'
  <2>1. /\ Cardinality(Waiting(p)) \in Nat /\ Cardinality(Waiting(p)') \in Nat
        /\ IsFiniteSet(Waiting(p)) /\ applied[p] \in Nat
    BY FiniteWaiting DEF Waiting, Types, WireTypes
  <2>2. Cardinality(Waiting(p)') <= Cardinality(Waiting(p))
    BY <1>1, <2>1, FS_Subset
  <2>. QED
    BY <1>0, <2>1, <2>2, BudgetsGrow DEF InvBudget
<1>3. \A d \in Connections : \A i, j \in 1 .. Len(toServer'[d]) :
        toServer'[d][i] = toServer'[d][j] => i = j
  BY <1>0 DEF InvBudget, Types, WireTypes
<1>. QED
  BY <1>2, <1>3 DEF InvBudget

LEMMA BudgetNext ==
  ASSUME Types, InvAttempts, InvFresh, InvBudget, Next
  PROVE  InvBudget'
<1>1. CASE SendSucceeds
  <2>1. fd \notin serverOpen => UNCHANGED <<toServer, applied>>
    BY <1>1 DEF SendSucceeds, serverVars
  <2>. QED
    BY <1>1, <2>1, SendBudget, BudgetQuiet
<1>2. ASSUME NEW c \in Connections, ServerApplies(c) \/ ServerCloses(c) PROVE InvBudget'
  BY <1>2, ApplyBudget, CloseBudget
<1>3. ASSUME NEW c \in Connections,
             ServerResponds(c) \/ ServerHolds(c) \/ ServerLetsGo(c)
      PROVE  InvBudget'
  BY <1>3, BudgetQuiet
     DEF ServerResponds, ServerHolds, ServerLetsGo, wireVars, serverVars
<1>4. CASE PostCalled \/ Interrupt \/ (Client /\ ~SendSucceeds)
  <2>1. UNCHANGED <<toServer, applied>>
    BY <1>4
       DEF PostCalled, Interrupt, Client, KeepsConnection, Connects,
           ConnectFails,
           SendFails, ReadsHead, ReadHeadFails, AttemptFails, ReadsData,
           ReadsLastChunk, BodyEndsByClose, BodyDone, ReadBodyFails, wireVars,
           serverVars
  <2>. QED
    BY <2>1, BudgetQuiet
<1>. QED
  BY <1>1, <1>2, <1>3, <1>4 DEF Next

-----------------------------------------------------------------------------
(* The theorems                                                              *)

\* However calls, interrupts, late answers and closes fall together, a call is on
\* the wire no more often than Post has written it, and a socket just opened
\* holds no request.
THEOREM PostInvariant == Spec => []PostInv
<1>1. PostInv /\ [Next]_vars => PostInv'
  <2> SUFFICES ASSUME PostInv, [Next]_vars PROVE PostInv'
    OBVIOUS
  <2>1. CASE Next
    BY <2>1, CallTypesNext, WireTypesNext, AttemptsNext, FreshNext, BudgetNext
       DEF PostInv, Types
  <2>2. CASE UNCHANGED vars
    BY <2>2
       DEF PostInv, Types, CallTypes, WireTypes, InvAttempts, InvFresh,
           InvBudget,
           Budget, Waiting, Holds, vars, callVars, respVars, socketVars,
           wireVars,
           serverVars, stateVars
  <2>. QED
    BY <2>1, <2>2
<1>. QED
  BY <1>1, InitInv, PTL DEF Spec

\* Only a call that began on a kept connection can be carried out twice, and no
\* call a third time, for any number of calls and however late the server is:
\* a request is written once per attempt, and the second attempt is made only
\* after the first kept a connection.
THEOREM CallsApplyAtMostTwice == Spec => []FreshConnectionAppliesOnce
<1>1. ASSUME PostInv PROVE FreshConnectionAppliesOnce
  <2>1. ASSUME NEW p \in Posts PROVE applied[p] <= IF p \in kept THEN 2 ELSE 1
    <3>1. Cardinality(Waiting(p)) \in Nat /\ applied[p] \in Nat
      BY <1>1, FiniteWaiting DEF Waiting, PostInv, Types, WireTypes
    <3>2. /\ applied[p] + Cardinality(Waiting(p)) <= Budget(p)
          /\ Budget(p) \in 0 .. IF p \in kept THEN 2 ELSE 1
      BY <1>1, Numbers
         DEF PostInv, InvBudget, Budget, InvAttempts, Types, CallTypes
    <3>. QED
      BY <3>1, <3>2
  <2>. QED
    BY <2>1 DEF FreshConnectionAppliesOnce
<1>. QED
  BY <1>1, PostInvariant, PTL

\* Every variable has its type; no call is carried out more than twice and the
\* connections suffice, as a call opens one at most.
THEOREM PostTypeOK == Spec => []TypeOK
<1>1. ASSUME PostInv, FreshConnectionAppliesOnce PROVE TypeOK
  <2>1. applied \in [Posts -> 0 .. 2]
    <3>1. \A p \in Posts : applied[p] \in Nat /\ applied[p] <= 2
      BY <1>1 DEF PostInv, Types, WireTypes, FreshConnectionAppliesOnce
    <3>. QED
      BY <1>1, <3>1 DEF PostInv, Types, WireTypes
  <2>2. opened \in 0 .. 2 * MaxPosts
    BY <1>1, Numbers DEF PostInv, Types, CallTypes
  <2>. QED
    BY <1>1, <2>1, <2>2 DEF PostInv, Types, CallTypes, WireTypes, TypeOK
<1>. QED
  BY <1>1, PostInvariant, CallsApplyAtMostTwice, PTL

-----------------------------------------------------------------------------
(* Responses: the inductive invariant                                        *)

\* The response parts the client can still get from its connection.
Pipe ==
  IF fd \in serverOpen THEN toClient[fd] \o answering[fd] ELSE toClient[fd]

Blank(q) == \A i \in 1 .. Len(q) : q[i].kind = "blank"

Own(q, p) == \A i \in 1 .. Len(q) : q[i].post = p

\* From place k on, q is what such a body may still have to come.
RestFrom(q, k, framing) ==
  /\ framing = "none" => \A i \in k .. Len(q) : q[i].kind = "blank"
  /\ framing = "length" => Len(q) <= k
  /\ framing = "chunked" =>
       /\ \A i \in k .. Len(q) : q[i].kind # "head"
       /\ \A i, j \in k .. Len(q) :
            i < j /\ q[i].kind = "zero" => q[j].kind = "blank"

\* At rest a connection has nothing to come but the blank line of a chunked
\* body, or it was shut down and the next call will not get through.
AtRest == fd \in shut \/ (toServer[fd] = <<>> /\ Blank(Pipe))

\* While the head is awaited, what comes first is that blank line or the
\* response to this call.
Awaiting ==
  /\ toServer[fd] # <<>> => toServer[fd] = <<post>> /\ Blank(Pipe)
  /\ Pipe # <<>> =>
       \/ Pipe[1].kind = "blank"
       \/ /\ Pipe[1].kind = "head" /\ Own(Pipe, post)
          /\ RestFrom(Pipe, 2, Pipe[1].framing) /\ applied[post] > 0

InBody ==
  \/ fd \in shut /\ mode = "none"
  \/ toServer[fd] = <<>> /\ Own(Pipe, post) /\ RestFrom(Pipe, 1, mode)

InvResponse ==
  /\ \A c \in Connections : c > opened => toClient[c] = <<>> /\ answering[c] = <<>>
  /\ fd # NoSocket =>
       /\ at \in {"idle", "start", "send"} => AtRest
       /\ at = "status" => Awaiting
       /\ at = "body" => InBody

\* What the call has been given so far, and what the calls before it were.
InvOwners ==
  /\ owners \subseteq {post}
  /\ \A p \in Posts : outcome[p] = "ok" => applied[p] > 0
  /\ at = "body" => applied[post] > 0

ResponseInv == PostInv /\ InvResponse /\ InvOwners

-----------------------------------------------------------------------------
(* Sequences of parts                                                        *)

LEMMA PrefixKeeps ==
  ASSUME NEW p \in Seq(Part), NEW q \in Seq(Part), Len(p) <= Len(q),
         \A i \in 1 .. Len(p) : p[i] = q[i]
  PROVE  /\ Blank(q) => Blank(p)
         /\ \A n \in Posts : Own(q, n) => Own(p, n)
         /\ \A k \in {1, 2}, f \in {"none", "length", "chunked", "untilClose"} :
              RestFrom(q, k, f) => RestFrom(p, k, f)
         /\ p # <<>> => q # <<>> /\ p[1] = q[1]
<1>1. Len(p) \in Nat /\ Len(q) \in Nat /\ \A i \in 1 .. Len(p) : i \in 1 .. Len(q)
  BY LenProperties
<1>2. Blank(q) => Blank(p)
  BY <1>1 DEF Blank
<1>3. \A n \in Posts : Own(q, n) => Own(p, n)
  BY <1>1 DEF Own
<1>4. ASSUME NEW k \in {1, 2}, NEW f \in {"none", "length", "chunked", "untilClose"},
             RestFrom(q, k, f)
      PROVE  RestFrom(p, k, f)
  <2>1. \A i \in k .. Len(p) : i \in k .. Len(q) /\ p[i] = q[i]
    BY <1>1
  <2>2. f = "length" => Len(p) <= k
    BY <1>1, <1>4 DEF RestFrom
  <2>. QED
    BY <1>4, <2>1, <2>2 DEF RestFrom
<1>5. p # <<>> => Len(p) >= 1
  BY <1>1, LenProperties, EmptySeq
<1>6. p # <<>> => q # <<>> /\ p[1] = q[1]
  BY <1>1, <1>5, EmptySeq
<1>. QED
  BY <1>2, <1>3, <1>4, <1>6

LEMMA ShiftKeeps ==
  ASSUME NEW p \in Seq(Part), NEW q \in Seq(Part), Len(p) = Len(q) - 1,
         \A i \in 1 .. Len(p) : p[i] = q[i + 1]
  PROVE  /\ \A n \in Posts : Own(q, n) => Own(p, n)
         /\ \A f \in {"none", "length", "chunked", "untilClose"} :
              /\ RestFrom(q, 2, f) => RestFrom(p, 1, f)
              /\ f # "length" /\ RestFrom(q, 1, f) => RestFrom(p, 1, f)
         /\ RestFrom(q, 1, "chunked") /\ q[1].kind = "zero" => RestFrom(p, 1, "none")
<1>1. Len(p) \in Nat /\ Len(q) \in Nat
  BY LenProperties
<1>2. \A i \in 1 .. Len(p) : i \in Int /\ i + 1 \in 1 .. Len(q) /\ i + 1 \in 2 .. Len(q)
  BY <1>1
<1>3. \A n \in Posts : Own(q, n) => Own(p, n)
  BY <1>2 DEF Own
<1>4. ASSUME NEW f \in {"none", "length", "chunked", "untilClose"}, NEW k \in {1, 2},
             RestFrom(q, k, f), k = 2 \/ f # "length"
      PROVE  RestFrom(p, 1, f)
  <2>1. \A i \in 1 .. Len(p) : i + 1 \in k .. Len(q) /\ p[i] = q[i + 1]
    BY <1>1, <1>2
  <2>2. \A i, j \in 1 .. Len(p) : i < j => i + 1 < j + 1
    BY <1>2
  <2>3. f = "length" => Len(p) <= 1
    BY <1>1, <1>4 DEF RestFrom
  <2>4. f = "none" => \A i \in 1 .. Len(p) : p[i].kind = "blank"
    BY <1>4, <2>1 DEF RestFrom
  <2>5. ASSUME f = "chunked" PROVE \A i \in 1 .. Len(p) : p[i].kind # "head"
    BY <1>4, <2>1, <2>5 DEF RestFrom
  <2>6. ASSUME f = "chunked", NEW i \in 1 .. Len(p), NEW j \in 1 .. Len(p), i < j,
               p[i].kind = "zero"
        PROVE  p[j].kind = "blank"
    <3>1. q[i + 1].kind = "zero" => q[j + 1].kind = "blank"
      BY <1>4, <2>1, <2>2, <2>6 DEF RestFrom
    <3>. QED
      BY <2>1, <2>6, <3>1
  <2>. QED
    BY <2>3, <2>4, <2>5, <2>6 DEF RestFrom
<1>5. ASSUME RestFrom(q, 1, "chunked"), q[1].kind = "zero" PROVE RestFrom(p, 1, "none")
  <2>1. ASSUME NEW i \in 1 .. Len(p) PROVE p[i].kind = "blank"
    <3>1. 1 \in 1 .. Len(q) /\ i + 1 \in 1 .. Len(q) /\ 1 < i + 1
      BY <1>1, <1>2
    <3>2. q[i + 1].kind = "blank"
      BY <1>5, <3>1 DEF RestFrom
    <3>. QED
      BY <3>2
  <2>. QED
    BY <2>1 DEF RestFrom
<1>. QED
  BY <1>3, <1>4, <1>5

-----------------------------------------------------------------------------
(* What is still to come, step by step                                       *)

LEMMA PipeType ==
  ASSUME Types, fd \in Connections
  PROVE  Pipe \in Seq(Part) /\ toClient[fd] \in Seq(Part)
<1>1. toClient[fd] \in Seq(Part) /\ answering[fd] \in Seq(Part)
  BY DEF Types, WireTypes
<1>. QED
  BY <1>1, ConcatProperties DEF Pipe

\* A read takes the first of what is to come.
LEMMA PipeReads ==
  ASSUME Types, fd \in Connections, toClient[fd] # <<>>,
         toClient' = [toClient EXCEPT ![fd] = Tail(@)],
         UNCHANGED <<fd, answering, serverOpen>>
  PROVE  /\ Pipe # <<>> /\ Pipe[1] = Head(toClient[fd])
         /\ Pipe \in Seq(Part) /\ Pipe' \in Seq(Part) /\ Len(Pipe') = Len(Pipe) - 1
         /\ \A i \in 1 .. Len(Pipe') : Pipe'[i] = Pipe[i + 1]
<1>. DEFINE s == toClient[fd]
            t == IF fd \in serverOpen THEN answering[fd] ELSE <<>>
<1>1. s \in Seq(Part) /\ t \in Seq(Part)
  BY DEF Types, WireTypes
<1>2. Pipe = s \o t
  BY <1>1, ConcatEmptySeq DEF Pipe
<1>3. Pipe' = Tail(s) \o t
  <2>1. Tail(s) \in Seq(Part) /\ toClient'[fd] = Tail(s)
    BY <1>1, HeadTailProperties DEF Types, WireTypes
  <2>. QED
    BY <2>1, ConcatEmptySeq DEF Pipe
<1>. SUFFICES ASSUME NEW p, p = s \o t, NEW q, q = Tail(s) \o t
     PROVE  /\ p # <<>> /\ p[1] = Head(s)
            /\ p \in Seq(Part) /\ q \in Seq(Part) /\ Len(q) = Len(p) - 1
            /\ \A i \in 1 .. Len(q) : q[i] = p[i + 1]
  BY <1>2, <1>3
<1>4. s # <<>>
  OBVIOUS
<1>. HIDE DEF s, t
<1>5. /\ Tail(s) \in Seq(Part) /\ Len(Tail(s)) = Len(s) - 1
      /\ \A i \in 1 .. Len(Tail(s)) : Tail(s)[i] = s[i + 1]
  BY <1>1, <1>4, HeadTailProperties
<1>6. Len(s) \in Nat \ {0} /\ Len(t) \in Nat /\ Head(s) = s[1]
  BY <1>1, <1>4, EmptySeq, LenProperties
<1>7. /\ p \in Seq(Part) /\ Len(p) = Len(s) + Len(t)
      /\ \A i \in 1 .. Len(s) + Len(t) : p[i] = IF i <= Len(s) THEN s[i] ELSE t[i - Len(s)]
  BY <1>1, ConcatProperties
<1>8. /\ q \in Seq(Part) /\ Len(q) = Len(Tail(s)) + Len(t)
      /\ \A i \in 1 .. Len(Tail(s)) + Len(t) :
           q[i] = IF i <= Len(Tail(s)) THEN Tail(s)[i] ELSE t[i - Len(Tail(s))]
  BY <1>1, <1>5, ConcatProperties
<1>9. ASSUME NEW i \in 1 .. Len(q) PROVE q[i] = p[i + 1]
  <2>1. i + 1 \in 1 .. Len(s) + Len(t) /\ i \in 1 .. Len(Tail(s)) + Len(t)
    BY <1>5, <1>6, <1>8
  <2>2. CASE i <= Len(Tail(s))
    <3>1. i \in 1 .. Len(Tail(s)) /\ i + 1 <= Len(s)
      BY <1>5, <1>6, <2>1, <2>2
    <3>. QED
      BY <1>5, <1>7, <1>8, <2>1, <2>2, <3>1
  <2>3. CASE ~(i <= Len(Tail(s)))
    <3>1. ~(i + 1 <= Len(s)) /\ i - Len(Tail(s)) = i + 1 - Len(s)
      BY <1>5, <1>6, <2>1, <2>3
    <3>. QED
      BY <1>7, <1>8, <2>1, <2>3, <3>1
  <2>. QED
    BY <2>2, <2>3
<1>10. p # <<>> /\ p[1] = Head(s)
  <2>1. 1 \in 1 .. Len(s) + Len(t) /\ 1 <= Len(s) /\ Len(p) # 0
    BY <1>6, <1>7
  <2>. QED
    BY <1>6, <1>7, <2>1, EmptySeq
<1>11. Len(q) = Len(p) - 1
  BY <1>5, <1>6, <1>7, <1>8
<1>. QED
  BY <1>7, <1>8, <1>9, <1>10, <1>11

\* A part on its way to the client changes nothing of what is to come.
LEMMA PipeResponds ==
  ASSUME Types, fd \in Connections, NEW c \in Connections, ServerResponds(c)
  PROVE  Pipe' = Pipe
<1>1. UNCHANGED <<fd, serverOpen>>
  BY DEF ServerResponds, socketVars, stateVars
<1>2. CASE c # fd
  <2>1. toClient'[fd] = toClient[fd] /\ answering'[fd] = answering[fd]
    BY <1>2 DEF ServerResponds, Types, WireTypes
  <2>. QED
    BY <1>1, <2>1 DEF Pipe
<1>3. CASE c = fd
  <2>. DEFINE s == toClient[fd]
              t == answering[fd]
  <2>1. s \in Seq(Part) /\ t \in Seq(Part) /\ t # <<>> /\ fd \in serverOpen
    BY <1>3 DEF Types, WireTypes, ServerResponds
  <2>2. toClient'[fd] = Append(s, Head(t)) /\ answering'[fd] = Tail(t)
    BY <1>3 DEF Types, WireTypes, ServerResponds
  <2>3. Pipe = s \o t /\ Pipe' = Append(s, Head(t)) \o Tail(t)
    BY <1>1, <2>1, <2>2 DEF Pipe
  <2>. HIDE DEF s, t
  <2>4. Head(t) \in Part /\ Tail(t) \in Seq(Part) /\ t = <<Head(t)>> \o Tail(t)
    <3>1. /\ Head(t) \in Part /\ Tail(t) \in Seq(Part) /\ Len(Tail(t)) = Len(t) - 1
          /\ \A i \in 1 .. Len(Tail(t)) : Tail(t)[i] = t[i + 1]
      BY <2>1, HeadTailProperties
    <3>2. Len(t) \in Nat \ {0} /\ Head(t) = t[1] /\ <<Head(t)>> \in Seq(Part)
      BY <2>1, <3>1, EmptySeq
    <3>3. /\ <<Head(t)>> \o Tail(t) \in Seq(Part)
          /\ Len(<<Head(t)>> \o Tail(t)) = 1 + Len(Tail(t))
          /\ \A i \in 1 .. 1 + Len(Tail(t)) : (<<Head(t)>> \o Tail(t))[i]
               = IF i <= 1 THEN <<Head(t)>>[i] ELSE Tail(t)[i - 1]
      BY <3>1, <3>2, ConcatProperties
    <3>4. ASSUME NEW u, u = <<Head(t)>> \o Tail(t) PROVE t = u
      <4>1. Len(u) = Len(t)
        BY <3>1, <3>2, <3>3, <3>4
      <4>2. ASSUME NEW i \in 1 .. Len(t) PROVE t[i] = u[i]
        <5>1. CASE i = 1
          BY <3>1, <3>2, <3>3, <3>4, <5>1
        <5>2. CASE i # 1
          <6>1. ~(i <= 1) /\ i - 1 \in 1 .. Len(Tail(t)) /\ i - 1 + 1 = i
                /\ i \in 1 .. 1 + Len(Tail(t))
            BY <3>1, <3>2, <5>2
          <6>. QED
            BY <3>1, <3>3, <3>4, <6>1
        <5>. QED
          BY <5>1, <5>2
      <4>. QED
        BY <2>1, <3>3, <3>4, <4>1, <4>2, SeqEqual
    <3>. QED
      BY <3>1, <3>4
  <2>5. Append(s, Head(t)) = s \o <<Head(t)>> /\ <<Head(t)>> \in Seq(Part)
    BY <2>1, <2>4, AppendIsConcat
  <2>6. Append(s, Head(t)) \o Tail(t) = s \o (<<Head(t)>> \o Tail(t))
    BY <2>1, <2>4, <2>5, ConcatAssociative
  <2>. QED
    BY <2>3, <2>4, <2>6
<1>. QED
  BY <1>2, <1>3

\* When the server closes, only what arrived is left.
LEMMA PipeCloses ==
  ASSUME Types, fd \in Connections, NEW c \in Connections, ServerCloses(c)
  PROVE  /\ Pipe \in Seq(Part) /\ Pipe' \in Seq(Part) /\ Len(Pipe') <= Len(Pipe)
         /\ \A i \in 1 .. Len(Pipe') : Pipe'[i] = Pipe[i]
<1>1. UNCHANGED <<fd, toClient, answering>> /\ serverOpen' = serverOpen \ {c}
  BY DEF ServerCloses, socketVars, serverVars
<1>2. /\ toClient[fd] \in Seq(Part) /\ answering[fd] \in Seq(Part)
      /\ Pipe \in Seq(Part)
  BY PipeType DEF Types, WireTypes
<1>3. CASE Pipe' = Pipe
  BY <1>2, <1>3, LenProperties
<1>4. CASE Pipe' = toClient[fd] /\ Pipe = toClient[fd] \o answering[fd]
  <2>. DEFINE s == toClient[fd]
              t == answering[fd]
  <2>. HIDE DEF s, t
  <2>1. /\ Len(s \o t) = Len(s) + Len(t) /\ Len(s) \in Nat /\ Len(t) \in Nat
        /\ \A i \in 1 .. Len(s) + Len(t) : (s \o t)[i]
             = IF i <= Len(s) THEN s[i] ELSE t[i - Len(s)]
    BY <1>2, ConcatProperties, LenProperties DEF s, t
  <2>2. Len(s) <= Len(s \o t) /\ \A i \in 1 .. Len(s) : s[i] = (s \o t)[i]
    BY <2>1
  <2>. QED
    BY <1>2, <1>4, <2>2 DEF s, t
<1>. QED
  BY <1>1, <1>3, <1>4 DEF Pipe

\* The server answers a request with its own response, behind what was left of
\* the response before.
LEMMA PipeApplies ==
  ASSUME Types, fd \in Connections, ServerApplies(fd)
  PROVE  \E framing \in Framings, close \in BOOLEAN :
           /\ Response(Head(toServer[fd]), framing, close) \in Seq(Part)
           /\ Pipe = toClient[fd]
           /\ Pipe' = toClient[fd] \o Response(Head(toServer[fd]), framing, close)
<1>1. toClient[fd] \in Seq(Part) /\ Head(toServer[fd]) \in Posts
  BY DEF Types, WireTypes, ServerApplies
<1>2. PICK framing \in Framings, close \in BOOLEAN :
        answering' = [answering EXCEPT
                        ![fd] = Response(Head(toServer[fd]), framing, close)]
  BY DEF ServerApplies
<1>3. /\ answering[fd] = <<>> /\ fd \in serverOpen
      /\ UNCHANGED <<fd, toClient, serverOpen>>
  BY DEF ServerApplies, socketVars, stateVars
<1>4. answering'[fd] = Response(Head(toServer[fd]), framing, close)
  BY <1>2 DEF Types, WireTypes
<1>5. Pipe = toClient[fd]
  BY <1>1, <1>3, ConcatEmptySeq DEF Pipe
<1>6. Pipe' = toClient[fd] \o Response(Head(toServer[fd]), framing, close)
  BY <1>3, <1>4 DEF Pipe
<1>. QED
  BY <1>1, <1>5, <1>6, Responding

\* A whole response is what its head announces.
LEMMA ResponseIsFramed ==
  ASSUME NEW p \in Posts, NEW framing \in Framings, NEW close \in BOOLEAN
  PROVE  LET r == Response(p, framing, close)
         IN  /\ r # <<>> /\ r[1].kind = "head" /\ r[1].framing = framing
             /\ Own(r, p) /\ RestFrom(r, 2, framing)
<1>. DEFINE part(kind) == [post |-> p, kind |-> kind, framing |-> framing, close |-> close]
            r == Response(p, framing, close)
<1>1. \A kind \in {"head", "data", "zero", "blank"} :
        /\ part(kind).kind = kind /\ part(kind).post = p
        /\ part(kind).framing = framing
  OBVIOUS
<1>2. /\ framing = "none" => r = <<part("head")>>
      /\ framing = "chunked" =>
           r = <<part("head"), part("data"), part("zero"), part("blank")>>
      /\ framing \notin {"none", "chunked"} => r = <<part("head"), part("data")>>
  BY DEF Response
<1>. HIDE DEF part, r
<1>3. CASE framing = "none"
  <2>1. r = <<part("head")>> /\ Len(r) = 1 /\ r[1] = part("head")
    BY <1>2, <1>3
  <2>. QED
    BY <1>1, <1>3, <2>1 DEF Own, RestFrom, r
<1>4. CASE framing = "chunked"
  <2>1. /\ Len(r) = 4 /\ r # <<>>
        /\ r[1] = part("head") /\ r[2] = part("data")
        /\ r[3] = part("zero") /\ r[4] = part("blank")
    BY <1>2, <1>4
  <2>2. Own(r, p)
    <3>1. \A i \in 1 .. Len(r) : i \in {1, 2, 3, 4}
      BY <2>1
    <3>. QED
      BY <1>1, <2>1, <3>1 DEF Own
  <2>3. RestFrom(r, 2, framing)
    <3>1. \A i \in 2 .. Len(r) : i \in {2, 3, 4}
      BY <2>1
    <3>2. \A i \in 2 .. Len(r) : r[i].kind # "head"
      BY <1>1, <2>1, <3>1
    <3>3. \A i, j \in 2 .. Len(r) : i < j /\ r[i].kind = "zero" => j = 4
      <4>1. \A i, j \in {2, 3, 4} : i < j /\ i = 3 => j = 4
        OBVIOUS
      <4>2. \A i \in 2 .. Len(r) : r[i].kind = "zero" => i = 3
        BY <1>1, <2>1, <3>1
      <4>. QED
        BY <3>1, <4>1, <4>2
    <3>4. r[4].kind = "blank"
      BY <1>1, <2>1
    <3>. QED
      BY <1>4, <3>2, <3>3, <3>4 DEF RestFrom
  <2>. QED
    BY <1>1, <2>1, <2>2, <2>3 DEF r
<1>5. CASE framing \notin {"none", "chunked"}
  <2>1. Len(r) = 2 /\ r # <<>> /\ r[1] = part("head") /\ r[2] = part("data")
    BY <1>2, <1>5
  <2>2. Own(r, p)
    <3>1. \A i \in 1 .. Len(r) : i \in {1, 2}
      BY <2>1
    <3>. QED
      BY <1>1, <2>1, <3>1 DEF Own
  <2>3. RestFrom(r, 2, framing)
    BY <1>5, <2>1 DEF RestFrom
  <2>. QED
    BY <1>1, <2>1, <2>2, <2>3 DEF r
<1>. QED
  BY <1>3, <1>4, <1>5

-----------------------------------------------------------------------------
(* The steps                                                                 *)

LEMMA InitResponse == Init => InvResponse /\ InvOwners
BY DEF Init, InvResponse, InvOwners

\* The first of what is to come, when a part can be read.
LEMMA PipeHead ==
  ASSUME Types, Incoming # <<>>
  PROVE  /\ fd \in Connections /\ fd # NoSocket /\ Incoming = toClient[fd]
         /\ toClient[fd] # <<>> /\ Pipe # <<>> /\ Pipe[1] = Head(Incoming)
         /\ 1 \in 1 .. Len(Pipe) /\ Pipe \in Seq(Part)
<1>1. /\ fd \in Connections /\ fd # NoSocket /\ Incoming = toClient[fd]
      /\ toClient[fd] # <<>>
  BY Reading, Numbers DEF Incoming
<1>2. /\ toClient[fd] \in Seq(Part) /\ answering[fd] \in Seq(Part)
      /\ Len(toClient[fd]) \in Nat \ {0}
  BY <1>1, EmptySeq DEF Types, WireTypes
<1>3. Pipe = toClient[fd] => Pipe[1] = Head(Incoming) /\ Len(Pipe) \in Nat \ {0}
  BY <1>1, <1>2
<1>4. ASSUME Pipe = toClient[fd] \o answering[fd]
      PROVE  Pipe[1] = Head(Incoming) /\ Len(Pipe) \in Nat \ {0}
  <2>. DEFINE s == toClient[fd]
              t == answering[fd]
              m == Len(s)
              n == Len(t)
  <2>1. /\ s \in Seq(Part) /\ t \in Seq(Part)
        /\ m \in Nat \ {0} /\ n \in Nat /\ s[1] = Head(Incoming) /\ Pipe = s \o t
    BY <1>1, <1>2, <1>4, LenProperties
  <2>. HIDE DEF s, t
  <2>2. /\ Len(s \o t) = m + n
        /\ \A i \in 1 .. m + n : (s \o t)[i] = IF i <= m THEN s[i] ELSE t[i - m]
    BY <2>1, ConcatProperties
  <2>. HIDE DEF m, n
  <2>3. 1 \in 1 .. m + n /\ 1 <= m /\ m + n \in Nat \ {0}
    BY <2>1
  <2>4. (s \o t)[1] = s[1] /\ Len(s \o t) \in Nat \ {0}
    BY <2>2, <2>3
  <2>. QED
    BY <2>1, <2>4
<1>5. Pipe[1] = Head(Incoming) /\ Len(Pipe) \in Nat \ {0}
  BY <1>3, <1>4 DEF Pipe
<1>6. Pipe \in Seq(Part)
  BY <1>1, PipeType
<1>. QED
  BY <1>1, <1>5, <1>6, EmptySeq

LEMMA OwnersNext ==
  ASSUME PostInv, InvResponse, InvOwners, Next
  PROVE  InvOwners'
<1>. USE DEF InvOwners, callVars, respVars, socketVars, serverVars
<1>0. /\ \A p \in Posts : applied[p] \in Nat
      /\ outcome \in [Posts -> {"none", "ok", "failed"}]
      /\ at # "idle" => post \in Posts
  BY DEF PostInv, Types, CallTypes, WireTypes, InvAttempts
<1>1. CASE PostCalled \/ KeepsConnection \/ Connects
  BY <1>1 DEF PostCalled, KeepsConnection, Connects
<1>2. CASE ConnectFails \/ SendFails \/ ReadHeadFails \/ ReadBodyFails
  BY <1>0, <1>2
     DEF ConnectFails, SendFails, ReadHeadFails, ReadBodyFails, AttemptFails,
         PostReturns
<1>3. CASE SendSucceeds
  BY <1>3 DEF SendSucceeds
<1>4. CASE ReadsHead
  <2>1. /\ Incoming # <<>> /\ at = "status" /\ Head(Incoming).kind = "head"
        /\ owners' = owners \cup {Head(Incoming).post}
        /\ UNCHANGED <<post, applied, outcome>>
    BY <1>4 DEF ReadsHead
  <2>2. fd # NoSocket /\ Pipe # <<>> /\ Pipe[1] = Head(Incoming) /\ 1 \in 1 .. Len(Pipe)
    BY <2>1, PipeHead DEF PostInv
  <2>3. Own(Pipe, post) /\ applied[post] > 0
    BY <2>1, <2>2 DEF InvResponse, Awaiting
  <2>4. Head(Incoming).post = post
    BY <2>2, <2>3 DEF Own
  <2>. QED
    BY <2>1, <2>3, <2>4
<1>5. CASE ReadsData
  <2>1. /\ Incoming # <<>> /\ at = "body" /\ mode # "none"
        /\ owners' = owners \cup {Head(Incoming).post}
        /\ UNCHANGED <<at, post, applied, outcome>>
    BY <1>5 DEF ReadsData
  <2>2. fd # NoSocket /\ Pipe # <<>> /\ Pipe[1] = Head(Incoming) /\ 1 \in 1 .. Len(Pipe)
    BY <2>1, PipeHead DEF PostInv
  <2>3. Own(Pipe, post)
    BY <2>1, <2>2 DEF InvResponse, InBody
  <2>4. Head(Incoming).post = post
    BY <2>2, <2>3 DEF Own
  <2>. QED
    BY <2>1, <2>4
<1>6. CASE ReadsLastChunk \/ BodyEndsByClose
  BY <1>6 DEF ReadsLastChunk, BodyEndsByClose
<1>7. CASE BodyDone
  BY <1>0, <1>7 DEF BodyDone, PostReturns
<1>8. CASE Interrupt
  BY <1>8 DEF Interrupt
<1>9. ASSUME NEW c \in Connections, ServerApplies(c) PROVE InvOwners'
  <2>1. toServer[c] # <<>> /\ Head(toServer[c]) \in Posts
    BY <1>9 DEF ServerApplies, PostInv, Types, WireTypes
  <2>2. \A p \in Posts : applied[p] > 0 => applied'[p] > 0
    BY <1>0, <1>9, <2>1 DEF ServerApplies, PostInv, Types, WireTypes
  <2>. QED
    BY <1>0, <1>9, <2>2 DEF ServerApplies
<1>10. ASSUME NEW c \in Connections,
              \/ ServerResponds(c) \/ ServerCloses(c)
              \/ ServerHolds(c) \/ ServerLetsGo(c)
       PROVE  InvOwners'
  BY <1>10 DEF ServerResponds, ServerCloses, ServerHolds, ServerLetsGo
<1>. QED
  BY <1>1, <1>2, <1>3, <1>4, <1>5, <1>6, <1>7, <1>8, <1>9, <1>10
     DEF Next, Client

\* No step of the program puts anything on a connection that is not open yet.
LEMMA UnopenedNext ==
  ASSUME PostInv, InvResponse, Next
  PROVE  \A c \in Connections : c > opened' =>
           toClient'[c] = <<>> /\ answering'[c] = <<>>
<1>. USE DEF callVars, respVars, socketVars, wireVars, serverVars
<1>0. /\ opened \in Int /\ opened' \in Int /\ opened' >= opened
      /\ \A c \in Connections : c > opened =>
           /\ toServer[c] = <<>> /\ toClient[c] = <<>> /\ answering[c] = <<>>
  <2>1. opened' = opened \/ opened' = opened + 1
    BY DEF Next, Client, PostCalled, KeepsConnection, Connects, ConnectFails,
           SendSucceeds, SendFails, ReadsHead, ReadHeadFails, AttemptFails,
           ReadsData, ReadsLastChunk, BodyEndsByClose, BodyDone, ReadBodyFails,
           ServerApplies, ServerResponds, ServerCloses, ServerHolds,
           ServerLetsGo, Interrupt
  <2>. QED
    BY <2>1 DEF PostInv, Types, CallTypes, InvFresh, InvResponse
<1>1. CASE UNCHANGED <<toClient, answering>>
  BY <1>0, <1>1, Numbers
<1>2. CASE ReadsHead \/ ReadsData \/ ReadsLastChunk
  <2>1. /\ Incoming # <<>> /\ answering' = answering
        /\ toClient' = [toClient EXCEPT ![fd] = Tail(@)]
    BY <1>2 DEF ReadsHead, ReadsData, ReadsLastChunk
  <2>2. toClient[fd] # <<>> /\ fd \in Connections
    BY <2>1, PipeHead DEF PostInv
  <2>. QED
    BY <1>0, <2>1, <2>2, Numbers DEF PostInv, Types, WireTypes
<1>3. ASSUME NEW c \in Connections, ServerApplies(c)
      PROVE  \A d \in Connections : d > opened' =>
               toClient'[d] = <<>> /\ answering'[d] = <<>>
  <2>1. toServer[c] # <<>> /\ toClient' = toClient
        /\ \A d \in Connections : d # c => answering'[d] = answering[d]
    BY <1>3 DEF ServerApplies, PostInv, Types, WireTypes
  <2>. QED
    BY <1>0, <2>1, Numbers
<1>4. ASSUME NEW c \in Connections, ServerResponds(c)
      PROVE  \A d \in Connections : d > opened' =>
               toClient'[d] = <<>> /\ answering'[d] = <<>>
  <2>1. answering[c] # <<>> /\ \A d \in Connections : d # c =>
          answering'[d] = answering[d] /\ toClient'[d] = toClient[d]
    BY <1>4 DEF ServerResponds, PostInv, Types, WireTypes
  <2>. QED
    BY <1>0, <2>1, Numbers
<1>5. \/ UNCHANGED <<toClient, answering>>
      \/ ReadsHead \/ ReadsData \/ ReadsLastChunk
      \/ \E c \in Connections : ServerApplies(c) \/ ServerResponds(c)
  BY DEF Next, Client, PostCalled, KeepsConnection, Connects, ConnectFails,
         SendSucceeds, SendFails, ReadHeadFails, AttemptFails,
         BodyEndsByClose, BodyDone, ReadBodyFails, ServerCloses,
         ServerHolds, ServerLetsGo, Interrupt
<1>. QED
  BY <1>1, <1>2, <1>3, <1>4, <1>5

\* What InvResponse says of the connection in use.
AtHand ==
  fd # NoSocket =>
    /\ at \in {"idle", "start", "send"} => AtRest
    /\ at = "status" => Awaiting
    /\ at = "body" => InBody

LEMMA CallNext ==
  ASSUME PostInv, AtHand, PostCalled \/ KeepsConnection \/ ConnectFails
  PROVE  AtHand'
<1>1. /\ UNCHANGED <<fd, toServer, toClient, answering, serverOpen, shut>>
      /\ at \in {"idle", "start"} /\ at' \in {"idle", "start", "send"}
  BY DEF PostCalled, KeepsConnection, ConnectFails, PostReturns, socketVars,
         wireVars, serverVars, stateVars
<1>. QED
  BY <1>1 DEF AtHand, AtRest, Pipe

LEMMA ConnectsNext ==
  ASSUME PostInv, InvResponse, Connects
  PROVE  AtHand'
<1>1. /\ fd' = opened + 1 /\ opened + 1 \in Connections /\ at' = "send"
      /\ opened + 1 > opened
      /\ UNCHANGED <<toServer, toClient, answering, serverOpen, shut>>
  BY Numbers
     DEF Connects, wireVars, serverVars, stateVars, PostInv, Types, CallTypes,
         InvAttempts
<1>2. /\ toServer[fd'] = <<>> /\ toClient[fd'] = <<>> /\ answering[fd'] = <<>>
  BY <1>1 DEF InvResponse, PostInv, InvFresh
<1>3. <<>> \o <<>> = <<>> /\ Len(<<>>) = 0
  BY ConcatEmptySeq, EmptySeq
<1>4. Pipe' = <<>> /\ toServer'[fd'] = <<>>
  BY <1>1, <1>2, <1>3 DEF Pipe
<1>5. \A i \in 1 .. 0 : FALSE
  OBVIOUS
<1>. QED
  BY <1>1, <1>3, <1>4, <1>5 DEF AtHand, AtRest, Blank

LEMMA SendNext ==
  ASSUME PostInv, AtHand, SendSucceeds
  PROVE  AtHand'
<1>1. /\ at = "send" /\ at' = "status" /\ fd \notin shut
      /\ UNCHANGED <<fd, post, toClient, answering, serverOpen>>
      /\ toServer' = IF fd \in serverOpen
                     THEN [toServer EXCEPT ![fd] = Append(@, post)] ELSE toServer
  BY DEF SendSucceeds, socketVars, serverVars, stateVars
<1>2. /\ fd # NoSocket /\ fd \in Connections
      /\ Pipe \in Seq(Part) /\ Pipe' = Pipe
  BY <1>1, PipeType, Numbers DEF PostInv, InvAttempts, Types, CallTypes, Pipe
<1>3. toServer[fd] = <<>> /\ Blank(Pipe)
  BY <1>1, <1>2 DEF AtHand, AtRest
<1>4. toServer'[fd] \in {<<>>, <<post>>}
  BY <1>1, <1>2, <1>3 DEF PostInv, Types, WireTypes
<1>5. Pipe # <<>> => Pipe[1].kind = "blank"
  <2>1. Pipe # <<>> => Len(Pipe) \in Nat \ {0}
    BY <1>2, EmptySeq
  <2>2. Pipe # <<>> => 1 \in 1 .. Len(Pipe)
    BY <2>1
  <2>. QED
    BY <1>3, <2>2 DEF Blank
<1>. QED
  BY <1>1, <1>2, <1>3, <1>4, <1>5 DEF AtHand, Awaiting, Blank

LEMMA CloseNext ==
  ASSUME SendFails \/ ReadHeadFails \/ ReadBodyFails
  PROVE  AtHand'
BY DEF SendFails, ReadHeadFails, ReadBodyFails, AttemptFails, Close, AtHand

LEMMA HeadNext ==
  ASSUME PostInv, AtHand, ReadsHead
  PROVE  AtHand'
<1>1. /\ at = "status" /\ at' = "body" /\ Incoming # <<>>
      /\ Head(Incoming).kind = "head" /\ mode' = Head(Incoming).framing
      /\ toClient' = [toClient EXCEPT ![fd] = Tail(@)]
      /\ UNCHANGED <<fd, post, toServer, answering, serverOpen, shut>>
  BY DEF ReadsHead, socketVars, serverVars, stateVars
<1>2. /\ fd \in Connections /\ fd # NoSocket /\ toClient[fd] # <<>>
      /\ Pipe # <<>> /\ Pipe[1] = Head(Incoming) /\ 1 \in 1 .. Len(Pipe)
      /\ post \in Posts
      /\ Head(Incoming).framing \in {"none", "length", "chunked", "untilClose"}
  BY <1>1, PipeHead, Reading, Parts DEF PostInv, InvAttempts
<1>3. /\ Own(Pipe, post) /\ RestFrom(Pipe, 2, mode')
  BY <1>1, <1>2 DEF AtHand, Awaiting
<1>4. toServer[fd] = <<>>
  BY <1>1, <1>2 DEF AtHand, Awaiting, Blank
<1>5. Own(Pipe', post) /\ RestFrom(Pipe', 1, mode')
  BY <1>1, <1>2, <1>3, PipeReads, ShiftKeeps DEF PostInv
<1>. QED
  BY <1>1, <1>4, <1>5 DEF AtHand, InBody, Own, RestFrom

LEMMA DataNext ==
  ASSUME PostInv, AtHand, ReadsData
  PROVE  AtHand'
<1>1. /\ at = "body" /\ at' = "body" /\ Incoming # <<>> /\ mode # "none"
      /\ mode' = IF mode = "length" THEN "none" ELSE mode
      /\ toClient' = [toClient EXCEPT ![fd] = Tail(@)]
      /\ UNCHANGED <<fd, post, toServer, answering, serverOpen, shut>>
  BY DEF ReadsData, callVars, socketVars, serverVars, stateVars
<1>2. /\ fd \in Connections /\ fd # NoSocket /\ toClient[fd] # <<>>
      /\ post \in Posts /\ mode \in {"none", "length", "chunked", "untilClose"}
  BY <1>1, PipeHead DEF PostInv, InvAttempts, Types, CallTypes
<1>3. toServer[fd] = <<>> /\ Own(Pipe, post) /\ RestFrom(Pipe, 1, mode)
  BY <1>1, <1>2 DEF AtHand, InBody
<1>4. /\ Pipe \in Seq(Part) /\ Pipe' \in Seq(Part) /\ Len(Pipe') = Len(Pipe) - 1
      /\ \A i \in 1 .. Len(Pipe') : Pipe'[i] = Pipe[i + 1]
  BY <1>1, <1>2, PipeReads DEF PostInv
<1>5. Own(Pipe', post)
  BY <1>2, <1>3, <1>4, ShiftKeeps
<1>6. RestFrom(Pipe', 1, mode')
  <2>1. CASE mode = "length"
    <3>1. Len(Pipe) <= 1 /\ Len(Pipe) \in Nat /\ Len(Pipe') \in Nat
      BY <1>3, <1>4, <2>1, LenProperties DEF RestFrom
    <3>2. Len(Pipe') = 0
      BY <1>4, <3>1
    <3>. QED
      BY <1>1, <2>1, <3>2 DEF RestFrom
  <2>2. CASE mode # "length"
    BY <1>1, <1>2, <1>3, <1>4, <2>2, ShiftKeeps
  <2>. QED
    BY <2>1, <2>2
<1>. QED
  BY <1>1, <1>3, <1>5, <1>6 DEF AtHand, InBody, Own, RestFrom

LEMMA LastChunkNext ==
  ASSUME PostInv, AtHand, ReadsLastChunk
  PROVE  AtHand'
<1>1. /\ at = "body" /\ at' = "body" /\ Incoming # <<>> /\ mode = "chunked"
      /\ mode' = "none" /\ Head(Incoming).kind \in {"zero", "head"}
      /\ toClient' = [toClient EXCEPT ![fd] = Tail(@)]
      /\ UNCHANGED <<fd, post, toServer, answering, serverOpen, shut>>
  BY DEF ReadsLastChunk, callVars, socketVars, serverVars, stateVars
<1>2. /\ fd \in Connections /\ fd # NoSocket /\ toClient[fd] # <<>>
      /\ Pipe[1] = Head(Incoming) /\ 1 \in 1 .. Len(Pipe) /\ post \in Posts
  BY <1>1, PipeHead DEF PostInv, InvAttempts
<1>3. toServer[fd] = <<>> /\ Own(Pipe, post) /\ RestFrom(Pipe, 1, "chunked")
  BY <1>1, <1>2 DEF AtHand, InBody
<1>4. Pipe[1].kind = "zero"
  BY <1>1, <1>2, <1>3 DEF RestFrom
<1>5. Own(Pipe', post) /\ RestFrom(Pipe', 1, "none")
  BY <1>1, <1>2, <1>3, <1>4, PipeReads, ShiftKeeps DEF PostInv
<1>. QED
  BY <1>1, <1>3, <1>5 DEF AtHand, InBody, Own, RestFrom

LEMMA EndNext ==
  ASSUME PostInv, AtHand, BodyEndsByClose
  PROVE  AtHand'
<1>1. /\ at = "body" /\ at' = "body" /\ mode' = "none"
      /\ fd # NoSocket => toClient[fd] = <<>>
      /\ fd \in shut \/ fd \notin serverOpen
      /\ UNCHANGED <<fd, post, toServer, toClient, answering, serverOpen, shut>>
  BY DEF BodyEndsByClose, Broken, Incoming, callVars, socketVars, wireVars,
         serverVars, stateVars
<1>2. CASE fd \in shut
  BY <1>1, <1>2 DEF AtHand, InBody
<1>3. ASSUME fd # NoSocket, fd \notin shut
      PROVE  InBody'
  <2>1. Pipe = <<>> /\ Pipe' = <<>> /\ Len(<<>>) = 0
    BY <1>1, <1>3, EmptySeq DEF Pipe
  <2>2. toServer[fd] = <<>>
    <3>1. at = "body" /\ fd # NoSocket
      BY <1>1, <1>3
    <3>2. InBody
      BY <3>1 DEF AtHand
    <3>. QED
      BY <1>3, <3>2 DEF InBody
  <2>3. \A i \in 1 .. 0 : FALSE
    OBVIOUS
  <2>. QED
    BY <1>1, <1>3, <2>1, <2>2, <2>3 DEF InBody, Own, RestFrom
<1>. QED
  BY <1>1, <1>2, <1>3 DEF AtHand

LEMMA DoneNext ==
  ASSUME PostInv, AtHand, BodyDone
  PROVE  AtHand'
<1>1. /\ at = "body" /\ mode = "none" /\ at' = "idle" /\ fd' \in {fd, NoSocket}
      /\ UNCHANGED <<toServer, toClient, answering, serverOpen, shut>>
  BY DEF BodyDone, Close, PostReturns, wireVars, serverVars, stateVars
<1>2. CASE fd' = NoSocket
  BY <1>2 DEF AtHand
<1>3. CASE fd' = fd /\ fd # NoSocket
  <2>1. fd \in shut \/ (toServer[fd] = <<>> /\ RestFrom(Pipe, 1, "none"))
    BY <1>1, <1>3 DEF AtHand, InBody
  <2>2. Pipe' = Pipe
    BY <1>1, <1>3 DEF Pipe
  <2>. QED
    BY <1>1, <1>3, <2>1, <2>2 DEF AtHand, AtRest, Blank, RestFrom
<1>. QED
  BY <1>1, <1>2, <1>3

LEMMA HoldsNext ==
  ASSUME AtHand, NEW c \in Connections, ServerHolds(c) \/ ServerLetsGo(c)
  PROVE  AtHand'
<1>1. UNCHANGED <<at, post, fd, mode, toServer, toClient, answering, applied,
                  serverOpen, shut>>
  BY DEF ServerHolds, ServerLetsGo, callVars, respVars, socketVars, wireVars,
         serverVars
<1>2. Pipe' = Pipe
  BY <1>1 DEF Pipe
<1>. QED
  BY <1>1, <1>2 DEF AtHand, AtRest, Awaiting, InBody, Blank, Own, RestFrom

LEMMA InterruptNext ==
  ASSUME AtHand, Interrupt
  PROVE  AtHand'
<1>1. /\ UNCHANGED <<at, post, fd, mode, toServer, toClient, answering,
                     applied, serverOpen>>
      /\ shut' = {fd}
  BY DEF Interrupt, callVars, respVars, socketVars, wireVars, serverVars
<1>2. Pipe' = Pipe
  BY <1>1 DEF Pipe
<1>. QED
  BY <1>1, <1>2 DEF AtHand, AtRest, Awaiting, InBody, Blank, Own, RestFrom

LEMMA AppliesNext ==
  ASSUME PostInv, AtHand, NEW c \in Connections, ServerApplies(c)
  PROVE  AtHand'
<1>1. /\ UNCHANGED <<at, post, fd, mode, toClient, serverOpen, shut>>
      /\ toServer[c] # <<>> /\ toServer' = [toServer EXCEPT ![c] = Tail(@)]
      /\ answering[c] = <<>>
      /\ applied' = [applied EXCEPT ![Head(toServer[c])] = @ + 1]
  BY DEF ServerApplies, callVars, respVars, socketVars, stateVars
<1>2. /\ Head(toServer[c]) \in Posts
      /\ \A p \in Posts : applied[p] > 0 => applied'[p] > 0
      /\ applied'[Head(toServer[c])] > 0
  <2>1. Head(toServer[c]) \in Posts /\ \A p \in Posts : applied[p] \in Nat
    BY <1>1 DEF PostInv, Types, WireTypes
  <2>. QED
    BY <1>1, <2>1 DEF PostInv, Types, WireTypes
<1>3. at # "idle" => post \in Posts
  BY DEF PostInv, InvAttempts
<1>4. CASE c # fd
  <2>0. fd # NoSocket => fd \in Connections
    BY Numbers DEF PostInv, Types, CallTypes, InvAttempts
  <2>1. fd # NoSocket => toServer'[fd] = toServer[fd] /\ answering'[fd] = answering[fd]
    BY <1>4, <2>0 DEF ServerApplies, PostInv, Types, WireTypes
  <2>2. fd # NoSocket => Pipe' = Pipe
    BY <1>1, <2>1 DEF Pipe
  <2>3. CASE fd = NoSocket
    BY <1>1, <2>3 DEF AtHand
  <2>4. CASE fd # NoSocket
    <3>1. toServer'[fd] = toServer[fd] /\ Pipe' = Pipe
      BY <2>1, <2>2, <2>4
    <3>2. AtRest' = AtRest /\ InBody' = InBody
      BY <1>1, <3>1 DEF AtRest, InBody, Blank, Own, RestFrom
    <3>3. at = "status" /\ Awaiting => Awaiting'
      BY <1>1, <1>2, <1>3, <3>1 DEF Awaiting, Blank, Own, RestFrom
    <3>. QED
      BY <1>1, <2>4, <3>2, <3>3 DEF AtHand
  <2>. QED
    BY <2>3, <2>4
<1>5. CASE c = fd
  <2>0. fd \in Connections /\ fd # NoSocket
    BY <1>5, Numbers
  <2>1. CASE fd \in shut /\ at \in {"idle", "start", "send"}
    BY <1>1, <2>1 DEF AtHand, AtRest
  <2>2. CASE fd \notin shut /\ at \in {"idle", "start", "send"}
    BY <1>1, <1>5, <2>0, <2>2 DEF AtHand, AtRest
  <2>3. CASE at = "body"
    <3>1. fd \in shut /\ mode = "none"
      BY <1>1, <1>5, <2>0, <2>3 DEF AtHand, InBody
    <3>. QED
      BY <1>1, <2>3, <3>1 DEF AtHand, InBody
  <2>4. CASE at = "status"
    <3>1. toServer[fd] = <<post>> /\ Blank(Pipe) /\ post \in Posts
      BY <1>1, <1>3, <1>5, <2>0, <2>4 DEF AtHand, Awaiting
    <3>2. Head(toServer[fd]) = post /\ toServer'[fd] = <<>>
      BY <1>1, <1>5, <2>0, <3>1 DEF PostInv, Types, WireTypes
    <3>3. PICK framing \in Framings, close \in BOOLEAN :
            /\ Response(post, framing, close) \in Seq(Part)
            /\ Pipe = toClient[fd]
            /\ Pipe' = toClient[fd] \o Response(post, framing, close)
      BY <1>5, <2>0, <3>2, PipeApplies DEF PostInv
    <3>. DEFINE r == Response(post, framing, close)
    <3>4. /\ r # <<>> /\ r[1].kind = "head" /\ r[1].framing = framing
          /\ Own(r, post) /\ RestFrom(r, 2, framing) /\ r \in Seq(Part)
      BY <3>1, <3>3, ResponseIsFramed
    <3>5. toClient[fd] \in Seq(Part) /\ Pipe' = toClient[fd] \o r
      BY <2>0, <3>3, PipeType DEF PostInv
    <3>6. applied'[post] > 0
      BY <1>2, <1>5, <3>2
    <3>. HIDE DEF r
    <3>7. CASE toClient[fd] = <<>>
      <4>1. Pipe' = r
        BY <3>4, <3>5, <3>7, ConcatEmptySeq
      <4>2. Own(Pipe', post) /\ RestFrom(Pipe', 2, Pipe'[1].framing)
            /\ Pipe'[1].kind = "head"
        BY <3>4, <4>1
      <4>. QED
        BY <1>1, <2>4, <3>2, <3>6, <4>2 DEF AtHand, Awaiting, Own, RestFrom
    <3>8. CASE toClient[fd] # <<>>
      <4>. DEFINE s == toClient[fd]
                  m == Len(s)
                  n == Len(r)
      <4>1. s \in Seq(Part) /\ m \in Nat \ {0} /\ n \in Nat
        BY <3>4, <3>5, <3>8, EmptySeq, LenProperties
      <4>2. Blank(s)
        BY <3>1, <3>3
      <4>. HIDE DEF s
      <4>3. \A i \in 1 .. m + n : (s \o r)[i] = IF i <= m THEN s[i] ELSE r[i - m]
        BY <3>4, <4>1, ConcatProperties
      <4>4. s[1].kind = "blank"
        <5>1. 1 \in 1 .. Len(s)
          BY <4>1
        <5>. QED
          BY <4>2, <5>1 DEF Blank
      <4>. HIDE DEF m, n
      <4>5. 1 \in 1 .. m + n /\ 1 <= m
        BY <4>1
      <4>6. (s \o r)[1].kind = "blank"
        BY <4>3, <4>4, <4>5
      <4>7. Pipe'[1].kind = "blank"
        BY <3>5, <4>6 DEF s
      <4>. QED
        BY <1>1, <2>4, <3>2, <4>7 DEF AtHand, Awaiting
    <3>. QED
      BY <3>7, <3>8
  <2>. QED
    BY <2>1, <2>2, <2>3, <2>4 DEF PostInv, Types, CallTypes
<1>. QED
  BY <1>4, <1>5

LEMMA RespondsNext ==
  ASSUME PostInv, AtHand, NEW c \in Connections, ServerResponds(c)
  PROVE  AtHand'
<1>1. UNCHANGED <<at, post, fd, mode, toServer, shut, applied>>
  BY DEF ServerResponds, callVars, respVars, socketVars, stateVars
<1>2. fd # NoSocket => fd \in Connections
  BY Numbers DEF PostInv, Types, CallTypes, InvAttempts
<1>3. fd # NoSocket => Pipe' = Pipe
  BY <1>2, PipeResponds DEF PostInv
<1>. QED
  BY <1>1, <1>3 DEF AtHand, AtRest, Awaiting, InBody, Blank, Own, RestFrom

LEMMA ClosesNext ==
  ASSUME PostInv, AtHand, NEW c \in Connections, ServerCloses(c)
  PROVE  AtHand'
<1>1. /\ UNCHANGED <<at, post, fd, mode, shut, applied>>
      /\ toServer' = [toServer EXCEPT ![c] = <<>>]
  BY DEF ServerCloses, callVars, respVars, socketVars, serverVars
<1>2. CASE fd = NoSocket
  BY <1>1, <1>2 DEF AtHand
<1>3. CASE fd # NoSocket
  <2>1. fd \in Connections
    BY <1>3, Numbers DEF PostInv, Types, CallTypes, InvAttempts
  <2>2. toServer'[fd] \in {<<>>, toServer[fd]}
    BY <1>1, <2>1 DEF PostInv, Types, WireTypes
  <2>3. /\ Pipe \in Seq(Part) /\ Pipe' \in Seq(Part) /\ Len(Pipe') <= Len(Pipe)
        /\ \A i \in 1 .. Len(Pipe') : Pipe'[i] = Pipe[i]
    BY <2>1, PipeCloses DEF PostInv
  <2>4. /\ Blank(Pipe) => Blank(Pipe')
        /\ \A n \in Posts : Own(Pipe, n) => Own(Pipe', n)
        /\ \A k \in {1, 2}, f \in {"none", "length", "chunked", "untilClose"} :
             RestFrom(Pipe, k, f) => RestFrom(Pipe', k, f)
        /\ Pipe' # <<>> => Pipe # <<>> /\ Pipe'[1] = Pipe[1]
    BY <2>3, PrefixKeeps
  <2>5. CASE at \in {"idle", "start", "send"}
    BY <1>1, <1>3, <2>2, <2>4, <2>5 DEF AtHand, AtRest, Blank
  <2>6. CASE at = "status"
    <3>1. post \in Posts /\ Awaiting
      BY <1>3, <2>6 DEF AtHand, PostInv, InvAttempts
    <3>2. toServer'[fd] # <<>> => toServer'[fd] = <<post>> /\ Blank(Pipe')
      BY <2>2, <2>4, <3>1 DEF Awaiting
    <3>3. ASSUME Pipe' # <<>>, Pipe[1].kind # "blank"
          PROVE  /\ Pipe'[1].kind = "head" /\ Own(Pipe', post)
                 /\ RestFrom(Pipe', 2, Pipe'[1].framing) /\ applied[post] > 0
      <4>1. /\ Pipe[1].kind = "head" /\ Own(Pipe, post)
            /\ RestFrom(Pipe, 2, Pipe[1].framing) /\ applied[post] > 0
            /\ Pipe'[1] = Pipe[1] /\ Pipe # <<>>
        BY <2>4, <3>1, <3>3 DEF Awaiting
      <4>2. Pipe[1].framing \in {"none", "length", "chunked", "untilClose"}
        BY <2>3, <4>1, EmptySeq, ElementOfSeq, Parts
      <4>. QED
        BY <2>4, <3>1, <4>1, <4>2
    <3>4. Pipe' # <<>> => Pipe'[1] = Pipe[1]
      BY <2>4
    <3>. QED
      BY <1>1, <2>6, <3>2, <3>3, <3>4 DEF AtHand, Awaiting, Blank, Own, RestFrom
  <2>7. CASE at = "body"
    <3>1. /\ post \in Posts /\ InBody
          /\ mode \in {"none", "length", "chunked", "untilClose"}
      BY <1>3, <2>7 DEF AtHand, PostInv, InvAttempts, Types, CallTypes
    <3>. QED
      BY <1>1, <2>2, <2>4, <2>7, <3>1 DEF AtHand, InBody, Own, RestFrom
  <2>. QED
    BY <2>5, <2>6, <2>7 DEF PostInv, Types, CallTypes
<1>. QED
  BY <1>2, <1>3

-----------------------------------------------------------------------------
(* The theorems                                                              *)

\* What a connection may still bring is known at every step, whatever its
\* framing: a call writes only when nothing but a blank line can be left over,
\* so what comes behind that line is the response to the call.
THEOREM ResponseInvariant == Spec => []ResponseInv
<1>1. ASSUME PostInv, InvResponse, InvOwners, Next
      PROVE  InvResponse' /\ InvOwners'
  <2>1. AtHand
    BY <1>1 DEF InvResponse, AtHand
  <2>2. AtHand'
    BY <1>1, <2>1, CallNext, ConnectsNext, SendNext, CloseNext, HeadNext,
       DataNext, LastChunkNext, EndNext, DoneNext, InterruptNext, AppliesNext,
       RespondsNext, ClosesNext, HoldsNext
       DEF Next, Client
  <2>3. InvResponse'
    BY <1>1, <2>2, UnopenedNext DEF InvResponse, AtHand
  <2>. QED
    BY <1>1, <2>3, OwnersNext
<1>2. ASSUME InvResponse, InvOwners, UNCHANGED vars
      PROVE  InvResponse' /\ InvOwners'
  <2>1. UNCHANGED <<at, post, fd, opened, mode, owners, outcome, toServer,
                    toClient, answering, applied, serverOpen, shut>>
    BY <1>2
       DEF vars, callVars, respVars, socketVars, wireVars, serverVars, stateVars
  <2>2. Pipe' = Pipe
    BY <2>1 DEF Pipe
  <2>3. AtRest' = AtRest /\ InBody' = InBody
    BY <2>1, <2>2 DEF AtRest, InBody, Blank, Own, RestFrom
  <2>4. Awaiting' = Awaiting
    BY <2>1, <2>2 DEF Awaiting, Blank, Own, RestFrom
  <2>5. InvResponse'
    BY <1>2, <2>1, <2>3, <2>4 DEF InvResponse
  <2>6. InvOwners'
    BY <1>2, <2>1 DEF InvOwners
  <2>. QED
    BY <2>5, <2>6
<1>3. PostInv /\ InvResponse /\ InvOwners /\ [Next]_vars
        => InvResponse' /\ InvOwners'
  BY <1>1, <1>2
<1>4. Init => InvResponse /\ InvOwners
  BY InitResponse
<1>. QED
  BY <1>3, <1>4, PostInvariant, PTL DEF Spec, ResponseInv

\* A response is handed to the call it answers, for any number of calls and any
\* framings: never the late or unread answer of an earlier call on the same
\* connection; and a call that succeeded was carried out.
THEOREM CallsGetTheirOwnResponse == Spec => []ResponseIsItsOwn
<1>1. ResponseInv => ResponseIsItsOwn
  BY DEF ResponseInv, InvOwners, ResponseIsItsOwn
<1>. QED
  BY <1>1, ResponseInvariant, PTL
=============================================================================

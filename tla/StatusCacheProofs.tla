-------------------------- MODULE StatusCacheProofs --------------------------
(***************************************************************************)
(* Machine-checked proofs about StatusCache, for any queue, any number of  *)
(* changes, losses and status jobs.                                        *)
(***************************************************************************)
EXTENDS StatusCache, SequenceTheorems, TLAPS

-----------------------------------------------------------------------------
(* The inductive invariant                                                   *)

\* The entries of q are from versions in order, none before lo or after hi.
Ordered(q, lo, hi) ==
  /\ \A i, j \in 1 .. Len(q) : i < j => q[i].at <= q[j].at
  /\ \A k \in 1 .. Len(q) : lo <= q[k].at /\ q[k].at <= hi

\* What the script will hear: the callbacks that wait, then the events sent.
Ahead == dispatch \o wire

InvOrder ==
  /\ Ordered(Ahead, heardAt, ver)
  /\ heardAt <= ver /\ foldedAt <= ver

\* Nothing is left of a stream when the thread registers and subscribes again.
InvLink ==
  streamAt \in {"register", "registering", "refresh", "subscribe"}
    => ~link /\ wire = <<>>

\* A snapshot is about to be asked for, or queued.
Coming == streamAt = "refreshing" \/ asks > 0

\* With one worker, a status call whose answer is older than the cache is
\* followed by another; so is an older cache.
InvLast ==
  /\ \A w \in Workers : calls[w].at >= 0 /\ calls[w].at < foldedAt => Coming
  /\ /\ \A w \in Workers : calls[w] = NoCall
     /\ ~failed /\ cache.trackAt < foldedAt
     => Coming

CacheInv == TypeOK /\ InvOrder /\ InvLink

-----------------------------------------------------------------------------
(* Versions, events and callbacks                                            *)

LEMMA Numbers ==
  /\ MaxChanges \in Nat /\ MaxQueue \in Nat
  /\ \A v : v \in Versions <=> v \in Int /\ 0 <= v /\ v <= MaxChanges
  /\ 0 \in Versions
BY CacheAssumption DEF CacheAssumption, Versions

Kinds == {"started", "ended", "queue"}

LEMMA Callbacks ==
  /\ WireEvent \subseteq Callback
  /\ \A c \in Callback : c.at \in Versions
  /\ \A e \in WireEvent : /\ e.at \in Versions /\ e.track \in Versions
                          /\ e.length \in 0 .. MaxQueue /\ e.kind \in Kinds
BY DEF WireEvent, Callback, Kinds

LEMMA Calls ==
  /\ NoCall.at = -2 /\ Asked.at = -1 /\ NoCall # Asked
  /\ \A c \in Snapshot : /\ c.at \in Versions /\ c.station.track \in Versions
                         /\ c.station.length \in 0 .. MaxQueue
                         /\ c # NoCall /\ c # Asked
<1>1. NoCall.at = -2 /\ Asked.at = -1
  BY DEF NoCall, Asked
<1>2. \A c \in Snapshot : /\ c.at \in Versions /\ c.station.track \in Versions
                          /\ c.station.length \in 0 .. MaxQueue
  BY DEF Snapshot, Station
<1>3. \A c \in Snapshot : c.at # -2 /\ c.at # -1
  BY <1>2, Numbers
<1>. QED
  BY <1>1, <1>2, <1>3

\* The events an Emit adds are from the version that the step begins.
LEMMA Emitted ==
  ASSUME wire \in Seq(WireEvent), srv' \in Station, ver' \in Versions,
         NEW kinds \in Seq(Kinds), Emit(kinds)
  PROVE  \E new \in Seq(WireEvent) :
           /\ wire' = wire \o new
           /\ \A k \in 1 .. Len(new) : new[k].at = ver'
           /\ ~link => wire' = wire
<1> DEFINE event(kind) == [kind |-> kind, track |-> srv'.track,
                           length |-> srv'.length, at |-> ver']
           sent == [k \in 1 .. Len(kinds) |-> event(kinds[k])]
<1>1. \A kind \in Kinds : event(kind) \in WireEvent /\ event(kind).at = ver'
  BY DEF WireEvent, Station, Kinds
<1>2. wire' = IF link THEN wire \o sent ELSE wire
  <2>1. DOMAIN kinds = 1 .. Len(kinds)
    OBVIOUS
  <2>2. wire' = IF link THEN wire \o [k \in DOMAIN kinds |-> event(kinds[k])]
                        ELSE wire
    BY Zenon DEF Emit
  <2>. QED
    BY <2>1, <2>2, Zenon
<1>. HIDE DEF event
<1>3. /\ sent \in Seq(WireEvent)
      /\ \A k \in 1 .. Len(sent) : sent[k].at = ver'
  <2>1. \A k \in 1 .. Len(kinds) :
          sent[k] \in WireEvent /\ sent[k].at = ver'
    BY <1>1
  <2>2. Len(kinds) \in Nat /\ sent \in [1 .. Len(kinds) -> WireEvent]
    BY <2>1
  <2>3. sent \in Seq(WireEvent) /\ Len(sent) = Len(kinds)
    <3>. HIDE DEF sent
    <3>. QED
      BY <2>2, SeqDef, LenProperties
  <2>. QED
    BY <2>1, <2>3
<1>. HIDE DEF sent
<1>4. wire \o <<>> = wire /\ <<>> \in Seq(WireEvent) /\ Len(<<>>) = 0
  OBVIOUS
<1>5. CASE link
  BY <1>2, <1>3, <1>5
<1>6. CASE ~link
  <2> DEFINE none == <<>>
  <2>1. /\ none \in Seq(WireEvent) /\ wire' = wire \o none /\ wire' = wire
        /\ 1 .. Len(none) = {}
    BY <1>2, <1>4, <1>6
  <2>. HIDE DEF none
  <2>. QED
    BY <2>1
<1>. QED
  BY <1>5, <1>6

-----------------------------------------------------------------------------
(* Queues in order                                                           *)

\* A prefix stays in order.
LEMMA OrderedPrefix ==
  ASSUME NEW q \in Seq(Callback), NEW p \in Seq(Callback),
         NEW lo \in Int, NEW hi \in Int, Ordered(q, lo, hi),
         Len(p) <= Len(q), \A k \in 1 .. Len(p) : p[k] = q[k]
  PROVE  Ordered(p, lo, hi)
<1>1. 1 .. Len(p) \subseteq 1 .. Len(q)
  BY LenProperties
<1>. QED
  BY <1>1 DEF Ordered

\* So does a queue that newer entries join.
LEMMA OrderedExtends ==
  ASSUME NEW q \in Seq(Callback), NEW new \in Seq(Callback),
         NEW lo \in Int, NEW hi \in Int, NEW v \in Int, Ordered(q, lo, hi),
         lo <= v, hi <= v, \A k \in 1 .. Len(new) : new[k].at = v
  PROVE  Ordered(q \o new, lo, v)
<1> DEFINE t == q \o new
           n == Len(q)
<1>1. /\ n \in Nat /\ Len(new) \in Nat /\ Len(t) = n + Len(new)
      /\ \A k \in 1 .. Len(t) : t[k] = IF k <= n THEN q[k] ELSE new[k - n]
  BY ConcatProperties, LenProperties
<1>2. \A k \in 1 .. n : q[k].at \in Int
  BY Callbacks, Numbers, ElementOfSeq
<1>. HIDE DEF t, n
<1>3. ASSUME NEW k \in 1 .. Len(t)
      PROVE  \/ k \in 1 .. n /\ t[k] = q[k]
             \/ k > n /\ t[k].at = v
  <2>1. CASE k <= n
    BY <1>1, <2>1
  <2>2. CASE ~(k <= n)
    <3>1. k - n \in 1 .. Len(new) /\ t[k] = new[k - n] /\ k > n
      BY <1>1, <2>2
    <3>. QED
      BY <3>1
  <2>. QED
    BY <2>1, <2>2
<1>4. \A k \in 1 .. n : lo <= q[k].at /\ q[k].at <= hi
  BY DEF Ordered, n
<1>5. \A k \in 1 .. Len(t) : lo <= t[k].at /\ t[k].at <= v
  BY <1>2, <1>3, <1>4
<1>6. ASSUME NEW i \in 1 .. Len(t), NEW j \in 1 .. Len(t), i < j
      PROVE  t[i].at <= t[j].at
  <2>1. CASE j \in 1 .. n /\ t[j] = q[j]
    <3>1. i \in 1 .. n /\ t[i] = q[i]
      BY <1>1, <1>3, <1>6, <2>1
    <3>. QED
      BY <1>6, <2>1, <3>1 DEF Ordered, n
  <2>2. CASE t[j].at = v
    BY <1>5, <2>2
  <2>. QED
    BY <1>3, <2>1, <2>2
<1>. QED
  BY <1>5, <1>6 DEF Ordered, t

\* And one whose oldest entry is taken.
LEMMA OrderedTail ==
  ASSUME NEW q \in Seq(Callback), q # <<>>,
         NEW lo \in Int, NEW hi \in Int, Ordered(q, lo, hi)
  PROVE  /\ Tail(q) \in Seq(Callback) /\ lo <= q[1].at /\ q[1].at <= hi
         /\ Ordered(Tail(q), q[1].at, hi)
<1> DEFINE t == Tail(q)
<1>1. /\ t \in Seq(Callback) /\ Len(q) \in Nat \ {0} /\ Len(t) = Len(q) - 1
      /\ \A k \in 1 .. Len(t) : t[k] = q[k + 1]
  OBVIOUS
<1>. HIDE DEF t
<1>2. \A k \in 1 .. Len(t) : k + 1 \in 1 .. Len(q) /\ 1 < k + 1
  BY <1>1
<1>3. 1 \in 1 .. Len(q)
  BY <1>1
<1>4. \A i, j \in 1 .. Len(t) : i < j => t[i].at <= t[j].at
  <2> SUFFICES ASSUME NEW i \in 1 .. Len(t), NEW j \in 1 .. Len(t), i < j
               PROVE  t[i].at <= t[j].at
    OBVIOUS
  <2>1. i + 1 < j + 1
    BY <1>1
  <2>. QED
    BY <1>1, <1>2, <2>1 DEF Ordered
<1>5. \A k \in 1 .. Len(t) : q[1].at <= t[k].at /\ t[k].at <= hi
  BY <1>1, <1>2, <1>3 DEF Ordered
<1>6. lo <= q[1].at /\ q[1].at <= hi
  BY <1>3 DEF Ordered
<1>. QED
  BY <1>1, <1>4, <1>5, <1>6 DEF Ordered, t

-----------------------------------------------------------------------------
(* The steps                                                                 *)

LEMMA InitCacheInv == Init => CacheInv /\ InvLast
<1> SUFFICES ASSUME Init PROVE CacheInv /\ InvLast
  OBVIOUS
<1>1. TypeOK
  <2>1. srv \in Station /\ ver \in Versions /\ heardAt \in Versions /\ foldedAt \in Versions
    BY Numbers DEF Init, Station
  <2>2. cache \in [track : Versions, trackAt : Versions, length : 0 .. MaxQueue]
    BY Numbers DEF Init
  <2>3. losses \in 0 .. MaxLosses
    BY CacheAssumption DEF CacheAssumption, Init
  <2>4. calls \in [Workers -> Snapshot \cup {NoCall, Asked}]
    BY DEF Init
  <2>5. wire \in Seq(WireEvent) /\ dispatch \in Seq(Callback)
    BY DEF Init
  <2>6. /\ known \in BOOLEAN /\ link = FALSE /\ failed = FALSE
        /\ streamAt \in StreamPoints /\ reply = "none" /\ asks \in Nat
    BY DEF Init, StreamPoints
  <2>. QED
    BY <2>1, <2>2, <2>3, <2>4, <2>5, <2>6 DEF TypeOK
<1>2. InvOrder
  <2>1. Len(Ahead) = 0
    BY DEF Init, Ahead
  <2>. QED
    BY <2>1 DEF Init, InvOrder, Ordered
<1>3. InvLink
  BY DEF Init, InvLink
<1>4. InvLast
  BY Calls DEF Init, InvLast
<1>. QED
  BY <1>1, <1>2, <1>3, <1>4 DEF CacheInv

\* Both queues and what is ahead are callbacks.
LEMMA AheadType ==
  ASSUME TypeOK
  PROVE  /\ wire \in Seq(WireEvent) /\ wire \in Seq(Callback)
         /\ dispatch \in Seq(Callback) /\ Ahead \in Seq(Callback)
         /\ heardAt \in Int /\ ver \in Int /\ foldedAt \in Int
<1>1. wire \in Seq(WireEvent) /\ dispatch \in Seq(Callback)
  BY DEF TypeOK
<1>2. wire \in Seq(Callback)
  BY <1>1, Callbacks
<1>3. heardAt \in Int /\ ver \in Int /\ foldedAt \in Int
  BY Numbers DEF TypeOK
<1>. QED
  BY <1>1, <1>2, <1>3 DEF Ahead

\* The station changes at the audio server, and an event may go out.
LEMMA ChangeStep ==
  ASSUME CacheInv, Changes, srv' \in Station,
         NEW kinds \in Seq(Kinds), Emit(kinds)
  PROVE  CacheInv'
<1> USE DEF linkVars, streamVars, statusVars, scriptVars
<1>0. /\ TypeOK /\ InvOrder /\ InvLink
      /\ UNCHANGED <<known, link, losses, streamAt, reply, foldedAt, asks,
                     calls, failed, cache, dispatch, heardAt>>
      /\ ver < MaxChanges /\ ver' = ver + 1
  BY DEF CacheInv, Changes
<1>1. ver' \in Versions /\ ver' \in Int /\ ver <= ver'
  <2>1. ver \in Int /\ 0 <= ver
    BY <1>0, Numbers DEF TypeOK
  <2>. QED
    BY <1>0, <2>1, Numbers
<1>2. PICK new \in Seq(WireEvent) :
        /\ wire' = wire \o new
        /\ \A k \in 1 .. Len(new) : new[k].at = ver'
        /\ ~link => wire' = wire
  BY <1>0, <1>1, Emitted DEF TypeOK
<1>3. TypeOK'
  <2>1. wire' \in Seq(WireEvent)
    BY <1>0, <1>2 DEF TypeOK
  <2>. QED
    BY <1>0, <1>1, <2>1 DEF TypeOK
<1>4. Ahead' = Ahead \o new
  <2>1. /\ dispatch \in Seq(Callback) /\ wire \in Seq(Callback)
        /\ new \in Seq(Callback)
    BY <1>0, AheadType, Callbacks
  <2>2. dispatch \o (wire \o new) = (dispatch \o wire) \o new
    BY <2>1, ConcatAssociative
  <2>. QED
    BY <1>0, <1>2, <2>2 DEF Ahead
<1>5. Ordered(Ahead', heardAt, ver')
  <2>1. new \in Seq(Callback)
    BY Callbacks
  <2>2. heardAt <= ver'
    BY <1>0, <1>1, AheadType DEF InvOrder
  <2>. QED
    BY <1>0, <1>1, <1>2, <1>4, <2>1, <2>2, AheadType, OrderedExtends
       DEF InvOrder
<1>6. InvOrder'
  BY <1>0, <1>1, <1>5, AheadType DEF InvOrder
<1>7. InvLink'
  BY <1>0, <1>2 DEF InvLink
<1>. QED
  BY <1>3, <1>6, <1>7 DEF CacheInv

\* Part of what was sent is lost with the connection.
LEMMA LossStep ==
  ASSUME CacheInv, Disconnect, srv' \in Station, ver' \in Versions,
         ver <= ver', known' \in BOOLEAN,
         UNCHANGED <<streamVars, statusVars, cache, scriptVars>>
  PROVE  CacheInv'
<1> USE DEF streamVars, statusVars, scriptVars
<1>0. TypeOK /\ InvOrder /\ InvLink
  BY DEF CacheInv
<1>1. PICK n \in 0 .. Len(wire) : wire' = SubSeq(wire, 1, n)
  BY DEF Disconnect
<1>2. /\ wire' \in Seq(WireEvent) /\ Len(wire') = n /\ n <= Len(wire)
      /\ n \in Nat /\ Len(wire) \in Nat
      /\ \A k \in 1 .. n : wire'[k] = wire[k]
  BY <1>0, <1>1, AheadType
<1>3. /\ Ahead' \in Seq(Callback) /\ Len(Ahead') <= Len(Ahead)
      /\ \A k \in 1 .. Len(Ahead') : Ahead'[k] = Ahead[k]
  <2>1. wire' \in Seq(Callback) /\ dispatch' = dispatch
    BY <1>2, Callbacks
  <2>2. dispatch \in Seq(Callback) /\ wire \in Seq(Callback)
    BY <1>0, AheadType
  <2>. QED
    BY <1>2, <2>1, <2>2 DEF Ahead
<1>4. TypeOK'
  <2>1. losses' \in 0 .. MaxLosses
    <3>1. losses \in 0 .. MaxLosses /\ MaxLosses \in Nat
      BY <1>0, CacheAssumption DEF CacheAssumption, TypeOK
    <3>. QED
      BY <3>1 DEF Disconnect
  <2>2. link' = FALSE
    BY DEF Disconnect
  <2>. QED
    BY <1>0, <1>2, <2>1, <2>2 DEF TypeOK
<1>5. Ordered(Ahead', heardAt, ver)
  BY <1>0, <1>3, AheadType, OrderedPrefix DEF InvOrder
<1>6. InvOrder'
  <2>1. ver' \in Int /\ heardAt' = heardAt /\ foldedAt' = foldedAt
    BY Numbers
  <2>2. \A k \in 1 .. Len(Ahead') : Ahead'[k].at \in Int
    BY <1>3, Callbacks, Numbers, ElementOfSeq
  <2>3. Ordered(Ahead', heardAt, ver')
    BY <1>0, <1>5, <2>1, <2>2, AheadType DEF Ordered
  <2>. QED
    BY <1>0, <2>1, <2>3, AheadType DEF InvOrder
<1>7. InvLink'
  <2>1. ~link' /\ (wire = <<>> => wire' = <<>>)
    <3>1. wire = <<>> => Len(wire') = 0
      BY <1>2
    <3>. QED
      BY <1>2, <3>1 DEF Disconnect
  <2>. QED
    BY <1>0, <2>1 DEF InvLink
<1>. QED
  BY <1>4, <1>6, <1>7 DEF CacheInv

\* Steps that move neither queue.
LEMMA StillStep ==
  ASSUME CacheInv, TypeOK', UNCHANGED <<wire, dispatch, heardAt, ver>>,
         UNCHANGED foldedAt, InvLink'
  PROVE  CacheInv'
<1>1. Ahead' = Ahead
  BY DEF Ahead
<1>2. InvOrder'
  BY <1>1 DEF CacheInv, InvOrder
<1>. QED
  BY <1>2 DEF CacheInv

\* What the audio server does.
LEMMA ServerStep ==
  ASSUME CacheInv, Server
  PROVE  CacheInv'
<1> USE DEF linkVars, streamVars, statusVars, scriptVars, audioVars
<1>0. /\ TypeOK /\ InvLink /\ srv \in Station /\ ver \in Versions
      /\ known \in BOOLEAN /\ link \in BOOLEAN
      /\ srv.track \in Versions /\ srv.length \in 0 .. MaxQueue
  BY DEF CacheInv, TypeOK, Station
<1>1. /\ <<"queue">> \in Seq(Kinds) /\ <<"ended">> \in Seq(Kinds)
      /\ <<"started", "queue">> \in Seq(Kinds)
  BY DEF Kinds
<1>2. CASE ServerQueues
  <2>1. srv.length + 1 \in 0 .. MaxQueue
    BY <1>0, <1>2, Numbers DEF ServerQueues
  <2>2. srv' \in Station
    BY <1>0, <1>2, <2>1 DEF ServerQueues, Station
  <2>. QED
    BY <1>1, <1>2, <2>2, ChangeStep DEF ServerQueues
<1>3. CASE ServerEnds
  <2>1. srv' \in Station
    BY <1>0, <1>3, Numbers DEF ServerEnds, Station
  <2>. QED
    BY <1>1, <1>3, <2>1, ChangeStep DEF ServerEnds
<1>4. CASE ServerStarts
  <2>1. srv.length - 1 \in 0 .. MaxQueue
    BY <1>0, <1>4, Numbers DEF ServerStarts
  <2>2. ver + 1 \in Versions
    BY <1>0, <1>4, Numbers DEF ServerStarts, Changes
  <2>3. srv' \in Station
    BY <1>4, <2>1, <2>2 DEF ServerStarts, Station
  <2>. QED
    BY <1>1, <1>4, <2>3, ChangeStep DEF ServerStarts
<1>5. CASE ServerRegisters
  <2>1. TypeOK'
    BY <1>0, <1>5 DEF ServerRegisters, TypeOK
  <2>. QED
    BY <1>0, <1>5, <2>1, StillStep DEF ServerRegisters, InvLink
<1>6. CASE ConnectionDrops
  <2>1. ver <= ver'
    BY <1>0, <1>6, Numbers DEF ConnectionDrops
  <2>. QED
    BY <1>0, <1>6, <2>1, LossStep DEF ConnectionDrops
<1>7. CASE ServerRestarts
  <2>1. ver' \in Versions /\ ver <= ver'
    BY <1>0, <1>7, Numbers DEF ServerRestarts
  <2>2. srv' \in Station /\ known' \in BOOLEAN
    <3>1. srv' = [track |-> 0, length |-> 0] /\ known' = FALSE
      BY <1>7 DEF ServerRestarts
    <3>2. 0 \in Versions /\ 0 \in 0 .. MaxQueue
      BY Numbers
    <3>3. [track |-> 0, length |-> 0] \in Station
      BY <3>2 DEF Station
    <3>. QED
      BY <3>1, <3>3
  <2>. QED
    BY <1>7, <2>1, <2>2, LossStep DEF ServerRestarts
<1>. QED
  BY <1>2, <1>3, <1>4, <1>5, <1>6, <1>7 DEF Server

\* What the stream thread does.
LEMMA StreamStep ==
  ASSUME CacheInv, Stream
  PROVE  CacheInv'
<1> USE DEF linkVars, streamVars, statusVars, scriptVars, audioVars
<1>0. TypeOK /\ InvOrder /\ InvLink
  BY DEF CacheInv
<1>1. CASE RegisterSends \/ RegisterFails
  <2>1. TypeOK'
    BY <1>0, <1>1 DEF RegisterSends, RegisterFails, TypeOK, StreamPoints
  <2>. QED
    BY <1>0, <1>1, <2>1, StillStep DEF RegisterSends, RegisterFails, InvLink
<1>2. CASE RegisterSucceeds
  <2> DEFINE c == [kind |-> "registered", fresh |-> reply = "fresh", at |-> ver]
  <2>1. c \in Callback /\ c.at = ver
    BY <1>0 DEF TypeOK, Callback
  <2>2. dispatch' = Append(dispatch, c) /\ UNCHANGED <<wire, heardAt, ver, foldedAt>>
    BY <1>2 DEF RegisterSucceeds, Push
  <2>. HIDE DEF c
  <2>3. wire = <<>> /\ ~link
    BY <1>0, <1>2 DEF RegisterSucceeds, InvLink
  <2>4. <<c>> \in Seq(Callback) /\ \A k \in 1 .. Len(<<c>>) : <<c>>[k].at = ver
    BY <2>1
  <2>5. Ahead' = Ahead \o <<c>>
    <3>1. Ahead' = Append(dispatch, c) /\ Ahead = dispatch
      BY <1>0, <2>1, <2>2, <2>3, AheadType DEF Ahead
    <3>. QED
      BY <1>0, <2>1, <3>1, AheadType
  <2>6. Ordered(Ahead', heardAt, ver)
    <3>1. ver <= ver
      BY <1>0, AheadType
    <3>. HIDE DEF Ordered
    <3>. QED
      BY <1>0, <2>4, <2>5, <3>1, AheadType, OrderedExtends DEF InvOrder
  <2>7. InvOrder'
    BY <1>0, <2>2, <2>6 DEF InvOrder
  <2>8. TypeOK'
    <3>1. dispatch' \in Seq(Callback)
      BY <1>0, <2>1, <2>2 DEF TypeOK
    <3>. QED
      BY <1>0, <1>2, <3>1 DEF RegisterSucceeds, TypeOK, StreamPoints
  <2>9. InvLink'
    BY <1>2, <2>3 DEF RegisterSucceeds, InvLink
  <2>. QED
    BY <2>7, <2>8, <2>9 DEF CacheInv
<1>3. CASE StreamRefreshes
  <2>1. TypeOK'
    BY <1>0, <1>3 DEF StreamRefreshes, TypeOK, StreamPoints
  <2>. QED
    BY <1>0, <1>3, <2>1, StillStep DEF StreamRefreshes, InvLink
<1>4. CASE OpenSucceeds
  <2>1. wire = <<>> /\ wire' = <<>> /\ UNCHANGED <<dispatch, heardAt, ver, foldedAt>>
    BY <1>0, <1>4 DEF OpenSucceeds, InvLink
  <2>2. TypeOK'
    BY <1>0, <1>4, <2>1 DEF OpenSucceeds, TypeOK, StreamPoints
  <2>3. InvLink'
    BY <1>4 DEF OpenSucceeds, InvLink
  <2>. QED
    BY <2>1, <2>2, <2>3, StillStep
<1>5. CASE DispatchStationEvent
  <2> DEFINE e == Head(wire)
  <2>0. /\ wire # <<>> /\ wire' = Tail(wire) /\ dispatch' = Append(dispatch, e)
        /\ cache' = Fold(e) /\ foldedAt' \in {foldedAt, e.at}
        /\ streamAt' \in {"refreshing", "reading"}
        /\ UNCHANGED <<srv, ver, known, link, losses, reply, asks, calls,
                       failed, heardAt>>
    BY <1>5 DEF DispatchStationEvent, Push
  <2>1. e \in WireEvent /\ e = wire[1] /\ wire' \in Seq(WireEvent) /\ Len(wire) > 0
    BY <1>0, <2>0, AheadType
  <2>. HIDE DEF e
  <2>2. e \in Callback /\ e.at \in Versions
    BY <2>1, Callbacks
  <2>3. Ahead' = Ahead
    <3>1. wire = <<e>> \o wire' /\ wire' \in Seq(Callback)
      BY <1>0, <2>0, <2>1, AheadType, Callbacks DEF e
    <3>2. <<e>> \in Seq(Callback) /\ Append(dispatch, e) = dispatch \o <<e>>
      BY <1>0, <2>2, AheadType
    <3>3. (dispatch \o <<e>>) \o wire' = dispatch \o (<<e>> \o wire')
      BY <1>0, <3>1, <3>2, AheadType, ConcatAssociative
    <3>. QED
      BY <2>0, <3>1, <3>2, <3>3 DEF Ahead
  <2>4. e.at <= ver
    <3>1. Len(Ahead) = Len(dispatch) + Len(wire) /\ Len(dispatch) \in Nat
          /\ Ahead[Len(dispatch) + 1] = wire[1]
      BY <1>0, <2>1, AheadType DEF Ahead
    <3>2. Len(dispatch) + 1 \in 1 .. Len(Ahead)
      BY <1>0, <2>1, <3>1, AheadType, LenProperties
    <3>. QED
      BY <1>0, <2>1, <3>1, <3>2 DEF InvOrder, Ordered
  <2>5. InvOrder'
    BY <1>0, <2>0, <2>3, <2>4 DEF InvOrder
  <2>6. Fold(e) \in [track : Versions, trackAt : Versions, length : 0 .. MaxQueue]
    BY <1>0, <2>1, Callbacks, Numbers DEF Fold, TypeOK
  <2>7. TypeOK'
    <3>1. dispatch' \in Seq(Callback) /\ foldedAt' \in Versions
      BY <1>0, <2>0, <2>2, AheadType DEF TypeOK
    <3>. QED
      BY <1>0, <2>0, <2>1, <2>6, <3>1 DEF TypeOK, StreamPoints
  <2>8. InvLink'
    BY <2>0 DEF InvLink
  <2>. QED
    BY <2>5, <2>7, <2>8 DEF CacheInv
<1>6. CASE ReadFails
  <2>1. TypeOK'
    BY <1>0, <1>6 DEF ReadFails, TypeOK, StreamPoints
  <2>. QED
    BY <1>0, <1>6, <2>1, StillStep DEF ReadFails, InvLink
<1>. QED
  BY <1>1, <1>2, <1>3, <1>4, <1>5, <1>6 DEF Stream

\* What the poller and the workers do.
LEMMA WorkerStep ==
  ASSUME CacheInv, PollerAsks \/ \E w \in Workers : Worker(w)
  PROVE  CacheInv'
<1> USE DEF linkVars, streamVars, statusVars, scriptVars, audioVars
<1>0. TypeOK /\ InvLink
  BY DEF CacheInv
<1>1. UNCHANGED <<wire, dispatch, heardAt, ver, foldedAt, streamAt, link>>
  BY DEF PollerAsks, Worker, TakeStatus, ServerAnswers, ApplyStatus, CallFails
<1>2. CASE PollerAsks
  BY <1>0, <1>1, <1>2, StillStep DEF PollerAsks, InvLink, TypeOK
<1>3. ASSUME NEW w \in Workers, Worker(w) PROVE TypeOK'
  <2>0. /\ calls \in [Workers -> Snapshot \cup {NoCall, Asked}]
        /\ calls[w] \in Snapshot \cup {NoCall, Asked} /\ asks \in Nat
    BY <1>0 DEF TypeOK
  <2>1. CASE TakeStatus(w)
    <3>1. asks' \in Nat
      BY <2>0, <2>1 DEF TakeStatus
    <3>2. calls' \in [Workers -> Snapshot \cup {NoCall, Asked}]
      BY <2>0, <2>1 DEF TakeStatus
    <3>. QED
      BY <1>0, <2>1, <3>1, <3>2 DEF TakeStatus, TypeOK
  <2>2. CASE ServerAnswers(w)
    <3>1. [station |-> srv, at |-> ver] \in Snapshot
      BY <1>0 DEF TypeOK, Snapshot
    <3>2. calls' \in [Workers -> Snapshot \cup {NoCall, Asked}]
      BY <2>0, <2>2, <3>1 DEF ServerAnswers
    <3>. QED
      BY <1>0, <2>2, <3>2 DEF ServerAnswers, TypeOK
  <2>3. CASE ApplyStatus(w)
    <3>1. calls[w] \in Snapshot
      BY <2>0, <2>3, Calls DEF ApplyStatus
    <3>2. Applied(calls[w])
            \in [track : Versions, trackAt : Versions, length : 0 .. MaxQueue]
      BY <3>1, Calls DEF Applied
    <3>3. calls' \in [Workers -> Snapshot \cup {NoCall, Asked}]
      BY <2>0, <2>3 DEF ApplyStatus
    <3>. QED
      BY <1>0, <2>3, <3>2, <3>3 DEF ApplyStatus, TypeOK
  <2>4. CASE CallFails(w)
    <3>1. calls' \in [Workers -> Snapshot \cup {NoCall, Asked}]
      BY <2>0, <2>4 DEF CallFails
    <3>. QED
      BY <1>0, <2>4, <3>1 DEF CallFails, TypeOK
  <2>. QED
    BY <1>3, <2>1, <2>2, <2>3, <2>4 DEF Worker
<1>. QED
  BY <1>0, <1>1, <1>2, <1>3, StillStep DEF InvLink

\* What the main thread does: the oldest callback is heard.
LEMMA DeliverStep ==
  ASSUME CacheInv, Deliver
  PROVE  CacheInv' /\ heardAt' >= heardAt
<1> USE DEF linkVars, streamVars, statusVars, audioVars
<1>0. TypeOK /\ InvOrder /\ InvLink
  BY DEF CacheInv
<1>1. /\ dispatch # <<>> /\ heardAt' = dispatch[1].at
      /\ dispatch' = SubSeq(dispatch, 1, 0) \o SubSeq(dispatch, 2, Len(dispatch))
      /\ UNCHANGED <<wire, ver, foldedAt, streamAt, link>>
  <2>1. 1 - 1 = 0 /\ 1 + 1 = 2
    OBVIOUS
  <2>. QED
    BY <2>1 DEF Deliver, NextCallback
<1>2. /\ dispatch \in Seq(Callback) /\ wire \in Seq(Callback)
      /\ Len(dispatch) \in Nat \ {0} /\ dispatch[1] \in Callback
  BY <1>0, <1>1, AheadType
<1>3. dispatch' = Tail(dispatch)
  BY <1>1, <1>2
<1>4. /\ Ahead # <<>> /\ Ahead[1] = dispatch[1] /\ Ahead' = Tail(Ahead)
  BY <1>1, <1>2, <1>3 DEF Ahead
<1>5. /\ heardAt <= heardAt' /\ heardAt' <= ver /\ heardAt' \in Versions
      /\ Ordered(Ahead', heardAt', ver)
  BY <1>0, <1>1, <1>2, <1>4, AheadType, Callbacks, OrderedTail DEF InvOrder
<1>6. InvOrder'
  BY <1>0, <1>1, <1>5 DEF InvOrder
<1>7. TypeOK'
  <2>1. dispatch' \in Seq(Callback)
    BY <1>2, <1>3
  <2>. QED
    BY <1>0, <1>5, <2>1 DEF Deliver, TypeOK
<1>8. InvLink'
  BY <1>0, <1>1 DEF InvLink
<1>9. heardAt' >= heardAt
  BY <1>0, <1>5, Numbers, AheadType
<1>. QED
  BY <1>6, <1>7, <1>8, <1>9 DEF CacheInv

LEMMA CacheStep ==
  ASSUME CacheInv, [Next]_vars
  PROVE  CacheInv'
<1>1. CASE UNCHANGED vars
  <2>. USE <1>1 DEF vars, audioVars, linkVars, streamVars, statusVars, scriptVars
  <2>1. TypeOK' /\ InvLink'
    BY DEF CacheInv, TypeOK, InvLink
  <2>. QED
    BY <2>1, StillStep
<1>. QED
  BY <1>1, ServerStep, StreamStep, WorkerStep, DeliverStep DEF Next

LEMMA CacheInvariant == Spec => []CacheInv
<1>1. Init => CacheInv
  BY InitCacheInv
<1>2. CacheInv /\ [Next]_vars => CacheInv'
  BY CacheStep
<1>. QED
  BY <1>1, <1>2, PTL DEF Spec

-----------------------------------------------------------------------------
(* One worker                                                                *)

OneWorker == \A v, w \in Workers : v = w

\* A track event is followed by a request for a snapshot, and the one worker
\* answers it after every call that began before.
LEMMA LastStep ==
  ASSUME OneWorker, CacheInv, InvLast, [Next]_vars
  PROVE  InvLast'
<1> USE DEF linkVars, streamVars, statusVars, scriptVars, audioVars
<1>0. /\ TypeOK /\ foldedAt \in Int /\ foldedAt <= ver /\ 0 <= foldedAt
      /\ asks \in Nat /\ ver \in Versions
      /\ calls \in [Workers -> Snapshot \cup {NoCall, Asked}]
  BY Numbers DEF CacheInv, TypeOK, InvOrder
<1>1. ASSUME UNCHANGED <<calls, failed, foldedAt>>,
             cache'.trackAt = cache.trackAt, Coming => Coming'
      PROVE  InvLast'
  BY <1>1 DEF InvLast
<1>2. CASE Server \/ Deliver \/ UNCHANGED vars
  BY <1>1, <1>2
     DEF Server, ServerQueues, ServerEnds, ServerStarts, Changes,
         ServerRegisters, ConnectionDrops, ServerRestarts, Deliver, vars,
         Coming
<1>3. CASE RegisterSends \/ RegisterSucceeds \/ RegisterFails
             \/ OpenSucceeds \/ ReadFails
  <2>1. streamAt # "refreshing" /\ UNCHANGED asks
    BY <1>3
       DEF RegisterSends, RegisterSucceeds, RegisterFails, OpenSucceeds,
           ReadFails
  <2>2. Coming => Coming'
    BY <2>1 DEF Coming
  <2>. QED
    BY <1>1, <1>3, <2>2
       DEF RegisterSends, RegisterSucceeds, RegisterFails, OpenSucceeds,
           ReadFails
<1>4. CASE StreamRefreshes \/ PollerAsks
  <2>1. asks' > 0
    BY <1>0, <1>4 DEF StreamRefreshes, PollerAsks
  <2>. QED
    BY <1>1, <1>4, <2>1 DEF StreamRefreshes, PollerAsks, Coming
<1>5. CASE DispatchStationEvent
  <2> DEFINE e == Head(wire)
  <2>1. cache' = Fold(e) /\ UNCHANGED <<calls, failed, asks>>
    BY <1>5 DEF DispatchStationEvent
  <2>2. e \in WireEvent
    BY <1>0, <1>5 DEF DispatchStationEvent, TypeOK
  <2>3. CASE AsksForSnapshot(e)
    <3>1. streamAt' = "refreshing"
      BY <1>5, <2>3 DEF DispatchStationEvent
    <3>. QED
      BY <3>1 DEF InvLast, Coming
  <2>4. CASE ~AsksForSnapshot(e)
    <3>1. e.kind = "queue"
      BY <2>2, <2>4 DEF AsksForSnapshot, WireEvent
    <3>2. foldedAt' = foldedAt /\ streamAt = "reading" /\ streamAt' = "reading"
      BY <1>5, <2>4, <3>1 DEF DispatchStationEvent
    <3>3. cache'.trackAt = cache.trackAt
      BY <1>0, <2>1, <3>1 DEF Fold, TypeOK
    <3>4. Coming => Coming'
      BY <2>1, <3>2 DEF Coming
    <3>. QED
      BY <1>1, <2>1, <3>2, <3>3, <3>4
  <2>. QED
    BY <2>3, <2>4
<1>6. ASSUME NEW w \in Workers, Worker(w) PROVE InvLast'
  <2>0. /\ \A v \in Workers : v = w
        /\ calls[w] \in Snapshot \cup {NoCall, Asked}
        /\ UNCHANGED <<foldedAt, streamAt>>
    BY <1>0, <1>6
       DEF OneWorker, Worker, TakeStatus, ServerAnswers, ApplyStatus, CallFails
  <2>1. CASE TakeStatus(w)
    <3>1. calls'[w] = Asked
      BY <1>0, <2>1 DEF TakeStatus
    <3>. QED
      BY <2>0, <3>1, Calls DEF InvLast
  <2>2. CASE ServerAnswers(w)
    <3>1. calls'[w].at = ver /\ calls'[w] # NoCall
      <4>1. calls'[w] = [station |-> srv, at |-> ver]
        BY <1>0, <2>2 DEF ServerAnswers
      <4>2. ver # -2
        BY <1>0, Numbers
      <4>. QED
        BY <4>1, <4>2, Calls
    <3>2. ~(calls'[w].at < foldedAt')
      BY <1>0, <2>0, <3>1, Numbers
    <3>. QED
      BY <2>0, <3>1, <3>2 DEF InvLast
  <2>3. CASE ApplyStatus(w)
    <3>1. /\ calls'[w] = NoCall /\ UNCHANGED asks /\ calls[w].at >= 0
          /\ cache'.trackAt = calls[w].at
      BY <1>0, <2>3 DEF ApplyStatus, Applied
    <3>2. calls[w].at < foldedAt => Coming'
      BY <2>0, <3>1 DEF InvLast, Coming
    <3>. QED
      BY <2>0, <3>1, <3>2, Calls DEF InvLast
  <2>4. CASE CallFails(w)
    <3>1. calls'[w] = NoCall /\ failed' = TRUE
      BY <1>0, <2>4 DEF CallFails
    <3>. QED
      BY <2>0, <3>1, Calls DEF InvLast
  <2>. QED
    BY <1>6, <2>1, <2>2, <2>3, <2>4 DEF Worker
<1>. QED
  BY <1>2, <1>3, <1>4, <1>5, <1>6 DEF Next, Stream

-----------------------------------------------------------------------------
(* The theorems                                                              *)

\* The cache, the calls and both queues are type correct: no version runs ahead
\* of the audio server's.
THEOREM CacheTypeOK == Spec => []TypeOK
<1>1. CacheInv => TypeOK
  BY DEF CacheInv
<1>. QED
  BY <1>1, CacheInvariant, PTL

\* With any number of workers, the events of a station are heard in the order
\* the audio server sent them: a registration never overtakes what is left of
\* the stream before it (DispatchStationEvent, RegisterWithRetry, Tick).
THEOREM EventsAreHeardInOrder == Spec => HeardInOrder
<1>1. CacheInv /\ [Next]_vars => [heardAt' >= heardAt]_heardAt
  <2> SUFFICES ASSUME CacheInv, [Next]_vars, heardAt' # heardAt
               PROVE  heardAt' >= heardAt
    OBVIOUS
  <2>1. Deliver
    BY DEF Next, Server, ServerQueues, ServerEnds, ServerStarts, Changes,
           ServerRegisters, ConnectionDrops, ServerRestarts, Stream,
           RegisterSends, RegisterSucceeds, RegisterFails, StreamRefreshes,
           OpenSucceeds, DispatchStationEvent, ReadFails, PollerAsks, Worker,
           TakeStatus, ServerAnswers, ApplyStatus, CallFails, vars, scriptVars
  <2>. QED
    BY <2>1, DeliverStep
<1>. QED
  BY <1>1, CacheInvariant, PTL DEF Spec, HeardInOrder

\* With one worker and every event, poll and failure in any order, a snapshot
\* older than the last track event does not stay in the cache.
THEOREM OneWorkerKeepsNoOlderTrack ==
  ASSUME OneWorker
  PROVE  Spec => []QuietCacheIsNoOlder
<1>1. CacheInv /\ InvLast /\ [Next]_vars => CacheInv' /\ InvLast'
  BY CacheStep, LastStep
<1>2. ASSUME CacheInv, InvLast PROVE QuietCacheIsNoOlder
  <2>1. cache.trackAt \in Int /\ foldedAt \in Int
    BY <1>2, Numbers DEF CacheInv, TypeOK
  <2>2. Quiet => ~Coming
    BY DEF Quiet, Coming
  <2>. QED
    BY <1>2, <2>1, <2>2 DEF InvLast, Quiet, QuietCacheIsNoOlder
<1>. QED
  BY <1>1, <1>2, InitCacheInv, PTL DEF Spec

=============================================================================

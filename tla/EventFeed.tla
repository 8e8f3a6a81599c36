------------------------------ MODULE EventFeed ------------------------------
(***************************************************************************)
(* What SubscribeEvents promises to StreamLoop (src/src/manager.cpp),      *)
(* without bytes: the frames the audio server sends are read whole, in     *)
(* order and once; a timeout loses nothing; a broken connection loses only *)
(* what never arrived; and the end of the stream is reported after         *)
(* everything that did arrive, unless a frame that ends it comes first.    *)
(* No frame that arrived is left unread for ever.                          *)
(***************************************************************************)
EXTENDS Integers, Sequences

CONSTANTS
  Events,   \* frames whose payload is an event
  Endings   \* frames that end the stream when they are read

VARIABLES
  feed,   \* frames sent on this subscription and not yet read
  live,   \* the subscription is up for its reader
  result  \* what the last read returned, "none" while one runs

feedVars == <<feed, live, result>>

Results == [kind : {"event"}, frame : Events]
             \cup [kind : {"none", "timeout", "ended"}, frame : {"none"}]

Returned(kind) == [kind |-> kind, frame |-> "none"]

Init == feed = <<>> /\ live = FALSE /\ result = Returned("none")

Subscribe ==
  /\ ~live
  /\ live' = TRUE /\ feed' = <<>> /\ result' = Returned("none")

Refused == ~live /\ result' = Returned("ended") /\ UNCHANGED <<feed, live>>

Publish(f) == live /\ feed' = Append(feed, f) /\ UNCHANGED <<live, result>>

\* The tail of the feed never arrives.
Loses ==
  /\ \E n \in 0 .. Len(feed) : feed' = SubSeq(feed, 1, n)
  /\ UNCHANGED <<live, result>>

Hears ==
  /\ live /\ feed # <<>> /\ Head(feed) \in Events
  /\ result' = [kind |-> "event", frame |-> Head(feed)]
  /\ feed' = Tail(feed)
  /\ UNCHANGED live

\* The next read begins.
Reads == live /\ result' = Returned("none") /\ UNCHANGED <<feed, live>>

Waits == live /\ result' = Returned("timeout") /\ UNCHANGED <<feed, live>>

Ends ==
  /\ live /\ (feed = <<>> \/ Head(feed) \in Endings)
  /\ live' = FALSE /\ feed' = <<>> /\ result' = Returned("ended")

Next ==
  \/ Subscribe \/ Refused \/ Loses \/ Reads \/ Hears \/ Waits \/ Ends
  \/ \E f \in Events \cup Endings : Publish(f)

Spec == Init /\ [][Next]_feedVars

\* The reader goes on reading as long as frames are there.
FairSpec == Spec /\ ([]<>(feed = <<>>) \/ []<><<Hears \/ Ends>>_feedVars)
=============================================================================

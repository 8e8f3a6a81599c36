--------------------------- MODULE MCScriptCallbacks ---------------------------
(* ScriptCallbacks for TLC: a gamemode that has room for every callback, and *)
(* two filterscripts.  A track that ends takes 5 cells of strings and 3 of   *)
(* arguments: one has room for the strings and one argument only, the other  *)
(* for one of the strings.                                                   *)
EXTENDS ScriptCallbacks, TLC

CONSTANTS gamemode, fs1, fs2, version, queueId, reason

MCScripts == {gamemode, fs1, fs2}

MCEvents ==
  { [name |-> "OnGoRadioServerInfo", args |-> <<Str(version, 1)>>],
    [name |-> "OnGoRadioTrackEnded",
     args |-> <<Num(0), Str(queueId, 1), Str(reason, 2)>>],
    [name |-> "OnGoRadioQueueLow", args |-> <<Num(0), Num(1), Num(2)>>] }

MCDefines ==
  (gamemode :> {e.name : e \in MCEvents})
    @@ (fs1 :> {"OnGoRadioServerInfo", "OnGoRadioTrackEnded"})
    @@ (fs2 :> {"OnGoRadioTrackEnded", "OnGoRadioQueueLow"})

MCHeapRoom == (gamemode :> 8) @@ (fs1 :> 6) @@ (fs2 :> 4)
=============================================================================

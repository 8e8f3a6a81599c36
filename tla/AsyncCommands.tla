---------------------------- MODULE AsyncCommands ----------------------------
(***************************************************************************)
(* What the command natives promise a script (docs/content/pawn-api/       *)
(* playback.md): a native returns a fresh request id at once, and the      *)
(* command is later reported in one callback, unless the plugin gives the  *)
(* command up.  Reports are heard in the order they were made.             *)
(* CommandPipeline implements this specification.                          *)
(*                                                                         *)
(* What was reported and not heard yet is a set with the order it came in, *)
(* so that what the queue of callbacks holds besides reports does not show.*)
(***************************************************************************)

CONSTANT Requests  \* the request ids a native may return

VARIABLES
  open,    \* accepted, not reported and not given up
  outbox,  \* reported, waiting for the main thread to run the callback
  before,  \* <<r, s>>: both wait, and r was reported before s
  heard,   \* the script has had its callback
  dropped  \* given up without a report

vars == <<open, outbox, before, heard, dropped>>

Init == open = {} /\ outbox = {} /\ before = {} /\ heard = {} /\ dropped = {}

\* The native returns an id no earlier command had.
Accept(r) ==
  /\ r \notin open \cup outbox \cup heard \cup dropped
  /\ open' = open \cup {r}
  /\ UNCHANGED <<outbox, before, heard, dropped>>

\* The command succeeded or failed; either way it has one result.
Report(r) ==
  /\ r \in open
  /\ open' = open \ {r}
  /\ before' = before \cup (outbox \X {r})
  /\ outbox' = outbox \cup {r}
  /\ UNCHANGED <<heard, dropped>>

\* The callback of the oldest result runs.
Hear(r) ==
  /\ r \in outbox /\ \A s \in outbox : <<s, r>> \notin before
  /\ heard' = heard \cup {r}
  /\ outbox' = outbox \ {r}
  /\ before' = before \ ({r} \X outbox)
  /\ UNCHANGED <<open, dropped>>

\* The plugin gives some of the open commands up.
GiveUp ==
  \E S \in SUBSET open :
     /\ open' = open \ S
     /\ dropped' = dropped \cup S
     /\ UNCHANGED <<outbox, before, heard>>

Next == (\E r \in Requests : Accept(r) \/ Report(r) \/ Hear(r)) \/ GiveUp

Spec == Init /\ [][Next]_vars

=============================================================================
